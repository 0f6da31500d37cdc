------------------------ MODULE InboundPaymentProofs ------------------------
(***************************************************************************)
(* Proofs about the payments of the inbound path, for every set of blocks  *)
(* and deposits: as long as the public chain has not reorganised, no       *)
(* payment is counted twice, no request is made without its payments, and  *)
(* a deposit is in one place at a time.                                    *)
(***************************************************************************)
EXTENDS InboundProofs, FiniteSetTheorems

-----------------------------------------------------------------------------
(* How the loop follows a chain that does not reorganise.  The heads in the *)
(* channel are those of the last blocks, in their order; a transaction is   *)
(* on the chain once; and what is left of the block at hand comes from a    *)
(* block whose head was taken.                                              *)
Taken == Len(canon) - Len(heads)
Announced ==
    /\ Taken \in Nat
    /\ \A i \in 1..Len(heads) : heads[i] = Taken + i
OnceOnChain ==
    \A h, k \in 1..Len(canon) : \A i \in 1..Len(canon[h]), m \in 1..Len(canon[k]) :
        canon[h][i] = canon[k][m] => h = k /\ i = m
TodoTaken ==
    /\ pc = "idle" => todo = <<>>
    /\ \A i, k \in 1..Len(todo) : todo[i] = todo[k] => i = k
    /\ \A i \in 1..Len(todo) : \E h \in 1..Taken : \E m \in 1..Len(canon[h]) :
            canon[h][m] = todo[i]
Following == Announced /\ OnceOnChain /\ TodoTaken

(* The transactions of the chain that the loop will come to, and those it   *)
(* has passed.                                                              *)
Ahead(tx) ==
    \/ \E i \in 1..Len(todo) : todo[i] = tx
    \/ \E h \in (Taken + 1)..Len(canon) : \E i \in 1..Len(canon[h]) : canon[h][i] = tx
Past(tx) == Mined(tx) /\ ~Ahead(tx)

(* A deposit the node knows of was passed, and the fee it has counted is    *)
(* covered by the payments that were.                                       *)
IsTokenOf(t, tx) == tx.kind = "erc20" /\ tx.hash = t /\ tx.status = 1
TokenPast(t) == \E tx \in PubTx : IsTokenOf(t, tx) /\ Past(tx)
PastFees(t) == {tx \in PubTx : IsFeeOf(t, tx) /\ Past(tx)}
Paid(t) == TotalValue(PastFees(t))
Covered(t) ==
    /\ pendingInbounds[t] # None => TokenPast(t) /\ pendingInbounds[t].fee <= Paid(t)
    /\ pendingInboundsBnB[t] # None => pendingInboundsBnB[t].fee <= Paid(t)
    /\ Accepted(t) => TokenPast(t) /\ FeeMin <= Paid(t)

PayInv ==
    /\ reorgs <= MaxReorg
    /\ NoReorgYet => Following /\ \A t \in TxId : Covered(t) /\ Single(t)

-----------------------------------------------------------------------------
(* The equation that defines the fold, over the subsets of a set of txs.    *)
First(s) == CHOOSE y \in s : TRUE
SumsUp(g, txs) ==
    g = [s \in SUBSET txs |-> IF s = {} THEN 0 ELSE First(s).value + g[s \ {First(s)}]]

LEMMA TotalValueFold ==
    ASSUME NEW txs
    PROVE  TotalValue(txs) = (CHOOSE g : SumsUp(g, txs))[txs]
BY SMT DEF TotalValue, MapThenSumSet, MapThenFoldSet, SumsUp, First

(* A set of subsets of a finite set has a least one, which takes the place  *)
(* of an induction on finite sets.                                          *)
LEMMA LeastSubset ==
    ASSUME NEW txs, IsFiniteSet(txs), NEW bad, bad \subseteq SUBSET txs, bad # {}
    PROVE  \E s \in bad : \A r \in SUBSET s : r # s => r \notin bad
<1>1. FiniteSubsetsOf(txs) = SUBSET txs
  BY FS_FiniteSubsetsOfFinite
<1>2. IsWellFoundedOn(StrictSubsetOrdering(txs), SUBSET txs)
  BY <1>1, FS_StrictSubsetOrderingWellFounded
<1>3. PICK s \in bad : \A r \in bad : ~ (<<r, s>> \in StrictSubsetOrdering(txs))
  BY <1>2, WFMin
<1>4. ASSUME NEW r \in SUBSET s, r # s, r \in bad
      PROVE  FALSE
  BY <1>3, <1>4 DEF StrictSubsetOrdering
<1> QED BY <1>4

LEMMA FirstIn ==
    ASSUME NEW s, s # {}
    PROVE  First(s) \in s
BY DEF First

(* The equation has at most one solution. *)
LEMMA SumsUpUnique ==
    ASSUME NEW txs, IsFiniteSet(txs), NEW g, NEW h, SumsUp(g, txs), SumsUp(h, txs)
    PROVE  g = h
<1> DEFINE bad == {s \in SUBSET txs : g[s] # h[s]}
<1>1. ASSUME bad # {} PROVE FALSE
  <2>1. PICK s \in bad : \A r \in SUBSET s : r # s => r \notin bad
    <3>1. bad \subseteq SUBSET txs
      OBVIOUS
    <3> HIDE DEF bad
    <3> QED BY <1>1, <3>1, LeastSubset
  <2>2. s # {}
    BY <2>1 DEF SumsUp
  <2>3. First(s) \in s
    BY <2>2, FirstIn
  <2>4. g[s \ {First(s)}] = h[s \ {First(s)}]
    BY <2>1, <2>3
  <2>5. /\ g[s] = First(s).value + g[s \ {First(s)}]
        /\ h[s] = First(s).value + h[s \ {First(s)}]
    BY <2>1, <2>2 DEF SumsUp
  <2> QED BY <2>1, <2>4, <2>5
<1>2. DOMAIN g = SUBSET txs /\ DOMAIN h = SUBSET txs
  BY DEF SumsUp
<1>3. g = [s \in SUBSET txs |-> g[s]] /\ h = [s \in SUBSET txs |-> h[s]]
  BY DEF SumsUp
<1> QED BY <1>1, <1>3

(* A solution for a set has in it the solutions for its subsets. *)
LEMMA SumsUpSubset ==
    ASSUME NEW txs, IsFiniteSet(txs), NEW g, SumsUp(g, txs), NEW s \in SUBSET txs
    PROVE  g[s] = TotalValue(s)
<1> DEFINE h == [r \in SUBSET s |-> g[r]]
<1>1. SumsUp(h, s)
  <2>1. ASSUME NEW r \in SUBSET s
        PROVE  g[r] = IF r = {} THEN 0 ELSE First(r).value + h[r \ {First(r)}]
    <3>1. r \in SUBSET txs /\ r \ {First(r)} \in SUBSET s
      OBVIOUS
    <3> QED BY <3>1 DEF SumsUp
  <2> QED BY <2>1 DEF SumsUp
<1>2. IsFiniteSet(s)
  BY FS_Subset
<1>3. SumsUp(CHOOSE f : SumsUp(f, s), s)
  BY <1>1
<1>4. (CHOOSE f : SumsUp(f, s)) = h
  BY <1>1, <1>2, <1>3, SumsUpUnique
<1> QED BY <1>4, TotalValueFold

(* It has one: the totals of the subsets. *)
LEMMA SumsUpExists ==
    ASSUME NEW txs, IsFiniteSet(txs)
    PROVE  \E g : SumsUp(g, txs)
<1> DEFINE bad == {s \in SUBSET txs : ~ \E g : SumsUp(g, s)}
<1>1. ASSUME bad # {} PROVE FALSE
  <2>1. PICK s \in bad : \A r \in SUBSET s : r # s => r \notin bad
    <3>1. bad \subseteq SUBSET txs
      OBVIOUS
    <3> HIDE DEF bad
    <3> QED BY <1>1, <3>1, LeastSubset
  <2> DEFINE Sum(r) == IF r = {} THEN 0 ELSE First(r).value + TotalValue(r \ {First(r)})
             h == [r \in SUBSET s |-> Sum(r)]
  <2>2. ASSUME NEW r \in SUBSET s, r # s
        PROVE  TotalValue(r) = Sum(r)
    <3>1. PICK g : SumsUp(g, r)
      BY <2>1, <2>2
    <3>2. IsFiniteSet(r)
      <4>1. r \in SUBSET txs
        OBVIOUS
      <4> QED BY <4>1, FS_Subset
    <3>3. g[r] = TotalValue(r) /\ g[r \ {First(r)}] = TotalValue(r \ {First(r)})
      BY <3>1, <3>2, SumsUpSubset
    <3>4. g[r] = IF r = {} THEN 0 ELSE First(r).value + g[r \ {First(r)}]
      BY <3>1 DEF SumsUp
    <3> QED BY <3>3, <3>4
  <2>3. ASSUME NEW r \in SUBSET s
        PROVE  h[r] = IF r = {} THEN 0 ELSE First(r).value + h[r \ {First(r)}]
    <3>1. CASE r = {}
      BY <3>1
    <3>2. CASE r # {}
      <4>1. /\ First(r) \in r /\ r \ {First(r)} \in SUBSET s /\ r \ {First(r)} # s
        BY <3>2, FirstIn
      <4>2. h[r \ {First(r)}] = TotalValue(r \ {First(r)})
        BY <2>2, <4>1
      <4> QED BY <3>2, <4>2
    <3> QED BY <3>1, <3>2
  <2>4. SumsUp(h, s)
    <3> HIDE DEF Sum
    <3>1. \A r \in SUBSET s : Sum(r) = IF r = {} THEN 0 ELSE First(r).value + h[r \ {First(r)}]
      BY <2>3
    <3> QED BY <3>1 DEF SumsUp
  <2> QED BY <2>1, <2>4
<1> QED BY <1>1

LEMMA TotalValueFirst ==
    ASSUME NEW txs, IsFiniteSet(txs)
    PROVE  TotalValue(txs) =
             IF txs = {} THEN 0 ELSE First(txs).value + TotalValue(txs \ {First(txs)})
<1>1. PICK g : SumsUp(g, txs)
  BY SumsUpExists
<1>2. g[txs] = TotalValue(txs) /\ g[txs \ {First(txs)}] = TotalValue(txs \ {First(txs)})
  BY <1>1, SumsUpSubset
<1>3. g[txs] = IF txs = {} THEN 0 ELSE First(txs).value + g[txs \ {First(txs)}]
  BY <1>1 DEF SumsUp
<1> QED BY <1>2, <1>3

-----------------------------------------------------------------------------
LEMMA TotalValueType ==
    ASSUME NEW txs, IsFiniteSet(txs), \A tx \in txs : tx.value \in Nat
    PROVE  TotalValue(txs) \in Nat
<1> DEFINE bad == {s \in SUBSET txs : TotalValue(s) \notin Nat}
<1>1. ASSUME bad # {} PROVE FALSE
  <2>1. PICK s \in bad : \A r \in SUBSET s : r # s => r \notin bad
    <3>1. bad \subseteq SUBSET txs
      OBVIOUS
    <3> HIDE DEF bad
    <3> QED BY <1>1, <3>1, LeastSubset
  <2>2. IsFiniteSet(s)
    BY FS_Subset
  <2>3. s # {}
    <3>1. TotalValue({}) = 0
      BY FS_EmptySet, TotalValueFirst
    <3>2. TotalValue(s) \notin Nat
      BY <2>1
    <3> HIDE DEF bad
    <3>3. ASSUME s = {} PROVE FALSE
      BY <3>1, <3>2, <3>3
    <3> QED BY <3>3
  <2>4. First(s) \in s /\ First(s).value \in Nat
    BY <2>3, FirstIn
  <2>5. TotalValue(s \ {First(s)}) \in Nat
    BY <2>1, <2>4
  <2> QED BY <2>1, <2>2, <2>3, <2>4, <2>5, TotalValueFirst
<1> QED BY <1>1

(* Any transaction of the set may be taken out first. *)
LEMMA TotalValueRemove ==
    ASSUME NEW txs, IsFiniteSet(txs), \A tx \in txs : tx.value \in Nat, NEW x \in txs
    PROVE  TotalValue(txs) = x.value + TotalValue(txs \ {x})
<1> DEFINE Holds(s) == \A y \in s : TotalValue(s) = y.value + TotalValue(s \ {y})
           bad == {s \in SUBSET txs : ~Holds(s)}
<1>1. ASSUME bad # {} PROVE FALSE
  <2>1. PICK s \in bad : \A r \in SUBSET s : r # s => r \notin bad
    <3>1. bad \subseteq SUBSET txs
      OBVIOUS
    <3> HIDE DEF bad
    <3> QED BY <1>1, <3>1, LeastSubset
  <2>2. PICK y \in s : TotalValue(s) # y.value + TotalValue(s \ {y})
    BY <2>1
  <2> DEFINE f == First(s)
  <2>3. s \in SUBSET txs /\ IsFiniteSet(s) /\ f \in s
    BY <2>1, <2>2, FS_Subset, FirstIn
  <2>4. TotalValue(s) = f.value + TotalValue(s \ {f})
    BY <2>2, <2>3, TotalValueFirst
  <2>5. y # f
    BY <2>2, <2>4
  <2>6. Holds(s \ {f}) /\ Holds(s \ {y})
    BY <2>1, <2>2, <2>3
  <2> HIDE DEF f
  <2>7. /\ TotalValue(s \ {f}) = y.value + TotalValue((s \ {f}) \ {y})
        /\ TotalValue(s \ {y}) = f.value + TotalValue((s \ {y}) \ {f})
    BY <2>2, <2>3, <2>5, <2>6
  <2>8. (s \ {f}) \ {y} = (s \ {y}) \ {f}
    OBVIOUS
  <2>9. /\ f.value \in Nat /\ y.value \in Nat
        /\ TotalValue((s \ {y}) \ {f}) \in Nat
    <3>1. IsFiniteSet((s \ {y}) \ {f})
      BY <2>3, FS_RemoveElement
    <3> QED BY <2>3, <3>1, TotalValueType
  <2>10. f.value + (y.value + TotalValue((s \ {y}) \ {f}))
           = y.value + (f.value + TotalValue((s \ {y}) \ {f}))
    BY <2>9
  <2> QED BY <2>2, <2>4, <2>7, <2>8, <2>10
<1>2. Holds(txs)
  BY <1>1
<1> QED BY <1>2

(* More transactions are worth no less. *)
LEMMA TotalValueMonotonic ==
    ASSUME NEW txs, IsFiniteSet(txs), \A tx \in txs : tx.value \in Nat, NEW s \in SUBSET txs
    PROVE  TotalValue(s) <= TotalValue(txs)
<1> DEFINE bad == {r \in SUBSET txs : s \subseteq r /\ ~(TotalValue(s) <= TotalValue(r))}
<1>1. ASSUME bad # {} PROVE FALSE
  <2>1. PICK r \in bad : \A q \in SUBSET r : q # r => q \notin bad
    <3>1. bad \subseteq SUBSET txs
      OBVIOUS
    <3> HIDE DEF bad
    <3> QED BY <1>1, <3>1, LeastSubset
  <2>2. /\ IsFiniteSet(r) /\ IsFiniteSet(s) /\ s \subseteq r /\ r \in SUBSET txs
        /\ TotalValue(s) \in Nat
    BY <2>1, FS_Subset, TotalValueType
  <2>3. PICK x \in r : x \notin s
    <3>1. TotalValue(s) <= TotalValue(s)
      BY <2>2
    <3>2. r # s
      BY <2>1, <3>1
    <3> QED BY <2>2, <3>2
  <2>4. TotalValue(r) = x.value + TotalValue(r \ {x})
    BY <2>2, TotalValueRemove
  <2>5. TotalValue(s) <= TotalValue(r \ {x})
    BY <2>1, <2>2, <2>3
  <2>6. x.value \in Nat /\ TotalValue(r \ {x}) \in Nat
    BY <2>2, FS_RemoveElement, TotalValueType
  <2> QED BY <2>1, <2>2, <2>4, <2>5, <2>6
<1> QED BY <1>1

-----------------------------------------------------------------------------
(* Following the chain. *)
LEMMA ChainTypes ==
    ASSUME TypeOK, Following
    PROVE  /\ Len(canon) \in Nat /\ Len(heads) \in Nat /\ Len(todo) \in Nat
           /\ Taken \in Nat /\ Taken <= Len(canon) /\ Len(canon) = Taken + Len(heads)
           /\ \A h \in 1..Len(canon) : canon[h] \in Seq(PubTx) /\ Len(canon[h]) \in Nat
<1>1. \A h \in 1..Len(canon) : canon[h] \in Seq(PubTx)
  BY BlockType DEF TypeOK
<1> QED BY <1>1 DEF TypeOK, Following, Announced, Taken

(* The chain grows at its end, by transactions that were not on it. *)
LEMMA FollowMine ==
    ASSUME TypeOK, Following, NEW b \in Block, Mine(b)
    PROVE  /\ Following'
           /\ \A tx : Past(tx) => Past(tx)'
<1> DEFINE n == Len(canon)
<1>1. /\ canon' = Append(canon, b) /\ heads' = Append(heads, n + 1)
      /\ UNCHANGED <<pc, todo>> /\ b \in Seq(PubTx) /\ Len(b) \in Nat
      /\ \A i \in 1..Len(b) : ~Mined(b[i])
  BY BlockAssumption DEF Mine, loopVars
<1>2. /\ n \in Nat /\ Taken \in Nat /\ Taken <= n /\ n = Taken + Len(heads)
      /\ Len(todo) \in Nat /\ Len(heads) \in Nat
      /\ \A h \in 1..n : Len(canon[h]) \in Nat
  BY ChainTypes
<1>3. /\ Len(canon') = n + 1 /\ canon'[n + 1] = b /\ Len(heads') = Len(heads) + 1
      /\ \A h \in 1..n : canon'[h] = canon[h]
      /\ Taken' = Taken
  BY <1>1, <1>2 DEF TypeOK, Taken
<1>4. Announced'
  <2>1. ASSUME NEW i \in 1..(Len(heads) + 1)
        PROVE  heads'[i] = Taken + i
    <3>1. CASE i \in 1..Len(heads)
      <4>1. heads'[i] = heads[i]
        BY <1>1, <3>1 DEF TypeOK
      <4> QED BY <3>1, <4>1 DEF Following, Announced
    <3>2. CASE i = Len(heads) + 1
      <4>1. heads'[i] = n + 1
        BY <1>1, <3>2 DEF TypeOK
      <4>2. n + 1 = Taken + i
        BY <1>2, <3>2
      <4> QED BY <4>1, <4>2
    <3> QED BY <1>2, <3>1, <3>2
  <2> QED BY <1>2, <1>3, <2>1 DEF Announced
<1>5. ASSUME NEW h \in 1..n, NEW i \in 1..Len(canon[h])
      PROVE  \A m \in 1..Len(b) : canon[h][i] # b[m]
  BY <1>1 DEF Mined
<1>6. OnceOnChain'
  <2>1. \A i, k \in 1..Len(b) : b[i] = b[k] => i = k
    BY TxAssumption
  <2>2. ASSUME NEW h \in 1..(n + 1), NEW k \in 1..(n + 1),
               NEW i \in 1..Len(canon'[h]), NEW m \in 1..Len(canon'[k]),
               canon'[h][i] = canon'[k][m]
        PROVE  h = k /\ i = m
    <3>1. CASE h \in 1..n /\ k \in 1..n
      BY <1>3, <2>2, <3>1 DEF Following, OnceOnChain
    <3>2. CASE h = n + 1 /\ k = n + 1
      BY <1>3, <2>1, <2>2, <3>2
    <3>3. CASE h = n + 1 /\ k \in 1..n
      BY <1>3, <1>5, <2>2, <3>3
    <3>4. CASE h \in 1..n /\ k = n + 1
      BY <1>3, <1>5, <2>2, <3>4
    <3> QED BY <1>2, <3>1, <3>2, <3>3, <3>4
  <2> QED BY <1>3, <2>2 DEF OnceOnChain
<1>7. TodoTaken'
  <2>1. ASSUME NEW i \in 1..Len(todo)
        PROVE  \E h \in 1..Taken : \E m \in 1..Len(canon'[h]) : canon'[h][m] = todo[i]
    <3>1. PICK h \in 1..Taken : \E m \in 1..Len(canon[h]) : canon[h][m] = todo[i]
      BY DEF Following, TodoTaken
    <3>2. h \in 1..n
      BY <1>2
    <3> QED BY <1>3, <3>1, <3>2
  <2>2. /\ pc' = "idle" => todo' = <<>>
        /\ \A i, k \in 1..Len(todo') : todo'[i] = todo'[k] => i = k
    BY <1>1 DEF Following, TodoTaken
  <2>3. todo' = todo
    BY <1>1
  <2>4. \A i \in 1..Len(todo') : \E h \in 1..Taken' : \E m \in 1..Len(canon'[h]) :
            canon'[h][m] = todo'[i]
    BY <1>3, <2>1, <2>3
  <2> QED BY <2>2, <2>4 DEF TodoTaken
<1>8. ASSUME NEW tx, Past(tx)
      PROVE  Past(tx)'
  <2>1. PICK h \in 1..n : \E i \in 1..Len(canon[h]) : canon[h][i] = tx
    BY <1>8 DEF Past, Mined
  <2>2. Mined(tx)'
    <3>1. h \in 1..Len(canon') /\ canon'[h] = canon[h]
      BY <1>2, <1>3
    <3> QED BY <2>1, <3>1 DEF Mined
  <2>3. ASSUME NEW k \in (Taken + 1)..(n + 1), NEW i \in 1..Len(canon'[k]), canon'[k][i] = tx
        PROVE  FALSE
    <3>1. CASE k = n + 1
      BY <1>3, <1>5, <2>1, <2>3, <3>1
    <3>2. CASE k # n + 1
      <4>1. k \in (Taken + 1)..n /\ k \in 1..n
        <5> HIDE DEF n
        <5>1. /\ k \in Nat /\ Taken + 1 <= k /\ k <= n + 1
              /\ n \in Nat /\ Taken \in Nat
          BY <1>2, <2>3
        <5> QED BY <3>2, <5>1
      <4> QED BY <1>3, <1>8, <2>3, <4>1 DEF Past, Ahead
    <3> QED BY <3>1, <3>2
  <2> QED BY <1>1, <1>3, <1>8, <2>2, <2>3 DEF Past, Ahead
<1> QED BY <1>4, <1>6, <1>7, <1>8 DEF Following

(* The loop takes the oldest head, and fetches its block or nothing. *)
LEMMA FollowTake ==
    ASSUME TypeOK, Following, NewHead \/ NewHeadFails
    PROVE  /\ Following'
           /\ \A tx : Past(tx) => Past(tx)'
<1> DEFINE n == Len(canon)
           h == Taken + 1
<1>1. /\ heads # <<>> /\ heads' = Tail(heads) /\ canon' = canon /\ pc' = "block"
      /\ todo' = <<>> \/ todo' = canon[Head(heads)]
      /\ pc = "idle"
  BY DEF NewHead, NewHeadFails, TakeHead, Idle
<1>2. /\ n \in Nat /\ Taken \in Nat /\ Taken <= n /\ n = Taken + Len(heads)
      /\ Len(heads) \in Nat
      /\ \A k \in 1..n : canon[k] \in Seq(PubTx) /\ Len(canon[k]) \in Nat
  BY ChainTypes
<1>3. Len(heads) >= 1 /\ Head(heads) = heads[1]
  BY <1>1, <1>2 DEF TypeOK
<1>4. /\ Head(heads) = h /\ h \in 1..n /\ Taken' = h
  <2>1. heads[1] = Taken + 1
    BY <1>2, <1>3 DEF Following, Announced
  <2>2. Len(heads') = Len(heads) - 1
    BY <1>1 DEF TypeOK
  <2> QED BY <1>1, <1>2, <1>3, <2>1, <2>2 DEF Taken
<1>5. Announced'
  <2>1. ASSUME NEW i \in 1..(Len(heads) - 1)
        PROVE  heads'[i] = h + i
    <3>1. i + 1 \in 1..Len(heads) /\ heads'[i] = heads[i + 1]
      BY <1>1, <1>2 DEF TypeOK
    <3>2. heads[i + 1] = Taken + (i + 1)
      BY <3>1 DEF Following, Announced
    <3> QED BY <1>2, <3>1, <3>2
  <2>2. Len(heads') = Len(heads) - 1
    BY <1>1 DEF TypeOK
  <2> QED BY <1>2, <1>4, <2>1, <2>2 DEF Announced
<1>6. OnceOnChain'
  BY <1>1 DEF Following, OnceOnChain
<1>7. TodoTaken'
  <2>1. \A i, k \in 1..Len(canon[h]) : canon[h][i] = canon[h][k] => i = k
    BY <1>4 DEF Following, OnceOnChain
  <2>2. h \in 1..Taken'
    BY <1>4, <1>2
  <2> HIDE DEF h
  <2>3. CASE todo' = <<>>
    BY <1>1, <2>3 DEF TodoTaken
  <2>4. CASE todo' = canon[h]
    BY <1>1, <2>1, <2>2, <2>4 DEF TodoTaken
  <2> QED BY <1>1, <1>4, <2>3, <2>4
<1>8. ASSUME NEW tx, Past(tx)
      PROVE  Past(tx)'
  <2>1. Mined(tx)'
    BY <1>1, <1>8 DEF Past, Mined
  <2>2. \A k \in (Taken + 1)..n : \A i \in 1..Len(canon[k]) : canon[k][i] # tx
    BY <1>8 DEF Past, Ahead
  <2>3. \A i \in 1..Len(todo') : todo'[i] # tx
    <3>1. h \in (Taken + 1)..n
      BY <1>2, <1>4
    <3>2. CASE todo' = <<>>
      BY <3>2
    <3>3. CASE todo' = canon[h]
      BY <2>2, <3>1, <3>3
    <3> QED BY <1>1, <1>4, <3>2, <3>3
  <2>4. \A k \in (Taken' + 1)..Len(canon') : k \in (Taken + 1)..n
    BY <1>1, <1>2, <1>4
  <2> QED BY <1>1, <2>1, <2>2, <2>3, <2>4 DEF Past, Ahead
<1> QED BY <1>5, <1>6, <1>7, <1>8 DEF Following

(* A turn of the loop of processEachBlock passes the transaction it is at,  *)
(* which was ahead.                                                         *)
LEMMA FollowNext ==
    ASSUME TypeOK, Following, NextTx, NEW x, x = Head(todo)
    PROVE  /\ Following'
           /\ \A tx : Past(tx) => Past(tx)'
           /\ x \in PubTx /\ ~Past(x) /\ Past(x)'
<1> DEFINE n == Len(canon)
<1>1. /\ todo # <<>> /\ todo' = Tail(todo) /\ canon' = canon /\ heads' = heads /\ pc = "block"
      /\ pc' = "block"
  BY DEF NextTx, chainVars
<1>2. /\ n \in Nat /\ Taken \in Nat /\ Taken <= n /\ Len(todo) \in Nat
  BY ChainTypes
<1>3. /\ 1 \in 1..Len(todo) /\ x = todo[1] /\ x \in PubTx
      /\ Len(todo') = Len(todo) - 1
      /\ \A i \in 1..Len(todo') : i + 1 \in 1..Len(todo) /\ todo'[i] = todo[i + 1]
      /\ Taken' = Taken
  BY <1>1, <1>2 DEF TypeOK, Taken
<1>4. /\ \A i, k \in 1..Len(todo) : todo[i] = todo[k] => i = k
      /\ \A i \in 1..Len(todo) : \E h \in 1..Taken : \E m \in 1..Len(canon[h]) :
            canon[h][m] = todo[i]
  BY DEF Following, TodoTaken
<1>5. Following'
  <2>1. Announced'
    BY <1>1 DEF Following, Announced, Taken
  <2>2. OnceOnChain'
    BY <1>1 DEF Following, OnceOnChain
  <2>3. TodoTaken'
    <3>1. ASSUME NEW i \in 1..Len(todo'), NEW k \in 1..Len(todo'), todo'[i] = todo'[k]
          PROVE  i = k
      <4>1. /\ i + 1 \in 1..Len(todo) /\ k + 1 \in 1..Len(todo)
            /\ todo[i + 1] = todo[k + 1]
        BY <1>3, <3>1
      <4>2. i + 1 = k + 1
        BY <1>4, <4>1
      <4> QED BY <4>2
    <3>2. ASSUME NEW i \in 1..Len(todo')
          PROVE  \E h \in 1..Taken' : \E m \in 1..Len(canon'[h]) : canon'[h][m] = todo'[i]
      <4>1. i + 1 \in 1..Len(todo) /\ todo'[i] = todo[i + 1]
        BY <1>3
      <4>2. \E h \in 1..Taken : \E m \in 1..Len(canon[h]) : canon[h][m] = todo[i + 1]
        BY <1>4, <4>1
      <4> QED BY <1>1, <1>3, <4>1, <4>2
    <3> QED BY <1>1, <3>1, <3>2 DEF TodoTaken
  <2> QED BY <2>1, <2>2, <2>3 DEF Following
<1>6. Ahead(x)
  BY <1>3 DEF Ahead
<1>7. Mined(x)' /\ ~Ahead(x)'
  <2>1. PICK h \in 1..Taken : \E m \in 1..Len(canon[h]) : canon[h][m] = x
    BY <1>3, <1>4
  <2>2. PICK m \in 1..Len(canon[h]) : canon[h][m] = x
    BY <2>1
  <2>3. h \in 1..n
    BY <1>2
  <2>4. Mined(x)'
    <3>1. h \in 1..Len(canon') /\ m \in 1..Len(canon'[h]) /\ canon'[h][m] = x
      BY <1>1, <2>2, <2>3
    <3> QED BY <3>1 DEF Mined
  <2>5. \A i \in 1..Len(todo') : todo'[i] # x
    <3>1. ASSUME NEW i \in 1..Len(todo'), todo'[i] = x PROVE FALSE
      <4>1. i + 1 = 1
        BY <1>3, <1>4, <3>1
      <4> QED BY <1>2, <1>3, <4>1
    <3> QED BY <3>1
  <2>6. ASSUME NEW k \in (Taken + 1)..n, NEW i \in 1..Len(canon[k]), canon[k][i] = x
        PROVE  FALSE
    <3>1. k \in 1..n
      BY <1>2
    <3>2. k = h
      BY <2>2, <2>3, <2>6, <3>1 DEF Following, OnceOnChain
    <3> QED BY <1>2, <3>2
  <2> QED BY <1>1, <1>3, <2>4, <2>5, <2>6 DEF Ahead
<1>8. ASSUME NEW tx, Past(tx)
      PROVE  Past(tx)'
  <2>1. Mined(tx)' /\ \A i \in 1..Len(todo) : todo[i] # tx
    BY <1>1, <1>8 DEF Past, Mined, Ahead
  <2>2. \A i \in 1..Len(todo') : todo'[i] # tx
    BY <1>3, <2>1
  <2> QED BY <1>1, <1>3, <1>8, <2>1, <2>2 DEF Past, Ahead
<1> QED BY <1>3, <1>5, <1>6, <1>7, <1>8 DEF Past

LEMMA FollowSame ==
    ASSUME Following, UNCHANGED <<canon, heads, todo>>, pc' = pc \/ todo = <<>>
    PROVE  /\ Following'
           /\ \A tx : Past(tx) => Past(tx)'
<1>1. Taken' = Taken
  BY DEF Taken
<1>2. Following'
  BY <1>1 DEF Following, Announced, OnceOnChain, TodoTaken
<1>3. \A tx : Past(tx) => Past(tx)'
  BY <1>1 DEF Past, Mined, Ahead
<1> QED BY <1>2, <1>3

LEMMA FollowStep ==
    ASSUME TypeOK, Following, [Next]_vars, reorgs <= MaxReorg, NoReorgYet'
    PROVE  /\ NoReorgYet /\ Following'
           /\ \A tx : Past(tx) => Past(tx)'
<1> USE DEF chainVars, loopVars
<1>1. ASSUME NEW h, NEW b, Reorg(h, b) PROVE FALSE
  BY <1>1, BoundAssumption DEF Reorg, NoReorgYet, TypeOK
<1>2. CASE \E b \in Block : Mine(b)
  <2>1. PICK b \in Block : Mine(b)
    BY <1>2
  <2>2. reorgs' = reorgs
    BY <2>1 DEF Mine
  <2> QED BY <2>1, <2>2, FollowMine DEF NoReorgYet
<1>3. CASE NewHead \/ NewHeadFails
  <2>1. reorgs' = reorgs
    BY <1>3 DEF NewHead, NewHeadFails, TakeHead
  <2> QED BY <1>3, <2>1, FollowTake DEF NoReorgYet
<1>4. CASE ProcessTx
  <2>1. NextTx /\ reorgs' = reorgs
    BY <1>4 DEF ProcessTx, TokenTransfer, FeePayment, OtherTx, ReceiptFails, NextTx
  <2> QED BY <2>1, FollowNext DEF NoReorgYet
<1>5. CASE UNCHANGED <<canon, heads, reorgs, todo>> /\ (pc' = pc \/ todo = <<>>)
  BY <1>5, FollowSame DEF NoReorgYet
<1>6. \/ \E b \in Block : Mine(b) \/ \E h \in 1..MaxHeight : Reorg(h, b)
      \/ NewHead \/ NewHeadFails \/ ProcessTx
      \/ UNCHANGED <<canon, heads, reorgs, todo>> /\ (pc' = pc \/ todo = <<>>)
  BY DEF Next, Loop, Goroutine, Environment, vars, FinishBlock, NewJoltifyBlock,
         NewJoltifyBlockNoPools, HandleInbound, ReceiveInbound, NotSigner, MintFails,
         AlreadySubmitted, MintSubmitted, CheckSucceeds, CheckTimesOut, CreatePool,
         OthersSubmit, Execute, Drop
<1> QED BY <1>1, <1>2, <1>3, <1>4, <1>5, <1>6

-----------------------------------------------------------------------------
(* What was paid so far only grows. *)
LEMMA ChainFinite ==
    ASSUME NEW c \in Seq(Block)
    PROVE  IsFiniteSet({tx \in PubTx : \E h \in 1..Len(c) : \E i \in 1..Len(c[h]) : c[h][i] = tx})
<1> DEFINE txs(h) == {c[h][i] : i \in 1..Len(c[h])}
           all == {txs(h) : h \in 1..Len(c)}
<1>1. ASSUME NEW h \in 1..Len(c) PROVE IsFiniteSet(txs(h))
  <2>1. c[h] \in Seq(PubTx)
    BY BlockAssumption
  <2>2. IsFiniteSet(1..Len(c[h]))
    BY <2>1, FS_Interval
  <2>3. [i \in 1..Len(c[h]) |-> c[h][i]] \in Surjection(1..Len(c[h]), txs(h))
    BY DEF Surjection
  <2> QED BY <2>2, <2>3, FS_Surjection
<1>2. IsFiniteSet(all)
  <2>1. IsFiniteSet(1..Len(c))
    BY FS_Interval
  <2>2. [h \in 1..Len(c) |-> txs(h)] \in Surjection(1..Len(c), all)
    <3> HIDE DEF txs
    <3> QED BY DEF Surjection
  <2> QED BY <2>1, <2>2, FS_Surjection
<1>3. IsFiniteSet(UNION all)
  <2>1. \A T \in all : IsFiniteSet(T)
    BY <1>1
  <2> HIDE DEF all
  <2> QED BY <1>2, <2>1, FS_UNION
<1>4. {tx \in PubTx : \E h \in 1..Len(c) : \E i \in 1..Len(c[h]) : c[h][i] = tx}
        \in SUBSET UNION all
  OBVIOUS
<1> HIDE DEF all
<1> QED BY <1>3, <1>4, FS_Subset

LEMMA FeesFinite ==
    ASSUME NEW t, NEW c \in Seq(Block),
           NEW fees, fees \subseteq {tx \in PubTx : IsFeeOf(t, tx)},
           \A tx \in fees : \E h \in 1..Len(c) : \E i \in 1..Len(c[h]) : c[h][i] = tx
    PROVE  IsFiniteSet(fees) /\ \A tx \in fees : tx.value \in Nat
<1>1. fees \in SUBSET {tx \in PubTx : \E h \in 1..Len(c) : \E i \in 1..Len(c[h]) : c[h][i] = tx}
  OBVIOUS
<1>2. IsFiniteSet(fees)
  BY <1>1, ChainFinite, FS_Subset
<1>3. \A tx \in fees : tx.value \in Nat
  BY PubTxAssumption
<1> QED BY <1>2, <1>3

LEMMA PaidGrows ==
    ASSUME TypeOK, TypeOK', \A tx : Past(tx) => Past(tx)', NEW t
    PROVE  /\ Paid(t) \in Nat /\ Paid(t)' \in Nat /\ Paid(t) <= Paid(t)'
           /\ TokenPast(t) => TokenPast(t)'
<1>1. IsFiniteSet(PastFees(t)) /\ \A tx \in PastFees(t) : tx.value \in Nat
  <2>1. \A tx \in PastFees(t) : \E h \in 1..Len(canon) : \E i \in 1..Len(canon[h]) : canon[h][i] = tx
    BY DEF PastFees, Past, Mined
  <2>2. PastFees(t) \subseteq {tx \in PubTx : IsFeeOf(t, tx)}
    BY DEF PastFees
  <2> QED BY <2>1, <2>2, FeesFinite DEF TypeOK
<1>2. IsFiniteSet(PastFees(t)') /\ \A tx \in PastFees(t)' : tx.value \in Nat
  <2>1. \A tx \in PastFees(t)' : \E h \in 1..Len(canon') : \E i \in 1..Len(canon'[h]) : canon'[h][i] = tx
    BY DEF PastFees, Past, Mined
  <2>2. PastFees(t)' \subseteq {tx \in PubTx : IsFeeOf(t, tx)}
    BY DEF PastFees, IsFeeOf
  <2> QED BY <2>1, <2>2, FeesFinite DEF TypeOK
<1>3. PastFees(t) \in SUBSET (PastFees(t)')
  BY DEF PastFees, IsFeeOf
<1>4. Paid(t) = TotalValue(PastFees(t)) /\ Paid(t)' = TotalValue(PastFees(t)')
  BY DEF Paid
<1>5. TokenPast(t) => TokenPast(t)'
  BY DEF TokenPast, IsTokenOf
<1> QED BY <1>1, <1>2, <1>3, <1>4, <1>5, TotalValueType, TotalValueMonotonic

(* A payment that is passed adds its value. *)
LEMMA PaidAdds ==
    ASSUME TypeOK, TypeOK', \A tx : Past(tx) => Past(tx)', NEW t,
           NEW x \in PubTx, IsFeeOf(t, x), ~Past(x), Past(x)'
    PROVE  Paid(t) + x.value <= Paid(t)'
<1> DEFINE fees == PastFees(t)'
<1>1. IsFiniteSet(fees) /\ \A tx \in fees : tx.value \in Nat
  <2>1. \A tx \in fees : \E h \in 1..Len(canon') : \E i \in 1..Len(canon'[h]) : canon'[h][i] = tx
    BY DEF PastFees, Past, Mined
  <2>2. fees \subseteq {tx \in PubTx : IsFeeOf(t, tx)}
    BY DEF PastFees, IsFeeOf
  <2> QED BY <2>1, <2>2, FeesFinite DEF TypeOK
<1>2. x \in fees /\ PastFees(t) \in SUBSET (fees \ {x})
  BY DEF PastFees, IsFeeOf
<1>3. Paid(t) = TotalValue(PastFees(t)) /\ Paid(t)' = TotalValue(fees)
  BY DEF Paid
<1> HIDE DEF fees
<1>4. TotalValue(fees) = x.value + TotalValue(fees \ {x})
  BY <1>1, <1>2, TotalValueRemove
<1>5. IsFiniteSet(fees \ {x})
  BY <1>1, FS_RemoveElement
<1>6. TotalValue(PastFees(t)) <= TotalValue(fees \ {x})
  BY <1>1, <1>2, <1>5, TotalValueMonotonic
<1>7. Paid(t) \in Nat /\ TotalValue(fees \ {x}) \in Nat /\ x.value \in Nat
  BY <1>1, <1>2, <1>5, PaidGrows, TotalValueType
<1> QED BY <1>3, <1>4, <1>6, <1>7

-----------------------------------------------------------------------------
(* The places of a deposit, and what a step does to each of them.           *)
Queued(t) == \E i \in 1..Len(InboundReqChan) : InboundReqChan[i] = t
QueuedOnce(t) ==
    \A i, k \in 1..Len(InboundReqChan) :
        InboundReqChan[i] = t /\ InboundReqChan[k] = t => i = k
Checked(t) == \E j \in Job : j.id = t /\ checking[j] > 0
CheckedOnce(t) ==
    \A j, k \in Job :
        j.id = t /\ checking[j] > 0 /\ k.id = t /\ checking[k] > 0 => j = k /\ checking[j] = 1
Requested(t) == Queued(t) \/ blocked = t \/ RetryInboundReq[t] > 0 \/ Checked(t)
Alone(t) ==
    /\ pendingInbounds[t] # None => ~Requested(t)
    /\ Queued(t) => blocked # t /\ ~(RetryInboundReq[t] > 0) /\ ~Checked(t)
    /\ blocked = t => ~(RetryInboundReq[t] > 0) /\ ~Checked(t)
    /\ RetryInboundReq[t] > 0 => ~Checked(t)
    /\ QueuedOnce(t) /\ RetryInboundReq[t] <= 1 /\ CheckedOnce(t)

LEMMA RequestedMeans == \A t : Accepted(t) <=> Requested(t)
BY DEF Accepted, Requested, Queued, Checked

LEMMA AloneMeans == \A t : Single(t) <=> Alone(t)
<1> SUFFICES ASSUME NEW t PROVE Single(t) <=> Alone(t)
    OBVIOUS
<1>1. /\ InStage(t, "pending") <=> pendingInbounds[t] # None
      /\ InStage(t, "queued") <=> Queued(t)
      /\ InStage(t, "sending") <=> blocked = t
      /\ InStage(t, "retry") <=> RetryInboundReq[t] > 0
      /\ InStage(t, "checked") <=> Checked(t)
  BY DEF InStage, Queued, Checked
<1>2. (\A r, s \in Stage : InStage(t, r) /\ InStage(t, s) => r = s) <=>
        /\ pendingInbounds[t] # None => ~Requested(t)
        /\ Queued(t) => blocked # t /\ ~(RetryInboundReq[t] > 0) /\ ~Checked(t)
        /\ blocked = t => ~(RetryInboundReq[t] > 0) /\ ~Checked(t)
        /\ RetryInboundReq[t] > 0 => ~Checked(t)
  BY <1>1 DEF Stage, Requested
<1>3. (\A i, k \in 1..Len(InboundReqChan) :
            InboundReqChan[i] = t /\ InboundReqChan[k] = t => i = k) <=> QueuedOnce(t)
  BY DEF QueuedOnce
<1>4. (\A j, k \in Job :
            /\ j.id = t /\ checking[j] > 0
            /\ k.id = t /\ checking[k] > 0
            => j = k /\ checking[j] = 1) <=> CheckedOnce(t)
  BY DEF CheckedOnce
<1> QED BY <1>2, <1>3, <1>4 DEF Single, Alone

LEMMA QueueAppend ==
    ASSUME InboundReqChan \in Seq(TxId), NEW t, NEW u,
           InboundReqChan' = Append(InboundReqChan, t)
    PROVE  /\ Queued(u)' <=> Queued(u) \/ u = t
           /\ QueuedOnce(u) /\ ~(u = t /\ Queued(u)) => QueuedOnce(u)'
<1> DEFINE n == Len(InboundReqChan)
<1>1. /\ n \in Nat /\ Len(InboundReqChan') = n + 1 /\ InboundReqChan'[n + 1] = t
      /\ \A i \in 1..n : InboundReqChan'[i] = InboundReqChan[i]
  OBVIOUS
<1> HIDE DEF n
<1>2. Queued(u)' <=> Queued(u) \/ u = t
  <2>1. ASSUME Queued(u)' PROVE Queued(u) \/ u = t
    <3>1. PICK i \in 1..(n + 1) : InboundReqChan'[i] = u
      BY <1>1, <2>1 DEF Queued
    <3>2. CASE i \in 1..n
      BY <1>1, <3>1, <3>2 DEF Queued, n
    <3>3. CASE i = n + 1
      BY <1>1, <3>1, <3>3
    <3> QED BY <1>1, <3>2, <3>3
  <2>2. ASSUME Queued(u) PROVE Queued(u)'
    <3>1. PICK i \in 1..n : InboundReqChan[i] = u
      BY <2>2 DEF Queued, n
    <3>2. i \in 1..Len(InboundReqChan') /\ InboundReqChan'[i] = u
      BY <1>1, <3>1
    <3> QED BY <3>2 DEF Queued
  <2>3. ASSUME u = t PROVE Queued(u)'
    <3>1. n + 1 \in 1..Len(InboundReqChan')
      BY <1>1
    <3> QED BY <1>1, <2>3, <3>1 DEF Queued
  <2> QED BY <2>1, <2>2, <2>3
<1>3. ASSUME QueuedOnce(u), ~(u = t /\ Queued(u)),
             NEW i \in 1..(n + 1), NEW k \in 1..(n + 1),
             InboundReqChan'[i] = u, InboundReqChan'[k] = u
      PROVE  i = k
  <2>1. CASE i \in 1..n /\ k \in 1..n
    BY <1>1, <1>3, <2>1 DEF QueuedOnce, n
  <2>2. CASE i = n + 1 /\ k \in 1..n
    BY <1>1, <1>3, <2>2 DEF Queued, n
  <2>3. CASE i \in 1..n /\ k = n + 1
    BY <1>1, <1>3, <2>3 DEF Queued, n
  <2> QED BY <1>1, <2>1, <2>2, <2>3
<1> QED BY <1>1, <1>2, <1>3 DEF QueuedOnce

LEMMA QueueTail ==
    ASSUME InboundReqChan \in Seq(TxId), InboundReqChan # <<>>, NEW u,
           InboundReqChan' = Tail(InboundReqChan)
    PROVE  /\ Queued(u)' => Queued(u)
           /\ QueuedOnce(u) => QueuedOnce(u)' /\ ~(u = Head(InboundReqChan) /\ Queued(u)')
<1> DEFINE n == Len(InboundReqChan)
<1>1. /\ n \in Nat /\ n >= 1 /\ Len(InboundReqChan') = n - 1
      /\ \A i \in 1..(n - 1) : i + 1 \in 1..n /\ InboundReqChan'[i] = InboundReqChan[i + 1]
      /\ Head(InboundReqChan) = InboundReqChan[1] /\ 1 \in 1..n
  OBVIOUS
<1> HIDE DEF n
<1>2. ASSUME Queued(u)'
      PROVE  \E i \in 1..(n - 1) : i + 1 \in 1..n /\ InboundReqChan[i + 1] = u
  BY <1>1, <1>2 DEF Queued
<1>3. Queued(u)' => Queued(u)
  BY <1>2 DEF Queued, n
<1>4. ASSUME QueuedOnce(u), u = Head(InboundReqChan), Queued(u)' PROVE FALSE
  <2>1. PICK i \in 1..(n - 1) : i + 1 \in 1..n /\ InboundReqChan[i + 1] = u
    BY <1>2, <1>4
  <2>2. i + 1 = 1
    BY <1>1, <1>4, <2>1 DEF QueuedOnce, n
  <2> QED BY <1>1, <2>1, <2>2
<1>5. ASSUME QueuedOnce(u), NEW i \in 1..(n - 1), NEW k \in 1..(n - 1),
             InboundReqChan'[i] = u, InboundReqChan'[k] = u
      PROVE  i = k
  <2>1. /\ i + 1 \in 1..n /\ k + 1 \in 1..n
        /\ InboundReqChan[i + 1] = u /\ InboundReqChan[k + 1] = u
    BY <1>1, <1>5
  <2>2. i + 1 = k + 1
    BY <1>5, <2>1 DEF QueuedOnce, n
  <2> QED BY <1>1, <2>2
<1> QED BY <1>1, <1>3, <1>4, <1>5 DEF QueuedOnce

LEMMA CheckStart ==
    ASSUME checking \in [Job -> Nat], NEW j \in Job, NEW u,
           checking' = [checking EXCEPT ![j] = @ + 1]
    PROVE  /\ Checked(u)' <=> Checked(u) \/ u = j.id
           /\ CheckedOnce(u) /\ ~(u = j.id /\ Checked(u)) => CheckedOnce(u)'
<1>1. /\ \A k \in Job : k # j => checking'[k] = checking[k]
      /\ checking'[j] = checking[j] + 1 /\ checking[j] \in Nat
      /\ \A k \in Job : checking[k] \in Nat
  OBVIOUS
<1>2. Checked(u)' <=> Checked(u) \/ u = j.id
  <2>1. checking'[j] > 0
    BY <1>1
  <2>2. \A k \in Job : checking[k] > 0 => checking'[k] > 0
    BY <1>1, <2>1
  <2> QED BY <1>1, <2>1, <2>2 DEF Checked
<1>3. ASSUME CheckedOnce(u), ~(u = j.id /\ Checked(u)),
             NEW k \in Job, NEW m \in Job,
             k.id = u, checking'[k] > 0, m.id = u, checking'[m] > 0
      PROVE  k = m /\ checking'[k] = 1
  <2>1. CASE u = j.id
    <3>1. \A i \in Job : i.id = u => checking[i] = 0
      BY <1>1, <1>3, <2>1 DEF Checked
    <3>2. k = j /\ m = j
      BY <1>1, <1>3, <3>1
    <3> QED BY <1>1, <2>1, <3>1, <3>2
  <2>2. CASE u # j.id
    <3>1. checking'[k] = checking[k] /\ checking'[m] = checking[m]
      BY <1>1, <1>3, <2>2
    <3> QED BY <1>3, <3>1 DEF CheckedOnce
  <2> QED BY <2>1, <2>2
<1> QED BY <1>2, <1>3 DEF CheckedOnce

LEMMA CheckEnd ==
    ASSUME checking \in [Job -> Nat], NEW j \in Job, NEW u, checking[j] > 0,
           checking' = [checking EXCEPT ![j] = @ - 1]
    PROVE  /\ Checked(u)' => Checked(u)
           /\ CheckedOnce(u) => CheckedOnce(u)' /\ ~(u = j.id /\ Checked(u)')
<1>1. /\ \A k \in Job : k # j => checking'[k] = checking[k]
      /\ checking'[j] = checking[j] - 1 /\ checking[j] \in Nat
  OBVIOUS
<1>2. \A k \in Job : checking'[k] > 0 => checking[k] > 0
  BY <1>1
<1>3. Checked(u)' => Checked(u)
  BY <1>2 DEF Checked
<1>4. ASSUME CheckedOnce(u), u = j.id, Checked(u)' PROVE FALSE
  <2>1. PICK k \in Job : k.id = u /\ checking'[k] > 0
    BY <1>4 DEF Checked
  <2>2. k = j /\ checking[j] = 1
    BY <1>2, <1>4, <2>1 DEF CheckedOnce
  <2> QED BY <1>1, <2>1, <2>2
<1>5. ASSUME CheckedOnce(u),
             NEW k \in Job, NEW m \in Job,
             k.id = u, checking'[k] > 0, m.id = u, checking'[m] > 0
      PROVE  k = m /\ checking'[k] = 1
  <2>1. k = m /\ checking[k] = 1
    BY <1>2, <1>5 DEF CheckedOnce
  <2>2. k # j
    BY <1>1, <1>5, <2>1
  <2> QED BY <1>1, <2>1, <2>2
<1> QED BY <1>3, <1>4, <1>5 DEF CheckedOnce

(* A block brings a lone job closer to its end, and leaves it alone. *)
LEMMA CheckAge ==
    ASSUME checking \in [Job -> Nat], NEW u, checking' = Age(checking)
    PROVE  /\ Checked(u)' => Checked(u)
           /\ CheckedOnce(u) => CheckedOnce(u)'
<1> DEFINE next(j) == [j EXCEPT !.left = @ + 1]
<1>1. ASSUME NEW j \in Job, j.left < CheckBlocks
      PROVE  next(j) \in Job /\ next(j).id = j.id /\ next(j).left = j.left + 1 /\ next(j).left > 0
  BY <1>1, BoundAssumption DEF Job
<1>2. ASSUME NEW j \in Job, NEW k \in Job, next(j) = next(k)
      PROVE  j = k
  BY <1>2, BoundAssumption DEF Job
<1> HIDE DEF next
<1>3. ASSUME NEW j \in Job
      PROVE  checking'[j] = (IF j.left < CheckBlocks THEN checking[next(j)] ELSE 0)
                              + (IF j.left = 0 THEN checking[j] ELSE 0)
  BY DEF Age, next
<1>4. ASSUME NEW j \in Job, checking'[j] > 0
      PROVE  \/ j.left < CheckBlocks /\ checking[next(j)] > 0
             \/ j.left = 0 /\ checking[j] > 0
  <2>1. CASE j.left < CheckBlocks
    BY <1>1, <1>3, <1>4, <2>1
  <2>2. CASE ~(j.left < CheckBlocks)
    BY <1>3, <1>4, <2>2
  <2> QED BY <2>1, <2>2
<1>5. Checked(u)' => Checked(u)
  BY <1>1, <1>4 DEF Checked
<1>6. ASSUME CheckedOnce(u),
             NEW j \in Job, NEW k \in Job,
             j.id = u, checking'[j] > 0, k.id = u, checking'[k] > 0
      PROVE  j = k /\ checking'[j] = 1
  <2>1. \A i, m \in Job : /\ i.id = u /\ checking[i] > 0
                          /\ m.id = u /\ checking[m] > 0
                          => i = m /\ checking[i] = 1
    BY <1>6 DEF CheckedOnce
  <2>2. \A i \in Job : checking[i] \in Nat
    OBVIOUS
  <2>3. CASE j.left < CheckBlocks /\ checking[next(j)] > 0
    <3>1. next(j) \in Job /\ next(j).id = u /\ next(j).left > 0
      BY <1>1, <1>6, <2>3
    <3>2. checking[next(j)] = 1
      BY <2>1, <2>3, <3>1
    <3>3. k.left = 0 => checking[k] = 0
      BY <1>6, <2>1, <2>2, <2>3, <3>1
    <3>4. k.left < CheckBlocks /\ checking[next(k)] > 0
      BY <1>4, <1>6, <3>3
    <3>5. next(k) \in Job /\ next(k).id = u
      BY <1>1, <1>6, <3>4
    <3>6. j = k
      BY <1>2, <2>1, <2>3, <3>1, <3>4, <3>5
    <3> QED BY <1>3, <2>3, <3>2, <3>3, <3>6
  <2>4. CASE j.left = 0 /\ checking[j] > 0
    <3>1. checking[j] = 1
      BY <1>6, <2>1, <2>4
    <3>2. ASSUME NEW i \in Job, i.id = u, i.left < CheckBlocks, checking[next(i)] > 0
          PROVE  FALSE
      <4>1. next(i) \in Job /\ next(i).id = u /\ next(i).left > 0
        BY <1>1, <3>2
      <4>2. next(i) = j
        BY <1>6, <2>1, <2>4, <3>2, <4>1
      <4> QED BY <2>4, <4>1, <4>2
    <3>3. k.left = 0 /\ checking[k] > 0
      BY <1>4, <1>6, <3>2
    <3>4. j = k
      BY <1>6, <2>1, <2>4, <3>3
    <3>5. j.left < CheckBlocks => checking[next(j)] = 0
      BY <1>1, <1>6, <2>2, <3>2
    <3>6. checking'[j] = 0 + checking[j]
      BY <1>3, <2>4, <3>5
    <3> QED BY <3>1, <3>4, <3>6
  <2> QED BY <1>4, <1>6, <2>3, <2>4
<1> QED BY <1>5, <1>6 DEF CheckedOnce

LEMMA AloneNext ==
    /\ \A t : Accepted(t)' <=> Requested(t)'
    /\ \A t : Single(t)' <=> Alone(t)'
<1>1. (\A t : Accepted(t) <=> Requested(t))'
  BY RequestedMeans, PTL
<1>2. (\A t : Single(t) <=> Alone(t))'
  BY AloneMeans, PTL
<1> QED BY <1>1, <1>2

-----------------------------------------------------------------------------
(* A deposit that a step leaves where it is, or takes away.                 *)
Grows == \A tx : Past(tx) => Past(tx)'
KeepsPending(t) ==
    /\ pendingInbounds'[t] \in {None, pendingInbounds[t]}
    /\ pendingInboundsBnB'[t] \in {None, pendingInboundsBnB[t]}
KeepsChecks(t) == (Checked(t)' => Checked(t)) /\ (CheckedOnce(t) => CheckedOnce(t)')
KeepsQueue(t) ==
    /\ Queued(t)' => Queued(t)
    /\ QueuedOnce(t) => QueuedOnce(t)'
    /\ blocked' = t => blocked = t
KeepsRetry(t) == RetryInboundReq'[t] <= RetryInboundReq[t]
Fine(t) == Covered(t) /\ Single(t)

LEMMA CoveredKept ==
    ASSUME TypeOK, TypeOK', Grows, NEW t \in TxId, Covered(t),
           KeepsPending(t), Accepted(t)' => Accepted(t)
    PROVE  Covered(t)'
<1>1. /\ Paid(t) \in Nat /\ Paid(t)' \in Nat /\ Paid(t) <= Paid(t)'
      /\ TokenPast(t) => TokenPast(t)'
  BY PaidGrows DEF Grows
<1>2. /\ pendingInbounds[t] # None => pendingInbounds[t].fee \in Nat
      /\ pendingInboundsBnB[t] # None => pendingInboundsBnB[t].fee \in Nat
  BY DEF TypeOK, Entry
<1>3. FeeMin \in Nat
  BY BoundAssumption
<1>4. ASSUME pendingInbounds'[t] # None
      PROVE  TokenPast(t)' /\ pendingInbounds'[t].fee <= Paid(t)'
  <2>1. pendingInbounds'[t] = pendingInbounds[t] /\ pendingInbounds[t] # None
    BY <1>4 DEF KeepsPending
  <2>2. TokenPast(t) /\ pendingInbounds[t].fee <= Paid(t)
    BY <2>1 DEF Covered
  <2> QED BY <1>1, <1>2, <2>1, <2>2
<1>5. ASSUME pendingInboundsBnB'[t] # None
      PROVE  pendingInboundsBnB'[t].fee <= Paid(t)'
  <2>1. pendingInboundsBnB'[t] = pendingInboundsBnB[t] /\ pendingInboundsBnB[t] # None
    BY <1>5 DEF KeepsPending
  <2>2. pendingInboundsBnB[t].fee <= Paid(t)
    BY <2>1 DEF Covered
  <2> QED BY <1>1, <1>2, <2>1, <2>2
<1>6. ASSUME Accepted(t)'
      PROVE  TokenPast(t)' /\ FeeMin <= Paid(t)'
  <2>1. TokenPast(t) /\ FeeMin <= Paid(t)
    BY <1>6 DEF Covered
  <2> QED BY <1>1, <1>3, <2>1
<1> QED BY <1>4, <1>5, <1>6 DEF Covered

LEMMA StillFine ==
    ASSUME TypeOK, TypeOK', Grows, NEW t \in TxId, Fine(t),
           KeepsPending(t), KeepsChecks(t), KeepsQueue(t), KeepsRetry(t)
    PROVE  Fine(t)'
<1>1. RetryInboundReq[t] \in Nat /\ RetryInboundReq'[t] \in Nat
  BY DEF TypeOK
<1>2. RetryInboundReq'[t] > 0 => RetryInboundReq[t] > 0
  BY <1>1 DEF KeepsRetry
<1>3. Alone(t)
  BY AloneMeans DEF Fine
<1>4. RetryInboundReq'[t] <= 1
  BY <1>1, <1>3 DEF Alone, KeepsRetry
<1>5. Requested(t)' => Requested(t)
  BY <1>2 DEF Requested, KeepsChecks, KeepsQueue
<1>6. pendingInbounds'[t] # None => pendingInbounds[t] # None
  BY DEF KeepsPending
<1>7. Alone(t)'
  BY <1>2, <1>3, <1>4, <1>5, <1>6 DEF Alone, KeepsChecks, KeepsQueue
<1>8. Covered(t)'
  <2>1. Accepted(t)' => Accepted(t)
    BY <1>5, RequestedMeans, AloneNext
  <2> QED BY <2>1, CoveredKept DEF Fine
<1> QED BY <1>7, <1>8, AloneNext DEF Fine

(* The queue, the bag and the goroutines, seen by one deposit.              *)
LEMMA UnchangedKeeps ==
    ASSUME NEW t \in TxId
    PROVE  /\ UNCHANGED pendVars => KeepsPending(t)
           /\ UNCHANGED checking => KeepsChecks(t)
           /\ UNCHANGED <<InboundReqChan, blocked>> => KeepsQueue(t)
           /\ TypeOK /\ UNCHANGED RetryInboundReq => KeepsRetry(t)
<1>1. UNCHANGED pendVars => KeepsPending(t)
  BY DEF KeepsPending, pendVars
<1>2. UNCHANGED checking => KeepsChecks(t)
  BY DEF KeepsChecks, Checked, CheckedOnce
<1>3. UNCHANGED <<InboundReqChan, blocked>> => KeepsQueue(t)
  BY DEF KeepsQueue, Queued, QueuedOnce
<1>4. TypeOK /\ UNCHANGED RetryInboundReq => KeepsRetry(t)
  BY DEF KeepsRetry, TypeOK
<1> QED BY <1>1, <1>2, <1>3, <1>4

LEMMA SendOne ==
    ASSUME TypeOK, blocked = None, NEW t \in TxId, SendInbound(t), NEW u \in TxId
    PROVE  /\ u # t => KeepsQueue(u)
           /\ QueuedOnce(t) /\ ~Queued(t) =>
                QueuedOnce(t)' /\ (Queued(t)' => blocked' # t)
<1>1. CASE InboundReqChan' = Append(InboundReqChan, t) /\ UNCHANGED blocked
  <2>1. \A v : /\ Queued(v)' <=> Queued(v) \/ v = t
               /\ QueuedOnce(v) /\ ~(v = t /\ Queued(v)) => QueuedOnce(v)'
    BY <1>1, QueueAppend DEF TypeOK
  <2>2. blocked' # t
    BY <1>1, NoneNotTxId
  <2> QED BY <1>1, <2>1, <2>2 DEF KeepsQueue
<1>2. CASE blocked' = t /\ UNCHANGED InboundReqChan
  <2>1. \A v : (Queued(v)' <=> Queued(v)) /\ (QueuedOnce(v)' <=> QueuedOnce(v))
    BY <1>2 DEF Queued, QueuedOnce
  <2> QED BY <1>2, <2>1 DEF KeepsQueue
<1> QED BY <1>1, <1>2 DEF SendInbound

LEMMA AddOne ==
    ASSUME TypeOK, NEW t \in TxId, AddItem(t), NEW u \in TxId
    PROVE  /\ u # t => KeepsRetry(u)
           /\ RetryInboundReq'[t] = RetryInboundReq[t] + 1
BY DEF AddItem, KeepsRetry, TypeOK

LEMMA PopOne ==
    ASSUME TypeOK, NEW t \in TxId, PopItem(t), NEW u \in TxId
    PROVE  /\ KeepsRetry(u)
           /\ RetryInboundReq'[t] = RetryInboundReq[t] - 1
           /\ RetryInboundReq[t] > 0
BY DEF PopItem, KeepsRetry, TypeOK

-----------------------------------------------------------------------------
(* The steps of the loop and of the goroutines that move a deposit.         *)
LEMMA FineJoltifyBlock ==
    ASSUME TypeOK, TypeOK', Grows, NEW u \in TxId, Fine(u),
           NewJoltifyBlock \/ NewJoltifyBlockNoPools
    PROVE  Fine(u)'
<1>1. KeepsChecks(u) /\ KeepsPending(u) /\ blocked = None
  <2>1. checking' = Age(checking) /\ UNCHANGED pendVars /\ blocked = None
    BY DEF NewJoltifyBlock, NewJoltifyBlockNoPools, Idle
  <2> QED BY <2>1, CheckAge, UnchangedKeeps DEF KeepsChecks, TypeOK
<1>2. CASE UNCHANGED <<InboundReqChan, blocked, RetryInboundReq>>
  BY <1>1, <1>2, UnchangedKeeps, StillFine
<1>3. ASSUME NEW t \in TxId, PopItem(t), SendInbound(t)
      PROVE  Fine(u)'
  <2>1. /\ KeepsRetry(u) /\ RetryInboundReq[t] > 0
        /\ RetryInboundReq'[t] = RetryInboundReq[t] - 1
    BY <1>3, PopOne
  <2>2. CASE u # t
    <3>1. KeepsQueue(u)
      BY <1>1, <1>3, <2>2, SendOne
    <3> QED BY <1>1, <2>1, <3>1, StillFine
  <2>3. CASE u = t
    <3>1. /\ Alone(u) /\ RetryInboundReq[u] \in Nat /\ RetryInboundReq[u] > 0
      BY <2>1, <2>3, AloneMeans DEF Fine, TypeOK
    <3>2. /\ pendingInbounds[u] = None /\ ~Queued(u) /\ ~Checked(u)
          /\ RetryInboundReq'[u] = 0 /\ Requested(u)
      BY <2>1, <2>3, <3>1 DEF Alone, Requested
    <3>3. QueuedOnce(u)' /\ (Queued(u)' => blocked' # u)
      BY <1>1, <1>3, <2>3, <3>1, <3>2, SendOne DEF Alone
    <3>4. ~Checked(u)' /\ CheckedOnce(u)' /\ pendingInbounds'[u] = None
      BY <1>1, <3>1, <3>2 DEF KeepsChecks, KeepsPending, Alone
    <3>5. Alone(u)'
      BY <3>2, <3>3, <3>4 DEF Alone
    <3>6. Covered(u)'
      BY <1>1, <3>2, RequestedMeans, CoveredKept DEF Fine
    <3> QED BY <3>5, <3>6, AloneNext DEF Fine
  <2> QED BY <2>2, <2>3
<1>4. \/ UNCHANGED <<InboundReqChan, blocked, RetryInboundReq>>
      \/ \E t \in TxId : PopItem(t) /\ SendInbound(t)
  BY DEF NewJoltifyBlock, NewJoltifyBlockNoPools, loopVars
<1> QED BY <1>2, <1>3, <1>4

LEMMA FineHandle ==
    ASSUME TypeOK, TypeOK', Grows, NEW u \in TxId, Fine(u), NEW t \in TxId, HandleInbound(t)
    PROVE  Fine(u)'
<1>1. ReceiveInbound(t)
  BY DEF HandleInbound, NotSigner, MintFails, AlreadySubmitted, MintSubmitted
<1>2. /\ InboundReqChan # <<>> /\ t = Head(InboundReqChan)
      /\ InboundReqChan' = Tail(InboundReqChan)
      /\ UNCHANGED <<pendVars, blocked>>
  BY <1>1 DEF ReceiveInbound, loopVars
<1>3. KeepsPending(u) /\ KeepsQueue(u)
  <2>1. /\ Queued(u)' => Queued(u)
        /\ QueuedOnce(u) => QueuedOnce(u)'
    BY <1>2, QueueTail DEF TypeOK
  <2> QED BY <1>2, <2>1, UnchangedKeeps DEF KeepsQueue
<1>4. \/ UNCHANGED <<RetryInboundReq, checking>>
      \/ AddItem(t) /\ UNCHANGED checking
      \/ /\ UNCHANGED RetryInboundReq
         /\ \E j \in Job : j.id = t /\ checking' = [checking EXCEPT ![j] = @ + 1]
  <2>1. ASSUME NEW i \in {"own", "empty"}, StartCheck(t, i)
        PROVE  \E j \in Job : j.id = t /\ checking' = [checking EXCEPT ![j] = @ + 1]
    <3>1. [id |-> t, index |-> i, left |-> CheckBlocks] \in Job
      BY BoundAssumption DEF Job
    <3> QED BY <2>1, <3>1 DEF StartCheck
  <2> QED BY <2>1 DEF HandleInbound, NotSigner, MintFails, AlreadySubmitted, MintSubmitted
<1>5. CASE u # t
  <2>1. KeepsRetry(u)
    BY <1>4, <1>5, AddOne, UnchangedKeeps
  <2>2. KeepsChecks(u)
    BY <1>4, <1>5, CheckStart, UnchangedKeeps DEF KeepsChecks, TypeOK
  <2> QED BY <1>3, <2>1, <2>2, StillFine
<1>6. CASE u = t
  <2>1. Alone(u) /\ RetryInboundReq[u] \in Nat
    BY AloneMeans DEF Fine, TypeOK
  <2>2. Queued(u)
    <3>1. 1 \in 1..Len(InboundReqChan) /\ InboundReqChan[1] = u
      BY <1>2, <1>6 DEF TypeOK
    <3> QED BY <3>1 DEF Queued
  <2>3. /\ blocked # u /\ RetryInboundReq[u] = 0 /\ ~Checked(u) /\ pendingInbounds[u] = None
        /\ Requested(u) /\ QueuedOnce(u) /\ CheckedOnce(u)
    BY <2>1, <2>2 DEF Alone, Requested
  <2>4. ~Queued(u)' /\ QueuedOnce(u)'
    BY <1>2, <1>6, <2>3, QueueTail DEF TypeOK
  <2>5. /\ RetryInboundReq'[u] <= 1
        /\ RetryInboundReq'[u] > 0 => ~Checked(u)'
        /\ CheckedOnce(u)'
    <3>1. CASE UNCHANGED checking
      <4>1. ~Checked(u)' /\ CheckedOnce(u)'
        BY <2>3, <3>1 DEF Checked, CheckedOnce
      <4>2. RetryInboundReq'[u] <= 1
        BY <1>4, <1>6, <2>3, <3>1, AddOne
      <4> QED BY <4>1, <4>2
    <3>2. ASSUME UNCHANGED RetryInboundReq, NEW j \in Job, j.id = t,
                 checking' = [checking EXCEPT ![j] = @ + 1]
          PROVE  RetryInboundReq'[u] = 0 /\ CheckedOnce(u)'
      BY <2>3, <3>2, CheckStart DEF TypeOK
    <3> QED BY <1>4, <3>1, <3>2
  <2>6. blocked' # u /\ pendingInbounds'[u] = None
    BY <1>2, <2>3 DEF pendVars
  <2>7. Alone(u)'
    BY <2>4, <2>5, <2>6 DEF Alone
  <2>8. Covered(u)'
    BY <1>3, <2>3, RequestedMeans, CoveredKept DEF Fine
  <2> QED BY <2>7, <2>8, AloneNext DEF Fine
<1> QED BY <1>5, <1>6

LEMMA FineCheck ==
    ASSUME TypeOK, TypeOK', Grows, NEW u \in TxId, Fine(u),
           NEW j \in Job, CheckSucceeds(j) \/ CheckTimesOut(j)
    PROVE  Fine(u)'
<1>1. /\ checking[j] > 0 /\ checking' = [checking EXCEPT ![j] = @ - 1]
      /\ UNCHANGED <<pendVars, InboundReqChan, blocked>> /\ j.id \in TxId
      /\ AddItem(j.id) \/ UNCHANGED RetryInboundReq
  BY DEF CheckSucceeds, CheckTimesOut, loopVars, Job
<1>2. /\ KeepsPending(u) /\ KeepsQueue(u) /\ KeepsChecks(u)
      /\ CheckedOnce(u) => ~(u = j.id /\ Checked(u)')
  BY <1>1, UnchangedKeeps, CheckEnd DEF KeepsChecks, TypeOK
<1>3. CASE u # j.id \/ UNCHANGED RetryInboundReq
  <2>1. KeepsRetry(u)
    BY <1>1, <1>3, AddOne, UnchangedKeeps
  <2> QED BY <1>2, <2>1, StillFine
<1>4. CASE u = j.id /\ AddItem(j.id)
  <2>1. Alone(u) /\ RetryInboundReq[u] \in Nat
    BY AloneMeans DEF Fine, TypeOK
  <2>2. Checked(u)
    BY <1>1, <1>4 DEF Checked
  <2>3. /\ ~Queued(u) /\ blocked # u /\ RetryInboundReq[u] = 0 /\ pendingInbounds[u] = None
        /\ Requested(u) /\ QueuedOnce(u) /\ CheckedOnce(u)
    BY <2>1, <2>2 DEF Alone, Requested
  <2>4. ~Queued(u)' /\ blocked' # u /\ ~Checked(u)' /\ pendingInbounds'[u] = None
        /\ QueuedOnce(u)' /\ CheckedOnce(u)'
    BY <1>2, <1>4, <2>3 DEF KeepsQueue, KeepsChecks, KeepsPending
  <2>5. RetryInboundReq'[u] = 1
    BY <1>4, <2>3, AddOne
  <2>6. Alone(u)'
    BY <2>4, <2>5 DEF Alone
  <2>7. Covered(u)'
    BY <1>2, <2>3, RequestedMeans, CoveredKept DEF Fine
  <2> QED BY <2>6, <2>7, AloneNext DEF Fine
<1> QED BY <1>1, <1>3, <1>4

-----------------------------------------------------------------------------
(* The two payments. *)

(* The loop has not passed another transfer of the deposit, so that it is   *)
(* nowhere yet, and what waits for it was paid.                             *)
LEMMA FineTokenTransfer ==
    ASSUME TypeOK, TypeOK', Following, Grows, NEW u \in TxId, Fine(u), TokenTransfer
    PROVE  Fine(u)'
<1>0. PICK x : x = Head(todo)
  OBVIOUS
<1>1. /\ NextTx /\ x.kind = "erc20" /\ x.status = 1 /\ processInboundTx(x.hash)
      /\ blocked = None
  BY <1>0 DEF TokenTransfer, IsTokenTransfer, NextTx
<1>2. PICK t \in TxId : t = x.hash
  BY <1>0, <1>1, FollowNext, PubTxAssumption
<1>3. x \in PubTx /\ ~Past(x) /\ Past(x)' /\ IsTokenOf(t, x)
  BY <1>0, <1>1, <1>2, FollowNext DEF IsTokenOf
<1>4. UNCHANGED <<RetryInboundReq, checking>> /\ KeepsRetry(u) /\ KeepsChecks(u)
  <2>1. UNCHANGED <<RetryInboundReq, checking>>
    BY <1>1 DEF processInboundTx, reqVars
  <2> QED BY <2>1, UnchangedKeeps
<1>5. CASE u # t
  <2>1. KeepsPending(u)
    BY <1>1, <1>2, <1>5 DEF processInboundTx, KeepsPending, TypeOK, pendVars
  <2>2. KeepsQueue(u)
    <3>1. UNCHANGED <<InboundReqChan, blocked>> \/ SendInbound(t)
      BY <1>1, <1>2 DEF processInboundTx, reqVars
    <3> QED BY <1>1, <1>5, <3>1, SendOne, UnchangedKeeps
  <2> QED BY <1>4, <2>1, <2>2, StillFine
<1>6. CASE u = t
  <2>1. ~TokenPast(t)
    BY <1>3, TxAssumption DEF TokenPast, IsTokenOf
  <2>2. Alone(t) /\ pendingInbounds[t] = None /\ ~Requested(t)
    BY <1>6, <2>1, RequestedMeans, AloneMeans DEF Fine, Covered
  <2>3. /\ ~Queued(t) /\ blocked # t /\ RetryInboundReq[t] = 0 /\ ~Checked(t)
        /\ QueuedOnce(t) /\ CheckedOnce(t)
    BY <2>2 DEF Alone, Requested, TypeOK
  <2>4. RetryInboundReq'[t] = 0 /\ ~Checked(t)' /\ CheckedOnce(t)'
    BY <1>4, <1>6, <2>3 DEF KeepsChecks
  <2> DEFINE bnb == pendingInboundsBnB[t]
             fee == IF bnb = None THEN 0 ELSE bnb.fee
  <2>5. /\ pendingInboundsBnB' = [pendingInboundsBnB EXCEPT ![t] = None]
        /\ \/ bnb # None /\ Verify(fee) /\ SendInbound(t) /\ UNCHANGED pendingInbounds
           \/ /\ pendingInbounds' = [pendingInbounds EXCEPT ![t] = [height |-> number, fee |-> fee]]
              /\ UNCHANGED <<InboundReqChan, blocked>>
    BY <1>1, <1>2, <2>2 DEF processInboundTx
  <2>6. pendingInboundsBnB'[t] = None
    BY <2>5 DEF TypeOK
  <2>7. Paid(t)' \in Nat /\ fee \in Nat /\ fee <= Paid(t)' /\ TokenPast(t)'
    <3>1. Paid(t) \in Nat /\ Paid(t)' \in Nat /\ Paid(t) <= Paid(t)'
      BY PaidGrows DEF Grows
    <3>2. fee \in Nat /\ fee <= Paid(t)
      <4>1. CASE bnb = None
        BY <3>1, <4>1
      <4>2. CASE bnb # None
        BY <1>6, <4>2 DEF Fine, Covered, TypeOK, Entry
      <4> QED BY <4>1, <4>2
    <3>3. TokenPast(t)'
      BY <1>3 DEF TokenPast, IsTokenOf
    <3> HIDE DEF fee
    <3> QED BY <3>1, <3>2, <3>3
  <2> HIDE DEF fee, bnb
  <2>8. CASE Verify(fee) /\ SendInbound(t) /\ UNCHANGED pendingInbounds
    <3>1. QueuedOnce(t)' /\ (Queued(t)' => blocked' # t)
      BY <1>1, <2>3, <2>8, SendOne
    <3>2. Alone(t)'
      BY <2>2, <2>4, <2>8, <3>1 DEF Alone
    <3>3. FeeMin <= Paid(t)'
      BY <2>7, <2>8, BoundAssumption DEF Verify
    <3>4. Covered(t)'
      BY <2>2, <2>6, <2>7, <2>8, <3>3 DEF Covered
    <3> QED BY <1>6, <3>2, <3>4, AloneNext DEF Fine
  <2>9. CASE /\ pendingInbounds' = [pendingInbounds EXCEPT ![t] = [height |-> number, fee |-> fee]]
             /\ UNCHANGED <<InboundReqChan, blocked>>
    <3>1. pendingInbounds'[t].fee = fee
      BY <2>9 DEF TypeOK
    <3>2. ~Queued(t)' /\ QueuedOnce(t)' /\ blocked' # t
      BY <2>3, <2>9 DEF Queued, QueuedOnce
    <3>3. Alone(t)' /\ ~Requested(t)'
      BY <2>4, <3>2 DEF Alone, Requested
    <3>4. Covered(t)'
      BY <2>6, <2>7, <3>1, <3>3, AloneNext DEF Covered
    <3> QED BY <1>6, <3>3, <3>4, AloneNext DEF Fine
  <2> QED BY <2>5, <2>8, <2>9
<1> QED BY <1>5, <1>6

(* A fee is counted when the loop passes it, and no fee is passed twice.    *)
LEMMA FineFeePayment ==
    ASSUME TypeOK, TypeOK', Following, Grows, NEW u \in TxId, Fine(u), FeePayment
    PROVE  Fine(u)'
<1>0. PICK x : x = Head(todo)
  OBVIOUS
<1>1. NextTx /\ x.kind = "native" /\ x.status = 1 /\ updateInboundTx(x.hash, x.value)
  BY <1>0 DEF FeePayment, IsFeePayment
<1>2. PICK t \in TxId : t = x.hash
  BY <1>0, <1>1, FollowNext, PubTxAssumption
<1>3. /\ x \in PubTx /\ ~Past(x) /\ Past(x)' /\ IsFeeOf(t, x) /\ x.value \in Nat
  BY <1>0, <1>1, <1>2, FollowNext, PubTxAssumption DEF IsFeeOf
<1>4. UNCHANGED <<InboundReqChan, checking, blocked>> /\ KeepsQueue(u) /\ KeepsChecks(u)
  <2>1. UNCHANGED <<InboundReqChan, checking, blocked>>
    BY <1>1 DEF updateInboundTx
  <2> QED BY <2>1, UnchangedKeeps
<1>5. CASE u # t
  <2>1. KeepsPending(u)
    BY <1>1, <1>2, <1>5 DEF updateInboundTx, KeepsPending, TypeOK
  <2>2. KeepsRetry(u)
    <3>1. UNCHANGED RetryInboundReq \/ AddItem(t)
      BY <1>1, <1>2 DEF updateInboundTx
    <3> QED BY <1>5, <3>1, AddOne, UnchangedKeeps
  <2> QED BY <1>4, <2>1, <2>2, StillFine
<1>6. CASE u = t
  <2>1. /\ Paid(t) \in Nat /\ Paid(t)' \in Nat /\ Paid(t) + x.value <= Paid(t)'
        /\ TokenPast(t) => TokenPast(t)'
    BY <1>3, PaidGrows, PaidAdds DEF Grows
  <2>2. Alone(t) /\ Covered(t)
    BY <1>6, AloneMeans DEF Fine
  <2>3. CASE pendingInbounds[t] = None
    <3>1. /\ pendingInboundsBnB' = [pendingInboundsBnB EXCEPT
                ![t] = [height |-> number, fee |-> x.value]]
          /\ UNCHANGED <<pendingInbounds, RetryInboundReq>>
      BY <1>1, <1>2, <2>3 DEF updateInboundTx
    <3>2. pendingInboundsBnB'[t].fee = x.value
      BY <3>1 DEF TypeOK
    <3>3. KeepsRetry(t)
      BY <3>1, UnchangedKeeps
    <3>4. Alone(t)'
      BY <1>4, <2>2, <3>1 DEF Alone, Requested, Queued, QueuedOnce, Checked, CheckedOnce
    <3>5. Accepted(t)' => Accepted(t)
      BY <1>4, <3>1 DEF Accepted
    <3>6. Covered(t)'
      <4>1. Accepted(t)' => TokenPast(t)' /\ FeeMin <= Paid(t)'
        BY <1>3, <2>1, <2>2, <3>5, BoundAssumption DEF Covered
      <4>2. x.value <= Paid(t)'
        BY <1>3, <2>1
      <4> QED BY <2>3, <3>1, <3>2, <4>1, <4>2 DEF Covered
    <3> QED BY <1>6, <3>4, <3>6, AloneNext DEF Fine
  <2>4. CASE pendingInbounds[t] # None
    <3> DEFINE in == pendingInbounds[t]
               fee == in.fee + x.value
    <3>1. in \in Entry /\ in.fee \in Nat /\ fee \in Nat
      <4>1. in \in Entry
        BY <2>4 DEF TypeOK
      <4> HIDE DEF in
      <4> QED BY <1>3, <4>1 DEF Entry
    <3>2. /\ ~Queued(t) /\ blocked # t /\ RetryInboundReq[t] = 0 /\ ~Checked(t)
          /\ QueuedOnce(t) /\ CheckedOnce(t)
      BY <2>2, <2>4 DEF Alone, Requested, TypeOK
    <3>3. TokenPast(t)' /\ fee <= Paid(t)'
      <4>1. TokenPast(t) /\ in.fee <= Paid(t)
        BY <2>2, <2>4 DEF Covered
      <4> HIDE DEF in
      <4> QED BY <1>3, <2>1, <3>1, <4>1
    <3>4. /\ pendingInboundsBnB' = pendingInboundsBnB
          /\ \/ /\ Verify(fee) /\ AddItem(t)
                /\ pendingInbounds' = [pendingInbounds EXCEPT ![t] = None]
             \/ /\ pendingInbounds' = [pendingInbounds EXCEPT
                        ![t] = [height |-> in.height, fee |-> fee]]
                /\ UNCHANGED RetryInboundReq
      BY <1>1, <1>2, <2>4 DEF updateInboundTx
    <3>5. pendingInboundsBnB'[t] # None => pendingInboundsBnB'[t].fee <= Paid(t)'
      <4>1. pendingInboundsBnB[t] # None =>
              pendingInboundsBnB[t].fee \in Nat /\ pendingInboundsBnB[t].fee <= Paid(t)
        BY <2>2 DEF Covered, TypeOK, Entry
      <4> QED BY <1>3, <2>1, <3>4, <4>1
    <3>6. /\ ~Queued(t)' /\ blocked' # t /\ ~Checked(t)' /\ QueuedOnce(t)' /\ CheckedOnce(t)'
      BY <1>4, <3>2 DEF Queued, QueuedOnce, Checked, CheckedOnce
    <3> HIDE DEF fee, in
    <3>7. CASE /\ Verify(fee) /\ AddItem(t)
               /\ pendingInbounds' = [pendingInbounds EXCEPT ![t] = None]
      <4>1. pendingInbounds'[t] = None /\ RetryInboundReq'[t] = 1
        BY <3>2, <3>7, AddOne DEF TypeOK
      <4>2. Alone(t)'
        BY <3>6, <4>1 DEF Alone
      <4>3. FeeMin <= Paid(t)'
        BY <2>1, <3>1, <3>3, <3>7, BoundAssumption DEF Verify
      <4>4. Covered(t)'
        BY <3>3, <3>5, <4>1, <4>3 DEF Covered
      <4> QED BY <1>6, <4>2, <4>4, AloneNext DEF Fine
    <3>8. CASE /\ pendingInbounds' = [pendingInbounds EXCEPT
                        ![t] = [height |-> in.height, fee |-> fee]]
               /\ UNCHANGED RetryInboundReq
      <4>1. pendingInbounds'[t].fee = fee /\ RetryInboundReq'[t] = 0
        BY <3>2, <3>8 DEF TypeOK
      <4>2. Alone(t)' /\ ~Requested(t)'
        BY <3>6, <4>1 DEF Alone, Requested
      <4>3. Covered(t)'
        BY <3>3, <3>5, <4>1, <4>2, AloneNext DEF Covered
      <4> QED BY <1>6, <4>2, <4>3, AloneNext DEF Fine
    <3> QED BY <3>4, <3>7, <3>8
  <2> QED BY <2>3, <2>4
<1> QED BY <1>5, <1>6

-----------------------------------------------------------------------------
(* Every step that does not reorganise the chain keeps every deposit fine.  *)
LEMMA FineStep ==
    ASSUME TypeOK, TypeOK', Following, Grows, [Next]_vars,
           NEW u \in TxId, Fine(u)
    PROVE  Fine(u)'
<1>1. CASE TokenTransfer
  BY <1>1, FineTokenTransfer
<1>2. CASE FeePayment
  BY <1>2, FineFeePayment
<1>3. CASE NewJoltifyBlock \/ NewJoltifyBlockNoPools
  BY <1>3, FineJoltifyBlock
<1>4. ASSUME NEW t \in TxId, HandleInbound(t) PROVE Fine(u)'
  BY <1>4, FineHandle
<1>5. ASSUME NEW j \in Job, CheckSucceeds(j) \/ CheckTimesOut(j) PROVE Fine(u)'
  BY <1>5, FineCheck
<1>6. CASE FinishBlock
  <2>1. KeepsPending(u)
    BY <1>6 DEF FinishBlock, DeleteExpired, KeepsPending
  <2>2. UNCHANGED <<reqVars, blocked>>
    BY <1>6 DEF FinishBlock
  <2> QED BY <2>1, <2>2, UnchangedKeeps, StillFine DEF reqVars
<1>7. CASE UNCHANGED <<pendVars, reqVars, blocked>>
  BY <1>7, UnchangedKeeps, StillFine DEF reqVars
<1>8. \/ TokenTransfer \/ FeePayment \/ FinishBlock
      \/ NewJoltifyBlock \/ NewJoltifyBlockNoPools
      \/ \E t \in TxId : HandleInbound(t)
      \/ \E j \in Job : CheckSucceeds(j) \/ CheckTimesOut(j)
      \/ UNCHANGED <<pendVars, reqVars, blocked>>
  BY DEF Next, Loop, ProcessTx, Goroutine, Environment, vars, loopVars, NewHead,
         NewHeadFails, TakeHead, OtherTx, ReceiptFails, Mine, Reorg, CreatePool,
         OthersSubmit, Execute, Drop
<1> QED BY <1>1, <1>2, <1>3, <1>4, <1>5, <1>6, <1>7, <1>8

(* The inductive invariant: before the first reorganisation the loop        *)
(* follows the chain in its order, and every deposit is in one place at     *)
(* most, with no more counted for it than was paid.                         *)
LEMMA InboundPayInv == Spec => []PayInv
<1>1. Init => PayInv
  <2> SUFFICES ASSUME Init PROVE PayInv
      OBVIOUS
  <2>1. Following
    BY DEF Init, Following, Announced, OnceOnChain, TodoTaken, Taken
  <2>2. ASSUME NEW t \in TxId PROVE Covered(t) /\ Single(t)
    <3>1. ~Requested(t) /\ QueuedOnce(t) /\ CheckedOnce(t)
      BY <2>2, NoneNotTxId DEF Init, Requested, Queued, Checked, QueuedOnce, CheckedOnce
    <3>2. Alone(t)
      BY <2>2, <3>1 DEF Init, Alone, Requested
    <3>3. Covered(t)
      BY <2>2, <3>1, RequestedMeans DEF Init, Covered
    <3> QED BY <3>2, <3>3, AloneMeans
  <2> QED BY <2>1, <2>2, BoundAssumption DEF Init, PayInv
<1>2. TypeOK /\ TypeOK' /\ PayInv /\ [Next]_vars => PayInv'
  <2> SUFFICES ASSUME TypeOK, TypeOK', PayInv, [Next]_vars PROVE PayInv'
      OBVIOUS
  <2>1. reorgs' = reorgs \/ reorgs' = reorgs - 1
    BY DEF Next, Loop, ProcessTx, Goroutine, Environment, vars, chainVars, NewHead,
           NewHeadFails, TakeHead, TokenTransfer, FeePayment, NextTx, FinishBlock,
           OtherTx, ReceiptFails, NewJoltifyBlock, NewJoltifyBlockNoPools,
           HandleInbound, NotSigner, MintFails, AlreadySubmitted, MintSubmitted,
           ReceiveInbound, CheckSucceeds, CheckTimesOut, Mine, Reorg, CreatePool,
           OthersSubmit, Execute, Drop
  <2>2. reorgs' <= MaxReorg
    BY <2>1, BoundAssumption DEF PayInv, TypeOK
  <2>3. ASSUME NoReorgYet'
        PROVE  Following' /\ \A t \in TxId : Covered(t)' /\ Single(t)'
    <3>1. NoReorgYet /\ Following
      <4>1. CASE NoReorgYet
        BY <4>1 DEF PayInv
      <4>2. CASE ~NoReorgYet
        <5>1. reorgs < MaxReorg
          BY <4>2, BoundAssumption DEF PayInv, NoReorgYet, TypeOK
        <5> QED BY <2>1, <2>3, <5>1, BoundAssumption DEF NoReorgYet, TypeOK
      <4> QED BY <4>1, <4>2
    <3>2. Following' /\ Grows
      BY <2>3, <3>1, FollowStep DEF PayInv, Grows
    <3>3. ASSUME NEW t \in TxId PROVE Covered(t)' /\ Single(t)'
      <4>1. Fine(t)
        BY <3>1 DEF PayInv, Fine
      <4> QED BY <3>1, <3>2, <4>1, FineStep DEF Fine
    <3> QED BY <3>2, <3>3
  <2> QED BY <2>2, <2>3 DEF PayInv
<1> QED BY <1>1, <1>2, InboundType, PTL DEF Spec

(* Before the first reorganisation no payment of the fee is counted twice   *)
(* and no request is made before its token transfer: what updateInboundTx   *)
(* and processInboundTx release was paid for on the chain, in any order of  *)
(* the transactions and for any set of blocks and values.                   *)
THEOREM InboundOnlyPaidDeposits == Spec => []OnlyPaidDeposits
<1>1. ASSUME TypeOK, PayInv, NoReorgYet, NEW t \in TxId, Accepted(t)
      PROVE  TokenSent(t) /\ FeesMined(t) >= FeeMin
  <2>1. TokenPast(t) /\ FeeMin <= Paid(t)
    BY <1>1 DEF PayInv, Covered
  <2>2. TokenSent(t)
    BY <2>1 DEF TokenPast, IsTokenOf, Past, TokenSent
  <2> DEFINE fees == {tx \in PubTx : IsFeeOf(t, tx) /\ Mined(tx)}
  <2>3. IsFiniteSet(fees) /\ \A tx \in fees : tx.value \in Nat
    <3>1. \A tx \in fees : \E h \in 1..Len(canon) : \E i \in 1..Len(canon[h]) : canon[h][i] = tx
      BY DEF Mined
    <3>2. fees \subseteq {tx \in PubTx : IsFeeOf(t, tx)}
      OBVIOUS
    <3> QED BY <1>1, <3>1, <3>2, FeesFinite DEF TypeOK
  <2>4. PastFees(t) \in SUBSET fees
    BY DEF PastFees, Past
  <2>5. FeesMined(t) = TotalValue(fees)
    BY DEF FeesMined
  <2> HIDE DEF fees
  <2>6. Paid(t) <= FeesMined(t) /\ FeesMined(t) \in Nat
    BY <2>3, <2>4, <2>5, TotalValueType, TotalValueMonotonic DEF Paid
  <2>7. Paid(t) \in Nat
    <3>1. IsFiniteSet(PastFees(t)) /\ \A tx \in PastFees(t) : tx.value \in Nat
      BY <2>3, <2>4, FS_Subset
    <3> QED BY <3>1, TotalValueType DEF Paid
  <2> QED BY <2>1, <2>2, <2>6, <2>7, BoundAssumption
<1>2. TypeOK /\ PayInv => OnlyPaidDeposits
  BY <1>1 DEF OnlyPaidDeposits
<1> QED BY <1>2, InboundType, InboundPayInv, PTL

(* Before the first reorganisation a deposit is never in two places of the  *)
(* node, nor twice in one: the queue, the retry bag and the goroutines hand *)
(* a request on without leaving a copy, so that no two mints of one deposit *)
(* race on this node.                                                       *)
THEOREM InboundSingleCopy == Spec => []SingleCopy
<1>1. PayInv => SingleCopy
  BY DEF PayInv, SingleCopy
<1> QED BY <1>1, InboundPayInv, PTL

=============================================================================
