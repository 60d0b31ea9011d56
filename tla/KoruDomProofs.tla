--------------------------- MODULE KoruDomProofs ---------------------------
(***************************************************************************)
(* The keyed table, for every capacity, build size, swap and label width:  *)
(* pos is a permutation, the handle table is sound, the page follows the   *)
(* store and is the benchmark's table, and a kept handle stays dead.       *)
(*                                                                         *)
(* First the store; then the page: the two insertBefore calls of the swap  *)
(* exchange two elements and no others, a removal takes one element, and   *)
(* after every step the page is the store in table order.  Then a budget   *)
(* of generations: an id pays for the removal and the clear its slot may   *)
(* spend, so no generation comes round again.  Last the refinement: what   *)
(* each click does to the elements is a gesture of KeyedTable.             *)
(***************************************************************************)
EXTENDS KoruDom, SequenceTheorems, FiniteSetTheorems, TLAPS

\* The store's part of the type.
StoreType ==
    /\ rows \in Seq(RowRec) /\ Len(rows) <= Capacity
    /\ hslotRow \in [Slots -> 0..Capacity] /\ hslotGen \in [Slots -> Gens]
    /\ hslotFree \in Seq(Slots) /\ hslotNext \in 0..Capacity
    /\ seqNext \in Nat \ {0} /\ cnt \in Nat /\ todo \in Nat

StoreInv == StoreType /\ PosIsPermutation /\ HandlesSound

\* Facts about the constants the steps below use.
LEMMA Sizes ==
    /\ Capacity \in Nat \ {0} /\ GenMod \in Nat \ {0} /\ Stripe \in Nat \ {0}
    /\ MarkLen \in Nat \ {0} /\ LabelCap \in Nat \ {0}
    /\ RunRows \in Nat \ {0} /\ LotsRows \in Nat \ {0} /\ AddRows \in Nat \ {0}
    /\ SwapA \in Nat /\ SwapB \in Nat /\ SwapA < SwapB
    /\ LabelLens \subseteq Labels
    BY SizesAssumption DEF SizesAssumption, Labels

\* A cut label fits its column.
LEMMA CutFits == ASSUME NEW n \in Nat PROVE Cut(n) \in Labels
    BY Sizes DEF Cut, Min2, Labels

\* The next generation of a slot is a generation.
LEMMA NextGen == ASSUME NEW g \in Gens PROVE (g + 1) % GenMod \in Gens
    BY Sizes DEF Gens

\* What the store's invariant says of one row, of one free slot and of the
\* counters, in the form the steps use.
LEMMA StoreFacts ==
    ASSUME StoreInv
    PROVE  /\ Len(rows) \in Nat /\ Len(rows) <= Capacity /\ DOMAIN rows = 1..Len(rows)
           /\ cnt = Len(rows) /\ hslotNext \in Nat /\ hslotNext <= Capacity
           /\ Len(hslotFree) \in Nat /\ DOMAIN hslotFree = 1..Len(hslotFree)
           /\ hslotNext = Len(rows) + Len(hslotFree)
           /\ \A i \in DOMAIN rows :
                /\ rows[i] \in RowRec /\ rows[i].pos \in Nat /\ rows[i].pos < Len(rows)
                /\ rows[i].slot \in Slots /\ rows[i].slot \in Nat
                /\ rows[i].slot < hslotNext /\ hslotRow[rows[i].slot] = i
           /\ \A k \in DOMAIN hslotFree :
                /\ hslotFree[k] \in Slots /\ hslotFree[k] \in Nat /\ hslotFree[k] < hslotNext
<1>1. Slots \subseteq Nat BY Sizes DEF Slots
<1>2. /\ Len(rows) \in Nat /\ Len(rows) <= Capacity /\ DOMAIN rows = 1..Len(rows)
      /\ cnt = Len(rows) /\ hslotNext \in Nat /\ hslotNext <= Capacity
      /\ Len(hslotFree) \in Nat /\ DOMAIN hslotFree = 1..Len(hslotFree)
      /\ hslotNext = Len(rows) + Len(hslotFree)
    BY Sizes DEF StoreInv, StoreType, PosIsPermutation, HandlesSound
<1>3. ASSUME NEW i \in DOMAIN rows
      PROVE  /\ rows[i] \in RowRec /\ rows[i].pos \in Nat /\ rows[i].pos < Len(rows)
             /\ rows[i].slot \in Slots /\ rows[i].slot \in Nat
             /\ rows[i].slot < hslotNext /\ hslotRow[rows[i].slot] = i
    <2>1. rows[i] \in RowRec BY <1>2, <1>3 DEF StoreInv, StoreType
    <2>2. rows[i].pos \in Slots /\ rows[i].slot \in Slots BY <2>1 DEF RowRec
    <2> QED BY <1>1, <2>1, <2>2, <1>3 DEF StoreInv, PosIsPermutation, HandlesSound
<1>4. ASSUME NEW k \in DOMAIN hslotFree
      PROVE  hslotFree[k] \in Slots /\ hslotFree[k] \in Nat /\ hslotFree[k] < hslotNext
    <2>1. hslotFree[k] \in Slots BY <1>2, <1>4 DEF StoreInv, StoreType
    <2> QED BY <1>1, <2>1, <1>4 DEF StoreInv, HandlesSound
<1> QED BY <1>2, <1>3, <1>4

\* Before the first click the store is empty and sound.
LEMMA InitStore == Init => StoreInv
<1> SUFFICES ASSUME Init PROVE StoreInv OBVIOUS
<1>1. StoreType BY Sizes DEF Init, StoreType, Slots, Gens
<1>2. PosIsPermutation BY DEF Init, PosIsPermutation
<1>3. HandlesSound BY DEF Init, HandlesSound
<1> QED BY <1>1, <1>2, <1>3 DEF StoreInv

\* A clear empties the store.
LEMMA ClearStore == ASSUME StoreInv, ClearRows, seqNext' = seqNext, todo' \in Nat PROVE StoreInv'
<1>1. hslotGen' \in [Slots -> Gens]
    BY NextGen DEF StoreInv, StoreType, ClearRows
<1>2. StoreType' BY <1>1, Sizes DEF StoreInv, StoreType, ClearRows
<1>3. PosIsPermutation' BY DEF ClearRows, PosIsPermutation
<1>4. HandlesSound' BY DEF ClearRows, HandlesSound
<1> QED BY <1>2, <1>3, <1>4 DEF StoreInv

\* The slot an insert takes is nobody's, and the free list and the count of
\* slots stay in step.
LEMMA SlotTakenFresh ==
    ASSUME StoreInv, Len(rows) < Capacity
    PROVE  /\ SlotTaken.slot \in Slots /\ SlotTaken.free \in Seq(Slots)
           /\ SlotTaken.next \in 0..Capacity
           /\ SlotTaken.slot < SlotTaken.next /\ hslotNext <= SlotTaken.next
           /\ \A i \in DOMAIN rows : rows[i].slot # SlotTaken.slot
           /\ \A k \in DOMAIN SlotTaken.free :
                /\ k \in DOMAIN hslotFree /\ SlotTaken.free[k] = hslotFree[k]
                /\ SlotTaken.free[k] # SlotTaken.slot
           /\ SlotTaken.next = Len(rows) + 1 + Len(SlotTaken.free)
<1>1. CASE hslotFree # <<>>
    <2> DEFINE n == Len(hslotFree)
    <2>1. /\ n \in Nat \ {0} /\ DOMAIN hslotFree = 1..n
          /\ hslotNext = Len(rows) + n /\ Len(rows) \in Nat
        BY <1>1 DEF StoreInv, StoreType, HandlesSound
    <2>2. /\ SlotTaken.slot = hslotFree[n] /\ SlotTaken.next = hslotNext
          /\ SlotTaken.free = SubSeq(hslotFree, 1, n - 1)
        BY <1>1 DEF SlotTaken, Last, Front
    <2>3. /\ SlotTaken.free \in Seq(Slots) /\ Len(SlotTaken.free) = n - 1
          /\ DOMAIN SlotTaken.free = 1..(n - 1)
          /\ \A k \in 1..(n - 1) : SlotTaken.free[k] = hslotFree[k]
        BY <2>1, <2>2 DEF StoreInv, StoreType
    <2>4. n \in DOMAIN hslotFree BY <2>1
    <2>5. hslotFree[n] \in Slots BY <2>4 DEF StoreInv, StoreType
    <2>6. \A k \in 1..(n - 1) : k \in DOMAIN hslotFree /\ k # n
        <3> SUFFICES ASSUME NEW k \in 1..(n - 1) PROVE k \in 1..n /\ k # n BY <2>1
        <3>1. n \in Nat BY <2>1
        <3> HIDE DEF n
        <3> QED BY <3>1
    <2>7. \A k \in 1..(n - 1) : hslotFree[k] # hslotFree[n]
        BY <2>4, <2>6 DEF StoreInv, HandlesSound
    <2>8. \A i \in DOMAIN rows : rows[i].slot # hslotFree[n]
        BY <2>4 DEF StoreInv, HandlesSound
    <2>9. hslotFree[n] < hslotNext BY <2>4 DEF StoreInv, HandlesSound
    <2>10. hslotNext \in 0..Capacity BY DEF StoreInv, StoreType
    <2>11. SlotTaken.next = Len(rows) + 1 + Len(SlotTaken.free)
        <3> DEFINE m == Len(SlotTaken.free)
        <3>1. m = n - 1 BY <2>3
        <3> HIDE DEF m, n
        <3> QED BY <3>1, <2>1, <2>2
    <2> HIDE DEF n
    <2> QED BY <2>2, <2>3, <2>5, <2>6, <2>7, <2>8, <2>9, <2>10, <2>11
<1>2. CASE hslotFree = <<>>
    <2>1. hslotNext = Len(rows) /\ hslotNext \in Nat
        BY <1>2 DEF StoreInv, StoreType, HandlesSound
    <2>2. /\ SlotTaken.slot = hslotNext /\ SlotTaken.next = hslotNext + 1
          /\ SlotTaken.free = <<>>
        BY <1>2 DEF SlotTaken
    <2>3. \A i \in DOMAIN rows : rows[i].slot \in Slots /\ rows[i].slot < hslotNext
        BY StoreFacts
    <2>4. hslotNext < Capacity /\ hslotNext \in Slots BY <2>1, Sizes DEF Slots
    <2>5. \A i \in DOMAIN rows : rows[i].slot # hslotNext
        BY <2>1, StoreFacts
    <2>6. \A k \in DOMAIN SlotTaken.free : FALSE BY <2>2
    <2>7. SlotTaken.free \in Seq(Slots) /\ Len(SlotTaken.free) = 0 BY <2>2
    <2> QED BY <2>1, <2>2, <2>4, <2>5, <2>6, <2>7, Sizes
<1> QED BY <1>1, <1>2

\* A new row: it takes the last position and a slot that was nobody's.
LEMMA BuildStore ==
    ASSUME StoreInv, NEW len \in LabelLens, BuildOne(len) PROVE StoreInv'
<1> DEFINE t == SlotTaken
           n == Len(rows)
           new == [id |-> seqNext, pos |-> cnt, label |-> Cut(len), slot |-> t.slot]
<1>1. /\ n \in Nat /\ n < Capacity /\ DOMAIN rows = 1..n /\ cnt = n
    BY DEF StoreInv, StoreType, PosIsPermutation, BuildOne
<1>2. /\ t.slot \in Slots /\ t.free \in Seq(Slots) /\ t.next \in 0..Capacity
      /\ t.slot < t.next /\ hslotNext <= t.next
      /\ \A i \in DOMAIN rows : rows[i].slot # t.slot
      /\ \A k \in DOMAIN t.free : /\ k \in DOMAIN hslotFree /\ t.free[k] = hslotFree[k]
                                  /\ t.free[k] # t.slot
      /\ t.next = n + 1 + Len(t.free)
    BY <1>1, SlotTakenFresh
<1>3. /\ rows' = Append(rows, new) /\ hslotRow' = [hslotRow EXCEPT ![t.slot] = n + 1]
      /\ hslotFree' = t.free /\ hslotNext' = t.next /\ hslotGen' = hslotGen
      /\ seqNext' = seqNext + 1 /\ cnt' = cnt + 1 /\ todo' = todo - 1 /\ todo > 0
    BY DEF BuildOne
<1>4. Cut(len) \in Labels BY CutFits, Sizes DEF Labels
<1>5. cnt \in Slots BY <1>1, Sizes DEF Slots
<1>6. new \in RowRec BY <1>2, <1>4, <1>5 DEF RowRec, StoreInv, StoreType
<1> HIDE DEF t, new
<1>7. /\ rows' \in Seq(RowRec) /\ Len(rows') = n + 1 /\ DOMAIN rows' = 1..(n + 1)
      /\ \A i \in 1..n : rows'[i] = rows[i]
      /\ rows'[n + 1] = new
    BY <1>1, <1>3, <1>6 DEF StoreInv, StoreType
<1>8. new.pos = n /\ new.slot = t.slot BY <1>1 DEF new
<1>9. \A i \in 1..n : rows[i] \in RowRec BY <1>1 DEF StoreInv, StoreType
<1> HIDE DEF n
<1>10. StoreType'
    <2>1. n + 1 \in 0..Capacity BY <1>1, Sizes
    <2>2. hslotRow' \in [Slots -> 0..Capacity] BY <1>3, <2>1 DEF StoreInv, StoreType
    <2>3. hslotGen' \in [Slots -> Gens] BY <1>3 DEF StoreInv, StoreType
    <2>4. seqNext' \in Nat \ {0} /\ todo' \in Nat BY <1>3 DEF StoreInv, StoreType
    <2>5. rows' \in Seq(RowRec) /\ Len(rows') <= Capacity BY <1>7, <2>1
    <2>6. cnt' \in Nat BY <1>1, <1>3
    <2>7. hslotFree' \in Seq(Slots) /\ hslotNext' \in 0..Capacity BY <1>2, <1>3
    <2> QED BY <2>2, <2>3, <2>4, <2>5, <2>6, <2>7 DEF StoreType
<1>11. PosIsPermutation'
    <2>1. cnt' = Len(rows') BY <1>1, <1>3, <1>7
    <2>2. \A i \in 1..n : rows[i].pos < n /\ rows[i].pos \in Nat
        BY <1>1, StoreFacts DEF n
    <2>3. \A i \in DOMAIN rows' : rows'[i].pos < Len(rows')
        BY <1>1, <1>7, <1>8, <2>2
    <2>4. \A i, j \in 1..n : rows[i].pos = rows[j].pos => i = j
        BY <1>1 DEF StoreInv, PosIsPermutation
    <2>5. \A i, j \in DOMAIN rows' : rows'[i].pos = rows'[j].pos => i = j
        BY <1>1, <1>7, <1>8, <2>2, <2>4
    <2>6. \A p \in 0..(n - 1) : \E i \in 1..n : rows[i].pos = p
        BY <1>1 DEF StoreInv, PosIsPermutation, n
    <2>7. \A p \in 0..(Len(rows') - 1) : \E i \in DOMAIN rows' : rows'[i].pos = p
        <3> SUFFICES ASSUME NEW p \in 0..n PROVE \E i \in 1..(n + 1) : rows'[i].pos = p
            <4>1. DOMAIN rows' = 1..(n + 1) /\ Len(rows') - 1 = n BY <1>1, <1>7
            <4> QED BY <4>1
        <3>1. CASE p = n BY <3>1, <1>1, <1>7, <1>8
        <3>2. CASE p # n
            <4>1. p \in 0..(n - 1) BY <3>2, <1>1
            <4>2. PICK i \in 1..n : rows[i].pos = p BY <4>1, <2>6
            <4> QED BY <4>2, <1>1, <1>7
        <3> QED BY <3>1, <3>2
    <2> QED BY <2>1, <2>3, <2>5, <2>7 DEF PosIsPermutation
<1>12. HandlesSound'
    <2>1. \A i \in 1..n : rows[i].slot \in Slots /\ rows[i].slot < hslotNext
                          /\ hslotRow[rows[i].slot] = i /\ rows[i].slot # t.slot
        BY <1>1, <1>2, <1>9 DEF StoreInv, HandlesSound, RowRec
    <2>2. \A i \in 1..n : rows[i].slot < t.next
        <3> TAKE i \in 1..n
        <3>1. rows[i].slot \in Int /\ hslotNext \in Int /\ t.next \in Int
            BY <2>1, <1>2, Sizes DEF Slots, StoreInv, StoreType
        <3> QED BY <3>1, <2>1, <1>2
    <2>3. \A i \in DOMAIN rows' : rows'[i].slot < hslotNext' /\ hslotRow'[rows'[i].slot] = i
        <3> SUFFICES ASSUME NEW i \in 1..(n + 1)
                     PROVE  rows'[i].slot < hslotNext' /\ hslotRow'[rows'[i].slot] = i
            BY <1>7
        <3>1. CASE i = n + 1 BY <3>1, <1>2, <1>3, <1>7, <1>8 DEF StoreInv, StoreType
        <3>2. CASE i # n + 1
            <4>1. i \in 1..n BY <3>2, <1>1
            <4> QED BY <4>1, <2>1, <2>2, <1>2, <1>3, <1>7 DEF StoreInv, StoreType
        <3> QED BY <3>1, <3>2
    <2>4. ASSUME NEW k \in DOMAIN t.free
          PROVE /\ t.free[k] < t.next
                /\ \A i \in DOMAIN rows' : rows'[i].slot # t.free[k]
                /\ \A j \in DOMAIN t.free : t.free[j] = t.free[k] => j = k
        <3>1. k \in DOMAIN hslotFree /\ t.free[k] = hslotFree[k] /\ t.free[k] # t.slot
            BY <1>2, <2>4
        <3>2. t.free[k] < hslotNext /\ t.free[k] \in Slots
            BY <3>1 DEF StoreInv, StoreType, HandlesSound
        <3>3. t.free[k] < t.next
            <4>1. t.free[k] \in Int /\ hslotNext \in Int /\ t.next \in Int
                BY <3>2, <1>2, Sizes DEF Slots, StoreInv, StoreType
            <4> QED BY <4>1, <3>2, <1>2
        <3>4. \A i \in 1..n : rows[i].slot # t.free[k]
            BY <3>1, <1>1 DEF StoreInv, HandlesSound
        <3>5. \A i \in DOMAIN rows' : rows'[i].slot # t.free[k]
            <4> SUFFICES ASSUME NEW i \in 1..(n + 1) PROVE rows'[i].slot # t.free[k]
                BY <1>7
            <4>1. CASE i = n + 1 BY <4>1, <3>1, <1>7, <1>8
            <4>2. CASE i # n + 1
                <5>1. i \in 1..n BY <4>2, <1>1
                <5> QED BY <5>1, <3>4, <1>7
            <4> QED BY <4>1, <4>2
        <3>6. \A j \in DOMAIN t.free : t.free[j] = t.free[k] => j = k
            BY <3>1, <1>2 DEF StoreInv, HandlesSound
        <3> QED BY <3>3, <3>5, <3>6
    <2>5. hslotNext' = Len(rows') + Len(hslotFree') BY <1>2, <1>3, <1>7
    <2>6. hslotFree' = t.free /\ hslotNext' = t.next BY <1>3
    <2>7. \A k \in DOMAIN hslotFree' :
            /\ hslotFree'[k] < hslotNext'
            /\ \A i \in DOMAIN rows' : rows'[i].slot # hslotFree'[k]
            /\ \A j \in DOMAIN hslotFree' : hslotFree'[j] = hslotFree'[k] => j = k
        BY <2>4, <2>6
    <2> QED BY <2>3, <2>5, <2>7 DEF HandlesSound
<1> QED BY <1>10, <1>11, <1>12 DEF StoreInv

\* Rewriting columns of every row in place, its slot excepted, disturbs
\* nothing of the handle table.
LEMMA SweepHandles ==
    ASSUME StoreInv, rows' \in Seq(RowRec), Len(rows') = Len(rows),
           \A i \in DOMAIN rows : rows'[i].slot = rows[i].slot,
           UNCHANGED <<hslotRow, hslotFree, hslotNext>>
    PROVE  HandlesSound'
<1>1. DOMAIN rows' = DOMAIN rows BY StoreFacts
<1> QED BY <1>1 DEF StoreInv, HandlesSound

\* update marks labels and touches no position.
LEMMA UpdateStore == ASSUME StoreInv, Update PROVE StoreInv'
<1> DEFINE hit(i) == rows[i].pos % Stripe = 0
<1>1. /\ rows' = [i \in DOMAIN rows |->
                   IF hit(i) THEN [rows[i] EXCEPT !.label = Cut(@ + MarkLen)] ELSE rows[i]]
      /\ UNCHANGED <<hslotRow, hslotGen, hslotFree, hslotNext, seqNext, cnt, todo>>
    BY DEF Update
<1>2. ASSUME NEW i \in DOMAIN rows
      PROVE  /\ rows'[i] \in RowRec /\ rows'[i].slot = rows[i].slot
             /\ rows'[i].pos = rows[i].pos
    <2>1. rows[i] \in RowRec BY <1>2, StoreFacts
    <2>2. rows[i].label + MarkLen \in Nat BY <2>1, Sizes DEF RowRec, Labels
    <2>3. Cut(rows[i].label + MarkLen) \in Labels BY <2>2, CutFits
    <2>4. CASE hit(i)
        <3>1. rows'[i] = [rows[i] EXCEPT !.label = Cut(rows[i].label + MarkLen)]
            BY <1>1, <1>2, <2>4
        <3> QED BY <3>1, <2>1, <2>3 DEF RowRec
    <2>5. CASE ~hit(i)
        <3>1. rows'[i] = rows[i] BY <1>1, <1>2, <2>5
        <3> QED BY <3>1, <2>1
    <2> QED BY <2>4, <2>5
<1> HIDE DEF hit
<1>3. rows' \in Seq(RowRec) /\ Len(rows') = Len(rows) /\ DOMAIN rows' = DOMAIN rows
    BY <1>1, <1>2, StoreFacts
<1>4. StoreType' BY <1>1, <1>3 DEF StoreInv, StoreType
<1>5. PosIsPermutation' BY <1>1, <1>2, <1>3 DEF StoreInv, PosIsPermutation
<1>6. HandlesSound' BY <1>1, <1>2, <1>3, SweepHandles
<1> QED BY <1>4, <1>5, <1>6 DEF StoreInv

\* Exchanging two positions that both exist is a permutation of the positions.
LEMMA SwapPosFacts ==
    ASSUME NEW n \in Nat, SwapB < n
    PROVE  /\ \A p \in 0..(n - 1) : SwapPos(p) \in 0..(n - 1) /\ SwapPos(SwapPos(p)) = p
           /\ \A p, q \in 0..(n - 1) : SwapPos(p) = SwapPos(q) => p = q
    BY Sizes DEF SwapPos

\* swap: the two rows change places and all others keep theirs.
LEMMA SwapStore == ASSUME StoreInv, Swap PROVE StoreInv'
<1> DEFINE n == Len(rows)
<1>1. /\ rows' = [i \in DOMAIN rows |-> [rows[i] EXCEPT !.pos = SwapPos(rows[i].pos)]]
      /\ UNCHANGED <<hslotRow, hslotGen, hslotFree, hslotNext, seqNext, cnt, todo>>
      /\ cnt > SwapB
    BY DEF Swap
<1>2. n \in Nat /\ SwapB < n /\ n <= Capacity /\ DOMAIN rows = 1..n /\ cnt = n
    BY <1>1, StoreFacts
<1>3. \A i \in 1..n : rows[i].pos \in 0..(n - 1) BY <1>2, StoreFacts
<1>4. ASSUME NEW i \in DOMAIN rows
      PROVE  /\ rows'[i] \in RowRec /\ rows'[i].slot = rows[i].slot
             /\ rows'[i].pos = SwapPos(rows[i].pos) /\ rows'[i].pos \in 0..(n - 1)
    <2>1. rows[i] \in RowRec BY <1>4, StoreFacts
    <2>2. SwapPos(rows[i].pos) \in 0..(n - 1) BY <1>2, <1>3, <1>4, SwapPosFacts
    <2>3. SwapPos(rows[i].pos) \in Slots BY <2>2, <1>2, Sizes DEF Slots
    <2>4. rows'[i] = [rows[i] EXCEPT !.pos = SwapPos(rows[i].pos)] BY <1>1, <1>4
    <2> QED BY <2>1, <2>2, <2>3, <2>4 DEF RowRec
<1>5. rows' \in Seq(RowRec) /\ Len(rows') = n /\ DOMAIN rows' = 1..n
    BY <1>1, <1>2, <1>4
<1> HIDE DEF n
<1>6. StoreType' BY <1>1, <1>2, <1>5 DEF StoreInv, StoreType
<1>7. PosIsPermutation'
    <2>1. cnt' = Len(rows') BY <1>1, <1>2, <1>5
    <2>2. \A i \in DOMAIN rows' : rows'[i].pos < Len(rows') BY <1>2, <1>4, <1>5
    <2>3. ASSUME NEW i \in DOMAIN rows', NEW j \in DOMAIN rows', rows'[i].pos = rows'[j].pos
          PROVE  i = j
        <3>1. i \in 1..n /\ j \in 1..n BY <2>3, <1>5
        <3>2. SwapPos(rows[i].pos) = SwapPos(rows[j].pos) BY <3>1, <2>3, <1>2, <1>4
        <3>3. rows[i].pos = rows[j].pos BY <3>1, <3>2, <1>2, <1>3, SwapPosFacts
        <3> QED BY <3>1, <3>3, <1>2 DEF StoreInv, PosIsPermutation
    <2>4. ASSUME NEW p \in 0..(Len(rows') - 1)
          PROVE  \E i \in DOMAIN rows' : rows'[i].pos = p
        <3>1. p \in 0..(n - 1) BY <1>5
        <3>2. SwapPos(p) \in 0..(n - 1) /\ SwapPos(SwapPos(p)) = p
            BY <3>1, <1>2, SwapPosFacts
        <3>3. PICK i \in DOMAIN rows : rows[i].pos = SwapPos(p)
            BY <3>2 DEF StoreInv, PosIsPermutation, n
        <3> QED BY <3>2, <3>3, <1>2, <1>4, <1>5
    <2> QED BY <2>1, <2>2, <2>3, <2>4 DEF PosIsPermutation
<1>8. HandlesSound' BY <1>1, <1>4, <1>5, SweepHandles DEF n
<1> QED BY <1>6, <1>7, <1>8 DEF StoreInv

\* A handle that resolves is the handle of the row it resolves to.
LEMMA RowOfFacts ==
    ASSUME StoreInv, NEW h, RowOf(h) # 0
    PROVE  /\ RowOf(h) \in DOMAIN rows /\ h # NoHandle
           /\ h.gen = hslotGen[h.slot] /\ hslotRow[h.slot] = RowOf(h)
    BY DEF RowOf

\* remove: the last row moves into the hole, the sweep closes the gap, and
\* the slot that went is free.
LEMMA RemoveStore == ASSUME StoreInv, NEW key, RemoveRow(key) PROVE StoreInv'
<1> DEFINE n == Len(rows)
           r == RowOf(key)
           gap == rows[r].pos
           slot == rows[r].slot
           at(i) == IF i = r THEN n ELSE i
<1>1. /\ rows' = Closed(Taken(r), gap)
      /\ hslotRow' = [hslotRow EXCEPT ![rows[n].slot] = r, ![slot] = 0]
      /\ hslotGen' = [hslotGen EXCEPT ![slot] = (@ + 1) % GenMod]
      /\ hslotFree' = Append(hslotFree, slot)
      /\ cnt' = cnt - 1 /\ UNCHANGED <<hslotNext, seqNext, todo>> /\ r # 0
    BY DEF RemoveRow
<1>2. r \in DOMAIN rows BY <1>1, RowOfFacts
<1>3. n \in Nat /\ n <= Capacity /\ DOMAIN rows = 1..n /\ cnt = n BY StoreFacts
<1>4. n > 0 /\ n \in DOMAIN rows BY <1>2, <1>3
<1>5. /\ gap \in 0..(n - 1) /\ slot \in Slots /\ slot \in Nat /\ slot < hslotNext
      /\ hslotRow[slot] = r
    BY <1>2, <1>3, StoreFacts
<1>6. \A i \in 1..(n - 1) : at(i) \in 1..n /\ at(i) # r
    BY <1>2, <1>3
<1>7. \A i, j \in 1..(n - 1) : at(i) = at(j) => i = j
    BY <1>2, <1>3
<1>8. DOMAIN Taken(r) = 1..(n - 1) /\ \A i \in 1..(n - 1) : Taken(r)[i] = rows[at(i)]
    BY DEF Taken
<1> HIDE DEF n, r, gap, slot, at
<1>9. rows' = [i \in 1..(n - 1) |->
                 [rows[at(i)] EXCEPT !.pos = IF rows[at(i)].pos > gap THEN rows[at(i)].pos - 1
                                                               ELSE rows[at(i)].pos]]
    BY <1>1, <1>8 DEF Closed
<1>10. \A i \in 1..n : rows[i] \in RowRec /\ rows[i].pos \in 0..(n - 1)
    BY <1>3, StoreFacts DEF n
<1>11. \A i \in 1..(n - 1) : rows[at(i)].pos # gap
    BY <1>2, <1>3, <1>6 DEF StoreInv, PosIsPermutation, gap
<1>12. ASSUME NEW i \in 1..(n - 1)
       PROVE  /\ rows'[i] \in RowRec /\ rows'[i].slot = rows[at(i)].slot
              /\ rows'[i].pos = IF rows[at(i)].pos > gap THEN rows[at(i)].pos - 1
                                                          ELSE rows[at(i)].pos
              /\ rows'[i].pos \in 0..(n - 2)
    <2> DEFINE old == rows[at(i)]
               new == IF old.pos > gap THEN old.pos - 1 ELSE old.pos
    <2>1. old \in RowRec /\ old.pos \in 0..(n - 1) /\ old.pos # gap
        BY <1>6, <1>10, <1>11, <1>12
    <2>2. rows'[i] = [old EXCEPT !.pos = new] BY <1>9, <1>12
    <2> HIDE DEF old
    <2>3. new \in 0..(n - 2) BY <2>1, <1>3, <1>4, <1>5
    <2>4. new \in Slots BY <2>3, <1>3, Sizes DEF Slots
    <2> HIDE DEF new
    <2>5. rows'[i] \in RowRec /\ rows'[i].slot = old.slot /\ rows'[i].pos = new
        BY <2>1, <2>2, <2>4 DEF RowRec
    <2> QED BY <2>3, <2>5 DEF old, new
<1>13. rows' \in Seq(RowRec) /\ Len(rows') = n - 1 /\ DOMAIN rows' = 1..(n - 1)
    <2>1. n - 1 \in Nat BY <1>3, <1>4
    <2> QED BY <2>1, <1>9, <1>12
<1>14. StoreType'
    <2>1. hslotRow' \in [Slots -> 0..Capacity]
        <3>1. r \in 0..Capacity /\ 0 \in 0..Capacity BY <1>2, <1>3, Sizes
        <3> QED BY <3>1, <1>1 DEF StoreInv, StoreType
    <2>2. hslotGen' \in [Slots -> Gens]
        <3>1. (hslotGen[slot] + 1) % GenMod \in Gens
            BY <1>5, NextGen DEF StoreInv, StoreType
        <3> QED BY <3>1, <1>1 DEF StoreInv, StoreType
    <2>3. hslotFree' \in Seq(Slots) BY <1>1, <1>5 DEF StoreInv, StoreType
    <2>4. Len(rows') <= Capacity /\ cnt' \in Nat BY <1>1, <1>3, <1>4, <1>13, Sizes
    <2> QED BY <2>1, <2>2, <2>3, <2>4, <1>1, <1>13 DEF StoreInv, StoreType
<1>15. PosIsPermutation'
    <2>1. cnt' = Len(rows') BY <1>1, <1>3, <1>13
    <2>2. \A i \in DOMAIN rows' : rows'[i].pos < Len(rows') BY <1>3, <1>4, <1>12, <1>13
    <2>3. ASSUME NEW i \in DOMAIN rows', NEW j \in DOMAIN rows', rows'[i].pos = rows'[j].pos
          PROVE  i = j
        <3>1. i \in 1..(n - 1) /\ j \in 1..(n - 1) BY <1>13, <2>3
        <3>2. /\ rows[at(i)].pos \in 0..(n - 1) /\ rows[at(j)].pos \in 0..(n - 1)
              /\ rows[at(i)].pos # gap /\ rows[at(j)].pos # gap
            BY <3>1, <1>6, <1>10, <1>11
        <3>3. rows[at(i)].pos = rows[at(j)].pos
            <4> DEFINE p == rows[at(i)].pos
                       q == rows[at(j)].pos
            <4>1. /\ p \in 0..(n - 1) /\ q \in 0..(n - 1) /\ p # gap /\ q # gap
                BY <3>2
            <4>2. /\ rows'[i].pos = IF p > gap THEN p - 1 ELSE p
                  /\ rows'[j].pos = IF q > gap THEN q - 1 ELSE q
                BY <3>1, <1>12
            <4> HIDE DEF p, q
            <4>3. p = q BY <4>1, <4>2, <2>3, <1>3, <1>5
            <4> QED BY <4>3 DEF p, q
        <3>4. at(i) = at(j)
            BY <3>1, <3>3, <1>3, <1>6 DEF StoreInv, PosIsPermutation
        <3> QED BY <3>1, <3>4, <1>7
    <2>4. ASSUME NEW p \in 0..(Len(rows') - 1)
          PROVE  \E i \in DOMAIN rows' : rows'[i].pos = p
        <3> DEFINE q == IF p < gap THEN p ELSE p + 1
        <3>1. p \in 0..(n - 2) BY <1>3, <1>4, <1>13
        <3>2. q \in 0..(n - 1) /\ q # gap BY <3>1, <1>3, <1>4, <1>5
        <3>3. PICK k \in DOMAIN rows : rows[k].pos = q
            BY <3>2 DEF StoreInv, PosIsPermutation, n
        <3>4. k \in 1..n /\ k # r BY <3>2, <3>3, <1>3 DEF gap
        <3>5. PICK i \in 1..(n - 1) : at(i) = k
            <4>1. CASE k = n
                <5>1. r \in 1..(n - 1) /\ at(r) = k
                    BY <4>1, <3>4, <1>2, <1>3, <1>4 DEF at
                <5> QED BY <5>1
            <4>2. CASE k # n
                <5>1. k \in 1..(n - 1) /\ at(k) = k
                    BY <4>2, <3>4, <1>3 DEF at
                <5> QED BY <5>1
            <4> QED BY <4>1, <4>2
        <3>6. rows'[i].pos = IF q > gap THEN q - 1 ELSE q BY <3>3, <3>5, <1>12
        <3>7. rows'[i].pos = p BY <3>1, <3>2, <3>6, <1>3, <1>5
        <3> QED BY <3>5, <3>7, <1>13
    <2> QED BY <2>1, <2>2, <2>3, <2>4 DEF PosIsPermutation
<1>16. HandlesSound'
    <2>1. \A i, j \in 1..n : rows[i].slot = rows[j].slot => i = j
        BY <1>3, StoreFacts
    <2>2. \A i \in 1..(n - 1) : rows[at(i)].slot # slot
        BY <2>1, <1>2, <1>3, <1>6 DEF slot
    <2>3. ASSUME NEW i \in DOMAIN rows'
          PROVE  rows'[i].slot < hslotNext' /\ hslotRow'[rows'[i].slot] = i
        <3>1. i \in 1..(n - 1) /\ rows'[i].slot = rows[at(i)].slot BY <1>12, <1>13, <2>3
        <3>2. at(i) \in 1..n BY <3>1, <1>6
        <3>3. /\ rows[at(i)].slot \in Slots /\ rows[at(i)].slot < hslotNext
              /\ hslotRow[rows[at(i)].slot] = at(i)
            BY <3>2, <1>3, StoreFacts
        <3>4. CASE i = r
            <4>1. at(i) = n BY <3>4 DEF at
            <4>2. hslotRow'[rows[n].slot] = r
                BY <4>1, <3>1, <3>3, <1>1, <2>2 DEF StoreInv, StoreType
            <4> QED BY <4>1, <4>2, <3>1, <3>3, <3>4, <1>1
        <3>5. CASE i # r
            <4>1. at(i) = i /\ i # n BY <3>1, <3>5, <1>3, <1>4 DEF at
            <4>2. i \in 1..n BY <3>1, <1>3
            <4>3. rows[i].slot # rows[n].slot BY <4>1, <4>2, <2>1, <1>3, <1>4
            <4>4. hslotRow'[rows[i].slot] = i
                BY <4>1, <4>3, <3>1, <3>3, <1>1, <2>2 DEF StoreInv, StoreType
            <4> QED BY <4>1, <4>4, <3>1, <3>3, <1>1
        <3> QED BY <3>4, <3>5
    <2> DEFINE m == Len(hslotFree)
    <2>4. /\ m \in Nat /\ DOMAIN hslotFree = 1..m /\ DOMAIN hslotFree' = 1..(m + 1)
          /\ Len(hslotFree') = m + 1 /\ hslotFree'[m + 1] = slot
          /\ \A k \in 1..m : hslotFree'[k] = hslotFree[k]
        BY <1>1, <1>5, StoreFacts DEF StoreInv, StoreType
    <2> HIDE DEF m
    <2>5. \A k \in 1..m : hslotFree[k] # slot /\ hslotFree[k] < hslotNext
        BY <2>4, <1>2 DEF StoreInv, HandlesSound, slot
    <2>6. ASSUME NEW k \in DOMAIN hslotFree'
          PROVE  /\ hslotFree'[k] < hslotNext'
                 /\ \A i \in DOMAIN rows' : rows'[i].slot # hslotFree'[k]
                 /\ \A j \in DOMAIN hslotFree' : hslotFree'[j] = hslotFree'[k] => j = k
        <3>1. CASE k = m + 1
            <4>1. \A i \in DOMAIN rows' : rows'[i].slot # slot BY <2>2, <1>12, <1>13
            <4>2. \A j \in 1..(m + 1) : j = m + 1 \/ j \in 1..m BY <2>4
            <4> QED BY <3>1, <4>1, <4>2, <2>4, <2>5, <1>1, <1>5
        <3>2. CASE k # m + 1
            <4>1. k \in 1..m BY <3>2, <2>4, <2>6
            <4>2. \A i \in 1..n : rows[i].slot # hslotFree[k]
                BY <4>1, <2>4, <1>3 DEF StoreInv, HandlesSound
            <4>3. \A i \in DOMAIN rows' : rows'[i].slot # hslotFree[k]
                BY <4>2, <1>6, <1>12, <1>13
            <4>4. \A j \in 1..(m + 1) : j = m + 1 \/ j \in 1..m BY <2>4
            <4>5. \A j \in 1..m : hslotFree[j] = hslotFree[k] => j = k
                BY <4>1, <2>4 DEF StoreInv, HandlesSound
            <4> QED BY <4>1, <4>3, <4>4, <4>5, <2>4, <2>5, <1>1
        <3> QED BY <3>1, <3>2
    <2>7. hslotNext' = Len(rows') + Len(hslotFree')
        <3>1. hslotNext = n + m BY StoreFacts DEF n, m
        <3> QED BY <3>1, <2>4, <1>1, <1>3, <1>13
    <2> QED BY <2>3, <2>6, <2>7 DEF HandlesSound
<1> QED BY <1>14, <1>15, <1>16 DEF StoreInv
-----------------------------------------------------------------------------
(* The store's invariant *)

\* Every click preserves the store's invariant.
LEMMA NextStore == StoreInv /\ [Next]_vars => StoreInv'
<1> SUFFICES ASSUME StoreInv, [Next]_vars PROVE StoreInv'
    OBVIOUS
<1>1. ASSUME NEW n \in Nat \ {0}, Run(n) PROVE StoreInv'
    BY <1>1, ClearStore DEF Run
<1>2. Run(RunRows) \/ Run(LotsRows) => StoreInv' BY <1>1, Sizes
<1>3. ASSUME Add PROVE StoreInv'
    <2>1. UNCHANGED <<store, cnt, seqNext>> /\ todo' = AddRows BY <1>3 DEF Add
    <2>2. AddRows \in Nat BY Sizes
    <2> QED BY <2>1, <2>2 DEF StoreInv, StoreType, PosIsPermutation, HandlesSound, store
<1>4. ASSUME Clear PROVE StoreInv'
    <2>1. ClearRows /\ seqNext' = seqNext /\ todo' \in Nat
        BY <1>4 DEF Clear, StoreInv, StoreType
    <2> QED BY <2>1, ClearStore
<1>5. ASSUME BuildFull PROVE StoreInv'
    <2>1. UNCHANGED <<store, cnt, seqNext>> /\ todo' = todo - 1 /\ todo > 0
        BY <1>5 DEF BuildFull
    <2>2. todo' \in Nat BY <2>1 DEF StoreInv, StoreType
    <2> QED BY <2>1, <2>2 DEF StoreInv, StoreType, PosIsPermutation, HandlesSound, store
<1>6. ASSUME NEW key, Select(key) PROVE StoreInv'
    BY <1>6 DEF Select, StoreInv, StoreType, PosIsPermutation, HandlesSound, store
<1>7. ASSUME UNCHANGED vars PROVE StoreInv'
    BY <1>7 DEF vars, StoreInv, StoreType, PosIsPermutation, HandlesSound, store
<1> QED BY <1>2, <1>3, <1>4, <1>5, <1>6, <1>7, BuildStore, UpdateStore, SwapStore, RemoveStore
        DEF Next

\* The store's invariant holds throughout.
LEMMA StoreHolds == Spec => []StoreInv
<1>1. Init => StoreInv BY InitStore
<1>2. StoreInv /\ [Next]_vars => StoreInv' BY NextStore
<1> QED BY <1>1, <1>2, PTL DEF Spec

\* Whatever the sizes, the column pos stays an order of the rows, which the
\* handlers keep by repairing it and never by numbering it again.
THEOREM OrderKept == Spec => []PosIsPermutation
<1>1. StoreInv => PosIsPermutation BY DEF StoreInv
<1> QED BY <1>1, StoreHolds, PTL

\* Whatever the capacity, every row is the one its slot addresses and the
\* slots are the rows and the free list.
THEOREM HandlesStaySound == Spec => []HandlesSound
<1>1. StoreInv => HandlesSound BY DEF StoreInv
<1> QED BY <1>1, StoreHolds, PTL

-----------------------------------------------------------------------------
ElementRec == [key : Handle, id : Nat, label : Nat, danger : BOOLEAN]
Distinct(p) == \A i, j \in DOMAIN p : p[i].key = p[j].key => i = j

-----------------------------------------------------------------------------
(* Sequences of elements *)

\* r is s without its place i, and r is s with e before its place i.
Without(r, s, i) ==
    /\ Len(r) = Len(s) - 1
    /\ \A j \in 1..(Len(s) - 1) : r[j] = IF j < i THEN s[j] ELSE s[j + 1]
Inserted(r, s, i, e) ==
    /\ Len(r) = Len(s) + 1
    /\ \A j \in 1..(Len(s) + 1) : r[j] = IF j < i THEN s[j] ELSE IF j = i THEN e ELSE s[j - 1]

\* Removing one place of a sequence.
LEMMA RemoveAtPoints ==
    ASSUME NEW S, NEW s \in Seq(S), NEW i \in 1..Len(s)
    PROVE  RemoveAt(s, i) \in Seq(S) /\ Without(RemoveAt(s, i), s, i)
<1> DEFINE pre == SubSeq(s, 1, i - 1)
           post == SubSeq(s, i + 1, Len(s))
           n == Len(s)
<1>1. n \in Nat /\ i \in 1..n OBVIOUS
<1>2. pre \in Seq(S) /\ Len(pre) = i - 1 /\ \A j \in 1..(i - 1) : pre[j] = s[j]
    BY <1>1, SubSeqProperties
<1>3. post \in Seq(S) /\ Len(post) = n - i /\ \A j \in 1..(n - i) : post[j] = s[i + j]
    BY <1>1, SubSeqProperties
<1>4. /\ pre \o post \in Seq(S) /\ Len(pre \o post) = Len(pre) + Len(post)
      /\ \A j \in 1..(Len(pre) + Len(post)) :
            (pre \o post)[j] = IF j <= Len(pre) THEN pre[j] ELSE post[j - Len(pre)]
    BY <1>2, <1>3, ConcatProperties
<1>5. RemoveAt(s, i) = pre \o post BY DEF RemoveAt
<1> HIDE DEF pre, post, n
<1>6. Len(pre) + Len(post) = n - 1 BY <1>1, <1>2, <1>3
<1>7. ASSUME NEW j \in 1..(n - 1)
      PROVE  (pre \o post)[j] = IF j < i THEN s[j] ELSE s[j + 1]
    <2>1. CASE j < i BY <2>1, <1>1, <1>2, <1>4, <1>6
    <2>2. CASE ~(j < i)
        <3>1. j - (i - 1) \in 1..(n - i) /\ i + (j - (i - 1)) = j + 1 BY <2>2, <1>1
        <3>2. (pre \o post)[j] = post[j - (i - 1)] BY <2>2, <1>1, <1>2, <1>4, <1>6
        <3> QED BY <2>2, <3>1, <3>2, <1>3
    <2> QED BY <2>1, <2>2
<1> QED BY <1>4, <1>5, <1>6, <1>7 DEF n, Without

\* Inserting before one place of a sequence.
LEMMA InsertAtPoints ==
    ASSUME NEW S, NEW s \in Seq(S), NEW i \in 1..Len(s), NEW e \in S
    PROVE  InsertAt(s, i, e) \in Seq(S) /\ Inserted(InsertAt(s, i, e), s, i, e)
<1> DEFINE pre == SubSeq(s, 1, i - 1)
           post == SubSeq(s, i, Len(s))
           mid == Append(pre, e)
           n == Len(s)
<1>1. n \in Nat /\ i \in 1..n OBVIOUS
<1>2. pre \in Seq(S) /\ Len(pre) = i - 1 /\ \A j \in 1..(i - 1) : pre[j] = s[j]
    BY <1>1, SubSeqProperties
<1>3. /\ post \in Seq(S) /\ Len(post) = n - i + 1
      /\ \A j \in 1..(n - i + 1) : post[j] = s[i + j - 1]
    BY <1>1, SubSeqProperties
<1>4. /\ mid \in Seq(S) /\ Len(mid) = i /\ mid[i] = e
      /\ \A j \in 1..(i - 1) : mid[j] = s[j]
    BY <1>1, <1>2, AppendProperties
<1>5. pre \o <<e>> = mid BY <1>2, AppendIsConcat
<1>6. /\ mid \o post \in Seq(S) /\ Len(mid \o post) = Len(mid) + Len(post)
      /\ \A j \in 1..(Len(mid) + Len(post)) :
            (mid \o post)[j] = IF j <= Len(mid) THEN mid[j] ELSE post[j - Len(mid)]
    BY <1>3, <1>4, ConcatProperties
<1>7. InsertAt(s, i, e) = mid \o post BY <1>5 DEF InsertAt
<1> HIDE DEF pre, post, mid, n
<1>8. Len(mid) + Len(post) = n + 1 BY <1>1, <1>3, <1>4
<1>9. ASSUME NEW j \in 1..(n + 1)
      PROVE  (mid \o post)[j] = IF j < i THEN s[j] ELSE IF j = i THEN e ELSE s[j - 1]
    <2>1. CASE j <= i BY <2>1, <1>1, <1>4, <1>6, <1>8
    <2>2. CASE ~(j <= i)
        <3>1. j - i \in 1..(n - i + 1) /\ i + (j - i) - 1 = j - 1 BY <2>2, <1>1
        <3>2. (mid \o post)[j] = post[j - i] BY <2>2, <1>1, <1>4, <1>6, <1>8
        <3> QED BY <2>2, <3>1, <3>2, <1>3, <1>1, SMTT(30)
    <2> QED BY <2>1, <2>2
<1> QED BY <1>6, <1>7, <1>8, <1>9 DEF n, Inserted

\* In a page whose keys are distinct the place of a key is where it stands.
LEMMA PlaceOfKey ==
    ASSUME NEW p, Distinct(p), NEW i \in DOMAIN p PROVE PlaceOf(p, p[i].key) = i
    BY DEF PlaceOf, Distinct

\* No element has the null key.
LEMMA NoNullKey == NoHandle \notin Handle
    BY Sizes DEF NoHandle, Handle, Slots

\* The swap's two insertBefore calls exchange the two elements and move no
\* other, wherever they stand: side by side, or the second one last.
LEMMA SwapExchanges ==
    ASSUME NEW p \in Seq(ElementRec), Distinct(p),
           NEW a \in 1..Len(p), NEW b \in 1..Len(p), a < b
    PROVE  LET r == SwapElements(p, p[a].key, p[b].key)
           IN  /\ r \in Seq(ElementRec) /\ Len(r) = Len(p)
               /\ r[a] = p[b] /\ r[b] = p[a]
               /\ \A j \in 1..Len(p) : j # a /\ j # b => r[j] = p[j]
<1>0. SUFFICES ASSUME NEW n, n = Len(p), NEW ka, ka = p[a].key, NEW kb, kb = p[b].key,
                    NEW ea, ea = p[a], NEW eb, eb = p[b],
                    NEW rest, rest = RemoveAt(p, b),
                    NEW moved, moved = InsertAt(rest, a, eb),
                    NEW rest2, rest2 = RemoveAt(moved, a + 1),
                    NEW after, after = NextSibling(p, kb),
                    NEW r, r = SwapElements(p, ka, kb)
             PROVE  /\ r \in Seq(ElementRec) /\ Len(r) = n
                    /\ r[a] = p[b] /\ r[b] = p[a]
                    /\ \A j \in 1..n : j # a /\ j # b => r[j] = p[j]
    OBVIOUS
<1>1. /\ n \in Nat /\ DOMAIN p = 1..n /\ a \in 1..n /\ b \in 1..n
      /\ \A i \in 1..n : p[i] \in ElementRec
    BY <1>0
<1>2. PlaceOf(p, ka) = a /\ PlaceOf(p, kb) = b BY <1>0, <1>1, PlaceOfKey
<1>3. /\ rest \in Seq(ElementRec) /\ Len(rest) = n - 1
      /\ \A j \in 1..(n - 1) : rest[j] = IF j < b THEN p[j] ELSE p[j + 1]
    <2>1. rest = RemoveAt(p, b) /\ n = Len(p) BY <1>0
    <2>2. rest \in Seq(ElementRec) /\ Without(rest, p, b) BY <2>1, RemoveAtPoints
    <2> QED BY <2>1, <2>2 DEF Without
<1>4. a \in 1..(n - 1) /\ DOMAIN rest = 1..(n - 1) BY <1>1, <1>3
<1>5. rest[a] = p[a] BY <1>0, <1>1, <1>3, <1>4
<1>6. Distinct(rest)
    <2> DEFINE from(j) == IF j < b THEN j ELSE j + 1
    <2>1. \A j \in 1..(n - 1) : from(j) \in 1..n /\ rest[j] = p[from(j)] BY <1>1, <1>3
    <2>2. \A i, j \in 1..(n - 1) : from(i) = from(j) => i = j BY <1>1
    <2>3. \A i, j \in 1..n : p[i].key = p[j].key => i = j BY <1>1 DEF Distinct
    <2> HIDE DEF from
    <2> QED BY <2>1, <2>2, <2>3, <1>4 DEF Distinct
<1>7. PlaceOf(rest, ka) = a /\ ka \in Keys(rest)
    <2>1. ka = rest[a].key /\ a \in DOMAIN rest BY <1>0, <1>4, <1>5
    <2> QED BY <2>1, <1>6, PlaceOfKey DEF Keys
<1>8. InsertBefore(p, kb, ka) = moved BY <1>0, <1>2, <1>7 DEF InsertBefore
<1>9. /\ moved \in Seq(ElementRec) /\ Len(moved) = n
      /\ \A j \in 1..n : moved[j] = IF j < a THEN rest[j] ELSE IF j = a THEN p[b]
                                    ELSE rest[j - 1]
    <2>1. a \in 1..Len(rest) /\ Len(rest) + 1 = n /\ eb \in ElementRec
        BY <1>0, <1>1, <1>3, <1>4
    <2>2. moved = InsertAt(rest, a, eb) /\ eb = p[b] BY <1>0
    <2>3. moved \in Seq(ElementRec) /\ Inserted(moved, rest, a, eb)
        BY <2>1, <2>2, <1>3, InsertAtPoints
    <2> QED BY <2>1, <2>2, <2>3 DEF Inserted
<1>10. \A j \in 1..n : moved[j] = IF j < a THEN p[j] ELSE IF j = a THEN p[b]
                                  ELSE IF j <= b THEN p[j - 1] ELSE p[j]
    <2> SUFFICES ASSUME NEW j \in 1..n
                 PROVE  moved[j] = IF j < a THEN p[j] ELSE IF j = a THEN p[b]
                                   ELSE IF j <= b THEN p[j - 1] ELSE p[j]
        OBVIOUS
    <2>1. CASE j < a
        <3>1. j \in 1..(n - 1) /\ j < b BY <2>1, <1>1
        <3>2. rest[j] = p[j] BY <3>1, <1>3
        <3> QED BY <2>1, <3>2, <1>9
    <2>2. CASE j = a BY <2>2, <1>9
    <2>3. CASE j > a
        <3>1. j - 1 \in 1..(n - 1) /\ (j - 1) + 1 = j BY <2>3, <1>1
        <3>2. moved[j] = rest[j - 1] BY <2>3, <1>1, <1>9
        <3>3. rest[j - 1] = IF j - 1 < b THEN p[j - 1] ELSE p[j] BY <3>1, <1>3
        <3> QED BY <2>3, <3>2, <3>3, <1>1
    <2> QED BY <2>1, <2>2, <2>3, <1>1
<1>11. DOMAIN moved = 1..n /\ a + 1 \in 1..n /\ moved[a + 1] = p[a]
    <2>1. a + 1 \in 1..n /\ a + 1 <= b /\ (a + 1) - 1 = a BY <1>1
    <2>2. DOMAIN moved = 1..n BY <1>9
    <2> QED BY <2>1, <2>2, <1>1, <1>10
<1>12. \A i, j \in 1..n : p[i].key = p[j].key => i = j BY <1>1 DEF Distinct
<1>13. Distinct(moved)
    <2> DEFINE from(j) == IF j < a THEN j ELSE IF j = a THEN b
                          ELSE IF j <= b THEN j - 1 ELSE j
    <2>1. \A j \in 1..n : from(j) \in 1..n BY <1>1
    <2>2. \A i, j \in 1..n : from(i) = from(j) => i = j BY <1>1
    <2>3. \A j \in 1..n : moved[j] = p[from(j)] BY <1>10
    <2> HIDE DEF from
    <2> SUFFICES ASSUME NEW i \in 1..n, NEW j \in 1..n, moved[i].key = moved[j].key
                 PROVE  i = j
        BY <1>11 DEF Distinct
    <2>4. from(i) = from(j) BY <2>1, <2>3, <1>12
    <2> QED BY <2>2, <2>4
<1>14. PlaceOf(moved, ka) = a + 1
    <2>1. ka = moved[a + 1].key /\ a + 1 \in DOMAIN moved BY <1>0, <1>11
    <2> QED BY <2>1, <1>13, PlaceOfKey
<1>15. /\ rest2 \in Seq(ElementRec) /\ Len(rest2) = n - 1
       /\ \A j \in 1..(n - 1) : rest2[j] = IF j < a + 1 THEN moved[j] ELSE moved[j + 1]
    <2>1. rest2 = RemoveAt(moved, a + 1) BY <1>0
    <2>2. a + 1 \in 1..Len(moved) /\ Len(moved) = n BY <1>9, <1>11
    <2>3. rest2 \in Seq(ElementRec) /\ Without(rest2, moved, a + 1)
        BY <2>1, <2>2, <1>9, RemoveAtPoints
    <2> QED BY <2>2, <2>3 DEF Without
<1>16. DOMAIN rest2 = 1..(n - 1) BY <1>1, <1>4, <1>15
<1>17. \A j \in 1..(n - 1) : rest2[j] = IF j = a THEN p[b] ELSE IF j < b THEN p[j] ELSE p[j + 1]
    <2> SUFFICES ASSUME NEW j \in 1..(n - 1)
                 PROVE  rest2[j] = IF j = a THEN p[b] ELSE IF j < b THEN p[j] ELSE p[j + 1]
        OBVIOUS
    <2>1. CASE j <= a
        <3>1. j \in 1..n /\ j < a + 1 BY <2>1, <1>1
        <3> QED BY <2>1, <3>1, <1>1, <1>10, <1>15
    <2>2. CASE j > a
        <3>1. j + 1 \in 1..n /\ (j + 1) - 1 = j BY <1>1
        <3>2. rest2[j] = moved[j + 1] BY <2>2, <1>1, <1>15
        <3>3. moved[j + 1] = IF j + 1 <= b THEN p[j] ELSE p[j + 1]
            BY <2>2, <3>1, <1>1, <1>10
        <3> QED BY <2>2, <3>2, <3>3, <1>1
    <2> QED BY <2>1, <2>2, <1>1
<1>18. after = IF b < n THEN p[b + 1].key ELSE NoHandle BY <1>0, <1>2 DEF NextSibling
<1>19. after # ka
    <2>1. ka \in Handle BY <1>0, <1>1 DEF ElementRec
    <2>2. b < n => b + 1 \in 1..n /\ b + 1 # a BY <1>1
    <2> QED BY <1>0, <2>1, <2>2, <1>1, <1>12, <1>18, NoNullKey
<1>20. r = InsertBefore(moved, ka, after) BY <1>0, <1>8, <1>19 DEF SwapElements
<1>21. r = IF after \in Keys(rest2) THEN InsertAt(rest2, PlaceOf(rest2, after), p[a])
                                    ELSE Append(rest2, p[a])
    BY <1>0, <1>11, <1>14, <1>20 DEF InsertBefore
<1>22. CASE b < n
    <2>1. b \in 1..(n - 1) /\ b # a BY <1>1, <1>22
    <2>2. rest2[b] = p[b + 1] BY <2>1, <1>1, <1>17
    <2>3. after = rest2[b].key BY <2>2, <1>18, <1>22
    <2>4. Distinct(rest2)
        <3> DEFINE from(j) == IF j = a THEN b ELSE IF j < b THEN j ELSE j + 1
        <3>1. \A j \in 1..(n - 1) : from(j) \in 1..n /\ rest2[j] = p[from(j)] BY <1>1, <1>17
        <3>2. \A i, j \in 1..(n - 1) : from(i) = from(j) => i = j BY <1>1
        <3> HIDE DEF from
        <3> QED BY <3>1, <3>2, <1>12, <1>16 DEF Distinct
    <2>5. PlaceOf(rest2, after) = b /\ after \in Keys(rest2)
        BY <2>1, <2>3, <2>4, <1>16, PlaceOfKey DEF Keys
    <2>6. r = InsertAt(rest2, b, p[a]) BY <2>5, <1>21
    <2>7. /\ r \in Seq(ElementRec) /\ Len(r) = n
          /\ \A j \in 1..n : r[j] = IF j < b THEN rest2[j] ELSE IF j = b THEN p[a]
                                    ELSE rest2[j - 1]
        <3>1. b \in 1..Len(rest2) /\ Len(rest2) + 1 = n /\ p[a] \in ElementRec
            BY <2>1, <1>1, <1>15
        <3>2. r = InsertAt(rest2, b, ea) /\ ea \in ElementRec BY <1>0, <3>1, <2>6
        <3>3. r \in Seq(ElementRec) /\ Inserted(r, rest2, b, ea)
            BY <3>1, <3>2, <1>15, InsertAtPoints
        <3>4. ea = p[a] BY <1>0
        <3> QED BY <3>1, <3>3, <3>4 DEF Inserted
    <2>8. r[a] = p[b] /\ r[b] = p[a] BY <2>7, <1>1, <1>4, <1>17
    <2>9. ASSUME NEW j \in 1..n, j # a, j # b PROVE r[j] = p[j]
        <3>1. CASE j < b
            <4>1. j \in 1..(n - 1) BY <3>1, <1>1
            <4> QED BY <4>1, <3>1, <2>7, <2>9, <1>17
        <3>2. CASE j > b
            <4>1. j - 1 \in 1..(n - 1) /\ (j - 1) + 1 = j /\ ~(j - 1 < b) /\ j - 1 # a
                BY <3>2, <1>1
            <4>2. r[j] = rest2[j - 1] BY <3>2, <2>7, <1>1
            <4>3. rest2[j - 1] = p[j] BY <4>1, <1>17
            <4> QED BY <4>2, <4>3
        <3> QED BY <3>1, <3>2, <2>9, <1>1
    <2> QED BY <2>7, <2>8, <2>9
<1>23. CASE ~(b < n)
    <2>1. b = n BY <1>23, <1>1
    <2>2. after \notin Keys(rest2)
        <3>1. after = NoHandle BY <1>18, <1>23
        <3>2. \A j \in DOMAIN rest2 : rest2[j].key \in Handle
            <4>1. \A j \in DOMAIN rest2 : rest2[j] \in ElementRec BY <1>15
            <4> QED BY <4>1 DEF ElementRec
        <3> QED BY <3>1, <3>2, NoNullKey DEF Keys
    <2>3. r = Append(rest2, p[a]) BY <2>2, <1>21
    <2>4. /\ r \in Seq(ElementRec) /\ Len(r) = n /\ r[n] = p[a]
          /\ \A j \in 1..(n - 1) : r[j] = rest2[j]
        <3>1. Len(rest2) + 1 = n /\ p[a] \in ElementRec BY <1>0, <1>1, <1>15
        <3>2. /\ r \in Seq(ElementRec) /\ Len(r) = Len(rest2) + 1 /\ r[Len(rest2) + 1] = p[a]
              /\ \A j \in 1..Len(rest2) : r[j] = rest2[j]
            BY <3>1, <2>3, <1>15, AppendProperties
        <3> QED BY <3>1, <3>2, <1>15
    <2>5. r[a] = p[b] /\ r[b] = p[a] BY <2>1, <2>4, <1>4, <1>17
    <2>6. ASSUME NEW j \in 1..n, j # a, j # b PROVE r[j] = p[j]
        <3>1. j \in 1..(n - 1) /\ j < b BY <2>1, <2>6, <1>1
        <3> QED BY <3>1, <2>4, <2>6, <1>17
    <2> QED BY <2>4, <2>5, <2>6
<1> QED BY <1>22, <1>23
-----------------------------------------------------------------------------
(* The invariant of the page *)

PageType ==
    /\ op \in [ida : Handle \cup {NoHandle}, idb : Handle \cup {NoHandle}]
    /\ sel \in Handle \cup {NoHandle}
    /\ reg \subseteq Handle
    /\ page \in Seq(ElementRec)

PageInv == StoreInv /\ PageType /\ PageIsStore /\ OneChosen

\* What the page's invariant says of one row and one element.
LEMMA PageFacts ==
    ASSUME PageInv
    PROVE  LET n == Len(rows)
           IN  /\ n \in Nat /\ DOMAIN rows = 1..n /\ DOMAIN page = 1..n /\ Len(page) = n
               /\ \A i \in 1..n :
                    /\ rows[i].pos \in 0..(n - 1) /\ rows[i].pos + 1 \in 1..n
                    /\ page[rows[i].pos + 1].key = HandleOf(i)
                    /\ page[rows[i].pos + 1].id = rows[i].id
                    /\ page[rows[i].pos + 1].label = rows[i].label
                    /\ HandleOf(i) \in Handle /\ HandleOf(i) \in reg
               /\ \A k \in 1..n : page[k] \in ElementRec /\ \E i \in 1..n : rows[i].pos + 1 = k
               /\ \A i, j \in 1..n : HandleOf(i) = HandleOf(j) => i = j
               /\ Distinct(page)
<1> DEFINE n == Len(rows)
<1>1. n \in Nat /\ DOMAIN rows = 1..n BY StoreFacts DEF PageInv
<1>2. DOMAIN page = 1..n /\ Len(page) = n BY DEF PageInv, PageType, PageIsStore
<1> HIDE DEF n
<1>3. ASSUME NEW i \in 1..n
      PROVE  /\ rows[i].pos \in 0..(n - 1) /\ rows[i].pos + 1 \in 1..n
             /\ page[rows[i].pos + 1].key = HandleOf(i)
             /\ page[rows[i].pos + 1].id = rows[i].id
             /\ page[rows[i].pos + 1].label = rows[i].label
             /\ HandleOf(i) \in Handle /\ HandleOf(i) \in reg
    <2>1. rows[i].pos \in Nat /\ rows[i].pos < n /\ rows[i].slot \in Slots
        BY <1>1, <1>3, StoreFacts DEF PageInv, n
    <2>2. rows[i].pos \in 0..(n - 1) /\ rows[i].pos + 1 \in 1..n BY <2>1, <1>1
    <2>3. HandleOf(i) \in Handle
        BY <2>1 DEF HandleOf, Handle, PageInv, StoreInv, StoreType
    <2>4. /\ page[rows[i].pos + 1].key = HandleOf(i)
          /\ page[rows[i].pos + 1].id = rows[i].id
          /\ page[rows[i].pos + 1].label = rows[i].label
        BY <1>1, <1>3 DEF PageInv, PageIsStore
    <2>5. HandleOf(i) \in reg BY <2>2, <2>4, <1>2 DEF PageInv, PageIsStore, Keys
    <2> QED BY <2>2, <2>3, <2>4, <2>5
<1>4. ASSUME NEW k \in 1..n PROVE page[k] \in ElementRec /\ \E i \in 1..n : rows[i].pos + 1 = k
    <2>1. page[k] \in ElementRec BY <1>2, <1>4 DEF PageInv, PageType
    <2>2. k - 1 \in 0..(n - 1) BY <1>1, <1>4
    <2>3. PICK i \in DOMAIN rows : rows[i].pos = k - 1
        BY <2>2 DEF PageInv, StoreInv, PosIsPermutation, n
    <2>4. rows[i].pos + 1 = k BY <2>3, <1>1, <1>4
    <2> QED BY <2>1, <2>4, <1>1
<1>5. ASSUME NEW i \in 1..n, NEW j \in 1..n, HandleOf(i) = HandleOf(j) PROVE i = j
    <2>1. rows[i].slot = rows[j].slot BY <1>5 DEF HandleOf
    <2> QED BY <2>1, <1>1, StoreFacts DEF PageInv
<1>6. Distinct(page)
    <2> SUFFICES ASSUME NEW k \in 1..n, NEW l \in 1..n, page[k].key = page[l].key PROVE k = l
        BY <1>2 DEF Distinct
    <2>1. PICK i \in 1..n : rows[i].pos + 1 = k BY <1>4
    <2>2. PICK j \in 1..n : rows[j].pos + 1 = l BY <1>4
    <2> QED BY <2>1, <2>2, <1>3, <1>5
<1> QED BY <1>1, <1>2, <1>3, <1>4, <1>5, <1>6 DEF n

\* A page painted row by row from the store is the store.
LEMMA PaintedPage ==
    ASSUME StoreInv', Len(page') = Len(rows'), page' \in Seq(ElementRec), reg' = Keys(page'),
           \A i \in DOMAIN rows' :
              /\ page'[rows'[i].pos + 1].key = HandleOf(i)'
              /\ page'[rows'[i].pos + 1].id = rows'[i].id
              /\ page'[rows'[i].pos + 1].label = rows'[i].label
    PROVE  PageIsStore'
<1> SUFFICES ASSUME NEW i \in DOMAIN rows'
             PROVE  rows'[i].pos + 1 \in DOMAIN page' /\ RowOf(HandleOf(i))' = i
    BY DEF PageIsStore, Keys
<1>1. /\ Len(rows') \in Nat /\ DOMAIN rows' = 1..Len(rows') /\ rows'[i] \in RowRec
    BY DEF StoreInv, StoreType
<1>2. /\ rows'[i].pos \in Nat /\ rows'[i].pos < Len(rows') /\ rows'[i].slot \in Slots
      /\ rows'[i].slot < hslotNext' /\ hslotRow'[rows'[i].slot] = i
    BY <1>1, Sizes DEF StoreInv, PosIsPermutation, HandlesSound, RowRec, Slots
<1>3. rows'[i].pos + 1 \in DOMAIN page' BY <1>1, <1>2
<1>4. HandleOf(i)' \in Handle /\ HandleOf(i)' # NoHandle
    <2>1. HandleOf(i)' \in Handle
        BY <1>2 DEF HandleOf, Handle, StoreInv, StoreType
    <2> QED BY <2>1, NoNullKey
<1>5. i # 0 BY <1>1
<1> QED BY <1>2, <1>3, <1>4, <1>5 DEF RowOf, HandleOf

-----------------------------------------------------------------------------
(* The clicks *)

\* A clear empties the page with the store.
LEMMA ClearPage ==
    ASSUME PageInv, ClearRows, UNCHANGED <<seqNext, op, sel>>, todo' \in Nat PROVE PageInv'
<1>1. StoreInv' BY ClearStore DEF PageInv
<1>2. page' = <<>> /\ reg' = {} /\ rows' = <<>>
    BY DEF PageInv, PageIsStore, ClearRows, AllDropped
<1>3. PageType' BY <1>2 DEF PageInv, PageType
<1>4. PageIsStore' /\ OneChosen' BY <1>2 DEF PageIsStore, OneChosen, Keys
<1> QED BY <1>1, <1>3, <1>4 DEF PageInv

\* A new row is painted last, with the label the store keeps.
LEMMA BuildPage ==
    ASSUME PageInv, NEW len \in LabelLens, BuildOne(len) PROVE PageInv'
<1> DEFINE n == Len(rows)
           t == SlotTaken
           h == [slot |-> t.slot, gen |-> hslotGen[t.slot]]
           e == Element(h, seqNext, len)
           new == [id |-> seqNext, pos |-> cnt, label |-> Cut(len), slot |-> t.slot]
<1>1. StoreInv' BY BuildStore DEF PageInv
<1>2. /\ rows' = Append(rows, new) /\ page' = Append(page, e) /\ reg' = reg \cup {h}
      /\ UNCHANGED <<hslotGen, op, sel>> /\ Len(rows) < Capacity
    BY DEF BuildOne
<1>3. /\ n \in Nat /\ DOMAIN rows = 1..n /\ DOMAIN page = 1..n /\ Len(page) = n
    BY PageFacts
<1>4. cnt = n BY StoreFacts DEF PageInv
<1>5. h \in Handle
    BY <1>2, SlotTakenFresh DEF PageInv, StoreInv, StoreType, Handle
<1>6. len \in Labels /\ len \in Nat /\ Cut(len) = len
    BY Sizes DEF Labels, Cut, Min2
<1>7. e \in ElementRec /\ e.key = h /\ e.id = seqNext /\ e.label = len /\ ~e.danger
    <2>1. seqNext \in Nat BY DEF PageInv, StoreInv, StoreType
    <2> HIDE DEF h
    <2> QED BY <2>1, <1>5, <1>6 DEF Element, ElementRec
<1>8. new.pos = cnt /\ new.id = seqNext /\ new.label = len /\ new.slot = t.slot
    BY <1>6
<1> HIDE DEF e, new
<1>9. /\ page' \in Seq(ElementRec) /\ Len(page') = n + 1 /\ page'[n + 1] = e
      /\ \A k \in 1..n : page'[k] = page[k]
    BY <1>2, <1>3, <1>7, AppendProperties DEF PageInv, PageType
<1>10. /\ Len(rows') = n + 1 /\ DOMAIN rows' = 1..(n + 1) /\ rows'[n + 1] = new
       /\ \A i \in 1..n : rows'[i] = rows[i]
    BY <1>2, <1>3 DEF PageInv, StoreInv, StoreType
<1>11. reg' = Keys(page')
    <2>1. DOMAIN page' = 1..(n + 1) BY <1>9
    <2>2. reg = {page[k].key : k \in 1..n} BY <1>3 DEF PageInv, PageIsStore, Keys
    <2>3. Keys(page') = {page'[k].key : k \in 1..n} \cup {page'[n + 1].key}
        BY <2>1, <1>3 DEF Keys
    <2>4. {page'[k].key : k \in 1..n} = {page[k].key : k \in 1..n} BY <1>9
    <2> QED BY <2>2, <2>3, <2>4, <1>2, <1>7, <1>9
<1>12. ASSUME NEW i \in DOMAIN rows'
       PROVE  /\ page'[rows'[i].pos + 1].key = HandleOf(i)'
              /\ page'[rows'[i].pos + 1].id = rows'[i].id
              /\ page'[rows'[i].pos + 1].label = rows'[i].label
    <2>1. CASE i \in 1..n
        <3>1. HandleOf(i)' = HandleOf(i) /\ rows'[i] = rows[i] BY <2>1, <1>2, <1>10 DEF HandleOf
        <3>2. rows[i].pos + 1 \in 1..n BY <2>1, PageFacts
        <3>3. page'[rows'[i].pos + 1] = page[rows[i].pos + 1] BY <3>1, <3>2, <1>9
        <3> QED BY <2>1, <3>1, <3>3, PageFacts
    <2>2. CASE i = n + 1
        <3>1. rows'[i] = new /\ rows'[i].pos + 1 = n + 1 BY <2>2, <1>4, <1>8, <1>10
        <3>2. HandleOf(i)' = h BY <3>1, <1>2, <1>8 DEF HandleOf
        <3> QED BY <3>1, <3>2, <1>7, <1>8, <1>9
    <2> QED BY <2>1, <2>2, <1>3, <1>10
<1>13. PageIsStore' BY <1>1, <1>9, <1>10, <1>11, <1>12, PaintedPage
<1>14. PageType' BY <1>2, <1>5, <1>9 DEF PageInv, PageType
<1>15. OneChosen'
    <2> SUFFICES ASSUME NEW k \in 1..(n + 1), page'[k].danger PROVE page'[k].key = sel
        BY <1>2, <1>9 DEF OneChosen
    <2>1. k \in 1..n BY <1>3, <1>7, <1>9
    <2> QED BY <2>1, <1>3, <1>9 DEF PageInv, OneChosen
<1> QED BY <1>1, <1>13, <1>14, <1>15 DEF PageInv

\* select moves the mark and nothing else.
LEMMA SelectPage ==
    ASSUME PageInv, NEW key \in Keys(page), Select(key) PROVE PageInv'
<1> DEFINE n == Len(rows)
           reds == {i \in DOMAIN page : page[i].danger}
           first == {i \in reds : \A j \in reds : i <= j}
           red(i) == (page[i].danger /\ i \notin first) \/ (key \in reg /\ page[i].key = key)
<1>1. /\ n \in Nat /\ DOMAIN rows = 1..n /\ DOMAIN page = 1..n /\ Len(page) = n
    BY PageFacts
<1>2. /\ UNCHANGED <<store, seqNext, cnt, op, reg, todo>> /\ sel' = key
    BY DEF Select
<1>3. page' = [i \in 1..n |-> [page[i] EXCEPT !.danger = red(i)]]
    BY <1>1 DEF Select, Marked
<1>4. \A i \in 1..n : red(i) \in BOOLEAN OBVIOUS
<1>5. ASSUME NEW i \in 1..n, page[i].danger PROVE i \in first
    <2>1. \A j \in 1..n : page[j].danger => page[j].key = sel
        BY <1>1 DEF PageInv, OneChosen
    <2>2. \A j \in 1..n : page[j].danger => j = i BY <2>1, <1>1, <1>5, PageFacts, ZenonT(60) DEF Distinct
    <2> QED BY <2>2, <1>1, <1>5
<1> HIDE DEF n, reds, first
<1>6. ASSUME NEW i \in 1..n
      PROVE  /\ page'[i] \in ElementRec /\ page'[i].key = page[i].key
             /\ page'[i].id = page[i].id /\ page'[i].label = page[i].label
             /\ page'[i].danger => page[i].key = key
    <2>1. page[i] \in ElementRec BY <1>6, PageFacts DEF n
    <2>2. red(i) => page[i].key = key BY <1>5, <1>6
    <2>3. page'[i] = [page[i] EXCEPT !.danger = red(i)] /\ red(i) \in BOOLEAN
        BY <1>3, <1>4, <1>6
    <2> HIDE DEF red
    <2> QED BY <2>1, <2>2, <2>3 DEF ElementRec
<1>7. page' \in Seq(ElementRec) /\ Len(page') = n /\ DOMAIN page' = 1..n
    <2>1. DOMAIN page' = 1..n /\ page' = [i \in DOMAIN page' |-> page'[i]] BY <1>3
    <2>2. page' \in [1..n -> ElementRec] BY <2>1, <1>6
    <2> QED BY <2>1, <2>2, <1>1
<1>8. key \in Handle BY DEF PageInv, PageType, PageIsStore
<1>9. StoreInv' BY <1>2, NextStore DEF PageInv, Next
<1>10. reg' = Keys(page')
    <2>1. Keys(page') = {page'[i].key : i \in 1..n} BY <1>7 DEF Keys
    <2>2. Keys(page) = {page[i].key : i \in 1..n} BY <1>1 DEF Keys
    <2> QED BY <2>1, <2>2, <1>2, <1>6 DEF PageInv, PageIsStore
<1>11. ASSUME NEW i \in DOMAIN rows'
       PROVE  /\ page'[rows'[i].pos + 1].key = HandleOf(i)'
              /\ page'[rows'[i].pos + 1].id = rows'[i].id
              /\ page'[rows'[i].pos + 1].label = rows'[i].label
    <2>1. rows'[i] = rows[i] /\ HandleOf(i)' = HandleOf(i) /\ i \in 1..n
        BY <1>1, <1>2 DEF store, HandleOf
    <2> DEFINE k == rows[i].pos + 1
    <2>2. /\ k \in 1..n /\ page[k].key = HandleOf(i) /\ page[k].id = rows[i].id
          /\ page[k].label = rows[i].label
        BY <2>1, PageFacts DEF n
    <2>3. rows'[i].pos + 1 = k BY <2>1
    <2> HIDE DEF k
    <2> QED BY <2>1, <2>2, <2>3, <1>6
<1>12. PageIsStore'
    <2>1. Len(page') = Len(rows') BY <1>2, <1>7 DEF store, n
    <2> QED BY <2>1, <1>7, <1>9, <1>10, <1>11, PaintedPage
<1>13. PageType' BY <1>2, <1>7, <1>8 DEF PageInv, PageType
<1>14. OneChosen' BY <1>2, <1>6, <1>7 DEF OneChosen
<1> QED BY <1>9, <1>12, <1>13, <1>14 DEF PageInv

\* update repaints the marked rows from the store.
LEMMA UpdatePage == ASSUME PageInv, Update PROVE PageInv'
<1> DEFINE n == Len(rows)
           hit(i) == rows[i].pos % Stripe = 0
           mine(k) == {i \in DOMAIN rows : hit(i) /\ HandleOf(i) = page[k].key}
           label(k) == rows'[CHOOSE i \in mine(k) : TRUE].label
<1>1. /\ n \in Nat /\ DOMAIN rows = 1..n /\ DOMAIN page = 1..n /\ Len(page) = n
    BY PageFacts
<1>2. /\ rows' = [i \in DOMAIN rows |->
                    IF hit(i) THEN [rows[i] EXCEPT !.label = Cut(@ + MarkLen)] ELSE rows[i]]
      /\ page' = [k \in DOMAIN page |->
                    IF mine(k) # {} /\ page[k].key \in reg
                    THEN [page[k] EXCEPT !.label = label(k)] ELSE page[k]]
      /\ UNCHANGED <<hslotRow, hslotGen, hslotFree, hslotNext, seqNext, cnt, op, sel, reg, todo>>
    BY DEF Update
<1>3. StoreInv' BY UpdateStore DEF PageInv
<1>4. DOMAIN rows' = 1..n /\ Len(rows') = n
    <2>1. DOMAIN rows' = DOMAIN rows BY <1>2
    <2>2. rows' \in Seq(RowRec) BY <1>3 DEF StoreInv, StoreType
    <2> HIDE DEF n
    <2> QED BY <1>1, <2>1, <2>2, LenProperties
<1>5. ASSUME NEW i \in 1..n
      PROVE  /\ rows'[i].pos = rows[i].pos /\ rows'[i].id = rows[i].id
             /\ rows'[i].slot = rows[i].slot /\ rows'[i].label \in Nat
             /\ ~hit(i) => rows'[i].label = rows[i].label
    <2>1. rows[i] \in RowRec BY <1>1, <1>5, StoreFacts DEF PageInv
    <2>2. rows'[i] \in RowRec BY <1>3, <1>4, <1>5 DEF StoreInv, StoreType
    <2>3. rows'[i].label \in Nat BY <2>2, Sizes DEF RowRec, Labels
    <2>4. CASE hit(i)
        <3>1. rows'[i] = [rows[i] EXCEPT !.label = Cut(rows[i].label + MarkLen)]
            BY <2>4, <1>1, <1>2, <1>5
        <3> QED BY <3>1, <2>1, <2>3, <2>4 DEF RowRec
    <2>5. CASE ~hit(i)
        <3>1. rows'[i] = rows[i] BY <2>5, <1>1, <1>2, <1>5
        <3> QED BY <3>1, <2>3
    <2> QED BY <2>4, <2>5
<1>6. ASSUME NEW i \in 1..n
      PROVE  LET k == rows[i].pos + 1
             IN  IF hit(i) THEN page'[k] = [page[k] EXCEPT !.label = rows'[i].label]
                 ELSE page'[k] = page[k]
    <2> DEFINE k == rows[i].pos + 1
    <2>1. k \in 1..n /\ page[k].key = HandleOf(i) /\ HandleOf(i) \in reg BY <1>6, PageFacts
    <2>2. mine(k) = IF hit(i) THEN {i} ELSE {}
        <3>1. \A j \in 1..n : HandleOf(j) = page[k].key <=> j = i
            BY <2>1, <1>6, PageFacts
        <3> HIDE DEF k, hit
        <3> QED BY <3>1, <1>1, <1>6
    <2> HIDE DEF k
    <2>3. CASE hit(i)
        <3>1. mine(k) # {} /\ label(k) = rows'[i].label BY <2>2, <2>3
        <3> HIDE DEF mine, label
        <3>2. page'[k] = [page[k] EXCEPT !.label = label(k)] BY <3>1, <2>1, <1>1, <1>2
        <3> QED BY <3>1, <3>2, <2>3 DEF k
    <2>4. CASE ~hit(i)
        <3>1. mine(k) = {} BY <2>2, <2>4
        <3> HIDE DEF mine, label
        <3>2. page'[k] = page[k] BY <3>1, <2>1, <1>1, <1>2
        <3> QED BY <3>2, <2>4 DEF k
    <2> QED BY <2>3, <2>4
<1>7. DOMAIN page' = 1..n BY <1>1, <1>2
<1> HIDE DEF n, hit, mine, label
<1>8. ASSUME NEW k \in 1..n
      PROVE  /\ page'[k] \in ElementRec /\ page'[k].key = page[k].key
             /\ page'[k].id = page[k].id /\ page'[k].danger = page[k].danger
    <2>1. PICK i \in 1..n : rows[i].pos + 1 = k BY <1>8, PageFacts DEF n
    <2>2. page[k] \in ElementRec BY <1>8, PageFacts DEF n
    <2>3. page'[k] = [page[k] EXCEPT !.label = rows'[i].label] \/ page'[k] = page[k]
        BY <2>1, <1>6
    <2>4. rows'[i].label \in Nat BY <2>1, <1>5
    <2> QED BY <2>2, <2>3, <2>4 DEF ElementRec
<1>9. page' \in Seq(ElementRec) /\ Len(page') = n
    <2>1. page' = [i \in DOMAIN page' |-> page'[i]] BY <1>2
    <2>2. page' \in [1..n -> ElementRec] BY <2>1, <1>7, <1>8
    <2> QED BY <2>2, <1>1, <1>7
<1>10. reg' = Keys(page')
    <2>1. Keys(page') = {page'[i].key : i \in 1..n} BY <1>7 DEF Keys
    <2>2. Keys(page) = {page[i].key : i \in 1..n} BY <1>1 DEF Keys
    <2>3. {page'[i].key : i \in 1..n} = {page[i].key : i \in 1..n} BY <1>8
    <2>4. reg' = reg /\ reg = Keys(page) BY <1>2 DEF PageInv, PageIsStore
    <2> QED BY <2>1, <2>2, <2>3, <2>4
<1>11. ASSUME NEW i \in DOMAIN rows'
       PROVE  /\ page'[rows'[i].pos + 1].key = HandleOf(i)'
              /\ page'[rows'[i].pos + 1].id = rows'[i].id
              /\ page'[rows'[i].pos + 1].label = rows'[i].label
    <2> DEFINE k == rows[i].pos + 1
    <2>1. i \in 1..n /\ rows'[i].pos + 1 = k BY <1>4, <1>5
    <2>2. HandleOf(i)' = HandleOf(i) BY <2>1, <1>2, <1>5 DEF HandleOf
    <2>3. /\ k \in 1..n /\ page[k].key = HandleOf(i) /\ page[k].id = rows[i].id
          /\ page[k].label = rows[i].label /\ page[k] \in ElementRec
        BY <2>1, PageFacts DEF n
    <2>4. page'[k].label = rows'[i].label
        <3>1. CASE hit(i)
            <4>1. page'[k] = [page[k] EXCEPT !.label = rows'[i].label] BY <2>1, <3>1, <1>6
            <4> HIDE DEF k
            <4> QED BY <4>1, <2>3 DEF ElementRec
        <3>2. CASE ~hit(i) BY <3>2, <2>1, <2>3, <1>5, <1>6
        <3> QED BY <3>1, <3>2
    <2> HIDE DEF k
    <2> QED BY <2>1, <2>2, <2>3, <2>4, <1>5, <1>8
<1>12. PageIsStore' BY <1>3, <1>4, <1>9, <1>10, <1>11, PaintedPage
<1>13. PageType' BY <1>2, <1>9 DEF PageInv, PageType
<1>14. OneChosen' BY <1>1, <1>2, <1>7, <1>8 DEF PageInv, OneChosen
<1> QED BY <1>3, <1>12, <1>13, <1>14 DEF PageInv

\* The sweep finds the handle of the row at a position.
LEMMA StashedHandle ==
    ASSUME PageInv, NEW p \in 0..(Len(rows) - 1), NEW old
    PROVE  \E i \in DOMAIN rows : rows[i].pos = p /\ Stashed(p, old) = HandleOf(i)
<1> DEFINE at == CHOOSE i \in DOMAIN rows : rows[i].pos = p
<1>1. \E i \in DOMAIN rows : rows[i].pos = p BY DEF PageInv, StoreInv, PosIsPermutation
<1>2. at \in DOMAIN rows /\ rows[at].pos = p BY <1>1
<1>3. Stashed(p, old) = HandleOf(at) BY <1>1 DEF Stashed
<1> QED BY <1>2, <1>3

\* What a swap does to the page: two elements change places and no other moves.
LEMMA SwapMoves ==
    ASSUME PageInv, Swap
    PROVE  LET n == Len(rows)
               a == SwapA + 1
               b == SwapB + 1
           IN  /\ SwapA \in 0..(n - 1) /\ SwapB \in 0..(n - 1) /\ SwapA # SwapB
               /\ a \in 1..n /\ b \in 1..n /\ a < b
               /\ op'.ida \in Handle /\ op'.idb \in Handle
               /\ page' \in Seq(ElementRec) /\ Len(page') = n
               /\ page'[a] = page[b] /\ page'[b] = page[a]
               /\ \A k \in 1..n : k # a /\ k # b => page'[k] = page[k]
<1> DEFINE n == Len(rows)
           a == SwapA + 1
           b == SwapB + 1
<1>1. /\ n \in Nat /\ DOMAIN rows = 1..n /\ DOMAIN page = 1..n /\ Len(page) = n
    BY PageFacts
<1>2. /\ rows' = [i \in DOMAIN rows |-> [rows[i] EXCEPT !.pos = SwapPos(@)]]
      /\ op' = [ida |-> Stashed(SwapA, op.ida), idb |-> Stashed(SwapB, op.idb)]
      /\ page' = IF {op'.ida, op'.idb} \subseteq reg
                 THEN SwapElements(page, op'.ida, op'.idb) ELSE page
      /\ UNCHANGED <<hslotRow, hslotGen, hslotFree, hslotNext, seqNext, cnt, sel, reg, todo>>
      /\ cnt > SwapB
    BY DEF Swap
<1>4. cnt = n BY StoreFacts DEF PageInv
<1> HIDE DEF n
<1>5. /\ SwapA \in 0..(n - 1) /\ SwapB \in 0..(n - 1) /\ SwapA # SwapB
      /\ a \in 1..n /\ b \in 1..n /\ a < b
    BY <1>1, <1>2, <1>4, Sizes
<1>6. PICK i \in 1..n : rows[i].pos = SwapA /\ op'.ida = HandleOf(i)
    BY <1>1, <1>2, <1>5, StashedHandle DEF n
<1>7. PICK j \in 1..n : rows[j].pos = SwapB /\ op'.idb = HandleOf(j)
    BY <1>1, <1>2, <1>5, StashedHandle DEF n
<1>8. /\ op'.ida = page[a].key /\ op'.idb = page[b].key
      /\ op'.ida \in reg /\ op'.idb \in reg /\ op'.ida \in Handle /\ op'.idb \in Handle
    BY <1>6, <1>7, PageFacts DEF n
<1>9. page' = SwapElements(page, page[a].key, page[b].key) BY <1>2, <1>8
<1>10. Distinct(page) /\ page \in Seq(ElementRec) BY PageFacts DEF PageInv, PageType
<1> HIDE DEF a, b
<1>11. /\ page' \in Seq(ElementRec) /\ Len(page') = n
       /\ page'[a] = page[b] /\ page'[b] = page[a]
       /\ \A k \in 1..n : k # a /\ k # b => page'[k] = page[k]
    <2>1. a \in 1..Len(page) /\ b \in 1..Len(page) /\ a < b BY <1>1, <1>5
    <2>2. LET q == SwapElements(page, page[a].key, page[b].key)
          IN  /\ q \in Seq(ElementRec) /\ Len(q) = Len(page)
              /\ q[a] = page[b] /\ q[b] = page[a]
              /\ \A k \in 1..Len(page) : k # a /\ k # b => q[k] = page[k]
        BY <2>1, <1>10, SwapExchanges
    <2> QED BY <2>2, <1>1, <1>9
<1> QED BY <1>5, <1>8, <1>11 DEF n, a, b

\* swap: the two elements change places, as the two positions do.
LEMMA SwapPage == ASSUME PageInv, Swap PROVE PageInv'
<1> DEFINE n == Len(rows)
           a == SwapA + 1
           b == SwapB + 1
<1>1. /\ n \in Nat /\ DOMAIN rows = 1..n /\ DOMAIN page = 1..n /\ Len(page) = n
    BY PageFacts
<1>2. /\ rows' = [i \in DOMAIN rows |-> [rows[i] EXCEPT !.pos = SwapPos(@)]]
      /\ op' = [ida |-> op'.ida, idb |-> op'.idb]
      /\ UNCHANGED <<hslotRow, hslotGen, hslotFree, hslotNext, seqNext, cnt, sel, reg, todo>>
    BY DEF Swap
<1>3. StoreInv' BY SwapStore DEF PageInv
<1>5. /\ SwapA \in 0..(n - 1) /\ SwapB \in 0..(n - 1) /\ SwapA # SwapB
      /\ a \in 1..n /\ b \in 1..n /\ a < b
    BY SwapMoves
<1>8. op'.ida \in Handle /\ op'.idb \in Handle BY SwapMoves
<1>11. /\ page' \in Seq(ElementRec) /\ Len(page') = n
       /\ page'[a] = page[b] /\ page'[b] = page[a]
       /\ \A k \in 1..n : k # a /\ k # b => page'[k] = page[k]
    BY SwapMoves
<1> HIDE DEF n, a, b
<1>12. DOMAIN page' = 1..n BY <1>11
<1> DEFINE place(k) == IF k = a THEN b ELSE IF k = b THEN a ELSE k
<1>13. \A k \in 1..n : place(k) \in 1..n /\ place(place(k)) = k /\ page'[place(k)] = page[k]
    BY <1>5, <1>11
<1>14. Keys(page') = Keys(page)
    <2>1. ASSUME NEW x \in Keys(page') PROVE x \in Keys(page)
        <3>1. PICK k \in 1..n : x = page'[k].key BY <1>12, <2>1 DEF Keys
        <3>2. place(k) \in 1..n /\ page'[k] = page[place(k)] BY <3>1, <1>13
        <3> HIDE DEF place
        <3> QED BY <3>1, <3>2, <1>1 DEF Keys
    <2>2. ASSUME NEW x \in Keys(page) PROVE x \in Keys(page')
        <3>1. PICK k \in 1..n : x = page[k].key BY <1>1, <2>2 DEF Keys
        <3>2. place(k) \in 1..n /\ page'[place(k)] = page[k] BY <3>1, <1>13
        <3> HIDE DEF place
        <3> QED BY <3>1, <3>2, <1>12 DEF Keys
    <2> QED BY <2>1, <2>2
<1>15. DOMAIN rows' = 1..n /\ Len(rows') = n BY <1>1, <1>2, <1>3 DEF StoreInv, StoreType
<1>16. ASSUME NEW k \in DOMAIN rows'
       PROVE  /\ page'[rows'[k].pos + 1].key = HandleOf(k)'
              /\ page'[rows'[k].pos + 1].id = rows'[k].id
              /\ page'[rows'[k].pos + 1].label = rows'[k].label
    <2> DEFINE c == rows[k].pos + 1
    <2>1. k \in 1..n /\ rows[k] \in RowRec BY <1>1, <1>15, StoreFacts DEF PageInv
    <2>2. rows'[k] = [rows[k] EXCEPT !.pos = SwapPos(rows[k].pos)] BY <2>1, <1>1, <1>2
    <2>3. /\ rows'[k].pos = SwapPos(rows[k].pos) /\ rows'[k].id = rows[k].id
          /\ rows'[k].label = rows[k].label /\ rows'[k].slot = rows[k].slot
        BY <2>1, <2>2 DEF RowRec
    <2>4. HandleOf(k)' = HandleOf(k) BY <2>3, <1>2 DEF HandleOf
    <2>5. /\ c \in 1..n /\ page[c].key = HandleOf(k) /\ page[c].id = rows[k].id
          /\ page[c].label = rows[k].label
        BY <2>1, PageFacts DEF n
    <2>6. rows'[k].pos + 1 = place(c)
        <3>1. rows[k].pos \in 0..(n - 1) BY <2>1, PageFacts DEF n
        <3> QED BY <3>1, <2>3, <1>1, <1>5, Sizes DEF SwapPos, a, b
    <2> HIDE DEF c, place
    <2> QED BY <2>3, <2>4, <2>5, <2>6, <1>13
<1>17. PageIsStore'
    <2>1. reg' = Keys(page') BY <1>2, <1>14 DEF PageInv, PageIsStore
    <2> QED BY <2>1, <1>3, <1>11, <1>15, <1>16, PaintedPage
<1>18. PageType'
    <2>1. op' \in [ida : Handle \cup {NoHandle}, idb : Handle \cup {NoHandle}] BY <1>2, <1>8
    <2> QED BY <2>1, <1>2, <1>11 DEF PageInv, PageType
<1>19. OneChosen'
    <2> SUFFICES ASSUME NEW k \in 1..n, page'[k].danger PROVE page'[k].key = sel
        BY <1>2, <1>12 DEF OneChosen
    <2>1. place(k) \in 1..n /\ page'[k] = page[place(k)] BY <1>13
    <2> HIDE DEF place
    <2> QED BY <2>1, <1>1 DEF PageInv, OneChosen
<1> QED BY <1>3, <1>17, <1>18, <1>19 DEF PageInv

\* What a removal leaves: the rows that stay keep all but the position, and the
\* positions behind the gap move up by one.
LEMMA RemovedRows ==
    ASSUME StoreInv, NEW key, RemoveRow(key)
    PROVE  LET n == Len(rows)
               r == RowOf(key)
           IN  /\ r \in 1..n /\ Len(rows') = n - 1 /\ DOMAIN rows' = 1..(n - 1)
               /\ \A i \in 1..(n - 1) : \E j \in 1..n :
                    /\ j # r /\ rows'[i].id = rows[j].id /\ rows'[i].label = rows[j].label
                    /\ HandleOf(i)' = HandleOf(j)
                    /\ rows'[i].pos = IF rows[j].pos > rows[r].pos THEN rows[j].pos - 1
                                                                   ELSE rows[j].pos
<1> DEFINE n == Len(rows)
           r == RowOf(key)
           slot == rows[r].slot
           gap == rows[r].pos
<1>1. /\ rows' = Closed(Taken(r), gap) /\ hslotGen' = [hslotGen EXCEPT ![slot] = (@ + 1) % GenMod]
      /\ r # 0
    BY DEF RemoveRow
<1>2. n \in Nat /\ DOMAIN rows = 1..n /\ r \in 1..n BY <1>1, StoreFacts, RowOfFacts
<1> HIDE DEF n, r, slot, gap
<1>3. DOMAIN Taken(r) = 1..(n - 1) /\ DOMAIN rows' = 1..(n - 1) BY <1>1 DEF Taken, Closed, n
<1>4. Len(rows') = n - 1
    <2>1. n - 1 \in Nat /\ StoreInv' BY <1>2, RemoveStore
    <2>2. rows' \in Seq(RowRec) BY <2>1 DEF StoreInv, StoreType
    <2> QED BY <2>1, <2>2, <1>3
<1>5. ASSUME NEW i \in 1..(n - 1)
      PROVE  \E j \in 1..n :
               /\ j # r /\ rows'[i].id = rows[j].id /\ rows'[i].label = rows[j].label
               /\ HandleOf(i)' = HandleOf(j)
               /\ rows'[i].pos = IF rows[j].pos > gap THEN rows[j].pos - 1 ELSE rows[j].pos
    <2> DEFINE j == IF i = r THEN n ELSE i
               new == IF rows[j].pos > gap THEN rows[j].pos - 1 ELSE rows[j].pos
    <2>1. j \in 1..n /\ j # r BY <1>2
    <2>2. Taken(r)[i] = rows[j] BY DEF Taken, n
    <2> HIDE DEF j
    <2>3. rows'[i] = [rows[j] EXCEPT !.pos = new] BY <1>1, <1>3, <2>2 DEF Closed
    <2>4. rows[j] \in RowRec BY <2>1, <1>2, StoreFacts
    <2> HIDE DEF new
    <2>5. /\ rows'[i].id = rows[j].id /\ rows'[i].label = rows[j].label
          /\ rows'[i].slot = rows[j].slot /\ rows'[i].pos = new
        BY <2>3, <2>4 DEF RowRec
    <2>6. rows[j].slot # slot
        <3>1. \A k \in 1..n : hslotRow[rows[k].slot] = k BY <1>2, StoreFacts
        <3> QED BY <3>1, <2>1, <1>2 DEF slot
    <2>7. hslotGen'[rows[j].slot] = hslotGen[rows[j].slot]
        <3>1. rows[j].slot \in Slots /\ hslotGen \in [Slots -> Gens]
            BY <2>4 DEF RowRec, StoreInv, StoreType
        <3> QED BY <3>1, <2>6, <1>1
    <2>8. HandleOf(i)' = HandleOf(j) BY <2>5, <2>7 DEF HandleOf
    <2> QED BY <2>1, <2>5, <2>8 DEF new
<1> QED BY <1>2, <1>3, <1>4, <1>5 DEF n, r, gap

\* remove: the element of the row leaves, and those behind it move up as the
\* positions do.
LEMMA RemovePage == ASSUME PageInv, NEW key, RemoveRow(key) PROVE PageInv'
<1> DEFINE n == Len(rows)
           r == RowOf(key)
           g == rows[r].pos + 1
           h == HandleOf(r)
<1>1. /\ page' = Dropped(page, h) /\ reg' = reg \ {h} /\ UNCHANGED <<op, sel>>
    BY DEF RemoveRow
<1>2. /\ r \in 1..n /\ Len(rows') = n - 1 /\ DOMAIN rows' = 1..(n - 1)
      /\ \A i \in 1..(n - 1) : \E j \in 1..n :
            /\ j # r /\ rows'[i].id = rows[j].id /\ rows'[i].label = rows[j].label
            /\ HandleOf(i)' = HandleOf(j)
            /\ rows'[i].pos = IF rows[j].pos > rows[r].pos THEN rows[j].pos - 1 ELSE rows[j].pos
    BY RemovedRows DEF PageInv
<1>3. StoreInv' BY RemoveStore DEF PageInv
<1>4. /\ n \in Nat /\ DOMAIN page = 1..n /\ Len(page) = n /\ Distinct(page)
    BY PageFacts
<1>5. g \in 1..n /\ page[g].key = h /\ h \in reg BY <1>2, PageFacts
<1> HIDE DEF n, r, h
<1>6. page' = RemoveAt(page, g)
    <2>1. h \in Keys(page) BY <1>4, <1>5 DEF Keys
    <2>2. PlaceOf(page, h) = g
        <3> HIDE DEF g
        <3> QED BY <1>4, <1>5, PlaceOfKey
    <2> QED BY <2>1, <2>2, <1>1, <1>5 DEF Dropped
<1>7. page \in Seq(ElementRec) BY DEF PageInv, PageType
<1>8. /\ page' \in Seq(ElementRec) /\ Len(page') = n - 1 /\ DOMAIN page' = 1..(n - 1)
      /\ \A k \in 1..(n - 1) : page'[k] = IF k < g THEN page[k] ELSE page[k + 1]
    <2>1. g \in 1..Len(page) BY <1>4, <1>5
    <2> HIDE DEF g
    <2>2. page' \in Seq(ElementRec) /\ Without(page', page, g) BY <2>1, <1>6, <1>7, RemoveAtPoints
    <2> QED BY <2>2, <1>4 DEF Without
<1>9. ASSUME NEW k \in 1..n, k # g
      PROVE  LET m == IF k < g THEN k ELSE k - 1 IN m \in 1..(n - 1) /\ page'[m] = page[k]
    <2> HIDE DEF g
    <2>1. CASE k < g
        <3>1. k \in 1..(n - 1) BY <2>1, <1>4, <1>5
        <3> QED BY <3>1, <2>1, <1>8
    <2>2. CASE ~(k < g)
        <3>1. k - 1 \in 1..(n - 1) /\ ~(k - 1 < g) /\ (k - 1) + 1 = k BY <2>2, <1>4, <1>5, <1>9
        <3> QED BY <3>1, <2>2, <1>8
    <2> QED BY <2>1, <2>2
<1>10. reg' = Keys(page')
    <2>0. Keys(page) = reg BY DEF PageInv, PageIsStore
    <2>1. ASSUME NEW x \in Keys(page') PROVE x \in reg'
        <3>1. PICK k \in 1..(n - 1) : x = page'[k].key BY <1>8, <2>1 DEF Keys
        <3> DEFINE m == IF k < g THEN k ELSE k + 1
        <3>2. m \in 1..n /\ m # g
            <4> HIDE DEF g
            <4> QED BY <1>4, <1>5
        <3>3. x = page[m].key BY <3>1, <1>8
        <3> HIDE DEF m, g
        <3>4. x # h /\ x \in Keys(page) BY <3>2, <3>3, <1>4, <1>5 DEF Distinct, Keys
        <3> QED BY <3>4, <2>0, <1>1
    <2>2. ASSUME NEW x \in reg' PROVE x \in Keys(page')
        <3>1. PICK k \in 1..n : x = page[k].key BY <2>0, <1>1, <1>4, <2>2 DEF Keys
        <3>2. k # g BY <3>1, <2>2, <1>1, <1>5
        <3> DEFINE m == IF k < g THEN k ELSE k - 1
        <3>3. m \in 1..(n - 1) /\ page'[m] = page[k] BY <3>2, <1>9
        <3> HIDE DEF m, g
        <3> QED BY <3>1, <3>3, <1>8 DEF Keys
    <2> QED BY <2>1, <2>2
<1>11. ASSUME NEW i \in DOMAIN rows'
       PROVE  /\ page'[rows'[i].pos + 1].key = HandleOf(i)'
              /\ page'[rows'[i].pos + 1].id = rows'[i].id
              /\ page'[rows'[i].pos + 1].label = rows'[i].label
    <2>1. PICK j \in 1..n :
             /\ j # r /\ rows'[i].id = rows[j].id /\ rows'[i].label = rows[j].label
             /\ HandleOf(i)' = HandleOf(j)
             /\ rows'[i].pos = IF rows[j].pos > rows[r].pos THEN rows[j].pos - 1 ELSE rows[j].pos
        BY <1>2
    <2> DEFINE k == rows[j].pos + 1
    <2>2. /\ k \in 1..n /\ page[k].key = HandleOf(j) /\ page[k].id = rows[j].id
          /\ page[k].label = rows[j].label /\ HandleOf(j) # h
        BY <2>1, <1>2, PageFacts DEF n, h
    <2>3. k # g BY <2>2, <1>5
    <2>4. rows'[i].pos + 1 = IF k < g THEN k ELSE k - 1
        <3>1. \A q \in 1..n : rows[q].pos \in 0..(n - 1) BY PageFacts DEF n
        <3>2. rows[j].pos \in 0..(n - 1) /\ rows[r].pos \in 0..(n - 1)
            <4>1. r \in 1..n BY <1>2
            <4> QED BY <3>1, <4>1
        <3> QED BY <3>2, <2>1, <2>3
    <2> HIDE DEF k, g
    <2> QED BY <2>1, <2>2, <2>3, <2>4, <1>9
<1>12. PageIsStore' BY <1>2, <1>3, <1>8, <1>10, <1>11, PaintedPage
<1>13. PageType' BY <1>1, <1>8 DEF PageInv, PageType
<1>14. OneChosen'
    <2> SUFFICES ASSUME NEW k \in 1..(n - 1), page'[k].danger PROVE page'[k].key = sel
        BY <1>1, <1>8 DEF OneChosen
    <2> DEFINE m == IF k < g THEN k ELSE k + 1
    <2>1. page'[k] = page[m] BY <1>8
    <2>2. m \in 1..n
        <3> HIDE DEF g
        <3> QED BY <1>4
    <2> HIDE DEF m
    <2> QED BY <2>1, <2>2, <1>4 DEF PageInv, OneChosen
<1> QED BY <1>3, <1>12, <1>13, <1>14 DEF PageInv
-----------------------------------------------------------------------------
(* The page's invariant *)

\* Before the first click the page is as empty as the store.
LEMMA InitPage == Init => PageInv
<1> SUFFICES ASSUME Init PROVE PageInv OBVIOUS
<1>1. StoreInv BY InitStore
<1>2. PageType BY DEF Init, PageType
<1>3. PageIsStore /\ OneChosen BY DEF Init, PageIsStore, OneChosen, Keys
<1> QED BY <1>1, <1>2, <1>3 DEF PageInv

\* Every click preserves the page's invariant.
LEMMA NextPage == PageInv /\ [Next]_vars => PageInv'
<1> SUFFICES ASSUME PageInv, [Next]_vars PROVE PageInv' OBVIOUS
<1>1. ASSUME NEW n \in Nat \ {0}, Run(n) PROVE PageInv' BY <1>1, ClearPage DEF Run
<1>2. Run(RunRows) \/ Run(LotsRows) => PageInv' BY <1>1, Sizes
<1>3. ASSUME Clear PROVE PageInv'
    <2>1. ClearRows /\ UNCHANGED <<seqNext, op, sel>> /\ todo' \in Nat
        BY <1>3 DEF Clear, PageInv, StoreInv, StoreType
    <2> QED BY <2>1, ClearPage
<1>4. ASSUME UNCHANGED <<store, cnt, op, sel, reg, page>> PROVE PageInv'
    <2>1. StoreInv' BY NextStore DEF PageInv
    <2>2. PageType' BY <1>4 DEF PageInv, PageType
    <2>3. PageIsStore' BY <1>4 DEF PageInv, PageIsStore, HandleOf, RowOf, store
    <2>4. OneChosen' BY <1>4 DEF PageInv, OneChosen
    <2> QED BY <2>1, <2>2, <2>3, <2>4 DEF PageInv
<1>5. Add \/ BuildFull \/ UNCHANGED vars => PageInv' BY <1>4 DEF Add, BuildFull, vars
<1> QED BY <1>2, <1>3, <1>5, BuildPage, UpdatePage, SwapPage, RemovePage, SelectPage DEF Next

LEMMA PageHolds == Spec => []PageInv
<1>1. Init => PageInv BY InitPage
<1>2. PageInv /\ [Next]_vars => PageInv' BY NextPage
<1> QED BY <1>1, <1>2, PTL DEF Spec

\* Whatever the capacity and the sizes of the clicks: what is on screen is what
\* is in the store, in table order, every element's key resolves to its row,
\* and at most the row last selected is marked.
THEOREM PageFollowsStore == Spec => []PageOK
<1>1. PageInv => PageOK
    BY DEF PageInv, PageOK, TypeOK, PageType, StoreInv, StoreType, ElementRec
<1> QED BY <1>1, PageHolds, PTL
-----------------------------------------------------------------------------
(* The elements are keyed *)

Moved == {k \in DOMAIN page : page'[k].key # page[k].key}
StepKeyed ==
    /\ \A i \in DOMAIN page, k \in DOMAIN page' :
         page'[k].key = page[i].key => page'[k].id = page[i].id
    /\ Keys(page') = Keys(page) => Cardinality(Moved) \in {0, 2}

\* Nothing of a step that keeps, moves or drops elements gives one another row's
\* text: it is enough that every element after it is an old one or has a new key.
LEMMA OldOrNew ==
    ASSUME PageInv,
           \A k \in DOMAIN page' :
              \/ page'[k].key \notin Keys(page)
              \/ \E m \in DOMAIN page : page'[k].key = page[m].key /\ page'[k].id = page[m].id
    PROVE  \A i \in DOMAIN page, k \in DOMAIN page' :
              page'[k].key = page[i].key => page'[k].id = page[i].id
<1>1. \A i, m \in DOMAIN page : page[i].key = page[m].key => i = m BY PageFacts DEF Distinct
<1> SUFFICES ASSUME NEW i \in DOMAIN page, NEW k \in DOMAIN page', page'[k].key = page[i].key
             PROVE  page'[k].id = page[i].id
    OBVIOUS
<1>2. page'[k].key \in Keys(page) BY DEF Keys
<1>3. PICK m \in DOMAIN page : page'[k].key = page[m].key /\ page'[k].id = page[m].id BY <1>2
<1> QED BY <1>1, <1>3

\* A step that leaves every key where it was moves no element.
LEMMA InPlace ==
    ASSUME PageInv, DOMAIN page' = DOMAIN page,
           \A k \in DOMAIN page : page'[k].key = page[k].key /\ page'[k].id = page[k].id
    PROVE  StepKeyed
<1>1. Moved = {} BY DEF Moved
<1>2. Cardinality(Moved) = 0 BY <1>1, FS_EmptySet
<1>3. \A i \in DOMAIN page, k \in DOMAIN page' :
         page'[k].key = page[i].key => page'[k].id = page[i].id
    BY OldOrNew
<1> QED BY <1>2, <1>3 DEF StepKeyed

LEMMA BuildKeyed ==
    ASSUME PageInv, PageInv', NEW len \in LabelLens, BuildOne(len) PROVE StepKeyed
<1> DEFINE n == Len(rows)
           h == [slot |-> SlotTaken.slot, gen |-> hslotGen[SlotTaken.slot]]
           e == Element(h, seqNext, len)
<1>1. page' = Append(page, e) /\ reg' = reg \cup {h} /\ Len(rows) < Capacity BY DEF BuildOne
<1>2. n \in Nat /\ DOMAIN page = 1..n /\ DOMAIN rows = 1..n /\ Len(page) = n BY PageFacts
<1>3. e.key = h
    <2> HIDE DEF h
    <2> QED BY DEF Element
<1>4. h \notin Keys(page)
    <2> SUFFICES ASSUME NEW k \in 1..n, page[k].key = h PROVE FALSE BY <1>2 DEF Keys
    <2>1. PICK i \in 1..n : rows[i].pos + 1 = k BY PageFacts
    <2>2. HandleOf(i) = h BY <2>1, PageFacts
    <2>3. rows[i].slot = SlotTaken.slot BY <2>2 DEF HandleOf
    <2> QED BY <2>3, <1>1, <1>2, SlotTakenFresh DEF PageInv
<1> HIDE DEF n, h, e
<1>5. /\ DOMAIN page' = 1..(n + 1) /\ page'[n + 1] = e /\ \A k \in 1..n : page'[k] = page[k]
    BY <1>1, <1>2 DEF PageInv, PageType
<1>6. \A k \in 1..(n + 1) : k = n + 1 \/ k \in 1..n BY <1>2
<1>7. \A i \in DOMAIN page, k \in DOMAIN page' :
         page'[k].key = page[i].key => page'[k].id = page[i].id
    BY <1>2, <1>3, <1>4, <1>5, <1>6, OldOrNew
<1>8. Keys(page') # Keys(page)
    <2>1. Keys(page') = reg' BY DEF PageInv, PageIsStore
    <2> QED BY <2>1, <1>1, <1>4
<1> QED BY <1>7, <1>8 DEF StepKeyed

LEMMA SwapKeyed == ASSUME PageInv, PageInv', Swap PROVE StepKeyed
<1> DEFINE n == Len(rows)
           a == SwapA + 1
           b == SwapB + 1
<1>1. n \in Nat /\ DOMAIN page = 1..n /\ Distinct(page) BY PageFacts
<1>2. /\ a \in 1..n /\ b \in 1..n /\ a < b
      /\ page' \in Seq(ElementRec) /\ Len(page') = n
      /\ page'[a] = page[b] /\ page'[b] = page[a]
      /\ \A k \in 1..n : k # a /\ k # b => page'[k] = page[k]
    BY SwapMoves
<1> HIDE DEF n, a, b
<1>3. DOMAIN page' = 1..n /\ a # b BY <1>1, <1>2
<1>4. \A k \in 1..n : \E m \in 1..n : page'[k] = page[m]
    <2> TAKE k \in 1..n
    <2>1. CASE k = a BY <2>1, <1>2
    <2>2. CASE k = b BY <2>2, <1>2
    <2>3. CASE k # a /\ k # b BY <2>3, <1>2
    <2> QED BY <2>1, <2>2, <2>3
<1>5. \A i \in DOMAIN page, k \in DOMAIN page' :
         page'[k].key = page[i].key => page'[k].id = page[i].id
    BY <1>1, <1>3, <1>4, OldOrNew
<1>6. page[a].key # page[b].key BY <1>1, <1>2, <1>3 DEF Distinct
<1>7. Moved = {a} \cup {b} BY <1>1, <1>2, <1>6 DEF Moved
<1>8. Cardinality({a} \cup {b}) = 2
    <2>1. IsFiniteSet({a}) /\ Cardinality({a}) = 1 BY FS_Singleton
    <2>2. Cardinality({a} \cup {b}) = Cardinality({a}) + 1 BY <2>1, <1>3, FS_AddElement
    <2> QED BY <2>1, <2>2
<1> QED BY <1>5, <1>7, <1>8 DEF StepKeyed

LEMMA RemoveKeyed == ASSUME PageInv, PageInv', NEW key, RemoveRow(key) PROVE StepKeyed
<1> DEFINE h == HandleOf(RowOf(key))
           g == rows[RowOf(key)].pos + 1
           n == Len(rows)
<1>1. page' = Dropped(page, h) /\ reg' = reg \ {h} BY DEF RemoveRow
<1>2. RowOf(key) \in 1..n /\ n \in Nat /\ DOMAIN page = 1..n /\ Len(page) = n /\ Distinct(page)
    BY RemovedRows, PageFacts DEF PageInv
<1>3. g \in 1..n /\ page[g].key = h /\ h \in reg BY <1>2, PageFacts
<1> HIDE DEF h, g, n
<1>4. reg = Keys(page) /\ reg' = Keys(page') BY DEF PageInv, PageIsStore
<1>5. page' = RemoveAt(page, g)
    <2>1. PlaceOf(page, h) = g BY <1>2, <1>3, PlaceOfKey
    <2> QED BY <2>1, <1>1, <1>3, <1>4 DEF Dropped
<1>6. /\ DOMAIN page' = 1..(n - 1)
      /\ \A k \in 1..(n - 1) : page'[k] = IF k < g THEN page[k] ELSE page[k + 1]
    <2>1. g \in 1..Len(page) /\ page \in Seq(ElementRec) BY <1>2, <1>3 DEF PageInv, PageType
    <2>2. page' \in Seq(ElementRec) /\ Without(page', page, g) BY <2>1, <1>5, RemoveAtPoints
    <2> QED BY <2>2, <1>2 DEF Without
<1>7. \A k \in 1..(n - 1) : \E m \in 1..n : page'[k] = page[m]
    <2> TAKE k \in 1..(n - 1)
    <2>1. k \in 1..n /\ k + 1 \in 1..n BY <1>2
    <2> QED BY <2>1, <1>6
<1>8. \A i \in DOMAIN page, k \in DOMAIN page' :
         page'[k].key = page[i].key => page'[k].id = page[i].id
    BY <1>2, <1>6, <1>7, OldOrNew, ZenonT(60)
<1>9. Keys(page') # Keys(page) BY <1>1, <1>3, <1>4
<1> QED BY <1>8, <1>9 DEF StepKeyed

LEMMA ClearKeyed == ASSUME PageInv, PageInv', ClearRows PROVE StepKeyed
<1>1. page' = <<>> BY DEF PageInv, PageIsStore, ClearRows, AllDropped
<1>2. Keys(page') = {} /\ DOMAIN page' = {} BY <1>1 DEF Keys
<1>3. Keys(page') = Keys(page) => Cardinality(Moved) = 0
    <2> SUFFICES ASSUME Keys(page) = {} PROVE Cardinality(Moved) = 0 BY <1>2
    <2>1. Moved = {} BY DEF Moved, Keys
    <2> QED BY <2>1, FS_EmptySet
<1> QED BY <1>2, <1>3 DEF StepKeyed

\* update and select write into elements and move none.
LEMMA PaintKeyed ==
    ASSUME PageInv, NEW key, Update \/ Select(key) PROVE StepKeyed
<1>1. \A k \in DOMAIN page : page[k] \in ElementRec BY DEF PageInv, PageType
<1>2. CASE Update
    <2>1. DOMAIN page' = DOMAIN page BY <1>2 DEF Update
    <2>2. ASSUME NEW k \in DOMAIN page
          PROVE  page'[k].key = page[k].key /\ page'[k].id = page[k].id
        <3>1. \E l : page'[k] = page[k] \/ page'[k] = [page[k] EXCEPT !.label = l]
            BY <1>2, <2>2 DEF Update
        <3> QED BY <3>1, <1>1, <2>2 DEF ElementRec
    <2> QED BY <2>1, <2>2, InPlace
<1>3. CASE Select(key)
    <2>1. DOMAIN page' = DOMAIN page BY <1>3 DEF Select, Marked
    <2>2. ASSUME NEW k \in DOMAIN page
          PROVE  page'[k].key = page[k].key /\ page'[k].id = page[k].id
        <3>1. \E l : page'[k] = [page[k] EXCEPT !.danger = l]
            BY <1>3, <2>2 DEF Select, Marked
        <3> QED BY <3>1, <1>1, <2>2 DEF ElementRec
    <2> QED BY <2>1, <2>2, InPlace
<1> QED BY <1>2, <1>3

LEMMA NextKeyed == PageInv /\ PageInv' /\ [Next]_vars => StepKeyed
<1> SUFFICES ASSUME PageInv, PageInv', [Next]_vars PROVE StepKeyed OBVIOUS
<1>1. \A n : Run(n) => StepKeyed BY ClearKeyed DEF Run
<1>2. Clear => StepKeyed BY ClearKeyed DEF Clear
<1>3. Add \/ BuildFull \/ UNCHANGED vars => StepKeyed
    <2>1. page' = page => StepKeyed BY InPlace
    <2> QED BY <2>1 DEF Add, BuildFull, vars
<1> QED BY <1>1, <1>2, <1>3, BuildKeyed, PaintKeyed, SwapKeyed, RemoveKeyed DEF Next

\* Whatever the capacity and the sizes: no click makes a new element for a row
\* that had one, and where a click leaves the elements the same it moves two of
\* them or none.
THEOREM ElementsStayKeyed == Spec => ElementsKeyed
<1>1. PageInv /\ PageInv' /\ [Next]_vars =>
        [/\ \A i \in DOMAIN page, k \in DOMAIN page' :
              page'[k].key = page[i].key => page'[k].id = page[i].id
         /\ Keys(page') = Keys(page) =>
              Cardinality({k \in DOMAIN page : page'[k].key # page[k].key}) \in {0, 2}]_vars
    BY NextKeyed DEF StepKeyed, Moved
<1> QED BY <1>1, PageHolds, PTL DEF Spec, ElementsKeyed
-----------------------------------------------------------------------------
(* A kept handle stays dead *)

\* What a behaviour may still spend on a slot: the removal and the clear that
\* await a slot in use, the clear that awaits a free one.
Pending(s) ==
    IF s >= hslotNext THEN 0 ELSE IF \E i \in DOMAIN rows : rows[i].slot = s THEN 2 ELSE 1

\* The ids of a click fit, a slot has spent at most two generations for every
\* id, and the handle in sel lives or is of a generation spent.
IdBudget == seqNext + Min2(todo, Capacity - cnt) <= MaxId + 1
GenBudget == \A s \in Slots : hslotGen[s] + Pending(s) <= 2 * (seqNext - 1)
SelSpent == sel # NoHandle => RowOf(sel) # 0 \/ sel.gen < hslotGen[sel.slot]

\* A slot given out addresses its own row, or none.
SlotsResolve ==
    \A s \in Slots : s < hslotNext =>
        \/ hslotRow[s] = 0
        \/ hslotRow[s] \in DOMAIN rows /\ rows[hslotRow[s]].slot = s

KeptInv == IdBudget /\ GenBudget /\ SlotsResolve /\ SelSpent

\* Fewer ids than half the generations: no generation comes round again.
NoWrap == MaxId \in Nat /\ 2 * MaxId < GenMod

\* A slot that is in use, or free since the last clear, has a generation left.
LEMMA GenLeft ==
    ASSUME StoreInv, IdBudget, GenBudget, NoWrap, NEW s \in Slots, s < hslotNext
    PROVE  hslotGen[s] \in Nat /\ (hslotGen[s] + 1) % GenMod = hslotGen[s] + 1
<1>1. hslotGen[s] \in Nat BY Sizes DEF StoreInv, StoreType, Gens
<1>2. Pending(s) \in {1, 2}
    <2>1. s \in Nat /\ hslotNext \in Nat BY StoreFacts, Sizes DEF Slots
    <2>2. ~(s >= hslotNext) BY <2>1
    <2> QED BY <2>2 DEF Pending
<1>3. hslotGen[s] + Pending(s) <= 2 * (seqNext - 1) BY DEF GenBudget
<1>4. seqNext \in Nat /\ seqNext <= MaxId + 1
    <2>1. /\ seqNext \in Nat /\ todo \in Nat /\ cnt \in Nat /\ cnt <= Capacity
          /\ Capacity \in Nat
        BY StoreFacts, Sizes DEF StoreInv, StoreType
    <2>2. Min2(todo, Capacity - cnt) \in Nat BY <2>1 DEF Min2
    <2> QED BY <2>1, <2>2 DEF IdBudget, NoWrap
<1>5. hslotGen[s] + 1 < GenMod BY <1>1, <1>2, <1>3, <1>4, Sizes DEF NoWrap
<1> QED BY <1>1, <1>5, Sizes

\* The ids the running build may still give were counted when it began.
LEMMA NextIdBudget == ASSUME StoreInv, IdBudget, NoWrap, [Next]_vars PROVE IdBudget'
<1>1. /\ seqNext \in Nat /\ todo \in Nat /\ cnt \in Nat /\ cnt <= Capacity
      /\ Capacity \in Nat /\ MaxId \in Nat /\ cnt = Len(rows)
    BY StoreFacts, Sizes DEF StoreInv, StoreType, NoWrap
<1>2. ASSUME NEW n \in Nat \ {0}, Run(n) PROVE IdBudget'
    <2>1. /\ seqNext' = seqNext /\ cnt' = 0 /\ todo' = n
          /\ seqNext + Min2(n, Capacity) <= MaxId + 1
        BY <1>2 DEF Run, ClearRows
    <2> QED BY <2>1, <1>1 DEF IdBudget, Min2
<1>3. ASSUME Add PROVE IdBudget'
    BY <1>3, <1>1, Sizes DEF Add, IdBudget
<1>4. ASSUME NEW len \in LabelLens, BuildOne(len) PROVE IdBudget'
    <2>1. /\ seqNext' = seqNext + 1 /\ cnt' = cnt + 1 /\ todo' = todo - 1
          /\ todo > 0 /\ cnt < Capacity
        BY <1>4, <1>1 DEF BuildOne
    <2>2. Min2(todo', Capacity - cnt') = Min2(todo, Capacity - cnt) - 1
        BY <2>1, <1>1 DEF Min2
    <2>3. Min2(todo, Capacity - cnt) \in Int BY <1>1 DEF Min2
    <2>4. seqNext' + Min2(todo', Capacity - cnt') = seqNext + Min2(todo, Capacity - cnt)
        BY <2>1, <2>2, <2>3, <1>1
    <2> QED BY <2>4 DEF IdBudget
<1>5. ASSUME BuildFull PROVE IdBudget'
    <2>1. seqNext' = seqNext /\ cnt' = cnt /\ todo' = todo - 1 /\ todo > 0 /\ cnt >= Capacity
        BY <1>5, <1>1 DEF BuildFull
    <2> QED BY <2>1, <1>1 DEF IdBudget, Min2
<1>6. ASSUME NEW key, RemoveRow(key) PROVE IdBudget'
    <2>1. seqNext' = seqNext /\ cnt' = cnt - 1 /\ todo' = 0 /\ todo = 0
        BY <1>6 DEF RemoveRow
    <2> QED BY <2>1, <1>1 DEF IdBudget, Min2
<1>7. ASSUME Clear PROVE IdBudget'
    <2>1. seqNext' = seqNext /\ cnt' = 0 /\ todo' = 0 /\ todo = 0
        BY <1>7 DEF Clear, ClearRows
    <2> QED BY <2>1, <1>1 DEF IdBudget, Min2
<1>8. ASSUME UNCHANGED <<seqNext, cnt, todo>> PROVE IdBudget' BY <1>8 DEF IdBudget
<1>9. ASSUME NEW key, Update \/ Swap \/ Select(key) \/ UNCHANGED vars PROVE IdBudget'
    BY <1>8, <1>9 DEF Update, Swap, Select, vars
<1>10. Run(RunRows) \/ Run(LotsRows) => IdBudget' BY <1>2, Sizes
<1> QED BY <1>3, <1>4, <1>5, <1>6, <1>7, <1>9, <1>10 DEF Next

\* What every step owes the handles: the budget, the slots, generations that only
\* grow, and past any handle that was alive and is not.
Spent ==
    /\ GenBudget' /\ SlotsResolve'
    /\ \A s \in Slots : hslotGen'[s] >= hslotGen[s]
    /\ \A h \in Handle : RowOf(h) # 0 => RowOf(h)' # 0 \/ h.gen < hslotGen'[h.slot]

\* The types the steps below start from.
LEMMA TableTypes ==
    ASSUME StoreInv
    PROVE  /\ Slots \subseteq Nat /\ Gens \subseteq Nat /\ hslotGen \in [Slots -> Nat]
           /\ hslotGen \in [Slots -> Gens]
           /\ hslotRow \in [Slots -> 0..Capacity] /\ seqNext \in Nat /\ hslotNext \in Nat
           /\ \A s \in Slots : Pending(s) \in 0..2
<1>1. Slots \subseteq Nat /\ Gens \subseteq Nat BY Sizes DEF Slots, Gens
<1>2. hslotGen \in [Slots -> Gens] /\ hslotRow \in [Slots -> 0..Capacity] /\ seqNext \in Nat
    BY DEF StoreInv, StoreType
<1>3. hslotGen \in [Slots -> Nat] BY <1>1, <1>2
<1>4. \A s \in Slots : Pending(s) \in 0..2 BY DEF Pending
<1> QED BY <1>1, <1>2, <1>3, <1>4, StoreFacts

\* A handle that resolves is the handle of the row it resolves to.
LEMMA Resolved ==
    ASSUME StoreInv, SlotsResolve, NEW h \in Handle, RowOf(h) # 0
    PROVE  /\ RowOf(h) \in DOMAIN rows /\ rows[RowOf(h)].slot = h.slot
           /\ h.slot \in Slots /\ h.gen = hslotGen[h.slot] /\ h.slot < hslotNext
           /\ HandleOf(RowOf(h)) = h
<1>1. h.slot \in Slots /\ h = [slot |-> h.slot, gen |-> h.gen] BY DEF Handle
<1>2. /\ RowOf(h) \in DOMAIN rows /\ h.gen = hslotGen[h.slot]
      /\ hslotRow[h.slot] = RowOf(h) /\ h.slot < hslotNext
    BY DEF RowOf
<1>3. rows[RowOf(h)].slot = h.slot BY <1>1, <1>2 DEF SlotsResolve
<1> QED BY <1>1, <1>2, <1>3 DEF HandleOf

\* A sweep that rewrites rows in place spends nothing.
LEMMA SweepSpent ==
    ASSUME StoreInv, GenBudget, SlotsResolve,
           DOMAIN rows' = DOMAIN rows, \A i \in DOMAIN rows : rows'[i].slot = rows[i].slot,
           UNCHANGED <<hslotRow, hslotGen, hslotNext, seqNext>>
    PROVE  Spent
<1>1. \A s \in Slots : Pending(s)' = Pending(s) BY DEF Pending
<1>2. GenBudget' BY <1>1 DEF GenBudget
<1>3. SlotsResolve' BY DEF SlotsResolve
<1>4. \A s \in Slots : hslotGen'[s] >= hslotGen[s] BY TableTypes
<1>5. \A h : RowOf(h)' = RowOf(h) BY DEF RowOf
<1> QED BY <1>2, <1>3, <1>4, <1>5 DEF Spent

\* A clear spends one generation of every slot given out.
LEMMA ClearSpent ==
    ASSUME StoreInv, IdBudget, GenBudget, SlotsResolve, NoWrap, ClearRows, seqNext' = seqNext
    PROVE  Spent
<1>1. /\ hslotGen' = [s \in Slots |-> IF s < hslotNext THEN (hslotGen[s] + 1) % GenMod
                                                      ELSE hslotGen[s]]
      /\ hslotNext' = 0
    BY DEF ClearRows
<1>2. ASSUME NEW s \in Slots
      PROVE  /\ s \in Nat /\ hslotGen[s] \in Nat
             /\ hslotGen'[s] = IF s < hslotNext THEN hslotGen[s] + 1 ELSE hslotGen[s]
    BY <1>1, <1>2, TableTypes, GenLeft
<1>3. ASSUME NEW s \in Slots PROVE hslotGen'[s] + Pending(s)' <= 2 * (seqNext' - 1)
    <2>1. s >= 0 BY <1>2, <1>3
    <2>2. Pending(s)' = 0 BY <1>1, <2>1 DEF Pending
    <2>3. hslotGen[s] + Pending(s) <= 2 * (seqNext - 1) BY <1>3 DEF GenBudget
    <2>4. hslotNext \in Nat /\ seqNext \in Nat BY TableTypes
    <2>5. Pending(s) = 0 \/ Pending(s) \in {1, 2} BY <1>3, TableTypes
    <2>6. s < hslotNext => Pending(s) \in {1, 2}
        <3>1. s < hslotNext => ~(s >= hslotNext) BY <1>2, <1>3, <2>4
        <3> QED BY <3>1 DEF Pending
    <2> QED BY <2>2, <2>3, <2>4, <2>5, <2>6, <1>2, <1>3
<1>4. GenBudget' BY <1>3 DEF GenBudget
<1>5. SlotsResolve'
    <2>1. \A s \in Slots : ~(s < hslotNext') BY <1>1, <1>2
    <2> QED BY <2>1 DEF SlotsResolve
<1>6. \A s \in Slots : hslotGen'[s] >= hslotGen[s]
    <2> TAKE s \in Slots
    <2> QED BY <1>2
<1>7. ASSUME NEW h \in Handle, RowOf(h) # 0 PROVE h.gen < hslotGen'[h.slot]
    <2>1. h.slot \in Slots /\ h.gen = hslotGen[h.slot] /\ h.slot < hslotNext BY <1>7, Resolved
    <2> QED BY <2>1, <1>2
<1> QED BY <1>4, <1>5, <1>6, <1>7 DEF Spent

\* An insert raises the budget by the two generations its slot may spend.
LEMMA BuildSpent ==
    ASSUME StoreInv, GenBudget, SlotsResolve, NEW len \in LabelLens, BuildOne(len)
    PROVE  Spent
<1> DEFINE t == SlotTaken
           n == Len(rows)
<1>1. /\ hslotGen' = hslotGen /\ seqNext' = seqNext + 1 /\ hslotNext' = t.next
      /\ hslotRow' = [hslotRow EXCEPT ![t.slot] = n + 1] /\ n < Capacity
    BY DEF BuildOne
<1>2. /\ t.slot \in Slots /\ t.next \in Nat /\ hslotNext <= t.next
      /\ \A i \in DOMAIN rows : rows[i].slot # t.slot
      /\ t.next = hslotNext \/ (t.next = hslotNext + 1 /\ t.slot = hslotNext)
    <2>1. t.next \in 0..Capacity /\ Capacity \in Nat BY <1>1, SlotTakenFresh, Sizes
    <2>2. t.next = hslotNext \/ (t.next = hslotNext + 1 /\ t.slot = hslotNext) BY DEF SlotTaken
    <2> QED BY <2>1, <2>2, <1>1, SlotTakenFresh
<1> HIDE DEF t
<1>3. /\ n \in Nat /\ DOMAIN rows = 1..n /\ DOMAIN rows' = 1..(n + 1)
      /\ \A i \in 1..n : rows'[i] = rows[i]
      /\ rows'[n + 1].slot = t.slot
    BY StoreFacts DEF BuildOne, StoreInv, StoreType, t
<1> HIDE DEF n
<1>4. ASSUME NEW s \in Slots PROVE hslotGen'[s] + Pending(s)' <= 2 * (seqNext' - 1)
    <2>1. Pending(s)' \in 0..2 BY DEF Pending
    <2>2. hslotGen[s] + Pending(s) <= 2 * (seqNext - 1) BY <1>4 DEF GenBudget
    <2>3. hslotGen[s] \in Nat /\ Pending(s) \in 0..2 /\ seqNext \in Nat BY <1>4, TableTypes
    <2> QED BY <2>1, <2>2, <2>3, <1>1
<1>5. GenBudget' BY <1>4 DEF GenBudget
<1>6. SlotsResolve'
    <2> SUFFICES ASSUME NEW s \in Slots, s < t.next
                 PROVE  \/ hslotRow'[s] = 0
                        \/ hslotRow'[s] \in DOMAIN rows' /\ rows'[hslotRow'[s]].slot = s
        BY <1>1 DEF SlotsResolve
    <2>1. CASE s = t.slot
        <3>1. hslotRow'[s] = n + 1 BY <2>1, <1>1, TableTypes
        <3> QED BY <3>1, <2>1, <1>3
    <2>2. CASE s # t.slot
        <3>1. hslotRow'[s] = hslotRow[s] BY <2>2, <1>1, TableTypes
        <3>2. s < hslotNext BY <2>2, <1>2, TableTypes
        <3>3. hslotRow[s] = 0 \/ (hslotRow[s] \in 1..n /\ rows[hslotRow[s]].slot = s)
            BY <3>2, <1>3 DEF SlotsResolve
        <3>4. \A i \in 1..n : i \in 1..(n + 1) BY <1>3
        <3> QED BY <3>1, <3>3, <3>4, <1>3
    <2> QED BY <2>1, <2>2
<1>7. \A s \in Slots : hslotGen'[s] >= hslotGen[s] BY <1>1, TableTypes
<1>8. ASSUME NEW h \in Handle, RowOf(h) # 0 PROVE RowOf(h)' # 0
    <2>1. /\ RowOf(h) \in 1..n /\ rows[RowOf(h)].slot = h.slot /\ h.slot \in Slots
          /\ h.gen = hslotGen[h.slot] /\ h.slot < hslotNext
        BY <1>3, <1>8, Resolved
    <2>2. hslotRow[h.slot] = RowOf(h) /\ h # NoHandle BY <1>8, RowOfFacts
    <2>3. h.slot # t.slot BY <2>1, <1>2, <1>3
    <2>4. hslotRow'[h.slot] = RowOf(h) BY <2>1, <2>2, <2>3, <1>1, TableTypes
    <2>5. h.slot < hslotNext' BY <2>1, <1>1, <1>2, TableTypes
    <2>6. RowOf(h) \in DOMAIN rows' /\ RowOf(h) # 0 BY <2>1, <1>3
    <2> QED BY <2>1, <2>2, <2>4, <2>5, <2>6, <1>1 DEF RowOf
<1> QED BY <1>5, <1>6, <1>7, <1>8 DEF Spent

\* A removal spends one generation of the slot that goes, and the row that moves
\* into the hole keeps its slot.
LEMMA RemoveSpent ==
    ASSUME StoreInv, IdBudget, GenBudget, SlotsResolve, NoWrap, NEW key, RemoveRow(key)
    PROVE  Spent
<1> DEFINE n == Len(rows)
           r == RowOf(key)
           slot == rows[r].slot
           last == rows[n].slot
<1>1. /\ hslotRow' = [hslotRow EXCEPT ![last] = r, ![slot] = 0]
      /\ hslotGen' = [hslotGen EXCEPT ![slot] = (@ + 1) % GenMod]
      /\ hslotNext' = hslotNext /\ seqNext' = seqNext /\ r # 0
      /\ rows' = Closed(Taken(r), rows[r].pos)
    BY DEF RemoveRow
<1>2. /\ r \in 1..n /\ n \in 1..n /\ n \in Nat /\ DOMAIN rows = 1..n
      /\ DOMAIN rows' = 1..(n - 1)
    <2>1. r \in 1..n /\ DOMAIN rows' = 1..(n - 1) BY RemovedRows
    <2>2. n \in Nat /\ DOMAIN rows = 1..n BY StoreFacts
    <2> HIDE DEF n, r
    <2> QED BY <2>1, <2>2
<1>3. /\ \A i \in 1..n : /\ rows[i] \in RowRec /\ rows[i].slot \in Slots
                         /\ rows[i].slot < hslotNext /\ hslotRow[rows[i].slot] = i
    BY <1>2, StoreFacts
<1>4. slot \in Slots /\ slot < hslotNext /\ last \in Slots BY <1>2, <1>3
<1>5. ASSUME NEW i \in 1..(n - 1) PROVE rows'[i].slot = IF i = r THEN last ELSE rows[i].slot
    <2> DEFINE old == IF i = r THEN rows[n] ELSE rows[i]
               p == IF old.pos > rows[r].pos THEN old.pos - 1 ELSE old.pos
    <2>1. Taken(r)[i] = old /\ DOMAIN Taken(r) = 1..(n - 1) BY <1>5 DEF Taken
    <2>2. old \in RowRec BY <1>2, <1>3, <1>5
    <2> HIDE DEF old
    <2>3. rows'[i] = [old EXCEPT !.pos = p] BY <1>1, <1>5, <2>1 DEF Closed
    <2>4. rows'[i].slot = old.slot BY <2>2, <2>3 DEF RowRec
    <2> QED BY <2>4 DEF old
<1> HIDE DEF n, r, slot, last
<1>6. ASSUME NEW s \in Slots
      PROVE  /\ hslotGen[s] \in Nat
             /\ hslotGen'[s] = IF s = slot THEN hslotGen[s] + 1 ELSE hslotGen[s]
    <2>1. hslotGen'[s] = IF s = slot THEN (hslotGen[s] + 1) % GenMod ELSE hslotGen[s]
        BY <1>1, <1>4, <1>6, TableTypes
    <2> QED BY <2>1, <1>4, <1>6, TableTypes, GenLeft
<1>7. \A i \in 1..(n - 1) : rows'[i].slot # slot
    <2> TAKE i \in 1..(n - 1)
    <2>1. CASE i = r
        <3>1. r # n BY <2>1, <1>2
        <3>2. last # slot BY <3>1, <1>2, <1>3 DEF last, slot
        <3> QED BY <2>1, <3>2, <1>5
    <2>2. CASE i # r
        <3>1. i \in 1..n BY <1>2
        <3>2. rows[i].slot # slot BY <2>2, <3>1, <1>2, <1>3 DEF slot
        <3> QED BY <2>2, <3>2, <1>5
    <2> QED BY <2>1, <2>2
<1>8. ASSUME NEW s \in Slots PROVE hslotGen'[s] + Pending(s)' <= 2 * (seqNext' - 1)
    <2>1. hslotGen[s] + Pending(s) <= 2 * (seqNext - 1) /\ Pending(s) \in 0..2 /\ seqNext \in Nat
        BY <1>8, TableTypes DEF GenBudget
    <2>2. s \in Nat /\ hslotNext \in Nat BY <1>8, TableTypes
    <2>3. CASE s = slot
        <3>1. Pending(s) = 2
            <4>1. ~(s >= hslotNext) BY <2>2, <2>3, <1>4
            <4>2. \E i \in DOMAIN rows : rows[i].slot = s BY <2>3, <1>2 DEF slot
            <4> QED BY <4>1, <4>2 DEF Pending
        <3>2. Pending(s)' = 1
            <4>1. ~(s >= hslotNext') BY <2>2, <2>3, <1>1, <1>4
            <4>2. ~(\E i \in DOMAIN rows' : rows'[i].slot = s) BY <2>3, <1>2, <1>7
            <4> QED BY <4>1, <4>2 DEF Pending
        <3> QED BY <2>1, <2>3, <3>1, <3>2, <1>1, <1>6, <1>8
    <2>4. CASE s # slot
        <3>1. ASSUME NEW i \in DOMAIN rows', rows'[i].slot = s
              PROVE  \E j \in DOMAIN rows : rows[j].slot = s
            <4>1. i \in 1..n /\ n \in 1..n BY <1>2, <3>1
            <4>2. s = last \/ s = rows[i].slot BY <3>1, <1>2, <1>5
            <4> QED BY <4>1, <4>2, <1>2 DEF last
        <3>2. Pending(s)' = 0 \/ Pending(s)' = Pending(s) \/ (Pending(s)' = 1 /\ Pending(s) = 2)
            BY <3>1, <1>1 DEF Pending
        <3> QED BY <2>1, <2>4, <3>2, <1>1, <1>6, <1>8
    <2> QED BY <2>3, <2>4
<1>9. GenBudget' BY <1>8 DEF GenBudget
<1>10. ASSUME NEW s \in Slots, s < hslotNext, hslotRow[s] # 0, s # slot
       PROVE  /\ hslotRow'[s] \in DOMAIN rows' /\ rows'[hslotRow'[s]].slot = s
              /\ hslotRow'[s] # 0
    <2> DEFINE j == hslotRow[s]
    <2>1. j \in 1..n /\ rows[j].slot = s BY <1>2, <1>10 DEF SlotsResolve
    <2>2. j # r BY <2>1, <1>10 DEF slot
    <2>3. CASE s = last
        <3>1. hslotRow'[s] = r BY <2>3, <1>1, <1>4, <1>10, TableTypes
        <3>2. r \in 1..(n - 1)
            <4>1. r # n BY <2>3, <1>10 DEF last, slot
            <4> QED BY <4>1, <1>2
        <3> QED BY <2>3, <3>1, <3>2, <1>2, <1>5
    <2>4. CASE s # last
        <3>1. hslotRow'[s] = j BY <2>4, <1>1, <1>10, TableTypes
        <3>2. j # n BY <2>1, <2>4 DEF last
        <3> HIDE DEF j
        <3>3. j \in 1..(n - 1) BY <2>1, <3>2, <1>2
        <3> QED BY <2>1, <2>2, <3>1, <3>3, <1>2, <1>5
    <2> QED BY <2>3, <2>4
<1>11. hslotRow'[slot] = 0 BY <1>1, <1>4, TableTypes
<1>12. SlotsResolve'
    <2> SUFFICES ASSUME NEW s \in Slots, s < hslotNext
                 PROVE  \/ hslotRow'[s] = 0
                        \/ hslotRow'[s] \in DOMAIN rows' /\ rows'[hslotRow'[s]].slot = s
        BY <1>1 DEF SlotsResolve
    <2>1. CASE s = slot BY <2>1, <1>11
    <2>2. CASE s # slot /\ hslotRow[s] # 0 BY <2>2, <1>10
    <2>3. CASE s # slot /\ hslotRow[s] = 0
        <3>1. s # last BY <2>3, <1>2, <1>3 DEF last
        <3> QED BY <2>3, <3>1, <1>1, TableTypes
    <2> QED BY <2>1, <2>2, <2>3
<1>13. \A s \in Slots : hslotGen'[s] >= hslotGen[s]
    <2> TAKE s \in Slots
    <2> QED BY <1>6
<1>14. ASSUME NEW h \in Handle, RowOf(h) # 0 PROVE RowOf(h)' # 0 \/ h.gen < hslotGen'[h.slot]
    <2>1. h.slot \in Slots /\ h.gen = hslotGen[h.slot] /\ h.slot < hslotNext
        BY <1>14, Resolved
    <2>2. hslotRow[h.slot] # 0 /\ h # NoHandle BY <1>14, RowOfFacts
    <2>3. CASE h.slot = slot BY <2>1, <2>3, <1>6
    <2>4. CASE h.slot # slot
        <3>1. hslotRow'[h.slot] \in DOMAIN rows' /\ hslotRow'[h.slot] # 0
            BY <2>1, <2>2, <2>4, <1>10
        <3>2. h.gen = hslotGen'[h.slot] BY <2>1, <2>4, <1>6
        <3> QED BY <2>1, <2>2, <3>1, <3>2, <1>1 DEF RowOf
    <2> QED BY <2>3, <2>4
<1> QED BY <1>9, <1>12, <1>13, <1>14 DEF Spent

\* No step lets a generation come round again.
LEMMA NextSpent ==
    ASSUME PageInv, IdBudget, GenBudget, SlotsResolve, NoWrap, [Next]_vars PROVE Spent
<1>0. StoreInv BY DEF PageInv
<1>1. ASSUME NEW n, Run(n) PROVE Spent BY <1>0, <1>1, ClearSpent DEF Run
<1>2. ASSUME Clear PROVE Spent BY <1>0, <1>2, ClearSpent DEF Clear
<1>3. ASSUME UNCHANGED <<store, seqNext>> PROVE Spent BY <1>0, <1>3, SweepSpent DEF store
<1>4. ASSUME NEW key, Add \/ BuildFull \/ Select(key) \/ UNCHANGED vars PROVE Spent
    BY <1>3, <1>4 DEF Add, BuildFull, Select, vars
<1>5. ASSUME Update PROVE Spent
    <2>1. DOMAIN rows' = DOMAIN rows BY <1>5 DEF Update
    <2>2. ASSUME NEW i \in DOMAIN rows PROVE rows'[i].slot = rows[i].slot
        <3>1. rows[i] \in RowRec BY <1>0, <2>2, StoreFacts
        <3>2. \E l : rows'[i] = rows[i] \/ rows'[i] = [rows[i] EXCEPT !.label = l]
            BY <1>5, <2>2 DEF Update
        <3> QED BY <3>1, <3>2 DEF RowRec
    <2> QED BY <1>0, <1>5, <2>1, <2>2, SweepSpent DEF Update
<1>6. ASSUME Swap PROVE Spent
    <2>1. DOMAIN rows' = DOMAIN rows BY <1>6 DEF Swap
    <2>2. ASSUME NEW i \in DOMAIN rows PROVE rows'[i].slot = rows[i].slot
        <3>1. rows[i] \in RowRec BY <1>0, <2>2, StoreFacts
        <3>2. \E p : rows'[i] = [rows[i] EXCEPT !.pos = p] BY <1>6, <2>2 DEF Swap
        <3> QED BY <3>1, <3>2 DEF RowRec
    <2> QED BY <1>0, <1>6, <2>1, <2>2, SweepSpent DEF Swap
<1> QED BY <1>0, <1>1, <1>2, <1>4, <1>5, <1>6, BuildSpent, RemoveSpent DEF Next

\* While it lives, a handle that stays the same stays the same row: the elements
\* are keyed by it, and keep their ids.
LEMMA LivesOn ==
    ASSUME PageInv, PageInv', SlotsResolve, SlotsResolve', StepKeyed,
           NEW h \in Handle, RowOf(h) # 0, RowOf(h)' # 0
    PROVE  rows'[RowOf(h)'].id = rows[RowOf(h)].id
<1> DEFINE r == RowOf(h)
<1>1. r \in DOMAIN rows /\ HandleOf(r) = h BY Resolved DEF PageInv
<1>2. /\ rows[r].pos + 1 \in DOMAIN page /\ page[rows[r].pos + 1].key = h
      /\ page[rows[r].pos + 1].id = rows[r].id
    BY <1>1 DEF PageInv, PageIsStore
<1>3. PICK q : q = RowOf(h)' OBVIOUS
<1>4. h.slot \in Slots /\ h = [slot |-> h.slot, gen |-> h.gen] BY DEF Handle
<1>5. /\ q \in DOMAIN rows' /\ h.gen = hslotGen'[h.slot]
      /\ hslotRow'[h.slot] = q /\ h.slot < hslotNext' /\ q # 0
    BY <1>3 DEF RowOf
<1>6. rows'[q].slot = h.slot BY <1>4, <1>5 DEF SlotsResolve
<1>7. HandleOf(q)' = h BY <1>4, <1>5, <1>6 DEF HandleOf
<1>8. /\ rows'[q].pos + 1 \in DOMAIN page' /\ page'[rows'[q].pos + 1].key = h
      /\ page'[rows'[q].pos + 1].id = rows'[q].id
    BY <1>5, <1>7 DEF PageInv, PageIsStore
<1>9. page'[rows'[q].pos + 1].id = page[rows[r].pos + 1].id BY <1>2, <1>8 DEF StepKeyed
<1> QED BY <1>2, <1>3, <1>8, <1>9

\* The handle in sel goes on living, or goes on being spent.
LEMMA NextSelSpent ==
    ASSUME PageInv, PageInv', KeptInv, NoWrap, [Next]_vars PROVE SelSpent'
<1>1. Spent BY NextSpent DEF KeptInv
<1>2. CASE sel' = sel
    <2> SUFFICES ASSUME sel # NoHandle PROVE RowOf(sel)' # 0 \/ sel.gen < hslotGen'[sel.slot]
        BY <1>2 DEF SelSpent
    <2>1. sel \in Handle BY DEF PageInv, PageType
    <2>2. CASE RowOf(sel) # 0
        <3>1. PICK h \in Handle : h = sel BY <2>1
        <3>2. RowOf(h) # 0 BY <3>1, <2>2
        <3>3. RowOf(h)' # 0 \/ h.gen < hslotGen'[h.slot] BY <3>2, <1>1 DEF Spent
        <3>4. RowOf(sel)' = RowOf(h)' BY <3>1, <1>2
        <3> QED BY <3>1, <3>3, <3>4
    <2>3. CASE RowOf(sel) = 0
        <3>1. sel.gen < hslotGen[sel.slot] BY <2>3 DEF KeptInv, SelSpent
        <3>2. sel.slot \in Slots /\ sel.gen \in Nat BY <2>1, TableTypes DEF Handle, PageInv
        <3>3. /\ hslotGen[sel.slot] \in Nat /\ hslotGen'[sel.slot] \in Nat
            BY <3>2, TableTypes DEF PageInv, StoreInv, StoreType
        <3>4. hslotGen'[sel.slot] >= hslotGen[sel.slot] BY <3>2, <1>1 DEF Spent
        <3> QED BY <3>1, <3>2, <3>3, <3>4
    <2> QED BY <2>2, <2>3
<1>3. CASE sel' # sel
    <2>1. PICK key \in Keys(page) : Select(key)
        BY <1>3 DEF Next, vars, Run, Clear, Add, BuildOne, BuildFull, Update, Swap, RemoveRow
    <2>2. PICK k \in DOMAIN page : page[k].key = key BY DEF Keys
    <2>3. PICK i \in DOMAIN rows : rows[i].pos + 1 = k BY <2>2, PageFacts
    <2>4. RowOf(key) = i /\ i # 0
        <3>1. RowOf(page[rows[i].pos + 1].key) = i BY DEF PageInv, PageIsStore
        <3>2. i # 0 BY StoreFacts DEF PageInv
        <3> QED BY <3>1, <3>2, <2>2, <2>3
    <2>5. RowOf(key)' = RowOf(key) BY <2>1 DEF Select, store, RowOf
    <2> QED BY <2>1, <2>4, <2>5 DEF Select, SelSpent
<1> QED BY <1>2, <1>3

StepKept ==
    sel' = sel /\ sel # NoHandle =>
       IF RowOf(sel) = 0 THEN RowOf(sel)' = 0
       ELSE RowOf(sel)' # 0 => rows'[RowOf(sel)'].id = rows[RowOf(sel)].id

\* One step: a dead handle stays dead, a living one stays the row it was.
LEMMA NextKept ==
    ASSUME PageInv, PageInv', KeptInv, NoWrap, [Next]_vars PROVE StepKept
<1> SUFFICES ASSUME sel' = sel, sel # NoHandle
             PROVE  IF RowOf(sel) = 0 THEN RowOf(sel)' = 0
                    ELSE RowOf(sel)' # 0 => rows'[RowOf(sel)'].id = rows[RowOf(sel)].id
    BY DEF StepKept
<1>1. Spent BY NextSpent DEF KeptInv
<1>2. sel \in Handle BY DEF PageInv, PageType
<1>3. CASE RowOf(sel) # 0
    <2>1. SlotsResolve /\ SlotsResolve' BY <1>1 DEF Spent, KeptInv
    <2>2. StepKeyed BY NextKeyed
    <2>3. PICK h \in Handle : h = sel /\ h = sel' BY <1>2
    <2>4. RowOf(sel) = RowOf(h) /\ RowOf(sel)' = RowOf(h)' BY <2>3
    <2>5. RowOf(h)' # 0 => rows'[RowOf(h)'].id = rows[RowOf(h)].id
        BY <2>1, <2>2, <2>4, <1>3, LivesOn
    <2> QED BY <2>4, <2>5, <1>3
<1>4. CASE RowOf(sel) = 0
    <2>1. sel.gen < hslotGen[sel.slot] BY <1>4 DEF KeptInv, SelSpent
    <2>2. sel.slot \in Slots /\ sel.gen \in Nat BY <1>2, TableTypes DEF Handle, PageInv
    <2>3. hslotGen[sel.slot] \in Nat /\ hslotGen'[sel.slot] \in Nat
        BY <2>2, TableTypes DEF PageInv, StoreInv, StoreType
    <2>4. hslotGen'[sel.slot] >= hslotGen[sel.slot] BY <2>2, <1>1 DEF Spent
    <2>5. sel.gen # hslotGen'[sel.slot] BY <2>1, <2>2, <2>3, <2>4
    <2>6. RowOf(sel)' = 0 BY <2>5, <1>2 DEF RowOf
    <2> QED BY <2>6, <1>4
<1> QED BY <1>3, <1>4

LEMMA InitKept == Init /\ NoWrap => KeptInv
<1> SUFFICES ASSUME Init, NoWrap PROVE KeptInv OBVIOUS
<1>1. IdBudget BY Sizes DEF Init, IdBudget, Min2, NoWrap
<1>2. GenBudget
    <2>1. \A s \in Slots : s \in Nat BY Sizes DEF Slots
    <2>2. \A s \in Slots : Pending(s) = 0 BY <2>1 DEF Init, Pending
    <2> QED BY <2>2 DEF Init, GenBudget
<1>3. SlotsResolve
    <2>1. \A s \in Slots : ~(s < hslotNext) BY Sizes DEF Init, Slots
    <2> QED BY <2>1 DEF SlotsResolve
<1>4. SelSpent BY DEF Init, SelSpent
<1> QED BY <1>1, <1>2, <1>3, <1>4 DEF KeptInv

LEMMA NextKeptInv ==
    ASSUME PageInv, PageInv', KeptInv, NoWrap, [Next]_vars PROVE KeptInv'
<1>1. IdBudget' BY NextIdBudget DEF PageInv, KeptInv
<1>2. Spent BY NextSpent DEF KeptInv
<1>3. SelSpent' BY NextSelSpent
<1> QED BY <1>1, <1>2, <1>3 DEF Spent, KeptInv

\* As long as fewer rows are made than half the generations of a slot, a handle
\* that was kept while its row went never addresses another row, through any
\* removals, clears and reuse of its slot, and while it lives it addresses the
\* row it was taken from.
THEOREM KeptHandleStaysDead ==
    ASSUME MaxId \in Nat, 2 * MaxId < GenMod PROVE Spec => KeptHandleNeverMoves
<1>1. NoWrap BY DEF NoWrap
<1>2. Init => KeptInv BY <1>1, InitKept
<1>3. PageInv /\ PageInv' /\ KeptInv /\ [Next]_vars => KeptInv' BY <1>1, NextKeptInv
<1>4. PageInv /\ PageInv' /\ KeptInv /\ [Next]_vars =>
        [sel' = sel /\ sel # NoHandle =>
           IF RowOf(sel) = 0 THEN RowOf(sel)' = 0
           ELSE RowOf(sel)' # 0 => rows'[RowOf(sel)'].id = rows[RowOf(sel)].id]_vars
    BY <1>1, NextKept DEF StepKept
<1> QED BY <1>2, <1>3, <1>4, PageHolds, PTL DEF Spec, KeptHandleNeverMoves
-----------------------------------------------------------------------------
(* The page is the benchmark's table *)

\* Every mark the bound allows fits the label column.
MarksFit == \A l \in LabelLens : l + MaxMarks * MarkLen <= LabelCap

\* Ids are given once and counted from 1.
IdsGiven ==
    /\ \A k \in DOMAIN page : page[k].id \in 1..(seqNext - 1)
    /\ \A k, l \in DOMAIN page : page[k].id = page[l].id => k = l

\* The abstract table of a page, and the id of its chosen element.
Shown(p) == [i \in DOMAIN p |-> [id |-> p[i].id, label |-> p[i].label]]
ShownRec == [id : Nat, label : Nat]
Chosen(p) ==
    LET reds == {i \in DOMAIN p : p[i].danger}
    IN  IF reds = {} THEN 0 ELSE p[CHOOSE i \in reds : \A j \in reds : i <= j].id

\* Two sequences of one length with the same points are one sequence.
LEMMA SameSeq ==
    ASSUME NEW S, NEW s \in Seq(S), NEW t \in Seq(S), Len(s) = Len(t),
           \A i \in 1..Len(s) : s[i] = t[i]
    PROVE  s = t
    BY LenProperties

LEMMA ShownFacts ==
    ASSUME NEW p \in Seq(ElementRec)
    PROVE  /\ Shown(p) \in Seq(ShownRec) /\ Len(Shown(p)) = Len(p) /\ DOMAIN Shown(p) = DOMAIN p
           /\ DOMAIN p = 1..Len(p) /\ Len(p) \in Nat
           /\ \A i \in DOMAIN p : Shown(p)[i] = [id |-> p[i].id, label |-> p[i].label]
<1>1. DOMAIN p = 1..Len(p) /\ Len(p) \in Nat /\ \A i \in 1..Len(p) : p[i] \in ElementRec
    OBVIOUS
<1>2. Shown(p) \in [1..Len(p) -> ShownRec] BY <1>1 DEF Shown, ShownRec, ElementRec
<1>3. Shown(p) \in Seq(ShownRec) /\ Len(Shown(p)) = Len(p) BY <1>1, <1>2
<1> QED BY <1>1, <1>3 DEF Shown

\* With one element marked at most, the chosen id is its id, and 0 without one.
LEMMA ChosenOne ==
    ASSUME NEW p, NEW k \in Nat, k \in DOMAIN p, p[k].danger,
           \A i \in DOMAIN p : p[i].danger => i = k
    PROVE  Chosen(p) = p[k].id
<1>1. {i \in DOMAIN p : p[i].danger} = {k} OBVIOUS
<1>2. (CHOOSE i \in {k} : \A j \in {k} : i <= j) = k OBVIOUS
<1> QED BY <1>1, <1>2 DEF Chosen

LEMMA ChosenNone ==
    ASSUME NEW p, \A i \in DOMAIN p : ~p[i].danger PROVE Chosen(p) = 0
<1>1. {i \in DOMAIN p : p[i].danger} = {} OBVIOUS
<1> QED BY <1>1 DEF Chosen

\* The mapping, in the words of the lemmas.
LEMMA Mapping ==
    /\ ChosenId = Chosen(page) /\ ChosenId' = Chosen(page')
    /\ [i \in DOMAIN page |-> [id |-> page[i].id, label |-> page[i].label]] = Shown(page)
    /\ [i \in DOMAIN page |-> [id |-> page[i].id, label |-> page[i].label]]' = Shown(page')
    BY DEF ChosenId, Chosen, Shown

\* The marked elements are one at most.
LEMMA OneRed ==
    ASSUME PageInv, NEW k \in DOMAIN page, page[k].danger
    PROVE  /\ \A i \in DOMAIN page : page[i].danger => i = k
           /\ Chosen(page) = page[k].id
<1>1. \A i \in DOMAIN page : page[i].danger => page[i].key = sel BY DEF PageInv, OneChosen
<1>2. \A i \in DOMAIN page : page[i].danger => i = k
    <2> TAKE i \in DOMAIN page
    <2> HAVE page[i].danger
    <2>1. page[i].key = page[k].key BY <1>1
    <2> QED BY <2>1, PageFacts DEF Distinct
<1>3. k \in Nat BY PageFacts
<1> QED BY <1>2, <1>3, ChosenOne

-----------------------------------------------------------------------------
(* What each click does to the elements *)

LEMMA ClearMoves ==
    ASSUME PageInv, ClearRows PROVE page' = <<>>
    BY DEF PageInv, PageIsStore, ClearRows, AllDropped

LEMMA BuildMoves ==
    ASSUME PageInv, NEW len \in LabelLens, BuildOne(len)
    PROVE  \E e \in ElementRec : /\ page' = Append(page, e) /\ e.id = seqNext
                                 /\ e.label = len /\ e.danger = FALSE
<1> DEFINE h == [slot |-> SlotTaken.slot, gen |-> hslotGen[SlotTaken.slot]]
           e == Element(h, seqNext, len)
<1>1. page' = Append(page, e) /\ Len(rows) < Capacity BY DEF BuildOne
<1>2. h \in Handle BY <1>1, SlotTakenFresh DEF PageInv, StoreInv, StoreType, Handle
<1>3. len \in Nat /\ seqNext \in Nat BY Sizes DEF Labels, PageInv, StoreInv, StoreType
<1> HIDE DEF h
<1>4. /\ e \in ElementRec /\ e.id = seqNext /\ e.label = len /\ e.danger = FALSE
    BY <1>2, <1>3 DEF Element, ElementRec
<1> QED BY <1>1, <1>4

LEMMA SelectMoves ==
    ASSUME PageInv, NEW key \in Keys(page), Select(key)
    PROVE  /\ DOMAIN page' = DOMAIN page
           /\ \A k \in DOMAIN page :
                /\ page'[k].id = page[k].id /\ page'[k].label = page[k].label
                /\ page'[k].danger <=> page[k].key = key
<1> DEFINE reds == {i \in DOMAIN page : page[i].danger}
           first == {i \in reds : \A j \in reds : i <= j}
           red(i) == (page[i].danger /\ i \notin first) \/ (key \in reg /\ page[i].key = key)
<1>1. page' = [i \in DOMAIN page |-> [page[i] EXCEPT !.danger = red(i)]]
    BY DEF Select, Marked
<1>2. key \in reg BY DEF PageInv, PageIsStore
<1>3. ASSUME NEW k \in DOMAIN page, page[k].danger PROVE k \in first
    <2>1. \A i \in DOMAIN page : page[i].danger => i = k BY <1>3, OneRed
    <2>2. k <= k BY <1>3, PageFacts
    <2> QED BY <2>1, <2>2, <1>3
<1> HIDE DEF reds, first
<1>4. ASSUME NEW k \in DOMAIN page
      PROVE  /\ page'[k].id = page[k].id /\ page'[k].label = page[k].label
             /\ page'[k].danger <=> page[k].key = key
    <2>1. page[k] \in ElementRec BY <1>4, PageFacts
    <2>2. red(k) <=> page[k].key = key BY <1>2, <1>3, <1>4
    <2>3. page'[k] = [page[k] EXCEPT !.danger = red(k)] /\ red(k) \in BOOLEAN BY <1>1, <1>4
    <2> HIDE DEF red
    <2> QED BY <2>1, <2>2, <2>3 DEF ElementRec
<1>5. DOMAIN page' = DOMAIN page BY <1>1
<1> QED BY <1>4, <1>5

\* remove takes the element of the row away, and leaves those around it.
LEMMA RemoveMoves ==
    ASSUME PageInv, NEW key, RemoveRow(key)
    PROVE  \E g \in 1..Len(page) : page' = RemoveAt(page, g)
<1> DEFINE h == HandleOf(RowOf(key))
           g == rows[RowOf(key)].pos + 1
           n == Len(rows)
<1>1. page' = Dropped(page, h) BY DEF RemoveRow
<1>2. /\ RowOf(key) \in 1..n /\ DOMAIN page = 1..n /\ Len(page) = n /\ Distinct(page)
    BY RemovedRows, PageFacts DEF PageInv
<1>3. g \in 1..n /\ page[g].key = h /\ h \in reg BY <1>2, PageFacts
<1> HIDE DEF h, g, n
<1>4. PlaceOf(page, h) = g BY <1>2, <1>3, PlaceOfKey
<1>5. h \in Keys(page) BY <1>2, <1>3 DEF Keys
<1> QED BY <1>1, <1>2, <1>3, <1>4, <1>5 DEF Dropped

\* Without a cut, update adds a mark to the labels at the striped positions.
LEMMA UpdateMoves ==
    ASSUME PageInv, MarksFit, Update
    PROVE  /\ DOMAIN page' = DOMAIN page
           /\ \A k \in DOMAIN page :
                /\ page'[k].id = page[k].id /\ page'[k].danger = page[k].danger
                /\ page'[k].label = IF (k - 1) % Stripe = 0 THEN page[k].label + MarkLen
                                                            ELSE page[k].label
<1> DEFINE n == Len(rows)
<1>1. DOMAIN page' = DOMAIN page BY DEF Update
<1>2. PageInv' BY UpdatePage
<1>3. ASSUME NEW k \in DOMAIN page
      PROVE  page'[k].id = page[k].id /\ page'[k].danger = page[k].danger
    <2>1. \E l : page'[k] = page[k] \/ page'[k] = [page[k] EXCEPT !.label = l]
        BY <1>3 DEF Update
    <2>2. page[k] \in ElementRec BY <1>3, PageFacts
    <2> QED BY <2>1, <2>2 DEF ElementRec
<1>4. ASSUME NEW k \in DOMAIN page
      PROVE  page'[k].label = IF (k - 1) % Stripe = 0 THEN page[k].label + MarkLen
                                                      ELSE page[k].label
    <2>1. PICK i \in DOMAIN rows : rows[i].pos + 1 = k BY <1>4, PageFacts
    <2>2. rows[i].pos \in Nat /\ rows[i].pos = k - 1 /\ rows[i] \in RowRec
        BY <2>1, StoreFacts DEF PageInv
    <2>3. page[k].label = rows[i].label BY <2>1, PageFacts
    <2>4. DOMAIN rows' = DOMAIN rows BY DEF Update
    <2>5. rows'[i] = IF rows[i].pos % Stripe = 0
                     THEN [rows[i] EXCEPT !.label = Cut(rows[i].label + MarkLen)] ELSE rows[i]
        BY <2>1 DEF Update
    <2>6. rows'[i].pos = rows[i].pos BY <2>2, <2>5 DEF RowRec
    <2>7. page'[k].label = rows'[i].label
        <3>1. page'[rows'[i].pos + 1].label = rows'[i].label
            BY <2>1, <2>4, <1>2 DEF PageInv, PageIsStore
        <3> QED BY <3>1, <2>1, <2>6
    <2>8. Cut(rows[i].label + MarkLen) = rows[i].label + MarkLen
        <3>1. PICK l \in LabelLens : rows[i].label + MarkLen <= l + MaxMarks * MarkLen
            BY <2>1 DEF Update
        <3>2. l + MaxMarks * MarkLen <= LabelCap BY DEF MarksFit
        <3>3. /\ l \in Nat /\ MaxMarks * MarkLen \in Nat /\ LabelCap \in Nat
              /\ rows[i].label \in Nat /\ MarkLen \in Nat
            BY <2>2, Sizes, SizesAssumption DEF RowRec, Labels, SizesAssumption
        <3> DEFINE m == MaxMarks * MarkLen
        <3>4. m \in Nat /\ rows[i].label + MarkLen <= l + m /\ l + m <= LabelCap
            BY <3>1, <3>2, <3>3
        <3> HIDE DEF m
        <3>5. rows[i].label + MarkLen <= LabelCap BY <3>3, <3>4
        <3> QED BY <3>3, <3>5 DEF Cut, Min2
    <2> QED BY <2>2, <2>3, <2>5, <2>7, <2>8 DEF RowRec
<1> QED BY <1>1, <1>3, <1>4

-----------------------------------------------------------------------------
(* The ids *)

\* A step whose elements keep their ids, in new places or none, keeps the ids apart.
LEMMA IdsFollow ==
    ASSUME PageInv, IdsGiven, seqNext' = seqNext, NEW at,
           \A k \in DOMAIN page' : at[k] \in DOMAIN page /\ page'[k].id = page[at[k]].id,
           \A k, l \in DOMAIN page' : at[k] = at[l] => k = l
    PROVE  IdsGiven'
    BY DEF IdsGiven

\* Where the elements of a sequence of n without its place g were.
Kept(n, g) == [k \in 1..(n - 1) |-> IF k < g THEN k ELSE k + 1]

LEMMA KeptPlaces ==
    ASSUME NEW n \in Nat, NEW g \in 1..n
    PROVE  /\ \A k \in 1..(n - 1) : Kept(n, g)[k] \in 1..n /\ Kept(n, g)[k] # g
           /\ \A k, l \in 1..(n - 1) : Kept(n, g)[k] = Kept(n, g)[l] => k = l
           /\ \A i \in 1..n : i # g => \E k \in 1..(n - 1) : Kept(n, g)[k] = i
<1>1. \A k \in 1..(n - 1) : Kept(n, g)[k] \in 1..n /\ Kept(n, g)[k] # g BY DEF Kept
<1>2. \A k, l \in 1..(n - 1) : Kept(n, g)[k] = Kept(n, g)[l] => k = l BY DEF Kept
<1>3. ASSUME NEW i \in 1..n, i # g PROVE \E k \in 1..(n - 1) : Kept(n, g)[k] = i
    <2>1. CASE i < g
        <3>1. i \in 1..(n - 1) /\ Kept(n, g)[i] = i BY <2>1 DEF Kept
        <3> QED BY <3>1
    <2>2. CASE ~(i < g)
        <3>1. i - 1 \in 1..(n - 1) /\ ~(i - 1 < g) /\ (i - 1) + 1 = i BY <2>2, <1>3
        <3>2. Kept(n, g)[i - 1] = i BY <3>1 DEF Kept
        <3> QED BY <3>1, <3>2
    <2> QED BY <2>1, <2>2
<1> QED BY <1>1, <1>2, <1>3

LEMMA RemovedPoints ==
    ASSUME NEW S, NEW p \in Seq(S), NEW g \in 1..Len(p)
    PROVE  /\ RemoveAt(p, g) \in Seq(S) /\ Len(RemoveAt(p, g)) = Len(p) - 1
           /\ DOMAIN RemoveAt(p, g) = 1..(Len(p) - 1)
           /\ \A k \in 1..(Len(p) - 1) : RemoveAt(p, g)[k] = p[Kept(Len(p), g)[k]]
<1> DEFINE n == Len(p)
           q == RemoveAt(p, g)
<1>1. q \in Seq(S) /\ Without(q, p, g) BY RemoveAtPoints
<1>2. Len(q) = n - 1 /\ \A k \in 1..(n - 1) : q[k] = IF k < g THEN p[k] ELSE p[k + 1]
    BY <1>1 DEF Without
<1>3. DOMAIN q = 1..(n - 1) BY <1>1, <1>2
<1> HIDE DEF n, q
<1>4. \A k \in 1..(n - 1) : q[k] = p[Kept(n, g)[k]] BY <1>2 DEF Kept
<1> QED BY <1>1, <1>2, <1>3, <1>4 DEF n, q

LEMMA NextIds == ASSUME PageInv, IdsGiven, [Next]_vars PROVE IdsGiven'
<1>1. DOMAIN page = 1..Len(page) /\ Len(page) \in Nat /\ page \in Seq(ElementRec)
    BY PageFacts DEF PageInv, PageType
<1>2. ASSUME ClearRows PROVE IdsGiven'
    <2>1. DOMAIN page' = {} BY <1>2, ClearMoves
    <2> QED BY <2>1 DEF IdsGiven
<1>3. ASSUME NEW len \in LabelLens, BuildOne(len) PROVE IdsGiven'
    <2>1. PICK e \in ElementRec : page' = Append(page, e) /\ e.id = seqNext
        BY <1>3, BuildMoves
    <2> DEFINE n == Len(page)
    <2>2. /\ DOMAIN page' = 1..(n + 1) /\ page'[n + 1] = e /\ \A k \in 1..n : page'[k] = page[k]
        BY <2>1, <1>1
    <2>3. seqNext' = seqNext + 1 /\ seqNext \in Nat \ {0}
        BY <1>3 DEF BuildOne, PageInv, StoreInv, StoreType
    <2>4. n \in Nat /\ \A k \in 1..(n + 1) : k \in 1..n \/ k = n + 1 BY <1>1
    <2>5. \A k \in 1..n : page[k].id \in 1..(seqNext - 1) BY <1>1 DEF IdsGiven
    <2>6. \A k, l \in 1..n : page[k].id = page[l].id => k = l BY <1>1 DEF IdsGiven
    <2> HIDE DEF n
    <2>7. \A k \in 1..n : page[k].id # seqNext /\ page[k].id \in 1..seqNext
        <3> TAKE k \in 1..n
        <3>1. page[k].id \in 1..(seqNext - 1) BY <2>5
        <3> QED BY <3>1, <2>3
    <2>8. seqNext \in 1..seqNext /\ seqNext' - 1 = seqNext BY <2>3
    <2>9. \A k \in DOMAIN page' : page'[k].id \in 1..(seqNext' - 1)
        BY <2>1, <2>2, <2>4, <2>7, <2>8
    <2>10. \A k, l \in DOMAIN page' : page'[k].id = page'[l].id => k = l
        BY <2>1, <2>2, <2>4, <2>6, <2>7
    <2> QED BY <2>9, <2>10 DEF IdsGiven
<1>4. ASSUME DOMAIN page' = DOMAIN page, seqNext' = seqNext,
             \A k \in DOMAIN page : page'[k].id = page[k].id
      PROVE  IdsGiven'
    BY <1>4 DEF IdsGiven
<1>5. ASSUME Update PROVE IdsGiven'
    <2>1. PageInv' /\ DOMAIN page' = DOMAIN page /\ seqNext' = seqNext
        BY <1>5, UpdatePage DEF Update
    <2>2. ASSUME NEW k \in DOMAIN page PROVE page'[k].id = page[k].id
        <3>1. \E l : page'[k] = page[k] \/ page'[k] = [page[k] EXCEPT !.label = l]
            BY <1>5, <2>2 DEF Update
        <3>2. page[k] \in ElementRec BY <2>2, PageFacts
        <3> QED BY <3>1, <3>2 DEF ElementRec
    <2> QED BY <2>1, <2>2, <1>4
<1>6. ASSUME NEW key \in Keys(page), Select(key) PROVE IdsGiven'
    <2>1. seqNext' = seqNext BY <1>6 DEF Select
    <2> QED BY <2>1, <1>4, <1>6, SelectMoves
<1>7. ASSUME Swap PROVE IdsGiven'
    <2> DEFINE n == Len(rows)
               a == SwapA + 1
               b == SwapB + 1
               at == [k \in 1..n |-> IF k = a THEN b ELSE IF k = b THEN a ELSE k]
    <2>1. /\ a \in 1..n /\ b \in 1..n /\ page' \in Seq(ElementRec) /\ Len(page') = n
          /\ page'[a] = page[b] /\ page'[b] = page[a]
          /\ \A k \in 1..n : k # a /\ k # b => page'[k] = page[k]
        BY <1>7, SwapMoves
    <2>2. seqNext' = seqNext BY <1>7 DEF Swap
    <2>3. DOMAIN page = 1..n BY PageFacts
    <2> HIDE DEF n, a, b
    <2>4. DOMAIN page' = 1..n BY <2>1
    <2>5. \A k \in 1..n : at[k] \in 1..n /\ page'[k] = page[at[k]] BY <2>1
    <2>6. \A k, l \in 1..n : at[k] = at[l] => k = l BY <2>1
    <2> HIDE DEF at
    <2> QED BY <2>2, <2>3, <2>4, <2>5, <2>6, IdsFollow
<1>8. ASSUME NEW key, RemoveRow(key) PROVE IdsGiven'
    <2>1. PICK g \in 1..Len(page) : page' = RemoveAt(page, g) BY <1>8, RemoveMoves
    <2>2. seqNext' = seqNext BY <1>8 DEF RemoveRow
    <2> DEFINE at == Kept(Len(page), g)
    <2>3. /\ DOMAIN page' = 1..(Len(page) - 1)
          /\ \A k \in 1..(Len(page) - 1) : page'[k] = page[at[k]]
        BY <2>1, <1>1, RemovedPoints
    <2>4. /\ \A k \in 1..(Len(page) - 1) : at[k] \in DOMAIN page
          /\ \A k, l \in 1..(Len(page) - 1) : at[k] = at[l] => k = l
        BY <1>1, KeptPlaces
    <2> HIDE DEF at
    <2> QED BY <2>2, <2>3, <2>4, IdsFollow
<1>9. ASSUME UNCHANGED <<page, seqNext>> PROVE IdsGiven' BY <1>9 DEF IdsGiven
<1>10. ASSUME Add \/ BuildFull \/ UNCHANGED vars PROVE IdsGiven'
    BY <1>9, <1>10 DEF Add, BuildFull, vars
<1> QED BY <1>2, <1>3, <1>5, <1>6, <1>7, <1>8, <1>10 DEF Next, Run, Clear

-----------------------------------------------------------------------------
(* Every click is a gesture of the table, or nothing *)

LEMMA ClearImplements ==
    ASSUME PageInv, ClearRows, seqNext' = seqNext PROVE Table!KTClear
<1>1. page' = <<>> BY ClearMoves
<1>2. Shown(page') = <<>> BY <1>1 DEF Shown
<1>3. Chosen(page') = 0 BY <1>1, ChosenNone
<1> QED BY <1>2, <1>3, Mapping DEF Table!KTClear

LEMMA BuildImplements ==
    ASSUME PageInv, NEW len \in LabelLens, BuildOne(len) PROVE Table!KTAppend(len)
<1> DEFINE n == Len(page)
<1>1. page \in Seq(ElementRec) /\ DOMAIN page = 1..n /\ n \in Nat /\ n < Capacity
    BY PageFacts DEF PageInv, PageType, BuildOne
<1>2. PICK e \in ElementRec : /\ page' = Append(page, e) /\ e.id = seqNext
                              /\ e.label = len /\ e.danger = FALSE
    BY BuildMoves
<1>3. /\ page' \in Seq(ElementRec) /\ Len(page') = n + 1 /\ page'[n + 1] = e
      /\ \A k \in 1..n : page'[k] = page[k]
    BY <1>1, <1>2
<1>4. seqNext' = seqNext + 1 /\ seqNext \in Nat BY DEF BuildOne, PageInv, StoreInv, StoreType
<1> DEFINE x == [id |-> seqNext, label |-> len]
<1>5. Shown(page') = Append(Shown(page), x)
    <2>1. /\ Shown(page) \in Seq(ShownRec) /\ Len(Shown(page)) = n
          /\ \A i \in 1..n : Shown(page)[i] = [id |-> page[i].id, label |-> page[i].label]
        BY <1>1, ShownFacts
    <2>2. /\ Shown(page') \in Seq(ShownRec) /\ Len(Shown(page')) = n + 1
          /\ \A i \in 1..(n + 1) :
               Shown(page')[i] = [id |-> page'[i].id, label |-> page'[i].label]
        BY <1>1, <1>3, ShownFacts
    <2>3. x \in ShownRec BY <1>4, Sizes DEF ShownRec, Labels
    <2> HIDE DEF x, n
    <2>4. /\ Append(Shown(page), x) \in Seq(ShownRec) /\ Len(Append(Shown(page), x)) = n + 1
          /\ Append(Shown(page), x)[n + 1] = x
          /\ \A i \in 1..n : Append(Shown(page), x)[i] = Shown(page)[i]
        BY <2>1, <2>3, AppendProperties
    <2>5. ASSUME NEW i \in 1..(n + 1) PROVE Shown(page')[i] = Append(Shown(page), x)[i]
        <3>1. CASE i = n + 1 BY <3>1, <2>2, <2>4, <1>1, <1>2, <1>3 DEF x
        <3>2. CASE i # n + 1
            <4>1. i \in 1..n BY <3>2, <1>1
            <4> QED BY <4>1, <2>1, <2>2, <2>4, <1>3
        <3> QED BY <3>1, <3>2
    <2> QED BY <2>2, <2>4, <2>5, SameSeq
<1>6. Chosen(page') = Chosen(page)
    <2>1. \A i \in DOMAIN page' : page'[i].danger => i \in DOMAIN page /\ page[i].danger
        <3>1. \A i \in 1..(n + 1) : i \in 1..n \/ i = n + 1 BY <1>1
        <3> QED BY <3>1, <1>1, <1>2, <1>3
    <2>2. \A i \in DOMAIN page : i \in DOMAIN page' /\ page'[i] = page[i] BY <1>1, <1>3
    <2>3. CASE \E k \in DOMAIN page : page[k].danger
        <3>1. PICK k \in DOMAIN page : page[k].danger BY <2>3
        <3>2. (\A i \in DOMAIN page : page[i].danger => i = k) /\ Chosen(page) = page[k].id
            BY <3>1, OneRed
        <3>3. k \in Nat /\ k \in DOMAIN page' /\ page'[k].danger BY <3>1, <2>2, <1>1
        <3>4. Chosen(page') = page'[k].id BY <3>2, <3>3, <2>1, ChosenOne
        <3> QED BY <3>2, <3>4, <2>2
    <2>4. CASE \A k \in DOMAIN page : ~page[k].danger BY <2>1, <2>4, ChosenNone
    <2> QED BY <2>3, <2>4
<1>7. /\ Len(Shown(page)) < Capacity
      /\ seqNext' - 1 = (seqNext - 1) + 1 /\ (seqNext - 1) + 1 = seqNext
    BY <1>1, <1>4, ShownFacts
<1> QED BY <1>5, <1>6, <1>7, Mapping DEF Table!KTAppend

LEMMA UpdateImplements == ASSUME PageInv, MarksFit, Update PROVE Table!KTMark
<1> DEFINE n == Len(page)
           old == Shown(page)
           new == Shown(page')
           marked == [i \in DOMAIN old |->
                        IF (i - 1) % Stripe = 0
                        THEN [old[i] EXCEPT !.label = @ + MarkLen] ELSE old[i]]
<1>1. /\ page \in Seq(ElementRec) /\ DOMAIN page = 1..n /\ n \in Nat
      /\ \A i \in 1..n : page[i] \in ElementRec
    BY PageFacts DEF PageInv, PageType
<1>2. page' \in Seq(ElementRec) /\ Len(page') = n /\ DOMAIN page' = 1..n
    <2>1. PageInv' /\ DOMAIN page' = 1..n BY <1>1, UpdatePage, UpdateMoves
    <2>2. page' \in Seq(ElementRec) BY <2>1 DEF PageInv, PageType
    <2> HIDE DEF n
    <2> QED BY <2>1, <2>2, <1>1, LenProperties
<1>3. \A k \in 1..n :
         /\ page'[k].id = page[k].id /\ page'[k].danger = page[k].danger
         /\ page'[k].label = IF (k - 1) % Stripe = 0 THEN page[k].label + MarkLen
                                                     ELSE page[k].label
    BY <1>1, UpdateMoves
<1>4. /\ DOMAIN old = 1..n /\ \A i \in 1..n : old[i] = [id |-> page[i].id, label |-> page[i].label]
    BY <1>1, ShownFacts
<1>5. /\ DOMAIN new = 1..n /\ \A i \in 1..n : new[i] = [id |-> page'[i].id, label |-> page'[i].label]
      /\ new \in Seq(ShownRec) /\ Len(new) = n
    BY <1>2, ShownFacts
<1> HIDE DEF n, old, new
<1>6. ASSUME NEW i \in 1..n PROVE new[i] = marked[i] /\ marked[i] \in ShownRec
    <2>1. page[i].id \in Nat /\ page[i].label \in Nat BY <1>1, <1>6 DEF ElementRec
    <2>2. page[i].label + MarkLen \in Nat BY <2>1, Sizes
    <2> DEFINE hit == (i - 1) % Stripe = 0
    <2>3. marked[i] = IF hit THEN [old[i] EXCEPT !.label = old[i].label + MarkLen] ELSE old[i]
        BY <1>4, <1>6
    <2>4. /\ page'[i].id = page[i].id
          /\ page'[i].label = IF hit THEN page[i].label + MarkLen ELSE page[i].label
        BY <1>3, <1>6
    <2> HIDE DEF hit, marked
    <2>5. marked[i] = [id |-> page[i].id,
                       label |-> IF hit THEN page[i].label + MarkLen ELSE page[i].label]
        BY <2>3, <1>4, <1>6
    <2>6. marked[i] \in ShownRec BY <2>1, <2>2, <2>5 DEF ShownRec
    <2>7. new[i] = marked[i] BY <2>4, <2>5, <1>5, <1>6
    <2> QED BY <2>6, <2>7
<1>7. DOMAIN marked = 1..n /\ marked = [i \in 1..n |-> marked[i]] BY <1>4
<1> HIDE DEF marked
<1>8. marked \in Seq(ShownRec) /\ Len(marked) = n
    <2>1. marked \in [1..n -> ShownRec] BY <1>6, <1>7
    <2> QED BY <2>1, <1>1
<1>9. new = marked BY <1>5, <1>6, <1>8, SameSeq
<1>10. Chosen(page') = Chosen(page)
    <2>1. CASE \E k \in 1..n : page[k].danger
        <3>1. PICK k \in 1..n : page[k].danger BY <2>1
        <3>2. (\A i \in 1..n : page[i].danger => i = k) /\ Chosen(page) = page[k].id
            BY <3>1, <1>1, OneRed DEF n
        <3>3. k \in Nat /\ page'[k].danger /\ \A i \in DOMAIN page' : page'[i].danger => i = k
            BY <3>1, <3>2, <1>1, <1>2, <1>3
        <3>4. Chosen(page') = page'[k].id BY <3>1, <3>3, <1>2, ChosenOne
        <3> QED BY <3>1, <3>2, <3>4, <1>3
    <2>2. CASE \A k \in 1..n : ~page[k].danger
        <3>1. Chosen(page) = 0 BY <2>2, <1>1, ChosenNone DEF n
        <3>2. Chosen(page') = 0 BY <2>2, <1>2, <1>3, ChosenNone
        <3> QED BY <3>1, <3>2
    <2> QED BY <2>1, <2>2
<1>11. seqNext' = seqNext BY DEF Update
<1> QED BY <1>9, <1>10, <1>11, Mapping DEF Table!KTMark, marked, old, new

LEMMA SwapImplements == ASSUME PageInv, Swap PROVE Table!KTSwap
<1> DEFINE n == Len(page)
           a == SwapA + 1
           b == SwapB + 1
           old == Shown(page)
           new == Shown(page')
           swapped == [old EXCEPT ![a] = old[b], ![b] = old[a]]
<1>1. page \in Seq(ElementRec) /\ DOMAIN page = 1..n /\ n \in Nat
    BY PageFacts DEF PageInv, PageType
<1>2. /\ a \in 1..n /\ b \in 1..n /\ a < b /\ page' \in Seq(ElementRec) /\ Len(page') = n
      /\ page'[a] = page[b] /\ page'[b] = page[a]
      /\ \A k \in 1..n : k # a /\ k # b => page'[k] = page[k]
    BY SwapMoves, PageFacts
<1>3. /\ DOMAIN old = 1..n /\ \A i \in 1..n : old[i] = [id |-> page[i].id, label |-> page[i].label]
      /\ old \in Seq(ShownRec) /\ Len(old) = n
    BY <1>1, ShownFacts
<1>4. /\ DOMAIN new = 1..n /\ \A i \in 1..n : new[i] = [id |-> page'[i].id, label |-> page'[i].label]
      /\ new \in Seq(ShownRec) /\ Len(new) = n
    BY <1>1, <1>2, ShownFacts
<1>5. SwapB < n
    BY <1>1, <1>2, Sizes
<1> HIDE DEF n, a, b, old, new
<1>6. swapped \in Seq(ShownRec) /\ Len(swapped) = n
    <2>1. old \in [1..n -> ShownRec] BY <1>3
    <2>2. swapped \in [1..n -> ShownRec] BY <2>1, <1>2
    <2> HIDE DEF swapped
    <2> QED BY <2>2, <1>1
<1>7. \A i \in 1..n : new[i] = swapped[i]
    <2> TAKE i \in 1..n
    <2>1. CASE i = a BY <2>1, <1>1, <1>2, <1>3, <1>4
    <2>2. CASE i = b BY <2>2, <1>1, <1>2, <1>3, <1>4
    <2>3. CASE i # a /\ i # b BY <2>3, <1>2, <1>3, <1>4
    <2> QED BY <2>1, <2>2, <2>3
<1>8. new = swapped BY <1>4, <1>6, <1>7, SameSeq
<1>9. Chosen(page') = Chosen(page)
    <2> DEFINE at == [k \in 1..n |-> IF k = a THEN b ELSE IF k = b THEN a ELSE k]
    <2>1. \A k \in 1..n : at[k] \in 1..n /\ page'[k] = page[at[k]] /\ at[at[k]] = k BY <1>2
    <2>2. DOMAIN page' = 1..n BY <1>2
    <2> HIDE DEF at
    <2>3. CASE \E k \in 1..n : page[k].danger
        <3>1. PICK k \in 1..n : page[k].danger BY <2>3
        <3>2. (\A i \in 1..n : page[i].danger => i = k) /\ Chosen(page) = page[k].id
            BY <3>1, <1>1, OneRed
        <3>3. /\ at[k] \in Nat /\ at[k] \in DOMAIN page' /\ page'[at[k]] = page[k]
            BY <3>1, <2>1, <2>2, <1>1
        <3>4. \A i \in DOMAIN page' : page'[i].danger => i = at[k]
            BY <3>2, <2>1, <2>2
        <3>5. Chosen(page') = page'[at[k]].id BY <3>1, <3>3, <3>4, ChosenOne
        <3> QED BY <3>2, <3>3, <3>5
    <2>4. CASE \A k \in 1..n : ~page[k].danger
        <3>1. Chosen(page) = 0 BY <2>4, <1>1, ChosenNone
        <3>2. \A k \in DOMAIN page' : ~page'[k].danger BY <2>1, <2>2, <2>4
        <3>3. Chosen(page') = 0 BY <3>2, ChosenNone
        <3> QED BY <3>1, <3>3
    <2> QED BY <2>3, <2>4
<1>10. seqNext' = seqNext BY DEF Swap
<1> QED BY <1>3, <1>5, <1>8, <1>9, <1>10, Mapping DEF Table!KTSwap, old, new, a, b

LEMMA RemoveImplements ==
    ASSUME PageInv, IdsGiven, NEW key, RemoveRow(key)
    PROVE  \E g \in 1..Len(page) : Table!KTRemove(g)
<1> DEFINE n == Len(page)
           old == Shown(page)
           new == Shown(page')
<1>1. page \in Seq(ElementRec) /\ DOMAIN page = 1..n /\ n \in Nat
    BY PageFacts DEF PageInv, PageType
<1>2. PICK g \in 1..n : page' = RemoveAt(page, g) BY RemoveMoves
<1> DEFINE at == Kept(n, g)
<1>3. /\ \A k \in 1..(n - 1) : at[k] \in 1..n /\ at[k] # g
      /\ \A k, l \in 1..(n - 1) : at[k] = at[l] => k = l
      /\ \A i \in 1..n : i # g => \E k \in 1..(n - 1) : at[k] = i
    BY <1>1, KeptPlaces
<1>4. /\ page' \in Seq(ElementRec) /\ Len(page') = n - 1 /\ DOMAIN page' = 1..(n - 1)
      /\ \A k \in 1..(n - 1) : page'[k] = page[at[k]]
    BY <1>1, <1>2, RemovedPoints
<1>5. /\ DOMAIN old = 1..n /\ \A i \in 1..n : old[i] = [id |-> page[i].id, label |-> page[i].label]
      /\ old \in Seq(ShownRec) /\ Len(old) = n
    BY <1>1, ShownFacts
<1>6. /\ \A i \in 1..(n - 1) : new[i] = [id |-> page'[i].id, label |-> page'[i].label]
      /\ new \in Seq(ShownRec) /\ Len(new) = n - 1
    BY <1>4, ShownFacts
<1>7. /\ RemoveAt(old, g) \in Seq(ShownRec) /\ Len(RemoveAt(old, g)) = n - 1
      /\ \A k \in 1..(n - 1) : RemoveAt(old, g)[k] = old[at[k]]
    <2>1. g \in 1..Len(old) /\ Len(old) = n /\ old \in Seq(ShownRec) BY <1>2, <1>5
    <2> HIDE DEF old, n
    <2>2. /\ RemoveAt(old, g) \in Seq(ShownRec) /\ Len(RemoveAt(old, g)) = Len(old) - 1
          /\ \A k \in 1..(Len(old) - 1) : RemoveAt(old, g)[k] = old[Kept(Len(old), g)[k]]
        BY <2>1, RemovedPoints
    <2> QED BY <2>1, <2>2
<1> HIDE DEF old, new, at, n
<1>8. \A k \in 1..(n - 1) : new[k] = RemoveAt(old, g)[k]
    <2> TAKE k \in 1..(n - 1)
    <2>1. new[k] = [id |-> page'[k].id, label |-> page'[k].label] BY <1>6
    <2>2. page'[k] = page[at[k]] /\ at[k] \in 1..n BY <1>3, <1>4
    <2>3. old[at[k]] = [id |-> page[at[k]].id, label |-> page[at[k]].label] BY <2>2, <1>5
    <2>4. RemoveAt(old, g)[k] = old[at[k]] BY <1>7
    <2> QED BY <2>1, <2>2, <2>3, <2>4
<1>9. new = RemoveAt(old, g) BY <1>6, <1>7, <1>8, SameSeq
<1>10. Chosen(page') = IF Chosen(page) = old[g].id THEN 0 ELSE Chosen(page)
    <2>1. old[g].id = page[g].id BY <1>5
    <2>2. \A i, j \in 1..n : page[i].id = page[j].id => i = j BY <1>1 DEF IdsGiven
    <2>3. page[g].id # 0
        <3>1. page[g].id \in 1..(seqNext - 1) BY <1>1 DEF IdsGiven
        <3> QED BY <3>1
    <2>4. CASE \A k \in 1..n : ~page[k].danger
        <3>1. Chosen(page) = 0 BY <2>4, <1>1, ChosenNone
        <3>2. Chosen(page') = 0 BY <2>4, <1>3, <1>4, ChosenNone
        <3> QED BY <3>1, <3>2, <2>1, <2>3
    <2>5. CASE \E k \in 1..n : page[k].danger
        <3>1. PICK k \in 1..n : page[k].danger BY <2>5
        <3>2. (\A i \in 1..n : page[i].danger => i = k) /\ Chosen(page) = page[k].id
            BY <3>1, <1>1, OneRed
        <3>3. CASE k = g
            <4>1. \A i \in DOMAIN page' : ~page'[i].danger BY <3>2, <3>3, <1>3, <1>4
            <4>2. Chosen(page') = 0 BY <4>1, ChosenNone
            <4> QED BY <4>2, <3>2, <3>3, <2>1
        <3>4. CASE k # g
            <4>1. PICK i \in 1..(n - 1) : at[i] = k BY <3>4, <1>3
            <4>2. i \in Nat /\ i \in DOMAIN page' /\ page'[i] = page[k] BY <4>1, <1>1, <1>4
            <4>3. \A j \in DOMAIN page' : page'[j].danger => j = i
                <5> TAKE j \in DOMAIN page'
                <5> HAVE page'[j].danger
                <5>1. j \in 1..(n - 1) /\ at[j] \in 1..n /\ page'[j] = page[at[j]] BY <1>3, <1>4
                <5>2. at[j] = k BY <5>1, <3>2
                <5> QED BY <5>1, <5>2, <4>1, <1>3
            <4>4. Chosen(page') = page[k].id BY <4>2, <4>3, <3>1, ChosenOne
            <4>5. page[k].id # page[g].id BY <3>4, <2>2
            <4> QED BY <4>4, <4>5, <3>2, <2>1
        <3> QED BY <3>3, <3>4
    <2> QED BY <2>4, <2>5
<1>11. seqNext' = seqNext BY DEF RemoveRow
<1>12. Table!KTRemove(g) BY <1>9, <1>10, <1>11, Mapping
    DEF Table!KTRemove, Table!RemoveAt, RemoveAt, old, new
<1> QED BY <1>2, <1>12 DEF n

LEMMA SelectImplements ==
    ASSUME PageInv, NEW key \in Keys(page), Select(key)
    PROVE  \E i \in 1..Len(page) : Table!KTSelect(i)
<1> DEFINE n == Len(page)
<1>1. /\ page \in Seq(ElementRec) /\ DOMAIN page = 1..n /\ n \in Nat /\ Distinct(page)
    BY PageFacts DEF PageInv, PageType
<1>2. PICK k \in 1..n : page[k].key = key BY <1>1 DEF Keys
<1>3. /\ DOMAIN page' = 1..n
      /\ \A i \in 1..n : /\ page'[i].id = page[i].id /\ page'[i].label = page[i].label
                         /\ page'[i].danger <=> page[i].key = key
    BY <1>1, SelectMoves
<1>4. page' \in Seq(ElementRec)
    <2>1. PageInv' BY SelectPage
    <2> QED BY <2>1 DEF PageInv, PageType
<1>5. Shown(page') = Shown(page) BY <1>1, <1>3 DEF Shown
<1>6. Chosen(page') = page[k].id
    <2>1. \A i \in DOMAIN page' : page'[i].danger => i = k
        BY <1>1, <1>2, <1>3 DEF Distinct
    <2>2. k \in Nat /\ k \in DOMAIN page' /\ page'[k].danger /\ page'[k].id = page[k].id
        BY <1>1, <1>2, <1>3
    <2> QED BY <2>1, <2>2, ChosenOne
<1>7. Shown(page)[k].id = page[k].id
    <2>1. Shown(page)[k] = [id |-> page[k].id, label |-> page[k].label] BY <1>1, ShownFacts
    <2> QED BY <2>1
<1>8. seqNext' = seqNext BY DEF Select
<1>9. Table!KTSelect(k) BY <1>5, <1>6, <1>7, <1>8, Mapping DEF Table!KTSelect
<1> QED BY <1>9

-----------------------------------------------------------------------------
(* The refinement *)

LEMMA InitImplements == Init => Table!KTInit
<1> SUFFICES ASSUME Init PROVE Table!KTInit OBVIOUS
<1>1. page = <<>> /\ seqNext = 1 BY DEF Init
<1>2. Shown(page) = <<>> /\ Chosen(page) = 0 BY <1>1, ChosenNone DEF Shown
<1> QED BY <1>1, <1>2, Mapping DEF Table!KTInit

LEMMA NextImplements ==
    ASSUME PageInv, IdsGiven, MarksFit, [Next]_vars PROVE [Table!KTNext]_(Table!KTvars)
<1>1. ASSUME NEW n, Run(n) PROVE Table!KTNext
    BY <1>1, ClearImplements DEF Run, Table!KTNext
<1>2. ASSUME Clear PROVE Table!KTNext BY <1>2, ClearImplements DEF Clear, Table!KTNext
<1>3. ASSUME UNCHANGED <<page, seqNext>> PROVE UNCHANGED Table!KTvars
    <2>1. Shown(page') = Shown(page) /\ Chosen(page') = Chosen(page) BY <1>3
    <2> QED BY <2>1, <1>3, Mapping DEF Table!KTvars
<1>4. ASSUME Add \/ BuildFull \/ UNCHANGED vars PROVE UNCHANGED Table!KTvars
    BY <1>3, <1>4 DEF Add, BuildFull, vars
<1>5. ASSUME Update PROVE Table!KTNext BY <1>5, UpdateImplements DEF Table!KTNext
<1>6. ASSUME Swap PROVE Table!KTNext BY <1>6, SwapImplements DEF Table!KTNext
<1>7. ASSUME NEW len \in LabelLens, BuildOne(len) PROVE Table!KTNext
    BY <1>7, BuildImplements DEF Table!KTNext
<1>8. DOMAIN [i \in DOMAIN page |-> [id |-> page[i].id, label |-> page[i].label]] = 1..Len(page)
    BY PageFacts
<1>9. ASSUME NEW key \in Keys(page), RemoveRow(key) PROVE Table!KTNext
    <2>1. PICK g \in 1..Len(page) : Table!KTRemove(g) BY <1>9, RemoveImplements
    <2> QED BY <2>1, <1>8 DEF Table!KTNext
<1>10. ASSUME NEW key \in Keys(page), Select(key) PROVE Table!KTNext
    <2>1. PICK g \in 1..Len(page) : Table!KTSelect(g) BY <1>10, SelectImplements
    <2> QED BY <2>1, <1>8 DEF Table!KTNext
<1> QED BY <1>1, <1>2, <1>4, <1>5, <1>6, <1>7, <1>9, <1>10 DEF Next

\* Whatever the sizes, as long as the marks a label gets fit its column: what the
\* page shows is the benchmark's table.  Six gestures change it, each as the
\* benchmark describes it, and no store, handle or registry shows through.
THEOREM PageIsTheTable ==
    ASSUME \A l \in LabelLens : l + MaxMarks * MarkLen <= LabelCap
    PROVE  Spec => ImplementsTable
<1>1. MarksFit BY DEF MarksFit
<1>2. Init => IdsGiven BY DEF Init, IdsGiven
<1>3. PageInv /\ IdsGiven /\ [Next]_vars => IdsGiven' BY NextIds
<1>4. Init => Table!KTInit BY InitImplements
<1>5. PageInv /\ IdsGiven /\ [Next]_vars => [Table!KTNext]_(Table!KTvars)
    BY <1>1, NextImplements
<1> QED BY <1>2, <1>3, <1>4, <1>5, PageHolds, PTL DEF Spec, ImplementsTable, Table!KTSpec
=============================================================================
