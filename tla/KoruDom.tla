------------------------------ MODULE KoruDom ------------------------------
(***************************************************************************)
(* The keyed table of src/dom/app: main.k, compiled to                     *)
(* output_emitted.js.  A row lives in the store `rows` (dense arrays with  *)
(* swap-remove, addressed from outside by a handle: a slot and the         *)
(* generation of the slot) and as an element in the page, and the two are  *)
(* tied by a registry from handle to element.  The order of the table is   *)
(* the column `pos`; nothing sorts it, every click repairs it.             *)
(*                                                                         *)
(* A click is one handler and nothing runs between its steps.  The loop of *)
(* build() is unrolled: the click leaves in `todo` the rows still to be    *)
(* made, and no other click comes before they are.                         *)
(*                                                                         *)
(* Rows and positions in the page are numbered from 1; pos counts from 0   *)
(* as in the code, and 0 stands for the null and the -1 of the code's row  *)
(* indices.  A label is its length: what the properties need of a text is  *)
(* whether it was cut.                                                     *)
(***************************************************************************)
EXTENDS Integers, Sequences, SequencesExt, FiniteSets

CONSTANTS Capacity,    \* rows of the store (16384)
          RunRows, LotsRows, AddRows,  \* rows a click makes (1000, 10000, 1000)
          SwapA, SwapB,  \* the positions that change places (1, 998)
          Stripe,      \* every Stripe-th position is marked (10)
          LabelLens,   \* lengths of the labels make_label may return
          LabelCap,    \* characters the label column holds (48)
          MarkLen,     \* characters of a mark, " !!!" (4)
          GenMod,      \* generations of a slot (2^21)
          MaxId,       \* bound: the last id given in a behaviour
          MaxMarks     \* bound: the marks a row gets in a behaviour

ASSUME SizesAssumption ==
    /\ {Capacity, RunRows, LotsRows, AddRows, Stripe, GenMod, MarkLen, LabelCap}
         \subseteq Nat \ {0}
    /\ {SwapA, SwapB, MaxId, MaxMarks} \subseteq Nat
    /\ SwapA < SwapB
    /\ LabelLens \subseteq 0..LabelCap
    /\ GenMod > 1

VARIABLES rows,       \* the dense rows: [id, pos, label, slot]
          hslotRow,   \* slot -> the row it addresses
          hslotGen,   \* slot -> its generation
          hslotFree,  \* the stack of given-back slots
          hslotNext,  \* the slots ever given since the last clear
          seqNext,    \* seq.next: the next id
          cnt,        \* cnt.n: the rows, as the handlers count them
          op,         \* op.ida, op.idb: the handles the swap sweep stashed
          sel,        \* sel.cur: the handle last selected
          reg,        \* the handles the registry holds an element for
          page,       \* the children of tbody: [key, id, label, danger]
          todo        \* rows the running build still has to make

store == <<rows, hslotRow, hslotGen, hslotFree, hslotNext>>
vars == <<store, seqNext, cnt, op, sel, reg, page, todo>>

Slots == 0..(Capacity - 1)
Gens == 0..(GenMod - 1)
Handle == [slot : Slots, gen : Gens]
NoHandle == [slot |-> Capacity, gen |-> 0]
Labels == 0..LabelCap
RowRec == [id : Nat, pos : Slots, label : Labels, slot : Slots]

-----------------------------------------------------------------------------
(* Handles *)

\* __koru_row_of: the row a handle addresses, 0 when it addresses none.
RowOf(h) ==
    IF /\ h # NoHandle
       /\ h.slot < hslotNext
       /\ h.gen = hslotGen[h.slot]
       /\ hslotRow[h.slot] \in DOMAIN rows
    THEN hslotRow[h.slot] ELSE 0

HandleOf(i) == [slot |-> rows[i].slot, gen |-> hslotGen[rows[i].slot]]

\* Mutant: the free list is a queue and the slot stays in it.
SlotKeptFree ==
    IF hslotFree # <<>>
    THEN [slot |-> Head(hslotFree), free |-> hslotFree, next |-> hslotNext]
    ELSE [slot |-> hslotNext, free |-> hslotFree, next |-> hslotNext + 1]

\* The slot an insert takes: the last one given back, else a new one.
SlotTaken ==
    IF hslotFree # <<>>
    THEN [slot |-> Last(hslotFree), free |-> Front(hslotFree), next |-> hslotNext]
    ELSE [slot |-> hslotNext, free |-> hslotFree, next |-> hslotNext + 1]

Min2(a, b) == IF a < b THEN a ELSE b

\* Mutant: a label column of 40 characters, as the comment in main.k remembers.
Cut40(len) == Min2(len, 40)

\* slice(0, 48)
Cut(len) == Min2(len, LabelCap)

-----------------------------------------------------------------------------
(* The page *)

Element(h, id, len) == [key |-> h, id |-> id, label |-> len, danger |-> FALSE]

Keys(p) == {p[i].key : i \in DOMAIN p}

PlaceOf(p, h) == CHOOSE i \in DOMAIN p : p[i].key = h

\* drop: the element the registry holds for a handle leaves both.
Dropped(p, h) ==
    IF h \in reg /\ h \in Keys(p) THEN RemoveAt(p, PlaceOf(p, h)) ELSE p

\* drop-all: every element the registry holds leaves the page.
AllDropped(p) ==
    IF Keys(p) \subseteq reg THEN <<>> ELSE SelectSeq(p, LAMBDA e : e.key \notin reg)

\* parent.insertBefore(x, ref), the elements named by their keys: x leaves its
\* place and comes before ref, or last when there is no ref.
InsertBefore(p, x, ref) ==
    LET rest == RemoveAt(p, PlaceOf(p, x))
        elem == p[PlaceOf(p, x)]
    IN  IF ref \in Keys(rest) THEN InsertAt(rest, PlaceOf(rest, ref), elem)
                              ELSE Append(rest, elem)

NextSibling(p, x) ==
    LET i == PlaceOf(p, x) IN IF i < Len(p) THEN p[i + 1].key ELSE NoHandle

\* Mutant: the element after b is read once b has moved.
SwapElementsLate(p, a, b) ==
    LET moved == InsertBefore(p, b, a)
    IN  InsertBefore(moved, a, NextSibling(moved, b))

\* swap-rows: what stood after b is read before b moves.
SwapElements(p, a, b) ==
    LET afterB == NextSibling(p, b)
    IN  InsertBefore(InsertBefore(p, b, a), a, IF afterB = a THEN b ELSE afterB)

\* select-row: the first tr.danger loses its class, the row of the handle
\* gains it.
Marked(p, h) ==
    LET reds == {i \in DOMAIN p : p[i].danger}
        first == {i \in reds : \A j \in reds : i <= j}
    IN  [i \in DOMAIN p |->
           [p[i] EXCEPT !.danger = \/ @ /\ i \notin first
                                   \/ h \in reg /\ p[i].key = h]]

-----------------------------------------------------------------------------
(* The clicks *)

Init ==
    /\ rows = <<>>
    /\ hslotRow = [s \in Slots |-> 1] /\ hslotGen = [s \in Slots |-> 0]
    /\ hslotFree = <<>> /\ hslotNext = 0
    /\ seqNext = 1 /\ cnt = 0
    /\ op = [ida |-> NoHandle, idb |-> NoHandle] /\ sel = NoHandle
    /\ reg = {} /\ page = <<>>
    /\ todo = 0

\* Mutant: a clear that leaves the generations alone.
ClearRowsSameGen ==
    /\ rows' = <<>> /\ hslotFree' = <<>> /\ hslotNext' = 0
    /\ page' = AllDropped(page)
    /\ reg' = {} /\ cnt' = 0
    /\ UNCHANGED <<hslotRow, hslotGen>>

\* clear: every slot given since the last clear gets a new generation, the
\* store is empty, and the cleared hook drops every registered element.
ClearRows ==
    /\ hslotGen' = [s \in Slots |-> IF s < hslotNext THEN (hslotGen[s] + 1) % GenMod
                                                     ELSE hslotGen[s]]
    /\ rows' = <<>> /\ hslotFree' = <<>> /\ hslotNext' = 0
    /\ page' = AllDropped(page)
    /\ reg' = {} /\ cnt' = 0
    /\ UNCHANGED hslotRow

Clear == todo = 0 /\ ClearRows /\ UNCHANGED <<seqNext, op, sel, todo>>

\* run and runlots: a clear, then a build.
Run(n) ==
    /\ todo = 0 /\ seqNext + Min2(n, Capacity) <= MaxId + 1
    /\ ClearRows
    /\ todo' = n
    /\ UNCHANGED <<seqNext, op, sel>>

\* add: a build alone.
Add ==
    /\ todo = 0 /\ seqNext + Min2(AddRows, Capacity - cnt) <= MaxId + 1
    /\ todo' = AddRows
    /\ UNCHANGED <<store, seqNext, cnt, op, sel, reg, page>>

\* One turn of build's loop, | row: the store takes the row at the end, the
\* inserted hook paints it with the label as it was given, and the arm counts.
BuildOne(len) ==
    LET t == SlotTaken
        h == [slot |-> t.slot, gen |-> hslotGen[t.slot]]
    IN  /\ todo > 0 /\ Len(rows) < Capacity
        /\ rows' = Append(rows, [id |-> seqNext, pos |-> cnt,
                                 label |-> Cut(len), slot |-> t.slot])
        /\ hslotRow' = [hslotRow EXCEPT ![t.slot] = Len(rows) + 1]
        /\ hslotFree' = t.free /\ hslotNext' = t.next
        /\ page' = Append(page, Element(h, seqNext, len))
        /\ reg' = reg \cup {h}
        /\ seqNext' = seqNext + 1 /\ cnt' = cnt + 1
        /\ todo' = todo - 1
        /\ UNCHANGED <<hslotGen, op, sel>>

\* The same turn, | full: the label is made, nothing else happens.
BuildFull ==
    /\ todo > 0 /\ Len(rows) >= Capacity
    /\ todo' = todo - 1
    /\ UNCHANGED <<store, seqNext, cnt, op, sel, reg, page>>

\* update: the sweep marks the rows at every Stripe-th position and repaints
\* them from the store.
Update ==
    LET hit(i) == rows[i].pos % Stripe = 0
    IN  /\ todo = 0
        /\ \A i \in DOMAIN rows :
             \E l \in LabelLens : rows[i].label + MarkLen <= l + MaxMarks * MarkLen
        /\ rows' = [i \in DOMAIN rows |->
                      IF hit(i) THEN [rows[i] EXCEPT !.label = Cut(@ + MarkLen)]
                                ELSE rows[i]]
        /\ page' = [k \in DOMAIN page |->
                      LET mine == {i \in DOMAIN rows : hit(i) /\ HandleOf(i) = page[k].key}
                      IN  IF mine # {} /\ page[k].key \in reg
                          THEN [page[k] EXCEPT !.label = rows'[CHOOSE i \in mine : TRUE].label]
                          ELSE page[k]]
        /\ UNCHANGED <<hslotRow, hslotGen, hslotFree, hslotNext, seqNext, cnt, op, sel, reg, todo>>

\* The swap's sweep: the rows at SwapA and SwapB exchange their pos, and their
\* handles are stashed; the handles of an earlier swap stay when no row is there.
SwapPos(p) == IF p = SwapA THEN SwapB ELSE IF p = SwapB THEN SwapA ELSE p

Stashed(p, old) ==
    IF \E i \in DOMAIN rows : rows[i].pos = p
    THEN HandleOf(CHOOSE i \in DOMAIN rows : rows[i].pos = p) ELSE old

\* swap.  With a handle that no longer has an element the handler would throw
\* after the positions were exchanged, and the page would stay.
Swap ==
    /\ todo = 0 /\ cnt > SwapB
    /\ rows' = [i \in DOMAIN rows |-> [rows[i] EXCEPT !.pos = SwapPos(@)]]
    /\ op' = [ida |-> Stashed(SwapA, op.ida), idb |-> Stashed(SwapB, op.idb)]
    /\ page' = IF {op'.ida, op'.idb} \subseteq reg
               THEN SwapElements(page, op'.ida, op'.idb) ELSE page
    /\ UNCHANGED <<hslotRow, hslotGen, hslotFree, hslotNext, seqNext, cnt, sel, reg, todo>>

\* Mutant: the rows behind shift down one by one.
TakenShift(r) == RemoveAt(rows, r)

\* take: row r leaves and the last row moves into its place.
Taken(r) == [i \in 1..(Len(rows) - 1) |-> IF i = r THEN rows[Len(rows)] ELSE rows[i]]

\* Mutant: the row just after the gap is left out of the sweep.
ClosedLate(s, gap) ==
    [i \in DOMAIN s |-> [s[i] EXCEPT !.pos = IF @ > gap + 1 THEN @ - 1 ELSE @]]

\* The compacting sweep: the rows after the gap close it.
Closed(s, gap) ==
    [i \in DOMAIN s |-> [s[i] EXCEPT !.pos = IF @ > gap THEN @ - 1 ELSE @]]

\* remove: the position is read through the handle, which throws before
\* anything changes when it is stale; the removed hook drops the element; the
\* last row moves into the hole and its slot is told; the slot that went gets
\* a new generation and is free; the sweep closes the gap.
RemoveRow(key) ==
    LET r == RowOf(key)
        slot == rows[r].slot
    IN  /\ todo = 0 /\ r # 0
        /\ page' = Dropped(page, HandleOf(r))
        /\ reg' = reg \ {HandleOf(r)} /\ cnt' = cnt - 1
        /\ rows' = Closed(Taken(r), rows[r].pos)
        /\ hslotRow' = [hslotRow EXCEPT ![rows[Len(rows)].slot] = r, ![slot] = 0]
        /\ hslotGen' = [hslotGen EXCEPT ![slot] = (@ + 1) % GenMod]
        /\ hslotFree' = Append(hslotFree, slot)
        /\ UNCHANGED <<hslotNext, seqNext, op, sel, todo>>

\* select: the handle is kept and the watch on sel repaints the choice.
Select(key) ==
    /\ todo = 0
    /\ sel' = key
    /\ page' = Marked(page, key)
    /\ UNCHANGED <<store, seqNext, cnt, op, reg, todo>>

\* A click on a row's link carries the key of the element it hit.
Next ==
    \/ Run(RunRows) \/ Run(LotsRows) \/ Add \/ Clear \/ Update \/ Swap
    \/ BuildFull \/ \E len \in LabelLens : BuildOne(len)
    \/ \E e \in Keys(page) : RemoveRow(e) \/ Select(e)

Spec == Init /\ [][Next]_vars
-----------------------------------------------------------------------------
(* What must hold *)

\* The type of every variable.
TypeOK ==
    /\ rows \in Seq(RowRec) /\ Len(rows) <= Capacity
    /\ hslotRow \in [Slots -> 0..Capacity] /\ hslotGen \in [Slots -> Gens]
    /\ hslotFree \in Seq(Slots) /\ hslotNext \in 0..Capacity
    /\ seqNext \in Nat \ {0} /\ cnt \in Nat /\ todo \in Nat
    /\ op \in [ida : Handle \cup {NoHandle}, idb : Handle \cup {NoHandle}]
    /\ sel \in Handle \cup {NoHandle}
    /\ reg \subseteq Handle
    /\ page \in Seq([key : Handle, id : Nat, label : Nat, danger : BOOLEAN])

\* The column pos is always an order of the table: the rows' positions are
\* 0 to one less than the count the handlers keep, each once, although rows
\* move in the dense arrays and no click ever sorts or numbers them again.
PosIsPermutation ==
    /\ cnt = Len(rows)
    /\ \A i \in DOMAIN rows : rows[i].pos < Len(rows)
    /\ \A i, j \in DOMAIN rows : rows[i].pos = rows[j].pos => i = j
    /\ \A p \in 0..(Len(rows) - 1) : \E i \in DOMAIN rows : rows[i].pos = p

\* The handle table: every row is what its slot addresses, a free slot is
\* no row's and is listed once, and no slot is lost between the two.
HandlesSound ==
    /\ \A i \in DOMAIN rows : rows[i].slot < hslotNext /\ hslotRow[rows[i].slot] = i
    /\ \A k \in DOMAIN hslotFree :
         /\ hslotFree[k] < hslotNext
         /\ \A i \in DOMAIN rows : rows[i].slot # hslotFree[k]
         /\ \A j \in DOMAIN hslotFree : hslotFree[j] = hslotFree[k] => j = k
    /\ hslotNext = Len(rows) + Len(hslotFree)

\* The page is the store in table order: the element at a position is the one
\* painted for the row of that position, it shows the row's id and label, its
\* key resolves to the row (so no click on it meets the stale-handle trap), and
\* the registry holds the elements of the page and no other.
PageIsStore ==
    /\ Len(page) = Len(rows)
    /\ \A i \in DOMAIN rows :
         /\ rows[i].pos + 1 \in DOMAIN page
         /\ LET e == page[rows[i].pos + 1]
            IN  /\ e.key = HandleOf(i) /\ e.id = rows[i].id /\ e.label = rows[i].label
                /\ RowOf(e.key) = i
    /\ reg = Keys(page)

\* A handle that was kept while its row went stays dead: the handle in sel,
\* once it addresses no row, never addresses another one, through removals,
\* clears and reuse of its slot; and while it lives it addresses the same row.
KeptHandleNeverMoves ==
    [][sel' = sel /\ sel # NoHandle =>
         IF RowOf(sel) = 0 THEN RowOf(sel)' = 0
         ELSE RowOf(sel)' # 0 => rows'[RowOf(sel)'].id = rows[RowOf(sel)].id]_vars

\* The elements are keyed: no click makes a new element for a row that had
\* one, and a swap moves two elements and disturbs no other.
ElementsKeyed ==
    [][/\ \A i \in DOMAIN page, k \in DOMAIN page' :
            page'[k].key = page[i].key => page'[k].id = page[i].id
       /\ Keys(page') = Keys(page) =>
            Cardinality({k \in DOMAIN page : page'[k].key # page[k].key}) \in {0, 2}]_vars

ChosenId ==
    LET reds == {i \in DOMAIN page : page[i].danger}
    IN  IF reds = {} THEN 0 ELSE page[CHOOSE i \in reds : \A j \in reds : i <= j].id

\* The table the page shows.
Table == INSTANCE KeyedTable WITH
           table  <- [i \in DOMAIN page |-> [id |-> page[i].id, label |-> page[i].label]],
           chosen <- ChosenId,
           last   <- seqNext - 1

\* What the page shows is the benchmark's table: six gestures on a sequence of
\* rows, whole labels included, and nothing else happens to it.
ImplementsTable == Table!KTSpec

\* At most one row is chosen, and it is the one sel addresses.
OneChosen ==
    \A i \in DOMAIN page : page[i].danger => page[i].key = sel

\* What is on screen is what is in the store, with at most the row of sel chosen.
PageOK == TypeOK /\ PageIsStore /\ OneChosen
=============================================================================
