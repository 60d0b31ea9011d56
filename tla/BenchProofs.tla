---------------------------- MODULE BenchProofs -----------------------------
(***************************************************************************)
(* Proofs about what reads and judges the benchmark: the board's history   *)
(* (Board), the timing readers (Timings) and the gauntlet (Gauntlet), for  *)
(* every corpus, every sample a machine may give, every size of the tables *)
(* and every target.                                                       *)
(*                                                                         *)
(* Each part has one inductive invariant: BoardInv says that the history   *)
(* and the row in hand tell one story, TimingsInv that every file was      *)
(* written while its run lasted, that a row which was not overwritten      *)
(* while it was read is such a file's, and that what is ranked passed its  *)
(* gates, GauntletInv that what was recorded is what was asserted.  Where  *)
(* induction over a number is needed, the least counterexample stands in   *)
(* for it (Least, UpTo); so the scan and the walk of js_escape, which are  *)
(* functions defined by recursion, have values (Recursion) and keep an     *)
(* invariant of their own, ScanAt.                                         *)
(***************************************************************************)
EXTENDS Gauntlet, Board, Timings, SequenceTheorems, FiniteSetTheorems, WellFoundedInduction, TLAPS

----------------------------------------------------------------------------
(* Numbers, and functions defined by recursion over them.                  *)

\* A set of numbers has a least element: the form in which the proofs below do
\* induction, by the least number that would be a counterexample.
LEMMA Least ==
  ASSUME NEW T \in SUBSET Nat, T # {}
  PROVE  \E m \in T : \A k \in T : m <= k
  <1> DEFINE R == {ss \in Nat \X Nat : ss[1] < ss[2]}
  <1>1. R = OpToRel(<, Nat)
    BY DEF OpToRel
  <1>2. IsWellFoundedOn(R, Nat)
    BY <1>1, NatLessThanWellFounded
  <1>3. \A m, k \in Nat : k < m => <<k, m>> \in R
    OBVIOUS
  <1> HIDE DEF R
  <1>4. PICK x \in T : \A y \in T : ~ (<<y, x>> \in R)
    BY <1>2, WFMin
  <1>5. ASSUME NEW y \in T, y < x PROVE FALSE
    <2>1. y \in Nat /\ x \in Nat
      OBVIOUS
    <2>2. <<y, x>> \in R
      BY <1>3, <1>5, <2>1
    <2> QED
      BY <1>4, <2>2, Zenon
  <1> QED
    BY <1>5

\* Induction over 0..size, by the least number that is not in S.
LEMMA UpTo ==
  ASSUME NEW size \in Nat, NEW S, 0 \in S, \A m \in 1..size : m - 1 \in S => m \in S
  PROVE  0..size \subseteq S
  <1> DEFINE T == {m \in 0..size : m \notin S}
  <1>1. SUFFICES ASSUME T # {} PROVE FALSE
    OBVIOUS
  <1>2. T \in SUBSET Nat
    OBVIOUS
  <1>3. PICK m \in T : \A k \in T : m <= k
    BY <1>1, <1>2, Least
  <1>4. m \in 1..size /\ m - 1 \in 0..size /\ ~(m <= m - 1)
    BY <1>3
  <1>5. m - 1 \in S
    BY <1>3, <1>4
  <1> QED
    BY <1>3, <1>4, <1>5

\* A recursion over 0..size has a solution.
\* g is c, and then step of what it was and the number.
Follows(size, X, c, step, g) ==
    /\ g \in [0..size -> X] /\ g[0] = c
    /\ \A i \in 1..size : g[i] = step[<<g[i - 1], i>>]

LEMMA Recursion ==
  ASSUME NEW size \in Nat, NEW X, NEW c \in X, NEW step \in [X \X (1..size) -> X]
  PROVE  \E g : Follows(size, X, c, step, g)
  <1> DEFINE Solves(g, m) == g[0] = c /\ \A i \in 1..m : g[i] = step[<<g[i - 1], i>>]
             S == {m \in 0..size : \E g \in [0..size -> X] : Solves(g, m)}
  <1>1. 0 \in S
    <2>1. [i \in 0..size |-> c] \in [0..size -> X]
      OBVIOUS
    <2>2. Solves([i \in 0..size |-> c], 0)
      OBVIOUS
    <2> HIDE DEF Solves
    <2> QED
      BY <2>1, <2>2
  <1>2. ASSUME NEW m \in 1..size, m - 1 \in S PROVE m \in S
    <2>1. PICK g \in [0..size -> X] : Solves(g, m - 1)
      BY <1>2
    <2> DEFINE h == [g EXCEPT ![m] = step[<<g[m - 1], m>>]]
    <2>2. m - 1 \in 0..size /\ m \in 0..size /\ g[m - 1] \in X
      OBVIOUS
    <2>3. step[<<g[m - 1], m>>] \in X
      BY <2>2
    <2>4. h \in [0..size -> X] /\ h[m] = step[<<g[m - 1], m>>]
      BY <2>2, <2>3
    <2>5. \A i \in 0..(m - 1) : h[i] = g[i]
      BY <2>2
    <2> HIDE DEF h
    <2>6. Solves(h, m)
      <3>1. h[0] = c
        BY <2>1, <2>5
      <3>2. ASSUME NEW i \in 1..m PROVE h[i] = step[<<h[i - 1], i>>]
        <4>1. CASE i = m
          BY <4>1, <2>4, <2>5
        <4>2. CASE i # m
          <5>1. i \in 1..(m - 1) /\ i \in 0..(m - 1) /\ i - 1 \in 0..(m - 1)
            BY <4>2
          <5> QED
            BY <5>1, <2>1, <2>5
        <4> QED
          BY <4>1, <4>2
      <3> QED
        BY <3>1, <3>2
    <2> HIDE DEF Solves
    <2> QED
      BY <2>4, <2>6
  <1>3. 0..size \subseteq S
    <2> HIDE DEF S
    <2> QED
      BY <1>1, <1>2, UpTo
  <1>4. size \in 0..size
    OBVIOUS
  <1>5. size \in S
    <2> HIDE DEF S
    <2> QED
      BY <1>3, <1>4
  <1>6. PICK g \in [0..size -> X] : Solves(g, size)
    BY <1>5
  <1>7. Follows(size, X, c, step, g)
    BY <1>6 DEF Follows
  <1> QED
    BY <1>7

\* What a recursion keeps.
LEMMA Stays ==
  ASSUME NEW size \in Nat, NEW X, NEW h, h[0] \in X, \A n \in 1..size : h[n - 1] \in X => h[n] \in X
  PROVE  \A n \in 0..size : h[n] \in X
  <1> DEFINE S == {n \in 0..size : h[n] \in X}
  <1>1. 0 \in S
    OBVIOUS
  <1>2. ASSUME NEW m \in 1..size, m - 1 \in S PROVE m \in S
    <2>1. h[m - 1] \in X /\ m \in 0..size
      BY <1>2
    <2> QED
      BY <2>1
  <1> HIDE DEF S
  <1>3. 0..size \subseteq S
    BY <1>1, <1>2, UpTo
  <1> QED
    BY <1>3 DEF S

----------------------------------------------------------------------------
(* The board: one story, told by one row after another.                    *)

Told == UNION {[S -> (Verdicts \cup {"unattempted"})] : S \in SUBSET Ops}

\* A row as RowOf makes it.
RowShape(r) ==
    /\ r.source \in {"vehicle", "control"} /\ r.verdicts \in Told
    /\ r.source = "control" => r.current = 0 /\ Cardinality(DOMAIN r.verdicts) = r.bar

\* Row r continues a history.
Continues(h, r) ==
    /\ RowShape(r)
    /\ r.round = Len(h)
    /\ h = <<>> => r.delta = <<>> /\ r.moved = <<>>
    /\ h # <<>> => /\ r.delta = <<r.current - h[Len(h)].current>>
                   /\ Replayed(h[Len(h)], r)

\* Every row of the history continues the rows before it.
Story ==
    \A i \in DOMAIN history :
        LET r == history[i]
        IN  /\ RowShape(r) /\ r.round = i - 1
            /\ i = 1 => r.delta = <<>> /\ r.moved = <<>>
            /\ i > 1 => /\ r.delta = <<r.current - history[i - 1].current>>
                        /\ Replayed(history[i - 1], r)

\* What the run under way holds.
RowInHand ==
    /\ phase = "idle" <=> row = NoRow
    /\ phase = "append" => Continues(history, row) /\ Len(history) < runs
    /\ phase = "render" => history # <<>> /\ row = history[Len(history)]

LatestKnown ==
    /\ latest.source \in {"vehicle", "control"} => \E i \in DOMAIN history : history[i] = latest
    /\ exit = "done" /\ phase = "idle" => history # <<>> /\ latest = history[Len(history)]

BoardShape ==
    /\ phase \in {"idle", "append", "render"} /\ tail \in {"whole", "open", "torn"}
    /\ exit \in {"never", "refused", "failed", "done"} /\ runs \in 0..MaxRuns
    /\ \E S : history \in Seq(S)
    /\ Len(history) <= runs

BoardInv == BoardShape /\ Story /\ RowInHand /\ LatestKnown

\* The verdicts a run can find are told, and none of them is the word for an
\* operation that is new.
LEMMA ToldVerdicts ==
  ASSUME BoardAssumption
  PROVE  /\ Results \subseteq Told
         /\ \A S \in SUBSET Ops : [id \in S |-> "unattempted"] \in Told
         /\ \A v \in Told : \A id \in DOMAIN v : v[id] # "new-op"
  <1>1. \A S \in SUBSET Ops : [S -> Verdicts] \subseteq [S -> Verdicts \cup {"unattempted"}]
    OBVIOUS
  <1>2. Results \subseteq Told
    BY <1>1 DEF Results, Told
  <1>3. ASSUME NEW S \in SUBSET Ops PROVE [id \in S |-> "unattempted"] \in Told
    <2>1. [id \in S |-> "unattempted"] \in [S -> Verdicts \cup {"unattempted"}]
      OBVIOUS
    <2> QED
      BY <2>1 DEF Told
  <1>4. ASSUME NEW v \in Told, NEW id \in DOMAIN v PROVE v[id] # "new-op"
    <2>1. PICK S \in SUBSET Ops : v \in [S -> Verdicts \cup {"unattempted"}]
      BY DEF Told
    <2>2. v[id] \in Verdicts \cup {"unattempted"}
      BY <2>1
    <2> QED
      BY <2>2 DEF BoardAssumption
  <1> QED
    BY <1>2, <1>3, <1>4

\* What moved leads from one round's verdicts to the next: whatMoved.
LEMMA MovedReplays ==
  ASSUME BoardAssumption, NEW p, p.verdicts \in Told, NEW r, r.verdicts \in Told,
         r.moved = Moved(p, r.verdicts)
  PROVE  Replayed(p, r)
  <1> DEFINE old == p.verdicts
             v == r.verdicts
             ids == {id \in DOMAIN v : IF id \in DOMAIN old THEN old[id] # v[id] ELSE TRUE}
  <1>1. /\ DOMAIN r.moved = ids
        /\ \A id \in ids : /\ r.moved[id].from = IF id \in DOMAIN old THEN old[id] ELSE "new-op"
                           /\ r.moved[id].to = v[id]
    BY DEF Moved
  <1>2. /\ \A id \in DOMAIN v : v[id] # "new-op"
        /\ \A id \in DOMAIN old : old[id] # "new-op"
    BY ToldVerdicts
  <1>3. \A id \in ids : v[id] = r.moved[id].to /\ r.moved[id].to # r.moved[id].from
    BY <1>1, <1>2
  <1>4. \A id \in DOMAIN v \ ids : id \in DOMAIN old /\ old[id] = v[id]
    OBVIOUS
  <1>5. \A id \in ids : r.moved[id].from = "new-op" <=> id \notin DOMAIN old
    BY <1>1, <1>2
  <1> QED
    BY <1>1, <1>3, <1>4, <1>5 DEF Replayed

\* The row a run computes continues the history it has read: computeRound.
LEMMA RowContinues ==
  ASSUME BoardAssumption, BoardShape, Story,
         NEW calibration, NEW v \in Told, NEW source \in {"vehicle", "control"}, NEW escape,
         source = "control" => Cardinality(DOMAIN v) = Cardinality(calibration)
  PROVE  Continues(history, RowOf(calibration, v, source, escape))
  <1> DEFINE r == RowOf(calibration, v, source, escape)
  <1>1. /\ r.source = source /\ r.verdicts = v /\ r.bar = Cardinality(calibration)
        /\ source = "control" => r.current = 0
    BY DEF RowOf
  <1>2. RowShape(r)
    BY <1>1 DEF RowShape
  <1>3. PICK S : history \in Seq(S)
    BY DEF BoardShape
  <1>4. CASE history = <<>>
    <2>1. Previous = <<>>
      BY <1>4 DEF Previous
    <2>2. r.round = 0 /\ r.delta = <<>> /\ r.moved = <<>>
      BY <2>1 DEF RowOf
    <2>3. Len(history) = 0
      BY <1>4
    <2> QED
      BY <1>2, <1>4, <2>2, <2>3 DEF Continues
  <1>5. CASE history # <<>>
    <2> DEFINE p == history[Len(history)]
    <2>1. Len(history) \in Nat \ {0} /\ Len(history) \in DOMAIN history
      BY <1>3, <1>5, EmptySeq
    <2>2. Previous = <<p>> /\ Previous # <<>> /\ Previous[1] = p
      BY <1>5 DEF Previous, Last
    <2>3. p.round = Len(history) - 1 /\ p.verdicts \in Told
      BY <2>1 DEF Story, RowShape
    <2> HIDE DEF p
    <2>4. r.round = p.round + 1 /\ r.delta = <<r.current - p.current>> /\ r.moved = Moved(p, v)
      BY <2>2 DEF RowOf
    <2>5. r.round = Len(history)
      BY <2>1, <2>3, <2>4
    <2> HIDE DEF r
    <2>6. Replayed(p, r)
      BY <1>1, <2>3, <2>4, MovedReplays
    <2> QED
      BY <1>2, <1>5, <2>4, <2>5, <2>6 DEF Continues, p, r
  <1> QED
    BY <1>4, <1>5

\* A row that continues the history can be appended to it.
LEMMA StoryGrows ==
  ASSUME BoardShape, Story, NEW r, Continues(history, r), history' = Append(history, r)
  PROVE  /\ Story'
         /\ \E S : history' \in Seq(S)
         /\ Len(history') = Len(history) + 1 /\ history' # <<>>
         /\ history'[Len(history')] = r
         /\ \A i \in DOMAIN history : i \in DOMAIN history' /\ history'[i] = history[i]
  <1>1. PICK S : history \in Seq(S)
    BY DEF BoardShape
  <1>2. history \in Seq(S \cup {r})
    BY <1>1
  <1> DEFINE n == Len(history)
  <1>3. /\ n \in Nat /\ DOMAIN history = 1..n
        /\ history' \in Seq(S \cup {r}) /\ Len(history') = n + 1
        /\ DOMAIN history' = 1..(n + 1)
        /\ \A i \in 1..n : history'[i] = history[i]
        /\ history'[n + 1] = r
    BY <1>2, AppendProperties
  <1>4. history = <<>> <=> n = 0
    BY <1>1, EmptySeq
  <1> HIDE DEF n
  <1>5. ASSUME NEW i \in DOMAIN history'
        PROVE LET q == history'[i]
              IN  /\ RowShape(q) /\ q.round = i - 1
                  /\ i = 1 => q.delta = <<>> /\ q.moved = <<>>
                  /\ i > 1 => /\ q.delta = <<q.current - history'[i - 1].current>>
                              /\ Replayed(history'[i - 1], q)
    <2>1. CASE i \in DOMAIN history
      <3>1. history'[i] = history[i] /\ (i > 1 => history'[i - 1] = history[i - 1])
        BY <1>3, <2>1
      <3> QED
        BY <2>1, <3>1 DEF Story
    <2>2. CASE i \notin DOMAIN history
      <3>1. i = n + 1 /\ history'[i] = r
        BY <1>3, <2>2
      <3>2. i > 1 => history # <<>> /\ history'[i - 1] = history[Len(history)]
        <4>1. i - 1 = n /\ (i > 1 => n \in 1..n)
          BY <1>3, <3>1
        <4>2. i > 1 => history'[n] = history[n] /\ history # <<>>
          BY <1>3, <1>4, <4>1
        <4> QED
          BY <4>1, <4>2 DEF n
      <3>3. i = 1 => history = <<>>
        BY <1>3, <1>4, <3>1
      <3>4. r.round = i - 1
        BY <1>3, <3>1 DEF Continues, n
      <3> QED
        BY <3>1, <3>2, <3>3, <3>4 DEF Continues
    <2> QED
      BY <2>1, <2>2
  <1>6. Story'
    BY <1>5 DEF Story
  <1>7. history' # <<>>
    BY <1>3, EmptySeq
  <1> QED
    BY <1>3, <1>6, <1>7 DEF n

LEMMA BoardFromInit == ASSUME BoardAssumption, BoardInit PROVE BoardInv
  <1> USE DEF BoardInit
  <1>1. history \in Seq({}) /\ Len(history) = 0 /\ DOMAIN history = {}
    OBVIOUS
  <1>2. BoardShape
    BY <1>1 DEF BoardShape, BoardAssumption
  <1>3. Story
    BY <1>1 DEF Story
  <1>4. RowInHand
    BY DEF RowInHand
  <1>5. LatestKnown
    BY DEF LatestKnown, NoRow
  <1> QED
    BY <1>2, <1>3, <1>4, <1>5 DEF BoardInv

LEMMA ComputeKeeps == ASSUME BoardAssumption, BoardInv, Compute PROVE BoardInv'
  <1>1. PICK calibration \in SUBSET Ops \ {{}},
             escape \in {Escape(src) : src \in Sources} \cup {Absent} :
          \/ \E v \in {w \in Results : DOMAIN w # {}} : row' = RowOf(calibration, v, "vehicle", escape)
          \/ row' = RowOf(calibration, [id \in calibration |-> "unattempted"], "control", escape)
    BY DEF Compute
  <1>2. Continues(history, row')
    <2>1. CASE \E v \in {w \in Results : DOMAIN w # {}} : row' = RowOf(calibration, v, "vehicle", escape)
      <3>1. PICK v \in Results : row' = RowOf(calibration, v, "vehicle", escape)
        BY <2>1
      <3>2. v \in Told
        BY ToldVerdicts
      <3> QED
        BY <3>1, <3>2, RowContinues DEF BoardInv
    <2>2. CASE row' = RowOf(calibration, [id \in calibration |-> "unattempted"], "control", escape)
      <3> DEFINE v == [id \in calibration |-> "unattempted"]
      <3>1. v \in Told /\ DOMAIN v = calibration
        BY ToldVerdicts
      <3> HIDE DEF v
      <3>2. row' = RowOf(calibration, v, "control", escape)
        BY <2>2 DEF v
      <3> QED
        BY <3>1, <3>2, RowContinues DEF BoardInv
    <2> QED
      BY <1>1, <2>1, <2>2
  <1>3. row' # NoRow
    BY <1>2 DEF Continues, RowShape, NoRow
  <1>4. /\ phase = "idle" /\ runs < MaxRuns /\ runs' = runs + 1 /\ phase' = "append"
        /\ history' = history /\ tail' = tail /\ latest' = latest /\ exit' = exit
    BY DEF Compute, Begin
  <1>5. MaxRuns \in Nat
    BY DEF BoardAssumption
  <1>6. Len(history) \in Nat
    BY DEF BoardInv, BoardShape
  <1>7. BoardShape' /\ Len(history') < runs'
    BY <1>4, <1>5, <1>6 DEF BoardInv, BoardShape
  <1>8. Story' /\ LatestKnown'
    BY <1>4 DEF BoardInv, Story, LatestKnown
  <1>9. RowInHand'
    BY <1>2, <1>3, <1>4, <1>7 DEF RowInHand
  <1> QED
    BY <1>7, <1>8, <1>9 DEF BoardInv

LEMMA AppendKeeps == ASSUME BoardAssumption, BoardInv, AppendRow PROVE BoardInv'
  <1>1. /\ phase = "append" /\ Continues(history, row) /\ Len(history) < runs /\ row # NoRow
        /\ runs \in 0..MaxRuns /\ Len(history) \in Nat /\ MaxRuns \in Nat
    BY DEF AppendRow, BoardInv, RowInHand, BoardShape, BoardAssumption
  <1>2. tail' \in {"whole", "open", "torn"} /\ latest' = latest /\ runs' = runs
    BY DEF AppendRow, Joined
  <1>3. CASE history' = Append(history, row)
    <2>1. /\ Story'
          /\ \E S : history' \in Seq(S)
          /\ Len(history') = Len(history) + 1 /\ history' # <<>>
          /\ history'[Len(history')] = row
          /\ \A i \in DOMAIN history : i \in DOMAIN history' /\ history'[i] = history[i]
      BY <1>1, <1>3, StoryGrows DEF BoardInv
    <2>2. \/ phase' = "render" /\ row' = row /\ exit' = exit
          \/ phase' = "idle" /\ row' = NoRow /\ exit' = "failed"
          \/ history' = history
      BY DEF AppendRow, Ends
    <2>3. history' # history
      BY <2>1, <1>1
    <2>4. BoardShape'
      BY <1>1, <1>2, <2>1, <2>2, <2>3 DEF BoardInv, BoardShape
    <2>5. RowInHand'
      BY <1>1, <2>1, <2>2, <2>3 DEF RowInHand
    <2>6. LatestKnown'
      BY <1>2, <2>1, <2>2, <2>3 DEF BoardInv, LatestKnown
    <2> QED
      BY <2>1, <2>4, <2>5, <2>6 DEF BoardInv
  <1>4. CASE history' = history
    <2>1. phase' = "idle" /\ row' = NoRow /\ exit' = "failed"
      <3>1. history \in Seq(UNION {{history[i] : i \in DOMAIN history}, {row}})
        BY DEF BoardInv, BoardShape
      <3>2. Append(history, row) # history
        BY <3>1, AppendProperties, <1>1
      <3> QED
        BY <1>4, <3>2 DEF AppendRow, Ends
    <2> QED
      BY <1>1, <1>2, <1>4, <2>1 DEF BoardInv, BoardShape, Story, RowInHand, LatestKnown
  <1> QED
    BY <1>3, <1>4 DEF AppendRow

LEMMA RestKeeps ==
  ASSUME BoardAssumption, BoardInv, Refuse \/ Die \/ Render \/ UNCHANGED boardVars
  PROVE  BoardInv'
  <1>1. MaxRuns \in Nat /\ Len(history) \in Nat /\ Len(history) <= runs /\ runs \in 0..MaxRuns
    BY DEF BoardAssumption, BoardInv, BoardShape
  <1>2. history' = history /\ tail' = tail
    BY DEF Refuse, Die, Render, boardVars
  <1>3. Story'
    BY <1>2 DEF BoardInv, Story
  <1>4. CASE Refuse
    <2>1. /\ phase' = "idle" /\ phase = "idle" /\ row' = row /\ latest' = latest
          /\ exit' \in {"refused", "failed"} /\ runs' = runs + 1 /\ runs < MaxRuns
      BY <1>4 DEF Refuse, Begin
    <2>2. BoardShape' /\ RowInHand' /\ LatestKnown'
      BY <1>1, <1>2, <2>1 DEF BoardInv, BoardShape, RowInHand, LatestKnown
    <2> QED
      BY <1>3, <2>2 DEF BoardInv
  <1>5. CASE Die
    <2>1. phase' = "idle" /\ row' = NoRow /\ exit' = "failed" /\ latest' = latest /\ runs' = runs
      BY <1>5 DEF Die, Ends
    <2>2. BoardShape' /\ RowInHand' /\ LatestKnown'
      BY <1>1, <1>2, <2>1 DEF BoardInv, BoardShape, RowInHand, LatestKnown
    <2> QED
      BY <1>3, <2>2 DEF BoardInv
  <1>6. CASE Render
    <2>1. /\ phase = "render" /\ phase' = "idle" /\ row' = NoRow /\ runs' = runs
          /\ \/ latest' = row /\ exit' = "done"
             \/ latest' = Partial /\ exit' = "failed"
      BY <1>6 DEF Render, Ends
    <2>2. history # <<>> /\ row = history[Len(history)]
      BY <2>1 DEF BoardInv, RowInHand
    <2>3. Len(history) \in DOMAIN history
      BY <2>2, EmptySeq DEF BoardInv, BoardShape
    <2>4. Partial.source = "partial"
      BY DEF Partial, NoRow
    <2>5. LatestKnown'
      BY <1>2, <2>1, <2>2, <2>3, <2>4 DEF LatestKnown
    <2>6. BoardShape' /\ RowInHand'
      BY <1>1, <1>2, <2>1 DEF BoardInv, BoardShape, RowInHand
    <2> QED
      BY <1>3, <2>5, <2>6 DEF BoardInv
  <1>7. CASE UNCHANGED boardVars
    BY <1>7 DEF boardVars, BoardInv, BoardShape, Story, RowInHand, LatestKnown
  <1> QED
    BY <1>4, <1>5, <1>6, <1>7

\* The invariant holds of every run of the generator.
THEOREM BoardInvariance == ASSUME BoardAssumption PROVE BoardSpec => []BoardInv
  <1>1. BoardInit => BoardInv
    BY BoardFromInit
  <1>2. BoardInv /\ [BoardNext]_boardVars => BoardInv'
    BY ComputeKeeps, AppendKeeps, RestKeeps DEF BoardNext
  <1> QED
    BY <1>1, <1>2, PTL DEF BoardSpec

\* The history tells one story, however its runs ended: computeRound and the
\* append of main.
THEOREM HistoryIsOneStory == ASSUME BoardAssumption PROVE BoardSpec => []BoardOK
  <1>1. ASSUME BoardInv PROVE BoardOK
    <2>1. BoardTypeOK
      BY <1>1 DEF BoardInv, BoardShape, RowInHand, Story, RowShape, BoardTypeOK
    <2>2. HistoryReplays
      BY <1>1 DEF BoardInv, Story, RowShape, HistoryReplays
    <2> QED
      BY <2>1, <2>2 DEF BoardOK
  <1> QED
    BY <1>1, BoardInvariance, PTL

\* latest.md follows the history: the write at the end of main.
THEOREM LatestIsInHistory == ASSUME BoardAssumption PROVE BoardSpec => []LatestFollows
  <1>1. BoardInv => LatestFollows
    BY DEF BoardInv, LatestKnown, LatestFollows, Last
  <1> QED
    BY <1>1, BoardInvariance, PTL

----------------------------------------------------------------------------
(* js_escape: what the scan counts, line by line, is what stands where.    *)

\* Files, and the counts a scan carries.
File == [ext : {"k", "kz", "kjs"}, skipped : BOOLEAN, lines : Seq(Lines)]
Tally == [koru : Int, host : Int, depth : Int, bodyIsJs : BOOLEAN]

\* The lines of a file, and the running count over them.
LEMMA LinesAre ==
  ASSUME BoardAssumption, NEW l \in Lines
  PROVE  l.sort \in {"skipped", "koru", "proc", "host"} /\ l.js \in BOOLEAN /\ l.net \in Int
  BY DEF BoardAssumption

LEMMA TallyIs ==
  ASSUME NEW s \in Tally
  PROVE  s.koru \in Int /\ s.host \in Int /\ s.depth \in Int /\ s.bodyIsJs \in BOOLEAN
  BY DEF Tally

\* The ways in which one line changes the count.
Totals(s, k, h) == [s EXCEPT !.koru = k, !.host = h]
Inside(s, h, d) == [s EXCEPT !.host = h, !.depth = d]
Opens(s, h, d, b) == [s EXCEPT !.host = h, !.depth = d, !.bodyIsJs = b]

LEMMA TallyWith ==
  ASSUME NEW s \in Tally
  PROVE  /\ \A k \in Int, h \in Int : Totals(s, k, h) \in Tally
         /\ \A h \in Int, d \in Int : Inside(s, h, d) \in Tally
         /\ \A h \in Int, d \in Int, b \in BOOLEAN : Opens(s, h, d, b) \in Tally
         /\ \A k \in Int : [s EXCEPT !.koru = k] \in Tally
         /\ \A h \in Int : [s EXCEPT !.host = h] \in Tally
  BY DEF Tally, Totals, Inside, Opens

LEMMA InsideIs ==
  ASSUME NEW s \in Tally, NEW h \in Int, NEW d \in Int, NEW t, t = Inside(s, h, d)
  PROVE  t.koru = s.koru /\ t.host = h /\ t.depth = d /\ t.bodyIsJs = s.bodyIsJs
  BY DEF Tally, Inside

LEMMA OpensIs ==
  ASSUME NEW s \in Tally, NEW h \in Int, NEW d \in Int, NEW b \in BOOLEAN, NEW t, t = Opens(s, h, d, b)
  PROVE  t.koru = s.koru /\ t.host = h /\ t.depth = d /\ t.bodyIsJs = b
  BY DEF Tally, Opens

LEMMA ZeroIs == Zero \in Tally
  BY DEF Tally, Zero

\* A line is counted for the host language that escapes.
Escapes(s, l, js) ==
    /\ l.sort # "skipped"
    /\ \/ s.depth > 0 /\ s.bodyIsJs
       \/ s.depth <= 0 /\ l.sort = "proc" /\ l.js
       \/ s.depth <= 0 /\ l.sort = "host" /\ js

\* What one line does to each field.
Steps(s, l, js, t) ==
    /\ t.koru = s.koru + (IF s.depth <= 0 /\ l.sort = "koru" THEN 1 ELSE 0)
    /\ t.host = s.host + (IF Escapes(s, l, js) THEN 1 ELSE 0)
    /\ s.depth > 0 => /\ t.depth = s.depth + (IF l.sort = "skipped" THEN 0 ELSE l.net)
                      /\ t.bodyIsJs = s.bodyIsJs
    /\ s.depth <= 0 /\ l.sort = "proc" /\ l.net > 0 => t.depth = l.net /\ t.bodyIsJs = l.js
    /\ s.depth <= 0 /\ ~(l.sort = "proc" /\ l.net > 0) => t.depth = s.depth

\* Every line does just that.
LEMMA ScannedIs ==
  ASSUME BoardAssumption, NEW s \in Tally, NEW l \in Lines, NEW js \in BOOLEAN,
         NEW t, t = Scanned(s, l, js)
  PROVE  t \in Tally /\ Steps(s, l, js, t)
  <1>1. l.sort \in {"skipped", "koru", "proc", "host"} /\ l.js \in BOOLEAN /\ l.net \in Int
    BY LinesAre
  <1>2. s.koru \in Int /\ s.host \in Int /\ s.depth \in Int /\ s.bodyIsJs \in BOOLEAN
    BY TallyIs
  <1>3. CASE l.sort = "skipped"
    <2>1. t = s
      BY <1>3 DEF Scanned
    <2> QED
      BY <2>1, <1>1, <1>2, <1>3 DEF Steps, Escapes
  <1>4. CASE l.sort # "skipped" /\ s.depth > 0
    <2> DEFINE h == s.host + (IF s.bodyIsJs THEN 1 ELSE 0)
               d == s.depth + l.net
    <2>1. t = Inside(s, h, d)
      BY <1>2, <1>4 DEF Scanned, Inside
    <2>2. h \in Int /\ d \in Int
      BY <1>1, <1>2
    <2>3. t \in Tally
      <3> HIDE DEF h, d
      <3> QED
        BY <2>1, <2>2, TallyWith
    <2>4. t.koru = s.koru /\ t.host = h /\ t.depth = d /\ t.bodyIsJs = s.bodyIsJs
      <3> HIDE DEF h, d
      <3> QED
        BY <2>1, <2>2, InsideIs
    <2> QED
      BY <2>3, <2>4, <1>1, <1>2, <1>4 DEF Steps, Escapes
  <1>5. CASE l.sort = "proc" /\ s.depth <= 0
    <2> DEFINE h == s.host + (IF l.js THEN 1 ELSE 0)
               d == IF l.net > 0 THEN l.net ELSE s.depth
               b == IF l.net > 0 THEN l.js ELSE s.bodyIsJs
    <2>1. t = Opens(s, h, d, b)
      BY <1>1, <1>2, <1>5 DEF Scanned, Header, Opens
    <2>2. h \in Int /\ d \in Int /\ b \in BOOLEAN
      BY <1>1, <1>2
    <2>3. t \in Tally
      <3> HIDE DEF h, d, b
      <3> QED
        BY <2>1, <2>2, TallyWith
    <2>4. t.koru = s.koru /\ t.host = h /\ t.depth = d /\ t.bodyIsJs = b
      <3> HIDE DEF h, d, b
      <3> QED
        BY <2>1, <2>2, OpensIs
    <2> QED
      BY <2>3, <2>4, <1>1, <1>2, <1>5 DEF Steps, Escapes
  <1>6. CASE l.sort = "koru" /\ s.depth <= 0
    <2> DEFINE k == s.koru + 1
    <2>1. t = [s EXCEPT !.koru = k]
      BY <1>1, <1>2, <1>6 DEF Scanned
    <2>2. k \in Int
      BY <1>2
    <2>3. t \in Tally
      <3> HIDE DEF k
      <3> QED
        BY <2>1, <2>2, TallyWith
    <2>4. t.koru = k /\ t.host = s.host /\ t.depth = s.depth
      <3> HIDE DEF k
      <3> QED
        BY <2>1 DEF Tally
    <2> QED
      BY <2>3, <2>4, <1>1, <1>2, <1>6 DEF Steps, Escapes
  <1>7. CASE l.sort = "host" /\ s.depth <= 0
    <2> DEFINE h == s.host + (IF js THEN 1 ELSE 0)
    <2>1. t = [s EXCEPT !.host = h]
      BY <1>1, <1>2, <1>7 DEF Scanned
    <2>2. h \in Int
      BY <1>2
    <2>3. t \in Tally
      <3> HIDE DEF h
      <3> QED
        BY <2>1, <2>2, TallyWith
    <2>4. t.koru = s.koru /\ t.host = h /\ t.depth = s.depth
      <3> HIDE DEF h
      <3> QED
        BY <2>1 DEF Tally
    <2> QED
      BY <2>3, <2>4, <1>1, <1>2, <1>7 DEF Steps, Escapes
  <1> QED
    BY <1>1, <1>2, <1>3, <1>4, <1>5, <1>6, <1>7

\* A file begins with the counts so far, in no body.
LEMMA StartIs ==
  ASSUME NEW s \in Tally, NEW c, c = [Zero EXCEPT !.koru = s.koru, !.host = s.host]
  PROVE  c \in Tally /\ c.koru = s.koru /\ c.host = s.host /\ c.depth = 0
  <1>1. c \in Tally
    <2>1. c = Totals(Zero, s.koru, s.host)
      BY DEF Totals
    <2>2. s.koru \in Int /\ s.host \in Int
      BY TallyIs
    <2>3. \A k \in Int, h \in Int : Totals(Zero, k, h) \in Tally
      BY ZeroIs, TallyWith
    <2> QED
      BY <2>1, <2>2, <2>3
  <1>2. c.koru = s.koru /\ c.host = s.host /\ c.depth = 0
    BY DEF Zero
  <1> QED
    BY <1>1, <1>2

\* The host language of a file is js.
IsJs(f) == f.ext = "kjs"

\* The scan, line by line.
LEMMA ScanIs ==
  ASSUME BoardAssumption, NEW f, f.lines \in Seq(Lines), NEW s \in Tally
  PROVE  /\ Scan(f, s)[0] = [Zero EXCEPT !.koru = s.koru, !.host = s.host]
         /\ \A n \in 1..Len(f.lines) :
              Scan(f, s)[n] = Scanned(Scan(f, s)[n - 1], f.lines[n], IsJs(f))
         /\ \A n \in 0..Len(f.lines) : Scan(f, s)[n] \in Tally
  <1> DEFINE size == Len(f.lines)
             js == IsJs(f)
             c == [Zero EXCEPT !.koru = s.koru, !.host = s.host]
             step == [p \in Tally \X (1..size) |-> Scanned(p[1], f.lines[p[2]], js)]
             h == Scan(f, s)
             F(g) == [n \in 0..size |-> IF n = 0 THEN c ELSE Scanned(g[n - 1], f.lines[n], js)]
  <1>1. size \in Nat /\ js \in BOOLEAN /\ \A i \in 1..size : f.lines[i] \in Lines
    BY DEF IsJs
  <1>2. c \in Tally
    BY StartIs
  <1>3. \A x \in Tally, i \in 1..size : Scanned(x, f.lines[i], js) \in Tally
    BY <1>1, ScannedIs
  <1>4. step \in [Tally \X (1..size) -> Tally]
    <2> HIDE DEF size, js
    <2> QED
      BY <1>3
  <1>5. \A x, i : x \in Tally /\ i \in 1..size => step[<<x, i>>] = Scanned(x, f.lines[i], js)
    <2> HIDE DEF size, js
    <2> QED
      OBVIOUS
  <1>6. h = CHOOSE g : g = F(g)
    BY DEF Scan, IsJs
  <1> HIDE DEF step, c, size, js, h
  <1>7. PICK g : Follows(size, Tally, c, step, g)
    BY <1>1, <1>2, <1>4, Recursion
  <1>8. g = F(g)
    <2>1. ASSUME NEW n \in 0..size
          PROVE  g[n] = IF n = 0 THEN c ELSE Scanned(g[n - 1], f.lines[n], js)
      <3>1. CASE n # 0
        <4>1. n \in 1..size /\ n - 1 \in 0..size
          BY <1>1, <3>1
        <4>2. g[n - 1] \in Tally /\ g[n] = step[<<g[n - 1], n>>]
          BY <4>1, <1>7 DEF Follows
        <4> QED
          BY <3>1, <4>1, <4>2, <1>5
      <3> QED
        BY <1>7, <3>1 DEF Follows
    <2> QED
      BY <1>7, <2>1 DEF Follows
  <1>9. h = F(h)
    <2> HIDE DEF F
    <2> QED
      BY <1>6, <1>8, Zenon
  <1>10. h[0] = c /\ \A n \in 1..size : h[n] = Scanned(h[n - 1], f.lines[n], js)
    <2>1. 0 \in 0..size /\ \A n \in 1..size : n \in 0..size /\ n # 0
      BY <1>1
    <2>2. \A n \in 0..size : h[n] = IF n = 0 THEN c ELSE Scanned(h[n - 1], f.lines[n], js)
      BY <1>9
    <2> QED
      BY <2>1, <2>2
  <1>11. \A n \in 0..size : h[n] \in Tally
    <2>1. \A n \in 1..size : h[n - 1] \in Tally => h[n] \in Tally
      BY <1>3, <1>10
    <2>2. h[0] \in Tally
      BY <1>2, <1>10
    <2> QED
      BY <1>1, <2>1, <2>2, Stays
  <1> QED
    BY <1>10, <1>11 DEF h, c, size, js
\* The braces open, line by line.
LEMMA BracesAre ==
  ASSUME BoardAssumption, NEW ls \in Seq(Lines)
  PROVE  /\ Braces(ls)[0] = 0
         /\ \A n \in 1..Len(ls) :
              Braces(ls)[n] = Braces(ls)[n - 1] + (IF ls[n].sort = "skipped" THEN 0 ELSE ls[n].net)
         /\ \A n \in 0..Len(ls) : Braces(ls)[n] \in Int
  <1> DEFINE size == Len(ls)
             net(n) == IF ls[n].sort = "skipped" THEN 0 ELSE ls[n].net
             step == [p \in Int \X (1..size) |-> p[1] + net(p[2])]
             h == Braces(ls)
             F(g) == [n \in 0..size |-> IF n = 0 THEN 0 ELSE g[n - 1] + net(n)]
  <1>1. size \in Nat /\ \A i \in 1..size : net(i) \in Int
    <2>1. \A i \in 1..size : ls[i] \in Lines
      OBVIOUS
    <2> QED
      BY <2>1, LinesAre
  <1>2. h = CHOOSE g : g = F(g)
    BY DEF Braces
  <1> HIDE DEF net, size
  <1>3. \A x, i : x \in Int /\ i \in 1..size => x + net(i) \in Int
    BY <1>1
  <1>4. step \in [Int \X (1..size) -> Int]
    BY <1>3
  <1>5. \A x, i : x \in Int /\ i \in 1..size => step[<<x, i>>] = x + net(i)
    OBVIOUS
  <1> HIDE DEF step, h
  <1>7. PICK g : Follows(size, Int, 0, step, g)
    <2>1. 0 \in Int
      OBVIOUS
    <2> QED
      BY <1>1, <1>4, <2>1, Recursion
  <1>8. g = F(g)
    <2>1. ASSUME NEW n \in 0..size
          PROVE  g[n] = IF n = 0 THEN 0 ELSE g[n - 1] + net(n)
      <3>1. CASE n # 0
        <4>1. n \in 1..size /\ n - 1 \in 0..size
          BY <1>1, <3>1
        <4>2. g[n - 1] \in Int /\ g[n] = step[<<g[n - 1], n>>]
          BY <4>1, <1>7 DEF Follows
        <4> QED
          BY <3>1, <4>1, <4>2, <1>5
      <3> QED
        BY <1>7, <3>1 DEF Follows
    <2> QED
      BY <1>7, <2>1 DEF Follows
  <1>9. h = F(h)
    <2> HIDE DEF F
    <2> QED
      BY <1>2, <1>8, Zenon
  <1>10. h[0] = 0 /\ \A n \in 1..size : h[n] = h[n - 1] + net(n)
    <2>1. 0 \in 0..size /\ \A n \in 1..size : n \in 0..size /\ n # 0
      BY <1>1
    <2>2. \A n \in 0..size : h[n] = IF n = 0 THEN 0 ELSE h[n - 1] + net(n)
      BY <1>9
    <2> QED
      BY <2>1, <2>2
  <1>11. \A n \in 0..size : h[n] \in Int
    <2>1. \A n \in 1..size : h[n - 1] \in Int => h[n] \in Int
      BY <1>3, <1>10
    <2>2. h[0] \in Int
      BY <1>10
    <2> QED
      BY <1>1, <2>1, <2>2, Stays
  <1> QED
    BY <1>10, <1>11 DEF h, size, net

\* A file leaves a count.
LEMMA CountedIs ==
  ASSUME BoardAssumption, NEW f \in File, NEW s \in Tally
  PROVE  Counted(f, s) \in Tally
  <1>1. CASE f.skipped
    BY <1>1 DEF Counted
  <1>2. CASE ~f.skipped /\ f.ext = "k"
    <2> DEFINE W == {i \in DOMAIN f.lines : f.lines[i].sort # "skipped"}
               k == s.koru + Cardinality(W)
    <2>1. k \in Int
      <3>1. IsFiniteSet(W)
        <4>1. f.lines \in Seq(Lines)
          BY DEF File
        <4>2. DOMAIN f.lines = 1..Len(f.lines) /\ Len(f.lines) \in Nat
          BY <4>1
        <4>3. IsFiniteSet(1..Len(f.lines)) /\ W \subseteq 1..Len(f.lines)
          BY <4>2, FS_Interval
        <4> HIDE DEF W
        <4> QED
          BY <4>3, FS_Subset
      <3>2. Cardinality(W) \in Nat
        BY <3>1, FS_CardinalityType
      <3> HIDE DEF W
      <3> QED
        BY <3>2, TallyIs
    <2>2. Counted(f, s) = [s EXCEPT !.koru = k]
      BY <1>2 DEF Counted
    <2> HIDE DEF k
    <2> QED
      BY <2>1, <2>2, TallyWith
  <1>3. CASE ~f.skipped /\ f.ext \in {"kz", "kjs"}
    <2>1. f.lines \in Seq(Lines)
      BY DEF File
    <2>2. Len(f.lines) \in 0..Len(f.lines)
      BY <2>1
    <2>3. Scan(f, s)[Len(f.lines)] \in Tally
      BY <2>1, <2>2, ScanIs
    <2>4. Counted(f, s) = Scan(f, s)[Len(f.lines)]
      BY <1>3 DEF Counted
    <2> QED
      BY <2>3, <2>4
  <1>4. f.skipped \in BOOLEAN /\ f.ext \in {"k", "kz", "kjs"}
    BY DEF File
  <1> QED
    BY <1>1, <1>2, <1>3, <1>4

\* The walk, file by file.
LEMMA WalkIs ==
  ASSUME BoardAssumption, NEW src \in Seq(File)
  PROVE  /\ Walk(src)[0] = Zero
         /\ \A n \in 1..Len(src) : Walk(src)[n] = Counted(src[n], Walk(src)[n - 1])
         /\ \A n \in 0..Len(src) : Walk(src)[n] \in Tally
  <1> DEFINE size == Len(src)
             step == [p \in Tally \X (1..size) |-> Counted(src[p[2]], p[1])]
             h == Walk(src)
             F(g) == [n \in 0..size |-> IF n = 0 THEN Zero ELSE Counted(src[n], g[n - 1])]
  <1>1. size \in Nat /\ \A i \in 1..size : src[i] \in File
    OBVIOUS
  <1>2. h = CHOOSE g : g = F(g)
    BY DEF Walk
  <1>3. \A x, i : x \in Tally /\ i \in 1..size => Counted(src[i], x) \in Tally
    BY <1>1, CountedIs
  <1> HIDE DEF size
  <1>4. step \in [Tally \X (1..size) -> Tally]
    BY <1>3
  <1>5. \A x, i : x \in Tally /\ i \in 1..size => step[<<x, i>>] = Counted(src[i], x)
    OBVIOUS
  <1> HIDE DEF step, h
  <1>7. PICK g : Follows(size, Tally, Zero, step, g)
    BY <1>1, <1>4, ZeroIs, Recursion
  <1>8. g = F(g)
    <2>1. ASSUME NEW n \in 0..size
          PROVE  g[n] = IF n = 0 THEN Zero ELSE Counted(src[n], g[n - 1])
      <3>1. CASE n # 0
        <4>1. n \in 1..size /\ n - 1 \in 0..size
          BY <1>1, <3>1
        <4>2. g[n - 1] \in Tally /\ g[n] = step[<<g[n - 1], n>>]
          BY <4>1, <1>7 DEF Follows
        <4> QED
          BY <3>1, <4>1, <4>2, <1>5
      <3> QED
        BY <1>7, <3>1 DEF Follows
    <2> QED
      BY <1>7, <2>1 DEF Follows
  <1>9. h = F(h)
    <2> HIDE DEF F
    <2> QED
      BY <1>2, <1>8, Zenon
  <1>10. h[0] = Zero /\ \A n \in 1..size : h[n] = Counted(src[n], h[n - 1])
    <2>1. 0 \in 0..size /\ \A n \in 1..size : n \in 0..size /\ n # 0
      BY <1>1
    <2>2. \A n \in 0..size : h[n] = IF n = 0 THEN Zero ELSE Counted(src[n], h[n - 1])
      BY <1>9
    <2> QED
      BY <2>1, <2>2
  <1>11. \A n \in 0..size : h[n] \in Tally
    <2>1. \A n \in 1..size : h[n - 1] \in Tally => h[n] \in Tally
      BY <1>3, <1>10
    <2>2. h[0] \in Tally
      BY ZeroIs, <1>10
    <2> QED
      BY <1>1, <2>1, <2>2, Stays
  <1> QED
    BY <1>10, <1>11 DEF h, size
----------------------------------------------------------------------------
(* Bodies *)

\* A proc at the top whose body is open after line n.
Open(ls, T, h, n) ==
    /\ h \in T /\ h <= n /\ ls[h].sort = "proc"
    /\ \A j \in h..n : Braces(ls)[j] > Braces(ls)[h - 1]

\* T are the lines at the top.
IsTop(ls, T) ==
    \A i \in DOMAIN ls : i \in T <=> ~\E h \in T : ls[h].sort = "proc" /\ i \in Body(ls, h)

\* A line stands in a proc's body just if the body is open before it.
LEMMA InBody ==
  ASSUME NEW ls \in Seq(Lines), NEW T \in SUBSET DOMAIN ls, NEW i \in DOMAIN ls, NEW h \in T
  PROVE  ls[h].sort = "proc" /\ i \in Body(ls, h) <=> Open(ls, T, h, i - 1)
  <1>1. DOMAIN ls = 1..Len(ls) /\ Len(ls) \in Nat
    OBVIOUS
  <1>2. i \in (h + 1)..Len(ls) <=> h <= i - 1
    BY <1>1
  <1> QED
    BY <1>2 DEF Body, Open

\* The lines at the top are determined from the first line on.
LEMMA OneTop ==
  ASSUME NEW ls \in Seq(Lines), NEW T \in SUBSET DOMAIN ls, NEW U \in SUBSET DOMAIN ls,
         IsTop(ls, T), IsTop(ls, U)
  PROVE  T = U
  <1> DEFINE D == {i \in DOMAIN ls : ~(i \in T <=> i \in U)}
  <1>1. SUFFICES ASSUME D # {} PROVE FALSE
    OBVIOUS
  <1>2. DOMAIN ls = 1..Len(ls) /\ Len(ls) \in Nat /\ D \in SUBSET Nat
    OBVIOUS
  <1>3. PICK m \in D : \A k \in D : m <= k
    BY <1>1, <1>2, Least
  <1>4. m \in DOMAIN ls /\ m \in Nat
    BY <1>2
  <1>5. \A h \in DOMAIN ls : h <= m - 1 => (h \in T <=> h \in U)
    <2>1. ASSUME NEW h \in DOMAIN ls, h <= m - 1 PROVE h \in T <=> h \in U
      <3>1. h \in D => m <= h
        BY <1>3
      <3>2. ~(m <= h)
        BY <1>2, <1>4, <2>1
      <3> QED
        BY <2>1, <3>1, <3>2
    <2> QED
      BY <2>1
  <1>6. m \in T <=> ~\E h \in T : Open(ls, T, h, m - 1)
    <2>1. m \in T <=> ~\E h \in T : ls[h].sort = "proc" /\ m \in Body(ls, h)
      BY <1>4 DEF IsTop
    <2>2. \A h \in T : ls[h].sort = "proc" /\ m \in Body(ls, h) <=> Open(ls, T, h, m - 1)
      BY <1>4, InBody
    <2> QED
      BY <2>1, <2>2
  <1>7. m \in U <=> ~\E h \in U : Open(ls, U, h, m - 1)
    <2>1. m \in U <=> ~\E h \in U : ls[h].sort = "proc" /\ m \in Body(ls, h)
      BY <1>4 DEF IsTop
    <2>2. \A h \in U : ls[h].sort = "proc" /\ m \in Body(ls, h) <=> Open(ls, U, h, m - 1)
      BY <1>4, InBody
    <2> QED
      BY <2>1, <2>2
  <1>8. (\E h \in T : Open(ls, T, h, m - 1)) <=> (\E h \in U : Open(ls, U, h, m - 1))
    BY <1>5 DEF Open
  <1> QED
    BY <1>6, <1>7, <1>8

\* The lines before which the scan is in no body.
Shallow(f, s) == {i \in DOMAIN f.lines : Scan(f, s)[i - 1].depth <= 0}

\* Where the scan is after n lines: in a body just if a proc at the top has one open, and
\* then as deep as that proc's braces are, in its language.
ScanAt(f, s, n) ==
    /\ Scan(f, s)[n].depth > 0 => \E h \in Shallow(f, s) : Open(f.lines, Shallow(f, s), h, n)
    /\ \A h \in Shallow(f, s) : Open(f.lines, Shallow(f, s), h, n) =>
         /\ Scan(f, s)[n].depth > 0
         /\ Scan(f, s)[n].depth = Braces(f.lines)[n] - Braces(f.lines)[h - 1]
         /\ Scan(f, s)[n].bodyIsJs = f.lines[h].js

\* The scan starts in no body, and stays where the bodies are.
LEMMA ScanStarts ==
  ASSUME BoardAssumption, NEW f, f.lines \in Seq(Lines), NEW s \in Tally
  PROVE  ScanAt(f, s, 0)
  <1>1. Scan(f, s)[0].depth = 0
    <2> DEFINE c == [Zero EXCEPT !.koru = s.koru, !.host = s.host]
    <2>1. Scan(f, s)[0] = c
      BY ScanIs
    <2>2. c.depth = 0
      BY StartIs
    <2> QED
      BY <2>1, <2>2
  <1>2. \A h \in Shallow(f, s) : ~(h <= 0)
    BY DEF Shallow
  <1> QED
    BY <1>1, <1>2 DEF ScanAt, Open

LEMMA ScanGoesOn ==
  ASSUME BoardAssumption, NEW f, f.lines \in Seq(Lines), NEW s \in Tally,
         NEW n \in 1..Len(f.lines), ScanAt(f, s, n - 1)
  PROVE  ScanAt(f, s, n)
  <1> DEFINE T == Shallow(f, s)
             B == Braces(f.lines)
             l == f.lines[n]
             was == Scan(f, s)[n - 1]
             now == Scan(f, s)[n]
             net == IF l.sort = "skipped" THEN 0 ELSE l.net
  <1>1. /\ n \in Nat /\ n - 1 \in 0..Len(f.lines) /\ n \in 0..Len(f.lines) /\ n \in DOMAIN f.lines
        /\ T \subseteq 1..Len(f.lines)
    BY DEF Shallow
  <1>2. l \in Lines /\ l.sort \in {"skipped", "koru", "proc", "host"} /\ l.js \in BOOLEAN /\ l.net \in Int
    BY LinesAre
  <1>3. was \in Tally /\ now \in Tally /\ Steps(was, l, IsJs(f), now)
    <2>1. now = Scanned(was, l, IsJs(f))
      BY ScanIs
    <2>2. was \in Tally /\ now \in Tally
      BY <1>1, ScanIs
    <2>3. IsJs(f) \in BOOLEAN
      BY DEF IsJs
    <2> HIDE DEF was, now, l
    <2> QED
      BY <1>2, <2>1, <2>2, <2>3, ScannedIs
  <1>4. B[n] = B[n - 1] + net /\ B[n] \in Int /\ B[n - 1] \in Int /\ \A h \in T : B[h - 1] \in Int
    <2>1. \A h \in T : h - 1 \in 0..Len(f.lines)
      BY <1>1
    <2> QED
      BY <1>1, <2>1, BracesAre
  <1>5. was.depth \in Int /\ now.depth \in Int /\ net \in Int
    BY <1>2, <1>3, TallyIs
  <1>6. n \in T <=> was.depth <= 0
    BY <1>1 DEF Shallow
  <1>7. /\ was.depth > 0 => now.depth = was.depth + net /\ now.bodyIsJs = was.bodyIsJs
        /\ was.depth <= 0 /\ l.sort = "proc" /\ net > 0 => now.depth = net /\ now.bodyIsJs = l.js
        /\ was.depth <= 0 /\ ~(l.sort = "proc" /\ net > 0) => now.depth = was.depth
    BY <1>2, <1>3 DEF Steps
  <1>8. \A h \in T : h # n => (Open(f.lines, T, h, n) <=> Open(f.lines, T, h, n - 1) /\ B[n] > B[h - 1])
    BY <1>1 DEF Open
  <1>9. n \in T => (Open(f.lines, T, n, n) <=> l.sort = "proc" /\ net > 0)
    <2>1. \A j \in n..n : j = n
      BY <1>1
    <2>2. B[n] > B[n - 1] <=> net > 0
      BY <1>4, <1>5
    <2>3. n \in n..n /\ n <= n
      BY <1>1
    <2> QED
      BY <2>1, <2>2, <2>3 DEF Open
  <1>10. was.depth > 0 => \E h \in T : Open(f.lines, T, h, n - 1)
    BY DEF ScanAt
  <1>11. \A h \in T : Open(f.lines, T, h, n - 1) =>
            h # n /\ was.depth > 0 /\ was.depth = B[n - 1] - B[h - 1] /\ was.bodyIsJs = f.lines[h].js
    BY <1>1 DEF ScanAt, Open
  <1> HIDE DEF T, B, l, was, now, net
  <1>12. ASSUME now.depth > 0 PROVE \E h \in T : Open(f.lines, T, h, n)
    <2>1. CASE was.depth > 0
      <3>1. PICK h \in T : Open(f.lines, T, h, n - 1)
        BY <1>10, <2>1
      <3>2. B[n] > B[h - 1]
        BY <1>4, <1>5, <1>7, <1>11, <1>12, <2>1, <3>1
      <3> QED
        BY <1>8, <1>11, <3>1, <3>2
    <2>2. CASE was.depth <= 0
      <3>1. l.sort = "proc" /\ net > 0
        BY <1>5, <1>7, <1>12, <2>2
      <3> QED
        BY <1>6, <1>9, <2>2, <3>1
    <2> QED
      BY <1>5, <2>1, <2>2
  <1>13. ASSUME NEW h \in T, Open(f.lines, T, h, n)
         PROVE  now.depth > 0 /\ now.depth = B[n] - B[h - 1] /\ now.bodyIsJs = f.lines[h].js
    <2>1. CASE h = n
      <3>1. was.depth <= 0 /\ l.sort = "proc" /\ net > 0 /\ l = f.lines[h]
        BY <1>6, <1>9, <1>13, <2>1 DEF l
      <3> QED
        BY <1>4, <1>5, <1>7, <2>1, <3>1
    <2>2. CASE h # n
      <3>1. Open(f.lines, T, h, n - 1) /\ B[n] > B[h - 1]
        BY <1>8, <1>13, <2>2
      <3>2. was.depth > 0 /\ was.depth = B[n - 1] - B[h - 1] /\ was.bodyIsJs = f.lines[h].js
        BY <1>11, <3>1
      <3> QED
        BY <1>4, <1>5, <1>7, <3>1, <3>2
    <2> QED
      BY <2>1, <2>2
  <1> QED
    BY <1>12, <1>13 DEF ScanAt, T, B, now

LEMMA ScanIsAt ==
  ASSUME BoardAssumption, NEW f, f.lines \in Seq(Lines), NEW s \in Tally
  PROVE  \A n \in 0..Len(f.lines) : ScanAt(f, s, n)
  <1> DEFINE S == {n \in 0..Len(f.lines) : ScanAt(f, s, n)}
  <1>1. Len(f.lines) \in Nat
    OBVIOUS
  <1>2. 0 \in S
    BY <1>1, ScanStarts
  <1>3. ASSUME NEW m \in 1..Len(f.lines), m - 1 \in S PROVE m \in S
    <2>1. ScanAt(f, s, m) /\ m \in 0..Len(f.lines)
      BY <1>1, <1>3, ScanGoesOn
    <2> QED
      BY <2>1
  <1>4. 0..Len(f.lines) \subseteq S
    <2> HIDE DEF S
    <2> QED
      BY <1>1, <1>2, <1>3, UpTo
  <1> QED
    BY <1>4

\* So the lines at the top, however they were chosen, are those the scan takes for it.
LEMMA TopsAre ==
  ASSUME BoardAssumption, NEW f, f.lines \in Seq(Lines), NEW s \in Tally
  PROVE  Tops(f.lines) = Shallow(f, s) /\ IsTop(f.lines, Tops(f.lines))
  <1> DEFINE T == Shallow(f, s)
             U == Tops(f.lines)
  <1>1. T \in SUBSET DOMAIN f.lines
    BY DEF Shallow
  <1>2. IsTop(f.lines, T)
    <2>1. ASSUME NEW i \in DOMAIN f.lines
          PROVE  i \in T <=> ~\E h \in T : f.lines[h].sort = "proc" /\ i \in Body(f.lines, h)
      <3>1. i - 1 \in 0..Len(f.lines)
        OBVIOUS
      <3>2. ScanAt(f, s, i - 1) /\ Scan(f, s)[i - 1].depth \in Int
        BY <3>1, ScanIsAt, ScanIs, TallyIs
      <3>3. i \in T <=> Scan(f, s)[i - 1].depth <= 0
        BY DEF Shallow
      <3>4. Scan(f, s)[i - 1].depth > 0 <=> \E h \in T : Open(f.lines, T, h, i - 1)
        BY <3>2 DEF ScanAt
      <3>5. \A h \in T : f.lines[h].sort = "proc" /\ i \in Body(f.lines, h) <=> Open(f.lines, T, h, i - 1)
        BY <1>1, InBody
      <3> HIDE DEF T
      <3> QED
        BY <3>2, <3>3, <3>4, <3>5
    <2> QED
      BY <2>1 DEF IsTop
  <1>3. U \in SUBSET DOMAIN f.lines /\ IsTop(f.lines, U)
    BY <1>1, <1>2 DEF Tops, IsTop
  <1> HIDE DEF T, U
  <1>4. U = T
    BY <1>1, <1>2, <1>3, OneTop
  <1> QED
    BY <1>3, <1>4 DEF T, U
----------------------------------------------------------------------------
(* The counts *)

\* The members of W up to n, and how many they are.
Low(W, n) == {i \in W : i <= n}

LEMMA LowCounts ==
  ASSUME NEW size \in Nat, NEW W \in SUBSET (1..size)
  PROVE  /\ Low(W, 0) = {} /\ Low(W, size) = W
         /\ \A n \in 0..size : IsFiniteSet(Low(W, n)) /\ Cardinality(Low(W, n)) \in Nat
         /\ \A n \in 1..size : Cardinality(Low(W, n)) = Cardinality(Low(W, n - 1)) + (IF n \in W THEN 1 ELSE 0)
  <1>1. \A i \in W : i \in 1..size /\ i \in Nat /\ ~(i <= 0) /\ i <= size
    OBVIOUS
  <1>2. Low(W, 0) = {} /\ Low(W, size) = W
    BY <1>1, Zenon DEF Low
  <1>3. ASSUME NEW n \in 0..size PROVE IsFiniteSet(Low(W, n)) /\ Cardinality(Low(W, n)) \in Nat
    <2>1. IsFiniteSet(1..size)
      BY FS_Interval
    <2>2. Low(W, n) \subseteq 1..size
      BY <1>1 DEF Low
    <2>3. IsFiniteSet(Low(W, n))
      BY <2>1, <2>2, FS_Subset
    <2> QED
      BY <2>3, FS_CardinalityType
  <1>4. ASSUME NEW n \in 1..size
        PROVE  Cardinality(Low(W, n)) = Cardinality(Low(W, n - 1)) + (IF n \in W THEN 1 ELSE 0)
    <2>1. IsFiniteSet(Low(W, n - 1)) /\ Cardinality(Low(W, n - 1)) \in Nat
      BY <1>3
    <2>2. (\A i \in W : i <= n <=> i <= n - 1 \/ i = n) /\ ~(n <= n - 1)
      BY <1>1
    <2>3. CASE n \in W
      <3>1. Low(W, n) = Low(W, n - 1) \cup {n} /\ n \notin Low(W, n - 1)
        BY <2>2, <2>3, Zenon DEF Low
      <3> QED
        BY <2>1, <2>3, <3>1, FS_AddElement
    <2>4. CASE n \notin W
      <3>1. Low(W, n) = Low(W, n - 1)
        BY <2>2, <2>4, Zenon DEF Low
      <3> QED
        BY <2>1, <2>4, <3>1
    <2> QED
      BY <2>3, <2>4
  <1> QED
    BY <1>2, <1>3, <1>4

\* What is counted one by one is the number of those that are counted.
LEMMA CountsUp ==
  ASSUME NEW size \in Nat, NEW W \in SUBSET (1..size), NEW h, NEW start \in Int, h[0] = start,
         \A n \in 1..size : h[n] = h[n - 1] + (IF n \in W THEN 1 ELSE 0)
  PROVE  h[size] = start + Cardinality(W)
  <1> DEFINE S == {n \in 0..size : h[n] = start + Cardinality(Low(W, n))}
  <1>1. 0 \in S
    <2>1. Cardinality(Low(W, 0)) = 0
      BY LowCounts, FS_EmptySet
    <2> QED
      BY <2>1
  <1>2. ASSUME NEW n \in 1..size, n - 1 \in S PROVE n \in S
    <2> DEFINE one == IF n \in W THEN 1 ELSE 0
               was == Cardinality(Low(W, n - 1))
               now == Cardinality(Low(W, n))
    <2>1. n \in 0..size /\ n - 1 \in 0..size /\ one \in Int
      OBVIOUS
    <2>2. h[n - 1] = start + was /\ h[n] = h[n - 1] + one
      BY <1>2
    <2>3. now = was + one /\ was \in Int
      <3>1. \A m \in 1..size :
              Cardinality(Low(W, m)) = Cardinality(Low(W, m - 1)) + (IF m \in W THEN 1 ELSE 0)
        BY LowCounts
      <3>2. Cardinality(Low(W, n - 1)) \in Nat
        BY <2>1, LowCounts
      <3> QED
        BY <3>1, <3>2
    <2>4. h[n] = start + now
      <3> HIDE DEF one, was, now
      <3> QED
        BY <2>1, <2>2, <2>3
    <2> QED
      BY <2>1, <2>4
  <1>3. size \in S
    <2> HIDE DEF S
    <2>1. 0..size \subseteq S /\ size \in 0..size
      BY <1>1, <1>2, UpTo
    <2> QED
      BY <2>1
  <1>4. Low(W, size) = W
    BY LowCounts
  <1> QED
    BY <1>3, <1>4

\* A line adds to what escapes just if it is one of the lines that do.
LEMMA EscapesIsEscaped ==
  ASSUME BoardAssumption, NEW f, f.lines \in Seq(Lines), f.ext \in {"kz", "kjs"}, NEW s \in Tally,
         NEW n \in 1..Len(f.lines)
  PROVE  /\ Escapes(Scan(f, s)[n - 1], f.lines[n], IsJs(f)) <=> n \in Escaped(f.lines, f.ext)
         /\ Scan(f, s)[n - 1].depth <= 0 /\ f.lines[n].sort = "koru" <=> n \in TopsOf(f.lines, "koru")
  <1> DEFINE ls == f.lines
             T == Tops(ls)
             was == Scan(f, s)[n - 1]
  <1>1. n \in DOMAIN ls /\ n - 1 \in 0..Len(ls)
    OBVIOUS
  <1>2. T = Shallow(f, s)
    BY TopsAre
  <1>3. n \in T <=> was.depth <= 0
    BY <1>1, <1>2 DEF Shallow
  <1>4. was.depth > 0 => \E h \in T : Open(ls, T, h, n - 1)
    BY <1>1, <1>2, ScanIsAt DEF ScanAt
  <1>5. \A h \in T : Open(ls, T, h, n - 1) => was.depth > 0 /\ was.bodyIsJs = ls[h].js
    BY <1>1, <1>2, ScanIsAt DEF ScanAt
  <1>6. \A h \in T : ls[h].sort = "proc" /\ n \in Body(ls, h) <=> Open(ls, T, h, n - 1)
    <2>1. T \in SUBSET DOMAIN ls
      BY <1>2 DEF Shallow
    <2> QED
      BY <1>1, <2>1, InBody
  <1>7. was.depth \in Int
    BY <1>1, ScanIs, TallyIs
  <1>8. n \in TopsOf(ls, "koru") <=> n \in T /\ ls[n].sort = "koru"
    BY DEF TopsOf
  <1>9. n \in Escaped(ls, f.ext) <=>
          \/ n \in T /\ ls[n].sort = "proc" /\ ls[n].js
          \/ ls[n].sort # "skipped" /\ \E h \in T : ls[h].sort = "proc" /\ ls[h].js /\ n \in Body(ls, h)
          \/ f.ext = "kjs" /\ n \in T /\ ls[n].sort = "host"
    <2>1. \A h : h \in TopsOf(ls, "proc") <=> h \in T /\ ls[h].sort = "proc"
      BY DEF TopsOf
    <2>2. n \in TopsOf(ls, "host") <=> n \in T /\ ls[n].sort = "host"
      BY DEF TopsOf
    <2> HIDE DEF T
    <2> QED
      BY <2>1, <2>2 DEF Escaped
  <1> HIDE DEF T, was
  <1>10. (ls[n].sort # "skipped" /\ \E h \in T : ls[h].sort = "proc" /\ ls[h].js /\ n \in Body(ls, h))
          <=> ls[n].sort # "skipped" /\ was.depth > 0 /\ was.bodyIsJs
    BY <1>4, <1>5, <1>6
  <1>11. Escapes(was, ls[n], IsJs(f)) <=> n \in Escaped(ls, f.ext)
    BY <1>3, <1>7, <1>9, <1>10 DEF Escapes, IsJs
  <1> QED
    BY <1>3, <1>8, <1>11 DEF was

\* The lines counted are lines of the file, finitely many.
LEMMA OwnersAre ==
  ASSUME BoardAssumption, NEW ls \in Seq(Lines), NEW ext
  PROVE  /\ Escaped(ls, ext) \in SUBSET (1..Len(ls)) /\ TopsOf(ls, "koru") \in SUBSET (1..Len(ls))
         /\ Cardinality(Escaped(ls, ext)) \in Nat /\ Cardinality(TopsOf(ls, "koru")) \in Nat
  <1>1. Tops(ls) \subseteq 1..Len(ls)
    <2> DEFINE f == [lines |-> ls]
    <2>1. f.lines = ls
      OBVIOUS
    <2> HIDE DEF f
    <2>2. Tops(f.lines) = Shallow(f, Zero)
      BY <2>1, ZeroIs, TopsAre
    <2>3. Shallow(f, Zero) \subseteq DOMAIN f.lines
      BY DEF Shallow
    <2> QED
      BY <2>1, <2>2, <2>3
  <1>2. \A h \in 1..Len(ls) : Body(ls, h) \subseteq 1..Len(ls)
    BY DEF Body
  <1>3. Escaped(ls, ext) \in SUBSET (1..Len(ls)) /\ TopsOf(ls, "koru") \in SUBSET (1..Len(ls))
    BY <1>1, <1>2 DEF Escaped, TopsOf
  <1>4. IsFiniteSet(1..Len(ls))
    BY FS_Interval
  <1>5. IsFiniteSet(Escaped(ls, ext)) /\ IsFiniteSet(TopsOf(ls, "koru"))
    BY <1>3, <1>4, FS_Subset
  <1> QED
    BY <1>3, <1>5, FS_CardinalityType

\* The scan of a host file of any number of lines adds the lines that escape, and the ~
\* lines at the top.
LEMMA ScanCounts ==
  ASSUME BoardAssumption, NEW f, f.lines \in Seq(Lines), f.ext \in {"kz", "kjs"}, NEW s \in Tally
  PROVE  LET t == Scan(f, s)[Len(f.lines)]
         IN  /\ t.host = s.host + Cardinality(Escaped(f.lines, f.ext))
             /\ t.koru = s.koru + Cardinality(TopsOf(f.lines, "koru"))
  <1> DEFINE size == Len(f.lines)
             ls == f.lines
             h == Scan(f, s)
             host == [n \in 0..size |-> h[n].host]
             koru == [n \in 0..size |-> h[n].koru]
             E == Escaped(ls, f.ext)
             K == TopsOf(ls, "koru")
  <1>1. size \in Nat /\ DOMAIN ls = 1..size /\ size \in 0..size
    OBVIOUS
  <1>2. s.host \in Int /\ s.koru \in Int
    BY TallyIs
  <1>3. E \in SUBSET (1..size) /\ K \in SUBSET (1..size)
    BY OwnersAre
  <1>4. host[0] = s.host /\ koru[0] = s.koru
    <2> DEFINE c == [Zero EXCEPT !.koru = s.koru, !.host = s.host]
    <2>1. h[0] = c
      BY ScanIs
    <2>2. c.koru = s.koru /\ c.host = s.host
      BY StartIs
    <2>3. 0 \in 0..size
      BY <1>1
    <2>4. h[0].koru = s.koru /\ h[0].host = s.host
      BY <2>1, <2>2
    <2> HIDE DEF h, size
    <2> QED
      BY <2>3, <2>4
  <1>5. ASSUME NEW n \in 1..size
        PROVE  /\ host[n] = host[n - 1] + (IF n \in E THEN 1 ELSE 0)
               /\ koru[n] = koru[n - 1] + (IF n \in K THEN 1 ELSE 0)
    <2>1. n \in 0..size /\ n - 1 \in 0..size /\ ls[n] \in Lines /\ IsJs(f) \in BOOLEAN
      BY <1>1 DEF IsJs
    <2>2. h[n - 1] \in Tally /\ h[n] = Scanned(h[n - 1], ls[n], IsJs(f))
      BY <2>1, ScanIs
    <2>3. Steps(h[n - 1], ls[n], IsJs(f), h[n])
      <3> HIDE DEF h, ls
      <3> QED
        BY <2>1, <2>2, ScannedIs
    <2>4. Escapes(h[n - 1], ls[n], IsJs(f)) <=> n \in E
      BY EscapesIsEscaped
    <2>5. h[n - 1].depth <= 0 /\ ls[n].sort = "koru" <=> n \in K
      BY EscapesIsEscaped
    <2>6. host[n] = h[n].host /\ host[n - 1] = h[n - 1].host /\ koru[n] = h[n].koru /\ koru[n - 1] = h[n - 1].koru
      BY <2>1
    <2> HIDE DEF h, ls, host, koru, E, K
    <2> QED
      BY <2>3, <2>4, <2>5, <2>6 DEF Steps
  <1>6. h[size].host = host[size] /\ h[size].koru = koru[size]
    BY <1>1
  <1> HIDE DEF h, size, host, koru, E, K
  <1>7. host[size] = s.host + Cardinality(E)
    BY <1>1, <1>2, <1>3, <1>4, <1>5, CountsUp
  <1>8. koru[size] = s.koru + Cardinality(K)
    BY <1>1, <1>2, <1>3, <1>4, <1>5, CountsUp
  <1> QED
    BY <1>6, <1>7, <1>8 DEF h, size, E, K
----------------------------------------------------------------------------
\* What one file of a vehicle adds to the Koru lines and to those that escape.
KoruOf(f) ==
    IF f.skipped THEN 0
    ELSE IF f.ext = "k" THEN Cardinality({i \in DOMAIN f.lines : f.lines[i].sort # "skipped"})
    ELSE Cardinality(TopsOf(f.lines, "koru"))
EscapedOf(f) == IF f.skipped \/ f.ext = "k" THEN 0 ELSE Cardinality(Escaped(f.lines, f.ext))

\* js_escape of any vehicle, any number of files of any number of lines: file by file it
\* adds the lines at their owner, and no file's braces or language reach into the next
\* (board.mjs, computeJsEscape).
THEOREM EscapeOfAnyVehicle ==
  ASSUME BoardAssumption, NEW src \in Seq(File)
  PROVE  /\ Walk(src)[0].koru = 0 /\ Walk(src)[0].host = 0
         /\ \A n \in 1..Len(src) : /\ Walk(src)[n].koru = Walk(src)[n - 1].koru + KoruOf(src[n])
                                   /\ Walk(src)[n].host = Walk(src)[n - 1].host + EscapedOf(src[n])
         /\ LET s == Walk(src)[Len(src)]
            IN  Escape(src) = [escaped |-> s.host, total |-> s.koru + s.host]
  <1>1. Walk(src)[0].koru = 0 /\ Walk(src)[0].host = 0
    BY WalkIs DEF Zero
  <1>2. ASSUME NEW n \in 1..Len(src)
        PROVE  /\ Walk(src)[n].koru = Walk(src)[n - 1].koru + KoruOf(src[n])
               /\ Walk(src)[n].host = Walk(src)[n - 1].host + EscapedOf(src[n])
    <2> DEFINE f == src[n]
               s == Walk(src)[n - 1]
               t == Walk(src)[n]
    <2>1. f \in File
      OBVIOUS
    <2>2. s \in Tally /\ t = Counted(f, s)
      <3>1. n - 1 \in 0..Len(src)
        OBVIOUS
      <3> QED
        BY <3>1, WalkIs
    <2> HIDE DEF f, s, t
    <2>3. s.koru \in Int /\ s.host \in Int
      BY <2>2, TallyIs
    <2>4. f.skipped \in BOOLEAN /\ f.ext \in {"k", "kz", "kjs"} /\ f.lines \in Seq(Lines)
      BY <2>1 DEF File
    <2>5. CASE f.skipped
      <3>1. t = s
        BY <2>2, <2>5 DEF Counted
      <3> QED
        BY <2>3, <2>5, <3>1 DEF KoruOf, EscapedOf, f, s, t
    <2>6. CASE ~f.skipped /\ f.ext = "k"
      <3> DEFINE k == s.koru + Cardinality({i \in DOMAIN f.lines : f.lines[i].sort # "skipped"})
      <3>1. t = [s EXCEPT !.koru = k]
        BY <2>2, <2>6 DEF Counted
      <3>2. t.koru = k /\ t.host = s.host
        <4> HIDE DEF k
        <4> QED
          BY <2>2, <3>1 DEF Tally
      <3> QED
        BY <2>3, <2>6, <3>2 DEF KoruOf, EscapedOf, f, s, t
    <2>7. CASE ~f.skipped /\ f.ext \in {"kz", "kjs"}
      <3>1. t = Scan(f, s)[Len(f.lines)]
        BY <2>2, <2>7 DEF Counted
      <3>2. /\ t.host = s.host + Cardinality(Escaped(f.lines, f.ext))
            /\ t.koru = s.koru + Cardinality(TopsOf(f.lines, "koru"))
        BY <2>2, <2>4, <2>7, <3>1, ScanCounts
      <3> QED
        BY <2>7, <3>2 DEF KoruOf, EscapedOf, f, s, t
    <2> QED
      BY <2>4, <2>5, <2>6, <2>7
  <1>3. LET s == Walk(src)[Len(src)]
        IN  Escape(src) = [escaped |-> s.host, total |-> s.koru + s.host]
    BY DEF Escape
  <1> QED
    BY <1>1, <1>2, <1>3

\* Every line of a host file is counted by the language it belongs to, for files of any
\* number of lines and lines of any number of braces (board.mjs, classifyHostFile).
THEOREM EscapesByOwner == ASSUME BoardAssumption PROVE BoardSpec => []EscapeIsByOwner
  <1>1. ASSUME NEW n \in 0..MaxLines, NEW ls \in [1..n -> Lines], NEW ext \in {"kz", "kjs"}
        PROVE  LET e == Escape(<<[ext |-> ext, skipped |-> FALSE, lines |-> ls]>>)
               IN  /\ e.escaped = Cardinality(Escaped(ls, ext))
                   /\ e.total = e.escaped + Cardinality(TopsOf(ls, "koru"))
    <2> DEFINE f == [ext |-> ext, skipped |-> FALSE, lines |-> ls]
               src == <<f>>
               a == Walk(src)[0]
               b == Walk(src)[1]
    <2>1. ls \in Seq(Lines)
      BY BoardAssumption DEF BoardAssumption
    <2>2. f \in File /\ f.lines = ls /\ f.ext = ext /\ ~f.skipped
      BY <2>1 DEF File
    <2>3. src \in Seq(File) /\ Len(src) = 1 /\ src[1] = f
      <3> HIDE DEF f
      <3> QED
        BY <2>2
    <2>4. a.koru = 0 /\ a.host = 0 /\ b.koru = a.koru + KoruOf(f) /\ b.host = a.host + EscapedOf(f)
      <3> HIDE DEF f, src
      <3>1. /\ a.koru = 0 /\ a.host = 0
            /\ \A k \in 1..Len(src) : /\ Walk(src)[k].koru = Walk(src)[k - 1].koru + KoruOf(src[k])
                                      /\ Walk(src)[k].host = Walk(src)[k - 1].host + EscapedOf(src[k])
        BY <2>3, EscapeOfAnyVehicle
      <3>2. 1 \in 1..Len(src) /\ 1 - 1 = 0
        BY <2>3
      <3>3. /\ Walk(src)[1].koru = Walk(src)[1 - 1].koru + KoruOf(src[1])
            /\ Walk(src)[1].host = Walk(src)[1 - 1].host + EscapedOf(src[1])
        BY <3>1, <3>2
      <3> QED
        BY <2>3, <3>1, <3>2, <3>3
    <2>5. KoruOf(f) = Cardinality(TopsOf(ls, "koru")) /\ EscapedOf(f) = Cardinality(Escaped(ls, ext))
      <3> HIDE DEF f
      <3> QED
        BY <2>2 DEF KoruOf, EscapedOf
    <2>6. b \in Tally
      <3> HIDE DEF f, src
      <3>1. 1 \in 0..Len(src)
        BY <2>3
      <3> QED
        BY <2>3, <3>1, WalkIs
    <2>7. Escape(src) = [escaped |-> b.host, total |-> b.koru + b.host]
      <3> HIDE DEF f, src
      <3> QED
        BY <2>3 DEF Escape
    <2>8. b.host \in Int /\ b.koru \in Int
      BY <2>6, TallyIs
    <2>9. b.host = EscapedOf(f) /\ b.koru = KoruOf(f)
      <3>1. a.koru + KoruOf(f) = KoruOf(f) /\ a.host + EscapedOf(f) = EscapedOf(f)
        <4>1. KoruOf(f) \in Int /\ EscapedOf(f) \in Int
          BY <2>1, <2>5, OwnersAre
        <4> HIDE DEF a, f
        <4> QED
          BY <2>4, <4>1
      <3> HIDE DEF a, b, f
      <3> QED
        BY <2>4, <3>1
    <2>10. LET e == Escape(src)
           IN  /\ e.escaped = Cardinality(Escaped(ls, ext))
               /\ e.total = e.escaped + Cardinality(TopsOf(ls, "koru"))
      <3> HIDE DEF f, src, b
      <3> QED
        BY <2>5, <2>7, <2>8, <2>9
    <2> QED
      BY <2>10
  <1>2. EscapeIsByOwner
    BY <1>1 DEF EscapeIsByOwner
  <1> QED
    BY <1>2, PTL DEF BoardSpec

----------------------------------------------------------------------------
(* The timing readers: one window, one run, one regime.                    *)

FileRec == [run : Nat \ {0}, at : Nat]
RunRec == [n : Counts, from : Nat, to : Nat]
RowRec == [run : Nat \ {0}, n : Counts, at : Nat,
           xs : UNION {Samples(n, Quick \cup Busy) : n \in Counts}, torn : BOOLEAN]

DriverShape ==
    /\ dir \in [Cells -> FileRec \cup {NoFile}]
    /\ log \in Seq(RunRec) /\ Len(log) <= MaxDrives
    /\ at \in 0..(Cardinality(Cells) + 1) /\ clock \in Nat /\ aborts \in 0..MaxAborts

\* A file was written by a run that has begun, after its begin and no later than its
\* last file.
Within(x) == log[x.run].from <= x.at /\ x.at <= log[x.run].to
Files == {c \in Cells : dir[c] # NoFile}
FilesKept == \A c \in Files : dir[c].run \in DOMAIN log /\ Within(dir[c])
LogKept == \A r \in DOMAIN log : log[r].from <= clock /\ log[r].to <= clock

DriverInv == DriverShape /\ FilesKept /\ LogKept

ReaderShape ==
    /\ reader \in {"idle", "read", "table"} /\ by \in {"ladder", "timings"} /\ gated \in BOOLEAN
    /\ cols \subseteq Frameworks /\ bench \in DOMAIN Benchmarks /\ half \in Cells \cup {NoCell}
    /\ ranked \subseteq DOMAIN Benchmarks
    /\ verdict \in {"none", "refused", "died", "unverified", "accepted"}
    /\ got \in [Cells -> RowRec \cup {NoFile, Unread}]

\* A row holds what a file held when it was read; its time is of the same run unless
\* it is torn.
Read1 == {c \in Cells : got[c] \in RowRec}
RowsKept ==
    \A c \in Read1 :
        /\ got[c].run \in DOMAIN log /\ got[c].n = log[got[c].run].n
        /\ got[c].xs \in Samples(got[c].n, Quick \cup Busy)
        /\ ~got[c].torn => Within(got[c])
HalfKept ==
    half # NoCell => half \in Read1 /\ half \in Files /\ (reader = "read" => half[2] = bench)

\* What is ranked passed windowFault, and is not read again.
RankedKept ==
    /\ \A b \in ranked : WindowFault(Row(b)) = "none"
    /\ reader = "read" => \A b \in ranked : b < bench
    /\ reader # "idle" => verdict = "none"

\* In a ladder every column has the benchmarks that are ranked.
TwinKept ==
    by = "ladder" =>
        /\ \A b \in ranked : \A f \in cols : <<f, b>> \in Read1
        /\ (reader # "idle" \/ verdict = "accepted") /\ gated => {Base, Twin} \subseteq cols
        /\ gated /\ verdict = "accepted" => TwinAgrees

TimingsInv == DriverInv /\ ReaderShape /\ RowsKept /\ HalfKept /\ RankedKept /\ TwinKept

LEMMA CellsFinite ==
  /\ IsFiniteSet(Cells) /\ Cardinality(Cells) \in Nat
  /\ \A f \in Frameworks, b \in DOMAIN Benchmarks : <<f, b>> \in Cells
  /\ DOMAIN Benchmarks = 1..Len(Benchmarks) /\ Len(Benchmarks) \in Nat \ {0}
  <1>1. IsFiniteSet(Frameworks)
    BY TimingsAssumption
  <1>2. DOMAIN Benchmarks = 1..Len(Benchmarks) /\ Len(Benchmarks) \in Nat \ {0}
    BY TimingsAssumption
  <1>3. IsFiniteSet(DOMAIN Benchmarks)
    BY <1>2, FS_Interval
  <1>4. IsFiniteSet(Frameworks \X DOMAIN Benchmarks)
    BY <1>1, <1>3, FS_Product
  <1> QED
    BY <1>2, <1>4, FS_CardinalityType DEF Cells

\* Files and rows are told from what stands for none by their run.
LEMMA RunsTell ==
  /\ \A r \in FileRec : r # NoFile
  /\ \A r \in RowRec : r.run \in Nat \ {0} /\ r # NoFile /\ r # Unread
  /\ NoFile.run = 0 /\ Unread.run = -1 /\ NoFile # Unread
  <1>1. NoFile.run = 0 /\ Unread.run = -1
    BY DEF NoFile, Unread
  <1>2. \A r \in FileRec : r.run \in Nat \ {0}
    BY DEF FileRec
  <1>3. \A r \in RowRec : r.run \in Nat \ {0}
    BY DEF RowRec
  <1>4. NoFile # Unread
    BY <1>1
  <1> QED
    BY <1>1, <1>2, <1>3, <1>4

LEMMA FileIsRec == ASSUME DriverShape, NEW c \in Cells PROVE c \in Files <=> dir[c] \in FileRec
  BY RunsTell DEF DriverShape, Files

LEMMA RowIsRec ==
  ASSUME ReaderShape, NEW c \in Cells
  PROVE  /\ c \in Read1 <=> got[c].run > 0
         /\ c \in Read1 <=> got[c] # NoFile /\ got[c] # Unread
  <1>1. got[c] \in RowRec \cup {NoFile, Unread}
    BY DEF ReaderShape
  <1>2. got[c] \in RowRec => got[c].run > 0 /\ got[c] # NoFile /\ got[c] # Unread
    BY RunsTell
  <1>3. got[c] \in {NoFile, Unread} => ~(got[c].run > 0)
    BY RunsTell
  <1> QED
    BY <1>1, <1>2, <1>3 DEF Read1

LEMMA CellsAre ==
  /\ \A c \in Cells : /\ c # NoCell /\ c[1] \in Frameworks /\ c[2] \in DOMAIN Benchmarks
                      /\ c = <<c[1], c[2]>>
  /\ \A f, b : <<f, b>> # NoCell /\ <<f, b>>[2] = b
  BY DEF Cells, NoCell

LEMMA TimingsFromInit == ASSUME TimingsInit PROVE TimingsInv
  <1>0. /\ Cardinality(Cells) \in Nat /\ MaxDrives \in Nat /\ MaxAborts \in Nat
        /\ 1 \in DOMAIN Benchmarks
    BY CellsFinite, TimingsAssumption
  <1>1. /\ dir = [c \in Cells |-> NoFile] /\ log = <<>> /\ at = 0 /\ clock = 0 /\ aborts = 0
        /\ reader = "idle" /\ by = "ladder" /\ gated = FALSE /\ cols = {} /\ bench = 1
        /\ got = [c \in Cells |-> Unread] /\ half = NoCell /\ ranked = {} /\ verdict = "none"
    BY DEF TimingsInit
  <1>2. log \in Seq(RunRec) /\ Len(log) = 0 /\ DOMAIN log = {}
    BY <1>1
  <1>3. DriverShape
    BY <1>0, <1>1, <1>2 DEF DriverShape
  <1>4. Files = {}
    BY <1>1 DEF Files
  <1>5. DriverInv
    BY <1>2, <1>3, <1>4 DEF DriverInv, FilesKept, LogKept
  <1>6. ReaderShape
    BY <1>0, <1>1 DEF ReaderShape
  <1>7. Read1 = {}
    BY <1>1, RunsTell DEF Read1
  <1>8. RowsKept /\ HalfKept
    BY <1>1, <1>7 DEF RowsKept, HalfKept
  <1>9. RankedKept /\ TwinKept
    BY <1>1 DEF RankedKept, TwinKept
  <1> QED
    BY <1>5, <1>6, <1>8, <1>9 DEF TimingsInv

----------------------------------------------------------------------------
(* The driver's steps.                                                     *)

\* The runs that have begun stay, and only the last one may write later files.
LogGrows ==
    \A r \in DOMAIN log :
        /\ r \in DOMAIN log' /\ log'[r].n = log[r].n /\ log'[r].from = log[r].from
        /\ log[r].to <= log'[r].to /\ log'[r].to \in Nat /\ log[r].to \in Nat /\ log[r].from \in Nat

LEMMA DriveKeeps ==
  ASSUME DriverInv, NEW n \in Counts, NEW gap \in {1, SpanMax + 1}, Drive(n, gap)
  PROVE  DriverInv' /\ LogGrows
  <1> DEFINE new == [n |-> n, from |-> clock + gap, to |-> clock + gap]
  <1>1. /\ log' = Append(log, new) /\ Len(log) < MaxDrives
        /\ at' = 1 /\ clock' = clock + gap /\ dir' = dir /\ aborts' = aborts
    BY DEF Drive
  <1>2. /\ MaxDrives \in Nat /\ SpanMax \in Nat /\ Cardinality(Cells) \in Nat /\ gap \in Nat
        /\ clock \in Nat
    BY CellsFinite, TimingsAssumption DEF DriverInv, DriverShape
  <1>3. new \in RunRec /\ new.from = clock' /\ new.to = clock'
    BY <1>1, <1>2 DEF RunRec
  <1>4. log \in Seq(RunRec)
    BY DEF DriverInv, DriverShape
  <1> HIDE DEF new
  <1>5. /\ log' \in Seq(RunRec) /\ Len(log') = Len(log) + 1 /\ Len(log) \in Nat
        /\ DOMAIN log = 1..Len(log) /\ DOMAIN log' = 1..(Len(log) + 1)
        /\ \A r \in DOMAIN log : log'[r] = log[r]
        /\ log'[Len(log) + 1] = new
    BY <1>1, <1>3, <1>4
  <1>6. DriverShape'
    BY <1>1, <1>2, <1>5 DEF DriverInv, DriverShape
  <1>7. LogGrows
    <2>1. \A r \in DOMAIN log : log[r] \in RunRec
      BY <1>4, <1>5
    <2>2. \A r \in DOMAIN log : log[r].to \in Nat /\ log[r].from \in Nat
      BY <2>1 DEF RunRec
    <2> QED
      BY <1>5, <2>2 DEF LogGrows
  <1>8. Files' = Files
    BY <1>1 DEF Files
  <1>9. FilesKept'
    BY <1>1, <1>5, <1>8 DEF DriverInv, FilesKept, Within
  <1>10. LogKept'
    <2>1. ASSUME NEW r \in DOMAIN log' PROVE log'[r].from <= clock' /\ log'[r].to <= clock'
      <3>1. CASE r \in DOMAIN log
        <4>1. log[r].from <= clock /\ log[r].to <= clock /\ log[r].from \in Nat /\ log[r].to \in Nat
          BY <3>1, <1>7 DEF DriverInv, LogKept, LogGrows
        <4> QED
          BY <3>1, <4>1, <1>1, <1>2, <1>5
      <3>2. CASE r = Len(log) + 1
        BY <3>2, <1>1, <1>2, <1>3, <1>5
      <3> QED
        BY <3>1, <3>2, <1>5
    <2> QED
      BY <2>1 DEF LogKept
  <1> QED
    BY <1>6, <1>7, <1>9, <1>10 DEF DriverInv

LEMMA MeasureKeeps == ASSUME DriverInv, Measure PROVE DriverInv' /\ LogGrows
  <1> DEFINE here == CellAt(at)
             last == Len(log)
             new == [run |-> last, at |-> clock]
  <1>1. /\ dir' = [dir EXCEPT ![here] = new] /\ log' = [log EXCEPT ![last].to = clock]
        /\ at' = at + 1 /\ clock' = clock + 1 /\ aborts' = aborts
        /\ log # <<>> /\ at <= Cardinality(Cells)
    BY DEF Measure, Running
  <1>2. /\ log \in Seq(RunRec) /\ clock \in Nat /\ Cardinality(Cells) \in Nat /\ at \in Nat
        /\ dir \in [Cells -> FileRec \cup {NoFile}] /\ Len(log) <= MaxDrives
        /\ aborts \in 0..MaxAborts
    BY CellsFinite DEF DriverInv, DriverShape
  <1>3. last \in Nat \ {0} /\ DOMAIN log = 1..last
    <2>1. Len(log) \in Nat /\ DOMAIN log = 1..Len(log)
      BY <1>2
    <2>2. Len(log) \in Nat \ {0}
      BY <1>1, <1>2, EmptySeq
    <2> QED
      BY <2>1, <2>2
  <1>4. \A r \in DOMAIN log : /\ log[r] \in RunRec /\ log[r].n \in Counts
                              /\ log[r].from \in Nat /\ log[r].to \in Nat
    <2>1. \A r \in DOMAIN log : log[r] \in RunRec
      BY <1>2
    <2>2. \A x \in RunRec : x.n \in Counts /\ x.from \in Nat /\ x.to \in Nat
      BY DEF RunRec
    <2> QED
      BY <2>1, <2>2
  <1>5. new \in FileRec /\ new.run = last /\ new.at = clock
    BY <1>2, <1>3 DEF FileRec
  <1> HIDE DEF here, new
  <1>6. /\ DOMAIN log' = DOMAIN log /\ log' \in Seq(RunRec) /\ Len(log') = last
        /\ \A r \in DOMAIN log : /\ log'[r].n = log[r].n /\ log'[r].from = log[r].from
                                 /\ log'[r].to = IF r = last THEN clock ELSE log[r].to
    <2>1. \A r \in DOMAIN log : log'[r] = IF r = last THEN [log[r] EXCEPT !.to = clock] ELSE log[r]
      BY <1>1, <1>3
    <2>2. \A x \in RunRec : /\ [x EXCEPT !.to = clock] \in RunRec
                            /\ [x EXCEPT !.to = clock].n = x.n /\ [x EXCEPT !.to = clock].from = x.from
                            /\ [x EXCEPT !.to = clock].to = clock
      BY <1>2 DEF RunRec
    <2>3. \A r \in DOMAIN log : /\ log'[r] \in RunRec
                                /\ log'[r].n = log[r].n /\ log'[r].from = log[r].from
                                /\ log'[r].to = IF r = last THEN clock ELSE log[r].to
      BY <1>4, <2>1, <2>2
    <2>4. DOMAIN log' = 1..last /\ log' = [r \in 1..last |-> log'[r]]
      BY <1>1, <1>3
    <2>5. log' \in [1..last -> RunRec]
      BY <2>3, <2>4, <1>3
    <2> QED
      BY <1>3, <2>3, <2>4, <2>5, SeqDef
  <1> HIDE DEF last
  <1>7. LogGrows
    BY <1>2, <1>4, <1>6 DEF LogGrows, DriverInv, LogKept
  <1>8. DriverShape'
    <2>1. dir' \in [Cells -> FileRec \cup {NoFile}]
      BY <1>1, <1>2, <1>5
    <2>2. Len(log') = Len(log)
      BY <1>6 DEF last
    <2>3. at' \in 0..(Cardinality(Cells) + 1) /\ clock' \in Nat
      BY <1>1, <1>2
    <2> QED
      BY <2>1, <2>2, <2>3, <1>1, <1>2, <1>6 DEF DriverShape
  <1>9. FilesKept'
    <2>1. ASSUME NEW c \in Files' PROVE dir'[c].run \in DOMAIN log' /\ Within(dir[c])'
      <3>0. c \in Cells /\ dir'[c] # NoFile
        BY DEF Files
      <3>1. CASE c = here
        <4>1. dir'[c] = new /\ dir'[c].run = last /\ dir'[c].at = clock /\ last \in DOMAIN log
          BY <3>0, <3>1, <1>1, <1>2, <1>3, <1>5
        <4>2. log'[last].from = log[last].from /\ log'[last].to = clock /\ log[last].from <= clock
          BY <4>1, <1>6 DEF DriverInv, LogKept
        <4> QED
          BY <4>1, <4>2, <1>2, <1>6 DEF Within
      <3>2. CASE c # here
        <4>1. dir'[c] = dir[c] /\ c \in Files
          BY <3>0, <3>2, <1>1, <1>2 DEF Files
        <4>2. /\ dir[c].run \in DOMAIN log /\ Within(dir[c]) /\ dir[c].at \in Nat
          BY <3>0, <4>1, FileIsRec DEF DriverInv, FilesKept, FileRec
        <4> QED
          BY <4>1, <4>2, <1>7 DEF Within, LogGrows
      <3> QED
        BY <3>1, <3>2
    <2> QED
      BY <2>1 DEF FilesKept
  <1>10. LogKept'
    <2>1. ASSUME NEW r \in DOMAIN log' PROVE log'[r].from <= clock' /\ log'[r].to <= clock'
      <3>1. log[r].from <= clock /\ log[r].to <= clock /\ log[r].from \in Nat /\ log[r].to \in Nat
        BY <1>4, <1>6 DEF DriverInv, LogKept
      <3> QED
        BY <3>1, <1>1, <1>2, <1>6
    <2> QED
      BY <2>1 DEF LogKept
  <1> QED
    BY <1>7, <1>8, <1>9, <1>10 DEF DriverInv

LEMMA PassOnKeeps ==
  ASSUME DriverInv, Abandon \/ Stop \/ UNCHANGED driverVars
  PROVE  DriverInv' /\ LogGrows
  <1>1. /\ Cardinality(Cells) \in Nat /\ MaxAborts \in Nat /\ clock \in Nat /\ log \in Seq(RunRec)
        /\ at \in 0..(Cardinality(Cells) + 1) /\ aborts \in 0..MaxAborts
    BY CellsFinite, TimingsAssumption DEF DriverInv, DriverShape
  <1>2. /\ dir' = dir /\ log' = log
        /\ clock' = clock \/ clock' = clock + 1
        /\ at' \in {at, Cardinality(Cells) + 1} \/ (at <= Cardinality(Cells) /\ at' = at + 1)
        /\ aborts' = aborts \/ (aborts < MaxAborts /\ aborts' = aborts + 1)
    BY DEF Abandon, Stop, Running, driverVars
  <1>3. DriverShape'
    <2>1. at' \in 0..(Cardinality(Cells) + 1) /\ clock' \in Nat /\ aborts' \in 0..MaxAborts
      BY <1>1, <1>2
    <2> QED
      BY <2>1, <1>2 DEF DriverInv, DriverShape
  <1>4. \A r \in DOMAIN log : log[r].from \in Nat /\ log[r].to \in Nat
    <2>1. \A r \in DOMAIN log : log[r] \in RunRec
      BY <1>1
    <2> QED
      BY <2>1 DEF RunRec
  <1>5. LogGrows
    BY <1>2, <1>4 DEF LogGrows
  <1>6. LogKept'
    <2>1. ASSUME NEW r \in DOMAIN log PROVE log[r].from <= clock' /\ log[r].to <= clock'
      <3>1. log[r].from <= clock /\ log[r].to <= clock /\ log[r].from \in Nat /\ log[r].to \in Nat
        BY <1>4 DEF DriverInv, LogKept
      <3> QED
        BY <3>1, <1>1, <1>2
    <2> QED
      BY <2>1, <1>2 DEF LogKept
  <1>7. FilesKept'
    BY <1>2 DEF DriverInv, FilesKept, Files, Within
  <1> QED
    BY <1>3, <1>5, <1>6, <1>7 DEF DriverInv


\* Cross-multiplied ratios compare like the ratios: a/b <= c/d < e/f.
LEMMA RatiosCompare ==
  ASSUME NEW a \in Nat \ {0}, NEW b \in Nat \ {0}, NEW c \in Nat \ {0},
         NEW d \in Nat \ {0}, NEW e \in Nat \ {0}, NEW f \in Nat \ {0},
         a * d <= c * b, c * f < e * d
  PROVE  a * f <= e * b
  <1>1. (a * d) * f <= (c * b) * f
    OBVIOUS
  <1>2. (c * f) * b < (e * d) * b
    OBVIOUS
  <1>3. (a * d) * f = d * (a * f) /\ (c * b) * f = (c * f) * b /\ (e * d) * b = d * (e * b)
    OBVIOUS
  <1>4. d * (a * f) < d * (e * b)
    BY <1>1, <1>2, <1>3
  <1> QED
    BY <1>4

Gaps(xs) == {i \in 1..(Len(xs) - 1) : 4 * xs[i + 1] > 5 * xs[i]}
Wider(xs, i, j) == xs[i + 1] * xs[j] > xs[j + 1] * xs[i]
Widest(xs) == {i \in Gaps(xs) : \A j \in Gaps(xs) : ~Wider(xs, j, i)}

LEMMA FastClusterIs ==
  ASSUME NEW xs
  PROVE  FastCluster(xs) =
           IF Gaps(xs) = {} THEN xs
           ELSE SubSeq(xs, 1, CHOOSE i \in Widest(xs) : \A j \in Widest(xs) : i <= j)
  BY DEF FastCluster, Gaps, Wider, Widest

\* What there is to know of a file's samples: positive numbers, one regime or the other.
LEMMA SamplesAre ==
  ASSUME NEW n \in Nat \ {0}, NEW xs \in Samples(n, Quick \cup Busy)
  PROVE  /\ DOMAIN xs = 1..n /\ Len(xs) = n
         /\ \A i \in 1..n : xs[i] \in Nat \ {0} /\ (xs[i] \in Quick \/ xs[i] \in Busy)
         /\ \A i, j \in 1..n : i < j => xs[i] <= xs[j]
         /\ xs \in Seq(Nat)
  <1>1. DOMAIN xs = 1..n /\ \A i \in 1..n : xs[i] \in Quick \cup Busy
    BY DEF Samples
  <1>2. xs \in [1..n -> Quick \cup Busy]
    BY DEF Samples
  <1>3. Quick \cup Busy \subseteq Nat \ {0}
    BY TimingsAssumption
  <1>4. xs \in Seq(Nat) /\ Len(xs) = n
    BY <1>2, <1>3
  <1>5. \A i, j \in 1..n : i < j => xs[i] <= xs[j]
    BY DEF Samples
  <1> QED
    BY <1>1, <1>3, <1>4, <1>5

\* Contention is slower than any quick sample.
LEMMA RegimesApart ==
  ASSUME NEW q \in Quick, NEW b \in Busy
  PROVE  b > q /\ b \notin Quick /\ q \in Nat \ {0} /\ b \in Nat \ {0}
  <1>1. q \in Nat \ {0} /\ b \in Nat \ {0}
    BY TimingsAssumption
  <1>2. 4 * b > 5 * q /\ \A p \in Quick : 4 * b > 5 * p
    BY RegimesAssumption
  <1>3. b \notin Quick
    <2>1. ~(4 * b > 5 * b)
      BY <1>1
    <2> QED
      BY <1>2, <2>1
  <1> QED
    BY <1>1, <1>2, <1>3

\* Sorted samples change regime once.
LEMMA Boundary ==
  ASSUME NEW n \in Nat \ {0}, NEW xs \in Samples(n, Quick \cup Busy), Alone(xs)
  PROVE  \E k \in 1..n : \A i \in 1..n : xs[i] \in Quick <=> i <= k
  <1>0. /\ DOMAIN xs = 1..n
        /\ \A i \in 1..n : xs[i] \in Nat /\ (xs[i] \in Quick \/ xs[i] \in Busy)
        /\ \A i, j \in 1..n : i < j => xs[i] <= xs[j]
    BY SamplesAre
  <1> DEFINE T == {i \in 1..n : xs[i] \notin Quick} \cup {n + 1}
  <1>1. PICK m \in T : \A i \in T : m <= i
    <2>1. T \in SUBSET Nat /\ T # {}
      OBVIOUS
    <2> HIDE DEF T
    <2> QED
      BY <2>1, Least
  <1>2. m \in 1..(n + 1) /\ m \in Nat
    OBVIOUS
  <1>3. \A i \in 1..n : i < m => xs[i] \in Quick
    <2>1. ASSUME NEW i \in 1..n, i < m, xs[i] \notin Quick PROVE FALSE
      <3>1. i \in T
        BY <2>1
      <3> HIDE DEF T
      <3>2. m <= i
        BY <3>1, <1>1
      <3> QED
        BY <3>2, <2>1, <1>2
    <2> QED
      BY <2>1
  <1>4. \A i \in 1..n : i >= m => xs[i] \notin Quick
    <2>1. ASSUME NEW i \in 1..n, i >= m, xs[i] \in Quick PROVE FALSE
      <3>1. m \in 1..n /\ xs[m] \notin Quick
        BY <1>1, <1>2, <2>1
      <3>2. xs[m] \in Busy /\ xs[m] <= xs[i] /\ xs[i] \in Nat /\ xs[m] \in Nat
        BY <1>0, <3>1, <2>1
      <3>3. xs[m] > xs[i]
        BY <3>2, <2>1, RegimesApart
      <3> QED
        BY <3>2, <3>3
    <2> QED
      BY <2>1
  <1>5. m > 1
    <2>1. PICK i \in DOMAIN xs : xs[i] \in Quick
      BY DEF Alone
    <2>2. i \in 1..n /\ i >= 1
      BY <2>1, <1>0
    <2> HIDE DEF T
    <2>3. ~(i >= m)
      BY <1>4, <2>1, <2>2
    <2> QED
      BY <1>2, <2>2, <2>3
  <1> HIDE DEF T
  <1>6. m - 1 \in 1..n /\ \A i \in 1..n : i <= m - 1 <=> i < m
    BY <1>2, <1>5
  <1>7. \A i \in 1..n : xs[i] \in Quick <=> i <= m - 1
    BY <1>2, <1>3, <1>4, <1>6
  <1> QED
    BY <1>6, <1>7

\* The cluster ends where the regime changes, whatever gaps follow.
LEMMA ClusterIsQuick ==
  ASSUME NEW n \in Nat \ {0}, NEW xs \in Samples(n, Quick \cup Busy), NEW k \in 1..n,
         \A i \in 1..n : xs[i] \in Quick <=> i <= k
  PROVE  FastCluster(xs) = SubSeq(xs, 1, k)
  <1>1. /\ DOMAIN xs = 1..n /\ Len(xs) = n
        /\ \A i \in 1..n : xs[i] \in Nat \ {0} /\ (xs[i] \in Quick \/ xs[i] \in Busy)
        /\ xs \in Seq(Nat)
    BY SamplesAre
  <1>2. \A i \in Gaps(xs) : i \in 1..(n - 1) /\ i >= k
    <2>1. ASSUME NEW i \in Gaps(xs), i < k PROVE FALSE
      <3>1. i \in 1..n /\ i + 1 \in 1..n /\ i + 1 <= k /\ 4 * xs[i + 1] > 5 * xs[i]
        BY <1>1, <2>1 DEF Gaps
      <3>2. xs[i] \in Quick /\ xs[i + 1] \in Quick
        BY <2>1, <3>1
      <3>3. 4 * xs[i + 1] <= 5 * xs[i]
        BY <3>2, RegimesAssumption
      <3> QED
        BY <1>1, <3>1, <3>3
    <2> QED
      BY <1>1, <2>1 DEF Gaps
  <1>3. CASE k = n
    <2>1. Gaps(xs) = {}
      BY <1>2, <1>3
    <2>2. FastCluster(xs) = xs
      BY <2>1, FastClusterIs
    <2> QED
      BY <2>2, <1>1, <1>3
  <1>4. CASE k < n
    <2>1. xs[k] \in Quick /\ xs[k + 1] \in Busy /\ k \in 1..n /\ k + 1 \in 1..n
      BY <1>1, <1>4
    <2>2. k \in Gaps(xs)
      BY <1>1, <1>4, <2>1, RegimesAssumption DEF Gaps
    <2>3. ASSUME NEW j \in Gaps(xs) PROVE ~Wider(xs, j, k)
      <3>1. CASE j = k
        BY <1>1, <2>1, <3>1 DEF Wider
      <3>2. CASE j # k
        <4>1. j \in 1..n /\ j + 1 \in 1..n /\ j > k /\ j + 1 > k
          BY <1>2, <2>3, <3>2
        <4>2. xs[j] \in Busy /\ xs[j + 1] \in Busy
          BY <1>1, <4>1
        <4>3. xs[k + 1] * xs[j] >= xs[j + 1] * xs[k]
          BY <2>1, <4>2, RegimesAssumption
        <4>4. /\ xs[k] \in Nat /\ xs[k + 1] \in Nat /\ xs[j] \in Nat /\ xs[j + 1] \in Nat
          BY <1>1, <2>1, <4>1
        <4>5. xs[k + 1] * xs[j] \in Int /\ xs[j + 1] * xs[k] \in Int
          BY <4>4
        <4>6. ~(xs[j + 1] * xs[k] > xs[k + 1] * xs[j])
          BY <4>3, <4>5
        <4> QED
          BY <4>6 DEF Wider
      <3> QED
        BY <3>1, <3>2
    <2>4. k \in Widest(xs)
      BY <2>2, <2>3 DEF Widest
    <2>5. \A j \in Widest(xs) : k <= j /\ j \in Int
      BY <1>2 DEF Widest
    <2> DEFINE first == CHOOSE i \in Widest(xs) : \A j \in Widest(xs) : i <= j
    <2>6. first \in Widest(xs) /\ \A j \in Widest(xs) : first <= j
      BY <2>4, <2>5
    <2> HIDE DEF first
    <2>7. first = k
      BY <2>4, <2>5, <2>6
    <2> QED
      BY <2>2, <2>7, FastClusterIs DEF first
  <1> QED
    BY <1>3, <1>4

\* However many samples there are, the fast cluster is those that had the machine
\* to themselves, all of them and no other, if there is one: fastCluster.
THEOREM ClusterOfAnySize ==
  ASSUME NEW n \in Nat \ {0}, NEW xs \in Samples(n, Quick \cup Busy), Alone(xs)
  PROVE  /\ FastCluster(xs) = SubSeq(xs, 1, Len(FastCluster(xs)))
         /\ \A i \in DOMAIN xs : xs[i] \in Quick <=> i <= Len(FastCluster(xs))
  <1>1. PICK k \in 1..n : \A i \in 1..n : xs[i] \in Quick <=> i <= k
    BY Boundary
  <1>2. FastCluster(xs) = SubSeq(xs, 1, k)
    BY <1>1, ClusterIsQuick
  <1>3. xs \in Seq(Nat) /\ Len(xs) = n /\ DOMAIN xs = 1..n
    BY SamplesAre
  <1>4. Len(SubSeq(xs, 1, k)) = k
    BY <1>1, <1>3
  <1> QED
    BY <1>1, <1>2, <1>3, <1>4

\* The same of the samples the run goes through, in every state.
THEOREM ClusterIsAlone == TimingsSpec => []FastIsAlone
  <1>1. FastIsAlone
    <2>1. \A n \in 1..4 : n \in Nat \ {0}
      OBVIOUS
    <2> QED
      BY <2>1, ClusterOfAnySize DEF FastIsAlone
  <1> QED
    BY <1>1, PTL

\* Among the first m gaps there is one that none of them is wider than.
LEMMA WidestExists ==
  ASSUME NEW n \in Nat \ {0}, NEW xs \in Samples(n, Quick \cup Busy), Gaps(xs) # {}
  PROVE  Widest(xs) # {}
  <1>1. \A i \in Gaps(xs) : i \in 1..(n - 1) /\ xs[i] \in Nat \ {0} /\ xs[i + 1] \in Nat \ {0}
    <2>0. Len(xs) = n
      BY SamplesAre
    <2>1. ASSUME NEW i \in Gaps(xs) PROVE i \in 1..(n - 1) /\ i \in 1..n /\ i + 1 \in 1..n
      BY <2>0 DEF Gaps
    <2> QED
      BY <2>1, SamplesAre
  <1>2. \A i, j, l \in Gaps(xs) : ~Wider(xs, j, i) /\ Wider(xs, l, i) => ~Wider(xs, j, l)
    <2>1. ASSUME NEW i \in Gaps(xs), NEW j \in Gaps(xs), NEW l \in Gaps(xs),
                 ~Wider(xs, j, i), Wider(xs, l, i)
          PROVE  ~Wider(xs, j, l)
      <3> DEFINE a == xs[j + 1]
                 b == xs[j]
                 c == xs[i + 1]
                 d == xs[i]
                 e == xs[l + 1]
                 f == xs[l]
      <3>1. /\ a \in Nat \ {0} /\ b \in Nat \ {0} /\ c \in Nat \ {0}
            /\ d \in Nat \ {0} /\ e \in Nat \ {0} /\ f \in Nat \ {0}
        BY <1>1
      <3>2. ~(a * d > c * b) /\ e * d > c * f
        BY <2>1 DEF Wider
      <3>3. (a * f > e * b) <=> Wider(xs, j, l)
        BY DEF Wider
      <3> HIDE DEF a, b, c, d, e, f
      <3>4. a * d <= c * b /\ c * f < e * d
        BY <3>1, <3>2
      <3>5. a * f <= e * b
        BY <3>1, <3>4, RatiosCompare
      <3> QED
        BY <3>1, <3>3, <3>5
    <2> QED
      BY <2>1
  <1>3. \A i \in Gaps(xs) : ~Wider(xs, i, i)
    <2>1. ASSUME NEW i \in Gaps(xs) PROVE ~(xs[i + 1] * xs[i] > xs[i + 1] * xs[i])
      <3>1. xs[i + 1] * xs[i] \in Int
        BY <1>1
      <3> QED
        BY <3>1
    <2> QED
      BY <2>1 DEF Wider
  <1> DEFINE upTo(m) == {i \in Gaps(xs) : i <= m}
             best(m) == {i \in upTo(m) : \A j \in upTo(m) : ~Wider(xs, j, i)}
             T == {m \in Nat : upTo(m) # {} /\ best(m) = {}}
  <1>4. SUFFICES ASSUME Widest(xs) = {} PROVE FALSE
    OBVIOUS
  <1>5. n \in T
    <2>1. upTo(n) = Gaps(xs)
      BY <1>1
    <2>2. best(n) = Widest(xs)
      BY <2>1 DEF Widest
    <2> QED
      BY <1>4, <2>1, <2>2
  <1>6. PICK m \in T : \A k \in T : m <= k
    <2>1. T \in SUBSET Nat /\ T # {}
      BY <1>5
    <2> HIDE DEF T
    <2> QED
      BY <2>1, Least
  <1>7. m \in Nat /\ upTo(m) # {} /\ best(m) = {}
    OBVIOUS
  <1>8. m > 0
    BY <1>1, <1>7
  <1>9. upTo(m - 1) = {} \/ best(m - 1) # {}
    <2>1. m - 1 \in Nat /\ m - 1 \notin T
      <3>1. m - 1 \in Nat /\ ~(m <= m - 1)
        BY <1>7, <1>8
      <3> HIDE DEF T
      <3> QED
        BY <3>1, <1>6
    <2> QED
      BY <2>1
  <1>10. \A i \in Gaps(xs) : i <= m <=> (i <= m - 1 \/ i = m)
    BY <1>1, <1>7
  <1>11. CASE upTo(m - 1) = {}
    <2>1. upTo(m) = {m} /\ m \in Gaps(xs)
      BY <1>7, <1>10, <1>11
    <2>2. m \in best(m)
      BY <1>3, <2>1
    <2> QED
      BY <1>7, <2>2
  <1>12. CASE best(m - 1) # {}
    <2>1. PICK i \in upTo(m - 1) : \A j \in upTo(m - 1) : ~Wider(xs, j, i)
      BY <1>12
    <2>2. i \in upTo(m) /\ i \in Gaps(xs)
      BY <1>10
    <2>3. \A j \in upTo(m) : j \in upTo(m - 1) \/ j = m
      BY <1>10
    <2>4. CASE m \in Gaps(xs) /\ Wider(xs, m, i)
      <3>1. m \in upTo(m)
        BY <1>10, <2>4
      <3>2. \A j \in upTo(m) : ~Wider(xs, j, m)
        BY <1>2, <1>3, <2>1, <2>2, <2>3, <2>4
      <3> QED
        BY <1>7, <3>1, <3>2
    <2>5. CASE ~(m \in Gaps(xs) /\ Wider(xs, m, i))
      <3>1. \A j \in upTo(m) : ~Wider(xs, j, i)
        BY <2>1, <2>3, <2>5
      <3> QED
        BY <1>7, <2>2, <3>1
    <2> QED
      BY <2>4, <2>5
  <1> QED
    BY <1>9, <1>11, <1>12

\* The cluster is some of the samples, from the first on.
LEMMA ClusterIsAPrefix ==
  ASSUME NEW n \in Nat \ {0}, NEW xs \in Samples(n, Quick \cup Busy)
  PROVE  \E k \in 1..n : FastCluster(xs) = SubSeq(xs, 1, k)
  <1>1. Len(xs) = n /\ xs \in Seq(Nat)
    BY SamplesAre
  <1>2. CASE Gaps(xs) = {}
    <2>1. FastCluster(xs) = xs
      BY <1>2, FastClusterIs
    <2>2. xs = SubSeq(xs, 1, n)
      BY <1>1
    <2> QED
      BY <2>1, <2>2
  <1>3. CASE Gaps(xs) # {}
    <2>1. Widest(xs) # {}
      BY <1>3, WidestExists
    <2>2. Widest(xs) \in SUBSET Nat
      BY <1>1 DEF Widest, Gaps
    <2> DEFINE first == CHOOSE i \in Widest(xs) : \A j \in Widest(xs) : i <= j
    <2>3. first \in Widest(xs)
      <3>1. \E i \in Widest(xs) : \A j \in Widest(xs) : i <= j
        BY <2>1, <2>2, Least
      <3> QED
        BY <3>1
    <2>4. FastCluster(xs) = SubSeq(xs, 1, first)
      BY <1>3, FastClusterIs
    <2> HIDE DEF first
    <2>5. first \in 1..n
      BY <1>1, <2>3 DEF Widest, Gaps
    <2> QED
      BY <2>4, <2>5
  <1> QED
    BY <1>2, <1>3

\* The median is between two of the samples, or is one of them.
LEMMA MedianIsOfTwo ==
  ASSUME NEW xs \in Seq(Nat), NEW k \in 1..Len(xs)
  PROVE  \E i, j \in 1..k : Median2(SubSeq(xs, 1, k)) = xs[i] + xs[j]
  <1> DEFINE fs == SubSeq(xs, 1, k)
             m == k \div 2
  <1>1. Len(fs) = k /\ k \in Nat \ {0} /\ \A i \in 1..k : fs[i] = xs[i] /\ xs[i] \in Nat
    OBVIOUS
  <1> HIDE DEF fs
  <1>2. m \in Nat /\ k = 2 * m + (k % 2) /\ k % 2 \in {0, 1}
    BY <1>1
  <1>3. Median2(fs) = IF (k % 2) = 1 THEN 2 * fs[m + 1] ELSE fs[m] + fs[m + 1]
    BY <1>1 DEF Median2
  <1> HIDE DEF m
  <1>4. CASE (k % 2) = 1
    <2>1. m + 1 \in 1..k
      BY <1>1, <1>2, <1>4
    <2>2. Median2(fs) = xs[m + 1] + xs[m + 1]
      BY <1>1, <1>3, <1>4, <2>1
    <2> QED
      BY <2>1, <2>2 DEF fs
  <1>5. CASE (k % 2) = 0
    <2>1. m \in 1..k /\ m + 1 \in 1..k
      BY <1>1, <1>2, <1>5
    <2>2. Median2(fs) = xs[m] + xs[m + 1]
      BY <1>1, <1>3, <1>5, <2>1
    <2> QED
      BY <2>1, <2>2 DEF fs
  <1> QED
    BY <1>2, <1>4, <1>5

\* So the number a reader works with is twice the time of one regime.
LEMMA FastIsOfOneRegime ==
  ASSUME NEW n \in Nat \ {0}, NEW xs \in Samples(n, Quick \cup Busy)
  PROVE  /\ Alone(xs) => \E p, q \in Quick : Median2(FastCluster(xs)) = p + q
         /\ ~Alone(xs) => \E p, q \in Busy : Median2(FastCluster(xs)) = p + q
  <1>1. /\ DOMAIN xs = 1..n /\ Len(xs) = n /\ xs \in Seq(Nat)
        /\ \A i \in 1..n : xs[i] \in Quick \/ xs[i] \in Busy
    BY SamplesAre
  <1>2. CASE Alone(xs)
    <2>1. PICK k \in 1..n : \A i \in 1..n : xs[i] \in Quick <=> i <= k
      BY <1>2, Boundary
    <2>2. FastCluster(xs) = SubSeq(xs, 1, k)
      BY <2>1, ClusterIsQuick
    <2>3. PICK i, j \in 1..k : Median2(SubSeq(xs, 1, k)) = xs[i] + xs[j]
      BY <1>1, MedianIsOfTwo
    <2>4. xs[i] \in Quick /\ xs[j] \in Quick
      BY <2>1
    <2> QED
      BY <1>2, <2>2, <2>3, <2>4
  <1>3. CASE ~Alone(xs)
    <2>1. PICK k \in 1..n : FastCluster(xs) = SubSeq(xs, 1, k)
      BY ClusterIsAPrefix
    <2>2. PICK i, j \in 1..k : Median2(SubSeq(xs, 1, k)) = xs[i] + xs[j]
      BY <1>1, MedianIsOfTwo
    <2>3. xs[i] \in Busy /\ xs[j] \in Busy
      BY <1>1, <1>3 DEF Alone
    <2> QED
      BY <1>3, <2>1, <2>2, <2>3
  <1> QED
    BY <1>2, <1>3

\* A tenth does not bridge the regimes, in either direction.
LEMMA RegimesDisagree ==
  ASSUME NEW p \in Quick, NEW q \in Quick, NEW b \in Busy, NEW c \in Busy
  PROVE  ~Agree(p + q, b + c) /\ ~Agree(b + c, p + q)
  <1>1. /\ p \in Nat \ {0} /\ q \in Nat \ {0} /\ b \in Nat \ {0} /\ c \in Nat \ {0}
    BY TimingsAssumption
  <1>2. 4 * b > 5 * p /\ 4 * c > 5 * q
    BY RegimesAssumption
  <1> DEFINE x == p + q
             y == b + c
  <1>3. x \in Nat \ {0} /\ y \in Nat \ {0} /\ 4 * y > 5 * x
    BY <1>1, <1>2
  <1> HIDE DEF x, y
  <1>4. ~Agree(x, y)
    <2>1. y > x /\ ~(x > y) /\ 10 * (y - x) > y
      BY <1>3
    <2> QED
      BY <1>3, <2>1 DEF Agree
  <1>5. ~Agree(y, x)
    <2>1. y > x /\ 10 * (y - x) > x
      BY <1>3
    <2> QED
      BY <1>3, <2>1 DEF Agree
  <1> QED
    BY <1>4, <1>5 DEF x, y

----------------------------------------------------------------------------
(* The reader's steps.                                                     *)

\* A driver's step leaves the reading as it is.
LEMMA DriverSteps ==
  ASSUME TimingsInv, DriverInv', LogGrows, UNCHANGED readerVars,
         \A c \in Files : c \in Files'
  PROVE  TimingsInv'
  <1>1. /\ reader' = reader /\ by' = by /\ gated' = gated /\ cols' = cols /\ bench' = bench
        /\ got' = got /\ half' = half /\ ranked' = ranked /\ verdict' = verdict
    BY DEF readerVars
  <1>2. ReaderShape'
    BY <1>1 DEF TimingsInv, ReaderShape
  <1>3. Read1' = Read1
    BY <1>1 DEF Read1
  <1>4. RowsKept'
    <2>1. ASSUME NEW c \in Read1
          PROVE  /\ got[c].run \in DOMAIN log' /\ got[c].n = log'[got[c].run].n
                 /\ got[c].xs \in Samples(got[c].n, Quick \cup Busy)
                 /\ ~got[c].torn => /\ log'[got[c].run].from <= got[c].at
                                    /\ got[c].at <= log'[got[c].run].to
      <3>1. /\ got[c].run \in DOMAIN log /\ got[c].n = log[got[c].run].n
            /\ got[c].xs \in Samples(got[c].n, Quick \cup Busy)
            /\ ~got[c].torn => Within(got[c])
        BY DEF TimingsInv, RowsKept
      <3>2. got[c].at \in Nat
        BY DEF Read1, RowRec
      <3> QED
        BY <3>1, <3>2 DEF LogGrows, Within
    <2> QED
      BY <2>1, <1>1, <1>3 DEF RowsKept, Within
  <1>5. HalfKept'
    BY <1>1, <1>3 DEF TimingsInv, HalfKept
  <1>6. RankedKept'
    BY <1>1 DEF TimingsInv, RankedKept, WindowFault, CountsOf, TimesOf, Row
  <1>7. TwinKept'
    BY <1>1, <1>3 DEF TimingsInv, TwinKept, TwinAgrees, Fast2
  <1> QED
    BY <1>2, <1>4, <1>5, <1>6, <1>7 DEF TimingsInv

LEMMA DriverKeeps == ASSUME TimingsInv, DriverNext \/ UNCHANGED timingsVars PROVE TimingsInv'
  <1>0. DriverInv
    BY DEF TimingsInv
  <1>1. ASSUME NEW n \in Counts, NEW gap \in {1, SpanMax + 1}, Drive(n, gap) PROVE TimingsInv'
    <2>1. DriverInv' /\ LogGrows
      BY <1>0, <1>1, DriveKeeps
    <2>2. UNCHANGED readerVars /\ dir' = dir
      BY <1>1 DEF Drive
    <2>3. Files' = Files
      BY <2>2 DEF Files
    <2> QED
      BY <2>1, <2>2, <2>3, DriverSteps
  <1>2. ASSUME Measure PROVE TimingsInv'
    <2>1. DriverInv' /\ LogGrows
      BY <1>0, <1>2, MeasureKeeps
    <2>2. UNCHANGED readerVars /\ dir' = [dir EXCEPT ![CellAt(at)] = [run |-> Len(log), at |-> clock]]
      BY <1>2 DEF Measure
    <2>3. \A c \in Files : c \in Files'
      <3>1. [run |-> Len(log), at |-> clock] # NoFile
        <4>1. log \in Seq(RunRec) /\ log # <<>>
          BY <1>0, <1>2 DEF DriverInv, DriverShape, Measure, Running
        <4>2. Len(log) \in Nat \ {0}
          BY <4>1, EmptySeq
        <4> QED
          BY <4>2, RunsTell
      <3>2. \A c \in Cells : dir'[c] = dir[c] \/ dir'[c] = [run |-> Len(log), at |-> clock]
        BY <1>0, <2>2 DEF DriverInv, DriverShape
      <3> QED
        BY <3>1, <3>2 DEF Files
    <2> QED
      BY <2>1, <2>2, <2>3, DriverSteps
  <1>3. ASSUME Abandon \/ Stop \/ UNCHANGED timingsVars PROVE TimingsInv'
    <2>1. Abandon \/ Stop \/ UNCHANGED driverVars
      BY <1>3 DEF timingsVars
    <2>2. DriverInv' /\ LogGrows
      BY <1>0, <2>1, PassOnKeeps
    <2>3. UNCHANGED readerVars /\ dir' = dir
      BY <1>3 DEF Abandon, Stop, timingsVars, driverVars
    <2>4. Files' = Files
      BY <2>3 DEF Files
    <2> QED
      BY <2>2, <2>3, <2>4, DriverSteps
  <1> QED
    BY <1>1, <1>2, <1>3 DEF DriverNext

\* The reader leaves the driver alone.
LEMMA DriverStays == ASSUME DriverInv, UNCHANGED driverVars PROVE DriverInv' /\ Files' = Files
  BY DEF DriverInv, DriverShape, FilesKept, LogKept, Files, Within, driverVars

\* Rows that are not touched are judged as before.
LEMMA RowStays ==
  ASSUME ReaderShape, NEW b, cols' = cols, \A f \in cols : got'[<<f, b>>] = got[<<f, b>>]
  PROVE  WindowFault(Row(b))' = WindowFault(Row(b))
  <1>1. Row(b)' = Row(b) /\ \A c \in Row(b) : got'[c] = got[c]
    BY DEF Row
  <1>2. CountsOf(Row(b))' = CountsOf(Row(b)) /\ TimesOf(Row(b))' = TimesOf(Row(b))
    BY <1>1 DEF CountsOf, TimesOf
  <1> QED
    BY <1>2 DEF WindowFault

\* A cell is read, or the time of one.
LEMMA ReadKeepsRows ==
  ASSUME TimingsInv, reader = "read", NEW c \in Cells, c[2] = bench, c \notin Read1 \/ half = c,
         NEW new \in RowRec \cup {NoFile}, got' = [got EXCEPT ![c] = new],
         half' = c => new \in RowRec /\ c \in Files, half' = half \/ half' = c \/ half' = NoCell,
         new \in RowRec => /\ new.run \in DOMAIN log /\ new.n = log[new.run].n
                           /\ new.xs \in Samples(new.n, Quick \cup Busy)
                           /\ ~new.torn => Within(new),
         UNCHANGED <<driverVars, reader, by, gated, cols, bench, ranked, verdict>>
  PROVE  TimingsInv'
  <1>1. DriverInv' /\ Files' = Files /\ log' = log
    BY DriverStays DEF TimingsInv, driverVars
  <1>2. got \in [Cells -> RowRec \cup {NoFile, Unread}]
    BY DEF TimingsInv, ReaderShape
  <1>3. \A e \in Cells : got'[e] = IF e = c THEN new ELSE got[e]
    BY <1>2
  <1>4. ReaderShape'
    BY <1>2 DEF TimingsInv, ReaderShape
  <1>5. \A e \in Read1' : e \in Cells /\ ((got'[e] = new /\ e = c) \/ (e \in Read1 /\ got'[e] = got[e]))
    BY <1>3 DEF Read1
  <1>6. \A e \in Read1 : e # c => e \in Read1'
    BY <1>3 DEF Read1
  <1>7. RowsKept'
    <2>1. ASSUME NEW e \in Read1'
          PROVE  /\ got'[e].run \in DOMAIN log /\ got'[e].n = log[got'[e].run].n
                 /\ got'[e].xs \in Samples(got'[e].n, Quick \cup Busy)
                 /\ ~got'[e].torn => /\ log[got'[e].run].from <= got'[e].at
                                     /\ got'[e].at <= log[got'[e].run].to
      <3>1. CASE got'[e] = new
        <4>1. new \in RowRec
          BY <3>1 DEF Read1
        <4> QED
          BY <3>1, <4>1 DEF Within
      <3>2. CASE e \in Read1 /\ got'[e] = got[e]
        BY <3>2 DEF TimingsInv, RowsKept, Within
      <3> QED
        BY <3>1, <3>2, <1>5
    <2> QED
      BY <2>1, <1>1 DEF RowsKept, Within
  <1>8. HalfKept'
    <2>1. CASE half' = c
      BY <2>1, <1>1, <1>3 DEF Read1, HalfKept
    <2>2. CASE half' = half /\ half # c
      BY <2>2, <1>1, <1>6 DEF TimingsInv, HalfKept
    <2>3. CASE half' = NoCell
      BY <2>3 DEF HalfKept
    <2> QED
      BY <2>1, <2>2, <2>3
  <1>9. \A b \in ranked : b # bench
    BY <1>2, CellsFinite DEF TimingsInv, RankedKept, ReaderShape
  <1>10. \A b \in ranked : \A f \in cols : <<f, b>> # c /\ <<f, b>> \in Cells
    <2>1. \A b \in ranked : \A f \in cols : <<f, b>>[2] = b
      OBVIOUS
    <2>2. \A b \in ranked : b \in DOMAIN Benchmarks
      BY DEF TimingsInv, ReaderShape
    <2>3. \A f \in cols : f \in Frameworks
      BY DEF TimingsInv, ReaderShape
    <2> QED
      BY <1>9, <2>1, <2>2, <2>3, CellsFinite
  <1>11. RankedKept'
    <2>1. ASSUME NEW b \in ranked PROVE WindowFault(Row(b))' = "none"
      <3>1. \A f \in cols : got'[<<f, b>>] = got[<<f, b>>]
        BY <1>3, <1>10
      <3>2. WindowFault(Row(b))' = WindowFault(Row(b))
        BY <3>1, RowStays DEF TimingsInv
      <3> QED
        BY <3>2 DEF TimingsInv, RankedKept
    <2> QED
      BY <2>1 DEF TimingsInv, RankedKept
  <1>12. TwinKept'
    <2>1. verdict = "none" /\ verdict' = "none"
      BY DEF TimingsInv, RankedKept
    <2>2. \A b \in ranked : \A f \in cols : <<f, b>> \in Read1 => <<f, b>> \in Read1'
      BY <1>6, <1>10
    <2> QED
      BY <2>1, <2>2 DEF TimingsInv, TwinKept
  <1> QED
    BY <1>1, <1>4, <1>7, <1>8, <1>11, <1>12 DEF TimingsInv

LEMMA ReadingKeeps ==
  ASSUME TimingsInv, NEW c \in Cells, Takes(c)
  PROVE  /\ \A xs : dir[c] # NoFile /\ xs \in Samples(log[dir[c].run].n, Draws(c)) /\ ReadValues(c, xs)
                      => TimingsInv'
         /\ ReadNothing(c) => TimingsInv'
  <1>1. /\ reader = "read" /\ half = NoCell /\ c \in {<<f, bench>> : f \in cols} /\ got[c] = Unread
    BY DEF Takes
  <1>2. c[2] = bench /\ c \notin Read1
    BY <1>1, RunsTell DEF Read1
  <1>3. ASSUME NEW xs, dir[c] # NoFile, xs \in Samples(log[dir[c].run].n, Draws(c)), ReadValues(c, xs)
        PROVE  TimingsInv'
    <2> DEFINE new == [run |-> dir[c].run, n |-> log[dir[c].run].n, at |-> dir[c].at,
                       xs |-> xs, torn |-> FALSE]
    <2>1. /\ got' = [got EXCEPT ![c] = new] /\ half' = c
          /\ UNCHANGED <<driverVars, reader, by, gated, cols, bench, ranked, verdict>>
      BY <1>3 DEF ReadValues
    <2>2. c \in Files /\ dir[c] \in FileRec
      BY <1>3, FileIsRec DEF TimingsInv, DriverInv, Files
    <2>3. dir[c].run \in DOMAIN log /\ Within(dir[c]) /\ dir[c].run \in Nat \ {0} /\ dir[c].at \in Nat
      BY <2>2 DEF TimingsInv, DriverInv, FilesKept, FileRec
    <2>4. log[dir[c].run] \in RunRec
      BY <2>3 DEF TimingsInv, DriverInv, DriverShape
    <2>5. log[dir[c].run].n \in Counts
      BY <2>4 DEF RunRec
    <2>6. xs \in Samples(log[dir[c].run].n, Quick \cup Busy)
      <3>1. Draws(c) \subseteq Quick \cup Busy
        BY TimingsAssumption DEF Draws
      <3> QED
        BY <3>1, <1>3 DEF Samples
    <2>7. new \in RowRec
      BY <2>3, <2>5, <2>6 DEF RowRec
    <2>8. /\ new.run \in DOMAIN log /\ new.n = log[new.run].n
          /\ new.xs \in Samples(new.n, Quick \cup Busy) /\ Within(new)
      BY <2>3, <2>6 DEF Within
    <2>9. new # NoFile
      BY <2>7, RunsTell
    <2> HIDE DEF new
    <2> QED
      BY <1>1, <1>2, <2>1, <2>2, <2>7, <2>8, <2>9, ReadKeepsRows
  <1>4. ASSUME ReadNothing(c) PROVE TimingsInv'
    <2>1. /\ got' = [got EXCEPT ![c] = NoFile]
          /\ half' = half /\ UNCHANGED <<driverVars, reader, by, gated, cols, bench, ranked, verdict>>
      BY <1>4 DEF ReadNothing
    <2>2. NoFile \notin RowRec
      BY RunsTell
    <2>3. half' # c
      BY <1>1, <2>1, CellsAre
    <2> QED
      BY <1>1, <1>2, <2>1, <2>2, <2>3, ReadKeepsRows
  <1> QED
    BY <1>3, <1>4

LEMMA ReadTimeKeeps == ASSUME TimingsInv, ReadTime PROVE TimingsInv'
  <1> DEFINE held == got[half]
             new == [held EXCEPT !.at = dir[half].at, !.torn = (dir[half].run # held.run)]
  <1>1. /\ reader = "read" /\ half # NoCell /\ got' = [got EXCEPT ![half] = new] /\ half' = NoCell
        /\ UNCHANGED <<driverVars, reader, by, gated, cols, bench, ranked, verdict>>
    BY DEF ReadTime
  <1>2. half \in Cells /\ half \in Read1 /\ half \in Files /\ half[2] = bench /\ held \in RowRec
    BY <1>1 DEF TimingsInv, HalfKept, Read1
  <1>3. dir[half] \in FileRec /\ dir[half].run \in DOMAIN log /\ Within(dir[half]) /\ dir[half].at \in Nat
    BY <1>2, FileIsRec DEF TimingsInv, DriverInv, FilesKept, FileRec
  <1> DEFINE Timed(x, a, r, s) == [x EXCEPT !.at = a, !.torn = (r # s)]
  <1>4. \A x \in RowRec : \A a \in Nat : \A r, s :
          /\ Timed(x, a, r, s) \in RowRec /\ Timed(x, a, r, s).run = x.run
          /\ Timed(x, a, r, s).n = x.n /\ Timed(x, a, r, s).xs = x.xs
          /\ Timed(x, a, r, s).at = a /\ Timed(x, a, r, s).torn = (r # s)
    BY DEF RowRec
  <1>5. new = Timed(held, dir[half].at, dir[half].run, held.run)
    BY Zenon
  <1> HIDE DEF Timed, held
  <1>6. /\ new \in RowRec /\ new.run = held.run /\ new.n = held.n /\ new.xs = held.xs
        /\ new.at = dir[half].at /\ new.torn = (dir[half].run # held.run)
    <2>1. held \in RowRec /\ dir[half].at \in Nat
      BY <1>2, <1>3
    <2> HIDE DEF new
    <2> QED
      BY <1>4, <1>5, <2>1
  <1>7. held.run \in DOMAIN log /\ held.n = log[held.run].n /\ held.xs \in Samples(held.n, Quick \cup Busy)
    BY <1>2 DEF TimingsInv, RowsKept, held
  <1> HIDE DEF new
  <1>8. ~new.torn => Within(new)
    BY <1>3, <1>6 DEF Within
  <1>9. new # NoFile
    BY <1>6, RunsTell
  <1> QED
    BY <1>1, <1>2, <1>6, <1>7, <1>8, <1>9, ReadKeepsRows

\* A reader that ends keeps what it has, with a verdict.
LEMMA ExitsKeeps ==
  ASSUME TimingsInv, NEW v \in {"refused", "died", "unverified", "accepted"}, Exits(v),
         v = "accepted" /\ by = "ladder" /\ gated => {Base, Twin} \subseteq cols /\ TwinAgrees
  PROVE  TimingsInv'
  <1>1. /\ reader' = "idle" /\ verdict' = v
        /\ UNCHANGED <<driverVars, by, gated, cols, bench, got, half, ranked>>
    BY DEF Exits
  <1>2. DriverInv' /\ Files' = Files /\ log' = log
    BY <1>1, DriverStays DEF TimingsInv, driverVars
  <1>3. ReaderShape' /\ Read1' = Read1
    BY <1>1 DEF TimingsInv, ReaderShape, Read1
  <1>4. RowsKept' /\ HalfKept'
    BY <1>1, <1>2, <1>3 DEF TimingsInv, RowsKept, HalfKept, Within
  <1>5. RankedKept'
    BY <1>1 DEF TimingsInv, RankedKept, WindowFault, CountsOf, TimesOf, Row
  <1>6. TwinKept'
    <2>1. TwinAgrees' = TwinAgrees
      BY <1>1 DEF TwinAgrees, Fast2
    <2> QED
      BY <1>1, <1>3, <2>1 DEF TimingsInv, TwinKept
  <1> QED
    BY <1>2, <1>3, <1>4, <1>5, <1>6 DEF TimingsInv

\* A reader that begins has read nothing.
LEMMA BeginsKeeps ==
  ASSUME TimingsInv, NEW tool \in {"ladder", "timings"}, NEW gate \in BOOLEAN,
         NEW S \in SUBSET Frameworks, NEW b \in DOMAIN Benchmarks, Begins(tool, gate, S, b),
         \/ /\ reader' = "read" /\ verdict' = "none"
            /\ tool = "ladder" => Base \in S /\ (gate => Twin \in S)
         \/ reader' = "idle" /\ verdict' = "refused"
  PROVE  TimingsInv'
  <1>1. /\ by' = tool /\ gated' = gate /\ cols' = S /\ bench' = b
        /\ got' = [c \in Cells |-> Unread] /\ half' = NoCell /\ ranked' = {}
        /\ UNCHANGED driverVars
    BY DEF Begins
  <1>2. DriverInv'
    BY <1>1, DriverStays DEF TimingsInv
  <1>3. ReaderShape'
    BY <1>1 DEF ReaderShape
  <1>4. Read1' = {}
    BY <1>1, RunsTell DEF Read1
  <1>5. RowsKept' /\ HalfKept'
    BY <1>1, <1>4 DEF RowsKept, HalfKept
  <1>6. RankedKept'
    BY <1>1 DEF RankedKept
  <1>7. TwinKept'
    BY <1>1 DEF TwinKept
  <1> QED
    BY <1>2, <1>3, <1>5, <1>6, <1>7 DEF TimingsInv

LEMMA StartKeeps ==
  ASSUME TimingsInv, NEW gate \in BOOLEAN
  PROVE  /\ Ladder(gate) => TimingsInv'
         /\ \A S \in SUBSET (Frameworks \ {Base}), b \in DOMAIN Benchmarks :
              ReadTimings(gate, S, b) => TimingsInv'
  <1>1. ASSUME Ladder(gate) PROVE TimingsInv'
    <2>1. Columns \in SUBSET Frameworks /\ 1 \in DOMAIN Benchmarks
      BY CellsFinite DEF Columns
    <2>2. Begins("ladder", gate, Columns, 1)
      BY <1>1 DEF Ladder
    <2>3. \/ reader' = "read" /\ verdict' = "none" /\ Base \in Columns /\ (gate => Twin \in Columns)
          \/ reader' = "idle" /\ verdict' = "refused"
      BY <1>1 DEF Ladder
    <2> QED
      BY <2>1, <2>2, <2>3, BeginsKeeps
  <1>2. ASSUME NEW S \in SUBSET (Frameworks \ {Base}), NEW b \in DOMAIN Benchmarks, ReadTimings(gate, S, b)
        PROVE  TimingsInv'
    <2>1. {Base} \cup S \in SUBSET Frameworks
      BY TimingsAssumption
    <2>2. Begins("timings", gate, {Base} \cup S, b) /\ reader' = "read" /\ verdict' = "none"
      BY <1>2 DEF ReadTimings
    <2> QED
      BY <2>1, <2>2, BeginsKeeps
  <1> QED
    BY <1>1, <1>2

\* The benchmarks that are ranked become `done`.
LEMMA RankKeeps ==
  ASSUME TimingsInv, reader = "read", half = NoCell, NEW done \in SUBSET (ranked \cup {bench}),
         \A b \in done : WindowFault(Row(b)) = "none",
         by = "ladder" => \A b \in done : \A f \in cols : <<f, b>> \in Read1,
         ranked' = done, bench' \in DOMAIN Benchmarks, half' = half,
         \/ reader' = "read" /\ bench' = bench + 1 /\ verdict' = verdict
         \/ reader' = "table" /\ verdict' = verdict
         \/ reader' = "idle" /\ verdict' = "refused",
         UNCHANGED <<driverVars, by, gated, cols, got>>
  PROVE  TimingsInv'
  <1>1. DriverInv' /\ Files' = Files /\ log' = log
    BY DriverStays DEF TimingsInv, driverVars
  <1>2. ReaderShape' /\ Read1' = Read1
    BY DEF TimingsInv, ReaderShape, Read1
  <1>3. RowsKept' /\ HalfKept'
    BY <1>1, <1>2 DEF TimingsInv, RowsKept, HalfKept, Within
  <1>4. \A b \in done : b < bench + 1
    <2>1. \A b \in ranked : b < bench /\ b \in Nat
      BY CellsFinite DEF TimingsInv, RankedKept, ReaderShape
    <2>2. bench \in Nat
      BY CellsFinite DEF TimingsInv, ReaderShape
    <2> QED
      BY <2>1, <2>2
  <1>5. RankedKept'
    <2>1. ASSUME NEW b \in done PROVE WindowFault(Row(b))' = "none"
      BY RowStays DEF TimingsInv
    <2>2. verdict = "none"
      BY DEF TimingsInv, RankedKept
    <2> QED
      BY <1>4, <2>1, <2>2 DEF RankedKept
  <1>6. TwinKept'
    <2>1. verdict' # "accepted"
      BY DEF TimingsInv, RankedKept
    <2> QED
      BY <1>2, <2>1 DEF TimingsInv, TwinKept
  <1> QED
    BY <1>1, <1>2, <1>3, <1>5, <1>6 DEF TimingsInv

LEMMA LadderKeeps == ASSUME TimingsInv, LadderRow \/ LadderGate PROVE TimingsInv'
  <1>0. bench \in DOMAIN Benchmarks /\ DOMAIN Benchmarks = 1..Len(Benchmarks) /\ Len(Benchmarks) \in Nat
    BY CellsFinite DEF TimingsInv, ReaderShape
  <1>1. ASSUME NEW done, by = "ladder", RowRead, Onward(done), done = ranked \/
                 (done = ranked \cup {bench} /\ Complete /\ WindowFault(Row(bench)) = "none")
        PROVE  TimingsInv'
    <2>1. reader = "read" /\ half = NoCell /\ \A f \in cols : got[<<f, bench>>] # Unread
      BY <1>1 DEF RowRead
    <2>2. done \in SUBSET (ranked \cup {bench})
      BY <1>1
    <2>3. \A b \in done : WindowFault(Row(b)) = "none"
      BY <1>1 DEF TimingsInv, RankedKept
    <2>4. \A b \in done : \A f \in cols : <<f, b>> \in Read1
      <3>1. Complete => \A f \in cols : <<f, bench>> \in Read1
        <4>1. \A f \in cols : <<f, bench>> \in Cells
          BY <1>0, CellsFinite DEF TimingsInv, ReaderShape
        <4> QED
          BY <2>1, <4>1, RowIsRec DEF Complete, TimingsInv
      <3> QED
        BY <1>1, <3>1 DEF TimingsInv, TwinKept
    <2>5. /\ ranked' = done /\ bench' \in DOMAIN Benchmarks
          /\ \/ reader' = "read" /\ bench' = bench + 1 /\ verdict' = verdict
             \/ reader' = "table" /\ verdict' = verdict
             \/ reader' = "idle" /\ verdict' = "refused"
          /\ half' = half /\ UNCHANGED <<driverVars, by, gated, cols, got>>
      <3>1. CASE bench < Len(Benchmarks)
        BY <3>1, <1>0, <1>1 DEF Onward
      <3>2. CASE ~(bench < Len(Benchmarks))
        <4>1. bench = Len(Benchmarks)
          BY <3>2, <1>0
        <4> QED
          BY <3>2, <4>1, <1>0, <1>1 DEF Onward
      <3> QED
        BY <3>1, <3>2
    <2> QED
      BY <2>1, <2>2, <2>3, <2>4, <2>5, RankKeeps
  <1>2. CASE LadderRow
    <2>1. CASE Exits("refused")
      BY <2>1, ExitsKeeps
    <2>2. CASE ~Exits("refused")
      BY <1>1, <1>2, <2>2 DEF LadderRow
    <2> QED
      BY <2>1, <2>2
  <1>3. CASE LadderGate
    <2> DEFINE v == IF ~gated THEN "unverified" ELSE IF TwinAgrees THEN "accepted" ELSE "refused"
    <2>1. by = "ladder" /\ reader = "table" /\ Exits(v)
      BY <1>3 DEF LadderGate
    <2>2. v \in {"refused", "died", "unverified", "accepted"}
      OBVIOUS
    <2>3. v = "accepted" /\ gated => {Base, Twin} \subseteq cols /\ TwinAgrees
      BY <2>1 DEF TimingsInv, TwinKept
    <2> HIDE DEF v
    <2> QED
      BY <2>1, <2>2, <2>3, ExitsKeeps
  <1> QED
    BY <1>2, <1>3

LEMMA ReaderEndsKeeps ==
  ASSUME TimingsInv, Dies \/ NoControl \/ TimingsRow \/ TimingsGate
  PROVE  TimingsInv'
  <1>1. CASE Dies
    BY <1>1, ExitsKeeps DEF Dies
  <1>2. CASE NoControl
    BY <1>2, ExitsKeeps DEF NoControl
  <1>3. CASE TimingsRow
    <2>1. by = "timings" /\ reader = "read" /\ half = NoCell
      BY <1>3 DEF TimingsRow, RowRead
    <2>2. CASE Exits("refused")
      BY <2>2, ExitsKeeps
    <2>3. CASE ~Exits("refused")
      <3>1. /\ WindowFault(Row(bench)) = "none" /\ ranked' = {bench} /\ reader' = "table"
            /\ UNCHANGED <<driverVars, by, gated, cols, bench, got, half, verdict>>
        BY <1>3, <2>3 DEF TimingsRow
      <3>2. {bench} \in SUBSET (ranked \cup {bench}) /\ bench' \in DOMAIN Benchmarks
        BY <3>1 DEF TimingsInv, ReaderShape
      <3> QED
        BY <2>1, <3>1, <3>2, RankKeeps
    <2> QED
      BY <2>2, <2>3
  <1>4. CASE TimingsGate
    <2> DEFINE v == IF ~gated THEN "unverified" ELSE IF ControlHolds THEN "accepted" ELSE "refused"
    <2>1. by = "timings" /\ Exits(v)
      BY <1>4 DEF TimingsGate
    <2>2. v \in {"refused", "died", "unverified", "accepted"}
      OBVIOUS
    <2> HIDE DEF v
    <2> QED
      BY <2>1, <2>2, ExitsKeeps
  <1> QED
    BY <1>1, <1>2, <1>3, <1>4

THEOREM TimingsInvariance == TimingsSpec => []TimingsInv
  <1>1. TimingsInit => TimingsInv
    BY TimingsFromInit
  <1>2. TimingsInv /\ [TimingsNext]_timingsVars => TimingsInv'
    <2> SUFFICES ASSUME TimingsInv, [TimingsNext]_timingsVars PROVE TimingsInv'
      OBVIOUS
    <2>1. CASE DriverNext \/ UNCHANGED timingsVars
      BY <2>1, DriverKeeps
    <2>2. CASE ReaderNext
      <3>1. ASSUME NEW gate \in BOOLEAN, Ladder(gate) PROVE TimingsInv'
        BY <3>1, StartKeeps
      <3>2. ASSUME NEW gate \in BOOLEAN, NEW S \in SUBSET (Frameworks \ {Base}),
                   NEW b \in DOMAIN Benchmarks, ReadTimings(gate, S, b)
            PROVE  TimingsInv'
        BY <3>2, StartKeeps
      <3>3. ASSUME NEW c \in Cells, Takes(c), NEW xs \in Samples(log[dir[c].run].n, Draws(c)),
                   dir[c] # NoFile, ReadValues(c, xs)
            PROVE  TimingsInv'
        BY <3>3, ReadingKeeps
      <3>4. ASSUME NEW c \in Cells, Takes(c), ReadNothing(c) PROVE TimingsInv'
        BY <3>4, ReadingKeeps
      <3> QED
        BY <2>2, <3>1, <3>2, <3>3, <3>4, ReadTimeKeeps, LadderKeeps, ReaderEndsKeeps DEF ReaderNext
    <2> QED
      BY <2>1, <2>2 DEF TimingsNext
  <1> QED
    BY <1>1, <1>2, PTL DEF TimingsSpec

\* Rows without a fault are of one window, and of one run where their times are of
\* their runs and the runs can be told apart.
LEMMA FaultlessIsOneWindow ==
  ASSUME TimingsInv, NEW b \in DOMAIN Benchmarks, WindowFault(Row(b)) = "none",
         NEW c \in Row(b), NEW d \in Row(b)
  PROVE  /\ got[c].at - got[d].at <= SpanMax
         /\ RunsTold /\ ~got[c].torn /\ ~got[d].torn => got[c].run = got[d].run
  <1>1. ASSUME NEW e \in Row(b) PROVE e \in Read1 /\ got[e] \in RowRec
    <2>1. e \in Cells /\ got[e].run > 0
      BY CellsFinite DEF Row, TimingsInv, ReaderShape
    <2> QED
      BY <2>1, RowIsRec DEF TimingsInv, Read1
  <1>2. IsFiniteSet(CountsOf(Row(b)))
    <2>1. Row(b) \in SUBSET Cells
      BY CellsFinite DEF Row, TimingsInv, ReaderShape
    <2>2. IsFiniteSet(Row(b))
      BY <2>1, CellsFinite, FS_Subset
    <2> DEFINE f == [e \in Row(b) |-> got[e].n]
    <2>3. f \in Surjection(Row(b), CountsOf(Row(b)))
      BY DEF Surjection, CountsOf
    <2> QED
      BY <2>2, <2>3, FS_Surjection
  <1>3. ~(Cardinality(CountsOf(Row(b))) > 1)
    BY DEF WindowFault
  <1>4. got[c].n = got[d].n
    <2>1. SUFFICES ASSUME got[c].n # got[d].n PROVE FALSE
      OBVIOUS
    <2> DEFINE m == got[c].n
               n == got[d].n
    <2>2. {m, n} \subseteq CountsOf(Row(b))
      BY DEF CountsOf
    <2> HIDE DEF m, n
    <2>3. m # n
      BY <2>1 DEF m, n
    <2>4. Cardinality({m}) = 1 /\ IsFiniteSet({m})
      BY FS_Singleton
    <2>5. Cardinality({m} \cup {n}) = 2
      <3>1. n \notin {m}
        BY <2>3
      <3>2. Cardinality({m} \cup {n}) = Cardinality({m}) + 1
        BY <3>1, <2>4, FS_AddElement
      <3> QED
        BY <3>2, <2>4
    <2>6. {m} \cup {n} = {m, n}
      OBVIOUS
    <2>7. Cardinality({m, n}) <= Cardinality(CountsOf(Row(b)))
      BY <1>2, <2>2, FS_Subset
    <2>8. Cardinality({m, n}) = 2
      BY <2>5, <2>6, Zenon
    <2>9. Cardinality(CountsOf(Row(b))) \in Nat
      BY <1>2, FS_CardinalityType
    <2> QED
      BY <1>3, <2>7, <2>8, <2>9
  <1>5. \A s, t \in TimesOf(Row(b)) : ~(s - t > SpanMax)
    BY DEF WindowFault
  <1>6. got[c].at \in TimesOf(Row(b)) /\ got[d].at \in TimesOf(Row(b))
    BY DEF TimesOf
  <1>7. got[c].at \in Nat /\ got[d].at \in Nat /\ SpanMax \in Nat
    BY <1>1, TimingsAssumption DEF RowRec
  <1>8. got[c].at - got[d].at <= SpanMax /\ got[d].at - got[c].at <= SpanMax
    BY <1>5, <1>6, <1>7
  <1>9. ASSUME RunsTold, ~got[c].torn, ~got[d].torn PROVE got[c].run = got[d].run
    <2> DEFINE r == got[c].run
               s == got[d].run
    <2>1. /\ r \in DOMAIN log /\ got[c].n = log[r].n /\ Within(got[c])
          /\ s \in DOMAIN log /\ got[d].n = log[s].n /\ Within(got[d])
      BY <1>1, <1>9 DEF TimingsInv, RowsKept
    <2>2. /\ log[r].from <= got[c].at /\ got[c].at <= log[r].to
          /\ log[s].from <= got[d].at /\ got[d].at <= log[s].to
      BY <2>1 DEF Within
    <2>3. log \in Seq(RunRec)
      BY DEF TimingsInv, DriverInv, DriverShape
    <2>4. log[r] \in RunRec /\ log[s] \in RunRec
      BY <2>1, <2>3
    <2>5. /\ log[r].from \in Nat /\ log[r].to \in Nat /\ log[s].from \in Nat /\ log[s].to \in Nat
          /\ r \in Nat /\ s \in Nat
      BY <2>1, <2>3, <2>4 DEF RunRec
    <2> HIDE DEF r, s
    <2>6. ~(r < s)
      <3>1. r < s => log[s].from - log[r].to > SpanMax
        BY <1>4, <1>9, <2>1 DEF RunsTold
      <3> QED
        BY <1>7, <1>8, <2>2, <2>5, <3>1
    <2>7. ~(s < r)
      <3>1. s < r => log[r].from - log[s].to > SpanMax
        BY <1>4, <1>9, <2>1 DEF RunsTold
      <3> QED
        BY <1>7, <1>8, <2>2, <2>5, <3>1
    <2>8. r = s
      BY <2>5, <2>6, <2>7
    <2> QED
      BY <2>8 DEF r, s
  <1> QED
    BY <1>8, <1>9

\* The benchmarks of a table have their numbers from one window, whatever the driver
\* did while they were read, and from one run if they were not overwritten between
\* their two reads and the runs can be told apart: windowFault in both readers.
THEOREM WindowsAreSound == TimingsSpec => []WindowsSound
  <1>1. ASSUME TimingsInv PROVE OneRun
    <2>1. ASSUME NEW b \in ranked, Untorn(b), NEW c \in Row(b), NEW d \in Row(b)
          PROVE  got[c].at - got[d].at <= SpanMax /\ (RunsTold => got[c].run = got[d].run)
      <3>1. b \in DOMAIN Benchmarks /\ WindowFault(Row(b)) = "none"
        BY <1>1 DEF TimingsInv, ReaderShape, RankedKept
      <3>2. ~got[c].torn /\ ~got[d].torn
        BY <2>1 DEF Untorn
      <3> QED
        BY <1>1, <3>1, <3>2, FaultlessIsOneWindow
    <2> QED
      BY <2>1 DEF OneRun
  <1>2. ASSUME TimingsInv PROVE TimingsTypeOK
    <2>1. ASSUME NEW c \in Cells, dir[c] # NoFile
          PROVE  dir[c].run \in DOMAIN log /\ dir[c].at \in 0..clock
      <3>1. c \in Files /\ dir[c] \in FileRec /\ clock \in Nat /\ log \in Seq(RunRec)
        BY <1>2, <2>1, FileIsRec DEF TimingsInv, DriverInv, DriverShape, Files
      <3>2. dir[c].run \in DOMAIN log /\ Within(dir[c]) /\ dir[c].at \in Nat
        BY <1>2, <3>1 DEF TimingsInv, DriverInv, FilesKept, FileRec
      <3>3. log[dir[c].run] \in RunRec /\ log[dir[c].run].to <= clock
        BY <1>2, <3>1, <3>2 DEF TimingsInv, DriverInv, LogKept
      <3>4. log[dir[c].run].to \in Nat
        BY <3>3 DEF RunRec
      <3> QED
        BY <3>1, <3>2, <3>3, <3>4 DEF Within
    <2>2. ASSUME NEW c \in Cells, got[c].run > 0 PROVE got[c].xs \in Samples(got[c].n, Quick \cup Busy)
      BY <1>2, <2>2, RowIsRec DEF TimingsInv, RowsKept
    <2> QED
      BY <1>2, <2>1, <2>2 DEF TimingsInv, DriverInv, DriverShape, ReaderShape, TimingsTypeOK
  <1> QED
    BY <1>1, <1>2, TimingsInvariance, PTL DEF WindowsSound

\* The number of a row, by whether its program was ever alone.
LEMMA FileTellsRegime ==
  ASSUME TimingsInv, NEW c \in Read1
  PROVE  /\ Alone(got[c].xs) => \E p, q \in Quick : Fast2(c) = p + q
         /\ ~Alone(got[c].xs) => \E p, q \in Busy : Fast2(c) = p + q
  <1>1. got[c].xs \in Samples(got[c].n, Quick \cup Busy)
    BY DEF TimingsInv, RowsKept
  <1>2. got[c].n \in Nat \ {0}
    BY TimingsAssumption DEF Read1, RowRec
  <1> QED
    BY <1>1, <1>2, FastIsOfOneRegime DEF Fast2

\* No ladder is accepted with the base and its twin, as measured by one run, in
\* different regimes: the twin gate of ladder.mjs.
THEOREM TwinGateIsSound == TimingsSpec => []TwinGatesWindow
  <1>1. ASSUME TimingsInv PROVE TwinGatesWindow
    <2>1. ASSUME by = "ladder", gated, verdict = "accepted", NEW b \in ranked
          PROVE  Alone(got[<<Base, b>>].xs) <=> Alone(got[<<Twin, b>>].xs)
      <3>1. <<Base, b>> \in Read1 /\ <<Twin, b>> \in Read1 /\ TwinAgrees
        BY <1>1, <2>1 DEF TimingsInv, TwinKept
      <3>2. Agree(Fast2(<<Twin, b>>), Fast2(<<Base, b>>))
        BY <3>1 DEF TwinAgrees
      <3>3. ASSUME Alone(got[<<Base, b>>].xs), ~Alone(got[<<Twin, b>>].xs) PROVE FALSE
        <4>1. PICK p, q \in Quick : Fast2(<<Base, b>>) = p + q
          BY <1>1, <3>1, <3>3, FileTellsRegime
        <4>2. PICK u, v \in Busy : Fast2(<<Twin, b>>) = u + v
          BY <1>1, <3>1, <3>3, FileTellsRegime
        <4>3. ~Agree(u + v, p + q)
          BY RegimesDisagree
        <4> QED
          BY <3>2, <4>1, <4>2, <4>3
      <3>4. ASSUME ~Alone(got[<<Base, b>>].xs), Alone(got[<<Twin, b>>].xs) PROVE FALSE
        <4>1. PICK p, q \in Quick : Fast2(<<Twin, b>>) = p + q
          BY <1>1, <3>1, <3>4, FileTellsRegime
        <4>2. PICK u, v \in Busy : Fast2(<<Base, b>>) = u + v
          BY <1>1, <3>1, <3>4, FileTellsRegime
        <4>3. ~Agree(p + q, u + v)
          BY RegimesDisagree
        <4> QED
          BY <3>2, <4>1, <4>2, <4>3
      <3> QED
        BY <3>3, <3>4
    <2> QED
      BY <2>1 DEF TwinGatesWindow
  <1> QED
    BY <1>1, TimingsInvariance, PTL

----------------------------------------------------------------------------
(* The gauntlet: every operation one verdict, every verdict one reason.    *)

Doings == Clicks \cup Polled \cup Silent \cup Judged \cup {"read"}
StepRec == [do : Doings, row : Nat, want : Nat]

\* Every operation is a program that ends in an assertion, not in a click, a read or an
\* evaluation: the steps that go on to the next one without looking for the end.
EndsInAssertion(p) == p \in Seq(StepRec) /\ Len(p) > 0 /\ p[Len(p)].do \in Polled \cup Judged

LEMMA LastOfTwo ==
  ASSUME NEW s \in Seq(StepRec), NEW t, EndsInAssertion(t)
  PROVE  EndsInAssertion(s \o t)
  <1>1. t \in Seq(StepRec) /\ Len(t) \in Nat /\ Len(t) > 0
    BY DEF EndsInAssertion
  <1>2. s \o t \in Seq(StepRec) /\ Len(s \o t) = Len(s) + Len(t)
    BY <1>1
  <1>3. (s \o t)[Len(s) + Len(t)] = t[Len(t)]
    BY <1>1
  <1> QED
    BY <1>1, <1>2, <1>3 DEF EndsInAssertion

LEMMA FilledIs == Filled \in Seq(StepRec)
  <1>1. N \in Nat
    BY GauntletAssumption
  <1>2. Press("run") \in StepRec /\ Step("text", N, N) \in StepRec
    BY <1>1 DEF Press, Step, StepRec, Doings, Clicks, Polled, Silent, Judged
  <1> QED
    BY <1>2 DEF Filled

LEMMA ReadsIs ==
  ASSUME NEW ns \in Seq(Nat)
  PROVE  Reads(ns) \in Seq(StepRec)
  <1>1. \A i \in DOMAIN ns : Step("read", ns[i], 0) \in StepRec
    BY DEF Press, Step, StepRec, Doings, Clicks, Polled, Silent, Judged
  <1>2. Reads(ns) \in [1..Len(ns) -> StepRec]
    BY <1>1 DEF Reads
  <1> QED
    BY <1>2

LEMMA ProgramsEnd ==
  /\ Len(Program) = 11 /\ Operations = 1..11
  /\ \A k \in Operations : EndsInAssertion(Program[k])
  <1>1. N \in Nat /\ LotsN \in Nat /\ Stride \in Nat /\ N >= 7 /\ Stride < N
    BY GauntletAssumption
  <1>2. /\ N - 1 \in Nat /\ N - 2 \in Nat /\ N + 1 - Stride \in Nat /\ N + 1 \in Nat /\ 2 * N \in Nat
        /\ 1 + Stride \in Nat /\ N + 2 \in Nat /\ N + 3 \in Nat
    BY <1>1
  <1>3. EndsInAssertion(Run1k)
    <2>1. /\ Press("run") \in StepRec /\ Step("count", 0, N) \in StepRec /\ Step("text", 1, 1) \in StepRec
          /\ Step("text", N, N) \in StepRec /\ Step("text", N, N).do = "text"
      BY <1>1 DEF Press, Step, StepRec, Doings, Clicks, Polled, Silent, Judged
    <2> QED
      BY <2>1 DEF Run1k, EndsInAssertion, Polled
  <1>4. EndsInAssertion(Replace1k)
    <2> DEFINE own == <<Press("run"), Step("text", 1, N + 1), Step("text", N, 2 * N), Step("count", 0, N)>>
    <2>1. /\ Press("run") \in StepRec /\ Step("text", 1, N + 1) \in StepRec
          /\ Step("text", N, 2 * N) \in StepRec
          /\ Step("count", 0, N) \in StepRec /\ Step("count", 0, N).do = "count"
      BY <1>1, <1>2 DEF Press, Step, StepRec, Doings, Clicks, Polled, Silent, Judged
    <2>2. EndsInAssertion(own)
      BY <2>1 DEF EndsInAssertion, Polled
    <2> QED
      BY <2>2, FilledIs, LastOfTwo DEF Replace1k
  <1>5. EndsInAssertion(Update10th1k)
    <2> DEFINE own == <<Press("update"), Step("marked", N + 1 - Stride, 0), Step("marked", 1, 0),
                        Step("marked", 1 + Stride, 0), Step("unmarked", 2, 0)>>
    <2>1. /\ Press("update") \in StepRec /\ Step("marked", N + 1 - Stride, 0) \in StepRec
          /\ Step("marked", 1, 0) \in StepRec /\ Step("marked", 1 + Stride, 0) \in StepRec
          /\ Step("unmarked", 2, 0) \in StepRec /\ Step("unmarked", 2, 0).do = "unmarked"
      BY <1>2 DEF Press, Step, StepRec, Doings, Clicks, Polled, Silent, Judged
    <2>2. EndsInAssertion(own)
      BY <2>1 DEF EndsInAssertion, Polled
    <2> QED
      BY <2>2, FilledIs, LastOfTwo DEF Update10th1k
  <1>6. EndsInAssertion(Select1k)
    <2> DEFINE own == <<Step("label", 5, 0), Step("danger", 5, 0), Step("dangers", 0, 1),
                        Step("label", 2, 0), Step("danger", 2, 0), Step("dangers", 0, 1)>>
    <2>1. /\ Step("label", 5, 0) \in StepRec /\ Step("danger", 5, 0) \in StepRec
          /\ Step("dangers", 0, 1) \in StepRec /\ Step("dangers", 0, 1).do = "dangers"
          /\ Step("label", 2, 0) \in StepRec /\ Step("danger", 2, 0) \in StepRec
      BY DEF Press, Step, StepRec, Doings, Clicks, Polled, Silent, Judged
    <2>2. EndsInAssertion(own)
      BY <2>1 DEF EndsInAssertion, Polled
    <2> QED
      BY <2>2, FilledIs, LastOfTwo DEF Select1k
  <1>7. EndsInAssertion(Swap1k)
    <2> DEFINE own == <<Press("swaprows"), Step("was", 2, N - 1), Step("was", N - 1, 2), Step("was", 1, 1),
                        Step("was", 3, 3), Step("was", N - 2, N - 2), Step("was", N, N)>>
               ns == <<1, 2, 3, N - 2, N - 1, N>>
    <2>1. /\ Press("swaprows") \in StepRec /\ Step("was", 2, N - 1) \in StepRec
          /\ Step("was", N - 1, 2) \in StepRec /\ Step("was", 1, 1) \in StepRec
          /\ Step("was", 3, 3) \in StepRec /\ Step("was", N - 2, N - 2) \in StepRec
          /\ Step("was", N, N) \in StepRec /\ Step("was", N, N).do = "was"
      BY <1>1, <1>2 DEF Press, Step, StepRec, Doings, Clicks, Polled, Silent, Judged
    <2>2. EndsInAssertion(own)
      BY <2>1 DEF EndsInAssertion, Polled
    <2>3. Reads(ns) \in Seq(StepRec)
      <3>1. ns \in Seq(Nat)
        BY <1>1, <1>2
      <3> QED
        BY <3>1, ReadsIs
    <2>4. Filled \o Reads(ns) \in Seq(StepRec)
      BY <2>3, FilledIs
    <2>5. Swap1k = (Filled \o Reads(ns)) \o own
      BY DEF Swap1k
    <2> HIDE DEF own, ns
    <2> QED
      BY <2>2, <2>4, <2>5, LastOfTwo
  <1>8. EndsInAssertion(Remove1k)
    <2> DEFINE own == <<Step("remove", 4, 0), Step("was", 4, 5), Step("was", 5, 6), Step("count", 0, N - 1),
                        Step("gone", 4, 5)>>
    <2>1. /\ Step("remove", 4, 0) \in StepRec /\ Step("was", 4, 5) \in StepRec
          /\ Step("was", 5, 6) \in StepRec /\ Step("count", 0, N - 1) \in StepRec
          /\ Step("gone", 4, 5) \in StepRec /\ Step("gone", 4, 5).do = "gone"
      BY <1>2 DEF Press, Step, StepRec, Doings, Clicks, Polled, Silent, Judged
    <2>2. EndsInAssertion(own)
      BY <2>1 DEF EndsInAssertion, Judged
    <2>3. Reads(<<4, 5, 6>>) \in Seq(StepRec)
      <3>1. <<4, 5, 6>> \in Seq(Nat)
        OBVIOUS
      <3> QED
        BY <3>1, ReadsIs
    <2>4. Filled \o Reads(<<4, 5, 6>>) \in Seq(StepRec)
      BY <2>3, FilledIs
    <2>5. Remove1k = (Filled \o Reads(<<4, 5, 6>>)) \o own
      BY DEF Remove1k
    <2> HIDE DEF own
    <2> QED
      BY <2>2, <2>4, <2>5, LastOfTwo
  <1>9. EndsInAssertion(Create10k)
    <2>1. /\ Press("runlots") \in StepRec /\ Step("bigcount", 0, LotsN) \in StepRec
          /\ Step("anchor", LotsN, 0) \in StepRec
          /\ Step("text", LotsN, LotsN) \in StepRec /\ Step("text", LotsN, LotsN).do = "text"
      BY <1>1 DEF Press, Step, StepRec, Doings, Clicks, Polled, Silent, Judged
    <2> QED
      BY <2>1 DEF Create10k, EndsInAssertion, Polled
  <1>10. EndsInAssertion(Create1kAfter1k)
    <2> DEFINE own == <<Press("add"), Step("bigcount", 0, 2 * N), Step("text", N + 1, N + 1),
                        Step("text", 2 * N, 2 * N), Step("text", 1, 1)>>
    <2>1. /\ Press("add") \in StepRec /\ Step("bigcount", 0, 2 * N) \in StepRec
          /\ Step("text", N + 1, N + 1) \in StepRec /\ Step("text", 2 * N, 2 * N) \in StepRec
          /\ Step("text", 1, 1) \in StepRec /\ Step("text", 1, 1).do = "text"
      BY <1>2 DEF Press, Step, StepRec, Doings, Clicks, Polled, Silent, Judged
    <2>2. EndsInAssertion(own)
      BY <2>1 DEF EndsInAssertion, Polled
    <2> QED
      BY <2>2, FilledIs, LastOfTwo DEF Create1kAfter1k
  <1>11. EndsInAssertion(Clear1k)
    <2> DEFINE own == <<Press("clear"), Step("count", 0, 0)>>
    <2>1. Press("clear") \in StepRec /\ Step("count", 0, 0) \in StepRec /\ Step("count", 0, 0).do = "count"
      BY DEF Press, Step, StepRec, Doings, Clicks, Polled, Silent, Judged
    <2>2. EndsInAssertion(own)
      BY <2>1 DEF EndsInAssertion, Polled
    <2> QED
      BY <2>2, FilledIs, LastOfTwo DEF Clear1k
  <1>12. EndsInAssertion(HtmlStructure)
    <2>1. /\ Press("add") \in StepRec /\ Step("text", N, N) \in StepRec /\ Step("probe", N, 0) \in StepRec
          /\ Step("present", 0, 0) \in StepRec
          /\ Step("built", 0, 0) \in StepRec /\ Step("built", 0, 0).do = "built"
      BY <1>1 DEF Press, Step, StepRec, Doings, Clicks, Polled, Silent, Judged
    <2> QED
      BY <2>1 DEF HtmlStructure, EndsInAssertion, Judged
  <1>13. EndsInAssertion(Keyedness)
    <2>1. /\ Press("add") \in StepRec /\ Press("install") \in StepRec /\ Press("observable") \in StepRec
          /\ Press("store") \in StepRec /\ Press("swaprows") \in StepRec /\ Press("result") \in StepRec
          /\ Press("keyedswap") \in StepRec /\ Press("reset") \in StepRec /\ Press("run") \in StepRec
          /\ Press("keyedremove") \in StepRec /\ Press("keyedremove").do = "keyedremove"
      BY DEF Press, Step, StepRec, Doings, Clicks, Polled, Silent, Judged
    <2>2. /\ Step("text", N, N) \in StepRec /\ Step("text", 2, N - 1) \in StepRec
          /\ Step("text", N, 2 * N) \in StepRec /\ Step("keyedrun", 0, N) \in StepRec
          /\ Step("text", 2, N + 2) \in StepRec /\ Step("remove", 2, 0) \in StepRec
          /\ Step("text", 2, N + 3) \in StepRec
      BY <1>1, <1>2 DEF Press, Step, StepRec, Doings, Clicks, Polled, Silent, Judged
    <2> QED
      BY <2>1, <2>2 DEF Keyedness, EndsInAssertion, Judged
  <1>14. Len(Program) = 11 /\ DOMAIN Program = 1..11
    BY DEF Program
  <1>15. \A k \in 1..11 : EndsInAssertion(Program[k])
    <2>1. /\ Program[1] = Run1k /\ Program[2] = Replace1k /\ Program[3] = Update10th1k
          /\ Program[4] = Select1k /\ Program[5] = Swap1k /\ Program[6] = Remove1k
          /\ Program[7] = Create10k /\ Program[8] = Create1kAfter1k /\ Program[9] = Clear1k
          /\ Program[10] = HtmlStructure /\ Program[11] = Keyedness
      BY DEF Program
    <2>2. \A k \in 1..11 : k \in {1, 2, 3, 4, 5, 6, 7, 8, 9, 10, 11}
      OBVIOUS
    <2> QED
      BY <2>1, <2>2, <1>3, <1>4, <1>5, <1>6, <1>7, <1>8, <1>9, <1>10, <1>11, <1>12, <1>13
  <1> QED
    BY <1>14, <1>15 DEF Operations

\* The assertions of operation k before its p-th step.
Asserted(k, p) == Cardinality({i \in 1..(p - 1) : Asserts(Program[k][i])})

ResultRec == [verdict : {"pass", "fail", "cant-tell"}, made : Nat, broken : SUBSET Nat, trouble : BOOLEAN]

Sound(k, r) ==
    /\ r.trouble => r.verdict = "cant-tell"
    /\ r.broken \subseteq {r.made}
    /\ r.verdict = "pass" => r.made = Asserting(k)

\* What has been judged.  A summary, once written, is the summary of what there is now.
ResultsKept ==
    /\ target \in Targets /\ troubles \in 0..MaxTroubles
    /\ results \in Seq(ResultRec) /\ Len(results) <= Len(Program)
    /\ \A k \in DOMAIN results : Sound(k, results[k])
    /\ report = <<>> \/ (report = <<Summary>> /\ Op \notin Operations)

SavedRec == [pre : [1..N -> Nat], probe : {"absent", "golden", "other"},
             got : [added : SUBSET Nat, removed : SUBSET Nat, stored : Nat]]

\* The operation under way: every assertion it passed was recorded, and holds.
OnCourse ==
    /\ pc \in 0..(IF Op \in Operations THEN Len(Program[Op]) ELSE 0)
    /\ found \in BOOLEAN /\ waited \in 0..(IF pc = 0 THEN 0 ELSE Patience)
    /\ assertions \in Seq({"holds"}) /\ Len(assertions) = IF pc = 0 THEN 0 ELSE Asserted(Op, pc)
    /\ saved \in SavedRec

\* The page: every node in it, or seen by the observer, was made.
TrOf(n) == [node : 1..n, id : Nat, mark : BOOLEAN, danger : BOOLEAN]

Gesture == [do : Doings \cup {"fill", "filllots", "swapback"}, row : Int]

PageKept ==
    /\ nextId \in Nat /\ nodes \in Nat
    /\ rows \in Seq(TrOf(nodes)) /\ pending \in Seq(Gesture)
    /\ kd \in [on : BOOLEAN, added : SUBSET (1..nodes), removed : SUBSET (1..nodes), stored : Nat]

GauntletInv == ResultsKept /\ OnCourse /\ PageKept

LEMMA AssertedGrows ==
  ASSUME NEW k \in Operations, NEW p \in 1..Len(Program[k])
  PROVE  /\ Asserted(k, p) \in Nat /\ Asserted(k, 1) = 0
         /\ Asserts(Program[k][p]) => Asserted(k, p + 1) = Asserted(k, p) + 1
         /\ ~Asserts(Program[k][p]) => Asserted(k, p + 1) = Asserted(k, p)
         /\ p = Len(Program[k]) => Asserting(k) = Asserted(k, p + 1)
  <1> DEFINE A(q) == {i \in 1..(q - 1) : Asserts(Program[k][i])}
  <1>1. p \in Nat /\ p >= 1 /\ DOMAIN Program[k] = 1..Len(Program[k]) /\ Len(Program[k]) \in Nat
    <2>1. Program[k] \in Seq(StepRec)
      BY ProgramsEnd DEF EndsInAssertion
    <2> QED
      BY <2>1
  <1>2. IsFiniteSet(A(p))
    <2>0. 1 \in Int /\ p - 1 \in Int
      BY <1>1
    <2>1. IsFiniteSet(1..(p - 1)) /\ A(p) \subseteq 1..(p - 1)
      BY <2>0, FS_Interval
    <2> QED
      BY <2>1, FS_Subset
  <1>3. Asserted(k, p) = Cardinality(A(p)) /\ Asserted(k, p + 1) = Cardinality(A(p + 1))
    BY DEF Asserted
  <1>4. Asserted(k, 1) = 0
    <2>1. A(1) = {}
      OBVIOUS
    <2>2. Asserted(k, 1) = Cardinality(A(1))
      BY DEF Asserted
    <2> QED
      BY <2>1, <2>2, FS_EmptySet
  <1>5. ASSUME Asserts(Program[k][p]) PROVE A(p + 1) = A(p) \cup {p} /\ p \notin A(p)
    <2>1. \A i : i \in 1..(p + 1 - 1) <=> (i \in 1..(p - 1) \/ i = p)
      BY <1>1
    <2>2. p \notin 1..(p - 1)
      BY <1>1
    <2> QED
      BY <1>5, <2>1, <2>2
  <1>6. ASSUME ~Asserts(Program[k][p]) PROVE A(p + 1) = A(p)
    <2>1. \A i : i \in 1..(p + 1 - 1) <=> (i \in 1..(p - 1) \/ i = p)
      BY <1>1
    <2> QED
      BY <1>6, <2>1
  <1>7. p = Len(Program[k]) => Asserting(k) = Asserted(k, p + 1)
    <2>1. p + 1 - 1 = p
      BY <1>1
    <2> QED
      BY <1>1, <2>1 DEF Asserting, Asserted
  <1>8. Cardinality(A(p)) \in Nat
    BY <1>2, FS_CardinalityType
  <1> HIDE DEF A
  <1>9. Asserts(Program[k][p]) => Asserted(k, p + 1) = Asserted(k, p) + 1
    BY <1>2, <1>3, <1>5, FS_AddElement
  <1> QED
    BY <1>3, <1>4, <1>6, <1>7, <1>8, <1>9

LEMMA GauntletFromInit == ASSUME Init PROVE GauntletInv
  <1>1. MaxTroubles \in Nat /\ N \in Nat
    BY GauntletAssumption
  <1>2. Len(results) = 0 /\ DOMAIN results = {}
    BY DEF Init
  <1>3. ResultsKept
    BY <1>1, <1>2, ProgramsEnd DEF Init, ResultsKept
  <1>4. OnCourse
    <2>1. Op \in Operations /\ Len(Program[Op]) \in Nat
      BY <1>2, ProgramsEnd DEF Op, EndsInAssertion
    <2>2. pc = 0 /\ found = FALSE /\ waited = 0 /\ assertions = <<>>
      BY DEF Init
    <2>3. found \in BOOLEAN
      BY <2>2
    <2>4. pc \in 0..(IF Op \in Operations THEN Len(Program[Op]) ELSE 0) /\ waited \in 0..(IF pc = 0 THEN 0 ELSE Patience)
      BY <2>1, <2>2
    <2>5. saved \in SavedRec
      BY DEF Init, NoResult, SavedRec
    <2> QED
      BY <2>2, <2>3, <2>4, <2>5 DEF OnCourse
  <1>5. PageKept
    <2>1. kd.on \in BOOLEAN
      BY DEF Init
    <2> QED
      BY <2>1 DEF Init, PageKept
  <1> QED
    BY <1>3, <1>4, <1>5 DEF GauntletInv

LEMMA AppendIs ==
  ASSUME NEW S, NEW es \in Seq(S), NEW e
  PROVE  /\ Len(es) \in Nat /\ Len(Append(es, e)) = Len(es) + 1
         /\ DOMAIN es = 1..Len(es) /\ DOMAIN Append(es, e) = 1..(Len(es) + 1)
         /\ Append(es, e)[Len(es) + 1] = e
         /\ \A i \in DOMAIN es : Append(es, e)[i] = es[i] /\ es[i] \in S
         /\ \A i \in DOMAIN Append(es, e) : i = Len(es) + 1 \/ i \in DOMAIN es
         /\ Len(es) + 1 \in DOMAIN Append(es, e)
  <1> DEFINE n == Len(es)
  <1>1. es \in Seq(S \cup {e})
    OBVIOUS
  <1>2. n \in Nat /\ DOMAIN es = 1..n
    OBVIOUS
  <1>4. \A i \in DOMAIN es : es[i] \in S
    OBVIOUS
  <1>3. /\ Len(Append(es, e)) = n + 1 /\ DOMAIN Append(es, e) = 1..(n + 1) /\ Append(es, e)[n + 1] = e
        /\ \A i \in 1..n : Append(es, e)[i] = es[i]
    BY <1>1, AppendProperties
  <1> HIDE DEF n
  <1>5. n + 1 \in 1..(n + 1) /\ \A i \in 1..(n + 1) : i = n + 1 \/ i \in 1..n
    BY <1>2
  <1> QED
    BY <1>2, <1>3, <1>4, <1>5 DEF n

\* The verdict of an operation that ends with the assertion `last`, all before it holding.
LEMMA VerdictOf ==
  ASSUME NEW es \in Seq({"holds"}), NEW last \in {"holds", "violated", "unresolvable"}
  PROVE  /\ Verdict(Append(es, last)) = IF last = "violated" THEN "fail"
                                        ELSE IF last = "unresolvable" THEN "cant-tell" ELSE "pass"
         /\ Len(Append(es, last)) = Len(es) + 1
         /\ {i \in DOMAIN Append(es, last) : Append(es, last)[i] # "holds"} \subseteq {Len(es) + 1}
  <1> DEFINE bs == Append(es, last)
  <1>1. /\ Len(bs) = Len(es) + 1 /\ bs[Len(es) + 1] = last /\ Len(es) + 1 \in DOMAIN bs
        /\ \A i \in DOMAIN es : bs[i] = es[i] /\ es[i] \in {"holds"}
        /\ \A i \in DOMAIN bs : i = Len(es) + 1 \/ i \in DOMAIN es
    <2> DEFINE H == {"holds"}
    <2>1. es \in Seq(H)
      OBVIOUS
    <2> HIDE DEF H
    <2>2. /\ Len(bs) = Len(es) + 1 /\ bs[Len(es) + 1] = last /\ Len(es) + 1 \in DOMAIN bs
          /\ \A i \in DOMAIN es : bs[i] = es[i] /\ es[i] \in H
          /\ \A i \in DOMAIN bs : i = Len(es) + 1 \/ i \in DOMAIN es
      BY <2>1, AppendIs
    <2> QED
      BY <2>2 DEF H
  <1> HIDE DEF bs
  <1>2. \A i \in DOMAIN bs : i = Len(es) + 1 \/ bs[i] = "holds"
    BY <1>1
  <1>4. Range(bs) \subseteq {"holds", last} /\ last \in Range(bs)
    BY <1>1, <1>2 DEF Range
  <1>5. Verdict(bs) = IF last = "violated" THEN "fail"
                      ELSE IF last = "unresolvable" THEN "cant-tell" ELSE "pass"
    BY <1>4 DEF Verdict
  <1> QED
    BY <1>1, <1>2, <1>5 DEF bs

\* runOp ends: the entry it leaves says why.
LEMMA CloseKeeps ==
  ASSUME GauntletInv, Op \in Operations, NEW last \in {"holds", "violated", "unresolvable"},
         NEW trouble \in BOOLEAN, trouble => last = "unresolvable",
         last = "holds" => Len(assertions) + 1 = Asserting(Op),
         Close(Append(assertions, last), trouble),
         target' = target, report' = report, troubles' \in 0..MaxTroubles
  PROVE  GauntletInv'
  <1> DEFINE bs == Append(assertions, last)
             entry == [verdict |-> Verdict(bs), made |-> Len(bs),
                       broken |-> {i \in DOMAIN bs : bs[i] # "holds"}, trouble |-> trouble]
  <1>1. assertions \in Seq({"holds"})
    BY DEF GauntletInv, OnCourse
  <1>2. /\ Verdict(bs) = IF last = "violated" THEN "fail"
                         ELSE IF last = "unresolvable" THEN "cant-tell" ELSE "pass"
        /\ Len(bs) = Len(assertions) + 1
        /\ {i \in DOMAIN bs : bs[i] # "holds"} \subseteq {Len(assertions) + 1}
    BY <1>1, VerdictOf
  <1>3. Len(assertions) + 1 \in Nat
    BY <1>1
  <1>4. entry.verdict = Verdict(bs) /\ entry.made = Len(bs) /\ entry.trouble = trouble
        /\ entry.broken = {i \in DOMAIN bs : bs[i] # "holds"}
    OBVIOUS
  <1>5. entry \in ResultRec
    BY <1>2, <1>3 DEF ResultRec
  <1>6. results' = Append(results, entry)
    BY DEF Close
  <1> HIDE DEF bs
  <1>7. Sound(Op, entry)
    BY <1>2, <1>4 DEF Sound
  <1> HIDE DEF entry
  <1>8. /\ results \in Seq(ResultRec) /\ Len(results) <= 11 /\ Len(results) \in Nat
        /\ \A k \in DOMAIN results : Sound(k, results[k])
        /\ report = <<>> \/ (report = <<Summary>> /\ Op \notin Operations)
        /\ target \in Targets
    BY ProgramsEnd DEF GauntletInv, ResultsKept
  <1>9. Op = Len(results) + 1 /\ Op \in 1..11
    BY ProgramsEnd DEF Op
  <1>10. /\ results' \in Seq(ResultRec) /\ Len(results') = Len(results) + 1
         /\ \A k \in DOMAIN results' : (k \in DOMAIN results /\ results'[k] = results[k]) \/ (k = Op /\ results'[k] = entry)
    BY <1>5, <1>6, <1>8, <1>9, AppendIs
  <1>11. ResultsKept'
    <2>1. \A k \in DOMAIN results' : Sound(k, results'[k])
      BY <1>7, <1>8, <1>10
    <2>2. Len(results') <= Len(Program)
      BY <1>8, <1>9, <1>10, ProgramsEnd
    <2>3. report' = <<>>
      BY <1>8
    <2> QED
      BY <1>8, <1>10, <2>1, <2>2, <2>3 DEF ResultsKept
  <1>12. OnCourse'
    <2>1. N \in Nat
      BY GauntletAssumption
    <2>2. pc' = 0 /\ found' = FALSE /\ waited' = 0 /\ assertions' = <<>>
      BY DEF Close
    <2>3. saved' \in SavedRec
      BY DEF Close, NoResult, SavedRec
    <2>4. pc' \in 0..(IF Op' \in Operations THEN Len(Program[Op']) ELSE 0)
      <3>1. \A k \in Operations : Len(Program[k]) \in Nat
        BY ProgramsEnd DEF EndsInAssertion
      <3> QED
        BY <2>2, <3>1
    <2>5. found' \in BOOLEAN
      BY <2>2
    <2> QED
      BY <2>2, <2>3, <2>4, <2>5 DEF OnCourse
  <1>13. PageKept'
    <2>1. rows' = <<>> /\ nextId' = 1 /\ nodes' = 0 /\ pending' = <<>>
          /\ kd' = [on |-> FALSE, added |-> {}, removed |-> {}, stored |-> 0]
      BY DEF Close
    <2>2. FALSE \in BOOLEAN
      OBVIOUS
    <2> QED
      BY <2>1, <2>2 DEF PageKept
  <1> QED
    BY <1>11, <1>12, <1>13 DEF GauntletInv

LEMMA NowIs ==
  ASSUME GauntletInv, InProgram
  PROVE  /\ Op \in Operations /\ pc \in 1..Len(Program[Op]) /\ Len(Program[Op]) \in Nat
         /\ Now = Program[Op][pc]
         /\ pc = Len(Program[Op]) => Now.do \in Polled \cup Judged
         /\ Len(assertions) = Asserted(Op, pc)
  <1>1. Op \in Operations /\ pc > 0
    BY DEF InProgram
  <1>2. pc \in 0..Len(Program[Op]) /\ Len(assertions) = Asserted(Op, pc)
    <2>1. pc # 0 /\ pc \in 0..Len(Program[Op])
      BY <1>1 DEF GauntletInv, OnCourse
    <2> QED
      BY <1>1, <2>1 DEF GauntletInv, OnCourse
  <1>3. Program[Op] \in Seq(StepRec) /\ Program[Op][Len(Program[Op])].do \in Polled \cup Judged
    BY <1>1, ProgramsEnd DEF EndsInAssertion
  <1>4. Len(Program[Op]) \in Nat
    BY <1>3
  <1>5. pc \in 1..Len(Program[Op])
    BY <1>1, <1>2, <1>4
  <1> QED
    BY <1>1, <1>2, <1>3, <1>4, <1>5 DEF Now

LEMMA PatienceIs == Patience \in Nat /\ Patience' \in Nat
  BY GauntletAssumption DEF Patience

\* The operation goes on with its next step.
LEMMA GoOnKeeps ==
  ASSUME GauntletInv, InProgram, pc < Len(Program[Op]),
         pc' = pc + 1, found' = FALSE, waited' = 0,
         UNCHANGED <<target, results, report, troubles>>,
         \/ Asserts(Now) /\ assertions' = Append(assertions, "holds")
         \/ ~Asserts(Now) /\ assertions' = assertions,
         saved' \in SavedRec, PageKept'
  PROVE  GauntletInv'
  <1>1. Op' = Op /\ Op \in Operations /\ pc \in 1..Len(Program[Op]) /\ Len(Program[Op]) \in Nat
    BY NowIs DEF Op
  <1>2. ResultsKept'
    BY DEF GauntletInv, ResultsKept, Op, Summary, Count
  <1>3. pc' \in 0..Len(Program[Op]) /\ pc' # 0
    BY <1>1
  <1>4. assertions' \in Seq({"holds"})
    BY DEF GauntletInv, OnCourse
  <1>5. Len(assertions') = Asserted(Op, pc')
    <2>1. Len(assertions) = Asserted(Op, pc) /\ Now = Program[Op][pc]
      BY NowIs
    <2>2. Len(Append(assertions, "holds")) = Len(assertions) + 1
      <3>1. assertions \in Seq({"holds"})
        BY DEF GauntletInv, OnCourse
      <3> QED
        BY <3>1, AppendIs
    <2> QED
      BY <1>1, <2>1, <2>2, AssertedGrows
  <1>6. OnCourse'
    <2>1. waited' \in 0..Patience'
      BY PatienceIs
    <2>2. found' \in BOOLEAN
      OBVIOUS
    <2> QED
      BY <1>1, <1>3, <1>4, <1>5, <2>1, <2>2 DEF OnCourse
  <1> QED
    BY <1>2, <1>6 DEF GauntletInv

\* record
LEMMA RecordKeeps ==
  ASSUME GauntletInv, InProgram, Asserts(Now), NEW status \in {"holds", "violated", "unresolvable"},
         Record(status), UNCHANGED <<target, report, troubles>>
  PROVE  GauntletInv'
  <1>1. /\ Op \in Operations /\ pc \in 1..Len(Program[Op]) /\ Len(Program[Op]) \in Nat
        /\ Now = Program[Op][pc] /\ Len(assertions) = Asserted(Op, pc)
    BY NowIs
  <1>2. troubles' \in 0..MaxTroubles
    BY DEF GauntletInv, ResultsKept
  <1>3. CASE status # "holds"
    <2>1. Close(Append(assertions, status), FALSE)
      BY <1>3 DEF Record
    <2> QED
      BY <1>1, <1>2, <1>3, <2>1, CloseKeeps
  <1>4. CASE status = "holds" /\ pc = Len(Program[Op])
    <2>1. Close(Append(assertions, "holds"), FALSE)
      BY <1>4 DEF Record, Advance
    <2>2. Len(assertions) + 1 = Asserting(Op)
      BY <1>1, <1>4, AssertedGrows
    <2> QED
      BY <1>1, <1>2, <2>1, <2>2, CloseKeeps
  <1>5. CASE status = "holds" /\ pc # Len(Program[Op])
    <2>1. pc < Len(Program[Op])
      BY <1>1, <1>5
    <2>2. /\ pc' = pc + 1 /\ found' = FALSE /\ waited' = 0 /\ assertions' = Append(assertions, "holds")
          /\ UNCHANGED <<results, page>> /\ UNCHANGED <<saved, kd>>
      BY <1>5, <2>1 DEF Record, Advance
    <2>3. saved' \in SavedRec
      BY <2>2 DEF GauntletInv, OnCourse
    <2>4. PageKept'
      BY <2>2 DEF GauntletInv, PageKept, page
    <2> QED
      BY <2>1, <2>2, <2>3, <2>4, GoOnKeeps
  <1> QED
    BY <1>3, <1>4, <1>5

\* Waiting for the page changes nothing but the looks taken.
LEMMA SleepKeeps ==
  ASSUME GauntletInv, InProgram, Sleep, UNCHANGED <<target, report, troubles>>
  PROVE  GauntletInv'
  <1>1. /\ waited < Patience /\ waited' = waited + 1
        /\ UNCHANGED <<results, pc, found, assertions, saved, page, kd>>
    BY DEF Sleep
  <1>2. Op' = Op /\ Now' = Now /\ Patience' = Patience
    BY <1>1 DEF Op, Now, Patience
  <1>3. ResultsKept'
    BY <1>1 DEF GauntletInv, ResultsKept, Op, Summary, Count
  <1>4. OnCourse'
    <2>1. pc # 0
      BY DEF InProgram
    <2>2. waited \in 0..Patience
      BY <2>1 DEF GauntletInv, OnCourse
    <2>3. waited' \in 0..Patience
      BY <1>1, <2>2, PatienceIs
    <2> QED
      BY <1>1, <1>2, <2>1, <2>3 DEF GauntletInv, OnCourse
  <1>5. PageKept'
    BY <1>1 DEF GauntletInv, PageKept, page
  <1> QED
    BY <1>3, <1>4, <1>5 DEF GauntletInv

\* A step is of one kind.
LEMMA KindsDiffer ==
  /\ Clicks \cap (Polled \cup Silent \cup Judged \cup {"read"}) = {}
  /\ Silent \cap (Polled \cup Judged \cup {"read"}) = {} /\ "read" \notin Polled \cup Judged
  BY DEF Clicks, Polled, Silent, Judged

\* A click, a read or an evaluation is not the last step.
LEMMA NotLast ==
  ASSUME GauntletInv, InProgram, Now.do \in Clicks \cup Silent \cup {"read"}
  PROVE  pc < Len(Program[Op])
  <1>1. pc # Len(Program[Op])
    BY NowIs, KindsDiffer
  <1> QED
    BY <1>1, NowIs

LEMMA ClickKeeps ==
  ASSUME GauntletInv, Click
  PROVE  GauntletInv'
  <1>1. InProgram /\ Now.do \in Clicks /\ UNCHANGED <<target, report, troubles>>
    BY DEF Click
  <1>2. Asserts(Now)
    BY <1>1 DEF Asserts
  <1>3. CASE /\ found' = TRUE
             /\ UNCHANGED <<results, pc, waited, assertions, saved, page, kd>>
    <2>1. Op' = Op /\ Now' = Now /\ Patience' = Patience
      BY <1>3 DEF Op, Now, Patience
    <2>2. ResultsKept'
      BY <1>1, <1>3 DEF GauntletInv, ResultsKept, Op, Summary, Count
    <2>3. found' \in BOOLEAN
      BY <1>3
    <2>4. OnCourse'
      BY <1>3, <2>1, <2>3 DEF GauntletInv, OnCourse
    <2>5. PageKept'
      BY <1>3 DEF GauntletInv, PageKept, page
    <2> QED
      BY <2>2, <2>4, <2>5 DEF GauntletInv
  <1>4. CASE Sleep
    BY <1>1, <1>4, SleepKeeps
  <1>5. CASE Record("violated") \/ Record("unresolvable")
    BY <1>1, <1>2, <1>5, RecordKeeps
  <1>6. CASE /\ pc' = pc + 1 /\ found' = FALSE /\ waited' = 0
             /\ assertions' = Append(assertions, "holds")
             /\ pending' = Append(pending, [do |-> Now.do, row |-> Now.row])
             /\ UNCHANGED <<results, saved, rows, nextId, nodes, kd>>
    <2>1. Now \in StepRec
      <3>1. Program[Op] \in Seq(StepRec)
        BY NowIs, <1>1, ProgramsEnd DEF EndsInAssertion
      <3> QED
        BY <1>1, <3>1, NowIs
    <2>2. [do |-> Now.do, row |-> Now.row] \in Gesture
      BY <2>1 DEF StepRec, Gesture
    <2>3. PageKept'
      BY <1>6, <2>2 DEF GauntletInv, PageKept
    <2>4. saved' \in SavedRec
      BY <1>6 DEF GauntletInv, OnCourse
    <2> QED
      BY <1>1, <1>2, <1>6, <2>3, <2>4, NotLast, GoOnKeeps
  <1> QED
    BY <1>3, <1>4, <1>5, <1>6 DEF Click

LEMMA PollKeeps == ASSUME GauntletInv, Poll PROVE GauntletInv'
  <1>1. InProgram /\ Now.do \in Polled /\ UNCHANGED <<target, report, troubles>>
    BY DEF Poll
  <1>2. Asserts(Now)
    BY <1>1 DEF Asserts
  <1>3. Record("holds") \/ Sleep \/ Record("violated")
    BY DEF Poll
  <1> QED
    BY <1>1, <1>2, <1>3, SleepKeeps, RecordKeeps

LEMMA JudgeKeeps == ASSUME GauntletInv, Judge PROVE GauntletInv'
  <1>1. InProgram /\ Now.do \in Judged /\ UNCHANGED <<target, report, troubles>>
    BY DEF Judge
  <1>2. Asserts(Now)
    BY <1>1 DEF Asserts
  <1>3. Record("holds") \/ Record("violated")
    BY DEF Judge
  <1> QED
    BY <1>1, <1>2, <1>3, RecordKeeps

\* What a row shows is a number, once made.
LEMMA RowIs ==
  ASSUME GauntletInv, NEW n, Has(n)
  PROVE  rows[n] \in TrOf(nodes) /\ rows[n].id \in Nat /\ rows[n].node \in 1..nodes
  <1>1. rows \in Seq(TrOf(nodes)) /\ n \in DOMAIN rows
    BY DEF GauntletInv, PageKept, Has
  <1>2. rows[n] \in TrOf(nodes)
    BY <1>1
  <1> QED
    BY <1>2 DEF TrOf

LEMMA ReadKeeps == ASSUME GauntletInv, Read PROVE GauntletInv'
  <1>1. InProgram /\ Now.do = "read" /\ UNCHANGED <<target, report, troubles>>
    BY DEF Read
  <1>2. CASE ~Has(Now.row)
    \* An absent element throws: nothing was expected of it, and the operation ends.
    <2>1. Close(Append(assertions, "unresolvable"), FALSE)
      BY <1>2 DEF Read, Record
    <2>2. Op \in Operations /\ troubles' \in 0..MaxTroubles
      BY <1>1 DEF InProgram, GauntletInv, ResultsKept
    <2> QED
      BY <1>1, <2>1, <2>2, CloseKeeps
  <1>3. CASE Has(Now.row)
    <2>1. /\ saved' = [saved EXCEPT !.pre[Now.row] = rows[Now.row].id]
          /\ pc' = pc + 1 /\ found' = FALSE /\ waited' = 0
          /\ UNCHANGED <<results, assertions, page, kd>>
      BY <1>3 DEF Read
    <2>2. rows[Now.row].id \in Nat
      BY <1>3, RowIs
    <2>3. saved' \in SavedRec
      <3>1. saved \in SavedRec
        BY DEF GauntletInv, OnCourse
      <3> QED
        BY <2>1, <2>2, <3>1 DEF SavedRec
    <2>4. ~Asserts(Now)
      BY <1>1, KindsDiffer DEF Asserts
    <2>5. PageKept'
      BY <2>1 DEF GauntletInv, PageKept, page
    <2>6. pc < Len(Program[Op])
      BY <1>1, NotLast
    <2> QED
      BY <1>1, <2>1, <2>3, <2>4, <2>5, <2>6, GoOnKeeps
  <1> QED
    BY <1>2, <1>3

LEMMA EvaluateKeeps == ASSUME GauntletInv, Evaluate PROVE GauntletInv'
  <1>1. /\ InProgram /\ Now.do \in Silent
        /\ pc' = pc + 1 /\ found' = FALSE /\ waited' = 0
        /\ UNCHANGED <<target, results, report, assertions, page, troubles>>
    BY DEF Evaluate
  <1>2. kd \in [on : BOOLEAN, added : SUBSET (1..nodes), removed : SUBSET (1..nodes), stored : Nat]
    BY DEF GauntletInv, PageKept
  <1>3. saved' \in SavedRec
    <2>1. saved \in SavedRec
      BY DEF GauntletInv, OnCourse
    <2>2. CASE Now.do = "probe"
      <3>1. PICK v \in {"absent", "golden", "other"} : saved' = [saved EXCEPT !.probe = v]
        BY <2>2 DEF Evaluate
      <3> QED
        BY <2>1, <3>1 DEF SavedRec
    <2>3. CASE Now.do = "result"
      <3>1. saved' = [saved EXCEPT !.got = [added |-> kd.added, removed |-> kd.removed, stored |-> kd.stored]]
        BY <2>3 DEF Evaluate
      <3>2. 1..nodes \subseteq Nat
        OBVIOUS
      <3>3. [added |-> kd.added, removed |-> kd.removed, stored |-> kd.stored]
              \in [added : SUBSET Nat, removed : SUBSET Nat, stored : Nat]
        BY <1>2, <3>2
      <3> QED
        BY <2>1, <3>1, <3>3 DEF SavedRec
    <2>4. CASE Now.do # "probe" /\ Now.do # "result"
      BY <2>1, <2>4 DEF Evaluate
    <2> QED
      BY <2>2, <2>3, <2>4
  <1>4. kd' \in [on : BOOLEAN, added : SUBSET (1..nodes), removed : SUBSET (1..nodes), stored : Nat]
    <2>1. Reset(kd) \in [on : BOOLEAN, added : SUBSET (1..nodes), removed : SUBSET (1..nodes), stored : Nat]
      BY <1>2 DEF Reset
    <2>2. CASE Now.do = "install"
      <3>1. kd' = [Reset(kd) EXCEPT !.on = target # "untabled"] /\ (target # "untabled") \in BOOLEAN
        BY <2>2 DEF Evaluate
      <3> QED
        BY <2>1, <3>1
    <2>3. CASE Now.do = "reset"
      BY <2>1, <2>3 DEF Evaluate
    <2>4. CASE Now.do = "store"
      <3>1. kd' = [kd EXCEPT !.stored = IF Has(2) THEN rows[2].node ELSE 0]
        BY <2>4 DEF Evaluate
      <3>2. (IF Has(2) THEN rows[2].node ELSE 0) \in Nat
        <4>1. CASE Has(2)
          <5>1. rows[2].node \in 1..nodes
            BY <4>1, RowIs
          <5> QED
            BY <4>1, <5>1
        <4>2. CASE ~Has(2)
          BY <4>2
        <4> QED
          BY <4>1, <4>2
      <3> QED
        BY <1>2, <3>1, <3>2
    <2>5. CASE Now.do \notin {"install", "reset", "store"}
      BY <1>2, <2>5 DEF Evaluate
    <2> QED
      BY <2>2, <2>3, <2>4, <2>5
  <1>5. PageKept'
    BY <1>1, <1>4 DEF GauntletInv, PageKept, page
  <1>6. ~Asserts(Now)
    BY <1>1, KindsDiffer DEF Asserts
  <1>7. pc < Len(Program[Op])
    BY <1>1, NotLast
  <1> QED
    BY <1>1, <1>3, <1>5, <1>6, <1>7, GoOnKeeps

LEMMA TroubleKeeps == ASSUME GauntletInv, Trouble PROVE GauntletInv'
  <1>1. /\ Op \in Operations /\ Close(Append(assertions, "unresolvable"), TRUE)
        /\ target' = target /\ report' = report
    BY DEF Trouble
  <1>2. troubles' \in 0..MaxTroubles
    BY GauntletAssumption DEF Trouble, GauntletInv, ResultsKept
  <1> QED
    BY <1>1, <1>2, CloseKeeps

LEMMA NavigateKeeps == ASSUME GauntletInv, Navigate PROVE GauntletInv'
  <1>1. /\ Op \in Operations /\ pc = 0 /\ pc' = 1
        /\ UNCHANGED <<target, results, report, found, waited, assertions, saved, page, kd, troubles>>
    BY DEF Navigate
  <1>2. Op' = Op
    BY <1>1 DEF Op
  <1>3. ResultsKept'
    BY <1>1 DEF GauntletInv, ResultsKept, Op, Summary, Count
  <1>4. 1 \in 1..Len(Program[Op]) /\ Len(Program[Op]) \in Nat
    <2>1. Program[Op] \in Seq(StepRec) /\ Len(Program[Op]) > 0
      BY <1>1, ProgramsEnd DEF EndsInAssertion
    <2> QED
      BY <2>1
  <1>5. OnCourse'
    <2>1. Len(assertions) = 0 /\ Asserted(Op, 1) = 0
      BY <1>1, <1>4, AssertedGrows DEF GauntletInv, OnCourse
    <2>2. waited = 0
      BY <1>1 DEF GauntletInv, OnCourse
    <2>3. waited' \in 0..Patience'
      BY <1>1, <2>2, PatienceIs
    <2>4. pc' \in 0..Len(Program[Op])
      BY <1>1, <1>4
    <2> QED
      BY <1>1, <1>2, <2>1, <2>3, <2>4 DEF GauntletInv, OnCourse
  <1>6. PageKept'
    BY <1>1 DEF GauntletInv, PageKept, page
  <1> QED
    BY <1>3, <1>5, <1>6 DEF GauntletInv

LEMMA ReportKeeps ==
  ASSUME GauntletInv, Report \/ UNCHANGED vars
  PROVE  GauntletInv'
  <1>1. /\ UNCHANGED <<target, results, pc, found, waited, assertions, saved, page, kd, troubles>>
        /\ report' = report \/ (Op \notin Operations /\ report' = <<Summary>>)
    BY DEF Report, vars
  <1>2. Op' = Op /\ Now' = Now /\ Patience' = Patience /\ Summary' = Summary
    BY <1>1 DEF Op, Now, Patience, Summary, Count
  <1>3. ResultsKept'
    BY <1>1, <1>2 DEF GauntletInv, ResultsKept
  <1>4. OnCourse'
    BY <1>1, <1>2 DEF GauntletInv, OnCourse
  <1>5. PageKept'
    BY <1>1 DEF GauntletInv, PageKept, page
  <1> QED
    BY <1>3, <1>4, <1>5 DEF GauntletInv

\* A frame changes the page and what the observer has seen, nothing else.
LEMMA PaintedKeeps ==
  ASSUME GauntletInv, pending # <<>>, NEW rs, NEW in, NEW out, NEW rest,
         Painted(rs, in, out, rest), rest \in Seq(Gesture),
         nextId' \in Nat, nodes' \in Nat, nodes <= nodes', rs \in Seq(TrOf(nodes')),
         in \subseteq 1..nodes', out \subseteq 1..nodes'
  PROVE  GauntletInv'
  <1>1. /\ rows' = rs /\ pending' = rest \o Tail(pending)
        /\ kd' = IF kd.on THEN [kd EXCEPT !.added = @ \cup in, !.removed = @ \cup out] ELSE kd
        /\ UNCHANGED <<target, results, report, pc, found, waited, assertions, saved, troubles>>
    BY DEF Painted
  <1>2. Op' = Op /\ Now' = Now /\ Patience' = Patience /\ Summary' = Summary
    BY <1>1 DEF Op, Now, Patience, Summary, Count
  <1>3. ResultsKept'
    BY <1>1, <1>2 DEF GauntletInv, ResultsKept
  <1>4. OnCourse'
    BY <1>1, <1>2 DEF GauntletInv, OnCourse
  <1>5. pending' \in Seq(Gesture)
    <2>1. pending \in Seq(Gesture)
      BY DEF GauntletInv, PageKept
    <2>2. Tail(pending) \in Seq(Gesture)
      BY <2>1
    <2> QED
      BY <1>1, <2>2
  <1>6. kd' \in [on : BOOLEAN, added : SUBSET (1..nodes'), removed : SUBSET (1..nodes'), stored : Nat]
    <2>1. kd \in [on : BOOLEAN, added : SUBSET (1..nodes), removed : SUBSET (1..nodes), stored : Nat]
      BY DEF GauntletInv, PageKept
    <2>2. nodes \in Nat
      BY DEF GauntletInv, PageKept
    <2>3. 1..nodes \subseteq 1..nodes'
      BY <2>2
    <2>4. kd \in [on : BOOLEAN, added : SUBSET (1..nodes'), removed : SUBSET (1..nodes'), stored : Nat]
      BY <2>1, <2>3
    <2> QED
      BY <1>1, <2>4
  <1>7. PageKept'
    BY <1>1, <1>5, <1>6 DEF PageKept
  <1> QED
    BY <1>3, <1>4, <1>7 DEF GauntletInv

\* Rows that were made stay rows that were made, when more are.
LEMMA RowsAre ==
  ASSUME GauntletInv
  PROVE  /\ rows \in Seq(TrOf(nodes)) /\ nodes \in Nat /\ nextId \in Nat
         /\ Len(rows) \in Nat /\ DOMAIN rows = 1..Len(rows)
         /\ \A i \in DOMAIN rows : rows[i] \in TrOf(nodes)
         /\ \A i \in DOMAIN rows : rows[i].node \in 1..nodes
         /\ NodesOf(rows) \subseteq 1..nodes
  <1>1. rows \in Seq(TrOf(nodes)) /\ nodes \in Nat /\ nextId \in Nat
    BY DEF GauntletInv, PageKept
  <1>2. \A i \in DOMAIN rows : rows[i] \in TrOf(nodes)
    BY <1>1
  <1>3. \A i \in DOMAIN rows : rows[i].node \in 1..nodes
    BY <1>2 DEF TrOf
  <1>4. NodesOf(rows) \subseteq 1..nodes
    BY <1>3 DEF NodesOf
  <1> QED
    BY <1>1, <1>2, <1>3, <1>4

LEMMA MoreRows ==
  ASSUME NEW m \in Nat, NEW n \in Nat, m <= n
  PROVE  TrOf(m) \subseteq TrOf(n) /\ \A rs \in Seq(TrOf(m)) : rs \in Seq(TrOf(n))
  <1>1. 1..m \subseteq 1..n
    OBVIOUS
  <1>2. TrOf(m) \subseteq TrOf(n)
    BY <1>1 DEF TrOf
  <1>3. \A rs \in Seq(TrOf(m)) : rs \in Seq(TrOf(n))
    BY <1>2
  <1> QED
    BY <1>2, <1>3

LEMMA EmptiedKeeps ==
  ASSUME GauntletInv, pending # <<>>, NEW g, Emptied(g)
  PROVE  GauntletInv'
  <1> DEFINE kept == IF target = "appending" /\ g.do = "run" THEN rows
                     ELSE IF target = "leavesone" /\ g.do = "clear" /\ rows # <<>> THEN <<Last(rows)>>
                     ELSE <<>>
             rest == IF g.do = "run" THEN <<[do |-> "fill", row |-> 0]>>
                     ELSE IF g.do = "runlots" THEN <<[do |-> "filllots", row |-> 0]>> ELSE <<>>
             out == NodesOf(rows) \ NodesOf(kept)
  <1>1. Painted(kept, {}, out, rest)
    BY DEF Emptied
  <1>2. rows \in Seq(TrOf(nodes)) /\ nodes \in Nat /\ nextId \in Nat /\ NodesOf(rows) \subseteq 1..nodes
    BY RowsAre
  <1>3. kept \in Seq(TrOf(nodes))
    <2>1. rows # <<>> => Last(rows) \in TrOf(nodes)
      BY <1>2 DEF Last
    <2> QED
      BY <1>2, <2>1
  <1>4. rest \in Seq(Gesture)
    <2>1. [do |-> "fill", row |-> 0] \in Gesture /\ [do |-> "filllots", row |-> 0] \in Gesture
      BY DEF Gesture
    <2> QED
      BY <2>1
  <1>5. nodes' = nodes /\ nextId' \in Nat
    BY <1>2 DEF Emptied
  <1>6. out \subseteq 1..nodes'
    BY <1>2, <1>5
  <1>7. kept \in Seq(TrOf(nodes'))
    BY <1>3, <1>5
  <1>8. nodes <= nodes' /\ nodes' \in Nat
    BY <1>2, <1>5
  <1> HIDE DEF kept, rest, out
  <1> QED
    BY <1>1, <1>4, <1>5, <1>6, <1>7, <1>8, PaintedKeeps

LEMMA RecycledKeeps ==
  ASSUME GauntletInv, pending # <<>>, NEW g, Recycled(g)
  PROVE  GauntletInv'
  <1> DEFINE rs == [i \in DOMAIN rows |-> [rows[i] EXCEPT !.id = nextId + i - 1]]
  <1>1. Painted(rs, {}, {}, <<>>) /\ nextId' = nextId + Len(rows) /\ nodes' = nodes
    BY DEF Recycled
  <1>2. /\ nodes \in Nat /\ nextId \in Nat /\ Len(rows) \in Nat /\ DOMAIN rows = 1..Len(rows)
        /\ \A i \in DOMAIN rows : rows[i] \in TrOf(nodes)
    BY RowsAre
  <1>3. \A i \in 1..Len(rows) : [rows[i] EXCEPT !.id = nextId + i - 1] \in TrOf(nodes)
    BY <1>2 DEF TrOf
  <1>4. rs \in Seq(TrOf(nodes'))
    <2>1. rs \in [1..Len(rows) -> TrOf(nodes)]
      BY <1>2, <1>3
    <2> QED
      BY <1>1, <1>2, <2>1
  <1>5. nodes <= nodes' /\ nodes' \in Nat /\ nextId' \in Nat
    BY <1>1, <1>2
  <1>6. <<>> \in Seq(Gesture) /\ {} \subseteq 1..nodes'
    OBVIOUS
  <1> HIDE DEF rs
  <1> QED
    BY <1>1, <1>4, <1>5, <1>6, PaintedKeeps

LEMMA NewAre ==
  ASSUME GauntletInv, NEW n \in Nat
  PROVE  /\ New(n) \in Seq(TrOf(nodes + n))
         /\ NodesOf(New(n)) \subseteq 1..(nodes + n)
  <1>1. nodes \in Nat /\ nextId \in Nat
    BY RowsAre
  <1>2. \A k \in 1..n : nodes + k \in 1..(nodes + n) /\ nextId + k - 1 \in Nat
    BY <1>1
  <1>3. \A k \in 1..n : [node |-> nodes + k, id |-> nextId + k - 1, mark |-> FALSE, danger |-> FALSE]
                          \in TrOf(nodes + n)
    BY <1>2 DEF TrOf
  <1>4. New(n) \in [1..n -> TrOf(nodes + n)]
    BY <1>3 DEF New
  <1>5. \A k \in DOMAIN New(n) : New(n)[k].node \in 1..(nodes + n)
    BY <1>4 DEF TrOf
  <1> QED
    BY <1>4, <1>5 DEF NodesOf

LEMMA GrownKeeps ==
  ASSUME GauntletInv, pending # <<>>, NEW g, Grown(g)
  PROVE  GauntletInv'
  <1> DEFINE n == IF g.do = "filllots" /\ target # "stopsshort" THEN LotsN ELSE N
             rs == IF target = "prepending" /\ g.do = "add" THEN New(n) \o rows ELSE rows \o New(n)
             in == NodesOf(New(n))
  <1>1. Painted(rs, in, {}, <<>>) /\ nextId' = nextId + n /\ nodes' = nodes + n
    BY DEF Grown
  <1>2. n \in Nat
    BY GauntletAssumption
  <1> HIDE DEF n
  <1>3. rows \in Seq(TrOf(nodes)) /\ nodes \in Nat /\ nextId \in Nat
    BY RowsAre
  <1>4. nodes <= nodes' /\ nodes' \in Nat /\ nextId' \in Nat
    BY <1>1, <1>2, <1>3
  <1>5. New(n) \in Seq(TrOf(nodes')) /\ in \subseteq 1..nodes'
    BY <1>1, <1>2, NewAre
  <1>6. rows \in Seq(TrOf(nodes'))
    BY <1>3, <1>4, MoreRows
  <1>7. rs \in Seq(TrOf(nodes'))
    BY <1>5, <1>6
  <1>8. <<>> \in Seq(Gesture) /\ {} \subseteq 1..nodes'
    OBVIOUS
  <1> HIDE DEF rs, in
  <1> QED
    BY <1>1, <1>4, <1>5, <1>7, <1>8, PaintedKeeps

\* Rows that only change their marks.
LEMMA MarkingKeeps ==
  ASSUME GauntletInv, pending # <<>>, NEW rs, Painted(rs, {}, {}, <<>>), UNCHANGED <<nextId, nodes>>,
         rs \in [DOMAIN rows -> TrOf(nodes)]
  PROVE  GauntletInv'
  <1>1. nodes \in Nat /\ nextId \in Nat /\ Len(rows) \in Nat /\ DOMAIN rows = 1..Len(rows)
    BY RowsAre
  <1>2. rs \in Seq(TrOf(nodes'))
    BY <1>1
  <1>3. nodes <= nodes' /\ nodes' \in Nat /\ nextId' \in Nat
    BY <1>1
  <1>4. <<>> \in Seq(Gesture) /\ {} \subseteq 1..nodes'
    OBVIOUS
  <1> QED
    BY <1>2, <1>3, <1>4, PaintedKeeps

LEMMA UpdatedKeeps ==
  ASSUME GauntletInv, pending # <<>>, NEW g, Updated(g)
  PROVE  GauntletInv'
  <1> DEFINE marked(i) == rows[i].mark \/ target = "overmarking" \/
                            i = 1 \/ (target # "undermarking" /\ (i - 1) % Stride = 0)
             rs == [i \in DOMAIN rows |-> [rows[i] EXCEPT !.mark = marked(i)]]
  <1>1. Painted(rs, {}, {}, <<>>) /\ UNCHANGED <<nextId, nodes>>
    BY DEF Updated
  <1>2. \A i \in DOMAIN rows : rows[i] \in TrOf(nodes)
    BY RowsAre
  <1>3. \A i \in DOMAIN rows : marked(i) \in BOOLEAN
    OBVIOUS
  <1> HIDE DEF marked
  <1>4. rs \in [DOMAIN rows -> TrOf(nodes)]
    BY <1>2, <1>3 DEF TrOf
  <1> HIDE DEF rs
  <1> QED
    BY <1>1, <1>4, MarkingKeeps

LEMMA ChosenKeeps ==
  ASSUME GauntletInv, pending # <<>>, NEW g, Chosen(g)
  PROVE  GauntletInv'
  <1> DEFINE chosen(i) == i = g.row \/ (target = "multiselect" /\ rows[i].danger)
             rs == [i \in DOMAIN rows |-> [rows[i] EXCEPT !.danger = chosen(i)]]
  <1>1. Painted(rs, {}, {}, <<>>) /\ UNCHANGED <<nextId, nodes>>
    BY DEF Chosen
  <1>2. \A i \in DOMAIN rows : rows[i] \in TrOf(nodes)
    BY RowsAre
  <1>3. \A i \in DOMAIN rows : chosen(i) \in BOOLEAN
    OBVIOUS
  <1> HIDE DEF chosen
  <1>4. rs \in [DOMAIN rows -> TrOf(nodes)]
    BY <1>2, <1>3 DEF TrOf
  <1> HIDE DEF rs
  <1> QED
    BY <1>1, <1>4, MarkingKeeps

\* Taking a row out, and putting one in.
LEMMA TakenAndPut ==
  ASSUME NEW S, NEW s \in Seq(S), NEW n \in DOMAIN s
  PROVE  /\ RemoveAt(s, n) \in Seq(S) /\ Len(RemoveAt(s, n)) = Len(s) - 1
         /\ \A e \in S, i \in 1..Len(s) : InsertAt(RemoveAt(s, n), i, e) \in Seq(S)
  <1>1. n \in 1..Len(s) /\ Len(s) \in Nat
    OBVIOUS
  <1>2. SubSeq(s, 1, n - 1) \in Seq(S) /\ SubSeq(s, n + 1, Len(s)) \in Seq(S)
    BY <1>1
  <1>3. Len(SubSeq(s, 1, n - 1)) = n - 1 /\ Len(SubSeq(s, n + 1, Len(s))) = Len(s) - n
    BY <1>1
  <1> DEFINE r == RemoveAt(s, n)
  <1>4. r \in Seq(S) /\ Len(r) = Len(s) - 1
    <2> DEFINE u == SubSeq(s, 1, n - 1)
               v == SubSeq(s, n + 1, Len(s))
    <2>1. u \in Seq(S) /\ v \in Seq(S) /\ Len(u) = n - 1 /\ Len(v) = Len(s) - n /\ r = u \o v
      BY <1>2, <1>3 DEF RemoveAt
    <2> HIDE DEF u, v, r
    <2>2. u \o v \in Seq(S) /\ Len(u \o v) = Len(u) + Len(v)
      BY <2>1, ConcatProperties
    <2> QED
      BY <1>1, <2>1, <2>2
  <1> HIDE DEF r
  <1>5. ASSUME NEW e \in S, NEW i \in 1..Len(s)
        PROVE  InsertAt(r, i, e) \in Seq(S)
    <2>1. SubSeq(r, 1, i - 1) \in Seq(S) /\ SubSeq(r, i, Len(r)) \in Seq(S)
      BY <1>1, <1>4
    <2> QED
      BY <2>1 DEF InsertAt
  <1> QED
    BY <1>4, <1>5 DEF r

LEMMA SwappedKeeps ==
  ASSUME GauntletInv, pending # <<>>, NEW g, Swapped(g)
  PROVE  GauntletInv'
  <1> DEFINE from == IF g.do = "swaprows" THEN Far ELSE 3
             to == IF g.do = "swaprows" THEN 2 ELSE Far
             moving == rows[from]
             rs == InsertAt(RemoveAt(rows, from), to, moving)
             rest == IF g.do = "swaprows" THEN <<[do |-> "swapback", row |-> 0]>> ELSE <<>>
  <1>1. Painted(rs, {moving.node}, {moving.node}, rest) /\ UNCHANGED <<nextId, nodes>> /\ Len(rows) >= N
    BY DEF Swapped
  <1>2. /\ rows \in Seq(TrOf(nodes)) /\ nodes \in Nat /\ nextId \in Nat
        /\ Len(rows) \in Nat /\ DOMAIN rows = 1..Len(rows)
        /\ \A i \in DOMAIN rows : rows[i] \in TrOf(nodes) /\ rows[i].node \in 1..nodes
    BY RowsAre
  <1>3. N \in Nat /\ N >= 7 /\ Far \in {N - 1, N}
    BY GauntletAssumption DEF Far
  <1>4. from \in 1..Len(rows) /\ to \in 1..Len(rows)
    BY <1>1, <1>2, <1>3
  <1> HIDE DEF from, to
  <1>5. rows[from] \in TrOf(nodes) /\ moving.node \in 1..nodes
    BY <1>2, <1>4
  <1>6. rs \in Seq(TrOf(nodes))
    BY <1>2, <1>4, <1>5, TakenAndPut
  <1>7. rest \in Seq(Gesture)
    <2>1. [do |-> "swapback", row |-> 0] \in Gesture
      BY DEF Gesture
    <2> QED
      BY <2>1
  <1> HIDE DEF rs, rest, moving
  <1>8. /\ nodes <= nodes' /\ nodes' \in Nat /\ nextId' \in Nat
        /\ rs \in Seq(TrOf(nodes')) /\ {moving.node} \subseteq 1..nodes'
    BY <1>1, <1>2, <1>5, <1>6
  <1> QED
    BY <1>1, <1>7, <1>8, PaintedKeeps

LEMMA SwappedInPlaceKeeps ==
  ASSUME GauntletInv, pending # <<>>, NEW g, SwappedInPlace(g)
  PROVE  GauntletInv'
  <1> DEFINE a == rows[2]
             b == rows[Far]
             new == target = "recreating"
             x == [b EXCEPT !.node = IF new THEN nodes + 1 ELSE a.node]
             y == [a EXCEPT !.node = IF new THEN nodes + 2 ELSE b.node]
             rs == [rows EXCEPT ![2] = x, ![Far] = y]
             in == IF new THEN {nodes + 1, nodes + 2} ELSE {}
             out == IF new THEN {a.node, b.node} ELSE {}
             made == IF new THEN nodes + 2 ELSE nodes
  <1>1. Painted(rs, in, out, <<>>) /\ nodes' = made /\ nextId' = nextId /\ Len(rows) >= N
    BY DEF SwappedInPlace
  <1>2. /\ rows \in Seq(TrOf(nodes)) /\ nodes \in Nat /\ nextId \in Nat
        /\ Len(rows) \in Nat /\ DOMAIN rows = 1..Len(rows)
        /\ \A i \in DOMAIN rows : rows[i] \in TrOf(nodes) /\ rows[i].node \in 1..nodes
    BY RowsAre
  <1>3. N \in Nat /\ N >= 7 /\ Far \in {N - 1, N}
    BY GauntletAssumption DEF Far
  <1>4. 2 \in DOMAIN rows /\ Far \in DOMAIN rows
    BY <1>1, <1>2, <1>3
  <1>5. /\ a \in TrOf(nodes) /\ b \in TrOf(nodes) /\ a.node \in 1..nodes /\ b.node \in 1..nodes
    BY <1>2, <1>4
  <1> HIDE DEF a, b
  <1>6. made \in Nat /\ nodes <= made /\ in \subseteq 1..made /\ out \subseteq 1..made
    BY <1>2, <1>5
  <1>7. a \in TrOf(made) /\ b \in TrOf(made)
    BY <1>2, <1>5, <1>6, MoreRows
  <1>8. (IF new THEN nodes + 1 ELSE a.node) \in 1..made /\ (IF new THEN nodes + 2 ELSE b.node) \in 1..made
    BY <1>2, <1>5
  <1> HIDE DEF made, new
  <1>9. x \in TrOf(made) /\ y \in TrOf(made)
    BY <1>7, <1>8 DEF TrOf
  <1>10. rows \in Seq(TrOf(made))
    BY <1>2, <1>6, MoreRows
  <1> HIDE DEF x, y
  <1>11. rs \in Seq(TrOf(made))
    <2>1. rows \in [1..Len(rows) -> TrOf(made)]
      BY <1>10
    <2>2. rs \in [1..Len(rows) -> TrOf(made)]
      BY <1>9, <2>1
    <2>3. Len(rows) \in Nat
      BY <1>2
    <2> HIDE DEF rs
    <2> QED
      BY <2>2, <2>3
  <1> HIDE DEF rs, in, out
  <1>12. <<>> \in Seq(Gesture)
    OBVIOUS
  <1>13. /\ nodes <= nodes' /\ nodes' \in Nat /\ nextId' \in Nat
         /\ rs \in Seq(TrOf(nodes')) /\ in \subseteq 1..nodes' /\ out \subseteq 1..nodes'
    BY <1>1, <1>2, <1>6, <1>11
  <1> QED
    BY <1>1, <1>12, <1>13, PaintedKeeps

LEMMA RemovedKeeps ==
  ASSUME GauntletInv, pending # <<>>, NEW g, Removed(g)
  PROVE  GauntletInv'
  <1> DEFINE n == IF target = "removesnext" THEN g.row + 1 ELSE g.row
             shifted == [i \in 1..(Len(rows) - 1) |->
                           IF i < n THEN rows[i] ELSE [rows[i + 1] EXCEPT !.node = rows[i].node]]
             lingered == Append(Front(RemoveAt(rows, n)), rows[n])
  <1>1. Has(n) /\ UNCHANGED <<nextId, nodes>>
    BY DEF Removed
  <1>2. /\ rows \in Seq(TrOf(nodes)) /\ nodes \in Nat /\ nextId \in Nat
        /\ Len(rows) \in Nat /\ DOMAIN rows = 1..Len(rows)
        /\ \A i \in DOMAIN rows : rows[i] \in TrOf(nodes) /\ rows[i].node \in 1..nodes
    BY RowsAre
  <1>3. n \in 1..Len(rows) /\ Len(rows) \in DOMAIN rows
    BY <1>1, <1>2 DEF Has
  <1>4. \/ Painted(shifted, {}, {Last(rows).node}, <<>>)
        \/ Painted(lingered, {rows[n].node}, {rows[n].node, Last(rows).node}, <<>>)
        \/ Painted(RemoveAt(rows, n), {}, {rows[n].node}, <<>>)
    BY DEF Removed
  <1> HIDE DEF n
  <1>5. rows[n].node \in 1..nodes /\ Last(rows).node \in 1..nodes
    BY <1>2, <1>3 DEF Last
  <1>6. shifted \in Seq(TrOf(nodes))
    <2>1. ASSUME NEW i \in 1..(Len(rows) - 1)
          PROVE  rows[i] \in TrOf(nodes) /\ [rows[i + 1] EXCEPT !.node = rows[i].node] \in TrOf(nodes)
      <3>1. i \in DOMAIN rows /\ i + 1 \in DOMAIN rows
        BY <1>2
      <3> QED
        BY <1>2, <3>1 DEF TrOf
    <2>2. shifted \in [1..(Len(rows) - 1) -> TrOf(nodes)]
      BY <2>1
    <2>3. Len(rows) - 1 \in Nat
      BY <1>2, <1>3
    <2> QED
      BY <2>2, <2>3
  <1>7. RemoveAt(rows, n) \in Seq(TrOf(nodes))
    BY <1>2, <1>3, TakenAndPut
  <1>8. lingered \in Seq(TrOf(nodes))
    <2>1. Front(RemoveAt(rows, n)) \in Seq(TrOf(nodes))
      BY <1>7 DEF Front
    <2> QED
      BY <1>2, <1>3, <2>1
  <1> HIDE DEF shifted, lingered
  <1>9. nodes <= nodes' /\ nodes' \in Nat /\ nextId' \in Nat /\ nodes' = nodes
    BY <1>1, <1>2
  <1>10. <<>> \in Seq(Gesture) /\ {} \subseteq 1..nodes'
    OBVIOUS
  <1>11. {rows[n].node} \subseteq 1..nodes' /\ {Last(rows).node} \subseteq 1..nodes'
         /\ {rows[n].node, Last(rows).node} \subseteq 1..nodes'
    BY <1>5, <1>9
  <1>12. /\ shifted \in Seq(TrOf(nodes')) /\ lingered \in Seq(TrOf(nodes'))
         /\ RemoveAt(rows, n) \in Seq(TrOf(nodes'))
    BY <1>6, <1>7, <1>8, <1>9
  <1>13. CASE Painted(shifted, {}, {Last(rows).node}, <<>>)
    BY <1>9, <1>10, <1>11, <1>12, <1>13, PaintedKeeps
  <1>14. CASE Painted(lingered, {rows[n].node}, {rows[n].node, Last(rows).node}, <<>>)
    <2> DEFINE in == {rows[n].node}
               out == {rows[n].node, Last(rows).node}
    <2>1. Painted(lingered, in, out, <<>>) /\ in \subseteq 1..nodes' /\ out \subseteq 1..nodes'
      BY <1>11, <1>14
    <2> HIDE DEF in, out
    <2> QED
      BY <1>9, <1>10, <1>12, <2>1, PaintedKeeps
  <1>15. CASE Painted(RemoveAt(rows, n), {}, {rows[n].node}, <<>>)
    <2> DEFINE rs == RemoveAt(rows, n)
               out == {rows[n].node}
    <2>1. Painted(rs, {}, out, <<>>) /\ out \subseteq 1..nodes' /\ rs \in Seq(TrOf(nodes'))
      BY <1>11, <1>12, <1>15
    <2> HIDE DEF rs, out
    <2> QED
      BY <1>9, <1>10, <2>1, PaintedKeeps
  <1> QED
    BY <1>4, <1>13, <1>14, <1>15

THEOREM GauntletInvariance == Spec => []GauntletInv
  <1>1. Init => GauntletInv
    BY GauntletFromInit
  <1>2. ASSUME GauntletInv, Paint PROVE GauntletInv'
    <2>1. PICK g : Emptied(g) \/ Recycled(g) \/ Grown(g) \/ Updated(g) \/ Chosen(g)
                   \/ Swapped(g) \/ SwappedInPlace(g) \/ Removed(g)
      BY <1>2 DEF Paint
    <2>2. pending # <<>>
      BY <1>2 DEF Paint
    <2> QED
      BY <1>2, <2>1, <2>2, EmptiedKeeps, RecycledKeeps, GrownKeeps, UpdatedKeeps, ChosenKeeps,
         SwappedKeeps, SwappedInPlaceKeeps, RemovedKeeps
  <1>3. GauntletInv /\ [Next]_vars => GauntletInv'
    BY <1>2, NavigateKeeps, ClickKeeps, PollKeeps, ReadKeeps, EvaluateKeeps, JudgeKeeps,
       TroubleKeeps, ReportKeeps DEF Next, Unfailing
  <1> QED
    BY <1>1, <1>3, PTL DEF Spec

\* A verdict has one reason, and trouble is cant-tell: runOp and record.
THEOREM ResultsAreSound == Spec => []ResultsSound
  <1>1. ASSUME GauntletInv PROVE TroubleIsCantTell /\ OneReason
    BY <1>1 DEF GauntletInv, ResultsKept, Sound, TroubleIsCantTell, OneReason
  <1>2. ASSUME GauntletInv PROVE TypeOK
    <2>1. \A k \in DOMAIN results : results[k].verdict \in {"pass", "fail", "cant-tell"}
      <3>1. \A k \in DOMAIN results : results[k] \in ResultRec
        BY <1>2 DEF GauntletInv, ResultsKept
      <3> QED
        BY <3>1 DEF ResultRec
    <2>2. Len(report) <= 1
      <3>1. CASE report = <<>>
        BY <3>1
      <3>2. CASE report = <<Summary>>
        <4>1. Len(report) = 1
          BY <3>2
        <4> QED
          BY <4>1
      <3> QED
        BY <1>2, <3>1, <3>2 DEF GauntletInv, ResultsKept
    <2>3. \A i \in DOMAIN assertions : assertions[i] = "holds"
      <3>1. \A i \in DOMAIN assertions : assertions[i] \in {"holds"}
        BY <1>2 DEF GauntletInv, OnCourse
      <3> QED
        BY <3>1
    <2>4. \A i \in DOMAIN rows : rows[i] \in Tr
      <3>1. \A i \in DOMAIN rows : rows[i] \in TrOf(nodes)
        BY <1>2, RowsAre
      <3> QED
        BY <3>1 DEF TrOf, Tr
    <2>5. kd.added \cup kd.removed \subseteq 1..nodes /\ nextId \in Nat /\ nodes \in Nat
      BY <1>2 DEF GauntletInv, PageKept
    <2>6. saved.pre \in [1..N -> Nat] /\ saved.probe \in {"absent", "golden", "other"}
      BY <1>2 DEF GauntletInv, OnCourse, SavedRec
    <2> QED
      BY <1>2, <2>1, <2>2, <2>3, <2>4, <2>5, <2>6 DEF GauntletInv, ResultsKept, OnCourse, TypeOK
  <1> QED
    BY <1>1, <1>2, GauntletInvariance, PTL DEF ResultsSound

\* The summary counts every operation once: main.
THEOREM SummaryIsComplete == Spec => []SummaryAccounts
  <1>1. ASSUME GauntletInv PROVE SummaryAccounts
    <2>1. SUFFICES ASSUME report # <<>>
                   PROVE  /\ report[1].total = Len(Program)
                          /\ report[1].pass + report[1].fail + report[1].cant_tell = report[1].total
      BY DEF SummaryAccounts
    <2>2. /\ report = <<Summary>> /\ Op \notin Operations
          /\ results \in Seq(ResultRec) /\ Len(results) <= Len(Program)
      BY <1>1, <2>1 DEF GauntletInv, ResultsKept
    <2>3. Len(results) = Len(Program) /\ Len(results) \in Nat
      <3>1. Len(results) \in Nat
        BY <2>2
      <3>2. Len(Program) = 11 /\ Op = Len(results) + 1 /\ Op \notin 1..11 /\ Len(results) <= 11
        BY <2>2, ProgramsEnd DEF Op
      <3> DEFINE m == Len(results)
      <3>3. m \in Nat /\ m + 1 \notin 1..11 /\ m <= 11
        BY <3>1, <3>2
      <3> HIDE DEF m
      <3>4. m = 11
        BY <3>3
      <3> QED
        BY <3>2, <3>4 DEF m
    <2> DEFINE In(v) == {i \in DOMAIN results : results[i].verdict = v}
               All == DOMAIN results
    <2>4. IsFiniteSet(All) /\ Cardinality(All) = Len(results)
      <3>1. All = 1..Len(results) /\ 1 \in Int /\ Len(results) \in Int
        BY <2>2, <2>3
      <3>2. IsFiniteSet(1..Len(results)) /\ Cardinality(1..Len(results)) = Len(results)
        <4>1. Len(results) \in Nat
          BY <2>3
        <4> DEFINE m == Len(results)
        <4> HIDE DEF m
        <4>2. m \in Nat
          BY <4>1 DEF m
        <4>3. IsFiniteSet(1..m) /\ Cardinality(1..m) = IF 1 > m THEN 0 ELSE m - 1 + 1
          BY <4>2, FS_Interval
        <4> QED
          BY <4>2, <4>3 DEF m
      <3> QED
        BY <3>1, <3>2
    <2>5. \A i \in All : results[i].verdict \in {"pass", "fail", "cant-tell"}
      <3>1. \A i \in All : results[i] \in ResultRec
        BY <2>2
      <3> QED
        BY <3>1 DEF ResultRec
    <2>6. /\ (In("pass") \cup In("fail")) \cup In("cant-tell") = All
          /\ In("pass") \cap In("fail") = {} /\ (In("pass") \cup In("fail")) \cap In("cant-tell") = {}
          /\ In("pass") \subseteq All /\ In("fail") \subseteq All /\ In("cant-tell") \subseteq All
      BY <2>5
    <2>7. Count("pass") = Cardinality(In("pass")) /\ Count("fail") = Cardinality(In("fail"))
          /\ Count("cant-tell") = Cardinality(In("cant-tell"))
      BY DEF Count
    <2> HIDE DEF In, All
    <2>8. IsFiniteSet(In("pass")) /\ IsFiniteSet(In("fail")) /\ IsFiniteSet(In("cant-tell"))
      BY <2>4, <2>6, FS_Subset
    <2>9. /\ IsFiniteSet(In("pass") \cup In("fail"))
          /\ Cardinality(In("pass") \cup In("fail")) = Count("pass") + Count("fail")
      <3>1. Cardinality(In("pass") \cup In("fail")) =
              Cardinality(In("pass")) + Cardinality(In("fail")) - Cardinality(In("pass") \cap In("fail"))
        BY <2>8, FS_Union
      <3>2. Cardinality(In("pass") \cap In("fail")) = 0
        BY <2>6, FS_EmptySet
      <3>3. Cardinality(In("pass")) \in Nat /\ Cardinality(In("fail")) \in Nat
        BY <2>8, FS_CardinalityType
      <3>4. IsFiniteSet(In("pass") \cup In("fail"))
        BY <2>8, FS_Union
      <3> QED
        BY <2>7, <3>1, <3>2, <3>3, <3>4
    <2>10. Len(results) = Count("pass") + Count("fail") + Count("cant-tell")
      <3> DEFINE two == In("pass") \cup In("fail")
      <3>1. Cardinality(two \cup In("cant-tell")) =
              Cardinality(two) + Cardinality(In("cant-tell")) - Cardinality(two \cap In("cant-tell"))
        BY <2>8, <2>9, FS_Union
      <3>2. Cardinality(two \cap In("cant-tell")) = 0
        BY <2>6, FS_EmptySet
      <3>3. Cardinality(two) \in Nat /\ Cardinality(In("cant-tell")) \in Nat
        BY <2>8, <2>9, FS_CardinalityType
      <3>4. two \cup In("cant-tell") = All
        BY <2>6
      <3>5. Cardinality(All) = Cardinality(two) + Cardinality(In("cant-tell"))
        <4>1. Cardinality(All) = Cardinality(two \cup In("cant-tell"))
          BY <3>4
        <4> DEFINE a == Cardinality(two)
                   b == Cardinality(In("cant-tell"))
        <4>2. Cardinality(two \cup In("cant-tell")) = a + b - 0 /\ a \in Nat /\ b \in Nat
          BY <3>1, <3>2, <3>3
        <4> HIDE DEF a, b
        <4>3. a + b - 0 = a + b
          BY <4>2
        <4> QED
          BY <4>1, <4>2, <4>3 DEF a, b
      <3> QED
        BY <2>4, <2>7, <2>9, <3>5
    <2>11. report[1] = Summary
      BY <2>2
    <2> QED
      BY <2>3, <2>10, <2>11 DEF Summary
  <1> QED
    BY <1>1, GauntletInvariance, PTL
=============================================================================
