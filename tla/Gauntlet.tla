------------------------------ MODULE Gauntlet ------------------------------
(***************************************************************************)
(* The DOM closer: src/dom/closer/closer.mjs, run over the operation set   *)
(* of opset.mjs.  Every operation gets a fresh page of the target and is a *)
(* program of clicks, polled assertions and reads; each ends in one        *)
(* verdict, and the run in a summary.                                      *)
(*                                                                         *)
(* Between two questions of the closer the target goes on painting: a      *)
(* gesture takes effect some time after its click, and in up to two        *)
(* frames.  The target is external; it either follows the benchmark or has *)
(* one of the faults the operations are there to catch, or is late with a  *)
(* large table, or paints nothing, or blocks its thread.  A table of 1000  *)
(* rows is N rows here, and a row is its node, its id and two marks.       *)
(***************************************************************************)
EXTENDS Integers, Sequences, SequencesExt, FiniteSets

CONSTANTS N,          \* rows of one run (1000)
          LotsN,      \* rows of runlots (10000)
          Stride,     \* update marks every Stride-th row (10)
          Polls,      \* looks of an assertion before it gives up (ASSERT_TIMEOUT)
          BigPolls,   \* and of one on a large table (BIG_TIMEOUT)
          Lag,        \* looks a prompt page may need for a gesture
          BigLag,     \* and for one that makes a large table
          Targets,    \* the targets under test
          MaxTroubles \* bound: failures of the browser in one run

ASSUME GauntletAssumption ==
    /\ {N, LotsN, Stride, Polls, BigPolls, Lag, BigLag} \subseteq Nat
    /\ MaxTroubles \in Nat
    /\ N >= 7 /\ LotsN > N /\ Stride > 2 /\ Stride < N /\ N % Stride = 0
    /\ Lag <= Polls /\ BigLag <= BigPolls

VARIABLES target,     \* the implementation under test
          results,    \* the verdicts so far, one record per operation
          report,     \* the summary, once it is written
          pc,         \* 0: navigate, else the step of the operation's program
          found,      \* the click target was seen, the click is not dispatched
          waited,     \* looks the current step has had
          assertions, \* the statuses recorded for this operation
          saved,      \* what the operation read: ids by row, the probe, the result
          rows,       \* the page: its tr elements, [node, id, mark, danger]
          nextId, nodes,  \* the next id, and the nodes ever made
          pending,    \* gestures the page has not painted yet
          kd,         \* the MutationObserver: [on, added, removed, stored]
          troubles    \* how often the browser failed

page == <<rows, nextId, nodes, pending>>
vars == <<target, results, report, pc, found, waited, assertions, saved, page, kd, troubles>>

NoResult == [added |-> {}, removed |-> {}, stored |-> 0]
-----------------------------------------------------------------------------
(* The programs *)

Step(do, row, want) == [do |-> do, row |-> row, want |-> want]
Press(button) == Step(button, 0, 0)

\* A run that has filled the table.
Filled == <<Press("run"), Step("text", N, N)>>

Reads(ns) == [i \in DOMAIN ns |-> Step("read", ns[i], 0)]

\* OPERATIONS, and the keyedness arm of runOp.
Run1k == <<Press("run"), Step("count", 0, N), Step("text", 1, 1), Step("text", N, N)>>

Replace1k ==
    Filled \o <<Press("run"), Step("text", 1, N + 1), Step("text", N, 2 * N), Step("count", 0, N)>>

Update10th1k ==
    Filled \o <<Press("update"), Step("marked", N + 1 - Stride, 0), Step("marked", 1, 0),
                Step("marked", 1 + Stride, 0), Step("unmarked", 2, 0)>>

Select1k ==
    Filled \o <<Step("label", 5, 0), Step("danger", 5, 0), Step("dangers", 0, 1),
                Step("label", 2, 0), Step("danger", 2, 0), Step("dangers", 0, 1)>>

Swap1k ==
    Filled \o Reads(<<1, 2, 3, N - 2, N - 1, N>>)
           \o <<Press("swaprows"), Step("was", 2, N - 1), Step("was", N - 1, 2), Step("was", 1, 1),
                Step("was", 3, 3), Step("was", N - 2, N - 2), Step("was", N, N)>>

Remove1k ==
    Filled \o Reads(<<4, 5, 6>>)
           \o <<Step("remove", 4, 0), Step("was", 4, 5), Step("was", 5, 6), Step("count", 0, N - 1),
                Step("gone", 4, 5)>>

Create10k ==
    <<Press("runlots"), Step("bigcount", 0, LotsN), Step("anchor", LotsN, 0), Step("text", LotsN, LotsN)>>

Create1kAfter1k ==
    Filled \o <<Press("add"), Step("bigcount", 0, 2 * N), Step("text", N + 1, N + 1),
                Step("text", 2 * N, 2 * N), Step("text", 1, 1)>>

Clear1k == Filled \o <<Press("clear"), Step("count", 0, 0)>>

HtmlStructure ==
    <<Press("add"), Step("text", N, N), Step("probe", N, 0), Step("present", 0, 0), Step("built", 0, 0)>>

Keyedness ==
    <<Press("add"), Step("text", N, N), Press("install"), Press("observable"),
      Press("store"), Press("swaprows"), Step("text", 2, N - 1), Press("result"), Press("keyedswap"),
      Press("store"), Press("reset"), Press("run"), Step("text", N, 2 * N), Press("result"),
      Step("keyedrun", 0, N),
      Press("store"), Press("reset"), Step("text", 2, N + 2), Step("remove", 2, 0),
      Step("text", 2, N + 3), Press("result"), Press("keyedremove")>>

\* In the order of OPSET.
Program == <<Run1k, Replace1k, Update10th1k, Select1k, Swap1k, Remove1k, Create10k,
             Create1kAfter1k, Clear1k, HtmlStructure, Keyedness>>

Clicks == {"run", "runlots", "add", "update", "clear", "swaprows", "label", "remove"}
Polled == {"count", "bigcount", "text", "was", "marked", "unmarked", "danger", "dangers",
           "anchor"}
Silent == {"probe", "install", "store", "reset", "result"}
Judged == {"gone", "present", "built", "observable", "keyedswap", "keyedrun", "keyedremove"}

\* OPSET: the operations, run in this order.
Operations == DOMAIN Program

Op == Len(results) + 1
Now == Program[Op][pc]
\* Mutant: the large table gets the patience of a small one.
PatienceSmall == Polls

\* ASSERT_TIMEOUT, or BIG_TIMEOUT where the operation says so.
Patience == IF Now.do = "bigcount" THEN BigPolls ELSE Polls
-----------------------------------------------------------------------------
(* What the closer sees *)

Has(n) == n \in DOMAIN rows

\* The element a click needs: a button of the page, or a row's anchor.
Present == IF Now.row # 0 THEN Has(Now.row)
           ELSE ~(target = "buttonless" /\ Now.do = "clear")

\* A gesture whose handler in the page never returns: nor does the evaluation that
\* dispatches it, and page.evaluate has no deadline.
Blocks(g) == target = "blocking" /\ g = "swaprows"

\* The in-page probe of a polled assertion.
Answer ==
    LET s == Now IN
    \/ s.do \in {"count", "bigcount"} /\ Len(rows) = s.want
    \/ s.do = "anchor" /\ Has(s.row)
    \/ s.do = "text" /\ Has(s.row) /\ rows[s.row].id = s.want
    \/ s.do = "was" /\ Has(s.row) /\ rows[s.row].id = saved.pre[s.want]
    \/ s.do = "marked" /\ Has(s.row) /\ rows[s.row].mark
    \/ s.do = "unmarked" /\ Has(s.row) /\ ~rows[s.row].mark
    \/ s.do = "danger" /\ Has(s.row) /\ rows[s.row].danger
    \/ s.do = "dangers" /\ Cardinality({i \in DOMAIN rows : rows[i].danger}) = s.want

\* What is recorded of values read before.
Holds ==
    LET s == Now
        r == saved.got IN
    \/ s.do = "gone" /\ saved.pre[4] # saved.pre[5]
    \/ s.do = "present" /\ saved.probe # "absent"
    \/ s.do = "built" /\ saved.probe = "golden"
    \/ s.do = "observable" /\ kd.on
    \/ s.do = "keyedswap" /\ r.added # {} /\ r.removed # {} /\ r.added \subseteq r.removed
    \/ s.do = "keyedrun" /\ Cardinality(r.added) >= s.want /\ Cardinality(r.removed) >= s.want
    \/ s.do = "keyedremove" /\ r.stored \in r.removed
-----------------------------------------------------------------------------
(* The closer *)

Init ==
    /\ target \in Targets
    /\ results = <<>> /\ report = <<>>
    /\ pc = 0 /\ found = FALSE /\ waited = 0 /\ assertions = <<>>
    /\ saved = [pre |-> [n \in 1..N |-> 0], probe |-> "absent", got |-> NoResult]
    /\ rows = <<>> /\ nextId = 1 /\ nodes = 0 /\ pending = <<>>
    /\ kd = [on |-> FALSE, added |-> {}, removed |-> {}, stored |-> 0]
    /\ troubles = 0

\* Mutant: what could not be resolved is passed over.
VerdictSwallows(as) == IF "violated" \in Range(as) THEN "fail" ELSE "pass"

\* The verdict of runOp: a violation outranks what could not be resolved.
Verdict(as) ==
    IF "violated" \in Range(as) THEN "fail"
    ELSE IF "unresolvable" \in Range(as) THEN "cant-tell" ELSE "pass"

\* runOp ends: the page is closed and the next operation gets a fresh one.
Close(as, trouble) ==
    /\ results' = Append(results, [verdict |-> Verdict(as), made |-> Len(as),
                                   broken |-> {i \in DOMAIN as : as[i] # "holds"},
                                   trouble |-> trouble])
    /\ pc' = 0 /\ found' = FALSE /\ waited' = 0 /\ assertions' = <<>>
    /\ saved' = [pre |-> [n \in 1..N |-> 0], probe |-> "absent", got |-> NoResult]
    /\ rows' = <<>> /\ nextId' = 1 /\ nodes' = 0 /\ pending' = <<>>
    /\ kd' = [on |-> FALSE, added |-> {}, removed |-> {}, stored |-> 0]

\* A step is over: with the last one the operation is, too.
Advance(as) ==
    IF pc = Len(Program[Op])
    THEN Close(as, FALSE)
    ELSE /\ pc' = pc + 1 /\ found' = FALSE /\ waited' = 0 /\ assertions' = as
         /\ UNCHANGED <<results, page>>

\* record: anything but "holds" throws, and ends the operation.
Record(status) ==
    IF status = "holds"
    THEN /\ Advance(Append(assertions, status))
         /\ pc < Len(Program[Op]) => UNCHANGED <<saved, kd>>
    ELSE Close(Append(assertions, status), FALSE)

InProgram == Op \in Operations /\ pc > 0

Navigate ==
    /\ Op \in Operations /\ pc = 0
    /\ pc' = 1
    /\ UNCHANGED <<target, results, report, found, waited, assertions, saved, page, kd, troubles>>

\* Navigation or an evaluation fails: record unresolvable, or, for what has no
\* handler of its own, the harness arm of runOp.
Trouble ==
    /\ Op \in Operations /\ troubles < MaxTroubles
    /\ troubles' = troubles + 1
    /\ Close(Append(assertions, "unresolvable"), TRUE)
    /\ UNCHANGED <<target, report>>

\* How many looks a prompt page may let pass with a gesture still to paint.
Slow(g) == g.do \in {"runlots", "filllots"} \/ (g.do = "add" /\ rows # <<>>)
LagNow == IF \E i \in DOMAIN pending : Slow(pending[i]) THEN BigLag ELSE Lag

\* Nobody knows when: a page that is late with its large tables, or paints nothing.
InNoTime == target = "frozen" \/ (target = "late" /\ \E i \in DOMAIN pending : Slow(pending[i]))

\* A prompt page has painted everything by the time given to it.
MayStillPaint == pending = <<>> \/ waited < LagNow \/ InNoTime

\* The deadline has passed.
Expired == waited = Patience /\ MayStillPaint

\* Not yet, and the deadline has not passed: sleep POLL_MS.
Sleep ==
    /\ waited < Patience
    /\ MayStillPaint
    /\ waited' = waited + 1
    /\ UNCHANGED <<results, pc, found, assertions, saved, page, kd>>

\* click looks for its element until it is there, and dispatches in an
\* evaluation of its own; by then the element may have gone.
Click ==
    /\ InProgram /\ Now.do \in Clicks
    /\ \/ ~found /\ Present /\ found' = TRUE
          /\ UNCHANGED <<results, pc, waited, assertions, saved, page, kd>>
       \/ ~found /\ ~Present /\ Sleep
       \/ ~found /\ ~Present /\ Expired /\ Record("violated")
       \/ found /\
          IF Present
          THEN /\ ~Blocks(Now.do)
               /\ pc' = pc + 1 /\ found' = FALSE /\ waited' = 0
               /\ assertions' = Append(assertions, "holds")
               /\ pending' = Append(pending, [do |-> Now.do, row |-> Now.row])
               /\ UNCHANGED <<results, saved, rows, nextId, nodes, kd>>
          ELSE Record("unresolvable")
    /\ UNCHANGED <<target, report, troubles>>

\* Mutant: a poll without a deadline.
PollForever ==
    /\ InProgram /\ Now.do \in Polled
    /\ Answer /\ Record("holds")
    /\ UNCHANGED <<target, report, troubles>>

\* poll: the probe is asked until it answers ok or the deadline has passed.
Poll ==
    /\ InProgram /\ Now.do \in Polled
    /\ \/ Answer /\ Record("holds")
       \/ ~Answer /\ Sleep
       \/ ~Answer /\ Expired /\ Record("violated")
    /\ UNCHANGED <<target, report, troubles>>

\* read: an absent element is unresolvable.
Read ==
    /\ InProgram /\ Now.do = "read"
    /\ IF Has(Now.row)
       THEN /\ saved' = [saved EXCEPT !.pre[Now.row] = rows[Now.row].id]
            /\ pc' = pc + 1 /\ found' = FALSE /\ waited' = 0
            /\ UNCHANGED <<results, assertions, page, kd>>
       ELSE Record("unresolvable")
    /\ UNCHANGED <<target, report, troubles>>

\* kd_reset
Reset(k) == [k EXCEPT !.added = {}, !.removed = {}]

\* The evaluations that record nothing: the structure probe and the instrument,
\* which finds nothing to observe on a page without a table of the class "table".
Evaluate ==
    /\ InProgram /\ Now.do \in Silent
    /\ pc' = pc + 1 /\ found' = FALSE /\ waited' = 0
    /\ saved' = IF Now.do = "probe"
                THEN [saved EXCEPT !.probe = IF ~Has(Now.row) THEN "absent"
                                             ELSE IF target = "misbuilt" THEN "other" ELSE "golden"]
                ELSE IF Now.do = "result"
                THEN [saved EXCEPT !.got = [added |-> kd.added, removed |-> kd.removed,
                                            stored |-> kd.stored]]
                ELSE saved
    /\ kd' = IF Now.do = "install" THEN [Reset(kd) EXCEPT !.on = target # "untabled"]
             ELSE IF Now.do = "reset" THEN Reset(kd)
             ELSE IF Now.do = "store" THEN [kd EXCEPT !.stored = IF Has(2) THEN rows[2].node ELSE 0]
             ELSE kd
    /\ UNCHANGED <<target, results, report, assertions, page, troubles>>

\* An assertion about what was read: one look, no polling.
Judge ==
    /\ InProgram /\ Now.do \in Judged
    /\ Record(IF Holds THEN "holds" ELSE "violated")
    /\ UNCHANGED <<target, report, troubles>>

Count(v) == Cardinality({i \in DOMAIN results : results[i].verdict = v})

\* Mutant: what could not be told is not counted.
SummaryOfTwo ==
    [total |-> Count("pass") + Count("fail"), pass |-> Count("pass"), fail |-> Count("fail"),
     cant_tell |-> Count("cant-tell")]

Summary ==
    [total |-> Len(results), pass |-> Count("pass"), fail |-> Count("fail"),
     cant_tell |-> Count("cant-tell")]

\* main, after the last operation: the results are written.
Report ==
    /\ Op \notin Operations /\ report = <<>>
    /\ report' = <<Summary>>
    /\ UNCHANGED <<target, results, pc, found, waited, assertions, saved, page, kd, troubles>>
-----------------------------------------------------------------------------
(* The target: one action paints one frame of the first gesture *)

New(n) == [k \in 1..n |-> [node |-> nodes + k, id |-> nextId + k - 1, mark |-> FALSE, danger |-> FALSE]]
NodesOf(rs) == {rs[i].node : i \in DOMAIN rs}

\* The page becomes rs, and the nodes in `in` and `out` came and went.
Painted(rs, in, out, rest) ==
    /\ rows' = rs
    /\ pending' = rest \o Tail(pending)
    /\ kd' = IF kd.on THEN [kd EXCEPT !.added = @ \cup in, !.removed = @ \cup out] ELSE kd
    /\ UNCHANGED <<target, results, report, pc, found, waited, assertions, saved, troubles>>

\* The first frame of run and runlots, and clear: the table is emptied.
Emptied(g) ==
    LET kept == IF target = "appending" /\ g.do = "run" THEN rows
                ELSE IF target = "leavesone" /\ g.do = "clear" /\ rows # <<>> THEN <<Last(rows)>>
                ELSE <<>>
        rest == IF g.do = "run" THEN <<[do |-> "fill", row |-> 0]>>
                ELSE IF g.do = "runlots" THEN <<[do |-> "filllots", row |-> 0]>> ELSE <<>>
    IN  /\ g.do \in {"run", "runlots", "clear"}
        /\ ~(target = "recycling" /\ g.do = "run" /\ rows # <<>>)
        /\ Painted(kept, {}, NodesOf(rows) \ NodesOf(kept), rest)
        /\ nextId' = IF target = "renumbering" THEN 1 ELSE nextId
        /\ UNCHANGED nodes

\* A run over a filled table that writes new texts into the old rows.
Recycled(g) ==
    /\ target = "recycling" /\ g.do = "run" /\ rows # <<>>
    /\ Painted([i \in DOMAIN rows |-> [rows[i] EXCEPT !.id = nextId + i - 1]], {}, {}, <<>>)
    /\ nextId' = nextId + Len(rows) /\ UNCHANGED nodes

\* The rows come.
Grown(g) ==
    LET n == IF g.do = "filllots" /\ target # "stopsshort" THEN LotsN ELSE N
    IN  /\ g.do \in {"fill", "filllots", "add"}
        /\ Painted(IF target = "prepending" /\ g.do = "add" THEN New(n) \o rows ELSE rows \o New(n),
                   NodesOf(New(n)), {}, <<>>)
        /\ nextId' = nextId + n /\ nodes' = nodes + n

\* update marks every Stride-th row.
Updated(g) ==
    /\ g.do = "update"
    /\ Painted([i \in DOMAIN rows |->
                  [rows[i] EXCEPT !.mark = @ \/ target = "overmarking" \/
                     i = 1 \/ (target # "undermarking" /\ (i - 1) % Stride = 0)]], {}, {}, <<>>)
    /\ UNCHANGED <<nextId, nodes>>

Chosen(g) ==
    /\ g.do = "label"
    /\ Painted([i \in DOMAIN rows |->
                  [rows[i] EXCEPT !.danger = i = g.row \/ (target = "multiselect" /\ @)]], {}, {}, <<>>)
    /\ UNCHANGED <<nextId, nodes>>

Far == IF target = "swapsother" THEN N ELSE N - 1

\* swaprows: the far row moves up, then the near one moves down.
Swapped(g) ==
    LET from == IF g.do = "swaprows" THEN Far ELSE 3
        to == IF g.do = "swaprows" THEN 2 ELSE Far
        moving == rows[from]
        rest == IF g.do = "swaprows" THEN <<[do |-> "swapback", row |-> 0]>> ELSE <<>>
    IN  /\ g.do \in {"swaprows", "swapback"} /\ Len(rows) >= N
        /\ target \notin {"rewriting", "recreating"}
        /\ Painted(InsertAt(RemoveAt(rows, from), to, moving),
                   {moving.node}, {moving.node}, rest)
        /\ UNCHANGED <<nextId, nodes>>

\* A swap that exchanges the texts, or makes two new rows.
SwappedInPlace(g) ==
    LET a == rows[2]
        b == rows[Far]
        new == target = "recreating"
    IN  /\ g.do = "swaprows" /\ Len(rows) >= N
        /\ target \in {"rewriting", "recreating"}
        /\ Painted([rows EXCEPT ![2] = [b EXCEPT !.node = IF new THEN nodes + 1 ELSE a.node],
                                ![Far] = [a EXCEPT !.node = IF new THEN nodes + 2 ELSE b.node]],
                   IF new THEN {nodes + 1, nodes + 2} ELSE {},
                   IF new THEN {a.node, b.node} ELSE {}, <<>>)
        /\ nodes' = IF new THEN nodes + 2 ELSE nodes
        /\ UNCHANGED nextId

\* remove: the row leaves.  Or the texts move up and the last row leaves; or
\* the last row leaves and the one that should takes its place.
Removed(g) ==
    LET n == IF target = "removesnext" THEN g.row + 1 ELSE g.row
        shifted == [i \in 1..(Len(rows) - 1) |->
                      IF i < n THEN rows[i] ELSE [rows[i + 1] EXCEPT !.node = rows[i].node]]
    IN  /\ g.do = "remove" /\ Has(n)
        /\ CASE target = "shifting" -> Painted(shifted, {}, {Last(rows).node}, <<>>)
             [] target = "lingering" ->
                  Painted(Append(Front(RemoveAt(rows, n)), rows[n]), {rows[n].node},
                          {rows[n].node, Last(rows).node}, <<>>)
             [] OTHER -> Painted(RemoveAt(rows, n), {}, {rows[n].node}, <<>>)
        /\ UNCHANGED <<nextId, nodes>>

Paint ==
    /\ pending # <<>> /\ target # "frozen"
    /\ LET g == Head(pending)
       IN  \/ Emptied(g) \/ Recycled(g) \/ Grown(g) \/ Updated(g) \/ Chosen(g)
           \/ Swapped(g) \/ SwappedInPlace(g) \/ Removed(g)
-----------------------------------------------------------------------------
\* What the closer and the page do of themselves.
Unfailing ==
    Navigate \/ Click \/ Poll \/ Read \/ Evaluate \/ Judge \/ Report \/ Paint

Next == Unfailing \/ Trouble

\* An evaluation in a page that does not block answers, and a prompt page paints;
\* the browser need not fail.
Spec == Init /\ [][Next]_vars /\ WF_vars(Unfailing)
-----------------------------------------------------------------------------
(* What must hold *)

Tr == [node : Nat, id : Nat, mark : BOOLEAN, danger : BOOLEAN]

\* The type of every variable.
TypeOK ==
    /\ target \in Targets
    /\ \A k \in DOMAIN results : results[k].verdict \in {"pass", "fail", "cant-tell"}
    /\ Len(report) <= 1
    /\ pc \in 0..(IF Op \in Operations THEN Len(Program[Op]) ELSE 0)
    /\ found \in BOOLEAN /\ waited \in 0..(IF pc = 0 THEN 0 ELSE Patience)
    /\ \A i \in DOMAIN assertions : assertions[i] = "holds"
    /\ saved.pre \in [1..N -> Nat] /\ saved.probe \in {"absent", "golden", "other"}
    /\ \A i \in DOMAIN rows : rows[i] \in Tr
    /\ nextId \in Nat /\ nodes \in Nat /\ troubles \in 0..MaxTroubles
    /\ kd.added \cup kd.removed \subseteq 1..nodes

\* The operations a fault shows in.  A removed row that lingers shows in none:
\* "removed id gone" compares two ids that were read before the removal.
FailsAt(t) ==
    CASE t \in {"renumbering", "appending"} -> {2, 11}
      [] t \in {"overmarking", "undermarking"} -> {3}
      [] t = "multiselect" -> {4}
      [] t = "swapsother" -> {5, 11}
      [] t = "removesnext" -> {6, 11}
      [] t = "stopsshort" -> {7}
      [] t = "prepending" -> {8}
      [] t \in {"leavesone", "buttonless"} -> {9}
      [] t = "misbuilt" -> {10}
      [] t \in {"recreating", "rewriting", "recycling", "shifting", "untabled"} -> {11}
      [] OTHER -> {}

\* A page that never paints shows it in all of them.
ShowsIn(t) == IF t = "frozen" THEN Operations ELSE FailsAt(t)

\* The verdict does not depend on when the target paints: a prompt page that
\* follows the benchmark is never failed, however its frames fall between the
\* looks of the closer, and a faulty one fails in exactly the operations its
\* fault shows in; no assertion is met by what an earlier gesture left behind,
\* nor passed for want of an answer.  Of a page that is late nothing is said.
VerdictIsTheTargets ==
    target # "late" =>
        \A k \in DOMAIN results : ~results[k].trouble =>
            results[k].verdict = IF k \in ShowsIn(target) THEN "fail" ELSE "pass"

\* What the closer could not resolve is never put on the target, nor passed:
\* an operation is cant-tell when the browser failed during it.
TroubleIsCantTell ==
    \A k \in DOMAIN results : results[k].trouble => results[k].verdict = "cant-tell"

Asserts(s) == s.do \in Clicks \cup Polled \cup Judged
Asserting(k) == Cardinality({i \in DOMAIN Program[k] : Asserts(Program[k][i])})

\* A verdict has one reason: only the last assertion made may not hold, and an
\* operation passes only when every one of its assertions was made.
OneReason ==
    \A k \in DOMAIN results :
        /\ results[k].broken \subseteq {results[k].made}
        /\ results[k].verdict = "pass" => results[k].made = Asserting(k)

\* The summary counts every operation once, those that could not be told too.
SummaryAccounts ==
    report # <<>> =>
        LET r == report[1]
        IN  r.total = Len(Program) /\ r.pass + r.fail + r.cant_tell = r.total

\* Every operation of a target gets a verdict and the summary is written, whether
\* its frames come in time, late or never: no assertion waits for a page that
\* answers.  Of a page that blocks its thread nothing is promised: page.evaluate
\* has no deadline, and the run never ends.
EveryRunReports == target # "blocking" => <>(report # <<>>)

\* A verdict says what happened to its operation: it has one reason, and trouble
\* with the browser is never the target's fault nor its merit.
ResultsSound == TypeOK /\ TroubleIsCantTell /\ OneReason
=============================================================================
