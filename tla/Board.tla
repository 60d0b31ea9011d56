------------------------------- MODULE Board -------------------------------
(***************************************************************************)
(* The board generator: src/dom/closer/board.mjs.  Each run appends one    *)
(* row to history.jsonl and renders it as latest.md.  A run reads the last *)
(* line of the history, and its own writes may be cut short: the process   *)
(* dies, or the disk is full, at any byte.                                 *)
(*                                                                         *)
(* What the closer found, and whether the vehicle exists, is chosen anew   *)
(* for every run.  Runs do not overlap.  A line of source is its sort and  *)
(* the braces it opens less those it closes.                               *)
(***************************************************************************)
EXTENDS Integers, Sequences, SequencesExt, FiniteSets

CONSTANTS Ops,       \* the operations a closer may know
          Verdicts,  \* what it says of one
          Sources,   \* vehicles' sources: sequences of files
          Lines,     \* bound: the lines a file is made of
          MaxLines,  \* bound: lines of a file
          MaxRuns    \* bound: runs of the generator

ASSUME BoardAssumption ==
    /\ "pass" \in Verdicts /\ "new-op" \notin Verdicts /\ MaxLines \in Nat /\ MaxRuns \in Nat
    /\ \A l \in Lines : l.sort \in {"skipped", "koru", "proc", "host"} /\ l.js \in BOOLEAN /\ l.net \in Int

VARIABLES phase,   \* "idle", "append" or "render"
          row,     \* the row of the run under way
          history, \* the rows written to history.jsonl
          tail,    \* its end: "whole", "open" (no newline) or "torn" (no row)
          latest,  \* the row latest.md shows, if any
          exit,    \* how the last run ended
          runs

boardVars == <<phase, row, history, tail, latest, exit, runs>>
-----------------------------------------------------------------------------
(* js_escape *)

Zero == [koru |-> 0, host |-> 0, depth |-> 0, bodyIsJs |-> FALSE]

\* Mutant: a body is taken for the language of the body before it.
HeaderKeepsBody(s, l) == [s EXCEPT !.host = @ + (IF l.js THEN 1 ELSE 0), !.depth = l.net]

\* The header of a ~proc: it declares the escape, and may open a body.
Header(s, l) ==
    [s EXCEPT !.host = @ + (IF l.js THEN 1 ELSE 0),
              !.depth = IF l.net > 0 THEN l.net ELSE @,
              !.bodyIsJs = IF l.net > 0 THEN l.js ELSE @]

\* One line of a host file, whose own language is js or not.
Scanned(s, l, js) ==
    IF l.sort = "skipped" THEN s
    ELSE IF s.depth > 0
    THEN [s EXCEPT !.host = @ + (IF s.bodyIsJs THEN 1 ELSE 0), !.depth = @ + l.net]
    ELSE CASE l.sort = "proc" -> Header(s, l)
           [] l.sort = "koru" -> [s EXCEPT !.koru = @ + 1]
           [] l.sort = "host" -> [s EXCEPT !.host = @ + (IF js THEN 1 ELSE 0)]

\* classifyHostFile after each line; depth and language start anew in every file.
Scan(f, s) ==
    LET scan[n \in 0..Len(f.lines)] ==
          IF n = 0 THEN [Zero EXCEPT !.koru = s.koru, !.host = s.host]
          ELSE Scanned(scan[n - 1], f.lines[n], f.ext = "kjs")
    IN  scan

Counted(f, s) ==
    CASE f.skipped -> s
      [] ~f.skipped /\ f.ext = "k" ->
           [s EXCEPT !.koru = @ + Cardinality({i \in DOMAIN f.lines : f.lines[i].sort # "skipped"})]
      [] ~f.skipped /\ f.ext \in {"kz", "kjs"} -> Scan(f, s)[Len(f.lines)]

\* The walk over the vehicle, after each file.
Walk(src) ==
    LET walk[n \in 0..Len(src)] == IF n = 0 THEN Zero ELSE Counted(src[n], walk[n - 1])
    IN  walk

\* computeJsEscape
Escape(src) ==
    LET s == Walk(src)[Len(src)]
    IN  [escaped |-> s.host, total |-> s.koru + s.host]
-----------------------------------------------------------------------------
(* A round *)

Absent == [escaped |-> 0, total |-> 0]
NoRow == [round |-> -1, bar |-> 0, current |-> 0, delta |-> <<>>, moved |-> <<>>,
          verdicts |-> <<>>, source |-> "none", escape |-> Absent]
Partial == [NoRow EXCEPT !.source = "partial"]

Passes(v) == Cardinality({id \in DOMAIN v : v[id] = "pass"})
Results == UNION {[S -> Verdicts] : S \in SUBSET Ops}

\* Mutant: the previous round is the one latest.md shows.
PreviousShown == IF latest.round < 0 THEN <<>> ELSE <<latest>>

\* The previous row, from the last line of the history.
Previous == IF history = <<>> THEN <<>> ELSE <<Last(history)>>

\* what_moved: over the operations of this round.
Moved(prev, v) ==
    LET old == prev.verdicts
        ids == {id \in DOMAIN v : IF id \in DOMAIN old THEN old[id] # v[id] ELSE TRUE}
    IN  [id \in ids |-> [from |-> IF id \in DOMAIN old THEN old[id] ELSE "new-op", to |-> v[id]]]

RowOf(calibration, v, source, escape) ==
    LET prev == Previous
        current == IF source = "vehicle" THEN Passes(v) ELSE 0
    IN  [round    |-> IF prev = <<>> THEN 0 ELSE prev[1].round + 1,
         bar      |-> Cardinality(calibration),
         current  |-> current,
         delta    |-> IF prev = <<>> THEN <<>> ELSE <<current - prev[1].current>>,
         moved    |-> IF prev = <<>> THEN <<>> ELSE Moved(prev[1], v),
         verdicts |-> v,
         source   |-> source,
         escape   |-> escape]
-----------------------------------------------------------------------------
(* A run *)

BoardInit ==
    /\ phase = "idle" /\ row = NoRow
    /\ history = <<>> /\ tail = "whole" /\ latest = NoRow
    /\ exit = "never" /\ runs = 0

Begin == phase = "idle" /\ runs < MaxRuns /\ runs' = runs + 1

\* No calibration; neither --vehicle nor --vehicle-root; or an entry point that
\* was not measured.  And what throws: results that are not the closer's, a last
\* line that cannot be read, a source without a line.
Refuse ==
    /\ Begin
    /\ exit' \in {"refused", "failed"}
    /\ UNCHANGED <<phase, row, history, tail, latest>>

\* The vehicle's results, or the absence of an entry point, make a row.
Compute ==
    /\ Begin
    /\ tail # "torn"
    /\ \E calibration \in SUBSET Ops \ {{}}, escape \in {Escape(src) : src \in Sources} \cup {Absent} :
         \/ \E v \in {w \in Results : DOMAIN w # {}} : row' = RowOf(calibration, v, "vehicle", escape)
         \/ row' = RowOf(calibration, [id \in calibration |-> "unattempted"], "control", escape)
    /\ phase' = "append"
    /\ UNCHANGED <<history, tail, latest, exit>>

Ends(how) == phase' = "idle" /\ row' = NoRow /\ exit' = how

\* The process dies between its steps.
Die ==
    /\ phase # "idle"
    /\ Ends("failed")
    /\ UNCHANGED <<history, tail, latest, runs>>

\* A line after one that has no newline is part of that line.
Joined(t) == IF tail = "whole" THEN t ELSE "torn"

\* Mutant: an append that fails is not waited for.
AppendRegardless ==
    /\ phase = "append" /\ phase' = "render"
    /\ \/ history' = Append(history, row) /\ tail' = Joined("whole")
       \/ history' = history /\ tail' = "torn"
    /\ UNCHANGED <<row, latest, exit, runs>>

\* appendFile: the row and its newline; or a part of them, and the run fails.
AppendRow ==
    /\ phase = "append"
    /\ \/ /\ history' = Append(history, row) /\ tail' = Joined("whole")
          /\ phase' = "render" /\ UNCHANGED <<row, exit>>
       \/ /\ history' = Append(history, row) /\ tail' = Joined("open")
          /\ Ends("failed")
       \/ /\ history' = history /\ tail' = "torn"
          /\ Ends("failed")
    /\ UNCHANGED <<latest, runs>>

\* writeFile: the row just appended; or latest.md is left half written.
Render ==
    /\ phase = "render"
    /\ \/ latest' = row /\ Ends("done")
       \/ latest' = Partial /\ Ends("failed")
    /\ UNCHANGED <<history, tail, runs>>

BoardNext == Refuse \/ Compute \/ Die \/ AppendRow \/ Render

BoardSpec == BoardInit /\ [][BoardNext]_boardVars
-----------------------------------------------------------------------------
(* What must hold *)

\* The type of every variable.
BoardTypeOK ==
    /\ phase \in {"idle", "append", "render"} /\ tail \in {"whole", "open", "torn"}
    /\ exit \in {"never", "refused", "failed", "done"} /\ runs \in 0..MaxRuns
    /\ Len(history) <= runs
    /\ \A i \in DOMAIN history : history[i].source \in {"vehicle", "control"}
    /\ phase = "idle" <=> row = NoRow

\* The verdicts of a row, from those of the row before and what moved.
Replayed(prev, r) ==
    /\ \A id \in DOMAIN r.moved : r.verdicts[id] = r.moved[id].to /\ r.moved[id].to # r.moved[id].from
    /\ \A id \in DOMAIN r.verdicts \ DOMAIN r.moved :
         id \in DOMAIN prev.verdicts /\ prev.verdicts[id] = r.verdicts[id]
    /\ \A id \in DOMAIN r.moved : r.moved[id].from = "new-op" <=> id \notin DOMAIN prev.verdicts

\* The history tells one story: rounds are numbered without a gap or a repeat,
\* deltas add up, and what moved leads from each round's verdicts to the next,
\* however runs ended, also where latest.md was never written.
HistoryReplays ==
    \A i \in DOMAIN history :
        LET r == history[i]
        IN  /\ r.round = i - 1
            /\ i = 1 => r.delta = <<>> /\ r.moved = <<>>
            /\ i > 1 => /\ r.delta = <<r.current - history[i - 1].current>>
                        /\ Replayed(history[i - 1], r)
            /\ r.source = "control" => r.current = 0 /\ Cardinality(DOMAIN r.verdicts) = r.bar

\* The history is well formed and replays.
BoardOK == BoardTypeOK /\ HistoryReplays

\* latest.md never shows a row the history does not hold, and shows its last row
\* when the last run said it was done.
LatestFollows ==
    /\ latest.source \in {"vehicle", "control"} => \E i \in DOMAIN history : history[i] = latest
    /\ exit = "done" /\ phase = "idle" => latest = Last(history)

\* The braces opened less those closed up to each line.
Braces(ls) ==
    LET open[n \in 0..Len(ls)] ==
          IF n = 0 THEN 0 ELSE open[n - 1] + (IF ls[n].sort = "skipped" THEN 0 ELSE ls[n].net)
    IN  open

\* The lines of a proc's body: those before which more braces were opened, from the
\* header on, than closed.
Body(ls, h) ==
    {i \in (h + 1)..Len(ls) : \A j \in h..(i - 1) : Braces(ls)[j] > Braces(ls)[h - 1]}

\* The lines that are in no body of a proc at the top.
Tops(ls) ==
    CHOOSE T \in SUBSET DOMAIN ls :
        \A i \in DOMAIN ls :
            i \in T <=> ~\E h \in T : ls[h].sort = "proc" /\ i \in Body(ls, h)

TopsOf(ls, sort) == {i \in Tops(ls) : ls[i].sort = sort}

\* The lines that escape: those that declare a |js proc or stand in the body of one,
\* and the top-level host lines of a .kjs file.
Escaped(ls, ext) ==
    LET procs == {h \in TopsOf(ls, "proc") : ls[h].js}
    IN  procs \cup {i \in UNION {Body(ls, h) : h \in procs} : ls[i].sort # "skipped"}
          \cup (IF ext = "kjs" THEN TopsOf(ls, "host") ELSE {})

\* Every line of a host file is counted by the language it belongs to: it escapes,
\* or it is Koru if it is a ~ line at the top; a |zig body, like the host lines of
\* a .kz file, is on neither side.
EscapeIsByOwner ==
    runs = 0 => \A n \in 0..MaxLines : \A ls \in [1..n -> Lines] : \A ext \in {"kz", "kjs"} :
        LET e == Escape(<<[ext |-> ext, skipped |-> FALSE, lines |-> ls]>>)
        IN  /\ e.escaped = Cardinality(Escaped(ls, ext))
            /\ e.total = e.escaped + Cardinality(TopsOf(ls, "koru"))
=============================================================================
