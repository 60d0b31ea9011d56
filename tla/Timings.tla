------------------------------ MODULE Timings ------------------------------
(***************************************************************************)
(* Reading a timing run: src/dom/board/window.mjs with its two readers,    *)
(* ladder.mjs (every benchmark, against a base that may be measured twice) *)
(* and read-timings.mjs (one benchmark, against a control that may be      *)
(* known), beside the benchmark driver.                                    *)
(*                                                                         *)
(* The driver is external.  It measures one cell (a framework on a         *)
(* benchmark) after another and overwrites one file per cell in place; it  *)
(* leaves a cell it abandons as it was, may be stopped, and started again  *)
(* at any time with any count.  A reader goes through the files one by one *)
(* while the driver runs: it reads a file's values, then asks the time it  *)
(* was written.                                                            *)
(* Times are in cells measured.  A sample is a number: the same program    *)
(* takes one of Quick when it has the machine to itself, and one of Busy   *)
(* when it has not.  A file's samples are drawn when its values are read,  *)
(* which a reader does once; nothing relates two readings.                 *)
(***************************************************************************)
EXTENDS Integers, Sequences, SequencesExt, FiniteSets

CONSTANTS Frameworks,  \* the columns: base and twin among them
          Benchmarks,  \* the rows, in order; the first one is 01_run1k
          Base, Twin,  \* byte-identical programs
          Quick, Busy, \* what a sample may be, alone and under interference
          Drawn,       \* bound: the values that are drawn
          Sampled,     \* bound: the benchmarks in which more than one is
          Counts,      \* iterations a run may ask for
          Known,       \* --expect: what the control is known to measure
          SpanMax,     \* SAME_RUN_MINUTES, in clock units
          MaxDrives,   \* bound: runs of the driver
          MaxAborts    \* bound: cells abandoned in a behaviour

ASSUME TimingsAssumption ==
    /\ IsFiniteSet(Frameworks) /\ Benchmarks \in Seq(STRING) /\ Benchmarks # <<>>
    /\ {Base, Twin} \subseteq Frameworks /\ Base # Twin
    /\ Quick \cup Busy \cup Counts \subseteq Nat \ {0} /\ Quick # {} /\ Counts # {}
    /\ Drawn \subseteq Quick \cup Busy /\ Drawn \cap Quick # {}
    /\ {Known, SpanMax, MaxDrives, MaxAborts} \subseteq Nat

\* What the readers take for granted of the machine while one run lasts: alone, a
\* program varies by less than SPLIT_RATIO; contention costs it more than that, and
\* more than the busy samples vary.
ASSUME RegimesAssumption ==
    /\ \A p, q \in Quick : 4 * p <= 5 * q
    /\ \A q \in Quick : \A b \in Busy : 4 * b > 5 * q
    /\ \A q \in Quick : \A b, c, d \in Busy : b * c >= d * q

VARIABLES dir,     \* the result files: cell -> [run, at], or NoFile
          log,     \* the driver's runs: [n, from, to], iterations, begin, last file
          at,      \* the cell it is at
          clock, aborts,
          reader,  \* "idle", "read" or "table": the table is printed
          by,      \* "ladder" or "timings"
          gated,   \* --twin or --expect was given
          cols,    \* the frameworks of the reading
          bench,   \* the benchmark it is at
          got,     \* what it read: cell -> [run, n, at, xs, torn], NoFile or Unread
          half,    \* the cell whose time is still to be asked
          ranked,  \* the benchmarks of the table
          verdict  \* what it ended with

driverVars == <<dir, log, at, clock, aborts>>
readerVars == <<reader, by, gated, cols, bench, got, half, ranked, verdict>>
timingsVars == <<driverVars, readerVars>>

Cells == Frameworks \X DOMAIN Benchmarks
NoFile == [run |-> 0]
Unread == [run |-> -1]
NoCell == <<>>

\* The order in which the driver goes through the cells.
Order == SetToSeq(Frameworks)
CellAt(i) == <<Order[1 + ((i - 1) % Len(Order))], 1 + ((i - 1) \div Len(Order))>>
-----------------------------------------------------------------------------
(* The driver *)

Running == log # <<>> /\ at <= Cardinality(Cells)

\* A run begins, at any time, with any count.
Drive(n, gap) ==
    /\ ~Running /\ Len(log) < MaxDrives
    /\ log' = Append(log, [n |-> n, from |-> clock + gap, to |-> clock + gap])
    /\ at' = 1 /\ clock' = clock + gap
    /\ UNCHANGED <<dir, aborts, readerVars>>

Measure ==
    /\ Running
    /\ dir' = [dir EXCEPT ![CellAt(at)] = [run |-> Len(log), at |-> clock]]
    /\ log' = [log EXCEPT ![Len(log)].to = clock]
    /\ at' = at + 1 /\ clock' = clock + 1
    /\ UNCHANGED <<aborts, readerVars>>

\* The driver's own assertion failed: the cell keeps the file it had.
Abandon ==
    /\ Running /\ aborts < MaxAborts
    /\ aborts' = aborts + 1
    /\ at' = at + 1 /\ clock' = clock + 1
    /\ UNCHANGED <<dir, log, readerVars>>

\* The driver is stopped where it is.
Stop ==
    /\ Running
    /\ at' = Cardinality(Cells) + 1
    /\ UNCHANGED <<dir, log, clock, aborts, readerVars>>
-----------------------------------------------------------------------------
(* window.mjs *)

\* samples: a file's values, sorted.
Samples(n, V) == {s \in [1..n -> V] : \A i, j \in 1..n : i < j => s[i] <= s[j]}

\* Mutant: the last of the gaps over the floor, not the widest one.
FastClusterLast(xs) ==
    LET gaps == {i \in 1..(Len(xs) - 1) : 4 * xs[i + 1] > 5 * xs[i]}
    IN  IF gaps = {} THEN xs ELSE SubSeq(xs, 1, CHOOSE i \in gaps : \A j \in gaps : j <= i)

\* fastCluster: the samples below the first of the widest relative gaps, if any
\* gap is over 1.25; ratios are compared crosswise.
FastCluster(xs) ==
    LET gaps == {i \in 1..(Len(xs) - 1) : 4 * xs[i + 1] > 5 * xs[i]}
        wider(i, j) == xs[i + 1] * xs[j] > xs[j + 1] * xs[i]
        widest == {i \in gaps : \A j \in gaps : ~wider(j, i)}
    IN  IF gaps = {} THEN xs ELSE SubSeq(xs, 1, CHOOSE i \in widest : \A j \in widest : i <= j)

\* Twice the median, to stay with integers.
Median2(xs) ==
    LET m == Len(xs) \div 2
    IN  IF (Len(xs) % 2) = 1 THEN 2 * xs[m + 1] ELSE xs[m] + xs[m + 1]

\* report: the number a reader works with.
Fast2(c) == Median2(FastCluster(got[c].xs))

\* The rows of a benchmark that were found.
Row(b) == {c \in {<<f, b>> : f \in cols} : got[c].run > 0}

CountsOf(S) == {got[c].n : c \in S}
TimesOf(S) == {got[c].at : c \in S}

\* Mutant: the span is not looked at.
WindowFaultCounts(S) == IF Cardinality(CountsOf(S)) > 1 THEN "counts" ELSE "none"

\* windowFault: why the rows cannot be from one run.
WindowFault(S) ==
    IF Cardinality(CountsOf(S)) > 1 THEN "counts"
    ELSE IF \E s, t \in TimesOf(S) : s - t > SpanMax THEN "span" ELSE "none"

\* What is drawn for a cell.
Draws(c) == IF c[2] \in Sampled THEN Drawn ELSE {CHOOSE q \in Drawn \cap Quick : TRUE}

\* samples: the values of a cell that has a file.
ReadValues(c, xs) ==
    /\ dir[c] # NoFile
    /\ got' = [got EXCEPT ![c] = [run |-> dir[c].run, n |-> log[dir[c].run].n, at |-> dir[c].at,
                                   xs |-> xs, torn |-> FALSE]]
    /\ half' = c
    /\ UNCHANGED <<driverVars, reader, by, gated, cols, bench, ranked, verdict>>

\* samples: then the time it was written, by whatever run it is from by now.
ReadTime ==
    LET row == got[half]
    IN  /\ reader = "read" /\ half # NoCell
        /\ got' = [got EXCEPT ![half] = [row EXCEPT !.at = dir[half].at,
                                                   !.torn = (dir[half].run # row.run)]]
        /\ half' = NoCell
        /\ UNCHANGED <<driverVars, reader, by, gated, cols, bench, ranked, verdict>>

\* samples: there is no such file.
ReadNothing(c) ==
    /\ dir[c] = NoFile
    /\ got' = [got EXCEPT ![c] = NoFile]
    /\ UNCHANGED <<driverVars, reader, by, gated, cols, bench, half, ranked, verdict>>

\* A cell of the benchmark the reader is at, not looked at yet; read-timings takes
\* the control first.
Takes(c) ==
    /\ reader = "read" /\ half = NoCell
    /\ c \in {<<f, bench>> : f \in cols} /\ got[c] = Unread
    /\ by = "timings" /\ c # <<Base, bench>> => got[<<Base, bench>>].run > 0

RowRead == reader = "read" /\ half = NoCell /\ \A f \in cols : got[<<f, bench>>] # Unread

\* The reader ends.
Exits(v) ==
    /\ reader' = "idle" /\ verdict' = v
    /\ UNCHANGED <<driverVars, by, gated, cols, bench, got, half, ranked>>

\* A file caught while it is overwritten does not parse, and the reader dies.
Dies == reader = "read" /\ Running /\ Exits("died")

\* A reader starts: which frameworks, and the first benchmark it looks at.
Begins(tool, gate, S, b) ==
    /\ by' = tool /\ gated' = gate /\ cols' = S /\ bench' = b
    /\ got' = [c \in Cells |-> Unread] /\ half' = NoCell /\ ranked' = {}
    /\ UNCHANGED driverVars
-----------------------------------------------------------------------------
(* ladder.mjs *)

\* The columns of the table: whoever has a file for the first benchmark.
Columns == {f \in Frameworks : dir[<<f, 1>>] # NoFile}

Ladder(twin) ==
    /\ reader = "idle"
    /\ Begins("ladder", twin, Columns, 1)
    /\ IF Base \in Columns /\ (twin => Twin \in Columns)
       THEN reader' = "read" /\ verdict' = "none"
       ELSE reader' = "idle" /\ verdict' = "refused"

\* Every column completed the benchmark.
Complete == \A f \in cols : got[<<f, bench>>] # NoFile

\* On to the next benchmark, or to the table when there is something to rank.
Onward(done) ==
    /\ ranked' = done /\ verdict' = (IF bench = Len(Benchmarks) /\ done = {} THEN "refused" ELSE verdict)
    /\ bench' = IF bench < Len(Benchmarks) THEN bench + 1 ELSE bench
    /\ reader' = IF bench < Len(Benchmarks) THEN "read" ELSE IF done = {} THEN "idle" ELSE "table"
    /\ UNCHANGED <<driverVars, by, gated, cols, got, half>>

\* A benchmark is read: dropped, refused with the whole ladder, or ranked.
LadderRow ==
    /\ by = "ladder" /\ RowRead
    /\ \/ ~Complete /\ Onward(ranked)
       \/ Complete /\ WindowFault(Row(bench)) # "none" /\ Exits("refused")
       \/ Complete /\ WindowFault(Row(bench)) = "none" /\ Onward(ranked \cup {bench})

\* The twin may be off the base by a tenth.
Agree(x, y) == 10 * (IF x > y THEN x - y ELSE y - x) <= y

\* Mutant: the twin is compared on the first benchmark alone.
TwinAgreesFirst == Agree(Fast2(<<Twin, 1>>), Fast2(<<Base, 1>>))

TwinAgrees == \A b \in ranked : Agree(Fast2(<<Twin, b>>), Fast2(<<Base, b>>))

\* The table is printed already.  Without a twin nothing more is asked.
LadderGate ==
    /\ by = "ladder" /\ reader = "table"
    /\ Exits(IF ~gated THEN "unverified" ELSE IF TwinAgrees THEN "accepted" ELSE "refused")
-----------------------------------------------------------------------------
(* read-timings.mjs *)

ReadTimings(expect, S, b) ==
    /\ reader = "idle"
    /\ Begins("timings", expect, {Base} \cup S, b)
    /\ reader' = "read" /\ verdict' = "none"

\* No control: nothing else is read.
NoControl ==
    /\ by = "timings" /\ reader = "read" /\ got[<<Base, bench>>] = NoFile
    /\ Exits("refused")

\* The frameworks without a file are left out; one window, or refused.
TimingsRow ==
    /\ by = "timings" /\ RowRead /\ got[<<Base, bench>>] # NoFile
    /\ \/ WindowFault(Row(bench)) # "none" /\ Exits("refused")
       \/ /\ WindowFault(Row(bench)) = "none"
          /\ ranked' = {bench} /\ reader' = "table"
          /\ UNCHANGED <<driverVars, by, gated, cols, bench, got, half, verdict>>

\* The control is where it is known to be, to 15 per cent.
ControlHolds ==
    LET m == Fast2(<<Base, bench>>)
    IN  100 * (IF m > 2 * Known THEN m - 2 * Known ELSE 2 * Known - m) <= 15 * 2 * Known

\* The table is printed already.  Without an expectation nothing more is asked.
TimingsGate ==
    /\ by = "timings" /\ reader = "table"
    /\ Exits(IF ~gated THEN "unverified" ELSE IF ControlHolds THEN "accepted" ELSE "refused")
-----------------------------------------------------------------------------
TimingsInit ==
    /\ dir = [c \in Cells |-> NoFile]
    /\ log = <<>> /\ at = 0 /\ clock = 0 /\ aborts = 0
    /\ reader = "idle" /\ by = "ladder" /\ gated = FALSE /\ cols = {} /\ bench = 1
    /\ got = [c \in Cells |-> Unread] /\ half = NoCell /\ ranked = {} /\ verdict = "none"

DriverNext ==
    \/ \E n \in Counts, gap \in {1, SpanMax + 1} : Drive(n, gap)
    \/ Measure \/ Abandon \/ Stop

ReaderNext ==
    \/ \E gate \in BOOLEAN :
         \/ Ladder(gate)
         \/ \E S \in SUBSET (Frameworks \ {Base}), b \in DOMAIN Benchmarks : ReadTimings(gate, S, b)
    \/ \E c \in Cells :
         /\ Takes(c)
         /\ \/ dir[c] # NoFile /\ \E xs \in Samples(log[dir[c].run].n, Draws(c)) : ReadValues(c, xs)
            \/ ReadNothing(c)
    \/ ReadTime \/ Dies
    \/ LadderRow \/ LadderGate \/ NoControl \/ TimingsRow \/ TimingsGate

TimingsNext == DriverNext \/ ReaderNext

TimingsSpec == TimingsInit /\ [][TimingsNext]_timingsVars
-----------------------------------------------------------------------------
(* What must hold *)

Alone(xs) == \E i \in DOMAIN xs : xs[i] \in Quick

\* The type of every variable; a file is from a run that has begun, and the samples
\* that were read are sorted and counted.
TimingsTypeOK ==
    /\ \A c \in Cells : dir[c] # NoFile => dir[c].run \in DOMAIN log /\ dir[c].at \in 0..clock
    /\ Len(log) <= MaxDrives /\ at \in 0..(Cardinality(Cells) + 1)
    /\ clock \in Nat /\ aborts \in 0..MaxAborts
    /\ reader \in {"idle", "read", "table"} /\ by \in {"ladder", "timings"} /\ gated \in BOOLEAN
    /\ cols \subseteq Frameworks /\ bench \in DOMAIN Benchmarks /\ half \in Cells \cup {NoCell}
    /\ ranked \subseteq DOMAIN Benchmarks
    /\ verdict \in {"none", "refused", "died", "unverified", "accepted"}
    /\ \A c \in Cells : got[c].run > 0 => got[c].xs \in Samples(got[c].n, Quick \cup Busy)

\* Whatever a sample set of up to four draws looks like, the fast cluster is the
\* samples that had the machine to themselves, all of them and no other, as long
\* as there is one, also where the busy samples have a gap of their own.
FastIsAlone ==
    log = <<>> => \A n \in 1..4 : \A xs \in Samples(n, Quick \cup Busy) :
        Alone(xs) => LET fast == FastCluster(xs)
                     IN  /\ fast = SubSeq(xs, 1, Len(fast))
                         /\ \A i \in DOMAIN xs : xs[i] \in Quick <=> i <= Len(fast)

\* The runs can be told apart: no two that asked for as many iterations are within
\* a window of one another.
RunsTold ==
    \A r, s \in DOMAIN log : r < s /\ log[r].n = log[s].n => log[s].from - log[r].to > SpanMax

\* No file of the row was overwritten between its two reads.
Untorn(b) == \A c \in Row(b) : ~got[c].torn

\* Same window or nothing: a benchmark in the table of a reader that went through the
\* directory while the driver was running, stopped, restarted or abandoning cells has
\* all its numbers from within a window, and from one run when the runs can be told
\* apart, unless a file was overwritten between its two reads.
OneRun ==
    \A b \in ranked : Untorn(b) =>
        \A c, d \in Row(b) : /\ got[c].at - got[d].at <= SpanMax
                             /\ RunsTold => got[c].run = got[d].run

\* The twin gates the window: in a ladder that is accepted, base and twin as measured
\* by one run either both had the machine to themselves for a sample or neither had.
TwinGatesWindow ==
    by = "ladder" /\ gated /\ verdict = "accepted" => \A b \in ranked :
        LET x == got[<<Base, b>>]
            y == got[<<Twin, b>>]
        IN  x.run = y.run => (Alone(x.xs) <=> Alone(y.xs))

\* What is ranked is of one window, in a well-formed reading.
WindowsSound == TimingsTypeOK /\ OneRun
=============================================================================
