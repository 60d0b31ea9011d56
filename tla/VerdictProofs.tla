--------------------------- MODULE VerdictProofs ----------------------------
(***************************************************************************)
(* Proofs about the verdicts of the gauntlet (Gauntlet), for every size of *)
(* the tables, every patience and every target: a target that follows the  *)
(* benchmark is never failed, and a faulty one fails where its fault shows.*)
(*                                                                         *)
(* The inductive invariant is Course: where every operation can be, at     *)
(* each of its steps, with every target.  Operation k is Coursek; being    *)
(* on it makes the closer's next verdict Just, and it is kept when the     *)
(* closer goes on (CoursekGoes) and when the page paints (CoursekPaints).  *)
(***************************************************************************)
EXTENDS BenchProofs

----------------------------------------------------------------------------
(* Whose verdict it is: the page, at every step of every operation.        *)

G(do, r) == [do |-> do, row |-> r]
Waits(gs) == pending = gs
Quiet == pending = <<>>

\* The page as navigation leaves it.
Clean == rows = <<>> /\ nextId = 1 /\ nodes = 0

\* n rows with the ids b + 1, b + 2 and so on; and nodes that were made so.
Numbered(n, b) == Len(rows) = n /\ \A i \in 1..n : rows[i].id = b + i
MadeFrom(b) == \A i \in 1..N : rows[i].node = b + i

\* The first N rows, untouched.
First == /\ Numbered(N, 0) /\ MadeFrom(0) /\ nextId = N + 1 /\ nodes = N
         /\ \A i \in 1..N : ~rows[i].mark /\ ~rows[i].danger

\* The first steps of an operation that fills the table, by `run` or by `add`.
Opening ==
    \/ pc = 1 /\ Clean /\ Quiet
    \/ pc = 2 /\ Clean /\ (Waits(<<G("run", 0)>>) \/ Waits(<<G("fill", 0)>>))
    \/ pc \in {2, 3} /\ First /\ Quiet

OpeningAdd ==
    \/ pc = 1 /\ Clean /\ Quiet
    \/ pc = 2 /\ Clean /\ Waits(<<G("add", 0)>>)
    \/ pc \in {2, 3} /\ First /\ Quiet

Course1 == Opening \/ (pc = 4 /\ First /\ Quiet)

Course2 ==
    \/ Opening
    \/ pc = 4 /\ First /\ Waits(<<G("run", 0)>>)
    \/ /\ target \notin {"renumbering", "appending"}
       /\ \/ pc = 4 /\ rows = <<>> /\ nextId = N + 1 /\ Waits(<<G("fill", 0)>>)
          \/ pc \in {4, 5, 6} /\ Numbered(N, N) /\ Quiet
    \/ /\ target = "renumbering" /\ pc = 4
       /\ \/ rows = <<>> /\ nextId = 1 /\ Waits(<<G("fill", 0)>>)
          \/ Numbered(N, 0) /\ Quiet
    \/ /\ target = "appending" /\ pc = 4 /\ rows # <<>> /\ rows[1].id = 1
       /\ Quiet \/ Waits(<<G("fill", 0)>>)

MarkDue(i) == i = 1 \/ target = "overmarking" \/ (target # "undermarking" /\ (i - 1) % Stride = 0)

Course3 ==
    \/ Opening
    \/ pc = 4 /\ First /\ Waits(<<G("update", 0)>>)
    \/ /\ pc \in {4, 5, 6, 7} /\ Quiet /\ Len(rows) = N
       /\ target = "undermarking" => pc = 4
       /\ \A i \in 1..N : rows[i].mark <=> MarkDue(i)

Only(j) == Len(rows) = N /\ \A i \in 1..N : rows[i].danger <=> i = j

Course4 ==
    \/ Opening
    \/ pc = 4 /\ First /\ Waits(<<G("label", 5)>>)
    \/ pc \in {4, 5, 6} /\ Only(5) /\ Quiet
    \/ pc = 7 /\ Only(5) /\ Waits(<<G("label", 2)>>)
    \/ pc \in {7, 8} /\ Quiet /\
       \/ target # "multiselect" /\ Only(2)
       \/ target = "multiselect" /\ Len(rows) = N /\ rows[2].danger /\ rows[5].danger

ReadSo(ns) == \A i \in ns : saved.pre[i] = i

\* The table when the first frame of a swap of rows 2 and N - 1 is painted, and after
\* both: which row stands at i.
Halfway(i) == IF i = 2 THEN N - 1 ELSE IF 2 < i /\ i < N THEN i - 1 ELSE i
Exchanged(i) == IF i = 2 THEN N - 1 ELSE IF i = N - 1 THEN 2 ELSE i
HalfSwapped == Len(rows) = N /\ \A i \in 1..N : rows[i].id = Halfway(i) /\ rows[i].node = Halfway(i)
TextsSwapped == Len(rows) = N /\ \A i \in 1..N : rows[i].id = Exchanged(i)
FullySwapped == TextsSwapped /\ \A i \in 1..N : rows[i].node = Exchanged(i)

\* What has been read of the table before the swap.
Read5 ==
    /\ pc > 3 => ReadSo({1})
    /\ pc > 4 => ReadSo({2})
    /\ pc > 5 => ReadSo({3})
    /\ pc > 6 => ReadSo({N - 2})
    /\ pc > 7 => ReadSo({N - 1})
    /\ pc > 8 => ReadSo({N})

Course5 ==
    \/ Opening
    \/ pc \in {4, 5, 6, 7, 8, 9} /\ First /\ Quiet /\ Read5
    \/ Read5 /\
       \/ pc = 10 /\ First /\ Waits(<<G("swaprows", 0)>>)
       \/ target # "swapsother" /\
          \/ pc \in {10, 11} /\ HalfSwapped /\ Waits(<<G("swapback", 0)>>)
          \/ pc \in {10, 11, 12, 13, 14, 15} /\ TextsSwapped /\ Quiet
       \/ target = "swapsother" /\ pc = 10 /\ Len(rows) = N /\ rows[2].id = N
          /\ (Quiet \/ Waits(<<G("swapback", 0)>>))

Course6 ==
    \/ Opening
    \/ pc = 4 /\ First /\ Quiet /\ ReadSo({4})
    \/ pc = 5 /\ First /\ Quiet /\ ReadSo({4, 5})
    \/ ReadSo({4, 5, 6}) /\
       \/ pc = 6 /\ First /\ Quiet
       \/ pc = 7 /\ First /\ Waits(<<G("remove", 4)>>)
       \/ target # "removesnext" /\ pc \in {7, 8, 9, 10} /\ Quiet
          /\ Len(rows) = N - 1 /\ rows[4].id = 5 /\ rows[5].id = 6
       \/ target = "removesnext" /\ pc = 7 /\ Quiet /\ Len(rows) = N - 1 /\ rows[4].id = 4

Course7 ==
    \/ pc = 1 /\ Clean /\ Quiet
    \/ pc = 2 /\ Clean /\ (Waits(<<G("runlots", 0)>>) \/ Waits(<<G("filllots", 0)>>))
    \/ target # "stopsshort" /\ pc \in {2, 3, 4} /\ Numbered(LotsN, 0) /\ Quiet
    \/ target = "stopsshort" /\ pc = 2 /\ Len(rows) = N /\ Quiet

Course8 ==
    \/ Opening
    \/ pc = 4 /\ First /\ Waits(<<G("add", 0)>>)
    \/ target # "prepending" /\ pc \in {4, 5, 6, 7} /\ Numbered(2 * N, 0) /\ Quiet
    \/ target = "prepending" /\ pc \in {4, 5} /\ Len(rows) = 2 * N /\ rows[N + 1].id = 1 /\ Quiet

Course9 ==
    /\ Opening \/ (pc = 4 /\ target # "buttonless" /\
       \/ First /\ Waits(<<G("clear", 0)>>)
       \/ target # "leavesone" /\ rows = <<>> /\ Quiet
       \/ target = "leavesone" /\ Len(rows) = 1 /\ Quiet)
    /\ target = "buttonless" /\ pc = 3 => ~found

Course10 ==
    \/ OpeningAdd
    \/ pc \in {4, 5} /\ Quiet /\ saved.probe = (IF target = "misbuilt" THEN "other" ELSE "golden")

\* What the observer has seen, or what of it was read.
Saw(in, out) == kd.on /\ kd.added = in /\ kd.removed = out
SawSwap == kd.on /\ kd.added # {} /\ kd.added = kd.removed

Swapping ==
    \/ HalfSwapped /\ Waits(<<G("swapback", 0)>>)
    \/ FullySwapped /\ Quiet

Second == Numbered(N, N) /\ MadeFrom(N)

Course11Swap ==
    \/ OpeningAdd
    \/ target = "untabled" /\ pc = 4 /\ First /\ Quiet /\ ~kd.on
    \/ pc \in {4, 5, 6} /\ First /\ Quiet /\ Saw({}, {}) /\ target # "untabled"
    \/ pc = 7 /\ First /\ Waits(<<G("swaprows", 0)>>) /\ Saw({}, {}) /\ target # "untabled"
    \/ target = "swapsother" /\ pc = 7 /\ Len(rows) = N /\ rows[2].id = N
       /\ (Quiet \/ Waits(<<G("swapback", 0)>>))
    \/ target = "recreating" /\ TextsSwapped /\ Quiet /\
       \/ pc \in {7, 8} /\ Saw({N + 1, N + 2}, {2, N - 1})
       \/ pc = 9 /\ saved.got.added = {N + 1, N + 2} /\ saved.got.removed = {2, N - 1}
    \/ target = "rewriting" /\ TextsSwapped /\ Quiet /\
       \/ pc \in {7, 8} /\ Saw({}, {})
       \/ pc = 9 /\ saved.got.added = {}

PlainSwap == target \notin {"swapsother", "recreating", "rewriting", "untabled"}
PlainRun == PlainSwap /\ target \notin {"renumbering", "appending", "recycling"}

Course11Run ==
    \/ PlainSwap /\ nodes = N /\ nextId = N + 1 /\ kd.on /\
       \/ pc \in {7, 8} /\ Swapping /\ SawSwap
       \/ pc = 9 /\ Swapping /\ saved.got.added # {} /\ saved.got.added = saved.got.removed
       \/ pc \in {10, 11} /\ Swapping
       \/ pc = 12 /\ Swapping /\ kd.added \subseteq {2}
       \/ pc = 13 /\ HalfSwapped /\ Waits(<<G("swapback", 0), G("run", 0)>>) /\ kd.added \subseteq {2}
       \/ pc = 13 /\ FullySwapped /\ Waits(<<G("run", 0)>>) /\ kd.added \subseteq {2}
    \/ target = "renumbering" /\ pc = 13 /\
       \/ rows = <<>> /\ nextId = 1 /\ Waits(<<G("fill", 0)>>)
       \/ Numbered(N, 0) /\ Quiet
    \/ target = "appending" /\ pc = 13 /\ Len(rows) >= N /\ rows[N].id = N
       /\ (Quiet \/ Waits(<<G("fill", 0)>>))
    \/ target = "recycling" /\ Numbered(N, N) /\ Quiet /\
       \/ pc \in {13, 14} /\ kd.added \subseteq {2}
       \/ pc = 15 /\ saved.got.added \subseteq {2}

Course11Remove ==
    /\ PlainRun
    /\ \/ pc = 13 /\ nodes = N /\ nextId = N + 1 /\ rows = <<>> /\ Waits(<<G("fill", 0)>>)
          /\ kd.on /\ 1..N \subseteq kd.removed
       \/ kd.on /\ Second /\ Quiet /\
          \/ pc \in {13, 14} /\ 1..N \subseteq kd.removed /\ (N + 1)..(2 * N) \subseteq kd.added
          \/ pc = 15 /\ 1..N \subseteq saved.got.removed /\ (N + 1)..(2 * N) \subseteq saved.got.added
             /\ saved.got.removed \cup saved.got.added \subseteq 1..nodes
          \/ pc = 16
          \/ pc = 17 /\ kd.stored = N + 2
          \/ pc \in {18, 19} /\ kd.stored = N + 2 /\ kd.removed = {}
       \/ kd.on /\ Second /\ pc = 20 /\ Waits(<<G("remove", 2)>>) /\ kd.stored = N + 2 /\ kd.removed = {}
       \/ target = "removesnext" /\ pc = 20 /\ Quiet /\ Len(rows) = N - 1 /\ rows[2].id = N + 2
       \/ target # "removesnext" /\ pc \in {20, 21} /\ Quiet /\ Len(rows) = N - 1 /\ rows[2].id = N + 3
          /\ kd.stored = N + 2 /\ (N + 2 \in kd.removed <=> target # "shifting")
       \/ target # "removesnext" /\ pc = 22 /\ Quiet
          /\ saved.got.stored = N + 2 /\ (N + 2 \in saved.got.removed <=> target # "shifting")

Course11 == Course11Swap \/ Course11Run \/ Course11Remove

Course ==
    \/ pc = 0 /\ Clean /\ Quiet /\ ~found
    \/ Op = 1 /\ Course1
    \/ Op = 2 /\ Course2
    \/ Op = 3 /\ Course3
    \/ Op = 4 /\ Course4
    \/ Op = 5 /\ Course5
    \/ Op = 6 /\ Course6
    \/ Op = 7 /\ Course7
    \/ Op = 8 /\ Course8
    \/ Op = 9 /\ Course9
    \/ Op = 10 /\ Course10
    \/ Op = 11 /\ Course11

\* What the closer takes for the target's doing, is.
Fails == Op \in FailsAt(target)

Timely == pending # <<>> => ((\E i \in DOMAIN pending : Slow(pending[i])) <=> Now.do = "bigcount")

Just ==
    /\ Timely
    /\ Now.do \in Clicks => (found => Present) /\ (Quiet /\ ~Present => Fails)
    /\ Now.do = "read" => Has(Now.row)
    /\ Now.do \in Polled => /\ Answer /\ pc = Len(Program[Op]) => ~Fails
                            /\ ~Answer /\ Quiet => Fails
    /\ Now.do \in Judged => /\ Holds /\ pc = Len(Program[Op]) => ~Fails
                            /\ ~Holds => Fails

\* The steps of operation 1 (run), one by one.
LEMMA Now1 ==
  ASSUME Op = 1
  PROVE  /\ Len(Program[Op]) = 4 /\ (pc = 1 => Now = Press("run"))
         /\ (pc = 2 => Now = Step("count", 0, N)) /\ (pc = 3 => Now = Step("text", 1, 1))
         /\ (pc = 4 => Now = Step("text", N, N))
  BY DEF Program, Now, Run1k

\* The steps of operation 2 (replace), one by one.
LEMMA Now2 ==
  ASSUME Op = 2
  PROVE  /\ Len(Program[Op]) = 6 /\ (pc = 1 => Now = Press("run"))
         /\ (pc = 2 => Now = Step("text", N, N)) /\ (pc = 3 => Now = Press("run"))
         /\ (pc = 4 => Now = Step("text", 1, N + 1))
         /\ (pc = 5 => Now = Step("text", N, 2 * N)) /\ (pc = 6 => Now = Step("count", 0, N))
  <1>1. Program[2] = Replace1k
    BY DEF Program
  <1>2. /\ Len(Replace1k) = 6 /\ Replace1k[1] = Press("run")
        /\ Replace1k[2] = Step("text", N, N) /\ Replace1k[3] = Press("run")
        /\ Replace1k[4] = Step("text", 1, N + 1) /\ Replace1k[5] = Step("text", N, 2 * N)
        /\ Replace1k[6] = Step("count", 0, N)
    BY DEF Replace1k, Filled
  <1> QED
    BY <1>1, <1>2 DEF Now

\* The steps of operation 3 (update), one by one.
LEMMA Now3 ==
  ASSUME Op = 3
  PROVE  /\ Len(Program[Op]) = 7 /\ (pc = 1 => Now = Press("run"))
         /\ (pc = 2 => Now = Step("text", N, N)) /\ (pc = 3 => Now = Press("update"))
         /\ (pc = 4 => Now = Step("marked", N + 1 - Stride, 0))
         /\ (pc = 5 => Now = Step("marked", 1, 0))
         /\ (pc = 6 => Now = Step("marked", 1 + Stride, 0))
         /\ (pc = 7 => Now = Step("unmarked", 2, 0))
  <1>1. Program[3] = Update10th1k
    BY DEF Program
  <1>2. /\ Len(Update10th1k) = 7 /\ Update10th1k[1] = Press("run")
        /\ Update10th1k[2] = Step("text", N, N) /\ Update10th1k[3] = Press("update")
        /\ Update10th1k[4] = Step("marked", N + 1 - Stride, 0)
        /\ Update10th1k[5] = Step("marked", 1, 0)
        /\ Update10th1k[6] = Step("marked", 1 + Stride, 0)
        /\ Update10th1k[7] = Step("unmarked", 2, 0)
    BY DEF Update10th1k, Filled
  <1> QED
    BY <1>1, <1>2 DEF Now

\* The steps of operation 4 (select), one by one.
LEMMA Now4 ==
  ASSUME Op = 4
  PROVE  /\ Len(Program[Op]) = 8 /\ (pc = 1 => Now = Press("run"))
         /\ (pc = 2 => Now = Step("text", N, N)) /\ (pc = 3 => Now = Step("label", 5, 0))
         /\ (pc = 4 => Now = Step("danger", 5, 0)) /\ (pc = 5 => Now = Step("dangers", 0, 1))
         /\ (pc = 6 => Now = Step("label", 2, 0)) /\ (pc = 7 => Now = Step("danger", 2, 0))
         /\ (pc = 8 => Now = Step("dangers", 0, 1))
  <1>1. Program[4] = Select1k
    BY DEF Program
  <1>2. /\ Len(Select1k) = 8 /\ Select1k[1] = Press("run") /\ Select1k[2] = Step("text", N, N)
        /\ Select1k[3] = Step("label", 5, 0) /\ Select1k[4] = Step("danger", 5, 0)
        /\ Select1k[5] = Step("dangers", 0, 1) /\ Select1k[6] = Step("label", 2, 0)
        /\ Select1k[7] = Step("danger", 2, 0) /\ Select1k[8] = Step("dangers", 0, 1)
    BY DEF Select1k, Filled
  <1> QED
    BY <1>1, <1>2 DEF Now

\* The steps of operation 5 (swap), one by one.
LEMMA Now5 ==
  ASSUME Op = 5
  PROVE  /\ Len(Program[Op]) = 15 /\ (pc = 1 => Now = Press("run"))
         /\ (pc = 2 => Now = Step("text", N, N)) /\ (pc = 3 => Now = Step("read", 1, 0))
         /\ (pc = 4 => Now = Step("read", 2, 0)) /\ (pc = 5 => Now = Step("read", 3, 0))
         /\ (pc = 6 => Now = Step("read", N - 2, 0))
         /\ (pc = 7 => Now = Step("read", N - 1, 0)) /\ (pc = 8 => Now = Step("read", N, 0))
         /\ (pc = 9 => Now = Press("swaprows")) /\ (pc = 10 => Now = Step("was", 2, N - 1))
         /\ (pc = 11 => Now = Step("was", N - 1, 2)) /\ (pc = 12 => Now = Step("was", 1, 1))
         /\ (pc = 13 => Now = Step("was", 3, 3))
         /\ (pc = 14 => Now = Step("was", N - 2, N - 2)) /\ (pc = 15 => Now = Step("was", N, N))
  <1>1. Program[5] = Swap1k
    BY DEF Program
  <1>2. /\ Len(Swap1k) = 15 /\ Swap1k[1] = Press("run") /\ Swap1k[2] = Step("text", N, N)
        /\ Swap1k[3] = Step("read", 1, 0) /\ Swap1k[4] = Step("read", 2, 0)
        /\ Swap1k[5] = Step("read", 3, 0) /\ Swap1k[6] = Step("read", N - 2, 0)
        /\ Swap1k[7] = Step("read", N - 1, 0) /\ Swap1k[8] = Step("read", N, 0)
        /\ Swap1k[9] = Press("swaprows") /\ Swap1k[10] = Step("was", 2, N - 1)
        /\ Swap1k[11] = Step("was", N - 1, 2) /\ Swap1k[12] = Step("was", 1, 1)
        /\ Swap1k[13] = Step("was", 3, 3) /\ Swap1k[14] = Step("was", N - 2, N - 2)
        /\ Swap1k[15] = Step("was", N, N)
    BY DEF Swap1k, Filled, Reads
  <1> QED
    BY <1>1, <1>2 DEF Now

\* The steps of operation 6 (remove), one by one.
LEMMA Now6 ==
  ASSUME Op = 6
  PROVE  /\ Len(Program[Op]) = 10 /\ (pc = 1 => Now = Press("run"))
         /\ (pc = 2 => Now = Step("text", N, N)) /\ (pc = 3 => Now = Step("read", 4, 0))
         /\ (pc = 4 => Now = Step("read", 5, 0)) /\ (pc = 5 => Now = Step("read", 6, 0))
         /\ (pc = 6 => Now = Step("remove", 4, 0)) /\ (pc = 7 => Now = Step("was", 4, 5))
         /\ (pc = 8 => Now = Step("was", 5, 6)) /\ (pc = 9 => Now = Step("count", 0, N - 1))
         /\ (pc = 10 => Now = Step("gone", 4, 5))
  <1>1. Program[6] = Remove1k
    BY DEF Program
  <1>2. /\ Len(Remove1k) = 10 /\ Remove1k[1] = Press("run") /\ Remove1k[2] = Step("text", N, N)
        /\ Remove1k[3] = Step("read", 4, 0) /\ Remove1k[4] = Step("read", 5, 0)
        /\ Remove1k[5] = Step("read", 6, 0) /\ Remove1k[6] = Step("remove", 4, 0)
        /\ Remove1k[7] = Step("was", 4, 5) /\ Remove1k[8] = Step("was", 5, 6)
        /\ Remove1k[9] = Step("count", 0, N - 1) /\ Remove1k[10] = Step("gone", 4, 5)
    BY DEF Remove1k, Filled, Reads
  <1> QED
    BY <1>1, <1>2 DEF Now

\* The steps of operation 7 (create), one by one.
LEMMA Now7 ==
  ASSUME Op = 7
  PROVE  /\ Len(Program[Op]) = 4 /\ (pc = 1 => Now = Press("runlots"))
         /\ (pc = 2 => Now = Step("bigcount", 0, LotsN))
         /\ (pc = 3 => Now = Step("anchor", LotsN, 0))
         /\ (pc = 4 => Now = Step("text", LotsN, LotsN))
  BY DEF Program, Now, Create10k

\* The steps of operation 8 (append), one by one.
LEMMA Now8 ==
  ASSUME Op = 8
  PROVE  /\ Len(Program[Op]) = 7 /\ (pc = 1 => Now = Press("run"))
         /\ (pc = 2 => Now = Step("text", N, N)) /\ (pc = 3 => Now = Press("add"))
         /\ (pc = 4 => Now = Step("bigcount", 0, 2 * N))
         /\ (pc = 5 => Now = Step("text", N + 1, N + 1))
         /\ (pc = 6 => Now = Step("text", 2 * N, 2 * N)) /\ (pc = 7 => Now = Step("text", 1, 1))
  <1>1. Program[8] = Create1kAfter1k
    BY DEF Program
  <1>2. /\ Len(Create1kAfter1k) = 7 /\ Create1kAfter1k[1] = Press("run")
        /\ Create1kAfter1k[2] = Step("text", N, N) /\ Create1kAfter1k[3] = Press("add")
        /\ Create1kAfter1k[4] = Step("bigcount", 0, 2 * N)
        /\ Create1kAfter1k[5] = Step("text", N + 1, N + 1)
        /\ Create1kAfter1k[6] = Step("text", 2 * N, 2 * N)
        /\ Create1kAfter1k[7] = Step("text", 1, 1)
    BY DEF Create1kAfter1k, Filled
  <1> QED
    BY <1>1, <1>2 DEF Now

\* The steps of operation 9 (clear), one by one.
LEMMA Now9 ==
  ASSUME Op = 9
  PROVE  /\ Len(Program[Op]) = 4 /\ (pc = 1 => Now = Press("run"))
         /\ (pc = 2 => Now = Step("text", N, N)) /\ (pc = 3 => Now = Press("clear"))
         /\ (pc = 4 => Now = Step("count", 0, 0))
  <1>1. Program[9] = Clear1k
    BY DEF Program
  <1>2. /\ Len(Clear1k) = 4 /\ Clear1k[1] = Press("run") /\ Clear1k[2] = Step("text", N, N)
        /\ Clear1k[3] = Press("clear") /\ Clear1k[4] = Step("count", 0, 0)
    BY DEF Clear1k, Filled
  <1> QED
    BY <1>1, <1>2 DEF Now

\* The steps of operation 10 (html structure), one by one.
LEMMA Now10 ==
  ASSUME Op = 10
  PROVE  /\ Len(Program[Op]) = 5 /\ (pc = 1 => Now = Press("add"))
         /\ (pc = 2 => Now = Step("text", N, N)) /\ (pc = 3 => Now = Step("probe", N, 0))
         /\ (pc = 4 => Now = Step("present", 0, 0)) /\ (pc = 5 => Now = Step("built", 0, 0))
  BY DEF Program, Now, HtmlStructure

\* The steps of operation 11 (keyedness), one by one.
LEMMA Now11 ==
  ASSUME Op = 11
  PROVE  /\ Len(Program[Op]) = 22 /\ (pc = 1 => Now = Press("add"))
         /\ (pc = 2 => Now = Step("text", N, N)) /\ (pc = 3 => Now = Press("install"))
         /\ (pc = 4 => Now = Press("observable")) /\ (pc = 5 => Now = Press("store"))
         /\ (pc = 6 => Now = Press("swaprows")) /\ (pc = 7 => Now = Step("text", 2, N - 1))
         /\ (pc = 8 => Now = Press("result")) /\ (pc = 9 => Now = Press("keyedswap"))
         /\ (pc = 10 => Now = Press("store")) /\ (pc = 11 => Now = Press("reset"))
         /\ (pc = 12 => Now = Press("run")) /\ (pc = 13 => Now = Step("text", N, 2 * N))
         /\ (pc = 14 => Now = Press("result")) /\ (pc = 15 => Now = Step("keyedrun", 0, N))
         /\ (pc = 16 => Now = Press("store")) /\ (pc = 17 => Now = Press("reset"))
         /\ (pc = 18 => Now = Step("text", 2, N + 2))
         /\ (pc = 19 => Now = Step("remove", 2, 0))
         /\ (pc = 20 => Now = Step("text", 2, N + 3)) /\ (pc = 21 => Now = Press("result"))
         /\ (pc = 22 => Now = Press("keyedremove"))
  BY DEF Program, Now, Keyedness

\* A step of the closer after which the operation goes on.
Goes ==
    /\ pc # Len(Program[Op]) /\ pc' = pc + 1 /\ ~found'
    /\ UNCHANGED <<target, results, rows, nextId, nodes>>
    /\ \/ /\ Now.do \in Clicks /\ Present
          /\ pending' = Append(pending, G(Now.do, Now.row)) /\ UNCHANGED <<saved, kd>>
       \/ Now.do \in Polled /\ Answer /\ UNCHANGED <<pending, saved, kd>>
       \/ Now.do \in Judged /\ Holds /\ UNCHANGED <<pending, saved, kd>>
       \/ /\ Now.do = "read" /\ Has(Now.row)
          /\ saved' = [saved EXCEPT !.pre[Now.row] = rows[Now.row].id] /\ UNCHANGED <<pending, kd>>
       \/ Now.do \in Silent /\ Evaluate

\* One that looks again, or has seen what it will click.
Idles ==
    /\ UNCHANGED <<target, results, pc, saved, rows, nextId, nodes, pending, kd>>
    /\ found' => found \/ (Now.do \in Clicks /\ Present)

\* The targets that paint what they are asked to, in time.
OnTime == target \notin {"late", "frozen"}

\* Those of whose verdicts something is said.
Sayable == target # "late"

\* The verdict an operation should get.
Deserved == Op \in ShowsIn(target)

\* The page of the next operation, or of the first.
Fresh == pc = 0 /\ Clean /\ Quiet /\ ~found

\* A deadline passes only when a prompt page has painted everything.
LEMMA ExpiredIsQuiet == ASSUME Expired, Timely, OnTime PROVE Quiet
  <1>1. SUFFICES ASSUME pending # <<>> PROVE FALSE
    BY DEF Quiet
  <1>2. waited < LagNow /\ waited = Patience
    BY <1>1 DEF Expired, MayStillPaint, InNoTime, OnTime
  <1>3. {Polls, BigPolls, Lag, BigLag} \subseteq Nat /\ Lag <= Polls /\ BigLag <= BigPolls
    BY GauntletAssumption
  <1>4. CASE Now.do = "bigcount"
    <2>1. LagNow = BigLag /\ Patience = BigPolls
      BY <1>1, <1>4 DEF Timely, LagNow, Patience
    <2> QED
      BY <1>2, <1>3, <2>1
  <1>5. CASE Now.do # "bigcount"
    <2>1. LagNow = Lag /\ Patience = Polls
      BY <1>1, <1>5 DEF Timely, LagNow, Patience
    <2> QED
      BY <1>2, <1>3, <2>1
  <1> QED
    BY <1>4, <1>5

\* runOp ends with a verdict that is right.
LEMMA EndsRight ==
  ASSUME GauntletInv, VerdictIsTheTargets, Op \in Operations, target' = target,
         NEW last \in {"holds", "violated", "unresolvable"}, NEW trouble \in BOOLEAN,
         Close(Append(assertions, last), trouble),
         Sayable, ~trouble => (last = "holds" /\ ~Deserved) \/ (last = "violated" /\ Deserved)
  PROVE  Fresh' /\ VerdictIsTheTargets'
  <1> DEFINE bs == Append(assertions, last)
             entry == [verdict |-> Verdict(bs), made |-> Len(bs),
                       broken |-> {i \in DOMAIN bs : bs[i] # "holds"}, trouble |-> trouble]
  <1>1. Verdict(bs) = IF last = "violated" THEN "fail"
                      ELSE IF last = "unresolvable" THEN "cant-tell" ELSE "pass"
    <2>1. assertions \in Seq({"holds"})
      BY DEF GauntletInv, OnCourse
    <2> QED
      BY <2>1, VerdictOf
  <1>2. entry.verdict = Verdict(bs) /\ entry.trouble = trouble
    OBVIOUS
  <1>3. results' = Append(results, entry) /\ Fresh'
    BY DEF Close, Fresh, Clean, Quiet
  <1> HIDE DEF bs, entry
  <1>4. results \in Seq(ResultRec)
    BY DEF GauntletInv, ResultsKept
  <1>5. /\ Op = Len(results) + 1
        /\ \A k \in DOMAIN results' : (k \in DOMAIN results /\ results'[k] = results[k]) \/ (k = Op /\ results'[k] = entry)
    BY <1>3, <1>4, AppendIs DEF Op
  <1>6. ~entry.trouble => entry.verdict = IF Op \in ShowsIn(target) THEN "fail" ELSE "pass"
    BY <1>1, <1>2 DEF Deserved
  <1>7. VerdictIsTheTargets'
    <2>1. SUFFICES ASSUME NEW k \in DOMAIN results', ~results'[k].trouble
                   PROVE  results'[k].verdict = IF k \in ShowsIn(target) THEN "fail" ELSE "pass"
      BY ProgramsEnd DEF VerdictIsTheTargets, ShowsIn, FailsAt
    <2> QED
      BY <1>5, <1>6, <2>1 DEF VerdictIsTheTargets, Sayable
  <1> QED
    BY <1>3, <1>7

\* A page on time fails where its fault shows.
LEMMA OnTimeIs == ASSUME OnTime PROVE Sayable /\ (Deserved <=> Fails)
  BY DEF OnTime, Sayable, Deserved, Fails, ShowsIn

\* Close, however record comes to it.
LEMMA RecordRight ==
  ASSUME GauntletInv, VerdictIsTheTargets, OnTime, InProgram, target' = target,
         NEW status \in {"holds", "violated"}, Record(status),
         status = "violated" => Fails, status = "holds" /\ pc = Len(Program[Op]) => ~Fails
  PROVE  \/ Fresh' /\ VerdictIsTheTargets'
         \/ /\ status = "holds" /\ pc # Len(Program[Op]) /\ pc' = pc + 1 /\ ~found'
            /\ UNCHANGED <<results, rows, nextId, nodes, pending, saved, kd>>
  <1>1. Op \in Operations /\ pc \in 1..Len(Program[Op]) /\ Len(Program[Op]) \in Nat
    BY NowIs
  <1>2. CASE status = "violated" \/ pc = Len(Program[Op])
    <2>1. Close(Append(assertions, status), FALSE)
      BY <1>2 DEF Record, Advance
    <2> QED
      BY <1>1, <1>2, <2>1, EndsRight, OnTimeIs
  <1>3. CASE status = "holds" /\ pc # Len(Program[Op])
    <2>1. pc < Len(Program[Op])
      BY <1>1, <1>3
    <2> QED
      BY <1>3, <2>1 DEF Record, Advance, page
  <1> QED
    BY <1>2, <1>3

\* What a step of the closer does when its verdict is just.
LEMMA CloserMoves ==
  ASSUME GauntletInv, VerdictIsTheTargets, OnTime, Just,
         Click \/ Poll \/ Read \/ Evaluate \/ Judge
  PROVE  \/ Fresh' /\ VerdictIsTheTargets'
         \/ Goes \/ Idles
  <1>0. InProgram /\ target' = target /\ Op \in Operations
    BY DEF Click, Poll, Read, Evaluate, Judge, InProgram
  <1>6. Now.do \in Clicks \cup Silent \cup {"read"} => pc # Len(Program[Op])
    BY <1>0, NowIs DEF Clicks, Polled, Silent, Judged
  <1>1. ASSUME Sleep PROVE Idles
    BY <1>0, <1>1 DEF Sleep, Idles, page
  <1>2. CASE Click
    <2>1. Now.do \in Clicks
      BY <1>2 DEF Click
    <2>2. CASE found' = TRUE /\ Present /\ UNCHANGED <<results, pc, waited, assertions, saved, page, kd>>
      BY <1>0, <2>1, <2>2 DEF Idles, page
    <2>3. CASE Sleep
      BY <1>1, <2>3
    <2>4. CASE ~Present /\ Expired /\ Record("violated")
      <3>1. Fails
        BY <2>1, <2>4, ExpiredIsQuiet DEF Just
      <3>2. (Fresh' /\ VerdictIsTheTargets') \/ "violated" = "holds"
        BY <1>0, <2>4, <3>1, RecordRight
      <3> QED
        BY <3>2
    <2>5. CASE found
      <3>1. Present
        BY <2>1, <2>5 DEF Just
      <3> QED
        BY <1>0, <1>2, <1>6, <2>1, <2>5, <3>1 DEF Click, Goes, G
    <2> QED
      BY <1>2, <2>2, <2>3, <2>4, <2>5 DEF Click
  <1>3. CASE Poll
    <2>1. Now.do \in Polled
      BY <1>3 DEF Poll
    <2>2. CASE Answer /\ Record("holds")
      <3>1. pc = Len(Program[Op]) => ~Fails
        BY <2>1, <2>2 DEF Just
      <3> QED
        BY <1>0, <2>1, <2>2, <3>1, RecordRight DEF Goes
    <2>3. CASE Sleep
      BY <1>1, <2>3
    <2>4. CASE ~Answer /\ Expired /\ Record("violated")
      <3>1. Fails
        BY <2>1, <2>4, ExpiredIsQuiet DEF Just
      <3>2. (Fresh' /\ VerdictIsTheTargets') \/ "violated" = "holds"
        BY <1>0, <2>4, <3>1, RecordRight
      <3> QED
        BY <3>2
    <2> QED
      BY <1>3, <2>2, <2>3, <2>4 DEF Poll
  <1>4. CASE Read
    <2>1. Now.do = "read" /\ Has(Now.row)
      BY <1>4 DEF Read, Just
    <2> QED
      BY <1>0, <1>4, <1>6, <2>1 DEF Read, Goes, page
  <1>5. CASE Evaluate
    BY <1>5, <1>6 DEF Goes, Evaluate, page
  <1>7. CASE Judge
    <2>1. Now.do \in Judged
      BY <1>7 DEF Judge
    <2>2. CASE Holds /\ Record("holds")
      <3>1. pc = Len(Program[Op]) => ~Fails
        BY <2>1, <2>2 DEF Just
      <3> QED
        BY <1>0, <2>1, <2>2, <3>1, RecordRight DEF Goes
    <2>3. CASE ~Holds /\ Record("violated")
      <3>1. Fails
        BY <2>1, <2>3 DEF Just
      <3>2. (Fresh' /\ VerdictIsTheTargets') \/ "violated" = "holds"
        BY <1>0, <2>3, <3>1, RecordRight
      <3> QED
        BY <3>2
    <2> QED
      BY <1>7, <2>2, <2>3 DEF Judge
  <1> QED
    BY <1>2, <1>3, <1>4, <1>5, <1>7

\* The parts of the page that a question leaves alone.
SamePage == UNCHANGED <<pending, saved, kd>>

\* What a step that went on has done, by its kind.
LEMMA Asked ==
  ASSUME Goes, NEW d, NEW r, NEW w, Now = Step(d, r, w)
  PROVE  /\ pc # Len(Program[Op]) /\ pc' = pc + 1 /\ ~found' /\ UNCHANGED <<target, results, rows, nextId, nodes>> /\ Op' = Op
         /\ d \in Clicks => pending' = Append(pending, G(d, r)) /\ UNCHANGED <<saved, kd>>
         /\ d \in Polled => Answer /\ SamePage
         /\ d \in Judged => Holds /\ SamePage
         /\ d = "read" => /\ saved' = [saved EXCEPT !.pre[r] = rows[r].id]
                          /\ UNCHANGED <<pending, kd>>
         /\ d \in Silent => Evaluate /\ pending' = pending
  <1>1. Now.do = d /\ Now.row = r
    BY DEF Step
  <1>2. /\ UNCHANGED <<target, results, rows, nextId, nodes>> /\ pc' = pc + 1 /\ ~found'
        /\ pc # Len(Program[Op])
    BY DEF Goes
  <1>3. Op' = Op
    BY <1>2 DEF Op
  <1>4. \/ d \in Clicks /\ pending' = Append(pending, G(d, r)) /\ UNCHANGED <<saved, kd>>
        \/ d \in Polled /\ Answer /\ SamePage
        \/ d \in Judged /\ Holds /\ SamePage
        \/ d = "read" /\ saved' = [saved EXCEPT !.pre[r] = rows[r].id] /\ UNCHANGED <<pending, kd>>
        \/ d \in Silent /\ Evaluate
    BY <1>1 DEF Goes, SamePage
  <1>5. Evaluate => pending' = pending
    BY DEF Evaluate, page
  <1>6. /\ d \in Clicks => d \notin Polled \cup Judged \cup Silent \cup {"read"}
        /\ d \in Polled => d \notin Clicks \cup Judged \cup Silent \cup {"read"}
        /\ d \in Judged => d \notin Polled \cup Clicks \cup Silent \cup {"read"}
        /\ d \in Silent => d \notin Polled \cup Judged \cup Clicks \cup {"read"}
    BY DEF Clicks, Polled, Silent, Judged
  <1> QED
    BY <1>2, <1>3, <1>4, <1>5, <1>6

\* What the probes ask.
LEMMA AnswerIs ==
  ASSUME NEW d, NEW r, NEW w, Now = Step(d, r, w)
  PROVE  /\ d \in {"count", "bigcount"} => (Answer <=> Len(rows) = w)
         /\ d = "anchor" => (Answer <=> Has(r))
         /\ d = "text" => (Answer <=> Has(r) /\ rows[r].id = w)
         /\ d = "was" => (Answer <=> Has(r) /\ rows[r].id = saved.pre[w])
         /\ d = "marked" => (Answer <=> Has(r) /\ rows[r].mark)
         /\ d = "unmarked" => (Answer <=> Has(r) /\ ~rows[r].mark)
         /\ d = "danger" => (Answer <=> Has(r) /\ rows[r].danger)
         /\ d = "dangers" => (Answer <=> Cardinality({i \in DOMAIN rows : rows[i].danger}) = w)
  <1>1. Now.do = d /\ Now.row = r /\ Now.want = w
    BY DEF Step
  <1> QED
    BY <1>1 DEF Answer

\* What is judged of values read before, question by question.
LEMMA HoldsIs ==
  ASSUME NEW d, NEW r, NEW w, Now = Step(d, r, w)
  PROVE  /\ d = "gone" => (Holds <=> saved.pre[4] # saved.pre[5])
         /\ d = "present" => (Holds <=> saved.probe # "absent")
         /\ d = "built" => (Holds <=> saved.probe = "golden")
         /\ d = "observable" => (Holds <=> kd.on)
         /\ d = "keyedswap" => (Holds <=> /\ saved.got.added # {} /\ saved.got.removed # {}
                                          /\ saved.got.added \subseteq saved.got.removed)
         /\ d = "keyedrun" => (Holds <=> /\ Cardinality(saved.got.added) >= w
                                         /\ Cardinality(saved.got.removed) >= w)
         /\ d = "keyedremove" => (Holds <=> saved.got.stored \in saved.got.removed)
  <1>1. Now.do = d /\ Now.row = r /\ Now.want = w
    BY DEF Step
  <1> QED
    BY <1>1 DEF Holds

\* What makes a step's verdict just, by its kind.
LEMMA JustIf ==
  ASSUME NEW d, NEW r, NEW w, Now = Step(d, r, w), Timely
  PROVE  /\ d \in Clicks /\ (r = 0 \/ Has(r)) /\ (target # "buttonless" \/ d # "clear") => Just
         /\ d \in Clicks /\ (found => Present) /\ (Quiet /\ ~Present => Fails) => Just
         /\ d = "read" /\ Has(r) => Just
         /\ d \in Silent => Just
         /\ d \in Polled /\ (Answer /\ pc = Len(Program[Op]) => ~Fails) /\ (~Answer /\ Quiet => Fails) => Just
         /\ d \in Judged /\ (Holds /\ pc = Len(Program[Op]) => ~Fails) /\ (~Holds => Fails) => Just
  <1>1. Now.do = d /\ Now.row = r
    BY DEF Step
  <1>2. d \in Clicks /\ (r = 0 \/ Has(r)) /\ (target # "buttonless" \/ d # "clear") => Present
    BY <1>1 DEF Present
  <1> HIDE DEF Timely
  <1> QED
    BY <1>1, <1>2 DEF Just, Clicks, Polled, Silent, Judged

\* A deadline is fair when nothing is to be painted, or what is to be is as slow as
\* the question is patient.
LEMMA TimelyIf ==
  /\ Quiet => Timely
  /\ \A d, r : Waits(<<G(d, r)>>) /\ (Slow(G(d, r)) <=> Now.do = "bigcount") => Timely
  /\ \A d, r : (d \notin {"runlots", "filllots"} /\ (d # "add" \/ rows = <<>>)) => ~Slow(G(d, r))
  <1>1. Quiet => Timely
    BY DEF Quiet, Timely
  <1>2. ASSUME NEW d, NEW r, Waits(<<G(d, r)>>), Slow(G(d, r)) <=> Now.do = "bigcount"
        PROVE  Timely
    <2>1. DOMAIN pending = {1} /\ pending[1] = G(d, r)
      BY <1>2 DEF Waits
    <2> QED
      BY <1>2, <2>1 DEF Timely
  <1>3. \A d, r : (d \notin {"runlots", "filllots"} /\ (d # "add" \/ rows = <<>>)) => ~Slow(G(d, r))
    BY DEF Slow, G
  <1> QED
    BY <1>1, <1>2, <1>3

\* What the observer comes to know of a frame.
Sees(in, out) ==
    /\ kd'.on = kd.on /\ kd'.stored = kd.stored
    /\ kd'.added = IF kd.on THEN kd.added \cup in ELSE kd.added
    /\ kd'.removed = IF kd.on THEN kd.removed \cup out ELSE kd.removed

Frame == UNCHANGED <<target, results, pc, found, saved>> /\ Op' = Op

\* What a frame leaves alone, and what the observer sees of it.
LEMMA PaintedIs ==
  ASSUME GauntletInv, NEW rs, NEW in, NEW out, NEW rest, Painted(rs, in, out, rest)
  PROVE  rows' = rs /\ pending' = rest \o Tail(pending) /\ Frame /\ Sees(in, out)
  <1>1. kd \in [on : BOOLEAN, added : SUBSET (1..nodes), removed : SUBSET (1..nodes), stored : Nat]
    BY DEF GauntletInv, PageKept
  <1>2. Sees(in, out)
    BY <1>1 DEF Painted, Sees
  <1> QED
    BY <1>2 DEF Painted, Frame, Op

\* A frame is one of the first gesture.
LEMMA FrameOf ==
  ASSUME Paint, NEW d, NEW r, Head(pending) = G(d, r)
  PROVE  /\ d = "run" => Emptied(G(d, r)) \/ Recycled(G(d, r))
         /\ d \in {"runlots", "clear"} => Emptied(G(d, r))
         /\ d \in {"fill", "filllots", "add"} => Grown(G(d, r))
         /\ d = "update" => Updated(G(d, r))
         /\ d = "label" => Chosen(G(d, r))
         /\ d = "swaprows" => Swapped(G(d, r)) \/ SwappedInPlace(G(d, r))
         /\ d = "swapback" => Swapped(G(d, r))
         /\ d = "remove" => Removed(G(d, r))
  <1> DEFINE g == G(d, r)
  <1>1. \/ Emptied(g) \/ Recycled(g) \/ Grown(g) \/ Updated(g) \/ Chosen(g)
        \/ Swapped(g) \/ SwappedInPlace(g) \/ Removed(g)
    BY DEF Paint
  <1>2. g.do = d
    BY DEF G
  <1> HIDE DEF g
  <1>3. /\ Emptied(g) => d \in {"run", "runlots", "clear"}
        /\ Recycled(g) => d = "run"
        /\ Grown(g) => d \in {"fill", "filllots", "add"}
        /\ Updated(g) => d = "update"
        /\ Chosen(g) => d = "label"
        /\ Swapped(g) => d \in {"swaprows", "swapback"}
        /\ SwappedInPlace(g) => d = "swaprows"
        /\ Removed(g) => d = "remove"
    BY <1>2 DEF Emptied, Recycled, Grown, Updated, Chosen, Swapped, SwappedInPlace, Removed
  <1> QED
    BY <1>1, <1>3 DEF g

\* A sequence put after another.
LEMMA JoinIs ==
  ASSUME NEW S, NEW s \in Seq(S), NEW t \in Seq(S), NEW m, m = Len(s)
  PROVE  /\ Len(s \o t) = m + Len(t)
         /\ \A i \in 1..m : (s \o t)[i] = s[i]
         /\ \A i \in 1..Len(t) : (s \o t)[m + i] = t[i]
  BY ConcatProperties

\* Two sequences, one after the other, without a name for the first one's length.
LEMMA JoinedIs ==
  ASSUME NEW S, NEW s \in Seq(S), NEW t \in Seq(S)
  PROVE  /\ Len(s \o t) = Len(s) + Len(t)
         /\ \A i \in 1..Len(s) : (s \o t)[i] = s[i]
         /\ \A i \in 1..Len(t) : (s \o t)[Len(s) + i] = t[i]
  BY JoinIs

\* A single gesture waits.
LEMMA OneWaits ==
  ASSUME NEW g, Waits(<<g>>)
  PROVE  /\ Head(pending) = g /\ <<>> \o Tail(pending) = <<>>
         /\ \A h : <<h>> \o Tail(pending) = <<h>>
  <1>1. Tail(pending) = <<>> /\ Head(pending) = g
    BY DEF Waits
  <1>2. <<>> \o <<>> = <<>>
    OBVIOUS
  <1>3. ASSUME NEW h PROVE <<h>> \o <<>> = <<h>>
    <2>1. <<h>> \in Seq({h})
      OBVIOUS
    <2> QED
      BY <2>1, ConcatEmptySeq
  <1> QED
    BY <1>1, <1>2, <1>3, Zenon

\* The first frame of a run.
LEMMA RunPaints ==
  ASSUME GauntletInv, Paint, Waits(<<G("run", 0)>>)
  PROVE  /\ Frame /\ nodes' = nodes
         /\ (target # "appending" /\ target # "recycling") \/ rows = <<>> =>
              /\ rows' = <<>> /\ Waits(<<G("fill", 0)>>)' /\ Sees({}, NodesOf(rows))
              /\ nextId' = IF target = "renumbering" THEN 1 ELSE nextId
         /\ target = "appending" => rows' = rows /\ Waits(<<G("fill", 0)>>)'
         /\ target = "recycling" /\ rows # <<>> =>
              /\ Len(rows') = Len(rows) /\ \A i \in 1..Len(rows) : rows'[i].id = nextId + i - 1
              /\ Quiet' /\ Sees({}, {})
  <1>1. Head(pending) = G("run", 0) /\ <<>> \o Tail(pending) = <<>> /\ \A h : <<h>> \o Tail(pending) = <<h>>
    BY OneWaits
  <1>2. Emptied(G("run", 0)) \/ Recycled(G("run", 0))
    BY <1>1, FrameOf
  <1>3. G("run", 0).do = "run" /\ [do |-> "fill", row |-> 0] = G("fill", 0)
    BY DEF G
  <1>4. CASE Emptied(G("run", 0))
    <2> DEFINE kept == IF target = "appending" THEN rows ELSE <<>>
    <2>1. /\ ~(target = "recycling" /\ rows # <<>>) /\ nodes' = nodes
          /\ Painted(kept, {}, NodesOf(rows) \ NodesOf(kept), <<G("fill", 0)>>)
          /\ nextId' = IF target = "renumbering" THEN 1 ELSE nextId
      BY <1>3, <1>4 DEF Emptied
    <2> HIDE DEF kept
    <2>2. rows' = kept /\ pending' = <<G("fill", 0)>> \o Tail(pending) /\ Frame
          /\ Sees({}, NodesOf(rows) \ NodesOf(kept))
      BY <2>1, PaintedIs
    <2>3. NodesOf(<<>>) = {}
      BY DEF NodesOf
    <2>4. target # "appending" \/ rows = <<>> => kept = <<>> /\ NodesOf(rows) \ NodesOf(kept) = NodesOf(rows)
      BY <2>3 DEF kept
    <2>5. target = "appending" => kept = rows
      BY DEF kept
    <2> QED
      BY <1>1, <2>1, <2>2, <2>4, <2>5 DEF Waits
  <1>5. CASE Recycled(G("run", 0))
    <2> DEFINE rs == [i \in DOMAIN rows |-> [rows[i] EXCEPT !.id = nextId + i - 1]]
    <2>1. Painted(rs, {}, {}, <<>>) /\ target = "recycling" /\ rows # <<>> /\ nodes' = nodes
      BY <1>5 DEF Recycled
    <2>2. rows' = rs /\ pending' = <<>> \o Tail(pending) /\ Frame /\ Sees({}, {})
      BY <2>1, PaintedIs
    <2>3. Len(rows) \in Nat /\ DOMAIN rows = 1..Len(rows) /\ \A i \in DOMAIN rows : rows[i] \in TrOf(nodes)
      BY RowsAre
    <2>4. Len(rs) = Len(rows) /\ \A i \in 1..Len(rows) : rs[i].id = nextId + i - 1
      BY <2>3 DEF TrOf
    <2> HIDE DEF rs
    <2> QED
      BY <1>1, <2>1, <2>2, <2>4 DEF Quiet
  <1> QED
    BY <1>2, <1>4, <1>5

\* Rows that are made.
LEMMA NewIs ==
  ASSUME NEW n \in Nat, GauntletInv
  PROVE  /\ New(n) \in Seq(Tr) /\ Len(New(n)) = n
         /\ \A i \in 1..n : /\ New(n)[i].id = nextId + i - 1 /\ New(n)[i].node = nodes + i
                            /\ ~New(n)[i].mark /\ ~New(n)[i].danger
         /\ NodesOf(New(n)) = (nodes + 1)..(nodes + n)
  <1>1. nodes \in Nat /\ nextId \in Nat
    BY RowsAre
  <1>2. New(n) \in [1..n -> Tr] /\ Len(New(n)) = n /\ DOMAIN New(n) = 1..n
    BY <1>1 DEF New, Tr
  <1>3. \A i \in 1..n : /\ New(n)[i].id = nextId + i - 1 /\ New(n)[i].node = nodes + i
                        /\ ~New(n)[i].mark /\ ~New(n)[i].danger
    BY DEF New
  <1>4. New(n) \in Seq(Tr)
    BY <1>2
  <1> HIDE DEF New
  <1>5. NodesOf(New(n)) = {nodes + i : i \in 1..n}
    BY <1>2, <1>3 DEF NodesOf
  <1>6. {nodes + i : i \in 1..n} = (nodes + 1)..(nodes + n)
    <2>1. ASSUME NEW m \in (nodes + 1)..(nodes + n) PROVE m - nodes \in 1..n /\ m = nodes + (m - nodes)
      BY <1>1
    <2>2. \A i \in 1..n : nodes + i \in (nodes + 1)..(nodes + n)
      BY <1>1
    <2> QED
      BY <2>1, <2>2
  <1> QED
    BY <1>2, <1>3, <1>4, <1>5, <1>6

\* Rows put before or after those there are.
LEMMA GrownIs ==
  ASSUME GauntletInv, Paint, NEW d \in {"fill", "filllots", "add"}, Waits(<<G(d, 0)>>),
         NEW n, n = IF d = "filllots" /\ target # "stopsshort" THEN LotsN ELSE N
  PROVE  /\ Frame /\ Quiet' /\ nextId' = nextId + n /\ nodes' = nodes + n
         /\ Sees((nodes + 1)..(nodes + n), {}) /\ Len(rows') = Len(rows) + n
         /\ rows = <<>> => \A i \in 1..n : /\ rows'[i].id = nextId + i - 1 /\ rows'[i].node = nodes + i
                                           /\ ~rows'[i].mark /\ ~rows'[i].danger
         /\ target # "prepending" \/ d # "add" =>
              /\ \A i \in 1..Len(rows) : rows'[i] = rows[i]
              /\ \A i \in 1..n : rows'[Len(rows) + i].id = nextId + i - 1
         /\ target = "prepending" /\ d = "add" => \A i \in 1..Len(rows) : rows'[n + i] = rows[i]
  <1>1. Head(pending) = G(d, 0) /\ <<>> \o Tail(pending) = <<>>
    BY OneWaits
  <1>2. Grown(G(d, 0)) /\ G(d, 0).do = d
    BY <1>1, FrameOf DEF G
  <1> DEFINE rs == IF target = "prepending" /\ d = "add" THEN New(n) \o rows ELSE rows \o New(n)
  <1>3. Painted(rs, NodesOf(New(n)), {}, <<>>) /\ nextId' = nextId + n /\ nodes' = nodes + n
    BY <1>2 DEF Grown
  <1> HIDE DEF rs
  <1>4. rows' = rs /\ pending' = <<>> \o Tail(pending) /\ Frame /\ Sees(NodesOf(New(n)), {})
    BY <1>3, PaintedIs
  <1>5. n \in Nat
    BY GauntletAssumption
  <1>6. /\ New(n) \in Seq(Tr) /\ Len(New(n)) = n
        /\ \A i \in 1..n : /\ New(n)[i].id = nextId + i - 1 /\ New(n)[i].node = nodes + i
                           /\ ~New(n)[i].mark /\ ~New(n)[i].danger
        /\ NodesOf(New(n)) = (nodes + 1)..(nodes + n)
    BY <1>5, NewIs
  <1>7. rows \in Seq(Tr) /\ Len(rows) \in Nat
    <2>1. rows \in Seq(TrOf(nodes)) /\ nodes \in Nat
      BY RowsAre
    <2>2. TrOf(nodes) \subseteq Tr
      BY <2>1 DEF TrOf, Tr
    <2> QED
      BY <2>1, <2>2
  <1> HIDE DEF New
  <1>8. /\ Len(rows \o New(n)) = Len(rows) + n
        /\ \A i \in 1..Len(rows) : (rows \o New(n))[i] = rows[i]
        /\ \A i \in 1..n : (rows \o New(n))[Len(rows) + i] = New(n)[i]
        /\ Len(New(n) \o rows) = Len(rows) + n
        /\ \A i \in 1..n : (New(n) \o rows)[i] = New(n)[i]
        /\ \A i \in 1..Len(rows) : (New(n) \o rows)[n + i] = rows[i]
    <2>1. rows \in Seq(Tr) /\ New(n) \in Seq(Tr)
      BY <1>6, <1>7
    <2>2. /\ Len(rows \o New(n)) = Len(rows) + Len(New(n))
          /\ \A i \in 1..Len(rows) : (rows \o New(n))[i] = rows[i]
          /\ \A i \in 1..Len(New(n)) : (rows \o New(n))[Len(rows) + i] = New(n)[i]
      BY <2>1, JoinedIs
    <2>3. /\ Len(New(n) \o rows) = Len(New(n)) + Len(rows)
          /\ \A i \in 1..Len(New(n)) : (New(n) \o rows)[i] = New(n)[i]
          /\ \A i \in 1..Len(rows) : (New(n) \o rows)[Len(New(n)) + i] = rows[i]
      BY <2>1, JoinedIs
    <2>4. Len(New(n)) = n
      BY <1>6
    <2>5. Len(rows) + n = n + Len(rows)
      BY <1>5, <1>7
    <2> QED
      BY <2>2, <2>3, <2>4, <2>5
  <1>9. rows = <<>> => Len(rows) = 0 /\ rs = New(n)
    <2>1. <<>> \o New(n) = New(n) /\ New(n) \o <<>> = New(n)
      BY <1>6, ConcatEmptySeq
    <2> QED
      BY <2>1 DEF rs
  <1>10. Len(rs) = Len(rows) + n
    BY <1>8 DEF rs
  <1>11. target # "prepending" \/ d # "add" => rs = rows \o New(n)
    BY DEF rs
  <1>12. target = "prepending" /\ d = "add" => rs = New(n) \o rows
    BY DEF rs
  <1>13. target # "prepending" \/ d # "add" =>
              /\ \A i \in 1..Len(rows) : rs[i] = rows[i]
              /\ \A i \in 1..n : rs[Len(rows) + i].id = nextId + i - 1
    BY <1>6, <1>8, <1>11
  <1>14. target = "prepending" /\ d = "add" => \A i \in 1..Len(rows) : rs[n + i] = rows[i]
    BY <1>8, <1>12
  <1>15. rows = <<>> => \A i \in 1..n : /\ rs[i].id = nextId + i - 1 /\ rs[i].node = nodes + i
                                        /\ ~rs[i].mark /\ ~rs[i].danger
    BY <1>6, <1>9
  <1>16. Quiet' /\ Sees((nodes + 1)..(nodes + n), {})
    BY <1>1, <1>4, <1>6 DEF Quiet
  <1> QED
    BY <1>3, <1>4, <1>10, <1>13, <1>14, <1>15, <1>16, Zenon

\* What taking one element out, or putting one in, leaves where.
LEMMA TakenIs ==
  ASSUME NEW S, NEW s \in Seq(S), NEW n \in 1..Len(s)
  PROVE  /\ RemoveAt(s, n) \in Seq(S) /\ Len(RemoveAt(s, n)) = Len(s) - 1
         /\ \A i \in 1..(Len(s) - 1) : RemoveAt(s, n)[i] = IF i < n THEN s[i] ELSE s[i + 1]
  <1> DEFINE u == SubSeq(s, 1, n - 1)
             v == SubSeq(s, n + 1, Len(s))
  <1>1. Len(s) \in Nat /\ n \in Nat /\ n >= 1 /\ n <= Len(s)
    OBVIOUS
  <1>2. u \in Seq(S) /\ Len(u) = n - 1 /\ \A i \in 1..(n - 1) : u[i] = s[i]
    BY <1>1
  <1>3. v \in Seq(S) /\ Len(v) = Len(s) - n /\ \A i \in 1..(Len(s) - n) : v[i] = s[n + i]
    BY <1>1
  <1>4. RemoveAt(s, n) = u \o v
    BY DEF RemoveAt
  <1> HIDE DEF u, v
  <1>5. /\ u \o v \in Seq(S) /\ Len(u \o v) = Len(u) + Len(v)
        /\ \A i \in 1..(Len(u) + Len(v)) : (u \o v)[i] = IF i <= Len(u) THEN u[i] ELSE v[i - Len(u)]
    BY <1>2, <1>3, ConcatProperties
  <1>6. ASSUME NEW i \in 1..(Len(s) - 1)
        PROVE  (u \o v)[i] = IF i < n THEN s[i] ELSE s[i + 1]
    <2>1. i \in 1..(Len(u) + Len(v)) /\ i \in Nat
      BY <1>1, <1>2, <1>3
    <2>2. CASE i < n
      BY <1>1, <1>2, <1>5, <2>1, <2>2
    <2>3. CASE ~(i < n)
      <3>1. i - (n - 1) \in 1..(Len(s) - n) /\ n + (i - (n - 1)) = i + 1
        BY <1>1, <2>1, <2>3
      <3>2. (u \o v)[i] = v[i - (n - 1)]
        BY <1>1, <1>2, <1>5, <2>1, <2>3
      <3>3. v[i - (n - 1)] = s[i + 1]
        BY <1>3, <3>1
      <3> QED
        BY <2>3, <3>2, <3>3
    <2> QED
      BY <2>2, <2>3
  <1> QED
    BY <1>1, <1>2, <1>3, <1>4, <1>5, <1>6

\* A row put in at its place.
LEMMA PutIs ==
  ASSUME NEW S, NEW s \in Seq(S), NEW e \in S, NEW m, m = Len(s) + 1, NEW n \in 1..m
  PROVE  /\ InsertAt(s, n, e) \in Seq(S) /\ Len(InsertAt(s, n, e)) = m
         /\ \A i \in 1..m :
              InsertAt(s, n, e)[i] = IF i < n THEN s[i] ELSE IF i = n THEN e ELSE s[i - 1]
  <1> DEFINE u == SubSeq(s, 1, n - 1)
             v == SubSeq(s, n, Len(s))
             w == u \o <<e>>
  <1>1. Len(s) \in Nat /\ n \in Nat /\ n >= 1 /\ n <= Len(s) + 1
    OBVIOUS
  <1>2. u \in Seq(S) /\ Len(u) = n - 1 /\ \A i \in 1..(n - 1) : u[i] = s[i]
    BY <1>1
  <1>3. v \in Seq(S) /\ Len(v) = Len(s) - n + 1 /\ \A i \in 1..(Len(s) - n + 1) : v[i] = s[n - 1 + i]
    BY <1>1
  <1>4. InsertAt(s, n, e) = w \o v
    BY DEF InsertAt
  <1>5. <<e>> \in Seq(S) /\ Len(<<e>>) = 1 /\ <<e>>[1] = e
    OBVIOUS
  <1> HIDE DEF u, v
  <1>6. /\ w \in Seq(S) /\ Len(w) = Len(u) + 1
        /\ \A i \in 1..(Len(u) + 1) : w[i] = IF i <= Len(u) THEN u[i] ELSE <<e>>[i - Len(u)]
    BY <1>2, <1>5, ConcatProperties
  <1> HIDE DEF w
  <1>7. /\ w \o v \in Seq(S) /\ Len(w \o v) = Len(w) + Len(v)
        /\ \A i \in 1..(Len(w) + Len(v)) : (w \o v)[i] = IF i <= Len(w) THEN w[i] ELSE v[i - Len(w)]
    BY <1>3, <1>6, ConcatProperties, Zenon
  <1>8. ASSUME NEW i \in 1..(Len(s) + 1)
        PROVE  (w \o v)[i] = IF i < n THEN s[i] ELSE IF i = n THEN e ELSE s[i - 1]
    <2>0. i \in Nat /\ Len(w) = n
      BY <1>1, <1>2, <1>6
    <2>1. i \in 1..(Len(w) + Len(v)) /\ i \in Nat /\ Len(w) = n
      BY <1>1, <1>3, <2>0
    <2>2. CASE i < n
      <3>1. (w \o v)[i] = w[i]
        BY <1>1, <1>7, <2>1, <2>2
      <3>2. w[i] = u[i]
        BY <1>1, <1>2, <1>6, <2>1, <2>2
      <3> QED
        BY <1>1, <1>2, <2>1, <2>2, <3>1, <3>2
    <2>3. CASE i = n
      <3>1. (w \o v)[i] = w[i]
        BY <1>1, <1>7, <2>1, <2>3
      <3>2. w[i] = <<e>>[1]
        BY <1>1, <1>2, <1>6, <2>1, <2>3
      <3> QED
        BY <1>1, <1>5, <2>3, <3>1, <3>2
    <2>4. CASE i > n
      <3>1. (w \o v)[i] = v[i - n]
        BY <1>1, <1>7, <2>1, <2>4
      <3>2. i - n \in 1..(Len(s) - n + 1) /\ n - 1 + (i - n) = i - 1
        BY <1>1, <2>1, <2>4
      <3>3. v[i - n] = s[i - 1]
        BY <1>3, <3>2
      <3> QED
        BY <1>1, <2>1, <2>4, <3>1, <3>3
    <2> QED
      BY <1>1, <2>1, <2>2, <2>3, <2>4
  <1> QED
    BY <1>1, <1>2, <1>3, <1>4, <1>6, <1>7, <1>8

\* A row put in at its place, without a name for the new length.
LEMMA InsertedIs ==
  ASSUME NEW S, NEW s \in Seq(S), NEW e \in S, NEW n \in 1..(Len(s) + 1)
  PROVE  /\ Len(InsertAt(s, n, e)) = Len(s) + 1
         /\ \A i \in 1..(Len(s) + 1) :
              InsertAt(s, n, e)[i] = IF i < n THEN s[i] ELSE IF i = n THEN e ELSE s[i - 1]
  BY PutIs

\* One element moved from `from` to `to`.
LEMMA MovedIs ==
  ASSUME NEW S, NEW s \in Seq(S), NEW from \in 1..Len(s), NEW to \in 1..Len(s), NEW t,
         t = InsertAt(RemoveAt(s, from), to, s[from])
  PROVE  /\ Len(t) = Len(s) /\ t[to] = s[from]
         /\ \A i \in 1..Len(s) :
              /\ i < from /\ i < to => t[i] = s[i]
              /\ i > from /\ i > to => t[i] = s[i]
              /\ from <= i /\ i < to => t[i] = s[i + 1]
              /\ to < i /\ i <= from => t[i] = s[i - 1]
  <1> DEFINE r == RemoveAt(s, from)
             e == s[from]
             m == Len(s)
  <1>1. Len(s) \in Nat /\ from \in Nat /\ to \in Nat /\ s[from] \in S
    OBVIOUS
  <1>2. /\ r \in Seq(S) /\ Len(r) = Len(s) - 1
        /\ \A i \in 1..(Len(s) - 1) : r[i] = IF i < from THEN s[i] ELSE s[i + 1]
    BY TakenIs
  <1>3. t = InsertAt(r, to, e) /\ e = s[from] /\ e \in S /\ m = Len(s)
    BY <1>1
  <1>4. m = Len(r) + 1 /\ to \in 1..m
    BY <1>1, <1>2
  <1> HIDE DEF r, e, m
  <1>5. /\ Len(InsertAt(r, to, e)) = m
        /\ \A i \in 1..m : InsertAt(r, to, e)[i] =
             IF i < to THEN r[i] ELSE IF i = to THEN e ELSE r[i - 1]
    <2>1. r \in Seq(S) /\ e \in S
      BY <1>2, <1>3
    <2>2. to \in 1..(Len(r) + 1)
      BY <1>4
    <2>3. /\ Len(InsertAt(r, to, e)) = Len(r) + 1
          /\ \A i \in 1..(Len(r) + 1) : InsertAt(r, to, e)[i] =
               IF i < to THEN r[i] ELSE IF i = to THEN e ELSE r[i - 1]
      BY <2>1, <2>2, InsertedIs
    <2> QED
      BY <1>4, <2>3
  <1>6. /\ Len(t) = Len(s)
        /\ \A i \in 1..Len(s) : t[i] = IF i < to THEN r[i] ELSE IF i = to THEN s[from] ELSE r[i - 1]
    BY <1>3, <1>4, <1>5
  <1>7. ASSUME NEW i \in 1..Len(s)
        PROVE  /\ i < from /\ i < to => t[i] = s[i]
               /\ i > from /\ i > to => t[i] = s[i]
               /\ from <= i /\ i < to => t[i] = s[i + 1]
               /\ to < i /\ i <= from => t[i] = s[i - 1]
    <2>1. i \in Nat /\ 1 <= i /\ i <= Len(s)
      OBVIOUS
    <2>2. i < to => i \in 1..(Len(s) - 1)
      BY <1>1, <2>1
    <2>3. i > to => i - 1 \in 1..(Len(s) - 1) /\ i - 1 + 1 = i
      BY <1>1, <2>1
    <2>4. i < to => t[i] = r[i]
      BY <1>6
    <2>5. i > to => t[i] = r[i - 1]
      BY <1>1, <1>6, <2>1
    <2>6. i < to => r[i] = IF i < from THEN s[i] ELSE s[i + 1]
      BY <1>2, <2>2
    <2>7. i > to => r[i - 1] = IF i - 1 < from THEN s[i - 1] ELSE s[i]
      BY <1>2, <2>3
    <2> QED
      BY <1>1, <2>1, <2>4, <2>5, <2>6, <2>7
  <1>8. t[to] = s[from]
    BY <1>1, <1>6
  <1> QED
    BY <1>6, <1>7, <1>8

\* The first gesture of a list is painted.
LEMMA FirstWaits ==
  ASSUME NEW g, NEW h, Waits(<<g, h>>)
  PROVE  Head(pending) = g /\ <<>> \o Tail(pending) = <<h>>
  <1>1. Tail(pending) = <<h>> /\ Head(pending) = g
    BY DEF Waits
  <1>2. <<h>> \in Seq({h})
    OBVIOUS
  <1>3. <<>> \o <<h>> = <<h>>
    BY <1>2, ConcatEmptySeq
  <1> QED
    BY <1>1, <1>3, Zenon

\* The far row of a swap.
LEMMA FarIs ==
  /\ Far \in Nat /\ 5 < Far /\ Far <= N /\ N \in Nat /\ N >= 7
  /\ target = "swapsother" => Far = N
  /\ target # "swapsother" => Far = N - 1
  BY GauntletAssumption DEF Far

\* The first frame of a swap.
LEMMA SwapPaints ==
  ASSUME GauntletInv, Paint, Waits(<<G("swaprows", 0)>>), target \notin {"rewriting", "recreating"}
  PROVE  /\ Frame /\ UNCHANGED <<nextId, nodes>> /\ Waits(<<G("swapback", 0)>>)'
         /\ Sees({rows[Far].node}, {rows[Far].node}) /\ Len(rows') = Len(rows)
         /\ rows'[2] = rows[Far]
         /\ \A i \in 1..Len(rows) : /\ i = 1 \/ i > Far => rows'[i] = rows[i]
                                    /\ 2 < i /\ i <= Far => rows'[i] = rows[i - 1]
  <1>1. Head(pending) = G("swaprows", 0) /\ \A h : <<h>> \o Tail(pending) = <<h>>
    BY OneWaits
  <1>2. Swapped(G("swaprows", 0)) \/ SwappedInPlace(G("swaprows", 0))
    BY <1>1, FrameOf
  <1>3. G("swaprows", 0).do = "swaprows" /\ [do |-> "swapback", row |-> 0] = G("swapback", 0)
    BY DEF G
  <1> DEFINE t == InsertAt(RemoveAt(rows, Far), 2, rows[Far])
             seen == {rows[Far].node}
  <1>4. Swapped(G("swaprows", 0))
    BY <1>2 DEF SwappedInPlace
  <1>5. Len(rows) >= N /\ Painted(t, seen, seen, <<G("swapback", 0)>>) /\ UNCHANGED <<nextId, nodes>>
    BY <1>3, <1>4 DEF Swapped
  <1> HIDE DEF t, seen
  <1>6. rows' = t /\ pending' = <<G("swapback", 0)>> \o Tail(pending) /\ Frame /\ Sees(seen, seen)
    BY <1>5, PaintedIs
  <1>7. rows \in Seq(TrOf(nodes)) /\ Len(rows) \in Nat
    BY RowsAre
  <1>8. Far \in 1..Len(rows) /\ 2 \in 1..Len(rows)
    BY <1>5, <1>7, FarIs
  <1>9. t = InsertAt(RemoveAt(rows, Far), 2, rows[Far]) /\ seen = {rows[Far].node}
    BY DEF t, seen
  <1>10. /\ Len(t) = Len(rows) /\ t[2] = rows[Far]
         /\ \A i \in 1..Len(rows) :
              /\ i < Far /\ i < 2 => t[i] = rows[i]
              /\ i > Far /\ i > 2 => t[i] = rows[i]
              /\ 2 < i /\ i <= Far => t[i] = rows[i - 1]
    BY <1>7, <1>8, <1>9, MovedIs
  <1>11. \A i \in 1..Len(rows) : (i = 1 => i < Far /\ i < 2) /\ (i > Far => i > 2)
    BY <1>7, FarIs
  <1> QED
    BY <1>1, <1>5, <1>6, <1>9, <1>10, <1>11 DEF Waits

\* The second frame of a swap.
LEMMA BackPaints ==
  ASSUME GauntletInv, Paint, Head(pending) = G("swapback", 0)
  PROVE  /\ Frame /\ UNCHANGED <<nextId, nodes>> /\ pending' = <<>> \o Tail(pending)
         /\ Sees({rows[3].node}, {rows[3].node}) /\ Len(rows') = Len(rows)
         /\ rows'[Far] = rows[3]
         /\ \A i \in 1..Len(rows) : /\ i < 3 \/ i > Far => rows'[i] = rows[i]
                                    /\ 3 <= i /\ i < Far => rows'[i] = rows[i + 1]
  <1>2. Swapped(G("swapback", 0))
    BY FrameOf
  <1>3. G("swapback", 0).do = "swapback"
    BY DEF G
  <1> DEFINE t == InsertAt(RemoveAt(rows, 3), Far, rows[3])
             seen == {rows[3].node}
  <1>5. Len(rows) >= N /\ Painted(t, seen, seen, <<>>) /\ UNCHANGED <<nextId, nodes>>
    BY <1>2, <1>3 DEF Swapped
  <1> HIDE DEF t, seen
  <1>6. rows' = t /\ pending' = <<>> \o Tail(pending) /\ Frame /\ Sees(seen, seen)
    BY <1>5, PaintedIs
  <1>7. rows \in Seq(TrOf(nodes)) /\ Len(rows) \in Nat
    BY RowsAre
  <1>8. Far \in 1..Len(rows) /\ 3 \in 1..Len(rows)
    BY <1>5, <1>7, FarIs
  <1>9. t = InsertAt(RemoveAt(rows, 3), Far, rows[3]) /\ seen = {rows[3].node}
    BY DEF t, seen
  <1>10. /\ Len(t) = Len(rows) /\ t[Far] = rows[3]
         /\ \A i \in 1..Len(rows) :
              /\ i < 3 /\ i < Far => t[i] = rows[i]
              /\ i > 3 /\ i > Far => t[i] = rows[i]
              /\ 3 <= i /\ i < Far => t[i] = rows[i + 1]
    BY <1>7, <1>8, <1>9, MovedIs
  <1>11. \A i \in 1..Len(rows) : (i < 3 => i < Far) /\ (i > Far => i > 3)
    BY <1>7, FarIs
  <1> QED
    BY <1>5, <1>6, <1>9, <1>10, <1>11

\* A swap in place.
LEMMA InPlacePaints ==
  ASSUME GauntletInv, Paint, Waits(<<G("swaprows", 0)>>), target \in {"rewriting", "recreating"}
  PROVE  /\ Frame /\ UNCHANGED nextId /\ Quiet' /\ Len(rows') = Len(rows)
         /\ target = "rewriting" => Sees({}, {}) /\ nodes' = nodes
         /\ target = "recreating" => /\ Sees({nodes + 1, nodes + 2}, {rows[2].node, rows[Far].node})
                                     /\ nodes' = nodes + 2
         /\ rows'[2].id = rows[Far].id /\ rows'[Far].id = rows[2].id
         /\ \A i \in 1..Len(rows) : i # 2 /\ i # Far => rows'[i] = rows[i]
  <1>1. Head(pending) = G("swaprows", 0) /\ <<>> \o Tail(pending) = <<>>
    BY OneWaits
  <1>2. SwappedInPlace(G("swaprows", 0))
    BY <1>1, FrameOf DEF Swapped
  <1> DEFINE new == target = "recreating"
             a == rows[2]
             b == rows[Far]
             x == [b EXCEPT !.node = IF new THEN nodes + 1 ELSE a.node]
             y == [a EXCEPT !.node = IF new THEN nodes + 2 ELSE b.node]
             t == [rows EXCEPT ![2] = x, ![Far] = y]
             in == IF new THEN {nodes + 1, nodes + 2} ELSE {}
             out == IF new THEN {a.node, b.node} ELSE {}
  <1>3. /\ Len(rows) >= N /\ Painted(t, in, out, <<>>) /\ UNCHANGED nextId
        /\ nodes' = IF new THEN nodes + 2 ELSE nodes
    BY <1>2 DEF SwappedInPlace
  <1>4. /\ rows \in Seq(TrOf(nodes)) /\ Len(rows) \in Nat /\ DOMAIN rows = 1..Len(rows)
        /\ \A i \in DOMAIN rows : rows[i] \in TrOf(nodes)
    BY RowsAre
  <1>5. Far \in 1..Len(rows) /\ 2 \in 1..Len(rows) /\ Far # 2
    BY <1>3, <1>4, FarIs
  <1>6. a \in TrOf(nodes) /\ b \in TrOf(nodes)
    BY <1>4, <1>5
  <1>7. x.id = b.id /\ y.id = a.id
    BY <1>6 DEF TrOf
  <1>8. /\ Len(t) = Len(rows) /\ t[2].id = b.id /\ t[Far].id = a.id
        /\ \A i \in 1..Len(rows) : i # 2 /\ i # Far => t[i] = rows[i]
    <2> HIDE DEF x, y, a, b
    <2>1. Len(t) = Len(rows) /\ t[2] = x /\ t[Far] = y
      BY <1>4, <1>5
    <2>2. \A i \in 1..Len(rows) : i # 2 /\ i # Far => t[i] = rows[i]
      BY <1>4, <1>5
    <2> QED
      BY <1>7, <2>1, <2>2
  <1> HIDE DEF t
  <1>9. rows' = t /\ pending' = <<>> \o Tail(pending) /\ Frame /\ Sees(in, out)
    BY <1>3, PaintedIs
  <1>10. target = "rewriting" => ~new
    OBVIOUS
  <1> QED
    BY <1>1, <1>3, <1>8, <1>9, <1>10 DEF Quiet

\* The frame of an update: every Stride-th row is marked.
LEMMA UpdatePaints ==
  ASSUME GauntletInv, Paint, Waits(<<G("update", 0)>>)
  PROVE  /\ Frame /\ Quiet' /\ Len(rows') = Len(rows)
         /\ \A i \in 1..Len(rows) : rows'[i].mark <=> rows[i].mark \/ MarkDue(i)
  <1>1. Head(pending) = G("update", 0) /\ <<>> \o Tail(pending) = <<>>
    BY OneWaits
  <1>2. Updated(G("update", 0))
    BY <1>1, FrameOf
  <1> DEFINE Marks(i) == target = "overmarking" \/ i = 1 \/ (target # "undermarking" /\ (i - 1) % Stride = 0)
             t == [i \in DOMAIN rows |-> [rows[i] EXCEPT !.mark = @ \/ Marks(i)]]
  <1>3. Painted(t, {}, {}, <<>>)
    BY <1>2 DEF Updated
  <1>4. /\ rows \in Seq(TrOf(nodes)) /\ Len(rows) \in Nat /\ DOMAIN rows = 1..Len(rows)
        /\ \A i \in DOMAIN rows : rows[i] \in TrOf(nodes)
    BY RowsAre
  <1>5. \A i \in DOMAIN rows : Marks(i) <=> MarkDue(i)
    BY DEF MarkDue
  <1> HIDE DEF Marks
  <1>6. Len(t) = Len(rows)
    BY <1>4
  <1>7. ASSUME NEW i \in 1..Len(rows) PROVE t[i].mark <=> rows[i].mark \/ Marks(i)
    <2>1. rows[i] \in TrOf(nodes) /\ t[i] = [rows[i] EXCEPT !.mark = rows[i].mark \/ Marks(i)]
      BY <1>4
    <2>2. \A p : [rows[i] EXCEPT !.mark = p].mark = p
      BY <2>1 DEF TrOf
    <2> QED
      BY <2>1, <2>2
  <1> HIDE DEF t
  <1>8. rows' = t /\ pending' = <<>> \o Tail(pending) /\ Frame
    BY <1>3, PaintedIs
  <1> QED
    BY <1>1, <1>4, <1>5, <1>6, <1>7, <1>8 DEF Quiet

\* The frame of a label's click: one row is selected.
LEMMA LabelPaints ==
  ASSUME GauntletInv, Paint, NEW r, Waits(<<G("label", r)>>)
  PROVE  /\ Frame /\ Quiet' /\ Len(rows') = Len(rows)
         /\ \A i \in 1..Len(rows) : rows'[i].danger <=> (i = r \/ (target = "multiselect" /\ rows[i].danger))
  <1>1. Head(pending) = G("label", r) /\ <<>> \o Tail(pending) = <<>>
    BY OneWaits
  <1>2. Chosen(G("label", r)) /\ G("label", r).row = r
    BY <1>1, FrameOf DEF G
  <1> DEFINE t == [i \in DOMAIN rows |->
                     [rows[i] EXCEPT !.danger = i = r \/ (target = "multiselect" /\ @)]]
  <1>3. Painted(t, {}, {}, <<>>)
    BY <1>2 DEF Chosen
  <1>4. /\ rows \in Seq(TrOf(nodes)) /\ Len(rows) \in Nat /\ DOMAIN rows = 1..Len(rows)
        /\ \A i \in DOMAIN rows : rows[i] \in TrOf(nodes)
    BY RowsAre
  <1>6. Len(t) = Len(rows)
    BY <1>4
  <1>7. ASSUME NEW i \in 1..Len(rows)
        PROVE  t[i].danger <=> (i = r \/ (target = "multiselect" /\ rows[i].danger))
    <2> DEFINE p == i = r \/ (target = "multiselect" /\ rows[i].danger)
    <2>1. rows[i] \in TrOf(nodes) /\ t[i] = [rows[i] EXCEPT !.danger = p]
      BY <1>4
    <2>2. \A q : [rows[i] EXCEPT !.danger = q].danger = q
      BY <2>1 DEF TrOf
    <2> QED
      BY <2>1, <2>2
  <1> HIDE DEF t
  <1>8. rows' = t /\ pending' = <<>> \o Tail(pending) /\ Frame
    BY <1>3, PaintedIs
  <1> QED
    BY <1>1, <1>4, <1>6, <1>7, <1>8 DEF Quiet

\* Clear, and what is left of the table then.
LEMMA ClearPaints ==
  ASSUME GauntletInv, Paint, Waits(<<G("clear", 0)>>)
  PROVE  /\ Frame /\ Quiet'
         /\ target # "leavesone" => rows' = <<>>
         /\ target = "leavesone" /\ rows # <<>> => Len(rows') = 1
  <1>1. Head(pending) = G("clear", 0) /\ <<>> \o Tail(pending) = <<>>
    BY OneWaits
  <1>2. Emptied(G("clear", 0)) /\ G("clear", 0).do = "clear"
    BY <1>1, FrameOf DEF G
  <1> DEFINE kept == IF target = "leavesone" /\ rows # <<>> THEN <<Last(rows)>> ELSE <<>>
  <1>3. Painted(kept, {}, NodesOf(rows) \ NodesOf(kept), <<>>)
    BY <1>2 DEF Emptied
  <1>4. target = "leavesone" /\ rows # <<>> => Len(kept) = 1
    OBVIOUS
  <1>5. target # "leavesone" => kept = <<>>
    OBVIOUS
  <1> HIDE DEF kept
  <1>6. rows' = kept /\ pending' = <<>> \o Tail(pending) /\ Frame
    BY <1>3, PaintedIs
  <1> QED
    BY <1>1, <1>4, <1>5, <1>6 DEF Quiet

\* The first frame of runlots.
LEMMA LotsPaints ==
  ASSUME GauntletInv, Paint, Waits(<<G("runlots", 0)>>), Clean
  PROVE  Frame /\ Clean' /\ Waits(<<G("filllots", 0)>>)'
  <1>1. Head(pending) = G("runlots", 0) /\ \A h : <<h>> \o Tail(pending) = <<h>>
    BY OneWaits
  <1>2. Emptied(G("runlots", 0)) /\ G("runlots", 0).do = "runlots"
        /\ [do |-> "filllots", row |-> 0] = G("filllots", 0)
    BY <1>1, FrameOf DEF G
  <1>3. /\ Painted(<<>>, {}, NodesOf(rows) \ NodesOf(<<>>), <<G("filllots", 0)>>)
        /\ nextId' = 1 /\ nodes' = 0
    BY <1>2 DEF Emptied, Clean
  <1>6. rows' = <<>> /\ pending' = <<G("filllots", 0)>> \o Tail(pending) /\ Frame
    BY <1>3, PaintedIs
  <1> QED
    BY <1>1, <1>3, <1>6 DEF Waits, Clean

\* A row is removed: by taking it out, by moving the texts up, or by putting it in
\* the place of the last one.
LEMMA RemovePaints ==
  ASSUME GauntletInv, Paint, NEW r, Waits(<<G("remove", r)>>), Len(rows) >= 2,
         NEW n, n = IF target = "removesnext" THEN r + 1 ELSE r
  PROVE  /\ Frame /\ Quiet' /\ UNCHANGED <<nextId, nodes>> /\ n \in 1..Len(rows)
         /\ Len(rows') = Len(rows) - 1
         /\ \A i \in 1..(Len(rows) - 2) : rows'[i].id = IF i < n THEN rows[i].id ELSE rows[i + 1].id
         /\ kd'.on = kd.on /\ kd'.stored = kd.stored
         /\ kd.on /\ target # "shifting" => rows[n].node \in kd'.removed
         /\ kd.on /\ target = "shifting" => kd'.removed = kd.removed \cup {rows[Len(rows)].node}
  <1>1. Head(pending) = G("remove", r) /\ <<>> \o Tail(pending) = <<>>
    BY OneWaits
  <1>2. Removed(G("remove", r)) /\ G("remove", r).row = r
    BY <1>1, FrameOf DEF G
  <1> DEFINE shifted == [i \in 1..(Len(rows) - 1) |->
                           IF i < n THEN rows[i] ELSE [rows[i + 1] EXCEPT !.node = rows[i].node]]
             u == RemoveAt(rows, n)
             lingers == Append(Front(u), rows[n])
             is == rows[n].node
             end == Last(rows).node
  <1>3. /\ Has(n) /\ UNCHANGED <<nextId, nodes>>
        /\ CASE target = "shifting" -> Painted(shifted, {}, {end}, <<>>)
             [] target = "lingering" -> Painted(lingers, {is}, {is, end}, <<>>)
             [] OTHER -> Painted(u, {}, {is}, <<>>)
    BY <1>2 DEF Removed
  <1>4. /\ rows \in Seq(TrOf(nodes)) /\ Len(rows) \in Nat /\ DOMAIN rows = 1..Len(rows)
        /\ \A i \in DOMAIN rows : rows[i] \in TrOf(nodes)
    BY RowsAre
  <1>5. n \in 1..Len(rows) /\ n \in Nat /\ Len(rows) >= 1
    BY <1>3, <1>4 DEF Has
  <1>6. /\ u \in Seq(TrOf(nodes)) /\ Len(u) = Len(rows) - 1
        /\ \A i \in 1..(Len(rows) - 1) : u[i] = IF i < n THEN rows[i] ELSE rows[i + 1]
    BY <1>4, <1>5, TakenIs
  <1>7. end = rows[Len(rows)].node
    BY <1>4, <1>5 DEF Last
  <1> DEFINE Fits(t) == /\ Len(t) = Len(rows) - 1
                        /\ \A i \in 1..(Len(rows) - 2) : t[i].id = IF i < n THEN rows[i].id ELSE rows[i + 1].id
  <1>8. Fits(u)
    <2>1. \A i \in 1..(Len(rows) - 2) : i \in 1..(Len(rows) - 1)
      BY <1>4
    <2> QED
      BY <1>6, <2>1
  <1>9. Fits(shifted)
    <2>1. Len(shifted) = Len(rows) - 1
      BY <1>4, <1>5
    <2>2. ASSUME NEW i \in 1..(Len(rows) - 2)
          PROVE  shifted[i].id = IF i < n THEN rows[i].id ELSE rows[i + 1].id
      <3>1. /\ i \in 1..(Len(rows) - 1) /\ i + 1 \in 1..Len(rows) /\ rows[i + 1] \in TrOf(nodes)
        BY <1>4
      <3>2. \A x : [rows[i + 1] EXCEPT !.node = x].id = rows[i + 1].id
        BY <3>1 DEF TrOf
      <3>3. shifted[i] = IF i < n THEN rows[i] ELSE [rows[i + 1] EXCEPT !.node = rows[i].node]
        BY <3>1
      <3> QED
        BY <3>2, <3>3
    <2> QED
      BY <2>1, <2>2
  <1>10. target = "lingering" /\ Len(rows) >= 2 => Fits(lingers)
    <2>1. SUFFICES ASSUME Len(rows) >= 2 PROVE Fits(lingers)
      OBVIOUS
    <2> HIDE DEF u
    <2>2. Len(u) >= 1 /\ Len(u) \in Nat
      BY <1>4, <1>6, <2>1
    <2>3. /\ Front(u) \in Seq(TrOf(nodes)) /\ Len(Front(u)) = Len(u) - 1
          /\ \A i \in 1..(Len(u) - 1) : Front(u)[i] = u[i]
      BY <1>6, <2>2 DEF Front
    <2> DEFINE f == Front(u)
               e == rows[n]
    <2>4. e \in TrOf(nodes) /\ f \in Seq(TrOf(nodes)) /\ lingers = Append(f, e)
      BY <1>4, <1>5, <2>3
    <2> HIDE DEF f, e
    <2>5. Len(Append(f, e)) = Len(f) + 1 /\ \A i \in 1..Len(f) : Append(f, e)[i] = f[i]
      BY <2>4
    <2>6. Len(f) = Len(rows) - 2
      BY <1>4, <1>6, <2>3 DEF f
    <2>7. \A i \in 1..(Len(rows) - 2) : lingers[i] = u[i] /\ i \in 1..(Len(rows) - 1)
      BY <1>4, <1>6, <2>3, <2>4, <2>5, <2>6 DEF f
    <2>8. Len(lingers) = Len(rows) - 1
      BY <1>4, <2>4, <2>5, <2>6
    <2> HIDE DEF lingers
    <2> QED
      BY <1>6, <2>7, <2>8
  <1> HIDE DEF u, shifted, lingers, is, end, Fits
  <1>11. CASE target = "shifting"
    <2>1. Painted(shifted, {}, {end}, <<>>)
      BY <1>3, <1>11
    <2>2. rows' = shifted /\ pending' = <<>> \o Tail(pending) /\ Frame /\ Sees({}, {end})
      BY <2>1, PaintedIs
    <2> QED
      BY <1>1, <1>3, <1>5, <1>7, <1>9, <1>11, <2>2 DEF Quiet, Fits, Sees
  <1>12. CASE target = "lingering"
    <2>1. Painted(lingers, {is}, {is, end}, <<>>)
      BY <1>3, <1>12
    <2>2. rows' = lingers /\ pending' = <<>> \o Tail(pending) /\ Frame /\ Sees({is}, {is, end})
      BY <2>1, PaintedIs
    <2> QED
      BY <1>1, <1>3, <1>5, <1>10, <1>12, <2>2 DEF Quiet, Fits, Sees, is
  <1>13. CASE target \notin {"shifting", "lingering"}
    <2>1. Painted(u, {}, {is}, <<>>)
      BY <1>3, <1>13
    <2>2. rows' = u /\ pending' = <<>> \o Tail(pending) /\ Frame /\ Sees({}, {is})
      BY <2>1, PaintedIs
    <2> QED
      BY <1>1, <1>3, <1>5, <1>8, <1>13, <2>2 DEF Quiet, Fits, Sees, is
  <1> QED
    BY <1>11, <1>12, <1>13

\* What is in the table, and the sizes the operations ask for.
LEMMA HasIs ==
  ASSUME GauntletInv
  PROVE  /\ \A n : Has(n) <=> n \in 1..Len(rows)
         /\ rows = <<>> <=> Len(rows) = 0
         /\ Len(rows) \in Nat
         /\ N \in Nat /\ N >= 7 /\ LotsN \in Nat /\ LotsN > N /\ Stride \in Nat /\ Stride > 2 /\ Stride < N
  <1>1. rows \in Seq(TrOf(nodes)) /\ Len(rows) \in Nat /\ DOMAIN rows = 1..Len(rows)
    BY RowsAre
  <1>2. rows = <<>> <=> Len(rows) = 0
    BY <1>1
  <1> QED
    BY <1>1, <1>2, GauntletAssumption DEF Has

\* The first rows, by their places.
LEMMA FirstIs ==
  ASSUME GauntletInv, First
  PROVE  /\ \A i \in 1..N : Has(i) /\ rows[i].id = i /\ rows[i].node = i /\ ~rows[i].mark /\ ~rows[i].danger
         /\ Len(rows) = N /\ rows # <<>> /\ nextId = N + 1 /\ nodes = N
         /\ \A i \in 1..N : i \in Nat
  BY HasIs DEF First, Numbered, MadeFrom

\* A page with nothing to paint paints nothing.
LEMMA QuietIs ==
  /\ Quiet => ~Paint
  /\ \A g : Waits(<<g>>) => ~Quiet
  /\ \A g : Quiet /\ pending' = Append(pending, g) => Waits(<<g>>)'
  /\ Quiet /\ pending' = pending => Quiet'
  /\ \A g : Waits(<<g>>) => Head(pending) = g
  <1>1. ASSUME NEW g PROVE Waits(<<g>>) => ~Quiet /\ Head(pending) = g
    BY DEF Quiet, Waits
  <1>2. Quiet => ~Paint
    BY DEF Quiet, Paint
  <1>3. ASSUME NEW g, Quiet, pending' = Append(pending, g) PROVE Waits(<<g>>)'
    <2>1. Append(<<>>, g) = <<g>>
      OBVIOUS
    <2> QED
      BY <1>3, <2>1 DEF Quiet, Waits
  <1> QED
    BY <1>1, <1>2, <1>3 DEF Quiet

\* What each kind of question asks of the rows there are.
LEMMA TextIs ==
  ASSUME GauntletInv, NEW r, NEW w, Now = Step("text", r, w)
  PROVE  (Answer <=> r \in 1..Len(rows) /\ rows[r].id = w) /\ Now.do = "text"
  <1>1. Now.do = "text" /\ Now.row = r /\ Now.want = w
    BY DEF Step
  <1> QED
    BY <1>1, HasIs DEF Answer

\* The question whether a row has the text another one had.
LEMMA WasIs ==
  ASSUME GauntletInv, NEW r, NEW w, Now = Step("was", r, w)
  PROVE  (Answer <=> r \in 1..Len(rows) /\ rows[r].id = saved.pre[w]) /\ Now.do = "was"
  <1>1. Now.do = "was" /\ Now.row = r /\ Now.want = w
    BY DEF Step
  <1>2. Answer <=> Has(r) /\ rows[r].id = saved.pre[w]
    BY <1>1 DEF Answer
  <1>3. Has(r) <=> r \in 1..Len(rows)
    BY HasIs
  <1> QED
    BY <1>1, <1>2, <1>3

\* The question how many rows there are.
LEMMA CountIs ==
  ASSUME GauntletInv, NEW d \in {"count", "bigcount"}, NEW w, Now = Step(d, 0, w)
  PROVE  (Answer <=> Len(rows) = w) /\ Now.do = d
  BY AnswerIs DEF Step

\* The questions about one row's marks.
LEMMA MarkIs ==
  ASSUME GauntletInv, NEW d \in {"marked", "unmarked", "danger", "anchor"}, NEW r, Now = Step(d, r, 0)
  PROVE  /\ d = "marked" => (Answer <=> r \in 1..Len(rows) /\ rows[r].mark)
         /\ d = "unmarked" => (Answer <=> r \in 1..Len(rows) /\ ~rows[r].mark)
         /\ d = "danger" => (Answer <=> r \in 1..Len(rows) /\ rows[r].danger)
         /\ d = "anchor" => (Answer <=> r \in 1..Len(rows))
         /\ Now.do = d
  BY HasIs, AnswerIs DEF Step

\* When a question that is polled is just.
LEMMA PollJust ==
  ASSUME Timely, Now.do \in Polled,
         Answer /\ pc = Len(Program[Op]) => ~Fails, ~Answer /\ Quiet => Fails
  PROVE  Just
  <1>1. Now.do \notin Clicks \cup Judged /\ Now.do # "read"
    BY DEF Clicks, Polled, Judged
  <1> QED
    BY <1>1 DEF Just

\* The first two questions of an operation that fills the table.
Asks(button) ==
    /\ pc \in Nat /\ Len(Program[Op]) # 2
    /\ pc = 1 => Now = Press(button)
    /\ pc = 2 => Now = Step("text", N, N) \/ Now = Step("count", 0, N)

\* Filling the table: what the closer may do is just.
LEMMA OpensJust ==
  ASSUME GauntletInv, pc < 3, \/ Opening /\ Asks("run")
                              \/ OpeningAdd /\ Asks("add")
  PROVE  Just
  <1>0. /\ pc = 1 \/ pc = 2
        /\ Len(Program[Op]) # 2
        /\ (pc = 1 /\ Clean /\ Quiet) \/ (pc = 2 /\ Clean /\ \E d \in {"run", "fill", "add"} : Waits(<<G(d, 0)>>))
           \/ (pc = 2 /\ First /\ Quiet)
        /\ pc = 1 => \E d \in {"run", "add"} : Now = Step(d, 0, 0)
        /\ pc = 2 => Now = Step("text", N, N) \/ Now = Step("count", 0, N)
    BY DEF Opening, OpeningAdd, Asks, Press
  <1>1. CASE pc = 1
    <2>1. PICK d \in {"run", "add"} : Now = Step(d, 0, 0)
      BY <1>0, <1>1
    <2>2. Quiet /\ Timely /\ d \in Clicks /\ d # "clear"
      BY <1>0, <1>1, TimelyIf DEF Clicks
    <2> QED
      BY <2>1, <2>2, JustIf
  <1>2. CASE pc = 2
    <2>1. Now.do \in Polled /\ Now.do # "bigcount" /\ pc # Len(Program[Op])
      <3>1. Now.do \in {"text", "count"}
        BY <1>0, <1>2 DEF Step
      <3>2. pc # Len(Program[Op])
        BY <1>0, <1>2
      <3> QED
        BY <3>1, <3>2 DEF Polled
    <2>3. CASE First /\ Quiet
      <3>1. Answer
        <4>1. N \in 1..Len(rows) /\ Len(rows) = N /\ rows[N].id = N
          BY <2>3, FirstIs, HasIs
        <4>2. CASE Now = Step("text", N, N)
          BY <4>1, <4>2, TextIs
        <4>3. CASE Now = Step("count", 0, N)
          BY <4>1, <4>3, CountIs
        <4> QED
          BY <1>0, <1>2, <4>2, <4>3
      <3>2. Timely
        BY <2>3, TimelyIf
      <3> QED
        BY <2>1, <3>1, <3>2, PollJust
    <2>4. CASE Clean /\ \E e \in {"run", "fill", "add"} : Waits(<<G(e, 0)>>)
      <3>1. PICK e \in {"run", "fill", "add"} : Waits(<<G(e, 0)>>)
        BY <2>4
      <3>2. ~Slow(G(e, 0)) /\ ~Quiet
        BY <2>4, <3>1, TimelyIf, QuietIs DEF Clean
      <3>3. Timely
        BY <2>1, <3>1, <3>2, TimelyIf
      <3> QED
        BY <2>1, <3>2, <3>3, PollJust
    <2> QED
      BY <1>0, <1>2, <2>3, <2>4
  <1> QED
    BY <1>0, <1>1, <1>2

\* Filling the table: the closer's next question finds the page where it should be.
LEMMA OpensGoes ==
  ASSUME GauntletInv, Goes, pc < 3
  PROVE  /\ Opening /\ Asks("run") => Opening'
         /\ OpeningAdd /\ Asks("add") => OpeningAdd'
  <1>1. ASSUME pc = 1, Clean, Quiet, NEW d \in {"run", "add"}, Now = Press(d)
        PROVE  Clean' /\ Waits(<<G(d, 0)>>)' /\ pc' = 2
    <2>1. Now = Step(d, 0, 0) /\ d \in Clicks
      BY <1>1 DEF Press, Clicks
    <2>2. pc' = pc + 1 /\ UNCHANGED <<target, results, rows, nextId, nodes>> /\ pending' = Append(pending, G(d, 0))
      BY <2>1, Asked
    <2> QED
      BY <1>1, <2>2, QuietIs DEF Clean
  <1>2. ASSUME pc = 2, NEW d \in {"text", "count"}, NEW r \in {0, N}, Now = Step(d, r, N),
               d = "text" => r = N, d = "count" => r = 0
        PROVE  ~Clean /\ (First /\ Quiet => First' /\ Quiet' /\ pc' = 3)
    <2>1. d \in Polled
      BY DEF Polled
    <2>2. pc' = pc + 1 /\ UNCHANGED <<rows, nextId, nodes>> /\ Answer /\ pending' = pending
      BY <1>2, <2>1, Asked DEF SamePage
    <2>3. ~Clean
      <3>1. Answer => Len(rows) # 0
        <4>1. CASE d = "text"
          BY <1>2, <4>1, HasIs, TextIs
        <4>2. CASE d = "count"
          <5>1. r = 0
            BY <1>2, <4>2
          <5> QED
            BY <1>2, <4>2, <5>1, HasIs, CountIs
        <4> QED
          BY <4>1, <4>2
      <3> QED
        BY <2>2, <3>1, HasIs DEF Clean
    <2> QED
      BY <1>2, <2>2, <2>3 DEF First, Numbered, MadeFrom, Quiet
  <1>3. CASE pc = 1
    BY <1>1, <1>3 DEF Opening, OpeningAdd, Asks
  <1>4. ASSUME pc = 2, Asks("run") \/ Asks("add")
        PROVE  ~Clean /\ (First /\ Quiet => First' /\ Quiet' /\ pc' = 3)
    BY <1>2, <1>4 DEF Asks
  <1>5. CASE pc = 2
    BY <1>4, <1>5 DEF Opening, OpeningAdd
  <1> QED
    BY <1>3, <1>5 DEF Opening, OpeningAdd

\* The rows come to a clean page.
LEMMA CleanFills ==
  ASSUME GauntletInv, Clean, Paint, NEW d \in {"fill", "add"}, Waits(<<G(d, 0)>>)
  PROVE  First' /\ Quiet' /\ Frame
  <1>1. rows = <<>> /\ Len(rows) = 0 /\ nextId = 1 /\ nodes = 0 /\ N \in Nat /\ N >= 7
    BY HasIs DEF Clean
  <1>2. /\ Frame /\ Quiet' /\ nextId' = nextId + N /\ nodes' = nodes + N
        /\ Len(rows') = Len(rows) + N
        /\ rows = <<>> => \A i \in 1..N : /\ rows'[i].id = nextId + i - 1 /\ rows'[i].node = nodes + i
                                          /\ ~rows'[i].mark /\ ~rows'[i].danger
    BY GrownIs
  <1>3. Len(rows') = N /\ nextId' = N + 1 /\ nodes' = N
    BY <1>1, <1>2
  <1>4. ASSUME NEW i \in 1..N
        PROVE  rows'[i].id = 0 + i /\ rows'[i].node = 0 + i /\ ~rows'[i].mark /\ ~rows'[i].danger
    <2>1. 1 + i - 1 = 0 + i
      OBVIOUS
    <2> QED
      BY <1>1, <1>2, <2>1
  <1> QED
    BY <1>2, <1>3, <1>4 DEF First, Numbered, MadeFrom

\* Filling the table: a frame of the page.
LEMMA OpensPaints ==
  ASSUME GauntletInv, Paint
  PROVE  /\ Opening => Opening' /\ Frame
         /\ OpeningAdd => OpeningAdd' /\ Frame
  <1>1. ASSUME Clean, Waits(<<G("run", 0)>>)
        PROVE  Clean' /\ Waits(<<G("fill", 0)>>)' /\ Frame
    <2>1. /\ Frame /\ nodes' = nodes /\ rows = <<>>
          /\ rows = <<>> => /\ rows' = <<>> /\ Waits(<<G("fill", 0)>>)'
                            /\ nextId' = IF target = "renumbering" THEN 1 ELSE nextId
      BY <1>1, RunPaints DEF Clean
    <2> QED
      BY <1>1, <2>1 DEF Clean
  <1>2. ASSUME Clean, NEW d \in {"fill", "add"}, Waits(<<G(d, 0)>>)
        PROVE  First' /\ Quiet' /\ Frame
    BY <1>2, CleanFills
  <1>3. Frame => pc' = pc
    BY DEF Frame
  <1> QED
    BY <1>1, <1>2, <1>3, QuietIs DEF Opening, OpeningAdd

Same == UNCHANGED <<target, results, pc, saved, rows, nextId, nodes, pending, kd>>

\* Nothing moves when the closer only looks again.
LEMMA PlacesStay ==
  ASSUME Same
  PROVE  /\ Op' = Op /\ (First => First') /\ (Quiet => Quiet') /\ (Clean => Clean')
         /\ \A g : Waits(g) => Waits(g)'
         /\ (Opening => Opening') /\ (OpeningAdd => OpeningAdd')
  <1>1. Op' = Op
    BY DEF Same, Op
  <1>2. First => First'
    BY DEF Same, First, Numbered, MadeFrom
  <1>3. (Quiet => Quiet') /\ (Clean => Clean') /\ \A g : Waits(g) => Waits(g)'
    BY DEF Same, Quiet, Clean, Waits
  <1>4. pc' = pc
    BY DEF Same
  <1> QED
    BY <1>1, <1>2, <1>3, <1>4 DEF Opening, OpeningAdd

\* A look that settles nothing leaves every operation where it is.
LEMMA CoursesStay ==
  ASSUME Same
  PROVE  /\ Course1 => Course1'
         /\ Course2 => Course2'
         /\ Course3 => Course3'
         /\ Course4 => Course4'
         /\ Course5 => Course5'
         /\ Course6 => Course6'
         /\ Course7 => Course7'
         /\ Course8 => Course8'
         /\ Course10 => Course10'
         /\ Course11 => Course11'
  <1>1. pc' = pc /\ target' = target /\ rows' = rows /\ nextId' = nextId /\ nodes' = nodes
        /\ saved' = saved /\ kd' = kd /\ pending' = pending
    BY DEF Same
  <1>2. Course1 => Course1'
    BY <1>1, PlacesStay DEF Course1
  <1>3. Course2 => Course2'
    BY <1>1, PlacesStay DEF Course2, Numbered
  <1>4. Course3 => Course3'
    BY <1>1, PlacesStay DEF Course3, MarkDue
  <1>5. Course4 => Course4'
    BY <1>1, PlacesStay DEF Course4, Only
  <1>6. \A ns : ReadSo(ns) => ReadSo(ns)'
    BY <1>1 DEF ReadSo
  <1>7. /\ (Read5 => Read5') /\ (HalfSwapped => HalfSwapped') /\ (TextsSwapped => TextsSwapped')
        /\ (FullySwapped => FullySwapped')
    BY <1>1, <1>6 DEF Read5, HalfSwapped, TextsSwapped, FullySwapped, Halfway, Exchanged
  <1>8. Course5 => Course5'
    BY <1>1, <1>7, PlacesStay DEF Course5
  <1>9. Course6 => Course6'
    BY <1>1, <1>6, PlacesStay DEF Course6
  <1>10. Course7 => Course7'
    BY <1>1, PlacesStay DEF Course7, Numbered
  <1>11. Course8 => Course8'
    BY <1>1, PlacesStay DEF Course8, Numbered
  <1>12. Course10 => Course10'
    BY <1>1, PlacesStay DEF Course10
  <1>13. (Swapping => Swapping') /\ (Second => Second')
    <2>2. Swapping => Swapping'
      BY <1>1, <1>7 DEF Swapping, Waits, Quiet
    <2>3. Second => Second'
      BY <1>1 DEF Second, Numbered, MadeFrom
    <2> QED
      BY <2>2, <2>3
  <1>17. kd'.on = kd.on /\ kd'.added = kd.added /\ kd'.removed = kd.removed /\ kd'.stored = kd.stored
    BY <1>1
  <1>18. SawSwap => SawSwap'
    BY <1>17 DEF SawSwap
  <1>14. Course11Swap => Course11Swap'
    <2>1. (OpeningAdd => OpeningAdd') /\ (First => First')
      BY PlacesStay
    <2>2. /\ (Quiet => Quiet') /\ \A in, out : Saw(in, out) => Saw(in, out)'
      BY <1>1, <1>17 DEF Quiet, Saw
    <2>3. ASSUME OpeningAdd PROVE Course11Swap'
      BY <2>1, <2>3 DEF Course11Swap
    <2>8. ASSUME pc \in {4, 5, 6}, First, Quiet, Saw({}, {}), target # "untabled" PROVE Course11Swap'
      BY <1>1, <2>1, <2>2, <2>8 DEF Course11Swap
    <2>9. ASSUME pc = 7, First, Waits(<<G("swaprows", 0)>>), Saw({}, {}), target # "untabled"
          PROVE  Course11Swap'
      <3>1. Waits(<<G("swaprows", 0)>>)'
        BY <1>1, <2>9 DEF Waits
      <3> QED
        BY <1>1, <2>1, <2>2, <2>9, <3>1 DEF Course11Swap
    <2>7. ASSUME target = "untabled", pc = 4, First, Quiet, ~kd.on PROVE Course11Swap'
      BY <1>1, <1>17, <2>1, <2>2, <2>7 DEF Course11Swap
    <2>4. ASSUME target = "swapsother", pc = 7, Len(rows) = N, rows[2].id = N, Quiet \/ Waits(<<G("swapback", 0)>>)
          PROVE  Course11Swap'
      BY <1>1, <2>4 DEF Course11Swap, Waits, Quiet
    <2>5. ASSUME target = "recreating", TextsSwapped, Quiet,
                 \/ pc \in {7, 8} /\ Saw({N + 1, N + 2}, {2, N - 1})
                 \/ pc = 9 /\ saved.got.added = {N + 1, N + 2} /\ saved.got.removed = {2, N - 1}
          PROVE  Course11Swap'
      BY <1>1, <1>7, <1>17, <2>5 DEF Course11Swap, Quiet, Saw
    <2>6. ASSUME target = "rewriting", TextsSwapped, Quiet,
                 (pc \in {7, 8} /\ Saw({}, {})) \/ (pc = 9 /\ saved.got.added = {})
          PROVE  Course11Swap'
      BY <1>1, <1>7, <1>17, <2>6 DEF Course11Swap, Quiet, Saw
    <2> QED
      BY <2>3, <2>4, <2>5, <2>6, <2>7, <2>8, <2>9 DEF Course11Swap
  <1>15. Course11Run => Course11Run'
    <2>2. (Numbered(N, N) => Numbered(N, N)') /\ (Numbered(N, 0) => Numbered(N, 0)')
      BY <1>1 DEF Numbered
    <2>3. PlainSwap => PlainSwap'
      BY <1>1 DEF PlainSwap
    <2> QED
      BY <1>1, <1>7, <1>13, <1>17, <1>18, <2>2, <2>3 DEF Course11Run, Waits, Quiet
  <1>16. Course11Remove => Course11Remove'
    <2>3. PlainRun => PlainRun'
      BY <1>1 DEF PlainSwap, PlainRun
    <2> QED
      BY <1>1, <1>13, <1>17, <2>3 DEF Course11Remove, Waits, Quiet
  <1> QED
    BY <1>2, <1>3, <1>4, <1>5, <1>8, <1>9, <1>10, <1>11, <1>12, <1>14, <1>15, <1>16 DEF Course11

\* Which operations a fault shows in.
LEMMA FailsWhen ==
  /\ Op = 1 => ~Fails
  /\ Op = 2 => (Fails <=> target \in {"renumbering", "appending"})
  /\ Op = 3 => (Fails <=> target \in {"overmarking", "undermarking"})
  /\ Op = 4 => (Fails <=> target = "multiselect")
  /\ Op = 5 => (Fails <=> target = "swapsother")
  /\ Op = 6 => (Fails <=> target = "removesnext")
  /\ Op = 7 => (Fails <=> target = "stopsshort")
  /\ Op = 8 => (Fails <=> target = "prepending")
  /\ Op = 9 => (Fails <=> target \in {"leavesone", "buttonless"})
  /\ Op = 10 => (Fails <=> target = "misbuilt")
  /\ Op = 11 => (Fails <=> target \in {"renumbering", "appending", "swapsother", "removesnext",
                                       "recreating", "rewriting", "recycling", "shifting", "untabled"})
  BY DEF Fails, FailsAt

\* What the operations that begin with a run ask first.
LEMMA RunAsks ==
  ASSUME Op \in {1, 2, 3, 4, 5, 6, 8, 9}, pc \in Nat
  PROVE  Asks("run")
  <1>1. CASE Op = 1
    BY <1>1, Now1 DEF Asks
  <1>2. CASE Op = 2
    BY <1>2, Now2 DEF Asks
  <1>3. CASE Op = 3
    BY <1>3, Now3 DEF Asks
  <1>4. CASE Op = 4
    BY <1>4, Now4 DEF Asks
  <1>5. CASE Op = 5
    BY <1>5, Now5 DEF Asks
  <1>6. CASE Op = 6
    BY <1>6, Now6 DEF Asks
  <1>8. CASE Op = 8
    BY <1>8, Now8 DEF Asks
  <1>9. CASE Op = 9
    BY <1>9, Now9 DEF Asks
  <1> QED
    BY <1>1, <1>2, <1>3, <1>4, <1>5, <1>6, <1>8, <1>9

\* And those that begin with an add.
LEMMA AddAsks ==
  ASSUME Op \in {10, 11}, pc \in Nat
  PROVE  Asks("add")
  <1>1. CASE Op = 10
    BY <1>1, Now10 DEF Asks
  <1>2. CASE Op = 11
    BY <1>2, Now11 DEF Asks
  <1> QED
    BY <1>1, <1>2

\* What the first rows and the gestures that wait become when a step leaves the page alone.
LEMMA PageStays ==
  ASSUME UNCHANGED <<target, rows, nextId, nodes>>
  PROVE  /\ (First => First') /\ (Clean => Clean')
         /\ \A n, b : Numbered(n, b) => Len(rows') = n /\ \A i \in 1..n : rows'[i].id = b + i
  BY DEF First, Numbered, MadeFrom, Clean

\* A click that is dispatched to a quiet page.
LEMMA Pressed ==
  ASSUME Goes, Quiet, NEW d \in Clicks, NEW r, Now = Step(d, r, 0) \/ (r = 0 /\ Now = Press(d))
  PROVE  /\ pc # Len(Program[Op]) /\ pc' = pc + 1 /\ UNCHANGED <<target, results, rows, nextId, nodes, saved, kd>>
         /\ Waits(<<G(d, r)>>)' /\ (First => First') /\ (Clean => Clean') /\ ~found'
  <1>1. Now = Step(d, r, 0)
    BY DEF Press
  <1>2. /\ pc # Len(Program[Op]) /\ pc' = pc + 1 /\ ~found' /\ UNCHANGED <<target, results, rows, nextId, nodes>>
        /\ pending' = Append(pending, G(d, r)) /\ UNCHANGED <<saved, kd>>
    BY <1>1, Asked
  <1> QED
    BY <1>2, QuietIs, PageStays

\* A question that is answered leaves the page as it is.
LEMMA Answered ==
  ASSUME Goes, NEW d \in Polled, NEW r, NEW w, Now = Step(d, r, w)
  PROVE  /\ pc # Len(Program[Op]) /\ pc' = pc + 1 /\ Answer /\ ~found'
         /\ UNCHANGED <<target, results, rows, nextId, nodes, pending, saved, kd>>
         /\ (First => First') /\ (Clean => Clean') /\ (Quiet => Quiet')
  <1>2. /\ pc # Len(Program[Op]) /\ pc' = pc + 1 /\ ~found' /\ UNCHANGED <<target, results, rows, nextId, nodes>>
        /\ Answer /\ SamePage
    BY Asked
  <1> QED
    BY <1>2, QuietIs, PageStays DEF SamePage

\* The page is waiting for no more than one prompt gesture.
Prompt == Quiet \/ \E d, r : Waits(<<G(d, r)>>) /\ d \notin {"runlots", "filllots", "add"}

\* Few rows to make: the small deadline is enough.
LEMMA PromptIs ==
  /\ Prompt /\ Now.do # "bigcount" => Timely
  /\ Quiet => Prompt
  /\ \A d, r : Waits(<<G(d, r)>>) /\ d \notin {"runlots", "filllots", "add"} => Prompt
  BY TimelyIf, QuietIs DEF Prompt

\* Operation 1 (run): wherever it has come to, the closer's verdict is just.
LEMMA Course1Just == ASSUME GauntletInv, Op = 1, Course1 PROVE Just
  <1>1. CASE Opening /\ pc < 3
    <2>1. pc \in Nat
      BY <1>1 DEF Opening
    <2> QED
      BY <1>1, <2>1, RunAsks, OpensJust
  <1>2. CASE pc \in {3, 4} /\ First /\ Quiet
    <2>1. Now = Step("text", 1, 1) \/ Now = Step("text", N, N)
      BY <1>2, Now1
    <2>2. Answer /\ Now.do \in Polled /\ Now.do # "bigcount"
      BY <1>2, <2>1, HasIs, FirstIs, TextIs DEF Polled
    <2> QED
      BY <1>2, <2>2, PromptIs, PollJust, FailsWhen
  <1> QED
    BY <1>1, <1>2 DEF Course1, Opening

\* Operation 1: the next step finds the page where it should be.
LEMMA Course1Goes == ASSUME GauntletInv, Op = 1, Course1, Goes PROVE Course1'
  <1>1. CASE Opening /\ pc < 3
    <2>1. pc \in Nat
      BY <1>1 DEF Opening
    <2> QED
      BY <1>1, <2>1, RunAsks, OpensGoes DEF Course1
  <1>2. CASE pc \in {3, 4} /\ First /\ Quiet
    <2>1. (pc = 3 => Now = Step("text", 1, 1)) /\ (pc = 4 => Now = Step("text", N, N)) /\ Len(Program[Op]) = 4
      BY Now1
    <2>2. "text" \in Polled
      BY DEF Polled
    <2>3. pc # 4 /\ pc' = pc + 1 /\ First' /\ Quiet'
      BY <1>2, <2>1, <2>2, Answered
    <2> QED
      BY <1>2, <2>3 DEF Course1
  <1> QED
    BY <1>1, <1>2 DEF Course1, Opening

\* Operation 1: a frame leaves it on course.
LEMMA Course1Paints == ASSUME GauntletInv, Course1, Paint PROVE Course1'
  BY QuietIs, OpensPaints DEF Course1

\* Operation 2 (replace): wherever it has come to, the closer's verdict is just.
LEMMA Course2Just == ASSUME GauntletInv, Op = 2, Course2 PROVE Just
  <1>0. /\ (pc = 3 => Now = Press("run")) /\ (pc = 4 => Now = Step("text", 1, N + 1))
        /\ (pc = 5 => Now = Step("text", N, 2 * N)) /\ (pc = 6 => Now = Step("count", 0, N))
        /\ Len(Program[Op]) = 6 /\ (Fails <=> target \in {"renumbering", "appending"})
    BY Now2, FailsWhen
  <1>1. CASE Opening /\ pc < 3
    <2>1. pc \in Nat
      BY <1>1 DEF Opening
    <2> QED
      BY <1>1, <2>1, RunAsks, OpensJust
  <1>2. CASE pc = 3 /\ First /\ Quiet
    <2>1. Now = Step("run", 0, 0) /\ Timely
      BY <1>0, <1>2, TimelyIf DEF Press
    <2> QED
      BY <2>1, JustIf DEF Clicks
  <1>3. ASSUME pc = 4, Prompt, Answer => Quiet /\ ~Fails, ~Answer /\ Quiet => Fails
        PROVE  Just
    <2>1. Now.do = "text"
      BY <1>0, <1>3 DEF Step
    <2> QED
      BY <1>0, <1>3, <2>1, PromptIs, PollJust DEF Polled
  <1>4. pc = 4 => (Answer <=> 1 \in 1..Len(rows) /\ rows[1].id = N + 1)
    BY <1>0, TextIs
  <1>5. CASE pc = 4 /\ First /\ Waits(<<G("run", 0)>>)
    <2>1. ~Answer /\ ~Quiet /\ Prompt
      BY <1>4, <1>5, FirstIs, HasIs, QuietIs, PromptIs
    <2> QED
      BY <1>3, <1>5, <2>1
  <1>6. CASE pc = 4 /\ rows = <<>> /\ Waits(<<G("fill", 0)>>)
    <2>1. ~Answer /\ ~Quiet /\ Prompt
      BY <1>4, <1>6, HasIs, QuietIs, PromptIs
    <2> QED
      BY <1>3, <1>6, <2>1
  <1>7. CASE target = "renumbering" /\ pc = 4 /\ Numbered(N, 0) /\ Quiet
    <2>1. ~Answer /\ Prompt
      BY <1>4, <1>7, HasIs, PromptIs DEF Numbered
    <2> QED
      BY <1>0, <1>3, <1>7, <2>1
  <1>8. CASE target = "appending" /\ pc = 4 /\ rows # <<>> /\ rows[1].id = 1 /\ (Quiet \/ Waits(<<G("fill", 0)>>))
    <2>1. ~Answer /\ Prompt
      BY <1>4, <1>8, HasIs, PromptIs
    <2> QED
      BY <1>0, <1>3, <1>8, <2>1
  <1>9. CASE target \notin {"renumbering", "appending"} /\ pc \in {4, 5, 6} /\ Numbered(N, N) /\ Quiet
    <2>1. /\ Len(rows) = N /\ 1 \in 1..Len(rows) /\ N \in 1..Len(rows)
          /\ rows[1].id = N + 1 /\ rows[N].id = 2 * N
      BY <1>9, HasIs DEF Numbered
    <2>2. Answer /\ Now.do \in Polled /\ Now.do # "bigcount"
      BY <1>0, <1>9, <2>1, TextIs, CountIs DEF Polled
    <2> QED
      BY <1>0, <1>9, <2>2, PromptIs, PollJust
  <1> QED
    BY <1>1, <1>2, <1>5, <1>6, <1>7, <1>8, <1>9 DEF Course2, Opening

\* Operation 2: the next step finds the page where it should be.
LEMMA Course2Goes == ASSUME GauntletInv, Op = 2, Course2, Goes PROVE Course2'
  <1>0. /\ (pc = 3 => Now = Press("run")) /\ (pc = 4 => Now = Step("text", 1, N + 1))
        /\ (pc = 5 => Now = Step("text", N, 2 * N)) /\ (pc = 6 => Now = Step("count", 0, N))
        /\ Len(Program[Op]) = 6
    BY Now2
  <1>1. CASE Opening /\ pc < 3
    <2>1. pc \in Nat
      BY <1>1 DEF Opening
    <2> QED
      BY <1>1, <2>1, RunAsks, OpensGoes DEF Course2
  <1>2. CASE pc = 3 /\ First /\ Quiet
    <2>1. pc' = 4 /\ First' /\ Waits(<<G("run", 0)>>)'
      BY <1>0, <1>2, Pressed DEF Clicks
    <2> QED
      BY <2>1 DEF Course2
  <1>3. pc = 4 => Answer /\ 1 \in 1..Len(rows) /\ rows[1].id = N + 1
    <2>1. "text" \in Polled
      BY DEF Polled
    <2> QED
      BY <1>0, <2>1, Answered, TextIs
  <1>4. pc = 4 => ~First /\ rows # <<>> /\ ~Numbered(N, 0) /\ rows[1].id # 1
    BY <1>3, HasIs, FirstIs DEF Numbered
  <1>9. CASE target \notin {"renumbering", "appending"} /\ pc \in {4, 5, 6} /\ Numbered(N, N) /\ Quiet
    <2>1. "text" \in Polled /\ "count" \in Polled
      BY DEF Polled
    <2>2. pc # 6 /\ pc' = pc + 1 /\ UNCHANGED <<target, rows>> /\ Quiet'
      BY <1>0, <1>9, <2>1, Answered
    <2>3. Numbered(N, N)'
      BY <1>9, <2>2 DEF Numbered
    <2> QED
      BY <1>9, <2>2, <2>3 DEF Course2
  <1> QED
    BY <1>1, <1>2, <1>4, <1>9 DEF Course2, Opening

\* Operation 2: a frame leaves it on course.
LEMMA Course2Paints == ASSUME GauntletInv, Course2, Paint PROVE Course2'
  <1>1. CASE Opening
    BY <1>1, OpensPaints DEF Course2
  <1>2. CASE pc = 4 /\ First /\ Waits(<<G("run", 0)>>)
    <2>1. Len(rows) = N /\ nextId = N + 1 /\ rows # <<>> /\ N \in Nat /\ N >= 7 /\ rows[1].id = 1
      BY <1>2, FirstIs, HasIs
    <2>2. pc' = pc /\ target' = target
      BY <1>2, RunPaints DEF Frame
    <2>3. CASE target = "appending"
      <3>1. rows' = rows /\ Waits(<<G("fill", 0)>>)'
        BY <1>2, <2>3, RunPaints
      <3> QED
        BY <1>2, <2>1, <2>2, <2>3, <3>1 DEF Course2
    <2>4. CASE target = "recycling"
      <3>1. Len(rows') = Len(rows) /\ \A i \in 1..Len(rows) : rows'[i].id = nextId + i - 1
        BY <1>2, <2>1, <2>4, RunPaints
      <3>2. Quiet'
        BY <1>2, <2>1, <2>4, RunPaints
      <3>3. Numbered(N, N)'
        BY <2>1, <3>1 DEF Numbered
      <3> QED
        BY <1>2, <2>2, <2>4, <3>2, <3>3 DEF Course2
    <2>5. CASE target \notin {"appending", "recycling"}
      <3>1. rows' = <<>> /\ Waits(<<G("fill", 0)>>)' /\ nextId' = IF target = "renumbering" THEN 1 ELSE nextId
        BY <1>2, <2>5, RunPaints
      <3> QED
        BY <1>2, <2>1, <2>2, <2>5, <3>1 DEF Course2
    <2> QED
      BY <2>3, <2>4, <2>5
  <1>3. CASE /\ pc = 4 /\ rows = <<>> /\ Waits(<<G("fill", 0)>>) /\ target # "appending"
             /\ nextId = IF target = "renumbering" THEN 1 ELSE N + 1
    <2>1. /\ Frame /\ Quiet' /\ Len(rows') = Len(rows) + N
          /\ \A i \in 1..N : rows'[i].id = nextId + i - 1
      BY <1>3, GrownIs
    <2>2. pc' = pc /\ target' = target /\ Len(rows) = 0 /\ N \in Nat
      BY <1>3, <2>1, HasIs DEF Frame
    <2>3. target = "renumbering" => Numbered(N, 0)'
      BY <1>3, <2>1, <2>2 DEF Numbered
    <2>4. target # "renumbering" => Numbered(N, N)'
      BY <1>3, <2>1, <2>2 DEF Numbered
    <2> QED
      BY <1>3, <2>1, <2>2, <2>3, <2>4 DEF Course2
  <1>4. CASE target = "appending" /\ pc = 4 /\ rows # <<>> /\ rows[1].id = 1 /\ Waits(<<G("fill", 0)>>)
    <2>1. /\ Frame /\ Quiet' /\ Len(rows') = Len(rows) + N
          /\ \A i \in 1..Len(rows) : rows'[i] = rows[i]
      BY <1>4, GrownIs
    <2>2. pc' = pc /\ target' = target /\ rows'[1] = rows[1] /\ rows' # <<>>
      <3>1. Len(rows) \in Nat /\ Len(rows) # 0 /\ N \in Nat
        BY <1>4, HasIs
      <3>2. Len(rows') # 0 /\ 1 \in 1..Len(rows)
        BY <2>1, <3>1
      <3> QED
        BY <2>1, <3>2 DEF Frame
    <2> QED
      BY <1>4, <2>1, <2>2 DEF Course2
  <1> QED
    BY <1>1, <1>2, <1>3, <1>4, QuietIs DEF Course2

\* The rows that update marks among those the operation asks about.
LEMMA DueIs ==
  /\ MarkDue(1) /\ N \in 1..N /\ N + 1 - Stride \in 1..N /\ 1 + Stride \in 1..N /\ 2 \in 1..N
  /\ MarkDue(2) <=> target = "overmarking"
  /\ MarkDue(1 + Stride) <=> target # "undermarking"
  /\ MarkDue(N + 1 - Stride) <=> target # "undermarking"
  <1>1. N \in Nat /\ Stride \in Nat /\ Stride > 2 /\ Stride < N /\ N % Stride = 0 /\ N >= 7
    BY GauntletAssumption
  <1>2. PICK q \in Int : N = Stride * q
    <2>1. \A a \in Nat, b \in Nat : b > 0 /\ a % b = 0 => \E q \in Int : a = b * q
      OBVIOUS
    <2> QED
      BY <1>1, <2>1
  <1>3. (2 - 1) % Stride = 1
    BY <1>1
  <1>4. ((1 + Stride) - 1) % Stride = 0
    <2>1. (1 + Stride) - 1 = Stride
      BY <1>1
    <2>2. Stride % Stride = 0
      BY <1>1
    <2> QED
      BY <2>1, <2>2
  <1>5. ((N + 1 - Stride) - 1) % Stride = 0
    <2>1. (N + 1 - Stride) - 1 = Stride * (q - 1)
      BY <1>1, <1>2
    <2>2. \A b \in Nat, k \in Int : b > 0 => (b * k) % b = 0
      OBVIOUS
    <2>3. (Stride * (q - 1)) % Stride = 0
      BY <1>1, <2>2
    <2> QED
      BY <2>1, <2>3
  <1>6. N \in 1..N /\ N + 1 - Stride \in 1..N /\ 1 + Stride \in 1..N /\ 2 \in 1..N
        /\ 1 + Stride # 1 /\ N + 1 - Stride # 1
    BY <1>1
  <1> DEFINE On(i) == (i - 1) % Stride = 0
  <1>7. \A i : MarkDue(i) <=> (i = 1 \/ target = "overmarking" \/ (target # "undermarking" /\ On(i)))
    BY DEF MarkDue
  <1>8. ~On(2)
    BY <1>3
  <1>9. On(1 + Stride)
    BY <1>4, Zenon
  <1>10. On(N + 1 - Stride)
    BY <1>5, Zenon
  <1> HIDE DEF On
  <1> QED
    BY <1>6, <1>7, <1>8, <1>9, <1>10

Marking == Quiet /\ Len(rows) = N /\ \A i \in 1..N : rows[i].mark <=> MarkDue(i)

\* Operation 3 (update): wherever it has come to, the closer's verdict is just.
LEMMA Course3Just == ASSUME GauntletInv, Op = 3, Course3 PROVE Just
  <1>0. /\ (pc = 3 => Now = Press("update"))
        /\ (pc = 4 => Now = Step("marked", N + 1 - Stride, 0))
        /\ (pc = 5 => Now = Step("marked", 1, 0))
        /\ (pc = 6 => Now = Step("marked", 1 + Stride, 0))
        /\ (pc = 7 => Now = Step("unmarked", 2, 0))
        /\ Len(Program[Op]) = 7 /\ (Fails <=> target \in {"overmarking", "undermarking"})
    BY Now3, FailsWhen
  <1>1. CASE Opening /\ pc < 3
    <2>1. pc \in Nat
      BY <1>1 DEF Opening
    <2> QED
      BY <1>1, <2>1, RunAsks, OpensJust
  <1>2. CASE pc = 3 /\ First /\ Quiet
    <2>1. Now = Step("update", 0, 0) /\ Timely
      BY <1>0, <1>2, TimelyIf DEF Press
    <2> QED
      BY <2>1, JustIf DEF Clicks
  <1>3. /\ pc = 4 => (Answer <=> N + 1 - Stride \in 1..Len(rows) /\ rows[N + 1 - Stride].mark)
        /\ pc = 5 => (Answer <=> 1 \in 1..Len(rows) /\ rows[1].mark)
        /\ pc = 6 => (Answer <=> 1 + Stride \in 1..Len(rows) /\ rows[1 + Stride].mark)
        /\ pc = 7 => (Answer <=> 2 \in 1..Len(rows) /\ ~rows[2].mark)
        /\ pc \in {4, 5, 6} => Now.do = "marked"
        /\ pc = 7 => Now.do = "unmarked"
    BY <1>0, MarkIs
  <1>4. CASE pc = 4 /\ First /\ Waits(<<G("update", 0)>>)
    <2>1. ~Answer /\ ~Quiet /\ Prompt
      BY <1>3, <1>4, FirstIs, DueIs, QuietIs, PromptIs
    <2>2. Now.do \in Polled /\ Now.do # "bigcount"
      BY <1>3, <1>4 DEF Polled
    <2> QED
      BY <2>1, <2>2, PromptIs, PollJust
  <1>5. CASE pc \in {4, 5, 6, 7} /\ Marking /\ (target = "undermarking" => pc = 4)
    <2>1. Now.do \in Polled /\ Now.do # "bigcount" /\ Timely
      BY <1>3, <1>5, PromptIs DEF Polled, Marking
    <2>2. Len(rows) = N /\ \A i \in 1..N : rows[i].mark <=> MarkDue(i)
      BY <1>5 DEF Marking
    <2>3. ~Answer => Fails
      BY <1>0, <1>3, <1>5, <2>2, DueIs
    <2>4. Answer /\ pc = 7 => ~Fails
      BY <1>0, <1>3, <1>5, <2>2, DueIs
    <2> QED
      BY <1>0, <2>1, <2>3, <2>4, PollJust
  <1> QED
    BY <1>1, <1>2, <1>4, <1>5 DEF Course3, Opening, Marking

\* Operation 3: the next step finds the page where it should be.
LEMMA Course3Goes == ASSUME GauntletInv, Op = 3, Course3, Goes PROVE Course3'
  <1>0. /\ (pc = 3 => Now = Press("update"))
        /\ (pc = 4 => Now = Step("marked", N + 1 - Stride, 0))
        /\ (pc = 5 => Now = Step("marked", 1, 0))
        /\ (pc = 6 => Now = Step("marked", 1 + Stride, 0))
        /\ (pc = 7 => Now = Step("unmarked", 2, 0))
        /\ Len(Program[Op]) = 7
    BY Now3
  <1>1. CASE Opening /\ pc < 3
    <2>1. pc \in Nat
      BY <1>1 DEF Opening
    <2> QED
      BY <1>1, <2>1, RunAsks, OpensGoes DEF Course3
  <1>2. CASE pc = 3 /\ First /\ Quiet
    <2>1. pc' = 4 /\ First' /\ Waits(<<G("update", 0)>>)'
      BY <1>0, <1>2, Pressed DEF Clicks
    <2> QED
      BY <2>1 DEF Course3
  <1>3. ASSUME pc \in {4, 5, 6, 7}
        PROVE  Answer /\ pc # 7 /\ pc' = pc + 1 /\ UNCHANGED <<target, rows>> /\ (Quiet => Quiet')
    <2>1. "marked" \in Polled /\ "unmarked" \in Polled
      BY DEF Polled
    <2> QED
      BY <1>0, <1>3, <2>1, Answered
  <1>4. pc = 4 => rows[N + 1 - Stride].mark
    <2>1. pc = 4 => (Answer <=> N + 1 - Stride \in 1..Len(rows) /\ rows[N + 1 - Stride].mark)
      BY <1>0, MarkIs
    <2> QED
      BY <1>3, <2>1
  <1>5. CASE pc \in {4, 5, 6, 7} /\ Marking /\ (target = "undermarking" => pc = 4)
    <2>1. pc' = pc + 1 /\ pc # 7 /\ target # "undermarking" /\ target' = target
      <3>1. pc = 4 => MarkDue(N + 1 - Stride)
        BY <1>4, <1>5, DueIs DEF Marking
      <3>2. target # "undermarking"
        BY <1>5, <3>1, DueIs
      <3> QED
        BY <1>3, <1>5, <3>2
    <2>2. Marking'
      <3>1. rows' = rows /\ Quiet'
        BY <1>3, <1>5 DEF Marking
      <3>2. \A i : MarkDue(i)' <=> MarkDue(i)
        BY <2>1 DEF MarkDue
      <3> QED
        BY <1>5, <3>1, <3>2 DEF Marking
    <2> QED
      BY <1>5, <2>1, <2>2 DEF Course3, Marking
  <1>6. ~(pc = 4 /\ First)
    BY <1>4, FirstIs, DueIs
  <1> QED
    BY <1>1, <1>2, <1>5, <1>6 DEF Course3, Opening, Marking

\* Operation 3: a frame leaves it on course.
LEMMA Course3Paints == ASSUME GauntletInv, Course3, Paint PROVE Course3'
  <1>1. CASE Opening
    BY <1>1, OpensPaints DEF Course3
  <1>2. CASE pc = 4 /\ First /\ Waits(<<G("update", 0)>>)
    <2>1. Len(rows) = N /\ \A i \in 1..N : ~rows[i].mark
      BY <1>2, FirstIs
    <2>2. /\ Frame /\ Quiet' /\ Len(rows') = Len(rows)
          /\ \A i \in 1..Len(rows) : rows'[i].mark <=> rows[i].mark \/ MarkDue(i)
      BY <1>2, UpdatePaints
    <2>3. pc' = pc /\ target' = target
      BY <2>2 DEF Frame
    <2>4. Marking'
      BY <2>1, <2>2, <2>3 DEF Marking, MarkDue
    <2> QED
      BY <1>2, <2>3, <2>4 DEF Course3, Marking
  <1> QED
    BY <1>1, <1>2, QuietIs DEF Course3

\* How many rows are selected: one, unless the target keeps the old one.
LEMMA DangersIs ==
  ASSUME GauntletInv, Now = Step("dangers", 0, 1)
  PROVE  /\ Only(5) \/ Only(2) => Answer
         /\ Len(rows) = N /\ rows[2].danger /\ rows[5].danger => ~Answer
         /\ Now.do = "dangers"
  <1> DEFINE S == {i \in DOMAIN rows : rows[i].danger}
  <1>1. (Answer <=> Cardinality(S) = 1) /\ Now.do = "dangers"
    BY AnswerIs DEF Step
  <1>2. DOMAIN rows = 1..Len(rows) /\ Len(rows) \in Nat /\ N \in Nat /\ N >= 7
    BY RowsAre, HasIs
  <1>3. IsFiniteSet(S)
    <2>1. IsFiniteSet(1..Len(rows)) /\ S \subseteq 1..Len(rows)
      BY <1>2, FS_Interval
    <2> QED
      BY <2>1, FS_Subset
  <1>4. ASSUME NEW j \in {2, 5}, Only(j) PROVE S = {j}
    BY <1>2, <1>4 DEF Only
  <1>5. Len(rows) = N /\ rows[2].danger /\ rows[5].danger => 2 \in S /\ 5 \in S
    BY <1>2
  <1> HIDE DEF S
  <1>6. Only(5) \/ Only(2) => Cardinality(S) = 1
    BY <1>4, FS_Singleton
  <1>7. 2 \in S /\ 5 \in S => Cardinality(S) # 1
    BY <1>3, FS_Singleton
  <1> QED
    BY <1>1, <1>5, <1>6, <1>7

\* What operation 4 (select) asks after its table is filled, and who fails it.
LEMMA Program4 ==
  ASSUME Op = 4
  PROVE  /\ (pc = 3 => Now = Step("label", 5, 0)) /\ (pc = 4 => Now = Step("danger", 5, 0))
         /\ (pc = 5 => Now = Step("dangers", 0, 1)) /\ (pc = 6 => Now = Step("label", 2, 0))
         /\ (pc = 7 => Now = Step("danger", 2, 0)) /\ (pc = 8 => Now = Step("dangers", 0, 1))
         /\ Len(Program[Op]) = 8 /\ (Fails <=> target = "multiselect")
  BY Now4, FailsWhen

\* Operation 4 (select): wherever it has come to, the closer's verdict is just.
LEMMA Course4Just == ASSUME GauntletInv, Op = 4, Course4 PROVE Just
  <1>0. N \in Nat /\ N >= 7 /\ \A n : Has(n) <=> n \in 1..Len(rows)
    BY HasIs
  <1>1. CASE Opening /\ pc < 3
    <2>1. pc \in Nat
      BY <1>1 DEF Opening
    <2> QED
      BY <1>1, <2>1, RunAsks, OpensJust
  <1>2. ASSUME Quiet, Len(rows) = N, NEW r \in {2, 5}, Now = Step("label", r, 0) PROVE Just
    <2>1. Has(r) /\ "label" \in Clicks /\ Timely
      BY <1>0, <1>2, TimelyIf DEF Clicks
    <2> QED
      BY <1>2, <2>1, JustIf
  <1>3. /\ pc = 4 => (Answer <=> 5 \in 1..Len(rows) /\ rows[5].danger) /\ Now.do = "danger"
        /\ pc = 7 => (Answer <=> 2 \in 1..Len(rows) /\ rows[2].danger) /\ Now.do = "danger"
        /\ pc \in {5, 8} => Now.do = "dangers"
    BY Program4, MarkIs, DangersIs
  <1>4. pc \in {4, 5, 7, 8} => Now.do \in Polled /\ Now.do # "bigcount"
    BY <1>3 DEF Polled
  <1>5. CASE pc = 3 /\ First /\ Quiet
    BY <1>2, <1>5, FirstIs, Program4
  <1>6. CASE pc = 4 /\ First /\ Waits(<<G("label", 5)>>)
    <2>1. ~Answer /\ ~Quiet /\ Prompt
      BY <1>0, <1>3, <1>6, FirstIs, QuietIs, PromptIs
    <2> QED
      BY <1>4, <1>6, <2>1, PromptIs, PollJust
  <1>7. CASE pc \in {4, 5, 6} /\ Only(5) /\ Quiet
    <2>1. CASE pc \in {4, 5}
      <3>1. Answer
        BY <1>0, <1>3, <1>7, <2>1, Program4, DangersIs DEF Only
      <3>2. Timely /\ Now.do \in Polled /\ pc # Len(Program[Op])
        <4>1. Len(Program[Op]) = 8
          BY Program4
        <4> QED
          BY <1>4, <1>7, <2>1, <4>1, TimelyIf
      <3> QED
        BY <3>1, <3>2, PollJust
    <2>2. CASE pc = 6
      BY <1>2, <1>7, <2>2, Program4 DEF Only
    <2> QED
      BY <1>7, <2>1, <2>2
  <1>8. CASE pc = 7 /\ Only(5) /\ Waits(<<G("label", 2)>>)
    <2>1. ~Answer /\ ~Quiet /\ Prompt
      BY <1>0, <1>3, <1>8, QuietIs, PromptIs DEF Only
    <2> QED
      BY <1>4, <1>8, <2>1, PromptIs, PollJust
  <1>9. CASE pc \in {7, 8} /\ Quiet /\ target # "multiselect" /\ Only(2)
    <2>1. Answer
      BY <1>0, <1>3, <1>9, Program4, DangersIs DEF Only
    <2> QED
      BY <1>4, <1>9, <2>1, PromptIs, PollJust, Program4
  <1>10. CASE pc \in {7, 8} /\ Quiet /\ target = "multiselect" /\ Len(rows) = N /\ rows[2].danger /\ rows[5].danger
    <2>1. /\ pc = 7 => Answer
          /\ pc = 8 => ~Answer
      BY <1>0, <1>3, <1>10, Program4, DangersIs
    <2> QED
      BY <1>4, <1>10, <2>1, PromptIs, PollJust, Program4
  <1> QED
    BY <1>1, <1>5, <1>6, <1>7, <1>8, <1>9, <1>10 DEF Course4, Opening

\* Operation 4: the next step finds the page where it should be.
LEMMA Course4Goes == ASSUME GauntletInv, Op = 4, Course4, Goes PROVE Course4'
  <1>0. N \in Nat /\ N >= 7 /\ \A n : Has(n) <=> n \in 1..Len(rows)
    BY HasIs
  <1>1. CASE Opening /\ pc < 3
    <2>1. pc \in Nat
      BY <1>1 DEF Opening
    <2> QED
      BY <1>1, <2>1, RunAsks, OpensGoes DEF Course4
  <1>2. ASSUME pc \in {4, 5, 7, 8}
        PROVE  Answer /\ pc # 8 /\ pc' = pc + 1 /\ UNCHANGED <<target, rows>> /\ (Quiet => Quiet')
    <2>1. "danger" \in Polled /\ "dangers" \in Polled
      BY DEF Polled
    <2> QED
      BY <1>2, <2>1, Program4, Answered
  <1>3. ASSUME pc \in {4, 7}
        PROVE  Answer <=> (IF pc = 4 THEN 5 \in 1..Len(rows) /\ rows[5].danger ELSE 2 \in 1..Len(rows) /\ rows[2].danger)
    BY <1>3, Program4, MarkIs
  <1>4. "label" \in Clicks
    BY DEF Clicks
  <1>5. CASE pc = 3 /\ First /\ Quiet
    BY <1>4, <1>5, Program4, Pressed DEF Course4
  <1>6. ~(pc = 4 /\ First)
    BY <1>0, <1>2, <1>3, FirstIs
  <1>7. CASE pc \in {4, 5} /\ Only(5) /\ Quiet
    <2>1. rows' = rows /\ pc' = pc + 1 /\ Quiet'
      BY <1>2, <1>7
    <2>2. Only(5)'
      BY <1>7, <2>1 DEF Only
    <2> QED
      BY <1>7, <2>1, <2>2 DEF Course4
  <1>8. CASE pc = 6 /\ Only(5) /\ Quiet
    <2>1. rows' = rows /\ pc' = 7 /\ Waits(<<G("label", 2)>>)'
      BY <1>4, <1>8, Program4, Pressed
    <2>2. Only(5)'
      BY <1>8, <2>1 DEF Only
    <2> QED
      BY <2>1, <2>2 DEF Course4
  <1>9. ~(pc = 7 /\ Only(5))
    BY <1>0, <1>2, <1>3 DEF Only
  <1>10. CASE pc \in {7, 8} /\ Quiet /\ target # "multiselect" /\ Only(2)
    <2>1. rows' = rows /\ target' = target /\ pc' = 8 /\ Quiet'
      BY <1>2, <1>10
    <2>2. Only(2)'
      BY <1>10, <2>1 DEF Only
    <2> QED
      BY <1>10, <2>1, <2>2 DEF Course4
  <1>11. CASE pc \in {7, 8} /\ Quiet /\ target = "multiselect" /\ Len(rows) = N /\ rows[2].danger /\ rows[5].danger
    <2>1. rows' = rows /\ target' = target /\ pc' = 8 /\ Quiet'
      BY <1>2, <1>11
    <2> QED
      BY <1>11, <2>1 DEF Course4
  <1> QED
    BY <1>1, <1>5, <1>6, <1>7, <1>8, <1>9, <1>10, <1>11 DEF Course4, Opening

\* Operation 4: a frame leaves it on course.
LEMMA Course4Paints == ASSUME GauntletInv, Course4, Paint PROVE Course4'
  <1>0. N \in Nat /\ N >= 7
    BY HasIs
  <1>1. CASE Opening
    BY <1>1, OpensPaints DEF Course4
  <1>2. CASE pc = 4 /\ First /\ Waits(<<G("label", 5)>>)
    <2>1. Len(rows) = N /\ \A i \in 1..N : ~rows[i].danger
      BY <1>2, FirstIs
    <2>2. /\ Frame /\ Quiet' /\ Len(rows') = Len(rows)
          /\ \A i \in 1..Len(rows) : rows'[i].danger <=> (i = 5 \/ (target = "multiselect" /\ rows[i].danger))
      BY <1>2, LabelPaints
    <2>3. Only(5)'
      BY <2>1, <2>2 DEF Only
    <2> QED
      BY <1>2, <2>2, <2>3 DEF Course4, Frame
  <1>3. CASE pc = 7 /\ Only(5) /\ Waits(<<G("label", 2)>>)
    <2>1. Len(rows) = N /\ \A i \in 1..N : rows[i].danger <=> i = 5
      BY <1>3 DEF Only
    <2>2. /\ Frame /\ Quiet' /\ Len(rows') = Len(rows)
          /\ \A i \in 1..Len(rows) : rows'[i].danger <=> (i = 2 \/ (target = "multiselect" /\ rows[i].danger))
      BY <1>3, LabelPaints
    <2>3. pc' = 7 /\ target' = target
      BY <1>3, <2>2 DEF Frame
    <2>4. CASE target = "multiselect"
      <3>1. Len(rows') = N /\ rows'[2].danger /\ rows'[5].danger
        BY <1>0, <2>1, <2>2, <2>4
      <3> QED
        BY <2>2, <2>3, <2>4, <3>1 DEF Course4
    <2>5. CASE target # "multiselect"
      <3>1. Only(2)'
        BY <2>1, <2>2, <2>5 DEF Only
      <3> QED
        BY <2>2, <2>3, <2>5, <3>1 DEF Course4
    <2> QED
      BY <2>4, <2>5
  <1> QED
    BY <1>1, <1>2, <1>3, QuietIs DEF Course4

\* A row read before the swap is read as it is.
LEMMA ReadGoes ==
  ASSUME GauntletInv, Goes, First, NEW r \in 1..N, Now = Step("read", r, 0)
  PROVE  /\ saved'.pre[r] = r /\ \A i \in 1..N : saved.pre[i] = i => saved'.pre[i] = i
         /\ pc' = pc + 1 /\ First' /\ (Quiet => Quiet') /\ target' = target
  <1>1. /\ pc' = pc + 1 /\ UNCHANGED <<target, results, rows, nextId, nodes>>
        /\ saved' = [saved EXCEPT !.pre[r] = rows[r].id] /\ pending' = pending
    BY Asked
  <1>2. saved \in SavedRec /\ rows[r].id = r
    BY FirstIs DEF GauntletInv, OnCourse
  <1>3. saved'.pre = [saved.pre EXCEPT ![r] = r]
    BY <1>1, <1>2 DEF SavedRec
  <1>4. saved.pre \in [1..N -> Nat]
    BY <1>2 DEF SavedRec
  <1>5. saved'.pre[r] = r /\ \A i \in 1..N : saved.pre[i] = i => saved'.pre[i] = i
    BY <1>3, <1>4
  <1> QED
    BY <1>1, <1>5, PageStays DEF Quiet

\* A read of a row that is there is just.
LEMMA ReadJust ==
  ASSUME GauntletInv, First, Quiet, NEW r \in 1..N, Now = Step("read", r, 0)
  PROVE  Just
  <1>1. Timely /\ Has(r)
    BY TimelyIf, FirstIs
  <1> QED
    BY <1>1, JustIf

\* What a swap makes of the first rows, frame by frame.
LEMMA SwapHalves ==
  ASSUME GauntletInv, Paint, First, Waits(<<G("swaprows", 0)>>),
         target \notin {"rewriting", "recreating", "swapsother"}
  PROVE  /\ HalfSwapped' /\ Waits(<<G("swapback", 0)>>)' /\ Frame /\ UNCHANGED <<nextId, nodes>>
         /\ Sees({N - 1}, {N - 1})
  <1>1. Far = N - 1 /\ N \in Nat /\ N >= 7
    BY FarIs
  <1>2. Len(rows) = N /\ \A i \in 1..N : rows[i].id = i /\ rows[i].node = i
    BY FirstIs
  <1>3. /\ Frame /\ UNCHANGED <<nextId, nodes>> /\ Waits(<<G("swapback", 0)>>)'
        /\ Sees({rows[Far].node}, {rows[Far].node}) /\ Len(rows') = Len(rows)
        /\ rows'[2] = rows[Far]
        /\ \A i \in 1..Len(rows) : /\ i = 1 \/ i > Far => rows'[i] = rows[i]
                                   /\ 2 < i /\ i <= Far => rows'[i] = rows[i - 1]
    BY SwapPaints
  <1>4. ASSUME NEW i \in 1..N PROVE rows'[i].id = Halfway(i) /\ rows'[i].node = Halfway(i)
    <2>1. CASE i = 2
      <3>1. N - 1 \in 1..N
        BY <1>1
      <3> QED
        BY <1>1, <1>2, <1>3, <2>1, <3>1 DEF Halfway
    <2>2. CASE i = 1 \/ i > N - 1
      <3>1. rows'[i] = rows[i]
        BY <1>1, <1>2, <1>3, <2>2
      <3>2. Halfway(i) = i
        BY <1>1, <2>2 DEF Halfway
      <3> QED
        BY <1>2, <3>1, <3>2
    <2>3. CASE 2 < i /\ i <= N - 1
      <3>1. rows'[i] = rows[i - 1] /\ i - 1 \in 1..N
        BY <1>1, <1>2, <1>3, <2>3
      <3>2. Halfway(i) = i - 1
        BY <1>1, <2>3 DEF Halfway
      <3> QED
        BY <1>2, <3>1, <3>2
    <2> QED
      BY <1>1, <2>1, <2>2, <2>3
  <1>5. HalfSwapped'
    <2>1. \A i : Halfway(i)' = Halfway(i)
      BY DEF Halfway
    <2> QED
      BY <1>2, <1>3, <1>4, <2>1 DEF HalfSwapped
  <1>6. rows[Far].node = N - 1
    BY <1>1, <1>2
  <1> QED
    BY <1>3, <1>5, <1>6

\* The second frame of a swap.
LEMMA BackSwaps ==
  ASSUME GauntletInv, Paint, HalfSwapped, Head(pending) = G("swapback", 0), target # "swapsother"
  PROVE  /\ FullySwapped' /\ pending' = <<>> \o Tail(pending) /\ Frame /\ UNCHANGED <<nextId, nodes>>
         /\ Sees({2}, {2})
  <1>1. Far = N - 1 /\ N \in Nat /\ N >= 7
    BY FarIs
  <1>2. Len(rows) = N /\ \A i \in 1..N : rows[i].id = Halfway(i) /\ rows[i].node = Halfway(i)
    BY DEF HalfSwapped
  <1>3. /\ Frame /\ UNCHANGED <<nextId, nodes>> /\ pending' = <<>> \o Tail(pending)
        /\ Sees({rows[3].node}, {rows[3].node}) /\ Len(rows') = Len(rows)
        /\ rows'[Far] = rows[3]
        /\ \A i \in 1..Len(rows) : /\ i < 3 \/ i > Far => rows'[i] = rows[i]
                                   /\ 3 <= i /\ i < Far => rows'[i] = rows[i + 1]
    BY BackPaints
  <1>4. ASSUME NEW i \in 1..N PROVE rows'[i].id = Exchanged(i) /\ rows'[i].node = Exchanged(i)
    <2>1. CASE i = N - 1
      <3>1. Halfway(3) = 2 /\ Exchanged(i) = 2 /\ 3 \in 1..N
        BY <1>1, <2>1 DEF Halfway, Exchanged
      <3> QED
        BY <1>1, <1>2, <1>3, <2>1, <3>1
    <2>2. CASE i < 3 \/ i > N - 1
      <3>1. rows'[i] = rows[i]
        BY <1>1, <1>2, <1>3, <2>2
      <3>2. Halfway(i) = Exchanged(i)
        BY <1>1, <2>2 DEF Halfway, Exchanged
      <3> QED
        BY <1>2, <3>1, <3>2
    <2>3. CASE 3 <= i /\ i < N - 1
      <3>1. rows'[i] = rows[i + 1] /\ i + 1 \in 1..N
        BY <1>1, <1>2, <1>3, <2>3
      <3>2. Halfway(i + 1) = i /\ Exchanged(i) = i
        BY <1>1, <2>3 DEF Halfway, Exchanged
      <3> QED
        BY <1>2, <3>1, <3>2
    <2> QED
      BY <1>1, <2>1, <2>2, <2>3
  <1>5. FullySwapped'
    <2>1. \A i : Exchanged(i)' = Exchanged(i)
      BY DEF Exchanged
    <2> QED
      BY <1>2, <1>3, <1>4, <2>1 DEF FullySwapped, TextsSwapped
  <1>6. rows[3].node = 2
    BY <1>1, <1>2 DEF Halfway
  <1> QED
    BY <1>3, <1>5, <1>6

\* The target that swaps the wrong row.
LEMMA OtherSwaps ==
  ASSUME GauntletInv, Paint, First, Waits(<<G("swaprows", 0)>>), target = "swapsother"
  PROVE  Frame /\ Waits(<<G("swapback", 0)>>)' /\ Len(rows') = N /\ rows'[2].id = N
  <1>1. Far = N /\ N \in Nat /\ N >= 7
    BY FarIs
  <1>2. Len(rows) = N /\ rows[N].id = N
    BY <1>1, FirstIs
  <1>3. /\ Frame /\ Waits(<<G("swapback", 0)>>)' /\ Len(rows') = Len(rows) /\ rows'[2] = rows[Far]
    BY SwapPaints
  <1> QED
    BY <1>1, <1>2, <1>3

\* And that of a target that swaps another row.
LEMMA OtherBack ==
  ASSUME GauntletInv, Paint, Len(rows) = N, rows[2].id = N, Waits(<<G("swapback", 0)>>)
  PROVE  Frame /\ Quiet' /\ Len(rows') = N /\ rows'[2].id = N
  <1>1. Head(pending) = G("swapback", 0) /\ <<>> \o Tail(pending) = <<>>
    BY OneWaits
  <1>2. N \in Nat /\ N >= 7
    BY FarIs
  <1>3. /\ Frame /\ pending' = <<>> \o Tail(pending) /\ Len(rows') = Len(rows)
        /\ \A i \in 1..Len(rows) : i < 3 \/ i > Far => rows'[i] = rows[i]
    BY <1>1, BackPaints
  <1>4. rows'[2] = rows[2]
    BY <1>2, <1>3
  <1> QED
    BY <1>1, <1>3, <1>4 DEF Quiet

\* The targets that swap in place.
LEMMA TextsSwap ==
  ASSUME GauntletInv, Paint, First, Waits(<<G("swaprows", 0)>>), target \in {"rewriting", "recreating"}
  PROVE  /\ TextsSwapped' /\ Quiet' /\ Frame
         /\ target = "rewriting" => Sees({}, {})
         /\ target = "recreating" => Sees({N + 1, N + 2}, {2, N - 1})
  <1>1. Far = N - 1 /\ N \in Nat /\ N >= 7
    BY FarIs
  <1>2. Len(rows) = N /\ nodes = N /\ \A i \in 1..N : rows[i].id = i /\ rows[i].node = i
    BY FirstIs
  <1>3. /\ Frame /\ Quiet' /\ Len(rows') = Len(rows)
        /\ target = "rewriting" => Sees({}, {})
        /\ target = "recreating" => Sees({nodes + 1, nodes + 2}, {rows[2].node, rows[Far].node})
        /\ rows'[2].id = rows[Far].id /\ rows'[Far].id = rows[2].id
        /\ \A i \in 1..Len(rows) : i # 2 /\ i # Far => rows'[i] = rows[i]
    BY InPlacePaints
  <1>4. 2 \in 1..N /\ Far \in 1..N
    BY <1>1
  <1>5. ASSUME NEW i \in 1..N PROVE rows'[i].id = Exchanged(i)
    BY <1>1, <1>2, <1>3, <1>4 DEF Exchanged
  <1>6. TextsSwapped'
    <2>1. \A i : Exchanged(i)' = Exchanged(i)
      BY DEF Exchanged
    <2> QED
      BY <1>2, <1>3, <1>5, <2>1 DEF TextsSwapped
  <1>7. rows[2].node = 2 /\ rows[Far].node = N - 1 /\ nodes + 1 = N + 1 /\ nodes + 2 = N + 2
    BY <1>1, <1>2, <1>4
  <1> QED
    BY <1>3, <1>6, <1>7

\* What operation 5 (swap) asks after its table is filled, and who fails it.
LEMMA Program5 ==
  ASSUME Op = 5
  PROVE  /\ (pc = 3 => Now = Step("read", 1, 0)) /\ (pc = 4 => Now = Step("read", 2, 0))
         /\ (pc = 5 => Now = Step("read", 3, 0)) /\ (pc = 6 => Now = Step("read", N - 2, 0))
         /\ (pc = 7 => Now = Step("read", N - 1, 0)) /\ (pc = 8 => Now = Step("read", N, 0))
         /\ (pc = 9 => Now = Press("swaprows"))
         /\ (pc = 10 => Now = Step("was", 2, N - 1)) /\ (pc = 11 => Now = Step("was", N - 1, 2))
         /\ (pc = 12 => Now = Step("was", 1, 1)) /\ (pc = 13 => Now = Step("was", 3, 3))
         /\ (pc = 14 => Now = Step("was", N - 2, N - 2)) /\ (pc = 15 => Now = Step("was", N, N))
         /\ Len(Program[Op]) = 15 /\ (Fails <=> target = "swapsother")
  BY Now5, FailsWhen

\* What is asked of the rows after the swap, of which the answers were read before.
LEMMA Program5Asks ==
  ASSUME GauntletInv, Op = 5, pc \in {10, 11, 12, 13, 14, 15}, Read5
  PROVE  /\ Now.do = "was"
         /\ pc = 10 => (Answer <=> 2 \in 1..Len(rows) /\ rows[2].id = N - 1)
         /\ pc = 11 => (Answer <=> N - 1 \in 1..Len(rows) /\ rows[N - 1].id = 2)
         /\ pc = 12 => (Answer <=> 1 \in 1..Len(rows) /\ rows[1].id = 1)
         /\ pc = 13 => (Answer <=> 3 \in 1..Len(rows) /\ rows[3].id = 3)
         /\ pc = 14 => (Answer <=> N - 2 \in 1..Len(rows) /\ rows[N - 2].id = N - 2)
         /\ pc = 15 => (Answer <=> N \in 1..Len(rows) /\ rows[N].id = N)
  <1>1. ReadSo({1}) /\ ReadSo({2}) /\ ReadSo({3}) /\ ReadSo({N - 2}) /\ ReadSo({N - 1}) /\ ReadSo({N})
    BY DEF Read5
  <1>2. \A j \in {1, 2, 3, N - 2, N - 1, N} : saved.pre[j] = j
    BY <1>1 DEF ReadSo
  <1>3. ASSUME NEW r, NEW w \in {1, 2, 3, N - 2, N - 1, N}, Now = Step("was", r, w)
        PROVE  (Answer <=> r \in 1..Len(rows) /\ rows[r].id = w) /\ Now.do = "was"
    BY <1>2, <1>3, WasIs
  <1>4. CASE pc = 10
    BY <1>3, <1>4, Program5
  <1>5. CASE pc = 11
    BY <1>3, <1>5, Program5
  <1>6. CASE pc = 12
    BY <1>3, <1>6, Program5
  <1>7. CASE pc = 13
    BY <1>3, <1>7, Program5
  <1>8. CASE pc = 14
    BY <1>3, <1>8, Program5
  <1>9. CASE pc = 15
    BY <1>3, <1>9, Program5
  <1> QED
    BY <1>4, <1>5, <1>6, <1>7, <1>8, <1>9

\* Operation 5 (swap): wherever it has come to, the closer's verdict is just.
LEMMA Course5Just == ASSUME GauntletInv, Op = 5, Course5 PROVE Just
  <1>0. N \in Nat /\ N >= 7
    BY HasIs
  <1>1. CASE Opening /\ pc < 3
    <2>1. pc \in Nat
      BY <1>1 DEF Opening
    <2> QED
      BY <1>1, <2>1, RunAsks, OpensJust
  <1>2. CASE pc \in {3, 4, 5, 6, 7, 8} /\ First /\ Quiet
    <2>1. \E r \in {1, 2, 3, N - 2, N - 1, N} : Now = Step("read", r, 0)
      BY <1>2, Program5
    <2>2. \A r \in {1, 2, 3, N - 2, N - 1, N} : r \in 1..N
      BY <1>0
    <2> QED
      BY <1>2, <2>1, <2>2, ReadJust
  <1>3. CASE pc = 9 /\ First /\ Quiet
    <2>1. Now = Step("swaprows", 0, 0) /\ Timely
      BY <1>3, Program5, TimelyIf DEF Press
    <2> QED
      BY <2>1, JustIf DEF Clicks
  <1>4. ASSUME pc \in {10, 11, 12, 13, 14, 15}, Read5, Prompt,
               ~Answer /\ Quiet => Fails, Answer /\ pc = 15 => ~Fails
        PROVE  Just
    <2>1. Now.do \in Polled /\ Now.do # "bigcount" /\ Len(Program[Op]) = 15
      BY <1>4, Program5, Program5Asks DEF Polled
    <2> QED
      BY <1>4, <2>1, PromptIs, PollJust
  <1>5. CASE Read5 /\ pc = 10 /\ First /\ Waits(<<G("swaprows", 0)>>)
    <2>1. ~Quiet /\ Prompt
      BY <1>5, QuietIs, PromptIs
    <2> QED
      BY <1>4, <1>5, <2>1
  <1>6. CASE Read5 /\ pc \in {10, 11} /\ Waits(<<G("swapback", 0)>>)
    <2>1. ~Quiet /\ Prompt
      BY <1>6, QuietIs, PromptIs
    <2> QED
      BY <1>4, <1>6, <2>1
  <1>7. CASE Read5 /\ target # "swapsother" /\ pc \in {10, 11, 12, 13, 14, 15} /\ TextsSwapped /\ Quiet
    <2>1. /\ Len(rows) = N
          /\ \A i \in 1..N : rows[i].id = Exchanged(i)
      BY <1>7 DEF TextsSwapped
    <2>2. /\ rows[2].id = N - 1 /\ rows[N - 1].id = 2 /\ rows[1].id = 1 /\ rows[3].id = 3
          /\ rows[N - 2].id = N - 2 /\ rows[N].id = N
      BY <1>0, <2>1 DEF Exchanged
    <2>3. {1, 2, 3, N - 2, N - 1, N} \subseteq 1..Len(rows)
      BY <1>0, <2>1
    <2>4. Answer
      BY <1>7, <2>2, <2>3, Program5Asks
    <2> QED
      BY <1>4, <1>7, <2>4, Program5, PromptIs
  <1>8. CASE Read5 /\ target = "swapsother" /\ pc = 10 /\ Len(rows) = N /\ rows[2].id = N /\ Quiet
    <2>1. Prompt /\ Fails
      BY <1>8, Program5, PromptIs
    <2> QED
      BY <1>4, <1>8, <2>1
  <1> QED
    BY <1>1, <1>2, <1>3, <1>5, <1>6, <1>7, <1>8 DEF Course5, Opening

\* Operation 5: the next step finds the page where it should be.
LEMMA Course5Goes == ASSUME GauntletInv, Op = 5, Course5, Goes PROVE Course5'
  <1>0. N \in Nat /\ N >= 7
    BY HasIs
  <1>1. CASE Opening /\ pc < 3
    <2>1. pc \in Nat
      BY <1>1 DEF Opening
    <2> QED
      BY <1>1, <2>1, RunAsks, OpensGoes DEF Course5
  <1>2. CASE pc \in {3, 4, 5, 6, 7, 8} /\ First /\ Quiet /\ Read5
    <2> DEFINE r == CASE pc = 3 -> 1 [] pc = 4 -> 2 [] pc = 5 -> 3
                      [] pc = 6 -> N - 2 [] pc = 7 -> N - 1 [] OTHER -> N
    <2>1. Now = Step("read", r, 0)
      BY <1>2, Program5
    <2>2. /\ r \in 1..N /\ {1, 2, 3, N - 2, N - 1, N} \subseteq 1..N
      BY <1>0, <1>2
    <2>3. /\ pc = 3 => r = 1
          /\ pc = 4 => r = 2
          /\ pc = 5 => r = 3
          /\ pc = 6 => r = N - 2
          /\ pc = 7 => r = N - 1
          /\ pc = 8 => r = N
      BY <1>2
    <2> HIDE DEF r
    <2>4. /\ saved'.pre[r] = r /\ \A i \in 1..N : saved.pre[i] = i => saved'.pre[i] = i
          /\ pc' = pc + 1 /\ First' /\ Quiet'
      BY <1>2, <2>1, <2>2, ReadGoes
    <2>5. Read5'
      BY <1>2, <2>2, <2>3, <2>4 DEF Read5, ReadSo
    <2> QED
      BY <1>2, <2>4, <2>5 DEF Course5
  <1>3. CASE pc = 9 /\ First /\ Quiet /\ Read5
    <2>1. pc' = 10 /\ First' /\ Waits(<<G("swaprows", 0)>>)' /\ saved' = saved
      BY <1>3, Program5, Pressed DEF Clicks
    <2>2. Read5'
      BY <1>3, <2>1 DEF Read5, ReadSo
    <2> QED
      BY <2>1, <2>2 DEF Course5
  <1>4. ASSUME pc \in {10, 11, 12, 13, 14, 15}, Read5
        PROVE  /\ Answer /\ pc # 15 /\ pc' = pc + 1 /\ UNCHANGED <<target, rows, pending, saved>>
               /\ Read5'
    <2>1. "was" \in Polled
      BY DEF Polled
    <2>2. \E r, w : Now = Step("was", r, w)
      BY <1>4, Program5
    <2>3. Answer /\ pc # Len(Program[Op]) /\ pc' = pc + 1 /\ UNCHANGED <<target, rows, pending, saved>>
      BY <2>1, <2>2, Answered
    <2>4. Len(Program[Op]) = 15
      BY Program5
    <2> QED
      BY <1>4, <2>3, <2>4 DEF Read5, ReadSo
  <1>5. CASE Read5 /\ pc = 10 /\ First /\ Waits(<<G("swaprows", 0)>>)
    <2>1. 2 \in 1..N
      BY <1>0
    <2>2. rows[2].id = 2 /\ 2 # N - 1
      BY <1>0, <1>5, <2>1, FirstIs
    <2> QED
      BY <1>4, <1>5, <2>2, Program5Asks
  <1>6. CASE Read5 /\ target # "swapsother" /\ pc \in {10, 11} /\ HalfSwapped /\ Waits(<<G("swapback", 0)>>)
    <2>1. Len(rows) = N /\ \A i \in 1..N : rows[i].id = Halfway(i)
      BY <1>6 DEF HalfSwapped
    <2>2. rows[N - 1].id = N - 2 /\ N - 2 # 2
      BY <1>0, <2>1 DEF Halfway
    <2>3. pc # 11
      BY <1>4, <1>6, <2>2, Program5Asks
    <2>4. HalfSwapped' /\ Waits(<<G("swapback", 0)>>)' /\ pc' = 11 /\ target' = target /\ Read5'
      BY <1>4, <1>6, <2>3 DEF HalfSwapped, Halfway, Waits
    <2> QED
      BY <1>6, <2>4 DEF Course5
  <1>7. CASE Read5 /\ target # "swapsother" /\ pc \in {10, 11, 12, 13, 14, 15} /\ TextsSwapped /\ Quiet
    <2>1. TextsSwapped' /\ Quiet' /\ pc' = pc + 1 /\ pc # 15 /\ target' = target /\ Read5'
      BY <1>4, <1>7 DEF TextsSwapped, Exchanged, Quiet
    <2> QED
      BY <1>7, <2>1 DEF Course5
  <1>8. CASE Read5 /\ target = "swapsother" /\ pc = 10 /\ Len(rows) = N /\ rows[2].id = N
    <2>1. N # N - 1
      BY <1>0
    <2> QED
      BY <1>4, <1>8, <2>1, Program5Asks
  <1> QED
    BY <1>1, <1>2, <1>3, <1>5, <1>6, <1>7, <1>8 DEF Course5, Opening, Read5

\* Operation 5: a frame leaves it on course.
LEMMA Course5Paints == ASSUME GauntletInv, Course5, Paint PROVE Course5'
  <1>1. CASE Opening
    BY <1>1, OpensPaints DEF Course5
  <1>2. ASSUME Frame, Read5 PROVE pc' = pc /\ target' = target /\ Read5'
    BY <1>2 DEF Frame, Read5, ReadSo
  <1>3. CASE Read5 /\ pc = 10 /\ First /\ Waits(<<G("swaprows", 0)>>)
    <2>1. CASE target = "swapsother"
      BY <1>2, <1>3, <2>1, OtherSwaps DEF Course5
    <2>2. CASE target \in {"rewriting", "recreating"}
      BY <1>2, <1>3, <2>2, TextsSwap DEF Course5
    <2>3. CASE target \notin {"rewriting", "recreating", "swapsother"}
      BY <1>2, <1>3, <2>3, SwapHalves DEF Course5
    <2> QED
      BY <2>1, <2>2, <2>3
  <1>4. CASE Read5 /\ target # "swapsother" /\ pc \in {10, 11} /\ HalfSwapped /\ Waits(<<G("swapback", 0)>>)
    <2>1. Head(pending) = G("swapback", 0) /\ <<>> \o Tail(pending) = <<>>
      BY <1>4, OneWaits
    <2>2. FullySwapped' /\ pending' = <<>> \o Tail(pending) /\ Frame
      BY <1>4, <2>1, BackSwaps
    <2>3. Quiet' /\ TextsSwapped'
      BY <2>1, <2>2 DEF Quiet, FullySwapped
    <2> QED
      BY <1>2, <1>4, <2>2, <2>3 DEF Course5
  <1>5. CASE /\ Read5 /\ target = "swapsother" /\ pc = 10 /\ Len(rows) = N /\ rows[2].id = N
             /\ Waits(<<G("swapback", 0)>>)
    BY <1>2, <1>5, OtherBack DEF Course5
  <1> QED
    BY <1>1, <1>3, <1>4, <1>5, QuietIs DEF Course5

\* When a judgement of what was read is just, and what it leaves.
LEMMA JudgeJust ==
  ASSUME Timely, Now.do \in Judged,
         Holds /\ pc = Len(Program[Op]) => ~Fails, ~Holds => Fails
  PROVE  Just
  <1>1. Now.do \notin Clicks \cup Polled /\ Now.do # "read"
    BY DEF Clicks, Polled, Judged
  <1> QED
    BY <1>1 DEF Just

\* A judgement that holds leaves the page as it is.
LEMMA Judgement ==
  ASSUME Goes, NEW d \in Judged, NEW r, NEW w, Now = Step(d, r, w)
  PROVE  /\ pc # Len(Program[Op]) /\ pc' = pc + 1 /\ Holds /\ ~found'
         /\ UNCHANGED <<target, results, rows, nextId, nodes, pending, saved, kd>>
         /\ (First => First') /\ (Quiet => Quiet')
  <1>2. /\ pc # Len(Program[Op]) /\ pc' = pc + 1 /\ ~found' /\ UNCHANGED <<target, results, rows, nextId, nodes>>
        /\ Holds /\ SamePage
    BY Asked
  <1> QED
    BY <1>2, QuietIs, PageStays DEF SamePage

\* What operation 6 (remove) asks after its table is filled, and who fails it.
LEMMA Program6 ==
  ASSUME Op = 6
  PROVE  /\ (pc = 3 => Now = Step("read", 4, 0)) /\ (pc = 4 => Now = Step("read", 5, 0))
         /\ (pc = 5 => Now = Step("read", 6, 0)) /\ (pc = 6 => Now = Step("remove", 4, 0))
         /\ (pc = 7 => Now = Step("was", 4, 5)) /\ (pc = 8 => Now = Step("was", 5, 6))
         /\ (pc = 9 => Now = Step("count", 0, N - 1)) /\ (pc = 10 => Now = Step("gone", 4, 5))
         /\ Len(Program[Op]) = 10 /\ (Fails <=> target = "removesnext")
  BY Now6, FailsWhen

Shrunk == Len(rows) = N - 1 /\ rows[4].id = 5 /\ rows[5].id = 6

\* What the questions of operation 6 come to.
LEMMA Program6Asks ==
  ASSUME GauntletInv, Op = 6, pc \in {7, 8, 9}, ReadSo({4, 5, 6})
  PROVE  /\ pc = 7 => (Answer <=> 4 \in 1..Len(rows) /\ rows[4].id = 5)
         /\ pc = 8 => (Answer <=> 5 \in 1..Len(rows) /\ rows[5].id = 6)
         /\ pc = 9 => (Answer <=> Len(rows) = N - 1)
         /\ Now.do \in Polled /\ Now.do # "bigcount"
  <1>1. saved.pre[5] = 5 /\ saved.pre[6] = 6
    BY DEF ReadSo
  <1>2. CASE pc = 7
    BY <1>1, <1>2, Program6, WasIs DEF Polled
  <1>3. CASE pc = 8
    BY <1>1, <1>3, Program6, WasIs DEF Polled
  <1>4. CASE pc = 9
    BY <1>4, Program6, CountIs DEF Polled
  <1> QED
    BY <1>2, <1>3, <1>4

\* Operation 6 (remove): wherever it has come to, the closer's verdict is just.
LEMMA Course6Just == ASSUME GauntletInv, Op = 6, Course6 PROVE Just
  <1>0. N \in Nat /\ N >= 7
    BY HasIs
  <1>1. CASE Opening /\ pc < 3
    <2>1. pc \in Nat
      BY <1>1 DEF Opening
    <2> QED
      BY <1>1, <2>1, RunAsks, OpensJust
  <1>2. CASE pc \in {3, 4, 5} /\ First /\ Quiet
    <2>1. \E r \in {4, 5, 6} : Now = Step("read", r, 0)
      BY <1>2, Program6
    <2>2. \A r \in {4, 5, 6} : r \in 1..N
      BY <1>0
    <2> QED
      BY <1>2, <2>1, <2>2, ReadJust
  <1>3. CASE pc = 6 /\ First /\ Quiet
    <2>1. Now = Step("remove", 4, 0) /\ Timely /\ Has(4) /\ "remove" \in Clicks /\ "remove" # "clear"
      <3>1. 4 \in 1..N
        BY <1>0
      <3> QED
        BY <1>3, <3>1, Program6, TimelyIf, FirstIs DEF Clicks
    <2> QED
      BY <2>1, JustIf
  <1>4. ASSUME pc \in {7, 8, 9}, ReadSo({4, 5, 6}), Prompt, ~Answer /\ Quiet => Fails
        PROVE  Just
    <2>1. Now.do \in Polled /\ Now.do # "bigcount" /\ pc # Len(Program[Op])
      <3>1. Len(Program[Op]) = 10
        BY Program6
      <3> QED
        BY <1>4, <3>1, Program6Asks
    <2> QED
      BY <1>4, <2>1, PromptIs, PollJust
  <1>5. CASE ReadSo({4, 5, 6}) /\ pc = 7 /\ First /\ Waits(<<G("remove", 4)>>)
    <2>1. ~Quiet /\ Prompt
      BY <1>5, QuietIs, PromptIs
    <2> QED
      BY <1>4, <1>5, <2>1
  <1>6. CASE ReadSo({4, 5, 6}) /\ target # "removesnext" /\ pc \in {7, 8, 9} /\ Quiet /\ Shrunk
    <2>1. Answer
      BY <1>0, <1>6, Program6Asks DEF Shrunk
    <2> QED
      BY <1>4, <1>6, <2>1, PromptIs
  <1>7. CASE ReadSo({4, 5, 6}) /\ target # "removesnext" /\ pc = 10 /\ Quiet
    <2>1. Holds /\ Now.do \in Judged
      <3>1. saved.pre[4] # saved.pre[5] /\ Now = Step("gone", 4, 5)
        BY <1>7, Program6 DEF ReadSo
      <3> QED
        BY <3>1, HoldsIs DEF Step, Judged
    <2>2. Timely
      BY <1>7, TimelyIf
    <2> QED
      BY <1>7, <2>1, <2>2, Program6, JudgeJust
  <1>8. CASE ReadSo({4, 5, 6}) /\ target = "removesnext" /\ pc = 7 /\ Quiet
    <2>1. Fails
      BY <1>8, Program6
    <2> QED
      BY <1>4, <1>8, <2>1, PromptIs
  <1> QED
    BY <1>1, <1>2, <1>3, <1>5, <1>6, <1>7, <1>8 DEF Course6, Opening, Shrunk

\* Operation 6: the next step finds the page where it should be.
LEMMA Course6Goes == ASSUME GauntletInv, Op = 6, Course6, Goes PROVE Course6'
  <1>0. N \in Nat /\ N >= 7
    BY HasIs
  <1>1. CASE Opening /\ pc < 3
    <2>1. pc \in Nat
      BY <1>1 DEF Opening
    <2> QED
      BY <1>1, <2>1, RunAsks, OpensGoes DEF Course6
  <1>2. ASSUME pc \in {3, 4, 5}, First, Quiet
        PROVE  /\ saved'.pre[pc + 1] = pc + 1 /\ \A i \in 1..N : saved.pre[i] = i => saved'.pre[i] = i
               /\ pc' = pc + 1 /\ First' /\ Quiet'
    <2>1. Now = Step("read", pc + 1, 0) /\ pc + 1 \in 1..N
      <3>1. /\ pc = 3 => pc + 1 = 4
            /\ pc = 4 => pc + 1 = 5
            /\ pc = 5 => pc + 1 = 6
        OBVIOUS
      <3> QED
        BY <1>0, <1>2, <3>1, Program6
    <2> QED
      BY <1>2, <2>1, ReadGoes
  <1>3. 4 \in 1..N /\ 5 \in 1..N
    BY <1>0
  <1>4. CASE pc = 3 /\ First /\ Quiet
    <2>1. ReadSo({4})' /\ pc' = 4 /\ First' /\ Quiet'
      BY <1>2, <1>4 DEF ReadSo
    <2> QED
      BY <2>1 DEF Course6
  <1>5. CASE pc = 4 /\ First /\ Quiet /\ ReadSo({4})
    <2>1. ReadSo({4, 5})' /\ pc' = 5 /\ First' /\ Quiet'
      BY <1>2, <1>3, <1>5 DEF ReadSo
    <2> QED
      BY <2>1 DEF Course6
  <1>6. CASE pc = 5 /\ First /\ Quiet /\ ReadSo({4, 5})
    <2>1. ReadSo({4, 5, 6})' /\ pc' = 6 /\ First' /\ Quiet'
      BY <1>2, <1>3, <1>6 DEF ReadSo
    <2> QED
      BY <2>1 DEF Course6
  <1>7. CASE pc = 6 /\ First /\ Quiet /\ ReadSo({4, 5, 6})
    <2>1. pc' = 7 /\ First' /\ Waits(<<G("remove", 4)>>)' /\ saved' = saved
      BY <1>7, Program6, Pressed DEF Clicks
    <2>2. ReadSo({4, 5, 6})'
      BY <1>7, <2>1 DEF ReadSo
    <2> QED
      BY <2>1, <2>2 DEF Course6
  <1>8. ASSUME pc \in {7, 8, 9}, ReadSo({4, 5, 6})
        PROVE  /\ Answer /\ pc' = pc + 1 /\ UNCHANGED <<target, rows>> /\ (Quiet => Quiet')
               /\ ReadSo({4, 5, 6})'
    <2>1. "was" \in Polled /\ "count" \in Polled
      BY DEF Polled
    <2>2. Answer /\ pc' = pc + 1 /\ UNCHANGED <<target, rows, saved>> /\ (Quiet => Quiet')
      BY <1>8, <2>1, Program6, Answered
    <2> QED
      BY <1>8, <2>2 DEF ReadSo
  <1>9. ~(ReadSo({4, 5, 6}) /\ pc = 7 /\ First)
    BY <1>3, <1>8, Program6Asks, FirstIs
  <1>10. CASE ReadSo({4, 5, 6}) /\ target # "removesnext" /\ pc \in {7, 8, 9} /\ Quiet /\ Shrunk
    <2>1. Shrunk'
      BY <1>8, <1>10 DEF Shrunk
    <2> QED
      BY <1>8, <1>10, <2>1 DEF Course6, Shrunk
  <1>11. pc # 10
    <2>1. "gone" \in Judged
      BY DEF Judged
    <2> QED
      BY <2>1, Program6, Judgement
  <1>12. ~(ReadSo({4, 5, 6}) /\ pc = 7 /\ rows[4].id = 4)
    BY <1>8, Program6Asks
  <1> QED
    BY <1>1, <1>4, <1>5, <1>6, <1>7, <1>9, <1>10, <1>11, <1>12 DEF Course6, Opening, Shrunk

\* Operation 6: a frame leaves it on course.
LEMMA Course6Paints == ASSUME GauntletInv, Course6, Paint PROVE Course6'
  <1>1. CASE Opening
    BY <1>1, OpensPaints DEF Course6
  <1>2. CASE ReadSo({4, 5, 6}) /\ pc = 7 /\ First /\ Waits(<<G("remove", 4)>>)
    <2> DEFINE n == IF target = "removesnext" THEN 4 + 1 ELSE 4
    <2>1. Len(rows) = N /\ N \in Nat /\ N >= 7 /\ \A i \in 1..N : rows[i].id = i
      BY <1>2, FirstIs, HasIs
    <2>2. n = IF target = "removesnext" THEN 4 + 1 ELSE 4
      OBVIOUS
    <2> HIDE DEF n
    <2>3. /\ Frame /\ Quiet' /\ Len(rows') = Len(rows) - 1
          /\ \A i \in 1..(Len(rows) - 2) : rows'[i].id = IF i < n THEN rows[i].id ELSE rows[i + 1].id
      <3>1. Len(rows) >= 2
        BY <2>1
      <3> QED
        BY <1>2, <2>2, <3>1, RemovePaints
    <2>4. pc' = 7 /\ target' = target /\ ReadSo({4, 5, 6})'
      BY <1>2, <2>3 DEF Frame, ReadSo
    <2>5. 4 \in 1..(Len(rows) - 2) /\ 5 \in 1..(Len(rows) - 2) /\ {4, 5, 6} \subseteq 1..N
      BY <2>1
    <2>6. rows'[4].id = (IF target = "removesnext" THEN 4 ELSE 5)
      BY <2>1, <2>2, <2>3, <2>5
    <2>7. target # "removesnext" => rows'[5].id = 6
      BY <2>1, <2>2, <2>3, <2>5
    <2> QED
      BY <2>1, <2>3, <2>4, <2>6, <2>7 DEF Course6
  <1> QED
    BY <1>1, <1>2, QuietIs DEF Course6

\* What operation 7 (create) asks after its table is filled, and who fails it.
LEMMA Program7 ==
  ASSUME Op = 7
  PROVE  /\ (pc = 1 => Now = Press("runlots")) /\ (pc = 2 => Now = Step("bigcount", 0, LotsN))
         /\ (pc = 3 => Now = Step("anchor", LotsN, 0)) /\ (pc = 4 => Now = Step("text", LotsN, LotsN))
         /\ Len(Program[Op]) = 4 /\ (Fails <=> target = "stopsshort")
  BY Now7, FailsWhen

\* What the questions of operation 7 come to.
LEMMA Program7Asks ==
  ASSUME GauntletInv, Op = 7, pc \in {2, 3, 4}
  PROVE  /\ pc = 2 => (Answer <=> Len(rows) = LotsN) /\ Now.do = "bigcount"
         /\ pc = 3 => (Answer <=> LotsN \in 1..Len(rows)) /\ Now.do = "anchor"
         /\ pc = 4 => (Answer <=> LotsN \in 1..Len(rows) /\ rows[LotsN].id = LotsN) /\ Now.do = "text"
         /\ Now.do \in Polled
  <1>2. CASE pc = 2
    BY <1>2, Program7, CountIs DEF Polled
  <1>3. CASE pc = 3
    BY <1>3, Program7, MarkIs DEF Polled
  <1>4. CASE pc = 4
    BY <1>4, Program7, TextIs DEF Polled
  <1> QED
    BY <1>2, <1>3, <1>4

\* Operation 7 (create): wherever it has come to, the closer's verdict is just.
LEMMA Course7Just == ASSUME GauntletInv, Op = 7, Course7 PROVE Just
  <1>0. N \in Nat /\ LotsN \in Nat /\ LotsN > N /\ Len(Program[Op]) = 4
    BY HasIs, Program7
  <1>1. CASE pc = 1 /\ Quiet
    <2>1. Now = Step("runlots", 0, 0) /\ Timely
      BY <1>1, Program7, TimelyIf DEF Press
    <2> QED
      BY <2>1, JustIf DEF Clicks
  <1>2. CASE pc = 2 /\ (Waits(<<G("runlots", 0)>>) \/ Waits(<<G("filllots", 0)>>))
    <2>1. Slow(G("runlots", 0)) /\ Slow(G("filllots", 0)) /\ Now.do = "bigcount" /\ Now.do \in Polled
      BY <1>2, Program7Asks DEF Slow, G
    <2>2. Timely /\ ~Quiet
      BY <1>2, <2>1, TimelyIf, QuietIs
    <2> QED
      BY <1>0, <1>2, <2>1, <2>2, PollJust
  <1>3. CASE target # "stopsshort" /\ pc \in {2, 3, 4} /\ Numbered(LotsN, 0) /\ Quiet
    <2>1. LotsN \in 1..Len(rows) /\ rows[LotsN].id = LotsN /\ Len(rows) = LotsN
      BY <1>0, <1>3 DEF Numbered
    <2>2. Answer /\ Timely /\ Now.do \in Polled
      BY <1>3, <2>1, Program7Asks, TimelyIf
    <2> QED
      BY <1>3, <2>2, Program7, PollJust
  <1>4. CASE target = "stopsshort" /\ pc = 2 /\ Len(rows) = N /\ Quiet
    <2>1. Timely /\ Fails /\ Now.do \in Polled
      BY <1>4, Program7, Program7Asks, TimelyIf
    <2> QED
      BY <1>0, <1>4, <2>1, PollJust
  <1> QED
    BY <1>1, <1>2, <1>3, <1>4 DEF Course7

\* Operation 7: the next step finds the page where it should be.
LEMMA Course7Goes == ASSUME GauntletInv, Op = 7, Course7, Goes PROVE Course7'
  <1>0. N \in Nat /\ LotsN \in Nat /\ LotsN > N /\ N >= 7
    BY HasIs
  <1>1. CASE pc = 1 /\ Clean /\ Quiet
    BY <1>1, Program7, Pressed DEF Course7, Clicks
  <1>2. ASSUME pc \in {2, 3, 4}
        PROVE  Answer /\ pc # 4 /\ pc' = pc + 1 /\ UNCHANGED <<target, rows>> /\ (Quiet => Quiet')
    <2>1. "bigcount" \in Polled /\ "anchor" \in Polled /\ "text" \in Polled
      BY DEF Polled
    <2> QED
      BY <1>2, <2>1, Program7, Answered
  <1>3. ~(pc = 2 /\ (Clean \/ Len(rows) = N))
    BY <1>0, <1>2, Program7Asks, HasIs DEF Clean
  <1>4. CASE target # "stopsshort" /\ pc \in {2, 3, 4} /\ Numbered(LotsN, 0) /\ Quiet
    <2>1. Numbered(LotsN, 0)'
      BY <1>2, <1>4 DEF Numbered
    <2> QED
      BY <1>2, <1>4, <2>1 DEF Course7
  <1> QED
    BY <1>1, <1>3, <1>4 DEF Course7

\* Operation 7: a frame leaves it on course.
LEMMA Course7Paints == ASSUME GauntletInv, Course7, Paint PROVE Course7'
  <1>1. CASE pc = 2 /\ Clean /\ Waits(<<G("runlots", 0)>>)
    BY <1>1, LotsPaints DEF Course7, Frame
  <1>2. CASE pc = 2 /\ Clean /\ Waits(<<G("filllots", 0)>>)
    <2> DEFINE n == IF target # "stopsshort" THEN LotsN ELSE N
    <2>1. n = IF "filllots" = "filllots" /\ target # "stopsshort" THEN LotsN ELSE N
      OBVIOUS
    <2>2. rows = <<>> /\ Len(rows) = 0 /\ nextId = 1 /\ n \in Nat
      BY <1>2, HasIs DEF Clean
    <2> HIDE DEF n
    <2>3. /\ Frame /\ Quiet' /\ Len(rows') = Len(rows) + n
          /\ rows = <<>> => \A i \in 1..n : rows'[i].id = nextId + i - 1
      BY <1>2, <2>1, GrownIs
    <2>4. Len(rows') = n /\ \A i \in 1..n : rows'[i].id = 0 + i
      BY <2>2, <2>3
    <2>5. pc' = 2 /\ target' = target
      BY <1>2, <2>3 DEF Frame
    <2> QED
      BY <2>1, <2>3, <2>4, <2>5 DEF Course7, Numbered
  <1> QED
    BY <1>1, <1>2, QuietIs DEF Course7

\* What operation 8 (append) asks after its table is filled, and who fails it.
LEMMA Program8 ==
  ASSUME Op = 8
  PROVE  /\ (pc = 3 => Now = Press("add")) /\ (pc = 4 => Now = Step("bigcount", 0, 2 * N))
         /\ (pc = 5 => Now = Step("text", N + 1, N + 1)) /\ (pc = 6 => Now = Step("text", 2 * N, 2 * N))
         /\ (pc = 7 => Now = Step("text", 1, 1))
         /\ Len(Program[Op]) = 7 /\ (Fails <=> target = "prepending")
  BY Now8, FailsWhen

\* What the questions of operation 8 come to.
LEMMA Program8Asks ==
  ASSUME GauntletInv, Op = 8, pc \in {4, 5, 6, 7}
  PROVE  /\ pc = 4 => (Answer <=> Len(rows) = 2 * N) /\ Now.do = "bigcount"
         /\ pc = 5 => (Answer <=> N + 1 \in 1..Len(rows) /\ rows[N + 1].id = N + 1) /\ Now.do = "text"
         /\ pc = 6 => (Answer <=> 2 * N \in 1..Len(rows) /\ rows[2 * N].id = 2 * N) /\ Now.do = "text"
         /\ pc = 7 => (Answer <=> 1 \in 1..Len(rows) /\ rows[1].id = 1) /\ Now.do = "text"
         /\ Now.do \in Polled
  <1>2. CASE pc = 4
    BY <1>2, Program8, CountIs DEF Polled
  <1>3. CASE pc = 5
    BY <1>3, Program8, TextIs DEF Polled
  <1>4. CASE pc = 6
    BY <1>4, Program8, TextIs DEF Polled
  <1>5. CASE pc = 7
    BY <1>5, Program8, TextIs DEF Polled
  <1> QED
    BY <1>2, <1>3, <1>4, <1>5

\* Operation 8 (append): wherever it has come to, the closer's verdict is just.
LEMMA Course8Just == ASSUME GauntletInv, Op = 8, Course8 PROVE Just
  <1>0. N \in Nat /\ N >= 7 /\ Len(Program[Op]) = 7
    BY HasIs, Program8
  <1>1. CASE Opening /\ pc < 3
    <2>1. pc \in Nat
      BY <1>1 DEF Opening
    <2> QED
      BY <1>1, <2>1, RunAsks, OpensJust
  <1>2. CASE pc = 3 /\ First /\ Quiet
    <2>1. Now = Step("add", 0, 0) /\ Timely
      BY <1>2, Program8, TimelyIf DEF Press
    <2> QED
      BY <2>1, JustIf DEF Clicks
  <1>3. CASE pc = 4 /\ First /\ Waits(<<G("add", 0)>>)
    <2>1. Slow(G("add", 0)) /\ Now.do = "bigcount" /\ Now.do \in Polled
      BY <1>3, Program8Asks, FirstIs DEF Slow, G
    <2>2. Timely /\ ~Quiet
      BY <1>3, <2>1, TimelyIf, QuietIs
    <2> QED
      BY <1>0, <1>3, <2>1, <2>2, PollJust
  <1>4. CASE target # "prepending" /\ pc \in {4, 5, 6, 7} /\ Numbered(2 * N, 0) /\ Quiet
    <2>1. /\ Len(rows) = 2 * N /\ {1, N + 1, 2 * N} \subseteq 1..Len(rows)
          /\ \A i \in {1, N + 1, 2 * N} : rows[i].id = i
      BY <1>0, <1>4 DEF Numbered
    <2>2. Answer /\ Timely /\ Now.do \in Polled
      BY <1>4, <2>1, Program8Asks, TimelyIf
    <2> QED
      BY <1>4, <2>2, Program8, PollJust
  <1>5. CASE target = "prepending" /\ pc \in {4, 5} /\ Quiet
    <2>1. Timely /\ Fails /\ Now.do \in Polled
      BY <1>5, Program8, Program8Asks, TimelyIf
    <2> QED
      BY <1>0, <1>5, <2>1, PollJust
  <1> QED
    BY <1>1, <1>2, <1>3, <1>4, <1>5 DEF Course8, Opening

\* Operation 8: the next step finds the page where it should be.
LEMMA Course8Goes == ASSUME GauntletInv, Op = 8, Course8, Goes PROVE Course8'
  <1>0. N \in Nat /\ N >= 7
    BY HasIs
  <1>1. CASE Opening /\ pc < 3
    <2>1. pc \in Nat
      BY <1>1 DEF Opening
    <2> QED
      BY <1>1, <2>1, RunAsks, OpensGoes DEF Course8
  <1>2. CASE pc = 3 /\ First /\ Quiet
    BY <1>2, Program8, Pressed DEF Course8, Clicks
  <1>3. ASSUME pc \in {4, 5, 6, 7}
        PROVE  Answer /\ pc # 7 /\ pc' = pc + 1 /\ UNCHANGED <<target, rows>> /\ (Quiet => Quiet')
    <2>1. "bigcount" \in Polled /\ "text" \in Polled
      BY DEF Polled
    <2> QED
      BY <1>3, <2>1, Program8, Answered
  <1>4. ~(pc = 4 /\ First)
    <2>1. N # 2 * N
      BY <1>0
    <2> QED
      BY <1>3, <2>1, Program8Asks, FirstIs
  <1>5. CASE target # "prepending" /\ pc \in {4, 5, 6, 7} /\ Numbered(2 * N, 0) /\ Quiet
    <2>1. Numbered(2 * N, 0)'
      BY <1>3, <1>5 DEF Numbered
    <2> QED
      BY <1>3, <1>5, <2>1 DEF Course8
  <1>6. CASE target = "prepending" /\ pc \in {4, 5} /\ Len(rows) = 2 * N /\ rows[N + 1].id = 1 /\ Quiet
    <2>1. N + 1 # 1
      BY <1>0
    <2>2. pc = 4
      BY <1>3, <1>6, <2>1, Program8Asks
    <2> QED
      BY <1>3, <1>6, <2>2 DEF Course8
  <1> QED
    BY <1>1, <1>2, <1>4, <1>5, <1>6 DEF Course8, Opening

\* Operation 8: a frame leaves it on course.
LEMMA Course8Paints == ASSUME GauntletInv, Course8, Paint PROVE Course8'
  <1>1. CASE Opening
    BY <1>1, OpensPaints DEF Course8
  <1>2. CASE pc = 4 /\ First /\ Waits(<<G("add", 0)>>)
    <2>1. Len(rows) = N /\ nextId = N + 1 /\ N \in Nat /\ N >= 7 /\ \A i \in 1..N : rows[i].id = i
      BY <1>2, FirstIs, HasIs
    <2>2. /\ Frame /\ Quiet' /\ Len(rows') = Len(rows) + N
          /\ target # "prepending" =>
               /\ \A i \in 1..Len(rows) : rows'[i] = rows[i]
               /\ \A i \in 1..N : rows'[Len(rows) + i].id = nextId + i - 1
          /\ target = "prepending" => \A i \in 1..Len(rows) : rows'[N + i] = rows[i]
      BY <1>2, GrownIs
    <2>3. pc' = 4 /\ target' = target /\ Len(rows') = 2 * N
      BY <1>2, <2>1, <2>2 DEF Frame
    <2>4. CASE target = "prepending"
      <3>1. rows'[N + 1] = rows[1] /\ rows[1].id = 1
        BY <2>1, <2>2, <2>4
      <3> QED
        BY <2>2, <2>3, <2>4, <3>1 DEF Course8
    <2>5. CASE target # "prepending"
      <3>1. ASSUME NEW i \in 1..(2 * N) PROVE rows'[i].id = i
        <4>1. CASE i <= N
          <5>1. i \in 1..N /\ i \in 1..Len(rows)
            BY <2>1, <4>1
          <5> QED
            BY <2>1, <2>2, <2>5, <5>1
        <4>2. CASE i > N
          <5>1. i - N \in 1..N /\ N + (i - N) = i /\ nextId + (i - N) - 1 = i
            BY <2>1, <4>2
          <5>2. rows'[N + (i - N)].id = nextId + (i - N) - 1
            BY <2>1, <2>2, <2>5, <5>1
          <5> QED
            BY <5>1, <5>2
        <4> QED
          BY <2>1, <4>1, <4>2
      <3>2. \A i \in 1..(2 * N) : 0 + i = i
        BY <2>1
      <3>3. Numbered(2 * N, 0)'
        BY <2>3, <3>1, <3>2 DEF Numbered
      <3> QED
        BY <2>2, <2>3, <2>5, <3>3 DEF Course8
    <2> QED
      BY <2>4, <2>5
  <1> QED
    BY <1>1, <1>2, QuietIs DEF Course8

\* What operation 9 (clear) asks after its table is filled, and who fails it.
LEMMA Program9 ==
  ASSUME Op = 9
  PROVE  /\ (pc = 3 => Now = Press("clear")) /\ (pc = 4 => Now = Step("count", 0, 0))
         /\ Len(Program[Op]) = 4 /\ (Fails <=> target \in {"leavesone", "buttonless"})
  BY Now9, FailsWhen

\* The only button that may be missing.
LEMMA ClearPresent ==
  ASSUME Now = Press("clear")
  PROVE  (Present <=> target # "buttonless") /\ Now = Step("clear", 0, 0) /\ Now.do \in Clicks /\ Now.do = "clear"
  <1>1. Now.row = 0 /\ Now.do = "clear"
    BY DEF Press, Step
  <1> QED
    BY <1>1 DEF Present, Clicks, Press

\* Operation 9 (clear): wherever it has come to, the closer's verdict is just.
LEMMA Course9Just == ASSUME GauntletInv, Op = 9, Course9 PROVE Just
  <1>0. N \in Nat /\ N >= 7 /\ Len(Program[Op]) = 4 /\ (pc = 4 => (Answer <=> Len(rows) = 0) /\ Now.do = "count")
    BY HasIs, Program9, CountIs
  <1>1. CASE Opening /\ pc < 3
    <2>1. pc \in Nat
      BY <1>1 DEF Opening
    <2> QED
      BY <1>1, <2>1, RunAsks, OpensJust
  <1>2. CASE pc = 3 /\ First /\ Quiet /\ (target = "buttonless" => ~found)
    <2>1. /\ Now = Step("clear", 0, 0) /\ Timely /\ "clear" \in Clicks
          /\ Present <=> target # "buttonless"
      BY <1>2, Program9, ClearPresent, TimelyIf DEF Clicks
    <2>2. target = "buttonless" => Fails
      BY Program9
    <2> QED
      BY <1>2, <2>1, <2>2, JustIf
  <1>3. ASSUME pc = 4, Prompt, Answer => ~Fails, ~Answer /\ Quiet => Fails
        PROVE  Just
    <2>1. Now.do \in Polled /\ Now.do # "bigcount"
      BY <1>0, <1>3 DEF Polled
    <2> QED
      BY <1>3, <2>1, PromptIs, PollJust
  <1>4. CASE pc = 4 /\ First /\ Waits(<<G("clear", 0)>>)
    <2>1. ~Answer /\ ~Quiet /\ Prompt
      BY <1>0, <1>4, FirstIs, QuietIs, PromptIs
    <2> QED
      BY <1>3, <1>4, <2>1
  <1>5. CASE pc = 4 /\ target \notin {"leavesone", "buttonless"} /\ rows = <<>> /\ Quiet
    <2>1. Answer /\ ~Fails /\ Prompt
      BY <1>0, <1>5, HasIs, Program9, PromptIs
    <2> QED
      BY <1>3, <1>5, <2>1
  <1>6. CASE pc = 4 /\ target = "leavesone" /\ Len(rows) = 1 /\ Quiet
    <2>1. ~Answer /\ Fails /\ Prompt
      BY <1>0, <1>6, Program9, PromptIs
    <2> QED
      BY <1>3, <1>6, <2>1
  <1> QED
    BY <1>1, <1>2, <1>4, <1>5, <1>6 DEF Course9, Opening

\* A button that is not there is never found, however often the closer looks.
LEMMA Course9Stays == ASSUME Op = 9, Course9, Idles PROVE Course9'
  <1>1. Same /\ (found' => found \/ Present)
    BY DEF Idles, Same
  <1>2. /\ Opening => Opening'
        /\ First => First'
        /\ Quiet => Quiet'
        /\ Waits(<<G("clear", 0)>>) => Waits(<<G("clear", 0)>>)'
    BY <1>1, PlacesStay
  <1>3. pc' = pc /\ target' = target /\ rows' = rows
    BY <1>1 DEF Same
  <1>4. target = "buttonless" /\ pc = 3 => ~found'
    <2>1. pc = 3 => (Present <=> target # "buttonless")
      BY Program9, ClearPresent
    <2> QED
      BY <1>1, <2>1 DEF Course9
  <1> QED
    BY <1>2, <1>3, <1>4 DEF Course9

\* Operation 9: the next step finds the page where it should be.
LEMMA Course9Goes == ASSUME GauntletInv, Op = 9, Course9, Goes PROVE Course9'
  <1>0. N \in Nat /\ N >= 7
    BY HasIs
  <1>1. CASE Opening /\ pc < 3
    <2>1. pc \in Nat
      BY <1>1 DEF Opening
    <2>2. Opening'
      BY <1>1, <2>1, RunAsks, OpensGoes
    <2>3. ~found'
      BY DEF Goes
    <2> QED
      BY <2>2, <2>3 DEF Course9
  <1>2. CASE pc = 3 /\ First /\ Quiet
    <2>1. Now = Press("clear")
      BY <1>2, Program9
    <2>2. Present
      BY <2>1, ClearPresent DEF Goes, Clicks, Polled, Judged, Silent
    <2>3. pc' = 4 /\ First' /\ Waits(<<G("clear", 0)>>)' /\ target' = target
      BY <1>2, <2>1, Pressed DEF Clicks
    <2> QED
      BY <2>1, <2>2, <2>3, ClearPresent DEF Course9
  <1>3. pc # 4
    <2>1. "count" \in Polled
      BY DEF Polled
    <2> QED
      BY <2>1, Program9, Answered
  <1> QED
    BY <1>1, <1>2, <1>3 DEF Course9, Opening

\* Operation 9: a frame leaves it on course.
LEMMA Course9Paints == ASSUME GauntletInv, Course9, Paint PROVE Course9'
  <1>1. CASE Opening
    BY <1>1, OpensPaints DEF Course9, Frame
  <1>2. CASE pc = 4 /\ First /\ Waits(<<G("clear", 0)>>) /\ target # "buttonless"
    <2>1. rows # <<>>
      BY <1>2, FirstIs
    <2>2. /\ Frame /\ Quiet'
          /\ target # "leavesone" => rows' = <<>>
          /\ target = "leavesone" => Len(rows') = 1
      BY <1>2, <2>1, ClearPaints
    <2>3. pc' = 4 /\ target' = target
      BY <1>2, <2>2 DEF Frame
    <2> QED
      BY <1>2, <2>2, <2>3 DEF Course9
  <1> QED
    BY <1>1, <1>2, QuietIs DEF Course9

\* What operation 10 (html structure) asks after its table is filled, and who fails it.
LEMMA Program10 ==
  ASSUME Op = 10
  PROVE  /\ (pc = 3 => Now = Step("probe", N, 0)) /\ (pc = 4 => Now = Step("present", 0, 0))
         /\ (pc = 5 => Now = Step("built", 0, 0))
         /\ Len(Program[Op]) = 5 /\ (Fails <=> target = "misbuilt")
  BY Now10, FailsWhen

\* Operation 10 (html structure): wherever it has come to, the closer's verdict is just.
LEMMA Course10Just == ASSUME GauntletInv, Op = 10, Course10 PROVE Just
  <1>1. CASE OpeningAdd /\ pc < 3
    <2>1. pc \in Nat
      BY <1>1 DEF OpeningAdd
    <2> QED
      BY <1>1, <2>1, AddAsks, OpensJust
  <1>2. CASE pc = 3 /\ Quiet
    <2>1. Now = Step("probe", N, 0) /\ Timely /\ "probe" \in Silent
      BY <1>2, Program10, TimelyIf DEF Silent
    <2> QED
      BY <2>1, JustIf
  <1>3. CASE pc = 4 /\ Quiet /\ saved.probe = (IF target = "misbuilt" THEN "other" ELSE "golden")
    <2>1. Now = Step("present", 0, 0) /\ Now.do = "present" /\ Len(Program[Op]) = 5
      BY <1>3, Program10 DEF Step
    <2>2. Holds
      BY <1>3, <2>1, HoldsIs
    <2>3. Timely /\ Now.do \in Judged
      BY <1>3, <2>1, TimelyIf DEF Judged
    <2> QED
      BY <1>3, <2>1, <2>2, <2>3, JudgeJust
  <1>4. CASE pc = 5 /\ Quiet /\ saved.probe = (IF target = "misbuilt" THEN "other" ELSE "golden")
    <2>1. Now = Step("built", 0, 0) /\ Now.do = "built"
      BY <1>4, Program10 DEF Step
    <2>2. Holds <=> target # "misbuilt"
      BY <1>4, <2>1, HoldsIs
    <2>3. Timely /\ Now.do \in Judged
      BY <1>4, <2>1, TimelyIf DEF Judged
    <2> QED
      BY <2>2, <2>3, Program10, JudgeJust
  <1> QED
    BY <1>1, <1>2, <1>3, <1>4 DEF Course10, OpeningAdd

\* Operation 10: the next step finds the page where it should be.
LEMMA Course10Goes == ASSUME GauntletInv, Op = 10, Course10, Goes PROVE Course10'
  <1>1. CASE OpeningAdd /\ pc < 3
    <2>1. pc \in Nat
      BY <1>1 DEF OpeningAdd
    <2> QED
      BY <1>1, <2>1, AddAsks, OpensGoes DEF Course10
  <1>2. CASE pc = 3 /\ First /\ Quiet
    <2>1. Now = Step("probe", N, 0) /\ "probe" \in Silent
      BY <1>2, Program10 DEF Silent
    <2>2. Evaluate /\ pending' = pending /\ pc' = 4 /\ target' = target
      BY <1>2, <2>1, Asked
    <2>3. Now.do = "probe" /\ Now.row = N
      BY <2>1 DEF Step
    <2>4. Has(N)
      <3>1. N \in 1..N
        BY HasIs
      <3> QED
        BY <1>2, <3>1, FirstIs
    <2>5. saved' = [saved EXCEPT !.probe = IF target = "misbuilt" THEN "other" ELSE "golden"]
      BY <2>2, <2>3, <2>4 DEF Evaluate
    <2>6. saved'.probe = (IF target = "misbuilt" THEN "other" ELSE "golden")
      BY <2>5 DEF GauntletInv, OnCourse, SavedRec
    <2> QED
      BY <1>2, <2>2, <2>6, QuietIs DEF Course10
  <1>3. CASE pc \in {4, 5} /\ Quiet /\ saved.probe = (IF target = "misbuilt" THEN "other" ELSE "golden")
    <2>1. "present" \in Judged /\ "built" \in Judged
      BY DEF Judged
    <2>2. pc # 5 /\ pc' = pc + 1 /\ saved' = saved /\ target' = target /\ Quiet'
      BY <1>3, <2>1, Program10, Judgement
    <2> QED
      BY <1>3, <2>2 DEF Course10
  <1> QED
    BY <1>1, <1>2, <1>3 DEF Course10, OpeningAdd

\* Operation 10: a frame leaves it on course.
LEMMA Course10Paints == ASSUME GauntletInv, Course10, Paint PROVE Course10'
  BY QuietIs, OpensPaints DEF Course10

\* What operation 11 (keyedness) asks after its table is filled, and who fails it.
LEMMA Program11 ==
  ASSUME Op = 11
  PROVE  /\ (pc = 3 => Now = Press("install")) /\ (pc = 4 => Now = Press("observable"))
         /\ (pc = 5 => Now = Press("store")) /\ (pc = 6 => Now = Press("swaprows"))
         /\ (pc = 7 => Now = Step("text", 2, N - 1)) /\ (pc = 8 => Now = Press("result"))
         /\ (pc = 9 => Now = Press("keyedswap")) /\ (pc = 10 => Now = Press("store"))
         /\ (pc = 11 => Now = Press("reset")) /\ (pc = 12 => Now = Press("run"))
         /\ (pc = 13 => Now = Step("text", N, 2 * N)) /\ (pc = 14 => Now = Press("result"))
         /\ (pc = 15 => Now = Step("keyedrun", 0, N)) /\ (pc = 16 => Now = Press("store"))
         /\ (pc = 17 => Now = Press("reset")) /\ (pc = 18 => Now = Step("text", 2, N + 2))
         /\ (pc = 19 => Now = Step("remove", 2, 0)) /\ (pc = 20 => Now = Step("text", 2, N + 3))
         /\ (pc = 21 => Now = Press("result")) /\ (pc = 22 => Now = Press("keyedremove"))
         /\ Len(Program[Op]) = 22
         /\ Fails <=> target \in {"renumbering", "appending", "swapsother", "removesnext",
                                  "recreating", "rewriting", "recycling", "shifting", "untabled"}
  BY Now11, FailsWhen

\* What the instrument does when it is asked to.
LEMMA Instrumented ==
  ASSUME GauntletInv, Goes, NEW d \in {"install", "store", "reset", "result"}, Now = Press(d)
  PROVE  /\ pc' = pc + 1 /\ UNCHANGED <<target, results, rows, nextId, nodes, pending>>
         /\ d = "install" => (kd'.on <=> target # "untabled") /\ kd'.added = {} /\ kd'.removed = {} /\ saved' = saved
         /\ d = "reset" => /\ kd'.on = kd.on /\ kd'.added = {} /\ kd'.removed = {}
                           /\ kd'.stored = kd.stored /\ saved' = saved
         /\ d = "store" => /\ kd'.on = kd.on /\ kd'.added = kd.added /\ kd'.removed = kd.removed
                           /\ saved' = saved /\ (Has(2) => kd'.stored = rows[2].node)
         /\ d = "result" => /\ kd' = kd /\ saved'.got.added = kd.added
                            /\ saved'.got.removed = kd.removed /\ saved'.got.stored = kd.stored
  <1>1. Now = Step(d, 0, 0) /\ Now.do = d /\ d \in Silent
    BY DEF Press, Step, Silent
  <1>2. Evaluate /\ pc' = pc + 1 /\ UNCHANGED <<target, results, rows, nextId, nodes>> /\ pending' = pending
    BY <1>1, Asked
  <1>3. kd \in [on : BOOLEAN, added : SUBSET (1..nodes), removed : SUBSET (1..nodes), stored : Nat]
        /\ saved \in SavedRec
    BY DEF GauntletInv, PageKept, OnCourse
  <1>4. \A k \in [on : BOOLEAN, added : SUBSET (1..nodes), removed : SUBSET (1..nodes), stored : Nat] :
          /\ Reset(k) \in [on : BOOLEAN, added : SUBSET (1..nodes), removed : SUBSET (1..nodes), stored : Nat]
          /\ Reset(k).on = k.on /\ Reset(k).added = {} /\ Reset(k).removed = {} /\ Reset(k).stored = k.stored
    BY DEF Reset
  <1>5. CASE d = "install"
    <2>1. kd' = [Reset(kd) EXCEPT !.on = target # "untabled"] /\ saved' = saved
      BY <1>1, <1>2, <1>5 DEF Evaluate
    <2> QED
      BY <1>2, <1>3, <1>4, <1>5, <2>1
  <1>6. CASE d = "reset"
    <2>1. kd' = Reset(kd) /\ saved' = saved
      BY <1>1, <1>2, <1>6 DEF Evaluate
    <2> QED
      BY <1>2, <1>3, <1>4, <1>6, <2>1
  <1>7. CASE d = "store"
    <2>1. kd' = [kd EXCEPT !.stored = IF Has(2) THEN rows[2].node ELSE 0] /\ saved' = saved
      BY <1>1, <1>2, <1>7 DEF Evaluate
    <2> QED
      BY <1>2, <1>3, <1>7, <2>1
  <1>8. CASE d = "result"
    <2>1. /\ kd' = kd
          /\ saved' = [saved EXCEPT !.got = [added |-> kd.added, removed |-> kd.removed, stored |-> kd.stored]]
      BY <1>1, <1>2, <1>8 DEF Evaluate
    <2>2. saved'.got = [added |-> kd.added, removed |-> kd.removed, stored |-> kd.stored]
      BY <1>3, <2>1 DEF SavedRec
    <2> QED
      BY <1>2, <1>8, <2>1, <2>2
  <1> QED
    BY <1>5, <1>6, <1>7, <1>8

\* The instrument's own evaluations are just.
LEMMA SilentJust ==
  ASSUME Timely, NEW d \in {"install", "store", "reset", "result"}, Now = Press(d)
  PROVE  Just
  <1>1. Now = Step(d, 0, 0) /\ d \in Silent
    BY DEF Press, Silent
  <1> QED
    BY <1>1, JustIf

\* What the instrument is asked to judge.
LEMMA KeyedIs ==
  /\ Now = Press("observable") => (Holds <=> kd.on) /\ Now.do \in Judged
  /\ Now = Press("keyedswap") =>
       /\ Holds <=> /\ saved.got.added # {} /\ saved.got.removed # {}
                    /\ saved.got.added \subseteq saved.got.removed
       /\ Now.do \in Judged
  /\ Now = Step("keyedrun", 0, N) =>
       /\ Holds <=> Cardinality(saved.got.added) >= N /\ Cardinality(saved.got.removed) >= N
       /\ Now.do \in Judged
  /\ Now = Press("keyedremove") => (Holds <=> saved.got.stored \in saved.got.removed) /\ Now.do \in Judged
  <1>1. \A w : \A d \in Judged : Now = Step(d, 0, w) => Now.do \in Judged
    BY DEF Step
  <1>2. {"observable", "keyedswap", "keyedrun", "keyedremove"} \subseteq Judged
    BY DEF Judged
  <1>3. \A d : Press(d) = Step(d, 0, 0)
    BY DEF Press
  <1>4. Now = Press("observable") => (Holds <=> kd.on) /\ Now.do \in Judged
    BY <1>1, <1>2, <1>3, HoldsIs
  <1>5. Now = Press("keyedswap") =>
       /\ Holds <=> /\ saved.got.added # {} /\ saved.got.removed # {}
                    /\ saved.got.added \subseteq saved.got.removed
       /\ Now.do \in Judged
    BY <1>1, <1>2, <1>3, HoldsIs
  <1>6. Now = Step("keyedrun", 0, N) =>
       /\ Holds <=> Cardinality(saved.got.added) >= N /\ Cardinality(saved.got.removed) >= N
       /\ Now.do \in Judged
    BY <1>1, <1>2, HoldsIs
  <1>7. Now = Press("keyedremove") => (Holds <=> saved.got.stored \in saved.got.removed) /\ Now.do \in Judged
    BY <1>1, <1>2, <1>3, HoldsIs
  <1> QED
    BY <1>4, <1>5, <1>6, <1>7

\* A judgement of the instrument leaves everything as it is.
LEMMA KeyedGoes ==
  ASSUME Goes, NEW d \in {"observable", "keyedswap", "keyedrun", "keyedremove"}, NEW w, Now = Step(d, 0, w)
  PROVE  /\ pc # Len(Program[Op]) /\ pc' = pc + 1 /\ Holds
         /\ UNCHANGED <<target, rows, nextId, nodes, pending, saved, kd>>
         /\ (First => First') /\ (Quiet => Quiet')
  <1>1. d \in Judged
    BY DEF Judged
  <1> QED
    BY <1>1, Judgement

\* What the questions of operation 11 come to.
LEMMA Program11Asks ==
  ASSUME GauntletInv, Op = 11, pc \in {7, 13, 18, 20}
  PROVE  /\ pc = 7 => (Answer <=> 2 \in 1..Len(rows) /\ rows[2].id = N - 1)
         /\ pc = 13 => (Answer <=> N \in 1..Len(rows) /\ rows[N].id = 2 * N)
         /\ pc = 18 => (Answer <=> 2 \in 1..Len(rows) /\ rows[2].id = N + 2)
         /\ pc = 20 => (Answer <=> 2 \in 1..Len(rows) /\ rows[2].id = N + 3)
         /\ Now.do \in Polled /\ Now.do # "bigcount" /\ pc # Len(Program[Op])
  <1>0. Len(Program[Op]) = 22
    BY Program11
  <1>1. pc # Len(Program[Op])
    BY <1>0
  <1>2. CASE pc = 7
    BY <1>1, <1>2, Program11, TextIs DEF Polled
  <1>3. CASE pc = 13
    BY <1>1, <1>3, Program11, TextIs DEF Polled
  <1>4. CASE pc = 18
    BY <1>1, <1>4, Program11, TextIs DEF Polled
  <1>5. CASE pc = 20
    BY <1>1, <1>5, Program11, TextIs DEF Polled
  <1> QED
    BY <1>2, <1>3, <1>4, <1>5

\* Its questions leave the page as it is.
LEMMA Program11Goes ==
  ASSUME GauntletInv, Op = 11, pc \in {7, 13, 18, 20}, Goes
  PROVE  /\ Answer /\ pc' = pc + 1 /\ UNCHANGED <<target, rows, nextId, nodes, pending, saved, kd>>
  <1>1. \E r, w : Now = Step("text", r, w)
    BY Program11
  <1>2. "text" \in Polled
    BY DEF Polled
  <1> QED
    BY <1>1, <1>2, Answered

\* Operation 11 (keyedness), the swap: wherever it has come to, the closer's verdict is just.
LEMMA Course11SwapJust == ASSUME GauntletInv, Op = 11, Course11Swap PROVE Just
  <1>0. N \in Nat /\ N >= 7
    BY HasIs
  <1>1. CASE OpeningAdd /\ pc < 3
    <2>1. pc \in Nat
      BY <1>1 DEF OpeningAdd
    <2> QED
      BY <1>1, <2>1, AddAsks, OpensJust
  <1>2. CASE pc \in {3, 5, 8} /\ Quiet
    <2>1. (Now = Press("install") \/ Now = Press("store") \/ Now = Press("result")) /\ Timely
      BY <1>2, Program11, TimelyIf
    <2> QED
      BY <2>1, SilentJust
  <1>9. CASE pc = 4 /\ Quiet /\ ~kd.on /\ target = "untabled"
    <2>1. ~Holds /\ Now.do \in Judged /\ Timely /\ Fails
      BY <1>9, Program11, KeyedIs, TimelyIf
    <2> QED
      BY <2>1, JudgeJust
  <1>3. CASE pc = 4 /\ Quiet /\ kd.on
    <2>1. Holds /\ Now.do \in Judged /\ Timely /\ Len(Program[Op]) = 22
      BY <1>3, Program11, KeyedIs, TimelyIf
    <2> QED
      BY <1>3, <2>1, JudgeJust
  <1>4. CASE pc = 6 /\ Quiet
    <2>1. Now = Step("swaprows", 0, 0) /\ Timely
      BY <1>4, Program11, TimelyIf DEF Press
    <2> QED
      BY <2>1, JustIf DEF Clicks
  <1>5. ASSUME pc = 7, Prompt, ~Answer /\ Quiet => Fails PROVE Just
    BY <1>5, Program11Asks, PromptIs, PollJust
  <1>6. CASE pc = 7 /\ (Waits(<<G("swaprows", 0)>>) \/ Waits(<<G("swapback", 0)>>))
    <2>1. ~Quiet /\ Prompt
      BY <1>6, QuietIs, PromptIs
    <2> QED
      BY <1>5, <1>6, <2>1
  <1>7. CASE pc = 7 /\ Quiet /\ target \in {"swapsother", "recreating", "rewriting"}
    <2>1. Fails /\ Prompt
      BY <1>7, Program11, PromptIs
    <2> QED
      BY <1>5, <1>7, <2>1
  <1>8. CASE /\ pc = 9 /\ Quiet /\ target \in {"recreating", "rewriting"}
             /\ saved.got.added = {} \/ (saved.got.added = {N + 1, N + 2} /\ saved.got.removed = {2, N - 1})
    <2>1. ~(saved.got.added # {} /\ saved.got.added \subseteq saved.got.removed)
      <3>1. N + 1 \notin {2, N - 1}
        BY <1>0
      <3> QED
        BY <1>8, <3>1
    <2>2. ~Holds /\ Now.do \in Judged /\ Fails
      BY <1>8, <2>1, Program11, KeyedIs
    <2>3. Timely
      BY <1>8, TimelyIf
    <2> QED
      BY <2>2, <2>3, JudgeJust
  <1> QED
    BY <1>1, <1>2, <1>3, <1>4, <1>6, <1>7, <1>8, <1>9 DEF Course11Swap, OpeningAdd, Saw

\* Operation 11, the swap: the next step finds the page where it should be.
LEMMA Course11SwapGoes == ASSUME GauntletInv, Op = 11, Course11Swap, Goes PROVE Course11Swap'
  <1>0. N \in Nat /\ N >= 7
    BY HasIs
  <1>1. CASE OpeningAdd /\ pc < 3
    <2>1. pc \in Nat
      BY <1>1 DEF OpeningAdd
    <2> QED
      BY <1>1, <2>1, AddAsks, OpensGoes DEF Course11Swap
  <1>2. CASE pc = 3 /\ First /\ Quiet
    <2>1. /\ pc' = pc + 1 /\ UNCHANGED <<target, results, rows, nextId, nodes, pending>>
          /\ (kd'.on <=> target # "untabled") /\ kd'.added = {} /\ kd'.removed = {}
      BY <1>2, Program11, Instrumented
    <2>2. First' /\ Quiet'
      BY <1>2, <2>1, PageStays, QuietIs
    <2> QED
      BY <1>2, <2>1, <2>2 DEF Course11Swap, Saw
  <1>3. CASE pc = 4 /\ First /\ Quiet /\ Saw({}, {}) /\ target # "untabled"
    <2>1. Now = Step("observable", 0, 0)
      BY <1>3, Program11 DEF Press
    <2>2. pc' = pc + 1 /\ kd' = kd /\ target' = target /\ First' /\ Quiet'
      BY <1>3, <2>1, KeyedGoes
    <2> QED
      BY <1>3, <2>2 DEF Course11Swap, Saw
  <1>12. ~(pc = 4 /\ ~kd.on)
    <2>1. pc = 4 => Now = Press("observable") /\ Now = Step("observable", 0, 0)
      BY Program11 DEF Press
    <2> QED
      BY <2>1, KeyedGoes, KeyedIs
  <1>4. CASE pc = 5 /\ First /\ Quiet /\ Saw({}, {}) /\ target # "untabled"
    <2>1. /\ pc' = pc + 1 /\ UNCHANGED <<target, results, rows, nextId, nodes, pending>>
          /\ kd'.on = kd.on /\ kd'.added = kd.added /\ kd'.removed = kd.removed
      BY <1>4, Program11, Instrumented
    <2>2. First' /\ Quiet'
      BY <1>4, <2>1, PageStays, QuietIs
    <2> QED
      BY <1>4, <2>1, <2>2 DEF Course11Swap, Saw
  <1>5. CASE pc = 6 /\ First /\ Quiet /\ Saw({}, {}) /\ target # "untabled"
    <2>1. pc' = 7 /\ kd' = kd /\ target' = target /\ First' /\ Waits(<<G("swaprows", 0)>>)'
      BY <1>5, Program11, Pressed DEF Clicks
    <2> QED
      BY <1>5, <2>1 DEF Course11Swap, Saw
  <1>6. pc = 7 => Answer /\ rows[2].id = N - 1
    BY Program11Asks, Program11Goes
  <1>7. ~(pc = 7 /\ First)
    <2>1. 2 \in 1..N /\ 2 # N - 1
      BY <1>0
    <2> QED
      BY <1>6, <2>1, FirstIs
  <1>8. ~(pc = 7 /\ rows[2].id = N)
    BY <1>0, <1>6
  <1>9. CASE /\ pc = 7 /\ TextsSwapped /\ Quiet
             /\ \/ target = "recreating" /\ Saw({N + 1, N + 2}, {2, N - 1})
                \/ target = "rewriting" /\ Saw({}, {})
    <2>1. pc' = 8 /\ UNCHANGED <<target, rows, pending, kd>>
      BY <1>9, Program11Goes
    <2>2. TextsSwapped' /\ Quiet'
      BY <1>9, <2>1 DEF TextsSwapped, Exchanged, Quiet
    <2>3. kd'.on = kd.on /\ kd'.added = kd.added /\ kd'.removed = kd.removed
      BY <2>1
    <2> QED
      BY <1>9, <2>1, <2>2, <2>3 DEF Course11Swap, Saw
  <1>10. CASE /\ pc = 8 /\ TextsSwapped /\ Quiet
              /\ \/ target = "recreating" /\ Saw({N + 1, N + 2}, {2, N - 1})
                 \/ target = "rewriting" /\ Saw({}, {})
    <2>1. /\ pc' = pc + 1 /\ UNCHANGED <<target, results, rows, nextId, nodes, pending>>
          /\ saved'.got.added = kd.added /\ saved'.got.removed = kd.removed
      BY <1>10, Program11, Instrumented
    <2>2. TextsSwapped' /\ Quiet'
      BY <1>10, <2>1 DEF TextsSwapped, Exchanged, Quiet
    <2> QED
      BY <1>10, <2>1, <2>2 DEF Course11Swap, Saw
  <1>11. CASE /\ pc = 9
              /\ saved.got.added = {} \/ (saved.got.added = {N + 1, N + 2} /\ saved.got.removed = {2, N - 1})
    <2>1. Now = Press("keyedswap") /\ Now = Step("keyedswap", 0, 0)
      BY <1>11, Program11 DEF Press
    <2>2. Holds
      BY <2>1, KeyedGoes
    <2>3. saved.got.added # {} /\ saved.got.added \subseteq saved.got.removed
      BY <2>1, <2>2, KeyedIs
    <2>4. N + 1 \notin {2, N - 1}
      BY <1>0
    <2> QED
      BY <1>11, <2>3, <2>4
  <1> QED
    BY <1>1, <1>2, <1>3, <1>4, <1>5, <1>7, <1>8, <1>9, <1>10, <1>11, <1>12 DEF Course11Swap, OpeningAdd

\* Operation 11, the swap: a frame leaves it on course.
LEMMA Course11SwapPaints == ASSUME GauntletInv, Course11Swap, Paint PROVE Course11Swap' \/ Course11Run'
  <1>0. N \in Nat /\ N >= 7
    BY HasIs
  <1>1. CASE OpeningAdd
    BY <1>1, OpensPaints DEF Course11Swap
  <1>2. ASSUME Frame PROVE pc' = pc /\ target' = target
    BY <1>2 DEF Frame
  <1>3. CASE pc = 7 /\ First /\ Waits(<<G("swaprows", 0)>>) /\ Saw({}, {}) /\ target # "untabled"
    <2>0. kd.on /\ kd.added = {} /\ kd.removed = {}
      BY <1>3 DEF Saw
    <2>1. CASE target = "swapsother"
      BY <1>2, <1>3, <2>1, OtherSwaps DEF Course11Swap
    <2>2. CASE target = "rewriting"
      <3>1. TextsSwapped' /\ Quiet' /\ Frame /\ Sees({}, {})
        BY <1>3, <2>2, TextsSwap
      <3>2. Saw({}, {})'
        BY <2>0, <3>1 DEF Sees, Saw
      <3> QED
        BY <1>2, <1>3, <2>2, <3>1, <3>2 DEF Course11Swap
    <2>3. CASE target = "recreating"
      <3>1. TextsSwapped' /\ Quiet' /\ Frame /\ Sees({N + 1, N + 2}, {2, N - 1})
        BY <1>3, <2>3, TextsSwap
      <3>2. kd'.on /\ kd'.added = {N + 1, N + 2} /\ kd'.removed = {2, N - 1}
        BY <2>0, <3>1 DEF Sees
      <3> QED
        BY <1>2, <1>3, <2>3, <3>1, <3>2 DEF Course11Swap, Saw
    <2>4. CASE PlainSwap
      <3>1. /\ HalfSwapped' /\ Waits(<<G("swapback", 0)>>)' /\ Frame /\ UNCHANGED <<nextId, nodes>>
            /\ Sees({N - 1}, {N - 1})
        BY <1>3, <2>4, SwapHalves DEF PlainSwap
      <3>2. SawSwap' /\ kd'.on
        BY <2>0, <3>1 DEF Sees, SawSwap
      <3>3. PlainSwap' /\ nodes' = N /\ nextId' = N + 1 /\ pc' = 7
        BY <1>2, <1>3, <2>4, <3>1, FirstIs DEF PlainSwap
      <3> QED
        BY <3>1, <3>2, <3>3 DEF Course11Run, Swapping
    <2> QED
      BY <1>3, <2>1, <2>2, <2>3, <2>4 DEF PlainSwap
  <1>4. CASE target = "swapsother" /\ pc = 7 /\ Len(rows) = N /\ rows[2].id = N /\ Waits(<<G("swapback", 0)>>)
    BY <1>2, <1>4, OtherBack DEF Course11Swap
  <1> QED
    BY <1>1, <1>3, <1>4, QuietIs DEF Course11Swap

\* Two prompt gestures are waited for no longer than one.
LEMMA BothPrompt ==
  ASSUME Waits(<<G("swapback", 0), G("run", 0)>>), Now.do # "bigcount"
  PROVE  Timely /\ ~Quiet
  <1>1. DOMAIN pending = {1, 2} /\ pending[1] = G("swapback", 0) /\ pending[2] = G("run", 0)
    BY DEF Waits
  <1>2. ~Slow(G("swapback", 0)) /\ ~Slow(G("run", 0))
    BY TimelyIf
  <1>3. pending # <<>>
    BY DEF Waits
  <1> QED
    BY <1>1, <1>2, <1>3 DEF Timely, Quiet

\* Which row stands where, at the places the questions ask about.
LEMMA SwappingIs ==
  ASSUME GauntletInv, Swapping
  PROVE  /\ Len(rows) = N /\ rows # <<>> /\ 2 \in 1..N /\ N \in 1..N
         /\ rows[2].id = N - 1 /\ rows[N].id = N
         /\ Quiet \/ Waits(<<G("swapback", 0)>>)
  <1>0. N \in Nat /\ N >= 7 /\ (rows = <<>> <=> Len(rows) = 0)
    BY HasIs
  <1>1. 2 \in 1..N /\ N \in 1..N /\ N # 2 /\ N # N - 1
    BY <1>0
  <1>2. CASE HalfSwapped /\ Waits(<<G("swapback", 0)>>)
    <2>1. Halfway(2) = N - 1 /\ Halfway(N) = N
      BY <1>0 DEF Halfway
    <2> QED
      BY <1>0, <1>1, <1>2, <2>1 DEF HalfSwapped
  <1>3. CASE FullySwapped /\ Quiet
    <2>1. Exchanged(2) = N - 1 /\ Exchanged(N) = N
      BY <1>0 DEF Exchanged
    <2> QED
      BY <1>0, <1>1, <1>3, <2>1 DEF FullySwapped, TextsSwapped
  <1> QED
    BY <1>2, <1>3 DEF Swapping

\* Between the two frames of a swap the small deadline is enough.
LEMMA SwappingWaits ==
  ASSUME GauntletInv, Swapping, Now.do # "bigcount"
  PROVE  Timely
  <1>1. Prompt
    BY SwappingIs, PromptIs
  <1> QED
    BY <1>1, PromptIs

\* Operation 11 (keyedness), the run: wherever it has come to, the closer's verdict is just.
LEMMA Course11RunJust == ASSUME GauntletInv, Op = 11, Course11Run PROVE Just
  <1>0. N \in Nat /\ N >= 7
    BY HasIs
  <1>1. CASE pc \in {8, 10, 11} /\ Swapping
    <2>1. \E d \in {"install", "store", "reset", "result"} : Now = Press(d)
      BY <1>1, Program11
    <2>2. PICK d \in {"install", "store", "reset", "result"} : Now = Press(d)
      BY <2>1
    <2>3. Now.do # "bigcount"
      BY <2>2 DEF Press, Step
    <2> QED
      BY <1>1, <2>2, <2>3, SwappingWaits, SilentJust
  <1>2. CASE pc = 7 /\ Swapping
    <2>1. Now.do \in Polled /\ Now.do # "bigcount" /\ pc # Len(Program[Op])
      BY <1>2, Program11Asks
    <2>2. Answer
      BY <1>2, Program11Asks, SwappingIs
    <2> QED
      BY <1>2, <2>1, <2>2, SwappingWaits, PollJust
  <1>3. CASE pc = 9 /\ Swapping /\ saved.got.added # {} /\ saved.got.added = saved.got.removed
    <2>1. Now = Press("keyedswap") /\ Len(Program[Op]) = 22
      BY <1>3, Program11
    <2>2. Holds /\ Now.do \in Judged
      BY <1>3, <2>1, KeyedIs
    <2>3. Now.do # "bigcount"
      BY <2>1 DEF Press, Step
    <2> QED
      BY <1>3, <2>1, <2>2, <2>3, SwappingWaits, JudgeJust
  <1>4. CASE pc = 12 /\ Swapping
    <2>1. Now = Step("run", 0, 0) /\ Now.do # "bigcount" /\ "run" \in Clicks
      BY <1>4, Program11 DEF Press, Step, Clicks
    <2> QED
      BY <1>4, <2>1, SwappingWaits, JustIf
  <1>5. pc = 13 => Now.do \in Polled /\ Now.do # "bigcount" /\ pc # Len(Program[Op])
    BY Program11Asks
  <1>6. CASE pc = 13 /\ Waits(<<G("swapback", 0), G("run", 0)>>)
    BY <1>5, <1>6, BothPrompt, PollJust
  <1>7. ASSUME pc = 13, Prompt, ~Answer /\ Quiet => Fails PROVE Just
    BY <1>5, <1>7, PromptIs, PollJust
  <1>8. CASE pc = 13 /\ Waits(<<G("run", 0)>>)
    <2>1. ~Quiet /\ Prompt
      BY <1>8, QuietIs, PromptIs
    <2> QED
      BY <1>7, <1>8, <2>1
  <1>9. CASE /\ target \in {"renumbering", "appending", "recycling"} /\ pc = 13
             /\ Quiet \/ Waits(<<G("fill", 0)>>)
    <2>1. Fails
      BY <1>9, Program11
    <2>2. Prompt
      BY <1>9, PromptIs
    <2> QED
      BY <1>7, <1>9, <2>1, <2>2
  <1>10. CASE target = "recycling" /\ pc = 14 /\ Quiet
    <2>1. Now = Press("result") /\ Timely
      BY <1>10, Program11, TimelyIf
    <2> QED
      BY <2>1, SilentJust
  <1>11. CASE target = "recycling" /\ pc = 15 /\ Quiet /\ saved.got.added \subseteq {2}
    <2>1. Fails /\ Now = Step("keyedrun", 0, N) /\ Timely
      BY <1>11, Program11, TimelyIf
    <2>2. IsFiniteSet({2}) /\ Cardinality({2}) = 1
      BY FS_Singleton
    <2>3. Cardinality(saved.got.added) <= 1 /\ Cardinality(saved.got.added) \in Nat
      BY <1>11, <2>2, FS_Subset, FS_CardinalityType
    <2>4. ~Holds /\ Now.do \in Judged
      BY <1>0, <2>1, <2>3, KeyedIs
    <2> QED
      BY <2>1, <2>4, JudgeJust
  <1> QED
    BY <1>1, <1>2, <1>3, <1>4, <1>6, <1>8, <1>9, <1>10, <1>11 DEF Course11Run

\* A swap in its two frames is still under way when the page is as it was.
LEMMA SwappingStays ==
  ASSUME UNCHANGED <<rows, pending>>
  PROVE  /\ Swapping => Swapping'
         /\ FullySwapped => FullySwapped'
         /\ HalfSwapped => HalfSwapped'
  <1>1. rows' = rows /\ pending' = pending
    OBVIOUS
  <1>2. FullySwapped => FullySwapped'
    BY <1>1 DEF FullySwapped, TextsSwapped, Exchanged
  <1>3. HalfSwapped => HalfSwapped'
    BY <1>1 DEF HalfSwapped, Halfway
  <1>4. /\ Quiet => Quiet'
        /\ Waits(<<G("swapback", 0)>>) => Waits(<<G("swapback", 0)>>)'
    BY <1>1 DEF Quiet, Waits, G
  <1> QED
    BY <1>2, <1>3, <1>4 DEF Swapping

\* The run is pressed before or after the second frame of the swap.
LEMMA RunQueues ==
  ASSUME GauntletInv, Goes, Swapping, Now = Press("run")
  PROVE  /\ pc' = pc + 1 /\ UNCHANGED <<target, rows, nextId, nodes, kd>>
         /\ \/ HalfSwapped' /\ Waits(<<G("swapback", 0), G("run", 0)>>)'
            \/ FullySwapped' /\ Waits(<<G("run", 0)>>)'
  <1>1. Now = Step("run", 0, 0) /\ "run" \in Clicks
    BY DEF Press, Clicks
  <1>2. /\ pc' = pc + 1 /\ UNCHANGED <<target, rows, nextId, nodes, kd>>
        /\ pending' = Append(pending, G("run", 0))
    BY <1>1, Asked
  <1>3. CASE HalfSwapped /\ Waits(<<G("swapback", 0)>>)
    <2>0. \A g, h : Append(<<g>>, h) = <<g, h>>
      <3> SUFFICES ASSUME NEW g, NEW h PROVE Append(<<g>>, h) = <<g, h>>
        OBVIOUS
      <3>1. <<g>> \in Seq({g, h}) /\ <<g, h>> \in Seq({g, h})
        OBVIOUS
      <3>2. Len(Append(<<g>>, h)) = 2 /\ Append(<<g>>, h) \in Seq({g, h})
        BY <3>1
      <3>3. Append(<<g>>, h)[1] = g /\ Append(<<g>>, h)[2] = h
        BY <3>1
      <3>4. Len(<<g, h>>) = 2 /\ <<g, h>>[1] = g /\ <<g, h>>[2] = h
        OBVIOUS
      <3>5. \A i \in 1..2 : i = 1 \/ i = 2
        OBVIOUS
      <3>6. \A i \in 1..2 : Append(<<g>>, h)[i] = <<g, h>>[i]
        BY <3>3, <3>4, <3>5
      <3> QED
        BY <3>1, <3>2, <3>4, <3>6, SeqEqual
    <2>1. pending' = <<G("swapback", 0), G("run", 0)>>
      BY <1>2, <1>3, <2>0 DEF Waits
    <2>3. Waits(<<G("swapback", 0), G("run", 0)>>)'
      BY <2>1 DEF Waits, G
    <2>2. HalfSwapped'
      BY <1>2, <1>3 DEF HalfSwapped, Halfway
    <2> QED
      BY <1>2, <2>2, <2>3
  <1>4. CASE FullySwapped /\ Quiet
    <2>1. Waits(<<G("run", 0)>>)'
      BY <1>2, <1>4, QuietIs
    <2>2. FullySwapped'
      BY <1>2, <1>4 DEF FullySwapped, TextsSwapped, Exchanged
    <2> QED
      BY <1>2, <2>1, <2>2
  <1> QED
    BY <1>3, <1>4 DEF Swapping

\* Operation 11, the run: the next step finds the page where it should be.
LEMMA Course11RunGoes == ASSUME GauntletInv, Op = 11, Course11Run, Goes PROVE Course11Run'
  <1>0. N \in Nat /\ N >= 7 /\ N \in 1..N /\ N # 2 * N
    BY HasIs
  <1> DEFINE Plain == PlainSwap /\ nodes = N /\ nextId = N + 1 /\ kd.on
  <1>1. ASSUME UNCHANGED <<target, nextId, nodes>>, kd'.on = kd.on, Plain PROVE Plain'
    BY <1>1 DEF PlainSwap
  <1>2. CASE pc = 7 /\ Plain /\ Swapping /\ SawSwap
    <2>1. pc' = 8 /\ UNCHANGED <<target, rows, nextId, nodes, pending, kd>>
      BY <1>2, Program11Goes
    <2>2. Swapping' /\ SawSwap'
      BY <1>2, <2>1, SwappingStays DEF SawSwap
    <2> QED
      BY <1>1, <1>2, <2>1, <2>2 DEF Course11Run
  <1>3. CASE pc = 8 /\ Plain /\ Swapping /\ SawSwap
    <2>1. /\ pc' = 9 /\ UNCHANGED <<target, rows, nextId, nodes, pending>> /\ kd' = kd
          /\ saved'.got.added = kd.added /\ saved'.got.removed = kd.removed
      BY <1>3, Program11, Instrumented
    <2>2. Swapping'
      BY <1>3, <2>1, SwappingStays
    <2> QED
      BY <1>1, <1>3, <2>1, <2>2 DEF Course11Run, SawSwap
  <1>4. CASE pc = 9 /\ Plain /\ Swapping
    <2>1. Now = Step("keyedswap", 0, 0)
      BY <1>4, Program11 DEF Press
    <2>2. pc' = 10 /\ UNCHANGED <<target, rows, nextId, nodes, pending, kd>>
      BY <1>4, <2>1, KeyedGoes
    <2>3. Swapping'
      BY <1>4, <2>2, SwappingStays
    <2> QED
      BY <1>1, <1>4, <2>2, <2>3 DEF Course11Run
  <1>5. CASE pc = 10 /\ Plain /\ Swapping
    <2>0. Now = Press("store")
      BY <1>5, Program11
    <2>1. pc' = 11 /\ UNCHANGED <<target, rows, nextId, nodes, pending>> /\ kd'.on = kd.on
      <3>1. "store" \in {"install", "store", "reset", "result"}
        OBVIOUS
      <3>2. /\ pc' = pc + 1 /\ UNCHANGED <<target, results, rows, nextId, nodes, pending>>
            /\ kd'.on = kd.on
        BY <2>0, <3>1, Instrumented
      <3> QED
        BY <1>5, <3>2
    <2>2. Swapping'
      BY <1>5, <2>1, SwappingStays
    <2> QED
      BY <1>1, <1>5, <2>1, <2>2 DEF Course11Run
  <1>6. CASE pc = 11 /\ Plain /\ Swapping
    <2>0. Now = Press("reset")
      BY <1>6, Program11
    <2>1. /\ pc' = 12 /\ UNCHANGED <<target, rows, nextId, nodes, pending>>
          /\ kd'.on = kd.on /\ kd'.added = {}
      <3>1. "reset" \in {"install", "store", "reset", "result"}
        OBVIOUS
      <3>2. /\ pc' = pc + 1 /\ UNCHANGED <<target, results, rows, nextId, nodes, pending>>
            /\ kd'.on = kd.on /\ kd'.added = {}
        BY <2>0, <3>1, Instrumented
      <3> QED
        BY <1>6, <3>2
    <2>2. Swapping'
      BY <1>6, <2>1, SwappingStays
    <2> QED
      BY <1>1, <1>6, <2>1, <2>2 DEF Course11Run
  <1>7. CASE pc = 12 /\ Plain /\ Swapping /\ kd.added \subseteq {2}
    <2>1. /\ pc' = 13 /\ UNCHANGED <<target, rows, nextId, nodes, kd>>
          /\ \/ HalfSwapped' /\ Waits(<<G("swapback", 0), G("run", 0)>>)'
             \/ FullySwapped' /\ Waits(<<G("run", 0)>>)'
      BY <1>7, Program11, RunQueues
    <2>2. kd'.added \subseteq {2} /\ Plain'
      BY <1>1, <1>7, <2>1
    <2> QED
      BY <2>1, <2>2 DEF Course11Run
  <1>8. pc = 13 => N \in 1..Len(rows) /\ rows[N].id = 2 * N
    BY Program11Asks, Program11Goes
  <1>9. ~(pc = 13 /\ (HalfSwapped \/ FullySwapped))
    <2>1. Halfway(N) = N /\ Exchanged(N) = N
      BY <1>0 DEF Halfway, Exchanged
    <2> QED
      BY <1>0, <1>8, <2>1 DEF HalfSwapped, FullySwapped, TextsSwapped
  <1>10. ~(pc = 13 /\ (rows = <<>> \/ Numbered(N, 0) \/ rows[N].id = N))
    <2>1. Numbered(N, 0) => rows[N].id = N
      BY <1>0 DEF Numbered
    <2> QED
      BY <1>0, <1>8, <2>1
  <1>11. CASE target = "recycling" /\ Numbered(N, N) /\ Quiet /\ pc = 13 /\ kd.added \subseteq {2}
    <2>1. pc' = 14 /\ UNCHANGED <<target, rows, nextId, nodes, pending, kd>>
      BY <1>11, Program11Goes
    <2>2. Numbered(N, N)' /\ Quiet'
      BY <1>11, <2>1 DEF Numbered, Quiet
    <2> QED
      BY <1>11, <2>1, <2>2 DEF Course11Run
  <1>12. CASE target = "recycling" /\ Numbered(N, N) /\ Quiet /\ pc = 14 /\ kd.added \subseteq {2}
    <2>1. /\ pc' = 15 /\ UNCHANGED <<target, rows, nextId, nodes, pending>>
          /\ saved'.got.added = kd.added
      BY <1>12, Program11, Instrumented
    <2>2. Numbered(N, N)' /\ Quiet'
      BY <1>12, <2>1 DEF Numbered, Quiet
    <2> QED
      BY <1>12, <2>1, <2>2 DEF Course11Run
  <1>13. ~(pc = 15 /\ saved.got.added \subseteq {2})
    <2> SUFFICES ASSUME pc = 15, saved.got.added \subseteq {2} PROVE FALSE
      OBVIOUS
    <2>1. Now = Step("keyedrun", 0, N)
      BY Program11
    <2>2. IsFiniteSet({2}) /\ Cardinality({2}) = 1
      BY FS_Singleton
    <2>3. Cardinality(saved.got.added) <= 1 /\ Cardinality(saved.got.added) \in Nat
      BY <2>2, FS_Subset, FS_CardinalityType
    <2>4. Holds
      BY <2>1, KeyedGoes
    <2> QED
      BY <1>0, <2>1, <2>3, <2>4, KeyedIs
  <1> QED
    BY <1>2, <1>3, <1>4, <1>5, <1>6, <1>7, <1>9, <1>10, <1>11, <1>12, <1>13 DEF Course11Run

\* The first N nodes are all still in the table after a swap.
LEMMA SwappedNodes ==
  ASSUME GauntletInv, FullySwapped
  PROVE  /\ 1..N \subseteq NodesOf(rows) /\ rows # <<>> /\ Len(rows) = N
         /\ N \in 1..N /\ rows[N].id = N
  <1>0. N \in Nat /\ N >= 7 /\ N \in 1..N
    BY HasIs
  <1>1. Len(rows) = N /\ \A i \in 1..N : rows[i].id = Exchanged(i) /\ rows[i].node = Exchanged(i)
    BY DEF FullySwapped, TextsSwapped
  <1>2. \A j \in 1..N : Exchanged(j) \in 1..N /\ Exchanged(Exchanged(j)) = j
    BY <1>0 DEF Exchanged
  <1>3. \A j \in 1..N : j \in DOMAIN rows
    BY <1>1, HasIs DEF Has
  <1>4. ASSUME NEW j \in 1..N PROVE j \in NodesOf(rows)
    <2>1. Exchanged(j) \in DOMAIN rows /\ rows[Exchanged(j)].node = j
      BY <1>1, <1>2, <1>3
    <2> QED
      BY <2>1 DEF NodesOf
  <1>5. Exchanged(N) = N
    BY <1>0 DEF Exchanged
  <1> QED
    BY <1>0, <1>1, <1>4, <1>5, HasIs

\* The second frame of the swap, wherever keyedness has come to.
LEMMA Course11RunBack ==
  ASSUME GauntletInv, Paint, PlainSwap, HalfSwapped, kd.on, NEW rest,
         <<>> \o Tail(pending) = rest, Head(pending) = G("swapback", 0)
  PROVE  /\ FullySwapped' /\ Waits(rest)' /\ UNCHANGED <<target, pc, saved, nextId, nodes>> /\ PlainSwap'
         /\ kd'.on /\ kd'.added = kd.added \cup {2} /\ kd'.removed = kd.removed \cup {2}
  <1>1. target # "swapsother"
    BY DEF PlainSwap
  <1>2. /\ FullySwapped' /\ pending' = rest /\ Frame /\ UNCHANGED <<nextId, nodes>>
        /\ Sees({2}, {2})
    BY <1>1, BackSwaps
  <1> QED
    BY <1>2 DEF Frame, Sees, Waits, PlainSwap

\* The first frame of the run in keyedness, for every target.
LEMMA Course11RunFills ==
  ASSUME GauntletInv, Paint, FullySwapped, Waits(<<G("run", 0)>>), PlainSwap, pc = 13,
         nodes = N, nextId = N + 1, kd.on, kd.added \subseteq {2}
  PROVE  Course11Run' \/ Course11Remove'
  <1>0. /\ N \in Nat /\ N >= 7
        /\ 1..N \subseteq NodesOf(rows) /\ rows # <<>> /\ Len(rows) = N
        /\ N \in 1..N /\ rows[N].id = N
    BY HasIs, SwappedNodes
  <1>1. pc' = 13 /\ target' = target /\ nodes' = nodes
    BY RunPaints DEF Frame
  <1>2. CASE target = "appending"
    <2>1. rows' = rows /\ Waits(<<G("fill", 0)>>)'
      BY <1>2, RunPaints
    <2> QED
      BY <1>0, <1>1, <1>2, <2>1 DEF Course11Run
  <1>3. CASE target = "recycling"
    <2>1. /\ Len(rows') = N /\ (\A i \in 1..N : rows'[i].id = nextId + i - 1)
          /\ Quiet' /\ Sees({}, {})
      BY <1>0, <1>3, RunPaints
    <2>2. \A i \in 1..N : rows'[i].id = N + i
      BY <1>0, <2>1
    <2>3. Numbered(N, N)'
      BY <2>1, <2>2 DEF Numbered
    <2>4. kd'.added \subseteq {2}
      BY <2>1 DEF Sees
    <2> QED
      BY <1>1, <1>3, <2>1, <2>3, <2>4 DEF Course11Run
  <1>4. CASE target \notin {"appending", "recycling"}
    <2>1. /\ rows' = <<>> /\ Waits(<<G("fill", 0)>>)' /\ Sees({}, NodesOf(rows))
          /\ nextId' = IF target = "renumbering" THEN 1 ELSE nextId
      BY <1>4, RunPaints
    <2>2. CASE target = "renumbering"
      BY <1>1, <2>1, <2>2 DEF Course11Run
    <2>3. CASE target # "renumbering"
      <3>1. PlainRun'
        BY <1>1, <1>4, <2>3 DEF PlainRun, PlainSwap
      <3>2. kd'.on /\ 1..N \subseteq kd'.removed
        BY <1>0, <2>1 DEF Sees
      <3>3. nodes' = N /\ nextId' = N + 1
        BY <1>1, <2>1, <2>3
      <3> QED
        BY <1>1, <2>1, <3>1, <3>2, <3>3 DEF Course11Remove
    <2> QED
      BY <2>2, <2>3
  <1> QED
    BY <1>2, <1>3, <1>4

\* Operation 11, the run: a frame leaves it on course.
LEMMA Course11RunPaints == ASSUME GauntletInv, Course11Run, Paint PROVE Course11Run' \/ Course11Remove'
  <1>0. N \in Nat /\ N >= 7 /\ ~Quiet /\ N \in 1..N
    BY HasIs, QuietIs
  <1> DEFINE Plain == PlainSwap /\ nodes = N /\ nextId = N + 1 /\ kd.on
  <1>1. ASSUME Plain, Swapping
        PROVE  /\ Swapping' /\ pc' = pc /\ saved' = saved /\ Plain'
               /\ kd'.added = kd.added \cup {2} /\ kd'.removed = kd.removed \cup {2}
    <2>1. HalfSwapped /\ Waits(<<G("swapback", 0)>>)
      BY <1>0, <1>1 DEF Swapping
    <2>2. Head(pending) = G("swapback", 0) /\ <<>> \o Tail(pending) = <<>>
      BY <2>1, OneWaits
    <2>3. /\ FullySwapped' /\ Waits(<<>>)' /\ UNCHANGED <<target, pc, saved, nextId, nodes>> /\ PlainSwap'
          /\ kd'.on /\ kd'.added = kd.added \cup {2} /\ kd'.removed = kd.removed \cup {2}
      BY <1>1, <2>1, <2>2, Course11RunBack
    <2>4. Quiet'
      BY <2>3 DEF Waits, Quiet
    <2> QED
      BY <1>1, <2>3, <2>4 DEF Swapping
  <1>2. CASE pc \in {7, 8} /\ Plain /\ Swapping /\ SawSwap
    <2>1. SawSwap'
      BY <1>1, <1>2 DEF SawSwap
    <2> QED
      BY <1>1, <1>2, <2>1 DEF Course11Run
  <1>3. CASE pc = 9 /\ Plain /\ Swapping /\ saved.got.added # {} /\ saved.got.added = saved.got.removed
    BY <1>1, <1>3 DEF Course11Run
  <1>4. CASE pc \in {10, 11} /\ Plain /\ Swapping
    BY <1>1, <1>4 DEF Course11Run
  <1>5. CASE pc = 12 /\ Plain /\ Swapping /\ kd.added \subseteq {2}
    <2>1. kd'.added \subseteq {2}
      BY <1>1, <1>5
    <2> QED
      BY <1>1, <1>5, <2>1 DEF Course11Run
  <1>6. CASE pc = 13 /\ Plain /\ HalfSwapped /\ Waits(<<G("swapback", 0), G("run", 0)>>) /\ kd.added \subseteq {2}
    <2>1. Head(pending) = G("swapback", 0) /\ <<>> \o Tail(pending) = <<G("run", 0)>>
      BY <1>6, FirstWaits
    <2>3. /\ FullySwapped' /\ Waits(<<G("run", 0)>>)' /\ UNCHANGED <<target, pc, saved, nextId, nodes>>
          /\ PlainSwap' /\ kd'.on /\ kd'.added = kd.added \cup {2} /\ kd'.removed = kd.removed \cup {2}
      BY <1>6, <2>1, Course11RunBack
    <2>4. kd'.added \subseteq {2}
      BY <1>6, <2>3
    <2> QED
      BY <1>6, <2>3, <2>4 DEF Course11Run
  <1>7. CASE pc = 13 /\ Plain /\ FullySwapped /\ Waits(<<G("run", 0)>>) /\ kd.added \subseteq {2}
    BY <1>7, Course11RunFills
  <1>8. CASE target = "renumbering" /\ pc = 13 /\ rows = <<>> /\ nextId = 1 /\ Waits(<<G("fill", 0)>>)
    <2>1. /\ Frame /\ Quiet' /\ Len(rows') = Len(rows) + N
          /\ \A i \in 1..N : rows'[i].id = nextId + i - 1
      BY <1>8, GrownIs
    <2>2. Len(rows) = 0
      BY <1>8, HasIs
    <2>3. Len(rows') = N /\ \A i \in 1..N : rows'[i].id = 0 + i
      BY <1>0, <1>8, <2>1, <2>2
    <2> QED
      BY <1>8, <2>1, <2>3 DEF Course11Run, Numbered, Frame
  <1>9. CASE target = "appending" /\ pc = 13 /\ Len(rows) >= N /\ rows[N].id = N /\ Waits(<<G("fill", 0)>>)
    <2>1. /\ Frame /\ Quiet' /\ Len(rows') = Len(rows) + N
          /\ \A i \in 1..Len(rows) : rows'[i] = rows[i]
      BY <1>9, GrownIs
    <2>2. Len(rows) \in Nat
      BY HasIs
    <2>3. Len(rows') >= N /\ rows'[N].id = N
      BY <1>0, <1>9, <2>1, <2>2
    <2> QED
      BY <1>9, <2>1, <2>3 DEF Course11Run, Frame
  <1> QED
    BY <1>0, <1>2, <1>3, <1>4, <1>5, <1>6, <1>7, <1>8, <1>9 DEF Course11Run

\* The second table, by its places.
LEMMA SecondIs ==
  ASSUME GauntletInv, Second
  PROVE  /\ Len(rows) = N /\ rows[2].id = N + 2 /\ rows[2].node = N + 2 /\ rows[3].id = N + 3
         /\ rows[N].id = 2 * N /\ rows[N].node = 2 * N
         /\ 2 \in 1..N /\ 3 \in 1..N /\ N \in 1..N /\ Has(2)
  <1>1. N \in Nat /\ N >= 7
    BY HasIs
  <1>2. 2 \in 1..N /\ 3 \in 1..N /\ N \in 1..N /\ N + N = 2 * N
    BY <1>1
  <1>3. Len(rows) = N /\ (\A i \in 1..N : rows[i].id = N + i) /\ (\A i \in 1..N : rows[i].node = N + i)
    BY DEF Second, Numbered, MadeFrom
  <1> QED
    BY <1>2, <1>3, HasIs

\* The second table is there as long as nothing is painted.
LEMMA SecondStays ==
  ASSUME UNCHANGED rows
  PROVE  Second => Second'
  BY DEF Second, Numbered, MadeFrom

\* A full table that came and a full table that went are enough of both.
LEMMA EnoughKeyed ==
  ASSUME GauntletInv, NEW in, NEW out, 1..N \subseteq out, (N + 1)..(2 * N) \subseteq in,
         out \cup in \subseteq 1..nodes
  PROVE  Cardinality(in) >= N /\ Cardinality(out) >= N
  <1>1. N \in Nat /\ N >= 7 /\ nodes \in Nat
    BY HasIs DEF GauntletInv, PageKept
  <1>2. IsFiniteSet(1..nodes) /\ IsFiniteSet(1..N) /\ Cardinality(1..N) = N
        /\ IsFiniteSet((N + 1)..(2 * N)) /\ Cardinality((N + 1)..(2 * N)) = N
    BY <1>1, FS_Interval
  <1>3. IsFiniteSet(in) /\ IsFiniteSet(out)
    BY <1>2, FS_Subset
  <1>4. Cardinality(in) \in Nat /\ Cardinality(out) \in Nat
    BY <1>3, FS_CardinalityType
  <1>5. Cardinality((N + 1)..(2 * N)) <= Cardinality(in)
    BY <1>3, FS_Subset
  <1>6. Cardinality(1..N) <= Cardinality(out)
    BY <1>3, FS_Subset
  <1> QED
    BY <1>1, <1>2, <1>4, <1>5, <1>6

\* Operation 11 (keyedness), the removal: wherever it has come to, the closer's verdict is just.
LEMMA Course11RemoveJust == ASSUME GauntletInv, Op = 11, Course11Remove PROVE Just
  <1>0. N \in Nat /\ N >= 7
    BY HasIs
  <1>1. pc \in {13, 18, 20} => Now.do \in Polled /\ Now.do # "bigcount" /\ pc # Len(Program[Op])
    BY Program11Asks
  <1>2. ASSUME pc \in {13, 18, 20}, Prompt, ~Answer /\ Quiet => Fails PROVE Just
    BY <1>1, <1>2, PromptIs, PollJust
  <1>3. CASE pc = 13 /\ Waits(<<G("fill", 0)>>)
    <2>1. ~Quiet /\ Prompt
      BY <1>3, QuietIs, PromptIs
    <2> QED
      BY <1>2, <1>3, <2>1
  <1>4. CASE pc \in {13, 18} /\ Second /\ Quiet
    <2>1. /\ pc = 13 => (Answer <=> N \in 1..Len(rows) /\ rows[N].id = 2 * N)
          /\ pc = 18 => (Answer <=> 2 \in 1..Len(rows) /\ rows[2].id = N + 2)
      BY <1>4, Program11Asks
    <2>2. Answer /\ Prompt
      BY <1>4, <2>1, SecondIs, PromptIs
    <2> QED
      BY <1>2, <1>4, <2>2
  <1>5. CASE pc \in {14, 16, 17, 21} /\ Quiet
    <2>1. \E d \in {"install", "store", "reset", "result"} : Now = Press(d)
      BY <1>5, Program11
    <2>2. Timely
      BY <1>5, TimelyIf
    <2> QED
      BY <2>1, <2>2, SilentJust
  <1>6. CASE /\ pc = 15 /\ Quiet
             /\ 1..N \subseteq saved.got.removed /\ (N + 1)..(2 * N) \subseteq saved.got.added
             /\ saved.got.removed \cup saved.got.added \subseteq 1..nodes
    <2>1. Now = Step("keyedrun", 0, N) /\ Timely /\ Len(Program[Op]) = 22
      BY <1>6, Program11, TimelyIf
    <2>2. Cardinality(saved.got.added) >= N /\ Cardinality(saved.got.removed) >= N
      BY <1>6, EnoughKeyed
    <2>3. Holds /\ Now.do \in Judged
      BY <2>1, <2>2, KeyedIs
    <2> QED
      BY <1>6, <2>1, <2>3, JudgeJust
  <1>7. CASE pc = 19 /\ Second /\ Quiet
    <2>1. Now = Step("remove", 2, 0) /\ Timely /\ "remove" \in Clicks /\ Has(2)
      BY <1>7, Program11, TimelyIf, SecondIs DEF Clicks
    <2> QED
      BY <2>1, JustIf
  <1>8. CASE pc = 20 /\ Waits(<<G("remove", 2)>>)
    <2>1. ~Quiet /\ Prompt
      BY <1>8, QuietIs, PromptIs
    <2> QED
      BY <1>2, <1>8, <2>1
  <1>9. CASE target = "removesnext" /\ pc = 20 /\ Quiet
    <2>1. Fails /\ Prompt
      BY <1>9, Program11, PromptIs
    <2> QED
      BY <1>2, <1>9, <2>1
  <1>10. CASE pc = 20 /\ Quiet /\ Len(rows) = N - 1 /\ rows[2].id = N + 3
    <2>1. 2 \in 1..(N - 1)
      BY <1>0
    <2>2. Answer
      BY <1>10, <2>1, Program11Asks
    <2>3. Prompt
      BY <1>10, PromptIs
    <2> QED
      BY <1>2, <1>10, <2>2, <2>3
  <1>11. CASE /\ PlainRun /\ target # "removesnext" /\ pc = 22 /\ Quiet
              /\ saved.got.stored = N + 2 /\ (N + 2 \in saved.got.removed <=> target # "shifting")
    <2>1. Now = Press("keyedremove") /\ Timely
      BY <1>11, Program11, TimelyIf
    <2>2. (Holds <=> target # "shifting") /\ Now.do \in Judged
      BY <1>11, <2>1, KeyedIs
    <2>3. Fails <=> target = "shifting"
      BY <1>11, Program11 DEF PlainRun, PlainSwap
    <2> QED
      BY <2>1, <2>2, <2>3, JudgeJust
  <1> QED
    BY <1>3, <1>4, <1>5, <1>6, <1>7, <1>8, <1>9, <1>10, <1>11 DEF Course11Remove

\* Operation 11, the removal: the next step finds the page where it should be.
LEMMA Course11RemoveGoes == ASSUME GauntletInv, Op = 11, Course11Remove, Goes PROVE Course11Remove'
  <1>0. N \in Nat /\ N >= 7
    BY HasIs
  <1>1. pc \in {13, 18, 20} => /\ pc' = pc + 1 /\ Answer
                               /\ UNCHANGED <<target, rows, nextId, nodes, pending, saved, kd>>
    BY Program11Goes
  <1>2. ASSUME NEW d \in {"store", "reset", "result"}, Now = Press(d)
        PROVE  /\ pc' = pc + 1 /\ UNCHANGED <<target, results, rows, nextId, nodes, pending>>
               /\ kd.on => kd'.on
               /\ d = "reset" => kd'.removed = {} /\ kd'.stored = kd.stored
               /\ d = "store" => kd'.removed = kd.removed /\ (Has(2) => kd'.stored = rows[2].node)
               /\ d = "result" => /\ kd' = kd /\ saved'.got.added = kd.added
                                  /\ saved'.got.removed = kd.removed /\ saved'.got.stored = kd.stored
    <2>2. CASE d = "store"
      BY <1>2, <2>2, Instrumented
    <2>3. CASE d = "reset"
      BY <1>2, <2>3, Instrumented
    <2>4. CASE d = "result"
      BY <1>2, <2>4, Instrumented
    <2> QED
      BY <2>2, <2>3, <2>4
  <1>3. target' = target
    BY DEF Goes
  <1>4. PlainRun => PlainRun'
    BY <1>3 DEF PlainRun, PlainSwap
  <1>5. ~(pc = 13 /\ rows = <<>>)
    <2>1. rows = <<>> => Len(rows) = 0
      BY HasIs
    <2>2. pc = 13 => N \in 1..Len(rows)
      BY Program11Asks, Program11Goes
    <2> QED
      BY <1>0, <2>1, <2>2
  <1>6. CASE /\ PlainRun /\ kd.on /\ Second /\ Quiet /\ pc = 13
             /\ 1..N \subseteq kd.removed /\ (N + 1)..(2 * N) \subseteq kd.added
    <2>1. pc' = 14 /\ rows' = rows /\ pending' = pending /\ kd' = kd
      BY <1>1, <1>6
    <2>2. Second' /\ Quiet'
      BY <1>6, <2>1, SecondStays, QuietIs
    <2> QED
      BY <1>4, <1>6, <2>1, <2>2 DEF Course11Remove
  <1>7. CASE /\ PlainRun /\ kd.on /\ Second /\ Quiet /\ pc = 14
             /\ 1..N \subseteq kd.removed /\ (N + 1)..(2 * N) \subseteq kd.added
    <2>1. Now = Press("result")
      BY <1>7, Program11
    <2>2. /\ pc' = 15 /\ rows' = rows /\ pending' = pending /\ kd' = kd /\ nodes' = nodes
          /\ saved'.got.added = kd.added /\ saved'.got.removed = kd.removed
      BY <1>2, <1>7, <2>1
    <2>3. Second' /\ Quiet'
      BY <1>7, <2>2, SecondStays, QuietIs
    <2>4. kd.removed \cup kd.added \subseteq 1..nodes
      BY DEF GauntletInv, PageKept
    <2> QED
      BY <1>4, <1>7, <2>2, <2>3, <2>4 DEF Course11Remove
  <1>8. CASE PlainRun /\ kd.on /\ Second /\ Quiet /\ pc = 15
    <2>1. Now = Step("keyedrun", 0, N)
      BY <1>8, Program11
    <2>2. pc' = 16 /\ rows' = rows /\ pending' = pending /\ kd' = kd
      BY <1>8, <2>1, KeyedGoes
    <2>3. Second' /\ Quiet'
      BY <1>8, <2>2, SecondStays, QuietIs
    <2> QED
      BY <1>4, <1>8, <2>2, <2>3 DEF Course11Remove
  <1>9. CASE PlainRun /\ kd.on /\ Second /\ Quiet /\ pc = 16
    <2>1. Now = Press("store")
      BY <1>9, Program11
    <2>2. Has(2) /\ rows[2].node = N + 2
      BY <1>9, SecondIs
    <2>3. /\ pc' = 17 /\ rows' = rows /\ pending' = pending /\ kd'.on /\ kd'.stored = N + 2
      BY <1>2, <1>9, <2>1, <2>2
    <2>4. Second' /\ Quiet'
      BY <1>9, <2>3, SecondStays, QuietIs
    <2> QED
      BY <1>4, <1>9, <2>3, <2>4 DEF Course11Remove
  <1>10. CASE PlainRun /\ kd.on /\ Second /\ Quiet /\ pc = 17 /\ kd.stored = N + 2
    <2>1. Now = Press("reset")
      BY <1>10, Program11
    <2>2. pc' = 18 /\ rows' = rows /\ pending' = pending /\ kd'.on /\ kd'.stored = N + 2 /\ kd'.removed = {}
      BY <1>2, <1>10, <2>1
    <2>3. Second' /\ Quiet'
      BY <1>10, <2>2, SecondStays, QuietIs
    <2> QED
      BY <1>4, <1>10, <2>2, <2>3 DEF Course11Remove
  <1>11. CASE PlainRun /\ kd.on /\ Second /\ Quiet /\ pc = 18 /\ kd.stored = N + 2 /\ kd.removed = {}
    <2>1. pc' = 19 /\ rows' = rows /\ pending' = pending /\ kd' = kd
      BY <1>1, <1>11
    <2>2. Second' /\ Quiet'
      BY <1>11, <2>1, SecondStays, QuietIs
    <2> QED
      BY <1>4, <1>11, <2>1, <2>2 DEF Course11Remove
  <1>12. CASE PlainRun /\ kd.on /\ Second /\ Quiet /\ pc = 19 /\ kd.stored = N + 2 /\ kd.removed = {}
    <2>1. Now = Step("remove", 2, 0) /\ "remove" \in Clicks
      BY <1>12, Program11 DEF Clicks
    <2>2. pc' = 20 /\ rows' = rows /\ kd' = kd /\ Waits(<<G("remove", 2)>>)'
      BY <1>12, <2>1, Pressed
    <2>3. Second'
      BY <1>12, <2>2, SecondStays
    <2> QED
      BY <1>4, <1>12, <2>2, <2>3 DEF Course11Remove
  <1>13. pc = 20 => 2 \in 1..Len(rows) /\ rows[2].id = N + 3
    BY Program11Asks, Program11Goes
  <1>14. ~(pc = 20 /\ rows[2].id = N + 2)
    BY <1>0, <1>13
  <1>15. ~(pc = 20 /\ Second)
    BY <1>0, <1>13, SecondIs
  <1>16. CASE /\ PlainRun /\ target # "removesnext" /\ pc = 20 /\ Quiet /\ Len(rows) = N - 1 /\ rows[2].id = N + 3
              /\ kd.stored = N + 2 /\ (N + 2 \in kd.removed <=> target # "shifting")
    <2>1. pc' = 21 /\ rows' = rows /\ pending' = pending /\ kd' = kd
      BY <1>1, <1>16
    <2>2. Quiet'
      BY <1>16, <2>1, QuietIs
    <2> QED
      BY <1>3, <1>4, <1>16, <2>1, <2>2 DEF Course11Remove
  <1>17. CASE /\ PlainRun /\ target # "removesnext" /\ pc = 21 /\ Quiet
              /\ kd.stored = N + 2 /\ (N + 2 \in kd.removed <=> target # "shifting")
    <2>1. Now = Press("result")
      BY <1>17, Program11
    <2>2. /\ pc' = 22 /\ pending' = pending
          /\ saved'.got.removed = kd.removed /\ saved'.got.stored = kd.stored
      BY <1>2, <1>17, <2>1
    <2>3. Quiet'
      BY <1>17, <2>2, QuietIs
    <2> QED
      BY <1>3, <1>4, <1>17, <2>2, <2>3 DEF Course11Remove
  <1>18. pc # 22
    <2>1. Len(Program[Op]) = 22
      BY Program11
    <2> QED
      BY <2>1 DEF Goes
  <1> QED
    BY <1>5, <1>6, <1>7, <1>8, <1>9, <1>10, <1>11, <1>12, <1>14, <1>15, <1>16, <1>17, <1>18 DEF Course11Remove

\* Operation 11, the removal: a frame leaves it on course.
LEMMA Course11RemovePaints == ASSUME GauntletInv, Course11Remove, Paint PROVE Course11Remove'
  <1>0. N \in Nat /\ N >= 7 /\ ~Quiet
    BY HasIs, QuietIs
  <1>1. ASSUME Frame PROVE pc' = pc /\ target' = target /\ (PlainRun => PlainRun')
    BY <1>1 DEF Frame, PlainRun, PlainSwap
  <1>2. CASE /\ PlainRun /\ pc = 13 /\ nodes = N /\ nextId = N + 1 /\ rows = <<>> /\ Waits(<<G("fill", 0)>>)
             /\ kd.on /\ 1..N \subseteq kd.removed
    <2>1. /\ Frame /\ Quiet' /\ Sees((nodes + 1)..(nodes + N), {}) /\ Len(rows') = Len(rows) + N
          /\ \A i \in 1..N : rows'[i].id = nextId + i - 1 /\ rows'[i].node = nodes + i
      BY <1>2, GrownIs
    <2>2. Len(rows') = N
      BY <1>0, <1>2, <2>1, HasIs
    <2>3. \A i \in 1..N : rows'[i].id = N + i /\ rows'[i].node = N + i
      BY <1>0, <1>2, <2>1
    <2>4. Second'
      BY <2>2, <2>3 DEF Second, Numbered, MadeFrom
    <2>5. (N + 1)..(2 * N) \subseteq (nodes + 1)..(nodes + N)
      BY <1>0, <1>2
    <2>6. kd'.on /\ 1..N \subseteq kd'.removed /\ (N + 1)..(2 * N) \subseteq kd'.added
      BY <1>2, <2>1, <2>5 DEF Sees
    <2> QED
      BY <1>1, <1>2, <2>1, <2>4, <2>6 DEF Course11Remove
  <1>3. CASE /\ PlainRun /\ kd.on /\ Second /\ pc = 20 /\ Waits(<<G("remove", 2)>>)
             /\ kd.stored = N + 2 /\ kd.removed = {}
    <2>1. /\ Len(rows) = N /\ rows[2].id = N + 2 /\ rows[3].id = N + 3 /\ rows[2].node = N + 2
          /\ rows[Len(rows)].node = 2 * N /\ Len(rows) >= 2
      BY <1>0, <1>3, SecondIs
    <2> DEFINE n == IF target = "removesnext" THEN 2 + 1 ELSE 2
    <2>2. /\ Frame /\ Quiet' /\ Len(rows') = Len(rows) - 1
          /\ \A i \in 1..(Len(rows) - 2) : rows'[i].id = IF i < n THEN rows[i].id ELSE rows[i + 1].id
          /\ kd'.on = kd.on /\ kd'.stored = kd.stored
          /\ kd.on /\ target # "shifting" => rows[n].node \in kd'.removed
          /\ kd.on /\ target = "shifting" => kd'.removed = kd.removed \cup {rows[Len(rows)].node}
      BY <1>3, <2>1, RemovePaints
    <2>3. 2 \in 1..(Len(rows) - 2) /\ Len(rows') = N - 1
      BY <1>0, <2>1, <2>2
    <2>4. CASE target = "removesnext"
      <3>1. rows'[2].id = N + 2
        BY <2>1, <2>2, <2>3, <2>4
      <3> QED
        BY <1>1, <1>3, <2>2, <2>3, <2>4, <3>1 DEF Course11Remove
    <2>5. CASE target # "removesnext"
      <3>1. rows'[2].id = rows[2 + 1].id
        BY <2>2, <2>3, <2>5
      <3>2. rows'[2].id = N + 3
        BY <2>1, <3>1
      <3>3. target # "shifting" => N + 2 \in kd'.removed
        BY <1>3, <2>1, <2>2, <2>5
      <3>4. target = "shifting" => N + 2 \notin kd'.removed
        <4>1. N + 2 # 2 * N
          BY <1>0
        <4> QED
          BY <1>3, <2>1, <2>2, <4>1
      <3>5. kd'.stored = N + 2
        BY <1>3, <2>2
      <3> QED
        BY <1>1, <1>3, <2>2, <2>3, <2>5, <3>2, <3>3, <3>4, <3>5 DEF Course11Remove
    <2> QED
      BY <2>4, <2>5
  <1> QED
    BY <1>0, <1>2, <1>3 DEF Course11Remove

\* Operation 11 (keyedness): wherever it has come to, the closer's verdict is just.
LEMMA Course11Just == ASSUME GauntletInv, Op = 11, Course11 PROVE Just
  BY Course11SwapJust, Course11RunJust, Course11RemoveJust DEF Course11

\* Operation 11: the next step finds the page where it should be.
LEMMA Course11Goes == ASSUME GauntletInv, Op = 11, Course11, Goes PROVE Course11'
  BY Course11SwapGoes, Course11RunGoes, Course11RemoveGoes DEF Course11

\* Operation 11: a frame leaves it on course.
LEMMA Course11Paints == ASSUME GauntletInv, Course11, Paint PROVE Course11'
  BY Course11SwapPaints, Course11RunPaints, Course11RemovePaints DEF Course11

\* Wherever an operation has come to, what the closer may do there is just.
LEMMA CourseJust == ASSUME GauntletInv, Course, pc # 0 PROVE Just
  BY Course1Just, Course2Just, Course3Just, Course4Just, Course5Just, Course6Just, Course7Just,
     Course8Just, Course9Just, Course10Just, Course11Just DEF Course

\* A step after which an operation goes on leaves it on course.
LEMMA CourseGoes == ASSUME GauntletInv, Course, Goes, pc # 0 PROVE Course'
  <1>1. Op' = Op
    BY DEF Goes, Op
  <1> QED
    BY <1>1, Course1Goes, Course2Goes, Course3Goes, Course4Goes, Course5Goes, Course6Goes, Course7Goes,
       Course8Goes, Course9Goes, Course10Goes, Course11Goes DEF Course

\* And so does a look that settles nothing.
LEMMA CourseStays == ASSUME Course, Idles, pc # 0 PROVE Course'
  <1>1. Same
    BY DEF Idles, Same
  <1>2. Op' = Op
    BY <1>1, PlacesStay
  <1> QED
    BY <1>1, <1>2, CoursesStay, Course9Stays DEF Course

\* And a frame of the page.
LEMMA CoursePaints == ASSUME GauntletInv, Course, Paint PROVE Course' /\ target' = target /\ results' = results
  <1>1. target' = target /\ results' = results /\ Op' = Op
    BY DEF Paint, Painted, Emptied, Recycled, Grown, Updated, Chosen, Swapped, SwappedInPlace, Removed, Op
  <1>2. ~Quiet
    BY QuietIs
  <1> QED
    BY <1>1, <1>2, Course1Paints, Course2Paints, Course3Paints, Course4Paints, Course5Paints, Course6Paints,
       Course7Paints, Course8Paints, Course9Paints, Course10Paints, Course11Paints DEF Course

\* Between two operations the page is fresh.
LEMMA BetweenIsFresh == ASSUME Course, pc = 0 PROVE Fresh
  <1>1. ~Opening /\ ~OpeningAdd
    BY DEF Opening, OpeningAdd
  <1>2. ~Course1 /\ ~Course2 /\ ~Course3 /\ ~Course4 /\ ~Course6 /\ ~Course7 /\ ~Course8 /\ ~Course9 /\ ~Course10
    BY <1>1 DEF Course1, Course2, Course3, Course4, Course6, Course7, Course8, Course9, Course10
  <1>3. ~Course5
    BY <1>1 DEF Course5
  <1>4. ~Course11Swap /\ ~Course11Run /\ ~Course11Remove
    BY <1>1 DEF Course11Swap, Course11Run, Course11Remove
  <1> QED
    BY <1>2, <1>3, <1>4 DEF Course, Course11, Fresh

\* Each operation begins with a fresh page.
LEMMA CourseOpens == ASSUME GauntletInv, Course, Navigate PROVE Course'
  <1>1. /\ Op \in Operations /\ pc = 0 /\ pc' = 1
        /\ UNCHANGED <<target, results, found, saved, rows, nextId, nodes, pending, kd>>
    BY DEF Navigate, page
  <1>2. Op \in {1, 2, 3, 4, 5, 6, 7, 8, 9, 10, 11}
    BY <1>1, ProgramsEnd
  <1>3. Clean /\ Quiet /\ ~found
    BY <1>1, BetweenIsFresh DEF Fresh
  <1>4. Clean' /\ Quiet' /\ ~found' /\ Op' = Op
    BY <1>1, <1>3 DEF Clean, Quiet, Op
  <1>5. Opening' /\ OpeningAdd' /\ Course7'
    BY <1>1, <1>4 DEF Opening, OpeningAdd, Course7
  <1>6. /\ Course1' /\ Course2' /\ Course3' /\ Course4' /\ Course5' /\ Course6' /\ Course8' /\ Course9'
        /\ Course10' /\ Course11'
    BY <1>4, <1>5 DEF Course1, Course2, Course3, Course4, Course5, Course6, Course8, Course9, Course10,
       Course11, Course11Swap
  <1> QED
    BY <1>2, <1>4, <1>5, <1>6 DEF Course

\* What is tested is not changed by testing it.
LEMMA TargetStays == ASSUME [Next]_vars PROVE target' = target
  <1>1. Paint => target' = target
    BY DEF Paint, Painted, Emptied, Recycled, Grown, Updated, Chosen, Swapped, SwappedInPlace, Removed
  <1>2. Click \/ Poll \/ Read \/ Evaluate \/ Judge \/ Trouble \/ Report \/ Navigate => target' = target
    BY DEF Click, Poll, Read, Evaluate, Judge, Trouble, Report, Navigate
  <1>3. UNCHANGED vars => target' = target
    BY DEF vars
  <1> QED
    BY <1>1, <1>2, <1>3 DEF Next, Unfailing

\* A page that paints nothing, and where its operations come to.
Blank == target = "frozen" /\ rows = <<>> /\ pc \in {0, 1, 2}

\* A click, then a question that an empty table cannot answer.
LEMMA BlankAsks ==
  ASSUME GauntletInv, Blank, InProgram
  PROVE  /\ pc = 1 => Now.do \in Clicks /\ Present
         /\ pc = 2 => Now.do \in Polled /\ ~Answer
         /\ pc = 1 \/ pc = 2
  <1>0. /\ N \in Nat /\ N >= 7 /\ LotsN \in Nat /\ LotsN > N /\ Len(rows) = 0
        /\ \A n : Has(n) <=> n \in 1..Len(rows)
    BY HasIs DEF Blank
  <1>1. ~Has(N)
    BY <1>0
  <1>2. Op \in 1..11 /\ pc \in Nat /\ (pc = 1 \/ pc = 2)
    BY ProgramsEnd DEF InProgram, Blank
  <1>3. /\ pc = 1 => Now = Press("run") \/ Now = Press("add") \/ Now = Press("runlots")
        /\ pc = 2 => \/ Now = Step("text", N, N) \/ Now = Step("count", 0, N)
                     \/ Now = Step("bigcount", 0, LotsN)
    <2>1. CASE Op = 7
      BY <2>1, Now7
    <2>2. CASE Op \in {10, 11}
      BY <1>2, <2>2, AddAsks DEF Asks
    <2>3. CASE Op \in {1, 2, 3, 4, 5, 6, 8, 9}
      BY <1>2, <2>3, RunAsks DEF Asks
    <2> QED
      BY <1>2, <2>1, <2>2, <2>3
  <1>4. pc = 1 => Now.do \in Clicks /\ Present
    BY <1>3 DEF Press, Step, Clicks, Present, Blank
  <1>5. ASSUME NEW d, NEW r, NEW w, Now = Step(d, r, w), d \in {"text", "count", "bigcount"},
               d = "text" => r = N, d # "text" => w \in {N, LotsN}
        PROVE  Now.do \in Polled /\ ~Answer
    <2>1. Now.do = d /\ Now.row = r /\ Now.want = w
      BY <1>5 DEF Step
    <2>2. /\ d \in {"count", "bigcount"} => (Answer <=> Len(rows) = w)
          /\ d = "text" => (Answer <=> Has(r) /\ rows[r].id = w)
      BY <2>1 DEF Answer
    <2>3. Len(rows) # N /\ Len(rows) # LotsN
      BY <1>0
    <2> QED
      BY <1>1, <1>5, <2>1, <2>2, <2>3 DEF Polled
  <1>6. pc = 2 => Now.do \in Polled /\ ~Answer
    BY <1>3, <1>5
  <1> QED
    BY <1>2, <1>4, <1>6

\* Such a page is failed in every operation.
LEMMA BlankFails ==
  ASSUME GauntletInv, Blank, VerdictIsTheTargets, Next
  PROVE  Blank' /\ VerdictIsTheTargets'
  <1>0. Sayable /\ (Op \in Operations => Deserved)
    BY DEF Blank, Sayable, Deserved, ShowsIn
  <1>1. ASSUME UNCHANGED <<target, results>> PROVE VerdictIsTheTargets'
    BY <1>1, ProgramsEnd DEF VerdictIsTheTargets, ShowsIn, FailsAt
  <1>2. ASSUME NEW last \in {"violated", "unresolvable"}, NEW trouble \in BOOLEAN, target' = target,
               Op \in Operations, Close(Append(assertions, last), trouble), ~trouble => last = "violated"
        PROVE  Blank' /\ VerdictIsTheTargets'
    <2>1. rows' = <<>> /\ pc' = 0 /\ target' = "frozen"
      BY <1>2 DEF Close, Blank
    <2> QED
      BY <1>0, <1>2, <2>1, EndsRight DEF Blank
  <1>3. CASE Navigate \/ Report
    BY <1>1, <1>3 DEF Navigate, Report, Blank, page
  <1>4. CASE Click
    <2>1. InProgram /\ Now.do \in Clicks /\ target' = target
      BY <1>4 DEF Click
    <2>2. Clicks \cap Polled = {}
      BY KindsDiffer
    <2>3. pc = 1 /\ Present
      BY <2>1, <2>2, BlankAsks
    <2> QED
      BY <1>1, <1>4, <2>1, <2>3 DEF Click, Blank, page
  <1>5. CASE Poll
    <2>1. InProgram /\ Op \in Operations /\ Now.do \in Polled /\ target' = target
      BY <1>5 DEF Poll, InProgram
    <2>2. Clicks \cap Polled = {}
      BY KindsDiffer
    <2>3. pc = 2 /\ ~Answer
      BY <2>1, <2>2, BlankAsks
    <2>4. CASE Sleep
      BY <1>1, <2>1, <2>4 DEF Sleep, Blank, page
    <2>5. CASE Record("violated")
      <3>1. Close(Append(assertions, "violated"), FALSE)
        BY <2>5 DEF Record
      <3> QED
        BY <1>2, <2>1, <3>1
    <2> QED
      BY <1>5, <2>3, <2>4, <2>5 DEF Poll
  <1>6. ~(Read \/ Evaluate \/ Judge)
    <2>1. InProgram => Now.do \in Clicks \cup Polled
      BY BlankAsks
    <2>2. /\ Read => InProgram /\ Now.do = "read"
          /\ Evaluate => InProgram /\ Now.do \in Silent
          /\ Judge => InProgram /\ Now.do \in Judged
      BY DEF Read, Evaluate, Judge
    <2>3. Now.do \in Clicks \cup Polled => Now.do \notin Silent \cup Judged \cup {"read"}
      BY DEF Clicks, Polled, Silent, Judged
    <2> QED
      BY <2>1, <2>2, <2>3
  <1>7. CASE Trouble
    <2>1. Op \in Operations /\ target' = target /\ Close(Append(assertions, "unresolvable"), TRUE)
      BY <1>7 DEF Trouble
    <2> QED
      BY <1>2, <2>1
  <1>8. ~Paint
    BY DEF Paint, Blank
  <1> QED
    BY <1>3, <1>4, <1>5, <1>6, <1>7, <1>8 DEF Next, Unfailing

\* A page gets the verdict the target deserves, whenever its frames fall and if none
\* does: VerdictIsTheTargets.
THEOREM VerdictsAreTheTargets == Spec => []VerdictIsTheTargets
  <1> DEFINE Right == /\ VerdictIsTheTargets
                      /\ OnTime => Course
                      /\ target = "frozen" => Blank
  <1>1. Init => Right
    BY DEF Init, VerdictIsTheTargets, Course, Clean, Quiet, Blank
  <1>2. ASSUME UNCHANGED <<target, results>>, VerdictIsTheTargets PROVE VerdictIsTheTargets'
    BY <1>2, ProgramsEnd DEF VerdictIsTheTargets, ShowsIn, FailsAt
  <1>3. ASSUME Fresh' PROVE Course'
    BY <1>3 DEF Fresh, Course
  <1> DEFINE Kept == VerdictIsTheTargets' /\ Course'
  <1>4. ASSUME GauntletInv, VerdictIsTheTargets, OnTime, Course, Click \/ Poll \/ Read \/ Evaluate \/ Judge
        PROVE  Kept
    <2>1. pc # 0
      BY <1>4 DEF Click, Poll, Read, Evaluate, Judge, InProgram
    <2>2. Just
      BY <1>4, <2>1, CourseJust
    <2>3. CASE Fresh' /\ VerdictIsTheTargets'
      BY <1>3, <2>3
    <2>4. CASE Goes
      BY <1>2, <1>4, <2>1, <2>4, CourseGoes DEF Goes
    <2>5. CASE Idles
      BY <1>2, <1>4, <2>1, <2>5, CourseStays DEF Idles
    <2> QED
      BY <1>4, <2>2, <2>3, <2>4, <2>5, CloserMoves
  <1>5. ASSUME GauntletInv, VerdictIsTheTargets, OnTime, Trouble PROVE Kept
    <2>1. Op \in Operations /\ target' = target /\ Close(Append(assertions, "unresolvable"), TRUE)
      BY <1>5 DEF Trouble
    <2> QED
      BY <1>3, <1>5, <2>1, EndsRight, OnTimeIs
  <1>6. ASSUME GauntletInv, VerdictIsTheTargets, Course, Navigate PROVE Kept
    BY <1>2, <1>6, CourseOpens DEF Navigate
  <1>7. ASSUME VerdictIsTheTargets, Course, Report \/ UNCHANGED vars PROVE Kept
    <2>1. UNCHANGED <<target, results, pc, found, saved, rows, nextId, nodes, pending, kd>>
      BY <1>7 DEF Report, vars, page
    <2>2. CASE pc # 0
      <3>1. Idles
        BY <2>1 DEF Idles
      <3> QED
        BY <1>2, <1>7, <2>1, <2>2, <3>1, CourseStays
    <2>3. CASE pc = 0
      <3>1. Fresh
        BY <1>7, <2>3, BetweenIsFresh
      <3>2. Fresh'
        BY <2>1, <3>1 DEF Fresh, Clean, Quiet
      <3> QED
        BY <1>2, <1>3, <1>7, <2>1, <3>2
    <2> QED
      BY <2>2, <2>3
  <1>8. ASSUME GauntletInv, VerdictIsTheTargets, Course, Paint PROVE Kept
    BY <1>2, <1>8, CoursePaints
  <1>9. GauntletInv /\ Right /\ [Next]_vars => Right'
    <2>1. SUFFICES ASSUME GauntletInv, Right, [Next]_vars PROVE Right'
      OBVIOUS
    <2>2. target' = target
      BY <2>1, TargetStays
    <2>3. CASE OnTime
      <3>1. Kept
        BY <1>4, <1>5, <1>6, <1>7, <1>8, <2>1, <2>3 DEF Next, Unfailing
      <3>2. target' # "frozen"
        BY <2>2, <2>3 DEF OnTime
      <3> QED
        BY <3>1, <3>2
    <2>4. CASE target = "frozen"
      <3>1. ~OnTime'
        BY <2>2, <2>4 DEF OnTime
      <3>2. CASE Next
        BY <2>1, <2>4, <3>1, <3>2, BlankFails
      <3>3. CASE UNCHANGED vars
        BY <1>2, <2>1, <2>4, <3>1, <3>3 DEF Blank, vars, page
      <3> QED
        BY <2>1, <3>2, <3>3
    <2>5. CASE target = "late"
      BY <2>2, <2>5 DEF VerdictIsTheTargets, OnTime
    <2> QED
      BY <2>3, <2>4, <2>5 DEF OnTime
  <1>10. Right => VerdictIsTheTargets
    OBVIOUS
  <1> QED
    BY <1>1, <1>9, <1>10, GauntletInvariance, PTL DEF Spec

=============================================================================
