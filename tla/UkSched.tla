------------------------------ MODULE UkSched ------------------------------
(***************************************************************************)
(* unikraft/sched: the threads a Koru flow makes, runs and reaps, over     *)
(* Unikraft's cooperative scheduler.                                       *)
(*                                                                         *)
(* One thread, Main, runs the flow; the others run workerBody.  Only       *)
(* sched_yield switches, so what a thread does between two yields is one   *)
(* action.  A handle is named by its thread; both are freed together and   *)
(* may be handed out again.  `state` is the phantom state of the handle:   *)
(* the compiler refuses a call whose guard on it is false.                 *)
(***************************************************************************)
EXTENDS Integers, FiniteSets, SequencesExt

CONSTANTS
    Threads,   \* threads the flow may have at once
    Main,      \* the thread that runs the flow
    MaxLaps    \* bound: laps a worker is primed with

ASSUME SchedAssumption ==
    /\ IsFiniteSet(Threads) /\ Main \notin Threads
    /\ MaxLaps \in Nat \ {0}

VARIABLES
    state,     \* per thread: the phantom state of its handle
    work,      \* per thread: laps, lap, started, finished of its handle
    attached,  \* threads on the scheduler's thread_list, Main and idle left out
    runnable,  \* threads with UK_THREADF_RUNNABLE
    queueable, \* threads with UK_THREADF_QUEUEABLE
    queue,     \* the run queue
    current,   \* the thread that runs
    call       \* the call of run or join that Main is in

vars == <<state, work, attached, runnable, queueable, queue, current, call>>
kernel == <<attached, runnable, queueable, queue, current>>

States == {"none", "container", "primed", "queued", "ran", "parked", "detached"}
NoWork == [laps |-> 0, lap |-> 0, started |-> FALSE, finished |-> FALSE]
NoCall == [op |-> "none", thread |-> Main, yields |-> 0]

Init ==
    /\ state = [t \in Threads |-> "none"]
    /\ work = [t \in Threads |-> NoWork]
    /\ attached = {} /\ runnable = {} /\ queueable = {}
    /\ queue = <<>> /\ current = Main
    /\ call = NoCall

\* The next call of the flow, on a handle in one of the states.
Accepts(t, states) == current = Main /\ call = NoCall /\ state[t] \in states
Mint(t, s) == state' = [state EXCEPT ![t] = s]

----------------------------------------------------------------------------
(* The kernel, as index.kz and README.md use it.                           *)

Waiting == {queue[i] : i \in DOMAIN queue}
Without(t) ==
    IF t \in Waiting THEN RemoveAt(queue, CHOOSE i \in DOMAIN queue : queue[i] = t) ELSE queue

\* sched_yield of the current thread: the head of the run queue goes next, a thread
\* that is still runnable goes to the tail.  Being switched away from makes it queueable.
Yield(u, stays) ==
    LET q == IF stays THEN Append(queue, u) ELSE queue
    IN  IF queue = <<>> /\ stays
        THEN UNCHANGED <<queue, queueable, current>>
        ELSE /\ queue # <<>>
             /\ current' = Head(q)
             /\ queue' = Tail(q)
             /\ queueable' = queueable \cup {u}

\* uk_thread_block of a thread that is not running; one that is blocked stays so.
Block(t) ==
    /\ runnable' = runnable \ {t}
    /\ queue' = Without(t)

\* uk_thread_wake: a runnable thread stays as it is; another goes back to the run
\* queue, but only if it has been switched away from before.
Wake(t) ==
    /\ runnable' = runnable \cup {t}
    /\ queue' = IF t \notin runnable /\ t \in queueable THEN Append(queue, t) ELSE queue

\* A thread of the kernel is given back, with its handle.
Forget(t) ==
    /\ Mint(t, "none")
    /\ work' = [work EXCEPT ![t] = NoWork]
    /\ runnable' = runnable \ {t} /\ queueable' = queueable \ {t}
    /\ UNCHANGED <<current, call>>

----------------------------------------------------------------------------
(* Building a thread and giving it back.                                   *)

\* A refusal leaves nothing behind.
Reserve(t) ==
    /\ Accepts(t, {"none"})
    /\ Mint(t, "container")
    /\ UNCHANGED <<work, kernel, call>>

\* Zero laps are rejected; the handle stays a container.
Prime(t, laps) ==
    /\ Accepts(t, {"container"}) /\ laps > 0
    /\ Mint(t, "primed")
    /\ work' = [work EXCEPT ![t].laps = laps]
    /\ runnable' = runnable \cup {t}
    /\ UNCHANGED <<attached, queueable, queue, current, call>>

\* A refusal leaves the handle primed.
Attach(t) ==
    /\ Accepts(t, {"primed"})
    /\ Mint(t, "queued")
    /\ attached' = attached \cup {t}
    /\ queue' = Append(queue, t)
    /\ UNCHANGED <<work, runnable, queueable, current, call>>

NeverRan(t) ==
    /\ Accepts(t, {"queued"})
    /\ Mint(t, "ran")
    /\ UNCHANGED <<work, kernel, call>>

Unspawned(t) ==
    /\ Accepts(t, {"container", "primed"})
    /\ Mint(t, "detached")
    /\ UNCHANGED <<work, kernel, call>>

Release(t) ==
    /\ Accepts(t, {"detached"})
    /\ Forget(t)
    /\ UNCHANGED <<attached, queue>>

Terminate(t) ==
    /\ Accepts(t, {"ran", "parked"})
    /\ attached' = attached \ {t}
    /\ queue' = Without(t)
    /\ Forget(t)

----------------------------------------------------------------------------
(* Giving it CPU.                                                          *)

Park(t) ==
    /\ Accepts(t, {"ran"})
    /\ Mint(t, "parked")
    /\ Block(t)
    /\ UNCHANGED <<work, attached, queueable, current, call>>

\* Mutant: the wake is left out.
UnparkAsleep(t) ==
    /\ Accepts(t, {"parked"})
    /\ Mint(t, "ran")
    /\ UNCHANGED <<work, kernel, call>>
Unpark(t) ==
    /\ Accepts(t, {"parked"})
    /\ Mint(t, "ran")
    /\ Wake(t)
    /\ UNCHANGED <<work, attached, queueable, current, call>>

\* Yields before run and join give up on a thread that has not started: i <= pass,
\* pass being the length of the roster, Main and idle included.
\* Mutant: the threads before this one are counted, and Main and idle are not.
PassOfOthers == Cardinality(attached) - 1
Pass == Cardinality(attached) + 3

Enter(t, op) ==
    /\ Accepts(t, {"queued", "ran"})
    /\ call' = [op |-> op, thread |-> t, yields |-> Pass]
    /\ UNCHANGED <<state, work, kernel>>

Return(s) ==
    /\ Mint(call.thread, s)
    /\ call' = NoCall
    /\ UNCHANGED <<work, kernel>>

InCall == current = Main /\ call # NoCall
Started == work[call.thread].started

\* Both spend their yields until the thread has started; then run is done, and join
\* yields until the thread has finished.
Await ==
    /\ InCall
    /\ IF Started THEN call.op = "join" /\ ~work[call.thread].finished
                  ELSE call.yields > 0
    /\ call' = [call EXCEPT !.yields = IF @ > 0 THEN @ - 1 ELSE 0]
    /\ Yield(Main, TRUE)
    /\ UNCHANGED <<state, work, attached, runnable>>

Done ==
    /\ InCall /\ Started
    /\ call.op = "join" => work[call.thread].finished
    /\ Return("ran")

Stalled ==
    /\ InCall /\ ~Started /\ call.yields = 0
    /\ Return("queued")

----------------------------------------------------------------------------
(* workerBody, from one yield to the next.                                 *)

MoreLaps(t) == work[t].lap < work[t].laps

Lap(t) ==
    /\ MoreLaps(t)
    /\ work' = [work EXCEPT ![t].started = TRUE, ![t].lap = @ + 1]
    /\ Yield(t, TRUE)
    /\ UNCHANGED runnable

\* The last lap is over: finished is raised, and then the thread blocks itself
\* whenever it runs.  Mutant: it blocks itself first.
RestFirst(t) ==
    /\ ~MoreLaps(t)
    /\ work' = [work EXCEPT ![t].finished = t \notin runnable]
    /\ runnable' = runnable \ {t}
    /\ Yield(t, FALSE)
Rest(t) ==
    /\ ~MoreLaps(t)
    /\ work' = [work EXCEPT ![t].finished = TRUE]
    /\ runnable' = runnable \ {t}
    /\ Yield(t, FALSE)

workerBody(t) ==
    /\ current = t
    /\ Lap(t) \/ Rest(t)
    /\ UNCHANGED <<state, attached, call>>

Flow(t) ==
    \/ Reserve(t) \/ Attach(t) \/ NeverRan(t) \/ Unspawned(t) \/ Release(t) \/ Terminate(t)
    \/ Park(t) \/ Unpark(t)
    \/ \E laps \in 0..MaxLaps : Prime(t, laps)
    \/ \E op \in {"run", "join"} : Enter(t, op)

Next ==
    \/ \E t \in Threads : Flow(t) \/ workerBody(t)
    \/ Await \/ Done \/ Stalled

Spec == Init /\ [][Next]_vars

\* One CPU: whatever runs goes on running.  Of the flow nothing is assumed.
FairSpec ==
    /\ Spec
    /\ WF_vars(Await \/ Done \/ Stalled)
    /\ \A t \in Threads : WF_vars(workerBody(t))

----------------------------------------------------------------------------
(* Properties.                                                             *)

TypeOK ==
    /\ state \in [Threads -> States]
    /\ work \in [Threads -> [laps : 0..MaxLaps, lap : 0..MaxLaps, started : BOOLEAN, finished : BOOLEAN]]
    /\ attached \subseteq Threads /\ runnable \subseteq Threads
    /\ queueable \subseteq Threads \cup {Main}
    /\ queue \in Seq(Threads \cup {Main})
    /\ current \in Threads \cup {Main}
    /\ call \in [op : {"none", "run", "join"}, thread : Threads \cup {Main}, yields : Nat]

\* What the phantom states claim of the kernel, in the assertions they replace: a
\* container is not runnable (prime), a primed or detached thread is not attached
\* (attach, release), a thread that may be terminated, parked or woken is, and a
\* parked one is not runnable.
StatesTrue ==
    \A t \in Threads :
        /\ state[t] \in {"none", "container", "parked"} => t \notin runnable
        /\ state[t] = "primed" => t \in runnable
        /\ t \in attached <=> state[t] \in {"queued", "ran", "parked"}

\* A live thread cannot be lost: one that has run and has laps left is the current
\* thread or in the run queue, unless its handle is parked.
LiveIsScheduled ==
    \A t \in attached :
        work[t].started /\ ~work[t].finished /\ state[t] # "parked" => t = current \/ t \in Waiting

\* The run queue holds each thread once, only runnable and attached ones, never the
\* one that runs; and Main is never out of it.
RunQueueSound ==
    /\ \A i, j \in DOMAIN queue : queue[i] = queue[j] => i = j
    /\ current \notin Waiting
    /\ Main \in Waiting \cup {current}
    /\ Waiting \cup {current} \subseteq (attached \cap runnable) \cup {Main}

\* run and join say | stalled only of a thread that no yield would reach.
StalledIsStranded ==
    [][Stalled => call.thread \notin Waiting]_vars

\* Every call of run and join returns, whatever the lap count and the other threads.
CallReturns == call # NoCall ~> call = NoCall

\* The handles, the threads and the run queue agree.
SchedOK == TypeOK /\ StatesTrue /\ LiveIsScheduled /\ RunQueueSound
=============================================================================
