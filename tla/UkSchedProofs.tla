--------------------------- MODULE UkSchedProofs ---------------------------
(***************************************************************************)
(* Proofs about UkSched, for every set of threads and every lap count.     *)
(*                                                                         *)
(* SchedInv is inductive: next to the properties it says that a thread     *)
(* that has started may be queued again, and that the thread a call waits  *)
(* for, once Main has yielded in the call, either runs before Main does    *)
(* or never.                                                               *)
(***************************************************************************)
EXTENDS UkSched, SequenceTheorems, FiniteSetTheorems, TLAPS

Elements(s) == {s[i] : i \in DOMAIN s}
Unique(s) == \A i, j \in DOMAIN s : s[i] = s[j] => i = j

\* Unlinking one element of a run queue that holds each once takes it out.
LEMMA RemoveAtFacts ==
    ASSUME NEW S, NEW s \in Seq(S), Unique(s), NEW i \in DOMAIN s
    PROVE  /\ RemoveAt(s, i) \in Seq(S)
           /\ Unique(RemoveAt(s, i))
           /\ Elements(RemoveAt(s, i)) = Elements(s) \ {s[i]}
<1> DEFINE pre == SubSeq(s, 1, i - 1)
           post == SubSeq(s, i + 1, Len(s))
           r == RemoveAt(s, i)
<1>1. i \in 1..Len(s) /\ Len(s) \in Nat /\ DOMAIN s = 1..Len(s)
  BY LenProperties
<1>2. /\ pre \in Seq(S) /\ Len(pre) = i - 1
      /\ \A j \in 1..(i - 1) : pre[j] = s[j]
  BY <1>1, SubSeqProperties
<1>3. /\ post \in Seq(S) /\ Len(post) = Len(s) - i
      /\ \A j \in 1..(Len(s) - i) : post[j] = s[i + j]
  BY <1>1, SubSeqProperties
<1>4. r = pre \o post
  BY DEF RemoveAt
<1> HIDE DEF pre, post
<1>5. /\ r \in Seq(S) /\ Len(r) = Len(s) - 1
      /\ \A j \in 1..(Len(s) - 1) : r[j] = IF j < i THEN s[j] ELSE s[j + 1]
  <2>1. /\ pre \o post \in Seq(S) /\ Len(pre \o post) = Len(pre) + Len(post)
        /\ \A j \in 1..(Len(pre) + Len(post)) :
              (pre \o post)[j] = IF j <= Len(pre) THEN pre[j] ELSE post[j - Len(pre)]
    BY <1>2, <1>3, ConcatProperties
  <2>2. Len(pre) + Len(post) = Len(s) - 1
    BY <1>1, <1>2, <1>3
  <2>3. ASSUME NEW j \in 1..(Len(s) - 1)
        PROVE  (pre \o post)[j] = IF j < i THEN s[j] ELSE s[j + 1]
    <3>1. CASE j < i
      BY <3>1, <2>1, <2>2, <1>1, <1>2
    <3>2. CASE ~(j < i)
      <4>1. j - (i - 1) \in 1..(Len(s) - i) /\ i + (j - (i - 1)) = j + 1
        BY <3>2, <1>1
      <4>2. (pre \o post)[j] = post[j - (i - 1)]
        BY <3>2, <2>1, <2>2, <1>1, <1>2
      <4> QED  BY <3>2, <4>1, <4>2, <1>3
    <3> QED  BY <3>1, <3>2
  <2> QED  BY <2>1, <2>2, <2>3, <1>4
<1> HIDE DEF r
<1>6. DOMAIN r = 1..(Len(s) - 1)
  BY <1>5, LenProperties
<1>7. Unique(r)
  BY <1>1, <1>5, <1>6, SMTT(30) DEF Unique
<1>8. Elements(r) \subseteq Elements(s) \ {s[i]}
  BY <1>1, <1>5, <1>6 DEF Unique, Elements
<1>9. Elements(s) \ {s[i]} \subseteq Elements(r)
  <2> SUFFICES ASSUME NEW j \in 1..Len(s), j # i
               PROVE  s[j] \in Elements(r)
    BY <1>1 DEF Elements
  <2>1. CASE j < i
    BY <2>1, <1>1, <1>5, <1>6 DEF Elements
  <2>2. CASE j > i
    <3>1. j - 1 \in 1..(Len(s) - 1) /\ r[j - 1] = s[j]
      BY <2>2, <1>1, <1>5
    <3> QED  BY <3>1, <1>6 DEF Elements
  <2> QED  BY <2>1, <2>2, <1>1
<1> QED  BY <1>5, <1>7, <1>8, <1>9 DEF r

\* Linking a thread at the tail.
LEMMA AppendFacts ==
    ASSUME NEW S, NEW s \in Seq(S), NEW e \in S
    PROVE  /\ Append(s, e) \in Seq(S)
           /\ Append(s, e) # <<>>
           /\ Elements(Append(s, e)) = Elements(s) \cup {e}
           /\ Unique(s) /\ e \notin Elements(s) => Unique(Append(s, e))
<1> DEFINE r == Append(s, e)
<1>1. /\ r \in Seq(S) /\ r # <<>> /\ Len(r) = Len(s) + 1
      /\ \A i \in 1..Len(s) : r[i] = s[i]
      /\ r[Len(s) + 1] = e
  BY AppendProperties
<1>2. Len(s) \in Nat /\ DOMAIN s = 1..Len(s)
  BY LenProperties
<1> HIDE DEF r
<1>3. DOMAIN r = 1..(Len(s) + 1)
  BY <1>1, LenProperties
<1>4. Elements(r) = Elements(s) \cup {e}
  BY <1>1, <1>2, <1>3 DEF Elements
<1>5. Unique(s) /\ e \notin Elements(s) => Unique(r)
  BY <1>1, <1>2, <1>3 DEF Elements, Unique
<1> QED  BY <1>1, <1>4, <1>5 DEF r

\* Taking the head of the run queue.
LEMMA HeadTailFacts ==
    ASSUME NEW S, NEW s \in Seq(S), s # <<>>
    PROVE  /\ Head(s) \in S /\ Tail(s) \in Seq(S)
           /\ Elements(s) = Elements(Tail(s)) \cup {Head(s)}
           /\ Unique(s) => Unique(Tail(s)) /\ Head(s) \notin Elements(Tail(s))
<1>1. Len(s) \in Nat \ {0} /\ DOMAIN s = 1..Len(s)
  BY LenProperties, EmptySeq
<1>2. /\ Head(s) \in S /\ Head(s) = s[1]
      /\ Tail(s) \in Seq(S) /\ Len(Tail(s)) = Len(s) - 1
      /\ \A i \in 1..Len(Tail(s)) : Tail(s)[i] = s[i + 1]
  BY <1>1, HeadTailProperties
<1>3. DOMAIN Tail(s) = 1..(Len(s) - 1)
  BY <1>2, LenProperties
<1>4. Elements(Tail(s)) \cup {Head(s)} \subseteq Elements(s)
  BY <1>1, <1>2, <1>3 DEF Elements
<1>5. Elements(s) \subseteq Elements(Tail(s)) \cup {Head(s)}
  <2> SUFFICES ASSUME NEW j \in 1..Len(s), j # 1
               PROVE  s[j] \in Elements(Tail(s))
    BY <1>1, <1>2 DEF Elements
  <2>1. j - 1 \in 1..(Len(s) - 1) /\ Tail(s)[j - 1] = s[j]
    BY <1>1, <1>2
  <2> QED  BY <2>1, <1>3 DEF Elements
<1>6. Unique(s) => Unique(Tail(s)) /\ Head(s) \notin Elements(Tail(s))
  BY <1>1, <1>2, <1>3 DEF Unique, Elements
<1> QED  BY <1>2, <1>4, <1>5, <1>6

----------------------------------------------------------------------------
(* The inductive invariant.                                                *)

All == Threads \cup {Main}

\* In s, every place of t comes before every place of u.
Precedes(s, t, u) == \A i, j \in DOMAIN s : s[i] = t /\ s[j] = u => i < j

\* A thread that has started may be put back into the run queue.
StartedQueueable == \A t \in Threads : work[t].started => t \in queueable

\* The thread of a call stays attached for as long as the call lasts.
CallSound ==
    call # NoCall => /\ call.op \in {"run", "join"}
                     /\ call.thread \in Threads
                     /\ state[call.thread] \in {"queued", "ran"}

\* Once Main has yielded in a call, a thread that has not started and is in the run
\* queue has its turn before Main has.
TurnBeforeMain ==
    call # NoCall /\ ~Started /\ call.yields < Pass =>
        \/ call.thread \notin Waiting
        \/ current # Main /\ Precedes(queue, call.thread, Main)

SchedInv ==
    /\ TypeOK
    /\ StatesTrue
    /\ RunQueueSound
    /\ StartedQueueable
    /\ LiveIsScheduled
    /\ CallSound
    /\ TurnBeforeMain

LEMMA PassIsNat ==
    ASSUME TypeOK
    PROVE  Pass \in Nat /\ Pass >= 3
<1>1. IsFiniteSet(attached)
  BY SchedAssumption, FS_Subset DEF TypeOK
<1>2. Cardinality(attached) \in Nat
  BY <1>1, FS_CardinalityType
<1> QED  BY <1>2 DEF Pass

LEMMA WaitingIsElements == Waiting = Elements(queue)
BY DEF Waiting, Elements

\* The run queue after a thread has been taken out of it.
LEMMA WithoutFacts ==
    ASSUME TypeOK, RunQueueSound, NEW t
    PROVE  /\ Without(t) \in Seq(All)
           /\ Unique(Without(t))
           /\ Elements(Without(t)) = Elements(queue) \ {t}
<1>1. queue \in Seq(All) /\ Unique(queue)
  BY DEF TypeOK, All, RunQueueSound, Unique
<1>2. CASE t \in Waiting
  <2> DEFINE k == CHOOSE i \in DOMAIN queue : queue[i] = t
  <2>1. k \in DOMAIN queue /\ queue[k] = t
    BY <1>2 DEF Waiting
  <2>2. Without(t) = RemoveAt(queue, k)
    BY <1>2 DEF Without
  <2> HIDE DEF k
  <2> QED  BY <1>1, <2>1, <2>2, RemoveAtFacts
<1>3. CASE t \notin Waiting
  <2>1. Without(t) = queue /\ t \notin Elements(queue)
    BY <1>3, WaitingIsElements DEF Without
  <2> QED  BY <2>1, <1>1
<1> QED  BY <1>2, <1>3

\* What a switch does to the run queue and the current thread.
LEMMA YieldFacts ==
    ASSUME TypeOK, RunQueueSound, NEW stays \in BOOLEAN, Yield(current, stays)
    PROVE  /\ queue' \in Seq(All) /\ current' \in All
           /\ Unique(queue') /\ current' \notin Elements(queue')
           /\ Elements(queue') \cup {current'} = Elements(queue) \cup (IF stays THEN {current} ELSE {})
           /\ queueable \subseteq queueable' /\ queueable' \subseteq queueable \cup {current}
           /\ queue # <<>> => current \in queueable'
<1>1. queue \in Seq(All) /\ Unique(queue) /\ current \in All /\ current \notin Elements(queue)
  BY WaitingIsElements DEF TypeOK, All, RunQueueSound, Unique
<1>2. CASE queue = <<>> /\ stays
  <2>1. queue' = queue /\ current' = current /\ queueable' = queueable
    BY <1>2 DEF Yield
  <2> QED  BY <1>1, <1>2, <2>1
<1>3. CASE ~(queue = <<>> /\ stays)
  <2> DEFINE q == IF stays THEN Append(queue, current) ELSE queue
  <2>1. /\ queue # <<>>
        /\ current' = Head(q) /\ queue' = Tail(q)
        /\ queueable' = queueable \cup {current}
    BY <1>3 DEF Yield
  <2>2. /\ q \in Seq(All) /\ q # <<>> /\ Unique(q)
        /\ Elements(q) = Elements(queue) \cup (IF stays THEN {current} ELSE {})
    <3>1. CASE stays
      BY <3>1, <1>1, AppendFacts
    <3>2. CASE ~stays
      BY <3>2, <1>1, <2>1
    <3> QED  BY <3>1, <3>2
  <2> HIDE DEF q
  <2>3. /\ Head(q) \in All /\ Tail(q) \in Seq(All)
        /\ Elements(q) = Elements(Tail(q)) \cup {Head(q)}
        /\ Unique(Tail(q)) /\ Head(q) \notin Elements(Tail(q))
    BY <2>2, HeadTailFacts
  <2> QED  BY <2>1, <2>2, <2>3
<1> QED  BY <1>2, <1>3

----------------------------------------------------------------------------
(* Every step preserves the invariant.                                     *)

\* Between calls nothing is said of a call.
LEMMA NoCallSound ==
    ASSUME call' = NoCall
    PROVE  CallSound' /\ TurnBeforeMain'
BY DEF CallSound, TurnBeforeMain

\* Calls that only move the handle to another state.
LEMMA HandleStep ==
    ASSUME SchedInv, NEW t \in Threads, Reserve(t) \/ NeverRan(t) \/ Unspawned(t)
    PROVE  SchedInv'
<1>1. /\ UNCHANGED <<work, attached, runnable, queueable, queue, current, call>>
      /\ call = NoCall
      /\ \E s \in States : state' = [state EXCEPT ![t] = s]
  BY DEF Reserve, NeverRan, Unspawned, Accepts, Mint, kernel, States
<1>2. TypeOK'
  BY <1>1 DEF SchedInv, TypeOK
<1>3. StatesTrue'
  BY ZenonT(60) DEF SchedInv, StatesTrue, TypeOK, Reserve, NeverRan, Unspawned, Accepts, Mint, kernel
<1>4. RunQueueSound' /\ StartedQueueable'
  BY <1>1 DEF SchedInv, RunQueueSound, StartedQueueable, Waiting
<1>5. LiveIsScheduled'
  <2>1. \A u \in attached : state'[u] # "parked" => state[u] # "parked"
    BY DEF SchedInv, StatesTrue, TypeOK, Reserve, NeverRan, Unspawned, Accepts, Mint
  <2> QED  BY <1>1, <2>1 DEF SchedInv, LiveIsScheduled, Waiting
<1> QED  BY <1>1, <1>2, <1>3, <1>4, <1>5, NoCallSound DEF SchedInv

LEMMA PrimeStep ==
    ASSUME SchedInv, NEW t \in Threads, NEW laps \in 0..MaxLaps, Prime(t, laps)
    PROVE  SchedInv'
<1>1. /\ state[t] = "container" /\ call = NoCall
      /\ state' = [state EXCEPT ![t] = "primed"]
      /\ work' = [work EXCEPT ![t] = [work[t] EXCEPT !.laps = laps]]
      /\ runnable' = runnable \cup {t}
      /\ UNCHANGED <<attached, queueable, queue, current, call>>
  BY DEF Prime, Accepts, Mint
<1>2. t \notin attached
  BY <1>1 DEF SchedInv, StatesTrue
<1>3. TypeOK'
  <2>1. state' \in [Threads -> States] /\ runnable' \subseteq Threads
    BY <1>1 DEF SchedInv, TypeOK, States
  <2>2. work' \in [Threads -> [laps : 0..MaxLaps, lap : 0..MaxLaps, started : BOOLEAN, finished : BOOLEAN]]
    BY <1>1 DEF SchedInv, TypeOK
  <2> QED  BY <1>1, <2>1, <2>2 DEF SchedInv, TypeOK
<1>4. StatesTrue'
  BY <1>1, <1>2 DEF SchedInv, StatesTrue, TypeOK
<1>5. RunQueueSound'
  BY <1>1 DEF SchedInv, RunQueueSound, Waiting
<1>6. /\ \A u \in Threads : work'[u].started = work[u].started
      /\ \A u \in attached : work'[u] = work[u] /\ state'[u] = state[u]
  BY <1>1, <1>2 DEF SchedInv, TypeOK
<1>7. StartedQueueable' /\ LiveIsScheduled'
  BY <1>1, <1>6 DEF SchedInv, StartedQueueable, LiveIsScheduled, Waiting
<1> QED  BY <1>1, <1>3, <1>4, <1>5, <1>7, NoCallSound DEF SchedInv

LEMMA AttachStep ==
    ASSUME SchedInv, NEW t \in Threads, Attach(t)
    PROVE  SchedInv'
<1>1. /\ state[t] = "primed" /\ call = NoCall /\ current = Main
      /\ state' = [state EXCEPT ![t] = "queued"]
      /\ attached' = attached \cup {t}
      /\ queue' = Append(queue, t)
      /\ UNCHANGED <<work, runnable, queueable, current, call>>
  BY DEF Attach, Accepts, Mint
<1>2. t \notin attached /\ t \in runnable /\ t # Main
  BY <1>1, SchedAssumption DEF SchedInv, StatesTrue
<1>3. t \notin Elements(queue)
  BY <1>2, WaitingIsElements DEF SchedInv, RunQueueSound
<1>4. /\ queue' \in Seq(All) /\ Unique(queue')
      /\ Elements(queue') = Elements(queue) \cup {t}
  <2>1. queue \in Seq(All) /\ Unique(queue) /\ t \in All
    BY DEF SchedInv, TypeOK, All, RunQueueSound, Unique
  <2> QED  BY <1>1, <1>3, <2>1, AppendFacts
<1>5. Waiting' = Waiting \cup {t}
  BY <1>4, WaitingIsElements DEF Waiting, Elements
<1>6. TypeOK'
  BY <1>1, <1>4 DEF SchedInv, TypeOK, States, All
<1>7. StatesTrue'
  BY <1>1 DEF SchedInv, StatesTrue, TypeOK
<1>8. RunQueueSound'
  <2>1. \A i, j \in DOMAIN queue' : queue'[i] = queue'[j] => i = j
    BY <1>4 DEF Unique
  <2> QED  BY <1>1, <1>2, <1>5, <2>1 DEF SchedInv, RunQueueSound
<1>9. LiveIsScheduled'
  BY <1>1, <1>5 DEF SchedInv, LiveIsScheduled, TypeOK
<1>10. StartedQueueable'
  BY <1>1 DEF SchedInv, StartedQueueable, TypeOK
<1> QED  BY <1>1, <1>6, <1>7, <1>8, <1>9, <1>10, NoCallSound DEF SchedInv

\* Giving a thread back, attached or not.
LEMMA ForgetStep ==
    ASSUME SchedInv, NEW t \in Threads, Release(t) \/ Terminate(t)
    PROVE  SchedInv'
<1>1. /\ call = NoCall /\ current = Main /\ UNCHANGED <<call, current>>
      /\ state' = [state EXCEPT ![t] = "none"]
      /\ work' = [work EXCEPT ![t] = NoWork]
      /\ attached' = attached \ {t}
      /\ runnable' = runnable \ {t} /\ queueable' = queueable \ {t}
      /\ queue' \in Seq(All) /\ Unique(queue')
      /\ Elements(queue') = Elements(queue) \ {t}
  <2>1. CASE Release(t)
    <3>1. /\ call = NoCall /\ current = Main /\ UNCHANGED <<call, current, attached, queue>>
          /\ state[t] = "detached"
          /\ state' = [state EXCEPT ![t] = "none"]
          /\ work' = [work EXCEPT ![t] = NoWork]
          /\ runnable' = runnable \ {t} /\ queueable' = queueable \ {t}
      BY <2>1 DEF Release, Accepts, Forget, Mint
    <3>2. t \notin attached
      BY <3>1 DEF SchedInv, StatesTrue
    <3>3. t \notin Elements(queue)
      BY <3>2, WaitingIsElements, SchedAssumption DEF SchedInv, RunQueueSound
    <3>4. queue \in Seq(All) /\ Unique(queue)
      BY DEF SchedInv, TypeOK, All, RunQueueSound, Unique
    <3> QED  BY <3>1, <3>2, <3>3, <3>4
  <2>2. CASE Terminate(t)
    <3>1. /\ call = NoCall /\ current = Main /\ UNCHANGED <<call, current>>
          /\ state' = [state EXCEPT ![t] = "none"]
          /\ work' = [work EXCEPT ![t] = NoWork]
          /\ attached' = attached \ {t}
          /\ runnable' = runnable \ {t} /\ queueable' = queueable \ {t}
          /\ queue' = Without(t)
      BY <2>2 DEF Terminate, Accepts, Forget, Mint
    <3> QED  BY <3>1, WithoutFacts DEF SchedInv
  <2> QED  BY <2>1, <2>2
<1>2. Waiting' = Waiting \ {t}
  BY <1>1, WaitingIsElements DEF Waiting, Elements
<1>3. TypeOK'
  <2>1. NoWork \in [laps : 0..MaxLaps, lap : 0..MaxLaps, started : BOOLEAN, finished : BOOLEAN]
    <3>1. 0 \in 0..MaxLaps
      BY SchedAssumption
    <3> QED  BY <3>1 DEF NoWork
  <2>2. work' \in [Threads -> [laps : 0..MaxLaps, lap : 0..MaxLaps, started : BOOLEAN, finished : BOOLEAN]]
    BY <1>1, <2>1 DEF SchedInv, TypeOK
  <2> QED  BY <1>1, <2>2 DEF SchedInv, TypeOK, States, All
<1>4. StatesTrue'
  BY <1>1 DEF SchedInv, StatesTrue, TypeOK
<1>5. RunQueueSound'
  <2>1. \A i, j \in DOMAIN queue' : queue'[i] = queue'[j] => i = j
    BY <1>1 DEF Unique
  <2> QED  BY <1>1, <1>2, <2>1, SchedAssumption DEF SchedInv, RunQueueSound
<1>6. /\ \A u \in Threads \ {t} : work'[u] = work[u] /\ state'[u] = state[u]
      /\ ~work'[t].started
  BY <1>1 DEF SchedInv, TypeOK, NoWork
<1>7. StartedQueueable'
  BY <1>1, <1>6 DEF SchedInv, StartedQueueable
<1>8. LiveIsScheduled'
  BY <1>1, <1>2, <1>6 DEF SchedInv, LiveIsScheduled, TypeOK
<1> QED  BY <1>1, <1>3, <1>4, <1>5, <1>7, <1>8, NoCallSound DEF SchedInv

\* Taking a thread out of the run queue.
LEMMA ParkStep ==
    ASSUME SchedInv, NEW t \in Threads, Park(t)
    PROVE  SchedInv'
<1>1. /\ state[t] = "ran" /\ call = NoCall /\ current = Main
      /\ state' = [state EXCEPT ![t] = "parked"]
      /\ runnable' = runnable \ {t}
      /\ queue' = Without(t)
      /\ UNCHANGED <<work, attached, queueable, current, call>>
  BY DEF Park, Accepts, Mint, Block
<1>2. /\ queue' \in Seq(All) /\ Unique(queue')
      /\ Elements(queue') = Elements(queue) \ {t}
  BY <1>1, WithoutFacts DEF SchedInv
<1>3. Waiting' = Waiting \ {t}
  BY <1>2, WaitingIsElements DEF Waiting, Elements
<1>4. TypeOK'
  BY <1>1, <1>2 DEF SchedInv, TypeOK, States, All
<1>5. StatesTrue'
  BY <1>1 DEF SchedInv, StatesTrue, TypeOK
<1>6. RunQueueSound'
  <2>1. \A i, j \in DOMAIN queue' : queue'[i] = queue'[j] => i = j
    BY <1>2 DEF Unique
  <2> QED  BY <1>1, <1>3, <2>1, SchedAssumption DEF SchedInv, RunQueueSound
<1>7. StartedQueueable' /\ LiveIsScheduled'
  BY <1>1, <1>3 DEF SchedInv, StartedQueueable, LiveIsScheduled, TypeOK
<1> QED  BY <1>1, <1>4, <1>5, <1>6, <1>7, NoCallSound DEF SchedInv

\* Waking a parked thread: it is queued again if it has started.
LEMMA UnparkStep ==
    ASSUME SchedInv, NEW t \in Threads, Unpark(t)
    PROVE  SchedInv'
<1>1. /\ state[t] = "parked" /\ call = NoCall /\ current = Main
      /\ state' = [state EXCEPT ![t] = "ran"]
      /\ runnable' = runnable \cup {t}
      /\ queue' = IF t \notin runnable /\ t \in queueable THEN Append(queue, t) ELSE queue
      /\ UNCHANGED <<work, attached, queueable, current, call>>
  BY DEF Unpark, Accepts, Mint, Wake
<1>2. t \notin runnable /\ t \in attached /\ t # Main
  BY <1>1, SchedAssumption DEF SchedInv, StatesTrue
<1>3. t \notin Elements(queue) /\ queue \in Seq(All) /\ Unique(queue) /\ t \in All
  BY <1>2, WaitingIsElements DEF SchedInv, TypeOK, All, RunQueueSound, Unique
<1>4. /\ queue' \in Seq(All) /\ Unique(queue')
      /\ Elements(queue') = Elements(queue) \cup (IF t \in queueable THEN {t} ELSE {})
  <2>1. CASE t \in queueable
    BY <2>1, <1>1, <1>2, <1>3, AppendFacts
  <2>2. CASE t \notin queueable
    BY <2>2, <1>1, <1>3
  <2> QED  BY <2>1, <2>2
<1>5. Waiting' = Waiting \cup (IF t \in queueable THEN {t} ELSE {})
  BY <1>4, WaitingIsElements DEF Waiting, Elements
<1>6. TypeOK'
  BY <1>1, <1>4 DEF SchedInv, TypeOK, States, All
<1>7. StatesTrue'
  BY <1>1 DEF SchedInv, StatesTrue, TypeOK
<1>8. RunQueueSound'
  <2>1. \A i, j \in DOMAIN queue' : queue'[i] = queue'[j] => i = j
    BY <1>4 DEF Unique
  <2> QED  BY <1>1, <1>2, <1>5, <2>1 DEF SchedInv, RunQueueSound
<1>9. StartedQueueable'
  BY <1>1 DEF SchedInv, StartedQueueable
<1>10. LiveIsScheduled'
  BY <1>1, <1>5 DEF SchedInv, StartedQueueable, LiveIsScheduled, TypeOK
<1> QED  BY <1>1, <1>6, <1>7, <1>8, <1>9, <1>10, NoCallSound DEF SchedInv

LEMMA EnterStep ==
    ASSUME SchedInv, NEW t \in Threads, NEW op \in {"run", "join"}, Enter(t, op)
    PROVE  SchedInv'
<1>1. /\ state[t] \in {"queued", "ran"}
      /\ call' = [op |-> op, thread |-> t, yields |-> Pass]
      /\ UNCHANGED <<state, work, attached, runnable, queueable, queue, current>>
  BY DEF Enter, Accepts, kernel
<1>2. Pass \in Nat /\ Pass' = Pass
  BY <1>1, PassIsNat DEF SchedInv, Pass
<1>3. TypeOK'
  BY <1>1, <1>2 DEF SchedInv, TypeOK
<1>4. StatesTrue' /\ RunQueueSound' /\ StartedQueueable' /\ LiveIsScheduled'
  BY <1>1 DEF SchedInv, StatesTrue, RunQueueSound, StartedQueueable, LiveIsScheduled, Waiting
<1>5. CallSound'
  BY <1>1 DEF CallSound
<1>6. TurnBeforeMain'
  BY <1>1, <1>2 DEF TurnBeforeMain
<1> QED  BY <1>3, <1>4, <1>5, <1>6 DEF SchedInv

LEMMA ReturnStep ==
    ASSUME SchedInv, Done \/ Stalled
    PROVE  SchedInv'
<1>1. /\ call # NoCall /\ call' = NoCall
      /\ UNCHANGED <<work, attached, runnable, queueable, queue, current>>
      /\ \E s \in {"ran", "queued"} : state' = [state EXCEPT ![call.thread] = s]
  BY DEF Done, Stalled, InCall, Return, Mint, kernel
<1>2. call.thread \in Threads /\ state[call.thread] \in {"queued", "ran"}
  BY <1>1 DEF SchedInv, CallSound
<1>3. TypeOK'
  <2>1. NoCall \in [op : {"none", "run", "join"}, thread : Threads \cup {Main}, yields : Nat]
    BY DEF NoCall
  <2> QED  BY <1>1, <2>1 DEF SchedInv, TypeOK, States
<1>4. StatesTrue'
  BY <1>1, <1>2 DEF SchedInv, StatesTrue, TypeOK
<1>5. RunQueueSound' /\ StartedQueueable'
  BY <1>1 DEF SchedInv, RunQueueSound, StartedQueueable, Waiting
<1>6. LiveIsScheduled'
  BY <1>1, <1>2 DEF SchedInv, LiveIsScheduled, TypeOK, Waiting
<1> QED  BY <1>1, <1>3, <1>4, <1>5, <1>6, NoCallSound DEF SchedInv

\* A switch away from a thread that runs keeps the run queue sound, if the flags of
\* no other thread change.
LEMMA YieldSound ==
    ASSUME SchedInv, NEW stays \in BOOLEAN, Yield(current, stays),
           attached' = attached,
           \/ stays /\ runnable' = runnable
           \/ ~stays /\ current # Main /\ runnable' = runnable \ {current}
    PROVE  RunQueueSound'
<1>1. /\ Unique(queue') /\ current' \notin Elements(queue')
      /\ Elements(queue') \cup {current'} = Elements(queue) \cup (IF stays THEN {current} ELSE {})
  BY YieldFacts DEF SchedInv
<1>2. /\ Waiting' \cup {current'} = Waiting \cup (IF stays THEN {current} ELSE {})
      /\ current' \notin Waiting'
  BY <1>1, WaitingIsElements DEF Waiting, Elements
<1>3. \A i, j \in DOMAIN queue' : queue'[i] = queue'[j] => i = j
  BY <1>1 DEF Unique
<1>4. /\ current \notin Waiting
      /\ Main \in Waiting \cup {current}
      /\ Waiting \cup {current} \subseteq (attached \cap runnable) \cup {Main}
  BY DEF SchedInv, RunQueueSound
<1>5. CASE stays
  <2>1. Waiting' \cup {current'} = Waiting \cup {current}
    BY <1>2, <1>5
  <2> QED  BY <1>2, <1>3, <1>4, <1>5, <2>1 DEF RunQueueSound
<1>6. CASE ~stays
  <2>1. Waiting' \cup {current'} = Waiting
    BY <1>2, <1>6
  <2> QED  BY <1>2, <1>3, <1>4, <1>6, <2>1 DEF RunQueueSound
<1> QED  BY <1>5, <1>6

\* A thread that comes before Main in the run queue still does after a switch away
\* from another thread, and if Main is next it was not in the queue.
LEMMA YieldKeepsTurn ==
    ASSUME SchedInv, NEW stays \in BOOLEAN, Yield(current, stays), current # Main,
           NEW t \in Threads, t # current, Precedes(queue, t, Main)
    PROVE  t \notin Elements(queue') \/ (current' # Main /\ Precedes(queue', t, Main))
<1> DEFINE q == IF stays THEN Append(queue, current) ELSE queue
<1>1. queue \in Seq(All) /\ current \in All /\ Main \in Elements(queue)
  BY WaitingIsElements DEF SchedInv, TypeOK, All, RunQueueSound
<1>2. queue # <<>>
  BY <1>1 DEF Elements
<1>3. current' = Head(q) /\ queue' = Tail(q)
  BY <1>2 DEF Yield
<1>4. q \in Seq(All) /\ q # <<>> /\ Precedes(q, t, Main)
  <2>1. CASE stays
    <3>1. /\ q \in Seq(All) /\ q # <<>> /\ Len(q) = Len(queue) + 1
          /\ \A i \in 1..Len(queue) : q[i] = queue[i]
          /\ q[Len(queue) + 1] = current
      BY <2>1, <1>1, AppendProperties
    <3>2. Len(queue) \in Nat /\ DOMAIN queue = 1..Len(queue) /\ DOMAIN q = 1..(Len(queue) + 1)
      BY <1>1, <3>1, LenProperties
    <3> HIDE DEF q
    <3>3. ASSUME NEW i \in DOMAIN q, NEW j \in DOMAIN q, q[i] = t, q[j] = Main
          PROVE  i < j
      <4>1. i \in DOMAIN queue /\ queue[i] = t /\ j \in DOMAIN queue /\ queue[j] = Main
        BY <3>1, <3>2, <3>3
      <4> QED  BY <4>1 DEF Precedes
    <3> QED  BY <3>1, <3>3 DEF Precedes
  <2>2. CASE ~stays
    BY <2>2, <1>1, <1>2
  <2> QED  BY <2>1, <2>2
<1> HIDE DEF q
<1>5. /\ Len(q) \in Nat \ {0} /\ DOMAIN q = 1..Len(q) /\ Head(q) = q[1]
      /\ DOMAIN Tail(q) = 1..(Len(q) - 1)
      /\ \A i \in 1..(Len(q) - 1) : Tail(q)[i] = q[i + 1]
  <2>1. Len(q) \in Nat \ {0} /\ DOMAIN q = 1..Len(q)
    BY <1>4, LenProperties, EmptySeq
  <2>2. /\ Tail(q) \in Seq(All) /\ Len(Tail(q)) = Len(q) - 1
        /\ \A i \in 1..Len(Tail(q)) : Tail(q)[i] = q[i + 1]
    BY <1>4, HeadTailProperties
  <2>3. Head(q) = q[1] /\ DOMAIN Tail(q) = 1..(Len(q) - 1)
    BY <1>4, <2>1, <2>2, LenProperties
  <2> QED  BY <2>1, <2>2, <2>3
<1>6. Precedes(Tail(q), t, Main)
  <2> SUFFICES ASSUME NEW i \in 1..(Len(q) - 1), NEW j \in 1..(Len(q) - 1),
                      Tail(q)[i] = t, Tail(q)[j] = Main
               PROVE  i < j
    BY <1>5 DEF Precedes
  <2>1. i + 1 \in DOMAIN q /\ j + 1 \in DOMAIN q /\ q[i + 1] = t /\ q[j + 1] = Main
    BY <1>5
  <2>2. i + 1 < j + 1
    BY <2>1, <1>4 DEF Precedes
  <2> QED  BY <2>2
<1>7. Head(q) = Main => t \notin Elements(Tail(q))
  <2> SUFFICES ASSUME q[1] = Main, NEW i \in 1..(Len(q) - 1), Tail(q)[i] = t
               PROVE  FALSE
    BY <1>5 DEF Elements
  <2>1. 1 \in DOMAIN q /\ i + 1 \in DOMAIN q /\ q[i + 1] = t
    BY <1>5
  <2>2. i + 1 < 1
    BY <2>1, <1>4 DEF Precedes
  <2> QED  BY <2>2
<1> QED  BY <1>3, <1>6, <1>7

\* Main goes to the tail when it yields, behind every thread that waits.
LEMMA MainGoesLast ==
    ASSUME SchedInv, current = Main, Yield(Main, TRUE), NEW t \in Threads
    PROVE  t \notin Elements(queue') \/ (current' # Main /\ Precedes(queue', t, Main))
<1>1. queue \in Seq(All) /\ Main \in All /\ Main \notin Elements(queue) /\ t # Main
  BY WaitingIsElements, SchedAssumption DEF SchedInv, TypeOK, All, RunQueueSound
<1>2. CASE queue = <<>>
  BY <1>2 DEF Yield, Elements
<1>3. CASE queue # <<>>
  <2> DEFINE q == Append(queue, Main)
  <2>1. current' = Head(q) /\ queue' = Tail(q)
    BY <1>3 DEF Yield
  <2>2. /\ q \in Seq(All) /\ q # <<>> /\ Len(q) = Len(queue) + 1
        /\ \A i \in 1..Len(queue) : q[i] = queue[i]
        /\ q[Len(queue) + 1] = Main
    BY <1>1, AppendProperties
  <2>3. Len(queue) \in Nat \ {0} /\ DOMAIN queue = 1..Len(queue)
    BY <1>1, <1>3, LenProperties, EmptySeq
  <2> HIDE DEF q
  <2>4. /\ Head(q) = q[1]
        /\ Tail(q) \in Seq(All) /\ Len(Tail(q)) = Len(queue)
        /\ \A i \in 1..Len(Tail(q)) : Tail(q)[i] = q[i + 1]
    BY <2>2, <2>3, HeadTailProperties
  <2>5. DOMAIN Tail(q) = 1..Len(queue)
    BY <2>4, LenProperties
  <2>6. Head(q) # Main
    BY <2>2, <2>3, <2>4, <1>1 DEF Elements
  <2>7. ASSUME NEW i \in 1..Len(queue), NEW j \in 1..Len(queue),
               Tail(q)[i] = t, Tail(q)[j] = Main
        PROVE  i < j
    <3>1. q[i + 1] = t /\ q[j + 1] = Main
      BY <2>4, <2>7
    <3>2. i # Len(queue)
      BY <3>1, <2>2, <1>1
    <3>3. j < Len(queue) => j + 1 \in 1..Len(queue) /\ queue[j + 1] = Main
      BY <3>1, <2>2, <2>3
    <3>4. ~(j < Len(queue))
      BY <3>3, <2>3, <1>1 DEF Elements
    <3> DEFINE n == Len(queue)
    <3>5. n \in Int /\ i \in Int /\ j \in Int /\ i <= n
      BY <2>3
    <3>6. i # n
      BY <3>2
    <3>7. ~(j < n)
      BY <3>4
    <3> HIDE DEF n
    <3> QED  BY <3>5, <3>6, <3>7
  <2> QED  BY <2>1, <2>5, <2>6, <2>7 DEF Precedes
<1> QED  BY <1>2, <1>3

\* Main yields in a call.
LEMMA AwaitStep ==
    ASSUME SchedInv, Await
    PROVE  SchedInv'
<1>1. /\ current = Main /\ call # NoCall /\ Yield(Main, TRUE)
      /\ call' = [call EXCEPT !.yields = IF call.yields > 0 THEN call.yields - 1 ELSE 0]
      /\ UNCHANGED <<state, work, attached, runnable>>
  BY DEF Await, InCall
<1>2. /\ queue' \in Seq(All) /\ current' \in All
      /\ Elements(queue') \cup {current'} = Elements(queue) \cup {current}
      /\ queueable \subseteq queueable' /\ queueable' \subseteq queueable \cup {Main}
  BY <1>1, YieldFacts DEF SchedInv
<1>3. Waiting' \cup {current'} = Waiting \cup {current}
  BY <1>2, WaitingIsElements DEF Waiting, Elements
<1>4. /\ call'.op = call.op /\ call'.thread = call.thread
      /\ call' \in [op : {"none", "run", "join"}, thread : Threads \cup {Main}, yields : Nat]
  <2>1. call \in [op : {"none", "run", "join"}, thread : Threads \cup {Main}, yields : Nat]
    BY DEF SchedInv, TypeOK
  <2>2. (IF call.yields > 0 THEN call.yields - 1 ELSE 0) \in Nat
    BY <2>1
  <2> QED  BY <1>1, <2>1, <2>2
<1>5. TypeOK'
  BY <1>1, <1>2, <1>4 DEF SchedInv, TypeOK, All
<1>6. StatesTrue'
  BY <1>1 DEF SchedInv, StatesTrue
<1>7. RunQueueSound'
  BY <1>1, YieldSound
<1>8. StartedQueueable'
  BY <1>1, <1>2 DEF SchedInv, StartedQueueable
<1>9. LiveIsScheduled'
  BY <1>1, <1>3 DEF SchedInv, LiveIsScheduled
<1>10. CallSound'
  BY <1>1, <1>4 DEF SchedInv, CallSound
<1>11. TurnBeforeMain'
  <2>1. call.thread \in Threads
    BY <1>1 DEF SchedInv, CallSound
  <2>2. \/ call.thread \notin Elements(queue')
        \/ current' # Main /\ Precedes(queue', call.thread, Main)
    BY <1>1, <2>1, MainGoesLast
  <2>3. Waiting' = Elements(queue')
    BY DEF Waiting, Elements
  <2> QED  BY <1>4, <2>2, <2>3 DEF TurnBeforeMain, Precedes
<1> QED  BY <1>5, <1>6, <1>7, <1>8, <1>9, <1>10, <1>11 DEF SchedInv

\* A worker runs to its next yield.
LEMMA WorkerStep ==
    ASSUME SchedInv, NEW u \in Threads, workerBody(u)
    PROVE  SchedInv'
<1> DEFINE more == MoreLaps(u)
<1>1. /\ current = u /\ u # Main
      /\ UNCHANGED <<state, attached, call>>
      /\ Yield(current, more) /\ more \in BOOLEAN
      /\ more => runnable' = runnable
      /\ ~more => runnable' = runnable \ {u}
  <2>1. current = u /\ u # Main /\ UNCHANGED <<state, attached, call>> /\ more \in BOOLEAN
    BY SchedAssumption DEF workerBody, MoreLaps
  <2>2. CASE more
    <3>1. Yield(u, TRUE) /\ runnable' = runnable
      BY <2>2 DEF workerBody, Lap, Rest
    <3>2. more = TRUE
      BY <2>1, <2>2
    <3> HIDE DEF more
    <3> QED  BY <2>1, <3>1, <3>2
  <2>3. CASE ~more
    <3>1. Yield(u, FALSE) /\ runnable' = runnable \ {u}
      BY <2>3 DEF workerBody, Lap, Rest
    <3>2. more = FALSE
      BY <2>1, <2>3
    <3> HIDE DEF more
    <3> QED  BY <2>1, <3>1, <3>2
  <2> QED  BY <2>2, <2>3
<1>2. /\ work' \in [Threads -> [laps : 0..MaxLaps, lap : 0..MaxLaps, started : BOOLEAN, finished : BOOLEAN]]
      /\ \A t \in Threads \ {u} : work'[t] = work[t]
      /\ more => work'[u].started /\ work'[u].finished = work[u].finished
      /\ ~more => work'[u].finished /\ work'[u].started = work[u].started
  <2>1. /\ work[u] \in [laps : 0..MaxLaps, lap : 0..MaxLaps, started : BOOLEAN, finished : BOOLEAN]
        /\ MaxLaps \in Nat
    BY SchedAssumption DEF SchedInv, TypeOK
  <2>2. CASE more
    <3>1. work' = [work EXCEPT ![u] = [work[u] EXCEPT !.started = TRUE, !.lap = work[u].lap + 1]]
      BY <2>2 DEF workerBody, Lap, Rest
    <3>2. work[u].lap + 1 \in 0..MaxLaps
      BY <2>1, <2>2 DEF MoreLaps
    <3>3. [work[u] EXCEPT !.started = TRUE, !.lap = work[u].lap + 1]
             \in [laps : 0..MaxLaps, lap : 0..MaxLaps, started : BOOLEAN, finished : BOOLEAN]
      BY <2>1, <3>2
    <3> QED  BY <2>1, <2>2, <3>1, <3>3 DEF SchedInv, TypeOK
  <2>3. CASE ~more
    <3>1. work' = [work EXCEPT ![u] = [work[u] EXCEPT !.finished = TRUE]]
      BY <2>3 DEF workerBody, Lap, Rest
    <3> QED  BY <2>1, <2>3, <3>1 DEF SchedInv, TypeOK
  <2> QED  BY <2>2, <2>3
<1> HIDE DEF more
<1>3. /\ queue' \in Seq(All) /\ current' \in All
      /\ Elements(queue') \cup {current'} = Elements(queue) \cup (IF more THEN {current} ELSE {})
      /\ queueable \subseteq queueable' /\ queueable' \subseteq queueable \cup {current}
      /\ queue # <<>> => current \in queueable'
  BY <1>1, YieldFacts DEF SchedInv
<1>4. /\ Main \in Elements(queue) /\ u \notin Elements(queue)
      /\ u \in attached
  BY <1>1, WaitingIsElements DEF SchedInv, RunQueueSound
<1>5. u \in queueable'
  BY <1>1, <1>3, <1>4 DEF Elements
<1>6. Waiting' \cup {current'} = Waiting \cup (IF more THEN {u} ELSE {})
  BY <1>1, <1>3, WaitingIsElements DEF Waiting, Elements
<1>7. TypeOK'
  BY <1>1, <1>2, <1>3 DEF SchedInv, TypeOK, All
<1>8. StatesTrue'
  <2>1. state[u] \in {"queued", "ran", "parked"}
    BY <1>4 DEF SchedInv, StatesTrue
  <2>2. state[u] # "parked"
    BY <1>1 DEF SchedInv, StatesTrue, RunQueueSound
  <2> QED  BY <1>1, <2>1, <2>2 DEF SchedInv, StatesTrue
<1>9. RunQueueSound'
  BY <1>1, YieldSound
<1>10. StartedQueueable'
  BY <1>2, <1>3, <1>5 DEF SchedInv, StartedQueueable
<1>11. LiveIsScheduled'
  BY <1>1, <1>2, <1>4, <1>6 DEF SchedInv, LiveIsScheduled, TypeOK
<1>12. CallSound'
  BY <1>1 DEF SchedInv, CallSound
<1>13. TurnBeforeMain'
  <2> SUFFICES ASSUME call # NoCall, ~work'[call.thread].started, call.yields < Pass
               PROVE  \/ call.thread \notin Elements(queue')
                      \/ current' # Main /\ Precedes(queue', call.thread, Main)
    BY <1>1 DEF TurnBeforeMain, Started, Pass, Waiting, Elements, Precedes
  <2>1. call.thread \in Threads
    BY DEF SchedInv, CallSound
  <2>2. CASE call.thread = u
    <3>1. ~more
      BY <1>2, <2>2
    <3> QED  BY <1>3, <1>4, <2>2, <3>1
  <2>3. CASE call.thread # u
    <3>1. ~Started
      BY <1>2, <2>1, <2>3 DEF Started
    <3>2. call.thread \notin Elements(queue) \/ Precedes(queue, call.thread, Main)
      BY <3>1, WaitingIsElements DEF SchedInv, TurnBeforeMain
    <3>3. CASE call.thread \notin Elements(queue)
      BY <1>1, <1>3, <2>3, <3>3
    <3>4. CASE Precedes(queue, call.thread, Main)
      BY <1>1, <2>1, <2>3, <3>4, YieldKeepsTurn
    <3> QED  BY <3>2, <3>3, <3>4
  <2> QED  BY <2>2, <2>3
<1> QED  BY <1>7, <1>8, <1>9, <1>10, <1>11, <1>12, <1>13 DEF SchedInv

LEMMA InitInv ==
    ASSUME Init
    PROVE  SchedInv
<1>1. /\ state = [t \in Threads |-> "none"] /\ work = [t \in Threads |-> NoWork]
      /\ attached = {} /\ runnable = {} /\ queueable = {}
      /\ queue = <<>> /\ current = Main /\ call = NoCall
  BY DEF Init
<1>2. TypeOK
  <2>1. 0 \in 0..MaxLaps /\ 0 \in Nat
    BY SchedAssumption
  <2>2. NoWork \in [laps : 0..MaxLaps, lap : 0..MaxLaps, started : BOOLEAN, finished : BOOLEAN]
    BY <2>1 DEF NoWork
  <2>3. NoCall \in [op : {"none", "run", "join"}, thread : Threads \cup {Main}, yields : Nat]
    BY <2>1 DEF NoCall
  <2>4. queue \in Seq(Threads \cup {Main})
    BY <1>1, EmptySeq
  <2> QED  BY <1>1, <2>2, <2>3, <2>4 DEF TypeOK, States
<1>3. Waiting = {}
  BY <1>1 DEF Waiting
<1>4. StatesTrue
  BY <1>1 DEF StatesTrue
<1>5. RunQueueSound
  BY <1>1, <1>3 DEF RunQueueSound
<1>6. StartedQueueable
  BY <1>1 DEF StartedQueueable, NoWork
<1>7. LiveIsScheduled /\ CallSound /\ TurnBeforeMain
  BY <1>1 DEF LiveIsScheduled, CallSound, TurnBeforeMain
<1> QED  BY <1>2, <1>4, <1>5, <1>6, <1>7 DEF SchedInv

LEMMA StepInv ==
    ASSUME SchedInv, [Next]_vars
    PROVE  SchedInv'
<1>1. CASE UNCHANGED vars
  <2>1. TypeOK' /\ StatesTrue' /\ RunQueueSound' /\ StartedQueueable' /\ LiveIsScheduled'
    BY <1>1 DEF SchedInv, TypeOK, StatesTrue, RunQueueSound, StartedQueueable, LiveIsScheduled,
                Waiting, vars
  <2>2. CallSound' /\ TurnBeforeMain'
    BY <1>1 DEF SchedInv, CallSound, TurnBeforeMain, Started, Pass, Waiting, Precedes, vars
  <2> QED  BY <2>1, <2>2 DEF SchedInv
<1>2. CASE Await
  BY <1>2, AwaitStep
<1>3. CASE Done \/ Stalled
  BY <1>3, ReturnStep
<1>4. ASSUME NEW t \in Threads, workerBody(t)
      PROVE  SchedInv'
  BY <1>4, WorkerStep
<1>5. ASSUME NEW t \in Threads, Flow(t)
      PROVE  SchedInv'
  <2>1. CASE Reserve(t) \/ NeverRan(t) \/ Unspawned(t)
    BY <2>1, HandleStep
  <2>2. CASE Attach(t)
    BY <2>2, AttachStep
  <2>3. CASE Release(t) \/ Terminate(t)
    BY <2>3, ForgetStep
  <2>4. CASE Park(t)
    BY <2>4, ParkStep
  <2>5. CASE Unpark(t)
    BY <2>5, UnparkStep
  <2>6. CASE \E laps \in 0..MaxLaps : Prime(t, laps)
    BY <2>6, PrimeStep
  <2>7. CASE \E op \in {"run", "join"} : Enter(t, op)
    BY <2>7, EnterStep
  <2> QED  BY <1>5, <2>1, <2>2, <2>3, <2>4, <2>5, <2>6, <2>7 DEF Flow
<1> QED  BY <1>1, <1>2, <1>3, <1>4, <1>5 DEF Next

LEMMA SpecInv == Spec => []SchedInv
<1>1. Init => SchedInv
  BY InitInv
<1>2. SchedInv /\ [Next]_vars => SchedInv'
  BY StepInv
<1> QED  BY <1>1, <1>2, PTL DEF Spec

----------------------------------------------------------------------------
(* The results.                                                            *)

\* Every variable keeps its type.
THEOREM TypeCorrect == Spec => []TypeOK
<1>1. SchedInv => TypeOK
  BY DEF SchedInv
<1> QED  BY <1>1, SpecInv, PTL

\* The phantom state of every handle tells the truth about its thread.
THEOREM StatesAreTrue == Spec => []StatesTrue
<1>1. SchedInv => StatesTrue
  BY DEF SchedInv
<1> QED  BY <1>1, SpecInv, PTL

\* The run queue holds each thread at most once, and only threads that may run; Main
\* is never lost from it.
THEOREM RunQueueIsSound == Spec => []RunQueueSound
<1>1. SchedInv => RunQueueSound
  BY DEF SchedInv
<1> QED  BY <1>1, SpecInv, PTL

\* A thread with laps left is running or waiting to run, unless it is parked.
THEOREM NoLiveThreadLost == Spec => []LiveIsScheduled
<1>1. SchedInv => LiveIsScheduled
  BY DEF SchedInv
<1> QED  BY <1>1, SpecInv, PTL

\* | stalled is evidence: run and join report it only of a thread that no yield of
\* Main would have reached.
THEOREM StalledIsEvidence == Spec => StalledIsStranded
<1>1. SchedInv /\ [Next]_vars => [Stalled => call.thread \notin Waiting]_vars
  <2> SUFFICES ASSUME SchedInv, Stalled
               PROVE  call.thread \notin Waiting
    OBVIOUS
  <2>1. current = Main /\ call # NoCall /\ ~Started /\ call.yields = 0
    BY DEF Stalled, InCall
  <2>2. call.yields < Pass
    BY <2>1, PassIsNat DEF SchedInv
  <2> QED  BY <2>1, <2>2 DEF SchedInv, TurnBeforeMain
<1> QED  BY <1>1, SpecInv, PTL DEF Spec, StalledIsStranded

\* For any number of threads and laps, and any order of calls, handles, threads
\* and run queue agree.
THEOREM SchedulerIsSound == Spec => []SchedOK
<1>1. SchedInv => SchedOK
  BY DEF SchedInv, SchedOK
<1> QED  BY <1>1, SpecInv, PTL
=============================================================================
