------------------------------ MODULE UdpDrain ------------------------------
(***************************************************************************)
(* udp/index.kz under the server's tick loop: datagrams pile up in the     *)
(* socket's receive buffer at any moment, `packets` drains at most Max of  *)
(* them once per tick.  Datagrams are told apart by the tick they arrived  *)
(* in: `cur` in this one, `prev` in the one before, `late` earlier still.  *)
(* The buffer is a queue, so the drain takes late before prev before cur.  *)
(***************************************************************************)
EXTENDS Integers

CONSTANTS
    Max,     \* the drain's cap (DRAIN, 512)
    RcvBuf,  \* datagrams the receive buffer holds (RCVBUF, 4 MB)
    Rate,    \* most datagrams that arrive during one tick
    MaxErrs  \* bound: drains that fail

ASSUME DrainAssumption ==
    /\ Max \in Nat \ {0} /\ RcvBuf \in Nat /\ Rate \in Nat /\ MaxErrs \in Nat

VARIABLES
    pc,              \* "drain" while packets runs, "body" for the rest of the tick
    i,               \* packets' loop counter
    late, prev, cur, \* the receive buffer
    arrived,         \* datagrams that arrived during this tick
    dropped,         \* has the kernel discarded a datagram
    errs             \* drains that ended in | err

drainVars == <<pc, i, late, prev, cur, arrived, dropped, errs>>

Queued == late + prev + cur

DrainInit ==
    /\ pc = "drain" /\ i = 0
    /\ late = 0 /\ prev = 0 /\ cur = 0 /\ arrived = 0
    /\ dropped = FALSE /\ errs = 0

\* The kernel queues a datagram, or discards it when the buffer is full.
Arrive ==
    /\ arrived < Rate
    /\ arrived' = arrived + 1
    /\ IF Queued < RcvBuf THEN cur' = cur + 1 /\ UNCHANGED dropped
                          ELSE dropped' = TRUE /\ UNCHANGED cur
    /\ UNCHANGED <<pc, i, late, prev, errs>>

\* recvfrom takes the oldest datagram; ! packet runs the handler.
Recvfrom ==
    /\ pc = "drain" /\ i < Max /\ Queued > 0
    /\ i' = i + 1
    /\ \/ late > 0 /\ late' = late - 1 /\ UNCHANGED <<prev, cur>>
       \/ late = 0 /\ prev > 0 /\ prev' = prev - 1 /\ UNCHANGED <<late, cur>>
       \/ late = 0 /\ prev = 0 /\ cur' = cur - 1 /\ UNCHANGED <<late, prev>>
    /\ UNCHANGED <<pc, arrived, dropped, errs>>

\* Mutant: the loop stops one datagram short of the cap.
DoneEarly ==
    /\ pc = "drain" /\ (i >= Max - 1 \/ Queued = 0)
    /\ pc' = "body"
    /\ UNCHANGED <<i, late, prev, cur, arrived, dropped, errs>>

\* | done: max datagrams were taken, or recvfrom answered WouldBlock.
Done ==
    /\ pc = "drain" /\ (i >= Max \/ Queued = 0)
    /\ pc' = "body"
    /\ UNCHANGED <<i, late, prev, cur, arrived, dropped, errs>>

\* Mutant: the loop counter is not declared inside the tick.
NextTickKeepsCount ==
    /\ late' = late + prev /\ prev' = cur /\ cur' = 0
    /\ i' = i /\ arrived' = 0 /\ pc' = "drain"
NextTick ==
    /\ late' = late + prev /\ prev' = cur /\ cur' = 0
    /\ i' = 0 /\ arrived' = 0 /\ pc' = "drain"

\* | err: recvfrom failed for another reason; the server skips the tick's body.
Err ==
    /\ pc = "drain" /\ i < Max /\ errs < MaxErrs
    /\ errs' = errs + 1
    /\ NextTick
    /\ UNCHANGED dropped

EndTick ==
    /\ pc = "body"
    /\ NextTick
    /\ UNCHANGED <<dropped, errs>>

DrainNext == Arrive \/ Recvfrom \/ Done \/ Err \/ EndTick

DrainSpec == DrainInit /\ [][DrainNext]_drainVars

----------------------------------------------------------------------------
(* Properties.                                                             *)

DrainTypeOK ==
    /\ pc \in {"drain", "body"} /\ i \in 0..Max
    /\ late \in Nat /\ prev \in Nat /\ cur \in Nat
    /\ arrived \in 0..Rate
    /\ dropped \in BOOLEAN /\ errs \in 0..MaxErrs

\* A cap that is at least a tick's arrivals keeps up: what one tick leaves behind
\* is drained in the next, so no input waits longer than a tick while no drain fails.
NoneLate == Rate <= Max /\ errs = 0 /\ pc = "body" => late = 0 /\ prev = 0

\* The backlog the cap allows: two ticks' arrivals, and one more per failed drain.
\* A buffer with that room never makes the kernel discard an input.
BacklogBounded == Rate <= Max => Queued <= (2 + errs) * Rate
NoKernelDrop == Rate <= Max /\ (2 + errs) * Rate <= RcvBuf => ~dropped

\* The backlog stays bounded and the kernel discards nothing, whichever drains fail.
KeepsUp == DrainTypeOK /\ BacklogBounded /\ NoKernelDrop

\* What the proofs carry through a step: how much the running drain has left to
\* do, and which datagrams it still has to reach.
Backlog ==
    /\ pc = "drain" => Queued + i <= errs * Rate + Rate + arrived
    /\ pc = "body" => Queued <= errs * Rate + arrived
InReach ==
    /\ cur <= arrived
    /\ errs = 0 => /\ late = 0
                   /\ pc = "drain" => prev = 0 \/ prev + i <= Rate
                   /\ pc = "body" => prev = 0
DrainInv == DrainTypeOK /\ (Rate <= Max => Backlog /\ InReach) /\ NoKernelDrop
=============================================================================
