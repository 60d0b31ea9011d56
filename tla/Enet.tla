-------------------------------- MODULE Enet --------------------------------
(***************************************************************************)
(* A server host of enet/index.kz: libenet's peer slots, and the service   *)
(* pump that hands one event after another to the program's branches.      *)
(*                                                                         *)
(* libenet itself is external.  It is modelled from what the pump sees: a  *)
(* slot announces its connection, then its packets, then its end, and is   *)
(* free again as soon as the end has been taken out of the queue.  It      *)
(* takes in datagrams only while enet_host_service runs, so nothing of it  *)
(* changes while a branch does.  The program above adds what its branches  *)
(* do to Handle, and says when Serve runs.                                 *)
(***************************************************************************)
EXTENDS Integers

CONSTANTS
    Peers,     \* peer slots of the host (32)
    GuardMax,  \* the pump's guard (512)
    MaxConn,   \* bound: connections ever made
    MaxInbox   \* bound: packets of one connection waiting to be handed out

ASSUME EnetAssumption ==
    Peers \in Nat /\ GuardMax \in Nat /\ MaxConn \in Nat /\ MaxInbox \in Nat

Slots == 0..(Peers - 1)

VARIABLES
    lib,    \* per slot: its state in libenet, its connection, packets waiting
    conns,  \* connections made so far; each is known by its number
    phase,  \* "pump" inside service; the rest is the program's
    ev,     \* the event the pump has taken out of the queue
    guard   \* events handed out by this call

enetVars == <<lib, conns, phase, ev, guard>>

Slot == [st : {"free", "pending", "connected", "zombie"}, conn : 0..MaxConn,
         inbox : 0..MaxInbox]
Free == [st |-> "free", conn |-> 0, inbox |-> 0]
NoEvent == [type |-> "none", pid |-> 0, conn |-> 0]
Event(type, pid) == [type |-> type, pid |-> pid, conn |-> lib[pid].conn]

EnetInit ==
    /\ lib = [pid \in Slots |-> Free]
    /\ conns = 0
    /\ phase = "pump" /\ ev = NoEvent /\ guard = 0

----------------------------------------------------------------------------
(* libenet, between two events.                                            *)

InService == phase = "pump" /\ ev = NoEvent

\* A handshake takes the first free slot, and is refused when there is none.
Connect ==
    /\ InService
    /\ conns < MaxConn
    /\ \E pid \in Slots :
        /\ lib[pid].st = "free" /\ \A q \in Slots : q < pid => lib[q].st # "free"
        /\ lib' = [lib EXCEPT ![pid] = [st |-> "pending", conn |-> conns + 1, inbox |-> 0]]
    /\ conns' = conns + 1
    /\ UNCHANGED <<phase, ev, guard>>

Arrive ==
    /\ InService
    /\ \E pid \in Slots :
        /\ lib[pid].st = "connected" /\ lib[pid].inbox < MaxInbox
        /\ lib' = [lib EXCEPT ![pid].inbox = @ + 1]
    /\ UNCHANGED <<conns, phase, ev, guard>>

\* A disconnect or a timeout: packets still waiting are discarded, and a connection
\* that was never announced goes without an event.
Leave ==
    /\ InService
    /\ \E pid \in Slots :
        \/ lib[pid].st = "pending" /\ lib' = [lib EXCEPT ![pid] = Free]
        \/ lib[pid].st = "connected" /\ lib' = [lib EXCEPT ![pid].st = "zombie", ![pid].inbox = 0]
    /\ UNCHANGED <<conns, phase, ev, guard>>

Network == Connect \/ Arrive \/ Leave

----------------------------------------------------------------------------
(* service.                                                                *)

\* enet_host_service returns an event: it is out of the queue.
TakeConnect(pid) ==
    /\ lib[pid].st = "pending"
    /\ ev' = Event("connect", pid) /\ lib' = [lib EXCEPT ![pid].st = "connected"]
TakePacket(pid) ==
    /\ lib[pid].st = "connected" /\ lib[pid].inbox > 0
    /\ ev' = Event("packet", pid) /\ lib' = [lib EXCEPT ![pid].inbox = @ - 1]
TakeDisconnect(pid) ==
    /\ lib[pid].st = "zombie"
    /\ ev' = Event("disconnect", pid) /\ lib' = [lib EXCEPT ![pid] = Free]

Fetch ==
    /\ InService
    /\ \E pid \in Slots : TakeConnect(pid) \/ TakePacket(pid) \/ TakeDisconnect(pid)
    /\ UNCHANGED <<conns, phase, guard>>

\* The branch of the event runs.  Mutant: the guard does not count.
HandleUncounted ==
    /\ phase = "pump" /\ ev # NoEvent /\ guard <= GuardMax
    /\ ev' = NoEvent
    /\ UNCHANGED <<lib, conns, phase, guard>>
Handle ==
    /\ phase = "pump" /\ ev # NoEvent /\ guard <= GuardMax
    /\ ev' = NoEvent /\ guard' = guard + 1
    /\ UNCHANGED <<lib, conns, phase>>

\* The loop is left with an event in hand, which no branch will see.
GuardBreak ==
    /\ phase = "pump" /\ ev # NoEvent /\ guard > GuardMax
    /\ ev' = NoEvent /\ phase' = "idle"
    /\ UNCHANGED <<lib, conns, guard>>

\* Nothing is queued, and nothing came within the timeout.
Drained ==
    /\ InService
    /\ \A pid \in Slots : lib[pid].st \in {"free", "connected"} /\ lib[pid].inbox = 0
    /\ phase' = "idle"
    /\ UNCHANGED <<lib, conns, ev, guard>>

\* | err: the socket failed.
Fail ==
    /\ InService
    /\ phase' = "err"
    /\ UNCHANGED <<lib, conns, ev, guard>>

\* The next call of service.
Serve ==
    /\ phase' = "pump" /\ guard' = 0
    /\ UNCHANGED <<lib, conns, ev>>

EnetTypeOK ==
    /\ lib \in [Slots -> Slot]
    /\ conns \in 0..MaxConn
    /\ phase \in {"pump", "idle", "err", "closed"}
    /\ ev \in [type : {"none", "connect", "packet", "disconnect"}, pid : Nat, conn : 0..MaxConn]
    /\ guard \in 0..(GuardMax + 1)
=============================================================================
