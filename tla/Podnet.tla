------------------------------- MODULE Podnet -------------------------------
(***************************************************************************)
(* The racer server of games/podnet on an enet host: one row of players    *)
(* per peer slot, written by the three branches of `serve` and read by     *)
(* `tick`.                                                                 *)
(*                                                                         *)
(* An input is known by the connection that sent it, a car by the          *)
(* connections whose inputs have moved it.  Positions sent to the clients  *)
(* are left out: they change nothing in the server.                        *)
(***************************************************************************)
EXTENDS Enet

CONSTANTS
    MaxP,   \* slots the tick visits (MAXP)
    Ticks   \* calls of serve the server makes (TICKS)

ASSUME PodnetAssumption == MaxP \in Nat /\ Ticks \in Nat \ {0}

VARIABLES
    players,  \* rows of the players grid
    served,   \* calls of serve that have returned
    muddled   \* history: slots whose row may be wrong because an event was lost

podVars == <<enetVars, players, served, muddled>>

\* held = 0 is the neutral input; moved collects the drivers since the reset.
Row == [used : BOOLEAN, held : Nat, moved : SUBSET Nat]
Reset == [used |-> TRUE, held |-> 0, moved |-> {}]

PodInit ==
    /\ EnetInit
    /\ players = [pid \in Slots |-> [Reset EXCEPT !.used = FALSE]]
    /\ served = 0
    /\ muddled = {}

----------------------------------------------------------------------------
(* serve's branches.                                                       *)

\* Mutant: the row is marked but not reset.
JoinedUnreset(row) == [row EXCEPT !.used = TRUE]
Joined(row) == IF row.used THEN row ELSE Reset

OnConnect ==
    /\ ev.type = "connect"
    /\ players' = [players EXCEPT ![ev.pid] = Joined(@)]
    /\ muddled' = IF players[ev.pid].used THEN muddled ELSE muddled \ {ev.pid}

\* An input that decodes is held from now on; anything else changes nothing.
OnPacket ==
    /\ ev.type = "packet"
    /\ \/ players' = [players EXCEPT ![ev.pid].held = ev.conn]
       \/ players' = players
    /\ UNCHANGED muddled

OnDisconnect ==
    /\ ev.type = "disconnect"
    /\ players' = [players EXCEPT ![ev.pid].used = FALSE]
    /\ muddled' = muddled \ {ev.pid}

Branch == Handle /\ (OnConnect \/ OnPacket \/ OnDisconnect) /\ UNCHANGED served

Lost ==
    /\ GuardBreak
    /\ muddled' = IF ev.type = "packet" THEN muddled ELSE muddled \cup {ev.pid}
    /\ UNCHANGED <<players, served>>

Quiet == (Network \/ Fetch \/ Drained \/ Fail) /\ UNCHANGED <<players, served, muddled>>

\* tick steps the used rows among the first MAXP.
Stepped(row) ==
    IF row.used THEN [row EXCEPT !.moved = @ \cup ({row.held} \ {0})] ELSE row
TickRows == [pid \in Slots |-> IF pid < MaxP THEN Stepped(players[pid]) ELSE players[pid]]

\* | idle ticks, | err does not; then the loop goes round, TICKS times in all.
Return ==
    /\ phase \in {"idle", "err"}
    /\ players' = IF phase = "idle" THEN TickRows ELSE players
    /\ served' = served + 1
    /\ IF served + 1 < Ticks
       THEN Serve
       ELSE phase' = "closed" /\ UNCHANGED <<lib, conns, ev, guard>>
    /\ UNCHANGED muddled

PodNext == Branch \/ Lost \/ Quiet \/ Return

PodSpec == PodInit /\ [][PodNext]_podVars

\* The pump is a loop of one thread.
Pumping == Branch \/ Lost \/ ((Fetch \/ Drained) /\ UNCHANGED <<players, served, muddled>>)
FairPodSpec == PodSpec /\ WF_podVars(Pumping)

----------------------------------------------------------------------------
(* Properties.                                                             *)

\* What the event in hand says of its slot.
EventOK ==
    /\ ev.type = "none" => ev = NoEvent
    /\ ev.type # "none" => phase = "pump" /\ ev.pid \in Slots
    /\ ev.type \in {"connect", "packet"} =>
          lib[ev.pid].st = "connected" /\ lib[ev.pid].conn = ev.conn
    /\ ev.type = "disconnect" => lib[ev.pid].st = "free"
    /\ ev.conn <= conns
    /\ \A pid \in Slots : lib[pid].conn <= conns

\* Every row has the type of its columns, and its drivers are connections made.
PodTypeOK ==
    /\ EnetTypeOK
    /\ players \in [Slots -> Row]
    /\ \A pid \in Slots : players[pid].held <= conns /\ \A c \in players[pid].moved : c <= conns
    /\ served \in 0..Ticks /\ (phase # "closed" => served < Ticks)
    /\ muddled \subseteq Slots

Joining(pid) == ev.type = "connect" /\ ev.pid = pid
Leaving(pid) == ev.type = "disconnect" /\ ev.pid = pid

\* The program has been told of a connection in the slot, and not of its end.
Announced(pid) == Leaving(pid) \/ (lib[pid].st \in {"connected", "zombie"} /\ ~Joining(pid))
Who(pid) == IF Leaving(pid) THEN ev.conn ELSE lib[pid].conn

RowOK(pid) ==
    /\ players[pid].used <=> Announced(pid)
    /\ players[pid].used => /\ players[pid].held \in {0, Who(pid)}
                            /\ players[pid].moved \subseteq {Who(pid)}

\* A slot of which no event was lost, or that has since seen a join into an unused row
\* or a leave, has a row exactly while its connection is announced; input held and
\* car are that connection's alone, whoever sat in the slot before.
RowIsItsConnections == \A pid \in Slots \ muddled : RowOK(pid)

\* The invariant the proofs carry through a step.
PodInv == PodTypeOK /\ EventOK /\ RowIsItsConnections

\* A call of service returns, however fast packets come in: the guard sees to it.
ServeReturns == phase = "pump" ~> phase # "pump"
=============================================================================
