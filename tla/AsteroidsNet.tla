---------------------------- MODULE AsteroidsNet ----------------------------
(***************************************************************************)
(* The server of AsteroidsSim, the clients of client.k and the datagram    *)
(* network between them, which may lose, duplicate and reorder.            *)
(*                                                                         *)
(* Snapshots carry their age in broadcasts instead of the tick they were   *)
(* built in, which no client reads: age bounds how long one is in flight.  *)
(***************************************************************************)
EXTENDS AsteroidsSim

CONSTANTS
    F32Exact,   \* largest n for which n+1 is exact in an f32 (2^24)
    ViewCap,    \* capacity of the client's view store (128)
    RcvBuf,     \* datagrams the server's receive buffer holds (RCVBUF)
    Buttons,    \* bound: states of the fire button clients send
    MaxDelay,   \* bound: broadcasts a snapshot may stay in flight
    ClientDrain \* datagrams a frame drains at most (8)

ASSUME NetAssumption ==
    /\ F32Exact \in Nat /\ F32Exact = MaxSeq
    /\ ViewCap \in Nat /\ MaxDelay \in Nat /\ ClientDrain \in Nat \ {0}
    /\ RcvBuf \in Nat \ {0} /\ Buttons \subseteq BOOLEAN

VARIABLES
    client,  \* per key: is there a client process, and its hud and view
    up,      \* inputs in flight
    down,    \* snapshots in flight
    log      \* history per pid: key, first input, inputs applied

netVars == <<client, up, down, log>>

\* The f32 counter hud[0].iseq: past F32Exact adding one changes nothing.
Bump(n) == IF n < F32Exact THEN n + 1 ELSE n

\* A client as it starts: no hud, no view.
Started == [run |-> TRUE, iseq |-> 0, me |-> 0, rows |-> 0]
Absent == [Started EXCEPT !.run = FALSE]

NetInit ==
    /\ Init
    /\ client = [k \in Keys |-> Absent]
    /\ up = {} /\ down = {}
    /\ log = <<>>

----------------------------------------------------------------------------
(* Clients.                                                                *)

\* A client binds an ephemeral port; the system may give it one used before.
Start(k) ==
    /\ ~client[k].run
    /\ client' = [client EXCEPT ![k] = Started]
    /\ UNCHANGED <<up, down, log, vars>>

Quit(k) ==
    /\ client[k].run
    /\ client' = [client EXCEPT ![k] = Absent]
    /\ UNCHANGED <<up, down, log, vars>>

\* One frame: the input goes out (a full receive buffer drops it), then at most
\* ClientDrain snapshots are drained and applied in any order.  `last` is the one
\* applied last; an empty one leaves the view alone, so `shown` is the last that
\* has rows.  A row that does not fit the view ends the process: the insert has
\* no | full arm.
Frame(k, fire, got, last, shown) ==
    LET c == client[k]
        overflow == \E d \in got : d.n > ViewCap
        heard == IF got = {} THEN c
                 ELSE [c EXCEPT !.me = last.you]
        drawn == IF \A d \in got : d.n = 0 THEN heard
                 ELSE [heard EXCEPT !.rows = shown.n]
    IN  /\ c.run
        /\ client' = [client EXCEPT ![k] =
               IF overflow THEN Absent ELSE [drawn EXCEPT !.iseq = Bump(@)]]
        /\ up' = IF Cardinality(up) < RcvBuf
                 THEN up \cup {[key |-> k, seq |-> Bump(c.iseq), fire |-> fire]} ELSE up

ClientFrame(k) ==
    LET inbox == {d \in down : d.key = k}
    IN  \E fire \in Buttons, got \in SUBSET inbox, again \in SUBSET inbox :
            /\ Cardinality(got) <= ClientDrain
            /\ again \subseteq got
            /\ down' = (down \ got) \cup again
            /\ \/ got = {} /\ Frame(k, fire, got, {}, {})
               \/ \E last, shown \in got :
                    /\ (\E d \in got : d.n > 0) => shown.n > 0
                    /\ last.n > 0 => shown = last
                    /\ Frame(k, fire, got, last, shown)
            /\ UNCHANGED <<log, vars>>

----------------------------------------------------------------------------
(* Network and server.                                                     *)

Lose ==
    /\ \/ \E m \in up : up' = up \ {m} /\ UNCHANGED down
       \/ \E d \in down : down' = down \ {d} /\ UNCHANGED up
    /\ UNCHANGED <<client, log, vars>>

\* The history of session p once the server has handled input seq for it.
Handled(p, seq) ==
    IF p.pid \in DOMAIN log
    THEN [log[p.pid] EXCEPT !.applied =
             IF \E q \in players : q.pid = p.pid /\ p.lseq > q.lseq THEN @ \cup {seq} ELSE @]
    ELSE [key |-> p.key, first |-> seq, applied |-> {seq}]

Receive(m) ==
    /\ Drive(m.key, m.seq, m.fire)
    /\ \/ up' = up \ {m}
       \/ up' = up
    /\ log' = [pid \in DOMAIN log \cup {p.pid : p \in players'} |->
                  IF \E p \in players' : p.pid = pid /\ p.key = m.key
                  THEN Handled(CHOOSE p \in players' : p.pid = pid, m.seq) ELSE log[pid]]
    /\ UNCHANGED <<client, down>>

\* What snap.send makes of the snapshot for session p.
\* Mutant: it is not patched.
SnapshotUnpatched(p) == [key |-> p.key, age |-> 0, you |-> 0, n |-> Bodies]
Snapshot(p) == [key |-> p.key, age |-> 0, you |-> p.pid, n |-> Bodies]

\* The broadcast fans one snapshot out per session; those already in flight age.
NetBroadcast ==
    /\ Broadcast
    /\ LET old == {[d EXCEPT !.age = @ + 1] : d \in {e \in down : e.age < MaxDelay}}
           new == {Snapshot(p) : p \in players}
       IN  down' = IF TooWide THEN old ELSE old \cup new
    /\ UNCHANGED <<client, up, log>>

NetNext ==
    \/ \E k \in Keys : Start(k) \/ Quit(k) \/ ClientFrame(k)
    \/ Lose
    \/ \E m \in up : Receive(m)
    \/ (DrainDone \/ DrainErr \/ Rules) /\ UNCHANGED netVars
    \/ NetBroadcast

allVars == <<vars, netVars>>

NetSpec == NetInit /\ [][NetNext]_allVars

\* The server handles an input of k.
ReceiveOf(k) == \E m \in up : m.key = k /\ Receive(m)

\* Clients draw frames for as long as they run and the server's loop never stops.
\* The network may lose any datagram, but not all of those a client sends for ever
\* (the last conjunct), nor all of those that reach a socket again and again.
NetFair ==
    /\ WF_allVars(DrainDone /\ UNCHANGED netVars)
    /\ WF_allVars(Rules /\ UNCHANGED netVars)
    /\ WF_allVars(NetBroadcast)
    /\ \A k \in Keys :
          /\ WF_allVars(ClientFrame(k))
          /\ SF_allVars(ClientFrame(k) /\ \E d \in down : d.key = k /\ client[k]'.me = d.you)
          /\ SF_allVars(ReceiveOf(k))
          /\ []<><<ClientFrame(k)>>_allVars => []<><<ReceiveOf(k)>>_allVars

FairNetSpec == NetSpec /\ NetFair

----------------------------------------------------------------------------
(* Properties.                                                             *)

NetTypeOK ==
    /\ TypeOK
    /\ client \in [Keys -> [run : BOOLEAN, iseq : 0..F32Exact,
                            me : 0..MaxJoin, rows : 0..ViewCap]]
    /\ up \subseteq [key : Keys, seq : 0..MaxSeq, fire : BOOLEAN]
    /\ down \subseteq [key : Keys, age : 0..MaxDelay, you : 0..MaxJoin, n : Nat]
    /\ DOMAIN log = 1..(game.nextpid - 1)

\* The drops column balances: over a session's whole life the inputs between the
\* first and the latest applied are either applied, once each, or in drops.
DropsBalance ==
    \A p \in players :
        /\ p.lseq \in log[p.pid].applied
        /\ \A seq \in log[p.pid].applied : log[p.pid].first <= seq /\ seq <= p.lseq
        /\ p.drops + Cardinality(log[p.pid].applied) = p.lseq - log[p.pid].first + 1

\* Whatever the network loses, repeats or delays, the gap count balances and the
\* clients, the datagrams and the server's log keep their types.
NetInv == NetTypeOK /\ DropsBalance

\* A client only ever believes it owns a ship that was given to its own key.
MeIsMine ==
    \A k \in Keys : client[k].me # 0 => log[client[k].me].key = k

\* Every client learns which ship is its own from the snapshots alone.
LearnsPid ==
    \A k \in Keys : client[k].run ~> (client[k].me # 0 \/ ~client[k].run \/ game.nextpid > MaxJoin)
=============================================================================
