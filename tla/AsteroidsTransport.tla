------------------------- MODULE AsteroidsTransport -------------------------
(***************************************************************************)
(* The two ends of a server tick, server.k's tick loop and broadcast: the  *)
(* drain of udp/index.kz takes what has arrived, the rules of the tick     *)
(* run, and a snapshot of wire/index.kz is built and sent once.  A drain   *)
(* that fails ends the tick without a snapshot.  Datagrams arrive, and the *)
(* snapshot travels, at any moment.                                        *)
(***************************************************************************)
EXTENDS AsteroidsWire, UdpDrain

VARIABLES snapped  \* this tick has begun its snapshot

transportVars == <<vars, drainVars, snapped>>

TransportInit == Init /\ DrainInit /\ snapped = FALSE

\* packets, beside the kernel.
Drains ==
    /\ Arrive \/ Recvfrom \/ Done \/ Err
    /\ UNCHANGED <<vars, snapped>>

\* broadcast: snap.begin, once the drain is done.
Broadcast ==
    /\ pc = "body" /\ ~snapped /\ snapped' = TRUE
    /\ Begin
    /\ UNCHANGED drainVars

\* broadcast: fill-bodies, fill-trailer, send-all.
Builds ==
    /\ pc = "body" /\ snapped
    /\ Entity \/ FillDone \/ AddTrailer \/ Send
    /\ UNCHANGED <<drainVars, snapped>>

Travels ==
    /\ Lose \/ Recv
    /\ UNCHANGED <<drainVars, snapped>>

\* The tick ends when its snapshot has been sent.
Ends ==
    /\ snapped /\ snapped' = FALSE
    /\ stage \notin {"fill", "trailer", "send"}
    /\ EndTick
    /\ UNCHANGED vars

TransportNext == Drains \/ Broadcast \/ Builds \/ Travels \/ Ends

TransportSpec == TransportInit /\ [][TransportNext]_transportVars
=============================================================================
