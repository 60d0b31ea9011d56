---------------------------- MODULE AsteroidsWire ----------------------------
(***************************************************************************)
(* One snapshot of wire/index.kz: built entity by entity into Snap.buf,    *)
(* closed by the trailer, sent as one datagram, received through udp's     *)
(* Packet.buf and read back by the client.  Only sizes and offsets are     *)
(* modelled, with the sizes of the code as CONSTANTS.                      *)
(***************************************************************************)
EXTENDS Naturals

CONSTANTS
    SnapBuf,      \* Snap.buf (65536)
    Hdr,          \* HDR (14)
    Ent,          \* ENT (28)
    Trailer,      \* score and wave (8)
    UdpMax,       \* largest UDP payload over IPv4 (65507)
    PacketBuf,    \* udp's Packet.buf, where recvfrom cuts a datagram (8192)
    MaxField      \* bound: rows of the bodies store (capacity 4096)

ASSUME WireAssumption ==
    /\ SnapBuf \in Nat /\ Hdr \in Nat /\ Ent \in Nat \ {0} /\ Trailer \in Nat
    /\ UdpMax \in Nat /\ PacketBuf \in Nat /\ MaxField \in Nat
    /\ Hdr <= PacketBuf /\ PacketBuf <= SnapBuf
    /\ SnapBuf < Hdr + 65536   \* the count is a u16
    /\ 8 <= Trailer            \* two i32

VARIABLES
    stage,      \* "none", "fill", "trailer", "send", "wire", "read" or "lost"
    offered,    \* rows fill-bodies has offered to the snapshot
    n, count,   \* Snap.n and Snap.count
    truncated,  \* what this snapshot added to snap_truncated
    len         \* bytes of the datagram the client holds

vars == <<stage, offered, n, count, truncated, len>>

\* Where the client looks for entity i, and for the trailer behind the last.
Offset(i) == Hdr + i * Ent

Init ==
    /\ stage = "none" /\ offered = 0
    /\ n = Hdr /\ count = 0 /\ truncated = 0 /\ len = 0

\* Mutant: a row that does not fit is not counted at all.
EntitySilent ==
    /\ stage = "fill" /\ offered < MaxField
    /\ offered' = offered + 1
    /\ IF n + Ent > SnapBuf THEN UNCHANGED <<n, count>> ELSE n' = n + Ent /\ count' = count + 1
    /\ UNCHANGED <<stage, truncated, len>>

\* snap.entity: a row that does not fit is counted and left out.
Entity ==
    /\ stage = "fill" /\ offered < MaxField
    /\ offered' = offered + 1
    /\ IF n + Ent > SnapBuf
       THEN truncated' = truncated + 1 /\ UNCHANGED <<n, count>>
       ELSE n' = n + Ent /\ count' = count + 1 /\ UNCHANGED truncated
    /\ UNCHANGED <<stage, len>>

FillDone ==
    /\ stage = "fill"
    /\ stage' = "trailer"
    /\ UNCHANGED <<offered, n, count, truncated, len>>

\* snap.trailer
AddTrailer ==
    /\ stage = "trailer"
    /\ IF n + Trailer > SnapBuf
       THEN truncated' = truncated + 1 /\ UNCHANGED n
       ELSE n' = n + Trailer /\ UNCHANGED truncated
    /\ stage' = "send"
    /\ UNCHANGED <<offered, count, len>>

\* snap.send: sendto refuses a payload UDP cannot carry, and the error is dropped.
Send ==
    /\ stage = "send"
    /\ stage' = IF n > UdpMax THEN "lost" ELSE "wire"
    /\ UNCHANGED <<offered, n, count, truncated, len>>

\* The network may lose the datagram; recvfrom cuts it to the packet buffer.
Lose ==
    /\ stage = "wire" /\ stage' = "lost"
    /\ UNCHANGED <<offered, n, count, truncated, len>>

Recv ==
    /\ stage = "wire" /\ stage' = "read"
    /\ len' = IF n > PacketBuf THEN PacketBuf ELSE n
    /\ UNCHANGED <<offered, n, count, truncated>>

\* snap.begin; the snapshot of the tick before is freed and off the wire.
Begin ==
    /\ stage \in {"none", "read", "lost"}
    /\ stage' = "fill" /\ offered' = 0
    /\ n' = Hdr /\ count' = 0 /\ truncated' = 0 /\ len' = 0

Next == Entity \/ FillDone \/ AddTrailer \/ Send \/ Lose \/ Recv \/ Begin

Spec == Init /\ [][Next]_vars

----------------------------------------------------------------------------
(* What the client reads from the datagram it holds.                       *)

\* snap.ent returns a dead placeholder beyond the end, snap.score and snap.wave 0.
ReadsEntity(i) == Offset(i) + Ent <= len
ReadsScore == Offset(count) + 4 <= len
ReadsWave == Offset(count) + 8 <= len

----------------------------------------------------------------------------
(* Properties.                                                             *)

TypeOK ==
    /\ stage \in {"none", "fill", "trailer", "send", "wire", "read", "lost"}
    /\ offered \in 0..MaxField /\ count \in 0..offered
    /\ n \in Hdr..SnapBuf /\ truncated \in 0..(offered + 1)
    /\ len \in 0..PacketBuf

\* The count the header carries is the index of the byte the trailer starts at,
\* the builder never writes past its buffer, and the count fits its u16.
CountIsIndex ==
    /\ n = Offset(count) \/ n = Offset(count) + Trailer
    /\ n <= SnapBuf
    /\ count < 65536

\* Every row offered was built into the snapshot or is in snap_truncated; the one
\* extra count is a trailer that did not fit.  A snapshot that sendto refuses, or
\* the network loses, takes its rows with it and counts nothing.
RowsAccounted ==
    /\ stage \in {"none", "fill", "trailer"} => count + truncated = offered
    /\ stage \in {"send", "wire", "read", "lost"} =>
          count + truncated = offered + (IF n = Offset(count) THEN 1 ELSE 0)

\* A field that fits the client's packet buffer is read back whole, trailer included.
Intact == (PacketBuf - Hdr - Trailer) \div Ent
SmallFieldIntact ==
    stage = "read" /\ offered <= Intact =>
        /\ count = offered
        /\ \A i \in 0..(count - 1) : ReadsEntity(i)
        /\ ReadsScore /\ ReadsWave

\* From the first row offered to the last one read, a snapshot is well formed and
\* accounts for the whole field, and a small field arrives whole.
WireInv == TypeOK /\ CountIsIndex /\ RowsAccounted /\ SmallFieldIntact
=============================================================================
