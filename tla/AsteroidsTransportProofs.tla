---------------------- MODULE AsteroidsTransportProofs ----------------------
(***************************************************************************)
(* Proofs about AsteroidsWire, for every size of the buffers, the header,  *)
(* the records and the field: a snapshot is well formed, accounts for the  *)
(* whole field, and a small field is read back whole; and about UdpDrain,  *)
(* for every cap, buffer and arrival rate: the drain keeps up; and that    *)
(* the tick of AsteroidsTransport keeps both promises.                     *)
(***************************************************************************)
EXTENDS AsteroidsTransport, TLAPS

----------------------------------------------------------------------------
(* The snapshot.                                                           *)

\* A row is left out only where no other fits, and a trailer likewise; what was
\* built is what count says, and the client holds it up to its packet buffer.
Full == Offset(count) + Ent > SnapBuf
Built ==
    /\ stage \in {"none", "fill", "trailer"} =>
          n = Offset(count) /\ count + truncated = offered /\ (truncated > 0 => Full)
    /\ stage \in {"send", "wire", "read", "lost"} =>
          \/ n = Offset(count) + Trailer /\ count + truncated = offered /\ (truncated > 0 => Full)
          \/ /\ n = Offset(count) /\ count + truncated = offered + 1
             /\ Offset(count) + Trailer > SnapBuf
    /\ stage = "read" => len = IF n > PacketBuf THEN PacketBuf ELSE n

Inv == TypeOK /\ Built

----------------------------------------------------------------------------
(* Sizes                                                                   *)

\* Entities lie one behind the other.
LEMMA OffsetFacts ==
  ASSUME NEW a \in Nat, NEW b \in Nat, a <= b
  PROVE  /\ Offset(a) \in Nat /\ Offset(a + 1) = Offset(a) + Ent
         /\ Offset(a) <= Offset(b) /\ Hdr + a <= Offset(a)
  <1>1. Hdr \in Nat /\ Ent \in Nat /\ Ent >= 1
    BY WireAssumption DEF WireAssumption
  <1>2. PICK d \in Nat : b = a + d
    <2>1. b - a \in Nat /\ b = a + (b - a)
      OBVIOUS
    <2> QED
      BY <2>1
  <1>3. PICK e \in Nat : Ent = 1 + e
    <2>1. Ent - 1 \in Nat /\ Ent = 1 + (Ent - 1)
      BY <1>1
    <2> QED
      BY <2>1
  <1>4. a * Ent \in Nat /\ d * Ent \in Nat /\ a * e \in Nat
    BY <1>1
  <1>5. (a + 1) * Ent = a * Ent + Ent /\ b * Ent = a * Ent + d * Ent /\ a * Ent = a + a * e
    BY <1>1, <1>2, <1>3
  <1> QED
    BY <1>1, <1>4, <1>5 DEF Offset

\* A field the packet buffer has room for, trailer included.
LEMMA IntactFits ==
  ASSUME NEW a \in Nat, a <= Intact
  PROVE  Offset(a) + Trailer <= PacketBuf
  <1> DEFINE room == PacketBuf - Hdr - Trailer
  <1>1. /\ Hdr \in Nat /\ Trailer \in Nat /\ PacketBuf \in Nat /\ Ent \in Nat /\ Ent >= 1 /\ room \in Int
    BY WireAssumption DEF WireAssumption
  <1>2. a <= room \div Ent
    BY DEF Intact
  <1> HIDE DEF room
  <1>3. room \div Ent \in Int /\ (room \div Ent) * Ent <= room
    BY <1>1
  <1>4. a * Ent <= (room \div Ent) * Ent
    <2>1. PICK d \in Nat : room \div Ent = a + d
      <3>1. (room \div Ent) - a \in Nat /\ room \div Ent = a + ((room \div Ent) - a)
        BY <1>2, <1>3
      <3> QED
        BY <3>1
    <2>2. (a + d) * Ent = a * Ent + d * Ent /\ d * Ent \in Nat /\ a * Ent \in Nat
      BY <1>1
    <2> QED
      BY <2>1, <2>2
  <1>5. a * Ent <= room /\ a * Ent \in Nat
    BY <1>1, <1>3, <1>4
  <1> QED
    BY <1>1, <1>5 DEF Offset, room

----------------------------------------------------------------------------
(* The inductive invariant                                                 *)

LEMMA InitWire == Init => Inv
  <1> SUFFICES ASSUME Init PROVE Inv
    OBVIOUS
  <1>1. Offset(0) = Hdr
    BY WireAssumption DEF Offset, WireAssumption
  <1> QED
    BY <1>1, WireAssumption DEF Init, Inv, TypeOK, Built, WireAssumption

LEMMA EntityInv == ASSUME Inv, Entity PROVE Inv'
  <1>1. /\ count \in Nat /\ offered \in Nat /\ truncated \in Nat /\ n \in Nat /\ MaxField \in Nat
        /\ Hdr \in Nat /\ SnapBuf \in Nat /\ Ent \in Nat /\ stage = "fill" /\ offered < MaxField
        /\ count <= offered
    BY WireAssumption DEF Inv, TypeOK, Entity, WireAssumption
  <1>2. n = Offset(count) /\ count + truncated = offered /\ (truncated > 0 => Full)
    BY <1>1 DEF Inv, Built
  <1>3. Offset(count) \in Nat /\ Offset(count + 1) = Offset(count) + Ent
    BY <1>1, OffsetFacts
  <1>4. CASE n + Ent > SnapBuf
    BY <1>1, <1>2, <1>4 DEF Inv, TypeOK, Built, Entity, Full, Offset
  <1>5. CASE ~(n + Ent > SnapBuf)
    <2>1. count' = count + 1 /\ n' = n + Ent /\ UNCHANGED <<truncated, stage, len>> /\ offered' = offered + 1
      BY <1>5 DEF Entity
    <2>2. truncated = 0
      BY <1>1, <1>2, <1>3, <1>5 DEF Full
    <2>3. n' = Offset(count + 1) /\ n' \in Hdr..SnapBuf
      BY <1>1, <1>2, <1>3, <1>5, <2>1 DEF Inv, TypeOK
    <2>4. n' = Offset(count')
      BY <2>1, <2>3
    <2>5. TypeOK'
      BY <1>1, <2>1, <2>2, <2>3 DEF Inv, TypeOK
    <2> QED
      BY <1>1, <1>2, <2>1, <2>2, <2>4, <2>5 DEF Inv, Built, Offset
  <1> QED
    BY <1>4, <1>5

LEMMA NextWire == Inv /\ [Next]_vars => Inv'
  <1> SUFFICES ASSUME Inv, [Next]_vars PROVE Inv'
    OBVIOUS
  <1>0. /\ Hdr \in Nat /\ SnapBuf \in Nat /\ Ent \in Nat /\ Trailer \in Nat /\ PacketBuf \in Nat
        /\ MaxField \in Nat /\ Hdr <= SnapBuf /\ 8 <= Trailer
    BY WireAssumption DEF WireAssumption
  <1>1. CASE FillDone
    BY <1>1 DEF FillDone, Inv, TypeOK, Built, Full, Offset
  <1>2. CASE AddTrailer
    <2>1. /\ n = Offset(count) /\ count + truncated = offered /\ (truncated > 0 => Full)
          /\ stage' = "send" /\ UNCHANGED <<offered, count, len>> /\ n \in Nat /\ count \in Nat
          /\ truncated \in Nat /\ offered \in Nat /\ Hdr <= n /\ n <= SnapBuf
      BY <1>0, <1>2 DEF AddTrailer, Inv, TypeOK, Built
    <2>2. CASE n + Trailer > SnapBuf
      BY <1>0, <1>2, <2>1, <2>2 DEF AddTrailer, Inv, TypeOK, Built, Offset
    <2>3. CASE ~(n + Trailer > SnapBuf)
      BY <1>0, <1>2, <2>1, <2>3 DEF AddTrailer, Inv, TypeOK, Built, Full, Offset
    <2> QED
      BY <2>2, <2>3
  <1>3. CASE Send \/ Lose
    BY <1>3 DEF Send, Lose, Inv, TypeOK, Built, Full, Offset
  <1>4. CASE Recv
    BY <1>0, <1>4 DEF Recv, Inv, TypeOK, Built, Full, Offset
  <1>5. CASE Begin
    <2>1. Offset(0) = Hdr
      BY <1>0 DEF Offset
    <2> QED
      BY <1>0, <1>5, <2>1 DEF Begin, Inv, TypeOK, Built, Offset
  <1>6. CASE UNCHANGED vars
    BY <1>6 DEF vars, Inv, TypeOK, Built, Full, Offset
  <1> QED
    BY <1>1, <1>2, <1>3, <1>4, <1>5, <1>6, EntityInv DEF Next

LEMMA InvHolds == Spec => []Inv
  <1> QED
    BY InitWire, NextWire, PTL DEF Spec

----------------------------------------------------------------------------
\* Whatever the sizes: the count in the header is the index of the trailer and fits
\* its u16, the builder never writes past its buffer, every row of the field is in the
\* snapshot or counted as left out, and a field that fits the client's packet buffer
\* is read back whole.
THEOREM SnapshotsAreSound == Spec => []WireInv
  <1>1. Inv => WireInv
    <2> SUFFICES ASSUME Inv PROVE WireInv
      OBVIOUS
    <2>1. /\ count \in Nat /\ offered \in Nat /\ truncated \in Nat /\ n \in Nat /\ n <= SnapBuf
          /\ count <= offered
      BY WireAssumption DEF Inv, TypeOK, WireAssumption
    <2>2. /\ Hdr \in Nat /\ SnapBuf \in Nat /\ Ent \in Nat /\ Ent >= 1 /\ Trailer \in Nat /\ PacketBuf \in Nat
          /\ 8 <= Trailer /\ PacketBuf <= SnapBuf /\ SnapBuf < Hdr + 65536
      BY WireAssumption DEF WireAssumption
    <2>3. Offset(count) \in Nat /\ Hdr + count <= Offset(count)
      BY <2>1, OffsetFacts
    <2>4. n = Offset(count) \/ n = Offset(count) + Trailer
      BY DEF Inv, TypeOK, Built
    <2>5. CountIsIndex
      BY <2>1, <2>2, <2>3, <2>4 DEF CountIsIndex
    <2>6. RowsAccounted
      BY <2>1, <2>2, <2>3 DEF Inv, Built, RowsAccounted
    <2>7. SmallFieldIntact
      <3> SUFFICES ASSUME stage = "read", offered <= Intact
                   PROVE  /\ count = offered
                          /\ \A k \in 0..(count - 1) : ReadsEntity(k)
                          /\ ReadsScore /\ ReadsWave
        BY DEF SmallFieldIntact
      <3>1. Offset(offered) + Trailer <= PacketBuf
        BY <2>1, IntactFits
      <3>2. Offset(count) <= Offset(offered) /\ Offset(offered) \in Nat
        BY <2>1, OffsetFacts
      <3>3. /\ n = Offset(count) + Trailer /\ count + truncated = offered /\ (truncated > 0 => Full)
            /\ len = IF n > PacketBuf THEN PacketBuf ELSE n
        BY <2>2, <2>3, <3>1, <3>2 DEF Inv, Built
      <3>4. len = Offset(count) + Trailer
        BY <2>2, <2>3, <3>1, <3>2, <3>3
      <3>5. count = offered
        <4> SUFFICES ASSUME count # offered PROVE FALSE
          OBVIOUS
        <4>1. count + 1 \in Nat /\ count + 1 <= offered /\ truncated > 0
          BY <2>1, <3>3
        <4>2. Offset(count + 1) <= Offset(offered) /\ Offset(count + 1) = Offset(count) + Ent
          BY <2>1, <4>1, OffsetFacts
        <4> QED
          BY <2>2, <2>3, <3>1, <3>2, <3>3, <4>1, <4>2 DEF Full
      <3>6. ASSUME NEW k \in 0..(count - 1) PROVE ReadsEntity(k)
        <4>1. k \in Nat /\ k + 1 \in Nat /\ k + 1 <= count /\ k <= k
          BY <2>1
        <4>2. Offset(k + 1) = Offset(k) + Ent /\ Offset(k + 1) <= Offset(count)
              /\ Offset(k) \in Nat
          BY <2>1, <4>1, OffsetFacts
        <4> QED
          BY <2>2, <2>3, <3>4, <4>2 DEF ReadsEntity
      <3>7. ReadsScore /\ ReadsWave
        BY <2>2, <2>3, <3>4 DEF ReadsScore, ReadsWave
      <3> QED
        BY <3>5, <3>6, <3>7
    <2> QED
      BY <2>5, <2>6, <2>7 DEF Inv, WireInv
  <1> QED
    BY <1>1, InvHolds, PTL

----------------------------------------------------------------------------
(* The drain of the socket.                                                *)

\* One more failed drain is one more tick's arrivals.
LEMMA ErrsTimesRate ==
  ASSUME NEW e \in Nat, NEW r \in Nat
  PROVE  /\ e * r \in Nat
         /\ (e + 1) * r = e * r + r
         /\ (2 + e) * r = e * r + r + r
         /\ 0 * r = 0
  OBVIOUS

LEMMA InitInv == DrainInit => DrainInv
  <1> SUFFICES ASSUME DrainInit PROVE DrainInv
    OBVIOUS
  <1>1. errs * Rate = 0 /\ (2 + errs) * Rate = Rate + Rate
    BY ErrsTimesRate, DrainAssumption DEF DrainInit, DrainAssumption
  <1>2. DrainTypeOK
    <2>1. i \in 0..Max /\ arrived \in 0..Rate /\ errs \in 0..MaxErrs
      BY DrainAssumption DEF DrainInit, DrainAssumption
    <2>2. pc \in {"drain", "body"} /\ late \in Nat /\ prev \in Nat /\ cur \in Nat
      BY DEF DrainInit
    <2>3. dropped \in BOOLEAN
      BY DEF DrainInit
    <2> QED
      BY <2>1, <2>2, <2>3 DEF DrainTypeOK
  <1>3. Rate <= Max => Backlog
    BY <1>1, DrainAssumption DEF DrainInit, Backlog, Queued, DrainAssumption
  <1>4. Rate <= Max => InReach
    BY DEF DrainInit, InReach
  <1>5. NoKernelDrop
    BY DEF DrainInit, NoKernelDrop
  <1> QED
    BY <1>2, <1>3, <1>4, <1>5 DEF DrainInv

LEMMA TypeStep ==
  ASSUME DrainAssumption, DrainTypeOK, [DrainNext]_drainVars
  PROVE  DrainTypeOK'
  <1>1. CASE Arrive
    <2>1. dropped' \in BOOLEAN
      BY <1>1 DEF DrainTypeOK, Arrive
    <2>2. cur' \in Nat /\ arrived' \in 0..Rate
      BY <1>1 DEF DrainAssumption, DrainTypeOK, Arrive
    <2> QED
      BY <1>1, <2>1, <2>2 DEF DrainTypeOK, Arrive
  <1>2. CASE Recvfrom
    BY <1>2 DEF DrainAssumption, DrainTypeOK, Recvfrom, Queued
  <1>3. CASE Done
    BY <1>3 DEF DrainAssumption, DrainTypeOK, Done
  <1>4. CASE Err
    BY <1>4 DEF DrainAssumption, DrainTypeOK, Err, NextTick
  <1>5. CASE EndTick
    BY <1>5 DEF DrainAssumption, DrainTypeOK, EndTick, NextTick
  <1>6. CASE UNCHANGED drainVars
    BY <1>6 DEF DrainTypeOK, drainVars
  <1> QED
    BY <1>1, <1>2, <1>3, <1>4, <1>5, <1>6 DEF DrainNext

\* A cap of at least a tick's arrivals keeps the backlog within one tick's
\* arrivals per drain that failed, and reaches everything older than this tick.
LEMMA BacklogStep ==
  ASSUME DrainAssumption, DrainTypeOK, Rate <= Max, Backlog, InReach, [DrainNext]_drainVars
  PROVE  Backlog' /\ InReach'
  <1> DEFINE w == errs * Rate
  <1>0. w \in Nat /\ errs \in Nat /\ Rate \in Nat
    BY ErrsTimesRate DEF DrainAssumption, DrainTypeOK
  <1>1. CASE Arrive
    <2>1. errs' * Rate = w
      BY <1>1 DEF Arrive
    <2> HIDE DEF w
    <2> QED
      BY <1>0, <1>1, <2>1 DEF DrainAssumption, DrainTypeOK, Backlog, InReach, Arrive, Queued, w
  <1>2. CASE Recvfrom
    <2>1. errs' = errs
      BY <1>2 DEF Recvfrom
    <2> QED
      BY <1>0, <1>2, <2>1 DEF DrainAssumption, DrainTypeOK, Backlog, InReach, Recvfrom, Queued
  <1>3. CASE Done
    BY <1>0, <1>3 DEF DrainAssumption, DrainTypeOK, Backlog, InReach, Done, Queued
  <1>4. CASE Err
    <2>1. errs' = errs + 1 /\ errs' * Rate = w + Rate
      BY <1>0, <1>4, ErrsTimesRate DEF Err
    <2> QED
      BY <1>0, <1>4, <2>1 DEF DrainAssumption, DrainTypeOK, Backlog, InReach, Err, NextTick, Queued
  <1>5. CASE EndTick
    BY <1>0, <1>5 DEF DrainAssumption, DrainTypeOK, Backlog, InReach, EndTick, NextTick, Queued
  <1>6. CASE UNCHANGED drainVars
    BY <1>6 DEF drainVars, Backlog, InReach, Queued
  <1> QED
    BY <1>1, <1>2, <1>3, <1>4, <1>5, <1>6 DEF DrainNext

LEMMA BacklogFits ==
  ASSUME DrainAssumption, DrainTypeOK, Backlog
  PROVE  Queued <= (2 + errs) * Rate
  <1>1. errs * Rate \in Nat /\ (2 + errs) * Rate = errs * Rate + Rate + Rate
    BY ErrsTimesRate DEF DrainAssumption, DrainTypeOK
  <1> QED
    BY <1>1 DEF DrainAssumption, DrainTypeOK, Backlog, Queued

LEMMA DropStep ==
  ASSUME DrainAssumption, DrainTypeOK, Rate <= Max => Backlog, NoKernelDrop, [DrainNext]_drainVars
  PROVE  NoKernelDrop'
  <1> DEFINE w == errs * Rate
  <1>0. w \in Nat /\ errs \in Nat /\ Rate \in Nat /\ (2 + errs) * Rate = w + Rate + Rate
    BY ErrsTimesRate DEF DrainAssumption, DrainTypeOK
  <1>1. CASE Arrive
    <2> SUFFICES ASSUME Rate <= Max, (2 + errs) * Rate <= RcvBuf
                 PROVE  dropped' = FALSE
      BY <1>1 DEF Arrive, NoKernelDrop, DrainAssumption, DrainTypeOK
    <2>1. Queued < RcvBuf
      BY <1>0, <1>1 DEF DrainAssumption, DrainTypeOK, Backlog, Queued, Arrive
    <2>2. dropped = FALSE
      BY DEF NoKernelDrop, DrainTypeOK
    <2> QED
      BY <1>1, <2>1, <2>2 DEF Arrive
  <1>2. CASE Err
    <2>1. errs' = errs + 1 /\ dropped' = dropped
      BY <1>2 DEF Err
    <2>2. (2 + errs') * Rate = w + Rate + Rate + Rate
      BY <1>0, <2>1, ErrsTimesRate
    <2> QED
      BY <1>0, <2>1, <2>2 DEF NoKernelDrop, DrainAssumption
  <1>3. CASE Recvfrom \/ Done \/ EndTick \/ UNCHANGED drainVars
    BY <1>3 DEF Recvfrom, Done, EndTick, NextTick, drainVars, NoKernelDrop
  <1> QED
    BY <1>1, <1>2, <1>3 DEF DrainNext

LEMMA DrainInvariant == DrainSpec => []DrainInv
  <1>1. DrainInit => DrainInv
    BY InitInv
  <1>2. DrainInv /\ [DrainNext]_drainVars => DrainInv'
    BY TypeStep, BacklogStep, DropStep, DrainAssumption DEF DrainInv
  <1> QED
    BY <1>1, <1>2, PTL DEF DrainSpec

----------------------------------------------------------------------------
\* While drains succeed, no input waits for longer than one tick.
THEOREM InputsAreNeverLate == DrainSpec => []NoneLate
  <1>1. DrainInv => NoneLate
    BY DEF DrainInv, InReach, NoneLate
  <1> QED
    BY <1>1, DrainInvariant, PTL

\* The backlog the cap allows.
THEOREM BacklogIsBounded == DrainSpec => []BacklogBounded
  <1>1. DrainInv => BacklogBounded
    BY BacklogFits, DrainAssumption DEF DrainInv, BacklogBounded
  <1> QED
    BY <1>1, DrainInvariant, PTL

\* A receive buffer with room for two ticks' arrivals loses nothing.
THEOREM KernelDropsNothing == DrainSpec => []NoKernelDrop
  <1>1. DrainInv => NoKernelDrop
    BY DEF DrainInv
  <1> QED
    BY <1>1, DrainInvariant, PTL

\* For every cap, rate and buffer: a backlog within its bound, and no input
\* discarded by a buffer with that room.
THEOREM DrainKeepsUp == DrainSpec => []KeepsUp
  <1>1. DrainInv => KeepsUp
    BY BacklogFits, DrainAssumption DEF DrainInv, KeepsUp, BacklogBounded
  <1> QED
    BY <1>1, DrainInvariant, PTL

----------------------------------------------------------------------------
(* The tick: both, in the order of the server's loop.                      *)

\* Every step of the tick is a step of the snapshot or of the drain, and leaves the
\* other as it is: what is proved of either holds of the tick.
THEOREM TickIsBoth == TransportSpec => Spec /\ DrainSpec
  <1>1. TransportInit => Init /\ DrainInit
    BY DEF TransportInit
  <1>2. [TransportNext]_transportVars => [Next]_vars /\ [DrainNext]_drainVars
    <2> SUFFICES ASSUME [TransportNext]_transportVars PROVE [Next]_vars /\ [DrainNext]_drainVars
      OBVIOUS
    <2>1. CASE Drains
      BY <2>1 DEF Drains, DrainNext
    <2>2. CASE Broadcast
      BY <2>2 DEF Broadcast, Next
    <2>3. CASE Builds
      BY <2>3 DEF Builds, Next
    <2>4. CASE Travels
      BY <2>4 DEF Travels, Next
    <2>5. CASE Ends
      BY <2>5 DEF Ends, DrainNext
    <2>6. CASE UNCHANGED transportVars
      BY <2>6 DEF transportVars
    <2> QED
      BY <2>1, <2>2, <2>3, <2>4, <2>5, <2>6 DEF TransportNext
  <1> QED
    BY <1>1, <1>2, PTL DEF TransportSpec, Spec, DrainSpec

\* The tick's snapshot accounts for the whole field, and with a cap of at least a
\* tick's arrivals it is built when every input of the tick before has been taken, as
\* long as no drain fails.
THEOREM TicksAreSound == TransportSpec => []WireInv /\ []NoneLate /\ []KeepsUp
  <1> QED
    BY TickIsBoth, SnapshotsAreSound, InputsAreNeverLate, DrainKeepsUp, PTL

=============================================================================
