--------------------------- MODULE AsteroidsSim ---------------------------
(***************************************************************************)
(* The authoritative half of games/asteroids-net: the stores and rules of  *)
(* sim/index.k, run in the order of the tick body of server.k.             *)
(*                                                                         *)
(* Geometry is abstracted: which bullets strike, which rocks they strike   *)
(* and which ships are rammed in a tick is a nondeterministic choice that  *)
(* the contact rules of `tick` allow.  Times are counted in ticks.  Rocks  *)
(* are counted per size class, bullets are counted; ships and sessions are *)
(* rows, because identity matters there.                                   *)
(***************************************************************************)
EXTENDS Integers, FiniteSets

CONSTANTS
    Keys,          \* session keys: udp's addr<<16|port fold
    PlayerCap,     \* capacity of the players store (1024)
    BodyCap,       \* capacity of the bodies store (4096)
    StaleTicks,    \* STALE_TICKS (90)
    RespawnTicks,  \* ticks until rt 1.5 has decayed to <= 0
    InvulnTicks,   \* ticks until inv 2.0 has decayed to <= 0
    CooldownTicks, \* ticks until cd 0.25 has decayed to <= 0
    WaveBase,      \* rocks a wave deals over its predecessor's number (4)
    PidMax,        \* largest pid a snapshot can carry: u16 (65535)
    MaxSeq,        \* bound: sequence numbers the environment sends
    MaxJoin,       \* bound: pids ever handed out
    MaxWave        \* bound: waves played

ASSUME NumAssumption ==
    /\ PlayerCap \in Nat /\ BodyCap \in Nat
    /\ StaleTicks \in Nat
    /\ RespawnTicks \in Nat \ {0} /\ InvulnTicks \in Nat
    /\ CooldownTicks \in Nat \ {0}
    /\ WaveBase \in Nat \ {0}
    /\ PidMax \in Nat
    /\ MaxSeq \in Nat /\ MaxJoin \in Nat /\ MaxWave \in Nat

VARIABLES
    phase,    \* the step of the tick body that runs next
    players,  \* rows of the players store
    ships,    \* rows of the bodies store with kind 1
    field,    \* rows of the bodies store with kind 2, counted per size class
    hit,      \* those of them whose hit column is 1
    bullets,  \* number of rows of the bodies store with kind 3
    spent,    \* those of them whose hit or dead column is 1
    game,     \* the one row of the game store
    lookup    \* lookup[0].pid, the join path's answer slot

vars == <<phase, players, ships, field, hit, bullets, spent, game, lookup>>

----------------------------------------------------------------------------
(* Rows.  `idle` stands for tick - last, whose only use is the comparison   *)
(* with the timeout in sweep-stale: it saturates just above it.             *)
Session == [pid : Nat, key : Keys, rt : 0..RespawnTicks, waiting : BOOLEAN,
            idle : 0..(StaleTicks + 1), lseq : Nat, drops : Nat]
Ship == [owner : Nat, dead : BOOLEAN, t : {0, 1},
         inv : 0..InvulnTicks, cd : 0..CooldownTicks]
PerClass == [big : Nat, mid : Nat, small : Nat]
GameRow == [score : Nat, wave : Nat, rocks : Int, pending : Nat, nextpid : Nat]

NoRocks == [big |-> 0, mid |-> 0, small |-> 0]
Total(f) == f.big + f.mid + f.small

\* Rows in use in the bodies store.
Bodies == Cardinality(ships) + Total(field) + bullets

Decay(n) == IF n > 0 THEN n - 1 ELSE 0

Init ==
    /\ phase = "drain"
    /\ players = {} /\ ships = {}
    /\ field = NoRocks /\ hit = NoRocks
    /\ bullets = 0 /\ spent = 0
    /\ game = [score |-> 0, wave |-> 0, rocks |-> 0, pending |-> 0, nextpid |-> 1]
    /\ lookup = 0

----------------------------------------------------------------------------
(* drive: the per-packet path.                                             *)

\* fire, given the ships as they are when it runs.  A full store drops the
\* bullet and leaves the cooldown alone.
MayFire(s, pid) == s.owner = pid /\ ~s.dead /\ s.cd = 0

Fire(pid, pressed, afloat) ==
    LET free == Cardinality(afloat) + Total(field) + bullets < BodyCap
        guns == {s \in afloat : pressed /\ free /\ MayFire(s, pid)}
    IN  /\ ships' = (afloat \ guns) \cup {[s EXCEPT !.cd = CooldownTicks] : s \in guns}
        /\ bullets' = IF guns = {} THEN bullets ELSE bullets + 1

\* Fresh input, and the gap it counts into drops.
\* Mutants: a repeat counts as fresh; drops counts the input itself.
FreshOrRepeated(p, seq) == seq >= p.lseq
Fresh(p, seq) == seq > p.lseq
DropsOneTooMany(p, seq) == p.drops + (seq - p.lseq)
DropsWith(p, seq) == p.drops + (seq - p.lseq - 1)

\* The store is indexed by key: the first session of the key is the only one.
DriveFresh(key, seq, firing) ==
    \E p \in players :
        /\ p.key = key /\ Fresh(p, seq)
        /\ players' = (players \ {p}) \cup
               {[p EXCEPT !.idle = 0, !.lseq = seq, !.drops = DropsWith(p, seq)]}
        /\ Fire(p.pid, firing, ships)
        /\ UNCHANGED <<game, lookup>>

\* Mutant: a late packet takes lseq back with it.
DriveOldRewinds(key, seq) ==
    \E p \in players :
        /\ p.key = key /\ ~Fresh(p, seq)
        /\ players' = (players \ {p}) \cup {[p EXCEPT !.idle = 0, !.lseq = seq]}
        /\ UNCHANGED <<ships, bullets, game, lookup>>

\* A duplicate or reordered packet only keeps the session alive.
DriveOld(key, seq) ==
    \E p \in players :
        /\ p.key = key /\ ~Fresh(p, seq)
        /\ players' = (players \ {p}) \cup {[p EXCEPT !.idle = 0]}
        /\ UNCHANGED <<ships, bullets, game, lookup>>

NewSession(key, seq) ==
    [pid |-> game.nextpid, key |-> key, rt |-> 0, waiting |-> FALSE,
     idle |-> 0, lseq |-> seq, drops |-> 0]

NewShip(pid) ==
    [owner |-> pid, dead |-> FALSE, t |-> 0, inv |-> InvulnTicks, cd |-> 0]

\* spawn-ship: a full bodies store leaves the session without a ship.
WithShip(pid) == IF Bodies < BodyCap THEN ships \cup {NewShip(pid)} ELSE ships

\* | none: spawn-player, then the input is applied to the pid in lookup, unless
\* the join was refused and lookup kept the 0 that was stored before it.
DriveJoin(key, seq, firing) ==
    /\ ~\E p \in players : p.key = key
    /\ IF Cardinality(players) < PlayerCap
       THEN /\ game.nextpid <= MaxJoin
            /\ players' = players \cup {NewSession(key, seq)}
            /\ lookup' = game.nextpid
            /\ game' = [game EXCEPT !.nextpid = @ + 1]
            /\ Fire(lookup', firing, WithShip(game.nextpid))
       ELSE /\ lookup' = 0
            /\ UNCHANGED <<players, game>>
            /\ Fire(lookup', firing /\ lookup' # 0, ships)

Drive(key, seq, firing) ==
    /\ phase = "drain"
    /\ \/ DriveFresh(key, seq, firing)
       \/ DriveOld(key, seq)
       \/ DriveJoin(key, seq, firing)
    /\ UNCHANGED <<phase, field, hit, spent>>

\* | done of packets: the queue is empty or DRAIN packets were handled.
DrainDone ==
    /\ phase = "drain"
    /\ phase' = "tick"
    /\ UNCHANGED <<players, ships, field, hit, bullets, spent, game, lookup>>

Older(n) == IF n > StaleTicks THEN n ELSE n + 1
Aged == {[p EXCEPT !.idle = Older(@)] : p \in players}

\* | err of packets: the rest of the tick body is skipped, the clock moves on.
DrainErr ==
    /\ phase = "drain"
    /\ players' = Aged
    /\ UNCHANGED <<phase, ships, field, hit, bullets, spent, game, lookup>>

----------------------------------------------------------------------------
(* The world rules, one action per step of the tick body.                  *)

\* tick: timers decay, then contacts are flagged.  A bullet that strikes a rock
\* marks both, so rocks are hit only if some bullet is spent; a rock rams any
\* ship whose invulnerability is over.
Tick ==
    /\ phase = "tick"
    /\ \E n \in 0..bullets, h \in [big : 0..field.big, mid : 0..field.mid, small : 0..field.small],
          rammed \in SUBSET {s \in ships : Decay(s.inv) = 0} :
        /\ h # NoRocks => n > 0
        /\ rammed # {} => Total(field) > 0
        /\ spent' = n
        /\ hit' = h
        /\ ships' = {[s EXCEPT !.inv = Decay(@), !.cd = Decay(@), !.dead = @ \/ s \in rammed] :
                        s \in ships}
    /\ phase' = "harvest"
    /\ UNCHANGED <<players, field, bullets, game, lookup>>

\* harvest: bullets that burned out or struck leave the store.
Harvest ==
    /\ phase = "harvest"
    /\ bullets' = bullets - spent
    /\ spent' = 0
    /\ phase' = "harvest-rocks"
    /\ UNCHANGED <<players, ships, field, hit, game, lookup>>

\* Radii in tenths: spawn-tick deals 45.0, child-r halves down to CHILD_MIN_R.
ChildMinR == 160
Radius == [big |-> 450, mid |-> 225, small |-> ChildMinR]
ChildClass == [big |-> "mid", mid |-> "small"]

\* score-rock.  Mutant: the first threshold is the big rocks' own radius.
PointsAtRadius(class) ==
    IF Radius[class] > 450 THEN 20 ELSE IF Radius[class] > 250 THEN 50 ELSE 100
Points(class) ==
    IF Radius[class] > 400 THEN 20 ELSE IF Radius[class] > 250 THEN 50 ELSE 100

\* split-count, cut by the room the store has once the parent is taken: one
\* insert per child, and | full ends the pair.
Children(class, room) ==
    IF Radius[class] <= ChildMinR \/ room < 1 THEN 0 ELSE IF room = 1 THEN 1 ELSE 2

\* bump-rocks: the parent leaves the census, each child that was inserted joins it.
\* Mutant: | full of the second child counts both.
CensusChangeOnFull(n) == IF n = 0 THEN -1 ELSE 1
CensusChange(n) == n - 1

\* One row of harvest-rocks: take, spawn-children, score-rock, bump-rocks.
HarvestRock ==
    /\ phase = "harvest-rocks"
    /\ \E class \in {"big", "mid", "small"} :
        /\ hit[class] > 0
        /\ LET n == Children(class, BodyCap - (Bodies - 1))
           IN  /\ field' = IF n = 0 THEN [field EXCEPT ![class] = @ - 1]
                           ELSE [field EXCEPT ![class] = @ - 1, ![ChildClass[class]] = @ + n]
               /\ hit' = [hit EXCEPT ![class] = @ - 1]
               /\ game' = [game EXCEPT !.score = @ + Points(class), !.rocks = @ + CensusChange(n)]
    /\ UNCHANGED <<phase, players, ships, bullets, spent, lookup>>

RocksDone ==
    /\ phase = "harvest-rocks" /\ hit = NoRocks
    /\ phase' = "respawn-ship"
    /\ UNCHANGED <<players, ships, field, hit, bullets, spent, game, lookup>>

\* respawn-ship with arm-respawn: each newly dead ship arms its owner's clock.
Fallen(s) == s.dead /\ s.t = 0

\* Mutant: the dead ship is not marked as processed.
RespawnShipUnmarked ==
    /\ phase = "respawn-ship"
    /\ players' = {IF \E s \in ships : Fallen(s) /\ s.owner = p.pid
                   THEN [p EXCEPT !.rt = RespawnTicks, !.waiting = TRUE] ELSE p : p \in players}
    /\ phase' = "respawn-tick"
    /\ UNCHANGED <<ships, field, hit, bullets, spent, game, lookup>>

RespawnShip ==
    /\ phase = "respawn-ship"
    /\ players' = {IF \E s \in ships : Fallen(s) /\ s.owner = p.pid
                   THEN [p EXCEPT !.rt = RespawnTicks, !.waiting = TRUE] ELSE p : p \in players}
    /\ ships' = {IF Fallen(s) THEN [s EXCEPT !.t = 1] ELSE s : s \in ships}
    /\ phase' = "respawn-tick"
    /\ UNCHANGED <<field, hit, bullets, spent, game, lookup>>

RespawnTick ==
    /\ phase = "respawn-tick"
    /\ players' = {[p EXCEPT !.rt = Decay(@)] : p \in players}
    /\ phase' = "maybe-revive"
    /\ UNCHANGED <<ships, field, hit, bullets, spent, game, lookup>>

\* maybe-revive with revive-ship-body.
Due(p) == p.waiting /\ p.rt = 0

MaybeRevive ==
    /\ phase = "maybe-revive"
    /\ ships' = {IF s.dead /\ \E p \in players : Due(p) /\ p.pid = s.owner
                 THEN NewShip(s.owner) ELSE s : s \in ships}
    /\ players' = {IF Due(p) THEN [p EXCEPT !.waiting = FALSE] ELSE p : p \in players}
    /\ phase' = "wave-check"
    /\ UNCHANGED <<field, hit, bullets, spent, game, lookup>>

\* wave-check: an empty field with nothing pending arms the next wave.
WaveCheck ==
    /\ phase = "wave-check"
    /\ game' = IF game.rocks <= 0 /\ game.pending <= 0 /\ game.wave < MaxWave
               THEN [game EXCEPT !.wave = @ + 1, !.pending = game.wave + WaveBase] ELSE game
    /\ phase' = "spawn-tick"
    /\ UNCHANGED <<players, ships, field, hit, bullets, spent, lookup>>

\* spawn-tick: one pending rock, retried next tick when the store is full.
SpawnTick ==
    /\ phase = "spawn-tick"
    /\ IF game.pending > 0 /\ Bodies < BodyCap
       THEN /\ field' = [field EXCEPT !.big = @ + 1]
            /\ game' = [game EXCEPT !.pending = @ - 1, !.rocks = @ + 1]
       ELSE UNCHANGED <<field, game>>
    /\ phase' = "sweep-stale"
    /\ UNCHANGED <<players, ships, hit, bullets, spent, lookup>>

\* Mutant: only sessions with a ship are swept.
StaleAfloat(p) == p.idle > StaleTicks /\ \E s \in ships : s.owner = p.pid
Stale(p) == p.idle > StaleTicks

\* remove-ship.
ShipsWithout(gone) == {s \in ships : \A p \in gone : p.pid # s.owner}

\* sweep-stale with remove-ship; bullets of the session stay.
SweepStale ==
    /\ phase = "sweep-stale"
    /\ LET gone == {p \in players : Stale(p)}
       IN  /\ players' = players \ gone
           /\ ships' = ShipsWithout(gone)
    /\ phase' = "broadcast"
    /\ UNCHANGED <<field, hit, bullets, spent, game, lookup>>

\* broadcast: the snapshot carries each ship's owner and each recipient's pid as
\* a u16; converting a larger one ends the process.  Then the next tick begins.
TooWide == \/ \E p \in players : p.pid > PidMax
           \/ \E s \in ships : s.owner > PidMax

Broadcast ==
    /\ phase = "broadcast"
    /\ phase' = IF TooWide THEN "panic" ELSE "drain"
    /\ players' = Aged
    /\ UNCHANGED <<ships, field, hit, bullets, spent, game, lookup>>

Rules ==
    \/ Tick \/ Harvest \/ HarvestRock \/ RocksDone \/ RespawnShip \/ RespawnTick
    \/ MaybeRevive \/ WaveCheck \/ SpawnTick \/ SweepStale

Next ==
    \/ \E key \in Keys, seq \in 0..MaxSeq, firing \in BOOLEAN : Drive(key, seq, firing)
    \/ DrainDone
    \/ DrainErr
    \/ Rules
    \/ Broadcast

Spec == Init /\ [][Next]_vars

\* The drain handles at most DRAIN packets and recvfrom does not fail for ever;
\* the rest of the tick body is straight-line code of one thread.
FairSpec == Spec /\ WF_vars(DrainDone) /\ WF_vars(Rules) /\ WF_vars(Broadcast)

----------------------------------------------------------------------------
(* Properties.                                                             *)

\* Every row and counter has the type its column has.
TypeOK ==
    /\ phase \in {"drain", "tick", "harvest", "harvest-rocks", "respawn-ship", "respawn-tick",
                  "maybe-revive", "wave-check", "spawn-tick", "sweep-stale", "broadcast", "panic"}
    /\ players \in SUBSET Session
    /\ ships \in SUBSET Ship
    /\ field \in PerClass /\ hit \in PerClass
    /\ bullets \in Nat /\ spent \in 0..bullets
    /\ game \in GameRow
    /\ lookup \in Nat

\* Find-or-join and the pid counter: no two sessions share a key or a pid, and
\* nextpid is above every pid handed out, so that no pid is ever reused.
SessionsDistinct ==
    /\ \A p, q \in players : p.key = q.key \/ p.pid = q.pid => p = q
    /\ \A p \in players : 0 < p.pid /\ p.pid < game.nextpid
    /\ 0 < game.nextpid

\* Two stores, one owner: between any two steps of the tick body every ship
\* belongs to a session, and a session has at most one ship.
ShipsOwned ==
    /\ \A s \in ships : \E p \in players : p.pid = s.owner
    /\ \A r, s \in ships : r.owner = s.owner => r = s

\* Once respawn-ship has run, a ship is dead exactly when its owner's session is
\* waiting for it: no death is missed, none is armed twice.
RespawnArmed ==
    /\ \A s \in ships : s.t = 1 => s.dead
    /\ \A s \in ships : s.t = 1 <=> \E p \in players : p.pid = s.owner /\ p.waiting
    /\ phase \notin {"harvest", "harvest-rocks", "respawn-ship"} =>
          \A s \in ships : s.dead => s.t = 1

\* The wave trigger's census is the number of rock rows, whichever inserts the
\* full store refused.
Census == game.rocks = Total(field)

\* What a rock is still worth when it and its children are shot.
Worth(f) == 620 * f.big + 300 * f.mid + 100 * f.small
\* Rocks armed by the waves so far.
Armed(w) == w * WaveBase + (w * (w - 1)) \div 2

\* Only rocks on the field are flagged: harvest-rocks never takes more than there is.
HitOnField == hit.big <= field.big /\ hit.mid <= field.mid /\ hit.small <= field.small

\* The world between any two steps of the tick body: sessions, their ships, the
\* deaths, and the census of the rocks agree.  It is what the proofs carry through
\* a step.
SimInv ==
    /\ TypeOK
    /\ SessionsDistinct
    /\ ShipsOwned
    /\ RespawnArmed
    /\ Census
    /\ HitOnField

\* Score is never minted: score, rocks on the field and rocks still to be dealt
\* together never exceed what the waves so far were worth.
ScoreBounded == game.score + Worth(field) + 620 * game.pending <= 620 * Armed(game.wave)

\* In this step the session pid joined, or its lseq went up.
Heard(pid) ==
    \E q \in players' : q.pid = pid /\ \A p \in players : p.pid = pid => q.lseq > p.lseq

\* A packet moves only the sender's own ship and only with fresh input: a
\* duplicate, a reordered packet or a refused join changes no ship, fires nothing.
FreshInputOnly ==
    [][phase = "drain" => /\ \A s \in ships \ ships' : Heard(s.owner)
                          /\ \A s \in ships' \ ships : Heard(s.owner)
                          /\ bullets' # bullets => ships' # ships]_vars

\* Within a session lseq and drops never go back and the key never changes.
SeqNeverBack ==
    [][\A p \in players, q \in players' : p.pid = q.pid =>
          q.key = p.key /\ q.lseq >= p.lseq /\ q.drops >= p.drops]_vars

\* The next wave is armed only when no rock is left and none is pending.
WaveOnEmptyField ==
    [][game'.wave # game.wave => field = NoRocks /\ game.pending = 0]_vars

\* No step of the tick body takes a liberty with a session or a wave: input moves
\* only its sender's ship and only when fresh, no session's counters go back, and
\* a wave is armed on an empty field only.
SimSteps == FreshInputOnly /\ SeqNeverBack /\ WaveOnEmptyField

\* drive and sweep-stale implement the abstract session service.
Open == {[pid |-> p.pid, key |-> p.key, last |-> p.lseq] : p \in players}
Sessions == INSTANCE AsteroidsSessions WITH open <- Open, issued <- game.nextpid,
                                        Seqs <- 0..MaxSeq
ImplementsSessions == Sessions!Spec

\* A dead ship's session does not wait for ever: it is revived or swept.
EventuallyRevived ==
    \A pid \in 1..MaxJoin :
        (\E p \in players : p.pid = pid /\ p.waiting)
            ~> ~(\E p \in players : p.pid = pid /\ p.waiting)

\* A client that falls silent loses its session, and with it its ship.
SilentIsSwept ==
    \A key \in Keys :
        <>[](\A p \in players : p.key = key => p.idle > 0)
            => <>[](\A p \in players : p.key # key)
=============================================================================
