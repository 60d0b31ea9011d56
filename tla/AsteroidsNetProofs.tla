------------------------- MODULE AsteroidsNetProofs -------------------------
(***************************************************************************)
(* Proofs about AsteroidsSim and AsteroidsNet, for every number of         *)
(* clients, every capacity, every timeout and every bound.  SimInv is      *)
(* inductive, and the simulation implements the sessions; over the wire,   *)
(* the gap count balances with the inputs applied, and no client takes     *)
(* another's ship for its own.                                             *)
(***************************************************************************)
EXTENDS AsteroidsNet, FiniteSetTheorems, TLAPS

----------------------------------------------------------------------------
(* The simulation: SimInv and what follows from it.                        *)

LEMMA InitInv == Init => SimInv
  <1> SUFFICES ASSUME Init PROVE SimInv
    OBVIOUS
  <1>1. TypeOK
    BY DEF Init, TypeOK, PerClass, NoRocks, GameRow
  <1>2. SessionsDistinct /\ ShipsOwned /\ RespawnArmed
    BY DEF Init, SessionsDistinct, ShipsOwned, RespawnArmed
  <1>3. Census /\ HitOnField
    BY DEF Init, Census, HitOnField, Total, NoRocks
  <1> QED
    BY <1>1, <1>2, <1>3 DEF SimInv

\* Fire changes nothing but the cooldown of ships of the pid it is given.
LEMMA FireLemma ==
  ASSUME NumAssumption, bullets \in Nat,
         NEW afloat \in SUBSET Ship, NEW pid, NEW pressed, Fire(pid, pressed, afloat)
  PROVE  /\ ships' \in SUBSET Ship
         /\ bullets' \in Nat /\ bullets' >= bullets
         /\ \A s \in ships' : \E o \in afloat : 
                /\ s.owner = o.owner /\ s.dead = o.dead /\ s.t = o.t
                /\ s # o => o.owner = pid
         /\ \A o \in afloat : \E s \in ships' : 
                /\ s.owner = o.owner /\ s.dead = o.dead /\ s.t = o.t
  <1> DEFINE free == Cardinality(afloat) + Total(field) + bullets < BodyCap
             guns == {s \in afloat : pressed /\ free /\ MayFire(s, pid)}
             Shot(s) == [s EXCEPT !.cd = CooldownTicks]
  <1>1. ships' = (afloat \ guns) \cup {Shot(s) : s \in guns}
    BY DEF Fire
  <1>2. \A s \in guns : /\ Shot(s) \in Ship /\ Shot(s).owner = s.owner
                        /\ Shot(s).dead = s.dead /\ Shot(s).t = s.t /\ s.owner = pid
    BY DEF Ship, NumAssumption, MayFire
  <1>3. bullets' \in Nat /\ bullets' >= bullets
    BY DEF Fire
  <1> HIDE DEF free, guns, Shot
  <1>4. guns \subseteq afloat
    BY DEF guns
  <1> QED
    BY <1>1, <1>2, <1>3, <1>4
\* What a step of the drain must do to the two stores for SimInv to survive:
\* sessions keep pid, key and waiting (one may be added under the next pid) and
\* the ships' identity and death do not change.
SessionsKept(old, new) ==
    /\ \A q \in new : \E p \in old : p.pid = q.pid /\ p.key = q.key /\ p.waiting = q.waiting
    /\ \A p \in old : \E q \in new : p.pid = q.pid /\ p.key = q.key /\ p.waiting = q.waiting
    /\ \A q, r \in new : q.pid = r.pid => q = r

ShipsKept(old, new) ==
    /\ \A s \in new : \E o \in old : s.owner = o.owner /\ s.dead = o.dead /\ s.t = o.t
    /\ \A o \in old : \E s \in new : s.owner = o.owner /\ s.dead = o.dead /\ s.t = o.t
    /\ \A r, s \in new : r.owner = s.owner => r = s

LEMMA FireKeeps ==
  ASSUME NumAssumption, bullets \in Nat,
         NEW afloat \in SUBSET Ship, NEW pid, NEW pressed, Fire(pid, pressed, afloat),
         \A r, s \in afloat : r.owner = s.owner => r = s
  PROVE  ShipsKept(afloat, ships')
  <1> DEFINE free == Cardinality(afloat) + Total(field) + bullets < BodyCap
             guns == {s \in afloat : pressed /\ free /\ MayFire(s, pid)}
             Shot(s) == [s EXCEPT !.cd = CooldownTicks]
  <1>1. ships' = (afloat \ guns) \cup {Shot(s) : s \in guns}
    BY DEF Fire
  <1>2. \A s \in guns : /\ Shot(s).owner = s.owner
                        /\ Shot(s).dead = s.dead /\ Shot(s).t = s.t
    BY DEF Ship
  <1> HIDE DEF free, Shot
  <1>3. guns \subseteq afloat
    BY DEF guns
  <1> HIDE DEF guns
  <1>4. \A r, s \in ships' : r.owner = s.owner => r = s
    <2> SUFFICES ASSUME NEW r \in ships', NEW s \in ships', r.owner = s.owner PROVE r = s
      OBVIOUS
    <2>1. PICK a \in afloat : /\ a.owner = r.owner
            /\ \/ r = a /\ a \notin guns
               \/ a \in guns /\ r = Shot(a)
      BY <1>1, <1>2, <1>3
    <2>2. PICK b \in afloat : /\ b.owner = s.owner
            /\ \/ s = b /\ b \notin guns
               \/ b \in guns /\ s = Shot(b)
      BY <1>1, <1>2, <1>3
    <2>3. a = b
      BY <2>1, <2>2
    <2> QED
      BY <2>1, <2>2, <2>3
  <1> QED
    BY <1>1, <1>2, <1>3, <1>4 DEF ShipsKept

\* A step that keeps sessions, ships, rocks and the pid counter keeps SimInv.
LEMMA KeptInv ==
  ASSUME SimInv, phase = "drain", TypeOK', phase' \in {"drain", "tick"},
         SessionsKept(players, players'), ShipsKept(ships, ships'),
         UNCHANGED <<field, hit, game>>
  PROVE  SimInv'
  <1> USE DEF SimInv
  <1>1. SessionsDistinct'
    BY DEF SessionsDistinct, SessionsKept, TypeOK, Session
  <1>2. ShipsOwned'
    BY DEF ShipsOwned, SessionsKept, ShipsKept, TypeOK
  <1>3. RespawnArmed'
    BY DEF RespawnArmed, SessionsKept, ShipsKept, TypeOK
  <1>4. Census' /\ HitOnField'
    BY DEF Census, HitOnField, Total
  <1> QED
    BY <1>1, <1>2, <1>3, <1>4

LEMMA DriveFreshInv ==
  ASSUME NumAssumption, SimInv, phase = "drain", NEW key \in Keys, NEW seq \in 0..MaxSeq,
         NEW firing \in BOOLEAN, DriveFresh(key, seq, firing), UNCHANGED <<phase, field, hit, spent>>
  PROVE  SimInv'
  <1> PICK p \in players :
        /\ p.key = key /\ seq > p.lseq
        /\ players' = (players \ {p}) \cup
               {[p EXCEPT !.idle = 0, !.lseq = seq, !.drops = @ + (seq - p.lseq - 1)]}
        /\ Fire(p.pid, firing, ships)
        /\ UNCHANGED <<game, lookup>>
    BY DEF DriveFresh, Fresh, DropsWith
  <1> DEFINE q == [p EXCEPT !.idle = 0, !.lseq = seq, !.drops = @ + (seq - p.lseq - 1)]
  <1>0. p \in Session
    BY DEF SimInv, TypeOK
  <1>1. q \in Session /\ q.pid = p.pid /\ q.key = p.key /\ q.waiting = p.waiting
    <2>1. p.drops + (seq - p.lseq - 1) \in Nat /\ seq \in Nat /\ 0 \in 0..(StaleTicks + 1)
      BY <1>0, NumAssumption DEF Session, NumAssumption
    <2> QED
      BY <1>0, <2>1 DEF Session
  <1>2. ships' \in SUBSET Ship /\ bullets' \in Nat /\ bullets' >= bullets
    BY FireLemma DEF SimInv, TypeOK
  <1>3. ShipsKept(ships, ships')
    BY FireKeeps DEF SimInv, TypeOK, ShipsOwned
  <1> HIDE DEF q
  <1>4. players' = (players \ {p}) \cup {q}
    BY DEF q
  <1>5. SessionsKept(players, players')
    BY <1>1, <1>4 DEF SimInv, SessionsDistinct, SessionsKept
  <1>6. TypeOK'
    BY <1>1, <1>2, <1>4 DEF SimInv, TypeOK
  <1> QED
    BY <1>3, <1>5, <1>6, KeptInv

LEMMA DriveOldInv ==
  ASSUME NumAssumption, SimInv, phase = "drain", NEW key \in Keys, NEW seq \in 0..MaxSeq,
         DriveOld(key, seq), UNCHANGED <<phase, field, hit, spent>>
  PROVE  SimInv'
  <1> PICK p \in players :
        /\ p.key = key /\ ~Fresh(p, seq)
        /\ players' = (players \ {p}) \cup {[p EXCEPT !.idle = 0]}
        /\ UNCHANGED <<ships, bullets, game, lookup>>
    BY DEF DriveOld
  <1> DEFINE q == [p EXCEPT !.idle = 0]
  <1>0. p \in Session /\ 0 \in 0..(StaleTicks + 1)
    BY NumAssumption DEF SimInv, TypeOK, NumAssumption
  <1>1. q \in Session /\ q.pid = p.pid /\ q.key = p.key /\ q.waiting = p.waiting
    BY <1>0 DEF Session
  <1>2. players' = (players \ {p}) \cup {q}
    OBVIOUS
  <1> HIDE DEF q
  <1>3. SessionsKept(players, players')
    BY <1>1, <1>2 DEF SimInv, SessionsDistinct, SessionsKept
  <1>4. ShipsKept(ships, ships')
    BY DEF SimInv, ShipsOwned, ShipsKept
  <1>5. TypeOK'
    BY <1>1, <1>2 DEF SimInv, TypeOK
  <1> QED
    BY <1>3, <1>4, <1>5, KeptInv

\* The join path: the new session takes the next pid, which no row uses yet.
LEMMA DriveJoinInv ==
  ASSUME NumAssumption, SimInv, phase = "drain", NEW key \in Keys, NEW seq \in 0..MaxSeq,
         NEW firing \in BOOLEAN, DriveJoin(key, seq, firing), UNCHANGED <<phase, field, hit, spent>>
  PROVE  SimInv'
  <1>1. CASE Cardinality(players) < PlayerCap
    <2> DEFINE n == game.nextpid
               new == NewSession(key, seq)
               afloat == WithShip(n)
    <2>1. /\ players' = players \cup {new}
          /\ lookup' = n
          /\ game' = [game EXCEPT !.nextpid = @ + 1]
          /\ Fire(n, firing, afloat)
          /\ \A p \in players : p.key # key
      BY <1>1 DEF DriveJoin
    <2>2. n \in Nat /\ game' \in GameRow /\ game'.rocks = game.rocks /\ game'.nextpid = n + 1
      BY <2>1 DEF SimInv, TypeOK, GameRow
    <2>3. new \in Session /\ new.pid = n /\ new.key = key /\ new.waiting = FALSE
      <3>1. 0 \in 0..(StaleTicks + 1) /\ 0 \in 0..RespawnTicks /\ seq \in Nat
        BY NumAssumption DEF NumAssumption
      <3> QED
        BY <2>2, <3>1 DEF NewSession, Session
    <2>4. NewShip(n) \in Ship /\ NewShip(n).owner = n /\ NewShip(n).dead = FALSE /\ NewShip(n).t = 0
      <3>1. InvulnTicks \in 0..InvulnTicks /\ 0 \in 0..CooldownTicks
        BY NumAssumption DEF NumAssumption
      <3> QED
        BY <2>2, <3>1 DEF NewShip, Ship
    <2>5. 0 < n /\ \A p \in players : p.pid < n /\ p.pid \in Nat
      <3>1. 0 < n
        BY DEF SimInv, SessionsDistinct
      <3> QED
        BY <2>2, <3>1 DEF SimInv, SessionsDistinct, TypeOK, Session
    <2>6. afloat \subseteq ships \cup {NewShip(n)} /\ ships \subseteq afloat
      BY DEF WithShip
    <2> HIDE DEF n, new, afloat
    <2>7. \A s \in ships : s.owner # n
      BY <2>2, <2>5 DEF SimInv, ShipsOwned
    <2>8. afloat \in SUBSET Ship /\ \A r, s \in afloat : r.owner = s.owner => r = s
      BY <2>4, <2>6, <2>7 DEF SimInv, TypeOK, ShipsOwned
    <2>9. ShipsKept(afloat, ships')
      BY <2>1, <2>8, FireKeeps DEF SimInv, TypeOK
    <2>10. ships' \in SUBSET Ship /\ bullets' \in Nat /\ bullets' >= bullets
      BY <2>1, <2>8, FireLemma DEF SimInv, TypeOK
    <2>11. TypeOK'
      BY <2>1, <2>2, <2>3, <2>10 DEF SimInv, TypeOK
    <2>12. SessionsDistinct'
      BY <2>1, <2>2, <2>3, <2>5 DEF SimInv, SessionsDistinct
    <2>13. ShipsOwned'
      BY <2>1, <2>3, <2>4, <2>6, <2>9 DEF SimInv, ShipsOwned, ShipsKept
    <2>14. RespawnArmed'
      <3>1. \A s \in afloat : s.dead => s.t = 1 
        BY <2>4, <2>6 DEF SimInv, RespawnArmed
      <3>2. \A s \in afloat : s.t = 1 => s.dead
        BY <2>4, <2>6 DEF SimInv, RespawnArmed
      <3>3. \A s \in afloat : s.t = 1 <=> \E p \in players' : p.pid = s.owner /\ p.waiting
        BY <2>1, <2>3, <2>4, <2>5, <2>6, <2>7 DEF SimInv, RespawnArmed
      <3> QED
        BY <3>1, <3>2, <3>3, <2>9 DEF RespawnArmed, ShipsKept
    <2> QED
      BY <2>2, <2>11, <2>12, <2>13, <2>14 DEF SimInv, Census, HitOnField, Total
  <1>2. CASE ~(Cardinality(players) < PlayerCap)
    <2>1. lookup' = 0 /\ UNCHANGED <<players, game>> /\ Fire(0, FALSE, ships)
      BY <1>2 DEF DriveJoin, Fire
    <2>2. ships' = ships /\ bullets' = bullets
      BY <2>1 DEF Fire
    <2>3. SimInv' = SimInv
      BY <2>1, <2>2 DEF SimInv, TypeOK, SessionsDistinct, ShipsOwned, RespawnArmed, Census, HitOnField, Total
    <2> QED
      BY <2>3
  <1> QED
    BY <1>1, <1>2

\* Ageing the sessions keeps who they are.
LEMMA AgedKeeps ==
  ASSUME NumAssumption, SimInv
  PROVE  Aged \in SUBSET Session /\ SessionsKept(players, Aged)
  <1> DEFINE A(p) == [p EXCEPT !.idle = Older(@)]
  <1>1. Aged = {A(p) : p \in players}
    BY DEF Aged
  <1>2. \A p \in players : /\ A(p) \in Session
                           /\ A(p).pid = p.pid /\ A(p).key = p.key /\ A(p).waiting = p.waiting
    <2> SUFFICES ASSUME NEW p \in players
                 PROVE  /\ A(p) \in Session
                        /\ A(p).pid = p.pid /\ A(p).key = p.key /\ A(p).waiting = p.waiting
      OBVIOUS
    <2>1. p \in Session
      BY DEF SimInv, TypeOK
    <2>2. Older(p.idle) \in 0..(StaleTicks + 1)
      BY <2>1, NumAssumption DEF Session, Older, NumAssumption
    <2> QED
      BY <2>1, <2>2 DEF Session
  <1> HIDE DEF A
  <1> QED
    BY <1>1, <1>2 DEF SimInv, SessionsDistinct, SessionsKept

\* Leaving, failing or re-entering the drain.
LEMMA DrainInv ==
  ASSUME NumAssumption, SimInv, DrainDone \/ DrainErr \/ Broadcast
  PROVE  SimInv'
  <1>1. /\ players' = players \/ players' = Aged
        /\ UNCHANGED <<ships, field, hit, bullets, spent, game, lookup>>
        /\ phase \in {"drain", "broadcast"} /\ phase' \in {"drain", "tick", "panic"}
    BY DEF DrainDone, DrainErr, Broadcast
  <1>2. players' \in SUBSET Session /\ SessionsKept(players, players')
    BY <1>1, AgedKeeps DEF SimInv, TypeOK, SessionsDistinct, SessionsKept
  <1>3. TypeOK'
    BY <1>1, <1>2 DEF SimInv, TypeOK
  <1>4. SessionsDistinct'
    BY <1>1, <1>2 DEF SimInv, SessionsDistinct, SessionsKept, TypeOK, Session
  <1>5. ShipsOwned' /\ RespawnArmed'
    BY <1>1, <1>2 DEF SimInv, ShipsOwned, RespawnArmed, SessionsKept
  <1> QED
    BY <1>1, <1>3, <1>4, <1>5 DEF SimInv, Census, HitOnField

LEMMA DecayBound == \A max \in Nat : \A n \in 0..max : Decay(n) \in 0..max
  BY DEF Decay

LEMMA TickInv ==
  ASSUME NumAssumption, SimInv, Tick
  PROVE  SimInv'
  <1>0. PICK n \in 0..bullets, h \in [big : 0..field.big, mid : 0..field.mid, small : 0..field.small],
           rammed \in SUBSET {s \in ships : Decay(s.inv) = 0} :
        /\ spent' = n /\ hit' = h
        /\ ships' = {[s EXCEPT !.inv = Decay(@), !.cd = Decay(@), !.dead = @ \/ s \in rammed] :
                        s \in ships}
    BY DEF Tick
  <1> DEFINE D(s) == [s EXCEPT !.inv = Decay(@), !.cd = Decay(@), !.dead = @ \/ s \in rammed]
  <1>1. \A s \in ships : D(s) \in Ship /\ D(s).owner = s.owner /\ D(s).t = s.t /\ (s.dead => D(s).dead)
    <2> SUFFICES ASSUME NEW s \in ships
                 PROVE  D(s) \in Ship /\ D(s).owner = s.owner /\ D(s).t = s.t /\ (s.dead => D(s).dead)
      OBVIOUS
    <2>1. s \in Ship
      BY DEF SimInv, TypeOK
    <2>2. Decay(s.inv) \in 0..InvulnTicks /\ Decay(s.cd) \in 0..CooldownTicks
      <3>1. s.inv \in 0..InvulnTicks /\ s.cd \in 0..CooldownTicks
        BY <2>1 DEF Ship
      <3> QED
        BY <3>1, DecayBound, NumAssumption DEF NumAssumption
    <2>3. (s.dead \/ s \in rammed) \in BOOLEAN
      OBVIOUS
    <2> QED
      BY <2>1, <2>2, <2>3 DEF Ship
  <1>2. ships' = {D(s) : s \in ships}
    BY <1>0
  <1> HIDE DEF D
  <1>3. phase = "tick" /\ phase' = "harvest" /\ UNCHANGED <<players, field, bullets, game, lookup>>
    BY DEF Tick
  <1>4. hit' \in PerClass /\ HitOnField'
    <2>1. field \in PerClass
      BY DEF SimInv, TypeOK
    <2>2. h \in PerClass /\ h.big <= field.big /\ h.mid <= field.mid /\ h.small <= field.small
      BY <2>1 DEF PerClass
    <2> QED
      BY <1>0, <1>3, <2>2 DEF HitOnField
  <1>5. TypeOK'
    <2>1. spent' \in 0..bullets
      BY <1>0
    <2> QED
      BY <1>1, <1>2, <1>3, <1>4, <2>1 DEF SimInv, TypeOK
  <1>6. SessionsDistinct' /\ Census'
    BY <1>3 DEF SimInv, SessionsDistinct, Census
  <1>7. ShipsOwned'
    <2>1. \A s \in ships' : \E o \in ships : s = D(o) /\ s.owner = o.owner
      BY <1>1, <1>2
    <2> QED
      BY <1>3, <2>1 DEF SimInv, ShipsOwned
  <1>8. RespawnArmed'
    <2>1. \A s \in ships' : \E o \in ships : s.owner = o.owner /\ s.t = o.t /\ (o.dead => s.dead)
      BY <1>1, <1>2
    <2>2. phase' = "harvest" /\ players' = players
      BY <1>3
    <2>3. \A s \in ships : s.t = 1 => s.dead
      BY DEF SimInv, RespawnArmed
    <2>4. \A s \in ships : s.t = 1 <=> \E p \in players : p.pid = s.owner /\ p.waiting
      BY DEF SimInv, RespawnArmed
    <2> QED
      BY <2>1, <2>2, <2>3, <2>4 DEF RespawnArmed
  <1> QED
    BY <1>4, <1>5, <1>6, <1>7, <1>8 DEF SimInv

LEMMA HarvestInv ==
  ASSUME NumAssumption, SimInv, Harvest \/ RocksDone
  PROVE  SimInv'
  <1>1. /\ UNCHANGED <<players, ships, field, hit, game, lookup>>
        /\ bullets' \in Nat /\ spent' \in 0..bullets'
        /\ \/ phase = "harvest" /\ phase' = "harvest-rocks"
           \/ phase = "harvest-rocks" /\ phase' = "respawn-ship"
    BY DEF Harvest, RocksDone, SimInv, TypeOK
  <1>2. TypeOK'
    BY <1>1 DEF SimInv, TypeOK
  <1> QED
    BY <1>1, <1>2 DEF SimInv, SessionsDistinct, ShipsOwned, RespawnArmed, Census, HitOnField

\* A rock that is taken leaves at most two children, whatever room there is.
LEMMA ChildrenBound ==
  ASSUME NEW class, NEW room
  PROVE  Children(class, room) \in 0..2 /\ (class = "small" => Children(class, room) = 0)
  BY DEF Children, Radius, ChildMinR

LEMMA HarvestRockInv ==
  ASSUME NumAssumption, SimInv, HarvestRock
  PROVE  SimInv'
  <1>1. PICK class \in {"big", "mid", "small"} :
            /\ hit[class] > 0
            /\ LET n == Children(class, BodyCap - (Bodies - 1))
               IN  /\ field' = IF n = 0 THEN [field EXCEPT ![class] = @ - 1]
                               ELSE [field EXCEPT ![class] = @ - 1, ![ChildClass[class]] = @ + n]
                   /\ hit' = [hit EXCEPT ![class] = @ - 1]
                   /\ game' = [game EXCEPT !.score = @ + Points(class), !.rocks = @ + CensusChange(n)]
    BY DEF HarvestRock, CensusChange
  <1> DEFINE n == Children(class, BodyCap - (Bodies - 1))
  <1>2. n \in 0..2 /\ (class = "small" => n = 0)
    BY ChildrenBound
  <1>3. /\ field' = IF n = 0 THEN [field EXCEPT ![class] = @ - 1]
                    ELSE [field EXCEPT ![class] = @ - 1, ![ChildClass[class]] = @ + n]
        /\ game' = [game EXCEPT !.score = @ + Points(class), !.rocks = @ + CensusChange(n)]
        /\ hit' = [hit EXCEPT ![class] = @ - 1]
        /\ hit[class] > 0
    BY <1>1
  <1> HIDE DEF n
  <1>4. field \in PerClass /\ hit \in PerClass /\ game \in GameRow
    BY DEF SimInv, TypeOK
  <1>5. hit.big <= field.big /\ hit.mid <= field.mid /\ hit.small <= field.small
    BY DEF SimInv, HitOnField
  <1>0. game' \in GameRow /\ game'.rocks = game.rocks + n - 1 /\ game'.nextpid = game.nextpid
    <2> DEFINE pts == Points(class)
    <2>1. pts \in Nat
      BY <1>1 DEF Points, Radius, ChildMinR
    <2>2. game' = [game EXCEPT !.score = @ + pts, !.rocks = @ + CensusChange(n)]
      BY <1>3
    <2> HIDE DEF pts
    <2>3. game.score + pts \in Nat /\ game.rocks + n - 1 \in Int
      BY <1>2, <1>4, <2>1 DEF GameRow
    <2> QED
      BY <1>4, <2>2, <2>3 DEF GameRow, CensusChange
  <1>6. hit' \in PerClass /\ field' \in PerClass /\ HitOnField'
        /\ Total(field') = Total(field) + n - 1
    <2>1. CASE class = "big"
      BY <1>2, <1>3, <1>4, <1>5, <2>1 DEF PerClass, ChildClass, Total, HitOnField
    <2>2. CASE class = "mid"
      BY <1>2, <1>3, <1>4, <1>5, <2>2 DEF PerClass, ChildClass, Total, HitOnField
    <2>3. CASE class = "small"
      BY <1>2, <1>3, <1>4, <1>5, <2>3 DEF PerClass, Total, HitOnField
    <2> QED
      BY <2>1, <2>2, <2>3
  <1>7. phase = "harvest-rocks" /\ UNCHANGED <<phase, players, ships, bullets, spent, lookup>>
    BY DEF HarvestRock, CensusChange
  <1>8. TypeOK'
    BY <1>0, <1>6, <1>7 DEF SimInv, TypeOK
  <1>9. Census'
    <2>1. Total(field) \in Int /\ game.rocks = Total(field)
      BY <1>4 DEF SimInv, Census, Total, PerClass
    <2> QED
      BY <1>0, <1>2, <1>6, <2>1 DEF Census
  <1>10. SessionsDistinct' /\ ShipsOwned' /\ RespawnArmed'
    BY <1>0, <1>7 DEF SimInv, SessionsDistinct, ShipsOwned, RespawnArmed
  <1> QED
    BY <1>6, <1>8, <1>9, <1>10 DEF SimInv

\* arm-respawn: the ships marked as processed are those whose sessions now wait.
LEMMA RespawnShipInv ==
  ASSUME NumAssumption, SimInv, RespawnShip
  PROVE  SimInv'
  <1> DEFINE Down(p) == \E s \in ships : Fallen(s) /\ s.owner = p.pid
             P(p) == IF Down(p) THEN [p EXCEPT !.rt = RespawnTicks, !.waiting = TRUE] ELSE p
             S(s) == IF Fallen(s) THEN [s EXCEPT !.t = 1] ELSE s
  <1>1. /\ players' = {P(p) : p \in players} /\ ships' = {S(s) : s \in ships}
        /\ phase = "respawn-ship" /\ phase' = "respawn-tick"
        /\ UNCHANGED <<field, hit, bullets, spent, game, lookup>>
    BY DEF RespawnShip
  <1>2. \A p \in players : /\ P(p) \in Session /\ P(p).pid = p.pid /\ P(p).key = p.key
                           /\ P(p).waiting <=> (p.waiting \/ Down(p))
    <2> SUFFICES ASSUME NEW p \in players
                 PROVE  /\ P(p) \in Session /\ P(p).pid = p.pid /\ P(p).key = p.key
                        /\ P(p).waiting <=> (p.waiting \/ Down(p))
      OBVIOUS
    <2>1. p \in Session /\ RespawnTicks \in 0..RespawnTicks
      BY NumAssumption DEF SimInv, TypeOK, NumAssumption
    <2>2. CASE Down(p)
      <3> DEFINE q == [p EXCEPT !.rt = RespawnTicks, !.waiting = TRUE]
      <3>1. P(p) = q
        BY <2>2
      <3>2. q \in Session /\ q.pid = p.pid /\ q.key = p.key /\ q.waiting = TRUE
        BY <2>1 DEF Session
      <3> QED
        BY <3>1, <3>2, <2>2
    <2>3. CASE ~Down(p)
      BY <2>1, <2>3
    <2> QED
      BY <2>2, <2>3
  <1>3. \A s \in ships : /\ S(s) \in Ship /\ S(s).owner = s.owner /\ S(s).dead = s.dead
                         /\ S(s).t = IF s.dead THEN 1 ELSE s.t
    <2> SUFFICES ASSUME NEW s \in ships
                 PROVE  /\ S(s) \in Ship /\ S(s).owner = s.owner /\ S(s).dead = s.dead
                        /\ S(s).t = IF s.dead THEN 1 ELSE s.t
      OBVIOUS
    <2>1. s \in Ship
      BY DEF SimInv, TypeOK
    <2> QED
      BY <2>1 DEF Ship, Fallen
  <1>4. \A s \in ships, p \in players : s.owner = p.pid => (Down(p) <=> Fallen(s))
    BY DEF SimInv, ShipsOwned
  <1> HIDE DEF Down, P, S
  <1>5. TypeOK'
    BY <1>1, <1>2, <1>3 DEF SimInv, TypeOK
  <1>6. SessionsDistinct'
    BY <1>1, <1>2 DEF SimInv, SessionsDistinct
  <1>7. ShipsOwned'
    BY <1>1, <1>2, <1>3 DEF SimInv, ShipsOwned
  <1>8. RespawnArmed'
    <2>1. \A s \in ships' : s.dead => s.t = 1
      BY <1>1, <1>3
    <2>2. \A s \in ships : s.t = 1 => s.dead
      BY DEF SimInv, RespawnArmed
    <2>3. \A s \in ships' : s.t = 1 => s.dead
      BY <1>1, <1>3, <2>2
    <2>4. \A s \in ships : \E p \in players : p.pid = s.owner
      BY DEF SimInv, ShipsOwned
    <2>5. \A p, q \in players : p.pid = q.pid => p = q
      BY DEF SimInv, SessionsDistinct
    <2>6. \A s \in ships : s.t = 1 <=> \E p \in players : p.pid = s.owner /\ p.waiting
      BY DEF SimInv, RespawnArmed
    <2>7. \A s \in ships : S(s).t = 1 <=> (s.t = 1 \/ Fallen(s))
      BY <1>3, <2>2 DEF Fallen, SimInv, TypeOK, Ship
    <2>8. \A s \in ships : \A p \in players :
             p.pid = s.owner => (S(s).t = 1 <=> P(p).waiting)
      BY <1>2, <1>4, <2>5, <2>6, <2>7
    <2>9. \A s \in ships' : s.t = 1 <=> \E p \in players' : p.pid = s.owner /\ p.waiting
      BY <1>1, <1>2, <1>3, <2>4, <2>8
    <2> QED
      BY <2>1, <2>3, <2>9 DEF RespawnArmed
  <1> QED
    BY <1>1, <1>5, <1>6, <1>7, <1>8 DEF SimInv, Census, HitOnField

LEMMA RespawnTickInv ==
  ASSUME NumAssumption, SimInv, RespawnTick
  PROVE  SimInv'
  <1> DEFINE P(p) == [p EXCEPT !.rt = Decay(@)]
  <1>1. /\ players' = {P(p) : p \in players}
        /\ phase = "respawn-tick" /\ phase' = "maybe-revive"
        /\ UNCHANGED <<ships, field, hit, bullets, spent, game, lookup>>
    BY DEF RespawnTick
  <1>2. \A p \in players : /\ P(p) \in Session /\ P(p).pid = p.pid /\ P(p).key = p.key
                           /\ P(p).waiting = p.waiting
    <2> SUFFICES ASSUME NEW p \in players
                 PROVE  /\ P(p) \in Session /\ P(p).pid = p.pid /\ P(p).key = p.key
                        /\ P(p).waiting = p.waiting
      OBVIOUS
    <2>1. p \in Session
      BY DEF SimInv, TypeOK
    <2>2. p.rt \in 0..RespawnTicks
      BY <2>1 DEF Session
    <2>3. Decay(p.rt) \in 0..RespawnTicks
      BY <2>2, DecayBound, NumAssumption DEF NumAssumption
    <2> QED
      BY <2>1, <2>3 DEF Session
  <1> HIDE DEF P
  <1>3. TypeOK'
    BY <1>1, <1>2 DEF SimInv, TypeOK
  <1>4. SessionsDistinct' /\ ShipsOwned'
    BY <1>1, <1>2 DEF SimInv, SessionsDistinct, ShipsOwned
  <1>5. RespawnArmed'
    BY <1>1, <1>2 DEF SimInv, RespawnArmed
  <1> QED
    BY <1>1, <1>3, <1>4, <1>5 DEF SimInv, Census, HitOnField

\* A revived ship is live again and its session no longer waits, both at once.
LEMMA MaybeReviveInv ==
  ASSUME NumAssumption, SimInv, MaybeRevive
  PROVE  SimInv'
  <1> DEFINE Up(s) == s.dead /\ \E p \in players : Due(p) /\ p.pid = s.owner
             P(p) == IF Due(p) THEN [p EXCEPT !.waiting = FALSE] ELSE p
             S(s) == IF Up(s) THEN NewShip(s.owner) ELSE s
  <1>1. /\ players' = {P(p) : p \in players} /\ ships' = {S(s) : s \in ships}
        /\ phase = "maybe-revive" /\ phase' = "wave-check"
        /\ UNCHANGED <<field, hit, bullets, spent, game, lookup>>
    BY DEF MaybeRevive
  <1>2. \A p \in players : /\ P(p) \in Session /\ P(p).pid = p.pid /\ P(p).key = p.key
                           /\ P(p).waiting <=> (p.waiting /\ ~Due(p))
    BY DEF SimInv, TypeOK, Session, Due
  <1>3. \A s \in ships : /\ S(s) \in Ship /\ S(s).owner = s.owner
                         /\ S(s).dead <=> (s.dead /\ ~Up(s))
                         /\ S(s).t = IF Up(s) THEN 0 ELSE s.t
    <2> SUFFICES ASSUME NEW s \in ships
                 PROVE  /\ S(s) \in Ship /\ S(s).owner = s.owner
                        /\ S(s).dead <=> (s.dead /\ ~Up(s))
                        /\ S(s).t = IF Up(s) THEN 0 ELSE s.t
      OBVIOUS
    <2>1. s \in Ship /\ InvulnTicks \in 0..InvulnTicks /\ 0 \in 0..CooldownTicks
      BY NumAssumption DEF SimInv, TypeOK, NumAssumption
    <2>2. CASE Up(s)
      BY <2>1, <2>2 DEF Ship, NewShip
    <2>3. CASE ~Up(s)
      BY <2>1, <2>3
    <2> QED
      BY <2>2, <2>3
  <1>4. \A s \in ships : s.t = 1 => s.dead
    BY DEF SimInv, RespawnArmed
  <1>5. \A s \in ships : s.dead => s.t = 1
    BY <1>1 DEF SimInv, RespawnArmed
  <1>6. \A p, q \in players : p.pid = q.pid => p = q
    BY DEF SimInv, SessionsDistinct
  <1>7. \A s \in ships : s.t = 1 <=> \E p \in players : p.pid = s.owner /\ p.waiting
    BY DEF SimInv, RespawnArmed
  <1>8. \A s \in ships : \A p \in players : p.pid = s.owner => (Up(s) <=> s.dead /\ Due(p))
    BY <1>6
  <1> HIDE DEF Up, P, S
  <1>9. TypeOK'
    BY <1>1, <1>2, <1>3 DEF SimInv, TypeOK
  <1>10. SessionsDistinct'
    BY <1>1, <1>2 DEF SimInv, SessionsDistinct
  <1>11. ShipsOwned'
    BY <1>1, <1>2, <1>3 DEF SimInv, ShipsOwned
  <1>12. RespawnArmed'
    <2>1. \A s \in ships' : s.t = 1 <=> s.dead
      BY <1>1, <1>3, <1>4, <1>5
    <2>2. \A s \in ships : \E p \in players : p.pid = s.owner
      BY DEF SimInv, ShipsOwned
    <2>3. \A s \in ships : \A p \in players :
             p.pid = s.owner => (S(s).dead <=> P(p).waiting)
      BY <1>2, <1>3, <1>4, <1>5, <1>6, <1>7, <1>8 DEF Due
    <2>4. \A s \in ships' : s.dead <=> \E p \in players' : p.pid = s.owner /\ p.waiting
      BY <1>1, <1>2, <1>3, <2>2, <2>3
    <2> QED
      BY <2>1, <2>4 DEF RespawnArmed
  <1> QED
    BY <1>1, <1>9, <1>10, <1>11, <1>12 DEF SimInv, Census, HitOnField

\* The steps that only deal rocks.
LEMMA DealInv ==
  ASSUME NumAssumption, SimInv, WaveCheck \/ SpawnTick
  PROVE  SimInv'
  <1>1. /\ UNCHANGED <<players, ships, hit, bullets, spent, lookup>>
        /\ \/ phase = "wave-check" /\ phase' = "spawn-tick"
           \/ phase = "spawn-tick" /\ phase' = "sweep-stale"
    BY DEF WaveCheck, SpawnTick
  <1>2. field \in PerClass /\ game \in GameRow
    BY DEF SimInv, TypeOK
  <1>3. /\ field' \in PerClass /\ game' \in GameRow
        /\ game'.nextpid = game.nextpid
        /\ game'.rocks - game.rocks = Total(field') - Total(field)
        /\ field'.big >= field.big /\ field'.mid = field.mid /\ field'.small = field.small
    <2>1. CASE WaveCheck
      <3>1. field' = field /\ game'.rocks = game.rocks /\ game'.nextpid = game.nextpid
        BY <1>2, <2>1 DEF WaveCheck, GameRow
      <3>2. game' \in GameRow
        <4>1. game.wave + 1 \in Nat /\ game.wave + WaveBase \in Nat
          BY <1>2, NumAssumption DEF GameRow, NumAssumption
        <4>2. game' = game \/ game' = [game EXCEPT !.wave = @ + 1, !.pending = game.wave + WaveBase]
          BY <2>1 DEF WaveCheck
        <4> QED
          BY <1>2, <4>1, <4>2 DEF GameRow
      <3> QED
        BY <1>2, <3>1, <3>2 DEF Total, PerClass, GameRow
    <2>2. CASE SpawnTick
      <3>1. CASE game.pending > 0 /\ Bodies < BodyCap
        <4>1. /\ field' = [field EXCEPT !.big = @ + 1]
              /\ game' = [game EXCEPT !.pending = @ - 1, !.rocks = @ + 1]
          BY <2>2, <3>1 DEF SpawnTick
        <4>2. game.pending - 1 \in Nat /\ game.rocks + 1 \in Int
          BY <1>2, <3>1 DEF GameRow
        <4>3. game' \in GameRow /\ game'.nextpid = game.nextpid /\ game'.rocks = game.rocks + 1
          BY <1>2, <4>1, <4>2 DEF GameRow
        <4>4. field' \in PerClass /\ field'.big = field.big + 1
              /\ field'.mid = field.mid /\ field'.small = field.small
          BY <1>2, <4>1 DEF PerClass
        <4> QED
          BY <1>2, <4>3, <4>4 DEF Total, PerClass, GameRow
      <3>2. CASE ~(game.pending > 0 /\ Bodies < BodyCap)
        BY <1>2, <2>2, <3>2 DEF SpawnTick, Total, PerClass, GameRow
      <3> QED
        BY <3>1, <3>2
    <2> QED
      BY <2>1, <2>2
  <1>4. TypeOK'
    BY <1>1, <1>3 DEF SimInv, TypeOK
  <1>5. Census' /\ HitOnField'
    BY <1>1, <1>2, <1>3 DEF SimInv, TypeOK, Census, HitOnField, PerClass, GameRow, Total
  <1>6. SessionsDistinct' /\ ShipsOwned' /\ RespawnArmed'
    BY <1>1, <1>3 DEF SimInv, SessionsDistinct, ShipsOwned, RespawnArmed
  <1> QED
    BY <1>4, <1>5, <1>6 DEF SimInv

\* A swept session takes its ship along.
LEMMA SweepStaleInv ==
  ASSUME NumAssumption, SimInv, SweepStale
  PROVE  SimInv'
  <1> DEFINE gone == {p \in players : p.idle > StaleTicks}
  <1>1. /\ players' = players \ gone
        /\ ships' = {s \in ships : \A p \in gone : p.pid # s.owner}
        /\ phase = "sweep-stale" /\ phase' = "broadcast"
        /\ UNCHANGED <<field, hit, bullets, spent, game, lookup>>
    BY DEF SweepStale, Stale, ShipsWithout
  <1> HIDE DEF gone
  <1>2. TypeOK'
    BY <1>1 DEF SimInv, TypeOK
  <1>3. SessionsDistinct'
    BY <1>1 DEF SimInv, SessionsDistinct
  <1>4. ShipsOwned'
    BY <1>1 DEF SimInv, ShipsOwned
  <1>5. RespawnArmed'
    BY <1>1 DEF SimInv, RespawnArmed
  <1> QED
    BY <1>1, <1>2, <1>3, <1>4, <1>5 DEF SimInv, Census, HitOnField

LEMMA NextInv ==
  ASSUME NumAssumption, SimInv, [Next]_vars
  PROVE  SimInv'
  <1>1. ASSUME NEW key \in Keys, NEW seq \in 0..MaxSeq, NEW firing \in BOOLEAN,
               Drive(key, seq, firing)
        PROVE  SimInv'
    BY <1>1, DriveFreshInv, DriveOldInv, DriveJoinInv DEF Drive
  <1>2. CASE DrainDone \/ DrainErr \/ Broadcast
    BY <1>2, DrainInv
  <1>3. CASE Tick
    BY <1>3, TickInv
  <1>4. CASE Harvest \/ RocksDone
    BY <1>4, HarvestInv
  <1>5. CASE HarvestRock
    BY <1>5, HarvestRockInv
  <1>6. CASE RespawnShip
    BY <1>6, RespawnShipInv
  <1>7. CASE RespawnTick
    BY <1>7, RespawnTickInv
  <1>8. CASE MaybeRevive
    BY <1>8, MaybeReviveInv
  <1>9. CASE WaveCheck \/ SpawnTick
    BY <1>9, DealInv
  <1>10. CASE SweepStale
    BY <1>10, SweepStaleInv
  <1>11. CASE UNCHANGED vars
    BY <1>11 DEF vars, SimInv, TypeOK, SessionsDistinct, ShipsOwned, RespawnArmed,
                 Census, HitOnField, Total
  <1> QED
    BY <1>1, <1>2, <1>3, <1>4, <1>5, <1>6, <1>7, <1>8, <1>9, <1>10, <1>11 DEF Next, Rules

\* Sessions, ships, deaths and census agree in every reachable state: for any keys,
\* capacities, timers and bounds.
THEOREM SimInvariant == Spec => []SimInv
  <1>1. Init => SimInv
    BY InitInv
  <1>2. SimInv /\ [Next]_vars => SimInv'
    BY NextInv, NumAssumption
  <1> QED
    BY <1>1, <1>2, PTL DEF Spec

----------------------------------------------------------------------------
\* Every column keeps its type in every reachable state of the server.
THEOREM TypeCorrect == Spec => []TypeOK
  <1>1. SimInv => TypeOK
    BY DEF SimInv
  <1> QED
    BY <1>1, SimInvariant, PTL

\* Whatever packets arrive in whatever order, drive never makes a second session
\* for a key and never hands out a pid twice.
THEOREM SessionsAreDistinct == Spec => []SessionsDistinct
  <1>1. SimInv => SessionsDistinct
    BY DEF SimInv
  <1> QED
    BY <1>1, SimInvariant, PTL

\* The two stores agree at every step of the tick body: no ship outlives its
\* session and no session has two.
THEOREM ShipsHaveOwners == Spec => []ShipsOwned
  <1>1. SimInv => ShipsOwned
    BY DEF SimInv
  <1> QED
    BY <1>1, SimInvariant, PTL

\* A death arms its owner's respawn clock, and nothing else does.
THEOREM DeathsAreArmed == Spec => []RespawnArmed
  <1>1. SimInv => RespawnArmed
    BY DEF SimInv
  <1> QED
    BY <1>1, SimInvariant, PTL

\* The census counts the rock rows exactly, full store or not.
THEOREM CensusIsExact == Spec => []Census
  <1>1. SimInv => Census
    BY DEF SimInv
  <1> QED
    BY <1>1, SimInvariant, PTL

\* Hence a wave is armed only over an empty field.
THEOREM WavesOnEmptyField == Spec => WaveOnEmptyField
  <1>1. SimInv /\ [Next]_vars => [game'.wave # game.wave => field = NoRocks /\ game.pending = 0]_vars
    <2> SUFFICES ASSUME SimInv, Next, game'.wave # game.wave
                 PROVE  field = NoRocks /\ game.pending = 0
      BY DEF vars
    <2>1. game \in GameRow /\ field \in PerClass
      BY DEF SimInv, TypeOK
    <2>2. WaveCheck
      BY <2>1 DEF Next, Rules, Drive, DriveFresh, DriveOld, DriveJoin, DrainDone, DrainErr,
         Tick, Harvest, HarvestRock, RocksDone, RespawnShip, RespawnTick, MaybeRevive,
         SpawnTick, SweepStale, Broadcast, GameRow, Fresh, DropsWith, CensusChange, Stale, ShipsWithout
    <2>3. game.rocks <= 0 /\ game.pending <= 0
      BY <2>2 DEF WaveCheck
    <2>4. field.big = 0 /\ field.mid = 0 /\ field.small = 0 /\ game.pending = 0
      BY <2>1, <2>3 DEF SimInv, Census, Total, PerClass, GameRow
    <2> QED
      BY <2>1, <2>4 DEF PerClass, NoRocks
  <1> QED
    BY <1>1, SimInvariant, PTL DEF Spec, WaveOnEmptyField

----------------------------------------------------------------------------
(* Score.                                                                  *)

\* A wave of number w + 1 deals w + WaveBase rocks more than the waves up to w.
LEMMA ArmedStep == \A w \in Nat : Armed(w) \in Int /\ Armed(w + 1) = Armed(w) + w + WaveBase
  <1> SUFFICES ASSUME NEW w \in Nat
               PROVE  Armed(w) \in Int /\ Armed(w + 1) = Armed(w) + w + WaveBase
    OBVIOUS
  <1> DEFINE x == w * (w - 1)
  <1>1. x \in Int /\ w * WaveBase \in Int /\ WaveBase \in Nat
    BY NumAssumption DEF NumAssumption
  <1>2. (w + 1) * ((w + 1) - 1) = x + 2 * w
    OBVIOUS
  <1>3. (w + 1) * WaveBase = w * WaveBase + WaveBase
    BY <1>1
  <1>4. Armed(w) = w * WaveBase + x \div 2
        /\ Armed(w + 1) = (w + 1) * WaveBase + ((w + 1) * ((w + 1) - 1)) \div 2
    BY DEF Armed
  <1> HIDE DEF x
  <1>5. (x + 2 * w) \div 2 = x \div 2 + w /\ x \div 2 \in Int
    BY <1>1
  <1> QED
    BY <1>1, <1>2, <1>3, <1>4, <1>5

LEMMA ScoreStep ==
  ASSUME NumAssumption, SimInv, ScoreBounded, [Next]_vars
  PROVE  ScoreBounded'
  <1>0. field \in PerClass /\ game \in GameRow /\ HitOnField /\ hit \in PerClass
    BY DEF SimInv, TypeOK
  <1>1. CASE HarvestRock
    <2>1. PICK class \in {"big", "mid", "small"} :
            /\ hit[class] > 0
            /\ LET n == Children(class, BodyCap - (Bodies - 1))
               IN  /\ field' = IF n = 0 THEN [field EXCEPT ![class] = @ - 1]
                               ELSE [field EXCEPT ![class] = @ - 1, ![ChildClass[class]] = @ + n]
                   /\ game' = [game EXCEPT !.score = @ + Points(class), !.rocks = @ + CensusChange(n)]
      BY <1>1 DEF HarvestRock
    <2> DEFINE n == Children(class, BodyCap - (Bodies - 1))
               c == CensusChange(n)
               pts == Points(class)
    <2>2. n \in 0..2 /\ (class = "small" => n = 0)
      BY ChildrenBound
    <2>3. /\ field' = IF n = 0 THEN [field EXCEPT ![class] = @ - 1]
                      ELSE [field EXCEPT ![class] = @ - 1, ![ChildClass[class]] = @ + n]
          /\ game' = [game EXCEPT !.score = @ + pts, !.rocks = @ + c]
      BY <2>1
    <2>4. pts = IF class = "big" THEN 20 ELSE 100
      BY DEF Points, Radius, ChildMinR
    <2> HIDE DEF n, c, pts
    <2>5. game'.score = game.score + pts /\ game'.pending = game.pending /\ game'.wave = game.wave
      BY <1>0, <2>3 DEF GameRow
    <2>6. Worth(field') + pts <= Worth(field)
      <3>1. CASE class = "big"
        <4>1. field'.big = field.big - 1 /\ field'.mid = field.mid + n /\ field'.small = field.small
          BY <1>0, <2>2, <2>3, <3>1 DEF PerClass, ChildClass
        <4> QED
          BY <1>0, <2>2, <2>4, <3>1, <4>1 DEF Worth, PerClass
      <3>2. CASE class = "mid"
        <4>1. field'.big = field.big /\ field'.mid = field.mid - 1 /\ field'.small = field.small + n
          BY <1>0, <2>2, <2>3, <3>2 DEF PerClass, ChildClass
        <4> QED
          BY <1>0, <2>2, <2>4, <3>2, <4>1 DEF Worth, PerClass
      <3>3. CASE class = "small"
        <4>1. field'.big = field.big /\ field'.mid = field.mid /\ field'.small = field.small - 1
          BY <1>0, <2>2, <2>3, <3>3 DEF PerClass
        <4> QED
          BY <1>0, <2>2, <2>4, <3>3, <4>1 DEF Worth, PerClass
      <3> QED
        BY <3>1, <3>2, <3>3
    <2>7. Worth(field) \in Int /\ Worth(field') \in Int /\ Armed(game.wave) \in Int /\ pts \in Int
      <3>1. field' \in PerClass
        BY <1>1, HarvestRockInv, NumAssumption DEF SimInv, TypeOK
      <3> QED
        BY <1>0, <2>4, <3>1, ArmedStep DEF Worth, PerClass, GameRow
    <2> QED
      BY <1>0, <2>5, <2>6, <2>7 DEF ScoreBounded, GameRow
  <1>2. CASE WaveCheck
    <2>1. field' = field
      BY <1>2 DEF WaveCheck
    <2>2. CASE game' = game
      BY <2>1, <2>2 DEF ScoreBounded
    <2>3. CASE game.pending <= 0 /\ game' = [game EXCEPT !.wave = @ + 1, !.pending = game.wave + WaveBase]
      <3>1. /\ game.pending = 0 /\ game'.wave = game.wave + 1 /\ game'.score = game.score
            /\ game'.pending = game.wave + WaveBase
        BY <1>0, <2>3 DEF GameRow
      <3>2. Worth(field) \in Int /\ WaveBase \in Nat
        BY <1>0, NumAssumption DEF Worth, PerClass, NumAssumption
      <3>3. game.wave \in Nat /\ game.score \in Nat
        BY <1>0 DEF GameRow
      <3>4. Armed(game.wave) \in Int /\ Armed(game.wave + 1) = Armed(game.wave) + game.wave + WaveBase
        BY <3>3, ArmedStep
      <3> DEFINE a == Armed(game.wave)
                 x == Worth(field)
      <3>5. game.score + x <= 620 * a
        BY <3>1, <3>2, <3>3, <3>4 DEF ScoreBounded
      <3>6. Worth(field') = x /\ Armed(game'.wave) = a + game.wave + WaveBase
        BY <2>1, <3>1, <3>4
      <3>7. x \in Int /\ a \in Int
        BY <3>2, <3>4
      <3> HIDE DEF a, x
      <3> QED
        BY <3>1, <3>2, <3>3, <3>5, <3>6, <3>7 DEF ScoreBounded
    <2> QED
      BY <1>2, <2>2, <2>3 DEF WaveCheck
  <1>3. CASE SpawnTick
    <2>1. CASE field' = field /\ game' = game
      BY <2>1 DEF ScoreBounded
    <2>2. CASE /\ game.pending > 0 
               /\ field' = [field EXCEPT !.big = @ + 1]
               /\ game' = [game EXCEPT !.pending = @ - 1, !.rocks = @ + 1]
      <3>1. /\ game'.pending = game.pending - 1 /\ game'.score = game.score /\ game'.wave = game.wave
            /\ field'.big = field.big + 1 /\ field'.mid = field.mid /\ field'.small = field.small
        BY <1>0, <2>2 DEF GameRow, PerClass
      <3>2. Worth(field') = Worth(field) + 620 /\ Worth(field) \in Int
        BY <1>0, <3>1 DEF Worth, PerClass
      <3>3. Armed(game.wave) \in Int
        BY <1>0, ArmedStep DEF GameRow
      <3> QED
        BY <1>0, <3>1, <3>2, <3>3 DEF ScoreBounded, GameRow
    <2> QED
      BY <1>3, <2>1, <2>2 DEF SpawnTick
  <1>4. ASSUME NEW key \in Keys, NEW seq \in 0..MaxSeq, NEW firing \in BOOLEAN, Drive(key, seq, firing)
        PROVE  ScoreBounded'
    <2>1. field' = field /\ (game' = game \/ game' = [game EXCEPT !.nextpid = @ + 1])
      BY <1>4 DEF Drive, DriveFresh, DriveOld, DriveJoin
    <2>2. game'.score = game.score /\ game'.wave = game.wave /\ game'.pending = game.pending
      BY <1>0, <2>1 DEF GameRow
    <2> QED
      BY <2>1, <2>2 DEF ScoreBounded
  <1>5. CASE \/ DrainDone \/ DrainErr \/ Broadcast \/ Tick \/ Harvest \/ RocksDone
             \/ RespawnShip \/ RespawnTick \/ MaybeRevive \/ SweepStale \/ UNCHANGED vars
    <2>1. field' = field /\ game' = game
      BY <1>5 DEF DrainDone, DrainErr, Broadcast, Tick, Harvest, RocksDone, RespawnShip,
                  RespawnTick, MaybeRevive, SweepStale, vars
    <2> QED
      BY <2>1 DEF ScoreBounded
  <1> QED
    BY <1>1, <1>2, <1>3, <1>4, <1>5 DEF Next, Rules

\* No rock is ever scored twice or for more than the waves dealt: for any store
\* capacity, and however many waves.
THEOREM ScoreIsBounded == Spec => []ScoreBounded
  <1>1. Init => ScoreBounded
    <2>1. Armed(0) = 0
      BY NumAssumption DEF Armed, NumAssumption
    <2> QED
      BY <2>1 DEF Init, ScoreBounded, Worth, NoRocks
  <1>2. SimInv /\ ScoreBounded /\ [Next]_vars => ScoreBounded'
    BY ScoreStep, NumAssumption
  <1> QED
    BY <1>1, <1>2, SimInvariant, PTL DEF Spec

----------------------------------------------------------------------------
(* What a step may not do (SimSteps).                                      *)

\* Every row after the step was there before it, as far as packets can tell.
RowsKept(old, new) ==
    \A q \in new : \E p \in old :
        p.pid = q.pid /\ p.key = q.key /\ p.lseq = q.lseq /\ p.drops = q.drops

\* Only packets change that: the rules write clocks, and the sweep takes rows away.
LEMMA QuietStep ==
  ASSUME SimInv, DrainDone \/ DrainErr \/ Rules \/ Broadcast \/ UNCHANGED vars
  PROVE  RowsKept(players, players') /\ game'.nextpid = game.nextpid
  <1>0. players \subseteq Session /\ game \in GameRow
    BY DEF SimInv, TypeOK
  <1>1. CASE DrainErr \/ Broadcast
    <2> DEFINE P(p) == [p EXCEPT !.idle = Older(@)]
    <2>1. players' = {P(p) : p \in players} /\ game' = game
      BY <1>1 DEF DrainErr, Broadcast, Aged
    <2>2. \A p \in players : /\ P(p).pid = p.pid /\ P(p).key = p.key
                             /\ P(p).lseq = p.lseq /\ P(p).drops = p.drops
      <3> SUFFICES ASSUME NEW p \in players
                   PROVE  /\ P(p).pid = p.pid /\ P(p).key = p.key
                          /\ P(p).lseq = p.lseq /\ P(p).drops = p.drops
        OBVIOUS
      <3>1. p \in Session
        BY <1>0
      <3> QED
        BY <3>1 DEF Session
    <2> HIDE DEF P
    <2> QED
      BY <2>1, <2>2 DEF RowsKept
  <1>2. CASE RespawnShip
    <2> DEFINE Down(p) == \E s \in ships : Fallen(s) /\ s.owner = p.pid
               P(p) == IF Down(p) THEN [p EXCEPT !.rt = RespawnTicks, !.waiting = TRUE] ELSE p
    <2>1. players' = {P(p) : p \in players} /\ game' = game
      BY <1>2 DEF RespawnShip
    <2>2. \A p \in players : /\ P(p).pid = p.pid /\ P(p).key = p.key
                             /\ P(p).lseq = p.lseq /\ P(p).drops = p.drops
      BY <1>0 DEF Session
    <2> HIDE DEF P
    <2> QED
      BY <2>1, <2>2 DEF RowsKept
  <1>3. CASE RespawnTick
    <2> DEFINE P(p) == [p EXCEPT !.rt = Decay(@)]
    <2>1. players' = {P(p) : p \in players} /\ game' = game
      BY <1>3 DEF RespawnTick
    <2>2. \A p \in players : /\ P(p).pid = p.pid /\ P(p).key = p.key
                             /\ P(p).lseq = p.lseq /\ P(p).drops = p.drops
      BY <1>0 DEF Session
    <2> HIDE DEF P
    <2> QED
      BY <2>1, <2>2 DEF RowsKept
  <1>4. CASE MaybeRevive
    <2> DEFINE P(p) == IF Due(p) THEN [p EXCEPT !.waiting = FALSE] ELSE p
    <2>1. players' = {P(p) : p \in players} /\ game' = game
      BY <1>4 DEF MaybeRevive
    <2>2. \A p \in players : /\ P(p).pid = p.pid /\ P(p).key = p.key
                             /\ P(p).lseq = p.lseq /\ P(p).drops = p.drops
      BY <1>0 DEF Session
    <2> HIDE DEF P
    <2> QED
      BY <2>1, <2>2 DEF RowsKept
  <1>5. CASE \/ DrainDone \/ Tick \/ Harvest \/ HarvestRock \/ RocksDone \/ WaveCheck
             \/ SpawnTick \/ SweepStale \/ UNCHANGED vars
    <2>1. players' \subseteq players
      BY <1>5 DEF DrainDone, Tick, Harvest, HarvestRock, RocksDone, WaveCheck, SpawnTick,
                  SweepStale, vars
    <2>2. game'.nextpid = game.nextpid
      BY <1>0, <1>5 DEF DrainDone, Tick, Harvest, HarvestRock, RocksDone, WaveCheck, SpawnTick,
                        SweepStale, vars, GameRow
    <2> QED
      BY <2>1, <2>2 DEF RowsKept
  <1> QED
    BY <1>1, <1>2, <1>3, <1>4, <1>5 DEF Rules

\* A session's row after a step is the row of the same pid before it, no earlier in
\* its inputs, or it has a pid that no row had.
Onward(old, new) ==
    \A q \in new :
        \/ \A p \in old : p.pid # q.pid
        \/ \E p \in old : p.pid = q.pid /\ q.key = p.key /\ q.lseq >= p.lseq /\ q.drops >= p.drops

LEMMA DriveOnward ==
  ASSUME NumAssumption, SimInv, NEW key \in Keys, NEW seq \in 0..MaxSeq, NEW firing \in BOOLEAN,
         Drive(key, seq, firing)
  PROVE  Onward(players, players')
  <1>0. players \subseteq Session /\ \A p \in players : p.lseq >= p.lseq /\ p.drops >= p.drops
    BY DEF SimInv, TypeOK, Session
  <1>1. CASE DriveFresh(key, seq, firing)
    <2>1. PICK p \in players :
            /\ seq > p.lseq
            /\ players' = (players \ {p}) \cup
                   {[p EXCEPT !.idle = 0, !.lseq = seq, !.drops = @ + (seq - p.lseq - 1)]}
      BY <1>1 DEF DriveFresh, Fresh, DropsWith
    <2> DEFINE q == [p EXCEPT !.idle = 0, !.lseq = seq, !.drops = @ + (seq - p.lseq - 1)]
    <2>2. q.pid = p.pid /\ q.key = p.key /\ q.lseq >= p.lseq /\ q.drops >= p.drops
      BY <1>0, <2>1 DEF Session
    <2>3. players' = (players \ {p}) \cup {q}
      BY <2>1
    <2> HIDE DEF q
    <2> QED
      BY <1>0, <2>2, <2>3 DEF Onward
  <1>2. CASE DriveOld(key, seq)
    <2>1. PICK p \in players : players' = (players \ {p}) \cup {[p EXCEPT !.idle = 0]}
      BY <1>2 DEF DriveOld
    <2> DEFINE q == [p EXCEPT !.idle = 0]
    <2>2. q.pid = p.pid /\ q.key = p.key /\ q.lseq >= p.lseq /\ q.drops >= p.drops
      BY <1>0, <2>1 DEF Session
    <2>3. players' = (players \ {p}) \cup {q}
      BY <2>1
    <2> HIDE DEF q
    <2> QED
      BY <1>0, <2>2, <2>3 DEF Onward
  <1>3. CASE DriveJoin(key, seq, firing)
    <2>1. CASE players' = players
      BY <1>0, <2>1 DEF Onward
    <2>2. CASE players' = players \cup {NewSession(key, seq)}
      <3>1. NewSession(key, seq).pid = game.nextpid
        BY DEF NewSession
      <3>2. \A p \in players : p.pid # game.nextpid
        BY DEF SimInv, SessionsDistinct, TypeOK, Session, GameRow
      <3> QED
        BY <1>0, <2>2, <3>1, <3>2 DEF Onward
    <2> QED
      BY <1>3, <2>1, <2>2 DEF DriveJoin
  <1> QED
    BY <1>1, <1>2, <1>3 DEF Drive

LEMMA NextOnward ==
  ASSUME NumAssumption, SimInv, Next
  PROVE  Onward(players, players')
  <1>1. ASSUME NEW key \in Keys, NEW seq \in 0..MaxSeq, NEW firing \in BOOLEAN,
               Drive(key, seq, firing)
        PROVE  Onward(players, players')
    BY <1>1, DriveOnward
  <1>2. CASE DrainDone \/ DrainErr \/ Rules \/ Broadcast
    <2>1. RowsKept(players, players')
      BY <1>2, QuietStep
    <2>2. \A p \in players : p.lseq >= p.lseq /\ p.drops >= p.drops
      BY DEF SimInv, TypeOK, Session
    <2> QED
      BY <2>1, <2>2 DEF RowsKept, Onward
  <1> QED
    BY <1>1, <1>2 DEF Next

\* A ship that fires reloads: the ship after the shot is another row.
LEMMA FireMoves ==
  ASSUME NumAssumption, bullets \in Nat, NEW afloat \in SUBSET Ship, NEW pid, NEW pressed,
         Fire(pid, pressed, afloat), \A r, s \in afloat : r.owner = s.owner => r = s
  PROVE  /\ \A s \in afloat \ ships' : s.owner = pid
         /\ \A s \in ships' \ afloat : s.owner = pid
         /\ bullets' # bullets => \E s \in afloat : s.owner = pid /\ s \notin ships'
  <1> DEFINE free == Cardinality(afloat) + Total(field) + bullets < BodyCap
             guns == {s \in afloat : pressed /\ free /\ MayFire(s, pid)}
             Shot(s) == [s EXCEPT !.cd = CooldownTicks]
  <1>1. ships' = (afloat \ guns) \cup {Shot(s) : s \in guns}
        /\ bullets' = IF guns = {} THEN bullets ELSE bullets + 1
    BY DEF Fire
  <1>2. \A s \in guns : s \in afloat /\ s.owner = pid /\ Shot(s).owner = s.owner /\ Shot(s) # s
    BY DEF MayFire, Ship, NumAssumption
  <1> HIDE DEF guns, Shot
  <1>3. \A s \in guns : s \notin ships'
    <2> SUFFICES ASSUME NEW s \in guns, s \in ships' PROVE FALSE
      OBVIOUS
    <2>1. PICK r \in guns : s = Shot(r)
      BY <1>1
    <2>2. s = r
      BY <1>2, <2>1
    <2> QED
      BY <1>2, <2>1, <2>2
  <1> QED
    BY <1>1, <1>2, <1>3

\* In the drain only the ship of a session that was heard moves.
LEMMA DrainMoves ==
  ASSUME NumAssumption, SimInv, Next, phase = "drain"
  PROVE  /\ \A s \in ships \ ships' : Heard(s.owner)
         /\ \A s \in ships' \ ships : Heard(s.owner)
         /\ bullets' # bullets => ships' # ships
  <1> DEFINE Goal == /\ \A s \in ships \ ships' : Heard(s.owner)
                     /\ \A s \in ships' \ ships : Heard(s.owner)
                     /\ bullets' # bullets => ships' # ships
  <1>0. /\ players \subseteq Session /\ ships \subseteq Ship /\ bullets \in Nat /\ game \in GameRow
        /\ \A r, s \in ships : r.owner = s.owner => r = s
        /\ \A p, q \in players : p.pid = q.pid => p = q
        /\ \A p \in players : p.pid < game.nextpid
        /\ \A s \in ships : \E p \in players : p.pid = s.owner
    BY DEF SimInv, TypeOK, ShipsOwned, SessionsDistinct
  <1>1. ASSUME NEW key \in Keys, NEW seq \in 0..MaxSeq, NEW firing \in BOOLEAN,
               DriveFresh(key, seq, firing)
        PROVE  Goal
    <2>1. PICK p \in players :
            /\ seq > p.lseq
            /\ players' = (players \ {p}) \cup
                   {[p EXCEPT !.idle = 0, !.lseq = seq, !.drops = @ + (seq - p.lseq - 1)]}
            /\ Fire(p.pid, firing, ships)
      BY <1>1 DEF DriveFresh, Fresh, DropsWith
    <2> DEFINE q == [p EXCEPT !.idle = 0, !.lseq = seq, !.drops = @ + (seq - p.lseq - 1)]
    <2>2. q.pid = p.pid /\ q.lseq > p.lseq /\ q \in players'
      BY <1>0, <2>1 DEF Session
    <2> HIDE DEF q
    <2>3. Heard(p.pid)
      BY <1>0, <2>2 DEF Heard
    <2>4. /\ \A s \in ships \ ships' : s.owner = p.pid
          /\ \A s \in ships' \ ships : s.owner = p.pid
          /\ bullets' # bullets => \E s \in ships : s.owner = p.pid /\ s \notin ships'
      BY <1>0, <2>1, FireMoves
    <2> QED
      BY <2>3, <2>4
  <1>2. ASSUME NEW key \in Keys, NEW seq \in 0..MaxSeq, NEW firing \in BOOLEAN,
               DriveJoin(key, seq, firing)
        PROVE  Goal
    <2> DEFINE n == game.nextpid
    <2>1. CASE Cardinality(players) < PlayerCap
      <3>1. /\ players' = players \cup {NewSession(key, seq)}
            /\ Fire(n, firing, WithShip(n))
        BY <1>2, <2>1 DEF DriveJoin
      <3>2. Heard(n)
        <4>1. NewSession(key, seq).pid = n /\ NewSession(key, seq) \in players'
          BY <3>1 DEF NewSession
        <4>2. \A p \in players : p.pid # n
          BY <1>0 DEF Session, GameRow
        <4> QED
          BY <4>1, <4>2 DEF Heard
      <3>3. NewShip(n) \in Ship /\ NewShip(n).owner = n
        <4>1. InvulnTicks \in 0..InvulnTicks /\ 0 \in 0..CooldownTicks /\ n \in Nat
          BY <1>0, NumAssumption DEF NumAssumption, GameRow
        <4> QED
          BY <4>1 DEF NewShip, Ship
      <3>4. \A s \in ships : s.owner # n
        BY <1>0 DEF Session, GameRow
      <3> DEFINE afloat == WithShip(n)
      <3>5. afloat = ships \/ afloat = ships \cup {NewShip(n)}
        BY DEF WithShip
      <3> HIDE DEF afloat
      <3>6. afloat \in SUBSET Ship /\ \A r, s \in afloat : r.owner = s.owner => r = s
        BY <1>0, <3>3, <3>4, <3>5
      <3>7. /\ \A s \in afloat \ ships' : s.owner = n
            /\ \A s \in ships' \ afloat : s.owner = n
            /\ bullets' # bullets => \E s \in afloat : s.owner = n /\ s \notin ships'
        BY <1>0, <3>1, <3>6, FireMoves DEF afloat
      <3>8. (\A s \in ships \ ships' : s.owner = n) /\ (\A s \in ships' \ ships : s.owner = n)
        BY <3>3, <3>5, <3>7
      <3>9. bullets' # bullets => ships' # ships
        <4> SUFFICES ASSUME bullets' # bullets PROVE ships' # ships
          OBVIOUS
        <4>1. PICK s \in afloat : s.owner = n /\ s \notin ships'
          BY <3>7
        <4>2. \E r \in ships' : r.owner = s.owner
          BY <3>1, <3>6, <1>0, FireLemma DEF afloat
        <4> QED
          BY <4>1, <4>2, <3>4
      <3> QED
        BY <3>2, <3>8, <3>9
    <2>2. CASE ~(Cardinality(players) < PlayerCap)
      <3>1. Fire(0, FALSE, ships)
        BY <1>2, <2>2 DEF DriveJoin, Fire
      <3>2. ships' = ships /\ bullets' = bullets
        BY <3>1 DEF Fire
      <3> QED
        BY <3>2
    <2> QED
      BY <2>1, <2>2
  <1>3. ASSUME NEW key \in Keys, NEW seq \in 0..MaxSeq, DriveOld(key, seq)
        PROVE  Goal
    BY <1>3 DEF DriveOld
  <1>4. CASE DrainDone \/ DrainErr
    BY <1>4 DEF DrainDone, DrainErr
  <1>5. \/ \E key \in Keys, seq \in 0..MaxSeq, firing \in BOOLEAN : Drive(key, seq, firing)
        \/ DrainDone \/ DrainErr
    BY DEF Next, Rules, Broadcast, Tick, Harvest, HarvestRock, RocksDone, RespawnShip,
           RespawnTick, MaybeRevive, WaveCheck, SpawnTick, SweepStale
  <1> QED
    BY <1>1, <1>2, <1>3, <1>4, <1>5 DEF Drive

\* Whatever packets come, in whatever order: a step moves only ships of sessions that
\* were heard with fresh input, takes no session's counters back and arms a wave on
\* an empty field only.
THEOREM StepsAreSound == Spec => SimSteps
  <1>1. SimInv /\ [Next]_vars =>
          [phase = "drain" => /\ \A s \in ships \ ships' : Heard(s.owner)
                              /\ \A s \in ships' \ ships : Heard(s.owner)
                              /\ bullets' # bullets => ships' # ships]_vars
    BY DrainMoves, NumAssumption DEF vars
  <1>2. SimInv /\ [Next]_vars =>
          [\A p \in players, q \in players' : p.pid = q.pid =>
              q.key = p.key /\ q.lseq >= p.lseq /\ q.drops >= p.drops]_vars
    <2> SUFFICES ASSUME SimInv, Next, NEW p \in players, NEW q \in players', p.pid = q.pid
                 PROVE  q.key = p.key /\ q.lseq >= p.lseq /\ q.drops >= p.drops
      BY DEF vars
    <2>1. PICK r \in players : r.pid = q.pid /\ q.key = r.key /\ q.lseq >= r.lseq /\ q.drops >= r.drops
      BY NextOnward, NumAssumption DEF Onward
    <2>2. r = p
      BY <2>1 DEF SimInv, SessionsDistinct
    <2> QED
      BY <2>1, <2>2
  <1>3. Spec => FreshInputOnly
    BY <1>1, SimInvariant, PTL DEF Spec, FreshInputOnly
  <1>4. Spec => SeqNeverBack
    BY <1>2, SimInvariant, PTL DEF Spec, SeqNeverBack
  <1> QED
    BY <1>3, <1>4, WavesOnEmptyField DEF SimSteps

----------------------------------------------------------------------------
(* drive and sweep-stale implement AsteroidsSessions.                      *)

\* What the session service sees of a row.
Row(p) == [pid |-> p.pid, key |-> p.key, last |-> p.lseq]

SameRows(old, new) ==
    /\ \A q \in new : \E p \in old : p.pid = q.pid /\ p.key = q.key /\ p.lseq = q.lseq
    /\ \A p \in old : \E q \in new : p.pid = q.pid /\ p.key = q.key /\ p.lseq = q.lseq

LEMMA SameOpen == ASSUME SameRows(players, players') PROVE Open' = Open
  <1>1. Open = {Row(p) : p \in players} /\ Open' = {Row(p) : p \in players'}
    BY DEF Open, Row
  <1>2. \A p, q : p.pid = q.pid /\ p.key = q.key /\ p.lseq = q.lseq => Row(p) = Row(q)
    BY DEF Row
  <1> HIDE DEF Row
  <1> QED
    BY <1>1, <1>2 DEF SameRows

\* The rules that write sessions leave alone what the service sees.
LEMMA RulesSameOpen ==
  ASSUME SimInv, DrainErr \/ Broadcast \/ RespawnShip \/ RespawnTick \/ MaybeRevive
  PROVE  Open' = Open
  <1>0. players \subseteq Session
    BY DEF SimInv, TypeOK
  <1>1. CASE DrainErr \/ Broadcast
    <2> DEFINE P(p) == [p EXCEPT !.idle = Older(@)]
    <2>1. players' = {P(p) : p \in players}
      BY <1>1 DEF DrainErr, Broadcast, Aged
    <2>2. \A p \in players : P(p).pid = p.pid /\ P(p).key = p.key /\ P(p).lseq = p.lseq
      <3> SUFFICES ASSUME NEW p \in players
                   PROVE  P(p).pid = p.pid /\ P(p).key = p.key /\ P(p).lseq = p.lseq
        OBVIOUS
      <3>1. p \in Session
        BY <1>0
      <3> QED
        BY <3>1 DEF Session
    <2> HIDE DEF P
    <2> QED
      BY <2>1, <2>2, SameOpen DEF SameRows
  <1>2. CASE RespawnShip
    <2> DEFINE Down(p) == \E s \in ships : Fallen(s) /\ s.owner = p.pid
               P(p) == IF Down(p) THEN [p EXCEPT !.rt = RespawnTicks, !.waiting = TRUE] ELSE p
    <2>1. players' = {P(p) : p \in players}
      BY <1>2 DEF RespawnShip
    <2>2. \A p \in players : P(p).pid = p.pid /\ P(p).key = p.key /\ P(p).lseq = p.lseq
      BY <1>0 DEF Session
    <2> HIDE DEF P
    <2> QED
      BY <2>1, <2>2, SameOpen DEF SameRows
  <1>3. CASE RespawnTick
    <2> DEFINE P(p) == [p EXCEPT !.rt = Decay(@)]
    <2>1. players' = {P(p) : p \in players}
      BY <1>3 DEF RespawnTick
    <2>2. \A p \in players : P(p).pid = p.pid /\ P(p).key = p.key /\ P(p).lseq = p.lseq
      BY <1>0 DEF Session
    <2> HIDE DEF P
    <2> QED
      BY <2>1, <2>2, SameOpen DEF SameRows
  <1>4. CASE MaybeRevive
    <2> DEFINE P(p) == IF Due(p) THEN [p EXCEPT !.waiting = FALSE] ELSE p
    <2>1. players' = {P(p) : p \in players}
      BY <1>4 DEF MaybeRevive
    <2>2. \A p \in players : P(p).pid = p.pid /\ P(p).key = p.key /\ P(p).lseq = p.lseq
      BY <1>0 DEF Session
    <2> HIDE DEF P
    <2> QED
      BY <2>1, <2>2, SameOpen DEF SameRows
  <1> QED
    BY <1>1, <1>2, <1>3, <1>4

\* A packet is a Join, an Apply, or nothing to the service.
LEMMA DriveImplements ==
  ASSUME NumAssumption, SimInv, NEW key \in Keys, NEW seq \in 0..MaxSeq, NEW firing \in BOOLEAN,
         Drive(key, seq, firing)
  PROVE  [Sessions!Next]_<<Open, game.nextpid>>
  <1>0. players \subseteq Session /\ game \in GameRow
        /\ \A p, q \in players : p.pid = q.pid => p = q
    BY DEF SimInv, TypeOK, SessionsDistinct
  <1>1. CASE DriveFresh(key, seq, firing)
    <2>1. PICK p \in players :
            /\ seq > p.lseq
            /\ players' = (players \ {p}) \cup
                   {[p EXCEPT !.idle = 0, !.lseq = seq, !.drops = @ + (seq - p.lseq - 1)]}
            /\ game' = game
      BY <1>1 DEF DriveFresh, Fresh, DropsWith
    <2> DEFINE q == [p EXCEPT !.idle = 0, !.lseq = seq, !.drops = @ + (seq - p.lseq - 1)]
               o == Row(p)
    <2>2. q.pid = p.pid /\ q.key = p.key /\ q.lseq = seq
      BY <1>0 DEF Session
    <2>3. players' = (players \ {p}) \cup {q}
      BY <2>1
    <2>4. Row(q) = [o EXCEPT !.last = seq] /\ o.last = p.lseq
      BY <2>2 DEF Row
    <2>5. Open = {Row(r) : r \in players} /\ Open' = {Row(r) : r \in players'}
      BY DEF Open, Row
    <2>6. \A r \in players : Row(r) = o => r = p
      BY <1>0 DEF Row
    <2> HIDE DEF q, o, Row
    <2>7. o = Row(p)
      BY DEF o
    <2>8. o \in Open /\ Open' = (Open \ {o}) \cup {[o EXCEPT !.last = seq]}
      BY <2>3, <2>4, <2>5, <2>6, <2>7
    <2>9. Sessions!Apply(o, seq)
      BY <2>1, <2>4, <2>8 DEF Sessions!Apply
    <2> QED
      BY <2>8, <2>9 DEF Sessions!Next
  <1>2. CASE DriveOld(key, seq)
    <2>1. PICK p \in players : players' = (players \ {p}) \cup {[p EXCEPT !.idle = 0]}
                               /\ game' = game
      BY <1>2 DEF DriveOld
    <2> DEFINE q == [p EXCEPT !.idle = 0]
    <2>2. q.pid = p.pid /\ q.key = p.key /\ q.lseq = p.lseq
      BY <1>0 DEF Session
    <2>3. players' = (players \ {p}) \cup {q}
      BY <2>1
    <2> HIDE DEF q
    <2>4. Open' = Open
      BY <2>2, <2>3, SameOpen DEF SameRows
    <2> QED
      BY <2>1, <2>4
  <1>3. CASE DriveJoin(key, seq, firing)
    <2>1. CASE players' = players /\ game' = game
      BY <2>1 DEF Open
    <2>2. CASE /\ players' = players \cup {NewSession(key, seq)}
               /\ game' = [game EXCEPT !.nextpid = @ + 1]
               /\ \A p \in players : p.key # key
      <3> DEFINE new == NewSession(key, seq)
      <3>1. Row(new) = [pid |-> game.nextpid, key |-> key, last |-> seq]
        BY DEF Row, NewSession
      <3>2. Open = {Row(r) : r \in players} /\ Open' = {Row(r) : r \in players'}
        BY DEF Open, Row
      <3>3. \A p \in players : Row(p).key = p.key
        BY DEF Row
      <3>4. players' = players \cup {new} /\ game'.nextpid = game.nextpid + 1
        BY <1>0, <2>2 DEF GameRow
      <3> HIDE DEF new, Row
      <3>5. Open' = Open \cup {Row(new)}
        BY <3>2, <3>4
      <3>6. \A o \in Open : o.key # key
        BY <2>2, <3>2, <3>3
      <3>7. Sessions!Join(key, seq)
        BY <3>1, <3>4, <3>5, <3>6 DEF Sessions!Join
      <3> QED
        BY <3>7 DEF Sessions!Next
    <2> QED
      BY <1>3, <2>1, <2>2 DEF DriveJoin
  <1> QED
    BY <1>1, <1>2, <1>3 DEF Drive

LEMMA StepImplements ==
  ASSUME NumAssumption, SimInv, [Next]_vars
  PROVE  [Sessions!Next]_<<Open, game.nextpid>>
  <1>0. game \in GameRow
    BY DEF SimInv, TypeOK
  <1>1. ASSUME NEW key \in Keys, NEW seq \in 0..MaxSeq, NEW firing \in BOOLEAN, Drive(key, seq, firing)
        PROVE  [Sessions!Next]_<<Open, game.nextpid>>
    BY <1>1, DriveImplements
  <1>2. CASE DrainErr \/ Broadcast \/ RespawnShip \/ RespawnTick \/ MaybeRevive
    <2>1. game' = game
      BY <1>2 DEF DrainErr, Broadcast, RespawnShip, RespawnTick, MaybeRevive
    <2> QED
      BY <1>2, <2>1, RulesSameOpen
  <1>3. CASE DrainDone \/ Tick \/ Harvest \/ RocksDone \/ UNCHANGED vars
    <2>1. players' = players /\ game' = game
      BY <1>3 DEF DrainDone, Tick, Harvest, RocksDone, vars
    <2> QED
      BY <2>1 DEF Open
  <1>4. CASE HarvestRock \/ WaveCheck \/ SpawnTick
    <2>1. players' = players /\ game'.nextpid = game.nextpid
      BY <1>0, <1>4 DEF HarvestRock, WaveCheck, SpawnTick, GameRow
    <2> QED
      BY <2>1 DEF Open
  <1>5. CASE SweepStale
    <2>1. players' \in SUBSET players /\ game' = game
      BY <1>5 DEF SweepStale
    <2>2. Open' \in SUBSET Open
      BY <2>1 DEF Open
    <2>3. Sessions!Leave
      BY <2>1, <2>2 DEF Sessions!Leave
    <2> QED
      BY <2>3 DEF Sessions!Next
  <1> QED
    BY <1>1, <1>2, <1>3, <1>4, <1>5 DEF Next, Rules

\* The server is an implementation of the session service, whatever packets arrive
\* and whatever the rules do between them.
THEOREM SimImplementsSessions == Spec => ImplementsSessions
  <1>1. Init => Sessions!Init
    <2>1. ASSUME Init PROVE Open = {} /\ game.nextpid = 1
      BY <2>1 DEF Init, Open
    <2> QED
      BY <2>1 DEF Sessions!Init
  <1>2. SimInv /\ [Next]_vars => [Sessions!Next]_<<Open, game.nextpid>>
    BY StepImplements, NumAssumption
  <1> QED
    BY <1>1, <1>2, SimInvariant, PTL DEF Spec, ImplementsSessions, Sessions!Spec, Sessions!svars

----------------------------------------------------------------------------
(* The clients, the server and the network between them.                   *)

----------------------------------------------------------------------------
(* The inductive invariant.                                                *)

\* What the server has written of each session that ever was.
LogEntry == [key : Keys, first : Nat, applied : SUBSET Nat]

\* Clients and inputs are well formed.
SendersOK ==
    /\ client \in [Keys -> [run : BOOLEAN, iseq : 0..F32Exact,
                            me : 0..MaxJoin, rows : 0..ViewCap]]
    /\ up \subseteq [key : Keys, seq : 0..MaxSeq, fire : BOOLEAN]

\* The log has an entry per pid handed out, which tells whose it was.
LogOK ==
    /\ game.nextpid <= MaxJoin + 1
    /\ log \in [1..(game.nextpid - 1) -> LogEntry]
    /\ \A p \in players : log[p.pid].key = p.key

\* A snapshot in flight names a pid that was given to the key it is sent to.
DownOK ==
    /\ down \subseteq [key : Keys, age : 0..MaxDelay, you : 0..MaxJoin, n : Nat]
    /\ \A d \in down : d.you \in 1..(game.nextpid - 1) /\ log[d.you].key = d.key

\* And so does every client, of itself.
MeOK ==
    \A k \in Keys : client[k].me # 0 =>
        client[k].me \in 1..(game.nextpid - 1) /\ log[client[k].me].key = k

Inv == SimInv /\ SendersOK /\ LogOK /\ DownOK /\ MeOK /\ DropsBalance

LEMMA InitNetInv == ASSUME NetInit PROVE Inv
  <1>0. Init
    BY DEF NetInit
  <1>1. SimInv
    BY <1>0, InitInv
  <1>2. players = {} /\ game.nextpid = 1
    BY <1>0 DEF Init
  <1>3. SendersOK
    <2>1. client = [k \in Keys |-> Absent] /\ up = {}
      BY DEF NetInit
    <2>2. 0 \in 0..F32Exact /\ 0 \in 0..MaxJoin /\ 0 \in 0..ViewCap
      BY NetAssumption, NumAssumption DEF NetAssumption, NumAssumption
    <2>3. Absent \in [run : BOOLEAN, iseq : 0..F32Exact, me : 0..MaxJoin, rows : 0..ViewCap]
      BY <2>2 DEF Absent, Started
    <2> QED
      BY <2>1, <2>3 DEF SendersOK
  <1>4. LogOK /\ DropsBalance
    BY <1>2, NumAssumption DEF NetInit, LogOK, DropsBalance, NumAssumption
  <1>5. DownOK /\ MeOK
    BY DEF NetInit, DownOK, MeOK, Absent, Started
  <1> QED
    BY <1>1, <1>3, <1>4, <1>5 DEF Inv

----------------------------------------------------------------------------
(* The receive path.                                                       *)

\* What drive does to the rows of the store: to the sender's row or not at all.
DriveEffect(key, seq) ==
    \/ \E p \in players, q \in players' :
          /\ p.key = key /\ q.key = key /\ q.pid = p.pid
          /\ players' = (players \ {p}) \cup {q}
          /\ \/ seq > p.lseq /\ q.lseq = seq /\ q.drops = p.drops + (seq - p.lseq - 1)
             \/ q.lseq = p.lseq /\ q.drops = p.drops
          /\ game'.nextpid = game.nextpid
    \/ \E q \in players' :
          /\ \A p \in players : p.key # key
          /\ q.key = key /\ q.pid = game.nextpid /\ q.lseq = seq /\ q.drops = 0
          /\ players' = players \cup {q}
          /\ game.nextpid <= MaxJoin
          /\ game'.nextpid = game.nextpid + 1
    \/ /\ \A p \in players : p.key # key
       /\ players' = players /\ game'.nextpid = game.nextpid

LEMMA DriveHasEffect ==
  ASSUME SimInv, NEW key \in Keys, NEW seq \in 0..MaxSeq, NEW fire \in BOOLEAN, Drive(key, seq, fire)
  PROVE  DriveEffect(key, seq)
  <1>0. players \subseteq Session /\ game \in GameRow
    BY DEF SimInv, TypeOK
  <1>1. CASE DriveFresh(key, seq, fire)
    <2>1. PICK p \in players :
            /\ p.key = key /\ seq > p.lseq
            /\ players' = (players \ {p}) \cup
                   {[p EXCEPT !.idle = 0, !.lseq = seq, !.drops = @ + (seq - p.lseq - 1)]}
            /\ game' = game
      BY <1>1 DEF DriveFresh, Fresh, DropsWith
    <2> DEFINE q == [p EXCEPT !.idle = 0, !.lseq = seq, !.drops = @ + (seq - p.lseq - 1)]
    <2>2. /\ q.pid = p.pid /\ q.key = p.key /\ q.lseq = seq
          /\ q.drops = p.drops + (seq - p.lseq - 1)
      BY <1>0 DEF Session
    <2>3. players' = (players \ {p}) \cup {q}
      BY <2>1
    <2> HIDE DEF q
    <2> QED
      BY <2>1, <2>2, <2>3 DEF DriveEffect
  <1>2. CASE DriveOld(key, seq)
    <2>1. PICK p \in players : p.key = key /\ game' = game
                               /\ players' = (players \ {p}) \cup {[p EXCEPT !.idle = 0]}
      BY <1>2 DEF DriveOld
    <2> DEFINE q == [p EXCEPT !.idle = 0]
    <2>2. q.pid = p.pid /\ q.key = p.key /\ q.lseq = p.lseq /\ q.drops = p.drops
      BY <1>0 DEF Session
    <2>3. players' = (players \ {p}) \cup {q}
      BY <2>1
    <2> HIDE DEF q
    <2> QED
      BY <2>1, <2>2, <2>3 DEF DriveEffect
  <1>3. CASE DriveJoin(key, seq, fire)
    <2>1. CASE players' = players /\ game' = game
      BY <1>3, <2>1 DEF DriveEffect, DriveJoin
    <2>2. CASE /\ game.nextpid <= MaxJoin
               /\ players' = players \cup {NewSession(key, seq)}
               /\ game' = [game EXCEPT !.nextpid = @ + 1]
               /\ \A p \in players : p.key # key
      <3> DEFINE q == NewSession(key, seq)
      <3>1. q.pid = game.nextpid /\ q.key = key /\ q.lseq = seq /\ q.drops = 0
        BY DEF NewSession
      <3>2. players' = players \cup {q} /\ game'.nextpid = game.nextpid + 1
        BY <1>0, <2>2 DEF GameRow
      <3> HIDE DEF q
      <3> QED
        BY <2>2, <3>1, <3>2 DEF DriveEffect
    <2> QED
      BY <1>3, <2>1, <2>2 DEF DriveJoin
  <1> QED
    BY <1>1, <1>2, <1>3 DEF Drive

\* The log after a receive: the sender's entry as Handled says, the others untouched.
LEMMA LogStep ==
  ASSUME Inv, SimInv', NEW m \in up, Receive(m)
  PROVE  /\ DriveEffect(m.key, m.seq)
         /\ DOMAIN log' = 1..(game'.nextpid - 1)
         /\ \A p \in players' : p.key = m.key => log'[p.pid] = Handled(p, m.seq)
         /\ \A pid \in DOMAIN log :
                (\A p \in players' : p.pid = pid => p.key # m.key) => log'[pid] = log[pid]
  <1>0. m.key \in Keys /\ m.seq \in 0..MaxSeq /\ m.fire \in BOOLEAN
    BY DEF Inv, SendersOK
  <1>1. DriveEffect(m.key, m.seq)
    BY <1>0, DriveHasEffect DEF Inv, Receive
  <1>2. log' = [pid \in DOMAIN log \cup {p.pid : p \in players'} |->
                  IF \E p \in players' : p.pid = pid /\ p.key = m.key
                  THEN Handled(CHOOSE p \in players' : p.pid = pid, m.seq) ELSE log[pid]]
    BY DEF Receive
  <1>3. \A p, q \in players' : p.pid = q.pid => p = q
    BY DEF SimInv, SessionsDistinct
  <1>4. DOMAIN log = 1..(game.nextpid - 1) /\ game.nextpid \in Nat /\ 0 < game.nextpid
    BY DEF Inv, LogOK, SimInv, TypeOK, GameRow, SessionsDistinct
  <1>5. /\ players \subseteq Session /\ \A p \in players : p.pid \in 1..(game.nextpid - 1)
    BY <1>4 DEF Inv, SimInv, SessionsDistinct, TypeOK, Session
  <1>6. DOMAIN log \cup {p.pid : p \in players'} = 1..(game'.nextpid - 1)
    <2>1. CASE game'.nextpid = game.nextpid
      <3>1. \A p \in players' : p.pid \in 1..(game.nextpid - 1)
        BY <1>1, <1>4, <1>5, <2>1 DEF DriveEffect
      <3> QED
        BY <1>4, <2>1, <3>1
    <2>2. CASE game'.nextpid # game.nextpid
      <3>1. PICK q \in players' : /\ q.pid = game.nextpid /\ players' = players \cup {q}
                                  /\ game'.nextpid = game.nextpid + 1
        BY <1>1, <2>2 DEF DriveEffect
      <3>2. {p.pid : p \in players'} = {p.pid : p \in players} \cup {game.nextpid}
        BY <3>1
      <3>3. 1..(game'.nextpid - 1) = 1..(game.nextpid - 1) \cup {game.nextpid}
        BY <1>4, <3>1
      <3> QED
        BY <1>4, <1>5, <3>2, <3>3
    <2> QED
      BY <2>1, <2>2
  <1>7. \A p \in players' : p.key = m.key => log'[p.pid] = Handled(p, m.seq)
    <2> SUFFICES ASSUME NEW p \in players', p.key = m.key PROVE log'[p.pid] = Handled(p, m.seq)
      OBVIOUS
    <2>1. (CHOOSE r \in players' : r.pid = p.pid) = p
      BY <1>3
    <2> QED
      BY <1>2, <2>1
  <1>8. \A pid \in DOMAIN log :
            (\A p \in players' : p.pid = pid => p.key # m.key) => log'[pid] = log[pid]
    BY <1>2
  <1> QED
    BY <1>1, <1>2, <1>6, <1>7, <1>8

\* What a log entry must say for the gap count of row p to balance.
Balanced(p, e) ==
    /\ p.lseq \in e.applied
    /\ \A seq \in e.applied : e.first <= seq /\ seq <= p.lseq
    /\ p.drops + Cardinality(e.applied) = p.lseq - e.first + 1

\* A fresh input is counted once, and the inputs that never came are in drops.
LEMMA BalanceStep ==
  ASSUME NEW e \in LogEntry, NEW p \in Session, NEW q \in Session, NEW seq \in Nat, Balanced(p, e),
         seq > p.lseq, q.lseq = seq, q.drops = p.drops + (seq - p.lseq - 1)
  PROVE  Balanced(q, [e EXCEPT !.applied = @ \cup {seq}])
  <1> DEFINE f == [e EXCEPT !.applied = @ \cup {seq}]
  <1>1. f.first = e.first /\ f.applied = e.applied \cup {seq}
    BY DEF LogEntry
  <1>2. e.applied \in SUBSET Nat /\ e.first \in Nat /\ p.lseq \in Nat /\ p.drops \in Nat
    BY DEF LogEntry, Session
  <1>3. IsFiniteSet(e.applied)
    BY <1>2, FS_BoundedSetOfNaturals DEF Balanced
  <1>4. seq \notin e.applied
    BY <1>2 DEF Balanced
  <1>5. Cardinality(f.applied) = Cardinality(e.applied) + 1 /\ Cardinality(e.applied) \in Nat
    BY <1>1, <1>3, <1>4, FS_AddElement, FS_CardinalityType
  <1>6. p.lseq \in e.applied /\ \A s \in e.applied : e.first <= s /\ s <= p.lseq
    BY DEF Balanced
  <1>7. p.drops + Cardinality(e.applied) = p.lseq - e.first + 1
    BY DEF Balanced
  <1> HIDE DEF f
  <1>8. q.drops + Cardinality(f.applied) = q.lseq - f.first + 1
    BY <1>1, <1>2, <1>5, <1>7
  <1>9. \A s \in f.applied : f.first <= s /\ s <= q.lseq
    <2> SUFFICES ASSUME NEW s \in f.applied PROVE f.first <= s /\ s <= q.lseq
      OBVIOUS
    <2>1. CASE s = seq
      BY <1>1, <1>2, <1>6, <2>1
    <2>2. CASE s \in e.applied
      BY <1>1, <1>2, <1>6, <2>2
    <2> QED
      BY <1>1, <2>1, <2>2
  <1>10. Balanced(q, f)
    BY <1>1, <1>8, <1>9 DEF Balanced
  <1> QED
    BY <1>10 DEF f

\* The first input of a session balances by itself.
LEMMA BalanceFirst ==
  ASSUME NEW key, NEW q \in Session, NEW seq \in Nat, q.lseq = seq, q.drops = 0
  PROVE  Balanced(q, [key |-> key, first |-> seq, applied |-> {seq}])
  <1> DEFINE e == [key |-> key, first |-> seq, applied |-> {seq}]
  <1>1. e.first = seq /\ e.applied = {seq}
    OBVIOUS
  <1>2. Cardinality({seq}) = 1
    BY FS_Singleton
  <1> HIDE DEF e
  <1>3. Balanced(q, e)
    BY <1>1, <1>2 DEF Balanced
  <1> QED
    BY <1>3 DEF e

LEMMA ReceiveInv ==
  ASSUME Inv, SimInv', NEW m \in up, Receive(m)
  PROVE  Inv'
  <1>0. /\ m.key \in Keys /\ m.seq \in Nat /\ players \subseteq Session /\ players' \subseteq Session
        /\ game.nextpid \in Nat /\ 0 < game.nextpid /\ game'.nextpid \in Nat
    BY DEF Inv, SendersOK, SimInv, TypeOK, GameRow, SessionsDistinct
  <1>1. DriveEffect(m.key, m.seq) /\ DOMAIN log' = 1..(game'.nextpid - 1)
    BY LogStep
  <1>2. \A p \in players' : p.key = m.key => log'[p.pid] = Handled(p, m.seq)
    BY LogStep
  <1>3. \A pid \in DOMAIN log :
            (\A p \in players' : p.pid = pid => p.key # m.key) => log'[pid] = log[pid]
    BY LogStep
  <1>4. /\ DOMAIN log = 1..(game.nextpid - 1) /\ \A pid \in DOMAIN log : log[pid] \in LogEntry
        /\ \A p \in players : p.pid \in DOMAIN log /\ log[p.pid].key = p.key
        /\ \A p \in players : Balanced(p, log[p.pid])
    <2>1. log \in [1..(game.nextpid - 1) -> LogEntry] /\ \A p \in players : log[p.pid].key = p.key
      BY DEF Inv, LogOK
    <2>2. \A p \in players : p.pid \in 1..(game.nextpid - 1)
      BY <1>0 DEF Inv, SimInv, SessionsDistinct, Session
    <2> QED
      BY <2>1, <2>2 DEF Inv, DropsBalance, Balanced
  <1>5. /\ \A p, q \in players : p.key = q.key \/ p.pid = q.pid => p = q
        /\ \A p, q \in players' : p.key = q.key \/ p.pid = q.pid => p = q
        /\ \A p \in players : p.pid < game.nextpid
    BY DEF Inv, SimInv, SessionsDistinct
  \* An entry of the log never changes hands, and the sender's balances again.
  <1>6. /\ \A pid \in DOMAIN log : /\ pid \in DOMAIN log' /\ log'[pid] \in LogEntry
                                   /\ log'[pid].key = log[pid].key
        /\ \A pid \in DOMAIN log' : log'[pid] \in LogEntry
        /\ \A p \in players' : log'[p.pid].key = p.key /\ Balanced(p, log'[p.pid])
        /\ game'.nextpid <= MaxJoin + 1 /\ game'.nextpid >= game.nextpid
    <2>1. ASSUME NEW p \in players, NEW q \in players', p.key = m.key, q.key = m.key, q.pid = p.pid,
                 players' = (players \ {p}) \cup {q}, game'.nextpid = game.nextpid,
                 \/ m.seq > p.lseq /\ q.lseq = m.seq /\ q.drops = p.drops + (m.seq - p.lseq - 1)
                 \/ q.lseq = p.lseq /\ q.drops = p.drops
          PROVE  <1>6!1 /\ <1>6!2 /\ <1>6!3 /\ <1>6!4
      <3> DEFINE e == log[p.pid]
      <3>1. e \in LogEntry /\ e.key = p.key /\ Balanced(p, e) /\ p.pid \in DOMAIN log
        BY <1>4
      <3>2. log'[p.pid] = [e EXCEPT !.applied =
                  IF \E r \in players : r.pid = q.pid /\ q.lseq > r.lseq THEN @ \cup {m.seq} ELSE @]
        BY <1>2, <2>1, <3>1 DEF Handled
      <3>3. (\E r \in players : r.pid = q.pid /\ q.lseq > r.lseq) <=> q.lseq > p.lseq
        BY <1>5, <2>1
      <3> HIDE DEF e
      <3>4. log'[p.pid] \in LogEntry /\ log'[p.pid].key = p.key
        BY <1>0, <3>1, <3>2 DEF LogEntry
      <3>5. Balanced(q, log'[p.pid])
        <4>1. CASE m.seq > p.lseq /\ q.lseq = m.seq /\ q.drops = p.drops + (m.seq - p.lseq - 1)
          <5>1. log'[p.pid] = [e EXCEPT !.applied = @ \cup {m.seq}]
            BY <3>2, <3>3, <4>1
          <5> QED
            BY <1>0, <3>1, <4>1, <5>1, BalanceStep
        <4>2. CASE q.lseq = p.lseq /\ q.drops = p.drops
          <5>1. ~(q.lseq > p.lseq)
            BY <1>0, <4>2 DEF Session
          <5>2. log'[p.pid] = [e EXCEPT !.applied = @]
            BY <3>2, <3>3, <5>1
          <5>3. log'[p.pid].first = e.first /\ log'[p.pid].applied = e.applied
            BY <3>1, <5>2 DEF LogEntry
          <5> QED
            BY <3>1, <4>2, <5>3 DEF Balanced
        <4> QED
          BY <2>1, <4>1, <4>2
      <3>6. \A pid \in DOMAIN log : pid # p.pid => log'[pid] = log[pid]
        <4> SUFFICES ASSUME NEW pid \in DOMAIN log, pid # p.pid PROVE log'[pid] = log[pid]
          OBVIOUS
        <4>1. \A r \in players' : r.pid = pid => r.key # m.key
          BY <1>5, <2>1
        <4> QED
          BY <1>3, <4>1
      <3>7. \A r \in players' : r # q => r \in players /\ r.pid # p.pid
        BY <1>5, <2>1
      <3>8. DOMAIN log' = DOMAIN log
        BY <1>1, <1>4, <2>1
      <3>9. game.nextpid <= MaxJoin + 1
        BY DEF Inv, LogOK
      <3>10. \A pid \in DOMAIN log : /\ pid \in DOMAIN log' /\ log'[pid] \in LogEntry
                                     /\ log'[pid].key = log[pid].key
        BY <1>4, <3>1, <3>4, <3>6, <3>8 DEF e
      <3>11. \A r \in players' : log'[r.pid].key = r.key /\ Balanced(r, log'[r.pid])
        BY <1>4, <2>1, <3>4, <3>5, <3>6, <3>7
      <3> QED
        BY <1>0, <2>1, <3>8, <3>9, <3>10, <3>11
    <2>2. ASSUME NEW q \in players', \A p \in players : p.key # m.key,
                 q.key = m.key, q.pid = game.nextpid, q.lseq = m.seq, q.drops = 0,
                 players' = players \cup {q}, game.nextpid <= MaxJoin,
                 game'.nextpid = game.nextpid + 1
          PROVE  <1>6!1 /\ <1>6!2 /\ <1>6!3 /\ <1>6!4
      <3>1. q.pid \notin DOMAIN log
        BY <1>0, <1>4, <2>2
      <3>2. log'[q.pid] = [key |-> q.key, first |-> m.seq, applied |-> {m.seq}]
        BY <1>2, <2>2, <3>1 DEF Handled
      <3>3. log'[q.pid] \in LogEntry /\ log'[q.pid].key = q.key
        BY <1>0, <2>2, <3>2 DEF LogEntry
      <3>4. Balanced(q, log'[q.pid])
        BY <1>0, <2>2, <3>2, BalanceFirst
      <3>5. \A pid \in DOMAIN log : log'[pid] = log[pid]
        <4> SUFFICES ASSUME NEW pid \in DOMAIN log PROVE log'[pid] = log[pid]
          OBVIOUS
        <4>1. \A r \in players' : r.pid = pid => r.key # m.key
          BY <2>2, <3>1
        <4> QED
          BY <1>3, <4>1
      <3>6. DOMAIN log' = DOMAIN log \cup {q.pid}
        BY <1>0, <1>1, <1>4, <2>2
      <3>7. MaxJoin \in Nat
        BY NumAssumption DEF NumAssumption
      <3> QED
        BY <1>0, <1>4, <2>2, <3>3, <3>4, <3>5, <3>6, <3>7
    <2>3. ASSUME \A p \in players : p.key # m.key, players' = players, game'.nextpid = game.nextpid
          PROVE  <1>6!1 /\ <1>6!2 /\ <1>6!3 /\ <1>6!4
      <3>1. \A pid \in DOMAIN log : log'[pid] = log[pid]
        BY <1>3, <2>3
      <3>2. DOMAIN log' = DOMAIN log /\ game.nextpid <= MaxJoin + 1
        BY <1>1, <1>4, <2>3 DEF Inv, LogOK
      <3> QED
        BY <1>0, <1>4, <2>3, <3>1, <3>2
    <2> QED
      BY <1>1, <2>1, <2>2, <2>3 DEF DriveEffect
  <1>7. LogOK'
    <2> DEFINE D == DOMAIN log \cup {p.pid : p \in players'}
               E(pid) == IF \E p \in players' : p.pid = pid /\ p.key = m.key
                         THEN Handled(CHOOSE p \in players' : p.pid = pid, m.seq) ELSE log[pid]
    <2>1. log' = [pid \in D |-> E(pid)]
      BY DEF Receive
    <2> HIDE DEF D, E
    <2>2. log' = [pid \in DOMAIN log' |-> log'[pid]]
      BY <2>1
    <2> QED
      BY <1>1, <1>6, <2>2 DEF LogOK
  <1>8. UNCHANGED <<client, down>> /\ up' \subseteq up
    BY DEF Receive
  <1>9. DownOK'
    BY <1>4, <1>1, <1>6, <1>8 DEF Inv, DownOK
  <1>10. MeOK'
    BY <1>4, <1>1, <1>6, <1>8 DEF Inv, MeOK
  <1>11. SendersOK'
    BY <1>8 DEF Inv, SendersOK
  <1>12. DropsBalance'
    BY <1>6 DEF DropsBalance, Balanced
  <1> QED
    BY <1>7, <1>9, <1>10, <1>11, <1>12 DEF Inv

----------------------------------------------------------------------------
(* Everything else.                                                        *)

\* Ships are as many as their owners at most: the snapshot's count is a number.
LEMMA BodiesAreCounted == ASSUME SimInv PROVE Bodies \in Nat
  <1> DEFINE owners == [s \in ships |-> s.owner]
             T == 1..(game.nextpid - 1)
  <1>0. /\ ships \subseteq Ship /\ players \subseteq Session /\ game.nextpid \in Nat
        /\ field \in PerClass /\ bullets \in Nat
    BY DEF SimInv, TypeOK, GameRow
  <1>1. \A s \in ships : s.owner \in T
    BY <1>0 DEF SimInv, ShipsOwned, SessionsDistinct, Session
  <1>2. \A r, s \in ships : owners[r] = owners[s] => r = s
    BY DEF SimInv, ShipsOwned
  <1>3. owners \in Injection(ships, T)
    BY <1>1, <1>2 DEF Injection, IsInjective
  <1>4. IsFiniteSet(T)
    BY <1>0, FS_Interval
  <1>5. IsFiniteSet(ships)
    BY <1>3, <1>4, FS_Injection
  <1>6. Cardinality(ships) \in Nat
    BY <1>5, FS_CardinalityType
  <1> QED
    BY <1>0, <1>6 DEF Bodies, Total, PerClass

\* A step of the server other than a receive.
LEMMA ServerInv ==
  ASSUME Inv, SimInv', DrainDone \/ DrainErr \/ Rules \/ Broadcast \/ UNCHANGED vars,
         UNCHANGED <<client, up, log>>, DownOK'
  PROVE  Inv'
  <1>1. RowsKept(players, players') /\ game'.nextpid = game.nextpid
    BY QuietStep DEF Inv
  <1>2. LogOK'
    BY <1>1 DEF Inv, LogOK, RowsKept
  <1>3. DropsBalance'
    <2> SUFFICES ASSUME NEW q \in players'
                 PROVE  Balanced(q, log[q.pid])
      BY DEF DropsBalance, Balanced
    <2>1. PICK p \in players : p.pid = q.pid /\ p.lseq = q.lseq /\ p.drops = q.drops
      BY <1>1 DEF RowsKept
    <2>2. Balanced(p, log[p.pid])
      BY DEF Inv, DropsBalance, Balanced
    <2> QED
      BY <2>1, <2>2 DEF Balanced
  <1>4. SendersOK' /\ MeOK'
    BY <1>1 DEF Inv, SendersOK, MeOK
  <1> QED
    BY <1>2, <1>3, <1>4 DEF Inv

LEMMA BroadcastInv == ASSUME NumAssumption, NetAssumption, Inv, SimInv', NetBroadcast PROVE Inv'
  <1> DEFINE old == {[d EXCEPT !.age = @ + 1] : d \in {e \in down : e.age < MaxDelay}}
             new == {Snapshot(p) : p \in players}
             D == [key : Keys, age : 0..MaxDelay, you : 0..MaxJoin, n : Nat]
             Named(d) == d.you \in 1..(game.nextpid - 1) /\ log[d.you].key = d.key
  <1>0. Broadcast /\ UNCHANGED <<client, up, log>> /\ down' \subseteq old \cup new
    BY DEF NetBroadcast
  <1>1. game'.nextpid = game.nextpid
    BY <1>0 DEF Broadcast
  <1>2. \A d \in old : d \in D /\ Named(d)
    <2> SUFFICES ASSUME NEW d \in down, d.age < MaxDelay
                 PROVE  [d EXCEPT !.age = @ + 1] \in D /\ Named([d EXCEPT !.age = @ + 1])
      OBVIOUS
    <2>1. d \in D /\ Named(d)
      BY DEF Inv, DownOK
    <2>2. d.age + 1 \in 0..MaxDelay
      BY <2>1, NetAssumption DEF NetAssumption
    <2> QED
      BY <2>1, <2>2
  <1>3. \A d \in new : d \in D /\ Named(d)
    <2> SUFFICES ASSUME NEW p \in players PROVE Snapshot(p) \in D /\ Named(Snapshot(p))
      OBVIOUS
    <2>1. p \in Session /\ p.pid \in 1..(game.nextpid - 1) /\ log[p.pid].key = p.key
      <3>1. p \in Session /\ game.nextpid \in Nat
        BY DEF Inv, SimInv, TypeOK, GameRow
      <3>2. 0 < p.pid /\ p.pid < game.nextpid
        BY DEF Inv, SimInv, SessionsDistinct
      <3>3. p.pid \in 1..(game.nextpid - 1)
        BY <3>1, <3>2 DEF Session
      <3> QED
        BY <3>1, <3>3 DEF Inv, LogOK
    <2>2. p.pid \in 0..MaxJoin
      <3>1. game.nextpid \in Nat
        BY DEF Inv, SimInv, TypeOK, GameRow
      <3>2. game.nextpid <= MaxJoin + 1
        BY DEF Inv, LogOK
      <3>3. MaxJoin \in Nat
        BY NumAssumption DEF NumAssumption
      <3> QED
        BY <2>1, <3>1, <3>2, <3>3
    <2>3. Bodies \in Nat /\ 0 \in 0..MaxDelay /\ p.key \in Keys
      BY <2>1, BodiesAreCounted, NetAssumption DEF Inv, NetAssumption, Session
    <2> DEFINE b == Bodies
    <2>4. Snapshot(p) = [key |-> p.key, age |-> 0, you |-> p.pid, n |-> b]
      BY DEF Snapshot
    <2> HIDE DEF b
    <2> QED
      BY <2>1, <2>2, <2>3, <2>4 DEF b
  <1>4. DownOK'
    <2>1. \A d \in down' : d \in D /\ Named(d)
      BY <1>0, <1>2, <1>3
    <2> QED
      BY <1>0, <1>1, <2>1 DEF DownOK
  <1> QED
    BY <1>0, <1>4, ServerInv

\* A client believes what the snapshot it applied last says, and that was sent to it.
LEMMA FrameInv ==
  ASSUME NumAssumption, NetAssumption, Inv, NEW k \in Keys, ClientFrame(k)
  PROVE  Inv'
  <1> DEFINE R == [run : BOOLEAN, iseq : 0..F32Exact, me : 0..MaxJoin, rows : 0..ViewCap]
             Mine(c, j) == c.me # 0 => c.me \in 1..(game.nextpid - 1) /\ log[c.me].key = j
             inbox == {d \in down : d.key = k}
  <1>0. UNCHANGED <<log, vars>>
    BY DEF ClientFrame
  <1>1. PICK fire \in Buttons, got \in SUBSET inbox :
            /\ down' \subseteq down
            /\ \/ got = {} /\ Frame(k, fire, got, {}, {})
               \/ \E last, shown \in got :
                    /\ (\E d \in got : d.n > 0) => shown.n > 0
                    /\ last.n > 0 => shown = last
                    /\ Frame(k, fire, got, last, shown)
    BY DEF ClientFrame
  <1>2. client \in [Keys -> R] /\ client[k] \in R /\ \A j \in Keys : Mine(client[j], j)
    BY DEF Inv, SendersOK, MeOK
  <1>3. PICK c \in R : Mine(c, k) /\ client' = [client EXCEPT ![k] = c]
    <2>1. Absent \in R /\ Mine(Absent, k)
      <3>1. 0 \in 0..F32Exact /\ 0 \in 0..MaxJoin /\ 0 \in 0..ViewCap
        BY NetAssumption, NumAssumption DEF NetAssumption, NumAssumption
      <3> QED
        BY <3>1 DEF Absent, Started
    <2>2. ASSUME NEW h \in R PROVE /\ [h EXCEPT !.iseq = Bump(@)] \in R
                                   /\ [h EXCEPT !.iseq = Bump(@)].me = h.me
      <3>1. Bump(h.iseq) \in 0..F32Exact
        BY <2>2, NetAssumption DEF Bump, NetAssumption
      <3> DEFINE b == Bump(h.iseq)
      <3> HIDE DEF b
      <3>2. [h EXCEPT !.iseq = b] \in R /\ [h EXCEPT !.iseq = b].me = h.me
        BY <2>2, <3>1 DEF b
      <3> QED
        BY <3>2 DEF b
    <2>3. CASE got = {} /\ Frame(k, fire, got, {}, {})
      <3>1. client' = [client EXCEPT ![k] = [client[k] EXCEPT !.iseq = Bump(@)]]
        BY <2>3 DEF Frame
      <3> QED
        BY <1>2, <2>2, <3>1
    <2>4. ASSUME NEW last \in got, NEW shown \in got, Frame(k, fire, got, last, shown)
          PROVE  \E c \in R : Mine(c, k) /\ client' = [client EXCEPT ![k] = c]
      <3> DEFINE heard == [client[k] EXCEPT !.me = last.you]
                 drawn == IF \A d \in got : d.n = 0 THEN heard ELSE [heard EXCEPT !.rows = shown.n]
      <3>1. \/ client' = [client EXCEPT ![k] = Absent]
            \/ /\ \A d \in got : ~(d.n > ViewCap)
               /\ client' = [client EXCEPT ![k] = [drawn EXCEPT !.iseq = Bump(@)]]
        BY <2>4 DEF Frame
      <3>2. /\ last.you \in 0..MaxJoin /\ last.you \in 1..(game.nextpid - 1)
            /\ log[last.you].key = k /\ shown.n \in Nat
        BY <2>4 DEF Inv, DownOK
      <3>3. heard \in R /\ heard.me = last.you
        BY <1>2, <3>2
      <3> HIDE DEF heard
      <3>4. CASE \A d \in got : ~(d.n > ViewCap)
        <4>1. shown.n \in 0..ViewCap
          BY <2>4, <3>2, <3>4, NetAssumption DEF NetAssumption
        <4>2. drawn \in R /\ drawn.me = last.you
          BY <3>3, <4>1
        <4> HIDE DEF drawn
        <4> QED
          BY <2>1, <2>2, <3>1, <3>2, <4>2
      <3> QED
        BY <2>1, <3>1, <3>4
    <2> QED
      BY <1>1, <2>3, <2>4, <1>2, <2>2
  <1>4. client' \in [Keys -> R] /\ \A j \in Keys : Mine(client'[j], j)
    BY <1>2, <1>3
  <1>5. up' \subseteq [key : Keys, seq : 0..MaxSeq, fire : BOOLEAN]
    <2>1. \/ up' = up
          \/ up' = up \cup {[key |-> k, seq |-> Bump(client[k].iseq), fire |-> fire]}
      BY <1>1 DEF Frame
    <2>2. Bump(client[k].iseq) \in 0..MaxSeq
      BY <1>2, NetAssumption DEF Bump, NetAssumption
    <2>3. fire \in BOOLEAN
      BY NetAssumption DEF NetAssumption
    <2>4. up \subseteq [key : Keys, seq : 0..MaxSeq, fire : BOOLEAN]
      BY DEF Inv, SendersOK
    <2> DEFINE b == Bump(client[k].iseq)
    <2>5. b \in 0..MaxSeq /\ (up' = up \/ up' = up \cup {[key |-> k, seq |-> b, fire |-> fire]})
      BY <2>1, <2>2
    <2> HIDE DEF b
    <2> QED
      BY <2>3, <2>4, <2>5
  <1>6. SendersOK' /\ MeOK'
    BY <1>0, <1>4, <1>5 DEF SendersOK, MeOK, vars
  <1>7. DownOK'
    BY <1>0, <1>1 DEF Inv, DownOK, vars
  <1>8. SimInv' /\ LogOK' /\ DropsBalance'
    <2>1. SimInv'
      BY <1>0, NextInv DEF Inv
    <2> QED
      BY <1>0, <2>1 DEF Inv, LogOK, DropsBalance, vars
  <1> QED
    BY <1>6, <1>7, <1>8 DEF Inv

\* Clients that come and go, and datagrams that get lost.
LEMMA ComeAndGoInv ==
  ASSUME NumAssumption, NetAssumption, Inv, Lose \/ \E k \in Keys : Start(k) \/ Quit(k)
  PROVE  Inv'
  <1> DEFINE R == [run : BOOLEAN, iseq : 0..F32Exact, me : 0..MaxJoin, rows : 0..ViewCap]
  <1>0. UNCHANGED <<log, vars>> /\ up' \subseteq up /\ down' \subseteq down
    BY DEF Lose, Start, Quit
  <1>1. SimInv' /\ LogOK' /\ DropsBalance' /\ DownOK'
    <2>1. SimInv'
      BY <1>0, NextInv DEF Inv
    <2> QED
      BY <1>0, <2>1 DEF Inv, LogOK, DropsBalance, DownOK, vars
  <1>2. SendersOK' /\ MeOK'
    <2>1. CASE client' = client
      BY <1>0, <2>1 DEF Inv, SendersOK, MeOK, vars
    <2>2. ASSUME NEW k \in Keys, NEW c, c \in {Started, Absent}, client' = [client EXCEPT ![k] = c]
          PROVE  SendersOK' /\ MeOK'
      <3>1. 0 \in 0..F32Exact /\ 0 \in 0..MaxJoin /\ 0 \in 0..ViewCap
        BY NetAssumption, NumAssumption DEF NetAssumption, NumAssumption
      <3>2. c \in R /\ c.me = 0
        <4>1. Started \in R /\ Started.me = 0
          BY <3>1 DEF Started
        <4>2. Absent \in R /\ Absent.me = 0
          BY <3>1 DEF Started, Absent
        <4> QED
          BY <2>2, <4>1, <4>2
      <3>3. client \in [Keys -> R]
        BY DEF Inv, SendersOK
      <3>4. client' \in [Keys -> R] /\ \A j \in Keys : client'[j] = client[j] \/ client'[j].me = 0
        BY <2>2, <3>2, <3>3
      <3> QED
        BY <1>0, <3>4 DEF Inv, SendersOK, MeOK, vars
    <2> QED
      BY <2>1, <2>2 DEF Lose, Start, Quit
  <1> QED
    BY <1>1, <1>2 DEF Inv

LEMMA NetNextInv == ASSUME NumAssumption, NetAssumption, Inv, [NetNext]_allVars PROVE Inv'
  <1>1. ASSUME NEW m \in up, Receive(m) PROVE Inv'
    <2>1. Next
      <3>1. m.key \in Keys /\ m.seq \in 0..MaxSeq /\ m.fire \in BOOLEAN
        BY DEF Inv, SendersOK
      <3> QED
        BY <1>1, <3>1 DEF Receive, Next
    <2>2. SimInv'
      BY <2>1, NextInv DEF Inv
    <2> QED
      BY <1>1, <2>2, ReceiveInv
  <1>2. CASE (DrainDone \/ DrainErr \/ Rules) /\ UNCHANGED netVars
    <2>1. SimInv'
      BY <1>2, NextInv DEF Inv, Next
    <2>2. game'.nextpid = game.nextpid
      BY <1>2, QuietStep DEF Inv
    <2>3. DownOK'
      BY <1>2, <2>2 DEF Inv, DownOK, netVars
    <2> QED
      BY <1>2, <2>1, <2>3, ServerInv DEF netVars
  <1>3. CASE NetBroadcast
    <2>1. SimInv'
      BY <1>3, NextInv DEF Inv, Next, NetBroadcast
    <2> QED
      BY <1>3, <2>1, BroadcastInv
  <1>4. CASE Lose \/ \E k \in Keys : Start(k) \/ Quit(k)
    BY <1>4, ComeAndGoInv
  <1>5. ASSUME NEW k \in Keys, ClientFrame(k) PROVE Inv'
    BY <1>5, FrameInv
  <1>6. CASE UNCHANGED allVars
    <2>1. SimInv'
      BY <1>6, NextInv DEF Inv, allVars
    <2> QED
      BY <1>6, <2>1 DEF allVars, netVars, vars, Inv, SendersOK, LogOK, DownOK, MeOK, DropsBalance
  <1> QED
    BY <1>1, <1>2, <1>3, <1>4, <1>5, <1>6 DEF NetNext

LEMMA InvHolds == NetSpec => []Inv
  <1>1. NetInit => Inv
    BY InitNetInv
  <1>2. Inv /\ [NetNext]_allVars => Inv'
    BY NetNextInv, NumAssumption, NetAssumption
  <1> QED
    BY <1>1, <1>2, PTL DEF NetSpec

----------------------------------------------------------------------------
\* Whatever the network loses, repeats or delays, and however often a client quits and
\* comes back on the same port: the gap count balances with the inputs applied, and
\* every datagram, client and log entry keeps its type.
THEOREM NetInvariant == NetSpec => []NetInv
  <1>1. Inv => NetInv
    <2> SUFFICES ASSUME Inv PROVE NetTypeOK
      BY DEF Inv, NetInv
    <2>1. DOMAIN log = 1..(game.nextpid - 1)
      BY DEF Inv, LogOK
    <2> QED
      BY <2>1 DEF Inv, SimInv, SendersOK, DownOK, NetTypeOK
  <1> QED
    BY <1>1, InvHolds, PTL

\* apply's `you` is always the client's own ship, even when the snapshot was sent to
\* an earlier process on the same port: pids are never handed out twice.
THEOREM NoForeignShip == NetSpec => []MeIsMine
  <1>1. Inv => MeIsMine
    BY DEF Inv, MeOK, MeIsMine
  <1> QED
    BY <1>1, InvHolds, PTL

=============================================================================
