---------------------------- MODULE ServerProofs ----------------------------
(***************************************************************************)
(* Proofs about two servers.  VercelServe, for every set of requests,      *)
(* every surface and every size of the buffers: no client gets an answer   *)
(* made for another.  Podnet, for every number of slots, every guard and   *)
(* every number of connections: a row belongs to the connection announced  *)
(* in its slot.                                                            *)
(***************************************************************************)
EXTENDS VercelServe, Podnet, SequenceTheorems, TLAPS

----------------------------------------------------------------------------
(* The inductive invariant of VercelServe.                                 *)

\* The body a handler works with, once it has read it.
BodyOf(r) == IF kind[r].method = "GET" THEN NoBody ELSE [low |-> kind[r].low, high |-> kind[r].high]

\* What a handler holds is an answer to its own request, got by the way its path has.
Own(r, h) ==
    /\ h.from \in {"nobody", "backend", "reactor", "adapter", "harness"}
    /\ h.from = "backend" => h = Reply(200, "backend", kind[r].path, BodyOf(r))
    /\ h.from = "reactor" =>
          /\ ~IsLive(kind[r].path)
          /\ h = Handled(Reply(0, "client", Target(kind[r].path), Encoded(BodyOf(r))))

\* A handler that asks, or fetches, has read its body and taken the right turn.
TurnOK ==
    \A r \in Reqs :
        /\ at[r] \in {"fetching", "waiting"} => body[r] = BodyOf(r)
        /\ at[r] = "waiting" => ~IsLive(kind[r].path)

HeldOwn == \A r \in Reqs : Own(r, held[r]) /\ Own(r, sent[r])

Inv == TypeOK /\ TurnOK /\ HeldOwn

----------------------------------------------------------------------------

\* The answers the code can make are replies.
LEMMA Replies ==
  ASSUME ServeAssumption, TypeOK
  PROVE  /\ Nothing \in ReplyRec /\ Failure \in ReplyRec
         /\ Reply(414, "adapter", <<>>, NoBody) \in ReplyRec
         /\ Reply(500, "adapter", <<>>, NoBody) \in ReplyRec
         /\ \A r \in Reqs : Reply(200, "backend", kind[r].path, body[r]) \in ReplyRec
         /\ \A r \in Reqs : LET q == Reply(0, "client", Target(kind[r].path), Encoded(body[r]))
                            IN  q \in ReplyRec /\ Handled(q) \in ReplyRec
  <1>1. /\ Nothing \in ReplyRec /\ Failure \in ReplyRec
        /\ Reply(414, "adapter", <<>>, NoBody) \in ReplyRec
        /\ Reply(500, "adapter", <<>>, NoBody) \in ReplyRec
    BY DEF Nothing, Failure, Reply, NoBody, ReplyRec
  <1>2. ASSUME NEW r \in Reqs
        PROVE  /\ Reply(200, "backend", kind[r].path, body[r]) \in ReplyRec
               /\ LET q == Reply(0, "client", Target(kind[r].path), Encoded(body[r]))
                  IN  q \in ReplyRec /\ Handled(q) \in ReplyRec
    <2>1. kind[r] \in Kinds /\ body[r] \in [low : Nat, high : Nat]
      BY DEF TypeOK
    <2> DEFINE p == kind[r].path
               b == body[r]
               t == Target(p)
    <2>2. p \in {k.path : k \in Kinds} /\ t \in {k.path : k \in Kinds} \cup {Fallback, <<>>}
      BY <2>1 DEF Target
    <2>3. b.low \in Nat /\ 2 * b.high \in Nat /\ b.high \in Nat
      BY <2>1
    <2> HIDE DEF p, b, t
    <2>4. Reply(200, "backend", p, b) \in ReplyRec
      BY <2>2, <2>3 DEF Reply, ReplyRec
    <2>5. Reply(0, "client", t, Encoded(b)) \in ReplyRec
      BY <2>2, <2>3 DEF Reply, ReplyRec, Encoded
    <2>6. \A q \in ReplyRec : Handled(q) \in ReplyRec
      BY DEF Handled, Reply, ReplyRec
    <2> QED
      BY <2>4, <2>5, <2>6 DEF p, b, t
  <1> QED
    BY <1>1, <1>2

LEMMA InitServe == ASSUME ServeAssumption, Init PROVE Inv
  <1>1. Nothing \in ReplyRec /\ Nothing.from = "nobody"
    BY DEF Nothing, ReplyRec
  <1>2. NoBody \in [low : Nat, high : Nat]
    BY DEF NoBody
  <1>3. TypeOK
    BY <1>1, <1>2 DEF Init, TypeOK
  <1>4. TurnOK
    BY DEF Init, TurnOK
  <1>5. HeldOwn
    BY <1>1 DEF Init, HeldOwn, Own
  <1> QED
    BY <1>3, <1>4, <1>5 DEF Inv

\* What a handler may do to what is held and sent: keep it, or put in an answer of its own.
LEMMA HandlerInv ==
  ASSUME Inv, NEW r \in Reqs, UNCHANGED <<ready, kind>>,
         NEW a \in {"fetching", "waiting", "answered", "done"}, at' = [at EXCEPT ![r] = a],
         NEW b \in [low : Nat, high : Nat], body' = [body EXCEPT ![r] = b],
         NEW h \in ReplyRec, Own(r, h), held' = [held EXCEPT ![r] = h],
         NEW s \in ReplyRec, Own(r, s), sent' = [sent EXCEPT ![r] = s],
         a \in {"fetching", "waiting"} => b = BodyOf(r),
         a = "waiting" => ~IsLive(kind[r].path),
         request' \in ReplyRec, response' \in ReplyRec,
         request'.from = "client" => HeadLen + request'.low + request'.high <= Cap
  PROVE  Inv'
  <1>1. TypeOK'
    BY DEF Inv, TypeOK
  <1>2. TurnOK'
    <2>1. \A q : BodyOf(q)' = BodyOf(q) /\ (IsLive(kind[q].path))' = IsLive(kind[q].path)
      BY DEF BodyOf, IsLive
    <2> SUFFICES ASSUME NEW q \in Reqs
                 PROVE  /\ at'[q] \in {"fetching", "waiting"} => body'[q] = BodyOf(q)
                        /\ at'[q] = "waiting" => ~IsLive(kind[q].path)
      BY <2>1 DEF TurnOK
    <2>2. at \in [Reqs -> {"new", "fetching", "waiting", "answered", "done"}]
          /\ body \in [Reqs -> [low : Nat, high : Nat]]
      BY DEF Inv, TypeOK
    <2>3. CASE q = r
      BY <2>2, <2>3
    <2>4. CASE q # r
      <3>1. at'[q] = at[q] /\ body'[q] = body[q]
        BY <2>2, <2>4
      <3> QED
        BY <3>1 DEF Inv, TurnOK
    <2> QED
      BY <2>3, <2>4
  <1>3. \A q \in Reqs : \A x : Own(q, x)' = Own(q, x)
    BY DEF Own, BodyOf
  <1>4. HeldOwn'
    BY <1>3 DEF Inv, TypeOK, HeldOwn
  <1> QED
    BY <1>1, <1>2, <1>4 DEF Inv

LEMMA ReadBodyInv == ASSUME ServeAssumption, Inv, NEW r \in Reqs, ReadBody(r) PROVE Inv'
  <1>0. /\ kind[r] \in Kinds /\ kind[r].low \in Nat /\ kind[r].high \in Nat
        /\ body \in [Reqs -> [low : Nat, high : Nat]]
        /\ held \in [Reqs -> ReplyRec] /\ sent \in [Reqs -> ReplyRec]
        /\ request \in ReplyRec /\ response \in ReplyRec
        /\ request.from = "client" => HeadLen + request.low + request.high <= Cap
    BY DEF Inv, TypeOK, ServeAssumption
  <1>1. Own(r, held[r]) /\ Own(r, sent[r])
    BY DEF Inv, HeldOwn
  <1>2. UNCHANGED <<ready, kind, request, response, held>>
    BY DEF ReadBody
  <1>3. CASE /\ body' = [body EXCEPT ![r] = BodyOf(r)] /\ sent' = sent
             /\ at' = [at EXCEPT ![r] = IF IsLive(kind[r].path) THEN "fetching" ELSE "waiting"]
    <2>1. BodyOf(r) \in [low : Nat, high : Nat]
      BY <1>0 DEF BodyOf, NoBody
    <2> DEFINE a == IF IsLive(kind[r].path) THEN "fetching" ELSE "waiting"
    <2>2. a \in {"fetching", "waiting"} /\ (a = "waiting" => ~IsLive(kind[r].path))
      OBVIOUS
    <2>3. at' = [at EXCEPT ![r] = a]
      BY <1>3
    <2> HIDE DEF a
    <2>4. held' = [held EXCEPT ![r] = held[r]] /\ sent' = [sent EXCEPT ![r] = sent[r]]
      BY <1>0, <1>2, <1>3
    <2>5. held[r] \in ReplyRec /\ sent[r] \in ReplyRec
      BY <1>0
    <2> QED
      BY <1>0, <1>1, <1>2, <1>3, <2>1, <2>2, <2>3, <2>4, <2>5, HandlerInv
  <1>4. CASE Throws(r) /\ body' = body
    <2>1. /\ at' = [at EXCEPT ![r] = "done"] /\ sent' = [sent EXCEPT ![r] = Failure]
          /\ body' = [body EXCEPT ![r] = body[r]] /\ held' = [held EXCEPT ![r] = held[r]]
      BY <1>0, <1>2, <1>4 DEF Throws
    <2>2. body[r] \in [low : Nat, high : Nat] /\ held[r] \in ReplyRec /\ Failure \in ReplyRec
      BY <1>0, Replies DEF Inv
    <2>3. Own(r, Failure)
      BY DEF Own, Failure, Reply
    <2> QED
      BY <1>0, <1>1, <1>2, <2>1, <2>2, <2>3, HandlerInv
  <1> QED
    BY <1>3, <1>4 DEF ReadBody, BodyOf

LEMMA AskInv == ASSUME ServeAssumption, Inv, NEW r \in Reqs, Ask(r) PROVE Inv'
  <1> DEFINE path == kind[r].path
             q == Reply(0, "client", Target(path), Encoded(body[r]))
             tooLong == Reply(414, "adapter", <<>>, NoBody)
             broken == Reply(500, "adapter", <<>>, NoBody)
  <1>0. /\ kind[r] \in Kinds /\ body[r] \in [low : Nat, high : Nat]
        /\ body \in [Reqs -> [low : Nat, high : Nat]]
        /\ held \in [Reqs -> ReplyRec] /\ sent \in [Reqs -> ReplyRec]
        /\ request \in ReplyRec /\ response \in ReplyRec
        /\ request.from = "client" => HeadLen + request.low + request.high <= Cap
    BY DEF Inv, TypeOK
  <1>1. Own(r, held[r]) /\ Own(r, sent[r])
    BY DEF Inv, HeldOwn
  <1>2. body[r] = BodyOf(r) /\ ~IsLive(path)
    BY DEF Ask, Inv, TurnOK
  <1>3. /\ body' = [body EXCEPT ![r] = body[r]] /\ UNCHANGED <<ready, kind>>
        /\ held[r] \in ReplyRec /\ sent[r] \in ReplyRec
    BY <1>0 DEF Ask
  <1>4. /\ q \in ReplyRec /\ Handled(q) \in ReplyRec
        /\ tooLong \in ReplyRec /\ broken \in ReplyRec /\ Failure \in ReplyRec
    BY Replies DEF Inv
  <1>5. Own(r, tooLong) /\ Own(r, broken) /\ Own(r, Failure)
    BY DEF Own, Reply, Failure
  <1>6. Own(r, Handled(q))
    <2>1. Handled(q).from = "reactor"
      BY DEF Handled, Reply
    <2> QED
      BY <1>2, <2>1 DEF Own
  <1>7. ~(RawLen(body[r]) > Cap) => (q.from = "client" => HeadLen + q.low + q.high <= Cap)
    <2>1. q.low = Encoded(body[r]).low /\ q.high = Encoded(body[r]).high
      BY DEF Reply
    <2>2. HeadLen \in Nat /\ Cap \in Nat /\ Encoded(body[r]).low \in Nat /\ Encoded(body[r]).high \in Nat
      BY <1>0 DEF ServeAssumption, Encoded
    <2> HIDE DEF q
    <2> QED
      BY <2>1, <2>2 DEF RawLen
  <1>8. ASSUME NEW h \in ReplyRec, Own(r, h), held' = [held EXCEPT ![r] = h],
               at' = [at EXCEPT ![r] = "answered"], sent' = sent,
               request' \in ReplyRec, response' \in ReplyRec,
               request'.from = "client" => HeadLen + request'.low + request'.high <= Cap
        PROVE  Inv'
    <2>1. sent' = [sent EXCEPT ![r] = sent[r]]
      BY <1>0, <1>8
    <2>2. body' = [body EXCEPT ![r] = body[r]] /\ body[r] \in [low : Nat, high : Nat]
          /\ sent[r] \in ReplyRec /\ Own(r, sent[r]) /\ UNCHANGED <<ready, kind>>
      BY <1>0, <1>1, <1>3
    <2> QED
      BY <1>8, <2>1, <2>2, HandlerInv
  <1>9. CASE /\ held' = [held EXCEPT ![r] = tooLong] /\ at' = [at EXCEPT ![r] = "answered"]
             /\ UNCHANGED <<request, response, sent>>
    <2> HIDE DEF tooLong
    <2> QED
      BY <1>0, <1>4, <1>5, <1>8, <1>9
  <1>10. CASE /\ ~(RawLen(body[r]) > Cap) /\ request' = q
              /\ \/ response' = Handled(q) /\ held' = [held EXCEPT ![r] = Handled(q)]
                 \/ held' = [held EXCEPT ![r] = broken] /\ UNCHANGED response
              /\ at' = [at EXCEPT ![r] = "answered"] /\ UNCHANGED sent
    <2> HIDE DEF q, broken
    <2>1. /\ request' \in ReplyRec /\ response' \in ReplyRec
          /\ request'.from = "client" => HeadLen + request'.low + request'.high <= Cap
      BY <1>0, <1>4, <1>7, <1>10
    <2>2. CASE held' = [held EXCEPT ![r] = Handled(q)]
      <3> DEFINE h == Handled(q)
      <3>1. h \in ReplyRec /\ Own(r, h) /\ held' = [held EXCEPT ![r] = h]
        BY <1>4, <1>6, <2>2
      <3> HIDE DEF h
      <3> QED
        BY <3>1, <2>1, <1>8, <1>10
    <2>3. CASE held' = [held EXCEPT ![r] = broken]
      BY <1>4, <1>5, <1>8, <1>10, <2>1, <2>3
    <2> QED
      BY <1>10, <2>2, <2>3
  <1>11. CASE /\ ~(RawLen(body[r]) > Cap) /\ request' = q /\ Throws(r) /\ UNCHANGED <<response, held>>
    <2>1. /\ held' = [held EXCEPT ![r] = held[r]] /\ at' = [at EXCEPT ![r] = "done"]
          /\ sent' = [sent EXCEPT ![r] = Failure]
      BY <1>0, <1>11 DEF Throws
    <2> HIDE DEF q
    <2>2. /\ request' \in ReplyRec /\ response' \in ReplyRec
          /\ request'.from = "client" => HeadLen + request'.low + request'.high <= Cap
      BY <1>0, <1>4, <1>7, <1>11
    <2>3. body' = [body EXCEPT ![r] = body[r]] /\ UNCHANGED <<ready, kind>>
          /\ held[r] \in ReplyRec /\ Failure \in ReplyRec /\ Own(r, held[r]) /\ Own(r, Failure)
      BY <1>1, <1>3, <1>4, <1>5
    <2>4. body[r] \in [low : Nat, high : Nat]
      BY <1>0
    <2> QED
      BY <2>1, <2>2, <2>3, <2>4, HandlerInv
  <1> QED
    BY <1>9, <1>10, <1>11 DEF Ask

\* The steps that only hand on what is there.
LEMMA OtherInv ==
  ASSUME ServeAssumption, Inv, NEW r \in Reqs, Upstream(r) \/ NotReady(r) \/ Respond(r)
  PROVE  Inv'
  <1> DEFINE live == Reply(200, "backend", kind[r].path, body[r])
  <1>0. /\ kind[r] \in Kinds /\ body[r] \in [low : Nat, high : Nat]
        /\ body \in [Reqs -> [low : Nat, high : Nat]]
        /\ held \in [Reqs -> ReplyRec] /\ sent \in [Reqs -> ReplyRec]
        /\ request \in ReplyRec /\ response \in ReplyRec
        /\ request.from = "client" => HeadLen + request.low + request.high <= Cap
    BY DEF Inv, TypeOK
  <1>1. Own(r, held[r]) /\ Own(r, sent[r])
    BY DEF Inv, HeldOwn
  <1>2. /\ body' = [body EXCEPT ![r] = body[r]] /\ UNCHANGED <<ready, kind, request, response>>
        /\ held[r] \in ReplyRec /\ sent[r] \in ReplyRec
    BY <1>0 DEF Upstream, NotReady, Respond
  <1>3. live \in ReplyRec /\ Failure \in ReplyRec
    BY Replies DEF Inv
  <1>4. Own(r, Failure)
    BY DEF Own, Reply, Failure
  <1>5. CASE at[r] = "fetching" /\ held' = [held EXCEPT ![r] = live] /\ sent' = sent
             /\ at' = [at EXCEPT ![r] = "answered"]
    <2>1. body[r] = BodyOf(r)
      BY <1>5 DEF Inv, TurnOK
    <2>2. Own(r, live)
      BY <2>1 DEF Own, Reply
    <2>3. sent' = [sent EXCEPT ![r] = sent[r]]
      BY <1>0, <1>5
    <2> HIDE DEF live
    <2> QED
      BY <1>0, <1>1, <1>2, <1>3, <1>5, <2>2, <2>3, HandlerInv
  <1>6. CASE Throws(r) /\ held' = held
    <2>1. /\ held' = [held EXCEPT ![r] = held[r]] /\ at' = [at EXCEPT ![r] = "done"]
          /\ sent' = [sent EXCEPT ![r] = Failure]
      BY <1>0, <1>6 DEF Throws
    <2> QED
      BY <1>0, <1>1, <1>2, <1>3, <1>4, <2>1, HandlerInv
  <1>7. CASE Respond(r)
    <2>1. /\ held' = [held EXCEPT ![r] = held[r]] /\ at' = [at EXCEPT ![r] = "done"]
          /\ sent' = [sent EXCEPT ![r] = held[r]]
      BY <1>0, <1>7 DEF Respond, Sent
    <2> QED
      BY <1>0, <1>1, <1>2, <2>1, HandlerInv
  <1> QED
    BY <1>5, <1>6, <1>7 DEF Upstream, NotReady

LEMMA NextServe == ASSUME ServeAssumption, Inv, [Next]_vars PROVE Inv'
  <1>1. CASE Ready
    BY <1>1 DEF Ready, Inv, TypeOK, TurnOK, HeldOwn, Own, BodyOf
  <1>2. ASSUME NEW r \in Reqs, Step(r) PROVE Inv'
    BY <1>2, ReadBodyInv, AskInv, OtherInv DEF Step
  <1>3. CASE UNCHANGED vars
    BY <1>3 DEF vars, Inv, TypeOK, TurnOK, HeldOwn, Own, BodyOf
  <1> QED
    BY <1>1, <1>2, <1>3 DEF Next

LEMMA InvHolds == Spec => []Inv
  <1>1. Init => Inv
    BY InitServe, ServeAssumption
  <1>2. Inv /\ [Next]_vars => Inv'
    BY NextServe, ServeAssumption
  <1> QED
    BY <1>1, <1>2, PTL DEF Spec

----------------------------------------------------------------------------
\* However many requests overlap, and however their handlers interleave over the one
\* pair of buffers: every client gets the answer to its own request, and the request
\* buffer is never overrun.
THEOREM AnswersAreOwn == Spec => []AnswersSound
  <1>1. Inv => AnswersSound
    <2> SUFFICES ASSUME Inv PROVE OwnAnswer
      BY DEF Inv, AnswersSound
    <2> SUFFICES ASSUME NEW r \in Reqs, sent[r].from \in {"reactor", "backend"}
                 PROVE  IF sent[r].from = "backend"
                        THEN sent[r] = Reply(200, "backend", kind[r].path, BodyOf(r))
                        ELSE /\ sent[r].path = Target(kind[r].path) /\ sent[r].low = BodyOf(r).low
                             /\ sent[r].high = 2 * BodyOf(r).high
      BY DEF OwnAnswer, BodyOf
    <2>1. Own(r, sent[r])
      BY DEF Inv, HeldOwn
    <2>2. CASE sent[r].from = "backend"
      BY <2>1, <2>2 DEF Own
    <2>3. CASE sent[r].from = "reactor"
      <3>1. sent[r] = Handled(Reply(0, "client", Target(kind[r].path), Encoded(BodyOf(r))))
        BY <2>1, <2>3 DEF Own
      <3> DEFINE t == Target(kind[r].path)
                 b == BodyOf(r)
      <3>2. sent[r] = Handled(Reply(0, "client", t, Encoded(b)))
        BY <3>1
      <3> HIDE DEF t, b
      <3>3. sent[r].path = t /\ sent[r].low = b.low /\ sent[r].high = 2 * b.high
        BY <3>2 DEF Handled, Reply, Encoded
      <3> QED
        BY <2>3, <3>3 DEF t, b
    <2> QED
      BY <2>2, <2>3
  <1> QED
    BY <1>1, InvHolds, PTL

\* For every declared surface: a client route and what is below it gets the shell, every
\* other path its own page or a 404, and no live path reaches the reactor.
THEOREM SurfaceIsDeclared == Spec => []Surface
  <1>1. Inv => Surface
    <2> SUFFICES ASSUME Inv, NEW r \in Reqs, sent[r].from = "reactor"
                 PROVE  LET p == kind[r].path
                            below == \E c \in ClientRoutes : Len(c) <= Len(p) /\ SubSeq(p, 1, Len(c)) = c
                        IN  /\ StringPrefix[p] \cap Dynamic = {}
                            /\ sent[r].path = IF below THEN Fallback ELSE p
                            /\ sent[r].status = 200 <=> sent[r].path \in Baked
      BY DEF Surface
    <2> DEFINE p == kind[r].path
               t == Target(p)
               below == \E c \in ClientRoutes : Len(c) <= Len(p) /\ SubSeq(p, 1, Len(c)) = c
    <2>1. ~IsLive(p) /\ sent[r] = Handled(Reply(0, "client", t, Encoded(BodyOf(r))))
      BY DEF Inv, HeldOwn, Own
    <2>2. sent[r].path = t /\ (sent[r].status = 200 <=> t \in Baked)
      BY <2>1 DEF Handled, Reply
    <2>3. IsClient(p) <=> below
      <3>1. kind[r].path \in Seq(STRING)
        BY ServeAssumption DEF Inv, TypeOK
      <3> HIDE DEF p
      <3>2. p \in Seq(STRING)
        BY <3>1 DEF p
      <3>3. Len(p) \in Nat /\ SubSeq(p, 1, Len(p)) = p
        BY <3>2, SubSeqFull
      <3>4. ASSUME NEW c \in ClientRoutes
            PROVE  (p = c \/ IsBelow(p, c)) <=> (Len(c) <= Len(p) /\ SubSeq(p, 1, Len(c)) = c)
        <4>1. c \in Seq(STRING)
          BY ServeAssumption
        <4>2. Len(c) \in Nat
          BY <4>1
        <4>3. CASE p = c
          BY <3>3, <4>3
        <4>4. CASE IsBelow(p, c)
          BY <3>3, <4>2, <4>4 DEF IsBelow
        <4>5. CASE Len(c) <= Len(p) /\ SubSeq(p, 1, Len(c)) = c
          <5>0. SubSeq(p, 1, Len(c)) = c /\ Len(c) <= Len(p)
            BY <4>5
          <5>1. ASSUME Len(c) = Len(p) PROVE p = c
            <6>1. SubSeq(p, 1, Len(c)) = SubSeq(p, 1, Len(p))
              BY <5>1, Zenon
            <6> QED
              BY <3>3, <5>0, <6>1, Zenon
          <5>2. ASSUME Len(c) # Len(p) PROVE IsBelow(p, c)
            <6>0. Len(p) \in Nat /\ Len(c) \in Nat /\ Len(c) <= Len(p)
              BY <3>3, <4>2, <5>0, Zenon
            <6> DEFINE m == Len(p)
                       n == Len(c)
            <6>1. m \in Nat /\ n \in Nat /\ n <= m /\ n # m
              BY <5>2, <6>0, Zenon
            <6> HIDE DEF m, n
            <6>2. m > n
              BY <6>1
            <6> USE DEF m, n
            <6>3. Len(p) > Len(c)
              BY <6>2, Zenon
            <6> QED
              BY <5>0, <6>3, Zenon DEF IsBelow
          <5> QED
            BY <4>5, <5>1, <5>2
        <4> QED
          BY <4>3, <4>4, <4>5
      <3> QED
        BY <3>4 DEF IsClient
    <2>4. t = IF IsClient(p) THEN Fallback ELSE p
      BY DEF Target
    <2>5. /\ StringPrefix[p] \cap Dynamic = {}
          /\ sent[r].path = IF below THEN Fallback ELSE p
          /\ sent[r].status = 200 <=> sent[r].path \in Baked
      <3>1. sent[r].path = t /\ (sent[r].status = 200 <=> t \in Baked) /\ (IsClient(p) <=> below)
            /\ t = (IF IsClient(p) THEN Fallback ELSE p) /\ ~IsLive(p)
        BY <2>1, <2>2, <2>3, <2>4
      <3> HIDE DEF t, below, p
      <3> QED
        BY <3>1 DEF IsLive
    <2> QED
      BY <2>5
  <1> QED
    BY <1>1, InvHolds, PTL

----------------------------------------------------------------------------
(* Podnet, whose inductive invariant PodInv the module states.             *)

\* The invariant holds when the server starts.
LEMMA PodInitInv == PodInit => PodInv
<1> SUFFICES ASSUME PodInit PROVE PodInv
  OBVIOUS
<1> USE EnetAssumption, PodnetAssumption DEF PodInit, EnetInit, Row, Reset, Free, NoEvent
<1>1. EnetTypeOK
  BY DEF EnetTypeOK, Slot
<1>2. PodTypeOK
  <2>1. [Reset EXCEPT !.used = FALSE] \in Row
    OBVIOUS
  <2>2. 0 \in 0..Ticks
    OBVIOUS
  <2> QED BY <1>1, <2>1, <2>2 DEF PodTypeOK
<1>3. EventOK
  BY DEF EventOK
<1>4. RowIsItsConnections
  BY DEF RowIsItsConnections, RowOK, Announced, Leaving, Joining
<1> QED BY <1>2, <1>3, <1>4 DEF PodInv

\* One slot changes in libenet, and no event is in hand before or after.
LEMMA SlotKept ==
    ASSUME PodInv, ev = NoEvent, ev' = NoEvent, UNCHANGED <<players, muddled>>,
           NEW pid \in Slots \ muddled, lib'[pid].conn = lib[pid].conn \/ ~Announced(pid),
           Announced(pid)' <=> Announced(pid)
    PROVE  RowOK(pid)'
BY DEF PodInv, RowIsItsConnections, RowOK, Announced, Who, Leaving, Joining, NoEvent

\* libenet takes a datagram in: no connection that was announced changes hands.
LEMMA NetworkKeeps ==
    ASSUME PodInv, Network
    PROVE  /\ ev = NoEvent /\ UNCHANGED <<phase, ev, guard>>
           /\ lib' \in [Slots -> Slot] /\ conns' \in conns..MaxConn
           /\ \A q \in Slots :
                /\ lib'[q].conn <= conns'
                /\ \/ lib[q].st \in {"free", "pending"} /\ lib'[q].st \in {"free", "pending"}
                   \/ /\ lib[q].st \in {"connected", "zombie"}
                      /\ lib'[q].st \in {"connected", "zombie"}
                      /\ lib'[q].conn = lib[q].conn
<1> USE EnetAssumption
<1>0. ev = NoEvent /\ UNCHANGED <<phase, ev, guard>>
  BY DEF Network, Connect, Arrive, Leave, InService
<1>1. lib \in [Slots -> Slot] /\ conns \in 0..MaxConn /\ \A q \in Slots : lib[q].conn <= conns
  BY DEF PodInv, PodTypeOK, EnetTypeOK, EventOK
<1>2. \A q \in Slots : lib[q].st \in {"free", "pending", "connected", "zombie"}
  BY <1>1 DEF Slot
<1>3. CASE Connect
  <2>1. PICK pid \in Slots : lib[pid].st = "free"
            /\ lib' = [lib EXCEPT ![pid] = [st |-> "pending", conn |-> conns + 1, inbox |-> 0]]
    BY <1>3 DEF Connect
  <2>2. conns' = conns + 1 /\ conns + 1 \in 0..MaxConn /\ 0 \in 0..MaxInbox
    BY <1>1, <1>3 DEF Connect
  <2>3. [st |-> "pending", conn |-> conns + 1, inbox |-> 0] \in Slot
    BY <2>2 DEF Slot
  <2>4. lib' \in [Slots -> Slot] /\ conns' \in conns..MaxConn
    BY <1>1, <2>1, <2>2, <2>3
  <2>5. lib'[pid].st = "pending" /\ lib'[pid].conn = conns + 1
    BY <1>1, <2>1
  <2>6. \A q \in Slots \ {pid} : lib'[q] = lib[q]
    BY <1>1, <2>1
  <2>7. \A q \in Slots : lib[q].conn \in Nat /\ conns \in Nat
    BY <1>1 DEF Slot
  <2> QED BY <1>0, <1>1, <1>2, <2>1, <2>2, <2>4, <2>5, <2>6, <2>7
<1>4. CASE Arrive
  <2>1. PICK pid \in Slots : lib[pid].st = "connected" /\ lib[pid].inbox < MaxInbox
            /\ lib' = [lib EXCEPT ![pid].inbox = @ + 1]
    BY <1>4 DEF Arrive
  <2>2. lib[pid].inbox + 1 \in 0..MaxInbox
    BY <1>1, <2>1 DEF Slot
  <2>3. [lib[pid] EXCEPT !.inbox = @ + 1] \in Slot
    BY <1>1, <2>2 DEF Slot
  <2>4. conns' = conns
    BY <1>4 DEF Arrive
  <2>5. lib' = [lib EXCEPT ![pid] = [lib[pid] EXCEPT !.inbox = @ + 1]]
    BY <2>1
  <2>6. lib' \in [Slots -> Slot]
    BY <1>1, <2>3, <2>5
  <2>7. \A q \in Slots : lib'[q].conn = lib[q].conn /\ lib'[q].st = lib[q].st
    BY <1>1, <2>5 DEF Slot
  <2> QED BY <1>0, <1>1, <1>2, <2>4, <2>6, <2>7
<1>5. CASE Leave
  <2>1. PICK pid \in Slots :
          \/ lib[pid].st = "pending" /\ lib' = [lib EXCEPT ![pid] = Free]
          \/ lib[pid].st = "connected"
             /\ lib' = [lib EXCEPT ![pid] = [lib[pid] EXCEPT !.st = "zombie", !.inbox = 0]]
    BY <1>5, ZenonT(60) DEF Leave
  <2>2. conns' = conns
    BY <1>5 DEF Leave
  <2>3. CASE lib[pid].st = "pending" /\ lib' = [lib EXCEPT ![pid] = Free]
    <3>1. Free \in Slot
      BY DEF Free, Slot
    <3> QED BY <1>0, <1>1, <1>2, <2>2, <2>3, <3>1 DEF Free
  <2>4. CASE lib[pid].st = "connected"
             /\ lib' = [lib EXCEPT ![pid] = [lib[pid] EXCEPT !.st = "zombie", !.inbox = 0]]
    <3>0. 0 \in 0..MaxInbox
      OBVIOUS
    <3>1. [lib[pid] EXCEPT !.st = "zombie", !.inbox = 0] \in Slot
      BY <1>1, <3>0 DEF Slot
    <3>2. lib' \in [Slots -> Slot]
      BY <1>1, <2>4, <3>1
    <3>3. \A q \in Slots : lib'[q].conn = lib[q].conn
      BY <1>1, <2>4 DEF Slot
    <3>4. lib'[pid].st = "zombie" /\ \A q \in Slots \ {pid} : lib'[q].st = lib[q].st
      BY <1>1, <2>4 DEF Slot
    <3> QED BY <1>0, <1>1, <1>2, <2>2, <2>4, <3>2, <3>3, <3>4
  <2> QED BY <2>1, <2>3, <2>4
<1> QED BY <1>3, <1>4, <1>5 DEF Network

LEMMA NetworkInv ==
    ASSUME PodInv, Network, UNCHANGED <<players, served, muddled>>
    PROVE  PodInv'
<1> USE EnetAssumption, NetworkKeeps
<1>0. conns \in Nat /\ conns' \in 0..MaxConn /\ conns <= conns'
  BY DEF PodInv, PodTypeOK, EnetTypeOK
<1>1. PodTypeOK'
  <2>1. EnetTypeOK'
    BY <1>0 DEF PodInv, PodTypeOK, EnetTypeOK
  <2>2. ASSUME NEW pid \in Slots
        PROVE  players'[pid].held <= conns' /\ \A c \in players'[pid].moved : c <= conns'
    BY <1>0 DEF PodInv, PodTypeOK, Row
  <2> QED BY <2>1, <2>2 DEF PodInv, PodTypeOK
<1>2. EventOK'
  BY <1>0 DEF PodInv, PodTypeOK, EnetTypeOK, EventOK, NoEvent
<1>3. ASSUME NEW q \in Slots \ muddled
      PROVE  RowOK(q)'
  <2>1. Announced(q)' <=> Announced(q)
    BY DEF Announced, Leaving, Joining, NoEvent
  <2>2. lib'[q].conn = lib[q].conn \/ ~Announced(q)
    BY DEF Announced, Leaving, Joining, NoEvent
  <2> QED BY <2>1, <2>2, SlotKept
<1> QED BY <1>1, <1>2, <1>3 DEF PodInv, RowIsItsConnections

\* Facts about the pump's state that every step below starts from.
LEMMA PumpFacts ==
    ASSUME PodInv
    PROVE  /\ lib \in [Slots -> Slot] /\ conns \in 0..MaxConn /\ conns \in Nat
           /\ guard \in 0..(GuardMax + 1)
           /\ served \in 0..Ticks /\ (phase # "closed" => served < Ticks)
           /\ players \in [Slots -> Row] /\ muddled \subseteq Slots
           /\ phase \in {"pump", "idle", "err", "closed"}
           /\ ev.type \in {"none", "connect", "packet", "disconnect"}
           /\ ev.conn \in 0..MaxConn /\ ev.conn <= conns
           /\ ev # NoEvent => ev.type # "none" /\ phase = "pump" /\ ev.pid \in Slots
           /\ NoEvent.type = "none"
           /\ NoEvent \in [type : {"none", "connect", "packet", "disconnect"}, pid : Nat,
                           conn : 0..MaxConn]
           /\ NoEvent.conn <= conns
           /\ \A pid \in Slots : /\ lib[pid].conn \in 0..conns
                                 /\ players[pid].held \in 0..conns
                                 /\ players[pid].moved \in SUBSET (0..conns)
BY EnetAssumption, PodnetAssumption
   DEF PodInv, PodTypeOK, EnetTypeOK, EventOK, NoEvent, Slot, Row

\* An event is taken out of the queue: what it announces is what the row still lacks.
LEMMA FetchInv ==
    ASSUME PodInv, Fetch, UNCHANGED <<players, served, muddled>>
    PROVE  PodInv'
<1> USE EnetAssumption, PumpFacts
<1>0. ev = NoEvent /\ UNCHANGED <<conns, phase, guard>> /\ phase = "pump"
  BY DEF Fetch, InService
<1>1. PICK pid \in Slots : TakeConnect(pid) \/ TakePacket(pid) \/ TakeDisconnect(pid)
  BY DEF Fetch
<1>2. pid \in Nat
  BY DEF Slots
<1>3. CASE TakeConnect(pid)
  <2>1. /\ lib[pid].st = "pending"
        /\ ev' = [type |-> "connect", pid |-> pid, conn |-> lib[pid].conn]
        /\ lib' = [lib EXCEPT ![pid] = [lib[pid] EXCEPT !.st = "connected"]]
    BY <1>3 DEF TakeConnect, Event
  <2>2. [lib[pid] EXCEPT !.st = "connected"] \in Slot
    BY DEF Slot
  <2>3. lib' \in [Slots -> Slot]
    BY <2>1, <2>2
  <2>4. lib'[pid].st = "connected" /\ \A q \in Slots : lib'[q].conn = lib[q].conn
    BY <2>1 DEF Slot
  <2>5. \A q \in Slots \ {pid} : lib'[q] = lib[q]
    BY <2>1
  <2>6. PodTypeOK'
    BY <1>0, <1>2, <2>1, <2>3 DEF PodInv, PodTypeOK, EnetTypeOK, Slot
  <2>7. EventOK'
    BY <1>0, <2>1, <2>4 DEF EventOK
  <2>8. RowIsItsConnections'
    BY <1>0, <2>1, <2>4, <2>5
       DEF PodInv, RowIsItsConnections, RowOK, Announced, Who, Leaving, Joining
  <2> QED BY <2>6, <2>7, <2>8 DEF PodInv
<1>4. CASE TakePacket(pid)
  <2>1. /\ lib[pid].st = "connected" /\ lib[pid].inbox > 0
        /\ ev' = [type |-> "packet", pid |-> pid, conn |-> lib[pid].conn]
        /\ lib' = [lib EXCEPT ![pid] = [lib[pid] EXCEPT !.inbox = @ - 1]]
    BY <1>4 DEF TakePacket, Event
  <2>2. [lib[pid] EXCEPT !.inbox = @ - 1] \in Slot
    BY <2>1 DEF Slot
  <2>3. lib' \in [Slots -> Slot]
    BY <2>1, <2>2
  <2>4. \A q \in Slots : lib'[q].conn = lib[q].conn /\ lib'[q].st = lib[q].st
    BY <2>1 DEF Slot
  <2>6. PodTypeOK'
    BY <1>0, <1>2, <2>1, <2>3 DEF PodInv, PodTypeOK, EnetTypeOK, Slot
  <2>7. EventOK'
    BY <1>0, <2>1, <2>4 DEF EventOK
  <2>8. RowIsItsConnections'
    BY <1>0, <2>1, <2>4
       DEF PodInv, RowIsItsConnections, RowOK, Announced, Who, Leaving, Joining
  <2> QED BY <2>6, <2>7, <2>8 DEF PodInv
<1>5. CASE TakeDisconnect(pid)
  <2>1. /\ lib[pid].st = "zombie"
        /\ ev' = [type |-> "disconnect", pid |-> pid, conn |-> lib[pid].conn]
        /\ lib' = [lib EXCEPT ![pid] = Free]
    BY <1>5 DEF TakeDisconnect, Event
  <2>2. Free \in Slot /\ Free.st = "free" /\ Free.conn = 0
    BY DEF Slot, Free
  <2>3. lib' \in [Slots -> Slot] /\ lib'[pid] = Free
    BY <2>1, <2>2
  <2>5. \A q \in Slots \ {pid} : lib'[q] = lib[q]
    BY <2>1
  <2>6. PodTypeOK'
    BY <1>0, <1>2, <2>1, <2>3 DEF PodInv, PodTypeOK, EnetTypeOK, Slot
  <2>7. EventOK'
    BY <1>0, <2>1, <2>2, <2>3, <2>5 DEF EventOK
  <2>8. RowIsItsConnections'
    BY <1>0, <2>1, <2>2, <2>3, <2>5
       DEF PodInv, RowIsItsConnections, RowOK, Announced, Who, Leaving, Joining
  <2> QED BY <2>6, <2>7, <2>8 DEF PodInv
<1> QED BY <1>1, <1>3, <1>4, <1>5

\* The pump ends with nothing in hand.
LEMMA EndInv ==
    ASSUME PodInv, Drained \/ Fail, UNCHANGED <<players, served, muddled>>
    PROVE  PodInv'
<1>1. ev = NoEvent /\ UNCHANGED <<lib, conns, ev, guard>> /\ phase' \in {"idle", "err"}
      /\ phase = "pump"
  BY DEF Drained, Fail, InService
<1>2. PodTypeOK'
  BY <1>1, PumpFacts DEF PodInv, PodTypeOK, EnetTypeOK
<1>3. EventOK'
  BY <1>1, PumpFacts DEF PodInv, EventOK, NoEvent
<1>4. RowIsItsConnections'
  BY <1>1 DEF PodInv, RowIsItsConnections, RowOK, Announced, Who, Leaving, Joining
<1> QED BY <1>2, <1>3, <1>4 DEF PodInv

\* A branch runs: it touches the row of the event's slot only.
LEMMA BranchInv ==
    ASSUME PodInv, Branch
    PROVE  PodInv'
<1> USE PumpFacts
<1>1. /\ ev # NoEvent /\ ev' = NoEvent /\ UNCHANGED <<lib, conns, phase, served>>
      /\ guard' \in 0..(GuardMax + 1)
  BY EnetAssumption DEF Branch, Handle
<1>2. ev.pid \in Slots /\ ev.type \in {"connect", "packet", "disconnect"}
  BY <1>1
<1>3. EventOK'
  BY <1>1 DEF PodInv, EventOK, NoEvent
<1>4. EnetTypeOK'
  BY <1>1 DEF PodInv, PodTypeOK, EnetTypeOK
<1>5. CASE OnConnect
  <2>1. /\ ev.type = "connect" /\ players' = [players EXCEPT ![ev.pid] = Joined(players[ev.pid])]
        /\ muddled' = IF players[ev.pid].used THEN muddled ELSE muddled \ {ev.pid}
    BY <1>5 DEF OnConnect
  <2>2. lib[ev.pid].st = "connected"
    BY <1>2, <2>1 DEF PodInv, EventOK
  <2>3. Reset \in Row /\ Reset.used /\ Reset.held = 0 /\ Reset.moved = {}
    BY DEF Reset, Row
  <2>4. Joined(players[ev.pid]) \in Row /\ Joined(players[ev.pid]).held \in 0..conns
        /\ Joined(players[ev.pid]).moved \in SUBSET (0..conns)
    BY <1>2, <2>3 DEF Joined
  <2>5. PodTypeOK'
    BY <1>1, <1>2, <1>4, <2>1, <2>4 DEF PodTypeOK
  <2>6. ASSUME NEW q \in Slots \ muddled'
        PROVE  RowOK(q)'
    <3>1. CASE q # ev.pid
      BY <1>1, <2>1, <3>1
         DEF PodInv, RowIsItsConnections, RowOK, Announced, Who, Leaving, Joining, NoEvent
    <3>2. CASE q = ev.pid
      <4>1. ~players[q].used
        BY <2>1, <2>2, <3>2 DEF PodInv, RowIsItsConnections, RowOK, Announced, Leaving, Joining
      <4> QED
        BY <1>1, <1>2, <2>1, <2>2, <2>3, <3>2, <4>1
           DEF RowOK, Announced, Who, Leaving, Joining, NoEvent, Joined
    <3> QED BY <3>1, <3>2
  <2> QED BY <1>3, <2>5, <2>6 DEF PodInv, RowIsItsConnections
<1>6. CASE OnPacket
  <2>1. /\ ev.type = "packet" /\ muddled' = muddled
        /\ \/ players' = [players EXCEPT ![ev.pid] = [players[ev.pid] EXCEPT !.held = ev.conn]]
           \/ players' = players
    BY <1>6 DEF OnPacket
  <2>2. lib[ev.pid].st = "connected" /\ lib[ev.pid].conn = ev.conn
    BY <1>2, <2>1 DEF PodInv, EventOK
  <2>3. ev.conn \in 0..conns
    OBVIOUS
  <2>4. players' \in [Slots -> Row]
    <3>1. [players[ev.pid] EXCEPT !.held = ev.conn] \in Row
      BY <1>2, <2>3 DEF Row
    <3> QED BY <2>1, <3>1
  <2>5. \A q \in Slots : /\ players'[q].used = players[q].used
                         /\ players'[q].moved = players[q].moved
                         /\ \/ players'[q].held = players[q].held
                            \/ q = ev.pid /\ players'[q].held = ev.conn
    BY <1>2, <2>1 DEF Row
  <2>6. PodTypeOK'
    BY <1>1, <1>4, <2>1, <2>3, <2>4, <2>5 DEF PodTypeOK
  <2>7. ASSUME NEW q \in Slots \ muddled'
        PROVE  RowOK(q)'
    BY <1>1, <2>1, <2>2, <2>5
       DEF PodInv, RowIsItsConnections, RowOK, Announced, Who, Leaving, Joining, NoEvent
  <2> QED BY <1>3, <2>6, <2>7 DEF PodInv, RowIsItsConnections
<1>7. CASE OnDisconnect
  <2>1. /\ ev.type = "disconnect" /\ muddled' = muddled \ {ev.pid}
        /\ players' = [players EXCEPT ![ev.pid] = [players[ev.pid] EXCEPT !.used = FALSE]]
    BY <1>7 DEF OnDisconnect
  <2>2. lib[ev.pid].st = "free"
    BY <1>2, <2>1 DEF PodInv, EventOK
  <2>3. players' \in [Slots -> Row]
    <3>1. [players[ev.pid] EXCEPT !.used = FALSE] \in Row
      BY <1>2, ZenonT(60) DEF Row
    <3> QED BY <2>1, <3>1
  <2>4. \A q \in Slots : /\ players'[q].held = players[q].held
                         /\ players'[q].moved = players[q].moved
    BY <1>2, <2>1 DEF Row
  <2>5. ~players'[ev.pid].used /\ \A q \in Slots \ {ev.pid} : players'[q] = players[q]
    BY <1>2, <2>1 DEF Row
  <2>6. PodTypeOK'
    BY <1>1, <1>4, <2>1, <2>3, <2>4 DEF PodTypeOK
  <2>7. ASSUME NEW q \in Slots \ muddled'
        PROVE  RowOK(q)'
    BY <1>1, <1>2, <2>1, <2>2, <2>5
       DEF PodInv, RowIsItsConnections, RowOK, Announced, Who, Leaving, Joining, NoEvent
  <2> QED BY <1>3, <2>6, <2>7 DEF PodInv, RowIsItsConnections
<1> QED BY <1>5, <1>6, <1>7 DEF Branch

\* The guard drops the event in hand: a slot that loses its join or its leave is muddled.
LEMMA LostInv ==
    ASSUME PodInv, Lost
    PROVE  PodInv'
<1> USE PumpFacts
<1>1. /\ ev # NoEvent /\ ev' = NoEvent /\ phase' = "idle"
      /\ UNCHANGED <<lib, conns, guard, players, served>>
      /\ muddled' = IF ev.type = "packet" THEN muddled ELSE muddled \cup {ev.pid}
  BY DEF Lost, GuardBreak
<1>2. PodTypeOK'
  BY <1>1 DEF PodInv, PodTypeOK, EnetTypeOK
<1>3. EventOK'
  BY <1>1 DEF PodInv, EventOK, NoEvent
<1>4. ASSUME NEW q \in Slots \ muddled'
      PROVE  RowOK(q)'
  BY <1>1 DEF PodInv, RowIsItsConnections, RowOK, Announced, Who, Leaving, Joining, NoEvent
<1> QED BY <1>2, <1>3, <1>4 DEF PodInv, RowIsItsConnections

\* tick moves a car by the input its row holds, and the next call of service starts.
LEMMA ReturnInv ==
    ASSUME PodInv, Return
    PROVE  PodInv'
<1> USE PumpFacts
<1>1. /\ phase # "pump" /\ UNCHANGED <<lib, conns, ev, muddled>>
      /\ guard' \in 0..(GuardMax + 1) /\ phase' \in {"pump", "closed"}
      /\ players' = players \/ players' = TickRows
  BY EnetAssumption DEF Return, Serve
<1>2. ev = NoEvent
  BY <1>1
<1>3. served' \in 0..Ticks /\ (phase' # "closed" => served' < Ticks)
  BY PodnetAssumption DEF Return
<1>4. \A q \in Slots : /\ players'[q].used = players[q].used
                       /\ players'[q].held = players[q].held
                       /\ \/ players'[q].moved = players[q].moved
                          \/ /\ players[q].used
                             /\ players'[q].moved = players[q].moved \cup ({players[q].held} \ {0})
  BY <1>1 DEF TickRows, Stepped, Row
<1>5. players' \in [Slots -> Row]
  BY <1>1 DEF TickRows, Stepped, Row
<1>6. PodTypeOK'
  <2>1. EnetTypeOK'
    BY <1>1, <1>2 DEF PodInv, PodTypeOK, EnetTypeOK
  <2>2. \A q \in Slots : players'[q].held <= conns' /\ \A c \in players'[q].moved : c <= conns'
    BY <1>1, <1>4
  <2> QED BY <1>1, <1>3, <1>5, <2>1, <2>2 DEF PodTypeOK
<1>7. EventOK'
  BY <1>1, <1>2 DEF PodInv, EventOK, NoEvent
<1>8. ASSUME NEW q \in Slots \ muddled'
      PROVE  RowOK(q)'
  BY <1>1, <1>2, <1>4
     DEF PodInv, RowIsItsConnections, RowOK, Announced, Who, Leaving, Joining, NoEvent
<1> QED BY <1>6, <1>7, <1>8 DEF PodInv, RowIsItsConnections

LEMMA PodNextInv == PodInv /\ [PodNext]_podVars => PodInv'
<1> SUFFICES ASSUME PodInv, [PodNext]_podVars PROVE PodInv'
  OBVIOUS
<1>1. CASE Branch
  BY <1>1, BranchInv
<1>2. CASE Lost
  BY <1>2, LostInv
<1>3. CASE Quiet
  BY <1>3, NetworkInv, FetchInv, EndInv DEF Quiet
<1>4. CASE Return
  BY <1>4, ReturnInv
<1>5. CASE UNCHANGED podVars
  BY <1>5 DEF podVars, enetVars, PodInv, PodTypeOK, EnetTypeOK, EventOK, RowIsItsConnections,
              RowOK, Announced, Who, Leaving, Joining
<1> QED BY <1>1, <1>2, <1>3, <1>4, <1>5 DEF PodNext

\* Every reachable state of the podnet server satisfies PodInv.
THEOREM PodCorrect == PodSpec => []PodInv
BY PodInitInv, PodNextInv, PTL DEF PodSpec

\* The rows and libenet's slots keep their types.
THEOREM PodTypeCorrect == PodSpec => []PodTypeOK
<1>1. PodInv => PodTypeOK
  BY DEF PodInv
<1> QED BY <1>1, PodCorrect, PTL

\* Whoever sat in a slot before: a row, its held input and its car belong to the
\* connection that is announced in the slot, unless the guard lost an event of it.
THEOREM RowsBelongToConnections == PodSpec => []RowIsItsConnections
<1>1. PodInv => RowIsItsConnections
  BY DEF PodInv
<1> QED BY <1>1, PodCorrect, PTL
=============================================================================
