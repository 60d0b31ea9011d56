---------------------------- MODULE VercelServe ----------------------------
(***************************************************************************)
(* The Vercel adapter: src/vercel/scaffold/serve.mjs, driven as            *)
(* test-adapter.mjs drives it.  Requests overlap: a handler is suspended   *)
(* wherever it awaits, and one wasm instance, with one request buffer and  *)
(* one response buffer, answers all of them.  Between two awaits a handler *)
(* runs alone, so each action below is one stretch of it.                  *)
(*                                                                         *)
(* A path is the sequence of its segments.  A body is its length in low    *)
(* bytes and in bytes above 127.  The reactor, the backend and the start   *)
(* of the module (inflating and instantiating the wasm) are external.      *)
(***************************************************************************)
EXTENDS Naturals, Sequences, FiniteSets

CONSTANTS Reqs,      \* the requests
          Kinds,     \* what a request may be: [method, path, low, high]
          ClientRoutes, Fallback, Dynamic,  \* the declared surface
          Baked,     \* the paths the reactor has an answer for
          StringPrefix,  \* [path |-> the paths its text begins with]
          Cap,       \* request_cap()
          HeadLen    \* length of the request line and the headers

ASSUME ServeAssumption ==
    /\ Cap \in Nat /\ HeadLen \in Nat /\ HeadLen <= Cap
    /\ \A k \in Kinds : k.low \in Nat /\ k.high \in Nat /\ k.path \in Seq(STRING)
    /\ \A c \in ClientRoutes : c \in Seq(STRING)

VARIABLES ready,    \* the module's promise: "pending", "ok" or "failed"
          at,       \* where each handler is suspended
          kind,     \* what each request is
          body,     \* the body as read: [low, high]
          request,  \* the wasm's request buffer: what was written last
          response, \* the wasm's response buffer
          held,     \* what each handler took out of it, or got from the backend
          sent      \* what each client received

vars == <<ready, at, kind, body, request, response, held, sent>>

Nothing == [status |-> 0, from |-> "nobody", path |-> <<>>, low |-> 0, high |-> 0]
Reply(status, from, path, b) ==
    [status |-> status, from |-> from, path |-> path, low |-> b.low, high |-> b.high]
NoBody == [low |-> 0, high |-> 0]
Failure == Reply(500, "harness", <<>>, NoBody)
-----------------------------------------------------------------------------
(* Routing *)

IsBelow(p, r) == Len(p) > Len(r) /\ SubSeq(p, 1, Len(r)) = r

\* pathname.startsWith(p): the text of the prefix, not its segments.
IsLive(p) == StringPrefix[p] \cap Dynamic # {}

\* Mutant: the text of the route, not its segments.
IsClientText(p) == StringPrefix[p] \cap ClientRoutes # {}

\* A client route is its root and every path below it.
IsClient(p) == \E r \in ClientRoutes : p = r \/ IsBelow(p, r)

Target(p) == IF IsClient(p) THEN Fallback ELSE p

\* The bytes of the request: the body is read as latin1 and written as UTF-8,
\* so that each byte above 127 becomes two.
Encoded(b) == [low |-> b.low, high |-> 2 * b.high]

RawLen(b) == HeadLen + Encoded(b).low + Encoded(b).high
-----------------------------------------------------------------------------
(* The handlers *)

Init ==
    /\ ready = "pending"
    /\ at = [r \in Reqs |-> "new"]
    /\ kind \in [Reqs -> Kinds]
    /\ body = [r \in Reqs |-> NoBody]
    /\ request = Nothing /\ response = Nothing
    /\ held = [r \in Reqs |-> Nothing]
    /\ sent = [r \in Reqs |-> Nothing]

\* The module scope: once per cold start.
Ready ==
    /\ ready = "pending"
    /\ ready' \in {"ok", "failed"}
    /\ UNCHANGED <<at, kind, body, request, response, held, sent>>

\* The handler throws, and the mount ends the response with 500.
Throws(r) ==
    /\ at' = [at EXCEPT ![r] = "done"]
    /\ sent' = [sent EXCEPT ![r] = Failure]

\* The URL is parsed, which may throw, and readBody reads the body, which may fail;
\* a GET or HEAD has none, whatever was sent along.
ReadBody(r) ==
    /\ at[r] = "new"
    /\ \/ /\ body' = [body EXCEPT ![r] = IF kind[r].method = "GET" THEN NoBody
                                         ELSE [low |-> kind[r].low, high |-> kind[r].high]]
          /\ at' = [at EXCEPT ![r] = IF IsLive(kind[r].path) THEN "fetching" ELSE "waiting"]
          /\ UNCHANGED sent
       \/ Throws(r) /\ UNCHANGED body
    /\ UNCHANGED <<ready, kind, request, response, held>>

\* The backend answers a live path, with any status, or fetch fails.
Upstream(r) ==
    /\ at[r] = "fetching"
    /\ \/ /\ held' = [held EXCEPT ![r] = Reply(200, "backend", kind[r].path, body[r])]
          /\ at' = [at EXCEPT ![r] = "answered"]
          /\ UNCHANGED sent
       \/ Throws(r) /\ UNCHANGED held
    /\ UNCHANGED <<ready, kind, body, request, response>>

\* handle(): the reactor answers what is in the request buffer.
Handled(req) ==
    Reply(IF req.path \in Baked THEN 200 ELSE 404, "reactor", req.path, [low |-> req.low, high |-> req.high])

\* answerFromReactor, from the check of the length to the slice of the
\* response: no await in it, so no other handler comes between.  handle may
\* return 0, or trap.
Ask(r) ==
    /\ at[r] = "waiting" /\ ready = "ok"
    /\ IF RawLen(body[r]) > Cap
       THEN /\ held' = [held EXCEPT ![r] = Reply(414, "adapter", <<>>, NoBody)]
            /\ at' = [at EXCEPT ![r] = "answered"]
            /\ UNCHANGED <<request, response, sent>>
       ELSE /\ request' = Reply(0, "client", Target(kind[r].path), Encoded(body[r]))
            /\ \/ /\ response' = Handled(request')
                  /\ held' = [held EXCEPT ![r] = response']
                  /\ at' = [at EXCEPT ![r] = "answered"]
                  /\ UNCHANGED sent
               \/ /\ held' = [held EXCEPT ![r] = Reply(500, "adapter", <<>>, NoBody)]
                  /\ at' = [at EXCEPT ![r] = "answered"]
                  /\ UNCHANGED <<response, sent>>
               \/ Throws(r) /\ UNCHANGED <<response, held>>
    /\ UNCHANGED <<ready, kind, body>>

\* Mutant: a module that failed to start is waited for again.
NotReadyWaits(r) ==
    /\ at[r] = "waiting" /\ ready = "failed"
    /\ UNCHANGED vars

\* await ready, when the module could not be started: the promise stays
\* rejected, for this request and every later one.
NotReady(r) ==
    /\ at[r] = "waiting" /\ ready = "failed"
    /\ Throws(r)
    /\ UNCHANGED <<ready, kind, body, request, response, held>>

\* Mutant: the response is a view of the wasm memory and not a slice of it.
SentView(r) == IF held[r].from = "reactor" THEN response ELSE held[r]

\* What the handler ends the response with.
Sent(r) == held[r]

Respond(r) ==
    /\ at[r] = "answered"
    /\ sent' = [sent EXCEPT ![r] = Sent(r)]
    /\ at' = [at EXCEPT ![r] = "done"]
    /\ UNCHANGED <<ready, kind, body, request, response, held>>

Step(r) == ReadBody(r) \/ Upstream(r) \/ Ask(r) \/ NotReady(r) \/ Respond(r)

Next == Ready \/ \E r \in Reqs : Step(r)

\* The event loop runs whoever may run; the start, the backend and the sender
\* of a body come to an end.
Spec == Init /\ [][Next]_vars /\ WF_vars(Ready) /\ \A r \in Reqs : WF_vars(Step(r))
-----------------------------------------------------------------------------
(* What must hold *)

ReplyRec == [status : {0, 200, 404, 414, 500}, from : {"nobody", "client", "backend", "reactor", "adapter", "harness"},
             path : {k.path : k \in Kinds} \cup {Fallback, <<>>}, low : Nat, high : Nat]

\* The type of every variable; what lies in the request buffer fits it.
TypeOK ==
    /\ ready \in {"pending", "ok", "failed"}
    /\ at \in [Reqs -> {"new", "fetching", "waiting", "answered", "done"}]
    /\ kind \in [Reqs -> Kinds]
    /\ body \in [Reqs -> [low : Nat, high : Nat]]
    /\ held \in [Reqs -> ReplyRec] /\ sent \in [Reqs -> ReplyRec]
    /\ request \in ReplyRec /\ response \in ReplyRec
    /\ request.from = "client" => HeadLen + request.low + request.high <= Cap

\* Every client gets the answer to its own request: however the handlers
\* interleave over the one pair of buffers, what is sent was made for the path
\* and the body of that request.
OwnAnswer ==
    \A r \in Reqs : sent[r].from \in {"reactor", "backend"} =>
        LET k == kind[r]
            b == IF k.method = "GET" THEN NoBody ELSE [low |-> k.low, high |-> k.high]
        IN  IF sent[r].from = "backend"
            THEN sent[r] = Reply(200, "backend", k.path, b)
            ELSE sent[r].path = Target(k.path) /\ sent[r].low = b.low /\ sent[r].high = 2 * b.high

\* The shell is a designed state and never a catch-all: a declared client route
\* and every path below one gets the shell, so that no deep link is a bare 404
\* where the shell is baked; every other path gets its own page, or a 404 where
\* the site has none; and a live path never reaches the reactor.
Surface ==
    \A r \in Reqs :
        LET p == kind[r].path
            below == \E c \in ClientRoutes : Len(c) <= Len(p) /\ SubSeq(p, 1, Len(c)) = c
        IN  sent[r].from = "reactor" =>
              /\ StringPrefix[p] \cap Dynamic = {}
              /\ sent[r].path = IF below THEN Fallback ELSE p
              /\ sent[r].status = 200 <=> sent[r].path \in Baked

\* Every request is answered, also when the module could not be started.
EveryRequestAnswered == \A r \in Reqs : <>(at[r] = "done" /\ sent[r] # Nothing)

\* The buffers are never overrun and no answer reaches another's client.
AnswersSound == TypeOK /\ OwnAnswer
=============================================================================
