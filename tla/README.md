# koru-libs: a TLA+ verification project

koru-libs is a collection of Koru packages: lifts of C libraries behind phantom
types, compile-time transforms, a few complete programs built on them, and the
JavaScript around them. Most packages are wrappers whose rules the Koru compiler
enforces and whose state is the C library's. This project models the parts that have a
logic of their own, with interleavings, loss, reuse of identities or crashes:

* the game servers: `games/asteroids-net` with the datagram sockets of `udp/`, and
  `games/podnet` with the `enet/` host below it;
* the threads of `unikraft/sched`, the lift whose rules reach furthest beyond what
  its types can say;
* the browser benchmark under `dom/`: the keyed table as it is compiled, the closer that
  judges an implementation of it, the board that records the verdicts and the readers
  that decide which timings may be compared;
* the generator of the footgun gallery (`scripts/`), and the serverless adapter
  (`vercel/`).

## The system

### Components

| component | state | operations | what is hard | what makes it correct |
|---|---|---|---|---|
| `games/asteroids-net/sim` | stores `bodies`, `players`, `game`; the slot `lookup` | `drive` per packet, nine rules per tick | find-or-join over two stores, death and revival over four rules, full stores | one session per key, no ship without owner, exact census, every death answered |
| `games/asteroids-net/server.k` | tick number, socket | drain, rules, sweep, broadcast | what a tick does when the drain fails, what the wire cannot carry | rules run in order, the loop never ends |
| `games/asteroids-net/wire` | a `Snap` being built | begin, entity, trailer, send, and the readers | sizes at three different limits | what is counted is what is sent, what is sent is what is read |
| `games/asteroids-net/client.k` | `hud`, `view` | one frame: send, drain, apply | loss, reordering, restarts on the same port | it knows its own ship |
| `udp` | a socket | bind, packets, send, close | cap against arrivals, truncation | the backlog is bounded |
| `enet`, `podnet` | peers, slots | service pump, join, input, leave | events cut off by the pump's guard, reused peers | a slot belongs to one connection |
| `unikraft/sched` | a handle per thread, the kernel's flags and run queue | reserve, prime, attach, run, join, park, unpark, the escapes, terminate, release | progress inferred from flags and yields, threads given back | a handle's state is true of the kernel, no live thread is lost |
| `dom/app` | dense rows, slots with generations, the registry, the page | run, runlots, add, update, swap, clear, select, remove | three structures that no click ever rebuilds, reused slots | the page is the store in table order, a kept handle never moves |
| `dom/closer/closer.mjs` | the page of the target, the results | eleven operations: clicks, polled assertions, reads | looks that interleave with frames, pages that never paint, failures anywhere | the verdict is the target's, not the moment's |
| `dom/closer/board.mjs` | `history.jsonl`, `latest.md` | one round per run, `js_escape` | death between and inside two writes | the history replays, the page never runs ahead of it |
| `dom/board` readers | the directory of result files | ladder, read-timings | files of several runs side by side, overwritten while they are read, noise | nothing is compared across windows |
| `scripts/generate-lift-idioms.mjs` | the corpus, the flags | build at most twice, classify, write or check | a build that fails for another reason, a killed run | no negative is lost, the corpus is a whole run's |
| `vercel/scaffold/serve.mjs` | one wasm instance, its two buffers | one handler per request | overlap at every await | own answer, declared surface |
| asteroids-net probes, `cube2-net`, other games | counters | scripted inputs | - | - |
| `unikraft/*`, the rest | locks, pools, queues of the kernel | phantom-typed bring-up chains | provenance | no state is claimed without evidence |
| `regressions`, `stack`, `composition` | a ledger; a service graph; timelines | one sequential pass each | cycles, a partial run | - |
| `sse`, `kbd` | bytes carried over a chunk boundary | feed, drain | a record split anywhere | framing does not depend on the chunks |
| wrappers (`sqlite3`, `pq`, `curl`, `openssl`, `evp`, `bcrypt`, `yyjson`, `yaml`, `pcre2`, `gzip`, `raylib`, ...) | the C library's | one call each | life cycles | enforced by the compiler |
| transforms (`vaxis`, the markup of `dom` and `web`, `docker`, `github`) | none at run time | code and text generation | - | - |

`PROJECT.json` lists every one of them with its status, and under `hazards` what
is hard to test in the code, each at its line with the properties that cover it.

### How the parts of asteroids-net interact

    client.k  --input (seq, buttons)-->  udp receive buffer --packets--> server.k
       ^                                                                   | drive
       |                                                                   v
       +----snapshot (count, you, rows)---- wire <--broadcast--  sim stores

There is one server thread. Its tick drains the socket (every datagram is one
call of `drive`), runs the world rules in a fixed order, sweeps silent sessions
and sends one snapshot to every session. Clients run at their own rate. The only
shared state is the stores, and the only concurrency is between the processes:
datagrams in both directions may be lost, duplicated and reordered.

`podnet` has one thread too. Its loop calls enet's `service`, which hands out
connects, packets and disconnects of the peer slots one after another, each to a
branch that writes the slot's row of `players`, and then `tick` steps the rows.

A Koru flow on Unikraft is a thread itself. It makes others with `sched`, all of which
run the module's own `workerBody`, and they share one CPU: a switch happens only in
`sched_yield`, which the flow calls inside `run` and `join` and a worker after each
lap. They talk through two flags of the handle, `started` and `finished`.

### How the parts of the benchmark interact

    main.k --compiled--> output_emitted.js --page--> closer.mjs --results--> board.mjs
                                |                                    history.jsonl, latest.md
                                +--page--> the timing driver --result files--> ladder.mjs,
                                                                               read-timings.mjs

The closer clicks and looks; the page paints when the browser lets it. The driver
overwrites one result file per cell in place, and a reader may come at any moment.
The board reads back what its own earlier runs wrote.

The adapter of `vercel` is one process with one instance of the wasm module; every
request is a handler suspended at each await, and all of them share the two buffers.

## Modules

| module | models | state |
|---|---|---|
| `AsteroidsSessions` | what `drive` and `sweep-stale` promise: numbered sessions, strictly increasing inputs | `open`, `issued` |
| `AsteroidsSim` | `sim/index.k` in the order of `server.k`'s tick body; implements `AsteroidsSessions` | `phase`, the rows of the stores, `lookup` |
| `AsteroidsNet` | server, clients and network (extends `AsteroidsSim`) | plus `client`, `up`, `down` and the history `log` |
| `AsteroidsWire` | one snapshot from `snap.begin` to the client's readers, in bytes | offsets and counts |
| `UdpDrain` | `packets` against the kernel's receive buffer | queue lengths by age |
| `AsteroidsTransport` | both ends of a server tick: the drain, then one snapshot (extends `AsteroidsWire` and `UdpDrain`) | plus `snapped` |
| `Enet` | `service` of `enet/index.kz` over libenet's peer slots | `lib`, `conns`, `phase`, `ev`, `guard` |
| `Podnet` | `games/podnet/server.k` (extends `Enet`) | plus `players`, `served` and the history `muddled` |
| `UkSched` | `unikraft/sched` over Unikraft's cooperative run queue | `state`, `work`, `call`, and the kernel's `attached`, `runnable`, `queueable`, `queue`, `current` |
| `KeyedTable` | what the benchmark's table promises its reader | `table`, `chosen`, `last` |
| `KoruDom` | `dom/app/output_emitted.js`; implements `KeyedTable` | `rows`, the slot table, `seqNext`, `cnt`, `op`, `sel`, `reg`, `page`, `todo` |
| `Gauntlet` | `dom/closer/closer.mjs` over `opset.mjs`, with the target it judges | `results`, `report`, `pc`, `waited`, `saved`, the target's `rows` and `pending`, the observer `kd` |
| `Board` | `dom/closer/board.mjs` | `history`, `tail`, `latest`, `phase`, `row` |
| `Timings` | `dom/board/window.mjs`, `ladder.mjs`, `read-timings.mjs` and the driver's directory | `dir`, `log`, `at`, `clock`; a reader's `cols`, `bench`, `got`, `half`, `ranked`, `verdict` |
| `LiftIdioms` | `scripts/generate-lift-idioms.mjs` | `lift`, `test`, `catalog`, `regressions`, `file`, `exit` |
| `VercelServe` | `vercel/scaffold/serve.mjs` | `ready`, `at`, `body`, `request`, `response`, `held`, `sent` |
| `AsteroidsNetProofs` | theorems about `AsteroidsSim` and `AsteroidsNet` | |
| `AsteroidsTransportProofs` | theorems about `AsteroidsWire`, `UdpDrain` and `AsteroidsTransport` | |
| `BenchProofs` | theorems about `Board`, `Timings` and `Gauntlet` | |
| `VerdictProofs` | theorems about the verdicts of `Gauntlet`, over `BenchProofs` | |
| `ServerProofs` | theorems about `VercelServe` and `Podnet` | |
| `UkSchedProofs`, `KoruDomProofs`, `LiftIdiomsProofs` | theorems about the module of that name | |
| `MC...` | an instance for TLC where a `.cfg` cannot write the value | |

### AsteroidsSim

Every rule of the tick body is one action and `phase` is the program counter
between them, so the invariants hold between any two rules, not only between
ticks. `Drive` is the whole handler of a packet (`handle` and `drive`): the
find-or-join, the gap count, `control` and `fire`, or the join with its three
store operations. Rows of `players` and ships are records (`Session`, `Ship`);
rocks have no identity in the code's rules, so they are counted per radius class,
and bullets are counted. What is abstracted:

* *Geometry.* `tick` chooses nondeterministically which bullets are spent, which
  rocks are struck and which ships are rammed, within what its contact rules
  allow (rocks are struck only by bullets, a ship is rammed only when its
  invulnerability is over and there is a rock). `control` and `place` of bodies
  change positions and speeds only, so they leave no trace.
* *Time.* `rt`, `inv` and `cd` count down in ticks. `idle` is `tick - p.last`, which
  is only ever compared with the timeout and saturates just above it.
* *Radii* are kept in tenths (450, 225, 160), because the score depends on them.

`| err` of the drain is `DrainErr`: it skips the body and the clock moves on.
`Broadcast` ends in `phase = "panic"` when a pid is wider than the wire's u16.

`ScoreBounded` shows what the comment at `sim/index.k:372` does not: 45.0 halves to
22.5, which is not above the threshold 25.0 of line 377, so the 50-point class is
empty and a middle rock gives 100.

### AsteroidsNet

A client is its `hud` and the number of rows in its `view`. A frame
sends one input and applies any set of the snapshots in flight, in any order, as
the drain loop does with what the network delivers; a snapshot may be delivered
and stay in flight (duplication), and `Lose` takes any datagram away. `Quit` and
`Start` model processes that end and a port that is given out again. Snapshots
carry their age in broadcasts, which bounds how long one may be delayed. `log` is a history variable, for properties only:
per pid the key it was given to, its first input and the inputs that were applied.
A late input that was overtaken stays in `drops`, although the server did see it:
`DropsBalance` is about inputs applied, which is what the code counts, and not
about inputs seen, which is how the comments put it.

### AsteroidsWire, UdpDrain and AsteroidsTransport

`AsteroidsWire` uses the real sizes of the code as constants (65536, 14, 28, 8,
65507, 8192), so its run is about the code's own limits and not about a small
instance. `UdpDrain` tells datagrams apart by age only: those of this tick, of the
one before, and older. `AsteroidsTransport` puts the two into the order of the tick
body: the drain, then one snapshot that is built row by row and sent once, while
datagrams go on arriving; a drain that fails ends the tick without a snapshot.

The snapshot fits its buffer up to 2340 rows, but at 2339 it no longer fits a
datagram: `sendto` refuses it and `snap.truncated` stays 0, so the trailer's counter
says "nothing left out" to nobody. `WireInv` says that every row offered is built into
the snapshot or counted, and what of it is read; it does not promise that a snapshot
leaves the server, and from 2339 rows on none does.

### Enet and Podnet

libenet is external; `Enet` models what the pump can see of it. A slot is `free`,
`pending` (connected, not announced), `connected` or `zombie` (gone, not
announced), and is free again as soon as its disconnect has been taken out of the
queue, whether or not a branch sees it. It reads the network only inside
`enet_host_service`, so nothing happens between `Fetch`, which takes an event out,
and `Handle`, its branch. `GuardBreak` is the loop's `break` with an event in hand.
Events of different slots come in any order, those of one slot in order.

`Podnet` adds what the branches write. An input is the number of the connection
that sent it and a car is the set of connections that have moved it, which is
all that ownership needs. `muddled` is a history variable: the slots that lost
their connect or disconnect to the guard, until a join into an unused row or a
leave makes them whole. Positions sent, and the clients, are left out.

The event in hand at the guard is lost although the comment at `enet/index.kz:157`
has every event fired once. `PodInv` says how far that goes: a slot that lost its
leave keeps its car driving, the next player of the slot finds it "busy" and
inherits the car, and the slot is whole after they leave.

### UkSched

Between two yields a thread runs alone, so an action is all that a thread does
until the next one: a call of the flow that never yields (`Reserve` to `Unpark`), one
turn of the loops of `run` and `join` (`Await`, `Done`, `Stalled`, with `Enter` for their
first lines), one lap of a worker (`Lap`) or one round of its final loop (`Rest`).
`state` is the phantom state of a handle: a call whose state does not fit is a
program the compiler refuses, so it is a guard here. `call.yields` is what is left of
the pass, counted once on entry as the code does.

The kernel is not in the repository. It is modelled as `index.kz` and its README
state it: `uk_thread_block` and `uk_thread_wake` do nothing to a thread that is
blocked or runnable already; a wake puts a thread back into the run queue only if it
is queueable; the switch sets that flag on the thread it leaves; `sched_yield` takes
the head of the run queue and puts the caller, if it may still run, at the tail. The
idle thread, which runs when the queue is empty, is counted in the roster and otherwise
left out, as the flow itself never leaves the queue. The refusals of `reserve`,
`prime` and `attach` change nothing and are left out, except that a worker with no
laps is never primed. `current` and `census` only read.

`never-ran` hands a handle back as `<ran!>` though its thread never had the CPU; parked
and woken it is runnable, attached and in no run queue, so it never runs. `SchedOK`
excludes exactly these threads: nothing that has executed is ever lost, and what is
stranded this way `run` reports as stalled.

### KeyedTable and KoruDom

A click is one handler and runs to its end, so it is one action; only `build`'s loop is
unrolled, one row at a time, with `todo` the rows still to be made and no other
click before they are. The store is what the compiler made of it: dense `rows` with
swap-remove, `hslotRow`, `hslotGen` and `hslotFree` for the handles, and the
column `pos` as the order. The page is the sequence of `tbody`'s children, each
with the handle of the row it was painted for, the id and label it shows, and its class.
DOM calls are modelled by what they do to that sequence (`InsertBefore` takes
the element out first, as the DOM does). A label is its length, which is all that
the cut at 48 characters changes. `document.title` and the sweeps at start, which find
no row, are left out.

`KeyedTable` knows rows, ids, labels and one chosen row, nothing of stores. `ImplementsTable`
maps the page to it. It needs the labels to be shorter than the column: after some
marks the store cuts one, and `update` paints the cut; `MaxMarks` keeps to what
fits. `KeptHandleNeverMoves` holds as long as no slot is reused 2^21 times, the modulus
of its generation; no behaviour of the run gets there, the theorem assumes it, and it is
not claimed beyond.

### Gauntlet

Each operation of `OPSET` is a program (a sequence of steps) over a fresh page, and the
closer's `click`, `poll`, `read`, `record` and `runOp` are actions on it. A poll that is
not answered sleeps until its deadline, counted in looks. A click finds its element
in one evaluation and dispatches in another; what happens between is the target's.
`Trouble` is any failure of navigation or evaluation, at any step. A table of 1000 rows
is `N`, and a row is a node with an id, a mark and a class.

The target is external: it follows the benchmark, or has one of eighteen faults that
the operations are there to catch. It paints gestures in order, in one or two frames,
whenever it likes within what a prompt page may take (`Lag`, `BigLag` against the
closer's patience): that is the assumption under which a verdict can be the
target's own. Three more targets are not prompt. One is `late` with its large tables and
may be given any verdict, which `VerdictIsTheTargets` therefore leaves out; one is `frozen`, never
paints, and fails every operation; one is `blocking`: a handler of its page does not
return, and neither does the `page.evaluate` that dispatched the click
(`closer.mjs:160`), which has no deadline, nor have those at 118 and 149. That run never
ends, and `EveryRunReports` promises it nothing. `FailsAt` is the table of which fault shows
where, and says what the operations do not see: `closer.mjs:399` "removed id gone" compares two
ids that were both read before the removal, so a row that lingers elsewhere in the table passes.
An element that vanishes between being found and being clicked is in the model (`Click`), but
the programs of the operation set never get there without a failure of the browser.

### Board

A run is `Compute` (read the last line, make the row), `AppendRow` and `Render`; it may
end at any byte of its writes, so the history may end in a row without a newline, in
a part of one, or in two rows on one line. Such a line makes every later run
throw when it parses it, which is how the code protects the story it tells. What the
closer found, and whether there is a vehicle at all, is chosen anew for every run. Runs
do not overlap.

`js_escape` is one scan per host file, a function of the number of lines read, with the
brace depth and the language of the body under way (`Scan`), inside a walk over the files
(`Walk`). `EscapeIsByOwner` compares it with a definition that does not scan: a line
belongs to the body of the last header before which the braces do not close.

### Timings

The driver is external. It measures cells one after another, overwrites their files,
leaves a cell it abandons as it was, may be stopped anywhere, and may be started again at
any time with any count, the one it had among them. A sample is a number: one of `Quick`
when the program had the machine to itself, one of `Busy` when it had not.

A reader is a process beside it. It goes through the files one by one and reads of each
first the values (`ReadValues`, `window.mjs:22`), then the time of writing (`ReadTime`, line
23), so the driver may overwrite a file between the two (`torn`). `ladder.mjs` takes the
columns from the files of the first benchmark (line 76), not of any, as the comment at line
72 says; drops a benchmark that some column has not; refuses at the first one that is not of one
window; and prints its table. `read-timings.mjs` reads its control first and one
benchmark. Only then comes the gate (`LadderGate`, `TimingsGate`): without `--twin` or `--expect`
there is none and the reader exits 0 with a table it calls unverified
(`ladder.mjs:189`, `read-timings.mjs:105`). A refusal at that point comes after the table, not
instead of it.

What the readers can promise is less than "one run". `OneRun` says that what is ranked
lies within one window, and is of one run if the runs can be told apart (`RunsTold`: no two of
the same count within a window of each other) and no file was overwritten between its two
reads (`Untorn`). Both conditions are needed, TLC finds the mixture without either: a driver
that is stopped and started again with the same count within 90 minutes passes
`windowFault`, and so does a file whose values are of one run and whose time is of the next.

`TwinGatesWindow` says what an accepted twin shows: in one run, base and twin both had the
machine to themselves for some sample, or neither had. Of the control of `read-timings.mjs`
nothing is claimed: its gate compares with a value from an earlier session, and
`ladder.mjs:29-34` reports that the control moves by 39 per cent between sessions. Ratios are
compared crosswise so that they stay integers.

### LiftIdioms

One negative per action: built, built again with the safety net off if the first build gave
no diagnostic, classified and entered. koruc is external and says something new in
every run. A run may be killed between two builds; the write of the file is one step, so a
kill inside it is not modelled. A build that ends with exit 0 and a single warning counts
as rejected: `classify` looks at the diagnostics and not at the exit code. The header
(lines 18-19) promises that a negative which stops failing turns the exit code;
`CompilingIsRegression` states that promise, and the run `idioms_gate` finds it violated. So
`CorpusSound` says that no negative is lost, not that only rejected ones are shown.

### VercelServe

Between two awaits a handler runs alone, so its actions are the stretches between
awaits: `ReadBody` (whose URL may not parse, for any method: the mount then answers 500), `Upstream`, `Ask` (from the length check to the slice of the
response), `Respond`. The module's promise settles once, either way. A path is the
sequence of its segments, with the prefixes its text begins with given apart, because
the code tests live paths by text and client routes by segments. A body is its count
of bytes below and above 127: read as latin1 and written as UTF-8 (line 70), the latter
double, so a binary body reaches the reactor longer than it was sent. `Surface` is about the
answers of the reactor: a client route and every path below one is answered with the shell,
with 200 where the shell is baked, and every other path with its own page or a 404.

## Runs

| run | question | answer |
|---|---|---|
| `sim` | do the two stores agree whatever packets arrive, is the census exact on a full store, does the server implement the session service, is every death answered and every silent client swept? | yes |
| `net` | does `drops` balance with the inputs applied, over loss, duplication, reordering and rejoins, and does a client learn its pid? | yes |
| `transport` | is every row built in or counted, a small field read back whole, and does the drain keep up? | yes, if the cap is at least a tick's arrivals; from 2339 rows on no snapshot leaves |
| `podnet` | do row, held input and car belong to the connection in the slot, and does the pump always return? | yes, apart from slots that lost an event, until their next leave |
| `sched` | do the phantom states tell the truth, is a live thread ever lost, is `stalled` right, do `run` and `join` return? | they do; never; it is; they do |
| `dom` | do the order, the handles and the page agree after any clicks, and is the page the benchmark's table? | yes |
| `gauntlet` | does the verdict depend on when the target paints, and does every operation get one? | no, for a prompt target and for one that never paints; yes, unless the page blocks |
| `board` | does the history tell one story however runs end, and is every line counted by its language? | yes |
| `timings` | is what the readers rank from one window and one run, and does an accepted twin say that base and twin were in one regime? | one window, yes; one run, where runs can be told apart and no file was torn; it does |
| `idioms` | is a negative ever lost, does an entry name its weakest invocation, is the file a whole run's? | no; yes; yes |
| `idioms_gate` | does a negative that compiles turn the exit code, as the header says? | no: not if its build prints a warning |
| `serve` | can a client get another's answer, or none? | no |

Where a comment of the repository and the code differ, the module's section above
says so, and the model follows the code.

### Bounds, and why they are enough

* `sim`: three keys on two session rows, three joins, four body rows, inputs up to 1,
  two waves, a respawn clock of two ticks (with one, a clock armed again in every
  tick would still run out in it). A join is refused, a session is swept while
  its ship is alive, dead or waiting, a swept key rejoins under a new pid, and a wave
  does not fit the store when it is split, so every kind of insert is refused
  somewhere. The theorems hold for every other size.
* `net`: one key, inputs up to 3, two datagrams in the receive buffer, snapshots that live
  for one broadcast, two joins. A late and a newer datagram are all that reordering
  needs, and a quit and restart all that a reused port does. `MaxWave` is 0, because rocks
  play no part. `F32Exact` scales 2^24 down to the largest seq. What needs
  several clients, `MeIsMine`, is proved for every number of them.
* `transport`: the sizes of the code (65536, 14, 28, 8, 65507, 8192) and fields up to 2400 rows,
  past the last limit. From 292 rows on the datagram is cut at the client's packet
  buffer, and the trailer with it. The drain has cap and rate 2, a buffer of 7 and two failed
  drains: with one the buffer has the room that `KeepsUp` asks for, with two it has not.
* `podnet`: two slots, four connections, so that a slot is reused after any of its
  events is lost; one slot is past `MAXP`; five calls of `serve`, with a guard of one.
* `sched`: three workers of one or two laps. Three let one be in a call, one before and
  one behind it in the run queue; two laps tell the first from the last.
* `dom`: a store of four rows, `run` makes two, `runlots` five (so that the store is full
  before the build ends), `add` one; the swap exchanges positions 0 and 2, so that
  there is a row between them and the second may be the last; every second
  row is marked; ids up to 4 let slots be given back and reused. Labels are 11 or 27
  characters of 48.
* `gauntlet`: nine rows stand for 1000 (every position the operations name apart, with
  rows before, between and behind), eleven for 10000, a stride of 3; a small
  assertion looks once more after the first, a large one twice; twenty-two targets (one that
  conforms, eighteen faults, `late`, `frozen`, `blocking`) and one failure of the browser.
* `board`: two operations and two verdicts, every pair of rounds, three runs; files of up to
  four lines of eight sorts for `js_escape`.
* `timings`: two frameworks (base and twin), two benchmarks, runs of one or two samples, two
  runs and one abandoned cell, a window of three units, so that a run may begin within a window
  of the last one or beyond it; several samples are drawn in the second benchmark only; sample
  sets of up to four values for the cluster. Two runs are enough to mix; the theorems hold for
  any number of frameworks, benchmarks and runs.
* `idioms`, `idioms_gate`: three lifts, one without a negative, four outcomes of a build, two runs.
* `serve`: two overlapping requests of fourteen sorts, a buffer of five with a head of two,
  so that a body is accepted, doubled past the limit, or too long as it is.

`MaxSeq`, `MaxJoin`, `MaxWave`, `MaxDelay`, `MaxField`, `MaxErrs`, `MaxConn`, `MaxInbox`,
`MaxLaps`, `MaxId`, `MaxMarks`, `MaxTroubles`, `MaxLines`, `MaxRuns`, `MaxDrives`, `MaxAborts`,
`SpanMax`, `Drawn`, `Sampled` and `Buttons` are bounds of the models, not of the code. Deadlock is
checked in `sim`, `net`, `transport` and `sched`. The other systems stop: the server
of `podnet` after `TICKS` calls, the closer with its summary, the scripts with their last
run, the adapter when every request is answered, and the table when its ids are used up.

### Fairness

`FairSpec` of `AsteroidsSim`: weak fairness of the end of the drain (it handles at
most 512 datagrams, and a drain that fails only starts another), of the rules and
of the broadcast, which are straight-line code of one thread. Nothing is assumed
of clients. `NetFair` adds that clients draw frames while they run, that a
snapshot or an input that is in flight again and again is eventually taken, and
that not all of the inputs a client sends for ever are lost. Without the last no
protocol over datagrams could promise anything. `FairPodSpec` asks only that the
pump's loop goes on; packets may come in between any two of its steps for ever.
`FairSpec` of `UkSched`: whatever thread has the CPU goes on to its next yield, and so
does the flow while it is in `run` or `join`. Nothing is assumed of the flow outside
a call.

`Gauntlet` takes weak fairness of its steps without the failures of the browser together: as
long as the closer or the page can go on, one of them does. With a page that never paints the
closer alone goes on, to its deadlines; one that blocks stops both.
`VercelServe` assumes that the event loop runs every handler that may run, that the module's
promise settles, and that backends and senders of bodies come to an end, well or badly.
`KoruDom`, `Board`, `LiftIdioms`, `Timings` and `AsteroidsTransport` assume no fairness and state no
liveness: users, compilers, drivers and networks may stop.

## Proofs

All theorems hold for every value of the constants that satisfies the assumption named in
the module, which TLC evaluates in the run of that module.

`AsteroidsNetProofs` proves that `SimInv` is an invariant, with `TypeCorrect`,
`SessionsAreDistinct`, `ShipsHaveOwners`, `DeathsAreArmed` and `CensusIsExact` as its parts;
`ScoreIsBounded`; the action properties `WavesOnEmptyField` and `StepsAreSound`; and
`SimImplementsSessions`, the refinement of `AsteroidsSessions`.
`SimInv` is inductive only as a whole. A ship's owner being a session
(`ShipsOwned`) survives a join because pids are below `nextpid`
(`SessionsDistinct`); it survives the sweep because no two sessions share a pid.
The census survives `harvest-rocks` only because flagged rocks are on the field
(`HitOnField`). `RespawnArmed` needs both stores to agree. The proof has one lemma
per action (`DriveFreshInv`, ..., `SweepStaleInv`), two lemmas for what packets and
aging leave alone (`KeptInv`, `AgedKeeps`), and `NextInv` joins them. The score is bounded
by what the rocks dealt so far were worth less what those still on the field are worth,
which a split into smaller rocks never raises. For the refinement, only a join, an input
applied and a sweep move the mapped variables; every other action is a stutter. The
assumption is `NumAssumption` (the constants are naturals, a respawn and a
cooldown take at least a tick, a wave has a rock).

The same module extends that to the whole system, from `NumAssumption` and
`NetAssumption`: `NetInvariant` (types, and `DropsBalance`) and `NoForeignShip`. The latter's
strengthening is that the pid in every snapshot in flight, and the one every client
believes in, was handed out to that client's key (`DownOK`, `MeOK`), which is why
snapshots of an earlier session of the same port do no harm. The balance is
induction over the server's steps alone: an input applied leaves `lseq` and `drops`
together exactly one input ahead.

`AsteroidsTransportProofs` proves `SnapshotsAreSound` for every size of buffer, header, record and
packet that `WireAssumption` allows, the sizes of the code among them. `Built` says how far
the offset has got and that rows were refused only where no other fits; the arithmetic
is in `OffsetFacts` and `IntactFits`.

It also proves, for every cap, buffer, rate and number of failures, that
inputs are never late, that the backlog is at most `(2 + errs) * Rate` and that a
buffer with that room never overflows. Both carry over to the whole tick: a behaviour of
`AsteroidsTransport` is one of each end (`TickIsBoth`), hence `TicksAreSound`. `Backlog` strengthens the bound with what
the running drain has already taken, `InReach` says which datagrams it still has
to reach; the products with `errs` are the only arithmetic lemma.

`ServerProofs` proves of `Podnet`, for every number of slots, every guard and every number of
connections that `PodInv` is an invariant of the server, and from it
`RowsBelongToConnections` and `PodTypeCorrect`. `EventOK` is the strengthening: while
a connect or packet is in hand its slot is still connected to the same
connection, and while a disconnect is in hand its slot is free. Without it a
branch might write the row of somebody else.

`UkSchedProofs` proves for every number of threads and laps that `SchedInv` is an
invariant, and from it `SchedulerIsSound` with its parts `StatesAreTrue`, `RunQueueIsSound`,
`NoLiveThreadLost`, `TypeCorrect`, and the action property `StalledIsEvidence`. Two parts
strengthen it.
`StartedQueueable` says that a thread that has started has been switched away from:
the flag is set in the same lap as `started`, because the flow is always waiting, so
there is a thread to switch to; a parked thread with laps left is therefore queued by
`unpark`. `TurnBeforeMain` carries `StalledIsEvidence`: once the flow has yielded in
a call, a thread it waits for that is in the run queue comes before the flow in it,
so that one turn of the queue is enough. The sequence lemmas (`RemoveAtFacts`,
`AppendFacts`, `HeadTailFacts`) say what the kernel's list operations do to the set
of a queue's elements and to their being distinct. They assume what the module
assumes: finitely many threads, and `Main` not among them.

`KoruDomProofs` proves in two layers, from `SizesAssumption`. `StoreInv` (types, `PosIsPermutation`,
`HandlesSound`) is inductive over the store alone: a removal moves the last row into the
hole and closes the gap in `pos` in one step, and `RemovedRows` says what that does to every
row; from it `OrderKept` and `HandlesStaySound`. `PageInv` adds the page: each element
is at the position of its row, shows it and is in the registry. `SwapExchanges` shows that
`swap-rows` exchanges two elements and moves no other, for any two positions, adjacent
or last; a removed row's element is found by its key because no two rows share a slot. From it
`PageFollowsStore` and, with the pages before and after compared, `ElementsStayKeyed`.

Two more layers rest on `PageInv`. `KeptHandleStaysDead` assumes `2 * MaxId < GenMod` and counts
(`KeptInv`): a slot has spent at most two generations for every id given out, one for a
removal and one for the clear that sweeps all slots (`GenBudget`, with what the slot may still
spend), so none comes round again; a slot given out addresses its own row or none
(`SlotsResolve`); and the handle in `sel` addresses a row or is of a generation spent
(`SelSpent`). `PageIsTheTable` shows of every click that it is one gesture of `KeyedTable` or
a stutter (`ClearImplements` to `SelectImplements`), from what the clicks do to the
elements and from `IdsGiven`: ids on the page are distinct and were given out before, which is
why at most one row is the chosen one. It assumes that labels with all their
marks fit the column (`MarksFit`), as the run does.

`LiftIdiomsProofs` proves, from `IdiomsAssumption`, for every list of lifts and negatives and
any number of runs, `EveryNegativeIsAccounted`, `EntriesAreWeakest`, the action
property `FileIsWhole`, and `GateIsExact`: the exit code is 1 exactly when some negative was built
twice without a word of koru's, which is what the code does and less than its header says. The properties speak of runs that have ended; the invariant `Inv` says the
same of a scan that is half-way, relative to the place it has reached: what is built is what
stands `Before` it, each once; the entries are rising and each is `Due` to a build; every build
that said something of koru's is `Entered`, and the regressions are the others. A catalog
is only extended at the end of a lift, which is why entries of the lift under
way are kept apart.

`BenchProofs` is about the three parts that read or judge the benchmark.

* `HistoryIsOneStory` and `LatestIsInHistory`, from `BoardAssumption`, for every set of operations
  and verdicts. `BoardInv` adds to the history the row in hand: before the append it
  `Continues` the history, after it it is its last row. A run that finds the history
  torn never gets that far.
* `EscapesByOwner`, from `BoardAssumption`, for host files of any number of lines, and
  `EscapeOfAnyVehicle`, for any number of files. `ScanAt` says after each line what the
  scan has counted, how deep it is, and which header, if any, has its body open: the
  one header at the top before which the braces have not closed since (`Open`, `OneTop`).
  A line is then at the top exactly when no body is open before it (`TopsAre`), and what is
  counted there is what the reference counts.
* `WindowsAreSound`, `ClusterOfAnySize`, `ClusterIsAlone` and `TwinGateIsSound`, from
  `TimingsAssumption` and `RegimesAssumption`. `TimingsInv` says behind the windows where times come
  from: a file's time lies within its run, and so does the time a reader holds unless its file was
  torn, so that two rows of different runs are further apart than a window, or of different
  counts, if the runs can be told apart; and that what is ranked was read and had no fault when
  it was ranked. The cluster and the twin rest on what the readers take for granted of the
  machine while one run lasts, which `RegimesAssumption` spells out after the comments of
  `window.mjs` ("the two regimes differ by a factor rather than by noise"): quick samples are
  within `SPLIT_RATIO` of each other, busy ones are not within it of any quick one and differ
  among themselves by no more than the step between the regimes. Where the machine does
  not keep to that, the readers promise nothing.
* `ResultsAreSound` and `SummaryIsComplete`, from `GauntletAssumption`, for every size of the tables,
  every patience, every set of targets. `GauntletInv` has three parts: the results so far
  (`ResultsKept`); the operation under way, whose assertions so far were all recorded and
  hold, as many as its program has before the step it is at (`OnCourse`); and a page whose
  nodes were all made (`PageKept`). `ProgramsEnd` says why a pass needs every assertion:
  each of the eleven programs ends in one.

Where a proof needs induction over a number (the first busy sample, the widest gap,
the least index), the number is the least element of a nonempty set of naturals
(`Least`), which follows from the library's theorem that `<` is well-founded. So does induction
up to a number (`UpTo`), from the least counterexample, and that a function defined by
recursion on a number has the values its definition gives (`Recursion`).

`VerdictProofs` proves `VerdictsAreTheTargets`, from `GauntletAssumption`, for every size of the tables, every patience
that outlasts the page's lag, every target but the late one, and any trouble. The strengthening is `Course`: for each of the
eleven operations, what the table, the gestures still to paint, the observer and the values
read can be at each step, for a target that follows the benchmark and for each fault
(`Course1` to `Course11`). Being on course makes what the closer may do `Just`: an
assertion that fails when nothing is left to paint fails a target that should fail, one that
ends an operation well passes a target that should pass, what it clicks or reads is there.
`Timely` ties the two deadlines together: a slow gesture is waited for only by a question that
has the large one, so that a deadline passes only over a quiet page (`ExpiredIsQuiet`). For each
operation `CourseKJust`, `CourseKGoes` and `CourseKPaints` then show that it stays on course when the
closer goes on and when the page paints a frame. In `Course11Run` the run may be clicked while the
second frame of the swap is still to come, since the texts are asked for after the first; the
observer then sees the second frame after its reset, and that one node is why a target that recycles
its rows is still told: one is fewer than N. A page that never paints stays
`Blank`: every program then comes to an assertion that such a page fails, and nothing is recorded of it
before but what it did right.

`ServerProofs` also proves `AnswersAreOwn` and `SurfaceIsDeclared` from `ServeAssumption`, for any
number of requests. The strengthening is about what a suspended handler knows: one that
asks or fetches has read its own body and taken the turn its path asks for (`TurnOK`),
and what it holds was made for it (`Own`), which the shared buffers cannot change
because what is held is a slice taken before the next await.

Model-checked only, and why:

* Liveness (`EventuallyRevived`, `SilentIsSwept`, `LearnsPid`, `ServeReturns`, `CallReturns`,
  `EveryRunReports`, `EveryRequestAnswered`): properties under fairness are out of
  the proof system's reach.

## Not modelled

* Drawing, printing, pacing, receipts and command lines of the modelled programs; field
  encodings; `place-ship`, a door only tests use; `bind`, `close` and `reply` of `udp`; `dial`, the
  sends and the close of `enet`; podnet's clients and positions; `sched`'s `current` and
  `census`, which only read; the static file server of the closer; the header
  re-shaping of the adapter; the printed ratios of the timing readers.
* `dom/board`'s `quiet-machine`, the generators of timing probes and `truncation-check`:
  straight-line scripts without state. The `dom_stub` tests: contract checks of one run.
* `cube2-net`: a scripted handshake in the order the messages come, over the pump that
  `Podnet` models; it keeps nothing per peer between messages.
* The rest of `unikraft`: typed calls over the kernel, whose state it is; the order of use is
  enforced by phantom states when the program is compiled.
* `regressions`: one sequential pass over external processes; its ledger is replaced
  whole, by a rename. `stack`: a pure check of one graph. `composition`: arithmetic on
  floating-point seconds. `sse` and `kbd`: framing of one stream by one caller.
* Wrappers whose life cycle the compiler enforces, compile-time transforms, text generation
  and numeric filters. Their correctness is not a matter of reachable states.
