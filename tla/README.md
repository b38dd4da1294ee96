# TLA+ specification of the network simulator platform

This directory holds a TLA+ model of the repository's core engine
(`core-engine/`, C++20) and of the way its telemetry takes through the AI
service to the dashboard, the TLC configurations that check it on small
instances, and TLAPS proofs of its main safety properties for every value of
the constants.  `PROJECT.json` maps each definition to the lines it models,
lists the runs, their mutants, the theorems, the findings and the hazards.

Paths below are relative to the repository root.

## 1. The system

| Part | Source | State it keeps | Operations | Talks to |
|---|---|---|---|---|
| Telemetry queue `SpscRingBuffer` | `core-engine/include/system/event_queue.hpp` | `head_`, `tail_`, `buffer_` | `push`, `pop` | daemon thread (producer), monitor thread (consumer), no lock |
| `TelemetryMonitor` | `core-engine/src/system/monitor.cpp` | `running_`, worker thread, cumulative counters, `stats_`, `stats_mutex_` | `start`, `stop`, `get_latest_metrics`, `monitor_loop` | pops the queue; readers take the mutex |
| `GcraRateLimiter`, `Node` | `core-engine/include/network/rate_limiter.hpp`, `src/network/node.cpp` | `tat_ns_` | `allow` through `Node::receive_packet` | lock-free, documented as thread-safe |
| Daemon | `core-engine/src/main/core_engine.cpp` | `g_active_connections`, globals | accept handler, client handler, poll loop, demo publisher thread | everything below |
| `KqueueEventLoop` | `core-engine/src/system/event_loop.cpp` | kernel interest set, `callbacks_` | `register_event`, `poll_once` (epoll and kqueue builds) | calls the daemon's handlers |
| `TcpServer`, `Connection`, `SocketFD` | `core-engine/src/core/` | owned descriptors | `start`, `accept_connection`, `receive_data`, `disconnect` | kernel |
| `HttpSim` | `core-engine/src/protocols/http_sim.cpp` | parser state, request under construction | `parse_chunk`, `reset` | client handler |
| `MemoryArena` | `core-engine/include/core/memory_arena.hpp` | cursor | `allocate`, `reset` | client handler |
| `TelemetryHttpClient` | `core-engine/src/system/telemetry_http_client.cpp` | endpoint | `post_metric_event`, `post_sample` (blocking) | AI service |
| `CircuitBreaker` | `core-engine/src/network/circuit_breaker.cpp` | `state_`, `failure_count_`, `success_count_`, time stamp | `get_state`, `record_success`, `record_failure` | router |
| `Router` | `core-engine/src/network/router.cpp` | `routing_table_`, `link_breakers_` | `record_link_*`, `get_link_state`, `compute_routes`, `lookup_route` | its breakers |
| `ArpCache` | `core-engine/src/network/arp.cpp` | `cache_map`, `usage_list` | `get`, `put`, `invalidate` | none |
| Addressing, `Backoff`, packet and message codecs | `core-engine/src/network/addressing.cpp`, `include/network/backoff.hpp`, `src/core/` | none | pure functions | all |
| AI service | `ai-service/` | capped metric history, latest analyses | ingest, predict, report | telemetry client, dashboard |
| Dashboard | `dashboard/src/App.jsx` | polled analyses, alert list | poll, render | AI service |
| Validation binary, containers, scripts | `core-engine/src/main/controller.cpp`, `infra/`, `tools/` | none | none | none |

How it runs: one daemon thread polls, accepts, receives, parses, asks the rate
limiter, pushes a `MetricEvent` into the queue and posts it to the AI service.
The monitor's worker drains the queue.  A detached demo thread posts synthetic
samples.  The AI service keeps a history and the dashboard polls it.

What is hard here, and what correctness means for each part:

* **Queue**: two threads, no lock, stale loads, `size_t` wrap-around at the
  fullness test.  No slot is accessed by both threads, and pushes and pops are
  those of a FIFO queue.
* **Monitor**: the drain loop, the 100 ms update, readers, stop and restart
  interleave.  What a reader gets describes exactly a prefix of the accepted
  events; `stop()` returns.
* **Rate limiter**: the decision is made on a time stamp and a value that may
  both be old by the time of the compare-and-swap.  The rate is never exceeded,
  nobody is rejected without cause, and the retry loop ends.
* **Daemon**: events of one batch are dispatched after handlers of the same
  batch have opened and closed sockets; descriptor numbers are reused; several
  calls throw through the loop; a post blocks it.  The tables agree, an event is
  never delivered to the wrong socket, every request is handled.
* **Breaker**: counters and time stamp must be reset at the right transitions,
  and several threads may call it.  It trips and closes at the documented counts
  and stays open for the timeout.
* **Router**: Dijkstra with a lazy heap, breaker-dependent costs, 32-bit
  distances, a walk along parents that must end.  The table is exactly the
  shortest routes.
* **Parser and codec**: TCP may cut a request anywhere, a connection carries
  several, and the parser is reset between them.  The bytes lead to the state the
  daemon's model names, and to the packet that the client serialized.
* **Telemetry pipeline**: two threads post over connections that may be refused
  or cut off, the service forgets everything when it restarts, polls of the
  dashboard overlap.  Samples keep their order, an acknowledged one is analysed,
  no post hangs because the service died, and the dashboard ends up with the
  service's latest predictions.
* **Addresses**: exactly the well-formed texts are accepted, masks are contiguous
  and have the prefix length they were made from.
* **ARP cache**: the map keeps iterators into the list.  Both must describe the
  same entries after any sequence of calls, also when a list node is freed and
  its memory used again, and eviction takes the least recently used entry.

`PROJECT.json` lists the hazards one by one with the line at which each bites.

## 2. Modules

| Module | Models | State and actions |
|---|---|---|
| `BoundedFifo` | what the queue promises | a sequence, and how many pushes and pops the other side has not observed yet |
| `SpscRingBuffer` | `push()`, `pop()` | `head`, `tail`, `buffer` and each thread's locals; one action per atomic or slot access.  A slot under assignment holds `Torn` |
| `SpscRingBufferProofs` | | invariant, race freedom, refinement to `BoundedFifo` |
| `TelemetryMonitor` | `monitor.cpp` | instantiates `BoundedFifo` for its queue; `Start`, `Stop`, `Join`, `GetLatestMetrics`, and the worker's `LoopTest`, `DrainOne`, `DrainEnd`, `NotDue`, `LockAndTotal`, `RatesAndUnlock` |
| `MonitorHistory` | | `TelemetryMonitor` with the log of accepted events and the properties that need it |
| `MonitorHistoryProofs` | | invariant, conservation, prefixes, monotone reads, no thread left unjoined |
| `GcraRateLimiter` | `allow()` | clock, `tat` and its modification order, per thread the sample and `current_tat`; `Sample`, `Load`, `Reject`, `Admit`, `Retry` |
| `GcraRateLimiterProofs` | | invariant, sustained rate, no undue rejection |
| `CoreEngine` | daemon, event loop, connections, parser boundary, arena | kernel side (`backlog`, `sock`, `wire`, `peer`, `interest`) and daemon side (`callbacks`, `parser`, `pending`, `dpc`, `cur`, `arena`); one action per poll, dispatch, loop iteration of the accept handler, receive outcome and return of the post |
| `CoreEngineProofs` | | invariant, agreement of the tables, empty arena between events, no spurious disconnect, every request of paced clients handled; agreement with the byte-level parser, round trip of the codec, composition of chunks |
| `HttpSim` | `http_sim.cpp` | the parser as a record (`state`, `token`, `key`, `length`, `read`, `body`); `Byte` is one iteration of `parse_chunk()`, one alternative per `HttpState` |
| `PacketCodec` | `packet.cpp` | `MakePacket`, `Serialize`, `Malformed`, `Deserialize` on sequences of bytes |
| `EngineParsing` | clients' request texts | renders the pieces of `CoreEngine` as bytes in several ways and relates its `ParseChunk` to `HttpSim` and `PacketCodec`; its constants are the packets' contents, malformed bodies, the MTU and the largest `Content-Length` that `reserve()` grants |
| `TelemetryPipeline` | `telemetry_http_client.cpp`, the demo thread, `ai-service/`, `App.jsx` | per publisher its current post (`sent`, `answered`, `closed`); the service's `db`, `history`, `cache`; the dashboard's `polls`, `display`, `alerts`; one action per step that another party can come between |
| `TelemetryPipelineProofs` | | invariant, order of samples, acknowledged posts, alerts, freshness of polls |
| `Addressing` | `addressing.cpp`, `Node::is_local` | `ParseChar` per character, `AddressText`, `MaskOfPrefix`, `MaskOfText`, `PrefixLength`, `BitAnd` (the code's `&`, bit by bit), `IsLocal`, and their reference definitions |
| `CircuitBreaker` | `circuit_breaker.cpp` | the four members and each caller's position; one action per member access |
| `CircuitBreakerProofs` | | invariant and the three properties, for one caller |
| `Router` | `router.cpp` | breakers, table, and the locals of `compute_routes()`: one action per heap pop, destination and parent hop; extends `Addressing` for the entries and the lookup |
| `RouterProofs` | | parents closer to the source, shortest routes, usable next hops, longest prefix; parsing and printing of addresses and masks |
| `LruCache` | what the ARP cache promises | keys and values, and the order of use as a relation |
| `ArpCache` | `arp.cpp` | `cache_map` with iterators, `usage_list` as a sequence of nodes, the key in each node; one action per path through `get`, `put`, `invalidate` |
| `ArpCacheProofs` | | invariant, refinement to `LruCache` |
| `MC*` | | constants for TLC |

Composition: the monitor uses the queue through `BoundedFifo`, which
`SpscRingBuffer` is proved to implement, so what is shown of the monitor holds
for the lock-free queue.  `CoreEngine` composes event loop, server, connections,
parser, arena and publisher.  Its fairness assumption that a post returns is
what `TelemetryPipeline` shows of a service that may crash (`PostReturns`), and
its parser states are what `HttpSim` reaches on the bytes (`HttpSimAgrees`).
`Router` contains its breakers as records, as the
sequential behaviour that `CircuitBreaker` has with one caller.

Modelling decisions that a reader should know:

* **Memory order.**  An acquire load may return any value from the latest one
  that the thread has seen up to the current one.  In `GcraRateLimiter` the
  loads are relaxed and the same choice is made over `tat_ns_`'s modification
  order; a successful compare-and-swap reads the latest value.  A release store
  in `SpscRingBuffer` makes the slot's contents visible with the counter.
* **Widths.**  `size_t` counters wrap at `IndexMod`, the monitor's `uint64_t`
  counters at `CounterMod`, the router's `uint32_t` distances at `MaxDist + 1`.
* **Time.**  Clocks are counters that `Tick` advances, or a flag "the interval
  has passed" (`due`, `ripe`) where only that test is made.
* **Payloads.**  A request is a head and a last piece; `bad` is a body that
  `Packet::deserialize` rejects, `junk` a header that sends the parser into its
  error state, `huge` a `Content-Length` that `reserve()` cannot grant.  A receive
  returns any non-empty prefix of what has arrived.  `EngineParsing` gives every
  piece several byte sequences; `PiecesIndivisible` there is why a chunk that
  ends inside a piece needs no action of its own.
* **Characters.**  `HttpSim` tells apart the bytes its code tells apart; a run of
  others (a method, a name, a numeral) is one unit.
* **Builds.**  The variable `epoll` says which of the two event loops runs; it
  is chosen at the start.
* **Arena.**  The daemon allocates one type, `Packet`, whose alignment is 1, so
  the cursor is a number of packets (`ArenaPackets` is 13 in the code).
* **Samples.**  A telemetry sample is its number; whether a forecast is anomalous
  is left open once there are `MinPoints` latencies, because any two of the
  three floating-point tests decide it.  `analyze()` does not fail for the
  latencies that the engine and its demo send (only one whose square overflows
  a double would), so the service's HTTP 500 branch has no action.
* **Service.**  A handler of the service has no `await` between reading and
  writing its tables, so it is one action.  A crash empties them and closes its
  connections.  A post fails only when the service is down or dies.
* **Addresses.**  An address is a number of four octets of `OctetBits` bits;
  `node_to_mask` holds the prefix lengths its masks are made from, and the
  entries hold the masks, as in the code.
* **Descriptors.**  `accept()` may return any free number, because the demo
  thread's sockets take numbers too.  When none is left Linux reports so even if
  no client waits; whether one number beyond `Fds` is left for the handler's
  last call is open.
* **Batches.**  A poll returns all ready descriptors, or any `MaxEvents` of them
  if there are more.
* **Unpaced clients.**  When the head of a request was skipped, its rest meets a
  new parser.  The model leaves the parser at the start; the real one moves on
  if the body contains the right delimiters.  The theorems and passing runs about
  requests are for paced clients, who never cause this, and `engine_sticky` is
  violated before it can happen.
* **Graphs.**  A topology has at most one link between two nodes and direction;
  the code's adjacency lists could repeat a neighbour with another cost.
* **Observers** (`winStart`, `busyCount`, `openedAt`, `failed`, `sent`,
  `handled`, `log` and the like) record what happened and restrict nothing.
* **Data races** on the breaker's plain members are modelled by interleaving
  single accesses in program order, a subset of what undefined behaviour permits;
  it is already enough to refute the documented claim.

## 3. Runs

| Run | Instance | Checks |
|---|---|---|
| `spsc` | capacity 2, counters modulo 8, two items | `RingInv`, `NoDataRace`, `ImplementsFifo`, and `HeadAdvances` |
| `gcra` | two threads, interval 2, burst 2, clock up to 4 | `TatInv`, `SustainedRate`, `NoUndueReject`, `AllowReturns` |
| `monitor` | capacity 2, three events of two kinds, counters modulo 8 | `SeenIsPrefix`, `Conservation` (with `TypeOK`), `ReadsMonotone`, `StartFindsNoThread`, `EventuallyReported`, `StopReturns` |
| `engine` | both builds, two connections, two descriptors, one client that may be faulty in all four ways, two requests each | `EngineInv`, `ArenaReclaimed`, `AllRequestsHandled`, `HttpSimAgrees`, `TablesAgree`, `NoSpuriousDisconnect`, `ClientServed` |
| `pipeline` | one link per publisher, one and three samples, all caps 2, two overlapping polls, one restart of the service | `PipelineInv`, `StreamOrder`, `AckedAnalysed`, `AlertForDisplayed`, `PollsFresh`, `PostReturns`, `EventuallyCurrent` |
| `breaker_sequential` | one caller, threshold 3, timeout 2, clock up to 7 | `BreakerInv`, `TripsAtThreshold`, `ClosesAfterThree`, `OpenUntilTimeout` |
| `router_graphs` | 3 nodes, 25 graphs, three address plans, two computations, both links' breakers, octets of two bits | `ParentsCloser` (with `TypeOK`), `AddressesAgree`, `ShortestRoutes`, `AnswerUsable`, `LongestPrefix`, `ComputeReturns` |
| `arp` | 4 addresses, 2 MACs, capacity 3, 4 list nodes | `CacheInv`, `ImplementsLru` |
| `engine_fd_reuse` | epoll build, well-behaved clients | violates `RunsIndefinitely` |
| `engine_sticky` | one client that does not wait for answers | violates `AllRequestsHandled` |
| `breaker_concurrent` | two callers | violates `OpenUntilTimeout` |
| `router_stub` | a neighbour without an adjacency list | violates `ShortestRoutes` |

Why the bounds are enough for the cases that matter:

* `spsc`: the queue becomes full and empty, both threads hold stale counters,
  and the counters go round the ring of 8 several times: the state space is
  finite without any bound on the number of operations.  Capacity 2 is the
  smallest for which full, empty and "one of each" differ.
* `gcra`: two threads suffice for every pairwise race of sample, load and swap.
  The clock bound 4 is two intervals, so a full burst (2 packets), a rejection
  and a later admission happen; the window's start is any instant.
* `monitor`: three events fill a queue of two and leave one for after a stop;
  two successful events of size 5 and latency 3 wrap the sum of the bytes at 8,
  a third one that of the latencies.  `Start` and
  `Stop` are unbounded.
* `engine`: two connections in one batch give every order of accept, receive and
  close; the faulty client's descriptor is given up and used again in the kqueue
  build while the other one's events are pending.  A poll
  takes two of up to three ready descriptors (ten in the code), so one may be
  left to a later batch, and accepting both clients takes the last descriptor.
  Two requests per connection let the state that a first request leaves behind
  matter for a second.  Paced clients send the next request when the daemon has
  handled the last one (it never answers its clients); those of `engine_sticky`
  do not wait.
  `HttpSimAgrees` looks at every prefix of what has arrived at each receive, in
  every rendering: bodies with delimiters in them, beyond the MTU (3 there, 1500
  in the code), empty, and malformed for each of the three reasons.
* `pipeline`: three samples of the demo pass the caps of 2 of the stored samples
  and of the predictor's window, and two are enough for a forecast; a crash may
  come before, between and after any of the steps of a post or a poll; two polls
  are the least that can overtake each other; two alerts are exactly as many as
  there are links, the least cap for which `AlertForDisplayed` can hold.  In the
  code the cap is 15, for the 3 links of the demo and one per descriptor of the
  daemon's clients: `PipelineAssumption` says that at most 15 links exist, and
  with more of them anomalous at once an alert would be cut off.
* `breaker_sequential`: the clock reaches three timeouts, so the breaker trips,
  recovers, fails again half-open and closes; counts left over from one cycle
  would be seen in the next.
* `router_graphs`: every graph over the links that can be on a path from the
  source, one cost such that a detour is cheaper, every breaker history before,
  between and after two computations, and a graph that does not contain the
  source.  The address plans have a default route of prefix length 0 beside a
  longer prefix, a node without an address and one without a mask.
  `AddressesAgree` parses the 9330 texts of up to five segments, each empty, a
  numeral (also with a leading zero), too large, or with another character.
* `arp`: one address more than the capacity, so `put` evicts; one node more than
  the capacity, so a freed node may be used again at once or later.  Nodes and
  MACs are interchangeable (symmetry; no liveness is checked).  The number of
  calls is not bounded.

### Fairness

* Queue: both threads keep running and the monitor polls for ever (its loop has
  no other exit than `stop()`); a store becomes visible in finite time, which is
  strong fairness of a load that returns the current value
  (`[intro.progress]`/`[atomics.order]` of the C++ standard recommend it).
  Nobody is assumed to push.
* Rate limiter: a thread inside `allow()` keeps running, and
  `compare_exchange_weak` does not fail spuriously for ever.
* Monitor: the worker and a joining owner are scheduled, and time passes.
  Nobody is assumed to start, stop, push or read.
* Daemon: its thread runs, and the blocking post returns.  The second is an
  assumption on the telemetry endpoint that the code does not enforce (there is
  no timeout in `telemetry_http_client.cpp`); without it `ClientServed` fails.
  Nothing is assumed of which ready descriptors a full batch leaves out: with
  finitely many requests each has its turn.
* Pipeline: the engine's threads run, a service that is up keeps handling
  requests, the dashboard's interval keeps firing and its fetches end.  Nobody is
  assumed to crash or to start the service again; `EventuallyCurrent` asks for a
  service that stays up.
* Router: a call of `compute_routes()` keeps running.

### Disagreements between code and documentation

1. `engine_fd_reuse`.  `register_event()` picks `EPOLL_CTL_MOD` when
   `callbacks_` has an entry, and nobody erases entries of closed descriptors.
   The first connection that gets a reused number makes `epoll_ctl` fail, the
   exception passes through the loop, and `main()` returns, while
   `core_engine.cpp:268` says the loop runs indefinitely.  The kqueue build has
   no such step.
2. `engine_sticky`.  Bytes behind the end of a request in the same chunk are
   dropped, while `core_engine.cpp:209-210` says the parser resolves the sticky
   packet issue.
3. `breaker_concurrent`.  `state_` becomes visible before the time stamp that
   belongs to it, while `circuit_breaker.hpp:34` claims thread-safety.
4. `router_stub`.  `distances[v]` inserts a zero for a node that is no key of
   the graph; the node gets a route of metric 0 over a link that does not exist.

Further ones that the models show but no run is spent on (see the hazards): a
reset connection ends the daemon as well (`connection.cpp:83`), and so does a
`Content-Length` that cannot be reserved (`http_sim.cpp:108`); an older answer
that arrives late replaces a newer one on the dashboard (`App.jsx:196`); an
endpoint that
never answers blocks the loop; a producer that keeps the queue supplied
postpones the monitor's 100 ms update (`monitor.cpp:39`); a thread delayed after
its clock sample lets more than `burst_capacity` packets pass at one instant of
real time (`rate_limiter.hpp:36`), which is why `SustainedRate` counts packets
by their samples.

### Mutants

Every property of a passing run has a mutant: a changed form of one mapped
definition, written just before it and named for the mistake it makes, under
which TLC finds the property violated.

## 4. Proofs

All theorems are for arbitrary constants, under the named assumptions of the
module.

**`SpscRingBufferProofs`**, for every capacity that divides the number of
counter values.  `NoDataRace` is not inductive: it needs to know that the
producer's stale `phead` still bounds the occupancy.  `RingInv` adds the order in
which `phead`, `head`, `ctail`, `tail` are met going round the ring
(`RingOrder`), what each thread may rely on at its position, and that published
slots are intact.  `DataRaceFreedom` follows because two indices less than
`Capacity` apart have different slots (`SlotsApart`, which needs that `Capacity`
divides `IndexMod`).  `Refinement` maps each step to a step of `BoundedFifo` or a
stutter: the store to `tail_` is the push, the store to `head_` the pop, and a
load that moves a thread's knowledge is an observation.

**`GcraRateLimiterProofs`**, for any number of threads, interval and burst.
`TatInv` says that `tat_ns_` is the greatest value of its history, at most
`Tolerance + EmissionInterval` ahead of the clock, at least one interval per
admission above the start of the window, and exactly one interval per admission
above the start of the busy period.  `SustainedRateHolds` and
`NoUndueRejectHolds` are arithmetic from it.

**`MonitorHistoryProofs`**, for any capacity, any kinds of events and at most
`MaxEvents < CounterMod` of them (fewer than 2^64: beyond that a counter of
packets no longer tells prefixes apart).  `SeenIsPrefix` says nothing of what the
worker is doing, so `IInv` adds it: `Queued` (the queue holds the events
accepted last, hence what was popped is a prefix of the log), `Threads` (there
is a worker from `start()` to the end of `stop()`, and it holds the mutex between
the two halves of its update), `Accounted` (interval counters and totals stand
for the popped events; half way through an update only the totals do) and
`Reported` (`stats_`, and what was read of it, stand for prefixes of them).  The
totals are sums over a sequence, defined as a recursive function of the length;
`SumOfAppend` and `PartialSumsAgree` say what an event adds and that a prefix's sum
depends on the prefix only, by the least length at which they would fail.  TLC
agrees with `IInv` on the instance of `monitor`.

**`CoreEngineProofs`**, for any number of connections and descriptors, both
builds and all faults.  The tables alone are not inductive: a
pending event must still be true when it is dispatched.  `EventsHold` says so,
and holds because only its own handler consumes what made a descriptor ready.
`CleanBetween` says that the arena is used only while a packet is published.
From the invariant follow `TablesAgreeHolds`, `ArenaReclaimedHolds` and
`NoSpuriousDisconnectHolds`, for unpaced clients too.  `AllRequestsHandledPaced`
has the hypothesis `Paced`, because `engine_sticky` shows the claim false
without it.  It needs `RequestsInStep`: for each connection the number of
requests sent and handled, what is on the wire, whether the client is in the
middle of a request, and the state of the parser that will read it can only be
combined in the ways `InStep` lists, and a connection that was not accepted yet
will meet a new parser.

`HttpSimAgreesPaced` relates the daemon's model to the bytes, for any packets,
any malformed bodies, MTU and limit of `reserve()` (`ParsingAssumption`: bodies
are bytes, a packet fits the limit and its length 32 bits).  The argument goes
upwards.  `ParseRun` turns `ParseBytes` into the sequence of its intermediate
parsers, so that two runs over the same bytes agree by the least index at which
they would differ; `ChunksCompose` follows: parsing `s` and then `t` is parsing
both as one chunk, which is what makes chunk boundaries irrelevant.  `LineByte`,
`HeaderByte`, `HeadEnd` and `BodyEnd` say what one byte does where it is
expected; `FirstLine`, `OtherHeader`, `LengthHeader` compose them into lines, and
`FramedRun` into a request, whose body is collected byte by byte whatever
delimiters it contains.  `HeadRendered`, `LastRendered`, `BadRendered` and
`OthersRendered` are the result for each piece, and `Indivisible` that no proper
part of one completes a request.  What can be on the wire when a handler receives
is listed by `WiresInShape`, an invariant of paced clients which holds, unlike
`InStep`, after a reset as well.  `ConcreteStates` is where the reset between
requests matters: it leaves no trace of the first one, so `start` stands for one
parser only.  `PacketRoundTrip` is arithmetic on the four bytes of the length
(`NetworkOrder`) and indices into the concatenation (`BytesJoined`).

**`RouterProofs`**, for any graphs, breaker histories and number of
computations.  `ParentsStayCloser` assumes `SmallCosts`: costs are positive, and
neither they nor `OpenCost` exceed `MaxCost`, so that no simple path costs more
than `uint32_t` holds; the code takes costs from its caller and does not check
them (see the hazard at `router.cpp:71`).  `MCRouter` assumes it of the
instances that TLC checks.  A distance is not bounded by an invariant about
itself alone, because each relaxation adds a cost to one; `DistancesBounded` says
that it is at most `MaxCost` times the number of nodes that are closer, which a
relaxation keeps since the node it comes from joins them (`OneMoreLink`,
`RelaxedBounds`).  Hence `current_dist + cost` never wraps (`NoOverflow`).
`AnswersAreUsable` also assumes `NoStubs`, every neighbour being a key of the
graph, because `router_stub` shows it false otherwise; `Reached` says that what
the source reaches over an open circuit is at least `OpenCost` away, so the walk
does not end there.

`RoutesAreShortest` has the same two hypotheses, and three more parts to its
inductive argument.  `Explored` is the invariant of Dijkstra's algorithm: a node
that was reached and is no longer in the heap with its distance has relaxed all
its links and is no further than what is in the heap, and every parent is such a
node, with a distance smaller by exactly the cost of the link.  That parents stay
so needs that a later relaxation cannot improve a done node (`DoneStays`), which
is where the heap's order comes in, and that asking the breakers happens once,
when the source is popped, so no cost of a link changes afterwards (`RelaxFrame`).
When the heap is empty no path is cheaper than a distance (`NoPathCheaper`) and a
way along parents costs exactly the distance (`TrailCost`); the cost of a path is
a recursive function of its length, and both lemmas look at the first node at
which they would fail.  `Trails` are such ways, and distances grow along them, so
they fit into the number of nodes (`TrailFits`).  `TableGrows` follows the second
half of the call: the walk keeps a trail from the current node to the
destination, a destination still to be looked at has no entry, and each of the
others has what a trail from the source justifies.  `TableIsCorrect` combines
them, and counts the entries by the bijection from entries to destinations.

`LongestPrefixWins` needs neither: from `MaskBits`,
`BitAndMask` and `PrefixLengthOfMask` (a mask made from `n` has `n` ones above
zeros, `&` with it keeps the upper `n` bits, and counting its ones gives `n`)
follows `MatchIsPrefix`, that the comparison in `lookup_route()` is the
comparison of prefixes.

`AddressesAgreeHolds` is for octets of up to 9 bits (`AddressingAssumption`; 8 in
the code, and to_string() of an octet then has at most three digits) and any
segments.  As in the parser of requests, `ParseChars` is turned into a run
(`CharsRun`), texts compose (`TextsCompose`), and a constructor that threw does
nothing any more (`ThrownStays`).  `SegmentParsed` says what a segment does to a
parser at its beginning: its octet is the segment's value, or it threw, because
the value of a longer numeral is not smaller.  `NextSegment` adds a dot and a
segment, `JoinedParsed` any number of them, and `AddressesParsed` is the result.
`TextsAreJoined` says that every text is segments with dots between them, so
`EveryText` leaves out none.  `AddressRoundTrip` is division by the base of the
octets (`HornerDigits`) and the three cases of a short numeral.  That `x & (x + 1)`
accepts exactly the contiguous masks is `PowerHasNone` and `CommonUnlessPower`: a
number strictly between two powers of two shares its highest bit with its
predecessor.  The entries of the table inherit all this from `SubnetsHold`.

**`CircuitBreakerProofs`**, for one caller (`OneCaller`; with two the claim is
false, see `breaker_concurrent`), every threshold and timeout.  `BreakerInv` relates
the two counters to the calls made in a row and the time stamp to the moment of
the trip.

**`ArpCacheProofs`**, for any addresses, capacity and supply of list nodes.
`CacheInv` is the agreement of map and list: iterators point to the node with their
own key, no node is left over, and the capacity is kept.  `Refinement` maps the
list to the order of use: lemmas about `Order` say what prepending a node,
removing one and dropping the last one do to it, and `SplicedOrder`,
`UnlinkedOrder`, `InsertedOrder`, `EvictedOrder` carry this from nodes to keys.
An insertion may use the very node that eviction gave up, which is why
`InsertedOrder` is about the list that eviction leaves.

**`TelemetryPipelineProofs`**, for any finite sets of links, any caps with
`MinPoints <= Window <= DbLimit`, at most `MaxAlerts` links, and any number of
overlapping polls, samples and restarts.  None of the properties is inductive by
itself.  A post that returned true says nothing of the cache unless the answer
it waited for does; `StreamOrder` needs that a sample on its way is newer than
what the service has; an answer can only be fresh if the display never was ahead
of the service.  `PipelineInv` adds `PostsNewer` (what the service has of a link was
posted by the link's one publisher, and a post in flight is newer) and
`AnalysesReached` (whatever the dashboard shows or is about to show is an earlier
life's, or no newer than the cache).  `ServiceAdvances` carries the second over
every step.  `PushedIndex` and `PushedOrdered` say what a capped push does to
the two lists, `NewAlertsRange` and `KeepAlertsIndex` that the slice keeps all
the alerts of an answer when there are no more links than the cap.

Only model-checked: every liveness property (`HeadAdvances`, `AllowReturns`,
`EventuallyReported`, `StopReturns`, `ClientServed`, `PostReturns`,
`EventuallyCurrent`, `ComputeReturns`), because the prover has no support for
fairness and `ENABLED`.  Every invariant and every action property of the passing
runs is proved.

## 5. Not modelled

* What `HttpSim` stores of method, path, version and headers other than
  `Content-Length`: the daemon does not read it.
* Alignment in `MemoryArena`: the daemon's one type needs none.
* `connect_to`, `send_data`, the copy of a breaker, `Message`: not used by the
  daemon.  `Backoff` is not either: one pure function without state, called
  by the validation binary with attempts 1 and 2.
* The static destructors that run beside the detached demo thread when `main()`
  returns: undefined behaviour with no state left to speak about.
* Start-up of the daemon, endpoint parsing and JSON text, validation of samples
  by the service (HTTP 422), prediction arithmetic (floating point), canvas
  drawing, container files, portfolio scripts, log output.

## 6. Plan

Done: the queue, the monitor on top of it, the rate limiter, the daemon with its
parser, codec and arena, the breaker, the router with its addresses, the ARP
cache and the telemetry pipeline.

Next, in this order:

1. A pipeline in which the service accepts and stays silent, to state what the
   daemon may no longer promise then.
