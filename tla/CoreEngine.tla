----------------------------- MODULE CoreEngine -----------------------------
(***************************************************************************)
(* The daemon (src/main/core_engine.cpp) with its event loop               *)
(* (src/system/event_loop.cpp), listening socket, client connections and   *)
(* packet arena: one thread that polls, accepts, receives, parses, checks  *)
(* the rate limit and publishes, against clients that connect, send, close *)
(* and reset at any moment.                                                *)
(*                                                                         *)
(* A request on the wire is two pieces, "head" and a last one: "last", or  *)
(* "bad" when Packet::deserialize rejects the body.  A "junk" piece drives *)
(* HttpSim into its error state, a "huge" one announces a body that cannot *)
(* be reserved.  One receive returns any number of the pieces that have    *)
(* arrived; EngineParsing relates them to the bytes.  The rate limiter and *)
(* the event queue, which only decide what is published, are modelled in   *)
(* modules of their own.                                                   *)
(***************************************************************************)
EXTENDS Integers, Sequences, FiniteSets

CONSTANTS
  Conns,        \* client connections, each opened at most once
  NoConn,       \* no connection
  Fds,          \* descriptor numbers available to accept()
  Listen,       \* the listening socket's descriptor
  Builds,       \* of {TRUE, FALSE}: the epoll build, the kqueue build
  MaxEvents,    \* events that one poll takes (10)
  ArenaPackets, \* packets that fit into the arena (13)
  Faults,       \* of {"reset", "bad", "junk", "huge"}: what faulty clients may do
  Faulty,       \* connections of clients that may be faulty
  Paced,        \* clients wait until a request was handled to send the next
  MaxRequests   \* bound on the requests of one connection

ASSUME EngineAssumption ==
  /\ Listen \notin Fds
  /\ NoConn \notin Conns
  /\ Builds \subseteq BOOLEAN
  /\ MaxEvents \in Nat \ {0}
  /\ ArenaPackets \in Nat \ {0}
  /\ Paced \in BOOLEAN
  /\ Faults \subseteq {"reset", "bad", "junk", "huge"}

VARIABLES
  epoll,      \* which build runs: TRUE when the loop polls with epoll
  \* The kernel.
  backlog,    \* connections that wait to be accepted
  sock,       \* descriptor -> its open connection
  wire,       \* connection -> pieces received and not yet read
  peer,       \* connection -> what the client has done to it
  interest,   \* descriptors the kernel watches (epoll set, kevent list)
  \* The daemon.
  callbacks,  \* descriptors with an entry in callbacks_
  parser,     \* descriptor -> state of the HttpSim in g_active_connections
  pending,    \* events of the current batch that were not dispatched yet
  dpc,        \* where the daemon is
  cur,        \* the descriptor whose handler runs
  arena,      \* packets between arena_start_ and current_cursor_
  \* Observers.
  mid,        \* connection -> the client is in the middle of a request
  sent,       \* connection -> complete requests sent
  handled     \* connection -> complete requests handled

kernel == <<backlog, sock, wire, peer, interest>>
daemon == <<callbacks, parser, pending, dpc, cur, arena>>
observers == <<mid, sent, handled>>
vars   == <<epoll, kernel, daemon, observers>>

\* Descriptors in g_active_connections.
Active == {fd \in Fds : parser[fd] # "none"}

Init ==
  /\ epoll \in Builds
  /\ backlog = {}
  /\ sock = [fd \in Fds |-> NoConn]
  /\ wire = [c \in Conns |-> <<>>]
  /\ peer = [c \in Conns |-> "new"]
  /\ interest = {Listen}
  /\ callbacks = {Listen}
  /\ parser = [fd \in Fds |-> "none"]
  /\ pending = {}
  /\ dpc = "poll"
  /\ cur = Listen
  /\ arena = 0
  /\ mid = [c \in Conns |-> FALSE]
  /\ sent = [c \in Conns |-> 0]
  /\ handled = [c \in Conns |-> 0]

-----------------------------------------------------------------------------
(* Clients.                                                                *)

Connect(c) ==
  /\ peer[c] = "new"
  /\ peer' = [peer EXCEPT ![c] = "open"]
  /\ backlog' = backlog \union {c}
  /\ UNCHANGED <<epoll, sock, wire, interest, daemon, observers>>

Deliver(c, piece) ==
  /\ peer[c] = "open"
  /\ wire' = [wire EXCEPT ![c] = Append(@, piece)]
  /\ UNCHANGED <<epoll, backlog, sock, peer, interest, daemon, handled>>

SendHead(c) ==
  /\ ~mid[c]
  /\ sent[c] < MaxRequests
  /\ Paced => sent[c] = handled[c]
  /\ Deliver(c, "head")
  /\ mid' = [mid EXCEPT ![c] = TRUE]
  /\ UNCHANGED sent

SendLast(c) ==
  /\ mid[c]
  /\ \/ Deliver(c, "last")
     \/ /\ c \in Faulty
        /\ \E piece \in Faults \intersect {"bad", "huge"} : Deliver(c, piece)
  /\ mid' = [mid EXCEPT ![c] = FALSE]
  /\ sent' = [sent EXCEPT ![c] = @ + 1]

\* A malformed header; the client stays in the middle of its request.
SendJunk(c) ==
  /\ "junk" \in Faults /\ c \in Faulty
  /\ mid[c]
  /\ wire[c] = <<>>
  /\ Deliver(c, "junk")
  /\ UNCHANGED <<mid, sent>>

\* The client closes: what it sent can still be read.
Close(c) ==
  /\ peer[c] = "open"
  /\ peer' = [peer EXCEPT ![c] = "closed"]
  /\ UNCHANGED <<epoll, backlog, sock, wire, interest, daemon, observers>>

\* The client resets: what it sent may be discarded.
Reset(c) ==
  /\ "reset" \in Faults /\ c \in Faulty
  /\ peer[c] \in {"open", "closed"}
  /\ peer' = [peer EXCEPT ![c] = "reset"]
  /\ wire' \in {wire, [wire EXCEPT ![c] = <<>>]}
  /\ UNCHANGED <<epoll, backlog, sock, interest, daemon, observers>>

-----------------------------------------------------------------------------
(* The event loop: poll_once().                                            *)

Ready(fd) ==
  IF fd = Listen THEN backlog # {}
  ELSE wire[sock[fd]] # <<>> \/ peer[sock[fd]] \in {"closed", "reset"}

\* What one poll returns: all that is ready, or any MaxEvents of it.
Batches(ready) ==
  IF Cardinality(ready) <= MaxEvents THEN {ready}
  ELSE {batch \in SUBSET ready : Cardinality(batch) = MaxEvents}

Poll ==
  /\ dpc = "poll"
  /\ \E fd \in interest : Ready(fd)
  /\ pending' \in Batches({fd \in interest : Ready(fd)})
  /\ dpc' = "dispatch"
  /\ UNCHANGED <<epoll, kernel, callbacks, parser, cur, arena, observers>>

\* epoll_wait or kevent times out; main calls poll_once() again.
PollTimeout ==
  /\ dpc = "poll"
  /\ \A fd \in interest : ~Ready(fd)
  /\ UNCHANGED vars

\* Mutated form of Dispatch: a client's event stays in the batch.
DispatchTwice(fd) ==
  /\ dpc = "dispatch"
  /\ fd \in pending
  /\ pending' = pending \ ({fd} \intersect {Listen})
  /\ cur' = fd
  /\ dpc' = IF fd \notin callbacks THEN "dispatch"
            ELSE IF fd = Listen THEN "accept"
            ELSE IF fd \in Active THEN "receive" ELSE "dispatch"
  /\ UNCHANGED <<epoll, kernel, callbacks, parser, arena, observers>>

\* The handler of an event that is still to be dispatched is called.  The
\* events of a batch come in no particular order.
Dispatch(fd) ==
  /\ dpc = "dispatch"
  /\ fd \in pending
  /\ pending' = pending \ {fd}
  /\ cur' = fd
  /\ dpc' = IF fd \notin callbacks THEN "dispatch"
            ELSE IF fd = Listen THEN "accept"
            ELSE IF fd \in Active THEN "receive" ELSE "dispatch"
  /\ UNCHANGED <<epoll, kernel, callbacks, parser, arena, observers>>

BatchDone ==
  /\ dpc = "dispatch"
  /\ pending = {}
  /\ dpc' = "poll"
  /\ UNCHANGED <<epoll, kernel, callbacks, parser, pending, cur, arena, observers>>

-----------------------------------------------------------------------------
(* The accept handler: one step per iteration of its loop.                 *)

Free == {fd \in Fds : sock[fd] = NoConn}

\* register_event(): EPOLL_CTL_MOD of a descriptor that the kernel does not
\* watch and EPOLL_CTL_ADD of one that it watches fail, and it throws.
RegisterFails(fd) ==
  epoll /\ (fd \in callbacks <=> fd \notin interest)

\* The connection gets a context with a new parser and is registered.  Other
\* threads' sockets may hold lower descriptor numbers: any free one.
AcceptOne ==
  /\ dpc = "accept"
  /\ \E c \in backlog, fd \in Free :
       /\ backlog' = backlog \ {c}
       /\ sock' = [sock EXCEPT ![fd] = c]
       /\ parser' = [parser EXCEPT ![fd] = "start"]
       /\ \/ /\ RegisterFails(fd)
             /\ dpc' = "exited"
             /\ UNCHANGED <<interest, callbacks>>
          \/ /\ ~RegisterFails(fd)
             /\ interest' = interest \union {fd}
             /\ callbacks' = callbacks \union {fd}
             /\ UNCHANGED dpc
  /\ UNCHANGED <<epoll, wire, peer, pending, cur, arena, observers>>

\* accept() fails: no descriptor is left, which Linux finds out before it looks
\* for a connection (whether one more than Fds is left for the handler's last
\* call is open), or a kqueue system reports that a client reset its connection
\* while it waited.  accept_connection() throws.
AcceptFails ==
  /\ dpc = "accept"
  /\ \/ Free = {} /\ (backlog # {} \/ epoll)
     \/ ~epoll /\ \E c \in backlog : peer[c] = "reset"
  /\ dpc' = "exited"
  /\ UNCHANGED <<epoll, kernel, callbacks, parser, pending, cur, arena, observers>>

\* Mutated form of AcceptDone: accept() waits, the socket is a blocking one.
AcceptBlocks ==
  /\ dpc = "accept"
  /\ backlog = {}
  /\ UNCHANGED vars

\* accept() reports that there is nothing to accept.
AcceptDone ==
  /\ dpc = "accept"
  /\ backlog = {}
  /\ dpc' = "dispatch"
  /\ UNCHANGED <<epoll, kernel, callbacks, parser, pending, cur, arena, observers>>

-----------------------------------------------------------------------------
(* The client handler.                                                     *)

\* Where HttpSim is after the piece that ends a request.
Outcome(piece) ==
  CASE piece = "last" -> "complete"
    [] piece = "bad"  -> "completeBad"
    [] piece = "huge" -> "throws"
    [] OTHER          -> "error"

\* Mutated form of ParseChunk: only the first piece of a chunk is parsed.
ParseFirstPiece(state, chunk) ==
  IF state = "partial" /\ chunk[1] # "head" THEN Outcome(chunk[1])
  ELSE IF state = "start" /\ chunk[1] = "head" THEN "partial" ELSE state

\* parse_chunk(): the state after a chunk.  The first piece that ends a request
\* decides; what follows it in the chunk is skipped.  A piece that no head
\* precedes is taken for the start of a method name, where the model leaves the
\* parser; if it has the right delimiters the parser moves on.  Only a client
\* that is not paced can cause that, when its previous head was skipped.
ParseChunk(state, chunk) ==
  LET Headed(j) == state = "partial" \/ \E i \in 1..j-1 : chunk[i] = "head"
      ends == {j \in 1..Len(chunk) : chunk[j] # "head" /\ Headed(j)}
  IN IF state \notin {"start", "partial"} THEN state
     ELSE IF ends # {} THEN Outcome(chunk[CHOOSE j \in ends : \A k \in ends : j <= k])
     ELSE IF Headed(Len(chunk) + 1) THEN "partial" ELSE "start"

\* What is left of the parser and the arena when parse_chunk() has returned
\* result.  "complete": the packet is in the arena and about to be published.
Handle(result, dropped, arenaAfter) ==
  /\ parser' = [parser EXCEPT ![cur] = IF dropped THEN "start"
                                       ELSE IF result = "throws" THEN @ ELSE result]
  /\ arena' = IF dropped THEN arenaAfter ELSE IF result = "complete" THEN arena + 1 ELSE arena
  /\ handled' = IF result \in {"complete", "completeBad"}
                THEN [handled EXCEPT ![sock[cur]] = @ + 1] ELSE handled
  /\ dpc' = CASE result = "throws" -> "exited"
             [] (result = "complete" /\ ~dropped) -> "publish"
             [] OTHER -> "dispatch"

\* No packet comes of a complete request: allocate() finds the arena full, or
\* Packet::deserialize throws.
Dropped(result) ==
  \/ result = "completeBad"
  \/ result = "complete" /\ arena >= ArenaPackets

\* Mutated form of Received: an exception skips the reset of the arena.
ReceivedArenaLeak(chunk) ==
  LET result == ParseChunk(parser[cur], chunk) IN
  Handle(result, Dropped(result), arena + 1)

\* parse_chunk() and what follows it.  Pieces after the one that completes
\* the request are lost.  An exception of allocate() or deserialize() is
\* caught, arena and parser are reset; one of reserve() in parse_chunk()
\* ends main().
Received(chunk) ==
  LET result == ParseChunk(parser[cur], chunk) IN Handle(result, Dropped(result), 0)

ReceiveData ==
  LET c == sock[cur] IN
  /\ dpc = "receive"
  /\ \E n \in 1..Len(wire[c]) :
       /\ Received(SubSeq(wire[c], 1, n))
       /\ wire' = [wire EXCEPT ![c] = SubSeq(@, n + 1, Len(@))]
  /\ UNCHANGED <<epoll, backlog, sock, peer, interest, callbacks, pending, cur, mid, sent>>

\* Mutated form of ReceiveNothing: the context is not erased.
ReceiveNothingKeepsContext ==
  LET c == sock[cur] IN
  /\ dpc = "receive"
  /\ wire[c] = <<>>
  /\ peer[c] # "reset"
  /\ sock' = [sock EXCEPT ![cur] = NoConn]
  /\ interest' = interest \ {cur}
  /\ dpc' = "dispatch"
  /\ UNCHANGED <<epoll, backlog, wire, peer, callbacks, parser, pending, cur, arena, observers>>

\* Mutated form of ReceiveNothing: the end of file is acted on before what
\* arrived is read.
ReceiveNothingEarly ==
  LET c == sock[cur] IN
  /\ dpc = "receive"
  /\ peer[c] = "closed"
  /\ parser' = [parser EXCEPT ![cur] = "none"]
  /\ sock' = [sock EXCEPT ![cur] = NoConn]
  /\ interest' = interest \ {cur}
  /\ dpc' = "dispatch"
  /\ UNCHANGED <<epoll, backlog, wire, peer, callbacks, pending, cur, arena, observers>>

\* receive_data() returned nothing, because of end of file or because there
\* was nothing to read: the context is erased, which closes the socket; a
\* closed descriptor leaves the kernel's list.  callbacks_ keeps its entry.
ReceiveNothing ==
  LET c == sock[cur] IN
  /\ dpc = "receive"
  /\ wire[c] = <<>>
  /\ peer[c] # "reset"
  /\ parser' = [parser EXCEPT ![cur] = "none"]
  /\ sock' = [sock EXCEPT ![cur] = NoConn]
  /\ interest' = interest \ {cur}
  /\ dpc' = "dispatch"
  /\ UNCHANGED <<epoll, backlog, wire, peer, callbacks, pending, cur, arena, observers>>

\* recv() reports the reset: receive_data() throws, and main() catches it.
ReceiveReset ==
  LET c == sock[cur] IN
  /\ dpc = "receive"
  /\ wire[c] = <<>>
  /\ peer[c] = "reset"
  /\ dpc' = "exited"
  /\ UNCHANGED <<epoll, kernel, callbacks, parser, pending, cur, arena, observers>>

\* post_metric_event() returns, published or not: the arena and the parser
\* are reset.  Until then the daemon is blocked in connect, send or recv.
PublishReturns ==
  /\ dpc = "publish"
  /\ arena' = 0
  /\ parser' = [parser EXCEPT ![cur] = "start"]
  /\ dpc' = "dispatch"
  /\ UNCHANGED <<epoll, kernel, callbacks, pending, cur, observers>>

\* main() has returned.
Exited ==
  /\ dpc = "exited"
  /\ UNCHANGED vars

-----------------------------------------------------------------------------
Client(c) ==
  \/ Connect(c)
  \/ SendHead(c) \/ SendLast(c) \/ SendJunk(c)
  \/ Close(c) \/ Reset(c)

LoopStep ==
  \/ Poll \/ BatchDone
  \/ \E fd \in Fds \union {Listen} : Dispatch(fd)
  \/ AcceptOne \/ AcceptFails \/ AcceptDone
  \/ ReceiveData \/ ReceiveNothing \/ ReceiveReset

Next ==
  \/ dpc # "exited" /\ \E c \in Conns : Client(c)
  \/ LoopStep
  \/ PublishReturns
  \/ PollTimeout
  \/ Exited

Spec == Init /\ [][Next]_vars

\* The daemon's thread runs, and the telemetry endpoint answers, refuses or
\* closes every request: the blocking post returns.
FairSpec == Spec /\ WF_vars(LoopStep) /\ WF_vars(PublishReturns)

-----------------------------------------------------------------------------
(* Types.                                                                  *)
TypeOK ==
  /\ epoll \in BOOLEAN
  /\ backlog \subseteq Conns
  /\ sock \in [Fds -> Conns \union {NoConn}]
  /\ wire \in [Conns -> Seq({"head", "last", "bad", "junk", "huge"})]
  /\ peer \in [Conns -> {"new", "open", "closed", "reset"}]
  /\ interest \subseteq Fds \union {Listen}
  /\ callbacks \subseteq Fds \union {Listen}
  /\ parser \in [Fds -> {"none", "start", "partial", "complete", "error"}]
  /\ pending \subseteq Fds \union {Listen}
  /\ dpc \in {"poll", "dispatch", "accept", "receive", "publish", "exited"}
  /\ cur \in Fds \union {Listen}
  /\ arena \in Nat
  /\ mid \in [Conns -> BOOLEAN]
  /\ sent \in [Conns -> Nat]
  /\ handled \in [Conns -> Nat]

(* The three tables agree while the daemon runs: every open socket has a   *)
(* context and is watched, no other descriptor is, each watched descriptor *)
(* has a callback, and no connection is open twice.                        *)
TablesAgree ==
  dpc # "exited" =>
    /\ Active = {fd \in Fds : sock[fd] # NoConn}
    /\ interest = Active \union {Listen}
    /\ interest \subseteq callbacks
    /\ \A f, g \in Active : sock[f] = sock[g] => f = g
    /\ \A f \in Active : sock[f] \notin backlog

(* No event of a batch outlives its socket: what is still to be dispatched *)
(* is watched, so a descriptor reused by an accept earlier in the batch is *)
(* never served an event of its predecessor.                               *)
NoStaleEvent == dpc # "exited" => pending \subseteq interest

(* A connection is given up only after the client closed it and everything *)
(* it sent was read: "nothing to read" never passes for "disconnected".    *)
NoSpuriousDisconnect ==
  [][\A fd \in Fds :
       parser[fd] # "none" /\ parser'[fd] = "none" =>
         peer[sock[fd]] = "closed" /\ wire[sock[fd]] = <<>>]_vars

(* When the daemon has read everything a client sent, it has handled every *)
(* complete request of it, whatever the boundaries of the chunks           *)
(* (connections in the parser's error state apart).                        *)
AllRequestsHandled ==
  \A fd \in Active :
    LET c == sock[fd] IN
    wire[c] = <<>> /\ parser[fd] # "error" /\ peer[c] # "reset" /\ dpc # "exited"
      => handled[c] = sent[c]

(* Between two events the arena is empty, also after a malformed packet.   *)
ArenaReclaimed == dpc \in {"poll", "dispatch"} => arena = 0

(* As long as the daemon runs, whatever a client sends is eventually read  *)
(* (or the client resets), while other clients come and go.                *)
ClientServed ==
  \A c \in Conns : wire[c] # <<>> ~> wire[c] = <<>> \/ dpc = "exited"

(* The comment in main(): the event loop runs indefinitely.                *)
RunsIndefinitely == dpc # "exited"

-----------------------------------------------------------------------------
(***************************************************************************)
(* The daemon's inductive invariant: an event that is to be dispatched or  *)
(* handled is still true of its descriptor, because only its own handler   *)
(* consumes what made it true.                                             *)
(***************************************************************************)
EventsHold ==
  dpc # "exited" =>
    /\ \A fd \in pending : Ready(fd)
    /\ dpc \in {"receive", "publish"} => cur \in Active /\ cur \notin pending
    /\ dpc = "receive" => Ready(cur)
    /\ dpc = "accept" => Listen \notin pending

Unconnected ==
  \A c \in Conns : peer[c] = "new" => c \notin backlog /\ \A fd \in Fds : sock[fd] # c

(* The complete request of cur is being published, and only then is the    *)
(* arena used.                                                             *)
CleanBetween ==
  /\ dpc # "publish" => arena = 0
  /\ dpc = "publish" => parser[cur] = "complete"
  /\ \A fd \in Fds : parser[fd] = "complete" => dpc = "publish" /\ cur = fd

DaemonInv ==
  /\ TypeOK
  /\ Unconnected
  /\ CleanBetween
  /\ TablesAgree
  /\ NoStaleEvent
  /\ EventsHold

-----------------------------------------------------------------------------
(***************************************************************************)
(* The inductive invariant behind AllRequestsHandled, for paced clients: a *)
(* client is at most one request ahead, and what is unread of it continues *)
(* exactly where the parser st of its connection stands.                   *)
(***************************************************************************)
LastPieces == {"last", "bad", "huge"}

InStep(c, st) ==
  \/ st = "error"
  \/ /\ st \in {"start", "complete"}
     /\ \/ sent[c] = handled[c] /\ ~mid[c] /\ wire[c] = <<>>
        \/ sent[c] = handled[c] /\ mid[c] /\ wire[c] = <<"head">>
        \/ sent[c] = handled[c] + 1 /\ ~mid[c] /\ \E x \in LastPieces : wire[c] = <<"head", x>>
  \/ /\ st = "partial"
     /\ \/ sent[c] = handled[c] /\ mid[c] /\ wire[c] \in {<<>>, <<"junk">>}
        \/ /\ sent[c] = handled[c] + 1 /\ ~mid[c]
           /\ \E x \in LastPieces : wire[c] \in {<<x>>, <<"junk", x>>}

\* A connection that was not accepted yet meets a new parser.
RequestsInStep ==
  dpc # "exited" =>
    /\ \A c \in Conns :
         (peer[c] = "new" \/ c \in backlog) /\ peer[c] # "reset" => InStep(c, "start")
    /\ \A fd \in Active : peer[sock[fd]] # "reset" => InStep(sock[fd], parser[fd])

EngineInv == DaemonInv /\ (Paced => RequestsInStep)
=============================================================================
