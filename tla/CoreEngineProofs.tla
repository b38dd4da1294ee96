-------------------------- MODULE CoreEngineProofs --------------------------
(***************************************************************************)
(* Proofs about CoreEngine, for any connections, descriptors, faults and   *)
(* both builds of the event loop.                                          *)
(***************************************************************************)
EXTENDS EngineParsing, SequenceTheorems, WellFoundedInduction, TLAPS

Pieces == {"head", "last", "bad", "junk", "huge"}

(* HttpSim is in one of its states after any chunk.                        *)
LEMMA ParseType ==
  ASSUME NEW state \in {"start", "partial", "complete", "error"}, NEW chunk
  PROVE  /\ ParseChunk(state, chunk)
              \in {"start", "partial", "complete", "completeBad", "error", "throws"}
         /\ state = "error" => ParseChunk(state, chunk) = "error"
  BY DEF ParseChunk, Outcome

(* The type invariant in the parts that change together.                   *)
LEMMA TypeParts ==
  TypeOK <=>
    /\ /\ epoll \in BOOLEAN
       /\ backlog \subseteq Conns
       /\ sock \in [Fds -> Conns \union {NoConn}]
       /\ wire \in [Conns -> Seq(Pieces)]
       /\ peer \in [Conns -> {"new", "open", "closed", "reset"}]
       /\ interest \subseteq Fds \union {Listen}
    /\ /\ callbacks \subseteq Fds \union {Listen}
       /\ parser \in [Fds -> {"none", "start", "partial", "complete", "error"}]
       /\ pending \subseteq Fds \union {Listen}
       /\ dpc \in {"poll", "dispatch", "accept", "receive", "publish", "exited"}
       /\ cur \in Fds \union {Listen}
       /\ arena \in Nat
    /\ /\ mid \in [Conns -> BOOLEAN]
       /\ sent \in [Conns -> Nat]
       /\ handled \in [Conns -> Nat]
  BY DEF TypeOK, Pieces

(* DaemonInv holds initially.                                              *)
LEMMA DaemonInvInit == Init => DaemonInv
  BY EngineAssumption DEF Init, DaemonInv, TypeOK, Unconnected, CleanBetween, TablesAgree,
                          NoStaleEvent, EventsHold, Active

Readable(c) == wire[c] # <<>> \/ peer[c] \in {"closed", "reset"}

(* A client never takes back what made its descriptor readable.            *)
LEMMA ReadableStays ==
  ASSUME TypeOK, NEW c \in Conns, Client(c), NEW x \in Conns, Readable(x)
  PROVE  Readable(x)'
<1> USE DEF Readable
<1>0. /\ wire \in [Conns -> Seq(Pieces)]
      /\ peer \in [Conns -> {"new", "open", "closed", "reset"}]
  BY TypeParts
<1>1. CASE Connect(c) \/ Close(c)
  BY <1>0, <1>1 DEF Connect, Close
<1>2. CASE SendHead(c) \/ SendLast(c) \/ SendJunk(c)
  <2>1. PICK piece \in Pieces : Deliver(c, piece)
    BY <1>2 DEF SendHead, SendLast, SendJunk, Pieces
  <2>2. peer' = peer /\ wire' = [wire EXCEPT ![c] = Append(wire[c], piece)]
    BY <2>1 DEF Deliver
  <2>3. Append(wire[c], piece) # <<>>
    BY <1>0, AppendProperties
  <2> QED
    BY <1>0, <2>2, <2>3
<1>3. CASE Reset(c)
  BY <1>0, <1>3 DEF Reset
<1> QED
  BY <1>1, <1>2, <1>3 DEF Client

(* What clients do preserves DaemonInv.                                    *)
LEMMA ClientStep ==
  ASSUME DaemonInv, NEW c \in Conns, Client(c)
  PROVE  DaemonInv'
<1> USE DEF DaemonInv
<1>1. /\ UNCHANGED <<epoll, sock, interest, callbacks, parser, pending, dpc, cur, arena>>
      /\ handled' = handled
  BY DEF Client, Connect, SendHead, SendLast, SendJunk, Deliver, Close, Reset, daemon, observers
<1>2. TypeOK'
  <2>1. wire' \in [Conns -> Seq(Pieces)]
    <3>1. CASE \E piece \in Pieces : Deliver(c, piece)
      <4>1. PICK piece \in Pieces : wire' = [wire EXCEPT ![c] = Append(wire[c], piece)]
        BY <3>1 DEF Deliver
      <4>2. Append(wire[c], piece) \in Seq(Pieces)
        BY TypeParts, AppendProperties
      <4> QED
        BY <4>1, <4>2, TypeParts
    <3>2. CASE Reset(c)
      <4>1. <<>> \in Seq(Pieces)
        BY EmptySeq
      <4> QED
        BY <3>2, <4>1, TypeParts DEF Reset
    <3>3. CASE wire' = wire
      BY <3>3, TypeParts
    <3> QED
      BY <3>1, <3>2, <3>3 DEF Client, Connect, SendHead, SendLast, SendJunk, Close, Pieces
  <2>2. peer' \in [Conns -> {"new", "open", "closed", "reset"}] /\ backlog' \subseteq Conns
    BY TypeParts DEF Client, Connect, SendHead, SendLast, SendJunk, Deliver, Close, Reset
  <2>3. mid' \in [Conns -> BOOLEAN]
    BY TypeParts DEF Client, Connect, SendHead, SendLast, SendJunk, Deliver, Close, Reset, observers
  <2>4. sent' \in [Conns -> Nat]
    BY TypeParts DEF Client, Connect, SendHead, SendLast, SendJunk, Deliver, Close, Reset, observers
  <2> QED
    BY <1>1, <2>1, <2>2, <2>3, <2>4, TypeParts DEF TypeOK, Pieces
<1>3. /\ \/ backlog' = backlog
         \/ backlog' = backlog \union {c} /\ peer[c] = "new" /\ peer' = [peer EXCEPT ![c] = "open"]
      /\ \A x \in Conns : peer'[x] = "new" => peer[x] = "new"
  BY TypeParts DEF Client, Connect, SendHead, SendLast, SendJunk, Deliver, Close, Reset
<1>4. Unconnected' /\ CleanBetween'
  BY <1>1, <1>3, TypeParts DEF Unconnected, CleanBetween
<1>5. TablesAgree'
  BY <1>1, <1>3, TypeParts DEF TablesAgree, Unconnected, Active
<1>6. NoStaleEvent'
  BY <1>1 DEF NoStaleEvent
<1>7. ASSUME NEW fd \in interest, dpc # "exited", Ready(fd)
      PROVE  Ready(fd)'
  <2>1. CASE fd = Listen
    BY <1>3, <1>7, <2>1 DEF Ready
  <2>2. CASE fd # Listen
    <3>1. sock[fd] \in Conns /\ sock' = sock
      BY <1>1, <1>7, <2>2, TypeParts DEF TablesAgree, Active
    <3>2. Readable(sock[fd])
      BY <1>7, <2>2 DEF Ready, Readable
    <3>3. Readable(sock[fd])'
      BY <1>1, <3>1, <3>2, ReadableStays DEF Readable
    <3> QED
      BY <2>2, <3>1, <3>3 DEF Ready, Readable
  <2> QED
    BY <2>1, <2>2
<1>8. EventsHold'
  BY <1>1, <1>7 DEF EventsHold, NoStaleEvent, TablesAgree, Active
<1> QED
  BY <1>2, <1>4, <1>5, <1>6, <1>8

(* poll_once() and dispatching preserve DaemonInv: the batch holds watched *)
(* descriptors with an event, each once.                                   *)
LEMMA PollStep ==
  ASSUME DaemonInv, Poll \/ BatchDone \/ \E fd \in Fds \union {Listen} : Dispatch(fd)
  PROVE  DaemonInv'
<1> USE DEF DaemonInv
<1>1. UNCHANGED <<epoll, backlog, sock, wire, peer, interest, callbacks, parser, arena, mid, sent,
                  handled>>
  BY DEF Poll, BatchDone, Dispatch, kernel, observers
<1>2. /\ pending' \subseteq interest
      /\ \A fd \in pending' : Ready(fd)
      /\ dpc \notin {"exited", "publish"}
      /\ dpc' \in {"poll", "dispatch", "accept", "receive"}
      /\ cur' \in Fds \union {Listen}
  <2>1. CASE Poll
    <3>1. pending' \subseteq {fd \in interest : Ready(fd)}
      BY <2>1 DEF Poll, Batches
    <3> QED
      BY <2>1, <3>1, TypeParts DEF Poll
  <2>2. CASE BatchDone
    BY <2>2, TypeParts DEF BatchDone
  <2>3. CASE \E fd \in Fds \union {Listen} : Dispatch(fd)
    BY <2>3, TypeParts DEF Dispatch, NoStaleEvent, EventsHold
  <2> QED
    BY <2>1, <2>2, <2>3
<1>3. TypeOK'
  BY <1>1, <1>2, TypeParts DEF TypeOK, Pieces
<1>4. Unconnected' /\ CleanBetween' /\ TablesAgree' /\ NoStaleEvent'
  BY <1>1, <1>2 DEF Unconnected, CleanBetween, TablesAgree, NoStaleEvent, Active
<1>5. \A fd : Ready(fd)' <=> Ready(fd)
  BY <1>1 DEF Ready
<1>6. /\ dpc' = "receive" => cur' \in Active /\ cur' \notin pending' /\ Ready(cur')
      /\ dpc' = "accept" => Listen \notin pending'
  <2>1. CASE Poll \/ BatchDone
    BY <2>1 DEF Poll, BatchDone
  <2>2. CASE \E fd \in Fds \union {Listen} : Dispatch(fd)
    BY <2>2 DEF Dispatch, EventsHold
  <2> QED
    BY <2>1, <2>2
<1>7. Active' = Active
  BY <1>1 DEF Active
<1>8. EventsHold'
  BY <1>1, <1>2, <1>5, <1>6, <1>7 DEF EventsHold, Ready
<1> QED
  BY <1>3, <1>4, <1>8

(* The accept handler preserves DaemonInv: an accepted connection is in all*)
(* three tables, or the daemon has exited.                                 *)
LEMMA AcceptStep ==
  ASSUME DaemonInv, AcceptOne \/ AcceptFails \/ AcceptDone
  PROVE  DaemonInv'
<1> USE DEF DaemonInv
<1>1. CASE AcceptFails
  BY <1>1, TypeParts DEF AcceptFails, kernel, observers, TypeOK, Pieces, Unconnected,
     CleanBetween, TablesAgree, NoStaleEvent, EventsHold
<1>2. CASE AcceptDone
  <2>1. /\ UNCHANGED <<epoll, backlog, sock, wire, peer, interest, callbacks, parser, pending,
                       cur, arena, mid, sent, handled>>
        /\ dpc = "accept" /\ dpc' = "dispatch"
    BY <1>2 DEF AcceptDone, kernel, observers
  <2>2. TypeOK'
    BY <2>1, TypeParts DEF TypeOK, Pieces
  <2>3. Unconnected' /\ CleanBetween' /\ TablesAgree' /\ NoStaleEvent' /\ EventsHold'
    BY <2>1 DEF Unconnected, CleanBetween, TablesAgree, NoStaleEvent, EventsHold, Active, Ready
  <2> QED
    BY <2>2, <2>3
<1>3. CASE AcceptOne
  <2>1. PICK c \in backlog, fd \in Free :
          /\ backlog' = backlog \ {c}
          /\ sock' = [sock EXCEPT ![fd] = c]
          /\ parser' = [parser EXCEPT ![fd] = "start"]
          /\ \/ RegisterFails(fd) /\ dpc' = "exited" /\ UNCHANGED <<interest, callbacks>>
             \/ /\ ~RegisterFails(fd)
                /\ interest' = interest \union {fd}
                /\ callbacks' = callbacks \union {fd}
                /\ dpc' = dpc
    BY <1>3 DEF AcceptOne
  <2>2. /\ UNCHANGED <<epoll, wire, peer, pending, cur, arena, mid, sent, handled>>
        /\ dpc = "accept"
    BY <1>3 DEF AcceptOne, observers
  <2>3. c \in Conns /\ fd \in Fds /\ sock[fd] = NoConn /\ fd # Listen /\ c # NoConn
    BY TypeParts, EngineAssumption DEF Free
  <2>4. TypeOK'
    BY <2>1, <2>2, <2>3, TypeParts DEF TypeOK, Pieces
  <2>5. Unconnected' /\ CleanBetween'
    BY <2>1, <2>2, <2>3, TypeParts DEF Unconnected, CleanBetween
  <2>6. CASE dpc' = "exited"
    BY <2>4, <2>5, <2>6 DEF TablesAgree, NoStaleEvent, EventsHold
  <2>7. CASE dpc' # "exited"
    <3>1. /\ interest' = interest \union {fd}
          /\ callbacks' = callbacks \union {fd}
          /\ dpc' = "accept"
      BY <2>1, <2>2, <2>7
    <3>2. Active' = Active \union {fd}
      BY <2>1, <2>3, TypeParts DEF Active
    <3>3. /\ Active = {f \in Fds : sock[f] # NoConn}
          /\ interest = Active \union {Listen}
          /\ interest \subseteq callbacks
          /\ \A f, g \in Active : sock[f] = sock[g] => f = g
          /\ \A f \in Active : sock[f] \notin backlog
      BY <2>2 DEF TablesAgree
    <3>4. fd \notin Active
      BY <2>3, <3>3
    <3>5. sock'[fd] = c /\ \A f \in Fds : f # fd => sock'[f] = sock[f]
      BY <2>1, <2>3, TypeParts
    <3>6. Active' = {f \in Fds : sock'[f] # NoConn}
      BY <2>3, <3>2, <3>3, <3>5
    <3>7. /\ \A f, g \in Active' : sock'[f] = sock'[g] => f = g
          /\ \A f \in Active' : sock'[f] \notin backlog'
      <4>1. Active \subseteq Fds
        BY DEF Active
      <4> QED
        BY <2>1, <3>2, <3>3, <3>4, <3>5, <4>1
    <3>8. TablesAgree'
      BY <3>1, <3>2, <3>3, <3>6, <3>7 DEF TablesAgree
    <3>9. NoStaleEvent'
      BY <2>2, <3>1 DEF NoStaleEvent
    <3>10. EventsHold'
      <4>1. pending' = pending /\ Listen \notin pending /\ fd \notin pending
        BY <2>2, <2>3, <3>3, <3>4 DEF EventsHold, NoStaleEvent
      <4>2. \A f \in pending : f \in Active /\ f \in Fds /\ f # fd /\ f # Listen /\ Ready(f)
        BY <2>2, <3>3, <4>1 DEF EventsHold, NoStaleEvent, Active
      <4>3. \A f \in pending : Ready(f)'
        BY <2>2, <3>5, <4>2 DEF Ready
      <4> QED
        BY <3>1, <4>1, <4>3 DEF EventsHold
    <3> QED
      BY <2>4, <2>5, <3>8, <3>9, <3>10
  <2> QED
    BY <2>6, <2>7
<1> QED
  BY <1>1, <1>2, <1>3

(* The client handler preserves DaemonInv: a disconnect takes the descriptor*)
(* out of the tables, everything else leaves them alone.                   *)
LEMMA ReceiveStep ==
  ASSUME DaemonInv, ReceiveData \/ ReceiveNothing \/ ReceiveReset \/ PublishReturns
  PROVE  DaemonInv'
<1> USE DEF DaemonInv
<1>1. CASE ReceiveReset
  BY <1>1, TypeParts DEF ReceiveReset, kernel, observers, TypeOK, Pieces, Unconnected,
     CleanBetween, TablesAgree, NoStaleEvent, EventsHold
<1>2. CASE ReceiveData
  <2> DEFINE c == sock[cur]
  <2>1. /\ dpc = "receive" /\ cur \in Active /\ cur \in Fds /\ cur \notin pending
        /\ c \in Conns /\ parser[cur] \in {"start", "partial", "complete", "error"}
    BY <1>2, TypeParts DEF ReceiveData, EventsHold, TablesAgree, Active
  <2>2. PICK n \in 1..Len(wire[c]) :
          /\ Received(SubSeq(wire[c], 1, n))
          /\ wire' = [wire EXCEPT ![c] = SubSeq(wire[c], n + 1, Len(wire[c]))]
    BY <1>2 DEF ReceiveData
  <2>3. UNCHANGED <<epoll, backlog, sock, peer, interest, callbacks, pending, cur, mid, sent>>
    BY <1>2 DEF ReceiveData
  <2> DEFINE result == ParseChunk(parser[cur], SubSeq(wire[c], 1, n))
  <2>4. /\ result \in {"start", "partial", "complete", "completeBad", "error", "throws"}
        /\ Handle(result, Dropped(result), 0)
    BY <2>1, <2>2, ParseType DEF Received
  <2> HIDE DEF result
  <2>5. PICK s \in {"start", "partial", "complete", "error"} :
          /\ parser' = [parser EXCEPT ![cur] = s]
          /\ s = "complete" => dpc' = "publish" \/ parser[cur] = "complete"
          /\ dpc' = "publish" => s = "complete"
    BY <2>1, <2>4 DEF Handle, Dropped
  <2>6. /\ dpc' \in {"publish", "dispatch", "exited"}
        /\ handled' \in [Conns -> Nat] /\ arena' \in Nat
        /\ dpc' # "publish" => arena' = arena \/ arena' = 0
    BY <2>1, <2>4, TypeParts DEF Handle
  <2>7. TypeOK'
    <3>1. wire' \in [Conns -> Seq(Pieces)]
      <4>1. wire[c] \in Seq(Pieces)
        BY <2>1, TypeParts
      <4>2. SubSeq(wire[c], n + 1, Len(wire[c])) \in Seq(Pieces)
        BY <4>1
      <4> QED
        BY <2>2, <4>2, TypeParts
    <3>2. parser' \in [Fds -> {"none", "start", "partial", "complete", "error"}]
      BY <2>5, TypeParts
    <3> QED
      BY <2>3, <2>6, <3>1, <3>2, TypeParts DEF TypeOK, Pieces
  <2>8. CleanBetween'
    BY <2>1, <2>3, <2>5, <2>6, TypeParts DEF CleanBetween
  <2>9. Active' = Active
    BY <2>1, <2>5, TypeParts DEF Active
  <2>10. Unconnected' /\ TablesAgree' /\ NoStaleEvent'
    BY <2>1, <2>3, <2>9 DEF Unconnected, TablesAgree, NoStaleEvent
  <2>11. EventsHold'
    <3>1. \A fd \in pending : Ready(fd)'
      <4> SUFFICES ASSUME NEW fd \in pending PROVE Ready(fd)'
        OBVIOUS
      <4>1. Ready(fd) /\ fd \in interest /\ fd # cur
        BY <2>1 DEF EventsHold, NoStaleEvent
      <4>2. CASE fd = Listen
        BY <2>3, <4>1, <4>2 DEF Ready
      <4>3. CASE fd # Listen
        <5>1. fd \in Active /\ sock[fd] # c /\ sock[fd] \in Conns
          BY <2>1, <4>1, <4>3, TypeParts DEF TablesAgree, Active
        <5>2. wire'[sock[fd]] = wire[sock[fd]]
          BY <2>2, <5>1, TypeParts
        <5> QED
          BY <2>3, <4>1, <4>3, <5>2 DEF Ready
      <4> QED
        BY <4>2, <4>3
    <3> QED
      BY <2>1, <2>3, <2>6, <2>9, <3>1 DEF EventsHold
  <2> QED
    BY <2>7, <2>8, <2>10, <2>11
<1>3. CASE ReceiveNothing
  <2>1. /\ dpc = "receive" /\ cur \in Active /\ cur \in Fds /\ cur \notin pending
        /\ cur # Listen
    BY <1>3, EngineAssumption DEF ReceiveNothing, EventsHold, Active
  <2>2. /\ parser' = [parser EXCEPT ![cur] = "none"]
        /\ sock' = [sock EXCEPT ![cur] = NoConn]
        /\ interest' = interest \ {cur}
        /\ dpc' = "dispatch"
        /\ UNCHANGED <<epoll, backlog, wire, peer, callbacks, pending, cur, arena, mid, sent,
                       handled>>
    BY <1>3 DEF ReceiveNothing, observers
  <2>3. TypeOK'
    BY <2>1, <2>2, TypeParts DEF TypeOK, Pieces
  <2>4. /\ sock'[cur] = NoConn /\ parser'[cur] = "none"
        /\ \A f \in Fds : f # cur => sock'[f] = sock[f] /\ parser'[f] = parser[f]
    BY <2>1, <2>2, TypeParts
  <2>5. Unconnected' /\ CleanBetween'
    BY <2>1, <2>2, <2>4, EngineAssumption DEF Unconnected, CleanBetween
  <2>6. Active' = Active \ {cur} /\ Active \subseteq Fds
    BY <2>1, <2>4 DEF Active
  <2>7. TablesAgree'
    <3>1. Active' = {f \in Fds : sock'[f] # NoConn}
      BY <2>1, <2>4, <2>6 DEF TablesAgree
    <3>2. /\ interest' = Active' \union {Listen}
          /\ interest' \subseteq callbacks'
          /\ \A f, g \in Active' : sock'[f] = sock'[g] => f = g
          /\ \A f \in Active' : sock'[f] \notin backlog'
      BY <2>1, <2>2, <2>4, <2>6 DEF TablesAgree
    <3> QED
      BY <3>1, <3>2 DEF TablesAgree
  <2>8. NoStaleEvent'
    BY <2>1, <2>2 DEF NoStaleEvent
  <2>9. EventsHold'
    <3>1. \A f \in pending : f # cur /\ Ready(f) /\ (f = Listen \/ f \in Fds)
      BY <2>1, TypeParts DEF EventsHold
    <3>2. \A f \in pending : Ready(f)'
      BY <2>2, <2>4, <3>1 DEF Ready
    <3> QED
      BY <2>2, <3>2 DEF EventsHold
  <2> QED
    BY <2>3, <2>5, <2>7, <2>8, <2>9
<1>4. CASE PublishReturns
  <2>1. /\ dpc = "publish" /\ cur \in Active /\ cur \in Fds
        /\ parser' = [parser EXCEPT ![cur] = "start"]
        /\ dpc' = "dispatch" /\ arena' = 0
        /\ UNCHANGED <<epoll, backlog, sock, wire, peer, interest, callbacks, pending, cur,
                       mid, sent, handled>>
    BY <1>4 DEF PublishReturns, EventsHold, Active, kernel, observers
  <2>2. TypeOK'
    BY <2>1, TypeParts DEF TypeOK, Pieces
  <2>3. Active' = Active
    BY <2>1, TypeParts DEF Active
  <2>4. CleanBetween'
    BY <2>1, TypeParts DEF CleanBetween
  <2>5. Unconnected' /\ TablesAgree' /\ NoStaleEvent' /\ EventsHold'
    BY <2>1, <2>3 DEF Unconnected, TablesAgree, NoStaleEvent, EventsHold, Ready
  <2> QED
    BY <2>2, <2>4, <2>5
<1> QED
  BY <1>1, <1>2, <1>3, <1>4

(* DaemonInv is an inductive invariant of the daemon.                      *)
LEMMA DaemonInvNext == DaemonInv /\ [Next]_vars => DaemonInv'
<1> SUFFICES ASSUME DaemonInv, [Next]_vars PROVE DaemonInv'
  OBVIOUS
<1>1. CASE UNCHANGED vars
  BY <1>1, TypeParts DEF vars, kernel, daemon, observers, DaemonInv, TypeOK, Pieces,
     CleanBetween, Unconnected, TablesAgree, NoStaleEvent, EventsHold, Active, Ready
<1>2. CASE \E c \in Conns : Client(c)
  BY <1>2, ClientStep
<1>3. CASE LoopStep
  BY <1>3, PollStep, AcceptStep, ReceiveStep DEF LoopStep
<1>4. CASE PublishReturns
  BY <1>4, ReceiveStep
<1> QED
  BY <1>1, <1>2, <1>3, <1>4 DEF Next, PollTimeout, Exited

(* It holds in every reachable state.                                      *)
LEMMA DaemonInvariant == Spec => []DaemonInv
  BY DaemonInvInit, DaemonInvNext, PTL DEF Spec

-----------------------------------------------------------------------------
(* Paced clients: what parse_chunk() makes of the pieces that can be       *)
(* unread.                                                                 *)

(* The first piece of a request, alone and with the last.                  *)
LEMMA ParseHead == ParseChunk("start", <<"head">>) = "partial"
<1>1. /\ Len(<<"head">>) = 1 /\ <<"head">>[1] = "head"
      /\ "start" \in {"start", "partial"} /\ "start" # "partial"
  OBVIOUS
<1>2. {j \in 1..1 : <<"head">>[j] # "head"
                    /\ ("start" = "partial" \/ \E i \in 1..j-1 : <<"head">>[i] = "head")} = {}
  BY <1>1
<1>3. \E i \in 1..(1+1)-1 : <<"head">>[i] = "head"
  BY <1>1, 1 \in 1..(1+1)-1
<1> QED
  BY <1>1, <1>2, <1>3 DEF ParseChunk

(* The last piece of a request whose head was parsed.                      *)
LEMMA ParseLast ==
  ASSUME NEW x \in {"last", "bad", "huge", "junk"}
  PROVE  ParseChunk("partial", <<x>>) = Outcome(x)
<1> DEFINE ends == {j \in 1..Len(<<x>>) : <<x>>[j] # "head"
                      /\ ("partial" = "partial" \/ \E i \in 1..j-1 : <<x>>[i] = "head")}
<1>1. Len(<<x>>) = 1 /\ <<x>>[1] = x /\ x # "head"
  OBVIOUS
<1>2. ends = {1}
  BY <1>1
<1>3. (CHOOSE j \in ends : \A k \in ends : j <= k) = 1
  BY <1>2
<1> HIDE DEF ends
<1>4. ParseChunk("partial", <<x>>) = Outcome(<<x>>[CHOOSE j \in ends : \A k \in ends : j <= k])
  BY <1>2 DEF ParseChunk, ends
<1> QED
  BY <1>1, <1>3, <1>4

(* A whole request in one chunk.                                           *)
LEMMA ParseWhole ==
  ASSUME NEW x \in LastPieces
  PROVE  ParseChunk("start", <<"head", x>>) = Outcome(x)
<1> DEFINE chunk == <<"head", x>>
           ends == {j \in 1..Len(chunk) : chunk[j] # "head"
                      /\ ("start" = "partial" \/ \E i \in 1..j-1 : chunk[i] = "head")}
<1>1. Len(chunk) = 2 /\ chunk[1] = "head" /\ chunk[2] = x /\ x # "head"
  BY DEF LastPieces
<1> HIDE DEF chunk
<1>2. ends = {2}
  <2>1. 1 \in 1..2-1
    OBVIOUS
  <2> QED
    BY <1>1, <2>1
<1>3. (CHOOSE j \in ends : \A k \in ends : j <= k) = 2
  BY <1>2
<1> HIDE DEF ends
<1>4. ParseChunk("start", chunk) = Outcome(chunk[CHOOSE j \in ends : \A k \in ends : j <= k])
  BY <1>2 DEF ParseChunk, ends
<1> QED
  BY <1>1, <1>3, <1>4 DEF chunk

(* A malformed header decides, whatever follows it.                        *)
LEMMA ParseJunk ==
  ASSUME NEW x \in LastPieces
  PROVE  ParseChunk("partial", <<"junk", x>>) = "error"
<1> DEFINE chunk == <<"junk", x>>
           ends == {j \in 1..Len(chunk) : chunk[j] # "head"
                      /\ ("partial" = "partial" \/ \E i \in 1..j-1 : chunk[i] = "head")}
<1>1. Len(chunk) = 2 /\ chunk[1] = "junk" /\ chunk[2] = x /\ x # "head"
  BY DEF LastPieces
<1> HIDE DEF chunk
<1>2. ends = {1, 2}
  BY <1>1
<1>3. (CHOOSE j \in ends : \A k \in ends : j <= k) = 1
  BY <1>2
<1> HIDE DEF ends
<1>4. ParseChunk("partial", chunk) = Outcome(chunk[CHOOSE j \in ends : \A k \in ends : j <= k])
  BY <1>2 DEF ParseChunk, ends
<1> QED
  BY <1>1, <1>3, <1>4 DEF chunk, Outcome

-----------------------------------------------------------------------------
(* Paced clients: every step keeps client and parser in step.              *)

\* Nothing that InStep speaks of changes for connection x.
Same(x) == wire'[x] = wire[x] /\ sent'[x] = sent[x] /\ handled'[x] = handled[x] /\ mid'[x] = mid[x]

(* InStep is kept where nothing changes.                                   *)
LEMMA SameInStep ==
  ASSUME NEW x \in Conns, Same(x), NEW st, InStep(x, st)
  PROVE  InStep(x, st)'
  BY DEF Same, InStep

(* A client changes its own connection only.                               *)
LEMMA ClientFrame ==
  ASSUME TypeOK, NEW c \in Conns, Client(c)
  PROVE  /\ \A x \in Conns : x # c => Same(x) /\ peer'[x] = peer[x]
         /\ \A x \in Conns : /\ peer[x] = "reset" => peer'[x] = "reset"
                             /\ peer'[x] = "new" \/ x \in backlog'
                                  => peer[x] = "new" \/ x \in backlog
         /\ UNCHANGED <<sock, parser, dpc, handled>>
<1> USE TypeParts DEF Same, daemon, observers
<1>1. CASE Connect(c)
  BY <1>1 DEF Connect
<1>2. CASE SendHead(c)
  BY <1>2 DEF SendHead, Deliver
<1>3. CASE SendLast(c)
  BY <1>3 DEF SendLast, Deliver
<1>4. CASE SendJunk(c)
  BY <1>4 DEF SendJunk, Deliver
<1>5. CASE Close(c)
  BY <1>5 DEF Close
<1>6. CASE Reset(c)
  BY <1>6 DEF Reset
<1> QED
  BY <1>1, <1>2, <1>3, <1>4, <1>5, <1>6 DEF Client

(* Two pieces, one after the other.                                        *)
LEMMA AppendPair ==
  ASSUME NEW a \in Pieces, NEW b \in Pieces
  PROVE  Append(<<a>>, b) = <<a, b>>
<1> DEFINE s == Append(<<a>>, b)
           t == <<a, b>>
<1>1. /\ <<a>> \in Seq(Pieces) /\ Len(<<a>>) = 1 /\ <<a>>[1] = a
      /\ t \in Seq(Pieces) /\ Len(t) = 2 /\ t[1] = a /\ t[2] = b
  OBVIOUS
<1>2. s \in Seq(Pieces) /\ Len(s) = 2 /\ s[1] = a /\ s[2] = b
  BY <1>1, AppendProperties
<1> HIDE DEF s, t
<1>3. \A i \in 1..Len(s) : s[i] = t[i]
  BY <1>1, <1>2
<1>4. s = t
  BY <1>1, <1>2, <1>3, SeqEqual
<1> QED
  BY <1>4 DEF s, t

(* What a paced client sends continues what the parser has seen.           *)
LEMMA ClientInStep ==
  ASSUME TypeOK, Paced, NEW c \in Conns, Client(c), peer'[c] # "reset",
         NEW st, InStep(c, st)
  PROVE  InStep(c, st)'
<1>1. CASE Connect(c) \/ Close(c)
  BY <1>1, SameInStep DEF Connect, Close, observers, Same
<1>2. CASE Reset(c)
  BY <1>2, TypeParts DEF Reset
<1>3. CASE SendHead(c)
  <2>1. /\ ~mid[c] /\ sent[c] = handled[c]
        /\ wire'[c] = Append(wire[c], "head") /\ mid'[c]
        /\ sent'[c] = sent[c] /\ handled'[c] = handled[c]
    BY <1>3, TypeParts DEF SendHead, Deliver
  <2>2. sent[c] \in Nat /\ handled[c] \in Nat
    BY TypeParts
  <2>3. st = "error" \/ (st \in {"start", "complete"} /\ wire[c] = <<>>)
    BY <2>1, <2>2 DEF InStep
  <2>4. CASE st = "error"
    BY <2>4 DEF InStep
  <2>5. CASE st \in {"start", "complete"} /\ wire[c] = <<>>
    <3>1. wire'[c] = <<"head">>
      BY <2>1, <2>5
    <3> QED
      BY <2>1, <2>5, <3>1 DEF InStep
  <2> QED
    BY <2>3, <2>4, <2>5
<1>4. CASE SendLast(c)
  <2>1. PICK x \in LastPieces : wire'[c] = Append(wire[c], x)
    BY <1>4, TypeParts DEF SendLast, Deliver, LastPieces
  <2>2. mid[c] /\ ~mid'[c] /\ sent'[c] = sent[c] + 1 /\ handled'[c] = handled[c]
    BY <1>4, TypeParts DEF SendLast, Deliver
  <2>3. CASE st = "error"
    BY <2>3 DEF InStep
  <2>4. CASE st \in {"start", "complete"} /\ sent[c] = handled[c] /\ wire[c] = <<"head">>
    <3>1. wire'[c] = <<"head", x>>
      BY <2>1, <2>4, AppendPair DEF LastPieces, Pieces
    <3> QED
      BY <2>2, <2>4, <3>1 DEF InStep
  <2>5. CASE st = "partial" /\ sent[c] = handled[c] /\ wire[c] = <<>>
    <3>1. wire'[c] = <<x>>
      BY <2>1, <2>5
    <3> QED
      BY <2>2, <2>5, <3>1 DEF InStep
  <2>6. CASE st = "partial" /\ sent[c] = handled[c] /\ wire[c] = <<"junk">>
    <3>1. wire'[c] = <<"junk", x>>
      BY <2>1, <2>6, AppendPair DEF LastPieces, Pieces
    <3> QED
      BY <2>2, <2>6, <3>1 DEF InStep
  <2> QED
    BY <2>2, <2>3, <2>4, <2>5, <2>6 DEF InStep
<1>5. CASE SendJunk(c)
  <2>1. /\ wire[c] = <<>> /\ wire'[c] = Append(wire[c], "junk")
        /\ mid[c] /\ mid'[c] = mid[c] /\ sent'[c] = sent[c] /\ handled'[c] = handled[c]
    BY <1>5, TypeParts DEF SendJunk, Deliver
  <2>2. wire'[c] = <<"junk">>
    BY <2>1
  <2>3. CASE st = "error"
    BY <2>3 DEF InStep
  <2>4. CASE st = "partial" /\ sent[c] = handled[c]
    BY <2>1, <2>2, <2>4 DEF InStep
  <2> QED
    BY <2>1, <2>3, <2>4 DEF InStep
<1> QED
  BY <1>1, <1>2, <1>3, <1>4, <1>5 DEF Client

(* A chunk and the rest of one piece.                                      *)
LEMMA SplitOne ==
  ASSUME NEW a \in Pieces
  PROVE  Len(<<a>>) = 1 /\ SubSeq(<<a>>, 1, 1) = <<a>> /\ SubSeq(<<a>>, 1 + 1, 1) = <<>>
<1> DEFINE t == <<a>>
<1>1. t \in Seq(Pieces) /\ Len(t) = 1
  OBVIOUS
<1> HIDE DEF t
<1>2. SubSeq(t, 1, 1) = t
  BY <1>1
<1>3. SubSeq(t, 1 + 1, 1) = <<>>
  BY <1>1
<1> QED
  BY <1>1, <1>2, <1>3 DEF t

(* The same of two pieces.                                                 *)
LEMMA SplitTwo ==
  ASSUME NEW a \in Pieces, NEW b \in Pieces
  PROVE  /\ Len(<<a, b>>) = 2
         /\ SubSeq(<<a, b>>, 1, 1) = <<a>> /\ SubSeq(<<a, b>>, 1 + 1, 2) = <<b>>
         /\ SubSeq(<<a, b>>, 1, 2) = <<a, b>> /\ SubSeq(<<a, b>>, 2 + 1, 2) = <<>>
<1> DEFINE t == <<a, b>>
<1>1. t \in Seq(Pieces) /\ Len(t) = 2 /\ t[1] = a /\ t[2] = b
  OBVIOUS
<1>2. /\ <<a>> \in Seq(Pieces) /\ Len(<<a>>) = 1 /\ <<a>>[1] = a
      /\ <<b>> \in Seq(Pieces) /\ Len(<<b>>) = 1 /\ <<b>>[1] = b
  OBVIOUS
<1> HIDE DEF t
<1>3. SubSeq(t, 1, 1) = <<a>>
  <2>1. /\ SubSeq(t, 1, 1) \in Seq(Pieces) /\ Len(SubSeq(t, 1, 1)) = 1
        /\ SubSeq(t, 1, 1)[1] = t[1]
    BY <1>1
  <2>2. \A i \in 1..Len(<<a>>) : <<a>>[i] = SubSeq(t, 1, 1)[i]
    BY <1>1, <1>2, <2>1
  <2> QED
    BY <1>2, <2>1, <2>2, SeqEqual
<1>4. SubSeq(t, 1 + 1, 2) = <<b>>
  <2>1. /\ SubSeq(t, 1 + 1, 2) \in Seq(Pieces) /\ Len(SubSeq(t, 1 + 1, 2)) = 1
        /\ SubSeq(t, 1 + 1, 2)[1] = t[2]
    BY <1>1
  <2>2. \A i \in 1..Len(<<b>>) : <<b>>[i] = SubSeq(t, 1 + 1, 2)[i]
    BY <1>1, <1>2, <2>1
  <2> QED
    BY <1>2, <2>1, <2>2, SeqEqual
<1>5. SubSeq(t, 1, 2) = t
  BY <1>1
<1>6. SubSeq(t, 2 + 1, 2) = <<>>
  BY <1>1
<1> QED
  BY <1>1, <1>3, <1>4, <1>5, <1>6 DEF t

(* What a chunk does to the request of its connection.                     *)
LEMMA HandleEffect ==
  ASSUME TypeOK, cur \in Fds, sock[cur] \in Conns,
         NEW result \in {"start", "partial", "complete", "completeBad", "error", "throws"},
         Handle(result, Dropped(result), 0), dpc' # "exited"
  PROVE  /\ result # "throws"
         /\ result \in {"partial", "error"} =>
              /\ parser'[cur] = result
              /\ handled'[sock[cur]] = handled[sock[cur]]
         /\ result \in {"complete", "completeBad"} =>
              /\ parser'[cur] \in {"start", "complete"}
              /\ handled'[sock[cur]] = handled[sock[cur]] + 1
<1>1. result # "throws"
  BY DEF Handle
<1>2. CASE result \in {"partial", "error"}
  BY <1>2, TypeParts DEF Handle, Dropped
<1>3. CASE result \in {"complete", "completeBad"}
  BY <1>3, TypeParts DEF Handle, Dropped
<1> QED
  BY <1>1, <1>2, <1>3

(* A last piece ends the request, or the daemon.                           *)
LEMMA LastEffect ==
  ASSUME TypeOK, cur \in Fds, sock[cur] \in Conns, NEW x \in LastPieces,
         Handle(Outcome(x), Dropped(Outcome(x)), 0), dpc' # "exited",
         UNCHANGED <<sock, cur>>,
         wire'[sock[cur]] = <<>>, ~mid'[sock[cur]], sent'[sock[cur]] = sent[sock[cur]],
         sent[sock[cur]] = handled[sock[cur]] + 1
  PROVE  InStep(sock[cur], parser[cur])'
<1>1. /\ Outcome(x) \in {"start", "partial", "complete", "completeBad", "error", "throws"}
      /\ Outcome(x) \in {"complete", "completeBad", "throws"}
  BY DEF Outcome, LastPieces
<1>2. /\ parser'[cur] \in {"start", "complete"}
      /\ handled'[sock[cur]] = handled[sock[cur]] + 1
  BY <1>1, HandleEffect
<1> QED
  BY <1>2 DEF InStep

(* A chunk of a paced client's pieces moves the parser along with them.    *)
LEMMA DataInStep ==
  ASSUME DaemonInv, ReceiveData, dpc' # "exited", InStep(sock[cur], parser[cur])
  PROVE  InStep(sock[cur], parser[cur])'
<1> DEFINE c == sock[cur]
           w == wire[c]
           st == parser[cur]
<1>1. /\ TypeOK /\ dpc = "receive" /\ cur \in Active /\ cur \in Fds /\ c \in Conns
      /\ st \in {"start", "partial", "error"}
  BY TypeParts DEF ReceiveData, DaemonInv, EventsHold, TablesAgree, Active, CleanBetween
<1>2. PICK n \in 1..Len(w) :
        /\ Received(SubSeq(w, 1, n))
        /\ wire' = [wire EXCEPT ![c] = SubSeq(w, n + 1, Len(w))]
  BY DEF ReceiveData
<1>3. /\ UNCHANGED <<sock, cur>> /\ mid' = mid /\ sent' = sent
  BY DEF ReceiveData
<1> DEFINE result == ParseChunk(st, SubSeq(w, 1, n))
<1>4. /\ result \in {"start", "partial", "complete", "completeBad", "error", "throws"}
      /\ st = "error" => result = "error"
      /\ Handle(result, Dropped(result), 0)
  BY <1>1, <1>2, ParseType DEF Received
<1>5. wire'[c] = SubSeq(w, n + 1, Len(w))
  BY <1>1, <1>2, TypeParts
<1>6. /\ w \in Seq(Pieces) /\ sent[c] \in Nat /\ handled[c] \in Nat
      /\ mid'[c] = mid[c] /\ sent'[c] = sent[c]
  BY <1>1, <1>3, TypeParts
<1> HIDE DEF result
<1>7. CASE result = "error"
  <2>1. parser'[cur] = "error"
    BY <1>1, <1>4, <1>7, HandleEffect
  <2> QED
    BY <1>3, <2>1 DEF InStep
<1>8. CASE result = "partial" /\ (\/ sent[c] = handled[c] /\ mid[c] /\ wire'[c] = <<>>
                                  \/ /\ sent[c] = handled[c] + 1 /\ ~mid[c]
                                     /\ \E x \in LastPieces : wire'[c] = <<x>>)
  <2>1. parser'[cur] = "partial" /\ handled'[c] = handled[c]
    BY <1>1, <1>4, <1>8, HandleEffect
  <2> QED
    BY <1>3, <1>6, <1>8, <2>1 DEF InStep
<1>9. CASE \E x \in LastPieces : /\ result = Outcome(x) /\ wire'[c] = <<>>
                                 /\ sent[c] = handled[c] + 1 /\ ~mid[c]
  <2>1. PICK x \in LastPieces : result = Outcome(x)
    BY <1>9
  <2>2. Handle(Outcome(x), Dropped(Outcome(x)), 0)
    BY <1>4, <2>1
  <2>3. ~mid'[c] /\ sent'[c] = sent[c] /\ wire'[c] = <<>> /\ sent[c] = handled[c] + 1
    BY <1>6, <1>9
  <2> QED
    BY <1>1, <1>3, <2>2, <2>3, LastEffect
<1>10. CASE st = "error"
  BY <1>4, <1>7, <1>10
<1>11. CASE st = "start"
  <2>1. \/ w = <<"head">> /\ mid[c] /\ sent[c] = handled[c]
        \/ \E x \in LastPieces : w = <<"head", x>> /\ ~mid[c] /\ sent[c] = handled[c] + 1
    <3>1. w # <<>>
      BY <1>2, <1>6
    <3> QED
      BY <1>11, <3>1 DEF InStep
  <2>2. CASE w = <<"head">> /\ mid[c] /\ sent[c] = handled[c]
    <3>1. n = 1 /\ SubSeq(w, 1, n) = <<"head">> /\ wire'[c] = <<>>
      BY <1>5, <2>2, SplitOne DEF Pieces
    <3>2. result = "partial"
      BY <1>11, <3>1, ParseHead DEF result
    <3> QED
      BY <1>8, <2>2, <3>1, <3>2
  <2>3. ASSUME NEW x \in LastPieces, w = <<"head", x>>, ~mid[c], sent[c] = handled[c] + 1
        PROVE  InStep(c, st)'
    <3>0. Len(w) = 2 /\ n \in {1, 2}
      BY <2>3, SplitTwo DEF Pieces, LastPieces
    <3>1. CASE n = 1
      <4>0. SubSeq(w, 1, 1) = <<"head">> /\ SubSeq(w, 2, 2) = <<x>>
        BY <2>3, SplitTwo DEF Pieces, LastPieces
      <4>1. SubSeq(w, 1, n) = <<"head">> /\ wire'[c] = <<x>>
        BY <1>5, <3>0, <3>1, <4>0
      <4>2. result = "partial"
        BY <1>11, <4>1, ParseHead DEF result
      <4> QED
        BY <1>8, <2>3, <4>1, <4>2
    <3>2. CASE n = 2
      <4>0. SubSeq(w, 1, 2) = <<"head", x>> /\ SubSeq(w, 3, 2) = <<>>
        BY <2>3, SplitTwo DEF Pieces, LastPieces
      <4>1. SubSeq(w, 1, n) = <<"head", x>> /\ wire'[c] = <<>>
        BY <1>5, <3>0, <3>2, <4>0
      <4>2. result = Outcome(x)
        BY <1>11, <4>1, ParseWhole DEF result
      <4> QED
        BY <1>9, <2>3, <4>1, <4>2
    <3> QED
      BY <3>0, <3>1, <3>2
  <2> QED
    BY <2>1, <2>2, <2>3
<1>12. CASE st = "partial"
  <2>1. \/ w = <<"junk">>
        \/ \E x \in LastPieces : w = <<"junk", x>>
        \/ \E x \in LastPieces : w = <<x>> /\ ~mid[c] /\ sent[c] = handled[c] + 1
    <3>1. w # <<>>
      BY <1>2, <1>6
    <3> QED
      BY <1>12, <3>1 DEF InStep
  <2>2. CASE w = <<"junk">>
    <3>1. SubSeq(w, 1, n) = <<"junk">>
      BY <2>2, SplitOne DEF Pieces
    <3>2. result = "error"
      BY <1>12, <3>1, ParseLast DEF result, Outcome
    <3> QED
      BY <1>7, <3>2
  <2>3. ASSUME NEW x \in LastPieces, w = <<"junk", x>>
        PROVE  result = "error"
    <3>0. Len(w) = 2 /\ n \in {1, 2}
      BY <2>3, SplitTwo DEF Pieces, LastPieces
    <3>1. CASE n = 1
      <4>1. SubSeq(w, 1, n) = <<"junk">>
        BY <2>3, <3>1, SplitTwo DEF Pieces, LastPieces
      <4> QED
        BY <1>12, <4>1, ParseLast DEF result, Outcome
    <3>2. CASE n = 2
      <4>1. SubSeq(w, 1, n) = <<"junk", x>>
        BY <2>3, <3>2, SplitTwo DEF Pieces, LastPieces
      <4> QED
        BY <1>12, <4>1, ParseJunk DEF result
    <3> QED
      BY <3>0, <3>1, <3>2
  <2>4. ASSUME NEW x \in LastPieces, w = <<x>>, ~mid[c], sent[c] = handled[c] + 1
        PROVE  InStep(c, st)'
    <3>1. SubSeq(w, 1, n) = <<x>> /\ wire'[c] = <<>>
      BY <1>5, <2>4, SplitOne DEF Pieces, LastPieces
    <3>2. result = Outcome(x)
      BY <1>12, <3>1, ParseLast DEF result, LastPieces
    <3> QED
      BY <1>9, <2>4, <3>1, <3>2
  <2> QED
    BY <1>7, <2>1, <2>2, <2>3, <2>4
<1> QED
  BY <1>1, <1>10, <1>11, <1>12

(* Initially there is nothing to be out of step.                           *)
LEMMA RequestsInit == Init => RequestsInStep
<1> SUFFICES ASSUME Init PROVE RequestsInStep
  OBVIOUS
<1>1. Active = {}
  BY DEF Init, Active
<1>2. ASSUME NEW c \in Conns PROVE InStep(c, "start")
  BY DEF Init, InStep
<1> QED
  BY <1>1, <1>2 DEF RequestsInStep

\* Nothing changes for a connection that is still in step with its parser.
Untouched ==
  /\ \A x \in Conns : Same(x) /\ peer'[x] = peer[x]
  /\ UNCHANGED <<backlog, sock, parser>>

(* Steps that touch no connection.                                         *)
LEMMA UntouchedStep ==
  ASSUME DaemonInv, RequestsInStep, Untouched, dpc # "exited"
  PROVE  RequestsInStep'
<1>1. ASSUME NEW x \in Conns, peer'[x] = "new" \/ x \in backlog', peer'[x] # "reset"
      PROVE  InStep(x, "start")'
  <2>1. InStep(x, "start")
    BY <1>1 DEF Untouched, RequestsInStep
  <2>2. Same(x)
    BY DEF Untouched
  <2> QED
    BY <2>1, <2>2, SameInStep
<1>2. ASSUME NEW fd \in Active, peer'[sock[fd]] # "reset"
      PROVE  InStep(sock[fd], parser[fd])'
  <2>1. sock[fd] \in Conns /\ sock' = sock /\ parser' = parser
    BY TypeParts DEF Untouched, DaemonInv, TablesAgree, Active
  <2>2. InStep(sock[fd], parser[fd]) /\ Same(sock[fd])
    BY <1>2, <2>1 DEF Untouched, RequestsInStep
  <2>3. PICK x, st : x = sock[fd] /\ st = parser[fd]
    OBVIOUS
  <2>4. InStep(x, st)'
    BY <2>1, <2>2, <2>3, SameInStep
  <2> QED
    BY <2>1, <2>3, <2>4 DEF InStep
<1>3. Active' = Active
  BY DEF Untouched, Active
<1> QED
  BY <1>1, <1>2, <1>3 DEF RequestsInStep, Untouched

(* Every step of a paced client or of the daemon keeps them in step.       *)
LEMMA RequestsStep ==
  ASSUME DaemonInv, RequestsInStep, Paced, [Next]_vars
  PROVE  RequestsInStep'
<1> SUFFICES ASSUME dpc' # "exited" PROVE RequestsInStep'
  BY DEF RequestsInStep
<1>a. dpc # "exited"
  BY DEF Next, LoopStep, vars, daemon, Exited, Poll, PollTimeout, Dispatch, BatchDone, AcceptOne,
         AcceptFails, AcceptDone, ReceiveData, ReceiveNothing, ReceiveReset, PublishReturns
<1>b. TypeOK /\ TablesAgree /\ Unconnected
  BY DEF DaemonInv
<1>c. \A fd \in Active : fd \in Fds /\ sock[fd] \in Conns
  BY <1>a, <1>b, TypeParts DEF TablesAgree, Active
<1>0. /\ TypeOK /\ \A fd \in Active : sock[fd] \in Conns /\ fd \in Fds
      /\ dpc # "exited"
      /\ \A fd \in Active : sock[fd] \notin backlog /\ peer[sock[fd]] # "new"
      /\ \A f, g \in Active : sock[f] = sock[g] => f = g
  BY <1>a, <1>b, <1>c DEF TablesAgree, Unconnected
<1>1. CASE UNCHANGED vars
  BY <1>0, <1>1, UntouchedStep DEF vars, kernel, daemon, observers, Untouched, Same
<1>2. CASE Poll \/ BatchDone \/ (\E fd \in Fds \union {Listen} : Dispatch(fd))
           \/ AcceptFails \/ AcceptDone \/ ReceiveReset
  <2>1. /\ dpc # "exited"
        /\ UNCHANGED <<wire, sent, handled, mid, peer, backlog, sock, parser>>
    BY <1>2 DEF Poll, BatchDone, Dispatch, AcceptFails, AcceptDone, ReceiveReset, kernel,
                observers
  <2> QED
    BY <2>1, UntouchedStep DEF Untouched, Same
<1>3. ASSUME dpc # "exited", NEW c \in Conns, Client(c)
      PROVE  RequestsInStep'
  <2>1. /\ \A x \in Conns : x # c => Same(x) /\ peer'[x] = peer[x]
        /\ \A x \in Conns : /\ peer[x] = "reset" => peer'[x] = "reset"
                            /\ peer'[x] = "new" \/ x \in backlog'
                                 => peer[x] = "new" \/ x \in backlog
        /\ UNCHANGED <<sock, parser, dpc>>
    BY <1>0, <1>3, ClientFrame
  <2>2. ASSUME NEW x \in Conns, NEW st, InStep(x, st), peer'[x] # "reset"
        PROVE  InStep(x, st)'
    <3>1. CASE x = c
      BY <1>0, <1>3, <2>2, <3>1, ClientInStep
    <3>2. CASE x # c
      BY <2>1, <2>2, <3>2, SameInStep
    <3> QED
      BY <3>1, <3>2
  <2>3. ASSUME NEW x \in Conns, peer'[x] = "new" \/ x \in backlog', peer'[x] # "reset"
        PROVE  InStep(x, "start")'
    <3>1. InStep(x, "start")
      BY <1>3, <2>1, <2>3 DEF RequestsInStep
    <3> QED
      BY <2>2, <2>3, <3>1
  <2>4. ASSUME NEW fd \in Active, peer'[sock[fd]] # "reset"
        PROVE  InStep(sock[fd], parser[fd])'
    <3>1. InStep(sock[fd], parser[fd]) /\ sock[fd] \in Conns
      BY <1>0, <1>3, <2>1, <2>4 DEF RequestsInStep
    <3>2. PICK x, st : x = sock[fd] /\ st = parser[fd]
      OBVIOUS
    <3>3. InStep(x, st)'
      BY <2>2, <2>4, <3>1, <3>2
    <3> QED
      BY <2>1, <3>2, <3>3 DEF InStep
  <2>5. Active' = Active
    BY <2>1 DEF Active
  <2> QED
    BY <2>1, <2>3, <2>4, <2>5 DEF RequestsInStep
<1>4. CASE AcceptOne
  <2>1. PICK c \in backlog, fd \in Free :
          /\ backlog' = backlog \ {c}
          /\ sock' = [sock EXCEPT ![fd] = c]
          /\ parser' = [parser EXCEPT ![fd] = "start"]
    BY <1>4 DEF AcceptOne
  <2>2. /\ UNCHANGED <<wire, peer, mid, sent, handled>> /\ dpc = "accept"
        /\ \A x \in Conns : Same(x)
    BY <1>4 DEF AcceptOne, observers, Same
  <2>3. c \in Conns /\ fd \in Fds /\ fd \notin Active
    BY <1>0, <2>2, TypeParts DEF Free, DaemonInv, TablesAgree
  <2>4. ASSUME NEW x \in Conns, peer'[x] = "new" \/ x \in backlog', peer'[x] # "reset"
        PROVE  InStep(x, "start")'
    <3>1. InStep(x, "start")
      BY <2>1, <2>2, <2>4 DEF RequestsInStep
    <3> QED
      BY <2>2, <3>1, SameInStep
  <2>5. ASSUME NEW f \in Active', peer'[sock'[f]] # "reset"
        PROVE  InStep(sock[f], parser[f])'
    <3>1. CASE f = fd
      <4>1. sock'[f] = c /\ parser'[f] = "start"
        BY <1>0, <2>1, <2>3, <3>1, TypeParts
      <4>2. InStep(c, "start")'
        <5>1. InStep(c, "start")
          BY <2>2, <2>3, <2>5, <4>1 DEF RequestsInStep
        <5> QED
          BY <2>2, <2>3, <5>1, SameInStep
      <4> QED
        BY <4>1, <4>2 DEF InStep
    <3>2. CASE f # fd
      <4>1. /\ f \in Active /\ sock'[f] = sock[f] /\ parser'[f] = parser[f]
        BY <1>0, <2>1, <2>3, <2>5, <3>2, TypeParts DEF Active
      <4>2. InStep(sock[f], parser[f]) /\ sock[f] \in Conns
        BY <1>0, <2>2, <2>5, <4>1 DEF RequestsInStep
      <4>3. PICK x, st : x = sock[f] /\ st = parser[f]
        OBVIOUS
      <4>4. InStep(x, st)'
        BY <2>2, <4>2, <4>3, SameInStep
      <4> QED
        BY <4>1, <4>3, <4>4 DEF InStep
    <3> QED
      BY <3>1, <3>2
  <2> QED
    BY <2>4, <2>5 DEF RequestsInStep
<1> DEFINE Handler == ReceiveData \/ ReceiveNothing \/ PublishReturns
<1>5. CASE Handler
  <2>0. cur' = cur
    BY <1>5 DEF ReceiveData, ReceiveNothing, PublishReturns
  <2>1. /\ dpc # "exited" /\ cur \in Active /\ cur \in Fds /\ sock[cur] \in Conns
        /\ backlog' = backlog /\ peer' = peer
    BY <1>0, <1>5 DEF ReceiveData, ReceiveNothing, PublishReturns, DaemonInv, EventsHold, kernel
  <2>2. \A x \in Conns : x # sock[cur] => Same(x)
    <3>1. CASE ReceiveData
      <4>1. PICK n \in 1..Len(wire[sock[cur]]) :
              /\ Received(SubSeq(wire[sock[cur]], 1, n))
              /\ \A x \in Conns : x # sock[cur] => wire'[x] = wire[x]
        BY <1>0, <2>1, <3>1, TypeParts DEF ReceiveData
      <4>2. \A x \in Conns : x # sock[cur] => handled'[x] = handled[x]
        BY <1>0, <2>1, <4>1, TypeParts DEF Received, Handle
      <4> QED
        BY <3>1, <4>1, <4>2 DEF ReceiveData, Same
    <3>2. CASE ReceiveNothing \/ PublishReturns
      BY <3>2 DEF ReceiveNothing, PublishReturns, Same, kernel, observers
    <3> QED
      BY <1>5, <3>1, <3>2
  <2>3. ASSUME NEW x \in Conns, peer'[x] = "new" \/ x \in backlog', peer'[x] # "reset"
        PROVE  InStep(x, "start")'
    <3>1. InStep(x, "start") /\ x # sock[cur]
      BY <1>0, <2>1, <2>3 DEF RequestsInStep
    <3> QED
      BY <2>2, <3>1, SameInStep
  <2>4. ASSUME NEW f \in Active', f # cur, peer'[sock'[f]] # "reset"
        PROVE  InStep(sock[f], parser[f])'
    <3>1. /\ f \in Active /\ sock'[f] = sock[f] /\ parser'[f] = parser[f]
      <4>1. f \in Fds /\ sock'[f] = sock[f] /\ parser'[f] = parser[f]
        BY <1>0, <1>5, <2>1, <2>4, TypeParts
           DEF ReceiveData, Received, Handle, ReceiveNothing, PublishReturns, Active, kernel
      <4> QED
        BY <2>4, <4>1 DEF Active
    <3>2. InStep(sock[f], parser[f]) /\ sock[f] \in Conns /\ sock[f] # sock[cur]
      BY <1>0, <2>1, <2>4, <3>1 DEF RequestsInStep
    <3>3. PICK x, st : x = sock[f] /\ st = parser[f]
      OBVIOUS
    <3>4. InStep(x, st)'
      BY <2>2, <3>2, <3>3, SameInStep
    <3> QED
      BY <3>1, <3>3, <3>4 DEF InStep
  <2>5. ASSUME cur \in Active', peer'[sock'[cur]] # "reset"
        PROVE  InStep(sock[cur], parser[cur])'
    <3>1. CASE ReceiveData
      <4>1. InStep(sock[cur], parser[cur])
        BY <2>1, <2>5, <3>1 DEF RequestsInStep, ReceiveData
      <4> QED
        BY <3>1, <4>1, DataInStep
    <3>2. CASE ReceiveNothing
      BY <1>0, <2>1, <2>5, <3>2, TypeParts DEF ReceiveNothing, Active
    <3>3. CASE PublishReturns
      <4>1. /\ sock' = sock /\ cur' = cur /\ parser'[cur] = "start" /\ Same(sock[cur])
            /\ parser[cur] = "complete"
        BY <1>0, <2>1, <3>3, TypeParts
           DEF PublishReturns, DaemonInv, CleanBetween, kernel, observers, Same
      <4>2. InStep(sock[cur], "complete")
        BY <2>1, <2>5, <4>1 DEF RequestsInStep
      <4>3. InStep(sock[cur], "start")
        BY <4>2 DEF InStep
      <4> QED
        BY <4>1, <4>3 DEF InStep, Same
    <3> QED
      BY <1>5, <3>1, <3>2, <3>3
  <2>6. ASSUME NEW f \in Active', peer'[sock'[f]] # "reset"
        PROVE  InStep(sock[f], parser[f])'
    <3>1. CASE f = cur
      BY <2>0, <2>5, <2>6, <3>1 DEF InStep
    <3> QED
      BY <2>4, <2>6, <3>1
  <2> QED
    BY <2>3, <2>6 DEF RequestsInStep
<1> QED
  BY <1>1, <1>2, <1>3, <1>4, <1>5 DEF Next, LoopStep, PollTimeout, Exited

-----------------------------------------------------------------------------
(* The parser, byte by byte.                                               *)

(* Every nonempty set of natural numbers has a least element: induction as *)
(* a statement about sets.                                                 *)
LEMMA LeastNumber ==
  ASSUME NEW T, T \subseteq Nat, T # {}
  PROVE  \E x \in T : \A y \in T : x <= y
<1>1. IsWellFoundedOn(OpToRel(<, Nat), Nat)
  BY NatLessThanWellFounded
<1>2. PICK x \in T : \A y \in T : ~ (<<y, x>> \in OpToRel(<, Nat))
  BY <1>1, WFMin
<1>3. ASSUME NEW y \in T PROVE x <= y
  <2>1. ~ (y < x)
    BY <1>2, <1>3 DEF OpToRel
  <2> QED
    BY <2>1
<1> QED
  BY <1>3

\* The parsers after the first n bytes.
Parsed(h, bytes, n, after) ==
  after = [i \in 0..n |-> IF i = 0 THEN h ELSE Http!Byte(after[i-1], bytes[i])]

(* They exist ...                                                          *)
LEMMA ParsedExist ==
  ASSUME NEW h, NEW bytes
  PROVE  \A n \in Nat : \E after : Parsed(h, bytes, n, after)
<1> DEFINE T == {n \in Nat : ~ \E after : Parsed(h, bytes, n, after)}
<1> SUFFICES ASSUME T # {} PROVE FALSE
  OBVIOUS
<1>1. PICK n \in T : \A m \in T : n <= m
  <2>1. T \subseteq Nat
    OBVIOUS
  <2> HIDE DEF T
  <2> QED
    BY <2>1, LeastNumber
<1>2. CASE n = 0
  <2>1. Parsed(h, bytes, 0, [i \in 0..0 |-> h])
    BY DEF Parsed
  <2> QED
    BY <1>2, <2>1
<1>3. CASE n # 0
  <2>1. n-1 \in Nat /\ n-1 \notin T
    BY <1>1, <1>3
  <2>2. PICK after : Parsed(h, bytes, n-1, after)
    BY <2>1
  <2> DEFINE next == [i \in 0..n |-> IF i = 0 THEN h ELSE Http!Byte(after[i-1], bytes[i])]
  <2>3. \A i \in 0..n-1 : next[i] = after[i]
    BY <2>2 DEF Parsed
  <2>4. \A i \in 0..n : i # 0 => i-1 \in 0..n-1 /\ next[i-1] = after[i-1]
    BY <2>1, <2>3
  <2>5. next = [i \in 0..n |-> IF i = 0 THEN h ELSE Http!Byte(next[i-1], bytes[i])]
    BY <2>4
  <2>6. Parsed(h, bytes, n, next)
    BY <2>5 DEF Parsed
  <2> QED
    BY <2>6
<1> QED
  BY <1>2, <1>3

\* after[i] is the parser after i bytes, and after[0] is h.
Run(h, bytes, after) ==
  /\ after[0] = h
  /\ \A i \in 1..Len(bytes) : after[i] = Http!Byte(after[i-1], bytes[i])

\* s and t have the same first n bytes.
SameStart(s, t, n) ==
  /\ n \in Nat /\ Len(s) \in Nat /\ Len(t) \in Nat /\ n <= Len(s) /\ n <= Len(t)
  /\ \A i \in 1..n : s[i] = t[i]

(* ... are the same in every account of them, as far as the bytes are ...  *)
LEMMA RunsAgree ==
  ASSUME NEW h, NEW s, NEW t, NEW a, NEW b, Run(h, s, a), Run(h, t, b),
         NEW n, SameStart(s, t, n)
  PROVE  a[n] = b[n]
<1> USE DEF SameStart
<1> DEFINE T == {i \in 0..n : a[i] # b[i]}
<1> SUFFICES ASSUME T # {} PROVE FALSE
  OBVIOUS
<1>1. PICK i \in T : \A j \in T : i <= j
  <2>1. T \subseteq Nat
    OBVIOUS
  <2> HIDE DEF T
  <2> QED
    BY <2>1, LeastNumber
<1>2. i # 0
  BY <1>1 DEF Run
<1>3. i-1 \in 0..n /\ i-1 \notin T /\ i \in 1..n /\ i \in 1..Len(s) /\ i \in 1..Len(t)
  BY <1>1, <1>2
<1>4. a[i-1] = b[i-1]
  BY <1>3
<1>5. a[i] = Http!Byte(a[i-1], s[i]) /\ b[i] = Http!Byte(b[i-1], t[i])
  BY <1>3 DEF Run
<1> QED
  BY <1>1, <1>3, <1>4, <1>5

(* ... and the last one is what parse_chunk() leaves.                      *)
LEMMA ParseRun ==
  ASSUME NEW h, NEW bytes, Len(bytes) \in Nat
  PROVE  \E after : Run(h, bytes, after) /\ Http!ParseBytes(h, bytes) = after[Len(bytes)]
<1> DEFINE after == CHOOSE a : Parsed(h, bytes, Len(bytes), a)
<1>1. Parsed(h, bytes, Len(bytes), after)
  BY ParsedExist
<1>2. Http!ParseBytes(h, bytes) = after[Len(bytes)]
  BY DEF Http!ParseBytes, Parsed
<1> HIDE DEF after
<1>3. Run(h, bytes, after)
  BY <1>1 DEF Run, Parsed
<1> QED
  BY <1>2, <1>3

(* Bytes parsed in two chunks.                                             *)
THEOREM ChunksCompose ==
  ASSUME NEW h, NEW S, NEW s \in Seq(S), NEW t \in Seq(S)
  PROVE  Http!ParseBytes(h, s \o t) = Http!ParseBytes(Http!ParseBytes(h, s), t)
<1>1. PICK m \in Nat, n \in Nat : m = Len(s) /\ n = Len(t)
  OBVIOUS
<1>2. PICK a : Run(h, s, a) /\ Http!ParseBytes(h, s) = a[m]
  BY <1>1, ParseRun
<1>3. PICK b : Run(a[m], t, b) /\ Http!ParseBytes(a[m], t) = b[n]
  BY <1>1, ParseRun
<1>4. Len(s \o t) = m + n /\ \A i \in 1..m+n : (s \o t)[i] = IF i <= m THEN s[i] ELSE t[i-m]
  BY <1>1
<1> DEFINE c == [i \in 0..m+n |-> IF i <= m THEN a[i] ELSE b[i-m]]
<1>5. Run(h, s \o t, c)
  <2>1. c[0] = h
    BY <1>2 DEF Run
  <2>2. ASSUME NEW i \in 1..m+n PROVE c[i] = Http!Byte(c[i-1], (s \o t)[i])
    <3>1. i-1 \in 0..m+n /\ i \in 0..m+n
      OBVIOUS
    <3>2. CASE i <= m
      <4>1. i \in 1..m /\ i-1 <= m
        BY <3>2
      <4>2. a[i] = Http!Byte(a[i-1], s[i])
        BY <1>1, <1>2, <4>1 DEF Run
      <4> QED
        BY <1>4, <3>1, <3>2, <4>1, <4>2
    <3>3. CASE i > m
      <4>1. i-m \in 1..n /\ (i-m)-1 = (i-1)-m
        BY <3>3
      <4>2. b[i-m] = Http!Byte(b[(i-1)-m], t[i-m])
        BY <1>1, <1>3, <4>1 DEF Run
      <4>3. c[i-1] = b[(i-1)-m]
        <5>1. CASE i-1 = m
          <6>1. (i-1)-m = 0 /\ c[i-1] = a[m]
            BY <3>1, <5>1
          <6> QED
            BY <1>3, <6>1 DEF Run
        <5>2. CASE i-1 # m
          BY <3>1, <3>3, <5>2
        <5> QED
          BY <5>1, <5>2
      <4>4. ~ (i <= m)
        BY <3>3
      <4> QED
        BY <1>4, <3>1, <4>2, <4>3, <4>4
    <3>4. i <= m \/ i > m
      OBVIOUS
    <3> HIDE DEF c
    <3> QED
      BY <3>2, <3>3, <3>4
  <2> HIDE DEF c
  <2> QED
    BY <1>4, <2>1, <2>2 DEF Run
<1>6. c[m+n] = b[n]
  <2>1. CASE n = 0
    BY <1>3, <2>1 DEF Run
  <2>2. CASE n # 0
    <3>1. ~ (m+n <= m) /\ (m+n)-m = n /\ m+n \in 0..m+n
      BY <2>2
    <3> QED
      BY <3>1
  <2> QED
    BY <2>1, <2>2
<1> HIDE DEF c
<1>7. PICK u, k : u = s \o t /\ k = m+n
  OBVIOUS
<1>8. Len(u) = k /\ k \in Nat /\ k <= k
  BY <1>1, <1>4, <1>7
<1>9. PICK d : Run(h, u, d) /\ Http!ParseBytes(h, u) = d[k]
  BY <1>8, ParseRun
<1>10. d[k] = c[k]
  <2>1. Run(h, u, c)
    BY <1>5, <1>7
  <2>2. SameStart(u, u, k)
    BY <1>8 DEF SameStart
  <2> QED
    BY <1>9, <2>1, <2>2, RunsAgree
<1> QED
  BY <1>2, <1>3, <1>6, <1>7, <1>9, <1>10

(* What was parsed of a chunk before its end.                              *)
LEMMA ParsePrefix ==
  ASSUME NEW h, NEW S, NEW s \in Seq(S), NEW after, Run(h, s, after), NEW k \in 0..Len(s)
  PROVE  Http!ParseBytes(h, SubSeq(s, 1, k)) = after[k]
<1>1. PICK t : t = SubSeq(s, 1, k)
  OBVIOUS
<1>2. Len(t) = k /\ k \in Nat /\ k <= Len(s) /\ Len(s) \in Nat /\ \A i \in 1..k : t[i] = s[i]
  BY <1>1
<1>3. PICK a : Run(h, t, a) /\ Http!ParseBytes(h, t) = a[k]
  BY <1>2, ParseRun
<1>4. SameStart(t, s, k)
  BY <1>2 DEF SameStart
<1>5. a[k] = after[k]
  BY <1>3, <1>4, RunsAgree
<1> QED
  BY <1>1, <1>3, <1>5

-----------------------------------------------------------------------------
(* The parser, by its states.                                              *)

\* A parser.
ParserAt(state, token, key, length, read, body) ==
  [state |-> state, token |-> token, key |-> key, length |-> length, read |-> read, body |-> body]

\* Before any byte of a body.
InHead(state, token, key, length) == ParserAt(state, token, key, length, 0, <<>>)

\* A token and one unit more.
Grown(token, ch) == Append(token, ch)

\* After the first line and any number of irrelevant headers.
AfterHead == InHead("HeaderKey", <<>>, <<>>, 0)

(* What single assignments make of a parser in the head.                   *)
LEMMA HeadParts ==
  ASSUME NEW state, NEW token, NEW key, NEW length
  PROVE  LET h == InHead(state, token, key, length) IN
         /\ h.state = state /\ h.token = token /\ h.key = key /\ h.length = length
         /\ \A other : Http!To(h, other) = InHead(other, token, key, length)
         /\ \A ch : Http!Collect(h, ch) = InHead(state, Grown(token, ch), key, length)
         /\ \A other : Http!TokenEnds(h, other) = InHead(other, <<>>, key, length)
<1> DEFINE h == InHead(state, token, key, length)
<1>1. h.state = state /\ h.token = token /\ h.key = key /\ h.length = length
  BY DEF InHead, ParserAt
<1>2. ASSUME NEW other PROVE Http!To(h, other) = InHead(other, token, key, length)
  BY SMTT(30) DEF InHead, ParserAt, Http!To
<1>3. ASSUME NEW ch PROVE Http!Collect(h, ch) = InHead(state, Grown(token, ch), key, length)
  BY SMTT(30) DEF InHead, ParserAt, Http!Collect, Grown
<1>4. ASSUME NEW other PROVE Http!TokenEnds(h, other) = InHead(other, <<>>, key, length)
  <2>1. [InHead(other, token, key, length) EXCEPT !.token = <<>>] = InHead(other, <<>>, key, length)
    BY DEF InHead, ParserAt
  <2> QED
    BY <1>2, <2>1 DEF Http!TokenEnds
<1> HIDE DEF h
<1>5. /\ h.state = state /\ h.token = token /\ h.key = key /\ h.length = length
      /\ \A other : Http!To(h, other) = InHead(other, token, key, length)
      /\ \A ch : Http!Collect(h, ch) = InHead(state, Grown(token, ch), key, length)
      /\ \A other : Http!TokenEnds(h, other) = InHead(other, <<>>, key, length)
  BY <1>1, <1>2, <1>3, <1>4
<1> QED
  BY <1>5 DEF h

(* One iteration of parse_chunk() in the first line ...                    *)
LEMMA LineByte ==
  ASSUME NEW state, NEW token, NEW key, NEW length, NEW ch
  PROVE  LET h == InHead(state, token, key, length) IN
         /\ state = "Method" =>
              Http!Byte(h, ch) = IF ch = Http!SP THEN InHead("Uri", <<>>, key, length)
                                 ELSE InHead("Method", Grown(token, ch), key, length)
         /\ state = "Uri" =>
              Http!Byte(h, ch) = IF ch = Http!SP THEN InHead("Version", <<>>, key, length)
                                 ELSE InHead("Uri", Grown(token, ch), key, length)
         /\ state = "Version" =>
              Http!Byte(h, ch) = IF ch = Http!CR THEN h
                                 ELSE IF ch = Http!LF THEN InHead("HeaderKey", <<>>, key, length)
                                 ELSE InHead("Version", Grown(token, ch), key, length)
BY HeadParts DEF Http!Byte

(* ... and in a header.                                                    *)
LEMMA HeaderByte ==
  ASSUME NEW state, NEW token, NEW key, NEW length, NEW ch
  PROVE  LET h == InHead(state, token, key, length) IN
         /\ state = "HeaderKey" =>
              Http!Byte(h, ch) = IF ch = Http!CR THEN InHead("ExpectBodyLF", <<>>, key, length)
                                 ELSE IF ch = Http!COLON THEN InHead("HeaderValue", <<>>, token, length)
                                 ELSE InHead("HeaderKey", Grown(token, ch), key, length)
         /\ state = "HeaderValue" =>
              Http!Byte(h, ch) = IF ch = Http!SP /\ token = <<>> THEN h
                                 ELSE IF ch = Http!CR THEN InHead("ExpectValueLF", token, key, length)
                                 ELSE InHead("HeaderValue", Grown(token, ch), key, length)
         /\ state = "ExpectValueLF" =>
              Http!Byte(h, ch) = IF ch = Http!LF THEN Http!HeaderEnds(h) ELSE InHead("Error", token, key, length)
         /\ state = "ExpectBodyLF" =>
              Http!Byte(h, ch) = IF ch = Http!LF THEN Http!HeadEnds(h) ELSE InHead("Error", token, key, length)
<1>1. [InHead("HeaderValue", <<>>, key, length) EXCEPT !.key = token] = InHead("HeaderValue", <<>>, token, length)
  BY DEF InHead, ParserAt
<1> DEFINE h == InHead(state, token, key, length)
<1>2. /\ h.state = state /\ h.token = token
      /\ \A other : Http!To(h, other) = InHead(other, token, key, length)
      /\ \A other : Http!Collect(h, other) = InHead(state, Grown(token, other), key, length)
      /\ \A other : Http!TokenEnds(h, other) = InHead(other, <<>>, key, length)
  BY HeadParts
<1>3. state = "HeaderKey" => [Http!TokenEnds(h, "HeaderValue") EXCEPT !.key = h.token]
                               = InHead("HeaderValue", <<>>, token, length)
  BY <1>1, <1>2
<1> HIDE DEF h
<1>4. CASE state = "HeaderKey"
  BY <1>2, <1>3, <1>4 DEF Http!Byte, h
<1>5. CASE state = "HeaderValue"
  BY <1>2, <1>5 DEF Http!Byte, h
<1>6. CASE state \in {"ExpectValueLF", "ExpectBodyLF"}
  BY <1>2, <1>6 DEF Http!Byte, h
<1> QED
  BY <1>4, <1>5, <1>6

(* The ends of a header line and of the head.                              *)
LEMMA HeaderEnd ==
  ASSUME NEW token, NEW key, NEW length
  PROVE  Http!HeaderEnds(InHead("ExpectValueLF", token, key, length)) =
           IF key # <<Http!CONTENT_LENGTH>> THEN InHead("HeaderKey", <<>>, <<>>, length)
           ELSE IF ~Http!IsNumber(token) THEN InHead("Error", token, key, length)
           ELSE InHead("HeaderKey", <<>>, <<>>, Http!Stoul(token))
<1> DEFINE h == InHead("ExpectValueLF", token, key, length)
<1>1. Http!TokenEnds(h, "HeaderKey") = InHead("HeaderKey", <<>>, key, length)
  BY HeadParts
<1>2. Http!NextHeader(h) = InHead("HeaderKey", <<>>, <<>>, length)
  <2>1. [InHead("HeaderKey", <<>>, key, length) EXCEPT !.key = <<>>] = InHead("HeaderKey", <<>>, <<>>, length)
    BY DEF InHead, ParserAt
  <2> QED
    BY <1>1, <2>1 DEF Http!NextHeader
<1>3. [Http!NextHeader(h) EXCEPT !.length = Http!Stoul(token)] = InHead("HeaderKey", <<>>, <<>>, Http!Stoul(token))
  <2>1. [InHead("HeaderKey", <<>>, <<>>, length) EXCEPT !.length = Http!Stoul(token)]
           = InHead("HeaderKey", <<>>, <<>>, Http!Stoul(token))
    BY DEF InHead, ParserAt
  <2> QED
    BY <1>2, <2>1
<1>4. h.key = key /\ h.token = token /\ Http!To(h, "Error") = InHead("Error", token, key, length)
  BY HeadParts
<1> HIDE DEF h
<1>5. Http!HeaderEnds(h) = IF key # <<Http!CONTENT_LENGTH>> THEN InHead("HeaderKey", <<>>, <<>>, length)
                           ELSE IF ~Http!IsNumber(token) THEN InHead("Error", token, key, length)
                           ELSE InHead("HeaderKey", <<>>, <<>>, Http!Stoul(token))
  BY <1>2, <1>3, <1>4 DEF Http!HeaderEnds
<1> QED
  BY <1>5 DEF h

(* The line feed after the blank line.                                     *)
LEMMA HeadEnd ==
  ASSUME NEW token, NEW key, NEW length
  PROVE  Http!HeadEnds(InHead("ExpectBodyLF", token, key, length)) =
           InHead(IF length = 0 THEN "Complete" ELSE IF length > BodyLimit THEN "Thrown" ELSE "Body",
                token, key, length)
BY HeadParts DEF Http!HeadEnds

(* One byte of a body.                                                     *)
LEMMA BodyEnd ==
  ASSUME NEW token, NEW key, NEW length, NEW read, NEW body, NEW ch
  PROVE  Http!Byte(ParserAt("Body", token, key, length, read, body), ch) =
           ParserAt(IF read + 1 >= length THEN "Complete" ELSE "Body", token, key, length, read + 1, Grown(body, ch))
BY DEF ParserAt, Http!Byte, Http!BodyByte, Grown

(* Complete, Error and Thrown are never left.                              *)
LEMMA FinalByte ==
  ASSUME NEW h, h.state \in {"Complete", "Error", "Thrown"}, NEW ch
  PROVE  Http!Byte(h, ch) = h
BY DEF Http!Byte

-----------------------------------------------------------------------------
(* The parser in a request's head.                                         *)

\* A token of one unit.
One(ch) == Grown(<<>>, ch)

(* The first line.                                                         *)
LEMMA FirstLine ==
  Http!ParseBytes(Constructed, RequestLine) = AfterHead
<1>a. PICK s : s = RequestLine
  OBVIOUS
<1>1. /\ Len(s) = 7 /\ 1..7 = {1, 2, 3, 4, 5, 6, 7}
      /\ s[1] = 257 /\ s[2] = 32 /\ s[3] = 257 /\ s[4] = 32 /\ s[5] = 257 /\ s[6] = 13 /\ s[7] = 10
  BY <1>a DEF RequestLine, Http!WORD, Http!SP, Http!CR, Http!LF
<1>0. Len(s) \in Nat
  BY <1>1
<1>2. PICK after : Run(Constructed, s, after) /\ Http!ParseBytes(Constructed, s) = after[7]
  <2>1. PICK after : Run(Constructed, s, after) /\ Http!ParseBytes(Constructed, s) = after[Len(s)]
    BY <1>0, ParseRun
  <2>2. Len(s) = 7
    BY <1>1
  <2> QED
    BY <2>1, <2>2
<1>3. after[0] = InHead("Method", <<>>, <<>>, 0)
  BY <1>2 DEF Run, Constructed, Http!ResetParser, InHead, ParserAt
<1>4. /\ after[1] = Http!Byte(after[0], 257) /\ after[2] = Http!Byte(after[1], 32)
      /\ after[3] = Http!Byte(after[2], 257) /\ after[4] = Http!Byte(after[3], 32)
      /\ after[5] = Http!Byte(after[4], 257) /\ after[6] = Http!Byte(after[5], 13)
      /\ after[7] = Http!Byte(after[6], 10)
  BY <1>1, <1>2 DEF Run
<1> USE DEF Http!SP, Http!CR, Http!LF
<1>5. after[1] = InHead("Method", One(257), <<>>, 0)
  BY <1>3, <1>4, LineByte DEF One
<1>6. after[2] = InHead("Uri", <<>>, <<>>, 0)
  BY <1>4, <1>5, LineByte
<1>7. after[3] = InHead("Uri", One(257), <<>>, 0)
  BY <1>4, <1>6, LineByte DEF One
<1>8. after[4] = InHead("Version", <<>>, <<>>, 0)
  BY <1>4, <1>7, LineByte
<1>9. after[5] = InHead("Version", One(257), <<>>, 0)
  BY <1>4, <1>8, LineByte DEF One
<1>10. after[6] = InHead("Version", One(257), <<>>, 0)
  BY <1>4, <1>9, LineByte
<1>11. after[7] = AfterHead
  BY <1>4, <1>10, LineByte DEF AfterHead
<1> QED
  BY <1>a, <1>2, <1>11

\* The parsers in a header line and after it.
HeaderRun(after, key, value) ==
  /\ after[0] = AfterHead
  /\ after[1] = InHead("HeaderKey", One(key), <<>>, 0)
  /\ after[2] = InHead("HeaderValue", <<>>, One(key), 0)
  /\ after[3] = InHead("HeaderValue", <<>>, One(key), 0)
  /\ after[4] = InHead("HeaderValue", One(value), One(key), 0)
  /\ after[5] = InHead("ExpectValueLF", One(value), One(key), 0)
  /\ after[6] = Http!HeaderEnds(after[5])

\* s begins with a header line.
StartsWithHeader(s, key, value) ==
  /\ Len(s) \in Nat /\ Len(s) >= 6
  /\ s[1] = key /\ s[2] = Http!COLON /\ s[3] = Http!SP /\ s[4] = value
  /\ s[5] = Http!CR /\ s[6] = Http!LF

(* A header line.                                                          *)
LEMMA HeaderLines ==
  ASSUME NEW key, key \notin {Http!CR, Http!COLON}, NEW value, value \notin {Http!CR, Http!SP},
         NEW s, StartsWithHeader(s, key, value), NEW after, Run(AfterHead, s, after)
  PROVE  HeaderRun(after, key, value)
<1>0. 1..6 = {1, 2, 3, 4, 5, 6} /\ \A i \in 1..6 : i \in 1..Len(s)
  BY DEF StartsWithHeader
<1>1. /\ after[0] = AfterHead
      /\ after[1] = Http!Byte(after[0], key) /\ after[2] = Http!Byte(after[1], Http!COLON)
      /\ after[3] = Http!Byte(after[2], Http!SP) /\ after[4] = Http!Byte(after[3], value)
      /\ after[5] = Http!Byte(after[4], Http!CR) /\ after[6] = Http!Byte(after[5], Http!LF)
  BY <1>0 DEF Run, StartsWithHeader
<1>2. Http!COLON # Http!CR
  BY DEF Http!COLON, Http!CR
<1>3. after[1] = InHead("HeaderKey", One(key), <<>>, 0)
  BY <1>1, HeaderByte DEF One, AfterHead
<1>4. after[2] = InHead("HeaderValue", <<>>, One(key), 0)
  BY <1>1, <1>2, <1>3, HeaderByte
<1>5. after[3] = InHead("HeaderValue", <<>>, One(key), 0)
  BY <1>1, <1>4, HeaderByte
<1>6. after[4] = InHead("HeaderValue", One(value), One(key), 0)
  BY <1>1, <1>5, HeaderByte DEF One
<1>7. after[5] = InHead("ExpectValueLF", One(value), One(key), 0)
  <2>1. Http!CR # Http!SP
    BY DEF Http!CR, Http!SP
  <2> QED
    BY <1>1, <1>6, <2>1, HeaderByte
<1>8. after[6] = Http!HeaderEnds(after[5])
  BY <1>1, <1>7, HeaderByte
<1> QED
  BY <1>1, <1>3, <1>4, <1>5, <1>6, <1>7, <1>8 DEF HeaderRun

(* The state of a parser in the head, and a token of one unit.             *)
LEMMA HeadState ==
  ASSUME NEW state, NEW token, NEW key, NEW length
  PROVE  InHead(state, token, key, length).state = state
BY DEF InHead, ParserAt

(* Tokens of one unit are equal when their units are.                      *)
LEMMA OneUnit ==
  ASSUME NEW ch, NEW other
  PROVE  One(ch) = <<other>> <=> ch = other
BY DEF One, Grown

(* A header that is not the length changes nothing ...                     *)
LEMMA OtherHeader ==
  Http!ParseBytes(AfterHead, HeaderLine(Http!WORD, Http!WORD)) = AfterHead
<1>1. PICK s : s = HeaderLine(Http!WORD, Http!WORD)
  OBVIOUS
<1>2. StartsWithHeader(s, Http!WORD, Http!WORD) /\ Len(s) = 6
  BY <1>1 DEF HeaderLine, StartsWithHeader
<1>3. PICK after : Run(AfterHead, s, after) /\ Http!ParseBytes(AfterHead, s) = after[6]
  <2>1. Len(s) \in Nat
    BY <1>2
  <2>2. PICK after : Run(AfterHead, s, after) /\ Http!ParseBytes(AfterHead, s) = after[Len(s)]
    BY <2>1, ParseRun
  <2>3. Len(s) = 6
    BY <1>2
  <2> QED
    BY <2>2, <2>3
<1>4. HeaderRun(after, Http!WORD, Http!WORD)
  <2>1. Http!WORD \notin {Http!CR, Http!COLON} /\ Http!WORD \notin {Http!CR, Http!SP}
    BY DEF Http!WORD, Http!CR, Http!COLON, Http!SP
  <2> QED
    BY <1>2, <1>3, <2>1, HeaderLines
<1>5. One(Http!WORD) # <<Http!CONTENT_LENGTH>>
  <2>1. Http!WORD # Http!CONTENT_LENGTH
    BY DEF Http!WORD, Http!CONTENT_LENGTH
  <2> QED
    BY <2>1, OneUnit
<1>6. after[6] = AfterHead
  BY <1>4, <1>5, HeaderEnd DEF HeaderRun, AfterHead
<1> QED
  BY <1>1, <1>3, <1>6

(* ... and one with the length is remembered.                              *)
LEMMA LengthHeader ==
  ASSUME NEW n \in Nat, NEW s, StartsWithHeader(s, Http!CONTENT_LENGTH, Http!NUMERAL(n)),
         NEW after, Run(AfterHead, s, after)
  PROVE  /\ HeaderRun(after, Http!CONTENT_LENGTH, Http!NUMERAL(n))
         /\ after[6] = InHead("HeaderKey", <<>>, <<>>, n)
<1>1. /\ Http!CONTENT_LENGTH \notin {Http!CR, Http!COLON}
      /\ Http!NUMERAL(n) \notin {Http!CR, Http!SP}
  BY DEF Http!CONTENT_LENGTH, Http!NUMERAL, Http!CR, Http!COLON, Http!SP
<1>2. HeaderRun(after, Http!CONTENT_LENGTH, Http!NUMERAL(n))
  BY <1>1, HeaderLines
<1>3. One(Http!CONTENT_LENGTH) = <<Http!CONTENT_LENGTH>>
  BY OneUnit
<1>4. Http!IsNumber(One(Http!NUMERAL(n))) /\ Http!Stoul(One(Http!NUMERAL(n))) = n
  BY DEF Http!IsNumber, Http!Stoul, One, Grown, Http!NUMERAL
<1> QED
  BY <1>2, <1>3, <1>4, HeaderEnd DEF HeaderRun

(* The announcement of a body ends the head, and nothing before does.      *)
LEMMA Announced ==
  ASSUME NEW n \in Nat, NEW s, Len(s) \in Nat, Len(s) >= 8,
         StartsWithHeader(s, Http!CONTENT_LENGTH, Http!NUMERAL(n)),
         s[7] = Http!CR, s[8] = Http!LF,
         NEW after, Run(AfterHead, s, after)
  PROVE  /\ \A i \in 0..7 : after[i].state # "Complete"
         /\ after[8] = InHead(IF n = 0 THEN "Complete" ELSE IF n > BodyLimit THEN "Thrown" ELSE "Body",
                            <<>>, <<>>, n)
<1>1. /\ HeaderRun(after, Http!CONTENT_LENGTH, Http!NUMERAL(n))
      /\ after[6] = InHead("HeaderKey", <<>>, <<>>, n)
  BY LengthHeader
<1>2. after[7] = Http!Byte(after[6], Http!CR) /\ after[8] = Http!Byte(after[7], Http!LF)
  BY DEF Run
<1>3. after[7] = InHead("ExpectBodyLF", <<>>, <<>>, n)
  BY <1>1, <1>2, HeaderByte
<1>4. after[8] = Http!HeadEnds(after[7])
  BY <1>2, <1>3, HeaderByte
<1>5. /\ after[0].state # "Complete" /\ after[1].state # "Complete" /\ after[2].state # "Complete"
      /\ after[3].state # "Complete" /\ after[4].state # "Complete" /\ after[5].state # "Complete"
      /\ after[6].state # "Complete" /\ after[7].state # "Complete"
  BY <1>1, <1>3, HeadState DEF HeaderRun, AfterHead
<1>6. 0..7 = {0, 1, 2, 3, 4, 5, 6, 7}
  OBVIOUS
<1> QED
  BY <1>3, <1>4, <1>5, <1>6, HeadEnd

(* Every rendering of the first piece leads to the same parser.            *)
LEMMA HeadRendered ==
  ASSUME NEW bytes \in Renderings("head")
  PROVE  Http!ParseBytes(Constructed, bytes) = AfterHead
<1>1. CASE bytes = RequestLine
  BY <1>1, FirstLine
<1>2. CASE bytes = RequestLine \o HeaderLine(Http!WORD, Http!WORD)
  <2>1. PICK s, t : s = RequestLine /\ t = HeaderLine(Http!WORD, Http!WORD)
    OBVIOUS
  <2>2. s \in Seq(Nat) /\ t \in Seq(Nat)
    BY <2>1 DEF RequestLine, HeaderLine, Http!WORD, Http!SP, Http!CR, Http!LF, Http!COLON
  <2>3. Http!ParseBytes(Constructed, s \o t) = Http!ParseBytes(Http!ParseBytes(Constructed, s), t)
    BY <2>2, ChunksCompose
  <2> QED
    BY <1>2, <2>1, <2>3, FirstLine, OtherHeader
<1> QED
  BY <1>1, <1>2 DEF Renderings

-----------------------------------------------------------------------------
(* The parser in a request's body.                                         *)

ByteSeq == Seq(0..255)

\* While a body is read.
Reading(n, i, body) == ParserAt("Body", <<>>, <<>>, n, i, body)

(* A request with a body: complete at its last byte and not before.        *)
LEMMA FramedRun ==
  ASSUME NEW body \in ByteSeq, Len(body) <= BodyLimit,
         NEW s, s = Framed(body), NEW after, Run(AfterHead, s, after)
  PROVE  /\ Len(s) = 8 + Len(body)
         /\ \A i \in 0..Len(s) - 1 : after[i].state # "Complete"
         /\ after[Len(s)] = ParserAt("Complete", <<>>, <<>>, Len(body), Len(body), body)
<1>1. PICK n \in Nat : n = Len(body) /\ n <= BodyLimit
  BY DEF ByteSeq
<1>2. /\ Len(s) = 8 + n
      /\ s[7] = Http!CR /\ s[8] = Http!LF
      /\ StartsWithHeader(s, Http!CONTENT_LENGTH, Http!NUMERAL(n))
      /\ \A i \in 1..n : s[8+i] = body[i]
  <2>1. PICK line : line = ContentLength(n) \o BlankLine
    OBVIOUS
  <2>2. /\ Len(line) = 8 /\ line \in Seq(Int)
        /\ line[1] = Http!CONTENT_LENGTH /\ line[2] = Http!COLON /\ line[3] = Http!SP
        /\ line[4] = Http!NUMERAL(n) /\ line[5] = Http!CR /\ line[6] = Http!LF
        /\ line[7] = Http!CR /\ line[8] = Http!LF
    BY <2>1 DEF ContentLength, HeaderLine, BlankLine, Http!CONTENT_LENGTH, Http!COLON, Http!SP,
                Http!NUMERAL, Http!CR, Http!LF
  <2>3. body \in Seq(Int)
    <3>1. 0..255 \subseteq Int
      OBVIOUS
    <3> QED
      BY <3>1, SeqMonotonic DEF ByteSeq
  <2>4. s = line \o body
    BY <1>1, <2>1 DEF Framed
  <2>5. /\ Len(s) = 8 + n
        /\ \A i \in 1..8 + n : s[i] = IF i <= 8 THEN line[i] ELSE body[i-8]
    <3>1. /\ Len(line \o body) = Len(line) + Len(body)
          /\ \A i \in 1..Len(line) + Len(body) :
               (line \o body)[i] = IF i <= Len(line) THEN line[i] ELSE body[i - Len(line)]
      BY <2>2, <2>3, ConcatProperties
    <3>2. Len(line) = 8 /\ Len(body) = n
      BY <1>1, <2>2
    <3> QED
      BY <2>4, <3>1, <3>2
  <2>6. \A i \in 1..8 : s[i] = line[i]
    BY <2>5
  <2>7. \A i \in 1..n : s[8+i] = body[i]
    BY <2>5
  <2> QED
    BY <2>2, <2>5, <2>6, <2>7 DEF StartsWithHeader
<1>3. /\ \A i \in 0..7 : after[i].state # "Complete"
      /\ after[8] = InHead(IF n = 0 THEN "Complete" ELSE IF n > BodyLimit THEN "Thrown" ELSE "Body",
                         <<>>, <<>>, n)
  <2>1. Len(s) \in Nat /\ Len(s) >= 8
    BY <1>2
  <2> QED
    BY <1>2, <2>1, Announced
<1>4. CASE n = 0
  <2>1. body = <<>>
    BY <1>1, <1>4, EmptySeq DEF ByteSeq
  <2>2. after[8] = ParserAt("Complete", <<>>, <<>>, n, n, body)
    BY <1>3, <1>4, <2>1 DEF InHead
  <2> QED
    BY <1>1, <1>2, <1>3, <1>4, <2>2
<1>5. CASE n # 0
  <2> DEFINE Good(i) == after[8+i] = Reading(n, i, SubSeq(body, 1, i))
             T == {i \in 0..n-1 : ~Good(i)}
  <2>1. Good(0)
    <3>1. ~ (n > BodyLimit) /\ SubSeq(body, 1, 0) = <<>>
      BY <1>1, ParsingAssumption DEF ByteSeq
    <3>2. after[8+0] = InHead("Body", <<>>, <<>>, n)
      BY <1>3, <1>5, <3>1
    <3> QED
      BY <3>1, <3>2 DEF InHead, Reading
  <2>2. \A i \in 0..n-1 : Good(i)
    <3> SUFFICES ASSUME T # {} PROVE FALSE
      OBVIOUS
    <3>1. PICK i \in T : \A j \in T : i <= j
      <4>1. T \subseteq Nat
        OBVIOUS
      <4> HIDE DEF T
      <4> QED
        BY <4>1, LeastNumber
    <3>2. i # 0
      BY <2>1, <3>1
    <3>3. i-1 \in 0..n-1 /\ i-1 \notin T /\ i \in 1..n
      BY <3>1, <3>2
    <3>4. after[8+(i-1)] = Reading(n, i-1, SubSeq(body, 1, i-1))
      BY <3>3
    <3>5. after[8+i] = Http!Byte(after[8+(i-1)], body[i])
      <4>1. 8+i \in 1..Len(s) /\ (8+i)-1 = 8+(i-1)
        BY <1>2, <3>3
      <4>2. after[8+i] = Http!Byte(after[(8+i)-1], s[8+i])
        BY <4>1 DEF Run
      <4> QED
        BY <1>2, <3>3, <4>1, <4>2
    <3>6. (i-1)+1 = i /\ ~ (i >= n)
      BY <3>1
    <3>7. Grown(SubSeq(body, 1, i-1), body[i]) = SubSeq(body, 1, i)
      BY <1>1, <3>3 DEF ByteSeq, Grown
    <3>8. Good(i)
      <4>1. after[8+i] = ParserAt(IF (i-1)+1 >= n THEN "Complete" ELSE "Body", <<>>, <<>>, n, (i-1)+1,
                           Grown(SubSeq(body, 1, i-1), body[i]))
        BY <3>4, <3>5, BodyEnd DEF Reading
      <4> QED
        BY <3>6, <3>7, <4>1 DEF Reading
    <3> QED
      BY <3>1, <3>8
  <2> HIDE DEF Good, T
  <2>3. after[8+n] = ParserAt("Complete", <<>>, <<>>, n, n, body)
    <3>1. after[8+(n-1)] = Reading(n, n-1, SubSeq(body, 1, n-1))
      BY <1>5, <2>2 DEF Good
    <3>2. after[8+n] = Http!Byte(after[8+(n-1)], body[n])
      <4>1. 8+n \in 1..Len(s) /\ (8+n)-1 = 8+(n-1) /\ n \in 1..n
        BY <1>2, <1>5
      <4> QED
        BY <1>2, <4>1 DEF Run
    <3>3. (n-1)+1 = n /\ n >= n
      OBVIOUS
    <3>4. Grown(SubSeq(body, 1, n-1), body[n]) = body
      BY <1>1, <1>5 DEF ByteSeq, Grown
    <3> QED
      BY <3>1, <3>2, <3>3, <3>4, BodyEnd DEF Reading
  <2>4. ASSUME NEW k \in 0..8+n-1 PROVE after[k].state # "Complete"
    <3>1. CASE k \in 0..7
      BY <1>3, <3>1
    <3>2. CASE k \notin 0..7
      <4>1. PICK i \in 0..n-1 : i = k - 8
        BY <3>2
      <4>2. k = 8+i
        BY <4>1
      <4>3. after[k] = Reading(n, i, SubSeq(body, 1, i))
        BY <2>2, <4>2 DEF Good
      <4> QED
        BY <4>3 DEF Reading, ParserAt
    <3> QED
      BY <3>1, <3>2
  <2>5. \A k \in 0..Len(s)-1 : after[k].state # "Complete"
    BY <1>2, <2>4
  <2>6. after[Len(s)] = ParserAt("Complete", <<>>, <<>>, Len(body), Len(body), body)
    BY <1>1, <1>2, <2>3
  <2> QED
    BY <1>1, <1>2, <2>5, <2>6
<1> QED
  BY <1>4, <1>5

\* A piece that follows the head of a request ends only at its last byte, with
\* end.
EndsIn(bytes, end) ==
  /\ bytes \in Seq(Int)
  /\ Http!ParseBytes(AfterHead, bytes) = end
  /\ \A k \in 0..Len(bytes) - 1 :
       Http!ParseBytes(AfterHead, SubSeq(bytes, 1, k)).state # "Complete"

(* EndsIn from the parsers after each byte.                                *)
LEMMA EndsInRun ==
  ASSUME NEW s \in Seq(Int), NEW after, Run(AfterHead, s, after),
         NEW end, after[Len(s)] = end,
         \A k \in 0..Len(s) - 1 : after[k].state # "Complete"
  PROVE  EndsIn(s, end)
<1>1. PICK n \in Nat : n = Len(s)
  OBVIOUS
<1>2. ASSUME NEW k \in 0..n PROVE Http!ParseBytes(AfterHead, SubSeq(s, 1, k)) = after[k]
  BY <1>1, ParsePrefix
<1>3. SubSeq(s, 1, n) = s
  BY <1>1
<1>4. Http!ParseBytes(AfterHead, s) = end
  <2>1. n \in 0..n
    OBVIOUS
  <2>2. Http!ParseBytes(AfterHead, SubSeq(s, 1, n)) = after[n]
    BY <1>2, <2>1
  <2> QED
    BY <1>1, <1>3, <2>2
<1>5. ASSUME NEW k \in 0..n-1 PROVE Http!ParseBytes(AfterHead, SubSeq(s, 1, k)).state # "Complete"
  <2>1. k \in 0..n
    OBVIOUS
  <2> QED
    BY <1>1, <1>2, <2>1
<1> QED
  BY <1>1, <1>4, <1>5 DEF EndsIn

(* The piece that ends a request ...                                       *)
LEMMA FramedEnds ==
  ASSUME NEW body \in ByteSeq, Len(body) <= BodyLimit
  PROVE  EndsIn(Framed(body), ParserAt("Complete", <<>>, <<>>, Len(body), Len(body), body))
<1>1. PICK s : s = Framed(body)
  OBVIOUS
<1>2. s \in Seq(Int)
  <2>1. body \in Seq(Int) /\ Len(body) \in Nat
    <3>1. 0..255 \subseteq Int
      OBVIOUS
    <3>2. body \in Seq(Int)
      BY <3>1, SeqMonotonic DEF ByteSeq
    <3> QED
      BY <3>2, LenProperties
  <2>2. PICK line : line = ContentLength(Len(body)) \o BlankLine
    OBVIOUS
  <2>3. line \in Seq(Int)
    BY <2>1, <2>2 DEF ContentLength, HeaderLine, BlankLine, Http!CONTENT_LENGTH, Http!COLON, Http!SP,
                Http!NUMERAL, Http!CR, Http!LF
  <2>4. s = line \o body
    BY <1>1, <2>2 DEF Framed
  <2> QED
    BY <2>1, <2>3, <2>4, ConcatProperties
<1>3. Len(s) \in Nat
  BY <1>2
<1>4. PICK after : Run(AfterHead, s, after)
  BY <1>3, ParseRun
<1>5. /\ \A i \in 0..Len(s) - 1 : after[i].state # "Complete"
      /\ after[Len(s)] = ParserAt("Complete", <<>>, <<>>, Len(body), Len(body), body)
  BY <1>1, <1>4, FramedRun
<1> QED
  BY <1>1, <1>2, <1>4, <1>5, EndsInRun

(* ... one without a body ...                                              *)
LEMMA BlankEnds == EndsIn(BlankLine, InHead("Complete", <<>>, <<>>, 0))
<1>1. PICK s : s = BlankLine
  OBVIOUS
<1>2. s \in Seq(Int) /\ Len(s) = 2 /\ s[1] = Http!CR /\ s[2] = Http!LF
  BY <1>1 DEF BlankLine, Http!CR, Http!LF
<1>3. PICK after : Run(AfterHead, s, after)
  <2>1. Len(s) \in Nat
    BY <1>2
  <2> QED
    BY <2>1, ParseRun
<1>4. /\ after[0] = AfterHead
      /\ after[1] = Http!Byte(after[0], Http!CR) /\ after[2] = Http!Byte(after[1], Http!LF)
  BY <1>2, <1>3 DEF Run
<1>5. after[1] = InHead("ExpectBodyLF", <<>>, <<>>, 0)
  BY <1>4, HeaderByte DEF AfterHead
<1>6. after[2] = InHead("Complete", <<>>, <<>>, 0)
  BY <1>4, <1>5, HeaderByte, HeadEnd
<1>7. after[0].state # "Complete" /\ after[1].state # "Complete"
  BY <1>4, <1>5, HeadState DEF AfterHead
<1>8. \A k \in 0..Len(s) - 1 : after[k].state # "Complete"
  BY <1>2, <1>7
<1>9. after[Len(s)] = InHead("Complete", <<>>, <<>>, 0)
  BY <1>2, <1>6
<1> QED
  BY <1>1, <1>2, <1>3, <1>8, <1>9, EndsInRun

(* ... and the announcement of a body that cannot be reserved.             *)
LEMMA HugeEnds ==
  EndsIn(ContentLength(BodyLimit + 1) \o BlankLine, InHead("Thrown", <<>>, <<>>, BodyLimit + 1))
<1>1. PICK s : s = ContentLength(BodyLimit + 1) \o BlankLine
  OBVIOUS
<1>2. PICK n \in Nat : n = BodyLimit + 1 /\ n # 0 /\ n > BodyLimit
  BY ParsingAssumption
<1>3. /\ s \in Seq(Int) /\ Len(s) = 8 /\ s[7] = Http!CR /\ s[8] = Http!LF
      /\ StartsWithHeader(s, Http!CONTENT_LENGTH, Http!NUMERAL(n))
  BY <1>1, <1>2 DEF ContentLength, HeaderLine, BlankLine, StartsWithHeader, Http!CONTENT_LENGTH,
                    Http!COLON, Http!SP, Http!NUMERAL, Http!CR, Http!LF
<1>4. Len(s) \in Nat /\ Len(s) >= 8
  BY <1>3
<1>5. PICK after : Run(AfterHead, s, after)
  BY <1>4, ParseRun
<1>6. /\ \A i \in 0..7 : after[i].state # "Complete"
      /\ after[8] = InHead("Thrown", <<>>, <<>>, n)
  BY <1>2, <1>3, <1>4, <1>5, Announced
<1>7. \A k \in 0..Len(s) - 1 : after[k].state # "Complete"
  BY <1>3, <1>6
<1>8. after[Len(s)] = InHead("Thrown", <<>>, <<>>, BodyLimit + 1)
  BY <1>2, <1>3, <1>6
<1> QED
  BY <1>1, <1>3, <1>5, <1>7, <1>8, EndsInRun

-----------------------------------------------------------------------------
(* The parser and malformed headers.                                       *)

\* The parser has met a malformed header.
EndsInError(bytes) == \E end : end.state = "Error" /\ EndsIn(bytes, end)

(* A header's key that is ended by something else than a colon ...         *)
LEMMA KeyJunk == EndsInError(<<Http!WORD, Http!CR, Http!WORD>>)
<1>1. PICK s : s = <<Http!WORD, Http!CR, Http!WORD>>
  OBVIOUS
<1>2. s \in Seq(Int) /\ Len(s) = 3 /\ s[1] = Http!WORD /\ s[2] = Http!CR /\ s[3] = Http!WORD
  BY <1>1 DEF Http!WORD, Http!CR
<1>3. PICK after : Run(AfterHead, s, after)
  <2>1. Len(s) \in Nat
    BY <1>2
  <2> QED
    BY <2>1, ParseRun
<1>4. /\ after[0] = AfterHead
      /\ after[1] = Http!Byte(after[0], Http!WORD) /\ after[2] = Http!Byte(after[1], Http!CR)
      /\ after[3] = Http!Byte(after[2], Http!WORD)
  BY <1>2, <1>3 DEF Run
<1>0. Http!WORD \notin {Http!CR, Http!COLON, Http!LF}
  BY DEF Http!WORD, Http!CR, Http!COLON, Http!LF
<1>5. after[1] = InHead("HeaderKey", One(Http!WORD), <<>>, 0)
  BY <1>0, <1>4, HeaderByte DEF AfterHead, One
<1>6. after[2] = InHead("ExpectBodyLF", <<>>, <<>>, 0)
  BY <1>4, <1>5, HeaderByte
<1>7. after[3] = InHead("Error", <<>>, <<>>, 0)
  BY <1>0, <1>4, <1>6, HeaderByte
<1>8. after[0].state # "Complete" /\ after[1].state # "Complete" /\ after[2].state # "Complete"
      /\ after[3].state = "Error"
  BY <1>4, <1>5, <1>6, <1>7, HeadState DEF AfterHead
<1>9. \A k \in 0..Len(s) - 1 : after[k].state # "Complete"
  BY <1>2, <1>8
<1>10. EndsIn(s, after[3])
  <2>1. after[Len(s)] = after[3]
    BY <1>2
  <2> QED
    BY <1>2, <1>3, <1>9, <2>1, EndsInRun
<1> QED
  BY <1>1, <1>8, <1>10 DEF EndsInError

(* ... a value that is not followed by a line feed ...                     *)
LEMMA ValueJunk == EndsInError(<<Http!WORD, Http!COLON, Http!WORD, Http!CR, Http!SP>>)
<1>1. PICK s : s = <<Http!WORD, Http!COLON, Http!WORD, Http!CR, Http!SP>>
  OBVIOUS
<1>2. /\ s \in Seq(Int) /\ Len(s) = 5 /\ s[1] = Http!WORD /\ s[2] = Http!COLON /\ s[3] = Http!WORD
      /\ s[4] = Http!CR /\ s[5] = Http!SP
  BY <1>1 DEF Http!WORD, Http!CR, Http!COLON, Http!SP
<1>3. PICK after : Run(AfterHead, s, after)
  <2>1. Len(s) \in Nat
    BY <1>2
  <2> QED
    BY <2>1, ParseRun
<1>4. /\ after[0] = AfterHead
      /\ after[1] = Http!Byte(after[0], Http!WORD) /\ after[2] = Http!Byte(after[1], Http!COLON)
      /\ after[3] = Http!Byte(after[2], Http!WORD) /\ after[4] = Http!Byte(after[3], Http!CR)
      /\ after[5] = Http!Byte(after[4], Http!SP)
  <2>1. 1..5 = {1, 2, 3, 4, 5}
    OBVIOUS
  <2> QED
    BY <1>2, <1>3, <2>1 DEF Run
<1>0. /\ Http!WORD \notin {Http!CR, Http!COLON, Http!SP} /\ Http!COLON # Http!CR
      /\ Http!CR # Http!SP /\ Http!SP # Http!LF
  BY DEF Http!WORD, Http!CR, Http!COLON, Http!SP, Http!LF
<1>5. after[1] = InHead("HeaderKey", One(Http!WORD), <<>>, 0)
  BY <1>0, <1>4, HeaderByte DEF AfterHead, One
<1>6. after[2] = InHead("HeaderValue", <<>>, One(Http!WORD), 0)
  BY <1>0, <1>4, <1>5, HeaderByte
<1>7. after[3] = InHead("HeaderValue", One(Http!WORD), One(Http!WORD), 0)
  BY <1>0, <1>4, <1>6, HeaderByte DEF One
<1>8. after[4] = InHead("ExpectValueLF", One(Http!WORD), One(Http!WORD), 0)
  BY <1>0, <1>4, <1>7, HeaderByte
<1>9. after[5] = InHead("Error", One(Http!WORD), One(Http!WORD), 0)
  BY <1>0, <1>4, <1>8, HeaderByte
<1>10. /\ after[0].state # "Complete" /\ after[1].state # "Complete" /\ after[2].state # "Complete"
       /\ after[3].state # "Complete" /\ after[4].state # "Complete" /\ after[5].state = "Error"
  BY <1>4, <1>5, <1>6, <1>7, <1>8, <1>9, HeadState DEF AfterHead
<1>11. \A k \in 0..Len(s) - 1 : after[k].state # "Complete"
  <2>1. \A k \in 0..4 : k \in {0, 1, 2, 3, 4}
    OBVIOUS
  <2>2. Len(s) - 1 = 4
    BY <1>2
  <2> QED
    BY <1>10, <2>1, <2>2
<1>12. EndsIn(s, after[5])
  <2>1. after[Len(s)] = after[5]
    BY <1>2
  <2> QED
    BY <1>2, <1>3, <1>11, <2>1, EndsInRun
<1> QED
  BY <1>1, <1>10, <1>12 DEF EndsInError

(* ... and a length that is not a number.                                  *)
LEMMA LengthJunk == EndsInError(HeaderLine(Http!CONTENT_LENGTH, Http!WORD))
<1>1. PICK s : s = HeaderLine(Http!CONTENT_LENGTH, Http!WORD)
  OBVIOUS
<1>2. s \in Seq(Int) /\ Len(s) = 6 /\ StartsWithHeader(s, Http!CONTENT_LENGTH, Http!WORD)
  BY <1>1 DEF HeaderLine, StartsWithHeader, Http!WORD, Http!CR, Http!COLON, Http!SP, Http!LF, Http!CONTENT_LENGTH
<1>3. PICK after : Run(AfterHead, s, after)
  <2>1. Len(s) \in Nat
    BY <1>2
  <2> QED
    BY <2>1, ParseRun
<1>4. HeaderRun(after, Http!CONTENT_LENGTH, Http!WORD)
  <2>1. Http!CONTENT_LENGTH \notin {Http!CR, Http!COLON} /\ Http!WORD \notin {Http!CR, Http!SP}
    BY DEF Http!CONTENT_LENGTH, Http!WORD, Http!CR, Http!COLON, Http!SP
  <2> QED
    BY <1>2, <1>3, <2>1, HeaderLines
<1>5. One(Http!CONTENT_LENGTH) = <<Http!CONTENT_LENGTH>>
  BY OneUnit
<1>6. ~ Http!IsNumber(One(Http!WORD))
  BY DEF Http!IsNumber, One, Grown, Http!NUMERAL, Http!WORD
<1>7. after[6] = InHead("Error", One(Http!WORD), One(Http!CONTENT_LENGTH), 0)
  BY <1>4, <1>5, <1>6, HeaderEnd DEF HeaderRun
<1>8. /\ after[0].state # "Complete" /\ after[1].state # "Complete" /\ after[2].state # "Complete"
      /\ after[3].state # "Complete" /\ after[4].state # "Complete" /\ after[5].state # "Complete"
      /\ after[6].state = "Error"
  BY <1>4, <1>7, HeadState DEF AfterHead, HeaderRun
<1>9. \A k \in 0..Len(s) - 1 : after[k].state # "Complete"
  <2>1. \A k \in 0..5 : k \in {0, 1, 2, 3, 4, 5}
    OBVIOUS
  <2>2. Len(s) - 1 = 5
    BY <1>2
  <2> QED
    BY <1>8, <2>1, <2>2
<1>10. EndsIn(s, after[6])
  <2>1. after[Len(s)] = after[6]
    BY <1>2
  <2> QED
    BY <1>2, <1>3, <1>9, <2>1, EndsInRun
<1> QED
  BY <1>1, <1>8, <1>10 DEF EndsInError

(* A header that HttpSim rejects, in every rendering.                      *)
LEMMA JunkEnds ==
  ASSUME NEW bytes \in Renderings("junk")
  PROVE  EndsInError(bytes)
BY KeyJunk, ValueJunk, LengthJunk DEF Renderings

-----------------------------------------------------------------------------
(* Packets on the wire.                                                    *)

\* n fits into 32 bits.
Fits(n) == n \div 65536 < 65536

(* What is assumed of the requests.                                        *)
LEMMA ParsingFacts ==
  /\ Mtu \in Nat /\ Fits(Mtu) /\ BodyLimit \in Nat /\ 6 + Mtu <= BodyLimit
  /\ \A content \in Contents : content.type \in 0..255 /\ content.data \in ByteSeq
  /\ \A body \in Bodies : body \in ByteSeq /\ Len(body) <= BodyLimit
BY ParsingAssumption DEF Fits, ByteSeq, Codec!HeaderSize

(* ntohl() undoes htonl() of a length that an MTU can have.                *)
LEMMA NetworkOrder ==
  ASSUME NEW n \in Nat, Fits(n)
  PROVE  /\ Codec!Htonl(n) \in ByteSeq /\ Len(Codec!Htonl(n)) = 4
         /\ Codec!Ntohl(Codec!Htonl(n)) = n
<1>1. PICK a, b, c, d : /\ a = ((n \div 65536) \div 256) % 256 /\ b = (n \div 65536) % 256
                        /\ c = (n \div 256) % 256 /\ d = n % 256
  OBVIOUS
<1>2. /\ a \in 0..255 /\ b \in 0..255 /\ c \in 0..255 /\ d \in 0..255
      /\ ((a * 256 + b) * 256 + c) * 256 + d = n
  <2>1. PICK x \in Nat, y \in Nat, z \in Nat :
          x = n \div 256 /\ y = n \div 65536 /\ z = (n \div 65536) \div 256
    OBVIOUS
  <2>2. n = 256 * x + d /\ d \in 0..255
    BY <1>1, <2>1
  <2>3. x = 256 * y + c /\ c \in 0..255
    BY <1>1, <2>1
  <2>4. y = 256 * z + b /\ b \in 0..255
    BY <1>1, <2>1
  <2>5. a = z /\ z \in 0..255
    BY <1>1, <2>1 DEF Fits
  <2> QED
    BY <2>2, <2>3, <2>4, <2>5
<1>3. PICK s : s = Codec!Htonl(n)
  OBVIOUS
<1>4. s = <<a, b, c, d>>
  BY <1>1, <1>3 DEF Codec!Htonl
<1>5. s \in ByteSeq /\ Len(s) = 4 /\ s[1] = a /\ s[2] = b /\ s[3] = c /\ s[4] = d
  BY <1>2, <1>4 DEF ByteSeq
<1>6. Codec!Ntohl(s) = n
  BY <1>2, <1>5 DEF Codec!Ntohl
<1> QED
  BY <1>3, <1>5, <1>6

\* u is s and then t.
IsJoin(u, s, t) ==
  /\ u \in ByteSeq /\ Len(u) = Len(s) + Len(t)
  /\ \A i \in 1..Len(s) + Len(t) : u[i] = IF i <= Len(s) THEN s[i] ELSE t[i - Len(s)]

(* Two sequences of bytes, one after the other.                            *)
LEMMA BytesJoined ==
  ASSUME NEW s \in ByteSeq, NEW t \in ByteSeq
  PROVE  IsJoin(s \o t, s, t)
BY ConcatProperties DEF ByteSeq, IsJoin

\* A packet of n bytes of payload.
IsPacket(p, type, n, payload) ==
  /\ p = [version |-> 1, type |-> type, length |-> n, payload |-> payload]
  /\ type \in 0..255
  /\ n \in 0..Mtu
  /\ payload \in ByteSeq /\ Len(payload) = n

(* What the constructors make.                                             *)
LEMMA PacketMade ==
  ASSUME NEW p \in Packets
  PROVE  \E type, n, payload : IsPacket(p, type, n, payload)
<1>1. PICK content \in Contents : p = Codec!MakePacket(content.type, content.data)
  BY DEF Packets
<1>2. PICK type \in 0..255, data \in ByteSeq : type = content.type /\ data = content.data
  BY ParsingFacts
<1>3. PICK n \in Nat : n = IF Len(data) > Mtu THEN Mtu ELSE Len(data)
  BY ParsingFacts DEF ByteSeq
<1>4. n <= Mtu /\ n <= Len(data)
  BY <1>3, ParsingFacts DEF ByteSeq
<1>5. PICK payload : payload = SubSeq(data, 1, n)
  OBVIOUS
<1>6. payload \in ByteSeq /\ Len(payload) = n
  <2>1. \A i \in 1..n : data[i] \in 0..255
    BY <1>3, <1>4, ElementOfSeq, LenProperties DEF ByteSeq
  <2> QED
    BY <1>3, <1>5, <2>1, SubSeqProperties DEF ByteSeq
<1>7. p = [version |-> 1, type |-> type, length |-> n, payload |-> payload]
  BY <1>1, <1>2, <1>3, <1>5 DEF Codec!MakePacket
<1>8. n \in 0..Mtu
  BY <1>4, ParsingFacts
<1> QED
  BY <1>6, <1>7, <1>8 DEF IsPacket

(* A packet is received as it was sent: deserialize() accepts what         *)
(* serialize() wrote, and the result is the same packet.                   *)
THEOREM PacketRoundTrip ==
  \A p \in Packets :
    /\ Codec!Serialize(p) \in ByteSeq
    /\ Len(Codec!Serialize(p)) <= BodyLimit
    /\ ~ Codec!Malformed(Codec!Serialize(p))
    /\ Codec!Deserialize(Codec!Serialize(p)) = p
<1> SUFFICES ASSUME NEW p \in Packets
             PROVE  /\ Codec!Serialize(p) \in ByteSeq
                    /\ Len(Codec!Serialize(p)) <= BodyLimit
                    /\ ~ Codec!Malformed(Codec!Serialize(p))
                    /\ Codec!Deserialize(Codec!Serialize(p)) = p
  OBVIOUS
<1>1. PICK type, n, payload : IsPacket(p, type, n, payload)
  BY PacketMade
<1>2. PICK raw, count : raw = Codec!Serialize(p) /\ count = Codec!Htonl(n)
  OBVIOUS
<1>3. n \in Nat /\ n <= Mtu /\ Fits(n)
  BY <1>1, ParsingFacts DEF IsPacket, Fits
<1>4. count \in ByteSeq /\ Len(count) = 4 /\ Codec!Ntohl(count) = n
  BY <1>2, <1>3, NetworkOrder
<1>5. PICK top : top = <<1, type>> \o count
  OBVIOUS
<1>6. /\ top \in ByteSeq /\ Len(top) = 6 /\ top[1] = 1 /\ top[2] = type
      /\ \A i \in 1..4 : top[i+2] = count[i]
  <2>1. PICK two : two = <<1, type>>
    OBVIOUS
  <2>2. two \in ByteSeq /\ Len(two) = 2 /\ two[1] = 1 /\ two[2] = type
    BY <1>1, <2>1 DEF ByteSeq, IsPacket
  <2> QED
    <3>0. two \in ByteSeq /\ count \in ByteSeq /\ top = two \o count
      BY <1>4, <1>5, <2>1, <2>2
    <3>1. /\ top \in ByteSeq /\ Len(top) = Len(two) + Len(count)
          /\ \A i \in 1..Len(two) + Len(count) :
               top[i] = IF i <= Len(two) THEN two[i] ELSE count[i - Len(two)]
      <4>1. IsJoin(top, two, count)
        BY <3>0, BytesJoined
      <4> QED
        BY <4>1 DEF IsJoin
    <3>2. \A i \in 1..6 : top[i] = IF i <= 2 THEN two[i] ELSE count[i-2]
      BY <1>4, <2>2, <3>1
    <3> QED
      BY <1>4, <2>2, <3>1, <3>2
<1>7. /\ raw \in ByteSeq /\ Len(raw) = 6 + n
      /\ \A i \in 1..6+n : raw[i] = IF i <= 6 THEN top[i] ELSE payload[i-6]
  <2>1. raw = top \o payload
    <3>1. p.version = 1 /\ p.type = type /\ p.length = n /\ p.payload = payload
      BY <1>1 DEF IsPacket
    <3> QED
      BY <1>2, <1>5, <3>1 DEF Codec!Serialize
  <2>2. payload \in ByteSeq /\ Len(payload) = n
    BY <1>1 DEF IsPacket
  <2>0. top \in ByteSeq /\ payload \in ByteSeq /\ raw = top \o payload
    BY <1>6, <2>1, <2>2
  <2>3. /\ raw \in ByteSeq /\ Len(raw) = Len(top) + Len(payload)
        /\ \A i \in 1..Len(top) + Len(payload) :
             raw[i] = IF i <= Len(top) THEN top[i] ELSE payload[i - Len(top)]
    <3>1. IsJoin(raw, top, payload)
      BY <2>0, BytesJoined
    <3> QED
      BY <3>1 DEF IsJoin
  <2> QED
    BY <1>6, <2>2, <2>3
<1>8. SubSeq(raw, 3, 6) = count
  <2>1. PICK sub : sub = SubSeq(raw, 3, 6)
    OBVIOUS
  <2>2. /\ sub \in ByteSeq /\ Len(sub) = 4
        /\ sub[1] = raw[3] /\ sub[2] = raw[4] /\ sub[3] = raw[5] /\ sub[4] = raw[6]
    BY <1>3, <1>7, <2>1 DEF ByteSeq
  <2>3. /\ raw[3] = count[1] /\ raw[4] = count[2] /\ raw[5] = count[3] /\ raw[6] = count[4]
    <3>1. raw[3] = top[3] /\ raw[4] = top[4] /\ raw[5] = top[5] /\ raw[6] = top[6]
      BY <1>3, <1>7
    <3> QED
      BY <1>6, <3>1
  <2>4. \A i \in 1..4 : sub[i] = count[i]
    <3>1. 1..4 = {1, 2, 3, 4}
      OBVIOUS
    <3> QED
      BY <2>2, <2>3, <3>1
  <2> QED
    BY <1>4, <2>1, <2>2, <2>4, SeqEqual DEF ByteSeq
<1>9. SubSeq(raw, 7, 6 + n) = payload
  <2>1. PICK sub : sub = SubSeq(raw, 7, 6 + n)
    OBVIOUS
  <2>2. sub \in ByteSeq /\ Len(sub) = n /\ \A i \in 1..n : sub[i] = raw[i+6]
    <3>1. \A i \in 7..6+n : raw[i] \in 0..255
      <4>1. \A i \in 7..6+n : i \in 1..Len(raw)
        BY <1>3, <1>7
      <4> QED
        BY <1>7, <4>1, ElementOfSeq DEF ByteSeq
    <3> QED
      BY <1>3, <2>1, <3>1, SubSeqProperties DEF ByteSeq
  <2>3. \A i \in 1..n : raw[i+6] = payload[i]
    BY <1>3, <1>7
  <2>4. payload \in ByteSeq /\ Len(payload) = n
    BY <1>1 DEF IsPacket
  <2> QED
    BY <2>1, <2>2, <2>3, <2>4, SeqEqual DEF ByteSeq
<1>10. raw[1] = 1 /\ raw[2] = type
  BY <1>3, <1>6, <1>7
<1>11. ~ Codec!Malformed(raw)
  <2>1. Codec!Malformed(raw) <=> Len(raw) < 6 \/ Codec!Ntohl(SubSeq(raw, 3, 6)) > Mtu
                                   \/ Len(raw) < 6 + Codec!Ntohl(SubSeq(raw, 3, 6))
    BY DEF Codec!Malformed, Codec!HeaderSize
  <2> QED
    <3>1. Codec!Ntohl(SubSeq(raw, 3, 6)) = n
      BY <1>4, <1>8
    <3>2. n \in Nat /\ n <= Mtu /\ Mtu \in Nat /\ Len(raw) = 6 + n
      BY <1>3, <1>7, ParsingFacts
    <3>3. ~ (Len(raw) < 6) /\ ~ (n > Mtu) /\ ~ (Len(raw) < 6 + n)
      BY <3>2
    <3> QED
      BY <2>1, <3>1, <3>3
<1>12. Codec!Deserialize(raw) = p
  <2>1. Codec!Deserialize(raw) = [version |-> raw[1], type |-> raw[2], length |-> Codec!Ntohl(SubSeq(raw, 3, 6)),
                                  payload |-> SubSeq(raw, 6 + 1, 6 + Codec!Ntohl(SubSeq(raw, 3, 6)))]
    BY DEF Codec!Deserialize, Codec!HeaderSize
  <2>2. 6 + 1 = 7
    OBVIOUS
  <2>3. Codec!Deserialize(raw) = [version |-> 1, type |-> type, length |-> n, payload |-> payload]
    BY <1>4, <1>8, <1>9, <1>10, <2>1, <2>2
  <2> QED
    BY <1>1, <2>3 DEF IsPacket
<1>13. Len(raw) <= BodyLimit
  BY <1>3, <1>7, ParsingFacts
<1> QED
  BY <1>2, <1>7, <1>11, <1>12, <1>13

-----------------------------------------------------------------------------
(* Chunks of pieces, by their bytes.                                       *)

(* A final state survives any bytes.                                       *)
LEMMA FinalStays ==
  ASSUME NEW h, h.state \in {"Complete", "Error", "Thrown"}, NEW bytes \in Seq(Int)
  PROVE  Http!ParseBytes(h, bytes) = h
<1>1. PICK n \in Nat : n = Len(bytes)
  OBVIOUS
<1>2. PICK after : Run(h, bytes, after) /\ Http!ParseBytes(h, bytes) = after[n]
  BY <1>1, ParseRun
<1> DEFINE T == {i \in 0..n : after[i] # h}
<1>3. T = {}
  <2> SUFFICES ASSUME T # {} PROVE FALSE
    OBVIOUS
  <2>1. PICK i \in T : \A j \in T : i <= j
    <3>1. T \subseteq Nat
      OBVIOUS
    <3> HIDE DEF T
    <3> QED
      BY <3>1, LeastNumber
  <2>2. i # 0
    BY <1>2, <2>1 DEF Run
  <2>3. i-1 \in 0..n /\ i-1 \notin T /\ i \in 1..n
    BY <2>1, <2>2
  <2>4. after[i] = Http!Byte(after[i-1], bytes[i]) /\ after[i-1] = h
    BY <1>1, <1>2, <2>3 DEF Run
  <2> QED
    BY <2>1, <2>4, FinalByte
<1>4. n \in 0..n
  OBVIOUS
<1> QED
  BY <1>2, <1>3, <1>4

\* The parsers after the first n pieces.
Chunked(hs, chunk, n, after) ==
  after = [i \in 0..n |-> IF i = 0 THEN hs ELSE AfterPiece(after[i-1], chunk[i])]

(* They exist ...                                                          *)
LEMMA ChunkedExist ==
  ASSUME NEW hs, NEW chunk
  PROVE  \A n \in Nat : \E after : Chunked(hs, chunk, n, after)
<1> DEFINE T == {n \in Nat : ~ \E after : Chunked(hs, chunk, n, after)}
<1> SUFFICES ASSUME T # {} PROVE FALSE
  OBVIOUS
<1>1. PICK n \in T : \A m \in T : n <= m
  <2>1. T \subseteq Nat
    OBVIOUS
  <2> HIDE DEF T
  <2> QED
    BY <2>1, LeastNumber
<1>2. CASE n = 0
  <2>1. Chunked(hs, chunk, 0, [i \in 0..0 |-> hs])
    BY DEF Chunked
  <2> QED
    BY <1>2, <2>1
<1>3. CASE n # 0
  <2>1. n-1 \in Nat /\ n-1 \notin T
    BY <1>1, <1>3
  <2>2. PICK after : Chunked(hs, chunk, n-1, after)
    BY <2>1
  <2> DEFINE next == [i \in 0..n |-> IF i = 0 THEN hs ELSE AfterPiece(after[i-1], chunk[i])]
  <2>3. \A i \in 0..n-1 : next[i] = after[i]
    BY <2>2 DEF Chunked
  <2>4. \A i \in 0..n : i # 0 => i-1 \in 0..n-1 /\ next[i-1] = after[i-1]
    <3>1. \A i \in 0..n : i # 0 => i-1 \in 0..n-1
      BY <2>1
    <3> HIDE DEF next
    <3> QED
      BY <2>3, <3>1
  <2>5. next = [i \in 0..n |-> IF i = 0 THEN hs ELSE AfterPiece(next[i-1], chunk[i])]
    BY <2>4
  <2>6. Chunked(hs, chunk, n, next)
    BY <2>5 DEF Chunked
  <2> QED
    BY <2>6
<1> QED
  BY <1>2, <1>3

\* after[i] holds the parsers after i pieces.
ChunkRun(hs, chunk, after) ==
  /\ after[0] = hs
  /\ \A i \in 1..Len(chunk) : after[i] = AfterPiece(after[i-1], chunk[i])

(* ... and the last ones are Parses.                                       *)
LEMMA ParsesRun ==
  ASSUME NEW hs, NEW chunk, Len(chunk) \in Nat
  PROVE  \E after : ChunkRun(hs, chunk, after) /\ Parses(hs, chunk) = after[Len(chunk)]
<1> DEFINE after == CHOOSE a : Chunked(hs, chunk, Len(chunk), a)
<1>1. Chunked(hs, chunk, Len(chunk), after)
  BY ChunkedExist
<1>2. Parses(hs, chunk) = after[Len(chunk)]
  BY DEF Parses, Chunked
<1> HIDE DEF after
<1>3. ChunkRun(hs, chunk, after)
  BY <1>1 DEF ChunkRun, Chunked
<1> QED
  BY <1>2, <1>3

(* A chunk of one piece, and of two.                                       *)
LEMMA ParsesOne ==
  ASSUME NEW hs, NEW x
  PROVE  Parses(hs, <<x>>) = AfterPiece(hs, x)
<1>1. PICK chunk : chunk = <<x>>
  OBVIOUS
<1>2. Len(chunk) = 1 /\ Len(chunk) \in Nat /\ chunk[1] = x
  BY <1>1
<1>3. PICK after : ChunkRun(hs, chunk, after) /\ Parses(hs, chunk) = after[Len(chunk)]
  BY <1>2, ParsesRun
<1>4. after[0] = hs /\ after[1] = AfterPiece(after[0], x)
  BY <1>2, <1>3 DEF ChunkRun
<1> QED
  BY <1>1, <1>2, <1>3, <1>4

(* A chunk of two pieces.                                                  *)
LEMMA ParsesTwo ==
  ASSUME NEW hs, NEW x, NEW y
  PROVE  Parses(hs, <<x, y>>) = AfterPiece(AfterPiece(hs, x), y)
<1>1. PICK chunk : chunk = <<x, y>>
  OBVIOUS
<1>2. Len(chunk) = 2 /\ Len(chunk) \in Nat /\ chunk[1] = x /\ chunk[2] = y
  BY <1>1
<1>3. PICK after : ChunkRun(hs, chunk, after) /\ Parses(hs, chunk) = after[Len(chunk)]
  BY <1>2, ParsesRun
<1>4. after[0] = hs /\ after[1] = AfterPiece(after[0], x) /\ after[2] = AfterPiece(after[1], y)
  BY <1>2, <1>3 DEF ChunkRun
<1> QED
  BY <1>1, <1>2, <1>3, <1>4

\* What becomes of a rendering of a piece after a head.
Rendered(piece, bytes) ==
  \E end : EndsIn(bytes, end) /\ Outcomes(end) = Outcome(piece)

(* Members of a parser with a body.                                        *)
LEMMA Members ==
  ASSUME NEW state, NEW token, NEW key, NEW length, NEW read, NEW body
  PROVE  /\ ParserAt(state, token, key, length, read, body).state = state
         /\ ParserAt(state, token, key, length, read, body).body = body
BY DEF ParserAt

(* A head leads to one parser.                                             *)
LEMMA HeadParses == Parses({Constructed}, <<"head">>) = {AfterHead}
<1>1. Parses({Constructed}, <<"head">>) = AfterPiece({Constructed}, "head")
  BY ParsesOne
<1>2. RequestLine \in Renderings("head")
  BY DEF Renderings
<1>3. AfterPiece({Constructed}, "head") = {AfterHead}
  BY <1>2, HeadRendered DEF AfterPiece
<1> QED
  BY <1>1, <1>3

(* Outcomes of the states that end a request.                              *)
LEMMA FinalOutcomes ==
  ASSUME NEW h
  PROVE  /\ h.state = "Complete" /\ ~ Codec!Malformed(h.body) => Outcomes(h) = "complete"
         /\ h.state = "Complete" /\ Codec!Malformed(h.body) => Outcomes(h) = "completeBad"
         /\ h.state = "Error" => Outcomes(h) = "error"
         /\ h.state = "Thrown" => Outcomes(h) = "throws"
<1>1. h = Constructed => h.state = "Method"
  BY DEF Constructed, Http!ResetParser
<1>2. h \in Parses({Constructed}, <<"head">>) => h.state = "HeaderKey"
  BY HeadParses, HeadState DEF AfterHead
<1>3. CASE h.state = "Complete"
  BY <1>1, <1>2, <1>3 DEF Outcomes
<1>4. CASE h.state = "Error"
  BY <1>1, <1>2, <1>4 DEF Outcomes
<1>5. CASE h.state = "Thrown"
  BY <1>1, <1>2, <1>5 DEF Outcomes
<1> QED
  BY <1>3, <1>4, <1>5

(* The pieces after a head, in every rendering.                            *)
LEMMA LastRendered ==
  ASSUME NEW p \in Packets
  PROVE  /\ Rendered("last", Framed(Codec!Serialize(p)))
         /\ Codec!Deserialize(Http!ParseBytes(AfterHead, Framed(Codec!Serialize(p))).body) = p
<1>1. PICK body : body = Codec!Serialize(p)
  OBVIOUS
<1>2. /\ body \in ByteSeq /\ Len(body) <= BodyLimit
      /\ ~ Codec!Malformed(body) /\ Codec!Deserialize(body) = p
  BY <1>1, PacketRoundTrip
<1>3. PICK end : end = ParserAt("Complete", <<>>, <<>>, Len(body), Len(body), body)
  OBVIOUS
<1>4. EndsIn(Framed(body), end)
  BY <1>2, <1>3, FramedEnds
<1>5. end.state = "Complete" /\ end.body = body
  BY <1>3, Members
<1>6. Outcomes(end) = "complete"
  BY <1>2, <1>5, FinalOutcomes
<1>7. Rendered("last", Framed(body))
  BY <1>4, <1>6 DEF Rendered, Outcome
<1>8. Http!ParseBytes(AfterHead, Framed(body)) = end
  BY <1>4 DEF EndsIn
<1> QED
  BY <1>1, <1>2, <1>5, <1>7, <1>8

(* A request whose body deserialize() rejects.                             *)
LEMMA BadRendered ==
  ASSUME NEW bytes \in Renderings("bad")
  PROVE  Rendered("bad", bytes)
<1>1. CASE bytes = BlankLine
  <2>1. PICK end : end = InHead("Complete", <<>>, <<>>, 0)
    OBVIOUS
  <2>2. end.state = "Complete" /\ end.body = <<>>
    BY <2>1, Members DEF InHead
  <2>3. Codec!Malformed(end.body)
    BY <2>2 DEF Codec!Malformed, Codec!HeaderSize
  <2>4. Outcomes(end) = "completeBad"
    BY <2>2, <2>3, FinalOutcomes
  <2> QED
    BY <1>1, <2>1, <2>4, BlankEnds DEF Rendered, Outcome
<1>2. CASE \E body \in BadBodies : bytes = Framed(body)
  <2>1. PICK body \in BadBodies : bytes = Framed(body)
    BY <1>2
  <2>2. body \in ByteSeq /\ Len(body) <= BodyLimit /\ Codec!Malformed(body)
    BY ParsingFacts DEF BadBodies
  <2>3. PICK end : end = ParserAt("Complete", <<>>, <<>>, Len(body), Len(body), body)
    OBVIOUS
  <2>4. EndsIn(bytes, end)
    BY <2>1, <2>2, <2>3, FramedEnds
  <2>5. end.state = "Complete" /\ end.body = body
    BY <2>3, Members
  <2>6. Outcomes(end) = "completeBad"
    BY <2>2, <2>5, FinalOutcomes
  <2> QED
    BY <2>4, <2>6 DEF Rendered, Outcome
<1> QED
  BY <1>1, <1>2 DEF Renderings

(* A malformed header, and a body that cannot be reserved.                 *)
LEMMA OthersRendered ==
  ASSUME NEW piece \in {"junk", "huge"}, NEW bytes \in Renderings(piece)
  PROVE  Rendered(piece, bytes)
<1>1. CASE piece = "junk"
  <2>1. PICK end : end.state = "Error" /\ EndsIn(bytes, end)
    BY <1>1, JunkEnds DEF EndsInError
  <2>2. Outcomes(end) = "error"
    BY <2>1, FinalOutcomes
  <2> QED
    BY <1>1, <2>1, <2>2 DEF Rendered, Outcome
<1>2. CASE piece = "huge"
  <2>1. bytes = ContentLength(BodyLimit + 1) \o BlankLine
    BY <1>2 DEF Renderings
  <2>2. PICK end : end = InHead("Thrown", <<>>, <<>>, BodyLimit + 1)
    OBVIOUS
  <2>3. end.state = "Thrown"
    BY <2>2, HeadState
  <2>4. Outcomes(end) = "throws"
    BY <2>3, FinalOutcomes
  <2> QED
    BY <1>2, <2>1, <2>2, <2>4, HugeEnds DEF Rendered, Outcome
<1> QED
  BY <1>1, <1>2

(* Every piece that can follow a head.                                     *)
LEMMA PieceRendered ==
  ASSUME NEW piece \in {"last", "bad", "junk", "huge"}, NEW bytes \in Renderings(piece)
  PROVE  Rendered(piece, bytes)
<1>1. CASE piece = "last"
  <2>1. PICK p \in Packets : bytes = Framed(Codec!Serialize(p))
    BY <1>1 DEF Renderings
  <2> QED
    BY <1>1, <2>1, LastRendered
<1> QED
  BY <1>1, BadRendered, OthersRendered

-----------------------------------------------------------------------------
(* What a handler can meet, by its bytes.                                  *)

(* The parsers CoreEngine's states stand for.                              *)
LEMMA ConcreteStates ==
  /\ Concrete["start"] = {Constructed}
  /\ Concrete["partial"] = {AfterHead}
  /\ Concrete["error"] = AfterPiece({AfterHead}, "junk")
<1> DEFINE start == {Constructed}
                      \union {Http!ResetParser(h) : h \in Parses({Constructed}, <<"head", "last">>)}
           partial == Parses(start, <<"head">>)
           error == Parses(partial, <<"junk">>)
<1>1. Concrete = [state \in {"start", "partial", "error"} |->
                    CASE state = "start"   -> start
                      [] state = "partial" -> partial
                      [] state = "error"   -> error]
  BY DEF Concrete
<1>2. start = {Constructed}
  BY DEF Constructed, Http!ResetParser
<1>3. partial = {AfterHead}
  BY <1>2, HeadParses
<1>4. error = AfterPiece({AfterHead}, "junk")
  BY <1>3, ParsesOne
<1> HIDE DEF start, partial, error
<1> QED
  BY <1>1, <1>2, <1>3, <1>4

EndPieces == {"last", "bad", "junk", "huge"}

(* What a piece makes of the parser after a head.                          *)
LEMMA PieceOutcome ==
  ASSUME NEW piece \in EndPieces
  PROVE  /\ \A h \in AfterPiece({AfterHead}, piece) : Outcomes(h) = Outcome(piece)
         /\ piece = "last" =>
              {Codec!Deserialize(h.body) : h \in AfterPiece({AfterHead}, piece)} = Packets
<1>1. ASSUME NEW h \in AfterPiece({AfterHead}, piece) PROVE Outcomes(h) = Outcome(piece)
  <2>1. PICK bytes \in Renderings(piece) : h = Http!ParseBytes(AfterHead, bytes)
    BY DEF AfterPiece
  <2>2. Rendered(piece, bytes)
    BY PieceRendered DEF EndPieces
  <2> QED
    BY <2>1, <2>2 DEF Rendered, EndsIn
<1>2. CASE piece = "last"
  <2> DEFINE D == {Codec!Deserialize(h.body) : h \in AfterPiece({AfterHead}, piece)}
             Of(p) == Http!ParseBytes(AfterHead, Framed(Codec!Serialize(p)))
  <2>1. Renderings(piece) = {Framed(Codec!Serialize(p)) : p \in Packets}
    BY <1>2 DEF Renderings
  <2>2. AfterPiece({AfterHead}, piece) = {Of(p) : p \in Packets}
    BY <2>1 DEF AfterPiece
  <2>3. \A p \in Packets : Codec!Deserialize(Of(p).body) = p
    BY LastRendered
  <2> HIDE DEF Of
  <2>4. D = Packets
    <3>1. D \subseteq Packets
      BY <2>2, <2>3
    <3>2. Packets \subseteq D
      BY <2>2, <2>3
    <3> QED
      BY <3>1, <3>2
  <2> QED
    BY <1>1, <2>4
<1> QED
  BY <1>1, <1>2

(* The chunks of the states a handler can meet.                            *)
LEMMA StartHeadAgrees == ChunkAgrees("start", <<"head">>)
<1>1. ParseChunk("start", <<"head">>) = "partial"
  BY ParseHead
<1>2. Parses(Concrete["start"], <<"head">>) = {AfterHead}
  BY ConcreteStates, HeadParses
<1>3. Outcomes(AfterHead) = "partial"
  <2>1. AfterHead.state = "HeaderKey"
    BY HeadState DEF AfterHead
  <2>2. AfterHead # Constructed
    BY <2>1 DEF Constructed, Http!ResetParser
  <2> QED
    BY <2>1, <2>2, HeadParses DEF Outcomes
<1> QED
  BY <1>1, <1>2, <1>3 DEF ChunkAgrees

(* A whole request in one chunk.                                           *)
LEMMA StartWholeAgrees ==
  ASSUME NEW x \in LastPieces
  PROVE  ChunkAgrees("start", <<"head", x>>)
<1>1. ParseChunk("start", <<"head", x>>) = Outcome(x)
  BY ParseWhole
<1>2. Parses(Concrete["start"], <<"head", x>>) = AfterPiece({AfterHead}, x)
  <2>1. AfterPiece({Constructed}, "head") = {AfterHead}
    BY HeadParses, ParsesOne
  <2> QED
    BY <2>1, ConcreteStates, ParsesTwo
<1>3. x \in EndPieces /\ (Outcome(x) = "complete" => x = "last")
  BY DEF EndPieces, LastPieces, Outcome
<1> QED
  BY <1>1, <1>2, <1>3, PieceOutcome DEF ChunkAgrees

(* The rest of a request, or junk.                                         *)
LEMMA PartialAgrees ==
  ASSUME NEW x \in EndPieces
  PROVE  ChunkAgrees("partial", <<x>>)
<1>1. ParseChunk("partial", <<x>>) = Outcome(x)
  BY ParseLast DEF EndPieces
<1>2. Parses(Concrete["partial"], <<x>>) = AfterPiece({AfterHead}, x)
  BY ConcreteStates, ParsesOne
<1>3. Outcome(x) = "complete" => x = "last"
  BY DEF EndPieces, Outcome
<1> QED
  BY <1>1, <1>2, <1>3, PieceOutcome DEF ChunkAgrees

(* What the parser makes of junk is final.                                 *)
LEMMA JunkParsers ==
  ASSUME NEW h \in AfterPiece({AfterHead}, "junk")
  PROVE  h.state = "Error"
<1>1. PICK bytes \in Renderings("junk") : h = Http!ParseBytes(AfterHead, bytes)
  BY DEF AfterPiece
<1> QED
  BY <1>1, JunkEnds DEF EndsInError, EndsIn

\* Every parser of hs has met a malformed header.
AllError(hs) == \A h \in hs : h.state = "Error"

(* Renderings are sequences of bytes.                                      *)
LEMMA RenderingType ==
  ASSUME NEW piece \in Pieces, NEW bytes \in Renderings(piece)
  PROVE  bytes \in Seq(Int)
<1>1. CASE piece = "head"
  <2>1. PICK s, t : s = RequestLine /\ t = HeaderLine(Http!WORD, Http!WORD)
    OBVIOUS
  <2>2. s \in Seq(Int) /\ t \in Seq(Int)
    BY <2>1 DEF RequestLine, HeaderLine, Http!WORD, Http!SP, Http!CR, Http!LF, Http!COLON
  <2>3. s \o t \in Seq(Int)
    BY <2>2, ConcatProperties
  <2>4. bytes \in {s, s \o t}
    BY <1>1, <2>1 DEF Renderings
  <2> QED
    BY <2>2, <2>3, <2>4
<1>2. CASE piece # "head"
  <2>1. piece \in {"last", "bad", "junk", "huge"}
    BY <1>2 DEF Pieces
  <2>2. Rendered(piece, bytes)
    BY <2>1, PieceRendered
  <2> QED
    BY <2>2 DEF Rendered, EndsIn
<1> QED
  BY <1>1, <1>2

(* The error state survives any piece.                                     *)
LEMMA ErrorStays ==
  ASSUME NEW hs, AllError(hs), NEW piece \in Pieces
  PROVE  AllError(AfterPiece(hs, piece))
<1> SUFFICES ASSUME NEW h \in AfterPiece(hs, piece) PROVE h.state = "Error"
  BY DEF AllError
<1>1. PICK g \in hs, bytes \in Renderings(piece) : h = Http!ParseBytes(g, bytes)
  BY DEF AfterPiece
<1>2. bytes \in Seq(Int) /\ g.state = "Error"
  BY RenderingType DEF AllError
<1> QED
  BY <1>1, <1>2, FinalStays

(* Junk, and the rest of the request behind it.                            *)
LEMMA PartialJunkAgrees ==
  ASSUME NEW x \in LastPieces
  PROVE  ChunkAgrees("partial", <<"junk", x>>)
<1>1. ParseChunk("partial", <<"junk", x>>) = "error"
  BY ParseJunk
<1>2. Parses(Concrete["partial"], <<"junk", x>>) = AfterPiece(AfterPiece({AfterHead}, "junk"), x)
  BY ConcreteStates, ParsesTwo
<1>3. AllError(AfterPiece({AfterHead}, "junk"))
  BY JunkParsers DEF AllError
<1>4. x \in Pieces
  BY DEF LastPieces, Pieces
<1>5. AllError(Parses(Concrete["partial"], <<"junk", x>>))
  BY <1>2, <1>3, <1>4, ErrorStays
<1> QED
  BY <1>1, <1>5, FinalOutcomes DEF ChunkAgrees, AllError

(* Any chunk on a connection in the error state.                           *)
LEMMA ErrorAgrees ==
  ASSUME NEW chunk \in Seq(Pieces)
  PROVE  ChunkAgrees("error", chunk)
<1>1. ParseChunk("error", chunk) = "error"
  BY ParseType
<1>2. PICK n \in Nat : n = Len(chunk)
  OBVIOUS
<1>3. PICK hs : hs = Concrete["error"] /\ AllError(hs)
  BY ConcreteStates, JunkParsers DEF AllError
<1>4. PICK after : ChunkRun(hs, chunk, after) /\ Parses(hs, chunk) = after[n]
  BY <1>2, ParsesRun
<1> DEFINE T == {i \in 0..n : ~ AllError(after[i])}
<1>5. T = {}
  <2> SUFFICES ASSUME T # {} PROVE FALSE
    OBVIOUS
  <2>1. PICK i \in T : \A j \in T : i <= j
    <3>1. T \subseteq Nat
      OBVIOUS
    <3> HIDE DEF T
    <3> QED
      BY <3>1, LeastNumber
  <2>2. i # 0
    BY <1>3, <1>4, <2>1 DEF ChunkRun
  <2>3. i-1 \in 0..n /\ i-1 \notin T /\ i \in 1..n
    BY <2>1, <2>2
  <2>4. after[i] = AfterPiece(after[i-1], chunk[i]) /\ AllError(after[i-1])
    BY <1>2, <1>4, <2>3 DEF ChunkRun
  <2>5. chunk[i] \in Pieces
    BY <1>2, <2>3, ElementOfSeq
  <2> QED
    BY <2>1, <2>4, <2>5, ErrorStays
<1>6. n \in 0..n
  OBVIOUS
<1>7. AllError(Parses(hs, chunk))
  BY <1>4, <1>5, <1>6
<1> QED
  BY <1>1, <1>3, <1>7, FinalOutcomes DEF ChunkAgrees, AllError

(* Pieces complete a request only at their last byte.                      *)
LEMMA Indivisible == PiecesIndivisible
<1> SUFFICES ASSUME NEW piece \in {"last", "bad", "junk", "huge"},
                    NEW bytes \in Renderings(piece), NEW h \in Concrete["partial"],
                    NEW k \in 0..Len(bytes) - 1
             PROVE  Http!ParseBytes(h, SubSeq(bytes, 1, k)).state # "Complete"
  BY DEF PiecesIndivisible
<1>1. h = AfterHead
  BY ConcreteStates
<1>2. Rendered(piece, bytes)
  BY PieceRendered
<1> QED
  BY <1>1, <1>2 DEF Rendered, EndsIn

-----------------------------------------------------------------------------
(* What can be unread, also after a reset.                                 *)

\* What can be unread when the parser of a paced client's connection is in st:
\* InStep without its counts, so that it survives the client's reset.
Shape(w, st) ==
  \/ st = "error"
  \/ /\ st \in {"start", "complete"}
     /\ w \in {<<>>, <<"head">>} \/ \E x \in LastPieces : w = <<"head", x>>
  \/ /\ st = "partial"
     /\ w \in {<<>>, <<"junk">>} \/ \E x \in LastPieces : w \in {<<x>>, <<"junk", x>>}

WiresInShape ==
  dpc # "exited" =>
    /\ \A c \in Conns : peer[c] = "new" \/ c \in backlog => Shape(wire[c], "start")
    /\ \A fd \in Active : Shape(wire[sock[fd]], parser[fd])

\* What the parser's state can be after a chunk, the result of which is given.
Follows(result) ==
  CASE result \in {"partial", "error"} -> {result}
    [] result \in {"complete", "completeBad"} -> {"start", "complete"}
    [] OTHER -> {}

(* One chunk of what can be unread: the bytes agree with the pieces, and   *)
(* what is left can again be unread.                                       *)
LEMMA ShapeChunk ==
  ASSUME NEW w \in Seq(Pieces), NEW st \in {"start", "partial", "error"}, Shape(w, st),
         NEW n \in 1..Len(w)
  PROVE  /\ ChunkAgrees(st, SubSeq(w, 1, n))
         /\ \A next \in Follows(ParseChunk(st, SubSeq(w, 1, n))) :
              Shape(SubSeq(w, n + 1, Len(w)), next)
         /\ ParseChunk(st, SubSeq(w, 1, n)) # "start"
<1> DEFINE chunk == SubSeq(w, 1, n)
           rest == SubSeq(w, n + 1, Len(w))
           Goal == /\ ChunkAgrees(st, chunk)
                   /\ \A next \in Follows(ParseChunk(st, chunk)) : Shape(rest, next)
                   /\ ParseChunk(st, chunk) # "start"
<1>0. \A x \in LastPieces : x \in Pieces /\ x \in {"last", "bad", "huge", "junk"} /\ x \in EndPieces
  BY DEF LastPieces, Pieces, EndPieces
<1>e. Len(<<>>) = 0
  OBVIOUS
<1>1. ASSUME st = "error" PROVE Goal
  <2>1. chunk \in Seq(Pieces)
    BY ElementOfSeq, SubSeqProperties
  <2>2. ParseChunk(st, chunk) = "error"
    BY <1>1, ParseType
  <2> HIDE DEF chunk, rest
  <2>3. Goal
    BY <1>1, <2>1, <2>2, ErrorAgrees DEF Follows, Shape
  <2> QED
    BY <2>3 DEF chunk, rest
<1>2. ASSUME st = "start", w = <<"head">> PROVE Goal
  <2>1. "head" \in Pieces
    BY DEF Pieces
  <2>2. n = 1 /\ chunk = <<"head">> /\ rest = <<>>
    BY <1>2, <2>1, SplitOne
  <2> HIDE DEF chunk, rest
  <2>3. Goal
    BY <1>2, <2>2, ParseHead, StartHeadAgrees DEF Follows, Shape
  <2> QED
    BY <2>3 DEF chunk, rest
<1>3. ASSUME st = "start", NEW x \in LastPieces, w = <<"head", x>> PROVE Goal
  <2>1. "head" \in Pieces /\ x \in Pieces
    BY <1>0 DEF Pieces
  <2>2. CASE n = 1
    <3>1. chunk = <<"head">> /\ rest = <<x>>
      BY <1>3, <2>1, <2>2, SplitTwo
    <3> HIDE DEF chunk, rest
    <3> QED
      BY <1>3, <3>1, ParseHead, StartHeadAgrees DEF Follows, Shape
  <2>3. CASE n = 2
    <3>1. chunk = <<"head", x>> /\ rest = <<>>
      BY <1>3, <2>1, <2>3, SplitTwo
    <3> HIDE DEF chunk, rest
    <3>2. ParseChunk(st, chunk) = Outcome(x) /\ ChunkAgrees(st, chunk)
      BY <1>3, <3>1, ParseWhole, StartWholeAgrees
    <3>3. Follows(Outcome(x)) \subseteq {"start", "complete"} /\ Outcome(x) # "start"
      BY DEF Follows, Outcome, LastPieces
    <3> QED
      BY <3>1, <3>2, <3>3 DEF Shape
  <2>4. Len(w) = 2
    BY <1>3, <2>1, SplitTwo
  <2> HIDE DEF Goal
  <2> QED
    BY <2>2, <2>3, <2>4
<1>4. ASSUME st = "partial", NEW x \in EndPieces, w = <<x>> PROVE Goal
  <2>1. x \in Pieces
    BY DEF Pieces, EndPieces
  <2>2. n = 1 /\ chunk = <<x>> /\ rest = <<>>
    BY <1>4, <2>1, SplitOne
  <2> HIDE DEF chunk, rest
  <2>3. ParseChunk(st, chunk) = Outcome(x) /\ ChunkAgrees(st, chunk)
    BY <1>4, <2>2, ParseLast, PartialAgrees DEF EndPieces
  <2>4. Follows(Outcome(x)) \subseteq {"start", "complete", "error"} /\ Outcome(x) # "start"
    BY DEF Follows, Outcome, EndPieces
  <2> QED
    BY <2>2, <2>3, <2>4 DEF Shape
<1>5. ASSUME st = "partial", NEW x \in LastPieces, w = <<"junk", x>> PROVE Goal
  <2>1. "junk" \in Pieces /\ x \in Pieces /\ "junk" \in EndPieces
    BY <1>0 DEF Pieces, EndPieces
  <2>2. CASE n = 1
    <3>1. chunk = <<"junk">>
      BY <1>5, <2>1, <2>2, SplitTwo
    <3> HIDE DEF chunk, rest
    <3>2. ParseChunk(st, chunk) = "error" /\ ChunkAgrees(st, chunk)
      BY <1>5, <2>1, <3>1, ParseLast, PartialAgrees DEF Outcome
    <3> QED
      BY <3>2 DEF Follows, Shape
  <2>3. CASE n = 2
    <3>1. chunk = <<"junk", x>>
      BY <1>5, <2>1, <2>3, SplitTwo
    <3> HIDE DEF chunk, rest
    <3>2. ParseChunk(st, chunk) = "error" /\ ChunkAgrees(st, chunk)
      BY <1>5, <3>1, ParseJunk, PartialJunkAgrees
    <3> QED
      BY <3>2 DEF Follows, Shape
  <2>4. Len(w) = 2
    BY <1>5, <2>1, SplitTwo
  <2> HIDE DEF Goal
  <2> QED
    BY <2>2, <2>3, <2>4
<1>6. w # <<>>
  BY <1>e
<1>7. \A x \in LastPieces : x \in EndPieces
  BY <1>0
<1>8. "junk" \in EndPieces
  BY DEF EndPieces
<1> HIDE DEF Goal
<1>9. Goal
  <2>1. CASE st = "start"
    <3>1. w = <<"head">> \/ \E x \in LastPieces : w = <<"head", x>>
      BY <1>6, <2>1 DEF Shape
    <3>2. CASE w = <<"head">>
      BY <1>2, <2>1, <3>2
    <3>3. CASE \E x \in LastPieces : w = <<"head", x>>
      <4>1. PICK x \in LastPieces : w = <<"head", x>>
        BY <3>3
      <4> QED
        BY <1>3, <2>1, <4>1
    <3> QED
      BY <3>1, <3>2, <3>3
  <2>2. CASE st = "partial"
    <3>1. w = <<"junk">> \/ \E x \in LastPieces : w = <<x>> \/ w = <<"junk", x>>
      BY <1>6, <2>2 DEF Shape
    <3>2. (\E x \in EndPieces : w = <<x>>) \/ \E x \in LastPieces : w = <<"junk", x>>
      BY <1>7, <1>8, <3>1
    <3> QED
      BY <1>4, <1>5, <2>2, <3>2
  <2>3. st = "error" \/ st = "start" \/ st = "partial"
    OBVIOUS
  <2> QED
    BY <1>1, <2>1, <2>2, <2>3
<1> QED
  BY <1>9 DEF Goal

(* InStep, and nothing unread, have the shape.                             *)
LEMMA InStepShape ==
  ASSUME NEW c, NEW st, InStep(c, st)
  PROVE  Shape(wire[c], st)
BY DEF InStep, Shape

(* Discarding what is unread keeps the shape.                              *)
LEMMA EmptyShape ==
  ASSUME NEW w, NEW st, Shape(w, st)
  PROVE  Shape(<<>>, st)
BY DEF Shape

(* A chunk leaves a shape of its connection.                               *)
LEMMA DataShape ==
  ASSUME DaemonInv, WiresInShape, ReceiveData, dpc' # "exited"
  PROVE  Shape(wire'[sock[cur]], parser'[cur])
<1>1. /\ TypeOK /\ dpc = "receive" /\ cur \in Active /\ cur \in Fds /\ sock[cur] \in Conns
      /\ parser[cur] \in {"start", "partial", "error"}
  BY TypeParts DEF ReceiveData, DaemonInv, EventsHold, TablesAgree, Active, CleanBetween
<1>2. PICK w, st : w = wire[sock[cur]] /\ st = parser[cur]
  OBVIOUS
<1>3. w \in Seq(Pieces) /\ Shape(w, st)
  BY <1>1, <1>2, TypeParts DEF WiresInShape
<1>4. PICK n \in 1..Len(w) :
        /\ Received(SubSeq(w, 1, n))
        /\ wire' = [wire EXCEPT ![sock[cur]] = SubSeq(w, n + 1, Len(w))]
  BY <1>2 DEF ReceiveData
<1>5. wire'[sock[cur]] = SubSeq(w, n + 1, Len(w))
  BY <1>1, <1>4, TypeParts
<1>6. PICK result : result = ParseChunk(st, SubSeq(w, 1, n))
  OBVIOUS
<1>7. /\ result \in {"start", "partial", "complete", "completeBad", "error", "throws"}
      /\ Handle(result, Dropped(result), 0)
  <2>1. Handle(result, Dropped(result), 0)
    BY <1>2, <1>4, <1>6 DEF Received
  <2>2. st \in {"start", "partial", "complete", "error"}
    BY <1>1, <1>2
  <2> QED
    BY <1>6, <2>1, <2>2, ParseType
<1>8. result # "start"
  BY <1>1, <1>2, <1>3, <1>6, ShapeChunk
<1>9. parser'[cur] \in Follows(result)
  BY <1>1, <1>7, <1>8, HandleEffect DEF Follows
<1> QED
  BY <1>1, <1>2, <1>3, <1>4, <1>5, <1>6, <1>9, ShapeChunk

(* Every step of a paced client or of the daemon keeps the shapes.         *)
LEMMA ShapesStep ==
  ASSUME DaemonInv, WiresInShape, RequestsInStep', Paced, [Next]_vars
  PROVE  WiresInShape'
<1> SUFFICES ASSUME dpc' # "exited" PROVE WiresInShape'
  BY DEF WiresInShape
<1>0. dpc # "exited"
  BY DEF Next, LoopStep, vars, daemon, Exited, Poll, PollTimeout, Dispatch, BatchDone, AcceptOne,
         AcceptFails, AcceptDone, ReceiveData, ReceiveNothing, ReceiveReset, PublishReturns
<1>1. /\ TypeOK
      /\ \A fd \in Active : sock[fd] \in Conns /\ fd \in Fds /\ sock[fd] \notin backlog
                            /\ peer[sock[fd]] # "new"
      /\ \A f, g \in Active : sock[f] = sock[g] => f = g
      /\ Active = {fd \in Fds : sock[fd] # NoConn}
  <2>1. TypeOK /\ TablesAgree /\ Unconnected
    BY DEF DaemonInv
  <2>2. \A fd \in Active : fd \in Fds /\ sock[fd] \in Conns
    BY <1>0, <2>1, TypeParts DEF TablesAgree, Active
  <2> QED
    BY <1>0, <2>1, <2>2 DEF TablesAgree, Unconnected
<1>2. /\ \A c \in Conns : peer[c] = "new" \/ c \in backlog => Shape(wire[c], "start")
      /\ \A fd \in Active : Shape(wire[sock[fd]], parser[fd])
  BY <1>0 DEF WiresInShape
<1>3. CASE UNCHANGED <<backlog, sock, wire, peer, parser>>
  <2>1. Active' = Active
    BY <1>3 DEF Active
  <2> QED
    BY <1>2, <1>3, <2>1 DEF WiresInShape
<1>4. ASSUME NEW c \in Conns, Client(c)
      PROVE  WiresInShape'
  <2>1. /\ \A x \in Conns : x # c => Same(x) /\ peer'[x] = peer[x]
        /\ \A x \in Conns : peer'[x] = "new" \/ x \in backlog' => peer[x] = "new" \/ x \in backlog
        /\ UNCHANGED <<sock, parser, dpc>>
    BY <1>1, <1>4, ClientFrame
  <2>2. ASSUME NEW x \in Conns, NEW st, Shape(wire[x], st), InStep(x, st)' \/ peer'[x] = "reset"
        PROVE  Shape(wire'[x], st)
    <3>1. CASE InStep(x, st)'
      BY <3>1 DEF InStep, Shape
    <3>2. CASE peer'[x] = "reset" /\ x # c
      BY <2>1, <2>2, <3>2 DEF Same
    <3>3. CASE peer'[x] = "reset" /\ x = c
      <4>1. Reset(c)
        BY <1>1, <1>4, <3>3, TypeParts
           DEF Client, Connect, SendHead, SendLast, SendJunk, Deliver, Close
      <4>2. wire'[x] \in {wire[x], <<>>}
        BY <1>1, <3>3, <4>1, TypeParts DEF Reset
      <4> QED
        BY <2>2, <4>2, EmptyShape
    <3> QED
      BY <2>2, <3>1, <3>2, <3>3
  <2>3. ASSUME NEW x \in Conns, peer'[x] = "new" \/ x \in backlog'
        PROVE  Shape(wire'[x], "start")
    <3>1. Shape(wire[x], "start")
      BY <1>2, <2>1, <2>3
    <3>2. InStep(x, "start")' \/ peer'[x] = "reset"
      BY <2>3 DEF RequestsInStep
    <3> QED
      BY <2>2, <3>1, <3>2
  <2>4. ASSUME NEW fd \in Active PROVE Shape(wire'[sock[fd]], parser[fd])
    <3>1. PICK x, st : x \in Conns /\ x = sock[fd] /\ st = parser[fd]
      BY <1>1
    <3>2. Shape(wire[x], st)
      BY <1>2, <3>1
    <3>3. fd \in Active'
      BY <2>1 DEF Active
    <3>4. InStep(x, st)' \/ peer'[x] = "reset"
      BY <2>1, <3>1, <3>3 DEF RequestsInStep, InStep
    <3> QED
      BY <2>2, <3>1, <3>2, <3>4
  <2>5. Active' = Active
    BY <2>1 DEF Active
  <2> QED
    BY <2>1, <2>3, <2>4, <2>5 DEF WiresInShape
<1>5. CASE AcceptOne
  <2>1. PICK c \in backlog, fd \in Free :
          /\ backlog' = backlog \ {c}
          /\ sock' = [sock EXCEPT ![fd] = c]
          /\ parser' = [parser EXCEPT ![fd] = "start"]
          /\ wire' = wire /\ peer' = peer
    BY <1>5 DEF AcceptOne
  <2>2. c \in Conns /\ fd \in Fds /\ Shape(wire[c], "start")
    BY <1>1, <1>2, <2>1, TypeParts DEF Free
  <2>3. ASSUME NEW f \in Active' PROVE Shape(wire[sock'[f]], parser'[f])
    <3>1. CASE f = fd
      BY <1>1, <2>1, <2>2, <3>1, TypeParts
    <3>2. CASE f # fd
      <4>1. f \in Active /\ sock'[f] = sock[f] /\ parser'[f] = parser[f]
        BY <1>1, <2>1, <2>2, <2>3, <3>2, TypeParts DEF Active
      <4> QED
        BY <1>2, <4>1
    <3> QED
      BY <3>1, <3>2
  <2> QED
    BY <1>2, <2>1, <2>3 DEF WiresInShape
<1>6. CASE ReceiveData \/ ReceiveNothing \/ PublishReturns
  <2>1. /\ cur \in Active /\ cur \in Fds /\ sock[cur] \in Conns
        /\ backlog' = backlog /\ peer' = peer /\ cur' = cur
    BY <1>0, <1>1, <1>6 DEF ReceiveData, ReceiveNothing, PublishReturns, DaemonInv, EventsHold, kernel
  <2>2. /\ \A x \in Conns : x # sock[cur] => wire'[x] = wire[x]
        /\ \A f \in Fds : f # cur => sock'[f] = sock[f] /\ parser'[f] = parser[f]
    <3>1. CASE ReceiveData
      <4>1. PICK n \in 1..Len(wire[sock[cur]]) :
              /\ Received(SubSeq(wire[sock[cur]], 1, n))
              /\ wire' = [wire EXCEPT ![sock[cur]] = SubSeq(@, n + 1, Len(@))]
        BY <3>1 DEF ReceiveData
      <4>2. \A f \in Fds : f # cur => parser'[f] = parser[f]
        BY <1>1, <2>1, <4>1, TypeParts DEF Received, Handle
      <4> QED
        BY <1>1, <2>1, <3>1, <4>1, <4>2, TypeParts DEF ReceiveData
    <3>2. CASE ReceiveNothing
      BY <1>1, <2>1, <3>2, TypeParts DEF ReceiveNothing
    <3>3. CASE PublishReturns
      BY <1>1, <2>1, <3>3, TypeParts DEF PublishReturns, kernel
    <3> QED
      BY <1>6, <3>1, <3>2, <3>3
  <2>3. ASSUME NEW x \in Conns, peer'[x] = "new" \/ x \in backlog'
        PROVE  Shape(wire'[x], "start")
    <3>1. x # sock[cur] /\ Shape(wire[x], "start")
      BY <1>1, <1>2, <2>1, <2>3
    <3> QED
      BY <2>2, <3>1
  <2>4. ASSUME NEW f \in Active', f # cur PROVE Shape(wire'[sock'[f]], parser'[f])
    <3>1. f \in Active /\ sock'[f] = sock[f] /\ parser'[f] = parser[f]
      BY <2>2, <2>4 DEF Active
    <3>2. sock[f] \in Conns /\ sock[f] # sock[cur]
      BY <1>1, <2>1, <2>4, <3>1
    <3> QED
      BY <1>2, <2>2, <3>1, <3>2
  <2>5. ASSUME cur \in Active' PROVE Shape(wire'[sock'[cur]], parser'[cur])
    <3>1. CASE ReceiveData
      <4>1. sock' = sock
        BY <3>1 DEF ReceiveData
      <4> QED
        BY <3>1, <4>1, DataShape
    <3>2. CASE ReceiveNothing
      BY <1>1, <2>1, <2>5, <3>2, TypeParts DEF ReceiveNothing, Active
    <3>3. CASE PublishReturns
      <4>1. /\ sock' = sock /\ wire' = wire /\ parser'[cur] = "start" /\ parser[cur] = "complete"
        BY <1>1, <2>1, <3>3, TypeParts DEF PublishReturns, DaemonInv, CleanBetween, kernel
      <4>2. Shape(wire[sock[cur]], "complete")
        BY <1>2, <2>1, <4>1
      <4>3. Shape(wire[sock[cur]], "start")
        BY <4>2 DEF Shape
      <4> QED
        BY <4>1, <4>3
    <3> QED
      BY <1>6, <3>1, <3>2, <3>3
  <2>6. \A f \in Active' : Shape(wire'[sock'[f]], parser'[f])
    BY <2>4, <2>5
  <2> QED
    BY <2>3, <2>6 DEF WiresInShape
<1>7. CASE Poll \/ BatchDone \/ (\E fd \in Fds \union {Listen} : Dispatch(fd))
           \/ AcceptFails \/ AcceptDone \/ ReceiveReset \/ PollTimeout \/ Exited \/ UNCHANGED vars
  <2>1. UNCHANGED <<backlog, sock, wire, peer, parser>>
    BY <1>7 DEF Poll, BatchDone, Dispatch, AcceptFails, AcceptDone, ReceiveReset, PollTimeout,
                Exited, vars, kernel, daemon
  <2> QED
    BY <1>3, <2>1
<1> QED
  BY <1>4, <1>5, <1>6, <1>7 DEF Next, LoopStep

-----------------------------------------------------------------------------
(* Theorems.                                                               *)

(* EngineInv is an inductive invariant of the daemon.                           *)
THEOREM IInvariant == Spec => []EngineInv
<1>1. Init => EngineInv
  BY DaemonInvInit, RequestsInit DEF EngineInv
<1>2. DaemonInv /\ [Next]_vars => DaemonInv'
  BY DaemonInvNext
<1>3. EngineInv /\ [Next]_vars => EngineInv'
  BY <1>2, RequestsStep DEF EngineInv
<1> QED
  BY <1>1, <1>3, PTL DEF Spec

(* No complete request of a paced client is lost, at any chunk boundary    *)
(* and whatever other clients do.                                          *)
THEOREM AllRequestsHandledPaced == Paced => (Spec => []AllRequestsHandled)
<1> SUFFICES ASSUME Paced PROVE Spec => []AllRequestsHandled
  OBVIOUS
<1>1. EngineInv => AllRequestsHandled
  <2> SUFFICES ASSUME EngineInv, NEW fd \in Active, wire[sock[fd]] = <<>>, parser[fd] # "error",
                      peer[sock[fd]] # "reset", dpc # "exited"
               PROVE  handled[sock[fd]] = sent[sock[fd]]
    BY DEF AllRequestsHandled
  <2>1. InStep(sock[fd], parser[fd])
    BY DEF EngineInv, RequestsInStep
  <2>2. \A x : <<"head">> # <<>> /\ <<"head", x>> # <<>> /\ <<x>> # <<>> /\ <<"junk", x>> # <<>>
    OBVIOUS
  <2> QED
    BY <2>1, <2>2 DEF InStep
<1> QED
  BY <1>1, IInvariant, PTL

(* Contexts, open sockets, watched descriptors and callbacks stay in       *)
(* agreement as long as the daemon runs.                                   *)
THEOREM TablesAgreeHolds == Spec => []TablesAgree
<1>1. DaemonInv => TablesAgree
  BY DEF DaemonInv
<1> QED
  BY <1>1, DaemonInvariant, PTL

(* The arena is empty between two events, for every arena and whatever     *)
(* exceptions the handler meets.                                           *)
THEOREM ArenaReclaimedHolds == Spec => []ArenaReclaimed
<1>1. DaemonInv => ArenaReclaimed
  BY DEF DaemonInv, CleanBetween, ArenaReclaimed
<1> QED
  BY <1>1, DaemonInvariant, PTL

(* No connection is dropped because a handler found nothing to read: a     *)
(* disconnect always follows the client's own close, with nothing unread.  *)
THEOREM NoSpuriousDisconnectHolds == Spec => NoSpuriousDisconnect
<1>1. ASSUME DaemonInv, [Next]_vars, NEW fd \in Fds, parser[fd] # "none", parser'[fd] = "none"
      PROVE  peer[sock[fd]] = "closed" /\ wire[sock[fd]] = <<>>
  <2>1. CASE ReceiveNothing
    <3>1. /\ cur \in Fds /\ cur # Listen /\ Ready(cur) /\ wire[sock[cur]] = <<>>
          /\ peer[sock[cur]] # "reset"
      BY <1>1, <2>1, EngineAssumption DEF ReceiveNothing, DaemonInv, EventsHold, Active
    <3>2. fd = cur
      BY <1>1, <2>1, <3>1, TypeParts DEF ReceiveNothing, DaemonInv
    <3> QED
      BY <3>1, <3>2 DEF Ready
  <2>2. CASE ReceiveData
    <3>1. cur \in Fds /\ parser[cur] \in {"start", "partial", "complete", "error"}
      BY <1>1, <2>2, TypeParts DEF ReceiveData, DaemonInv, EventsHold, Active
    <3>2. \E s \in {"start", "partial", "complete", "error"} :
            parser' = [parser EXCEPT ![cur] = s]
      <4> DEFINE result(n) == ParseChunk(parser[cur], SubSeq(wire[sock[cur]], 1, n))
      <4>1. PICK n \in 1..Len(wire[sock[cur]]) : Handle(result(n), Dropped(result(n)), 0)
        BY <2>2 DEF ReceiveData, Received
      <4>2. result(n) \in {"start", "partial", "complete", "completeBad", "error", "throws"}
        BY <3>1, ParseType
      <4> QED
        BY <3>1, <4>1, <4>2 DEF Handle, Dropped
    <3> QED
      BY <1>1, <3>1, <3>2, TypeParts DEF DaemonInv
  <2>3. CASE AcceptOne \/ PublishReturns
    BY <1>1, <2>3, TypeParts DEF AcceptOne, PublishReturns, DaemonInv
  <2>4. CASE parser' = parser
    BY <1>1, <2>4
  <2> QED
    BY <1>1, <2>1, <2>2, <2>3, <2>4
       DEF Next, LoopStep, Client, Connect, SendHead, SendLast, SendJunk, Deliver, Close, Reset,
           Poll, BatchDone, Dispatch, AcceptFails, AcceptDone, ReceiveReset, PollTimeout, Exited,
           vars, daemon
<1>2. DaemonInv /\ [Next]_vars =>
        [\A fd \in Fds :
           parser[fd] # "none" /\ parser'[fd] = "none" =>
             peer[sock[fd]] = "closed" /\ wire[sock[fd]] = <<>>]_vars
  BY <1>1
<1> QED
  BY <1>2, DaemonInvariant, PTL DEF Spec, NoSpuriousDisconnect

(* Whatever paced clients sent, and wherever the chunks end, the byte      *)
(* parser ends up where the pieces say, also on a connection that served   *)
(* requests before, and the packet that comes out is the one that was      *)
(* serialized.                                                             *)
THEOREM HttpSimAgreesPaced == Paced => (Spec => []HttpSimAgrees)
<1> SUFFICES ASSUME Paced PROVE Spec => []HttpSimAgrees
  OBVIOUS
<1>1. Init => WiresInShape
  BY DEF Init, WiresInShape, Active, Shape
<1>2. EngineInv /\ WiresInShape /\ [Next]_vars /\ EngineInv' => WiresInShape'
  BY ShapesStep DEF EngineInv
<1>3. EngineInv /\ WiresInShape => HttpSimAgrees
  <2> SUFFICES ASSUME EngineInv, WiresInShape, dpc = "receive", NEW n \in 1..Len(wire[sock[cur]])
               PROVE  ChunkAgrees(parser[cur], SubSeq(wire[sock[cur]], 1, n))
    BY Indivisible DEF HttpSimAgrees
  <2>1. /\ sock[cur] \in Conns /\ wire[sock[cur]] \in Seq(Pieces) /\ cur \in Active
        /\ parser[cur] \in {"start", "partial", "error"}
    BY TypeParts DEF EngineInv, DaemonInv, EventsHold, TablesAgree, Active, CleanBetween
  <2>2. Shape(wire[sock[cur]], parser[cur])
    BY <2>1 DEF WiresInShape
  <2> QED
    BY <2>1, <2>2, ShapeChunk
<1> QED
  BY <1>1, <1>2, <1>3, IInvariant, PTL DEF Spec
=============================================================================
