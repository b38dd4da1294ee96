---------------------------- MODULE EngineParsing ---------------------------
(***************************************************************************)
(* The pieces of requests in CoreEngine are sequences of bytes, and its    *)
(* parser states are states of HttpSim: this module renders every piece in *)
(* several ways and states that CoreEngine's ParseChunk is what the parser *)
(* of src/protocols/http_sim.cpp does with the bytes, and that a packet    *)
(* comes out of the request as the client serialized it.                   *)
(***************************************************************************)
EXTENDS CoreEngine

CONSTANTS
  BodyLimit,  \* largest Content-Length that reserve() can grant
  Mtu,        \* capacity of a packet's payload
  Contents,   \* types and data that clients make packets of
  Bodies      \* bodies of requests, well-formed or not

Http == INSTANCE HttpSim
Codec == INSTANCE PacketCodec

(* Packets that clients send: data beyond the MTU was cut off.             *)
Packets == {Codec!MakePacket(content.type, content.data) : content \in Contents}

(* Bodies that Packet::deserialize rejects.                                *)
BadBodies == {body \in Bodies : Codec!Malformed(body)}

ASSUME ParsingAssumption ==
  /\ Mtu \in Nat /\ Mtu \div 65536 < 65536
  /\ BodyLimit \in Nat
  /\ Codec!HeaderSize + Mtu <= BodyLimit
  /\ \A content \in Contents : content.type \in 0..255 /\ content.data \in Seq(0..255)
  /\ \A body \in Bodies : body \in Seq(0..255) /\ Len(body) <= BodyLimit

HeaderLine(key, value) ==
  <<key, Http!COLON, Http!SP, value, Http!CR, Http!LF>>

ContentLength(n) == HeaderLine(Http!CONTENT_LENGTH, Http!NUMERAL(n))

BlankLine == <<Http!CR, Http!LF>>

RequestLine == <<Http!WORD, Http!SP, Http!WORD, Http!SP, Http!WORD, Http!CR, Http!LF>>

(* A body with its length in front: the end of a request.                  *)
Framed(body) == ContentLength(Len(body)) \o BlankLine \o body

(* The byte sequences a piece stands for.                                  *)
Renderings(piece) ==
  CASE piece = "head" -> {RequestLine, RequestLine \o HeaderLine(Http!WORD, Http!WORD)}
    [] piece = "last" -> {Framed(Codec!Serialize(p)) : p \in Packets}
    [] piece = "bad"  -> {Framed(body) : body \in BadBodies} \union {BlankLine}
    [] piece = "junk" -> {<<Http!WORD, Http!CR, Http!WORD>>,
                          HeaderLine(Http!CONTENT_LENGTH, Http!WORD),
                          <<Http!WORD, Http!COLON, Http!WORD, Http!CR, Http!SP>>}
    [] piece = "huge" -> {ContentLength(BodyLimit + 1) \o BlankLine}

(* The parsers that a piece, or a chunk of pieces, can lead to from hs.    *)
AfterPiece(hs, piece) == {Http!ParseBytes(h, bytes) : h \in hs, bytes \in Renderings(piece)}

Parses(hs, chunk) ==
  LET after[i \in 0..Len(chunk)] == IF i = 0 THEN hs ELSE AfterPiece(after[i-1], chunk[i])
  IN  after[Len(chunk)]

Constructed == Http!ResetParser([read |-> 0])

(* The parsers that CoreEngine's states stand for.  "start" is a new one   *)
(* or one that was reset after a complete request.                         *)
Concrete ==
  LET start == {Constructed}
                 \union {Http!ResetParser(h) : h \in Parses({Constructed}, <<"head", "last">>)}
      partial == Parses(start, <<"head">>)
  IN [state \in {"start", "partial", "error"} |->
        CASE state = "start"   -> start
          [] state = "partial" -> partial
          [] state = "error"   -> Parses(partial, <<"junk">>)]

(* CoreEngine's name for what parse_chunk() and the handler make of h.     *)
Outcomes(h) ==
  CASE h.state = "Complete"   -> IF Codec!Malformed(h.body) THEN "completeBad" ELSE "complete"
    [] h.state = "Error"      -> "error"
    [] h.state = "Thrown"     -> "throws"
    [] h = Constructed        -> "start"
    [] h \in Parses({Constructed}, <<"head">>) -> "partial"
    [] OTHER                  -> "none"

(* What CoreEngine says of a chunk, and what HttpSim makes of its bytes.   *)
ChunkAgrees(state, chunk) ==
  LET result  == ParseChunk(state, chunk)
      parsers == Parses(Concrete[state], chunk)
  IN /\ \A h \in parsers : Outcomes(h) = result
     /\ result = "complete" => {Codec!Deserialize(h.body) : h \in parsers} = Packets

(* A chunk may also end inside a piece: no proper part of one completes a  *)
(* request, so the daemon does not reset its parser there.                 *)
PiecesIndivisible ==
  \A piece \in {"last", "bad", "junk", "huge"} :
    \A bytes \in Renderings(piece), h \in Concrete["partial"] :
      \A k \in 0..Len(bytes) - 1 : Http!ParseBytes(h, SubSeq(bytes, 1, k)).state # "Complete"

(* Whatever has arrived when a handler receives, and wherever the chunk    *)
(* ends, the byte-level parser ends up in the state the daemon's model     *)
(* says (also after an earlier request on the same connection), and a      *)
(* complete request yields the packet that the client serialized.          *)
HttpSimAgrees ==
  /\ PiecesIndivisible
  /\ dpc = "receive" =>
       \A n \in 1..Len(wire[sock[cur]]) :
         ChunkAgrees(parser[cur], SubSeq(wire[sock[cur]], 1, n))
=============================================================================
