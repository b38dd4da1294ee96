------------------------------ MODULE HttpSim -------------------------------
(***************************************************************************)
(* The HTTP/1.1 stream parser (src/protocols/http_sim.cpp): one transition *)
(* of its state machine per byte.                                          *)
(*                                                                         *)
(* A byte is its code.  A run of characters that is not told apart further *)
(* (a method, a path, a header's name, a numeral) is one unit above 255;   *)
(* the parser only appends it to the current token.  What becomes of the   *)
(* method, path, version and headers is left out: the daemon never reads   *)
(* them.                                                                   *)
(***************************************************************************)
EXTENDS Integers, Sequences

CONSTANT BodyLimit     \* largest Content-Length that reserve() can grant

LF == 10
CR == 13
SP == 32
COLON == 58
CONTENT_LENGTH == 256           \* the characters of "Content-Length"
WORD == 257                     \* any other word
NUMERAL(n) == 300 + n           \* the decimal numeral of n

(* Mutated form of reset(): body_bytes_read_ keeps its value.              *)
ResetKeepsRead(h) ==
  [state |-> "Method", token |-> <<>>, key |-> <<>>, length |-> 0, read |-> h.read,
   body |-> <<>>]

(* reset(): whatever h was.                                                *)
ResetParser(h) ==
  [state |-> "Method", token |-> <<>>, key |-> <<>>, length |-> 0, read |-> 0, body |-> <<>>]

To(h, state) == [h EXCEPT !.state = state]
Collect(h, ch) == [h EXCEPT !.token = Append(@, ch)]
TokenEnds(h, state) == [To(h, state) EXCEPT !.token = <<>>]

(* std::stoul of a token: leading blanks were skipped, no number throws.   *)
IsNumber(token) == token # <<>> /\ token[1] >= NUMERAL(0)
Stoul(token) == token[1] - NUMERAL(0)

(* Line feed after a header's value.                                       *)
NextHeader(h) == [TokenEnds(h, "HeaderKey") EXCEPT !.key = <<>>]

HeaderEnds(h) ==
  IF h.key # <<CONTENT_LENGTH>> THEN NextHeader(h)
  ELSE IF ~IsNumber(h.token) THEN To(h, "Error")
  ELSE [NextHeader(h) EXCEPT !.length = Stoul(h.token)]

(* Line feed after the blank line.  "Thrown": reserve() throws, which ends *)
(* parse_chunk() and is not caught by the client handler.                  *)
HeadEnds(h) ==
  To(h, IF h.length = 0 THEN "Complete" ELSE IF h.length > BodyLimit THEN "Thrown" ELSE "Body")

BodyByte(h, byte) ==
  [h EXCEPT !.body = Append(@, byte), !.read = @ + 1,
            !.state = IF h.read + 1 >= h.length THEN "Complete" ELSE @]

(* One iteration of parse_chunk().  Complete and Error are never left.     *)
Byte(h, ch) ==
  CASE h.state = "Method" -> IF ch = SP THEN TokenEnds(h, "Uri") ELSE Collect(h, ch)
    [] h.state = "Uri" -> IF ch = SP THEN TokenEnds(h, "Version") ELSE Collect(h, ch)
    [] h.state = "Version" ->
         IF ch = CR THEN h ELSE IF ch = LF THEN TokenEnds(h, "HeaderKey") ELSE Collect(h, ch)
    [] h.state = "HeaderKey" ->
         IF ch = CR THEN TokenEnds(h, "ExpectBodyLF")
         ELSE IF ch = COLON THEN [TokenEnds(h, "HeaderValue") EXCEPT !.key = h.token]
         ELSE Collect(h, ch)
    [] h.state = "HeaderValue" ->
         IF ch = SP /\ h.token = <<>> THEN h
         ELSE IF ch = CR THEN To(h, "ExpectValueLF") ELSE Collect(h, ch)
    [] h.state = "ExpectValueLF" -> IF ch = LF THEN HeaderEnds(h) ELSE To(h, "Error")
    [] h.state = "ExpectBodyLF" -> IF ch = LF THEN HeadEnds(h) ELSE To(h, "Error")
    [] h.state = "Body" -> BodyByte(h, ch)
    [] OTHER -> h

(* parse_chunk() *)
ParseBytes(h, bytes) ==
  LET after[i \in 0..Len(bytes)] == IF i = 0 THEN h ELSE Byte(after[i-1], bytes[i])
  IN  after[Len(bytes)]
=============================================================================
