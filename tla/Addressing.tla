----------------------------- MODULE Addressing -----------------------------
(***************************************************************************)
(* IPv4 addresses and subnet masks (src/network/addressing.cpp): parsing   *)
(* and printing, the two validating constructors of a mask, its prefix     *)
(* length, and the subnet test of a node (src/network/node.cpp).           *)
(*                                                                         *)
(* An address is a number of 4 * OctetBits bits.  A text is a sequence of  *)
(* characters: 0..9 for the digits, Dot, or Other for every other one.     *)
(***************************************************************************)
EXTENDS Integers, SequencesExt

CONSTANTS
  OctetBits,  \* 8
  Segments    \* what the texts of AddressingAgrees have between the dots

ASSUME AddressingAssumption ==
  /\ OctetBits \in 1..9   \* a numeral has at most three digits
  /\ Segments \subseteq Seq(0..9 \union {11})

Dot == 10
Other == 11

Width == 4 * OctetBits
OctetMax == 2^OctetBits - 1
AllOnes == 2^Width - 1

\* The constructors throw invalid_argument.
Rejected == -1

\* The locals of the parser.
Fresh == [result |-> 0, octets |-> 0, octet |-> 0, digit |-> FALSE, thrown |-> FALSE]

Malformed(p, ch) ==
  \/ ch \in 0..9 /\ p.octet * 10 + ch > OctetMax
  \/ ch = Dot /\ (~p.digit \/ p.octets >= 3)
  \/ ch \notin 0..9 \union {Dot}

\* A dot ends an octet, a digit extends it.
Separate(p) ==
  [result |-> p.result * 2^OctetBits + p.octet, octets |-> p.octets + 1,
   octet |-> 0, digit |-> FALSE, thrown |-> FALSE]

Extend(p, ch) ==
  [result |-> p.result, octets |-> p.octets,
   octet |-> p.octet * 10 + ch, digit |-> TRUE, thrown |-> FALSE]

ParseChar(p, ch) ==
  IF p.thrown \/ Malformed(p, ch) THEN [p EXCEPT !.thrown = TRUE]
  ELSE IF ch = Dot THEN Separate(p)
  ELSE Extend(p, ch)

\* Mutated form of Complete: the last octet may be empty.
CompleteWithoutDigit(p) == ~p.thrown /\ p.octets = 3

Complete(p) == ~p.thrown /\ p.octets = 3 /\ p.digit

\* The loop over the characters, from parser p on.
ParseChars(p, text) ==
  LET after[i \in 0..Len(text)] == IF i = 0 THEN p ELSE ParseChar(after[i-1], text[i])
  IN  after[Len(text)]

\* IPv4Address(string_view)
ParseAddress(text) ==
  LET p == ParseChars(Fresh, text)
  IN IF Complete(p) THEN p.result * 2^OctetBits + p.octet ELSE Rejected

\* to_string(octet)
Decimal(n) ==
  IF n < 10 THEN <<n>>
  ELSE IF n < 100 THEN <<n \div 10, n % 10>>
  ELSE <<n \div 100, (n \div 10) % 10, n % 10>>

\* IPv4Address::to_string(), SubnetMask::to_string()
AddressText(a) ==
  LET Octet(i) == Decimal((a \div 2^(i * OctetBits)) % 2^OctetBits)
  IN Octet(3) \o <<Dot>> \o Octet(2) \o <<Dot>> \o Octet(1) \o <<Dot>> \o Octet(0)

\* SubnetMask(int)
MaskOfPrefix(n) ==
  IF n \notin 0..Width THEN Rejected
  ELSE IF n = 0 THEN 0
  ELSE (AllOnes * 2^(Width - n)) % 2^Width

Bit(n, i) == (n \div 2^i) % 2

\* a & b, in uint32_t
BitAnd(a, b) ==
  LET low[i \in 0..Width] ==
        IF i = 0 THEN 0 ELSE low[i-1] + IF Bit(a, i-1) = 1 /\ Bit(b, i-1) = 1 THEN 2^(i-1) ELSE 0
  IN  low[Width]

\* SubnetMask(string_view): ones, then zeros.
MaskOfText(text) ==
  LET m == ParseAddress(text)
      inverted == AllOnes - m
  IN IF m \notin {0, Rejected} /\ BitAnd(inverted, inverted + 1) # 0 THEN Rejected ELSE m

\* to_prefix_length(): the ones in the mask.
PrefixLength(m) == Cardinality({i \in 0..Width-1 : Bit(m, i) = 1})

\* Node::is_local()
IsLocal(ip, mask, target) == BitAnd(ip, mask) = BitAnd(target, mask)

-----------------------------------------------------------------------------
(* Reference definitions: decimal numerals, and prefixes by division.      *)
Numeral(s) == s # <<>> /\ \A i \in DOMAIN s : s[i] \in 0..9

Value(s) ==
  LET value[i \in 0..Len(s)] == IF i = 0 THEN 0 ELSE 10 * value[i-1] + s[i]
  IN  value[Len(s)]

\* The segments with dots between them.
Joined(list) ==
  LET text[i \in 1..Len(list)] == IF i = 1 THEN list[1] ELSE text[i-1] \o <<Dot>> \o list[i]
  IN  text[Len(list)]

WellFormed(list) ==
  Len(list) = 4 /\ \A i \in 1..4 : Numeral(list[i]) /\ Value(list[i]) <= OctetMax

\* The address of four numerals.
Named(list) ==
  LET base == 2^OctetBits
  IN  ((Value(list[1]) * base + Value(list[2])) * base + Value(list[3])) * base + Value(list[4])

SegmentLists == UNION {[1..n -> Segments] : n \in 1..5}

Masks == {MaskOfPrefix(n) : n \in 0..Width}

\* The addresses of texts, the masks, and what is next to a mask.
SomeAddresses ==
  {Named(list) : list \in {l \in SegmentLists : WellFormed(l)}}
    \union Masks \union {m + 1 : m \in Masks \ {AllOnes}}

SamePrefix(a, b, n) == a \div 2^(Width - n) = b \div 2^(Width - n)

(* The texts that IPv4Address accepts are the four numerals up to OctetMax *)
(* with dots between them, and it gives the address they name; printing an *)
(* address and parsing it gives it back; the mask texts that SubnetMask    *)
(* accepts are those of the masks of a prefix length, which is found again *)
(* in the mask; and a node is local to the addresses with its prefix.      *)
AddressingAgrees ==
  /\ \A list \in SegmentLists :
       ParseAddress(Joined(list)) = IF WellFormed(list) THEN Named(list) ELSE Rejected
  /\ \A a \in SomeAddresses :
       /\ ParseAddress(AddressText(a)) = a
       /\ MaskOfText(AddressText(a)) = IF a \in Masks THEN a ELSE Rejected
  /\ \A n \in 0..Width :
       /\ PrefixLength(MaskOfPrefix(n)) = n
       /\ \A a, b \in Masks : IsLocal(a, MaskOfPrefix(n), b) <=> SamePrefix(a, b, n)
=============================================================================
