----------------------------- MODULE PacketCodec ----------------------------
(***************************************************************************)
(* Packets and their wire format (src/core/packet.cpp): a header of        *)
(* version, type and big-endian length, then the payload.  Bytes are their *)
(* values.                                                                 *)
(***************************************************************************)
EXTENDS Integers, Sequences

CONSTANT Mtu     \* capacity of Packet::payload (1500)

(* sizeof(PacketHeader): the struct is packed.                             *)
HeaderSize == 6

(* The constructor from a vector: data beyond the MTU is cut off.  The one *)
(* from a pointer, which nobody calls, copies nothing from a null pointer.  *)
MakePacket(type, data) ==
  LET length == IF Len(data) > Mtu THEN Mtu ELSE Len(data)
  IN [version |-> 1, type |-> type, length |-> length, payload |-> SubSeq(data, 1, length)]

(* htonl() and ntohl() on the four bytes at the end of the header.         *)
Htonl(n) == <<((n \div 65536) \div 256) % 256, (n \div 65536) % 256, (n \div 256) % 256, n % 256>>
Ntohl(b) == ((b[1] * 256 + b[2]) * 256 + b[3]) * 256 + b[4]

Serialize(pkt) == <<pkt.version, pkt.type>> \o Htonl(pkt.length) \o pkt.payload

(* deserialize() throws: no header, a length beyond the MTU, or a payload  *)
(* shorter than its length.                                                *)
Malformed(raw) ==
  \/ Len(raw) < HeaderSize
  \/ LET length == Ntohl(SubSeq(raw, 3, 6))
     IN length > Mtu \/ Len(raw) < HeaderSize + length

(* deserialize() of a well-formed packet: what follows it is ignored.      *)
Deserialize(raw) ==
  LET length == Ntohl(SubSeq(raw, 3, 6))
  IN [version |-> raw[1], type |-> raw[2], length |-> length,
      payload |-> SubSeq(raw, HeaderSize + 1, HeaderSize + length)]
=============================================================================
