------------------------------- MODULE AttPdu -------------------------------
(* The packets of the attribute protocol as attrib/att.c writes and reads   *)
(* them.  A packet is a sequence of octets.  An encoder Enc... is given the *)
(* length of the buffer, which is the MTU, and cuts what does not fit; a    *)
(* decoder Dec... gives None for a packet that is not the one it reads.     *)
(* A decoder is given the octets received, never more.                      *)
EXTENDS Naturals, Sequences
LOCAL Seqs == INSTANCE SequencesExt

None == [none |-> TRUE]        \* NULL: nothing could be decoded
Empty == << >>                 \* a length of 0: nothing was encoded

(* The error codes of att.h that matter here. *)
Success == 0
InvalidPdu == 4
Refused == 5                   \* ATT_ECODE_AUTHENTICATION, for any refusal of a peer
InvalidOffset == 7
NotFound == 10                 \* ATT_ECODE_ATTR_NOT_FOUND
Unlikely == 14
Io == 128

Base == 256
HandleSpace == Base * Base     \* a handle is a uint16_t

Lesser(a, b) == IF a < b THEN a ELSE b

(* put_le16 and get_le16. *)
Le16(v) == << v % Base, (v \div Base) % Base >>
Word(pdu, at) == pdu[at + 1] + Base * pdu[at + 2]   \* "at" counts from 0

Tail0(pdu, at) == SubSeq(pdu, at + 1, Len(pdu))     \* the octets from "at" on
First(s, n) == SubSeq(s, 1, Lesser(n, Len(s)))

(* A UUID is 2 octets or 16; bt_uuid_to_uuid128 puts a short one in the     *)
(* base UUID, whose octets on the air are these and four more.              *)
BaseUuid == << 251, 52, 155, 95, 128, 0, 0, 128, 0, 16, 0, 0 >>
Uuid128(uuid) == IF Len(uuid) = 2 THEN BaseUuid \o uuid \o << 0, 0 >> ELSE uuid
SameUuid(a, b) == Uuid128(a) = Uuid128(b)

-----------------------------------------------------------------------------
(* Packets that are a fixed header: a request by handle range, or by handle *)
(* and offset, an MTU, an error.                                            *)
EncFindInfoReq(start, end) == << 4 >> \o Le16(start) \o Le16(end)
EncReadReq(handle) == << 10 >> \o Le16(handle)
EncReadBlobReq(handle, offset) == << 12 >> \o Le16(handle) \o Le16(offset)
EncErrorResp(opcode, handle, status) ==
  << 1, opcode >> \o Le16(handle) \o << status >>
EncMtuReq(mtu) == << 2 >> \o Le16(mtu)
EncMtuResp(mtu) == << 3 >> \o Le16(mtu)
EncExecWriteReq(flags) == << 24, flags >>
EncWriteResp == << 19 >>
EncExecWriteResp == << 25 >>
EncConfirmation == << 30 >>

Is(pdu, opcode, min) == Len(pdu) >= min /\ pdu[1] = opcode

DecFindInfoReq(pdu) ==
  IF Is(pdu, 4, 5) THEN [start |-> Word(pdu, 1), end |-> Word(pdu, 3)] ELSE None
DecReadReq(pdu) == IF Is(pdu, 10, 3) THEN [handle |-> Word(pdu, 1)] ELSE None
DecReadBlobReq(pdu) ==
  IF Is(pdu, 12, 5) THEN [handle |-> Word(pdu, 1), offset |-> Word(pdu, 3)] ELSE None
DecMtuReq(pdu) == IF Is(pdu, 2, 3) THEN [mtu |-> Word(pdu, 1)] ELSE None
DecMtuResp(pdu) == IF Is(pdu, 3, 3) THEN [mtu |-> Word(pdu, 1)] ELSE None
DecExecWriteReq(pdu) == IF Is(pdu, 24, 2) THEN [flags |-> pdu[2]] ELSE None
DecWriteResp(pdu) == Is(pdu, 19, 1)
DecExecWriteResp(pdu) == Is(pdu, 25, 1)

-----------------------------------------------------------------------------
(* Requests for the attributes of a type, or of a group, in a handle range. *)
EncOfType(opcode, start, end, uuid) ==
  << opcode >> \o Le16(start) \o Le16(end) \o uuid
EncReadByTypeReq(start, end, uuid) == EncOfType(8, start, end, uuid)
EncReadByGrpReq(start, end, uuid) == EncOfType(16, start, end, uuid)

DecOfType(opcode, pdu) ==
  IF Is(pdu, opcode, 1) /\ Len(pdu) \in {7, 21}
  THEN [start |-> Word(pdu, 1), end |-> Word(pdu, 3), uuid |-> Tail0(pdu, 5)]
  ELSE None
DecReadByTypeReq(pdu) == DecOfType(8, pdu)
DecReadByGrpReq(pdu) == DecOfType(16, pdu)

(* The type here is always a short UUID. *)
EncFindByTypeReq(start, end, uuid, value, buflen) ==
  << 6 >> \o Le16(start) \o Le16(end) \o uuid \o First(value, buflen - 7)
DecFindByTypeReq(pdu) ==
  IF Is(pdu, 6, 7)
  THEN [start |-> Word(pdu, 1), end |-> Word(pdu, 3),
        uuid |-> SubSeq(pdu, 6, 7), value |-> Tail0(pdu, 7)]
  ELSE None

-----------------------------------------------------------------------------
(* A value behind a handle, or behind a handle and an offset. *)
EncValue(header, value, buflen) == header \o First(value, buflen - Len(header))

EncWriteCmd(handle, value, buflen) == EncValue(<< 82 >> \o Le16(handle), value, buflen)
EncWriteReq(handle, value, buflen) == EncValue(<< 18 >> \o Le16(handle), value, buflen)
EncPrepWriteReq(handle, offset, value, buflen) ==
  EncValue(<< 22 >> \o Le16(handle) \o Le16(offset), value, buflen)
EncPrepWriteResp(handle, offset, value, buflen) ==
  EncValue(<< 23 >> \o Le16(handle) \o Le16(offset), value, buflen)
EncReadResp(value, buflen) == EncValue(<< 11 >>, value, buflen)
(* An offset past the end of the value would underflow: callers stay below. *)
EncReadBlobResp(value, offset, buflen) ==
  EncValue(<< 13 >>, Tail0(value, offset), buflen)

(* A notification or an indication is refused, not cut, when it is too long. *)
EncWhole(opcode, handle, value, buflen) ==
  IF buflen < Len(value) + 3 THEN Empty ELSE << opcode >> \o Le16(handle) \o value
EncNotification(handle, value, buflen) == EncWhole(27, handle, value, buflen)
EncIndication(handle, value, buflen) == EncWhole(29, handle, value, buflen)

DecHandleValue(opcode, pdu) ==
  IF Is(pdu, opcode, 3) THEN [handle |-> Word(pdu, 1), value |-> Tail0(pdu, 3)]
  ELSE None
DecWriteCmd(pdu) == DecHandleValue(82, pdu)
DecWriteReq(pdu) == DecHandleValue(18, pdu)
DecIndication(pdu) == DecHandleValue(29, pdu)

DecPrepWrite(pdu) ==
  IF Is(pdu, 22, 5)
  THEN [handle |-> Word(pdu, 1), offset |-> Word(pdu, 3), value |-> Tail0(pdu, 5)]
  ELSE None
DecPrepWriteReq(pdu) == DecPrepWrite(pdu)

(* The value of a read, for a buffer of "room" octets. *)
DecReadResp(pdu, room) ==
  IF Is(pdu, 11, 1) /\ room >= Len(pdu) - 1 THEN [value |-> Tail0(pdu, 1)] ELSE None

-----------------------------------------------------------------------------
(* Lists of elements of one length. *)

(* struct att_data_list, from the octets behind a header of 2: "elen" octets *)
(* each, and what is left over is dropped.                                   *)
DataList(pdu, elen) ==
  [len |-> elen,
   data |-> [i \in 1..((Len(pdu) - 2) \div elen) |->
              SubSeq(pdu, 3 + (i - 1) * elen, 2 + i * elen)]]

(* As many elements as the buffer holds, the first ones first. *)
Fitting(elements, elen, room) == First(elements, room \div elen)

(* A read by type, alone, cuts its elements to a buffer that is shorter. *)
EncReadByTypeResp(elements, elen, buflen) ==
  LET l == Lesser(buflen - 2, elen)
  IN  << 9, l >> \o
      Seqs!FlattenSeq([i \in DOMAIN Fitting(elements, l, buflen - 2) |-> First(elements[i], l)])
EncReadByGrpResp(elements, elen, buflen) ==
  IF buflen < elen + 2 THEN Empty
  ELSE << 17, elen >> \o Seqs!FlattenSeq(Fitting(elements, elen, buflen - 2))
EncFindInfoResp(format, elements, elen, buflen) ==
  IF buflen < elen + 2 THEN Empty
  ELSE << 5, format >> \o Seqs!FlattenSeq(Fitting(elements, elen, buflen - 2))
EncFindByTypeResp(ranges, buflen) == << 7 >> \o Seqs!FlattenSeq(Fitting(ranges, 4, buflen - 1))

DecList(opcode, pdu, minLen, minElem) ==
  IF /\ Is(pdu, opcode, minLen)
     /\ pdu[2] >= minElem
     /\ (Len(pdu) - 2) % pdu[2] = 0
  THEN DataList(pdu, pdu[2])
  ELSE None
DecReadByTypeResp(pdu) == DecList(9, pdu, 5, 3)
DecReadByGrpResp(pdu) == DecList(17, pdu, 7, 5)

(* The format says the length of an element; an incomplete last one is not *)
(* noticed.                                                                *)
DecFindInfoResp(pdu) ==
  IF ~ Is(pdu, 5, 2) THEN None
  ELSE DataList(pdu, 2 + (CASE pdu[2] = 1 -> 2 [] pdu[2] = 2 -> 16 [] OTHER -> 0))

DecFindByTypeResp(pdu) ==
  IF Is(pdu, 7, 5) /\ (Len(pdu) - 1) % 4 = 0
  THEN [data |-> [i \in 1..((Len(pdu) - 1) \div 4) |->
                   [start |-> Word(pdu, 4 * i - 3), end |-> Word(pdu, 4 * i - 1)]]]
  ELSE None
=============================================================================
