----------------------------- MODULE LongValue -----------------------------
(* Reading and writing values that may not fit one packet, attrib/gatt.c's  *)
(* gatt_read_char and gatt_write_char, while the MTU changes: gatt_exchange_*)
(* _mtu, and the peer's own request for an MTU, which bluepy-helper.c       *)
(* answers.  Packets are those of AttPdu.  One procedure at a time, as      *)
(* btle.py asks for them; the peer may ask for an MTU at any time.          *)
EXTENDS AttPdu

CONSTANTS
  Attrs,        \* handles of the peer's values
  Lengths,      \* lengths of values
  Mtus,         \* MTUs either side asks for; only their distance to the headers matters
  DefaultMtu,   \* ATT_DEFAULT_LE_MTU
  MaxProcs      \* bound: reads, writes and exchanges of a behaviour

ASSUME MtuAssumption == DefaultMtu \in Nat /\ Mtus \subseteq Nat /\ DefaultMtu > 5

VARIABLES
  proc,         \* what is under way: struct read_long_data or write_long_data
  count,        \* procedures begun
  answer,       \* what the last one gave its caller
  mtu,          \* our MTU: attrib->buflen and att->mtu
  optMtu,       \* opt_mtu, 0 when no exchange was asked for
  toPeer, toUs, \* packets in the air
  stored,       \* the peer's values
  prepared,     \* its queue of prepared writes
  peerMtu,      \* the MTU as the peer sees it
  peerAsked,    \* the MTU the peer asked for, 0 if it did not
  disturbed     \* this read met a refusal, or an MTU that changed, after its first part

valueVars == << proc, count, answer, mtu, optMtu, toPeer, toUs, stored, prepared,
                peerMtu, peerAsked, disturbed >>
mtuVars == << mtu, optMtu, peerMtu, peerAsked >>
peerVars == << stored, prepared, peerMtu, peerAsked >>

Idle == [call |-> "none"]
NoAnswer == [call |-> "none"]

(* Values are told apart by who wrote them. *)
Written(n, length) == [i \in 1..length |-> 20 * n + i]

Ended(status, value) ==
  /\ answer' = [call |-> proc.call, handle |-> proc.handle, status |-> status, value |-> value]
  /\ proc' = Idle
Sends(pdu) == toPeer' = Append(toPeer, pdu)

Begins(call) ==
  /\ proc = Idle /\ count < MaxProcs
  /\ count' = count + 1
  /\ answer' = NoAnswer

-----------------------------------------------------------------------------
(* gatt_read_char. *)
ReadChar(handle) ==
  /\ Begins("read")
  /\ proc' = [call |-> "read", handle |-> handle, buffer |-> << >>]
  /\ Sends(EncReadReq(handle))
  /\ disturbed' = FALSE
  /\ UNCHANGED << toUs, mtu, optMtu >> /\ UNCHANGED peerVars

(* The buffer is the packets' octets, the first opcode included. *)
ReadOn(buffer) ==
  /\ proc' = [proc EXCEPT !.buffer = buffer]
  /\ Sends(EncReadBlobReq(proc.handle, Len(buffer) - 1))
  /\ UNCHANGED answer

ReadCharHelperMutant(status, pdu) ==
  IF status # Success \/ Len(pdu) <= mtu
  THEN Ended(status, pdu) /\ UNCHANGED toPeer
  ELSE ReadOn(pdu)

ReadCharHelper(status, pdu) ==
  IF status # Success \/ Len(pdu) < mtu
  THEN Ended(status, pdu) /\ UNCHANGED toPeer
  ELSE ReadOn(pdu)

(* A refusal ends the value, and is not passed on. *)
ReadBlobHelper(status, pdu) ==
  LET buffer == proc.buffer \o Tail0(pdu, 1)
  IN  IF status # Success \/ Len(pdu) = 1
      THEN Ended(Success, proc.buffer) /\ UNCHANGED toPeer
      ELSE IF Len(pdu) < mtu
           THEN Ended(Success, buffer) /\ UNCHANGED toPeer
           ELSE ReadOn(buffer)

-----------------------------------------------------------------------------

(* gatt_write_char: in one request, or prepared part by part. *)
PrepareWrite(p, offset) ==
  /\ proc' = [p EXCEPT !.offset = offset]
  /\ Sends(EncPrepWriteReq(p.handle, offset, Tail0(p.value, offset), mtu))

WriteChar(handle, length) ==
  LET value == Written(count + 1, length)
      write == [call |-> "write", handle |-> handle, value |-> value, offset |-> 0]
  IN  /\ Begins("write")
      /\ IF length <= mtu - 3
         THEN proc' = write /\ Sends(EncWriteReq(handle, value, mtu))
         ELSE PrepareWrite([write EXCEPT !.call = "prepare"], 0)
      /\ UNCHANGED << toUs, disturbed, mtu, optMtu >> /\ UNCHANGED peerVars

(* What was already prepared at the peer stays there when a part is refused. *)
PrepareWriteCb(status, pdu) ==
  LET offset == proc.offset + Len(pdu) - 5
  IN  IF status # Success
      THEN Ended(status, proc.value) /\ UNCHANGED toPeer
      ELSE IF offset = Len(proc.value)
           THEN /\ proc' = [proc EXCEPT !.call = "write"]
                /\ Sends(EncExecWriteReq(1))
                /\ UNCHANGED answer
           ELSE PrepareWrite(proc, offset) /\ UNCHANGED answer

CharWriteReqCb(status, pdu) ==
  /\ Ended(IF status = Success /\ ~ DecWriteResp(pdu) /\ ~ DecExecWriteResp(pdu)
           THEN InvalidPdu ELSE status, proc.value)
  /\ UNCHANGED toPeer

(* gatt_write_cmd: what does not fit is cut off, and no answer is expected. *)
WriteCmd(handle, length) ==
  LET value == Written(count + 1, length)
  IN  /\ Begins("cmd")
      /\ Sends(EncWriteCmd(handle, value, mtu))
      /\ UNCHANGED << proc, toUs, disturbed, mtu, optMtu >> /\ UNCHANGED peerVars

-----------------------------------------------------------------------------
(* cmd_mtu, exchange_mtu_cb and gatts_mtu_req. *)
ExchangeMtu(m) ==
  /\ optMtu = 0
  /\ Begins("mtu")
  /\ proc' = [call |-> "mtu", handle |-> 0]
  /\ optMtu' = m
  /\ Sends(EncMtuReq(m))
  /\ UNCHANGED << toUs, disturbed, mtu >> /\ UNCHANGED peerVars

ExchangeMtuCb(status, pdu) ==
  LET m == Lesser(DecMtuResp(pdu).mtu, optMtu)
  IN  /\ IF status = Success THEN mtu' = m /\ optMtu' = m ELSE UNCHANGED << mtu, optMtu >>
      /\ Ended(status, << >>)
      /\ UNCHANGED toPeer

GattsMtuReq(pdu) ==
  LET m == DecMtuReq(pdu).mtu
  IN  /\ mtu' = m
      /\ optMtu' = m
      /\ Sends(EncMtuResp(m))
      /\ UNCHANGED << proc, answer >>

-----------------------------------------------------------------------------
(* The next packet is handled. *)
Answers(status, pdu) ==
  CASE proc.call = "read" /\ proc.buffer = << >> -> ReadCharHelper(status, pdu)
    [] proc.call = "read" /\ proc.buffer # << >> -> ReadBlobHelper(status, pdu)
    [] proc.call = "prepare" -> PrepareWriteCb(status, pdu)
    [] proc.call = "write" -> CharWriteReqCb(status, pdu)

IsError(pdu) == Is(pdu, 1, 5)

Receive ==
  /\ toUs # << >>
  /\ toUs' = Tail(toUs)
  /\ LET pdu == Head(toUs)
         status == IF IsError(pdu) THEN pdu[5] ELSE Success
     IN  CASE DecMtuReq(pdu) # None -> GattsMtuReq(pdu)
           [] DecMtuReq(pdu) = None /\ proc.call = "mtu" -> ExchangeMtuCb(status, pdu)
           [] OTHER -> Answers(status, pdu) /\ UNCHANGED << mtu, optMtu >>
  /\ disturbed' = \/ disturbed
                  \/ proc.call = "read" /\ DecMtuReq(Head(toUs)) # None
                  \/ proc.call = "read" /\ proc.buffer # << >> /\ IsError(Head(toUs))
  /\ UNCHANGED << count >> /\ UNCHANGED peerVars

-----------------------------------------------------------------------------
(* The peer. *)
Replies(pdu) == toUs' = Append(toUs, pdu)
Refuses(opcode) == Replies(EncErrorResp(opcode, 0, Refused))
PeerKeeps == UNCHANGED << stored, prepared >>

(* A part written at an offset is the end of the value. *)
Put(values, part) ==
  [values EXCEPT ![part.handle] = First(@, part.offset) \o part.value]

PutAll(values, parts) ==
  LET after[i \in 0..Len(parts)] ==
        IF i = 0 THEN values ELSE Put(after[i - 1], parts[i])
  IN  after[Len(parts)]

PeerGives(pdu) ==
  /\ PeerKeeps
  /\ \/ Refuses(pdu[1])
     \/ /\ DecReadReq(pdu) # None
        /\ Replies(EncReadResp(stored[DecReadReq(pdu).handle], peerMtu))
     \/ LET blob == DecReadBlobReq(pdu)
        IN  /\ blob # None
            /\ IF blob.offset > Len(stored[blob.handle])
               THEN Replies(EncErrorResp(12, 0, InvalidOffset))
               ELSE Replies(EncReadBlobResp(stored[blob.handle], blob.offset, peerMtu))

PeerPuts(pdu) ==
  LET write == DecWriteReq(pdu)
      part == DecPrepWriteReq(pdu)
  IN  \/ Refuses(pdu[1]) /\ PeerKeeps
      \/ /\ write # None
         /\ stored' = [stored EXCEPT ![write.handle] = write.value]
         /\ Replies(EncWriteResp)
         /\ UNCHANGED prepared
      \/ /\ part # None
         /\ prepared' = Append(prepared, part)
         /\ Replies(EncPrepWriteResp(part.handle, part.offset, part.value, peerMtu))
         /\ UNCHANGED stored
      \/ /\ DecExecWriteReq(pdu) # None
         /\ stored' = PutAll(stored, prepared)
         /\ prepared' = << >>
         /\ Replies(EncExecWriteResp)

PeerTakesCmd(pdu) ==
  LET write == DecWriteCmd(pdu)
  IN  /\ stored' = [stored EXCEPT ![write.handle] = write.value]
      /\ UNCHANGED << toUs, prepared >>

PeerTakes ==
  /\ toPeer # << >>
  /\ toPeer' = Tail(toPeer)
  /\ LET pdu == Head(toPeer)
     IN  CASE DecMtuReq(pdu) # None ->
                /\ \/ Refuses(2) /\ UNCHANGED peerMtu
                   \/ \E m \in IF peerAsked = 0 THEN Mtus ELSE {peerAsked} :
                        /\ Replies(EncMtuResp(m))
                        /\ peerMtu' = Lesser(m, DecMtuReq(pdu).mtu)
                /\ PeerKeeps
           [] DecMtuResp(pdu) # None ->
                peerMtu' = DecMtuResp(pdu).mtu /\ PeerKeeps /\ UNCHANGED toUs
           [] DecReadReq(pdu) # None \/ DecReadBlobReq(pdu) # None ->
                PeerGives(pdu) /\ UNCHANGED peerMtu
           [] DecWriteCmd(pdu) # None -> PeerTakesCmd(pdu) /\ UNCHANGED peerMtu
           [] OTHER -> PeerPuts(pdu) /\ UNCHANGED peerMtu
  /\ UNCHANGED << proc, count, answer, mtu, optMtu, peerAsked, disturbed >>

PeerAsksMtu ==
  /\ peerAsked = 0
  /\ \E m \in Mtus : Replies(EncMtuReq(m)) /\ peerAsked' = m
  /\ UNCHANGED << proc, count, answer, mtu, optMtu, toPeer, stored, prepared, peerMtu,
                  disturbed >>

(* The link goes down, and no request that is under way calls back: its     *)
(* record is freed, or lost.  The next connection has the default MTU.      *)
Reconnect ==
  /\ proc' = Idle /\ count' = 0 /\ answer' = NoAnswer
  /\ mtu' = DefaultMtu /\ optMtu' = 0 /\ peerMtu' = DefaultMtu /\ peerAsked' = 0
  /\ toPeer' = << >> /\ toUs' = << >>
  /\ stored' \in [Attrs -> {Written(0, n) : n \in Lengths}]
  /\ prepared' = << >>
  /\ disturbed' = FALSE

-----------------------------------------------------------------------------
ValueInit ==
  /\ proc = Idle /\ count = 0 /\ answer = NoAnswer
  /\ mtu = DefaultMtu /\ optMtu = 0 /\ peerMtu = DefaultMtu /\ peerAsked = 0
  /\ toPeer = << >> /\ toUs = << >>
  /\ stored = [h \in Attrs |-> << >>]
  /\ prepared = << >>
  /\ disturbed = FALSE

Calls ==
  \/ \E h \in Attrs : ReadChar(h)
  \/ \E h \in Attrs, n \in Lengths : WriteChar(h, n) \/ WriteCmd(h, n)
  \/ \E m \in Mtus : ExchangeMtu(m)

ValueNext == Calls \/ Receive \/ PeerTakes \/ PeerAsksMtu \/ Reconnect
ValueSpec == ValueInit /\ [][ValueNext]_valueVars

(* Packets arrive, and a peer answers. *)
ValueFairSpec == ValueSpec /\ WF_valueVars(Receive) /\ WF_valueVars(PeerTakes)

-----------------------------------------------------------------------------
Octets == 0..(Base - 1)
ValueTypeOK ==
  /\ mtu \in Mtus \cup {DefaultMtu} /\ peerMtu \in Mtus \cup {DefaultMtu}
  /\ optMtu \in Mtus \cup {0}
  /\ \A i \in DOMAIN toPeer : toPeer[i] # << >> /\ \A j \in DOMAIN toPeer[i] : toPeer[i][j] \in Octets
  /\ \A h \in Attrs : \A j \in DOMAIN stored[h] : stored[h][j] \in Octets
  /\ proc.call \in {"none", "read", "write", "prepare", "mtu"}

(* A read that succeeds gives the peer's value: a first part of it always,  *)
(* and all of it unless a later part was refused or the peer changed the    *)
(* MTU meanwhile.                                                           *)
ReadsWhole ==
  answer.call = "read" /\ answer.status = Success =>
    LET given == Tail0(answer.value, 1)
    IN  /\ given = First(stored[answer.handle], Len(given))
        /\ disturbed \/ given = stored[answer.handle]

(* A write that succeeds left its value at the peer, whole, whatever parts of *)
(* earlier writes that failed were still prepared there.                      *)
WritesWhole ==
  answer.call = "write" /\ answer.status = Success => stored[answer.handle] = answer.value

(* What is read and written is whole: docs/characteristic.rst, and what the *)
(* code does when the peer refuses or disturbs a part.                      *)
ValuesWhole == ValueTypeOK /\ ReadsWhole /\ WritesWhole

(* Every read, write and exchange gives an answer. *)
ValueEnds == proc # Idle ~> proc = Idle
=============================================================================
