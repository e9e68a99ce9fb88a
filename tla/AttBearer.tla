------------------------------ MODULE AttBearer ------------------------------
(***************************************************************************)
(* One ATT bearer of bluepy-helper: struct bt_att of shared/att.c under the *)
(* GAttrib of attrib/gattrib.c, its three queues, its timers and its socket *)
(* watches, the handlers the helper registered on it (events_handler and    *)
(* those whose name begins with gatts), and the peripheral at the other end *)
(* of the socket.                                                           *)
(*                                                                          *)
(* One action is one dispatch of the main loop (a watch or a timer) or one  *)
(* call from above.  PDUs are records: of their content only the opcode,    *)
(* and the number of the request a response answers, which is not on the    *)
(* air and serves the properties.                                           *)
(***************************************************************************)
EXTENDS Naturals, Sequences

CONSTANTS Opcode,     \* opcodes of the requests sent from above
          Kinds,      \* types of the operations sent from above
          PeerPdus,   \* types of PDU the peripheral sends unasked
          MaxOps,     \* bound: operations sent from above
          MaxPeer     \* bound: PDUs the peripheral sends unasked

AboveKinds == {"REQ", "IND", "CMD"}

OpType == AboveKinds \cup {"RSP", "CONF"}
\* requests of the peripheral
Asking == {"REQ", "MTU_REQ", "BAD_MTU_REQ", "EXEC_REQ"}

PeerPduType == Asking \cup {"CMD", "NOT", "IND", "UNKNOWN", "RSP", "CONF"}

ASSUME BearerAssumption ==
  /\ MaxOps \in Nat /\ MaxPeer \in Nat
  /\ Kinds \subseteq AboveKinds /\ PeerPdus \subseteq PeerPduType
  /\ "none" \notin Opcode

VARIABLES
  io,            \* "open"; "lost": the link is gone; "shut": closed from this
                 \* side; "null": disconnect_cb ran; "freed"; "aborted"
  req_queue, ind_queue, write_queue,
  pending_req, pending_ind,
  writer_active, \* the write watch is installed
  in_req,        \* a request of the peripheral is being answered
  next_send_id,
  track_ids,     \* attrib->track_ids: operations gattrib can cancel
  timers,        \* armed timers: <<operation, transmission>>
  security,      \* security level of the socket
  outcome,       \* how each operation ended
  tx, rx,        \* PDUs under way to, and from, the peripheral
  owed,          \* the peripheral waits for the answer to its request
  strayed,       \* the peripheral broke the protocol
  npeer          \* PDUs it sent unasked

queues == <<req_queue, ind_queue, write_queue>>
pending == <<pending_req, pending_ind>>
ids == <<next_send_id, track_ids>>
remote == <<owed, strayed, npeer>>
bearer == <<io, queues, pending, writer_active, in_req, ids, timers, security,
            outcome, tx, rx, remote>>

Id == 1 .. (MaxOps + MaxPeer)

LOW == 1
MEDIUM == 2
HIGH == 3

\* an operation: try numbers its transmissions, and <<id, try>> its timer
SendOp == [id : Id, type : OpType, opcode : Opcode \cup {"none"}, try : 0 .. 3]
NoOp == [id |-> 0, type |-> "none", opcode |-> "none", try |-> 0]

\* what is on the air; re is the request it answers, 0 if none
Pdu == [type : OpType \cup PeerPduType \cup {"ERR"}, opcode : Opcode \cup {"none"},
        ecode : {"none", "encryption", "authentication", "other"}, re : Nat]

Air(type, opcode, ecode, re) ==
  [type |-> type, opcode |-> opcode, ecode |-> ecode, re |-> re]

BearerInit ==
  /\ io = "open"
  /\ req_queue = <<>> /\ ind_queue = <<>> /\ write_queue = <<>>
  /\ pending_req = NoOp /\ pending_ind = NoOp
  /\ writer_active = FALSE /\ in_req = FALSE
  /\ next_send_id = 1 /\ track_ids = {}
  /\ timers = {} /\ security = LOW
  /\ outcome = [i \in Id |-> "none"]
  /\ tx = <<>> /\ rx = <<>>
  /\ owed = FALSE /\ strayed = FALSE /\ npeer = 0

-----------------------------------------------------------------------------
(* The writer.                                                              *)

\* the calls below can still reach the socket's watches
Attached == io \in {"open", "lost", "shut"}

\* mutant: indications are not looked at
SendableMutant(rq, iq, wq, req, ind) == wq # <<>> \/ (req = NoOp /\ rq # <<>>)

\* pick_next_send_op would find something
Sendable(rq, iq, wq, req, ind) ==
  \/ wq # <<>>
  \/ req = NoOp /\ rq # <<>>
  \/ ind = NoOp /\ iq # <<>>

WakeupWriter ==
  writer_active' = (writer_active
     \/ (Attached /\ Sendable(req_queue', ind_queue', write_queue', pending_req', pending_ind')))

\* operations of the given type and opcode join their queue
NewOp(type, opcode) == [id |-> next_send_id, type |-> type, opcode |-> opcode, try |-> 0]

HasCallback(op) == op.type \in {"REQ", "IND"}

\* bt_att_send: the queues and numbers after it; NoOp is no operation
Enqueue(new) ==
  /\ req_queue' = IF new.type = "REQ" THEN Append(req_queue, new) ELSE req_queue
  /\ ind_queue' = IF new.type = "IND" THEN Append(ind_queue, new) ELSE ind_queue
  /\ write_queue' = IF new # NoOp /\ ~HasCallback(new) THEN Append(write_queue, new) ELSE write_queue
  /\ next_send_id' = IF new = NoOp THEN next_send_id ELSE next_send_id + 1

\* operations end in one way, and a new one begins
Ended(ended, how, new) ==
  outcome' = [i \in Id |->
    IF i \in ended THEN how ELSE IF i = new.id THEN "live" ELSE outcome[i]]

\* operations that have not ended
Live == {i \in Id : outcome[i] = "live"}

\* the number of an operation, if there is one
Under(op) == IF op = NoOp THEN {} ELSE {op.id}

\* g_attrib_send from above
Send(type, opcode) ==
  /\ Attached /\ next_send_id <= MaxOps
  /\ type \in Kinds
  /\ LET new == NewOp(type, opcode) IN
       /\ Enqueue(new)
       /\ Ended({}, "live", new)
       /\ track_ids' = IF HasCallback(new) THEN track_ids \cup {new.id} ELSE track_ids
  /\ UNCHANGED pending
  /\ WakeupWriter
  /\ UNCHANGED <<io, in_req, timers, security, tx, rx, remote>>

\* mutant: a request does not wait for the answer to the one before
RequestMaySendMutant == req_queue # <<>>

RequestMaySend == req_queue # <<>> /\ pending_req = NoOp

\* pick_next_send_op: the queue it takes the head of
Pick ==
  CASE write_queue # <<>> -> "write"
    [] write_queue = <<>> /\ RequestMaySend -> "req"
    [] write_queue = <<>> /\ ~RequestMaySend /\ ind_queue # <<>> /\ pending_ind = NoOp -> "ind"
    [] OTHER -> "nothing"

Picked(which) ==
  CASE which = "write" -> Head(write_queue)
    [] which = "req" -> [Head(req_queue) EXCEPT !.try = @ + 1]
    [] which = "ind" -> [Head(ind_queue) EXCEPT !.try = @ + 1]

Pop(which) ==
  /\ write_queue' = IF which = "write" THEN Tail(write_queue) ELSE write_queue
  /\ req_queue' = IF which = "req" THEN Tail(req_queue) ELSE req_queue
  /\ ind_queue' = IF which = "ind" THEN Tail(ind_queue) ELSE ind_queue

\* can_write_data, from the write queue: nothing to keep
WriteQueued ==
  /\ writer_active /\ io = "open" /\ Pick = "write"
  /\ LET op == Picked("write") IN
       /\ tx' = Append(tx, Air(op.type, op.opcode, "none", op.id))
       /\ in_req' = (in_req /\ op.type # "RSP")
       /\ Ended({op.id}, "written", NoOp)
  /\ Pop("write")
  /\ UNCHANGED <<io, pending, writer_active, ids, timers, security, rx, remote>>

Armed(op) == timers \cup {<<op.id, op.try>>}

\* can_write_data, a request or an indication: it is pending, and its timer runs
WriteAwaited(which) ==
  /\ writer_active /\ io = "open" /\ Pick = which
  /\ LET op == Picked(which) IN
       /\ tx' = Append(tx, Air(op.type, op.opcode, "none", op.id))
       /\ pending_req' = IF which = "req" THEN op ELSE pending_req
       /\ pending_ind' = IF which = "ind" THEN op ELSE pending_ind
       /\ timers' = Armed(op)
  /\ Pop(which)
  /\ UNCHANGED <<io, writer_active, in_req, ids, security, outcome, rx, remote>>

\* nothing to write, or the poll reported an error: the watch is removed
WriterStops ==
  /\ writer_active
  /\ (io = "open" /\ Pick = "nothing") \/ io \in {"lost", "shut"}
  /\ writer_active' = FALSE
  /\ UNCHANGED <<io, queues, pending, in_req, ids, timers, security, outcome, tx, rx, remote>>

\* io_send fails: the operation ends, an answer to the peripheral with it
WriteFails ==
  /\ writer_active /\ io = "lost" /\ Pick # "nothing"
  /\ LET op == Picked(Pick) IN
       /\ Ended({op.id} \cap Live, IF HasCallback(op) THEN "failed" ELSE "dropped", NoOp)
       /\ track_ids' = track_ids \ {op.id}
  /\ Pop(Pick)
  /\ UNCHANGED <<io, pending, writer_active, in_req, next_send_id, timers, security,
                 tx, rx, remote>>

-----------------------------------------------------------------------------
(* The reader.                                                              *)

CanRead == io \in {"open", "lost"} /\ rx # <<>>

Arrives(types) == CanRead /\ Head(rx).type \in types /\ rx' = Tail(rx)

\* io_shutdown closes the socket: what is under way either way is lost
Shutdown == io' = "shut" /\ tx' = <<>> /\ rx' = <<>>

\* handle_rsp, with no request under way: the bearer is disconnected
UnexpectedRsp ==
  /\ CanRead /\ Head(rx).type \in {"RSP", "ERR"} /\ pending_req = NoOp
  /\ Shutdown
  /\ UNCHANGED <<queues, pending, writer_active, in_req, ids, timers, security,
                 outcome, remote>>

\* change_security: the level asked of the socket, or the old one
Raised(ecode) ==
  CASE ecode = "encryption" /\ security < MEDIUM -> MEDIUM
    [] ecode = "authentication" /\ security < HIGH -> security + 1
    [] OTHER -> security

\* mutant: a request tried again goes to the end of the line
RetriedMutant(op) == Append(req_queue, op)

Retried(op) == <<op>> \o req_queue

\* handle_error_rsp: the request is sent again over a more secure link.  The
\* timer of its first transmission runs on.
RetryRequest ==
  /\ Arrives({"ERR"}) /\ pending_req # NoOp
  /\ Raised(Head(rx).ecode) > security
  /\ security' = Raised(Head(rx).ecode)
  /\ req_queue' = Retried(pending_req)
  /\ pending_req' = NoOp
  /\ UNCHANGED <<ind_queue, write_queue, pending_ind>>
  /\ WakeupWriter
  /\ UNCHANGED <<io, in_req, ids, timers, outcome, tx, remote>>

\* the timer that destroying the operation removes
TimerOf(op) == {<<op.id, op.try>>}

\* the callback's result: the answer of its own request, of another one, or
\* the UNLIKELY that handle_rsp makes of a response to another opcode
ResultOf(op, pdu) ==
  IF pdu.opcode # op.opcode THEN "failed"
  ELSE IF pdu.re # op.id THEN "mixed" ELSE "answered"

\* handle_rsp: the request under way ends, with an error response too if the
\* link is not to be made more secure, or cannot be (setsockopt fails).  The procedure it belongs to may
\* send its next request from the callback, unless it was cancelled or failed.
HandleRsp(next) ==
  /\ Arrives({"RSP", "ERR"}) /\ pending_req # NoOp
  /\ LET pdu == Head(rx)
         op == pending_req
         live == op.id \in Live
         new == IF next = "none" THEN NoOp ELSE NewOp("REQ", next)
     IN /\ next # "none" => /\ live /\ ResultOf(op, pdu) # "failed"
                            /\ pdu.type = "RSP" /\ next_send_id <= MaxOps
        /\ Enqueue(new)
        /\ Ended(IF live THEN {op.id} ELSE {}, ResultOf(op, pdu), new)
        /\ track_ids' = (track_ids \ {op.id}) \cup Under(new)
        /\ timers' = timers \ TimerOf(op)
  /\ pending_req' = NoOp /\ UNCHANGED pending_ind
  /\ WakeupWriter
  /\ UNCHANGED <<io, in_req, security, tx, remote>>

\* handle_conf
HandleConf ==
  /\ Arrives({"CONF"}) /\ pending_ind # NoOp
  /\ LET op == pending_ind IN
       /\ Ended({op.id} \cap Live, "answered", NoOp)
       /\ track_ids' = track_ids \ {op.id}
       /\ timers' = timers \ TimerOf(op)
  /\ pending_ind' = NoOp
  /\ UNCHANGED <<queues, pending_req, next_send_id>>
  /\ WakeupWriter
  /\ UNCHANGED <<io, in_req, security, tx, remote>>

UnexpectedConf ==
  /\ CanRead /\ Head(rx).type = "CONF" /\ pending_ind = NoOp
  /\ Shutdown
  /\ UNCHANGED <<queues, pending, writer_active, in_req, ids, timers, security,
                 outcome, remote>>

OneRequestAtATime == ~in_req

\* the sequential protocol was violated
SecondRequest ==
  /\ CanRead /\ Head(rx).type \in Asking /\ ~OneRequestAtATime
  /\ Shutdown
  /\ UNCHANGED <<queues, pending, writer_active, in_req, ids, timers, security,
                 outcome, remote>>

\* mutant: a request of the MTU is obeyed and not answered
RepliesMutant == [REQ |-> "RSP", IND |-> "CONF", UNKNOWN |-> "RSP"]

\* what the handlers of the helper send back, and handle_notify where there
\* is no handler; gatts_mtu_req sends nothing if it cannot decode the request
Replies == [REQ |-> "RSP", MTU_REQ |-> "RSP", IND |-> "CONF", UNKNOWN |-> "RSP"]

Reply(type) == IF type \in DOMAIN Replies THEN NewOp(Replies[type], "none") ELSE NoOp

\* handle_notify
HandlePdu ==
  /\ Arrives({"REQ", "MTU_REQ", "BAD_MTU_REQ", "CMD", "NOT", "IND", "UNKNOWN"})
  /\ LET type == Head(rx).type
         asks == type \in Asking
     IN /\ asks => OneRequestAtATime
        /\ in_req' = (in_req \/ asks)
        /\ Enqueue(Reply(type))
        /\ Ended({}, "live", Reply(type))
  /\ UNCHANGED <<pending, track_ids>>
  /\ WakeupWriter
  /\ UNCHANGED <<io, timers, security, tx, remote>>

\* gatts_exec_write_req asserts a length that no such request has
HandleExecWrite ==
  /\ Arrives({"EXEC_REQ"}) /\ OneRequestAtATime
  /\ io' = "aborted"
  /\ UNCHANGED <<queues, pending, writer_active, in_req, ids, timers, security,
                 outcome, tx, remote>>

-----------------------------------------------------------------------------
(* Timers, the end of the link, and calls from above.                       *)

\* all of them end in the same way; those without a callback are dropped
AllEnd(how) ==
  outcome' = [i \in Id |->
    IF i \notin Live THEN outcome[i] ELSE IF i \in track_ids THEN how ELSE "dropped"]

TimedOut(ends) == IF ends THEN Shutdown ELSE UNCHANGED <<io, tx, rx>>

\* timeout_cb: the operation is destroyed without its callback, and the socket
\* is shut.  A timer that outlived its operation does nothing.
Timeout(t) ==
  /\ Attached \/ io = "null"
  /\ timers' = timers \ {t}
  /\ LET req == pending_req.id = t[1]
         ind == ~req /\ pending_ind.id = t[1]
         ends == req \/ ind
     IN /\ TimedOut(ends)
        /\ pending_req' = IF req THEN NoOp ELSE pending_req
        /\ pending_ind' = IF ind THEN NoOp ELSE pending_ind
        /\ Ended(IF ends THEN {t[1]} \cap Live ELSE {}, "dropped", NoOp)
        /\ track_ids' = IF ends THEN track_ids \ {t[1]} ELSE track_ids
  /\ UNCHANGED <<queues, writer_active, in_req, next_send_id, security, remote>>

\* destroying what is pending removes its timer
NothingHeld ==
  /\ req_queue' = <<>> /\ ind_queue' = <<>> /\ write_queue' = <<>>
  /\ pending_req' = NoOp /\ pending_ind' = NoOp
  /\ timers' = timers \ (TimerOf(pending_req) \cup TimerOf(pending_ind))
  /\ track_ids' = {}
  /\ writer_active' = FALSE
  /\ tx' = <<>> /\ rx' = <<>>

\* disconnect_cb
DisconnectCb ==
  /\ io \in {"lost", "shut"}
  /\ io' = "null"
  /\ NothingHeld /\ AllEnd("failed")
  /\ UNCHANGED <<in_req, next_send_id, security, remote>>

\* bt_att_unref, the last reference: bt_att_cancel_all and bt_att_free
Free ==
  /\ io \notin {"freed", "aborted"}
  /\ io' = "freed"
  /\ NothingHeld /\ AllEnd("dropped")
  /\ UNCHANGED <<in_req, next_send_id, security, remote>>

\* queue without the operations of those numbers, the others in their order
Without(queue, gone) ==
  LET rest == {k \in DOMAIN queue : queue[k].id \notin gone}
      picks == {f \in UNION {[1 .. n -> rest] : n \in 0 .. Len(queue)} :
                  /\ \A i, j \in DOMAIN f : i < j => f[i] < f[j]
                  /\ \A k \in rest : \E i \in DOMAIN f : f[i] = k}
  IN  {[i \in DOMAIN f |-> queue[f[i]]] : f \in picks}

\* operations that are cancelled end; those that are pending stay so, without
\* their callbacks
Cancelled(gone) ==
  /\ track_ids' = track_ids \ gone
  /\ Ended(gone, "dropped", NoOp)
  /\ req_queue' \in Without(req_queue, gone)
  /\ ind_queue' \in Without(ind_queue, gone)
  /\ UNCHANGED <<write_queue, pending>>
  /\ IF gone \subseteq {pending_req.id, pending_ind.id} THEN UNCHANGED writer_active ELSE WakeupWriter
  /\ UNCHANGED <<io, in_req, next_send_id, timers, security, tx, rx, remote>>

\* g_attrib_cancel
Cancel(id) == Attached /\ id \in track_ids /\ Cancelled({id})

\* g_attrib_cancel_all: each of them in turn
CancelAll == Attached /\ track_ids # {} /\ Cancelled(track_ids)

\* what was received before may still be read
LinkLoss ==
  /\ io = "open" /\ io' = "lost" /\ tx' = <<>>
  /\ UNCHANGED <<queues, pending, writer_active, in_req, ids, timers, security,
                 outcome, rx, remote>>

-----------------------------------------------------------------------------
(* The peripheral.  It takes what was sent to it in order, and answers or   *)
(* keeps silent.                                                            *)

Local == <<io, queues, pending, writer_active, in_req, ids, timers, security, outcome>>

Received(types) == io = "open" /\ tx # <<>> /\ Head(tx).type \in types /\ tx' = Tail(tx)

PeerAnswers ==
  /\ Received({"REQ"})
  /\ LET req == Head(tx) IN
       \/ rx' = Append(rx, Air("RSP", req.opcode, "none", req.re))
       \/ \E e \in {"encryption", "authentication", "other"} :
             rx' = Append(rx, Air("ERR", req.opcode, e, req.re))
       \/ rx' = rx
  /\ UNCHANGED <<Local, remote>>

PeerTakes ==
  /\ Received({"CMD", "CONF", "RSP", "IND"})
  /\ rx' = IF Head(tx).type = "IND" THEN Append(rx, Air("CONF", "none", "none", 0)) ELSE rx
  /\ owed' = (owed /\ Head(tx).type # "RSP")
  /\ UNCHANGED <<Local, strayed, npeer>>

\* a PDU of its own.  It breaks the protocol with a response nobody asked for,
\* a request before the last one was answered, or one that is malformed.
PeerSends(type) ==
  /\ io = "open" /\ npeer < MaxPeer
  /\ npeer' = npeer + 1
  /\ \E opcode \in IF type = "RSP" THEN Opcode ELSE {"none"} :
        rx' = Append(rx, Air(type, opcode, "none", 0))
  /\ owed' = (owed \/ type \in Asking)
  /\ strayed' = (strayed \/ type \in {"RSP", "CONF", "BAD_MTU_REQ", "UNKNOWN"}
                         \/ (owed /\ type \in Asking))
  /\ UNCHANGED <<Local, tx>>

-----------------------------------------------------------------------------
Writer == WriteQueued \/ WriteAwaited("req") \/ WriteAwaited("ind") \/ WriterStops \/ WriteFails

Reader ==
  \/ UnexpectedRsp \/ RetryRequest \/ \E next \in Opcode \cup {"none"} : HandleRsp(next)
  \/ HandleConf \/ UnexpectedConf \/ SecondRequest \/ HandlePdu \/ HandleExecWrite

Above ==
  \/ \E opcode \in Opcode : Send("REQ", opcode)
  \/ \E type \in Kinds \ {"REQ"} : Send(type, "none")
  \/ \E id \in track_ids : Cancel(id)
  \/ CancelAll
  \/ Free

Peripheral == PeerAnswers \/ PeerTakes \/ \E type \in PeerPdus : PeerSends(type)

BearerNext ==
  \/ Writer \/ Reader \/ (\E t \in timers : Timeout(t)) \/ DisconnectCb \/ LinkLoss
  \/ Above \/ Peripheral

BearerSpec == BearerInit /\ [][BearerNext]_bearer

\* the main loop dispatches every source that stays ready, and timers run out
BearerFairness ==
  /\ WF_bearer(Writer) /\ WF_bearer(Reader) /\ WF_bearer(DisconnectCb)
  /\ WF_bearer(\E t \in timers : Timeout(t))

BearerFairSpec == BearerSpec /\ BearerFairness

-----------------------------------------------------------------------------
BearerTypeOK ==
  /\ io \in {"open", "lost", "shut", "null", "freed", "aborted"}
  /\ req_queue \in Seq(SendOp) /\ ind_queue \in Seq(SendOp) /\ write_queue \in Seq(SendOp)
  /\ pending_req \in SendOp \cup {NoOp} /\ pending_ind \in SendOp \cup {NoOp}
  /\ writer_active \in BOOLEAN /\ in_req \in BOOLEAN
  /\ next_send_id \in 1 .. (MaxOps + MaxPeer + 1) /\ track_ids \subseteq Id
  /\ timers \subseteq Id \X (1 .. 3) /\ security \in {LOW, MEDIUM, HIGH}
  /\ outcome \in [Id -> {"none", "live", "written", "answered", "mixed", "failed", "dropped"}]
  /\ tx \in Seq(Pdu) /\ rx \in Seq(Pdu)
  /\ owed \in BOOLEAN /\ strayed \in BOOLEAN /\ npeer \in 0 .. MaxPeer

Ops(queue) == {queue[k] : k \in DOMAIN queue}
Unique(queue) == \A j, k \in DOMAIN queue : queue[j].id = queue[k].id => j = k

\* where operations are
Places == <<Ops(req_queue), Ops(ind_queue), Ops(write_queue), {pending_req} \ {NoOp}, {pending_ind} \ {NoOp}>>

\* Every operation that has not ended is in exactly one place, and no other
\* place holds anything but requests that were cancelled once on the air
\* (shared/att.c: queues, pending_req, pending_ind; gattrib.c: track_ids).
EveryOpInOnePlace ==
  /\ Unique(req_queue) /\ Unique(ind_queue) /\ Unique(write_queue)
  /\ \A p, q \in DOMAIN Places : \A a \in Places[p], b \in Places[q] : a.id = b.id => p = q
  /\ \A i \in Live : \E p \in DOMAIN Places : \E a \in Places[p] : a.id = i
  /\ \A p \in 1 .. 3 : \A op \in Places[p] : op.id \notin Live => op.try > 0
  /\ track_ids = {i \in Live : \E p \in {1, 2, 4, 5} : \E a \in Places[p] : a.id = i}

\* Whatever could be written now has the write watch installed: no path of
\* the code forgets wakeup_writer.
WriterAwake == io = "open" /\ Pick # "nothing" => writer_active

\* What is pending has a timer, so that nothing waits for ever
\* (can_write_data, timeout_cb).
PendingIsTimed ==
  Attached => \A op \in {pending_req, pending_ind} : op # NoOp => <<op.id, op.try>> \in timers

\* The operations of a bearer are accounted for: each in its one place, with
\* the watch or the timer that will get it further.
OpsAccountedFor == BearerTypeOK /\ EveryOpInOnePlace /\ WriterAwake /\ PendingIsTimed

\* A peripheral that keeps to the protocol answers each callback's own
\* request, through retries, cancellations and time-outs (handle_rsp).
BearerOwnAnswer == ~strayed => \A i \in Id : outcome[i] # "mixed"

\* where a request of the peripheral, or the answer to it, is
Answering ==
  {<<"rx", k>> : k \in {n \in DOMAIN rx : rx[n].type \in Asking}}
    \cup {<<"write_queue", k>> : k \in {n \in DOMAIN write_queue : write_queue[n].type = "RSP"}}
    \cup {<<"tx", k>> : k \in {n \in DOMAIN tx : tx[n].type = "RSP"}}

\* A request of a peripheral that keeps to the protocol is always in one place:
\* not read, or its one answer queued or on the way (the gatts handlers).
PeerServed ==
  ~strayed /\ io = "open" =>
    /\ \A p, q \in Answering : p = q
    /\ (Answering # {}) = owed

Waits(i) == outcome[i] = "live"
Served(i) == outcome[i] # "live" \/ io = "aborted"

\* Every operation that expects an answer ends, whatever the peripheral does:
\* answered, failed, or dropped.
OperationsEnd == \A i \in Id : Waits(i) ~> Served(i)

Numbers(queue) == [k \in DOMAIN queue |-> queue[k].id]

Requests == INSTANCE Transactions WITH
  waiting <- Numbers(req_queue), flying <- Under(pending_req), issued <- next_send_id - 1

\* The requests of a bearer are transactions in order, one at a time, and a
\* request that is tried again keeps its turn.
RequestsInTurn == Requests!ChannelSpec
=============================================================================
