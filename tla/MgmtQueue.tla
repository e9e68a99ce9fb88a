------------------------------ MODULE MgmtQueue ------------------------------
(***************************************************************************)
(* The management socket: struct mgmt of shared/mgmt.c, its queues, its     *)
(* write watch, and the kernel at the other end.  The helper only sends     *)
(* (mgmt_send); the other calls are the library's.                          *)
(*                                                                          *)
(* One action is one call, or one dispatch of a watch by the main loop.  A  *)
(* callback that calls back is that call just after the dispatch, as the    *)
(* last thing each dispatch does is to wake the writer.  Registered events  *)
(* are in NotifyList.                                                       *)
(***************************************************************************)
EXTENDS Naturals, Sequences, SequencesExt

CONSTANTS Opcode, Index,  \* of the commands
          MaxRequest      \* bound: requests made

ASSUME MgmtAssumption == MaxRequest \in Nat

VARIABLES
  mgmt,             \* "open", "deaf": the read watch is gone, or "freed"
  request_queue, reply_queue, pending_list,
  writer_active,    \* the write watch is installed
  next_request_id,
  asked,            \* commands the kernel has not answered
  outcome,          \* how each request ended
  crossed,          \* two commands of one opcode and index may be with the kernel
  stalled           \* the request under way went by mgmt_cancel_index

lists == <<request_queue, reply_queue, pending_list>>
mgmtVars == <<mgmt, lists, writer_active, next_request_id, asked, outcome, crossed, stalled>>

Id == 1 .. MaxRequest

\* struct mgmt_request: by is the call that made it
MgmtRequest == [id : Id, opcode : Opcode, index : Index, by : {"send", "nowait", "reply"}]

MgmtInit ==
  /\ mgmt = "open"
  /\ request_queue = <<>> /\ reply_queue = <<>> /\ pending_list = <<>>
  /\ writer_active = FALSE
  /\ next_request_id = 1
  /\ asked = {}
  /\ outcome = [i \in Id |-> "none"]
  /\ crossed = FALSE /\ stalled = FALSE

-----------------------------------------------------------------------------
InUse == mgmt # "freed"

\* mutant: a completion that empties the pending list wakes nobody
WakeupMutant ==
  /\ writer_active' = (writer_active \/ reply_queue' # <<>> \/ (request_queue' # request_queue /\ pending_list' = <<>>))
  /\ stalled' = (stalled /\ ~writer_active')

\* wakeup_writer, after the queues have changed
Wakeup ==
  /\ writer_active' = (writer_active \/ pending_list' = <<>> \/ reply_queue' # <<>>)
  /\ stalled' = (stalled /\ ~writer_active')

\* create_request
NewRequest(opcode, index, by) ==
  [id |-> next_request_id, opcode |-> opcode, index |-> index, by |-> by]

Creates ==
  /\ InUse /\ next_request_id <= MaxRequest
  /\ next_request_id' = next_request_id + 1

\* send_request, with the result of io_send
Sent(request, ok) ==
  /\ pending_list' = IF ok THEN Append(pending_list, request) ELSE pending_list
  /\ asked' = IF ok THEN asked \cup {request} ELSE asked
  /\ outcome' = [outcome EXCEPT ![request.id] = IF ok THEN "live" ELSE "failed"]

Send(opcode, index) ==
  /\ Creates
  /\ request_queue' = Append(request_queue, NewRequest(opcode, index, "send"))
  /\ outcome' = [outcome EXCEPT ![next_request_id] = "live"]
  /\ UNCHANGED <<reply_queue, pending_list>>
  /\ Wakeup
  /\ UNCHANGED <<mgmt, asked, crossed>>

SendNowait(opcode, index, ok) ==
  /\ Creates
  /\ Sent(NewRequest(opcode, index, "nowait"), ok)
  /\ crossed' = TRUE
  /\ UNCHANGED <<mgmt, request_queue, reply_queue, writer_active, stalled>>

Reply(opcode, index) ==
  /\ Creates
  /\ reply_queue' = Append(reply_queue, NewRequest(opcode, index, "reply"))
  /\ outcome' = [outcome EXCEPT ![next_request_id] = "live"]
  /\ crossed' = TRUE
  /\ UNCHANGED <<request_queue, pending_list>>
  /\ Wakeup
  /\ UNCHANGED <<mgmt, asked>>

-----------------------------------------------------------------------------
\* can_write_data: replies jump the queue
WriteReply(ok) ==
  /\ InUse /\ writer_active /\ reply_queue # <<>>
  /\ reply_queue' = Tail(reply_queue)
  /\ Sent(Head(reply_queue), ok)
  /\ writer_active' = (ok => reply_queue' # <<>>)
  /\ UNCHANGED <<mgmt, request_queue, next_request_id, crossed, stalled>>

\* mutant: a request does not wait for the completion of the one before
MayWriteMutant == request_queue # <<>>

\* a request waits for the completion of whatever is under way
MayWrite == reply_queue = <<>> /\ pending_list = <<>> /\ request_queue # <<>>

\* mutant: requests are written one after the other
WriteRequestMutant(ok) ==
  /\ InUse /\ writer_active /\ request_queue # <<>>
  /\ request_queue' = Tail(request_queue)
  /\ Sent(Head(request_queue), ok)
  /\ writer_active' = TRUE
  /\ UNCHANGED <<mgmt, reply_queue, next_request_id, crossed, stalled>>

WriteRequest(ok) ==
  /\ InUse /\ writer_active /\ MayWrite
  /\ request_queue' = Tail(request_queue)
  /\ Sent(Head(request_queue), ok)
  /\ writer_active' = ~ok
  /\ UNCHANGED <<mgmt, reply_queue, next_request_id, crossed, stalled>>

WriterStops ==
  /\ InUse /\ writer_active /\ reply_queue = <<>> /\ ~MayWrite
  /\ writer_active' = FALSE
  /\ UNCHANGED <<mgmt, lists, next_request_id, asked, outcome, crossed, stalled>>

-----------------------------------------------------------------------------
\* match_request_opcode_index
Matches(request, answer) ==
  request.opcode = answer.opcode /\ request.index = answer.index

\* queue_remove_if takes the first that matches
IsFirst(list, k, answer) ==
  Matches(list[k], answer) /\ \A j \in 1 .. (k - 1) : ~Matches(list[j], answer)

\* request_complete, for an answer of the kernel to any of its commands
RequestComplete(answer) ==
  /\ mgmt = "open"
  /\ asked' = asked \ {answer}
  /\ \/ \E k \in DOMAIN pending_list :
          /\ IsFirst(pending_list, k, answer)
          /\ pending_list' = RemoveAt(pending_list, k)
          /\ outcome' = [outcome EXCEPT ![pending_list[k].id] =
                           IF pending_list[k] = answer THEN "answered" ELSE "mixed"]
     \/ /\ \A k \in DOMAIN pending_list : ~Matches(pending_list[k], answer)
        /\ UNCHANGED <<pending_list, outcome>>
  /\ UNCHANGED <<request_queue, reply_queue>>
  /\ Wakeup
  /\ UNCHANGED <<mgmt, next_request_id, crossed>>

\* the read fails: can_read_data is never called again
ReadFails ==
  /\ mgmt = "open" /\ mgmt' = "deaf"
  /\ UNCHANGED <<lists, writer_active, next_request_id, asked, outcome, crossed, stalled>>

-----------------------------------------------------------------------------
\* mgmt_cancel: no callback, and the kernel is not told
CancelFrom(list, id) ==
  \E k \in DOMAIN list : list[k].id = id /\ list' = RemoveAt(list, k)

Cancel(id) ==
  /\ InUse
  /\ \/ CancelFrom(request_queue, id) /\ UNCHANGED <<reply_queue, pending_list, crossed>>
     \/ CancelFrom(reply_queue, id) /\ UNCHANGED <<request_queue, pending_list, crossed>>
     \/ CancelFrom(pending_list, id) /\ UNCHANGED <<request_queue, reply_queue>>
          /\ crossed' = TRUE
  /\ outcome' = [outcome EXCEPT ![id] = "dropped"]
  /\ Wakeup
  /\ UNCHANGED <<mgmt, next_request_id, asked>>

\* list without the requests of an index, the others in their order
LeftOf(list, index) ==
  {f \in UNION {[1 .. n -> DOMAIN list] : n \in 0 .. Len(list)} :
     /\ \A i, j \in DOMAIN f : i < j => f[i] < f[j]
     /\ {f[i] : i \in DOMAIN f} = {k \in DOMAIN list : list[k].index # index}}

RemoveIndex(list, index) ==
  \E f \in LeftOf(list, index) : list' = [i \in DOMAIN f |-> list[f[i]]]

Holds(list, i) == \E k \in DOMAIN list : list[k].id = i

\* what is held no more was dropped
Dropped ==
  outcome' = [i \in Id |->
    IF outcome[i] = "live" /\ ~Holds(request_queue', i) /\ ~Holds(reply_queue', i)
         /\ ~Holds(pending_list', i)
    THEN "dropped" ELSE outcome[i]]

\* mgmt_cancel_index: the writer is not woken
CancelIndex(index) ==
  /\ InUse
  /\ RemoveIndex(request_queue, index)
  /\ RemoveIndex(reply_queue, index)
  /\ RemoveIndex(pending_list, index)
  /\ Dropped
  /\ crossed' = (crossed \/ pending_list' # pending_list)
  /\ stalled' = (stalled \/ (~writer_active /\ pending_list' # pending_list))
  /\ UNCHANGED <<mgmt, writer_active, next_request_id, asked>>

\* mgmt_unref, the last reference
Unref ==
  /\ InUse /\ mgmt' = "freed"
  /\ request_queue' = <<>> /\ reply_queue' = <<>> /\ pending_list' = <<>>
  /\ Dropped
  /\ writer_active' = FALSE
  /\ UNCHANGED <<next_request_id, asked, crossed, stalled>>

-----------------------------------------------------------------------------
MgmtWriter == \E ok \in BOOLEAN : WriteReply(ok) \/ WriteRequest(ok)

MgmtCalls ==
  \/ \E opcode \in Opcode, index \in Index :
       \/ Send(opcode, index) \/ Reply(opcode, index)
       \/ \E ok \in BOOLEAN : SendNowait(opcode, index, ok)
  \/ \E id \in Id : Cancel(id)
  \/ \E index \in Index : CancelIndex(index)
  \/ Unref

MgmtNext ==
  \/ MgmtCalls \/ MgmtWriter \/ WriterStops
  \/ (\E answer \in asked : RequestComplete(answer)) \/ ReadFails

MgmtSpec == MgmtInit /\ [][MgmtNext]_mgmtVars

\* the main loop dispatches the write watch, and the kernel answers every command
MgmtFairness ==
  /\ WF_mgmtVars(MgmtWriter)
  /\ \A i \in Id : WF_mgmtVars(\E answer \in asked : answer.id = i /\ RequestComplete(answer))

MgmtFairSpec == MgmtSpec /\ MgmtFairness

-----------------------------------------------------------------------------
MgmtTypeOK ==
  /\ mgmt \in {"open", "deaf", "freed"}
  /\ request_queue \in Seq(MgmtRequest)
  /\ reply_queue \in Seq(MgmtRequest)
  /\ pending_list \in Seq(MgmtRequest)
  /\ writer_active \in BOOLEAN
  /\ next_request_id \in 1 .. (MaxRequest + 1)
  /\ asked \in SUBSET MgmtRequest
  /\ outcome \in [Id -> {"none", "live", "answered", "mixed", "failed", "dropped"}]
  /\ crossed \in BOOLEAN /\ stalled \in BOOLEAN

\* A user that only calls mgmt_send, as the helper does, and cancels nothing
\* under way gets for each command the answer to that command, although
\* answers are told apart by opcode and index only (request_complete).
MgmtOwnAnswer == ~crossed => \A i \in Id : outcome[i] # "mixed"

\* Something that could be written has the write watch installed: only
\* mgmt_cancel_index forgets to wake the writer, and any later call repairs it.
MgmtWriterAwake == InUse /\ ~stalled /\ (MayWrite \/ reply_queue # <<>>) => writer_active

\* The kernel owes an answer for whatever is pending, so that the requests
\* behind it get their turn: there is no timer on this socket.
PendingWasAsked == \A k \in DOMAIN pending_list : pending_list[k] \in asked \/ crossed

Waits(i) == outcome[i] = "live"
Served(i) == outcome[i] # "live" \/ mgmt = "deaf" \/ stalled

\* Every command ends, unless the socket was lost or the queue was stalled.
MgmtRequestsEnd == \A i \in Id : Waits(i) ~> Served(i)

Numbers(list) == [k \in DOMAIN list |-> list[k].id]
OfSend == {k \in DOMAIN pending_list : pending_list[k].by = "send"}

Channel == INSTANCE Transactions WITH
  waiting <- Numbers(request_queue),
  flying <- {pending_list[k].id : k \in OfSend},
  issued <- next_request_id - 1

\* What was given to mgmt_send is a channel of transactions: one at a time, in
\* the order of the calls, whatever jumps the queue or is cancelled.
CommandsInTurn == Channel!ChannelSpec
=============================================================================
