---------------------------- MODULE Parts_proofs ----------------------------
(***************************************************************************)
(* Proofs about the management socket: its queues implement a channel with  *)
(* one command at a time, and a command gets its own answer; about a        *)
(* program's HCI socket, for any commands of lib/hci.c: hci_send_req leaves *)
(* the filter as it was, and takes the answer to its own call, unless one   *)
(* has gone astray; and about the sockets of btio.c, for any lists of       *)
(* options.                                                                 *)
(***************************************************************************)
EXTENDS Parts, FiniteSetTheorems, SequenceTheorems, TLAPS

-----------------------------------------------------------------------------
(* The management socket.                                                  *)

\* Every queue holds requests made by its own call.
RightQueue ==
  /\ \A k \in DOMAIN request_queue : request_queue[k].by = "send"
  /\ \A k \in DOMAIN reply_queue : reply_queue[k].by = "reply"

MgmtInv == MgmtTypeOK /\ RightQueue

\* t is s with some of its elements left out.
Thins(s, t) ==
  \E f \in [DOMAIN t -> DOMAIN s] :
    /\ \A i, j \in DOMAIN t : i < j => f[i] < f[j]
    /\ \A i \in DOMAIN t : t[i] = s[f[i]]

-----------------------------------------------------------------------------
(* Sequences with elements left out.                                        *)

\* Leaving out one element of a sequence leaves elements of the sequence.
LEMMA RemoveAtThins ==
  ASSUME NEW S, NEW s \in Seq(S), NEW k \in DOMAIN s
  PROVE  /\ RemoveAt(s, k) \in Seq(S)
         /\ Len(RemoveAt(s, k)) = Len(s) - 1
         /\ \A i \in DOMAIN RemoveAt(s, k) :
              /\ i < k => RemoveAt(s, k)[i] = s[i]
              /\ ~(i < k) => RemoveAt(s, k)[i] = s[i + 1]
<1>1. k \in 1 .. Len(s) /\ Len(s) \in Nat
  OBVIOUS
<1> DEFINE a == SubSeq(s, 1, k - 1)
           b == SubSeq(s, k + 1, Len(s))
<1>2. a \in Seq(S) /\ Len(a) = k - 1 /\ \A i \in 1 .. (k - 1) : a[i] = s[i]
  BY <1>1
<1>3. b \in Seq(S) /\ Len(b) = Len(s) - k /\ \A i \in 1 .. (Len(s) - k) : b[i] = s[i + k]
  BY <1>1
<1>4. RemoveAt(s, k) = a \o b
  BY DEF RemoveAt
<1> HIDE DEF a, b
<1>5. a \o b \in Seq(S) /\ Len(a \o b) = Len(s) - 1
  BY <1>1, <1>2, <1>3
<1>6. \A i \in 1 .. (Len(s) - 1) :
        /\ i < k => (a \o b)[i] = s[i]
        /\ ~(i < k) => (a \o b)[i] = s[i + 1]
  <2>1. \A i \in 1 .. (Len(a) + Len(b)) :
          (a \o b)[i] = IF i <= Len(a) THEN a[i] ELSE b[i - Len(a)]
    BY <1>2, <1>3, ConcatProperties
  <2>2. ASSUME NEW i \in 1 .. (Len(s) - 1), i < k PROVE (a \o b)[i] = s[i]
    BY <1>1, <1>2, <1>3, <2>1, <2>2
  <2>3. ASSUME NEW i \in 1 .. (Len(s) - 1), ~(i < k) PROVE (a \o b)[i] = s[i + 1]
    <3>0. i \in 1 .. (Len(a) + Len(b)) /\ ~(i <= Len(a))
      BY <1>1, <1>2, <1>3, <2>3
    <3>1. (a \o b)[i] = b[i - Len(a)]
      BY ONLY <2>1, <3>0, Zenon
    <3>2. i - Len(a) \in 1 .. (Len(s) - k) /\ (i - Len(a)) + k = i + 1
      BY <1>1, <1>2, <2>3
    <3>3. b[i - Len(a)] = s[(i - Len(a)) + k]
      BY <1>3, <3>2
    <3> QED BY <3>1, <3>2, <3>3
  <2> QED BY <2>2, <2>3
<1> QED BY <1>4, <1>5, <1>6, SMTT(30)

\* Removing one element.
LEMMA RemovedOne ==
  ASSUME NEW S, NEW s \in Seq(S), NEW k \in DOMAIN s, NEW t, t = RemoveAt(s, k)
  PROVE  t \in Seq(S) /\ Thins(s, t)
<1> DEFINE f == [i \in DOMAIN t |-> IF i < k THEN i ELSE i + 1]
<1>1. t \in Seq(S) /\ Len(t) = Len(s) - 1
        /\ \A i \in DOMAIN t : /\ i < k => t[i] = s[i]
                               /\ ~(i < k) => t[i] = s[i + 1]
  BY RemoveAtThins
<1>2. DOMAIN t = 1 .. (Len(s) - 1) /\ k \in 1 .. Len(s) /\ Len(s) \in Nat /\ DOMAIN s = 1 .. Len(s)
  BY <1>1
<1>3. f \in [DOMAIN t -> DOMAIN s]
  BY <1>2
<1>4. \A i, j \in DOMAIN t : i < j => f[i] < f[j]
  BY <1>2
<1>5. \A i \in DOMAIN t : t[i] = s[f[i]]
  BY <1>1
<1> HIDE DEF f
<1> QED BY <1>1, <1>3, <1>4, <1>5 DEF Thins

\* Removing the elements of an index.
LEMMA RemovedSome ==
  ASSUME NEW s \in Seq(MgmtRequest), NEW index, NEW f \in LeftOf(s, index),
         NEW t, t = [i \in DOMAIN f |-> s[f[i]]]
  PROVE  t \in Seq(MgmtRequest) /\ Thins(s, t)
<1>1. PICK n \in 0 .. Len(s) : f \in [1 .. n -> DOMAIN s]
  BY DEF LeftOf
<1>2. DOMAIN f = 1 .. n /\ n \in Nat
  BY <1>1
<1>3. \A i \in 1 .. n : s[f[i]] \in MgmtRequest
  BY <1>1
<1>4. t = [i \in 1 .. n |-> s[f[i]]]
  BY <1>2
<1>5. t \in Seq(MgmtRequest) /\ DOMAIN t = 1 .. n
  BY <1>2, <1>3, <1>4
<1>6. \A i, j \in DOMAIN f : i < j => f[i] < f[j]
  BY DEF LeftOf
<1>7. \A i \in DOMAIN t : t[i] = s[f[i]]
  BY <1>4, <1>5
<1>8. f \in [DOMAIN t -> DOMAIN s]
  BY <1>1, <1>5
<1> QED BY <1>2, <1>5, <1>6, <1>7, <1>8 DEF Thins

\* Removing nothing.
LEMMA RemovedNone ==
  ASSUME NEW S, NEW s \in Seq(S)
  PROVE  Thins(s, s)
<1> DEFINE f == [i \in DOMAIN s |-> i]
<1>1. f \in [DOMAIN s -> DOMAIN s] /\ \A i, j \in DOMAIN s : i < j => f[i] < f[j]
  OBVIOUS
<1>2. \A i \in DOMAIN s : s[i] = s[f[i]]
  OBVIOUS
<1> HIDE DEF f
<1> QED BY <1>1, <1>2 DEF Thins

\* Removing everything, or the head.
LEMMA RemovedAll ==
  ASSUME NEW s
  PROVE  Thins(s, <<>>)
<1> DEFINE f == [i \in DOMAIN <<>> |-> 1]
<1>1. DOMAIN <<>> = {}
  OBVIOUS
<1>2. f \in [DOMAIN <<>> -> DOMAIN s]
  BY <1>1
<1> HIDE DEF f
<1> QED BY <1>1, <1>2 DEF Thins

LEMMA RemovedHead ==
  ASSUME NEW S, NEW s \in Seq(S), s # <<>>
  PROVE  Thins(s, Tail(s))
<1> DEFINE t == Tail(s)
           f == [i \in DOMAIN t |-> i + 1]
<1>1. t \in Seq(S) /\ DOMAIN t = 1 .. (Len(s) - 1) /\ Len(s) \in Nat /\ DOMAIN s = 1 .. Len(s)
        /\ \A i \in DOMAIN t : t[i] = s[i + 1]
  OBVIOUS
<1> HIDE DEF t
<1>2. f \in [DOMAIN t -> DOMAIN s]
  BY <1>1
<1>3. \A i, j \in DOMAIN t : i < j => f[i] < f[j]
  BY <1>1
<1>4. \A i \in DOMAIN t : t[i] = s[f[i]]
  BY <1>1
<1> HIDE DEF f
<1>5. Thins(s, t)
  BY <1>2, <1>3, <1>4 DEF Thins
<1> QED BY <1>5 DEF t

\* What stays in its queue was put there by the right call.
LEMMA ThinnedStays ==
  ASSUME RightQueue, Thins(request_queue, request_queue'), Thins(reply_queue, reply_queue')
  PROVE  RightQueue'
<1>1. ASSUME NEW k \in DOMAIN request_queue' PROVE request_queue'[k].by = "send"
  <2>1. PICK f \in [DOMAIN request_queue' -> DOMAIN request_queue] :
               \A i \in DOMAIN request_queue' : request_queue'[i] = request_queue[f[i]]
    BY DEF Thins
  <2> QED BY <1>1, <2>1 DEF RightQueue
<1>2. ASSUME NEW k \in DOMAIN reply_queue' PROVE reply_queue'[k].by = "reply"
  <2>1. PICK f \in [DOMAIN reply_queue' -> DOMAIN reply_queue] :
               \A i \in DOMAIN reply_queue' : reply_queue'[i] = reply_queue[f[i]]
    BY DEF Thins
  <2> QED BY <1>2, <2>1 DEF RightQueue
<1> QED BY <1>1, <1>2 DEF RightQueue

-----------------------------------------------------------------------------
(* Types.                                                                   *)

LEMMA MgmtInitInv == MgmtInit => MgmtInv
<1> SUFFICES ASSUME MgmtInit PROVE MgmtInv
  OBVIOUS
<1>1. <<>> \in Seq(MgmtRequest) /\ DOMAIN <<>> = {}
  OBVIOUS
<1>2. outcome \in [Id -> {"none", "live", "answered", "mixed", "failed", "dropped"}]
  BY DEF MgmtInit
<1>3. next_request_id \in 1 .. (MaxRequest + 1)
  BY MgmtAssumption DEF MgmtInit
<1>4. MgmtTypeOK
  BY <1>1, <1>2, <1>3 DEF MgmtInit, MgmtTypeOK
<1>5. RightQueue
  BY <1>1 DEF MgmtInit, RightQueue
<1> QED BY <1>4, <1>5 DEF MgmtInv

\* A request as create_request makes it.
LEMMA NewRequestType ==
  ASSUME MgmtInv, NEW opcode \in Opcode, NEW index \in Index,
         NEW by \in {"send", "nowait", "reply"}, Creates
  PROVE  /\ NewRequest(opcode, index, by) \in MgmtRequest
         /\ NewRequest(opcode, index, by).id = next_request_id
         /\ NewRequest(opcode, index, by).by = by
         /\ next_request_id \in Id
         /\ next_request_id' \in 1 .. (MaxRequest + 1)
         /\ next_request_id' = next_request_id + 1
  BY MgmtAssumption DEF MgmtInv, MgmtTypeOK, NewRequest, MgmtRequest, Creates, Id

LEMMA WakeupType ==
  ASSUME MgmtTypeOK, Wakeup
  PROVE  writer_active' \in BOOLEAN /\ stalled' \in BOOLEAN
  BY ZenonT(30) DEF MgmtTypeOK, Wakeup

\* What send_request leaves behind.
LEMMA SentType ==
  ASSUME MgmtTypeOK, NEW request \in MgmtRequest, NEW ok \in BOOLEAN, Sent(request, ok)
  PROVE  /\ pending_list' \in Seq(MgmtRequest)
         /\ asked' \in SUBSET MgmtRequest
         /\ outcome' \in [Id -> {"none", "live", "answered", "mixed", "failed", "dropped"}]
<1>1. pending_list' \in Seq(MgmtRequest) /\ asked' \in SUBSET MgmtRequest
  BY DEF MgmtTypeOK, Sent
<1>2. (IF ok THEN "live" ELSE "failed")
        \in {"none", "live", "answered", "mixed", "failed", "dropped"}
  OBVIOUS
<1>3. outcome' \in [Id -> {"none", "live", "answered", "mixed", "failed", "dropped"}]
  BY <1>2 DEF MgmtTypeOK, Sent
<1> QED BY <1>1, <1>3

LEMMA SendInv ==
  ASSUME MgmtInv, NEW opcode \in Opcode, NEW index \in Index, Send(opcode, index)
  PROVE  MgmtInv'
<1> DEFINE new == NewRequest(opcode, index, "send")
<1>1. Creates
  BY DEF Send
<1>2. new \in MgmtRequest /\ new.by = "send" /\ next_request_id \in Id
        /\ next_request_id' \in 1 .. (MaxRequest + 1)
  BY <1>1, NewRequestType
<1>3. request_queue' = Append(request_queue, new)
  BY DEF Send
<1> HIDE DEF new
<1>4. MgmtTypeOK'
  BY <1>2, <1>3, WakeupType DEF MgmtInv, MgmtTypeOK, Send
<1>5. RightQueue'
  BY <1>2, <1>3 DEF MgmtInv, MgmtTypeOK, RightQueue, Send
<1> QED BY <1>4, <1>5 DEF MgmtInv

LEMMA SendNowaitInv ==
  ASSUME MgmtInv, NEW opcode \in Opcode, NEW index \in Index, NEW ok \in BOOLEAN,
         SendNowait(opcode, index, ok)
  PROVE  MgmtInv'
<1>1. Creates /\ Sent(NewRequest(opcode, index, "nowait"), ok)
  BY DEF SendNowait
<1>2. NewRequest(opcode, index, "nowait") \in MgmtRequest
        /\ next_request_id' \in 1 .. (MaxRequest + 1)
  BY <1>1, NewRequestType
<1>3. MgmtTypeOK'
  BY <1>1, <1>2, SentType DEF MgmtInv, MgmtTypeOK, SendNowait
<1>4. RightQueue'
  BY DEF MgmtInv, RightQueue, SendNowait
<1> QED BY <1>3, <1>4 DEF MgmtInv

LEMMA ReplyInv ==
  ASSUME MgmtInv, NEW opcode \in Opcode, NEW index \in Index, Reply(opcode, index)
  PROVE  MgmtInv'
<1> DEFINE new == NewRequest(opcode, index, "reply")
<1>1. Creates
  BY DEF Reply
<1>2. new \in MgmtRequest /\ new.by = "reply" /\ next_request_id \in Id
        /\ next_request_id' \in 1 .. (MaxRequest + 1)
  BY <1>1, NewRequestType
<1>3. reply_queue' = Append(reply_queue, new)
  BY DEF Reply
<1> HIDE DEF new
<1>4. MgmtTypeOK'
  BY <1>2, <1>3, WakeupType DEF MgmtInv, MgmtTypeOK, Reply
<1>5. RightQueue'
  BY <1>2, <1>3 DEF MgmtInv, MgmtTypeOK, RightQueue, Reply
<1> QED BY <1>4, <1>5 DEF MgmtInv

LEMMA WriteReplyInv ==
  ASSUME MgmtInv, NEW ok \in BOOLEAN, WriteReply(ok)
  PROVE  MgmtInv'
<1>1. reply_queue # <<>> /\ reply_queue' = Tail(reply_queue) /\ Sent(Head(reply_queue), ok)
  BY DEF WriteReply
<1>2. Head(reply_queue) \in MgmtRequest /\ reply_queue' \in Seq(MgmtRequest)
  BY <1>1 DEF MgmtInv, MgmtTypeOK
<1>3. writer_active' \in BOOLEAN
  BY DEF WriteReply
<1>4. MgmtTypeOK'
  BY <1>1, <1>2, <1>3, SentType DEF MgmtInv, MgmtTypeOK, WriteReply
<1>5. RightQueue'
  BY <1>1, <1>2 DEF MgmtInv, MgmtTypeOK, RightQueue, WriteReply
<1> QED BY <1>4, <1>5 DEF MgmtInv

LEMMA WriteRequestInv ==
  ASSUME MgmtInv, NEW ok \in BOOLEAN, WriteRequest(ok)
  PROVE  MgmtInv'
<1>1. request_queue # <<>> /\ request_queue' = Tail(request_queue)
        /\ Sent(Head(request_queue), ok)
  BY DEF WriteRequest, MayWrite
<1>2. Head(request_queue) \in MgmtRequest /\ request_queue' \in Seq(MgmtRequest)
  BY <1>1 DEF MgmtInv, MgmtTypeOK
<1>3. MgmtTypeOK'
  BY <1>1, <1>2, SentType DEF MgmtInv, MgmtTypeOK, WriteRequest
<1>4. RightQueue'
  BY <1>1, <1>2 DEF MgmtInv, MgmtTypeOK, RightQueue, WriteRequest
<1> QED BY <1>3, <1>4 DEF MgmtInv

LEMMA RequestCompleteInv ==
  ASSUME MgmtInv, NEW answer \in asked, RequestComplete(answer)
  PROVE  MgmtInv'
<1>1. pending_list' \in Seq(MgmtRequest)
        /\ outcome' \in [Id -> {"none", "live", "answered", "mixed", "failed", "dropped"}]
  <2>1. CASE UNCHANGED <<pending_list, outcome>>
    BY <2>1 DEF MgmtInv, MgmtTypeOK
  <2>2. ASSUME NEW k \in DOMAIN pending_list, pending_list' = RemoveAt(pending_list, k),
               outcome' = [outcome EXCEPT ![pending_list[k].id] =
                             IF pending_list[k] = answer THEN "answered" ELSE "mixed"]
        PROVE  <1>1
    BY <2>2, RemoveAtThins DEF MgmtInv, MgmtTypeOK
  <2> QED BY <2>1, <2>2 DEF RequestComplete
<1>2. MgmtTypeOK'
  BY <1>1, WakeupType DEF MgmtInv, MgmtTypeOK, RequestComplete
<1>3. RightQueue'
  BY DEF MgmtInv, RightQueue, RequestComplete
<1> QED BY <1>2, <1>3 DEF MgmtInv

-----------------------------------------------------------------------------
(* Cancelling.                                                              *)

OutcomeType == [Id -> {"none", "live", "answered", "mixed", "failed", "dropped"}]

\* A list from which a request was cancelled.
LEMMA CancelFromThins ==
  ASSUME NEW s \in Seq(MgmtRequest), NEW t, NEW id,
         \E k \in DOMAIN s : s[k].id = id /\ t = RemoveAt(s, k)
  PROVE  t \in Seq(MgmtRequest) /\ Thins(s, t)
  BY RemovedOne

\* mgmt_cancel leaves queues that lost at most one request.
LEMMA CancelThins ==
  ASSUME MgmtInv, NEW id \in Id, Cancel(id)
  PROVE  /\ request_queue' \in Seq(MgmtRequest) /\ Thins(request_queue, request_queue')
         /\ reply_queue' \in Seq(MgmtRequest) /\ Thins(reply_queue, reply_queue')
         /\ pending_list' \in Seq(MgmtRequest) /\ Thins(pending_list, pending_list')
         /\ crossed' \in BOOLEAN
<1> USE DEF MgmtInv, MgmtTypeOK
<1>1. CASE CancelFrom(request_queue, id) /\ UNCHANGED <<reply_queue, pending_list, crossed>>
  BY <1>1, CancelFromThins, RemovedNone DEF CancelFrom
<1>2. CASE CancelFrom(reply_queue, id) /\ UNCHANGED <<request_queue, pending_list, crossed>>
  BY <1>2, CancelFromThins, RemovedNone DEF CancelFrom
<1>3. CASE CancelFrom(pending_list, id) /\ UNCHANGED <<request_queue, reply_queue>> /\ crossed' = TRUE
  BY <1>3, CancelFromThins, RemovedNone DEF CancelFrom
<1> QED BY <1>1, <1>2, <1>3 DEF Cancel

LEMMA CancelInv ==
  ASSUME MgmtInv, NEW id \in Id, Cancel(id)
  PROVE  MgmtInv'
<1>1. MgmtTypeOK'
  BY CancelThins, WakeupType DEF MgmtInv, MgmtTypeOK, Cancel
<1>8. RightQueue'
  BY CancelThins, ThinnedStays DEF MgmtInv
<1> QED BY <1>1, <1>8 DEF MgmtInv

\* mgmt_cancel_index leaves queues that lost some requests.
LEMMA CancelIndexThins ==
  ASSUME MgmtInv, NEW index \in Index, CancelIndex(index)
  PROVE  /\ request_queue' \in Seq(MgmtRequest) /\ Thins(request_queue, request_queue')
         /\ reply_queue' \in Seq(MgmtRequest) /\ Thins(reply_queue, reply_queue')
         /\ pending_list' \in Seq(MgmtRequest) /\ Thins(pending_list, pending_list')
  BY RemovedSome DEF MgmtInv, MgmtTypeOK, CancelIndex, RemoveIndex

LEMMA DroppedType ==
  ASSUME MgmtTypeOK, Dropped
  PROVE  outcome' \in OutcomeType
  BY DEF MgmtTypeOK, Dropped, OutcomeType

LEMMA CancelIndexInv ==
  ASSUME MgmtInv, NEW index \in Index, CancelIndex(index)
  PROVE  MgmtInv'
<1>1. crossed' \in BOOLEAN /\ stalled' \in BOOLEAN
  BY ZenonT(30) DEF MgmtInv, MgmtTypeOK, CancelIndex
<1>2. MgmtTypeOK'
  BY <1>1, CancelIndexThins, DroppedType DEF MgmtInv, MgmtTypeOK, CancelIndex, OutcomeType
<1>8. RightQueue'
  BY CancelIndexThins, ThinnedStays DEF MgmtInv
<1> QED BY <1>2, <1>8 DEF MgmtInv

LEMMA UnrefInv == ASSUME MgmtInv, Unref PROVE MgmtInv'
<1>0. <<>> \in Seq(MgmtRequest) /\ DOMAIN <<>> = {}
  OBVIOUS
<1>1. MgmtTypeOK'
  BY <1>0, DroppedType DEF MgmtInv, MgmtTypeOK, Unref, OutcomeType
<1>2. RightQueue'
  BY <1>0 DEF Unref, RightQueue
<1> QED BY <1>1, <1>2 DEF MgmtInv

\* Every step keeps the invariant.
LEMMA MgmtStepInv == MgmtInv /\ [MgmtNext]_mgmtVars => MgmtInv'
<1> SUFFICES ASSUME MgmtInv, [MgmtNext]_mgmtVars PROVE MgmtInv'
  OBVIOUS
<1>1. CASE MgmtCalls
  <2>1. CASE \E opcode \in Opcode, index \in Index :
               \/ Send(opcode, index) \/ Reply(opcode, index)
               \/ \E ok \in BOOLEAN : SendNowait(opcode, index, ok)
    BY <2>1, SendInv, ReplyInv, SendNowaitInv
  <2>2. CASE \E id \in Id : Cancel(id)
    BY <2>2, CancelInv
  <2>3. CASE \E index \in Index : CancelIndex(index)
    BY <2>3, CancelIndexInv
  <2>4. CASE Unref
    BY <2>4, UnrefInv
  <2> QED BY <1>1, <2>1, <2>2, <2>3, <2>4 DEF MgmtCalls
<1>2. CASE MgmtWriter
  BY <1>2, WriteReplyInv, WriteRequestInv DEF MgmtWriter
<1>3. CASE WriterStops
  BY <1>3 DEF WriterStops, lists, MgmtInv, MgmtTypeOK, RightQueue
<1>4. CASE \E answer \in asked : RequestComplete(answer)
  BY <1>4, RequestCompleteInv
<1>5. CASE ReadFails
  BY <1>5 DEF ReadFails, lists, MgmtInv, MgmtTypeOK, RightQueue
<1>6. CASE UNCHANGED mgmtVars
  BY <1>6 DEF mgmtVars, lists, MgmtInv, MgmtTypeOK, RightQueue
<1> QED BY <1>1, <1>2, <1>3, <1>4, <1>5, <1>6 DEF MgmtNext

LEMMA MgmtInvAlways == MgmtSpec => []MgmtInv
  BY MgmtInitInv, MgmtStepInv, PTL DEF MgmtSpec

\* The variables of the management socket keep their types (shared/mgmt.c).
THEOREM MgmtTypeCorrect == MgmtSpec => []MgmtTypeOK
<1>1. MgmtInv => MgmtTypeOK
  BY DEF MgmtInv
<1> QED BY <1>1, MgmtInvAlways, PTL

-----------------------------------------------------------------------------
(* The write watch.                                                         *)

LEMMA WakeupWakes ==
  ASSUME Wakeup
  PROVE  writer_active' \/ (pending_list' # <<>> /\ reply_queue' = <<>>)
  BY DEF Wakeup

\* Appending to a queue leaves it not empty.
LEMMA AppendNotEmpty ==
  ASSUME NEW S, NEW s \in Seq(S), NEW e \in S
  PROVE  Append(s, e) # <<>>
<1>1. Len(Append(s, e)) = Len(s) + 1 /\ Len(s) \in Nat
  OBVIOUS
<1>2. Len(<<>>) = 0
  OBVIOUS
<1> QED BY <1>1, <1>2

\* A thinned queue that holds something held something before.
LEMMA ThinnedNotEmpty ==
  ASSUME NEW S, NEW s \in Seq(S), NEW t \in Seq(S), Thins(s, t), t # <<>>
  PROVE  s # <<>>
<1>1. 1 \in DOMAIN t
  OBVIOUS
<1>2. \E k \in DOMAIN s : TRUE
  BY <1>1 DEF Thins
<1> QED BY <1>2

LEMMA AwakeStep == MgmtInv /\ MgmtWriterAwake /\ [MgmtNext]_mgmtVars => MgmtWriterAwake'
<1> SUFFICES ASSUME MgmtInv, MgmtWriterAwake, [MgmtNext]_mgmtVars,
                    InUse', ~stalled', MayWrite' \/ reply_queue' # <<>>
             PROVE  writer_active'
  BY DEF MgmtWriterAwake
<1>0. MgmtTypeOK
  BY DEF MgmtInv
<1>1. CASE \E opcode \in Opcode, index \in Index : Send(opcode, index) \/ Reply(opcode, index)
  BY <1>1, WakeupWakes DEF Send, Reply, MayWrite
<1>2. CASE \E opcode \in Opcode, index \in Index, ok \in BOOLEAN : SendNowait(opcode, index, ok)
  <2>1. PICK opcode \in Opcode, index \in Index, ok \in BOOLEAN : SendNowait(opcode, index, ok)
    BY <1>2
  <2>2. NewRequest(opcode, index, "nowait") \in MgmtRequest
    BY <2>1, NewRequestType DEF SendNowait
  <2>3. pending_list' # <<>> \/ pending_list' = pending_list
    BY <1>0, <2>1, <2>2, AppendNotEmpty DEF SendNowait, Sent, MgmtTypeOK
  <2>4. MayWrite \/ reply_queue # <<>>
    BY <2>1, <2>3 DEF SendNowait, MayWrite
  <2> QED BY <2>1, <2>4 DEF SendNowait, MgmtWriterAwake, InUse
<1>3. CASE \E ok \in BOOLEAN : WriteReply(ok)
  <2>1. PICK ok \in BOOLEAN : WriteReply(ok)
    BY <1>3
  <2>2. CASE ok
    <3>1. Head(reply_queue) \in MgmtRequest
      BY <1>0, <2>1 DEF WriteReply, MgmtTypeOK
    <3>2. pending_list' # <<>>
      BY <1>0, <2>1, <2>2, <3>1, AppendNotEmpty DEF WriteReply, Sent, MgmtTypeOK
    <3> QED BY <2>1, <2>2, <3>2 DEF WriteReply, MayWrite
  <2>3. CASE ~ok
    BY <2>1, <2>3 DEF WriteReply
  <2> QED BY <2>2, <2>3
<1>4. CASE \E ok \in BOOLEAN : WriteRequest(ok)
  <2>1. PICK ok \in BOOLEAN : WriteRequest(ok)
    BY <1>4
  <2>2. CASE ok
    <3>1. Head(request_queue) \in MgmtRequest
      BY <1>0, <2>1 DEF WriteRequest, MayWrite, MgmtTypeOK
    <3>2. pending_list' # <<>>
      BY <1>0, <2>1, <2>2, <3>1, AppendNotEmpty DEF WriteRequest, Sent, MgmtTypeOK
    <3> QED BY <2>1, <2>2, <3>2 DEF WriteRequest, MayWrite
  <2>3. CASE ~ok
    BY <2>1, <2>3 DEF WriteRequest
  <2> QED BY <2>2, <2>3
<1>5. CASE WriterStops
  BY <1>5 DEF WriterStops, MayWrite, lists
<1>6. CASE \E answer \in asked : RequestComplete(answer)
  BY <1>6, WakeupWakes DEF RequestComplete, MayWrite
<1>7. CASE ReadFails
  BY <1>7 DEF ReadFails, MgmtWriterAwake, InUse, MayWrite, lists
<1>8. CASE \E id \in Id : Cancel(id)
  BY <1>8, WakeupWakes DEF Cancel, MayWrite
<1>9. CASE \E index \in Index : CancelIndex(index)
  <2>1. PICK index \in Index : CancelIndex(index)
    BY <1>9
  <2>2. CASE pending_list' # pending_list
    BY <2>1, <2>2 DEF CancelIndex
  <2>3. CASE pending_list' = pending_list
    <3>1. request_queue' # <<>> => request_queue # <<>>
      BY <1>0, <2>1, CancelIndexThins, ThinnedNotEmpty DEF MgmtTypeOK
    <3>2. reply_queue' # <<>> => reply_queue # <<>>
      BY <1>0, <2>1, CancelIndexThins, ThinnedNotEmpty DEF MgmtTypeOK
    <3>3. MayWrite \/ reply_queue # <<>>
      BY <2>3, <3>1, <3>2 DEF MayWrite
    <3>4. InUse /\ ~stalled
      BY <2>1 DEF CancelIndex, InUse
    <3> QED BY <2>1, <3>3, <3>4 DEF MgmtWriterAwake, CancelIndex
  <2> QED BY <2>2, <2>3
<1>10. CASE Unref
  BY <1>10 DEF Unref, InUse
<1>11. CASE UNCHANGED mgmtVars
  BY <1>11 DEF mgmtVars, lists, MgmtWriterAwake, InUse, MayWrite
<1> QED BY <1>1, <1>2, <1>3, <1>4, <1>5, <1>6, <1>7, <1>8, <1>9, <1>10, <1>11
        DEF MgmtNext, MgmtCalls, MgmtWriter

\* No path but mgmt_cancel_index leaves something to write without a write
\* watch (wakeup_writer).
THEOREM MgmtWriterAwakeAlways == MgmtSpec => []MgmtWriterAwake
<1>1. MgmtInit => MgmtWriterAwake
  BY DEF MgmtInit, MgmtWriterAwake, MayWrite
<1> QED BY <1>1, AwakeStep, MgmtInvAlways, PTL DEF MgmtSpec

-----------------------------------------------------------------------------
(* A user that only sends.                                                  *)

\* The kernel has exactly the command that is pending, and there is at most one.
Alone ==
  ~crossed =>
    /\ \A i \in Id : outcome[i] # "mixed"
    /\ InUse => reply_queue = <<>> /\
         (\/ pending_list = <<>> /\ asked = {}
          \/ \E r \in MgmtRequest : pending_list = <<r>> /\ asked = {r})

\* Appending to nothing, and removing the only element.
LEMMA AppendToNothing == ASSUME NEW r PROVE Append(<<>>, r) = <<r>>
  OBVIOUS

LEMMA RemoveTheOnly == ASSUME NEW r \in MgmtRequest PROVE RemoveAt(<<r>>, 1) = <<>>
<1>1. <<r>> \in Seq(MgmtRequest) /\ 1 \in DOMAIN <<r>> /\ Len(<<r>>) = 1
  OBVIOUS
<1>2. RemoveAt(<<r>>, 1) \in Seq(MgmtRequest) /\ Len(RemoveAt(<<r>>, 1)) = 1 - 1
  BY <1>1, RemoveAtThins
<1> QED BY <1>2, EmptySeq

LEMMA AloneStep == MgmtInv /\ Alone /\ [MgmtNext]_mgmtVars => Alone'
<1> SUFFICES ASSUME MgmtInv, Alone, [MgmtNext]_mgmtVars, ~crossed'
             PROVE  Alone'
  BY DEF Alone
<1>0. MgmtTypeOK
  BY DEF MgmtInv
<1>1. CASE \E opcode \in Opcode, index \in Index : Send(opcode, index)
  BY <1>0, <1>1 DEF Send, Alone, InUse, MgmtTypeOK, Creates
<1>2. CASE \E opcode \in Opcode, index \in Index :
             Reply(opcode, index) \/ \E ok \in BOOLEAN : SendNowait(opcode, index, ok)
  BY <1>2 DEF Reply, SendNowait
<1>3. CASE \E ok \in BOOLEAN : WriteReply(ok)
  BY <1>3 DEF WriteReply, Alone
<1>4. CASE \E ok \in BOOLEAN : WriteRequest(ok)
  <2>1. PICK ok \in BOOLEAN : WriteRequest(ok)
    BY <1>4
  <2> DEFINE r == Head(request_queue)
  <2>2. r \in MgmtRequest /\ InUse /\ InUse' /\ ~crossed /\ pending_list = <<>>
    BY <1>0, <2>1 DEF WriteRequest, MayWrite, MgmtTypeOK, InUse
  <2>3. reply_queue' = <<>> /\ Sent(r, ok)
    BY <2>1 DEF WriteRequest, MayWrite
  <2>4. asked = {}
    BY <2>2 DEF Alone
  <2> HIDE DEF r
  <2>5. \A i \in Id : outcome'[i] # "mixed"
    BY <1>0, <2>2, <2>3 DEF Alone, Sent, MgmtTypeOK
  <2>6. \/ pending_list' = <<>> /\ asked' = {}
        \/ pending_list' = <<r>> /\ asked' = {r}
    BY <2>2, <2>3, <2>4, AppendToNothing DEF Sent
  <2> QED BY <2>2, <2>3, <2>5, <2>6 DEF Alone
<1>5. CASE WriterStops
  BY <1>5 DEF WriterStops, lists, Alone, InUse
<1>6. CASE \E answer \in asked : RequestComplete(answer)
  <2>1. PICK answer \in asked : RequestComplete(answer)
    BY <1>6
  <2>2. InUse /\ ~crossed /\ reply_queue' = reply_queue /\ asked' = asked \ {answer}
    BY <2>1 DEF RequestComplete, InUse
  <2>3. answer \in MgmtRequest /\ pending_list = <<answer>> /\ asked = {answer} /\ reply_queue = <<>>
    BY <2>1, <2>2 DEF Alone
  <2>4. pending_list[1] = answer /\ DOMAIN pending_list = {1}
    BY <2>3
  <2>5. PICK k \in DOMAIN pending_list :
               /\ pending_list' = RemoveAt(pending_list, k)
               /\ outcome' = [outcome EXCEPT ![pending_list[k].id] =
                                IF pending_list[k] = answer THEN "answered" ELSE "mixed"]
    BY <2>1, <2>4 DEF RequestComplete, Matches
  <2>6. pending_list' = <<>>
    BY <2>3, <2>4, <2>5, RemoveTheOnly
  <2>7. outcome' = [outcome EXCEPT ![answer.id] = "answered"]
    BY <2>4, <2>5
  <2>8. \A i \in Id : outcome'[i] # "mixed"
    BY <1>0, <2>2, <2>7 DEF Alone, MgmtTypeOK
  <2>9. asked' = {}
    BY <2>2, <2>3
  <2> QED BY <2>2, <2>3, <2>6, <2>8, <2>9 DEF Alone
<1>7. CASE ReadFails
  BY <1>7 DEF ReadFails, lists, Alone, InUse
<1>8. CASE \E id \in Id : Cancel(id)
  <2>1. PICK id \in Id : Cancel(id)
    BY <1>8
  <2>2. InUse /\ InUse' /\ asked' = asked /\ outcome' = [outcome EXCEPT ![id] = "dropped"]
    BY <2>1 DEF Cancel, InUse
  <2>3. ~crossed /\ pending_list' = pending_list
    BY <2>1 DEF Cancel
  <2>4. reply_queue = <<>>
    BY <2>2, <2>3 DEF Alone
  <2>5. reply_queue' = reply_queue
    BY <2>1, <2>4 DEF Cancel, CancelFrom
  <2>6. \A i \in Id : outcome'[i] # "mixed"
    BY <1>0, <2>2, <2>3 DEF Alone, MgmtTypeOK
  <2> QED BY <2>2, <2>3, <2>4, <2>5, <2>6 DEF Alone
<1>9. CASE \E index \in Index : CancelIndex(index)
  <2>1. PICK index \in Index : CancelIndex(index)
    BY <1>9
  <2>2. InUse /\ InUse' /\ asked' = asked /\ ~crossed /\ pending_list' = pending_list /\ Dropped
    BY <2>1 DEF CancelIndex, InUse
  <2>3. reply_queue = <<>>
    BY <2>2 DEF Alone
  <2>4. reply_queue' = <<>>
    BY <1>0, <2>1, <2>3, CancelIndexThins, ThinnedNotEmpty DEF MgmtTypeOK
  <2>5. \A i \in Id : outcome'[i] # "mixed"
    BY <2>2 DEF Alone, Dropped
  <2> QED BY <2>2, <2>4, <2>5 DEF Alone
<1>10. CASE Unref
  BY <1>10 DEF Unref, InUse, Alone, Dropped
<1>11. CASE UNCHANGED mgmtVars
  BY <1>11 DEF mgmtVars, lists, Alone, InUse
<1> QED BY <1>1, <1>2, <1>3, <1>4, <1>5, <1>6, <1>7, <1>8, <1>9, <1>10, <1>11
        DEF MgmtNext, MgmtCalls, MgmtWriter

LEMMA AloneAlways == MgmtSpec => []Alone
<1>1. MgmtInit => Alone
  BY DEF MgmtInit, Alone
<1> QED BY <1>1, AloneStep, MgmtInvAlways, PTL DEF MgmtSpec

\* As long as a user only sends, every answer goes to its own command.
THEOREM MgmtOwnAnswerAlways == MgmtSpec => []MgmtOwnAnswer
<1>1. Alone => MgmtOwnAnswer
  BY DEF Alone, MgmtOwnAnswer
<1> QED BY <1>1, AloneAlways, PTL

-----------------------------------------------------------------------------
(* The commands implement the channel of transactions.                      *)

\* Thinning a queue thins the numbers in it.
LEMMA NumbersThin ==
  ASSUME NEW s, NEW t, Thins(s, t)
  PROVE  Channel!Thinned(Numbers(s), Numbers(t))
<1>1. DOMAIN Numbers(s) = DOMAIN s /\ DOMAIN Numbers(t) = DOMAIN t
  BY DEF Numbers
<1>2. PICK f \in [DOMAIN t -> DOMAIN s] :
         /\ \A i, j \in DOMAIN t : i < j => f[i] < f[j]
         /\ \A i \in DOMAIN t : t[i] = s[f[i]]
  BY DEF Thins
<1>3. \A i \in DOMAIN t : Numbers(t)[i] = Numbers(s)[f[i]]
  BY <1>2 DEF Numbers
<1> QED BY <1>1, <1>2, <1>3 DEF Channel!Thinned

\* The numbers of a queue are as many, in its order.
LEMMA NumbersType ==
  ASSUME NEW s \in Seq(MgmtRequest)
  PROVE  /\ Numbers(s) \in Seq(Id) /\ Len(Numbers(s)) = Len(s) /\ Len(s) \in Nat
         /\ \A k \in 1 .. Len(s) : Numbers(s)[k] = s[k].id
<1>1. Len(s) \in Nat /\ DOMAIN s = 1 .. Len(s) /\ \A k \in 1 .. Len(s) : s[k] \in MgmtRequest
  OBVIOUS
<1>2. Numbers(s) = [k \in 1 .. Len(s) |-> s[k].id]
  BY <1>1 DEF Numbers
<1>3. \A k \in 1 .. Len(s) : s[k].id \in Id
  BY <1>1 DEF MgmtRequest
<1>4. Numbers(s) \in [1 .. Len(s) -> Id]
  BY <1>2, <1>3
<1>5. Numbers(s) \in Seq(Id)
  BY <1>1, <1>4
<1>6. Len(Numbers(s)) = Len(s)
  BY <1>1, <1>4, <1>5
<1> QED BY <1>1, <1>2, <1>5, <1>6

LEMMA NumbersAppend ==
  ASSUME NEW s \in Seq(MgmtRequest), NEW r \in MgmtRequest
  PROVE  Numbers(Append(s, r)) = Append(Numbers(s), r.id)
<1>1. Append(s, r) \in Seq(MgmtRequest) /\ Len(Append(s, r)) = Len(s) + 1 /\ Len(s) \in Nat
        /\ Append(s, r)[Len(s) + 1] = r
        /\ \A k \in 1 .. Len(s) : Append(s, r)[k] = s[k]
  BY AppendProperties
<1>2. r.id \in Id
  BY DEF MgmtRequest
<1>3. Numbers(s) \in Seq(Id) /\ Len(Numbers(s)) = Len(s)
        /\ \A k \in 1 .. Len(s) : Numbers(s)[k] = s[k].id
  BY NumbersType
<1>4. Append(Numbers(s), r.id) \in Seq(Id) /\ Len(Append(Numbers(s), r.id)) = Len(s) + 1
        /\ Append(Numbers(s), r.id)[Len(s) + 1] = r.id
        /\ \A k \in 1 .. Len(s) : Append(Numbers(s), r.id)[k] = s[k].id
  BY <1>2, <1>3, AppendProperties
<1>5. Numbers(Append(s, r)) \in Seq(Id) /\ Len(Numbers(Append(s, r))) = Len(s) + 1
        /\ \A k \in 1 .. (Len(s) + 1) : Numbers(Append(s, r))[k] = Append(s, r)[k].id
  BY <1>1, NumbersType
<1>6. \A k \in 1 .. (Len(s) + 1) : Numbers(Append(s, r))[k] = Append(Numbers(s), r.id)[k]
  <2>1. ASSUME NEW k \in 1 .. Len(s)
        PROVE  Numbers(Append(s, r))[k] = Append(Numbers(s), r.id)[k]
    BY <1>1, <1>4, <1>5
  <2> QED BY <1>1, <1>4, <1>5, <2>1
<1> QED BY <1>4, <1>5, <1>6, SeqEqual

LEMMA NumbersTail ==
  ASSUME NEW s \in Seq(MgmtRequest), s # <<>>
  PROVE  /\ Numbers(s) # <<>>
         /\ Head(Numbers(s)) = Head(s).id
         /\ Numbers(Tail(s)) = Tail(Numbers(s))
<1>1. Tail(s) \in Seq(MgmtRequest) /\ Len(Tail(s)) = Len(s) - 1
        /\ \A k \in 1 .. Len(Tail(s)) : Tail(s)[k] = s[k + 1]
  BY HeadTailProperties
<1>2. Len(s) \in Nat \ {0} /\ Head(s) = s[1]
  OBVIOUS
<1>3. Numbers(s) \in Seq(Id) /\ Len(Numbers(s)) = Len(s)
        /\ \A k \in 1 .. Len(s) : Numbers(s)[k] = s[k].id
  BY NumbersType
<1>4. Numbers(s) # <<>> /\ Head(Numbers(s)) = Numbers(s)[1]
  BY <1>2, <1>3
<1>5. Tail(Numbers(s)) \in Seq(Id) /\ Len(Tail(Numbers(s))) = Len(s) - 1
        /\ \A k \in 1 .. (Len(s) - 1) : Tail(Numbers(s))[k] = Numbers(s)[k + 1]
  BY <1>3, <1>4, HeadTailProperties
<1>6. Numbers(Tail(s)) \in Seq(Id) /\ Len(Numbers(Tail(s))) = Len(s) - 1
        /\ \A k \in 1 .. (Len(s) - 1) : Numbers(Tail(s))[k] = Tail(s)[k].id
  BY <1>1, NumbersType
<1>7. \A k \in 1 .. (Len(s) - 1) : Numbers(Tail(s))[k] = Tail(Numbers(s))[k]
  BY <1>1, <1>2, <1>3, <1>5, <1>6
<1>8. Numbers(Tail(s)) = Tail(Numbers(s))
  BY <1>5, <1>6, <1>7, SeqEqual
<1> QED BY <1>2, <1>3, <1>4, <1>8

\* What happens to the queues when something ends before its turn.
LEMMA WithdrawStep ==
  ASSUME Thins(request_queue, request_queue'),
         {pending_list'[k].id : k \in OfSend'} \subseteq {pending_list[k].id : k \in OfSend},
         UNCHANGED next_request_id
  PROVE  Channel!ChannelNext
<1>1. Channel!Thinned(Numbers(request_queue), Numbers(request_queue)')
  BY NumbersThin DEF Numbers
<1>2. Channel!Withdraw
  BY <1>1 DEF Channel!Withdraw
<1> QED BY <1>2 DEF Channel!ChannelNext

\* A thinned list of what is pending holds no other commands.
LEMMA FlyingShrinks ==
  ASSUME Thins(pending_list, pending_list')
  PROVE  {pending_list'[k].id : k \in OfSend'} \subseteq {pending_list[k].id : k \in OfSend}
<1>1. PICK f \in [DOMAIN pending_list' -> DOMAIN pending_list] :
             \A i \in DOMAIN pending_list' : pending_list'[i] = pending_list[f[i]]
  BY DEF Thins
<1>2. ASSUME NEW k \in OfSend' PROVE f[k] \in OfSend /\ pending_list'[k].id = pending_list[f[k]].id
  BY <1>1, <1>2 DEF OfSend
<1> QED BY <1>2

\* What was written without being a command is none of the channel's.
LEMMA FlyingSame ==
  ASSUME MgmtTypeOK, NEW r \in MgmtRequest, r.by # "send",
         pending_list' = Append(pending_list, r)
  PROVE  {pending_list'[k].id : k \in OfSend'} = {pending_list[k].id : k \in OfSend}
<1>1. Len(pending_list) \in Nat /\ DOMAIN pending_list = 1 .. Len(pending_list)
        /\ DOMAIN pending_list' = 1 .. (Len(pending_list) + 1)
        /\ pending_list'[Len(pending_list) + 1] = r
        /\ \A k \in DOMAIN pending_list : pending_list'[k] = pending_list[k]
  BY DEF MgmtTypeOK
<1>2. OfSend' = OfSend
  BY <1>1 DEF OfSend
<1>3. \A k \in OfSend : pending_list'[k].id = pending_list[k].id
  BY <1>1 DEF OfSend
<1> QED BY <1>2, <1>3

\* Every step is one of the channel, or none.
LEMMA CommandsStep ==
  MgmtInv /\ [MgmtNext]_mgmtVars => [Channel!ChannelNext]_(Channel!channel)
<1> SUFFICES ASSUME MgmtInv, [MgmtNext]_mgmtVars
             PROVE  Channel!ChannelNext \/ UNCHANGED Channel!channel
  OBVIOUS
<1> DEFINE flying == {pending_list[k].id : k \in OfSend}
           waiting == Numbers(request_queue)
           issued == next_request_id - 1
<1>0. MgmtTypeOK
  BY DEF MgmtInv
<1>a. Thins(request_queue, request_queue)
  BY <1>0, RemovedNone DEF MgmtTypeOK
<1>b. pending_list' = pending_list => flying' = flying
  BY DEF OfSend
<1>c. ASSUME Creates PROVE issued \in Nat /\ issued' = next_request_id /\ issued' \in Nat
                            /\ issued' >= issued /\ next_request_id \in (issued + 1) .. issued'
  BY <1>0, <1>c, MgmtAssumption DEF Creates, MgmtTypeOK
<1>1. CASE \E opcode \in Opcode, index \in Index : Send(opcode, index)
  <2>1. PICK opcode \in Opcode, index \in Index : Send(opcode, index)
    BY <1>1
  <2> DEFINE new == NewRequest(opcode, index, "send")
  <2>2. Creates /\ request_queue' = Append(request_queue, new) /\ flying' = flying
    BY <2>1, <1>b DEF Send
  <2>3. new \in MgmtRequest /\ new.id = next_request_id
    BY <2>2, NewRequestType
  <2> HIDE DEF new
  <2>4. waiting' = Append(waiting, next_request_id)
    BY <1>0, <2>2, <2>3, NumbersAppend DEF MgmtTypeOK
  <2>5. Channel!Submit
    BY <1>c, <2>2, <2>4 DEF Channel!Submit, Channel!Numbered, Channel!Submitted
  <2> QED BY <2>5 DEF Channel!ChannelNext
<1>2. ASSUME Creates, flying' = flying, request_queue' = request_queue
      PROVE  Channel!ChannelNext
  <2>1. waiting' = waiting
    BY <1>2 DEF Numbers
  <2>2. Channel!Pass
    BY <1>c, <1>2, <2>1 DEF Channel!Pass, Channel!Numbered
  <2> QED BY <2>2 DEF Channel!ChannelNext
<1>3. CASE \E opcode \in Opcode, index \in Index : Reply(opcode, index)
  BY <1>3, <1>2, <1>b DEF Reply
<1>4. CASE \E opcode \in Opcode, index \in Index, ok \in BOOLEAN : SendNowait(opcode, index, ok)
  <2>1. PICK opcode \in Opcode, index \in Index, ok \in BOOLEAN : SendNowait(opcode, index, ok)
    BY <1>4
  <2> DEFINE new == NewRequest(opcode, index, "nowait")
  <2>2. Creates /\ Sent(new, ok) /\ request_queue' = request_queue
    BY <2>1 DEF SendNowait
  <2>3. new \in MgmtRequest /\ new.by = "nowait"
    BY <2>2, NewRequestType
  <2> HIDE DEF new
  <2>4. flying' = flying
    BY <1>0, <1>b, <2>2, <2>3, FlyingSame DEF Sent
  <2> QED BY <1>2, <2>2, <2>4
<1>5. CASE \E ok \in BOOLEAN : WriteReply(ok)
  <2>1. PICK ok \in BOOLEAN : WriteReply(ok)
    BY <1>5
  <2> DEFINE r == Head(reply_queue)
  <2>2. r \in MgmtRequest /\ r.by # "send"
    BY <1>0, <2>1 DEF WriteReply, MgmtTypeOK, MgmtInv, RightQueue
  <2>3. Sent(r, ok) /\ request_queue' = request_queue /\ next_request_id' = next_request_id
    BY <2>1 DEF WriteReply
  <2> HIDE DEF r
  <2>4. flying' = flying
    BY <1>0, <1>b, <2>2, <2>3, FlyingSame DEF Sent
  <2> QED BY <1>a, <2>3, <2>4, WithdrawStep
<1>6. CASE \E ok \in BOOLEAN : WriteRequest(ok)
  <2>1. PICK ok \in BOOLEAN : WriteRequest(ok)
    BY <1>6
  <2> DEFINE r == Head(request_queue)
  <2>2. /\ request_queue \in Seq(MgmtRequest) /\ request_queue # <<>>
        /\ r \in MgmtRequest /\ r.by = "send"
    BY <1>0, <2>1 DEF WriteRequest, MayWrite, MgmtTypeOK, MgmtInv, RightQueue
  <2>3. /\ Sent(r, ok) /\ request_queue' = Tail(request_queue)
        /\ next_request_id' = next_request_id /\ pending_list = <<>>
    BY <2>1 DEF WriteRequest, MayWrite
  <2>4. CASE ~ok
    <3>1. flying' = flying
      BY <1>b, <2>3, <2>4 DEF Sent
    <3>2. Thins(request_queue, request_queue')
      BY <2>2, <2>3, RemovedHead
    <3> QED BY <2>3, <3>1, <3>2, WithdrawStep
  <2>5. CASE ok
    <3>1. waiting # <<>> /\ Head(waiting) = r.id /\ waiting' = Tail(waiting)
      BY <2>2, <2>3, NumbersTail
    <3>2. pending_list' = <<r>>
      BY <2>3, <2>5, AppendToNothing DEF Sent
    <3>3. flying = {} /\ flying' = {r.id}
      <4>1. OfSend = {}
        BY <2>3 DEF OfSend
      <4>2. OfSend' = {1} /\ pending_list'[1] = r
        BY <2>2, <3>2 DEF OfSend
      <4> QED BY <4>1, <4>2
    <3> HIDE DEF r
    <3>4. Channel!Start
      BY <2>3, <3>1, <3>3 DEF Channel!Start
    <3> QED BY <3>4 DEF Channel!ChannelNext
  <2> QED BY <2>4, <2>5
<1>7. CASE WriterStops
  BY <1>7, <1>a, <1>b, WithdrawStep DEF WriterStops, lists
<1>8. CASE \E answer \in asked : RequestComplete(answer)
  <2>1. request_queue' = request_queue /\ next_request_id' = next_request_id
    BY <1>8 DEF RequestComplete
  <2>2. Thins(pending_list, pending_list')
    <3>1. pending_list \in Seq(MgmtRequest)
      BY <1>0 DEF MgmtTypeOK
    <3>2. \/ pending_list' = pending_list
          \/ \E k \in DOMAIN pending_list : pending_list' = RemoveAt(pending_list, k)
      BY <1>8 DEF RequestComplete
    <3> QED BY <3>1, <3>2, RemovedOne, RemovedNone
  <2> QED BY <1>a, <2>1, <2>2, FlyingShrinks, WithdrawStep
<1>9. CASE ReadFails
  BY <1>9, <1>a, <1>b, WithdrawStep DEF ReadFails, lists
<1>10. CASE \E id \in Id : Cancel(id)
  <2>1. PICK id \in Id : Cancel(id)
    BY <1>10
  <2>2. next_request_id' = next_request_id
    BY <2>1 DEF Cancel
  <2> QED BY <2>1, <2>2, CancelThins, FlyingShrinks, WithdrawStep
<1>11. CASE \E index \in Index : CancelIndex(index)
  <2>1. PICK index \in Index : CancelIndex(index)
    BY <1>11
  <2>2. next_request_id' = next_request_id
    BY <2>1 DEF CancelIndex
  <2> QED BY <2>1, <2>2, CancelIndexThins, FlyingShrinks, WithdrawStep
<1>12. CASE Unref
  <2>1. request_queue' = <<>> /\ pending_list' = <<>> /\ next_request_id' = next_request_id
    BY <1>12 DEF Unref
  <2>2. Thins(request_queue, request_queue') /\ Thins(pending_list, pending_list')
    BY <2>1, RemovedAll
  <2> QED BY <2>1, <2>2, FlyingShrinks, WithdrawStep
<1>13. CASE UNCHANGED mgmtVars
  BY <1>13, <1>a, <1>b, WithdrawStep DEF mgmtVars, lists
<1> QED BY <1>1, <1>2, <1>3, <1>4, <1>5, <1>6, <1>7, <1>8, <1>9, <1>10, <1>11, <1>12, <1>13
        DEF MgmtNext, MgmtCalls, MgmtWriter

\* The commands of mgmt_send are a channel of transactions: what shared/mgmt.c
\* does implements Transactions, whatever else its users do.
THEOREM CommandsInTurnAlways == MgmtSpec => CommandsInTurn
<1>1. MgmtInit => Channel!ChannelInit
  <2> SUFFICES ASSUME MgmtInit PROVE Channel!ChannelInit
    OBVIOUS
  <2>1. OfSend = {} /\ Numbers(request_queue) = <<>>
    BY DEF MgmtInit, OfSend, Numbers
  <2> QED BY <2>1 DEF MgmtInit, Channel!ChannelInit
<1> QED BY <1>1, CommandsStep, MgmtInvAlways, PTL
        DEF MgmtSpec, CommandsInTurn, Channel!ChannelSpec

-----------------------------------------------------------------------------
(* A program's HCI socket.                                                 *)

\* A return of hci_send_req puts the old filter back.
LEMMA FilterInit == PartsInit => FilterRestored
BY DEF PartsInit, FilterRestored, Hci!FilterRestored, Hci!HciInit

LEMMA FilterStep == FilterRestored /\ [PartsNext]_partsVars => FilterRestored'
<1>1. SUFFICES ASSUME FilterRestored, [PartsNext]_partsVars PROVE FilterRestored'
  OBVIOUS
<1>2. CASE UNCHANGED hciVars
  BY <1>1, <1>2 DEF FilterRestored, Hci!FilterRestored, hciVars
<1>3. CASE Hci!HciNext
  <2>1. CASE Hci!CallFails
    BY <1>1, <2>1 DEF FilterRestored, Hci!FilterRestored, Hci!CallFails
  <2>2. CASE Hci!Take
    BY <1>1, <2>2 DEF FilterRestored, Hci!FilterRestored, Hci!Take, Hci!GiveUp, Hci!Return
  <2>3. CASE Hci!TimesOut \/ Hci!ReadFails
    BY <2>3 DEF FilterRestored, Hci!FilterRestored, Hci!TimesOut, Hci!ReadFails, Hci!GiveUp,
      Hci!Return
  <2>4. CASE Hci!Kernel
    <3>1. UNCHANGED <<filter, old_filter, pc>>
      BY <2>4 DEF Hci!Kernel, Hci!Completed, Hci!Refused, Hci!Begun, Hci!Over, Hci!OtherEvent,
        Hci!KernelUnchanged
    <3>2. QED BY <1>1, <3>1 DEF FilterRestored, Hci!FilterRestored
  <2>5. CASE \E c \in Called, p \in Peer, t \in Timeouts : Hci!Call(c, p, t)
    <3>1. pc' = "wait"
      BY <2>5 DEF Hci!Call
    <3>2. QED BY <3>1 DEF FilterRestored, Hci!FilterRestored
  <2>6. QED BY <1>3, <2>1, <2>2, <2>3, <2>4, <2>5 DEF Hci!HciNext
<1>4. QED
  BY <1>1, <1>2, <1>3 DEF PartsNext, MgmtStep, HciStep, BtIoStep, BearerStep,
    OnlyMgmt, OnlyHci, OnlyBtIo, OnlyBearer, partsVars

\* Outside a call of hci_send_req the socket has the filter it had before.
THEOREM FilterRestoredAlways == PartsSpec => []FilterRestored
  BY FilterInit, FilterStep, PTL DEF PartsSpec

-----------------------------------------------------------------------------
(* The answer is to what was asked.                                         *)

\* codes of events and numbers of LE meta events begin with 1
Ordinary(e) ==
  /\ e.evt # Hci!NoEvent
  /\ e.evt = Hci!EVT_LE_META_EVENT => e.sub # Hci!NoEvent

\* a command in the controller is one that the program gives
Given(x) ==
  /\ x \in [id : {x.id}, opcode : {x.opcode}, event : {x.event}, peer : {x.peer},
            begun : BOOLEAN]
  /\ \E c \in Called : x.opcode = c.opcode /\ x.event = c.event
  /\ x.begun => x.event # Hci!NoEvent

\* the opcode of a command that has no event of its own, and of which nothing
\* has gone astray
Strict(o, l) ==
  /\ \E c \in Called : c.opcode = o /\ c.event = Hci!NoEvent
  /\ o \notin l

\* what the controller says to a command
Says(e) == e.evt \in {Hci!EVT_CMD_STATUS, Hci!EVT_CMD_COMPLETE}

\* of the call that is under way
Mine(o, id, p, r) == p = "wait" /\ r.command.opcode = o /\ r.id = id

\* a command in the controller, or an answer in the socket, is that of the call
\* under way, and there is one of them
MineOnly ==
  /\ \A x \in controller : Strict(x.opcode, loose) => Mine(x.opcode, x.id, pc, req)
  /\ \A i \in DOMAIN inbox :
       Says(inbox[i]) /\ Strict(inbox[i].opcode, loose) => Mine(inbox[i].opcode, inbox[i].by, pc, req)
  /\ \A x, y \in controller : Strict(x.opcode, loose) /\ x.opcode = y.opcode => x = y
  /\ \A x \in controller : \A i \in DOMAIN inbox :
       Says(inbox[i]) /\ Strict(inbox[i].opcode, loose) => inbox[i].opcode # x.opcode
  /\ \A i, j \in DOMAIN inbox :
       Says(inbox[i]) /\ Says(inbox[j]) /\ Strict(inbox[i].opcode, loose)
         /\ inbox[i].opcode = inbox[j].opcode => i = j

\* the controller has commands that were given, and the socket events
Known ==
  /\ inbox \in Seq(Range(inbox))
  /\ \A x \in controller : Given(x)
  /\ \A e \in Range(inbox) : Ordinary(e)
  /\ pc = "wait" => req.command \in Called

Own == Known /\ MineOnly

AnswerInv == Own /\ AnswerIsOurs

LEMMA BoxAppend ==
  ASSUME NEW s, s \in Seq(Range(s)), NEW e
  PROVE  /\ Append(s, e) \in Seq(Range(Append(s, e)))
         /\ \A x \in Range(Append(s, e)) : x \in Range(s) \/ x = e
<1> DEFINE S == Range(s) \cup {e}  t == Append(s, e)
<1>1. s \in Seq(S) /\ e \in S
  OBVIOUS
<1>2. t \in Seq(S)
  BY <1>1
<1> HIDE DEF S
<1>3. t \in Seq(Range(t)) /\ Range(t) \subseteq S
  BY <1>2, SeqOfRange, RangeOfSeq
<1>4. QED
  BY <1>3 DEF S

LEMMA BoxTail ==
  ASSUME NEW s, s \in Seq(Range(s)), s # <<>>
  PROVE  /\ Head(s) \in Range(s)
         /\ Tail(s) \in Seq(Range(Tail(s)))
         /\ Range(Tail(s)) \subseteq Range(s)
<1> DEFINE S == Range(s)  t == Tail(s)
<1> HIDE DEF S
<1>1. s \in Seq(S)
  BY DEF S
<1>2. Head(s) \in S /\ t \in Seq(S)
  BY <1>1
<1>3. t \in Seq(Range(t)) /\ Range(t) \subseteq S
  BY <1>2, SeqOfRange, RangeOfSeq
<1>4. QED
  BY <1>2, <1>3 DEF S

\* no command of lib/hci.c has the opcode 0, and none awaits a Command Status or
\* a Command Complete or an LE meta event as such
LEMMA EventsOfCommands ==
  \A c \in Hci!HciCommands :
    /\ c.opcode # 0
    /\ c.event # Hci!EVT_CMD_STATUS
    /\ c.event # Hci!EVT_CMD_COMPLETE
    /\ c.event # Hci!EVT_LE_META_EVENT
BY DEF
  Hci!HciCommands, Hci!hci_create_connection, Hci!hci_disconnect,
  Hci!hci_le_add_white_list, Hci!hci_le_rm_white_list,
  Hci!hci_le_read_white_list_size, Hci!hci_le_clear_white_list,
  Hci!hci_le_add_resolving_list, Hci!hci_le_rm_resolving_list,
  Hci!hci_le_clear_resolving_list, Hci!hci_le_read_resolving_list_size,
  Hci!hci_le_set_address_resolution_enable, Hci!hci_read_local_name,
  Hci!hci_write_local_name, Hci!hci_read_remote_name_with_clock_offset,
  Hci!hci_read_remote_name_cancel, Hci!hci_read_remote_version,
  Hci!hci_read_remote_features, Hci!hci_read_remote_ext_features,
  Hci!hci_read_clock_offset, Hci!hci_read_local_version,
  Hci!hci_read_local_commands, Hci!hci_read_local_features,
  Hci!hci_read_local_ext_features, Hci!hci_read_bd_addr,
  Hci!hci_read_class_of_dev, Hci!hci_write_class_of_dev,
  Hci!hci_read_voice_setting, Hci!hci_write_voice_setting,
  Hci!hci_read_current_iac_lap, Hci!hci_write_current_iac_lap,
  Hci!hci_read_stored_link_key, Hci!hci_write_stored_link_key,
  Hci!hci_delete_stored_link_key, Hci!hci_authenticate_link,
  Hci!hci_encrypt_link, Hci!hci_change_link_key, Hci!hci_switch_role,
  Hci!hci_park_mode, Hci!hci_exit_park_mode, Hci!hci_read_inquiry_scan_type,
  Hci!hci_write_inquiry_scan_type, Hci!hci_read_inquiry_mode,
  Hci!hci_write_inquiry_mode, Hci!hci_read_afh_mode, Hci!hci_write_afh_mode,
  Hci!hci_read_ext_inquiry_response, Hci!hci_write_ext_inquiry_response,
  Hci!hci_read_simple_pairing_mode, Hci!hci_write_simple_pairing_mode,
  Hci!hci_read_local_oob_data, Hci!hci_read_inq_response_tx_power_level,
  Hci!hci_write_inquiry_transmit_power_level,
  Hci!hci_read_transmit_power_level, Hci!hci_read_link_policy,
  Hci!hci_write_link_policy, Hci!hci_read_link_supervision_timeout,
  Hci!hci_write_link_supervision_timeout, Hci!hci_set_afh_classification,
  Hci!hci_read_link_quality, Hci!hci_read_rssi, Hci!hci_read_afh_map,
  Hci!hci_read_clock, Hci!hci_le_set_scan_enable,
  Hci!hci_le_set_scan_parameters, Hci!hci_le_set_advertise_enable,
  Hci!hci_le_create_conn, Hci!hci_le_conn_update,
  Hci!hci_le_read_remote_features, Hci!hci_read_remote_name,
  Hci!hci_read_inquiry_transmit_power_level, Hci!Completes, Hci!Awaits,
  Hci!Blind, Hci!CmdOpcodePack, Hci!NoEvent, Hci!EVT_CMD_COMPLETE,
  Hci!EVT_LE_META_EVENT, Hci!EVT_REMOTE_NAME_REQ_COMPLETE,
  Hci!EVT_CMD_STATUS

LEMMA AnswerInit == PartsInit => AnswerInv
<1>1. SUFFICES ASSUME PartsInit PROVE AnswerInv
  OBVIOUS
<1>2. inbox = <<>> /\ controller = {} /\ pc = "out" /\ result.ret = "none"
  BY <1>1 DEF PartsInit, Hci!HciInit, Hci!Result
<1>3. inbox \in Seq(Range(inbox)) /\ Range(inbox) = {} /\ DOMAIN inbox = {}
  BY <1>2 DEF Range
<1>4. QED
  BY <1>2, <1>3 DEF AnswerInv, Own, Known, MineOnly, AnswerIsOurs, Hci!AnswerIsOurs

\* a command has one event, or none
LEMMA OneEvent ==
  ASSUME NEW c \in Called, NEW d \in Called, c.opcode = d.opcode
  PROVE  c.event = d.event
BY PartsAssumption DEF Hci!OpcodesDistinct, Hci!HciAssumption

\* events delivered are in the socket after those that were, or nowhere
LEMMA DeliverKeeps ==
  ASSUME Known, NEW e, Hci!Deliver(e), Ordinary(e)
  PROVE  /\ inbox' \in Seq(Range(inbox'))
         /\ \A x \in Range(inbox') : Ordinary(x)
         /\ \A i \in DOMAIN inbox' :
              \/ i \in DOMAIN inbox /\ inbox'[i] = inbox[i]
              \/ i = Len(inbox) + 1 /\ i \notin DOMAIN inbox /\ inbox'[i] = e /\ Hci!Passes(e)
<1>1. inbox' = inbox \/ (inbox' = Append(inbox, e) /\ Hci!Passes(e))
  BY DEF Hci!Deliver
<1>2. CASE inbox' = inbox
  BY <1>2 DEF Known
<1>3. CASE inbox' = Append(inbox, e) /\ Hci!Passes(e)
  <2>1. inbox \in Seq(Range(inbox))
    BY DEF Known
  <2>2. /\ inbox' \in Seq(Range(inbox'))
        /\ \A x \in Range(inbox') : x \in Range(inbox) \/ x = e
    BY <1>3, <2>1, BoxAppend
  <2>3. DOMAIN inbox' = 1 .. (Len(inbox) + 1) /\ DOMAIN inbox = 1 .. Len(inbox)
        /\ Len(inbox) \in Nat
    BY <1>3, <2>1
  <2>4. \A i \in DOMAIN inbox' :
          \/ i \in DOMAIN inbox /\ inbox'[i] = inbox[i]
          \/ i = Len(inbox) + 1 /\ i \notin DOMAIN inbox /\ inbox'[i] = e
    BY <1>3, <2>1, <2>3
  <2>5. QED
    BY <1>3, <2>2, <2>4 DEF Known
<1>4. QED
  BY <1>1, <1>2, <1>3

\* a field of a record is changed, and no other
LEMMA BegunRecord ==
  ASSUME NEW I, NEW O, NEW V, NEW P,
         NEW x \in [id : I, opcode : O, event : V, peer : P, begun : BOOLEAN]
  PROVE  /\ [x EXCEPT !.begun = TRUE] \in [id : I, opcode : O, event : V, peer : P, begun : BOOLEAN]
         /\ [x EXCEPT !.begun = TRUE].id = x.id
         /\ [x EXCEPT !.begun = TRUE].opcode = x.opcode
         /\ [x EXCEPT !.begun = TRUE].event = x.event
OBVIOUS

\* the controller is done with a command, and says so with its last event
LEMMA EndKeeps ==
  ASSUME Own, NEW x \in controller, controller' = controller \ {x},
         NEW e, Hci!Deliver(e), Ordinary(e), Says(e) => e.opcode = x.opcode /\ e.by = x.id,
         UNCHANGED <<pc, req, loose>>
  PROVE  Own'
<1>1. /\ inbox' \in Seq(Range(inbox'))
      /\ \A y \in Range(inbox') : Ordinary(y)
      /\ \A i \in DOMAIN inbox' :
           \/ i \in DOMAIN inbox /\ inbox'[i] = inbox[i]
           \/ i = Len(inbox) + 1 /\ i \notin DOMAIN inbox /\ inbox'[i] = e
  BY DeliverKeeps DEF Own
<1>2. Known'
  BY <1>1 DEF Own, Known
<1>3. \A y \in controller' : y \in controller /\ y # x
  OBVIOUS
<1>4. /\ \A o : Strict(o, loose') <=> Strict(o, loose)
      /\ \A o, id : Mine(o, id, pc', req') <=> Mine(o, id, pc, req)
  BY DEF Strict, Mine
<1>5. \A i \in DOMAIN inbox' : Says(inbox'[i]) /\ Strict(inbox'[i].opcode, loose) =>
        Mine(inbox'[i].opcode, inbox'[i].by, pc, req)
  BY <1>1 DEF Own, MineOnly
<1>6. \A y \in controller' : \A i \in DOMAIN inbox' :
        Says(inbox'[i]) /\ Strict(inbox'[i].opcode, loose) => inbox'[i].opcode # y.opcode
  BY <1>1, <1>3 DEF Own, MineOnly
<1>7. \A i, j \in DOMAIN inbox' :
        Says(inbox'[i]) /\ Says(inbox'[j]) /\ Strict(inbox'[i].opcode, loose)
          /\ inbox'[i].opcode = inbox'[j].opcode => i = j
  BY <1>1 DEF Own, MineOnly
<1>8. MineOnly'
  BY <1>3, <1>4, <1>5, <1>6, <1>7 DEF Own, MineOnly, Says
<1>9. QED
  BY <1>2, <1>8 DEF Own

\* an event of no command here that is strict changes nothing of the kind; more
\* may have gone astray
LEMMA StrangerKeeps ==
  ASSUME Own, NEW e, Hci!Deliver(e), Ordinary(e), loose \subseteq loose',
         Hci!Passes(e) /\ Says(e) => ~Strict(e.opcode, loose'),
         \A x \in controller' : Given(x) /\ (x \in controller \/ ~Strict(x.opcode, loose)),
         UNCHANGED <<pc, req>>
  PROVE  Own'
<1>1. /\ inbox' \in Seq(Range(inbox'))
      /\ \A y \in Range(inbox') : Ordinary(y)
      /\ \A i \in DOMAIN inbox' :
           \/ i \in DOMAIN inbox /\ inbox'[i] = inbox[i]
           \/ inbox'[i] = e /\ Hci!Passes(e)
  BY DeliverKeeps DEF Own
<1>2. Known'
  BY <1>1 DEF Own, Known
<1>3. /\ \A o : Strict(o, loose') => Strict(o, loose)
      /\ \A o, id : Mine(o, id, pc', req') <=> Mine(o, id, pc, req)
  BY DEF Strict, Mine
<1>4. \A i \in DOMAIN inbox' : Says(inbox'[i]) /\ Strict(inbox'[i].opcode, loose') =>
        i \in DOMAIN inbox /\ inbox'[i] = inbox[i]
  BY <1>1
<1>5. \A x \in controller' : Strict(x.opcode, loose') => x \in controller
  BY <1>3
<1>6. \A x \in controller' : Strict(x.opcode, loose') => Mine(x.opcode, x.id, pc', req')
  BY <1>3, <1>5 DEF Own, MineOnly
<1>7. \A i \in DOMAIN inbox' : Says(inbox'[i]) /\ Strict(inbox'[i].opcode, loose') =>
        Mine(inbox'[i].opcode, inbox'[i].by, pc', req')
  BY <1>3, <1>4 DEF Own, MineOnly
<1>8. \A x, y \in controller' : Strict(x.opcode, loose') /\ x.opcode = y.opcode => x = y
  BY <1>3, <1>5 DEF Own, MineOnly
<1>9. \A x \in controller' : \A i \in DOMAIN inbox' :
        Says(inbox'[i]) /\ Strict(inbox'[i].opcode, loose') => inbox'[i].opcode # x.opcode
  BY <1>3, <1>4, <1>5 DEF Own, MineOnly
<1>10. \A i, j \in DOMAIN inbox' :
         Says(inbox'[i]) /\ Says(inbox'[j]) /\ Strict(inbox'[i].opcode, loose')
           /\ inbox'[i].opcode = inbox'[j].opcode => i = j
  BY <1>3, <1>4 DEF Own, MineOnly
<1>11. MineOnly'
  BY <1>6, <1>7, <1>8, <1>9, <1>10 DEF MineOnly, Says
<1>12. QED
  BY <1>2, <1>11 DEF Own

LEMMA KernelKeeps ==
  ASSUME Own, Hci!Kernel
  PROVE  Own'
<1>1. UNCHANGED <<pc, req>>
  BY DEF Hci!Kernel, Hci!Completed, Hci!Refused, Hci!Begun, Hci!Over, Hci!OtherEvent,
    Hci!KernelUnchanged
<1>2. ASSUME NEW x \in controller, Hci!Completed(x)
      PROVE  Own'
  <2>1. PICK ok \in BOOLEAN :
          Hci!Deliver(Hci!Event(Hci!EVT_CMD_COMPLETE, 0, x.opcode, x.peer, ok, x.id))
    BY <1>2 DEF Hci!Completed
  <2> DEFINE e == Hci!Event(Hci!EVT_CMD_COMPLETE, 0, x.opcode, x.peer, ok, x.id)
  <2>2. Ordinary(e) /\ e.opcode = x.opcode /\ e.by = x.id
    BY DEF Hci!Event, Ordinary, Hci!EVT_CMD_COMPLETE, Hci!EVT_LE_META_EVENT, Hci!NoEvent
  <2>3. controller' = controller \ {x} /\ UNCHANGED loose
    BY <1>2 DEF Hci!Completed
  <2> HIDE DEF e
  <2>4. Hci!Deliver(e)
    BY <2>1 DEF e
  <2>5. QED BY <1>1, <2>2, <2>3, <2>4, EndKeeps
<1>3. ASSUME NEW x \in controller, Hci!Refused(x)
      PROVE  Own'
  <2> DEFINE e == Hci!Event(Hci!EVT_CMD_STATUS, 0, x.opcode, x.peer, FALSE, x.id)
  <2>1. Ordinary(e) /\ e.opcode = x.opcode /\ e.by = x.id
    BY DEF Hci!Event, Ordinary, Hci!EVT_CMD_STATUS, Hci!EVT_LE_META_EVENT, Hci!NoEvent
  <2>2. controller' = controller \ {x} /\ Hci!Deliver(e) /\ UNCHANGED loose
    BY <1>3 DEF Hci!Refused
  <2> HIDE DEF e
  <2>3. QED BY <1>1, <2>1, <2>2, EndKeeps
<1>4. ASSUME NEW x \in controller, x.event # Hci!NoEvent
      PROVE  Given(x) /\ ~Strict(x.opcode, loose)
  <2>1. Given(x)
    BY DEF Own, Known
  <2>2. QED BY <1>4, <2>1, OneEvent DEF Given, Strict
<1>5. ASSUME NEW x \in controller, Hci!Begun(x)
      PROVE  Own'
  <2> DEFINE y == [x EXCEPT !.begun = TRUE]
             e == Hci!Event(Hci!EVT_CMD_STATUS, 0, x.opcode, x.peer, TRUE, x.id)
  <2>1. x.event # Hci!NoEvent /\ controller' = (controller \ {x}) \cup {y}
        /\ Hci!Deliver(e) /\ UNCHANGED loose
    BY <1>5 DEF Hci!Begun
  <2>2. Given(x) /\ ~Strict(x.opcode, loose)
    BY <1>4, <2>1
  <2>3. /\ y \in [id : {x.id}, opcode : {x.opcode}, event : {x.event}, peer : {x.peer},
                 begun : BOOLEAN]
        /\ y.id = x.id /\ y.opcode = x.opcode /\ y.event = x.event
    BY <2>2, BegunRecord DEF Given
  <2>4. Given(y) /\ ~Strict(y.opcode, loose)
    <3>1. y.peer = x.peer
      BY <2>3
    <3>2. QED BY <2>1, <2>2, <2>3, <3>1 DEF Given
  <2>5. Ordinary(e) /\ e.opcode = x.opcode
    BY DEF Hci!Event, Ordinary, Hci!EVT_CMD_STATUS, Hci!EVT_LE_META_EVENT, Hci!NoEvent
  <2> HIDE DEF y, e
  <2>6. \A z \in controller' : Given(z) /\ (z \in controller \/ ~Strict(z.opcode, loose))
    BY <2>1, <2>4 DEF Own, Known
  <2>7. ~Strict(e.opcode, loose')
    BY <2>1, <2>2, <2>5 DEF Strict
  <2>8. QED BY <1>1, <2>1, <2>5, <2>6, <2>7, StrangerKeeps
<1>6. ASSUME NEW x \in controller, Hci!Over(x)
      PROVE  Own'
  <2>1. PICK c \in Hci!HciCommands : x.opcode = c.opcode /\ x.event = c.event
    BY PartsAssumption DEF Own, Known, Given, Hci!HciAssumption
  <2>2. /\ x.event # Hci!EVT_CMD_STATUS /\ x.event # Hci!EVT_CMD_COMPLETE
        /\ x.event # Hci!EVT_LE_META_EVENT
    BY <2>1, EventsOfCommands
  <2>3. x.event # Hci!NoEvent
    BY <1>6 DEF Own, Known, Given, Hci!Over
  <2>4. PICK ok \in BOOLEAN : Hci!Deliver(Hci!Outcome(x, ok))
    BY <1>6 DEF Hci!Over
  <2> DEFINE e == Hci!Outcome(x, ok)
  <2>5. Ordinary(e) /\ ~Says(e)
    <3>1. CASE x.opcode \div 1024 = 8
      BY <2>3, <3>1 DEF Hci!Outcome, Hci!Event, Ordinary, Says, Hci!EVT_CMD_COMPLETE,
        Hci!EVT_CMD_STATUS, Hci!EVT_LE_META_EVENT, Hci!NoEvent
    <3>2. CASE x.opcode \div 1024 # 8
      BY <2>2, <2>3, <3>2 DEF Hci!Outcome, Hci!Event, Ordinary, Says
    <3>3. QED BY <3>1, <3>2
  <2>6. controller' = controller \ {x} /\ UNCHANGED loose
    BY <1>6 DEF Hci!Over
  <2> HIDE DEF e
  <2>7. Hci!Deliver(e)
    BY <2>4 DEF e
  <2>8. QED BY <1>1, <2>5, <2>6, <2>7, EndKeeps
<1>7. ASSUME NEW e \in Others, Hci!OtherEvent(e)
      PROVE  Own'
  <2>1. Ordinary(e)
    BY PartsAssumption DEF Hci!HciAssumption, Ordinary
  <2>2. /\ Hci!Deliver(e) /\ UNCHANGED controller
        /\ loose' = IF Hci!Passes(e) THEN loose \cup ({e.opcode} \ {0}) ELSE loose
    BY <1>7 DEF Hci!OtherEvent
  <2>3. ~Strict(0, loose')
    BY EventsOfCommands, PartsAssumption DEF Strict, Hci!HciAssumption
  <2>4. Hci!Passes(e) => ~Strict(e.opcode, loose')
    BY <2>2, <2>3 DEF Strict
  <2>5. \A x \in controller' : Given(x) /\ x \in controller
    BY <2>2 DEF Own, Known
  <2>6. loose \subseteq loose'
    BY <2>2
  <2>7. QED BY <1>1, <2>1, <2>2, <2>4, <2>5, <2>6, StrangerKeeps
<1>8. QED
  BY <1>2, <1>3, <1>5, <1>6, <1>7 DEF Hci!Kernel

\* a command is given: nothing is left of it, unless something has gone astray
LEMMA CallKeeps ==
  ASSUME AnswerInv, NEW c \in Called, NEW p \in Peer, NEW t \in Timeouts, Hci!Call(c, p, t)
  PROVE  AnswerInv'
<1> DEFINE x == [id |-> req.id + 1, opcode |-> c.opcode, event |-> c.event, peer |-> p,
                 begun |-> FALSE]
<1>1. /\ req' = [id |-> req.id + 1, command |-> c, peer |-> p, to |-> t]
      /\ controller' = controller \cup {x}
      /\ inbox' = inbox /\ loose' = loose /\ result'.ret = "none"
      /\ pc = "out" /\ pc' = "wait"
  BY DEF Hci!Call, Hci!Result
<1>2. req'.id = req.id + 1 /\ req'.command = c
  BY <1>1
<1>3. Given(x) /\ x.id = req.id + 1 /\ x.opcode = c.opcode
  BY DEF Given
<1> HIDE DEF x
<1>4. Known'
  BY <1>1, <1>2, <1>3 DEF AnswerInv, Own, Known
<1>5. /\ \A o : Strict(o, loose') <=> Strict(o, loose)
      /\ \A o, id : ~Mine(o, id, pc, req)
  BY <1>1 DEF Strict, Mine
<1>6. /\ \A y \in controller : ~Strict(y.opcode, loose)
      /\ \A i \in DOMAIN inbox : Says(inbox[i]) => ~Strict(inbox[i].opcode, loose)
  BY <1>5 DEF AnswerInv, Own, MineOnly
<1>7. Mine(x.opcode, x.id, pc', req')
  BY <1>1, <1>2, <1>3 DEF Mine
<1>8. \A y \in controller' : Strict(y.opcode, loose) => y = x
  BY <1>1, <1>6
<1>9. MineOnly'
  BY <1>1, <1>5, <1>6, <1>7, <1>8 DEF MineOnly, Says
<1>10. QED
  BY <1>1, <1>4, <1>9 DEF AnswerInv, Own, AnswerIsOurs, Hci!AnswerIsOurs

\* an event that counts as the reply is the reply
LEMMA ReplyIsOurs ==
  ASSUME Own, pc = "wait", NEW i \in DOMAIN inbox, Hci!Answers(inbox[i]),
         req.command.event = Hci!NoEvent
  PROVE  /\ Says(inbox[i]) /\ inbox[i].opcode = req.command.opcode
         /\ inbox[i].by = req.id \/ req.command.opcode \in loose
<1> DEFINE e == inbox[i]
<1>1. Ordinary(e)
  BY DEF Own, Known, Range
<1>2. req.command \in Called
  BY DEF Own, Known
<1> HIDE DEF e
<1>3. e.evt = Hci!EVT_CMD_COMPLETE /\ e.opcode = req.command.opcode
  BY <1>1 DEF Hci!Answers, Ordinary, Hci!EVT_CMD_STATUS, Hci!NoEvent, e
<1>4. Says(e)
  BY <1>3 DEF Says
<1>5. req.command.opcode \notin loose => Strict(e.opcode, loose)
  BY <1>2, <1>3 DEF Strict
<1>6. QED
  BY <1>3, <1>4, <1>5 DEF Own, MineOnly, Mine, e

LEMMA TakeKeeps ==
  ASSUME AnswerInv, Hci!Take
  PROVE  AnswerInv'
<1> DEFINE e == Head(inbox)
<1>1. /\ pc = "wait" /\ inbox # <<>> /\ inbox' = Tail(inbox)
      /\ UNCHANGED <<req, controller>>
  BY DEF Hci!Take
<1>2. /\ inbox \in Seq(Range(inbox)) /\ 1 \in DOMAIN inbox /\ e = inbox[1]
      /\ inbox' \in Seq(Range(inbox')) /\ Range(inbox') \subseteq Range(inbox)
      /\ \A i \in DOMAIN inbox' : i + 1 \in DOMAIN inbox /\ i + 1 # 1 /\ inbox'[i] = inbox[i + 1]
  <2>1. inbox \in Seq(Range(inbox))
    BY DEF AnswerInv, Own, Known
  <2>2. QED BY <1>1, <2>1, BoxTail
<1>3. /\ loose \subseteq loose'
      /\ \/ Hci!Answers(e) /\ Hci!Return(Hci!Ret(e), e)
         \/ Hci!Refuses(e) /\ Hci!Return("-1", Hci!NoReply)
         \/ Hci!Return("-1", Hci!NoReply) /\ req.command.opcode \in loose'
         \/ UNCHANGED <<pc, result>>
  BY DEF Hci!Take, Hci!GiveUp
<1> HIDE DEF e
<1>4. /\ \A o : Strict(o, loose') => Strict(o, loose)
  BY <1>3 DEF Strict
<1>5. pc' # "wait" \/ pc' = pc
  BY <1>3 DEF Hci!Return
<1>6. Known'
  BY <1>1, <1>2, <1>5 DEF AnswerInv, Own, Known
<1>7. CASE UNCHANGED <<pc, result>>
  <2>1. \A o, id : Mine(o, id, pc', req') <=> Mine(o, id, pc, req)
    BY <1>1, <1>7 DEF Mine
  <2>2. MineOnly'
    BY <1>1, <1>2, <1>4, <2>1 DEF AnswerInv, Own, MineOnly, Says
  <2>3. QED
    BY <1>1, <1>3, <1>6, <1>7, <2>2 DEF AnswerInv, Own, AnswerIsOurs, Hci!AnswerIsOurs
<1>8. CASE ~UNCHANGED <<pc, result>>
  <2> DEFINE o == req.command.opcode
  <2>1. req.command \in Called
    BY <1>1 DEF AnswerInv, Own, Known
  <2>2. Strict(o, loose') => Says(e) /\ e.opcode = o
    <3> SUFFICES ASSUME Strict(o, loose') PROVE Says(e) /\ e.opcode = o
      OBVIOUS
    <3>1. req.command.event = Hci!NoEvent /\ o \notin loose'
      BY <2>1, OneEvent DEF Strict
    <3>2. Hci!Answers(e) \/ Hci!Refuses(e)
      BY <1>3, <1>8, <3>1
    <3>3. QED
      BY <1>1, <1>2, <3>1, <3>2, ReplyIsOurs DEF AnswerInv, Hci!Refuses, Says
  <2>3. \A n, id : Mine(n, id, pc, req) => n = o
    BY DEF Mine
  <2> HIDE DEF o
  <2>4. \A x \in controller : ~Strict(x.opcode, loose')
    BY <1>2, <1>4, <2>2, <2>3 DEF AnswerInv, Own, MineOnly
  <2>5. \A i \in DOMAIN inbox' : Says(inbox'[i]) => ~Strict(inbox'[i].opcode, loose')
    BY <1>2, <1>4, <2>2, <2>3 DEF AnswerInv, Own, MineOnly
  <2>6. MineOnly'
    BY <1>1, <2>4, <2>5 DEF MineOnly, Says
  <2>7. \/ result'.ret = "-1"
        \/ Hci!Answers(e) /\ result'.by = e.by /\ result'.opcode = e.opcode
    BY <1>3, <1>8 DEF Hci!Return, Hci!Result
  <2>8. AnswerIsOurs'
    <3>1. CASE result'.ret = "-1"
      BY <3>1 DEF AnswerIsOurs, Hci!AnswerIsOurs
    <3>2. CASE Hci!Answers(e) /\ result'.by = e.by /\ result'.opcode = e.opcode
      BY <1>1, <1>2, <1>3, <3>2, ReplyIsOurs DEF AnswerInv, AnswerIsOurs, Hci!AnswerIsOurs
    <3>3. QED BY <2>7, <3>1, <3>2
  <2>9. QED
    BY <1>6, <2>6, <2>8 DEF AnswerInv, Own
<1>9. QED BY <1>7, <1>8

\* a call that fails says so, and what it waited for has gone astray
LEMMA FailureKeeps ==
  ASSUME AnswerInv, Hci!CallFails \/ Hci!TimesOut \/ Hci!ReadFails
  PROVE  AnswerInv'
<1>1. /\ pc' = "out" /\ result'.ret = "-1" /\ UNCHANGED <<inbox, controller>>
      /\ loose \subseteq loose' /\ (pc = "wait" => req.command.opcode \in loose')
  BY DEF Hci!CallFails, Hci!TimesOut, Hci!ReadFails, Hci!GiveUp, Hci!Return, Hci!Result
<1>2. \A o : Strict(o, loose') => Strict(o, loose) /\ (pc = "wait" => req.command.opcode # o)
  BY <1>1 DEF Strict
<1>3. /\ \A x \in controller : ~Strict(x.opcode, loose')
      /\ \A i \in DOMAIN inbox : Says(inbox[i]) => ~Strict(inbox[i].opcode, loose')
  BY <1>2 DEF AnswerInv, Own, MineOnly, Mine
<1>4. MineOnly'
  BY <1>1, <1>3 DEF MineOnly, Says
<1>5. Known'
  BY <1>1 DEF AnswerInv, Own, Known
<1>6. QED
  BY <1>1, <1>4, <1>5 DEF AnswerInv, Own, AnswerIsOurs, Hci!AnswerIsOurs

LEMMA AnswerStep ==
  ASSUME AnswerInv, [PartsNext]_partsVars
  PROVE  AnswerInv'
<1>1. CASE UNCHANGED hciVars
  <2>1. /\ \A o : Strict(o, loose') <=> Strict(o, loose)
        /\ \A o, id : Mine(o, id, pc', req') <=> Mine(o, id, pc, req)
    BY <1>1 DEF Strict, Mine, hciVars
  <2>2. QED
    BY <1>1, <2>1 DEF AnswerInv, Own, Known, MineOnly, Says, AnswerIsOurs, Hci!AnswerIsOurs, hciVars
<1>2. CASE Hci!Kernel
  <2>1. Own' /\ UNCHANGED <<req, result>> /\ loose \subseteq loose'
    BY <1>2, KernelKeeps DEF AnswerInv, Hci!Kernel, Hci!Completed, Hci!Refused, Hci!Begun,
      Hci!Over, Hci!OtherEvent, Hci!KernelUnchanged
  <2>2. QED
    BY <2>1 DEF AnswerInv, AnswerIsOurs, Hci!AnswerIsOurs
<1>3. CASE Hci!Take
  BY <1>3, TakeKeeps
<1>4. CASE Hci!CallFails \/ Hci!TimesOut \/ Hci!ReadFails
  BY <1>4, FailureKeeps
<1>5. CASE \E c \in Called, p \in Peer, t \in Timeouts : Hci!Call(c, p, t)
  BY <1>5, CallKeeps
<1>6. QED
  BY <1>1, <1>2, <1>3, <1>4, <1>5 DEF Hci!HciNext, PartsNext, MgmtStep, HciStep, BtIoStep,
    BearerStep, OnlyMgmt, OnlyHci, OnlyBtIo, OnlyBearer, partsVars

\* A function of lib/hci.c whose command has no event of its own succeeds by the
\* answer to this very call, unless an earlier call of it gave up or another
\* program's answer to the same command came: whatever the controller, other
\* programs and the air bring about, and however late.
THEOREM AnswerIsOursAlways == PartsSpec => []AnswerIsOurs
<1>1. AnswerInv => AnswerIsOurs
  BY DEF AnswerInv
<1>2. AnswerInv /\ [PartsNext]_partsVars => AnswerInv'
  BY AnswerStep
<1>3. QED
  BY <1>1, <1>2, AnswerInit, PTL DEF PartsSpec

-----------------------------------------------------------------------------
(* The options of a list.                                                   *)

\* A set of naturals that is not empty has a least element.
LEMMA NatMin ==
  ASSUME NEW T \in SUBSET Nat, T # {}
  PROVE  \E x \in T : \A y \in T : x <= y
<1> DEFINE Down(n) == 0 .. n
           D == {Down(n) : n \in T}
           R == StrictSubsetOrdering(Nat)
<1>1. D \subseteq FiniteSubsetsOf(Nat) /\ D # {}
  <2>1. \A n \in T : Down(n) \in SUBSET Nat /\ IsFiniteSet(Down(n))
    BY FS_Interval
  <2> QED BY <2>1 DEF FiniteSubsetsOf
<1>2. IsWellFoundedOn(R, FiniteSubsetsOf(Nat))
  BY FS_StrictSubsetOrderingWellFounded
<1> HIDE DEF R
<1>3. PICK d \in D : \A y \in D : ~(<<y, d>> \in R)
  BY <1>1, <1>2, WFMin
<1>4. PICK x \in T : d = Down(x)
  OBVIOUS
<1>5. \A y \in T : x <= y
  <2> SUFFICES ASSUME NEW y \in T, ~(x <= y) PROVE FALSE
    OBVIOUS
  <2>1. y < x /\ x \in Nat /\ y \in Nat
    OBVIOUS
  <2>2. Down(y) \in SUBSET Down(x) /\ Down(y) # Down(x)
    BY <2>1
  <2>3. <<Down(y), Down(x)>> \in R
    BY <1>1, <2>2 DEF R, StrictSubsetOrdering
  <2> QED BY <1>3, <1>4, <2>3
<1> QED BY <1>5

OptTypes ==
  [TYPE : BtIo!Types, SOURCE_TYPE : {"BREDR", "LE"}, DEFER_TIMEOUT : Nat, SEC_LEVEL : Nat,
   CHANNEL : Nat, PSM : Nat, CID : Nat, MTU : Nat, IMTU : Nat, OMTU : Nat,
   MASTER : {-1, 0, 1}, MODE : Nat, FLUSHABLE : {-1, 0, 1}, PRIORITY : Nat, VOICE : Nat]

LEMMA SettableOpts ==
  BtIo!Settable = {"SOURCE_TYPE", "DEFER_TIMEOUT", "SEC_LEVEL", "CHANNEL", "PSM", "CID", "MTU",
                   "IMTU", "OMTU", "MASTER", "MODE", "FLUSHABLE", "PRIORITY", "VOICE"}
BY DEF BtIo!Settable, BtIo!Defaults

LEMMA SetOptTypes ==
  ASSUME NEW o \in OptTypes, NEW item, item[1] \in BtIo!Settable, item[2] \in BtIo!Values(item[1])
  PROVE  BtIo!SetOpt(o, item) \in OptTypes
<1> DEFINE opt == item[1]  v == item[2]
           mtu == IF o.MTU = 0 THEN v ELSE o.MTU
           given == [o EXCEPT ![opt] = v]
<1>1. opt \in BtIo!Settable /\ v \in BtIo!Values(opt)
  OBVIOUS
<1>2. BtIo!SetOpt(o, item) =
        CASE opt = "CHANNEL" -> [given EXCEPT !.TYPE = "RFCOMM"]
          [] opt \in {"PSM", "CID"} -> [given EXCEPT !.TYPE = "L2CAP"]
          [] opt = "MTU" -> [given EXCEPT !.IMTU = v, !.OMTU = v]
          [] opt \in {"IMTU", "OMTU"} -> [given EXCEPT !.MTU = mtu]
          [] OTHER -> given
  BY DEF BtIo!SetOpt
<1> HIDE DEF opt, v
<1>3. given \in OptTypes
  <2>1. CASE opt = "SOURCE_TYPE"
    BY <1>1, <2>1 DEF OptTypes, BtIo!Values
  <2>2. CASE opt = "MASTER"
    BY <1>1, <2>2 DEF OptTypes, BtIo!Values
  <2>3. CASE opt = "FLUSHABLE"
    BY <1>1, <2>3 DEF OptTypes, BtIo!Values
  <2>4. CASE opt \notin {"SOURCE_TYPE", "MASTER", "FLUSHABLE"}
    <3>1. v \in Nat
      BY <1>1, <2>4 DEF BtIo!Values
    <3>2. opt \in {"DEFER_TIMEOUT", "SEC_LEVEL", "CHANNEL", "PSM", "CID", "MTU",
                   "IMTU", "OMTU", "MODE", "PRIORITY", "VOICE"}
      BY <1>1, <2>4, SettableOpts
    <3>3. QED BY <3>1, <3>2 DEF OptTypes
  <2>5. QED BY <2>1, <2>2, <2>3, <2>4
<1>4. v \in Nat \/ opt \notin {"MTU", "IMTU", "OMTU"}
  BY <1>1 DEF BtIo!Values
<1>5. o.MTU \in Nat
  BY DEF OptTypes
<1> HIDE DEF given
<1>6. CASE opt = "CHANNEL"
  BY <1>2, <1>3, <1>6 DEF OptTypes, BtIo!Types
<1>7. CASE opt \in {"PSM", "CID"}
  BY <1>2, <1>3, <1>7 DEF OptTypes, BtIo!Types
<1>8. CASE opt = "MTU"
  BY <1>2, <1>3, <1>4, <1>8 DEF OptTypes
<1>9. CASE opt \in {"IMTU", "OMTU"}
  <2>1. mtu \in Nat
    BY <1>4, <1>5, <1>9
  <2>2. BtIo!SetOpt(o, item) = [given EXCEPT !.MTU = mtu]
    BY <1>2, <1>9
  <2> HIDE DEF mtu
  <2>3. QED BY <1>3, <2>1, <2>2 DEF OptTypes
<1>10. CASE opt \notin {"CHANNEL", "PSM", "CID", "MTU", "IMTU", "OMTU"}
  BY <1>2, <1>3, <1>10
<1>11. QED BY <1>6, <1>7, <1>8, <1>9, <1>10

\* what parse_set_opts has after each of the options of a list
Parses(list, f) ==
  f = [k \in 0 .. Len(list) |-> IF k = 0 THEN BtIo!Defaults ELSE BtIo!SetOpt(f[k - 1], list[k])]

LEMMA ParseExists ==
  ASSUME NEW list, Len(list) \in Nat
  PROVE  \E f : Parses(list, f)
<1> DEFINE Upto(n, f) == f = [k \in 0 .. n |-> IF k = 0 THEN BtIo!Defaults ELSE BtIo!SetOpt(f[k - 1], list[k])]
           T == {n \in Nat : ~ \E f : Upto(n, f)}
<1>1. T = {}
  <2> SUFFICES ASSUME T # {} PROVE FALSE
    OBVIOUS
  <2>1. PICK n \in T : \A j \in T : n <= j
    BY NatMin
  <2>2. n # 0
    <3> DEFINE f == [k \in 0 .. 0 |-> BtIo!Defaults]
    <3>1. Upto(0, f)
      OBVIOUS
    <3>2. QED BY <2>1, <3>1
  <2>3. n - 1 \in Nat /\ n - 1 \notin T
    BY <2>1, <2>2
  <2>4. PICK f : Upto(n - 1, f)
    BY <2>3
  <2> DEFINE g == [k \in 0 .. n |-> IF k = n THEN BtIo!SetOpt(f[n - 1], list[n]) ELSE f[k]]
  <2>5. \A k \in 0 .. n : g[k] = IF k = 0 THEN BtIo!Defaults ELSE BtIo!SetOpt(g[k - 1], list[k])
    <3> SUFFICES ASSUME NEW k \in 0 .. n
                 PROVE g[k] = IF k = 0 THEN BtIo!Defaults ELSE BtIo!SetOpt(g[k - 1], list[k])
      OBVIOUS
    <3>1. CASE k = n
      <4>1. g[k] = BtIo!SetOpt(f[n - 1], list[n])
        BY <3>1
      <4>2. g[k - 1] = f[n - 1]
        BY <2>2, <2>3, <3>1
      <4>3. QED BY <2>2, <3>1, <4>1, <4>2
    <3>2. CASE k # n
      <4>1. k \in 0 .. (n - 1) /\ g[k] = f[k]
        BY <2>3, <3>2
      <4>2. f[k] = IF k = 0 THEN BtIo!Defaults ELSE BtIo!SetOpt(f[k - 1], list[k])
        BY <2>4, <4>1
      <4>3. k # 0 => g[k - 1] = f[k - 1]
        BY <2>3, <4>1
      <4>4. QED BY <4>1, <4>2, <4>3
    <3>3. QED BY <3>1, <3>2
  <2>6. Upto(n, g)
    <3>1. g = [k \in 0 .. n |-> g[k]]
      OBVIOUS
    <3> HIDE DEF g
    <3>2. QED BY <2>5, <3>1
  <2>7. QED BY <2>1, <2>6
<1>2. QED BY <1>1 DEF Parses

LEMMA ParseTypes ==
  ASSUME NEW list \in Lists, BtIo!Understood(list)
  PROVE  BtIo!ParseSetOpts(list) \in OptTypes
<1>1. list \in Seq({list[i] : i \in DOMAIN list}) /\ \A i \in DOMAIN list : list[i][2] \in BtIo!Values(list[i][1])
  BY PartsAssumption DEF BtIo!BtIoAssumption
<1>2. Len(list) \in Nat /\ DOMAIN list = 1 .. Len(list)
  BY <1>1
<1> DEFINE f == CHOOSE f : Parses(list, f)
<1>3. BtIo!ParseSetOpts(list) = f[Len(list)]
  BY DEF BtIo!ParseSetOpts, Parses
<1>4. Parses(list, f)
  BY <1>2, ParseExists
<1> HIDE DEF f
<1> DEFINE T == {n \in 0 .. Len(list) : f[n] \notin OptTypes}
<1>5. T = {}
  <2> SUFFICES ASSUME T # {} PROVE FALSE
    OBVIOUS
  <2>1. PICK n \in T : \A j \in T : n <= j
    <3>1. T \in SUBSET Nat
      BY <1>2
    <3> HIDE DEF T
    <3>2. QED BY <3>1, NatMin
  <2>2. f[n] = IF n = 0 THEN BtIo!Defaults ELSE BtIo!SetOpt(f[n - 1], list[n])
    BY <1>4 DEF Parses
  <2>3. BtIo!Defaults \in OptTypes
    BY DEF BtIo!Defaults, OptTypes, BtIo!Types
  <2>4. n # 0
    BY <2>1, <2>2, <2>3
  <2>5. n \in DOMAIN list /\ n - 1 \in 0 .. Len(list) /\ n - 1 \notin T
    BY <1>2, <2>1, <2>4
  <2>6. f[n - 1] \in OptTypes
    BY <2>5
  <2>7. list[n][1] \in BtIo!Settable /\ list[n][2] \in BtIo!Values(list[n][1])
    BY <1>1, <2>5 DEF BtIo!Understood
  <2>8. BtIo!SetOpt(f[n - 1], list[n]) \in OptTypes
    BY <2>6, <2>7, SetOptTypes
  <2>9. QED BY <2>1, <2>2, <2>4, <2>8
<1>6. QED BY <1>2, <1>3, <1>5

-----------------------------------------------------------------------------
(* What is set on a socket.                                                 *)

SockTypes ==
  [type : BtIo!Types, le : BOOLEAN,
   state : {"bound", "connecting", "listening", "deferred", "accepting", "up", "down"},
   hasPSM : BOOLEAN, confirms : BOOLEAN, open : BOOLEAN, refs : Nat, shut : BOOLEAN,
   watch : {"none", "connect", "server", "accept"}, added : Nat, destroyed : Nat,
   told : Seq({"ok", "error"}), wasUp : BOOLEAN,
   lm : SUBSET {"AUTH", "ENCRYPT", "SECURE", "MASTER"},
   SEC_LEVEL : Nat, IMTU : Nat, OMTU : Nat, MODE : Nat, FLUSHABLE : Int, PRIORITY : Nat]

StepNames ==
  {"l2opts", "le_imtu", "sco_mtu", "master", "flushable", "priority", "voice", "sec_level"}

LEMMA IfSeq ==
  ASSUME NEW given \in BOOLEAN, NEW step \in StepNames
  PROVE  /\ BtIo!If(given, step) \in Seq(StepNames)
         /\ Len(BtIo!If(given, step)) <= 1
         /\ Range(BtIo!If(given, step)) = IF given THEN {step} ELSE {}
<1> DEFINE t == BtIo!If(given, step)
<1> SUFFICES /\ t \in Seq(StepNames) /\ Len(t) <= 1
             /\ Range(t) = IF given THEN {step} ELSE {}
  OBVIOUS
<1>1. CASE given
  <2>1. t = <<step>>
    BY <1>1 DEF BtIo!If
  <2>2. <<step>> \in Seq(StepNames) /\ Len(<<step>>) = 1 /\ DOMAIN <<step>> = {1} /\ <<step>>[1] = step
    OBVIOUS
  <2>3. Range(<<step>>) = {step}
    BY <2>2 DEF Range
  <2>4. t \in Seq(StepNames) /\ Len(t) <= 1 /\ Range(t) = {step}
    BY <2>1, <2>2, <2>3
  <2> HIDE DEF t
  <2>5. QED BY <1>1, <2>4
<1>2. CASE ~given
  <2>1. t = <<>>
    BY <1>2 DEF BtIo!If
  <2>2. t \in Seq(StepNames) /\ Len(t) <= 1 /\ Range(t) = {}
    BY <2>1 DEF Range
  <2> HIDE DEF t
  <2>3. QED BY <1>2, <2>2
<1>3. QED BY <1>1, <1>2

LEMMA Joined ==
  ASSUME NEW s \in Seq(StepNames), NEW t \in Seq(StepNames)
  PROVE  /\ s \o t \in Seq(StepNames)
         /\ Len(s \o t) = Len(s) + Len(t) /\ Len(s) \in Nat /\ Len(t) \in Nat
         /\ Range(s \o t) = Range(s) \cup Range(t)
  BY ConcatProperties, RangeConcatenation

\* of these options, in this order
LEMMA L2capSets ==
  ASSUME NEW o \in OptTypes
  PROVE  LET q == BtIo!L2capSet(o) IN
         /\ q \in Seq(StepNames) /\ Len(q) <= BtIo!Most
         /\ Range(q) =
              (IF o.IMTU # 0 \/ o.OMTU # 0 \/ o.MODE # 0
               THEN {IF o.SOURCE_TYPE = "BREDR" THEN "l2opts" ELSE "le_imtu"} ELSE {})
              \cup (IF o.MASTER >= 0 THEN {"master"} ELSE {})
              \cup (IF o.FLUSHABLE >= 0 THEN {"flushable"} ELSE {})
              \cup (IF o.PRIORITY > 0 THEN {"priority"} ELSE {})
              \cup (IF o.SEC_LEVEL # 0 THEN {"sec_level"} ELSE {})
<1> DEFINE a1 == (o.IMTU # 0 \/ o.OMTU # 0 \/ o.MODE # 0)
           n1 == IF o.SOURCE_TYPE = "BREDR" THEN "l2opts" ELSE "le_imtu"
           a2 == (o.MASTER >= 0)
           a3 == (o.FLUSHABLE >= 0)
           a4 == (o.PRIORITY > 0)
           a5 == (o.SEC_LEVEL # 0)
           i1 == BtIo!If(a1, n1)
           i2 == BtIo!If(a2, "master")
           i3 == BtIo!If(a3, "flushable")
           i4 == BtIo!If(a4, "priority")
           i5 == BtIo!If(a5, "sec_level")
<1>1. a1 \in BOOLEAN /\ a2 \in BOOLEAN /\ a3 \in BOOLEAN /\ a4 \in BOOLEAN /\ a5 \in BOOLEAN /\ n1 \in StepNames
  BY DEF StepNames
<1>2. BtIo!L2capSet(o) = i1 \o i2 \o i3 \o i4 \o i5
  BY DEF BtIo!L2capSet
<1> HIDE DEF a1, a2, a3, a4, a5, n1
<1>3. /\ i1 \in Seq(StepNames) /\ Len(i1) <= 1 /\ Range(i1) = IF a1 THEN {n1} ELSE {}
      /\ i2 \in Seq(StepNames) /\ Len(i2) <= 1 /\ Range(i2) = IF a2 THEN {"master"} ELSE {}
      /\ i3 \in Seq(StepNames) /\ Len(i3) <= 1 /\ Range(i3) = IF a3 THEN {"flushable"} ELSE {}
      /\ i4 \in Seq(StepNames) /\ Len(i4) <= 1 /\ Range(i4) = IF a4 THEN {"priority"} ELSE {}
      /\ i5 \in Seq(StepNames) /\ Len(i5) <= 1 /\ Range(i5) = IF a5 THEN {"sec_level"} ELSE {}
  <2>1. "master" \in StepNames /\ "flushable" \in StepNames /\ "priority" \in StepNames /\ "sec_level" \in StepNames
    BY DEF StepNames
  <2>2. i1 \in Seq(StepNames) /\ Len(i1) <= 1 /\ Range(i1) = IF a1 THEN {n1} ELSE {}
    BY <1>1, IfSeq
  <2>3. i2 \in Seq(StepNames) /\ Len(i2) <= 1 /\ Range(i2) = IF a2 THEN {"master"} ELSE {}
    BY <1>1, <2>1, IfSeq
  <2>4. i3 \in Seq(StepNames) /\ Len(i3) <= 1 /\ Range(i3) = IF a3 THEN {"flushable"} ELSE {}
    BY <1>1, <2>1, IfSeq
  <2>5. i4 \in Seq(StepNames) /\ Len(i4) <= 1 /\ Range(i4) = IF a4 THEN {"priority"} ELSE {}
    BY <1>1, <2>1, IfSeq
  <2>6. i5 \in Seq(StepNames) /\ Len(i5) <= 1 /\ Range(i5) = IF a5 THEN {"sec_level"} ELSE {}
    BY <1>1, <2>1, IfSeq
  <2> HIDE DEF i1, i2, i3, i4, i5
  <2>7. QED BY <2>2, <2>3, <2>4, <2>5, <2>6
<1> HIDE DEF i1, i2, i3, i4, i5
<1> DEFINE j2 == i1 \o i2  j3 == j2 \o i3  j4 == j3 \o i4
<1>4. j2 \in Seq(StepNames) /\ Len(j2) <= 2 /\ Range(j2) = Range(i1) \cup Range(i2)
  BY <1>3, Joined
<1> HIDE DEF j2
<1>5. j3 \in Seq(StepNames) /\ Len(j3) <= 3 /\ Range(j3) = Range(j2) \cup Range(i3)
  BY <1>3, <1>4, Joined
<1> HIDE DEF j3
<1>6. j4 \in Seq(StepNames) /\ Len(j4) <= 4 /\ Range(j4) = Range(j3) \cup Range(i4)
  BY <1>3, <1>5, Joined
<1> HIDE DEF j4
<1>7. j4 \o i5 \in Seq(StepNames) /\ Len(j4 \o i5) <= 5 /\ Range(j4 \o i5) = Range(j4) \cup Range(i5)
  BY <1>3, <1>6, Joined
<1>8. BtIo!L2capSet(o) = j4 \o i5
  BY <1>2 DEF j2, j3, j4
<1>9. Range(j4 \o i5) = (IF a1 THEN {n1} ELSE {}) \cup (IF a2 THEN {"master"} ELSE {})
        \cup (IF a3 THEN {"flushable"} ELSE {}) \cup (IF a4 THEN {"priority"} ELSE {})
        \cup (IF a5 THEN {"sec_level"} ELSE {})
  BY <1>3, <1>4, <1>5, <1>6, <1>7
<1>10. QED
  BY <1>7, <1>8, <1>9 DEF a1, a2, a3, a4, a5, n1, BtIo!Most

LEMMA RfcommSets ==
  ASSUME NEW o \in OptTypes
  PROVE  LET q == BtIo!RfcommSet(o) IN
         /\ q \in Seq(StepNames) /\ Len(q) <= BtIo!Most
         /\ Range(q) = (IF o.SEC_LEVEL # 0 THEN {"sec_level"} ELSE {})
                       \cup (IF o.MASTER >= 0 THEN {"master"} ELSE {})
         /\ \A i, j \in 1 .. Len(q) : q[j] = "master" => i <= j
<1> DEFINE a1 == (o.SEC_LEVEL # 0)  a2 == (o.MASTER >= 0)
           i1 == BtIo!If(a1, "sec_level")  i2 == BtIo!If(a2, "master")
<1>1. a1 \in BOOLEAN /\ a2 \in BOOLEAN /\ "sec_level" \in StepNames /\ "master" \in StepNames
  BY DEF StepNames
<1>2. BtIo!RfcommSet(o) = i1 \o i2
  BY DEF BtIo!RfcommSet
<1> HIDE DEF a1, a2
<1>3. i1 \in Seq(StepNames) /\ Len(i1) <= 1 /\ Range(i1) = IF a1 THEN {"sec_level"} ELSE {}
  BY <1>1, IfSeq
<1>4. i2 \in Seq(StepNames) /\ Len(i2) <= 1 /\ Range(i2) = IF a2 THEN {"master"} ELSE {}
  BY <1>1, IfSeq
<1> HIDE DEF i1, i2
<1> DEFINE q == i1 \o i2
<1>5. q \in Seq(StepNames) /\ Len(q) = Len(i1) + Len(i2) /\ Len(i1) \in Nat /\ Len(i2) \in Nat
      /\ Range(q) = Range(i1) \cup Range(i2)
  BY <1>3, <1>4, Joined
<1>6. ASSUME NEW i \in 1 .. Len(q), NEW j \in 1 .. Len(q), q[j] = "master"
      PROVE  i <= j
  <2>1. CASE j <= Len(i1)
    <3>1. q[j] = i1[j] /\ j \in 1 .. Len(i1)
      BY <1>3, <1>4, <2>1, ConcatProperties
    <3>2. q[j] \in Range(i1)
      BY <1>3, <3>1 DEF Range
    <3>3. QED BY <1>3, <1>6, <3>2
  <2>2. CASE ~(j <= Len(i1))
    BY <1>3, <1>4, <1>5, <2>2
  <2>3. QED BY <2>1, <2>2
<1>7. Len(q) <= 5
  BY <1>3, <1>4, <1>5
<1>8. Range(q) = (IF a1 THEN {"sec_level"} ELSE {}) \cup (IF a2 THEN {"master"} ELSE {})
  BY <1>3, <1>4, <1>5
<1>9. BtIo!RfcommSet(o) = q
  BY <1>2
<1> HIDE DEF q
<1>10. QED BY <1>5, <1>6, <1>7, <1>8, <1>9 DEF a1, a2, BtIo!Most

LEMMA ScoSets ==
  ASSUME NEW o \in OptTypes
  PROVE  LET q == BtIo!ScoSet(o) IN
         /\ q \in Seq(StepNames) /\ Len(q) <= BtIo!Most
         /\ Range(q) = (IF o.MTU # 0 THEN {"sco_mtu"} ELSE {}) \cup (IF o.VOICE # 0 THEN {"voice"} ELSE {})
<1> DEFINE a1 == (o.MTU # 0)  a2 == (o.VOICE # 0)
           i1 == BtIo!If(a1, "sco_mtu")  i2 == BtIo!If(a2, "voice")
<1>1. a1 \in BOOLEAN /\ a2 \in BOOLEAN /\ "sco_mtu" \in StepNames /\ "voice" \in StepNames
  BY DEF StepNames
<1>2. BtIo!ScoSet(o) = i1 \o i2
  BY DEF BtIo!ScoSet
<1> HIDE DEF a1, a2
<1>3. i1 \in Seq(StepNames) /\ Len(i1) <= 1 /\ Range(i1) = IF a1 THEN {"sco_mtu"} ELSE {}
  BY <1>1, IfSeq
<1>4. i2 \in Seq(StepNames) /\ Len(i2) <= 1 /\ Range(i2) = IF a2 THEN {"voice"} ELSE {}
  BY <1>1, IfSeq
<1> HIDE DEF i1, i2
<1>5. i1 \o i2 \in Seq(StepNames) /\ Len(i1 \o i2) <= 2 /\ Range(i1 \o i2) = Range(i1) \cup Range(i2)
  BY <1>3, <1>4, Joined
<1>6. QED BY <1>2, <1>3, <1>4, <1>5 DEF a1, a2, BtIo!Most

\* what the options of a socket's type are
LEMMA SetsOf ==
  ASSUME NEW o \in OptTypes, NEW type \in BtIo!Types
  PROVE  LET q == BtIo!Sets(type, o) IN
         /\ q \in Seq(StepNames) /\ Len(q) \in 0 .. BtIo!Most
         /\ "sco_mtu" \in Range(q) => "l2opts" \notin Range(q) /\ "le_imtu" \notin Range(q)
<1>1. CASE type = "L2CAP"
  <2>1. BtIo!Sets(type, o) = BtIo!L2capSet(o)
    BY <1>1 DEF BtIo!Sets
  <2>2. "sco_mtu" \notin Range(BtIo!L2capSet(o))
    BY L2capSets
  <2>3. QED BY <2>1, <2>2, L2capSets
<1>2. CASE type = "RFCOMM"
  <2>1. BtIo!Sets(type, o) = BtIo!RfcommSet(o)
    BY <1>2 DEF BtIo!Sets
  <2>2. "sco_mtu" \notin Range(BtIo!RfcommSet(o))
    BY RfcommSets
  <2>3. QED BY <2>1, <2>2, RfcommSets
<1>3. CASE type = "SCO"
  <2>1. BtIo!Sets(type, o) = BtIo!ScoSet(o)
    BY <1>3 DEF BtIo!Sets
  <2>2. "l2opts" \notin Range(BtIo!ScoSet(o)) /\ "le_imtu" \notin Range(BtIo!ScoSet(o))
    BY ScoSets
  <2>3. QED BY <2>1, <2>2, ScoSets
<1>4. QED BY <1>1, <1>2, <1>3 DEF BtIo!Types

\* the kernel's options of a socket are changed, and nothing else of it
SameSock(x, s) ==
  /\ x.type = s.type /\ x.le = s.le /\ x.state = s.state /\ x.hasPSM = s.hasPSM
  /\ x.confirms = s.confirms /\ x.open = s.open /\ x.refs = s.refs /\ x.shut = s.shut /\ x.watch = s.watch
  /\ x.added = s.added /\ x.destroyed = s.destroyed /\ x.told = s.told /\ x.wasUp = s.wasUp

Done(q, k, name) == \E j \in 1 .. k : q[j] = name

\* x is a socket of which the first k options of q were set
Kept(o, q, x, k) ==
  /\ Done(q, k, "l2opts") \/ Done(q, k, "le_imtu") => (o.IMTU # 0 => x.IMTU = o.IMTU)
  /\ Done(q, k, "l2opts") => (o.OMTU # 0 => x.OMTU = o.OMTU) /\ (o.MODE # 0 => x.MODE = o.MODE)
  /\ Done(q, k, "sco_mtu") => x.IMTU = o.MTU
  /\ Done(q, k, "flushable") => x.FLUSHABLE = o.FLUSHABLE
  /\ Done(q, k, "priority") => x.PRIORITY = o.PRIORITY
  /\ Done(q, k, "sec_level") => IF modern THEN x.SEC_LEVEL = o.SEC_LEVEL ELSE BtIo!LmLevel(x.lm) = o.SEC_LEVEL
  /\ \A j \in 1 .. k :
       q[j] = "master" /\ (modern \/ \A i \in (j + 1) .. k : q[i] # "sec_level") =>
         ("MASTER" \in x.lm <=> o.MASTER = 1)

\* what one step does
Effect(o, x, y, step) ==
  /\ y \in SockTypes /\ SameSock(y, x)
  /\ step \in {"l2opts", "le_imtu"} => (o.IMTU # 0 => y.IMTU = o.IMTU)
  /\ step = "l2opts" => (o.OMTU # 0 => y.OMTU = o.OMTU) /\ (o.MODE # 0 => y.MODE = o.MODE)
  /\ step = "sco_mtu" => y.IMTU = o.MTU
  /\ step = "flushable" => y.FLUSHABLE = o.FLUSHABLE
  /\ step = "priority" => y.PRIORITY = o.PRIORITY
  /\ step = "sec_level" => IF modern THEN y.SEC_LEVEL = o.SEC_LEVEL ELSE BtIo!LmLevel(y.lm) = o.SEC_LEVEL
  /\ step = "master" => ("MASTER" \in y.lm <=> o.MASTER = 1)
  /\ step \notin {"l2opts", "le_imtu", "sco_mtu"} => y.IMTU = x.IMTU
  /\ step \notin {"l2opts", "sco_mtu"} => y.OMTU = x.OMTU
  /\ step # "l2opts" => y.MODE = x.MODE
  /\ step # "flushable" => y.FLUSHABLE = x.FLUSHABLE
  /\ step # "priority" => y.PRIORITY = x.PRIORITY
  /\ step # "sec_level" => y.SEC_LEVEL = x.SEC_LEVEL /\ BtIo!LmLevel(y.lm) = BtIo!LmLevel(x.lm)
  /\ step # "master" /\ (step # "sec_level" \/ modern) => y.lm = x.lm

\* y is x with other values of the kernel's options
Changed(y, x, i, u, m, f, p, l, g) ==
  /\ y \in SockTypes /\ SameSock(y, x)
  /\ y.IMTU = i /\ y.OMTU = u /\ y.MODE = m /\ y.FLUSHABLE = f /\ y.PRIORITY = p
  /\ y.SEC_LEVEL = l /\ y.lm = g

LEMMA L2optsChanged ==
  ASSUME NEW x \in SockTypes, NEW i \in Nat, NEW u \in Nat, NEW m \in Nat
  PROVE  Changed([x EXCEPT !.IMTU = i, !.OMTU = u, !.MODE = m], x, i, u, m, x.FLUSHABLE, x.PRIORITY, x.SEC_LEVEL, x.lm)
BY DEF Changed, SockTypes, SameSock

LEMMA ImtuChanged ==
  ASSUME NEW x \in SockTypes, NEW i \in Nat
  PROVE  Changed([x EXCEPT !.IMTU = i], x, i, x.OMTU, x.MODE, x.FLUSHABLE, x.PRIORITY, x.SEC_LEVEL, x.lm)
BY DEF Changed, SockTypes, SameSock

LEMMA MtuChanged ==
  ASSUME NEW x \in SockTypes, NEW i \in Nat, NEW u \in Nat
  PROVE  Changed([x EXCEPT !.IMTU = i, !.OMTU = u], x, i, u, x.MODE, x.FLUSHABLE, x.PRIORITY, x.SEC_LEVEL, x.lm)
BY DEF Changed, SockTypes, SameSock

LEMMA FlushableChanged ==
  ASSUME NEW x \in SockTypes, NEW f \in Int
  PROVE  Changed([x EXCEPT !.FLUSHABLE = f], x, x.IMTU, x.OMTU, x.MODE, f, x.PRIORITY, x.SEC_LEVEL, x.lm)
BY DEF Changed, SockTypes, SameSock

LEMMA PriorityChanged ==
  ASSUME NEW x \in SockTypes, NEW p \in Nat
  PROVE  Changed([x EXCEPT !.PRIORITY = p], x, x.IMTU, x.OMTU, x.MODE, x.FLUSHABLE, p, x.SEC_LEVEL, x.lm)
BY DEF Changed, SockTypes, SameSock

LEMMA LevelChanged ==
  ASSUME NEW x \in SockTypes, NEW l \in Nat
  PROVE  Changed([x EXCEPT !.SEC_LEVEL = l], x, x.IMTU, x.OMTU, x.MODE, x.FLUSHABLE, x.PRIORITY, l, x.lm)
BY DEF Changed, SockTypes, SameSock

LEMMA LmChanged ==
  ASSUME NEW x \in SockTypes, NEW g \in SUBSET {"AUTH", "ENCRYPT", "SECURE", "MASTER"}
  PROVE  Changed([x EXCEPT !.lm = g], x, x.IMTU, x.OMTU, x.MODE, x.FLUSHABLE, x.PRIORITY, x.SEC_LEVEL, g)
BY DEF Changed, SockTypes, SameSock

LEMMA NoneChanged ==
  ASSUME NEW x \in SockTypes
  PROVE  Changed(x, x, x.IMTU, x.OMTU, x.MODE, x.FLUSHABLE, x.PRIORITY, x.SEC_LEVEL, x.lm)
BY DEF Changed, SameSock

LEMMA SetStepHas ==
  ASSUME NEW o \in OptTypes, NEW x \in SockTypes, NEW step \in StepNames,
         step = "sec_level" => o.SEC_LEVEL \in 1 .. 3,
         modern \in BOOLEAN
  PROVE  Effect(o, x, BtIo!SetStep(o, x, step), step)
<1>1. o.IMTU \in Nat /\ o.OMTU \in Nat /\ o.MODE \in Nat /\ o.MTU \in Nat /\ o.PRIORITY \in Nat
      /\ o.SEC_LEVEL \in Nat /\ o.FLUSHABLE \in Int /\ o.MASTER \in Int
  BY DEF OptTypes
<1> DEFINE y == BtIo!SetStep(o, x, step)
<1>2. /\ step = "l2opts" => y = BtIo!set_l2opts(o, x)
      /\ step = "le_imtu" => y = BtIo!set_le_imtu(o, x)
      /\ step = "sco_mtu" => y = BtIo!sco_set(o, x)
      /\ step = "master" => y = BtIo!set_master(o, x)
      /\ step = "flushable" => y = BtIo!set_flushable(o, x)
      /\ step = "priority" => y = BtIo!set_priority(o, x)
      /\ step = "sec_level" => y = BtIo!set_sec_level(o, x)
      /\ step = "voice" => y = x
  BY DEF BtIo!SetStep
<1> SUFFICES Effect(o, x, y, step)
  OBVIOUS
<1> HIDE DEF y
<1>3. CASE step = "l2opts"
  <2> DEFINE i == BtIo!Keep(o.IMTU, x.IMTU)  u == BtIo!Keep(o.OMTU, x.OMTU)  m == BtIo!Keep(o.MODE, x.MODE)
  <2>1. y = [x EXCEPT !.IMTU = i, !.OMTU = u, !.MODE = m]
    BY <1>2, <1>3 DEF BtIo!set_l2opts
  <2>2. x.IMTU \in Nat /\ x.OMTU \in Nat /\ x.MODE \in Nat
    BY DEF SockTypes
  <2>3. i \in Nat /\ u \in Nat /\ m \in Nat
        /\ (o.IMTU # 0 => i = o.IMTU) /\ (o.OMTU # 0 => u = o.OMTU) /\ (o.MODE # 0 => m = o.MODE)
    BY <1>1, <2>2 DEF BtIo!Keep
  <2> HIDE DEF i, u, m
  <2>4. Changed(y, x, i, u, m, x.FLUSHABLE, x.PRIORITY, x.SEC_LEVEL, x.lm)
    BY <2>1, <2>3, L2optsChanged, Zenon
  <2>5. QED BY <1>3, <2>3, <2>4 DEF Changed, Effect
<1>4. CASE step = "le_imtu"
  <2>1. y = [x EXCEPT !.IMTU = o.IMTU]
    BY <1>2, <1>4 DEF BtIo!set_le_imtu
  <2>2. Changed(y, x, o.IMTU, x.OMTU, x.MODE, x.FLUSHABLE, x.PRIORITY, x.SEC_LEVEL, x.lm)
    BY <1>1, <2>1, ImtuChanged
  <2>3. QED BY <1>4, <2>2 DEF Changed, Effect
<1>5. CASE step = "sco_mtu"
  <2>1. y = [x EXCEPT !.IMTU = o.MTU, !.OMTU = o.MTU]
    BY <1>2, <1>5 DEF BtIo!sco_set
  <2>2. Changed(y, x, o.MTU, o.MTU, x.MODE, x.FLUSHABLE, x.PRIORITY, x.SEC_LEVEL, x.lm)
    BY <1>1, <2>1, MtuChanged, Zenon
  <2>3. QED BY <1>5, <2>2 DEF Changed, Effect
<1>6. CASE step = "master"
  <2> DEFINE g == IF o.MASTER = 1 THEN x.lm \cup {"MASTER"} ELSE x.lm \ {"MASTER"}
  <2>1. y = [x EXCEPT !.lm = g]
    BY <1>2, <1>6 DEF BtIo!set_master
  <2>2. x.lm \in SUBSET {"AUTH", "ENCRYPT", "SECURE", "MASTER"}
    BY DEF SockTypes
  <2>3. g \in SUBSET {"AUTH", "ENCRYPT", "SECURE", "MASTER"} /\ ("MASTER" \in g <=> o.MASTER = 1)
        /\ \A f \in {"AUTH", "ENCRYPT", "SECURE"} : f \in g <=> f \in x.lm
    BY <2>2
  <2> HIDE DEF g
  <2>4. BtIo!LmLevel(g) = BtIo!LmLevel(x.lm)
    BY <2>3 DEF BtIo!LmLevel
  <2>5. Changed(y, x, x.IMTU, x.OMTU, x.MODE, x.FLUSHABLE, x.PRIORITY, x.SEC_LEVEL, g)
    BY <2>1, <2>3, LmChanged
  <2>6. QED BY <1>6, <2>3, <2>4, <2>5 DEF Changed, Effect
<1>7. CASE step = "flushable"
  <2>1. y = [x EXCEPT !.FLUSHABLE = o.FLUSHABLE]
    BY <1>2, <1>7 DEF BtIo!set_flushable
  <2>2. Changed(y, x, x.IMTU, x.OMTU, x.MODE, o.FLUSHABLE, x.PRIORITY, x.SEC_LEVEL, x.lm)
    BY <1>1, <2>1, FlushableChanged
  <2>3. QED BY <1>7, <2>2 DEF Changed, Effect
<1>8. CASE step = "priority"
  <2>1. y = [x EXCEPT !.PRIORITY = o.PRIORITY]
    BY <1>2, <1>8 DEF BtIo!set_priority
  <2>2. Changed(y, x, x.IMTU, x.OMTU, x.MODE, x.FLUSHABLE, o.PRIORITY, x.SEC_LEVEL, x.lm)
    BY <1>1, <2>1, PriorityChanged
  <2>3. QED BY <1>8, <2>2 DEF Changed, Effect
<1>9. CASE step = "voice"
  <2>1. Changed(y, x, x.IMTU, x.OMTU, x.MODE, x.FLUSHABLE, x.PRIORITY, x.SEC_LEVEL, x.lm)
    BY <1>2, <1>9, NoneChanged
  <2>2. QED BY <1>9, <2>1 DEF Changed, Effect
<1>10. CASE step = "sec_level" /\ modern
  <2>1. y = [x EXCEPT !.SEC_LEVEL = o.SEC_LEVEL]
    BY <1>2, <1>10 DEF BtIo!set_sec_level
  <2>2. Changed(y, x, x.IMTU, x.OMTU, x.MODE, x.FLUSHABLE, x.PRIORITY, o.SEC_LEVEL, x.lm)
    BY <1>1, <2>1, LevelChanged
  <2>3. QED BY <1>10, <2>2 DEF Changed, Effect
<1>11. CASE step = "sec_level" /\ ~modern
  <2> DEFINE g == BtIo!LmMap[o.SEC_LEVEL]
  <2>1. y = [x EXCEPT !.lm = g]
    BY <1>2, <1>11 DEF BtIo!set_sec_level
  <2>2. o.SEC_LEVEL \in 1 .. 3
    BY <1>11
  <2>3. g \in SUBSET {"AUTH", "ENCRYPT", "SECURE", "MASTER"} /\ BtIo!LmLevel(g) = o.SEC_LEVEL
    BY <2>2 DEF BtIo!LmMap, BtIo!LmLevel
  <2> HIDE DEF g
  <2>4. Changed(y, x, x.IMTU, x.OMTU, x.MODE, x.FLUSHABLE, x.PRIORITY, x.SEC_LEVEL, g)
    BY <2>1, <2>3, LmChanged
  <2>5. QED BY <1>11, <2>3, <2>4 DEF Changed, Effect
<1>12. QED
  BY <1>3, <1>4, <1>5, <1>6, <1>7, <1>8, <1>9, <1>10, <1>11 DEF StepNames

LEMMA DoneMore ==
  ASSUME NEW q, NEW k \in Nat, NEW name
  PROVE  Done(q, k + 1, name) <=> Done(q, k, name) \/ q[k + 1] = name
<1>1. 1 .. (k + 1) = (1 .. k) \cup {k + 1}
  OBVIOUS
<1>2. QED BY <1>1 DEF Done

LEMMA KeptStep ==
  ASSUME NEW o \in OptTypes, NEW q \in Seq(StepNames),
         "sco_mtu" \in Range(q) => "l2opts" \notin Range(q) /\ "le_imtu" \notin Range(q),
         NEW k \in Nat, k + 1 <= Len(q), modern \in BOOLEAN,
         NEW x, NEW y, Kept(o, q, x, k), Effect(o, x, y, q[k + 1])
  PROVE  Kept(o, q, y, k + 1)
<1> DEFINE step == q[k + 1]
<1>1. \A name : Done(q, k + 1, name) <=> Done(q, k, name) \/ step = name
  BY DoneMore
<1>2. k + 1 \in DOMAIN q /\ \A j \in 1 .. k : j \in DOMAIN q
  OBVIOUS
<1>3. step \in Range(q) /\ \A name : Done(q, k, name) => name \in Range(q)
  BY <1>2 DEF Range, Done
<1>4. /\ Done(q, k, "sco_mtu") => step # "l2opts" /\ step # "le_imtu"
      /\ Done(q, k, "l2opts") \/ Done(q, k, "le_imtu") => step # "sco_mtu"
  BY <1>3
<1>5. Effect(o, x, y, step)
  OBVIOUS
<1> HIDE DEF step
<1>6. Done(q, k + 1, "l2opts") \/ Done(q, k + 1, "le_imtu") => (o.IMTU # 0 => y.IMTU = o.IMTU)
  BY <1>1, <1>4, <1>5 DEF Effect, Kept
<1>7. Done(q, k + 1, "l2opts") => (o.OMTU # 0 => y.OMTU = o.OMTU) /\ (o.MODE # 0 => y.MODE = o.MODE)
  BY <1>1, <1>4, <1>5 DEF Effect, Kept
<1>8. Done(q, k + 1, "sco_mtu") => y.IMTU = o.MTU
  BY <1>1, <1>4, <1>5 DEF Effect, Kept
<1>9. Done(q, k + 1, "flushable") => y.FLUSHABLE = o.FLUSHABLE
  BY <1>1, <1>5 DEF Effect, Kept
<1>10. Done(q, k + 1, "priority") => y.PRIORITY = o.PRIORITY
  BY <1>1, <1>5 DEF Effect, Kept
<1>11. Done(q, k + 1, "sec_level") => IF modern THEN y.SEC_LEVEL = o.SEC_LEVEL ELSE BtIo!LmLevel(y.lm) = o.SEC_LEVEL
  BY <1>1, <1>5 DEF Effect, Kept
<1>12. ASSUME NEW j \in 1 .. (k + 1), q[j] = "master",
              modern \/ \A i \in (j + 1) .. (k + 1) : q[i] # "sec_level"
       PROVE  "MASTER" \in y.lm <=> o.MASTER = 1
  <2>1. CASE step = "master"
    BY <1>5, <2>1 DEF Effect
  <2>2. CASE step # "master"
    <3>1. j \in 1 .. k /\ \A i \in (j + 1) .. k : i \in (j + 1) .. (k + 1)
      BY <1>12, <2>2 DEF step
    <3>2. k + 1 \in (j + 1) .. (k + 1)
      BY <3>1
    <3>3. "MASTER" \in x.lm <=> o.MASTER = 1
      BY <1>12, <3>1 DEF Kept
    <3>4. step # "sec_level" \/ modern
      BY <1>12, <3>2 DEF step
    <3>5. y.lm = x.lm
      BY <1>5, <2>2, <3>4 DEF Effect
    <3>6. QED BY <3>3, <3>5
  <2>3. QED BY <2>1, <2>2
<1>13. QED
  BY <1>6, <1>7, <1>8, <1>9, <1>10, <1>11, <1>12 DEF Kept

\* the first k options were set on s
So(o, s, x, k) ==
  x \in SockTypes /\ SameSock(x, s) /\ Kept(o, BtIo!Sets(s.type, o), x, k)

LEMMA AppliedKeeps ==
  ASSUME NEW o \in OptTypes, NEW s \in SockTypes, NEW n, n \in BtIo!Takes(o, s), modern \in BOOLEAN
  PROVE  So(o, s, BtIo!Applied(o, s, n), n)
<1> DEFINE q == BtIo!Sets(s.type, o)
           After(x, k) == IF k <= n THEN BtIo!SetStep(o, x, q[k]) ELSE x
           Least(k) == IF k <= n THEN k ELSE n
<1>1. s.type \in BtIo!Types
  BY DEF SockTypes
<1>2. /\ q \in Seq(StepNames) /\ Len(q) \in 0 .. 5
      /\ "sco_mtu" \in Range(q) => "l2opts" \notin Range(q) /\ "le_imtu" \notin Range(q)
  BY <1>1, SetsOf DEF BtIo!Most
<1>3. n \in 0 .. Len(q) /\ \A i \in 1 .. n : q[i] = "sec_level" => o.SEC_LEVEL \in 1 .. 3
  BY DEF BtIo!Takes
<1>4. BtIo!Applied(o, s, n) = After(After(After(After(After(s, 1), 2), 3), 4), 5)
  BY DEF BtIo!Applied
<1> HIDE DEF q
<1>5. ASSUME NEW x, NEW k \in 0 .. 4, So(o, s, x, Least(k))
      PROVE  So(o, s, After(x, k + 1), Least(k + 1))
  <2>1. CASE k + 1 <= n
    <3> DEFINE y == BtIo!SetStep(o, x, q[k + 1])
    <3>1. Least(k) = k /\ Least(k + 1) = k + 1 /\ After(x, k + 1) = y
      BY <1>2, <1>3, <2>1
    <3>2. k + 1 \in 1 .. n /\ k + 1 \in 1 .. Len(q) /\ k + 1 <= Len(q) /\ k \in Nat
      BY <1>2, <1>3, <2>1
    <3>3. q[k + 1] \in StepNames
      BY <1>2, <3>2
    <3>4. q[k + 1] = "sec_level" => o.SEC_LEVEL \in 1 .. 3
      BY <1>3, <3>2
    <3>5. x \in SockTypes /\ SameSock(x, s) /\ Kept(o, q, x, k)
      BY <1>5, <3>1 DEF So, q
    <3>6. Effect(o, x, y, q[k + 1])
      BY <3>3, <3>4, <3>5, SetStepHas
    <3> HIDE DEF y
    <3>7. Kept(o, q, y, k + 1)
      BY <1>2, <3>2, <3>5, <3>6, KeptStep
    <3>8. y \in SockTypes /\ SameSock(y, s)
      BY <3>5, <3>6 DEF Effect, SameSock
    <3>9. So(o, s, y, k + 1)
      BY <3>7, <3>8 DEF So, q
    <3>10. QED BY <3>1, <3>9
  <2>2. CASE ~(k + 1 <= n)
    <3>1. Least(k) = n /\ Least(k + 1) = n /\ After(x, k + 1) = x
      BY <1>2, <1>3, <2>2
    <3>2. QED BY <1>5, <3>1
  <2>3. QED BY <2>1, <2>2
<1>6. So(o, s, s, Least(0))
  <2>1. Least(0) = 0
    BY <1>2, <1>3
  <2>2. Kept(o, q, s, 0)
    BY DEF Kept, Done
  <2>3. QED BY <2>1, <2>2 DEF So, SameSock, q
<1>7. Least(5) = n
  BY <1>2, <1>3
<1> HIDE DEF After, Least
<1>8. So(o, s, After(s, 1), Least(1))
  BY <1>5, <1>6
<1>9. So(o, s, After(After(s, 1), 2), Least(2))
  BY <1>5, <1>8
<1>10. So(o, s, After(After(After(s, 1), 2), 3), Least(3))
  BY <1>5, <1>9
<1>11. So(o, s, After(After(After(After(s, 1), 2), 3), 4), Least(4))
  BY <1>5, <1>10
<1>12. So(o, s, After(After(After(After(After(s, 1), 2), 3), 4), 5), Least(5))
  BY <1>5, <1>11
<1>13. QED BY <1>4, <1>7, <1>12

\* If all options were set, bt_io_get tells those that take effect.
Faithful(o, y) ==
  \A name \in BtIo!Effective(y, o) : o[name] # BtIo!Defaults[name] =>
    name \in BtIo!Known(y.type) /\ BtIo!Got(y, name) = o[name]

LEMMA DefaultsAre ==
  /\ BtIo!Defaults["SEC_LEVEL"] = 0 /\ BtIo!Defaults["MTU"] = 0 /\ BtIo!Defaults["IMTU"] = 0
  /\ BtIo!Defaults["OMTU"] = 0 /\ BtIo!Defaults["MODE"] = 0 /\ BtIo!Defaults["PRIORITY"] = 0
  /\ BtIo!Defaults["MASTER"] = -1 /\ BtIo!Defaults["FLUSHABLE"] = -1
BY DEF BtIo!Defaults

LEMMA AllSet ==
  ASSUME NEW o \in OptTypes, NEW y \in SockTypes, modern \in BOOLEAN,
         Kept(o, BtIo!Sets(y.type, o), y, Len(BtIo!Sets(y.type, o)))
  PROVE  Faithful(o, y)
<1> DEFINE q == BtIo!Sets(y.type, o)
<1>1. y.type \in BtIo!Types
  BY DEF SockTypes
<1>2. q \in Seq(StepNames) /\ Len(q) \in Nat
  BY <1>1, SetsOf DEF BtIo!Most
<1>3. \A name : name \in Range(q) => Done(q, Len(q), name)
  BY <1>2 DEF Range, Done
<1>4. Kept(o, q, y, Len(q))
  OBVIOUS
<1>5. /\ o.SEC_LEVEL \in Nat /\ o.MTU \in Nat /\ o.IMTU \in Nat /\ o.OMTU \in Nat /\ o.MODE \in Nat
      /\ o.PRIORITY \in Nat /\ o.MASTER \in {-1, 0, 1} /\ o.FLUSHABLE \in {-1, 0, 1}
      /\ o.SOURCE_TYPE \in {"BREDR", "LE"}
  BY DEF OptTypes
<1>6. /\ BtIo!Got(y, "MTU") = y.IMTU /\ BtIo!Got(y, "IMTU") = y.IMTU /\ BtIo!Got(y, "OMTU") = y.OMTU
      /\ BtIo!Got(y, "MODE") = y.MODE /\ BtIo!Got(y, "FLUSHABLE") = y.FLUSHABLE
      /\ BtIo!Got(y, "PRIORITY") = y.PRIORITY
      /\ BtIo!Got(y, "MASTER") = (IF "MASTER" \in y.lm THEN 1 ELSE 0)
      /\ BtIo!Got(y, "SEC_LEVEL") = (IF modern THEN y.SEC_LEVEL ELSE BtIo!LmLevel(y.lm))
  BY DEF BtIo!Got
<1>7. ASSUME "sec_level" \in Range(q)
      PROVE  BtIo!Got(y, "SEC_LEVEL") = o.SEC_LEVEL
  BY <1>3, <1>4, <1>6, <1>7 DEF Kept
<1>8. ASSUME NEW j \in 1 .. Len(q), q[j] = "master", o.MASTER # -1,
             modern \/ \A i \in (j + 1) .. Len(q) : q[i] # "sec_level"
      PROVE  BtIo!Got(y, "MASTER") = o.MASTER
  <2>1. "MASTER" \in y.lm <=> o.MASTER = 1
    BY <1>4, <1>8 DEF Kept
  <2>2. QED BY <1>5, <1>6, <1>8, <2>1
<1>9. ASSUME "master" \in Range(q)
      PROVE  \E j \in 1 .. Len(q) : q[j] = "master"
  BY <1>3, <1>9 DEF Done
<1>10. ASSUME o.MASTER # -1, "master" \in Range(q),
             modern \/ \A i \in 1 .. Len(q) : q[i] # "sec_level"
       PROVE  BtIo!Got(y, "MASTER") = o.MASTER
  <2>1. PICK j \in 1 .. Len(q) : q[j] = "master"
    BY <1>9, <1>10
  <2>2. \A i \in (j + 1) .. Len(q) : i \in 1 .. Len(q)
    BY <1>2
  <2>3. QED BY <1>8, <1>10, <2>1, <2>2
<1> DEFINE Is(name) == o[name] # BtIo!Defaults[name] => name \in BtIo!Known(y.type) /\ BtIo!Got(y, name) = o[name]
<1>11. CASE y.type = "SCO"
  <2>1. q = BtIo!ScoSet(o) /\ BtIo!Effective(y, o) = {"MTU"} /\ "MTU" \in BtIo!Known(y.type)
    BY <1>11 DEF BtIo!Sets, BtIo!Effective, BtIo!Known
  <2>2. ASSUME o.MTU # 0 PROVE y.IMTU = o.MTU
    <3>1. "sco_mtu" \in Range(q)
      BY <2>1, <2>2, ScoSets
    <3> HIDE DEF q
    <3>2. QED BY <1>3, <1>4, <3>1 DEF Kept
  <2> HIDE DEF q
  <2>3. QED BY <1>6, <2>1, <2>2, DefaultsAre DEF Faithful
<1>12. CASE y.type = "RFCOMM"
  <2>1. q = BtIo!RfcommSet(o) /\ BtIo!Effective(y, o) = {"SEC_LEVEL", "MASTER"}
        /\ "SEC_LEVEL" \in BtIo!Known(y.type) /\ "MASTER" \in BtIo!Known(y.type)
    BY <1>12 DEF BtIo!Sets, BtIo!Effective, BtIo!Known
  <2>2. Range(q) = (IF o.SEC_LEVEL # 0 THEN {"sec_level"} ELSE {})
                   \cup (IF o.MASTER >= 0 THEN {"master"} ELSE {})
        /\ \A i, j \in 1 .. Len(q) : q[j] = "master" => i <= j
    BY <2>1, RfcommSets
  <2> HIDE DEF q
  <2>3. o.SEC_LEVEL # 0 => BtIo!Got(y, "SEC_LEVEL") = o.SEC_LEVEL
    BY <1>7, <2>2
  <2>4. ASSUME o.MASTER # -1 PROVE BtIo!Got(y, "MASTER") = o.MASTER
    <3>1. "master" \in Range(q)
      BY <1>5, <2>2, <2>4
    <3>2. PICK j \in 1 .. Len(q) : q[j] = "master"
      BY <1>9, <3>1
    <3>3. \A i \in (j + 1) .. Len(q) : FALSE
      BY <1>2, <2>2, <3>2
    <3>4. QED BY <1>8, <2>4, <3>2, <3>3
  <2>5. QED BY <2>1, <2>3, <2>4, DefaultsAre DEF Faithful
<1>13. CASE y.type = "L2CAP"
  <2>1. q = BtIo!L2capSet(o)
    BY <1>13 DEF BtIo!Sets
  <2>2. Range(q) =
          (IF o.IMTU # 0 \/ o.OMTU # 0 \/ o.MODE # 0
           THEN {IF o.SOURCE_TYPE = "BREDR" THEN "l2opts" ELSE "le_imtu"} ELSE {})
          \cup (IF o.MASTER >= 0 THEN {"master"} ELSE {})
          \cup (IF o.FLUSHABLE >= 0 THEN {"flushable"} ELSE {})
          \cup (IF o.PRIORITY > 0 THEN {"priority"} ELSE {})
          \cup (IF o.SEC_LEVEL # 0 THEN {"sec_level"} ELSE {})
    BY <2>1, L2capSets
  <2> HIDE DEF q
  <2>3. Is("IMTU")
    <3>1. o.IMTU # 0 => "l2opts" \in Range(q) \/ "le_imtu" \in Range(q)
      BY <2>2
    <3>2. o.IMTU # 0 => y.IMTU = o.IMTU
      BY <1>3, <1>4, <3>1 DEF Kept
    <3>3. "IMTU" \in BtIo!Known(y.type)
      BY <1>13 DEF BtIo!Known
    <3>4. QED BY <1>6, <3>2, <3>3, DefaultsAre
  <2>4. o.SOURCE_TYPE = "BREDR" => Is("OMTU") /\ Is("MODE")
    <3>1. o.SOURCE_TYPE = "BREDR" /\ (o.OMTU # 0 \/ o.MODE # 0) => "l2opts" \in Range(q)
      BY <2>2
    <3>2. o.SOURCE_TYPE = "BREDR" => (o.OMTU # 0 => y.OMTU = o.OMTU) /\ (o.MODE # 0 => y.MODE = o.MODE)
      BY <1>3, <1>4, <3>1 DEF Kept
    <3>3. "OMTU" \in BtIo!Known(y.type) /\ "MODE" \in BtIo!Known(y.type)
      BY <1>13 DEF BtIo!Known
    <3>4. QED BY <1>6, <3>2, <3>3, DefaultsAre
  <2>5. Is("FLUSHABLE")
    <3>1. o.FLUSHABLE # -1 => "flushable" \in Range(q)
      BY <1>5, <2>2
    <3>2. o.FLUSHABLE # -1 => y.FLUSHABLE = o.FLUSHABLE
      BY <1>3, <1>4, <3>1 DEF Kept
    <3>3. "FLUSHABLE" \in BtIo!Known(y.type)
      BY <1>13 DEF BtIo!Known
    <3>4. QED BY <1>6, <3>2, <3>3, DefaultsAre
  <2>6. Is("PRIORITY")
    <3>1. o.PRIORITY # 0 => "priority" \in Range(q)
      BY <1>5, <2>2
    <3>2. o.PRIORITY # 0 => y.PRIORITY = o.PRIORITY
      BY <1>3, <1>4, <3>1 DEF Kept
    <3>3. "PRIORITY" \in BtIo!Known(y.type)
      BY <1>13 DEF BtIo!Known
    <3>4. QED BY <1>6, <3>2, <3>3, DefaultsAre
  <2>7. Is("SEC_LEVEL")
    <3>1. o.SEC_LEVEL # 0 => "sec_level" \in Range(q)
      BY <2>2
    <3>2. "SEC_LEVEL" \in BtIo!Known(y.type)
      BY <1>13 DEF BtIo!Known
    <3>3. QED BY <1>7, <3>1, <3>2, DefaultsAre
  <2>8. modern \/ o.SEC_LEVEL = 0 => Is("MASTER")
    <3> SUFFICES ASSUME modern \/ o.SEC_LEVEL = 0, o.MASTER # -1
                 PROVE  "MASTER" \in BtIo!Known(y.type) /\ BtIo!Got(y, "MASTER") = o.MASTER
      BY DefaultsAre
    <3>1. "master" \in Range(q)
      BY <1>5, <2>2
    <3>2. o.SEC_LEVEL = 0 => "sec_level" \notin Range(q)
      BY <2>2
    <3>3. modern \/ \A i \in 1 .. Len(q) : q[i] # "sec_level"
      BY <1>2, <3>2 DEF Range
    <3>4. "MASTER" \in BtIo!Known(y.type)
      BY <1>13 DEF BtIo!Known
    <3>5. QED BY <1>10, <3>1, <3>3, <3>4
  <2>9. BtIo!Effective(y, o) = {"IMTU", "FLUSHABLE", "PRIORITY", "SEC_LEVEL"}
          \cup (IF y.le \/ o.SOURCE_TYPE # "BREDR" THEN {} ELSE {"OMTU", "MODE"})
          \cup (IF modern \/ o.SEC_LEVEL = 0 THEN {"MASTER"} ELSE {})
    BY <1>13 DEF BtIo!Effective
  <2> HIDE DEF Is
  <2>10. \A name \in BtIo!Effective(y, o) : Is(name)
    <3> SUFFICES ASSUME NEW name \in BtIo!Effective(y, o) PROVE Is(name)
      OBVIOUS
    <3>1. \/ name = "IMTU" \/ name = "FLUSHABLE" \/ name = "PRIORITY" \/ name = "SEC_LEVEL"
          \/ (o.SOURCE_TYPE = "BREDR" /\ (name = "OMTU" \/ name = "MODE"))
          \/ ((modern \/ o.SEC_LEVEL = 0) /\ name = "MASTER")
      BY <2>9
    <3>2. QED BY <2>3, <2>4, <2>5, <2>6, <2>7, <2>8, <3>1
  <2>11. QED BY <2>10 DEF Is, Faithful
<1>14. QED BY <1>1, <1>11, <1>12, <1>13 DEF BtIo!Types

-----------------------------------------------------------------------------
(* The sockets.                                                             *)

Watched(s) == IF s.watch = "none" THEN 0 ELSE 1

\* whoever was told is watched no more, and hears that there is a connection
\* of a socket that has or had one; a watch holds the socket
SockInv(s) ==
  /\ s \in SockTypes
  /\ s.told # <<>> => s.watch = "none" /\ s.added # 0
  /\ Len(s.told) <= 1
  /\ s.told = <<"ok">> => s.wasUp /\ s.state \in {"up", "down"}
  /\ s.state = "up" => s.wasUp
  /\ s.destroyed = s.added - Watched(s)
  /\ s.refs >= Watched(s)
  /\ s.open <=> s.refs > 0 /\ ~s.shut

LEMMA NewSockInv ==
  ASSUME NEW type \in BtIo!Types, NEW o
  PROVE  LET s == BtIo!NewSock(type, o) IN
         SockInv(s) /\ s.state = "bound" /\ s.told = <<>> /\ s.watch = "none" /\ s.refs = 1 /\ s.open /\ ~s.shut
         /\ s.added = 0 /\ s.destroyed = 0 /\ s.type = type /\ s.le = (o.SOURCE_TYPE # "BREDR")
<1> DEFINE s == BtIo!NewSock(type, o)
<1>1. s \in SockTypes
  BY DEF BtIo!NewSock, SockTypes
<1>2. /\ s.state = "bound" /\ s.told = <<>> /\ s.watch = "none" /\ s.refs = 1 /\ s.open /\ ~s.shut
      /\ s.added = 0 /\ s.destroyed = 0 /\ s.type = type /\ s.le = (o.SOURCE_TYPE # "BREDR")
  BY DEF BtIo!NewSock
<1> HIDE DEF s
<1>3. SockInv(s)
  BY <1>1, <1>2 DEF SockInv, Watched
<1>4. QED BY <1>2, <1>3 DEF s

\* options do not matter
LEMMA SameSockInv ==
  ASSUME NEW s, SockInv(s), NEW x \in SockTypes, SameSock(x, s)
  PROVE  SockInv(x)
BY DEF SockInv, SameSock, Watched

LEMMA SockUnrefInv ==
  ASSUME NEW s, SockInv(s), s.refs > Watched(s)
  PROVE  SockInv(BtIo!Unref(s))
<1> DEFINE r == s.refs - 1  p == (s.open /\ s.refs > 1)  t == BtIo!Unref(s)
<1>1. s \in SockTypes /\ s.refs \in Nat /\ Watched(s) \in {0, 1}
  BY DEF SockInv, SockTypes, Watched
<1>2. t = [s EXCEPT !.refs = r, !.open = p]
  BY DEF BtIo!Unref
<1>3. r \in Nat /\ p \in BOOLEAN /\ (p <=> r > 0 /\ ~s.shut) /\ r >= Watched(s)
  BY <1>1 DEF SockInv
<1> HIDE DEF r, p, t
<1>4. t \in SockTypes /\ t.refs = r /\ t.open = p /\ t.shut = s.shut /\ t.told = s.told /\ t.watch = s.watch
      /\ t.added = s.added /\ t.destroyed = s.destroyed /\ t.state = s.state /\ t.wasUp = s.wasUp
  BY <1>1, <1>2, <1>3 DEF SockTypes
<1>5. SockInv(t)
  BY <1>3, <1>4 DEF SockInv, Watched
<1>6. QED BY <1>5 DEF t

LEMMA WatchInv ==
  ASSUME NEW s, SockInv(s), s.watch = "none", s.told = <<>>, s.refs > 0,
         NEW kind \in {"connect", "server", "accept"}
  PROVE  SockInv(BtIo!Watch(s, kind))
<1> DEFINE a == s.added + 1  r == s.refs + 1  t == BtIo!Watch(s, kind)
<1>1. s \in SockTypes /\ s.refs \in Nat /\ s.added \in Nat /\ s.destroyed = s.added
  BY DEF SockInv, SockTypes, Watched
<1>2. t = [s EXCEPT !.watch = kind, !.added = a, !.refs = r]
  BY DEF BtIo!Watch
<1>3. a \in Nat /\ r \in Nat /\ r >= 1 /\ r > 0 /\ s.destroyed = a - 1 /\ (s.open <=> ~s.shut)
  BY <1>1 DEF SockInv
<1> HIDE DEF a, r, t
<1>4. t \in SockTypes /\ t.refs = r /\ t.open = s.open /\ t.shut = s.shut /\ t.told = s.told /\ t.watch = kind
      /\ t.added = a /\ t.destroyed = s.destroyed /\ t.state = s.state /\ t.wasUp = s.wasUp
  BY <1>1, <1>2, <1>3 DEF SockTypes
<1>5. Watched(t) = 1
  BY <1>4 DEF Watched
<1>6. SockInv(t)
  BY <1>3, <1>4, <1>5 DEF SockInv
<1>7. QED BY <1>6 DEF t

\* words: what the watch says before it goes
LEMMA UnwatchInv ==
  ASSUME NEW s, SockInv(s), s.watch # "none",
         NEW told \in Seq({"ok", "error"}), Len(told) <= 1,
         told = <<"ok">> => s.wasUp /\ s.state \in {"up", "down"}
  PROVE  SockInv(BtIo!Unwatch([s EXCEPT !.told = told]))
<1> DEFINE d == s.destroyed + 1  c == [s EXCEPT !.told = told]
           b == [c EXCEPT !.watch = "none", !.destroyed = d]
<1>1. s \in SockTypes /\ s.destroyed \in Nat /\ s.added \in Nat /\ s.refs \in Nat
      /\ s.destroyed = s.added - 1 /\ s.refs >= 1
  BY DEF SockInv, SockTypes, Watched
<1>2. c \in SockTypes /\ c.refs = s.refs /\ c.open = s.open /\ c.shut = s.shut /\ c.told = told /\ c.watch = s.watch
      /\ c.added = s.added /\ c.destroyed = s.destroyed /\ c.state = s.state /\ c.wasUp = s.wasUp
  BY <1>1 DEF SockTypes
<1>3. d \in Nat /\ d = s.added
  BY <1>1
<1>4. BtIo!Unwatch(c) = BtIo!Unref([c EXCEPT !.watch = "none", !.destroyed = c.destroyed + 1])
  BY DEF BtIo!Unwatch
<1>5. BtIo!Unwatch(c) = BtIo!Unref(b)
  BY <1>2, <1>4
<1> HIDE DEF c, d
<1>6. b \in SockTypes /\ b.refs = s.refs /\ b.open = s.open /\ b.shut = s.shut /\ b.told = told /\ b.watch = "none"
      /\ b.added = s.added /\ b.destroyed = d /\ b.state = s.state /\ b.wasUp = s.wasUp
  BY <1>2, <1>3 DEF SockTypes
<1> HIDE DEF b
<1>7. Watched(b) = 0
  BY <1>6 DEF Watched
<1>8. SockInv(b)
  BY <1>1, <1>3, <1>6, <1>7 DEF SockInv
<1>9. SockInv(BtIo!Unref(b))
  BY <1>1, <1>6, <1>7, <1>8, SockUnrefInv
<1>10. QED BY <1>5, <1>9 DEF c

LEMMA StateInv ==
  ASSUME NEW s, SockInv(s), NEW t \in SockTypes,
         t.refs = s.refs, t.open = s.open, t.shut = s.shut, t.told = s.told, t.watch = s.watch,
         t.added = s.added, t.destroyed = s.destroyed,
         t.state = "up" => t.wasUp,
         s.told = <<"ok">> => t.wasUp /\ t.state \in {"up", "down"}
  PROVE  SockInv(t)
BY DEF SockInv, Watched

LEMMA ShutInv ==
  ASSUME NEW s, SockInv(s)
  PROVE  SockInv([s EXCEPT !.open = FALSE, !.shut = TRUE])
<1> DEFINE t == [s EXCEPT !.open = FALSE, !.shut = TRUE]
<1>1. s \in SockTypes
  BY DEF SockInv
<1>2. t \in SockTypes /\ t.refs = s.refs /\ t.open = FALSE /\ t.shut = TRUE /\ t.told = s.told /\ t.watch = s.watch
      /\ t.added = s.added /\ t.destroyed = s.destroyed /\ t.state = s.state /\ t.wasUp = s.wasUp
  BY <1>1 DEF SockTypes
<1> HIDE DEF t
<1>3. SockInv(t)
  BY <1>2 DEF SockInv, Watched
<1>4. QED BY <1>3 DEF t

\* connect or listen, with a watch
LEMMA BegunInv ==
  ASSUME NEW s, SockInv(s), s.watch = "none", s.told = <<>>, s.refs > 0,
         NEW kind \in {"connect", "server"}, NEW confirms \in BOOLEAN
  PROVE  LET t == BtIo!Begun(s, kind, confirms) IN
         /\ SockInv(t)
         /\ \A name \in {"type", "le", "lm", "SEC_LEVEL", "IMTU", "OMTU", "MODE", "FLUSHABLE", "PRIORITY"} :
              t[name] = s[name]
<1>1. s \in SockTypes
  BY DEF SockInv
<1>2. ASSUME NEW c, SockInv(c), c.watch = "none", c.told = <<>>, c.refs > 0, NEW k \in {"connect", "server"}
      PROVE  /\ SockInv(BtIo!Watch(c, k))
             /\ \A name \in {"type", "le", "lm", "SEC_LEVEL", "IMTU", "OMTU", "MODE", "FLUSHABLE", "PRIORITY"} :
                  BtIo!Watch(c, k)[name] = c[name]
  <2>1. SockInv(BtIo!Watch(c, k))
    BY <1>2, WatchInv
  <2>2. c \in SockTypes
    BY <1>2 DEF SockInv
  <2>3. BtIo!Watch(c, k) = [c EXCEPT !.watch = k, !.added = c.added + 1, !.refs = c.refs + 1]
    BY DEF BtIo!Watch
  <2>4. QED BY <2>1, <2>2, <2>3 DEF SockTypes
<1>3. CASE kind = "connect"
  <2> DEFINE c == [s EXCEPT !.state = "connecting"]
  <2>1. c \in SockTypes /\ c.refs = s.refs /\ c.open = s.open /\ c.shut = s.shut /\ c.told = s.told /\ c.watch = s.watch
        /\ c.added = s.added /\ c.destroyed = s.destroyed /\ c.state = "connecting"
        /\ \A name \in {"type", "le", "lm", "SEC_LEVEL", "IMTU", "OMTU", "MODE", "FLUSHABLE", "PRIORITY"} :
             c[name] = s[name]
    BY <1>1 DEF SockTypes
  <2>2. BtIo!Begun(s, kind, confirms) = BtIo!Watch(c, kind)
    BY <1>3 DEF BtIo!Begun
  <2> HIDE DEF c
  <2>3. SockInv(c)
    <3>1. s.told # <<"ok">> /\ c.state # "up"
      BY <2>1
    <3>2. QED BY <2>1, <3>1, StateInv
  <2>4. QED BY <1>2, <2>1, <2>2, <2>3
<1>4. CASE kind # "connect"
  <2> DEFINE c == [s EXCEPT !.state = "listening", !.hasPSM = TRUE, !.confirms = confirms]
  <2>1. c \in SockTypes /\ c.refs = s.refs /\ c.open = s.open /\ c.shut = s.shut /\ c.told = s.told /\ c.watch = s.watch
        /\ c.added = s.added /\ c.destroyed = s.destroyed /\ c.state = "listening"
        /\ \A name \in {"type", "le", "lm", "SEC_LEVEL", "IMTU", "OMTU", "MODE", "FLUSHABLE", "PRIORITY"} :
             c[name] = s[name]
    BY <1>1 DEF SockTypes
  <2>2. BtIo!Begun(s, kind, confirms) = BtIo!Watch(c, kind)
    BY <1>4 DEF BtIo!Begun
  <2> HIDE DEF c
  <2>3. SockInv(c)
    <3>1. s.told # <<"ok">> /\ c.state # "up"
      BY <2>1
    <3>2. QED BY <2>1, <3>1, StateInv
  <2>4. QED BY <1>2, <2>1, <2>2, <2>3
<1>5. QED BY <1>3, <1>4

BtIoInv ==
  /\ modern \in BOOLEAN
  /\ sock \in Seq(SockTypes)
  /\ \A i \in DOMAIN sock : SockInv(sock[i])
  /\ BtIo!OptionsKept

\* one socket changes
LEMMA SetInv ==
  ASSUME BtIoInv, modern' = modern, last'.ok = FALSE,
         NEW i \in DOMAIN sock, NEW s, SockInv(s), BtIo!Set(i, s)
  PROVE  BtIoInv'
<1>1. sock' = [sock EXCEPT ![i] = s]
  BY DEF BtIo!Set
<1>2. s \in SockTypes
  BY DEF SockInv
<1>3. sock' \in Seq(SockTypes) /\ DOMAIN sock' = DOMAIN sock
  BY <1>1, <1>2 DEF BtIoInv
<1>4. \A j \in DOMAIN sock' : SockInv(sock'[j])
  BY <1>1, <1>3 DEF BtIoInv
<1>5. BtIo!OptionsKept'
  BY DEF BtIo!OptionsKept
<1>6. modern' \in BOOLEAN
  BY DEF BtIoInv
<1>7. (\A j \in DOMAIN sock : SockInv(sock[j]))'
  BY <1>4 DEF SockInv, SockTypes, Watched
<1>8. QED BY <1>3, <1>5, <1>6, <1>7 DEF BtIoInv

LEMMA AppendInv ==
  ASSUME BtIoInv, modern' = modern, NEW s, SockInv(s), sock' = Append(sock, s), BtIo!OptionsKept'
  PROVE  BtIoInv'
<1>1. s \in SockTypes
  BY DEF SockInv
<1>2. sock' \in Seq(SockTypes)
  BY <1>1 DEF BtIoInv
<1>3. \A j \in DOMAIN sock' : SockInv(sock'[j])
  <2> SUFFICES ASSUME NEW j \in DOMAIN sock' PROVE SockInv(sock'[j])
    OBVIOUS
  <2>1. sock'[j] = s \/ (j \in DOMAIN sock /\ sock'[j] = sock[j])
    BY DEF BtIoInv
  <2>2. QED BY <2>1 DEF BtIoInv
<1>4. modern' \in BOOLEAN
  BY DEF BtIoInv
<1>5. QED BY <1>2, <1>3, <1>4 DEF BtIoInv

LEMMA OptionsKeptNext ==
  ASSUME modern' = modern, NEW y, NEW o, sock'[last'.sock] = y, last'.o = o, Faithful(o, y)
  PROVE  BtIo!OptionsKept'
<1>1. \A name \in BtIo!Effective(y, o) : o[name] # BtIo!Defaults[name] =>
        name \in BtIo!Known(y.type) /\ BtIo!Got(y, name) = o[name]
  BY DEF Faithful
<1>2. (BtIo!Effective(y, o))' = BtIo!Effective(y, o)
  BY DEF BtIo!Effective
<1>3. \A name : (BtIo!Got(y, name))' = BtIo!Got(y, name)
  BY DEF BtIo!Got
<1>4. QED
  BY <1>1, <1>2, <1>3 DEF BtIo!OptionsKept

LEMMA CloseInv ==
  ASSUME NEW s, SockInv(s), s.watch = "none"
  PROVE  SockInv(BtIo!Close(s))
<1> DEFINE t == [s EXCEPT !.open = FALSE, !.refs = 0]
<1>1. s \in SockTypes
  BY DEF SockInv
<1>2. t \in SockTypes /\ t.refs = 0 /\ t.open = FALSE /\ t.told = s.told /\ t.watch = s.watch
      /\ t.added = s.added /\ t.destroyed = s.destroyed /\ t.state = s.state /\ t.wasUp = s.wasUp
  BY <1>1 DEF SockTypes
<1> HIDE DEF t
<1>3. SockInv(t)
  BY <1>2 DEF SockInv, Watched
<1>4. QED BY <1>3 DEF t, BtIo!Close

LEMMA CreateKeeps ==
  ASSUME BtIoInv, NEW list \in Lists, NEW bound \in BOOLEAN, NEW n,
         NEW kind \in {"connect", "server"}, NEW confirms \in BOOLEAN, NEW ok \in BOOLEAN,
         BtIo!Create(list, bound, n, kind, confirms, ok)
  PROVE  BtIoInv'
<1> DEFINE o == BtIo!ParseSetOpts(list)
           new == BtIo!NewSock(o.TYPE, o)
           set == BtIo!Applied(o, new, n)
           created == bound /\ BtIo!All(o, new, n)
           started == created /\ ok
           s == IF started THEN BtIo!Begun(set, kind, confirms)
                ELSE IF created THEN BtIo!Unref(set) ELSE BtIo!Close(new)
           q == BtIo!Sets(new.type, o)
<1>1. /\ BtIo!Understood(list) /\ n \in BtIo!Takes(o, new)
      /\ sock' = Append(sock, s) /\ last' = [sock |-> Len(sock) + 1, o |-> o, ok |-> started]
      /\ modern' = modern
  BY DEF BtIo!Create
<1>2. o \in OptTypes
  BY <1>1, ParseTypes
<1> HIDE DEF o
<1>3. /\ SockInv(new) /\ new.told = <<>> /\ new.watch = "none" /\ new.refs = 1
      /\ new.type = o.TYPE /\ new.le = (o.SOURCE_TYPE # "BREDR") /\ new \in SockTypes
  <2>1. o.TYPE \in BtIo!Types
    BY <1>2 DEF OptTypes
  <2>2. /\ SockInv(new) /\ new.told = <<>> /\ new.watch = "none" /\ new.refs = 1
        /\ new.type = o.TYPE /\ new.le = (o.SOURCE_TYPE # "BREDR")
    BY <2>1, NewSockInv
  <2>3. QED BY <2>2 DEF SockInv
<1>4. BtIo!All(o, new, n) => n = Len(q)
  BY DEF BtIo!All
<1> HIDE DEF new
<1>5. set \in SockTypes /\ SameSock(set, new) /\ Kept(o, q, set, n)
  BY <1>1, <1>2, <1>3, AppliedKeeps DEF So, BtIoInv
<1> HIDE DEF set
<1>6. SockInv(set) /\ set.told = <<>> /\ set.watch = "none" /\ set.refs = 1
      /\ set.type = new.type /\ set.le = new.le
  BY <1>3, <1>5, SameSockInv DEF SameSock
<1> HIDE DEF q
<1>7. last'.ok = started /\ last'.o = o /\ last'.sock = Len(sock) + 1
  BY <1>1
<1>8. sock \in Seq(SockTypes)
  BY DEF BtIoInv
<1>9. CASE started
  <2> DEFINE y == BtIo!Begun(set, kind, confirms)
  <2>1. /\ SockInv(y)
        /\ \A name \in {"type", "le", "lm", "SEC_LEVEL", "IMTU", "OMTU", "MODE", "FLUSHABLE", "PRIORITY"} :
             y[name] = set[name]
    BY <1>6, BegunInv
  <2>2. s = y
    BY <1>9
  <2> HIDE DEF y
  <2>3. /\ y.type = set.type /\ y.le = set.le /\ y.lm = set.lm /\ y.SEC_LEVEL = set.SEC_LEVEL /\ y.IMTU = set.IMTU
        /\ y.OMTU = set.OMTU /\ y.MODE = set.MODE /\ y.FLUSHABLE = set.FLUSHABLE /\ y.PRIORITY = set.PRIORITY
    BY <2>1
  <2>4. Kept(o, q, y, Len(q))
    BY <1>4, <1>5, <1>9, <2>3 DEF Kept
  <2>5. q = BtIo!Sets(y.type, o)
    BY <1>6, <2>3 DEF q
  <2>6. y \in SockTypes /\ modern \in BOOLEAN
    BY <2>1 DEF SockInv, BtIoInv
  <2>7. Faithful(o, y)
    BY <1>2, <2>4, <2>5, <2>6, AllSet
  <2>8. y \in SockTypes /\ sock' = Append(sock, y)
    BY <1>1, <2>2, <2>6
  <2>9. sock'[last'.sock] = y
    BY <1>7, <1>8, <2>8
  <2>10. BtIo!OptionsKept'
    BY <1>1, <1>7, <2>7, <2>9, OptionsKeptNext
  <2>11. QED BY <1>1, <2>1, <2>8, <2>10, AppendInv
<1>10. CASE ~started
  <2>1. BtIo!OptionsKept'
    BY <1>7, <1>10 DEF BtIo!OptionsKept
  <2>2. SockInv(BtIo!Unref(set))
    BY <1>6, SockUnrefInv DEF Watched
  <2>3. SockInv(BtIo!Close(new))
    BY <1>3, CloseInv
  <2>4. SockInv(s)
    BY <1>10, <2>2, <2>3
  <2>5. QED BY <1>1, <2>1, <2>4, AppendInv
<1>11. QED BY <1>9, <1>10

LEMMA BtIoSetKeeps ==
  ASSUME BtIoInv, NEW i \in DOMAIN sock, NEW list \in Lists, NEW n, BtIo!BtIoSet(i, list, n)
  PROVE  BtIoInv'
<1> DEFINE o == BtIo!ParseSetOpts(list)
           s == sock[i]
           y == BtIo!Applied(o, s, n)
           q == BtIo!Sets(s.type, o)
<1>1. /\ BtIo!Understood(list) /\ n \in BtIo!Takes(o, s)
      /\ BtIo!Set(i, y) /\ last' = [sock |-> i, o |-> o, ok |-> BtIo!All(o, s, n)]
      /\ modern' = modern
  BY DEF BtIo!BtIoSet
<1>2. o \in OptTypes
  BY <1>1, ParseTypes
<1> HIDE DEF o
<1>3. SockInv(s) /\ s \in SockTypes /\ modern \in BOOLEAN
  BY DEF BtIoInv, SockInv
<1>4. n \in BtIo!Takes(o, s)
  BY <1>1
<1>5. BtIo!All(o, s, n) => n = Len(q)
  BY DEF BtIo!All
<1> HIDE DEF s
<1>6. y \in SockTypes /\ SameSock(y, s) /\ Kept(o, q, y, n)
  BY <1>2, <1>3, <1>4, AppliedKeeps DEF So
<1> HIDE DEF y
<1>7. SockInv(y) /\ y.type = s.type /\ y.le = s.le
  BY <1>3, <1>6, SameSockInv DEF SameSock
<1>8. sock' = [sock EXCEPT ![i] = y] /\ sock \in Seq(SockTypes)
  BY <1>1 DEF BtIo!Set, BtIoInv
<1>9. last'.o = o /\ last'.sock = i /\ last'.ok = BtIo!All(o, s, n) /\ sock'[i] = y
  BY <1>1, <1>8
<1>10. BtIo!OptionsKept'
  <2>1. CASE BtIo!All(o, s, n)
    <3>1. Kept(o, BtIo!Sets(y.type, o), y, Len(BtIo!Sets(y.type, o)))
      BY <1>5, <1>6, <1>7, <2>1
    <3>2. Faithful(o, y)
      BY <1>2, <1>3, <1>6, <3>1, AllSet
    <3>3. QED BY <1>1, <1>9, <3>2, OptionsKeptNext
  <2>2. CASE ~BtIo!All(o, s, n)
    BY <1>9, <2>2 DEF BtIo!OptionsKept
  <2>3. QED BY <2>1, <2>2
<1>11. sock' \in Seq(SockTypes) /\ DOMAIN sock' = DOMAIN sock
  BY <1>6, <1>8
<1>12. \A j \in DOMAIN sock' : SockInv(sock'[j])
  BY <1>7, <1>8, <1>11 DEF BtIoInv
<1>13. QED BY <1>1, <1>3, <1>10, <1>11, <1>12 DEF BtIoInv

\* another state
LEMMA StateIs ==
  ASSUME NEW s, SockInv(s),
         NEW state \in {"bound", "connecting", "listening", "deferred", "accepting", "up", "down"},
         NEW wasUp \in BOOLEAN,
         state = "up" => wasUp,
         s.told = <<"ok">> => wasUp /\ state \in {"up", "down"}
  PROVE  SockInv([s EXCEPT !.state = state, !.wasUp = wasUp])
<1> DEFINE t == [s EXCEPT !.state = state, !.wasUp = wasUp]
<1>1. s \in SockTypes
  BY DEF SockInv
<1>2. t \in SockTypes /\ t.refs = s.refs /\ t.open = s.open /\ t.shut = s.shut /\ t.told = s.told /\ t.watch = s.watch
      /\ t.added = s.added /\ t.destroyed = s.destroyed /\ t.state = state /\ t.wasUp = wasUp
  BY <1>1 DEF SockTypes
<1> SUFFICES SockInv(t)
  OBVIOUS
<1> HIDE DEF t
<1>3. QED BY <1>2, StateInv

LEMMA OnlyStateIs ==
  ASSUME NEW s, SockInv(s),
         NEW state \in {"bound", "connecting", "listening", "deferred", "accepting", "up", "down"},
         state = "up" => s.wasUp,
         s.told = <<"ok">> => s.wasUp /\ state \in {"up", "down"}
  PROVE  LET t == [s EXCEPT !.state = state] IN
         SockInv(t) /\ t.told = s.told /\ t.watch = s.watch /\ t.refs = s.refs
<1> DEFINE t == [s EXCEPT !.state = state]
<1>1. s \in SockTypes
  BY DEF SockInv
<1>2. t \in SockTypes /\ t.refs = s.refs /\ t.open = s.open /\ t.shut = s.shut /\ t.told = s.told /\ t.watch = s.watch
      /\ t.added = s.added /\ t.destroyed = s.destroyed /\ t.state = state /\ t.wasUp = s.wasUp
  BY <1>1 DEF SockTypes
<1> SUFFICES SockInv(t) /\ t.told = s.told /\ t.watch = s.watch /\ t.refs = s.refs
  OBVIOUS
<1> HIDE DEF t
<1>3. SockInv(t)
  BY <1>2, StateInv
<1>4. QED BY <1>2, <1>3

\* a step of a socket that is not about options
LEMMA OtherStep ==
  ASSUME BtIo!Else
  PROVE  modern' = modern /\ last'.ok = FALSE
BY DEF BtIo!Else, BtIo!NothingSet

LEMMA AcceptKeeps ==
  ASSUME BtIoInv, NEW i \in DOMAIN sock, BtIo!BtIoAccept(i)
  PROVE  BtIoInv'
<1> DEFINE s == sock[i]
           state == IF s.state = "deferred" THEN "accepting" ELSE s.state
           c == [s EXCEPT !.state = state]
<1>1. /\ s.state \in {"deferred", "up", "down"} /\ s.watch = "none" /\ s.added = 0 /\ s.refs > 0
      /\ BtIo!Set(i, BtIo!Watch(c, "accept")) /\ BtIo!Else
  BY DEF BtIo!BtIoAccept, BtIo!Held
<1>2. SockInv(s)
  BY DEF BtIoInv
<1> HIDE DEF s
<1>3. s.told = <<>> /\ (s.state = "up" => s.wasUp)
  BY <1>1, <1>2 DEF SockInv
<1>4. SockInv(c) /\ c.told = <<>> /\ c.watch = "none" /\ c.refs > 0
  <2>1. state \in {"accepting", "up", "down"} /\ (state = "up" => s.wasUp) /\ s.told # <<"ok">>
    BY <1>1, <1>3
  <2>2. state \in {"bound", "connecting", "listening", "deferred", "accepting", "up", "down"}
    BY <2>1
  <2> HIDE DEF state
  <2>3. SockInv(c) /\ c.told = s.told /\ c.watch = s.watch /\ c.refs = s.refs
    BY <1>2, <2>1, <2>2, OnlyStateIs
  <2>4. QED BY <1>1, <1>3, <2>3
<1> HIDE DEF c
<1>5. SockInv(BtIo!Watch(c, "accept"))
  BY <1>4, WatchInv
<1>6. QED BY <1>1, <1>5, OtherStep, SetInv

LEMMA ReleaseKeeps ==
  ASSUME BtIoInv, NEW i \in DOMAIN sock, BtIo!Release(i) \/ BtIo!ShutDown(i)
  PROVE  BtIoInv'
<1>1. SockInv(sock[i])
  BY DEF BtIoInv
<1>2. CASE BtIo!Release(i)
  <2>1. SockInv(BtIo!Unref(sock[i]))
    BY <1>1, <1>2, SockUnrefInv DEF BtIo!Release, Watched
  <2>2. BtIo!Set(i, BtIo!Unref(sock[i])) /\ BtIo!Else
    BY <1>2 DEF BtIo!Release
  <2>3. QED BY <2>1, <2>2, OtherStep, SetInv
<1>3. CASE BtIo!ShutDown(i)
  <2>1. SockInv([sock[i] EXCEPT !.open = FALSE, !.shut = TRUE])
    BY <1>1, ShutInv
  <2>2. BtIo!Set(i, [sock[i] EXCEPT !.open = FALSE, !.shut = TRUE]) /\ BtIo!Else
    BY <1>3 DEF BtIo!ShutDown
  <2>3. QED BY <2>1, <2>2, OtherStep, SetInv
<1>4. QED BY <1>2, <1>3

LEMMA UntoldInv ==
  ASSUME NEW s, SockInv(s), s.watch # "none"
  PROVE  SockInv(BtIo!Unwatch(s))
<1>1. s \in SockTypes /\ s.told = <<>>
  BY DEF SockInv
<1>2. [s EXCEPT !.told = <<>>] = s
  BY <1>1 DEF SockTypes
<1>3. SockInv(BtIo!Unwatch([s EXCEPT !.told = <<>>]))
  <2>1. <<>> \in Seq({"ok", "error"}) /\ Len(<<>>) <= 1 /\ <<>> # <<"ok">>
    OBVIOUS
  <2>2. QED BY <2>1, UnwatchInv
<1>4. QED BY <1>2, <1>3

LEMMA DispatchedKeeps ==
  ASSUME BtIoInv, NEW i \in DOMAIN sock, BtIo!Dispatched(i)
  PROVE  BtIoInv'
<1> DEFINE s == sock[i]
<1>1. SockInv(s)
  BY DEF BtIoInv
<1>2. BtIo!Else /\ s.watch # "none"
  BY DEF BtIo!Dispatched, BtIo!AttemptEnds, BtIo!ServerEnds
<1>3. CASE BtIo!Set(i, BtIo!Unwatch(s))
  BY <1>1, <1>2, <1>3, UntoldInv, OtherStep, SetInv
<1>4. ASSUME NEW word \in BtIo!Words(s), BtIo!Ready(s), BtIo!Set(i, BtIo!Unwatch(BtIo!Tell(s, word)))
      PROVE  BtIoInv'
  <2>1. s.told = <<>> /\ (s.state = "up" => s.wasUp)
    BY <1>1, <1>2 DEF SockInv
  <2>2. s.state \in {"up", "down"} /\ s.wasUp \in BOOLEAN
    BY <1>1, <1>4 DEF BtIo!Ready, SockInv, SockTypes
  <2>3. word \in {"ok", "error"} /\ (word = "ok" => s.wasUp)
    BY <1>4, <2>1, <2>2 DEF BtIo!Words
  <2> DEFINE told == <<word>>
  <2>4. BtIo!Tell(s, word) = [s EXCEPT !.told = told]
    BY <2>1 DEF BtIo!Tell
  <2>5. told \in Seq({"ok", "error"}) /\ Len(told) <= 1 /\ (told = <<"ok">> => s.wasUp)
    BY <2>3
  <2> HIDE DEF told, s
  <2>6. SockInv(BtIo!Unwatch(BtIo!Tell(s, word)))
    BY <1>1, <1>2, <2>2, <2>4, <2>5, UnwatchInv
  <2>7. QED BY <1>2, <1>4, <2>6, OtherStep, SetInv
<1>5. \/ BtIo!Set(i, BtIo!Unwatch(s))
      \/ BtIo!Ready(s) /\ \E word \in BtIo!Words(s) : BtIo!Set(i, BtIo!Unwatch(BtIo!Tell(s, word)))
  BY DEF BtIo!Dispatched, BtIo!AttemptEnds, BtIo!ServerEnds
<1>6. QED BY <1>3, <1>4, <1>5

LEMMA ServerKeeps ==
  ASSUME BtIoInv, NEW i \in DOMAIN sock, NEW keeps \in BOOLEAN, BtIo!ServerCb(i, keeps)
  PROVE  BtIoInv'
<1> DEFINE old == sock[i]
           fresh == BtIo!NewSock(old.type, BtIo!Defaults)
           state == IF old.confirms THEN "deferred" ELSE "up"
           up == ~old.confirms
           new == [fresh EXCEPT !.state = state, !.le = old.le, !.hasPSM = TRUE,
                                !.confirms = old.confirms, !.wasUp = up]
           s == IF keeps THEN new ELSE BtIo!Unref(new)
<1>1. sock' = Append(sock, s) /\ BtIo!Else
  BY DEF BtIo!ServerCb
<1>2. old \in SockTypes
  BY DEF BtIoInv, SockInv
<1>3. old.type \in BtIo!Types /\ old.le \in BOOLEAN /\ old.confirms \in BOOLEAN
  BY <1>2 DEF SockTypes
<1> HIDE DEF old
<1>4. /\ SockInv(fresh) /\ fresh.told = <<>> /\ fresh.watch = "none" /\ fresh.refs = 1 /\ fresh.open /\ ~fresh.shut
      /\ fresh.added = 0 /\ fresh.destroyed = 0
  BY <1>3, NewSockInv
<1>5. fresh \in SockTypes
  BY <1>4 DEF SockInv
<1> HIDE DEF fresh
<1>6. state \in {"deferred", "up"} /\ up \in BOOLEAN /\ (state = "up" => up)
  BY <1>3
<1> HIDE DEF state, up
<1>7. /\ new \in SockTypes /\ new.told = <<>> /\ new.watch = "none" /\ new.refs = 1 /\ new.open /\ ~new.shut
      /\ new.added = 0 /\ new.destroyed = 0 /\ new.state = state /\ new.wasUp = up
  BY <1>3, <1>4, <1>5, <1>6 DEF SockTypes
<1> HIDE DEF new
<1>8. SockInv(new) /\ Watched(new) = 0
  BY <1>6, <1>7 DEF SockInv, Watched
<1>9. SockInv(BtIo!Unref(new))
  BY <1>7, <1>8, SockUnrefInv
<1>10. SockInv(s)
  BY <1>8, <1>9
<1>11. BtIo!OptionsKept'
  BY <1>1, OtherStep DEF BtIo!OptionsKept
<1>12. QED BY <1>1, <1>10, <1>11, OtherStep, AppendInv

LEMMA PeersKeep ==
  ASSUME BtIoInv, NEW i \in DOMAIN sock, BtIo!Resolves(i) \/ BtIo!HangsUp(i)
  PROVE  BtIoInv'
<1> DEFINE s == sock[i]
<1>1. SockInv(s)
  BY DEF BtIoInv
<1>2. CASE BtIo!Resolves(i)
  <2>1. PICK up \in BOOLEAN : BtIo!Set(i, [s EXCEPT !.state = IF up THEN "up" ELSE "down", !.wasUp = up])
    BY <1>2, Zenon DEF BtIo!Resolves
  <2> DEFINE state == IF up THEN "up" ELSE "down"
  <2>2. s.told # <<"ok">> /\ BtIo!Else
    <3>1. s.state \in {"connecting", "accepting"} /\ BtIo!Else
      BY <1>2, Zenon DEF BtIo!Resolves
    <3>2. QED BY <1>1, <3>1 DEF SockInv
  <2>3. state \in {"up", "down"} /\ (state = "up" => up)
    OBVIOUS
  <2> HIDE DEF state
  <2>4. SockInv([s EXCEPT !.state = state, !.wasUp = up])
    <3> HIDE DEF s
    <3>1. state \in {"bound", "connecting", "listening", "deferred", "accepting", "up", "down"}
      BY <2>3
    <3>2. QED BY <1>1, <2>2, <2>3, <3>1, StateIs, Zenon
  <2>5. BtIo!Set(i, [s EXCEPT !.state = state, !.wasUp = up])
    BY <2>1 DEF state
  <2>6. QED BY <2>2, <2>4, <2>5, OtherStep, SetInv
<1>3. CASE BtIo!HangsUp(i)
  <2>1. BtIo!Set(i, [s EXCEPT !.state = "down"]) /\ BtIo!Else
    BY <1>3 DEF BtIo!HangsUp
  <2>2. s.told = <<"ok">> => s.wasUp
    BY <1>1 DEF SockInv
  <2>3. SockInv([s EXCEPT !.state = "down"])
    BY <1>1, <2>2, OnlyStateIs
  <2>4. QED BY <2>1, <2>3, OtherStep, SetInv
<1>4. QED BY <1>2, <1>3

LEMMA BtIoStepKeeps ==
  ASSUME BtIoInv, BtIo!BtIoNext
  PROVE  BtIoInv'
<1>1. ASSUME NEW list \in Lists, NEW n, NEW b \in BOOLEAN, NEW ok \in BOOLEAN,
             BtIo!Connect(list, b, n, ok) \/ \E confirms \in BOOLEAN : BtIo!Listen(list, confirms, b, n, ok)
      PROVE  BtIoInv'
  BY <1>1, CreateKeeps DEF BtIo!Connect, BtIo!Listen
<1>2. ASSUME NEW i \in DOMAIN sock,
             \/ \E list \in Lists, n \in 0 .. BtIo!Most : BtIo!BtIoSet(i, list, n)
             \/ BtIo!BtIoAccept(i) \/ BtIo!Release(i) \/ BtIo!ShutDown(i)
             \/ BtIo!Dispatched(i) \/ \E keeps \in BOOLEAN : BtIo!ServerCb(i, keeps)
             \/ BtIo!Resolves(i) \/ BtIo!HangsUp(i)
      PROVE  BtIoInv'
  BY <1>2, BtIoSetKeeps, AcceptKeeps, ReleaseKeeps, DispatchedKeeps, ServerKeeps, PeersKeep
<1>3. QED BY <1>1, <1>2 DEF BtIo!BtIoNext, BtIo!S

LEMMA BtIoInvInit == PartsInit => BtIoInv
<1> SUFFICES ASSUME PartsInit PROVE BtIoInv
  OBVIOUS
<1>1. sock = <<>> /\ modern \in BOOLEAN /\ last.ok = FALSE
  BY DEF PartsInit, BtIo!BtIoInit, BtIo!NothingSet
<1>2. QED BY <1>1 DEF BtIoInv, BtIo!OptionsKept

LEMMA BtIoInvStep == BtIoInv /\ [PartsNext]_partsVars => BtIoInv'
<1> SUFFICES ASSUME BtIoInv, [PartsNext]_partsVars PROVE BtIoInv'
  OBVIOUS
<1>1. CASE UNCHANGED btioVars
  <2>1. sock' = sock /\ modern' = modern /\ last' = last
    BY <1>1 DEF btioVars
  <2>2. BtIo!OptionsKept'
    BY <2>1 DEF BtIoInv, BtIo!OptionsKept, BtIo!Effective, BtIo!Tells, BtIo!NeedsPeer, BtIo!Got
  <2>3. QED BY <2>1, <2>2 DEF BtIoInv
<1>2. CASE BtIo!BtIoNext
  BY <1>2, BtIoStepKeeps
<1>3. QED
  BY <1>1, <1>2 DEF PartsNext, MgmtStep, HciStep, BtIoStep, BearerStep,
    OnlyMgmt, OnlyHci, OnlyBtIo, OnlyBearer, partsVars

LEMMA BtIoInvAlways == PartsSpec => []BtIoInv
  BY BtIoInvInit, BtIoInvStep, PTL DEF PartsSpec

LEMMA InvTold == BtIoInv => ToldOnce
<1> SUFFICES ASSUME BtIoInv, NEW i \in DOMAIN sock
             PROVE  /\ Len(sock[i].told) <= 1
                    /\ sock[i].told = <<"ok">> => sock[i].wasUp
                    /\ sock[i].destroyed = sock[i].added - (IF sock[i].watch = "none" THEN 0 ELSE 1)
  BY DEF ToldOnce, BtIo!ToldOnce, BtIo!S
<1>1. SockInv(sock[i])
  BY DEF BtIoInv
<1>2. QED BY <1>1 DEF SockInv, Watched

LEMMA InvKept == BtIoInv => SocketsKept
<1> SUFFICES ASSUME BtIoInv PROVE BtIo!ClosedWhenUnused /\ BtIo!OptionsKept
  BY DEF SocketsKept
<1>1. \A i \in DOMAIN sock : sock[i].open <=> sock[i].refs > 0 /\ ~sock[i].shut
  BY DEF BtIoInv, SockInv
<1>2. QED BY <1>1 DEF BtIoInv, BtIo!ClosedWhenUnused, BtIo!S

\* Whoever waits for a connection in btio.c hears of it once, and that it is
\* there only if it was; what the watch was given is destroyed once: for any
\* number of sockets and lists of options.
THEOREM ToldOnceAlways == PartsSpec => []ToldOnce
  BY BtIoInvAlways, InvTold, PTL

\* A socket that nobody refers to is closed, and bt_io_get tells each option
\* that was given and set.
THEOREM SocketsKeptAlways == PartsSpec => []SocketsKept
  BY BtIoInvAlways, InvKept, PTL
=============================================================================
