----------------------------- MODULE HciRequest -----------------------------
(***************************************************************************)
(* hci_send_req of lib/hci.c, under the commands of HciCommands, on the raw *)
(* socket that discover() of the helper opens.  The filter of the socket is *)
(* narrowed while a command is under way; what passed the filter waits in   *)
(* the socket, and the events of every program's commands come to all.      *)
(***************************************************************************)
EXTENDS HciCommands, Sequences

CONSTANTS Commands,    \* of HciCommands, the ones called
          Peer,        \* addresses or handles of links
          Timeouts,    \* in units of 10 ms, 0: wait for ever
          Tries,       \* events hci_send_req looks at: 10
          Others,      \* events that other programs and the air bring about
          MaxRequests, \* bound: calls
          MaxOthers    \* bound: events of others

HciAssumption ==
  /\ Commands \subseteq HciCommands /\ Timeouts \subseteq Nat
  /\ Tries \in Nat \ {0} /\ MaxRequests \in Nat /\ MaxOthers \in Nat
  /\ \A e \in Others : e.evt # NoEvent /\ (e.evt = EVT_LE_META_EVENT => e.sub # NoEvent)

VARIABLES
  filter,      \* HCI_FILTER of the socket
  old_filter,  \* "of", what it was before the call
  pc,          \* "out" of hci_send_req, or "wait" in its loop
  req,         \* the call: its number, command, peer and time-out
  to, try,     \* the locals of hci_send_req
  inbox,       \* events in the socket
  controller,  \* commands the controller is to answer
  result,      \* of the last call
  loose,       \* opcodes of which an answer came that no call here asked for, or
               \* may come when the call that did has given up
  nothers

hciVars == <<filter, old_filter, pc, req, to, try, inbox, controller, result, loose, nothers>>

\* evt is the code, sub that of an LE meta event, ok that the status is zero,
\* by the number of the call it answers, 0 for none
Event(evt, sub, opcode, peer, ok, by) ==
  [evt |-> evt, sub |-> sub, opcode |-> opcode, peer |-> peer, ok |-> ok, by |-> by]

\* a new socket hears nothing; discover() sets three bits of the event mask, the
\* third of them by the number of a command (OCF_LE_SET_SCAN_ENABLE)
SocketFilters == [events : {{}, {EVT_LE_META_EVENT, EVT_CMD_COMPLETE, 12}}, opcode : {0}]

NoCall == [id |-> 0, command |-> CHOOSE c \in Commands : TRUE, peer |-> "none", to |-> 0]
Result(ret, e) == [ret |-> ret, by |-> e.by, opcode |-> e.opcode]
NoReply == Event(0, 0, 0, "none", FALSE, 0)

HciInit ==
  /\ filter \in SocketFilters /\ old_filter = filter
  /\ pc = "out" /\ req = NoCall
  /\ to = 0 /\ try = 0
  /\ inbox = <<>> /\ controller = {}
  /\ result = Result("none", NoReply)
  /\ loose = {} /\ nothers = 0

-----------------------------------------------------------------------------
(* The call.                                                                *)

\* the filter that hci_send_req sets: event 0 passes if none is awaited
Narrow(c) ==
  [events |-> {EVT_CMD_STATUS, EVT_CMD_COMPLETE, EVT_LE_META_EVENT, c.event}, opcode |-> c.opcode]

\* get or set of the filter fails, or the write does and the filter is restored
CallFails ==
  /\ pc = "out" /\ req.id < MaxRequests
  /\ req' = [req EXCEPT !.id = @ + 1]
  /\ result' = Result("-1", NoReply)
  /\ UNCHANGED <<filter, old_filter, pc, to, try, inbox, controller, loose, nothers>>

Call(c, peer, t) ==
  /\ pc = "out" /\ req.id < MaxRequests
  /\ req' = [id |-> req.id + 1, command |-> c, peer |-> peer, to |-> t]
  /\ old_filter' = filter /\ filter' = Narrow(c)
  /\ controller' = controller \cup
       {[id |-> req'.id, opcode |-> c.opcode, event |-> c.event, peer |-> peer, begun |-> FALSE]}
  /\ to' = t /\ try' = Tries
  /\ pc' = "wait"
  /\ result' = Result("none", NoReply)
  /\ UNCHANGED <<inbox, loose, nothers>>

-----------------------------------------------------------------------------
(* The loop.                                                                *)

\* mutant: any Command Complete will do
AnswersMutant(e) ==
  \/ e.evt = EVT_CMD_COMPLETE
  \/ e.evt = EVT_REMOTE_NAME_REQ_COMPLETE /\ e.evt = req.command.event /\ e.peer = req.peer
  \/ e.evt = EVT_LE_META_EVENT /\ e.sub = req.command.event
  \/ e.evt \notin {EVT_CMD_STATUS, EVT_CMD_COMPLETE, EVT_REMOTE_NAME_REQ_COMPLETE, EVT_LE_META_EVENT}
     /\ e.evt = req.command.event

\* the event is the reply: only a remote name is compared with what was asked
\* about, and the number of an LE meta event may be that of another event
Answers(e) ==
  \/ e.evt = EVT_CMD_STATUS /\ e.opcode = req.command.opcode /\ req.command.event = EVT_CMD_STATUS
  \/ e.evt = EVT_CMD_COMPLETE /\ e.opcode = req.command.opcode
  \/ e.evt = EVT_REMOTE_NAME_REQ_COMPLETE /\ e.evt = req.command.event /\ e.peer = req.peer
  \/ e.evt = EVT_LE_META_EVENT /\ e.sub = req.command.event
  \/ e.evt \notin {EVT_CMD_STATUS, EVT_CMD_COMPLETE, EVT_REMOTE_NAME_REQ_COMPLETE, EVT_LE_META_EVENT}
     /\ e.evt = req.command.event

\* the command is refused, and the event awaited will not come
Refuses(e) ==
  /\ e.evt = EVT_CMD_STATUS /\ e.opcode = req.command.opcode
  /\ req.command.event # EVT_CMD_STATUS /\ ~e.ok

\* mutant: done: without the old filter
ReturnMutant(ret, e) ==
  /\ pc' = "out" /\ result' = Result(ret, e)
  /\ filter' = IF ret = "0" THEN filter ELSE old_filter

\* failed: and done: of hci_send_req, and the function around it
Return(ret, e) ==
  /\ pc' = "out" /\ result' = Result(ret, e)
  /\ filter' = old_filter

\* failed: before an answer
GiveUp == Return("-1", NoReply) /\ loose' = loose \cup {req.command.opcode}

\* the function returns 0 or, for a status other than zero that it looks at, -1
Ret(e) == IF req.command.checks /\ ~e.ok THEN "-1" ELSE "0"

\* to, after a wait; 0 makes the next read wait for ever
Left(t) == IF t > 1 THEN t - 1 ELSE 0

\* an event is read
Take ==
  /\ pc = "wait" /\ inbox # <<>>
  /\ inbox' = Tail(inbox)
  /\ to' = Left(to) /\ try' = try - 1
  /\ LET e == Head(inbox) IN
       \/ Answers(e) /\ Return(Ret(e), e) /\ UNCHANGED loose
       \/ Refuses(e) /\ Return("-1", NoReply) /\ UNCHANGED loose
       \/ ~Answers(e) /\ ~Refuses(e) /\ try' = 0 /\ GiveUp
       \/ ~Answers(e) /\ ~Refuses(e) /\ try' # 0 /\ UNCHANGED <<pc, result, filter, loose>>
  /\ UNCHANGED <<old_filter, req, controller, nothers>>

\* poll finds nothing in time
TimesOut ==
  /\ pc = "wait" /\ inbox = <<>> /\ to > 0
  /\ GiveUp
  /\ UNCHANGED <<old_filter, req, to, try, inbox, controller, nothers>>

\* poll or read fails
ReadFails ==
  /\ pc = "wait"
  /\ GiveUp
  /\ UNCHANGED <<old_filter, req, to, try, inbox, controller, nothers>>

-----------------------------------------------------------------------------
(* The kernel and the controller.                                           *)

Passes(e) ==
  /\ e.evt \in filter.events
  /\ e.evt \in {EVT_CMD_STATUS, EVT_CMD_COMPLETE} /\ filter.opcode # 0 => e.opcode = filter.opcode

Deliver(e) == inbox' = IF Passes(e) THEN Append(inbox, e) ELSE inbox

KernelUnchanged == UNCHANGED <<filter, old_filter, pc, req, to, try, result>>

\* the event that ends command x; those of group 8 are LE meta events
Outcome(x, ok) ==
  IF x.opcode \div 1024 = 8
  THEN Event(EVT_LE_META_EVENT, x.event, 0, x.peer, ok, x.id)
  ELSE Event(x.event, 0, 0, x.peer, ok, x.id)

Completed(x) ==
  /\ x.event = NoEvent /\ controller' = controller \ {x}
  /\ \E ok \in BOOLEAN : Deliver(Event(EVT_CMD_COMPLETE, 0, x.opcode, x.peer, ok, x.id))
  /\ UNCHANGED <<nothers, loose>> /\ KernelUnchanged

Refused(x) ==
  /\ ~x.begun /\ controller' = controller \ {x}
  /\ Deliver(Event(EVT_CMD_STATUS, 0, x.opcode, x.peer, FALSE, x.id))
  /\ UNCHANGED <<nothers, loose>> /\ KernelUnchanged

Begun(x) ==
  /\ x.event # NoEvent /\ ~x.begun
  /\ controller' = (controller \ {x}) \cup {[x EXCEPT !.begun = TRUE]}
  /\ Deliver(Event(EVT_CMD_STATUS, 0, x.opcode, x.peer, TRUE, x.id))
  /\ UNCHANGED <<nothers, loose>> /\ KernelUnchanged

Over(x) ==
  /\ x.begun /\ controller' = controller \ {x}
  /\ \E ok \in BOOLEAN : Deliver(Outcome(x, ok))
  /\ UNCHANGED <<nothers, loose>> /\ KernelUnchanged

\* another program's commands, this program's own among them, and the air
OtherEvent(e) ==
  /\ nothers < MaxOthers /\ nothers' = nothers + 1
  /\ Deliver(e) /\ loose' = IF Passes(e) THEN loose \cup ({e.opcode} \ {0}) ELSE loose
  /\ UNCHANGED controller /\ KernelUnchanged

Kernel ==
  \/ \E x \in controller : Completed(x) \/ Refused(x) \/ Begun(x) \/ Over(x)
  \/ \E e \in Others : OtherEvent(e)

HciNext ==
  \/ CallFails \/ Take \/ TimesOut \/ ReadFails \/ Kernel
  \/ \E c \in Commands, p \in Peer, t \in Timeouts : Call(c, p, t)

\* poll and read return when there is something to read, or the time is up
HciFairness == WF_hciVars(Take) /\ WF_hciVars(TimesOut)

HciFairSpec == HciInit /\ [][HciNext]_hciVars /\ HciFairness

-----------------------------------------------------------------------------
(* Properties.                                                              *)

\* Outside a call the socket hears what it did before: no way out of
\* hci_send_req leaves the narrow filter, with which the watch of the passive
\* scan would miss everything.
FilterRestored == pc = "out" => filter = old_filter

\* A command without an event of its own succeeds by the answer to that command,
\* and by the answer to this very call as long as nothing has gone astray: no
\* earlier call of the command gave up on its answer (time-out, a failed read,
\* too many other events), and no other program's answer to the same command
\* has come to the socket.  Answers that were left in the socket or come late
\* have no other cause, whatever calls and failures went before.  (After one,
\* hci_send_req takes the first answer to the command that it reads; and any
\* event of the awaited number ends the other commands, whoever's link it is
\* about.)
AnswerIsOurs ==
  result.ret = "0" /\ req.command.event = NoEvent =>
    /\ result.opcode = req.command.opcode
    /\ result.by = req.id \/ req.command.opcode \in loose

Waits == pc = "wait" /\ req.to >= Tries
Served == pc = "out"

\* A call with a time-out of at least ten times ten milliseconds ends, even if
\* the controller never answers.  (A shorter one may run down to 0, which means
\* none.)
HciRequestsEnd == Waits ~> Served
=============================================================================
