------------------------------- MODULE Client -------------------------------
(***************************************************************************)
(* btle.py: one Peripheral object, the application thread that calls it,    *)
(* and the thread that reads the helper's output.                           *)
(*                                                                          *)
(* A call is a frame on a stack: the delegate of a notification runs inside *)
(* the call that received it and may make a call of its own.  pc says where *)
(* the call stands: "poll" (about to test whether the helper lives), "get"  *)
(* (blocked in Queue.get), "cb" (in handleNotification), "stop" (about to   *)
(* write "quit") or "wait" (in Popen.wait).                                 *)
(***************************************************************************)
EXTENDS Wire, SequencesExt

CONSTANTS Calls,      \* the methods the application calls
          Timed,      \* the methods it gives a timeout
          Reentrant,  \* the delegate may call the Peripheral it belongs to
          MtuWanted   \* the number given to setMTU

\* the methods of Peripheral that write to the helper or wait for it
Methods ==
  {"connect", "disconnect", "getState", "discoverServices", "getCharacteristics",
   "getDescriptors", "readCharacteristic", "writeCharacteristic",
   "writeWithResponse", "setSecurityLevel", "setMTU", "pair", "unpair",
   "getLocalOOB", "setRemoteOOB", "waitForNotifications"}

ASSUME ClientAssumption ==
  /\ Calls \subseteq Methods
  /\ Timed \subseteq {"connect", "writeCharacteristic", "writeWithResponse",
                    "waitForNotifications"}
  /\ Reentrant \in BOOLEAN /\ MtuWanted \in Nat

VARIABLES
  helper_up,  \* self._helper is not None
  delegate,   \* self.delegate is not None
  mtu,        \* self._mtu
  lineq,      \* self._lineq
  partial,    \* a command was written without its newline
  stack,      \* calls in progress, the innermost last
  last        \* ghost: the call that returned or raised last, and how

client == <<helper_up, delegate, mtu, lineq, partial, stack, last>>

\* method, the command it writes, the types of line it waits for
Verb(call) ==
  CASE call = "connect"             -> "conn"
    [] call = "disconnect"          -> "disc"
    [] call = "getState"            -> "stat"
    [] call = "discoverServices"    -> "svcs"
    [] call = "getCharacteristics"  -> "char"
    [] call = "getDescriptors"      -> "desc"
    [] call = "readCharacteristic"  -> "rd"
    [] call = "writeCharacteristic" -> "wr"
    [] call = "writeWithResponse"   -> "wrr"
    [] call = "setSecurityLevel"    -> "secu"
    [] call = "setMTU"              -> "mtu"
    [] call = "pair"                -> "pair"
    [] call = "unpair"              -> "unpair"
    [] call = "getLocalOOB"         -> "local_oob"

WantType(call) ==
  CASE call \in {"connect", "disconnect", "getState", "setSecurityLevel",
                 "setMTU"}                                 -> {"stat"}
    [] call \in {"discoverServices", "getCharacteristics"}  -> {"find"}
    [] call = "getDescriptors"                             -> {"desc"}
    [] call = "getLocalOOB"                                -> {"oob"}
    [] call = "readCharacteristic"                         -> {"rd"}
    [] call \in {"writeCharacteristic", "writeWithResponse"} -> {"wr"}
    [] call \in {"pair", "unpair"}                         -> {"mgmt"}
    [] call = "waitForNotifications"                       -> {"ntfy", "ind"}

Notice == {"ntfy", "ind"}

\* status() and _mgmtCmd() wait with _waitResp itself, the rest with _getResp
UsesGetResp(call) == call \notin {"getState", "pair", "unpair"}

NoLine == Data("scan", NoAddr, 0)

\* how a call ended: with a line, with None, or with an exception; and whether
\* the application may think it is connected, by the helper that runs
Result(f, how, line) ==
  [call |-> f.call, id |-> f.id, dst |-> f.dst, how |-> how, line |-> line,
   linked |-> /\ f.pc # "wait"
              /\ last.linked \/ (f.call = "connect" /\ how = "ok")]

ClientInit ==
  /\ helper_up = FALSE /\ delegate = TRUE /\ mtu = 0
  /\ lineq = <<>> /\ partial = FALSE /\ stack = <<>>
  /\ last = [call |-> "none", id |-> 0, dst |-> NoAddr,
             how |-> "ok", line |-> NoLine, linked |-> FALSE]

-----------------------------------------------------------------------------
(* Returning.                                                               *)

Top == Last(stack)
SetTop(f) == stack' = Append(Front(stack), f)
Goto(pc) == SetTop([Top EXCEPT !.pc = pc])

\* the innermost call returns to the application or to the delegate
Return(how, line) ==
  /\ stack' = Front(stack)
  /\ last' = Result(Top, how, line)

\* nothing on the way up catches an exception
Raise(how, line) ==
  /\ stack' = <<>>
  /\ last' = Result(Top, how, line)

\* _stopHelper, then the return or the exception that "how" says
StopThen(how, line) ==
  /\ SetTop([Top EXCEPT !.pc = "stop", !.how = how, !.line = line])
  /\ UNCHANGED last

\* how a call ends once its helper has stopped
AfterStop(how, line) == IF how = "ok" THEN Return(how, line) ELSE Raise(how, line)

-----------------------------------------------------------------------------
(* Entering a call.                                                         *)

MayCall == stack = <<>> \/ (Reentrant /\ Len(stack) = 1 /\ Top.pc = "cb")

Enter(call, dst, id) ==
  stack' = Append(stack, [call |-> call, id |-> id, dst |-> dst, pc |-> "poll",
                          tried |-> FALSE, how |-> "ok", line |-> NoLine])

\* a call that ends before it waits for anything
Ended(call, how) ==
  last' = [call |-> call, id |-> 0, dst |-> NoAddr, how |-> how, line |-> NoLine,
           linked |-> last.linked]

Refused(call, how) ==
  /\ stack' = <<>>
  /\ Ended(call, how)
  /\ UNCHANGED <<wire, helper_up, mtu, lineq, partial>>

\* what the helper reads of a command line: the line, or, behind a
\* setRemoteOOB without a newline, more words of a remote_oob command
Written(cmd) ==
  IF partial THEN {Cmd("remote_oob", cmd.id, NoAddr, arg) : arg \in {0, 1}}
             ELSE {cmd}

\* _writeCmd: no helper, a dead helper, or a line in the pipe.  disconnect()
\* takes the delegate away before it writes.
WriteCmd(call, dst) ==
  /\ delegate' = (delegate /\ call # "disconnect")
  /\ \/ /\ ~helper_up
        /\ Refused(call, "internal")
     \/ /\ helper_up /\ proc = "exited"
        /\ Refused(call, "pipe")
     \/ /\ helper_up /\ proc = "running" /\ ncmd < MaxCmds
        /\ ncmd' = ncmd + 1
        /\ \E cmd \in Written(Cmd(Verb(call), ncmd + 1, dst,
                                 IF call = "setMTU" THEN MtuWanted ELSE 1)) :
             stdin' = Append(stdin, cmd)
        /\ partial' = FALSE
        /\ Enter(call, dst, ncmd + 1)
        /\ UNCHANGED <<stdout, eof, proc, helper_up, mtu, lineq, last>>

\* mutant: the queue of the last process is used again
NewQueueMutant == UNCHANGED <<lineq, stdout>>

\* a new Queue, and a new pipe
NewQueue == lineq' = <<>> /\ stdout' = <<>>

\* _startHelper
StartHelper ==
  /\ ~helper_up
  /\ helper_up' = TRUE /\ proc' = "running" /\ mtu' = 0
  /\ NewQueue
  /\ UNCHANGED <<eof, delegate>>

\* _startHelper and the first command of a new process
StartWith(call, dst) ==
  /\ StartHelper /\ ncmd < MaxCmds
  /\ ncmd' = ncmd + 1
  /\ stdin' = <<Cmd(Verb(call), ncmd + 1, dst, 1)>>
  /\ partial' = FALSE
  /\ Enter(call, dst, ncmd + 1)
  /\ UNCHANGED last

\* The documentation asks for an unconnected Peripheral: the application does
\* not call connect() again once one succeeded, before the helper is stopped.
MayConnect == ~helper_up \/ ~last.linked

Connect(dst) ==
  /\ "connect" \in Calls /\ MayCall /\ MayConnect
  /\ \/ StartWith("connect", dst)
     \/ helper_up /\ WriteCmd("connect", dst)

Disconnect ==
  /\ "disconnect" \in Calls /\ MayCall
  /\ helper_up  \* a call on a stopped Peripheral returns at once
  /\ WriteCmd("disconnect", NoAddr)

\* withDelegate, after a disconnect() took the delegate away
WithDelegate ==
  /\ MayCall /\ ~delegate
  /\ delegate' = TRUE
  /\ UNCHANGED <<wire, helper_up, mtu, lineq, partial, stack, last>>

\* waitForNotifications writes nothing
WaitForNotifications ==
  /\ "waitForNotifications" \in Calls /\ MayCall
  /\ helper_up
  /\ Enter("waitForNotifications", NoAddr, 0)
  /\ UNCHANGED <<wire, helper_up, delegate, mtu, lineq, partial, last>>

\* setRemoteOOB writes its command without a newline and waits for nothing
SetRemoteOOB ==
  /\ "setRemoteOOB" \in Calls /\ MayCall
  /\ \/ /\ ~helper_up /\ StartHelper
        /\ stdin' = <<>> /\ partial' = TRUE
        /\ Ended("setRemoteOOB", "ok")
        /\ UNCHANGED <<ncmd, stack>>
     \/ /\ helper_up /\ proc = "exited"
        /\ Refused("setRemoteOOB", "pipe")
        /\ UNCHANGED delegate
     \/ /\ helper_up /\ proc = "running"
        /\ partial' = TRUE
        /\ Ended("setRemoteOOB", "ok")
        /\ UNCHANGED <<wire, helper_up, delegate, mtu, lineq, stack>>

\* getLocalOOB starts a helper if there is none
GetLocalOOB ==
  /\ "getLocalOOB" \in Calls /\ MayCall
  /\ \/ StartWith("getLocalOOB", NoAddr)
     \/ helper_up /\ WriteCmd("getLocalOOB", NoAddr)

Request(call) ==
  /\ call \in Calls \ {"connect", "disconnect", "waitForNotifications",
                      "setRemoteOOB", "getLocalOOB"}
  /\ MayCall
  /\ WriteCmd(call, NoAddr)

-----------------------------------------------------------------------------
(* _waitResp and _getResp.                                                  *)

Running(pc) == stack # <<>> /\ Top.pc = pc

\* self._helper.poll(): of a helper a nested call stopped, an AttributeError
Poll ==
  /\ Running("poll")
  /\ \/ /\ ~helper_up
        /\ Raise("attribute", NoLine)
     \/ /\ helper_up /\ proc = "exited"
        /\ Raise("internal", NoLine)
     \/ /\ helper_up /\ proc = "running"
        /\ Goto("get")
        /\ UNCHANGED last
  /\ UNCHANGED <<wire, helper_up, delegate, mtu, lineq, partial>>

\* the test that ends _waitResp, with the types _getResp adds
Wanted(f, line) ==
  line.rsp \in WantType(f.call) \cup (IF UsesGetResp(f.call) THEN Notice ELSE {})

\* disconnect() got its "stat" line
Disconnected(line) == StopThen("ok", line)

\* the line a call waited for
Deliver(line) ==
  \/ /\ Top.call = "connect" /\ line.tag = "tryconn"
     /\ SetTop([Top EXCEPT !.pc = "poll", !.tried = TRUE])
     /\ UNCHANGED last
  \/ /\ Top.call = "connect" /\ line.tag \notin {"tryconn", "conn"}
     /\ StopThen("disc", line)
  \/ /\ Top.call = "disconnect"
     /\ Disconnected(line)
  \/ /\ Top.call \in {"pair", "unpair"} /\ line.tag # "success"
     /\ StopThen("mgmt", line)
  \/ /\ Top.call = "connect" => line.tag = "conn"
     /\ Top.call # "disconnect"
     /\ Top.call \in {"pair", "unpair"} => line.tag = "success"
     /\ Return("ok", line)

\* mutant: a notification ends any call
EndsOnNoticeMutant(f) == TRUE

\* is a notification what the call waits for?
EndsOnNotice(f) == f.call = "waitForNotifications"

\* a notification inside a call: the delegate runs first
Notify(line) ==
  \/ /\ delegate
     /\ SetTop([Top EXCEPT !.pc = "cb", !.line = line])
     /\ UNCHANGED last
  \/ /\ ~delegate /\ EndsOnNotice(Top)
     /\ Return("ok", line)
  \/ /\ ~delegate /\ ~EndsOnNotice(Top)
     /\ Goto("poll")
     /\ UNCHANGED last

\* mutant: the exception leaves the helper running
LostConnectionMutant(line) == Raise("disc", line)

LostConnection(line) == StopThen("disc", line)

\* a line the call did not wait for
Unwanted(line) ==
  \/ /\ line.rsp = "stat" /\ line.tag = "disc"
     /\ LostConnection(line)
  \/ /\ line.rsp = "scan" \/ (line.rsp = "stat" /\ line.tag # "disc")
     /\ Goto("poll")
     /\ UNCHANGED last
  \/ /\ line.rsp = "err"
     /\ Raise(CASE line.tag = "nomgmt" -> "mgmt"
                [] line.tag = "atterr" -> "gatt"
                [] OTHER               -> "error", line)
  \/ /\ line.rsp \notin {"stat", "scan", "err"}
     /\ Raise("internal", line)

\* mutant: only a line the call waits for is looked at
NewMtuMutant(line) ==
  IF line.rsp = "stat" /\ Wanted(Top, line) THEN line.mtu ELSE mtu

\* "always check for MTU updates"
NewMtu(line) == IF line.rsp = "stat" THEN line.mtu ELSE mtu

Take ==
  /\ Running("get") /\ lineq # <<>>
  /\ lineq' = Tail(lineq)
  /\ LET line == Head(lineq) IN
     /\ mtu' = NewMtu(line)
     /\ \/ Wanted(Top, line) /\ line.rsp \in Notice /\ Notify(line)
        \/ Wanted(Top, line) /\ line.rsp \notin Notice /\ Deliver(line)
        \/ ~Wanted(Top, line) /\ Unwanted(line)
  /\ UNCHANGED <<wire, helper_up, delegate, partial>>

\* Queue.get raised Empty.  _connect gives up without stopping the helper if
\* not even "tryconn" came; every other call returns None.
Timeout ==
  /\ Running("get") /\ lineq = <<>> /\ Top.call \in Timed
  /\ \/ /\ Top.call = "connect" /\ ~Top.tried
        /\ Raise("timeout", NoLine)
     \/ /\ Top.call = "connect" /\ Top.tried
        /\ StopThen("timeout", NoLine)
     \/ /\ Top.call # "connect"
        /\ Return("none", NoLine)
  /\ UNCHANGED <<wire, helper_up, delegate, mtu, lineq, partial>>

\* handleNotification returned
CallbackDone ==
  /\ Running("cb")
  /\ \/ /\ EndsOnNotice(Top)
        /\ Return("ok", Top.line)
     \/ /\ ~EndsOnNotice(Top)
        /\ Goto("poll")
        /\ UNCHANGED last
  /\ UNCHANGED <<wire, helper_up, delegate, mtu, lineq, partial>>

-----------------------------------------------------------------------------
(* _stopHelper.                                                             *)

\* writing to a dead helper is a BrokenPipeError, and leaves _helper set
WriteQuit ==
  /\ Running("stop")
  /\ \/ /\ proc = "exited"
        /\ Raise("pipe", NoLine)
        /\ UNCHANGED <<wire, partial>>
     \/ /\ proc = "running"
        /\ \E cmd \in Written(Cmd("quit", 0, NoAddr, 1)) :
             stdin' = Append(stdin, cmd)
        /\ partial' = FALSE
        /\ Goto("wait")
        /\ UNCHANGED <<stdout, eof, proc, ncmd, last>>
  /\ UNCHANGED <<helper_up, delegate, mtu, lineq>>

WaitExit ==
  /\ Running("wait") /\ proc = "exited"
  /\ helper_up' = FALSE
  /\ AfterStop(Top.how, Top.line)
  /\ UNCHANGED <<wire, delegate, mtu, lineq, partial>>

\* _readToQueue, for the process at hand
ReadToQueue ==
  /\ helper_up /\ stdout # <<>>
  /\ stdout' = Tail(stdout)
  /\ lineq' = Append(lineq, Head(stdout))
  /\ UNCHANGED <<stdin, eof, proc, ncmd>>
  /\ UNCHANGED <<helper_up, delegate, mtu, partial, stack, last>>

-----------------------------------------------------------------------------
Application ==
  \/ \E dst \in Addr : Connect(dst)
  \/ Disconnect
  \/ WithDelegate
  \/ WaitForNotifications
  \/ SetRemoteOOB
  \/ GetLocalOOB
  \/ \E call \in Calls : Request(call)

\* what the library does by itself once it was called
Library ==
  \/ Poll \/ Take \/ Timeout \/ CallbackDone \/ WriteQuit \/ WaitExit
=============================================================================
