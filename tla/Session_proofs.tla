--------------------------- MODULE Session_proofs ---------------------------
(***************************************************************************)
(* Proofs about a Python program and its helper together.  For any calls:   *)
(* types, and that nobody is told "disconnected" while a helper runs on.    *)
(* For programs that wait for their calls to the end (Plain): a call gets   *)
(* its own answer, and connect() the device it was asked for; what a        *)
(* timed-out, interrupted or re-entered call leaves behind, another call    *)
(* does take.                                                               *)
(*                                                                          *)
(* The inductive invariant OwnInv of the second part says of a call in      *)
(* progress where what it asked for is (InHand: one command in stdin, one   *)
(* request to the peripheral or to the kernel, or one answer in the queues) *)
(* and of an attempt to connect how far it is (Stage); of the frames of     *)
(* calls what the library may think (Frames), and of a helper that does not *)
(* run that nothing is left in it (Reset).  The helper's steps come first,  *)
(* one lemma for each handler and callback, then the library's, one for     *)
(* each action.  The third part, for programs without setMTU, is about the  *)
(* MTU: MtuInv says that the lines on their way tell what it is.            *)
(***************************************************************************)
EXTENDS Session, Helper_proofs

-----------------------------------------------------------------------------
(* Type correctness.                                                        *)

\* a call in progress
Frame ==
  [call : Methods, id : Nat, dst : Addr \cup {NoAddr},
   pc : {"poll", "get", "cb", "stop", "wait"}, tried : BOOLEAN,
   how : {"ok", "internal", "pipe", "attribute", "none", "timeout", "disc",
          "mgmt", "gatt", "error"},
   line : Line]

TypeInv == SessionTypeOK /\ stack \in Seq(Frame)

LEMMA StackTop ==
  ASSUME NEW s \in Seq(Frame), s # <<>>
  PROVE  /\ Last(s) \in Frame /\ Front(s) \in Seq(Frame)
         /\ Len(Front(s)) = Len(s) - 1
         /\ \A f \in Frame : /\ Append(Front(s), f) \in Seq(Frame)
                             /\ Len(Append(Front(s), f)) = Len(s)
                             /\ Append(Front(s), f) # <<>>
                             /\ Last(Append(Front(s), f)) = f
<1> DEFINE n == Len(s)
<1>1. n \in Nat /\ n >= 1
  OBVIOUS
<1>2. Last(s) \in Frame
  BY <1>1 DEF Last
<1>3. Front(s) \in Seq(Frame) /\ Len(Front(s)) = n - 1
  <2>1. /\ SubSeq(s, 1, n - 1) \in Seq(Frame)
        /\ Len(SubSeq(s, 1, n - 1)) = IF 1 <= n - 1 THEN n - 1 - 1 + 1 ELSE 0
    <3>1. 1 \in 1 .. Len(s) + 1 /\ n - 1 \in 0 .. Len(s)
      BY <1>1
    <3>2. QED BY <3>1, SubSeqProperties
  <2>2. Front(s) = SubSeq(s, 1, n - 1)
    BY DEF Front
  <2> HIDE DEF n
  <2>3. (IF 1 <= n - 1 THEN n - 1 - 1 + 1 ELSE 0) = n - 1
    BY <1>1
  <2>4. QED BY <2>1, <2>2, <2>3
<1>4. ASSUME NEW f \in Frame
      PROVE  /\ Append(Front(s), f) \in Seq(Frame)
             /\ Len(Append(Front(s), f)) = n
             /\ Append(Front(s), f) # <<>>
             /\ Last(Append(Front(s), f)) = f
  BY <1>1, <1>3, <1>4 DEF Last
<1>5. QED BY <1>2, <1>3, <1>4

LEMMA NoLineType == NoLine \in Line
BY DEF NoLine, Data, Line, RspType

LEMMA VerbType ==
  ASSUME NEW call \in Methods \ {"waitForNotifications", "setRemoteOOB"}
  PROVE  Verb(call) \in AllVerbs
BY DEF Methods, Verb, AllVerbs, GattVerbs, MgmtVerbs

\* what the helper reads of a command is a command
LEMMA WrittenType ==
  ASSUME NEW cmd \in Command, NEW c \in Written(cmd)
  PROVE  c \in Command
BY DEF Written, Cmd, Command, AllVerbs, MgmtVerbs

LEMMA EnterType ==
  ASSUME TypeInv, MayCall, NEW call \in Methods, NEW dst \in Addr \cup {NoAddr},
         NEW id \in Nat, Enter(call, dst, id)
  PROVE  stack' \in Seq(Frame) /\ Len(stack') <= 2 /\ stack' # <<>>
<1>1. stack \in Seq(Frame) /\ Len(stack) <= 1
  <2>1. stack \in Seq(Frame)
    BY DEF TypeInv
  <2>2. CASE stack = <<>>
    <3>1. Len(<<>>) = 0
      BY EmptySeq
    <3>2. Len(stack) = 0
      BY <2>2, <3>1, Zenon
    <3>3. QED BY <2>1, <3>2
  <2>3. CASE stack # <<>>
    <3>1. Len(stack) = 1
      BY <2>3, Zenon DEF MayCall
    <3>2. QED BY <2>1, <3>1
  <2>4. QED BY <2>1, <2>2, <2>3
<1>2. [call |-> call, id |-> id, dst |-> dst, pc |-> "poll",
       tried |-> FALSE, how |-> "ok", line |-> NoLine] \in Frame
  BY NoLineType DEF Frame
<1>3. QED BY <1>1, <1>2 DEF Enter

LEMMA BootType ==
  ASSUME HelperTypeOK, Boot
  PROVE  HelperTypeOK'
<1>1. /\ mgmt_master' \in BOOLEAN /\ loop' \in BOOLEAN
      /\ UNCHANGED <<conn, chans, watch, mgmt_q, nevt>>
  BY HelperAssumption DEF Boot
<1>2. QED BY <1>1 DEF HelperTypeOK, conn, chans

LEMMA SameHelperType ==
  ASSUME HelperTypeOK, UNCHANGED helper
  PROVE  HelperTypeOK'
BY DEF HelperTypeOK, helper, conn, chans, mgmt

LEMMA WriteCmdType ==
  ASSUME TypeInv, MayCall, NEW call \in Methods \ {"waitForNotifications", "setRemoteOOB"},
         NEW dst \in Addr \cup {NoAddr}, WriteCmd(call, dst)
  PROVE  /\ WireTypeOK' /\ helper_up' \in BOOLEAN /\ delegate' \in BOOLEAN
         /\ mtu' \in Nat /\ lineq' \in Seq(Line) /\ partial' \in BOOLEAN
         /\ stack' \in Seq(Frame) /\ Len(stack') <= 2
<1>1. CASE Refused(call, "internal") \/ Refused(call, "pipe")
  <2>1. stack' = <<>> /\ UNCHANGED <<wire, helper_up, mtu, lineq, partial>>
    BY <1>1 DEF Refused
  <2>2. delegate' \in BOOLEAN
    BY DEF WriteCmd, TypeInv, SessionTypeOK
  <2>3. stack' \in Seq(Frame) /\ Len(stack') <= 2
    BY <2>1
  <2>4. WireTypeOK'
    BY <2>1 DEF TypeInv, SessionTypeOK, TypeOK, WireTypeOK, wire
  <2>5. QED BY <2>1, <2>2, <2>3, <2>4 DEF TypeInv, SessionTypeOK
<1>2. CASE ~(Refused(call, "internal") \/ Refused(call, "pipe"))
  <2> DEFINE cmd == Cmd(Verb(call), ncmd + 1, dst,
                        IF call = "setMTU" THEN MtuWanted ELSE 1)
  <2>1. /\ ncmd' = ncmd + 1 /\ partial' = FALSE
        /\ Enter(call, dst, ncmd + 1)
        /\ UNCHANGED <<stdout, eof, proc, helper_up, mtu, lineq, last>>
        /\ \E c \in Written(cmd) : stdin' = Append(stdin, c)
        /\ delegate' = (delegate /\ call # "disconnect")
    BY <1>2 DEF WriteCmd
  <2>2. ncmd \in Nat /\ stdin \in Seq(Command) /\ ncmd + 1 \in Nat
    BY DEF TypeInv, SessionTypeOK, TypeOK, WireTypeOK
  <2>3. cmd \in Command
    BY <2>2, VerbType, ClientAssumption DEF Cmd, Command
  <2>4. stdin' \in Seq(Command)
    <3>1. PICK c \in Written(cmd) : stdin' = Append(stdin, c)
      BY <2>1
    <3>2. c \in Command
      BY <2>3, <3>1, WrittenType
    <3>3. QED BY <2>2, <3>1, <3>2
  <2>5. stack' \in Seq(Frame) /\ Len(stack') <= 2
    BY <2>1, <2>2, EnterType
  <2>6. WireTypeOK'
    BY <2>1, <2>2, <2>4 DEF TypeInv, SessionTypeOK, TypeOK, WireTypeOK
  <2>7. delegate' \in BOOLEAN
    BY <2>1 DEF TypeInv, SessionTypeOK
  <2>8. QED BY <2>1, <2>5, <2>6, <2>7 DEF TypeInv, SessionTypeOK
<1>3. QED BY <1>1, <1>2

LEMMA StartWithType ==
  ASSUME TypeInv, MayCall, NEW call \in {"connect", "getLocalOOB"},
         NEW dst \in Addr \cup {NoAddr}, StartWith(call, dst)
  PROVE  /\ WireTypeOK' /\ helper_up' \in BOOLEAN /\ delegate' \in BOOLEAN
         /\ mtu' \in Nat /\ lineq' \in Seq(Line) /\ partial' \in BOOLEAN
         /\ stack' \in Seq(Frame) /\ Len(stack') <= 2
<1>1. ncmd \in Nat /\ ncmd + 1 \in Nat
  BY DEF TypeInv, SessionTypeOK, TypeOK, WireTypeOK
<1>2. Cmd(Verb(call), ncmd + 1, dst, 1) \in Command
  BY <1>1, VerbType DEF Cmd, Command, Methods
<1>3. stack' \in Seq(Frame) /\ Len(stack') <= 2
  BY <1>1, EnterType DEF StartWith, Methods
<1>4. WireTypeOK' /\ lineq' \in Seq(Line)
  <2>1. stdin' \in Seq(Command)
    BY <1>2 DEF StartWith
  <2>2. <<>> \in Seq(Line)
    OBVIOUS
  <2>3. QED
    BY <1>1, <2>1, <2>2
    DEF StartWith, StartHelper, NewQueue, WireTypeOK, TypeInv, SessionTypeOK, TypeOK
<1>5. QED
  BY <1>3, <1>4 DEF StartWith, StartHelper, TypeInv, SessionTypeOK

LEMMA ApplicationType ==
  ASSUME TypeInv, Application
  PROVE  /\ WireTypeOK' /\ helper_up' \in BOOLEAN /\ delegate' \in BOOLEAN
         /\ mtu' \in Nat /\ lineq' \in Seq(Line) /\ partial' \in BOOLEAN
         /\ stack' \in Seq(Frame) /\ Len(stack') <= 2
<1>1. ASSUME NEW dst \in Addr, Connect(dst)
      PROVE  /\ WireTypeOK' /\ helper_up' \in BOOLEAN /\ delegate' \in BOOLEAN
             /\ mtu' \in Nat /\ lineq' \in Seq(Line) /\ partial' \in BOOLEAN
             /\ stack' \in Seq(Frame) /\ Len(stack') <= 2
  <2>1. "connect" \in Methods \ {"waitForNotifications", "setRemoteOOB"}
    BY DEF Methods
  <2>2. QED BY <1>1, <2>1, WriteCmdType, StartWithType DEF Connect
<1>2. CASE Disconnect
  <2>1. "disconnect" \in Methods \ {"waitForNotifications", "setRemoteOOB"}
    BY DEF Methods
  <2>2. QED BY <1>2, <2>1, WriteCmdType DEF Disconnect
<1>3. CASE WithDelegate
  BY <1>3 DEF WithDelegate, TypeInv, SessionTypeOK, TypeOK, WireTypeOK, wire
<1>4. CASE WaitForNotifications
  <2>1. stack' \in Seq(Frame) /\ Len(stack') <= 2
    BY <1>4, EnterType DEF WaitForNotifications, Methods
  <2>2. UNCHANGED <<wire, helper_up, delegate, mtu, lineq, partial, last>>
    BY <1>4 DEF WaitForNotifications
  <2>3. QED BY <2>1, <2>2 DEF TypeInv, SessionTypeOK, TypeOK, WireTypeOK, wire
<1>5. CASE SetRemoteOOB
  <2>1. <<>> \in Seq(Line) /\ <<>> \in Seq(Command) /\ <<>> \in Seq(Frame)
    OBVIOUS
  <2>2. CASE Refused("setRemoteOOB", "pipe") /\ UNCHANGED delegate
    BY <2>1, <2>2 DEF Refused, TypeInv, SessionTypeOK, TypeOK, WireTypeOK, wire
  <2>3. CASE partial' = TRUE
             /\ UNCHANGED <<wire, helper_up, delegate, mtu, lineq, stack>>
    BY <2>3 DEF TypeInv, SessionTypeOK, TypeOK, WireTypeOK, wire
  <2>4. CASE StartHelper /\ stdin' = <<>> /\ partial' = TRUE /\ UNCHANGED <<ncmd, stack>>
    BY <2>1, <2>4
    DEF StartHelper, NewQueue, TypeInv, SessionTypeOK, TypeOK, WireTypeOK
  <2>5. QED BY <1>5, <2>2, <2>3, <2>4 DEF SetRemoteOOB
<1>6. CASE GetLocalOOB
  <2>1. "getLocalOOB" \in Methods \ {"waitForNotifications", "setRemoteOOB"}
    BY DEF Methods
  <2>2. QED BY <1>6, <2>1, WriteCmdType, StartWithType DEF GetLocalOOB
<1>7. ASSUME NEW call \in Calls, Request(call)
      PROVE  /\ WireTypeOK' /\ helper_up' \in BOOLEAN /\ delegate' \in BOOLEAN
             /\ mtu' \in Nat /\ lineq' \in Seq(Line) /\ partial' \in BOOLEAN
             /\ stack' \in Seq(Frame) /\ Len(stack') <= 2
  <2>1. call \in Methods \ {"waitForNotifications", "setRemoteOOB"}
    BY <1>7, ClientAssumption DEF Request
  <2>2. QED BY <1>7, <2>1, WriteCmdType DEF Request
<1>8. QED
  BY <1>1, <1>2, <1>3, <1>4, <1>5, <1>6, <1>7 DEF Application

\* how the stack and the call at its top change
LEMMA GotoType ==
  ASSUME TypeInv, stack # <<>>, NEW pc \in {"poll", "get", "cb", "stop", "wait"},
         Goto(pc)
  PROVE  stack' \in Seq(Frame) /\ Len(stack') <= 2 /\ stack' # <<>>
<1>1. stack \in Seq(Frame) /\ Len(stack) <= 2
  BY DEF TypeInv, SessionTypeOK
<1>2. Top \in Frame
  BY <1>1, StackTop DEF Top
<1>3. [Top EXCEPT !.pc = pc] \in Frame
  BY <1>2 DEF Frame
<1>4. QED BY <1>1, <1>3, StackTop DEF Goto, SetTop

LEMMA ReturnType ==
  ASSUME TypeInv, stack # <<>>, NEW how, NEW line, Return(how, line)
  PROVE  stack' \in Seq(Frame) /\ Len(stack') <= 2
<1>1. stack \in Seq(Frame) /\ Len(stack) <= 2
  BY DEF TypeInv, SessionTypeOK
<1>2. QED BY <1>1, StackTop DEF Return

LEMMA RaiseType ==
  ASSUME NEW how, NEW line, Raise(how, line)
  PROVE  stack' \in Seq(Frame) /\ Len(stack') <= 2 /\ stack' = <<>>
<1>1. stack' = <<>>
  BY DEF Raise
<1>2. Len(<<>>) = 0 /\ <<>> \in Seq(Frame)
  BY EmptySeq
<1>3. QED BY <1>1, <1>2

LEMMA StopThenType ==
  ASSUME TypeInv, stack # <<>>, NEW how \in {"ok", "disc", "timeout", "mgmt"},
         NEW line \in Line, StopThen(how, line)
  PROVE  stack' \in Seq(Frame) /\ Len(stack') <= 2 /\ stack' # <<>>
<1>1. stack \in Seq(Frame) /\ Len(stack) <= 2
  BY DEF TypeInv, SessionTypeOK
<1>2. Top \in Frame
  BY <1>1, StackTop DEF Top
<1>3. [Top EXCEPT !.pc = "stop", !.how = how, !.line = line] \in Frame
  BY <1>2 DEF Frame
<1>4. QED BY <1>1, <1>3, StackTop DEF StopThen, SetTop

LEMMA TakeType ==
  ASSUME TypeInv, Take
  PROVE  /\ stack' \in Seq(Frame) /\ Len(stack') <= 2
         /\ mtu' \in Nat /\ lineq' \in Seq(Line)
<1> DEFINE line == Head(lineq)
<1>1. /\ stack # <<>> /\ lineq # <<>> /\ lineq \in Seq(Line) /\ mtu \in Nat
      /\ stack \in Seq(Frame) /\ Len(stack) <= 2
  BY DEF Take, Running, TypeInv, SessionTypeOK
<1>2. line \in Line /\ lineq' \in Seq(Line)
  BY <1>1 DEF Take
<1>3. mtu' \in Nat
  <2>1. line.mtu \in Nat
    BY <1>2 DEF Line
  <2>2. QED BY <1>1, <2>1 DEF Take, NewMtu
<1>4. Top \in Frame
  BY <1>1, StackTop DEF Top
<1> HIDE DEF line
<1>5. Notify(line) \/ Deliver(line) \/ Unwanted(line)
  BY DEF Take, line
<1>6. ASSUME Notify(line)
      PROVE  stack' \in Seq(Frame) /\ Len(stack') <= 2
  <2>1. CASE SetTop([Top EXCEPT !.pc = "cb", !.line = line])
    <3>1. [Top EXCEPT !.pc = "cb", !.line = line] \in Frame
      BY <1>2, <1>4 DEF Frame
    <3>2. QED BY <1>1, <2>1, <3>1, StackTop DEF SetTop
  <2>2. QED BY <1>1, <1>6, <2>1, ReturnType, GotoType DEF Notify
<1>7. ASSUME Deliver(line)
      PROVE  stack' \in Seq(Frame) /\ Len(stack') <= 2
  <2>1. CASE SetTop([Top EXCEPT !.pc = "poll", !.tried = TRUE])
    <3>1. [Top EXCEPT !.pc = "poll", !.tried = TRUE] \in Frame
      BY <1>4 DEF Frame
    <3>2. QED BY <1>1, <2>1, <3>1, StackTop DEF SetTop
  <2>2. CASE \E how \in {"ok", "disc", "timeout", "mgmt"} : StopThen(how, line)
    BY <1>1, <1>2, <2>2, StopThenType
  <2>3. QED BY <1>1, <1>7, <2>1, <2>2, ReturnType DEF Deliver, Disconnected
<1>8. ASSUME Unwanted(line)
      PROVE  stack' \in Seq(Frame) /\ Len(stack') <= 2
  <2>1. CASE StopThen("disc", line)
    BY <1>1, <1>2, <2>1, StopThenType
  <2>2. CASE \E how : Raise(how, line)
    BY <2>2, RaiseType
  <2>3. QED BY <1>1, <1>8, <2>1, <2>2, GotoType DEF Unwanted, LostConnection
<1>9. QED BY <1>2, <1>3, <1>5, <1>6, <1>7, <1>8

LEMMA LibraryType ==
  ASSUME TypeInv, Library
  PROVE  /\ WireTypeOK' /\ helper_up' \in BOOLEAN /\ delegate' \in BOOLEAN
         /\ mtu' \in Nat /\ lineq' \in Seq(Line) /\ partial' \in BOOLEAN
         /\ stack' \in Seq(Frame) /\ Len(stack') <= 2
<1>1. CASE Poll
  <2>1. stack' \in Seq(Frame) /\ Len(stack') <= 2
    BY <1>1, RaiseType, GotoType DEF Poll, Running
  <2>2. UNCHANGED <<wire, helper_up, delegate, mtu, lineq, partial>>
    BY <1>1 DEF Poll
  <2>3. QED BY <2>1, <2>2 DEF TypeInv, SessionTypeOK, TypeOK, WireTypeOK, wire
<1>2. CASE Take
  <2>1. UNCHANGED <<wire, helper_up, delegate, partial>>
    BY <1>2 DEF Take
  <2>2. QED
    BY <1>2, <2>1, TakeType DEF TypeInv, SessionTypeOK, TypeOK, WireTypeOK, wire
<1>3. CASE Timeout
  <2>1. stack' \in Seq(Frame) /\ Len(stack') <= 2
    BY <1>3, RaiseType, ReturnType, StopThenType, NoLineType DEF Timeout, Running
  <2>2. UNCHANGED <<wire, helper_up, delegate, mtu, lineq, partial>>
    BY <1>3 DEF Timeout
  <2>3. QED BY <2>1, <2>2 DEF TypeInv, SessionTypeOK, TypeOK, WireTypeOK, wire
<1>4. CASE CallbackDone
  <2>1. stack' \in Seq(Frame) /\ Len(stack') <= 2
    BY <1>4, ReturnType, GotoType DEF CallbackDone, Running
  <2>2. UNCHANGED <<wire, helper_up, delegate, mtu, lineq, partial>>
    BY <1>4 DEF CallbackDone
  <2>3. QED BY <2>1, <2>2 DEF TypeInv, SessionTypeOK, TypeOK, WireTypeOK, wire
<1>5. CASE WriteQuit
  <2>1. stack' \in Seq(Frame) /\ Len(stack') <= 2
    BY <1>5, RaiseType, GotoType DEF WriteQuit, Running
  <2>2. UNCHANGED <<helper_up, delegate, mtu, lineq, stdout, eof, proc, ncmd>>
    BY <1>5 DEF WriteQuit, wire
  <2>3. partial' \in BOOLEAN
    BY <1>5 DEF WriteQuit, TypeInv, SessionTypeOK
  <2>4. stdin' \in Seq(Command)
    <3>1. stdin \in Seq(Command)
      BY DEF TypeInv, SessionTypeOK, TypeOK, WireTypeOK
    <3>2. CASE UNCHANGED stdin
      BY <3>1, <3>2
    <3>3. CASE ~UNCHANGED stdin
      <4>1. PICK c \in Written(Cmd("quit", 0, NoAddr, 1)) : stdin' = Append(stdin, c)
        BY <1>5, <3>3 DEF WriteQuit, wire
      <4>2. Cmd("quit", 0, NoAddr, 1) \in Command
        BY DEF Cmd, Command, AllVerbs
      <4>3. c \in Command
        BY <4>1, <4>2, WrittenType
      <4>4. QED BY <3>1, <4>1, <4>3
    <3>4. QED BY <3>2, <3>3
  <2>5. QED
    BY <2>1, <2>2, <2>3, <2>4 DEF TypeInv, SessionTypeOK, TypeOK, WireTypeOK
<1>6. CASE WaitExit
  <2>1. stack' \in Seq(Frame) /\ Len(stack') <= 2
    BY <1>6, RaiseType, ReturnType DEF WaitExit, AfterStop, Running
  <2>2. helper_up' = FALSE /\ UNCHANGED <<wire, delegate, mtu, lineq, partial>>
    BY <1>6 DEF WaitExit
  <2>3. QED BY <2>1, <2>2 DEF TypeInv, SessionTypeOK, TypeOK, WireTypeOK, wire
<1>7. QED BY <1>1, <1>2, <1>3, <1>4, <1>5, <1>6 DEF Library

LEMMA ReadToQueueType ==
  ASSUME TypeInv, ReadToQueue
  PROVE  /\ WireTypeOK' /\ helper_up' \in BOOLEAN /\ delegate' \in BOOLEAN
         /\ mtu' \in Nat /\ lineq' \in Seq(Line) /\ partial' \in BOOLEAN
         /\ stack' \in Seq(Frame) /\ Len(stack') <= 2
<1>1. stdout \in Seq(Line) /\ lineq \in Seq(Line) /\ stdout # <<>>
  BY DEF ReadToQueue, TypeInv, SessionTypeOK, TypeOK, WireTypeOK
<1>2. stdout' \in Seq(Line) /\ lineq' \in Seq(Line)
  BY <1>1 DEF ReadToQueue
<1>3. QED
  BY <1>2 DEF ReadToQueue, TypeInv, SessionTypeOK, TypeOK, WireTypeOK

LEMMA NextType ==
  ASSUME TypeInv, Next
  PROVE  TypeInv'
<1>1. CASE ClientStep
  <2>1. /\ WireTypeOK' /\ helper_up' \in BOOLEAN /\ delegate' \in BOOLEAN
        /\ mtu' \in Nat /\ lineq' \in Seq(Line) /\ partial' \in BOOLEAN
        /\ stack' \in Seq(Frame) /\ Len(stack') <= 2
    BY <1>1, ApplicationType, LibraryType, ReadToQueueType DEF ClientStep
  <2>2. HelperTypeOK'
    BY <1>1, BootType, SameHelperType DEF ClientStep, TypeInv, SessionTypeOK, TypeOK
  <2>3. QED BY <2>1, <2>2 DEF TypeInv, SessionTypeOK, TypeOK
<1>2. CASE Helping
  <2>1. TypeOK'
    BY <1>2, HelperStepType DEF Helping, TypeInv, SessionTypeOK
  <2>2. UNCHANGED client
    BY <1>2 DEF Helping
  <2>3. QED BY <2>1, <2>2 DEF TypeInv, SessionTypeOK, client
<1>3. CASE Killed
  <2>1. HelperTypeOK' /\ proc' = "exited"
    BY <1>3, GoneType DEF Killed, TypeInv, SessionTypeOK, TypeOK
  <2>2. UNCHANGED <<stdin, stdout, eof, ncmd, client>>
    BY <1>3 DEF Killed
  <2>3. QED
    BY <2>1, <2>2 DEF TypeInv, SessionTypeOK, TypeOK, WireTypeOK, client
<1>4. QED BY <1>1, <1>2, <1>3 DEF Next

LEMMA InitType == SessionInit => TypeInv
<1>1. SUFFICES ASSUME SessionInit PROVE TypeInv
  OBVIOUS
<1>2. /\ <<>> \in Seq(Op) /\ <<>> \in Seq(MgmtOp) /\ <<>> \in Seq(Command)
      /\ <<>> \in Seq(Line) /\ <<>> \in Seq(Frame) /\ Len(<<>>) = 0
  BY EmptySeq
<1>3. /\ link \in [Chan -> LinkState] /\ ops \in [Chan -> Seq(Op)]
      /\ over \in [Chan -> 0 .. MaxChan] /\ peer \in [Chan -> Addr \cup {NoAddr}]
  BY <1>1, <1>2, HelperAssumption DEF SessionInit, Init, LinkState
<1>4. HelperTypeOK
  BY <1>1, <1>2, <1>3, HelperAssumption
  DEF SessionInit, Init, HelperTypeOK, ConnState
<1>5. WireTypeOK
  BY <1>1, <1>2 DEF SessionInit, WireInit, WireTypeOK
<1>6. /\ helper_up \in BOOLEAN /\ delegate \in BOOLEAN /\ mtu \in Nat
      /\ lineq \in Seq(Line) /\ partial \in BOOLEAN
      /\ stack \in Seq(Frame) /\ Len(stack) <= 2
  <2>1. stack = <<>> /\ lineq = <<>>
    BY <1>1 DEF SessionInit, ClientInit
  <2>2. Len(stack) = 0
    BY <1>2, <2>1, Zenon
  <2>3. lineq \in Seq(Line) /\ stack \in Seq(Frame) /\ Len(stack) <= 2
    BY <1>2, <2>1, <2>2
  <2>4. /\ helper_up \in BOOLEAN /\ delegate \in BOOLEAN /\ mtu \in Nat
        /\ partial \in BOOLEAN
    BY <1>1 DEF SessionInit, ClientInit
  <2>5. QED BY <2>3, <2>4
<1>7. QED BY <1>4, <1>5, <1>6 DEF TypeInv, SessionTypeOK, TypeOK

LEMMA SameType ==
  ASSUME TypeInv, UNCHANGED vars
  PROVE  TypeInv'
BY DEF vars, wire, client, helper, conn, chans, mgmt, TypeInv, SessionTypeOK,
       TypeOK, WireTypeOK, HelperTypeOK

\* The variables of the library, of the helper and of the pipes keep their
\* types whatever is called, re-entered, killed or found in the air.
THEOREM SessionTypeCorrect == Spec => []TypeInv
<1>1. TypeInv /\ [Next]_vars => TypeInv'
  BY NextType, SameType
<1>2. QED BY <1>1, InitType, PTL DEF Spec

-----------------------------------------------------------------------------
(* Whoever is told of a disconnection has no helper.                        *)

LEMMA EnteredStopped ==
  ASSUME TypeInv, DisconnectedIsStopped, Application, TypeInv'
  PROVE  DisconnectedIsStopped'
<1>1. ASSUME NEW call \in Methods, NEW dst \in Addr \cup {NoAddr}, NEW id \in Nat,
             MayCall, Enter(call, dst, id)
      PROVE  DisconnectedIsStopped'
  BY <1>1, EnterType DEF DisconnectedIsStopped
<1>2. ASSUME NEW call, NEW how \in {"internal", "pipe"}, Refused(call, how)
      PROVE  DisconnectedIsStopped'
  BY <1>2 DEF Refused, Ended, DisconnectedIsStopped
<1>3. ncmd + 1 \in Nat
  BY DEF TypeInv, SessionTypeOK, TypeOK, WireTypeOK
<1>4. ASSUME NEW call \in Methods, NEW dst \in Addr \cup {NoAddr}, MayCall,
             WriteCmd(call, dst) \/ StartWith(call, dst)
      PROVE  DisconnectedIsStopped'
  BY <1>1, <1>2, <1>3, <1>4 DEF WriteCmd, StartWith
<1>5. ASSUME NEW dst \in Addr, Connect(dst)
      PROVE  DisconnectedIsStopped'
  BY <1>4, <1>5 DEF Connect, Methods
<1>6. CASE Disconnect
  BY <1>4, <1>6 DEF Disconnect, Methods
<1>7. CASE WithDelegate
  BY <1>7 DEF WithDelegate, DisconnectedIsStopped
<1>8. CASE WaitForNotifications
  BY <1>1, <1>8 DEF WaitForNotifications, Methods
<1>9. CASE SetRemoteOOB
  <2>1. \/ Ended("setRemoteOOB", "ok")
        \/ Refused("setRemoteOOB", "pipe")
    BY <1>9 DEF SetRemoteOOB
  <2>2. QED BY <1>2, <2>1 DEF Ended, DisconnectedIsStopped
<1>10. CASE GetLocalOOB
  BY <1>4, <1>10 DEF GetLocalOOB, Methods
<1>11. ASSUME NEW call \in Calls, Request(call)
       PROVE  DisconnectedIsStopped'
  BY <1>4, <1>11, ClientAssumption DEF Request
<1>12. QED
  BY <1>5, <1>6, <1>7, <1>8, <1>9, <1>10, <1>11 DEF Application

\* an exception other than "disconnected", or the return of another call
LEMMA OtherEndStopped ==
  ASSUME NEW how, NEW line,
         \/ Raise(how, line) /\ how \notin {"ok", "disc"}
         \/ Return(how, line) /\ how # "disc" /\ (how = "ok" => Top.call # "disconnect")
  PROVE  DisconnectedIsStopped'
<1>1. last' = Result(Top, how, line)
  BY DEF Raise, Return
<1>2. last'.how = how /\ last'.call = Top.call
  BY <1>1 DEF Result
<1>3. QED BY <1>2 DEF Raise, Return, DisconnectedIsStopped

LEMMA TakenStopped ==
  ASSUME TypeInv, Take
  PROVE  DisconnectedIsStopped'
<1> DEFINE line == Head(lineq)
<1>1. /\ stack # <<>> /\ lineq # <<>> /\ lineq \in Seq(Line)
      /\ stack \in Seq(Frame) /\ Len(stack) <= 2
  BY DEF Take, Running, TypeInv, SessionTypeOK
<1>2. line \in Line
  BY <1>1
<1>3. Top \in Frame
  BY <1>1, StackTop DEF Top
<1> HIDE DEF line
<1>4. Notify(line) \/ Deliver(line) \/ Unwanted(line)
  BY DEF Take, line
<1>5. ASSUME NEW f \in Frame, SetTop(f)
      PROVE  DisconnectedIsStopped'
  BY <1>1, <1>5, StackTop DEF SetTop, DisconnectedIsStopped
<1>6. ASSUME NEW how \in {"ok", "disc", "timeout", "mgmt"}, StopThen(how, line)
      PROVE  DisconnectedIsStopped'
  BY <1>1, <1>2, <1>6, StopThenType DEF DisconnectedIsStopped
<1>7. ASSUME Goto("poll")
      PROVE  DisconnectedIsStopped'
  BY <1>1, <1>7, GotoType DEF DisconnectedIsStopped
<1>8. CASE Notify(line)
  <2>1. [Top EXCEPT !.pc = "cb", !.line = line] \in Frame
    BY <1>2, <1>3 DEF Frame
  <2>2. EndsOnNotice(Top) => Top.call # "disconnect"
    BY DEF EndsOnNotice
  <2>3. QED BY <1>5, <1>7, <1>8, <2>1, <2>2, OtherEndStopped DEF Notify
<1>9. CASE Deliver(line)
  <2>1. [Top EXCEPT !.pc = "poll", !.tried = TRUE] \in Frame
    BY <1>3 DEF Frame
  <2>2. QED BY <1>5, <1>6, <1>9, <2>1, OtherEndStopped DEF Deliver, Disconnected
<1>10. CASE Unwanted(line)
  BY <1>6, <1>7, <1>10, OtherEndStopped DEF Unwanted, LostConnection
<1>11. QED BY <1>4, <1>8, <1>9, <1>10

LEMMA LibraryStopped ==
  ASSUME TypeInv, DisconnectedIsStopped, Library
  PROVE  DisconnectedIsStopped'
<1>1. ASSUME stack # <<>>, NEW pc \in {"poll", "get", "cb", "stop", "wait"}, Goto(pc)
      PROVE  DisconnectedIsStopped'
  BY <1>1, GotoType DEF DisconnectedIsStopped
<1>2. CASE Poll
  BY <1>1, <1>2, OtherEndStopped DEF Poll, Running
<1>3. CASE Take
  BY <1>3, TakenStopped
<1>4. CASE Timeout
  <2>1. ASSUME StopThen("timeout", NoLine) PROVE DisconnectedIsStopped'
    BY <1>4, <2>1, StopThenType, NoLineType DEF Timeout, Running, DisconnectedIsStopped
  <2>2. QED BY <1>4, <2>1, OtherEndStopped DEF Timeout
<1>5. CASE CallbackDone
  <2>1. EndsOnNotice(Top) => Top.call # "disconnect"
    BY DEF EndsOnNotice
  <2>2. QED BY <1>1, <1>5, <2>1, OtherEndStopped DEF CallbackDone, Running
<1>6. CASE WriteQuit
  BY <1>1, <1>6, OtherEndStopped DEF WriteQuit, Running
<1>7. CASE WaitExit
  BY <1>7 DEF WaitExit, DisconnectedIsStopped
<1>8. QED BY <1>2, <1>3, <1>4, <1>5, <1>6, <1>7 DEF Library

\* Whoever is told that the device is disconnected has no helper left that
\* could still hold the link: whatever is called and in whatever order, with
\* delegates that call again, time-outs, half commands and a helper that dies.
THEOREM DisconnectedIsStoppedAlways == Spec => []DisconnectedIsStopped
<1>1. SessionInit => DisconnectedIsStopped
  BY DEF SessionInit, ClientInit, DisconnectedIsStopped
<1>2. TypeInv /\ TypeInv' /\ DisconnectedIsStopped /\ [Next]_vars
        => DisconnectedIsStopped'
  <2>1. SUFFICES ASSUME TypeInv, TypeInv', DisconnectedIsStopped, [Next]_vars
                 PROVE  DisconnectedIsStopped'
    OBVIOUS
  <2>2. CASE UNCHANGED vars
    BY <2>1, <2>2 DEF vars, client, DisconnectedIsStopped
  <2>3. CASE ClientStep
    <3>1. CASE ReadToQueue
      BY <2>1, <3>1 DEF ReadToQueue, DisconnectedIsStopped
    <3>2. QED
      BY <2>1, <2>3, <3>1, EnteredStopped, LibraryStopped DEF ClientStep
  <2>4. CASE Helping \/ Killed
    BY <2>1, <2>4 DEF Helping, Killed, client, DisconnectedIsStopped
  <2>5. QED BY <2>1, <2>2, <2>3, <2>4 DEF Next
<1>3. QED BY <1>1, <1>2, SessionTypeCorrect, PTL DEF Spec

-----------------------------------------------------------------------------
(* A call gets its own answer.                                              *)

\* Calls that are waited for to their end, one at a time: no time-out but
\* that of waitForNotifications, no call from inside a delegate, and none of
\* the calls that leave an answer behind.
Plain ==
  /\ Calls \subseteq
       {"connect", "disconnect", "getState", "discoverServices", "getCharacteristics",
        "getDescriptors", "readCharacteristic", "writeCharacteristic",
        "writeWithResponse", "waitForNotifications", "getLocalOOB"}
  /\ Timed \subseteq {"waitForNotifications"}
  /\ ~Reentrant

\* the lines the library has not looked at
Pending == lineq \o stdout

\* a command with an answer of its own, and such an answer
Asks(c) == c.verb \in GattVerbs \cup {"wr", "local_oob"}
Answers(l) ==
  \/ l.rsp \in {"find", "desc", "rd", "wr", "oob", "mgmt"}
  \/ l.rsp = "err" /\ l.tag # "connfail"
Asking ==
  {"discoverServices", "getCharacteristics", "getDescriptors", "readCharacteristic",
   "writeCharacteristic", "writeWithResponse", "getLocalOOB"}

InCall(call) == stack # <<>> /\ Top.call = call

\* a call may still take a line of the helper at hand
Alive ==
  /\ helper_up
  /\ proc = "running" \/ (stack # <<>> /\ Top.pc = "get")
  /\ ~(stack # <<>> /\ Top.pc \in {"stop", "wait"})

\* what is asked is asked by the call in progress
Mine == IF stack # <<>> /\ Top.call \in Asking THEN {Top.id} ELSE {}
OnlyMine ==
  /\ \A i \in DOMAIN stdin : Asks(stdin[i]) => stdin[i].id \in Mine
  /\ \A b \in Chan : \A i \in DOMAIN ops[b] : ops[b][i].id \in Mine
  /\ \A i \in DOMAIN mgmt_q : mgmt_q[i].id \in Mine
  /\ \A i \in DOMAIN Pending : Answers(Pending[i]) => Pending[i].re \in Mine

\* and is in one place: a command, a request to the peripheral or to the
\* kernel, or an answer
NoneAsked == \A i \in DOMAIN stdin : ~Asks(stdin[i])
NoneOpen == \A b \in Chan : ops[b] = <<>>
NoneQueued == mgmt_q = <<>>
NoneTold == \A i \in DOMAIN Pending : ~Answers(Pending[i])
OnePlace ==
  \/ NoneOpen /\ NoneQueued /\ NoneTold
  \/ NoneAsked /\ NoneQueued /\ NoneTold
  \/ NoneAsked /\ NoneOpen /\ NoneTold
  \/ NoneAsked /\ NoneOpen /\ NoneQueued
Single ==
  /\ \A i, j \in DOMAIN stdin : Asks(stdin[i]) /\ Asks(stdin[j]) => i = j
  /\ \A i, j \in DOMAIN Pending : Answers(Pending[i]) /\ Answers(Pending[j]) => i = j
  /\ \A b \in Chan : Len(ops[b]) <= 1
  /\ \A b, c \in Chan : ops[b] # <<>> /\ ops[c] # <<>> => b = c
  /\ Len(mgmt_q) <= 1
InHand == OnlyMine /\ OnePlace /\ Single

Readable ==
  \A i \in DOMAIN stdin :
    /\ Asks(stdin[i]) \/ stdin[i].verb \in {"conn", "disc", "stat"}
    /\ stdin[i].verb = "conn" => stdin[i].dst \in Addr

\* how far an attempt to connect is
ConnLine(l) == l.rsp = "stat" /\ l.tag = "conn"
DiscLine(l) == l.rsp = "stat" /\ l.tag = "disc"
FailLine(l) == l.rsp = "err" /\ l.tag = "connfail"
NoConn == \A i \in DOMAIN stdin : stdin[i].verb # "conn"
NoConnecting == \A c \in Chan : link[c] # "connecting"
NoConnLine == \A i \in DOMAIN Pending : ~ConnLine(Pending[i])
NoFail == \A i \in DOMAIN Pending : ~FailLine(Pending[i])
Announced ==
  \A i \in DOMAIN Pending : FailLine(Pending[i]) =>
    \E j \in DOMAIN Pending : j < i /\ DiscLine(Pending[j])
OneConn ==
  \A i, j \in DOMAIN stdin : stdin[i].verb = "conn" /\ stdin[j].verb = "conn" => i = j
OneConnecting ==
  \A c, d \in Chan : link[c] = "connecting" /\ link[d] = "connecting" => c = d
NoAttempt == NoConn /\ NoConnecting /\ NoFail
NotYet == NoConnLine /\ conn_state # "conn"
Attempt ==
  \/ OneConn /\ NoConnecting /\ NoFail /\ NotYet
  \/ NoConn /\ OneConnecting /\ NoFail /\ NotYet
  \/ NoAttempt
  \/ NoConn /\ NoConnecting /\ Announced /\ NotYet
RightOne ==
  /\ \A i \in DOMAIN stdin : stdin[i].verb = "conn" => stdin[i].dst = Top.dst
  /\ \A i \in DOMAIN Pending : ConnLine(Pending[i]) => Pending[i].dst = Top.dst
  /\ conn_state = "conn" \/ ~NoConnecting => opt_dst = Top.dst
Stage ==
  IF InCall("connect") THEN Attempt /\ RightOne
  ELSE NoAttempt /\ (~last.linked => NotYet)

Held == InHand /\ Readable /\ Stage

-----------------------------------------------------------------------------

LEMMA Appended ==
  ASSUME NEW p \in Seq(Line), NEW q \in Seq(Line)
  PROVE  /\ p \o q \in Seq(Line)
         /\ \A i \in DOMAIN p : i \in DOMAIN (p \o q) /\ (p \o q)[i] = p[i]
         /\ \A j \in DOMAIN q : /\ Len(p) + j \in DOMAIN (p \o q)
                                /\ (p \o q)[Len(p) + j] = q[j]
         /\ \A i \in DOMAIN (p \o q) :
              i \in DOMAIN p \/ (i - Len(p) \in DOMAIN q /\ (p \o q)[i] = q[i - Len(p)])
OBVIOUS

LEMMA Tailed ==
  ASSUME NEW S, NEW s \in Seq(S), s # <<>>
  PROVE  /\ Tail(s) \in Seq(S) /\ 1 \in DOMAIN s /\ Head(s) = s[1]
         /\ \A i \in DOMAIN Tail(s) : i + 1 \in DOMAIN s /\ Tail(s)[i] = s[i + 1] /\ i \in Nat
         /\ \A i \in DOMAIN s : i \in Nat /\ (i = 1 \/ i - 1 \in DOMAIN Tail(s))
OBVIOUS

LEMMA OnlyOne ==
  ASSUME NEW S, NEW s \in Seq(S), s # <<>>, Len(s) <= 1
  PROVE  /\ Len(s) = 1 /\ Head(s) = s[1] /\ s[1] \in S /\ 1 \in DOMAIN s
         /\ Tail(s) = <<>>
<1>1. Len(s) \in Nat \ {0}
  BY EmptySeq
<1>2. Len(s) = 1
  BY <1>1
<1>3. Head(s) = s[1] /\ s[1] \in S /\ 1 \in DOMAIN s
  BY <1>2
<1>4. Tail(s) \in Seq(S) /\ Len(Tail(s)) = 0
  BY <1>2, HeadTailProperties
<1>5. Tail(s) = <<>>
  BY <1>4, EmptySeq
<1>6. QED BY <1>2, <1>3, <1>5

LEMMA PendingType ==
  ASSUME TypeInv
  PROVE  Pending \in Seq(Line) /\ DOMAIN Pending = 1 .. Len(Pending) /\ Len(Pending) \in Nat
<1>1. lineq \in Seq(Line) /\ stdout \in Seq(Line)
  BY DEF TypeInv, SessionTypeOK, TypeOK, WireTypeOK
<1>2. Pending \in Seq(Line)
  BY <1>1 DEF Pending
<1>3. QED BY <1>2

\* the helper prints behind what is pending
LEMMA PendingGrows ==
  ASSUME TypeInv, UNCHANGED lineq, NEW lines \in Seq(Line), Say(lines)
  PROVE  Pending' = Pending \o lines
<1>1. lineq \in Seq(Line) /\ stdout \in Seq(Line)
  BY DEF TypeInv, SessionTypeOK, TypeOK, WireTypeOK
<1>2. lineq \o (stdout \o lines) = (lineq \o stdout) \o lines
  BY <1>1, ConcatAssociative
<1>3. QED BY <1>2 DEF Pending, Say

LEMMA NothingSaid ==
  ASSUME TypeInv, UNCHANGED stdout
  PROVE  Say(<<>>) /\ <<>> \in Seq(Line)
<1>1. stdout \in Seq(Line)
  BY DEF TypeInv, SessionTypeOK, TypeOK, WireTypeOK
<1>2. QED BY <1>1 DEF Say

\* the command at the head was read, or none was
Reads == stdin' = stdin \/ (stdin # <<>> /\ stdin' = Tail(stdin))

LEMMA CommandsLeft ==
  ASSUME TypeInv, Reads
  PROVE  /\ \A i \in DOMAIN stdin' : \E j \in DOMAIN stdin : stdin'[i] = stdin[j]
         /\ \A i, k \in DOMAIN stdin' : \E j, l \in DOMAIN stdin :
              stdin'[i] = stdin[j] /\ stdin'[k] = stdin[l] /\ (j = l => i = k)
<1>1. stdin \in Seq(Command)
  BY DEF TypeInv, SessionTypeOK, TypeOK, WireTypeOK
<1>2. CASE stdin' = stdin
  BY <1>2
<1>3. CASE stdin # <<>> /\ stdin' = Tail(stdin)
  <2>1. ASSUME NEW i \in DOMAIN stdin', NEW k \in DOMAIN stdin'
        PROVE  /\ i + 1 \in DOMAIN stdin /\ k + 1 \in DOMAIN stdin
               /\ stdin'[i] = stdin[i + 1] /\ stdin'[k] = stdin[k + 1]
               /\ i + 1 = k + 1 => i = k
    <3>1. i \in Nat /\ k \in Nat
      BY <1>1, <1>3, <2>1, Tailed
    <3>2. /\ i + 1 \in DOMAIN stdin /\ k + 1 \in DOMAIN stdin
          /\ stdin'[i] = stdin[i + 1] /\ stdin'[k] = stdin[k + 1]
      BY <1>1, <1>3, <2>1, Tailed
    <3>3. QED BY <3>1, <3>2
  <2>2. QED BY <2>1
<1>4. QED BY <1>2, <1>3 DEF Reads

\* a step that neither moves nor answers what is in hand
TokenQuiet(lines) ==
  /\ \A i \in DOMAIN lines : ~Answers(lines[i])
  /\ \A b \in Chan :
       \/ ops'[b] = ops[b] \/ ops'[b] = <<>>
       \/ /\ ops[b] # <<>> /\ Len(ops'[b]) = 1
          /\ \A i \in DOMAIN ops'[b] : ops'[b][i].id = ops[b][1].id
  /\ mgmt_q' = mgmt_q \/ mgmt_q' = <<>>

LEMMA QuietInHand ==
  ASSUME TypeInv, InHand, UNCHANGED <<stack, lineq>>, Reads,
         NEW lines \in Seq(Line), Say(lines), TokenQuiet(lines)
  PROVE  InHand'
<1>1. Pending \in Seq(Line) /\ Pending' = Pending \o lines
  BY PendingType, PendingGrows
<1>2. ASSUME NEW i \in DOMAIN Pending', Answers(Pending'[i])
      PROVE  i \in DOMAIN Pending /\ Pending'[i] = Pending[i]
  <2>1. i \in DOMAIN Pending
        \/ (i - Len(Pending) \in DOMAIN lines /\ Pending'[i] = lines[i - Len(Pending)])
    BY <1>1, <1>2, Appended
  <2>2. i \in DOMAIN Pending
    BY <1>2, <2>1 DEF TokenQuiet
  <2>3. QED BY <1>1, <2>2, Appended
<1>3. Mine' = Mine
  BY DEF Mine, Top
<1>4. ASSUME NEW b \in Chan
      PROVE  /\ ops[b] = <<>> => ops'[b] = <<>>
             /\ Len(ops'[b]) <= 1
             /\ \A i \in DOMAIN ops'[b] : ops'[b][i].id \in Mine
  <2>1. ops[b] \in Seq(Op) /\ Len(ops[b]) <= 1
    BY <1>4 DEF TypeInv, SessionTypeOK, TypeOK, HelperTypeOK, InHand, Single
  <2>2. \A i \in DOMAIN ops[b] : ops[b][i].id \in Mine
    BY <1>4 DEF InHand, OnlyMine
  <2>3. CASE ops'[b] = ops[b]
    BY <2>1, <2>2, <2>3
  <2>4. CASE ops'[b] = <<>>
    <3>1. Len(<<>>) = 0 /\ DOMAIN <<>> = {}
      OBVIOUS
    <3>2. Len(ops'[b]) = 0 /\ DOMAIN ops'[b] = {}
      BY <2>4, <3>1, Zenon
    <3>3. QED BY <2>4, <3>2
  <2>5. CASE /\ ops[b] # <<>> /\ Len(ops'[b]) = 1
             /\ \A i \in DOMAIN ops'[b] : ops'[b][i].id = ops[b][1].id
    <3>1. 1 \in DOMAIN ops[b]
      BY <2>1, <2>5, Tailed
    <3>2. QED BY <2>2, <2>5, <3>1
  <2>6. QED BY <1>4, <2>3, <2>4, <2>5 DEF TokenQuiet
<1>5. Len(mgmt_q') <= 1 /\ (mgmt_q = <<>> => mgmt_q' = <<>>)
      /\ \A i \in DOMAIN mgmt_q' : mgmt_q'[i].id \in Mine
  <2>1. CASE mgmt_q' = mgmt_q
    BY <2>1 DEF InHand, Single, OnlyMine
  <2>2. CASE mgmt_q' = <<>>
    <3>1. Len(<<>>) = 0 /\ DOMAIN <<>> = {}
      OBVIOUS
    <3>2. Len(mgmt_q') = 0 /\ DOMAIN mgmt_q' = {}
      BY <2>2, <3>1, Zenon
    <3>3. QED BY <2>2, <3>2
  <2>3. QED BY <2>1, <2>2 DEF TokenQuiet
<1>6. OnlyMine'
  <2>1. \A i \in DOMAIN stdin' : Asks(stdin'[i]) => stdin'[i].id \in Mine
    BY CommandsLeft DEF InHand, OnlyMine
  <2>2. \A i \in DOMAIN Pending' : Answers(Pending'[i]) => Pending'[i].re \in Mine
    BY <1>2 DEF InHand, OnlyMine
  <2>3. QED BY <1>3, <1>4, <1>5, <2>1, <2>2 DEF OnlyMine
<1>7. OnePlace'
  <2>1. NoneAsked => NoneAsked'
    BY CommandsLeft DEF NoneAsked
  <2>2. NoneOpen => NoneOpen'
    BY <1>4 DEF NoneOpen
  <2>3. NoneQueued => NoneQueued'
    BY <1>5 DEF NoneQueued
  <2>4. NoneTold => NoneTold'
    BY <1>2 DEF NoneTold
  <2>5. QED BY <2>1, <2>2, <2>3, <2>4 DEF InHand, OnePlace
<1>8. Single'
  <2>1. \A i, k \in DOMAIN stdin' : Asks(stdin'[i]) /\ Asks(stdin'[k]) => i = k
    <3>1. SUFFICES ASSUME NEW i \in DOMAIN stdin', NEW k \in DOMAIN stdin',
                          Asks(stdin'[i]), Asks(stdin'[k])
                   PROVE  i = k
      OBVIOUS
    <3>2. PICK j, l \in DOMAIN stdin :
            stdin'[i] = stdin[j] /\ stdin'[k] = stdin[l] /\ (j = l => i = k)
      BY CommandsLeft
    <3>3. QED BY <3>1, <3>2 DEF InHand, Single
  <2>2. \A i, j \in DOMAIN Pending' : Answers(Pending'[i]) /\ Answers(Pending'[j]) => i = j
    BY <1>2 DEF InHand, Single
  <2>3. \A b, c \in Chan : ops'[b] # <<>> /\ ops'[c] # <<>> => b = c
    BY <1>4 DEF InHand, Single
  <2>4. QED BY <1>4, <1>5, <2>1, <2>2, <2>3 DEF Single
<1>9. QED BY <1>6, <1>7, <1>8 DEF InHand

LEMMA ReadableKept ==
  ASSUME TypeInv, Readable, Reads
  PROVE  Readable'
BY CommandsLeft DEF Readable

\* where what is in hand is, if it is open, queued or at the head of stdin
LEMMA InHandOpen ==
  ASSUME TypeInv, InHand, NEW b \in Chan, ops[b] # <<>>
  PROVE  /\ NoneAsked /\ NoneQueued /\ NoneTold
         /\ \A c \in Chan : c # b => ops[c] = <<>>
         /\ Len(ops[b]) = 1 /\ Head(ops[b]) = ops[b][1] /\ ops[b][1] \in Op
         /\ Tail(ops[b]) = <<>> /\ ops[b][1].id \in Mine
<1>1. ops[b] \in Seq(Op) /\ Len(ops[b]) <= 1
  BY DEF TypeInv, SessionTypeOK, TypeOK, HelperTypeOK, InHand, Single
<1>2. Len(ops[b]) = 1 /\ Head(ops[b]) = ops[b][1] /\ ops[b][1] \in Op /\ 1 \in DOMAIN ops[b]
  BY <1>1, OnlyOne
<1>3. Tail(ops[b]) = <<>>
  BY <1>1, OnlyOne
<1>4. NoneAsked /\ NoneQueued /\ NoneTold
  BY DEF InHand, OnePlace, NoneOpen
<1>5. QED BY <1>2, <1>3, <1>4 DEF InHand, Single, OnlyMine

LEMMA InHandQueued ==
  ASSUME TypeInv, InHand, mgmt_q # <<>>
  PROVE  /\ NoneAsked /\ NoneOpen /\ NoneTold
         /\ Head(mgmt_q) \in MgmtOp /\ Head(mgmt_q).id \in Mine /\ Tail(mgmt_q) = <<>>
<1>1. mgmt_q \in Seq(MgmtOp) /\ Len(mgmt_q) <= 1
  BY DEF TypeInv, SessionTypeOK, TypeOK, HelperTypeOK, InHand, Single
<1>2. Head(mgmt_q) = mgmt_q[1] /\ mgmt_q[1] \in MgmtOp /\ 1 \in DOMAIN mgmt_q
  BY <1>1, OnlyOne
<1>3. Tail(mgmt_q) = <<>>
  BY <1>1, OnlyOne
<1>4. NoneAsked /\ NoneOpen /\ NoneTold
  BY DEF InHand, OnePlace, NoneQueued
<1>5. QED BY <1>2, <1>3, <1>4 DEF InHand, OnlyMine

LEMMA InHandAsked ==
  ASSUME TypeInv, InHand, stdin # <<>>, Asks(Head(stdin)), stdin' = Tail(stdin)
  PROVE  /\ NoneOpen /\ NoneQueued /\ NoneTold
         /\ Head(stdin).id \in Mine /\ NoneAsked'
<1>1. stdin \in Seq(Command)
  BY DEF TypeInv, SessionTypeOK, TypeOK, WireTypeOK
<1>2. 1 \in DOMAIN stdin /\ Head(stdin) = stdin[1]
  BY <1>1, Tailed
<1>3. NoneOpen /\ NoneQueued /\ NoneTold
  BY <1>2 DEF InHand, OnePlace, NoneAsked
<1>4. ASSUME NEW i \in DOMAIN stdin' PROVE ~Asks(stdin'[i])
  <2>1. i \in Nat /\ i + 1 \in DOMAIN stdin /\ stdin'[i] = stdin[i + 1]
    BY <1>1, <1>4, Tailed
  <2>2. i \in DOMAIN Tail(stdin)
    BY <1>4
  <2>3. i >= 1
    BY <1>1, <2>2
  <2>4. i + 1 # 1
    BY <2>1, <2>3
  <2>5. QED BY <1>2, <2>1, <2>4 DEF InHand, Single
<1>5. QED BY <1>2, <1>3, <1>4 DEF InHand, OnlyMine, NoneAsked

\* the answer is printed, and nothing else is in hand
LEMMA ToldInHand ==
  ASSUME TypeInv, UNCHANGED <<stack, lineq>>, NEW l \in Line, Say(<<l>>),
         l.re \in Mine, NoneTold, NoneAsked', NoneOpen', NoneQueued'
  PROVE  InHand'
<1>1. Pending \in Seq(Line) /\ Pending' = Pending \o <<l>> /\ <<l>> \in Seq(Line)
  <2>1. <<l>> \in Seq(Line)
    OBVIOUS
  <2>2. QED BY <2>1, PendingType, PendingGrows
<1>2. ASSUME NEW i \in DOMAIN Pending', Answers(Pending'[i])
      PROVE  i = Len(Pending) + 1 /\ Pending'[i] = l
  <2>1. i \in DOMAIN Pending
        \/ (i - Len(Pending) \in DOMAIN <<l>> /\ Pending'[i] = <<l>>[i - Len(Pending)])
    BY <1>1, <1>2, Appended
  <2>2. i \notin DOMAIN Pending
    BY <1>1, <1>2, Appended DEF NoneTold
  <2>3. i - Len(Pending) = 1 /\ i \in Nat /\ Len(Pending) \in Nat
    BY <1>1, <1>2, <2>1, <2>2, PendingType
  <2>4. QED BY <2>1, <2>2, <2>3
<1>3. Mine' = Mine
  BY DEF Mine, Top
<1>4. Len(<<>>) = 0 /\ DOMAIN <<>> = {}
  OBVIOUS
<1>5. Len(mgmt_q') = 0 /\ DOMAIN mgmt_q' = {}
  BY <1>4, Zenon DEF NoneQueued
<1>6. \A b \in Chan : Len(ops'[b]) = 0 /\ DOMAIN ops'[b] = {} /\ ops'[b] = <<>>
  BY <1>4, Zenon DEF NoneOpen
<1>7. OnlyMine'
  BY <1>2, <1>3, <1>5, <1>6 DEF OnlyMine, NoneAsked
<1>8. OnePlace'
  BY DEF OnePlace
<1>9. Single'
  BY <1>2, <1>5, <1>6 DEF Single, NoneAsked
<1>10. QED BY <1>7, <1>8, <1>9 DEF InHand

\* the command becomes a request to the peripheral, one to the kernel, or nothing
LEMMA SentInHand ==
  ASSUME TypeInv, UNCHANGED <<stack, lineq, stdout>>, NEW id \in Mine,
         NoneOpen, NoneQueued, NoneTold, NoneAsked',
         \/ /\ UNCHANGED mgmt_q
            /\ \A b \in Chan :
                 \/ ops'[b] = <<>>
                 \/ b = attrib /\ Len(ops'[b]) = 1
                    /\ \A i \in DOMAIN ops'[b] : ops'[b][i].id = id
         \/ /\ UNCHANGED ops
            /\ Len(mgmt_q') = 1 /\ \A i \in DOMAIN mgmt_q' : mgmt_q'[i].id = id
  PROVE  InHand'
<1>1. Pending' = Pending /\ Mine' = Mine
  BY DEF Pending, Mine, Top
<1>2. NoneTold'
  BY <1>1 DEF NoneTold
<1>3. Len(<<>>) = 0 /\ DOMAIN <<>> = {}
  OBVIOUS
<1>4. CASE /\ UNCHANGED mgmt_q
           /\ \A b \in Chan :
                \/ ops'[b] = <<>>
                \/ b = attrib /\ Len(ops'[b]) = 1
                   /\ \A i \in DOMAIN ops'[b] : ops'[b][i].id = id
  <2>1. Len(mgmt_q') = 0 /\ DOMAIN mgmt_q' = {} /\ mgmt_q' = <<>>
    BY <1>3, <1>4, Zenon DEF NoneQueued
  <2>2. \A b \in Chan :
                \/ ops'[b] = <<>>
                \/ b = attrib /\ Len(ops'[b]) = 1
                   /\ \A i \in DOMAIN ops'[b] : ops'[b][i].id = id
    BY <1>4
  <2>3. \A b \in Chan : ops'[b] = <<>> => Len(ops'[b]) = 0 /\ DOMAIN ops'[b] = {}
    BY <1>3, Zenon
  <2>4. ASSUME NEW b \in Chan
        PROVE  Len(ops'[b]) <= 1 /\ \A i \in DOMAIN ops'[b] : ops'[b][i].id \in Mine
    <3>1. CASE Len(ops'[b]) = 0 /\ DOMAIN ops'[b] = {}
      BY <3>1
    <3>2. CASE Len(ops'[b]) = 1 /\ \A i \in DOMAIN ops'[b] : ops'[b][i].id = id
      BY <3>2
    <3>3. QED BY <2>2, <2>3, <2>4, <3>1, <3>2
  <2>5. \A b, c \in Chan : ops'[b] # <<>> /\ ops'[c] # <<>> => b = c
    BY <2>2
  <2>6. OnlyMine'
    BY <1>1, <1>2, <2>1, <2>4 DEF OnlyMine, NoneAsked, NoneTold
  <2>7. Single'
    BY <1>2, <2>1, <2>4, <2>5 DEF Single, NoneAsked, NoneTold
  <2>8. OnePlace'
    BY <1>2, <2>1 DEF OnePlace, NoneQueued
  <2>9. QED BY <2>6, <2>7, <2>8 DEF InHand
<1>5. CASE /\ UNCHANGED ops
           /\ Len(mgmt_q') = 1 /\ \A i \in DOMAIN mgmt_q' : mgmt_q'[i].id = id
  <2>1. \A b \in Chan : ops'[b] = <<>> /\ Len(ops'[b]) = 0 /\ DOMAIN ops'[b] = {}
    BY <1>3, <1>5, Zenon DEF NoneOpen
  <2>2. OnlyMine'
    BY <1>1, <1>2, <1>5, <2>1 DEF OnlyMine, NoneAsked, NoneTold
  <2>3. Single'
    BY <1>2, <1>5, <2>1 DEF Single, NoneAsked, NoneTold
  <2>4. OnePlace'
    BY <1>2, <2>1 DEF OnePlace, NoneOpen
  <2>5. QED BY <2>2, <2>3, <2>4 DEF InHand
<1>6. QED BY <1>4, <1>5

-----------------------------------------------------------------------------
(* Attempts to connect.                                                     *)

\* a step that begins no attempt and ends none with a success or a failure
StageQuiet(lines) ==
  /\ \A i \in DOMAIN lines :
       /\ ~FailLine(lines[i])
       /\ ConnLine(lines[i]) => conn_state = "conn" /\ lines[i].dst = opt_dst
  /\ conn_state' = "conn" => conn_state = "conn"
  /\ \A c \in Chan : link'[c] = "connecting" => link[c] = "connecting"
  /\ \/ opt_dst' = opt_dst
     \/ conn_state' # "conn" /\ \A c \in Chan : link'[c] # "connecting"

LEMMA QuietStage ==
  ASSUME TypeInv, Stage, UNCHANGED <<stack, last, lineq>>, Reads,
         NEW lines \in Seq(Line), Say(lines), StageQuiet(lines)
  PROVE  Stage'
<1>1. Pending \in Seq(Line) /\ Pending' = Pending \o lines
  BY PendingType, PendingGrows
<1>2. /\ \A i \in DOMAIN Pending : i \in DOMAIN Pending' /\ Pending'[i] = Pending[i]
      /\ \A i \in DOMAIN Pending' :
           \/ i \in DOMAIN Pending /\ Pending'[i] = Pending[i]
           \/ i - Len(Pending) \in DOMAIN lines /\ Pending'[i] = lines[i - Len(Pending)]
  BY <1>1, Appended
<1>3. \A i \in DOMAIN Pending' : FailLine(Pending'[i]) => i \in DOMAIN Pending /\ FailLine(Pending[i])
  BY <1>2 DEF StageQuiet
<1>4. \A i \in DOMAIN Pending' : ConnLine(Pending'[i]) =>
        \/ i \in DOMAIN Pending /\ Pending'[i] = Pending[i] /\ ConnLine(Pending[i])
        \/ conn_state = "conn" /\ Pending'[i].dst = opt_dst
  BY <1>2 DEF StageQuiet
<1>5. NoFail => NoFail'
  BY <1>3 DEF NoFail
<1>6. NotYet => NotYet'
  BY <1>4 DEF NotYet, NoConnLine, StageQuiet
<1>7. Announced => Announced'
  <2>1. SUFFICES ASSUME Announced, NEW i \in DOMAIN Pending', FailLine(Pending'[i])
                 PROVE  \E j \in DOMAIN Pending' : j < i /\ DiscLine(Pending'[j])
    BY DEF Announced
  <2>2. i \in DOMAIN Pending /\ FailLine(Pending[i])
    BY <1>3, <2>1
  <2>3. PICK j \in DOMAIN Pending : j < i /\ DiscLine(Pending[j])
    BY <2>1, <2>2 DEF Announced
  <2>4. j \in DOMAIN Pending' /\ Pending'[j] = Pending[j]
    BY <1>2, <2>3
  <2>5. QED BY <2>3, <2>4
<1>8. NoConnecting => NoConnecting'
  BY DEF NoConnecting, StageQuiet
<1>9. OneConnecting => OneConnecting'
  BY DEF OneConnecting, StageQuiet
<1>10. NoConn => NoConn'
  BY CommandsLeft DEF NoConn
<1>11. OneConn => OneConn'
  <2>1. SUFFICES ASSUME OneConn, NEW i \in DOMAIN stdin', NEW k \in DOMAIN stdin',
                        stdin'[i].verb = "conn", stdin'[k].verb = "conn"
                 PROVE  i = k
    BY DEF OneConn
  <2>2. PICK j, l \in DOMAIN stdin :
          stdin'[i] = stdin[j] /\ stdin'[k] = stdin[l] /\ (j = l => i = k)
    BY CommandsLeft
  <2>3. QED BY <2>1, <2>2 DEF OneConn
<1>12. Attempt => Attempt'
  BY <1>5, <1>6, <1>7, <1>8, <1>9, <1>10, <1>11 DEF Attempt, NoAttempt
<1>13. RightOne => RightOne'
  <2>1. Top' = Top
    BY DEF Top
  <2>3. RightOne => \A i \in DOMAIN Pending' : ConnLine(Pending'[i]) => Pending'[i].dst = Top.dst
    BY <1>4 DEF RightOne
  <2>4. RightOne => (conn_state' = "conn" \/ ~NoConnecting' => opt_dst' = Top.dst)
    BY <1>8 DEF RightOne, StageQuiet, NoConnecting
  <2>5. RightOne => \A i \in DOMAIN stdin' : stdin'[i].verb = "conn" => stdin'[i].dst = Top.dst
    BY CommandsLeft DEF RightOne
  <2>6. QED BY <2>1, <2>3, <2>4, <2>5 DEF RightOne
<1>14. InCall("connect")' <=> InCall("connect")
  BY DEF InCall, Top
<1>15. NoAttempt => NoAttempt'
  BY <1>5, <1>8, <1>10 DEF NoAttempt
<1>16. QED BY <1>6, <1>12, <1>13, <1>14, <1>15 DEF Stage

-----------------------------------------------------------------------------
(* The helper's steps.                                                      *)

HelperCtx == TypeInv /\ Held /\ UNCHANGED client

\* lines that answer nothing and tell of no connection but the present one
LinesQuiet(lines) ==
  \A i \in DOMAIN lines :
    /\ ~Answers(lines[i]) /\ ~FailLine(lines[i])
    /\ ConnLine(lines[i]) => conn_state = "conn" /\ lines[i].dst = opt_dst
OpsQuiet ==
  /\ \A b \in Chan :
       \/ ops'[b] = ops[b] \/ ops'[b] = <<>>
       \/ /\ ops[b] # <<>> /\ Len(ops'[b]) = 1
          /\ \A i \in DOMAIN ops'[b] : ops'[b][i].id = ops[b][1].id
  /\ mgmt_q' = mgmt_q \/ mgmt_q' = <<>>
ConnQuiet ==
  /\ conn_state' = "conn" => conn_state = "conn"
  /\ \A c \in Chan : link'[c] = "connecting" => link[c] = "connecting"
  /\ \/ opt_dst' = opt_dst
     \/ conn_state' # "conn" /\ \A c \in Chan : link'[c] # "connecting"

LEMMA QuietStep ==
  ASSUME HelperCtx, Reads, NEW lines \in Seq(Line), Say(lines),
         LinesQuiet(lines), OpsQuiet, ConnQuiet
  PROVE  InHand' /\ Stage'
<1>1. /\ TypeInv /\ InHand /\ Stage /\ UNCHANGED <<stack, last, lineq>>
  BY DEF HelperCtx, Held, client
<1>2. TokenQuiet(lines)
  BY DEF LinesQuiet, OpsQuiet, TokenQuiet
<1>3. StageQuiet(lines)
  BY DEF LinesQuiet, ConnQuiet, StageQuiet
<1>4. QED BY <1>1, <1>2, <1>3, QuietInHand, QuietStage

LEMMA QuietLine ==
  ASSUME HelperCtx, Reads, NEW l \in Line, Say(<<l>>), ~Answers(l), ~FailLine(l),
         ConnLine(l) => conn_state = "conn" /\ l.dst = opt_dst, OpsQuiet, ConnQuiet
  PROVE  InHand' /\ Stage'
<1>1. <<l>> \in Seq(Line) /\ \A i \in DOMAIN <<l>> : <<l>>[i] = l
  OBVIOUS
<1>2. LinesQuiet(<<l>>)
  BY <1>1 DEF LinesQuiet
<1>3. QED BY <1>1, <1>2, QuietStep

LEMMA QuietSilent ==
  ASSUME HelperCtx, Reads, UNCHANGED stdout, OpsQuiet, ConnQuiet
  PROVE  InHand' /\ Stage'
<1>1. Say(<<>>) /\ <<>> \in Seq(Line) /\ DOMAIN <<>> = {}
  BY NothingSaid DEF HelperCtx
<1>2. LinesQuiet(<<>>)
  BY <1>1 DEF LinesQuiet
<1>3. QED BY <1>1, <1>2, QuietStep

\* the answer, once what was in hand is gone
LEMMA AnswerStep ==
  ASSUME HelperCtx, Reads, NEW l \in Line, Say(<<l>>), Answers(l), l.re \in Mine,
         NoneTold, NoneAsked', NoneOpen', NoneQueued', ConnQuiet
  PROVE  InHand' /\ Stage'
<1>1. /\ TypeInv /\ InHand /\ Stage /\ UNCHANGED <<stack, last, lineq>>
  BY DEF HelperCtx, Held, client
<1>2. <<l>> \in Seq(Line) /\ \A i \in DOMAIN <<l>> : <<l>>[i] = l
  OBVIOUS
<1>3. ~FailLine(l) /\ ~ConnLine(l)
  BY DEF Answers, FailLine, ConnLine
<1>4. StageQuiet(<<l>>)
  BY <1>2, <1>3 DEF ConnQuiet, StageQuiet
<1>5. QED BY <1>1, <1>2, <1>4, ToldInHand, QuietStage

LEMMA StatQuiet ==
  ASSUME NEW state, NEW dst, NEW m, NEW re
  PROVE  /\ ~Answers(Stat(state, dst, m, re)) /\ ~FailLine(Stat(state, dst, m, re))
         /\ ConnLine(Stat(state, dst, m, re)) => state = "conn" /\ Stat(state, dst, m, re).dst = dst
         /\ DiscLine(Stat(state, dst, m, re)) <=> state = "disc"
         /\ ConnLine(Stat(state, dst, m, re)) <=> state = "conn"
BY DEF Stat, Answers, FailLine, ConnLine, DiscLine

LEMMA ErrAnswers ==
  ASSUME NEW code \in ErrCode, code # "connfail", NEW re
  PROVE  Answers(Err(code, re)) /\ Err(code, re).re = re
BY DEF Err, Answers, ErrCode

LEMMA MgmtAnswers ==
  ASSUME NEW code, NEW re
  PROVE  Answers(Mgmt(code, re)) /\ Mgmt(code, re).re = re
BY DEF Mgmt, Answers

LEMMA DataAnswers ==
  ASSUME NEW rsp \in {"find", "desc", "rd", "wr", "oob"}, NEW dst, NEW re
  PROVE  Answers(Data(rsp, dst, re)) /\ Data(rsp, dst, re).re = re
BY DEF Data, Answers

\* nothing but stdin and the lines changed
LEMMA SameQuiet ==
  ASSUME UNCHANGED <<conn_state, opt_dst, link>>
  PROVE  ConnQuiet
BY DEF ConnQuiet

LEMMA DisconnectIoHeld ==
  ASSUME HelperCtx, Reads, NEW re \in Nat, DisconnectIo(re), UNCHANGED mgmt_q
  PROVE  InHand' /\ Stage'
<1>1. TypeInv /\ HelperTypeOK
  BY DEF HelperCtx, TypeInv, SessionTypeOK, TypeOK
<1>2. CASE conn_state = "disc"
  <2>1. UNCHANGED <<stdout, ops, conn_state, opt_dst, link>>
    BY <1>2 DEF DisconnectIo, conn, chans
  <2>2. OpsQuiet /\ ConnQuiet
    BY <2>1, SameQuiet DEF OpsQuiet
  <2>3. QED BY <2>1, <2>2, QuietSilent
<1>3. CASE conn_state # "disc"
  <2>1. /\ conn_state' = "disc" /\ opt_dst' = opt_dst
        /\ Say(<<Stat("disc", NoAddr, 0, re)>>)
        /\ link' = [c \in Chan |-> IF Shut(c) THEN "closed" ELSE link[c]]
        /\ IF attrib = 0 THEN UNCHANGED <<over, ops, orphan>> ELSE Unref(attrib)
    BY <1>3 DEF DisconnectIo
  <2>2. ConnQuiet
    BY <2>1 DEF ConnQuiet
  <2>3. \A b \in Chan : ops'[b] = ops[b] \/ ops'[b] = <<>>
    <3>1. ops' = ops \/ ops' = [ops EXCEPT ![attrib] = <<>>]
      BY <2>1 DEF Unref
    <3>2. ops \in [Chan -> Seq(Op)]
      BY <1>1 DEF HelperTypeOK
    <3>3. QED BY <3>1, <3>2
  <2>4. OpsQuiet
    BY <2>3 DEF OpsQuiet
  <2>5. Stat("disc", NoAddr, 0, re) \in Line
    BY StatType DEF ConnState
  <2>6. ~ConnLine(Stat("disc", NoAddr, 0, re))
    BY StatQuiet
  <2>7. QED BY <2>1, <2>2, <2>4, <2>5, <2>6, StatQuiet, QuietLine
<1>4. QED BY <1>2, <1>3

\* the state is reported as it is
LEMMA ReportHeld ==
  ASSUME HelperCtx, Reads, NEW m \in Nat, NEW re \in Nat,
         Say(<<Stat(conn_state, opt_dst, m, re)>>), OpsQuiet,
         UNCHANGED <<conn_state, opt_dst, link>>
  PROVE  InHand' /\ Stage'
<1>1. conn_state \in ConnState /\ opt_dst \in Addr \cup {NoAddr}
  BY DEF HelperCtx, TypeInv, SessionTypeOK, TypeOK, HelperTypeOK
<1>2. Stat(conn_state, opt_dst, m, re) \in Line
  BY <1>1, StatType
<1>3. QED BY <1>2, StatQuiet, SameQuiet, QuietLine

-----------------------------------------------------------------------------

CmdCtx ==
  /\ HelperCtx /\ stdin # <<>> /\ stdin' = Tail(stdin)
  /\ Head(stdin) \in Command

LEMMA CmdReads ==
  ASSUME CmdCtx
  PROVE  HelperCtx /\ Reads /\ TypeInv /\ InHand /\ Stage /\ Readable
BY DEF CmdCtx, Reads, HelperCtx, Held

LEMMA CmdStatusHeld ==
  ASSUME CmdCtx, CmdStatus(Head(stdin))
  PROVE  InHand' /\ Stage'
<1>1. Head(stdin).id \in Nat /\ opt_mtu \in Nat
  BY DEF CmdCtx, Command, HelperCtx, TypeInv, SessionTypeOK, TypeOK, HelperTypeOK
<1>2. UNCHANGED <<conn_state, opt_dst, link, ops, mgmt_q>>
  BY DEF CmdStatus, conn, chans, mgmt
<1>3. OpsQuiet
  BY <1>2 DEF OpsQuiet
<1>4. Say(<<Stat(conn_state, opt_dst, opt_mtu, Head(stdin).id)>>)
  BY DEF CmdStatus
<1>5. QED BY <1>1, <1>2, <1>3, <1>4, CmdReads, ReportHeld

LEMMA CmdDisconnectHeld ==
  ASSUME CmdCtx, CmdDisconnect(Head(stdin))
  PROVE  InHand' /\ Stage'
<1>1. Head(stdin).id \in Nat
  BY DEF CmdCtx, Command
<1>2. DisconnectIo(Head(stdin).id) /\ UNCHANGED mgmt_q
  BY DEF CmdDisconnect, mgmt
<1>3. QED BY <1>1, <1>2, CmdReads, DisconnectIoHeld

\* a command that asks, refused at once
LEMMA RefusedHeld ==
  ASSUME CmdCtx, Asks(Head(stdin)), NEW l \in Line, Answers(l), l.re = Head(stdin).id,
         Say(<<l>>), UNCHANGED <<conn_state, opt_dst, link, ops, mgmt_q>>
  PROVE  InHand' /\ Stage'
<1>1. /\ NoneOpen /\ NoneQueued /\ NoneTold
      /\ Head(stdin).id \in Mine /\ NoneAsked'
  BY CmdReads, InHandAsked DEF CmdCtx
<1>2. NoneOpen' /\ NoneQueued'
  BY <1>1 DEF NoneOpen, NoneQueued
<1>3. QED BY <1>1, <1>2, CmdReads, SameQuiet, AnswerStep

LEMMA CmdGattHeld ==
  ASSUME CmdCtx, CmdGatt(Head(stdin))
  PROVE  InHand' /\ Stage'
<1> DEFINE c == Head(stdin)
<1>1. Asks(c) /\ c.id \in Nat
  BY DEF CmdGatt, Asks, CmdCtx, Command
<1>2. UNCHANGED <<conn_state, opt_dst, link, mgmt_q>>
  BY DEF CmdGatt, conn, mgmt
<1>3. CASE UNCHANGED ops /\ (Say(<<Err("badstate", c.id)>>) \/ Say(<<Err("badparam", c.id)>>))
  <2>1. Err("badstate", c.id) \in Line /\ Err("badparam", c.id) \in Line
    BY <1>1, ErrType DEF ErrCode
  <2>2. /\ Answers(Err("badstate", c.id)) /\ Err("badstate", c.id).re = c.id
        /\ Answers(Err("badparam", c.id)) /\ Err("badparam", c.id).re = c.id
    BY ErrAnswers DEF ErrCode
  <2>3. QED BY <1>1, <1>2, <1>3, <2>1, <2>2, RefusedHeld
<1>4. CASE /\ UNCHANGED stdout
           /\ ops' = [b \in Chan |-> IF b = attrib THEN Append(ops[b], Req(c)) ELSE ops[b]]
  <2>1. /\ NoneOpen /\ NoneQueued /\ NoneTold /\ c.id \in Mine /\ NoneAsked'
        /\ TypeInv /\ Stage
    BY <1>1, CmdReads, InHandAsked DEF CmdCtx
  <2>2. \A b \in Chan : ops'[b] = <<>> \/ (b = attrib /\ ops'[b] = <<Req(c)>>)
    <3>1. Append(<<>>, Req(c)) = <<Req(c)>>
      OBVIOUS
    <3>2. ASSUME NEW b \in Chan
          PROVE  /\ ops[b] = <<>>
                 /\ ops'[b] = IF b = attrib THEN Append(ops[b], Req(c)) ELSE ops[b]
      BY <1>4, <2>1, <3>2 DEF NoneOpen
    <3>3. QED BY <3>1, <3>2, Zenon
  <2>3. Len(<<Req(c)>>) = 1 /\ \A i \in DOMAIN <<Req(c)>> : <<Req(c)>>[i] = Req(c)
    OBVIOUS
  <2>4. Req(c).id = c.id
    BY DEF Req
  <2>5. \A b \in Chan :
          \/ ops'[b] = <<>>
          \/ /\ b = attrib /\ Len(ops'[b]) = 1
             /\ \A i \in DOMAIN ops'[b] : ops'[b][i].id = c.id
    BY <2>2, <2>3, <2>4
  <2>6. UNCHANGED <<stack, last, lineq, stdout, mgmt_q>>
    BY <1>2, <1>4 DEF CmdCtx, HelperCtx, client
  <2>7. InHand'
    BY <2>1, <2>5, <2>6, SentInHand
  <2>8. Stage'
    <3>1. Say(<<>>) /\ <<>> \in Seq(Line) /\ DOMAIN <<>> = {}
      BY <1>4, <2>1, NothingSaid
    <3>2. StageQuiet(<<>>)
      BY <1>2, <3>1 DEF StageQuiet
    <3>3. QED BY <2>1, <2>6, <3>1, <3>2, CmdReads, QuietStage
  <2>9. QED BY <2>7, <2>8
<1>5. QED BY <1>3, <1>4 DEF CmdGatt

LEMMA CmdWriteHeld ==
  ASSUME CmdCtx, CmdWrite(Head(stdin))
  PROVE  InHand' /\ Stage'
<1> DEFINE c == Head(stdin)
<1>1. Asks(c) /\ c.id \in Nat /\ opt_dst \in Addr \cup {NoAddr}
  BY DEF CmdWrite, Asks, CmdCtx, Command, HelperCtx, TypeInv, SessionTypeOK, TypeOK,
         HelperTypeOK
<1>2. UNCHANGED <<conn_state, opt_dst, link, ops, mgmt_q>>
  BY DEF CmdWrite, conn, chans, mgmt
<1>3. /\ Err("badstate", c.id) \in Line /\ Err("badparam", c.id) \in Line
      /\ Data("wr", opt_dst, c.id) \in Line
  BY <1>1, ErrType, DataType DEF ErrCode, RspType
<1>4. /\ Answers(Err("badstate", c.id)) /\ Err("badstate", c.id).re = c.id
      /\ Answers(Err("badparam", c.id)) /\ Err("badparam", c.id).re = c.id
      /\ Answers(Data("wr", opt_dst, c.id)) /\ Data("wr", opt_dst, c.id).re = c.id
  BY ErrAnswers, DataAnswers DEF ErrCode
<1>5. \/ Say(<<Err("badstate", c.id)>>) \/ Say(<<Err("badparam", c.id)>>)
      \/ Say(<<Data("wr", opt_dst, c.id)>>)
  BY DEF CmdWrite
<1>6. QED BY <1>1, <1>2, <1>3, <1>4, <1>5, RefusedHeld

LEMMA CmdMgmtHeld ==
  ASSUME CmdCtx, CmdMgmt(Head(stdin)), Head(stdin).verb = "local_oob"
  PROVE  InHand' /\ Stage'
<1> DEFINE c == Head(stdin)
<1>1. Asks(c) /\ c.id \in Nat
  BY DEF Asks, CmdCtx, Command
<1>2. UNCHANGED <<conn_state, opt_dst, link, ops>>
  BY DEF CmdMgmt, conn, chans
<1>3. \/ Say(<<Err("nomgmt", c.id)>>) /\ UNCHANGED mgmt_q
      \/ mgmt_q' = Append(mgmt_q, [verb |-> c.verb, id |-> c.id]) /\ UNCHANGED stdout
  BY DEF CmdMgmt, BareVerbs
<1>4. CASE Say(<<Err("nomgmt", c.id)>>) /\ UNCHANGED mgmt_q
  <2>1. Err("nomgmt", c.id) \in Line
    BY <1>1, ErrType DEF ErrCode
  <2>2. Answers(Err("nomgmt", c.id)) /\ Err("nomgmt", c.id).re = c.id
    BY ErrAnswers DEF ErrCode
  <2>3. QED BY <1>1, <1>2, <1>4, <2>1, <2>2, RefusedHeld
<1>5. CASE mgmt_q' = Append(mgmt_q, [verb |-> c.verb, id |-> c.id]) /\ UNCHANGED stdout
  <2>1. /\ NoneOpen /\ NoneQueued /\ NoneTold /\ c.id \in Mine /\ NoneAsked'
        /\ TypeInv /\ Stage
    BY <1>1, CmdReads, InHandAsked DEF CmdCtx
  <2>2. mgmt_q' = <<[verb |-> c.verb, id |-> c.id]>>
    BY <1>5, <2>1 DEF NoneQueued
  <2>3. Len(mgmt_q') = 1 /\ \A i \in DOMAIN mgmt_q' : mgmt_q'[i].id = c.id
    BY <2>2
  <2>4. UNCHANGED <<stack, last, lineq, stdout, ops>>
    BY <1>2, <1>5 DEF CmdCtx, HelperCtx, client
  <2>5. InHand'
    BY <2>1, <2>3, <2>4, SentInHand
  <2>6. Stage'
    <3>1. Say(<<>>) /\ <<>> \in Seq(Line) /\ DOMAIN <<>> = {}
      BY <1>5, <2>1, NothingSaid
    <3>2. StageQuiet(<<>>)
      BY <1>2, <3>1 DEF StageQuiet
    <3>3. QED BY <2>1, <2>4, <3>1, <3>2, CmdReads, QuietStage
  <2>7. QED BY <2>5, <2>6
<1>6. QED BY <1>3, <1>4, <1>5

\* "conn" is read in the only stage in which it can be
LEMMA ConnRead ==
  ASSUME CmdCtx, Head(stdin).verb = "conn"
  PROVE  /\ InCall("connect") /\ NoConnecting /\ NoFail /\ NotYet /\ NoConn'
         /\ Head(stdin).dst = Top.dst /\ Head(stdin).dst \in Addr
<1>1. TypeInv /\ Stage /\ Readable /\ stdin # <<>> /\ stdin' = Tail(stdin)
  BY CmdReads DEF CmdCtx
<1>2. stdin \in Seq(Command)
  BY <1>1 DEF TypeInv, SessionTypeOK, TypeOK, WireTypeOK
<1>3. 1 \in DOMAIN stdin /\ Head(stdin) = stdin[1]
  BY <1>1, <1>2, Tailed
<1>4. ~NoConn
  BY <1>3 DEF NoConn
<1>5. InCall("connect") /\ OneConn /\ NoConnecting /\ NoFail /\ NotYet /\ RightOne
  BY <1>1, <1>4 DEF Stage, Attempt, NoAttempt
<1>6. ASSUME NEW i \in DOMAIN stdin' PROVE stdin'[i].verb # "conn"
  <2>1. i \in Nat /\ i + 1 \in DOMAIN stdin /\ stdin'[i] = stdin[i + 1]
    BY <1>1, <1>2, <1>6, Tailed
  <2>2. i \in DOMAIN Tail(stdin)
    BY <1>1, <1>6
  <2>3. i >= 1
    BY <1>1, <1>2, <2>2
  <2>4. i + 1 # 1
    BY <2>1, <2>3
  <2>5. QED BY <1>3, <1>5, <2>1, <2>4 DEF OneConn
<1>7. Head(stdin).dst = Top.dst
  BY <1>3, <1>5 DEF RightOne
<1>8. Head(stdin).dst \in Addr
  BY <1>1, <1>3 DEF Readable
<1>9. QED BY <1>5, <1>6, <1>7, <1>8 DEF NoConn

LEMMA CmdConnectHeld ==
  ASSUME CmdCtx, CmdConnect(Head(stdin))
  PROVE  InHand' /\ Stage'
<1> DEFINE c == Head(stdin)
           n == nchan + 1
<1>1. c.verb = "conn" /\ c.id \in Nat /\ c.dst # NoAddr /\ c.dst \in Addr
  <2>1. c.verb = "conn" /\ c.id \in Nat
    BY DEF CmdConnect, CmdCtx, Command
  <2>2. QED BY <2>1, ConnRead, WireAssumption
<1>2. opt_mtu \in Nat /\ link \in [Chan -> LinkState] /\ TypeInv
  BY DEF CmdCtx, HelperCtx, TypeInv, SessionTypeOK, TypeOK, HelperTypeOK
<1>3. UNCHANGED <<ops, mgmt_q>>
  BY DEF CmdConnect, mgmt
<1>4. OpsQuiet
  BY <1>3 DEF OpsQuiet
<1>5. \/ UNCHANGED <<conn_state, opt_dst, link, stdout>>
      \/ /\ opt_dst' = c.dst /\ UNCHANGED <<conn_state, link>>
         /\ Say(<<Stat("tryconn", c.dst, opt_mtu, c.id), Stat("disc", c.dst, opt_mtu, c.id)>>)
      \/ /\ n \in Chan /\ conn_state' = "tryconn" /\ opt_dst' = c.dst
         /\ link' = [link EXCEPT ![n] = "connecting"]
         /\ Say(<<Stat("tryconn", c.dst, opt_mtu, c.id)>>)
  BY <1>1 DEF CmdConnect, conn, chans
<1>6. /\ Stat("tryconn", c.dst, opt_mtu, c.id) \in Line
      /\ Stat("disc", c.dst, opt_mtu, c.id) \in Line
  BY <1>1, <1>2, StatType DEF ConnState
<1>7. CASE UNCHANGED <<conn_state, opt_dst, link, stdout>>
  BY <1>4, <1>7, CmdReads, SameQuiet, QuietSilent
<1>8. CASE /\ opt_dst' = c.dst /\ UNCHANGED <<conn_state, link>>
           /\ Say(<<Stat("tryconn", c.dst, opt_mtu, c.id), Stat("disc", c.dst, opt_mtu, c.id)>>)
  <2> DEFINE k == Stat("tryconn", c.dst, opt_mtu, c.id)
             l == Stat("disc", c.dst, opt_mtu, c.id)
  <2>1. ConnQuiet
    BY <1>1, <1>8, ConnRead DEF ConnQuiet, NotYet, NoConnecting
  <2>2. /\ ~Answers(k) /\ ~FailLine(k) /\ ~ConnLine(k)
        /\ ~Answers(l) /\ ~FailLine(l) /\ ~ConnLine(l)
    BY StatQuiet
  <2>3. Say(<<k, l>>) /\ k \in Line /\ l \in Line
    BY <1>6, <1>8
  <2> HIDE DEF k, l
  <2>4. <<k, l>> \in Seq(Line) /\ \A i \in DOMAIN <<k, l>> : <<k, l>>[i] = k \/ <<k, l>>[i] = l
    BY <2>3
  <2>5. LinesQuiet(<<k, l>>)
    BY <2>2, <2>4 DEF LinesQuiet
  <2>6. QED BY <1>4, <2>1, <2>3, <2>4, <2>5, CmdReads, QuietStep
<1>9. CASE /\ n \in Chan /\ conn_state' = "tryconn" /\ opt_dst' = c.dst
           /\ link' = [link EXCEPT ![n] = "connecting"]
           /\ Say(<<Stat("tryconn", c.dst, opt_mtu, c.id)>>)
  <2> DEFINE l == Stat("tryconn", c.dst, opt_mtu, c.id)
  <2>1. ~Answers(l) /\ ~FailLine(l) /\ ~ConnLine(l)
    BY StatQuiet
  <2>2. Say(<<l>>) /\ l \in Line
    BY <1>6, <1>9
  <2> HIDE DEF l
  <2>3. <<l>> \in Seq(Line) /\ \A i \in DOMAIN <<l>> : <<l>>[i] = l
    BY <2>2
  <2>4. UNCHANGED <<stack, last, lineq>> /\ TypeInv /\ InHand /\ Reads
    BY CmdReads DEF CmdCtx, HelperCtx, client
  <2>5. InHand'
    <3>1. TokenQuiet(<<l>>)
      BY <1>4, <2>1, <2>3 DEF OpsQuiet, TokenQuiet
    <3>2. QED BY <2>2, <2>3, <2>4, <3>1, QuietInHand
  <2>6. Pending' = Pending \o <<l>> /\ Pending \in Seq(Line)
    BY <2>2, <2>3, <2>4, PendingGrows, PendingType
  <2>7. \A i \in DOMAIN Pending' : \/ i \in DOMAIN Pending /\ Pending'[i] = Pending[i]
                                  \/ Pending'[i] = l
    BY <2>3, <2>6, <2>2, Appended
  <2>8. NoFail' /\ NoConnLine'
    BY <1>1, <2>1, <2>7, ConnRead DEF NoFail, NoConnLine, NotYet
  <2>9. OneConnecting'
    BY <1>1, <1>2, <1>9, ConnRead DEF OneConnecting, NoConnecting
  <2>10. NotYet'
    BY <1>9, <2>8 DEF NotYet
  <2>11. Top' = Top /\ InCall("connect")'
    BY <1>1, <2>4, ConnRead DEF Top, InCall
  <2>12. NoConn'
    BY <1>1, ConnRead
  <2>13. opt_dst' = Top.dst
    BY <1>1, <1>9, ConnRead
  <2>14. RightOne'
    BY <2>8, <2>11, <2>12, <2>13 DEF RightOne, NoConn, NoConnLine
  <2>15. QED BY <2>5, <2>8, <2>9, <2>10, <2>11, <2>12, <2>14 DEF Stage, Attempt
<1>10. QED BY <1>5, <1>7, <1>8, <1>9

\* the commands that a plain program writes
LEMMA DispatchHeld ==
  ASSUME CmdCtx, Dispatch(Head(stdin)) \/ AddOobAborts(Head(stdin))
  PROVE  InHand' /\ Stage'
<1>1. /\ Asks(Head(stdin)) \/ Head(stdin).verb \in {"conn", "disc", "stat"}
  <2>1. stdin \in Seq(Command) /\ stdin # <<>>
    BY DEF CmdCtx, HelperCtx, TypeInv, SessionTypeOK, TypeOK, WireTypeOK
  <2>2. 1 \in DOMAIN stdin /\ Head(stdin) = stdin[1]
    BY <2>1, Tailed
  <2>3. QED BY <2>2, CmdReads DEF Readable
<1>2. /\ Head(stdin).verb \notin {"quit", "secu", "mtu", "remote_oob"}
      /\ Head(stdin).verb \in MgmtVerbs => Head(stdin).verb = "local_oob"
  BY <1>1 DEF Asks, GattVerbs, MgmtVerbs
<1>3. \/ CmdStatus(Head(stdin)) \/ CmdConnect(Head(stdin)) \/ CmdDisconnect(Head(stdin))
      \/ CmdGatt(Head(stdin)) \/ CmdWrite(Head(stdin))
      \/ CmdMgmt(Head(stdin)) /\ Head(stdin).verb = "local_oob"
  BY <1>2 DEF Dispatch, AddOobAborts, CmdExit, CmdSecLevel, CmdMtu, CmdMgmt
<1>4. QED
  BY <1>3, CmdStatusHeld, CmdConnectHeld, CmdDisconnectHeld, CmdGattHeld, CmdWriteHeld,
     CmdMgmtHeld

-----------------------------------------------------------------------------

\* a callback reads no command
CallCtx == HelperCtx /\ UNCHANGED stdin

LEMMA CallReads ==
  ASSUME CallCtx
  PROVE  /\ HelperCtx /\ Reads /\ TypeInv /\ InHand /\ Stage /\ HelperTypeOK
         /\ UNCHANGED <<stack, last, lineq>> /\ (NoneAsked => NoneAsked')
BY DEF CallCtx, Reads, HelperCtx, Held, TypeInv, SessionTypeOK, TypeOK, client, NoneAsked

\* an attempt is under way in the only stage in which it can be
LEMMA ConnectingHeld ==
  ASSUME CallCtx, NEW c \in Chan, link[c] = "connecting"
  PROVE  /\ InCall("connect") /\ NoConn /\ NoConn' /\ OneConnecting /\ NoFail /\ NotYet
         /\ opt_dst = Top.dst
<1>1. Stage
  BY CallReads
<1>2. ~NoConnecting
  BY DEF NoConnecting
<1>3. InCall("connect") /\ NoConn /\ OneConnecting /\ NoFail /\ NotYet /\ RightOne
  BY <1>1, <1>2 DEF Stage, Attempt, NoAttempt
<1>4. NoConn'
  BY <1>3 DEF NoConn, CallCtx
<1>5. QED BY <1>2, <1>3, <1>4 DEF RightOne

LEMMA ConnectCbOkHeld ==
  ASSUME CallCtx, NEW c \in Chan, ConnectCbOk(c)
  PROVE  InHand' /\ Stage'
<1> DEFINE l == Stat("conn", opt_dst, opt_mtu, 0)
<1>1. link[c] = "connecting" /\ link' = [link EXCEPT ![c] = "up"] /\ conn_state' = "conn"
      /\ Say(<<l>>) /\ UNCHANGED <<opt_dst, ops, mgmt_q>>
  BY DEF ConnectCbOk, mgmt
<1>2. l \in Line
  BY CallReads, StatType DEF HelperTypeOK, ConnState
<1>3. ~Answers(l) /\ ~FailLine(l) /\ l.dst = opt_dst
  BY StatQuiet DEF Stat
<1>4. link \in [Chan -> LinkState]
  BY CallReads DEF HelperTypeOK
<1> HIDE DEF l
<1>5. <<l>> \in Seq(Line) /\ \A i \in DOMAIN <<l>> : <<l>>[i] = l
  BY <1>2
<1>6. InHand'
  <2>1. TokenQuiet(<<l>>)
    BY <1>1, <1>3, <1>5 DEF TokenQuiet
  <2>2. QED BY <1>1, <1>5, <2>1, CallReads, QuietInHand
<1>7. Pending' = Pending \o <<l>> /\ Pending \in Seq(Line)
  BY <1>1, <1>5, CallReads, PendingGrows, PendingType
<1>8. \A i \in DOMAIN Pending' : \/ i \in DOMAIN Pending /\ Pending'[i] = Pending[i]
                                \/ Pending'[i] = l
  BY <1>2, <1>5, <1>7, Appended
<1>9. NoFail'
  BY <1>1, <1>3, <1>8, ConnectingHeld DEF NoFail
<1>10. NoConnecting'
  BY <1>1, <1>4, ConnectingHeld DEF NoConnecting, OneConnecting
<1>11. Top' = Top /\ InCall("connect")'
  BY <1>1, CallReads, ConnectingHeld DEF Top, InCall
<1>12. \A i \in DOMAIN Pending' : ConnLine(Pending'[i]) => Pending'[i].dst = Top.dst
  BY <1>1, <1>3, <1>8, ConnectingHeld DEF NotYet, NoConnLine
<1>13. NoConn' /\ opt_dst' = Top.dst
  BY <1>1, ConnectingHeld
<1>14. RightOne'
  BY <1>11, <1>12, <1>13 DEF RightOne, NoConn
<1>15. QED BY <1>6, <1>9, <1>10, <1>11, <1>13, <1>14 DEF Stage, Attempt, NoAttempt

LEMMA ConnectCbErrHeld ==
  ASSUME CallCtx, NEW c \in Chan, ConnectCbErr(c)
  PROVE  InHand' /\ Stage'
<1> DEFINE k == Stat("disc", NoAddr, opt_mtu, 0)
           l == Err("connfail", 0)
<1>1. link[c] = "connecting" /\ link' = [link EXCEPT ![c] = "failed"] /\ conn_state' = "disc"
      /\ Say(<<k, l>>) /\ UNCHANGED <<opt_dst, ops, mgmt_q>>
  BY DEF ConnectCbErr, ConnectErrLines, mgmt
<1>2. k \in Line /\ l \in Line
  BY CallReads, StatType, ErrType DEF HelperTypeOK, ConnState, ErrCode
<1>3. /\ ~Answers(k) /\ ~FailLine(k) /\ ~ConnLine(k) /\ DiscLine(k)
      /\ ~Answers(l) /\ ~ConnLine(l)
  BY StatQuiet DEF Err, Answers, ConnLine
<1>4. link \in [Chan -> LinkState]
  BY CallReads DEF HelperTypeOK
<1> HIDE DEF k, l
<1>5. /\ <<k, l>> \in Seq(Line) /\ <<k, l>>[1] = k /\ <<k, l>>[2] = l
      /\ DOMAIN <<k, l>> = {1, 2}
  BY <1>2
<1>6. InHand'
  <2>1. TokenQuiet(<<k, l>>)
    BY <1>1, <1>3, <1>5 DEF TokenQuiet
  <2>2. QED BY <1>1, <1>5, <2>1, CallReads, QuietInHand
<1>7. /\ Pending' = Pending \o <<k, l>> /\ Pending \in Seq(Line)
      /\ Len(Pending) \in Nat /\ DOMAIN Pending = 1 .. Len(Pending)
  BY <1>1, <1>5, CallReads, PendingGrows, PendingType
<1>8. /\ \A i \in DOMAIN Pending' :
           \/ i \in DOMAIN Pending /\ Pending'[i] = Pending[i]
           \/ i - Len(Pending) = 1 /\ Pending'[i] = k
           \/ i - Len(Pending) = 2 /\ Pending'[i] = l
      /\ Len(Pending) + 1 \in DOMAIN Pending' /\ Pending'[Len(Pending) + 1] = k
  BY <1>5, <1>7, Appended
<1>9. \A i \in DOMAIN Pending' : i \in Nat
  <2>1. Pending' \in Seq(Line)
    BY <1>5, <1>7, Appended
  <2>2. QED BY <2>1
<1>10. NoConnLine'
  BY <1>1, <1>3, <1>8, ConnectingHeld DEF NoConnLine, NotYet
<1>11. Announced'
  <2>1. SUFFICES ASSUME NEW i \in DOMAIN Pending', FailLine(Pending'[i])
                 PROVE  \E j \in DOMAIN Pending' : j < i /\ DiscLine(Pending'[j])
    BY DEF Announced
  <2>2. i - Len(Pending) = 2
    BY <1>1, <1>3, <1>8, <2>1, ConnectingHeld DEF NoFail
  <2>3. Len(Pending) + 1 < i
    BY <1>7, <1>9, <2>1, <2>2
  <2>4. QED BY <1>3, <1>8, <2>3
<1>12. NoConnecting'
  BY <1>1, <1>4, ConnectingHeld DEF NoConnecting, OneConnecting
<1>13. Top' = Top /\ InCall("connect")' /\ NoConn'
  BY <1>1, CallReads, ConnectingHeld DEF Top, InCall
<1>14. RightOne'
  BY <1>1, <1>10, <1>12, <1>13 DEF RightOne, NoConn, NoConnLine
<1>15. NotYet'
  BY <1>1, <1>10 DEF NotYet
<1>16. QED BY <1>6, <1>11, <1>12, <1>13, <1>14, <1>15 DEF Stage, Attempt

LEMMA ChannelWatcherHeld ==
  ASSUME CallCtx, NEW c \in Chan, ChannelWatcher(c)
  PROVE  InHand' /\ Stage'
<1>1. UNCHANGED mgmt_q
  BY DEF ChannelWatcher, mgmt
<1>2. CASE DisconnectIo(0)
  BY <1>1, <1>2, CallReads, DisconnectIoHeld
<1>3. CASE UNCHANGED <<conn, chans, stdout>>
  <2>1. UNCHANGED <<stdout, ops, conn_state, opt_dst, link>>
    BY <1>3 DEF conn, chans
  <2>2. OpsQuiet /\ ConnQuiet
    BY <1>1, <2>1, SameQuiet DEF OpsQuiet
  <2>3. QED BY <2>1, <2>2, CallReads, QuietSilent
<1>4. QED BY <1>2, <1>3 DEF ChannelWatcher

LEMMA LinkLossHeld ==
  ASSUME CallCtx, NEW c \in Chan, LinkLoss(c)
  PROVE  InHand' /\ Stage'
<1>1. UNCHANGED <<ops, mgmt_q, stdout, conn_state, opt_dst>> /\ link' = [link EXCEPT ![c] = "down"]
  BY DEF LinkLoss, conn, mgmt
<1>2. OpsQuiet /\ ConnQuiet
  BY <1>1, CallReads DEF OpsQuiet, ConnQuiet, HelperTypeOK
<1>3. QED BY <1>1, <1>2, CallReads, QuietSilent

\* the only request ends, and its bearer with it or not
LEMMA SettleHeld ==
  ASSUME CallCtx, NEW b \in Chan, ops[b] # <<>>, Settle(b, Tail(ops[b])),
         UNCHANGED <<conn_state, opt_dst>>
  PROVE  NoneOpen' /\ ConnQuiet
<1>1. /\ Tail(ops[b]) = <<>> /\ \A c \in Chan : c # b => ops[c] = <<>>
      /\ ops \in [Chan -> Seq(Op)] /\ link \in [Chan -> LinkState]
  BY CallReads, InHandOpen DEF HelperTypeOK
<1>2. ops' = [ops EXCEPT ![b] = <<>>]
  BY <1>1 DEF Settle
<1>3. link' = link \/ link' = [link EXCEPT ![over[b]] = "closed"]
  BY DEF Settle
<1>4. NoneOpen'
  BY <1>1, <1>2 DEF NoneOpen
<1>5. \A c \in Chan : link'[c] = "connecting" => link[c] = "connecting"
  BY <1>1, <1>3
<1>6. QED BY <1>4, <1>5 DEF ConnQuiet

\* and is answered
LEMMA OpAnswered ==
  ASSUME CallCtx, NEW b \in Chan, ops[b] # <<>>, Settle(b, Tail(ops[b])),
         UNCHANGED <<conn_state, opt_dst, mgmt_q>>,
         NEW l \in Line, Say(<<l>>), Answers(l), l.re = Head(ops[b]).id
  PROVE  InHand' /\ Stage'
<1>1. NoneAsked /\ NoneQueued /\ NoneTold /\ Head(ops[b]).id \in Mine
  BY CallReads, InHandOpen
<1>2. NoneOpen' /\ ConnQuiet
  BY SettleHeld
<1>3. NoneQueued'
  BY <1>1 DEF NoneQueued
<1>4. QED BY <1>1, <1>2, <1>3, CallReads, AnswerStep

LEMMA ResultTypeAnswers ==
  ASSUME NEW verb \in GattVerbs
  PROVE  ResultType(verb) \in {"find", "desc", "rd", "wr"}
BY DEF GattVerbs, ResultType

LEMMA AttResultHeld ==
  ASSUME CallCtx, NEW b \in Chan, AttResult(b)
  PROVE  InHand' /\ Stage'
<1> DEFINE o == Head(ops[b])
           l == Data(ResultType(o.verb), peer[over[b]], o.id)
<1>1. ops[b] # <<>> /\ o.verb # "mtu" /\ Say(<<l>>) /\ Settle(b, Tail(ops[b]))
      /\ UNCHANGED <<conn_state, opt_dst, mgmt_q>> /\ over[b] # 0
  BY DEF AttResult, conn, mgmt, Live
<1>2. o \in Op
  BY <1>1, CallReads, InHandOpen
<1>3. o.verb \in GattVerbs /\ o.id \in Nat
  BY <1>1, <1>2 DEF Op
<1>4. ResultType(o.verb) \in {"find", "desc", "rd", "wr"}
  BY <1>3, ResultTypeAnswers
<1>5. peer[over[b]] \in Addr \cup {NoAddr}
  BY <1>1, CallReads DEF HelperTypeOK, Chan
<1>6. l \in Line /\ Answers(l) /\ l.re = o.id
  BY <1>3, <1>4, <1>5, DataType, DataAnswers DEF RspType
<1>7. QED BY <1>1, <1>6, OpAnswered

LEMMA FailedAnswers ==
  ASSUME NEW o, NEW dst
  PROVE  Answers(Failed(o, dst)) /\ Failed(o, dst).re = o.id
BY ErrAnswers, DataAnswers DEF Failed, ErrCode

LEMMA AttErrorHeld ==
  ASSUME CallCtx, NEW b \in Chan, AttError(b)
  PROVE  InHand' /\ Stage'
<1> DEFINE o == Head(ops[b])
           l == Failed(o, peer[over[b]])
<1>1. ops[b] # <<>> /\ Say(<<l>>) /\ Settle(b, Tail(ops[b]))
      /\ UNCHANGED <<conn_state, opt_dst, mgmt_q>> /\ over[b] # 0
  BY DEF AttError, conn, mgmt, Live
<1>2. o \in Op
  BY <1>1, CallReads, InHandOpen
<1>3. peer[over[b]] \in Addr \cup {NoAddr}
  BY <1>1, CallReads DEF HelperTypeOK, Chan
<1>4. l \in Line /\ Answers(l) /\ l.re = o.id
  BY <1>2, <1>3, FailedType, FailedAnswers
<1>5. QED BY <1>1, <1>4, OpAnswered

LEMMA MtuResultHeld ==
  ASSUME CallCtx, NEW b \in Chan, NEW m \in Mtus, MtuResult(b, m)
  PROVE  InHand' /\ Stage'
<1> DEFINE o == Head(ops[b])
           mt == IF m < opt_mtu THEN m ELSE opt_mtu
<1>1. ops[b] # <<>> /\ Settle(b, Tail(ops[b])) /\ UNCHANGED <<conn_state, opt_dst, mgmt_q>>
  BY DEF MtuResult, mgmt
<1>2. Say(<<Stat(conn_state, opt_dst, mt, o.id)>>) \/ Say(<<Err("callfail", o.id)>>)
  BY DEF MtuResult
<1>3. o \in Op
  BY <1>1, CallReads, InHandOpen
<1>4. o.id \in Nat
  BY <1>3 DEF Op
<1>5. mt \in Nat
  BY CallReads, HelperAssumption DEF HelperTypeOK
<1>6. CASE Say(<<Stat(conn_state, opt_dst, mt, o.id)>>)
  <2> DEFINE l == Stat(conn_state, opt_dst, mt, o.id)
  <2>1. l \in Line
    BY <1>4, <1>5, CallReads, StatType DEF HelperTypeOK
  <2>2. ~Answers(l) /\ ~FailLine(l) /\ (ConnLine(l) => conn_state = "conn" /\ l.dst = opt_dst)
    BY StatQuiet
  <2>3. OpsQuiet /\ ConnQuiet
    BY <1>1, SettleHeld DEF OpsQuiet, NoneOpen
  <2>4. QED BY <1>6, <2>1, <2>2, <2>3, CallReads, QuietLine
<1>7. CASE Say(<<Err("callfail", o.id)>>)
  <2>1. /\ Err("callfail", o.id) \in Line
        /\ Answers(Err("callfail", o.id)) /\ Err("callfail", o.id).re = o.id
    BY <1>4, ErrType, ErrAnswers DEF ErrCode
  <2>2. QED BY <1>1, <1>7, <2>1, OpAnswered
<1>8. QED BY <1>2, <1>6, <1>7

LEMMA AttContinueHeld ==
  ASSUME CallCtx, NEW b \in Chan, AttContinue(b)
  PROVE  InHand' /\ Stage'
<1> DEFINE o == [Head(ops[b]) EXCEPT !.part = TRUE]
<1>1. /\ ops[b] # <<>> /\ ops' = [ops EXCEPT ![b] = Append(Tail(ops[b]), o)]
      /\ UNCHANGED <<mgmt_q, stdout, conn_state, opt_dst, link>>
  BY DEF AttContinue, conn, mgmt
<1>2. /\ Tail(ops[b]) = <<>> /\ Head(ops[b]) = ops[b][1] /\ ops[b][1] \in Op
      /\ ops \in [Chan -> Seq(Op)]
  BY <1>1, CallReads, InHandOpen DEF HelperTypeOK
<1>3. o.id = ops[b][1].id
  BY <1>2 DEF Op
<1> HIDE DEF o
<1>4. Append(<<>>, o) = <<o>> /\ Len(<<o>>) = 1 /\ \A i \in DOMAIN <<o>> : <<o>>[i] = o
  OBVIOUS
<1>5. ops'[b] = <<o>> /\ \A c \in Chan : c # b => ops'[c] = ops[c]
  BY <1>1, <1>2, <1>4
<1>6. Len(ops'[b]) = 1 /\ \A i \in DOMAIN ops'[b] : ops'[b][i].id = ops[b][1].id
  BY <1>3, <1>4, <1>5
<1>7. OpsQuiet /\ ConnQuiet
  BY <1>1, <1>5, <1>6, SameQuiet DEF OpsQuiet
<1>8. QED BY <1>1, <1>7, CallReads, QuietSilent

LEMMA AttTimeoutHeld ==
  ASSUME CallCtx, NEW b \in Chan, AttTimeout(b)
  PROVE  InHand' /\ Stage'
<1>1. ops[b] # <<>> /\ UNCHANGED <<mgmt_q, stdout, conn_state, opt_dst>>
  BY DEF AttTimeout, conn, mgmt
<1>2. CASE Settle(b, Tail(ops[b]))
  <2>1. OpsQuiet /\ ConnQuiet
    BY <1>1, <1>2, SettleHeld DEF OpsQuiet, NoneOpen
  <2>2. QED BY <1>1, <2>1, CallReads, QuietSilent
<1>3. CASE ops' = [ops EXCEPT ![b] = Tail(@)] /\ Shutdown(b)
  <2>1. Tail(ops[b]) = <<>> /\ ops \in [Chan -> Seq(Op)] /\ link \in [Chan -> LinkState]
    BY <1>1, CallReads, InHandOpen DEF HelperTypeOK
  <2>2. OpsQuiet
    BY <1>1, <1>3, <2>1 DEF OpsQuiet
  <2>3. ConnQuiet
    BY <1>1, <1>3, <2>1 DEF ConnQuiet, Shutdown
  <2>4. QED BY <1>1, <2>2, <2>3, CallReads, QuietSilent
<1>4. QED BY <1>2, <1>3 DEF AttTimeout

LEMMA DataQuiet ==
  ASSUME NEW rsp \in {"ntfy", "ind", "scan"}, NEW dst, NEW re
  PROVE  /\ ~Answers(Data(rsp, dst, re)) /\ ~FailLine(Data(rsp, dst, re))
         /\ ~ConnLine(Data(rsp, dst, re))
BY DEF Data, Answers, FailLine, ConnLine

LEMMA NotificationHeld ==
  ASSUME CallCtx, NEW b \in Chan, NEW kind \in {"ntfy", "ind"}, Notification(b, kind)
  PROVE  InHand' /\ Stage'
<1>1. /\ Say(<<Data(kind, peer[over[b]], 0)>>) /\ over[b] # 0
      /\ UNCHANGED <<ops, mgmt_q, conn_state, opt_dst, link>>
  BY DEF Notification, conn, chans, mgmt, Live
<1>2. peer[over[b]] \in Addr \cup {NoAddr}
  BY <1>1, CallReads DEF HelperTypeOK, Chan
<1>3. Data(kind, peer[over[b]], 0) \in Line
  BY <1>2, DataType DEF RspType
<1>4. OpsQuiet /\ ConnQuiet
  BY <1>1, SameQuiet DEF OpsQuiet
<1>5. QED BY <1>1, <1>3, <1>4, DataQuiet, CallReads, QuietLine

LEMMA PeerMtuReqHeld ==
  ASSUME CallCtx, NEW b \in Chan, NEW m \in Mtus, PeerMtuReq(b, m)
  PROVE  InHand' /\ Stage'
<1>1. UNCHANGED <<ops, mgmt_q, conn_state, opt_dst, link>>
  BY DEF PeerMtuReq, chans, mgmt
<1>2. OpsQuiet /\ ConnQuiet
  BY <1>1, SameQuiet DEF OpsQuiet
<1>3. m \in Nat
  BY HelperAssumption
<1>4. CASE Say(<<Stat(conn_state, opt_dst, m, 0)>>)
  BY <1>1, <1>2, <1>3, <1>4, CallReads, ReportHeld
<1>5. CASE UNCHANGED stdout
  BY <1>2, <1>5, CallReads, QuietSilent
<1>6. QED BY <1>4, <1>5 DEF PeerMtuReq

LEMMA MgmtCompleteHeld ==
  ASSUME CallCtx, MgmtComplete
  PROVE  InHand' /\ Stage'
<1> DEFINE m == Head(mgmt_q)
<1>1. /\ mgmt_q # <<>> /\ mgmt_q' = Tail(mgmt_q)
      /\ UNCHANGED <<ops, conn_state, opt_dst, link>>
  BY DEF MgmtComplete, conn, chans
<1>2. /\ NoneAsked /\ NoneOpen /\ NoneTold
      /\ m \in MgmtOp /\ m.id \in Mine /\ Tail(mgmt_q) = <<>>
  BY <1>1, CallReads, InHandQueued
<1>3. NoneAsked' /\ NoneOpen' /\ NoneQueued'
  BY <1>1, <1>2, CallReads DEF NoneOpen, NoneQueued
<1>4. m.id \in Nat
  BY <1>2 DEF MgmtOp
<1>5. ConnQuiet
  BY <1>1, SameQuiet
<1>6. \/ Say(<<Mgmt("busy", m.id)>>) \/ Say(<<Mgmt("mgmterr", m.id)>>)
      \/ Say(<<Mgmt("success", m.id)>>) \/ Say(<<Data("oob", NoAddr, m.id)>>)
      \/ UNCHANGED stdout
  BY DEF MgmtComplete
<1>7. ASSUME NEW l \in Line, Say(<<l>>), Answers(l), l.re = m.id
      PROVE  InHand' /\ Stage'
  BY <1>2, <1>3, <1>5, <1>7, CallReads, AnswerStep
<1>8. CASE Say(<<Mgmt("busy", m.id)>>)
  BY <1>4, <1>7, <1>8, MgmtType, MgmtAnswers DEF ErrCode
<1>9. CASE Say(<<Mgmt("mgmterr", m.id)>>)
  BY <1>4, <1>7, <1>9, MgmtType, MgmtAnswers DEF ErrCode
<1>10. CASE Say(<<Mgmt("success", m.id)>>)
  BY <1>4, <1>7, <1>10, MgmtType, MgmtAnswers DEF ErrCode
<1>11. CASE Say(<<Data("oob", NoAddr, m.id)>>)
  BY <1>4, <1>7, <1>11, DataType, DataAnswers DEF RspType
<1>12. CASE UNCHANGED stdout
  <2>1. OpsQuiet
    BY <1>1, <1>2 DEF OpsQuiet
  <2>2. QED BY <1>5, <1>12, <2>1, CallReads, QuietSilent
<1>13. QED BY <1>6, <1>8, <1>9, <1>10, <1>11, <1>12

LEMMA MgmtScanningHeld ==
  ASSUME CallCtx, NEW on \in BOOLEAN, MgmtScanning(on)
  PROVE  InHand' /\ Stage'
<1> DEFINE state == IF on THEN "scan" ELSE "disc"
           l == Stat(state, opt_dst, opt_mtu, 0)
<1>1. /\ conn_state' = state /\ UNCHANGED <<ops, mgmt_q, opt_dst, link>>
      /\ Say(<<l>>)
  BY DEF MgmtScanning, chans, mgmt
<1>2. state \in ConnState /\ state # "conn"
  BY DEF ConnState
<1>3. l \in Line
  BY <1>2, CallReads, StatType DEF HelperTypeOK
<1>4. ~Answers(l) /\ ~FailLine(l) /\ ~ConnLine(l)
  BY <1>2, StatQuiet
<1>5. OpsQuiet /\ ConnQuiet
  BY <1>1, <1>2 DEF OpsQuiet, ConnQuiet
<1> HIDE DEF l, state
<1>6. QED BY <1>1, <1>3, <1>4, <1>5, CallReads, QuietLine

LEMMA MgmtDeviceFoundHeld ==
  ASSUME CallCtx, MgmtDeviceFound
  PROVE  InHand' /\ Stage'
<1>1. UNCHANGED <<ops, mgmt_q, conn_state, opt_dst, link>>
  BY DEF MgmtDeviceFound, conn, chans, mgmt
<1>2. Say(<<Data("scan", NoAddr, 0)>>)
  BY DEF MgmtDeviceFound
<1>3. Data("scan", NoAddr, 0) \in Line
  BY DataType DEF RspType
<1>4. OpsQuiet /\ ConnQuiet
  BY <1>1, SameQuiet DEF OpsQuiet
<1>5. QED BY <1>2, <1>3, <1>4, DataQuiet, CallReads, QuietLine

LEMMA CallbackHeld ==
  ASSUME CallCtx, Callback
  PROVE  InHand' /\ Stage'
BY ConnectCbOkHeld, ConnectCbErrHeld, ChannelWatcherHeld, LinkLossHeld, AttResultHeld,
   AttContinueHeld, AttErrorHeld, AttTimeoutHeld, NotificationHeld, MtuResultHeld,
   PeerMtuReqHeld, MgmtCompleteHeld, MgmtScanningHeld, MgmtDeviceFoundHeld
DEF Callback

\* the process is gone
LEMMA GoneQuiet ==
  ASSUME HelperTypeOK, Gone
  PROVE  OpsQuiet /\ ConnQuiet /\ NoneOpen' /\ NoneQueued'
<1>1. /\ conn_state' = "disc" /\ mgmt_q' = <<>>
      /\ link' = [c \in Chan |-> "none"] /\ ops' = [c \in Chan |-> <<>>]
  BY DEF Gone
<1>2. \A c \in Chan : link'[c] = "none" /\ ops'[c] = <<>>
  BY <1>1
<1>3. QED BY <1>1, <1>2 DEF OpsQuiet, ConnQuiet, NoneOpen, NoneQueued

\* a bearer whose socket hung up has one request to call back
LEMMA FlushBearerHeld ==
  ASSUME CallCtx, NEW b \in Chan, FlushBearer(b)
  PROVE  InHand' /\ Stage'
<1> DEFINE o == ops[b][1]
           l == Failed(o, peer[over[b]])
<1>1. /\ NoneAsked /\ NoneQueued /\ NoneTold /\ ops[b] # <<>>
      /\ \A c \in Chan : c # b => ops[c] = <<>>
      /\ Len(ops[b]) = 1 /\ Head(ops[b]) = o /\ o \in Op /\ Tail(ops[b]) = <<>>
      /\ o.id \in Mine
  BY CallReads, InHandOpen DEF FlushBearer
<1>2. TypeOK
  BY CallReads DEF TypeInv, SessionTypeOK
<1>3. PICK q \in {ops[b], Append(Tail(ops[b]), Head(ops[b]))} :
        /\ q \in Seq(Op) /\ over[b] \in Chan
        /\ \E n \in 1 .. Len(q) :
             /\ [i \in 1 .. n |-> Failed(q[i], peer[over[b]])] \in Seq(Line)
             /\ Say([i \in 1 .. n |-> Failed(q[i], peer[over[b]])])
  BY <1>2, FlushLines
<1>4. Len(q) = 1 /\ q[1] = o
  <2>1. Append(<<>>, o) = <<o>> /\ Len(<<o>>) = 1 /\ <<o>>[1] = o
    OBVIOUS
  <2>2. Append(Tail(ops[b]), Head(ops[b])) = <<o>>
    BY <1>1, <2>1, Zenon
  <2>3. QED BY <1>1, <1>3, <2>1, <2>2
<1>5. Say(<<l>>) /\ l \in Line
  <2>1. PICK n \in 1 .. Len(q) :
          /\ [i \in 1 .. n |-> Failed(q[i], peer[over[b]])] \in Seq(Line)
          /\ Say([i \in 1 .. n |-> Failed(q[i], peer[over[b]])])
    BY <1>3
  <2>2. n = 1
    BY <1>4, <2>1
  <2> DEFINE lines == [i \in 1 .. 1 |-> Failed(q[i], peer[over[b]])]
  <2>3. lines \in Seq(Line) /\ Say(lines)
    BY <2>1, <2>2
  <2>4. Len(lines) = 1 /\ lines[1] = l /\ l \in Line
    <3>1. peer[over[b]] \in Addr \cup {NoAddr}
      BY <1>3, CallReads DEF HelperTypeOK
    <3>2. QED BY <1>1, <1>4, <2>3, <3>1, FailedType
  <2> HIDE DEF lines, l
  <2>5. lines = <<l>> /\ l \in Line
    <3>1. l \in Line
      BY <2>4
    <3>2. <<l>> \in Seq(Line) /\ Len(<<l>>) = 1 /\ <<l>>[1] = l
      BY <3>1
    <3>3. \A i \in 1 .. Len(lines) : lines[i] = <<l>>[i]
      BY <2>4, <3>2
    <3>4. QED BY <2>3, <2>4, <3>1, <3>2, <3>3, SeqEqual
  <2>6. QED BY <2>3, <2>5
<1>6. Answers(l) /\ l.re = o.id
  BY FailedAnswers
<1>7. NoneAsked'
  BY <1>1, CallReads
<1>8. NoneOpen' /\ NoneQueued' /\ ConnQuiet
  <2>1. CASE Gone
    BY <2>1, CallReads, GoneQuiet
  <2>2. CASE ~Gone
    <3>1. /\ ops' = [ops EXCEPT ![b] = <<>>] /\ UNCHANGED <<conn, mgmt>>
          /\ link' = [c \in Chan |-> IF SameNumber(b, c) THEN "closed" ELSE link[c]]
      BY <1>2, <2>2, FlushBearerLink
    <3>2. NoneOpen'
      BY <1>1, <3>1, CallReads DEF NoneOpen, HelperTypeOK
    <3>3. NoneQueued'
      BY <1>1, <3>1 DEF NoneQueued, mgmt
    <3>4. ConnQuiet
      BY <3>1 DEF ConnQuiet, conn
    <3>5. QED BY <3>2, <3>3, <3>4
  <2>3. QED BY <2>1, <2>2
<1> HIDE DEF l
<1>9. QED BY <1>1, <1>5, <1>6, <1>7, <1>8, CallReads, AnswerStep

LEMMA ExitHeld ==
  ASSUME CallCtx, Exit
  PROVE  InHand' /\ Stage'
<1>1. OpsQuiet /\ ConnQuiet
  BY CallReads, GoneQuiet DEF Exit
<1>2. CASE UNCHANGED stdout
  BY <1>1, <1>2, CallReads, QuietSilent
<1>3. CASE Say(<<Stat("disc", NoAddr, 0, 0)>>)
  <2>1. Stat("disc", NoAddr, 0, 0) \in Line
    BY StatType DEF ConnState
  <2>2. ~ConnLine(Stat("disc", NoAddr, 0, 0))
    BY StatQuiet
  <2>3. QED BY <1>1, <1>3, <2>1, <2>2, StatQuiet, CallReads, QuietLine
<1>4. QED BY <1>2, <1>3 DEF Exit

LEMMA HelperStepHeld ==
  ASSUME TypeInv, Held, HelperStep, UNCHANGED client
  PROVE  Held'
<1>1. HelperCtx
  BY DEF HelperCtx
<1>2. CASE PromptRead
  <2>1. stdin \in Seq(Command) /\ stdin # <<>>
    BY <1>2 DEF PromptRead, TypeInv, SessionTypeOK, TypeOK, WireTypeOK
  <2>2. CmdCtx
    BY <1>1, <1>2, <2>1 DEF CmdCtx, PromptRead
  <2>3. InHand' /\ Stage'
    BY <1>2, <2>2, DispatchHeld DEF PromptRead
  <2>4. Readable'
    BY <2>2, CmdReads, ReadableKept
  <2>5. QED BY <2>3, <2>4 DEF Held
<1>3. CASE UNCHANGED stdin /\ InHand' /\ Stage'
  BY <1>3 DEF Held, Readable
<1>4. CASE PromptEof
  <2>1. CallCtx
    BY <1>1, <1>4 DEF CallCtx, PromptEof, wire
  <2>2. UNCHANGED <<stdout, ops, mgmt_q, conn_state, opt_dst, link>>
    BY <1>4 DEF PromptEof, wire, conn, chans, mgmt
  <2>3. OpsQuiet /\ ConnQuiet
    BY <2>2, SameQuiet DEF OpsQuiet
  <2>4. QED BY <1>3, <2>1, <2>2, <2>3, CallReads, QuietSilent DEF CallCtx
<1>5. CASE Exit
  BY <1>1, <1>3, <1>5, ExitHeld DEF CallCtx, Exit
<1>6. CASE Callback /\ UNCHANGED stdin
  BY <1>1, <1>3, <1>6, CallbackHeld DEF CallCtx
<1>7. ASSUME NEW b \in Chan, FlushBearer(b), UNCHANGED stdin
      PROVE  Held'
  BY <1>1, <1>3, <1>7, FlushBearerHeld DEF CallCtx
<1>8. QED BY <1>2, <1>4, <1>5, <1>6, <1>7 DEF HelperStep

-----------------------------------------------------------------------------
(* The library's steps.                                                     *)

\* one call at a time, of those the program makes; one that stops the helper
\* was told of a disconnection or asked for it; the application may connect
\* when it thinks it is not connected
Frames ==
  /\ Len(stack) <= 1
  /\ stack # <<>> =>
       /\ helper_up /\ Top.call \in Calls
       /\ Top.pc \in {"stop", "wait"} /\ Top.call # "disconnect" => Top.how = "disc"
       /\ Top.call = "connect" => ~last.linked
  /\ ~helper_up => ~last.linked
  /\ ~partial
  /\ proc = "running" => helper_up

\* a helper that does not run has nothing in hand
Reset ==
  proc # "running" =>
    /\ conn_state = "disc" /\ opt_dst = NoAddr /\ mgmt_q = <<>>
    /\ \A c \in Chan : link[c] = "none" /\ ops[c] = <<>>

ClientCtx ==
  Plain /\ TypeInv /\ TypeInv' /\ Frames /\ Reset /\ (Alive => Held)

\* the value the last call returned is its own, and of the right device
Right(l) ==
  /\ l.call \in Answered /\ l.how \in {"ok", "gatt", "mgmt"} => l.line.re = l.id
  /\ l.call = "connect" /\ l.how = "ok" => l.line.dst = l.dst

LEMMA TopIsFrame ==
  ASSUME TypeInv, stack # <<>>
  PROVE  Top \in Frame
BY StackTop DEF TypeInv, Top

LEMMA EmptyLen ==
  ASSUME NEW S, NEW s \in Seq(S)
  PROVE  s = <<>> <=> Len(s) = 0
BY EmptySeq

\* a call at the top changes, or it ends
LEMMA TopSet ==
  ASSUME TypeInv, Frames, stack # <<>>, NEW f \in Frame, SetTop(f)
  PROVE  stack' # <<>> /\ Top' = f /\ Len(stack') <= 1
BY StackTop DEF TypeInv, Frames, SetTop, Top

LEMMA TopGone ==
  ASSUME TypeInv, Frames, stack # <<>>, NEW how, NEW line, Return(how, line) \/ Raise(how, line)
  PROVE  stack' = <<>> /\ Len(stack') = 0 /\ last' = Result(Top, how, line)
<1>1. stack \in Seq(Frame) /\ Len(stack) <= 1
  BY DEF TypeInv, Frames
<1>2. Len(stack) = 1
  <2>1. Len(stack) \in Nat /\ Len(stack) # 0
    BY <1>1, EmptySeq
  <2>2. QED BY <1>1, <2>1
<1>3. Front(stack) \in Seq(Frame) /\ Len(Front(stack)) = 0
  BY <1>1, <1>2, StackTop
<1>4. Front(stack) = <<>>
  BY <1>3, EmptyLen
<1>5. Len(<<>>) = 0
  OBVIOUS
<1>6. QED BY <1>4, <1>5, Zenon DEF Return, Raise

LEMMA TopEntered ==
  ASSUME TypeInv, stack = <<>>, NEW call \in Methods, NEW dst \in Addr \cup {NoAddr},
         NEW id \in Nat, Enter(call, dst, id)
  PROVE  /\ stack' # <<>> /\ Len(stack') <= 1
         /\ Top'.call = call /\ Top'.id = id /\ Top'.dst = dst /\ Top'.pc = "poll"
<1> DEFINE f == [call |-> call, id |-> id, dst |-> dst, pc |-> "poll",
                 tried |-> FALSE, how |-> "ok", line |-> NoLine]
<1>1. stack' = Append(<<>>, f)
  BY DEF Enter
<1>2. f.call = call /\ f.id = id /\ f.dst = dst /\ f.pc = "poll"
  OBVIOUS
<1> HIDE DEF f
<1>3. /\ Append(<<>>, f) = <<f>> /\ Len(<<f>>) = 1 /\ <<f>>[1] = f /\ <<f>> # <<>>
  OBVIOUS
<1>4. stack' # <<>> /\ Len(stack') <= 1 /\ Top' = f
  BY <1>1, <1>3 DEF Top, Last
<1>5. QED BY <1>2, <1>4

LEMMA GotoTop ==
  ASSUME TypeInv, Frames, stack # <<>>, NEW pc \in {"poll", "get", "cb", "stop", "wait"},
         Goto(pc)
  PROVE  /\ stack' # <<>> /\ Len(stack') <= 1
         /\ Top'.call = Top.call /\ Top'.id = Top.id /\ Top'.dst = Top.dst
         /\ Top'.pc = pc /\ Top'.how = Top.how
<1>1. Top \in Frame
  BY TopIsFrame
<1>2. /\ [Top EXCEPT !.pc = pc] \in Frame
      /\ [Top EXCEPT !.pc = pc].call = Top.call /\ [Top EXCEPT !.pc = pc].id = Top.id
      /\ [Top EXCEPT !.pc = pc].dst = Top.dst /\ [Top EXCEPT !.pc = pc].how = Top.how
      /\ [Top EXCEPT !.pc = pc].pc = pc
  BY <1>1 DEF Frame
<1>3. QED BY <1>2, TopSet DEF Goto

LEMMA StopTop ==
  ASSUME TypeInv, Frames, stack # <<>>, NEW how \in {"ok", "disc"}, NEW line \in Line,
         StopThen(how, line)
  PROVE  /\ stack' # <<>> /\ Len(stack') <= 1 /\ UNCHANGED last
         /\ Top'.call = Top.call /\ Top'.pc = "stop" /\ Top'.how = how
<1> DEFINE f == [Top EXCEPT !.pc = "stop", !.how = how, !.line = line]
<1>1. Top \in Frame
  BY TopIsFrame
<1>2. f \in Frame /\ f.call = Top.call /\ f.pc = "stop" /\ f.how = how
  BY <1>1 DEF Frame
<1>3. SetTop(f) /\ UNCHANGED last
  BY DEF StopThen
<1> HIDE DEF f
<1>4. QED BY <1>2, <1>3, TopSet

\* what a plain call writes
LEMMA PlainVerb ==
  ASSUME Plain, NEW call \in Calls, call # "waitForNotifications", NEW id, NEW dst, NEW arg
  PROVE  /\ call \in Asking => Asks(Cmd(Verb(call), id, dst, arg))
         /\ call \notin Asking => /\ ~Asks(Cmd(Verb(call), id, dst, arg))
                                  /\ Verb(call) \in {"conn", "disc", "stat"}
         /\ Verb(call) = "conn" <=> call = "connect"
         /\ Cmd(Verb(call), id, dst, arg).verb = Verb(call)
         /\ Cmd(Verb(call), id, dst, arg).id = id
         /\ Cmd(Verb(call), id, dst, arg).dst = dst
BY DEF Plain, Asking, Asks, Cmd, Verb, GattVerbs

\* a call begins, with nothing in hand and no attempt under way
LEMMA EnteredHeld ==
  ASSUME Plain, NEW call \in Calls, call # "waitForNotifications",
         NEW id \in Nat, NEW dst \in Addr \cup {NoAddr}, NEW arg,
         NEW s \in Seq(Command),
         \A i \in DOMAIN s : s[i].verb \in {"disc", "stat"},
         stdin' = Append(s, Cmd(Verb(call), id, dst, arg)),
         Cmd(Verb(call), id, dst, arg) \in Command,
         stack' # <<>>, Top'.call = call, Top'.id = id, Top'.dst = dst,
         NoneOpen', NoneQueued', NoneTold', NoConnecting', NoFail',
         call = "connect" => NotYet' /\ dst \in Addr,
         ~last'.linked => NotYet'
  PROVE  Held'
<1> DEFINE cmd == Cmd(Verb(call), id, dst, arg)
<1>1. /\ call \in Asking => Asks(cmd)
      /\ call \notin Asking => ~Asks(cmd) /\ cmd.verb \in {"conn", "disc", "stat"}
      /\ cmd.verb = "conn" <=> call = "connect"
      /\ cmd.id = id /\ cmd.dst = dst /\ cmd \in Command
  BY PlainVerb
<1>2. stdin' = Append(s, cmd)
  OBVIOUS
<1> HIDE DEF cmd
<1>3. \A i \in DOMAIN stdin' :
        \/ i \in DOMAIN s /\ stdin'[i] = s[i]
        \/ i = Len(s) + 1 /\ stdin'[i] = cmd
  BY <1>1, <1>2
<1>4. \A i \in DOMAIN s : ~Asks(s[i]) /\ s[i].verb # "conn"
  BY DEF Asks, GattVerbs
<1>5. Mine' = IF call \in Asking THEN {id} ELSE {}
  BY DEF Mine
<1>6. Len(<<>>) = 0 /\ DOMAIN <<>> = {}
  OBVIOUS
<1>7. Len(mgmt_q') = 0 /\ DOMAIN mgmt_q' = {}
  BY <1>6, Zenon DEF NoneQueued
<1>8. \A b \in Chan : Len(ops'[b]) = 0 /\ DOMAIN ops'[b] = {} /\ ops'[b] = <<>>
  BY <1>6, Zenon DEF NoneOpen
<1>9. OnlyMine'
  BY <1>1, <1>3, <1>4, <1>5, <1>7, <1>8 DEF OnlyMine, NoneTold
<1>10. Single'
  BY <1>1, <1>3, <1>4, <1>7, <1>8 DEF Single, NoneTold
<1>11. OnePlace'
  BY DEF OnePlace
<1>12. Readable'
  BY <1>1, <1>3, <1>4 DEF Readable
<1>13. InCall("connect")' <=> call = "connect"
  BY DEF InCall
<1>14. CASE call = "connect"
  <2>1. OneConn'
    BY <1>3, <1>4 DEF OneConn
  <2>2. RightOne'
    BY <1>1, <1>3, <1>4, <1>14 DEF RightOne, NotYet, NoConnLine
  <2>3. Stage'
    BY <1>13, <1>14, <2>1, <2>2 DEF Stage, Attempt
  <2>4. QED BY <1>9, <1>10, <1>11, <1>12, <2>3 DEF Held, InHand
<1>15. CASE call # "connect"
  <2>1. NoConn'
    BY <1>1, <1>3, <1>4, <1>15 DEF NoConn
  <2>2. Stage'
    BY <1>13, <1>15, <2>1 DEF Stage, NoAttempt
  <2>3. QED BY <1>9, <1>10, <1>11, <1>12, <2>2 DEF Held, InHand
<1>16. QED BY <1>14, <1>15

\* nothing is in hand outside the calls that ask
LEMMA NothingInHand ==
  ASSUME TypeInv, Held, Mine = {}
  PROVE  NoneAsked /\ NoneOpen /\ NoneQueued /\ NoneTold
<1>1. NoneAsked /\ NoneTold
  BY DEF Held, InHand, OnlyMine, NoneAsked, NoneTold
<1>2. ASSUME NEW b \in Chan, ops[b] # <<>> PROVE FALSE
  BY <1>2, InHandOpen DEF Held
<1>3. NoneQueued
  <2>1. ASSUME mgmt_q # <<>> PROVE FALSE
    BY <2>1, InHandQueued DEF Held
  <2>2. QED BY <2>1 DEF NoneQueued
<1>4. QED BY <1>1, <1>2, <1>3 DEF NoneOpen

\* the call goes on, or one that asks for nothing begins or ends
LEMMA KeptHeld ==
  ASSUME Held, UNCHANGED <<stdin, ops, mgmt_q, conn_state, opt_dst, link>>,
         Pending' = Pending, Mine' = Mine,
         InCall("connect")' <=> InCall("connect"),
         InCall("connect") => Top'.dst = Top.dst, last'.linked <=> last.linked
  PROVE  Held'
<1>1. InHand'
  BY DEF Held, InHand, OnlyMine, OnePlace, Single, NoneAsked, NoneOpen, NoneQueued, NoneTold
<1>2. Readable'
  BY DEF Held, Readable
<1>3. NoConn' = NoConn /\ NoConnecting' = NoConnecting /\ NoFail' = NoFail
  BY DEF NoConn, NoConnecting, NoFail
<1>4. NotYet' = NotYet /\ OneConn' = OneConn /\ OneConnecting' = OneConnecting
  BY DEF NotYet, NoConnLine, OneConn, OneConnecting
<1>5. Announced' = Announced
  BY DEF Announced
<1>6. InCall("connect") => Attempt' = Attempt
  BY <1>3, <1>4, <1>5 DEF Attempt, NoAttempt
<1>7. InCall("connect") /\ RightOne => RightOne'
  BY <1>3 DEF RightOne
<1>8. Stage'
  BY <1>3, <1>4, <1>6, <1>7 DEF Held, Stage, NoAttempt
<1>9. QED BY <1>1, <1>2, <1>8 DEF Held

\* the line at the head is taken, and the call goes on
LEMMA TakenHeld ==
  ASSUME TypeInv, Held, UNCHANGED <<stdin, ops, mgmt_q, conn_state, opt_dst, link>>,
         Pending # <<>>, Pending' = Tail(Pending), Mine' = Mine,
         InCall("connect") => ~DiscLine(Head(Pending)),
         InCall("connect")' <=> InCall("connect"),
         InCall("connect") => Top'.dst = Top.dst, last'.linked <=> last.linked
  PROVE  Held'
<1>1. Pending \in Seq(Line)
  BY PendingType
<1>2. \A i \in DOMAIN Pending' : i \in Nat /\ i + 1 \in DOMAIN Pending /\ Pending'[i] = Pending[i + 1]
  BY <1>1, Tailed
<1>3. InHand'
  <2>1. OnlyMine' /\ (NoneTold => NoneTold')
    BY <1>2 DEF Held, InHand, OnlyMine, NoneTold
  <2>2. OnePlace'
    BY <2>1 DEF Held, InHand, OnePlace, NoneAsked, NoneOpen, NoneQueued
  <2>3. \A i, j \in DOMAIN Pending' : Answers(Pending'[i]) /\ Answers(Pending'[j]) => i = j
    <3>1. SUFFICES ASSUME NEW i \in DOMAIN Pending', NEW j \in DOMAIN Pending',
                          Answers(Pending'[i]), Answers(Pending'[j])
                   PROVE  i = j
      OBVIOUS
    <3>2. i + 1 = j + 1
      BY <1>2, <3>1 DEF Held, InHand, Single
    <3>3. QED BY <1>2, <3>1, <3>2
  <2>4. Single'
    BY <2>3 DEF Held, InHand, Single
  <2>5. QED BY <2>1, <2>2, <2>4 DEF InHand
<1>4. Readable'
  BY DEF Held, Readable
<1>5. NoConn' = NoConn /\ NoConnecting' = NoConnecting /\ OneConn' = OneConn
      /\ OneConnecting' = OneConnecting
  BY DEF NoConn, NoConnecting, OneConn, OneConnecting
<1>6. (NotYet => NotYet') /\ (NoFail => NoFail')
  BY <1>2 DEF NotYet, NoConnLine, NoFail
<1>7. InCall("connect") /\ Announced => Announced'
  <2>1. SUFFICES ASSUME InCall("connect"), Announced, NEW i \in DOMAIN Pending',
                        FailLine(Pending'[i])
                 PROVE  \E j \in DOMAIN Pending' : j < i /\ DiscLine(Pending'[j])
    BY DEF Announced
  <2>2. i \in Nat /\ i + 1 \in DOMAIN Pending /\ FailLine(Pending[i + 1])
    BY <1>2, <2>1
  <2>3. PICK j \in DOMAIN Pending : j < i + 1 /\ DiscLine(Pending[j])
    BY <2>1, <2>2 DEF Announced
  <2>4. j # 1 /\ j \in Nat
    BY <1>1, <2>1, <2>3, Tailed
  <2>5. j - 1 \in DOMAIN Pending'
    BY <1>1, <2>3, <2>4, Tailed
  <2>6. Pending'[j - 1] = Pending[j] /\ j - 1 < i
    BY <1>2, <2>2, <2>3, <2>4, <2>5
  <2>7. QED BY <2>3, <2>5, <2>6
<1>8. InCall("connect") /\ Attempt => Attempt'
  BY <1>5, <1>6, <1>7 DEF Attempt, NoAttempt
<1>9. InCall("connect") /\ RightOne => RightOne'
  BY <1>2, <1>5 DEF RightOne
<1>10. Stage'
  BY <1>5, <1>6, <1>8, <1>9 DEF Held, Stage, NoAttempt
<1>11. QED BY <1>3, <1>4, <1>10 DEF Held

\* the line at the head is taken, and the call is over
LEMMA LeftHeld ==
  ASSUME TypeInv, Held, UNCHANGED <<stdin, ops, mgmt_q, conn_state, opt_dst, link>>,
         Pending # <<>>, Pending' = Tail(Pending), stack' = <<>>,
         Answers(Head(Pending)) \/ Mine = {}, NoAttempt, ~last'.linked => NotYet
  PROVE  Held'
<1>1. Pending \in Seq(Line)
  BY PendingType
<1>2. \A i \in DOMAIN Pending' : i \in Nat /\ i + 1 \in DOMAIN Pending /\ Pending'[i] = Pending[i + 1]
  BY <1>1, Tailed
<1>3. 1 \in DOMAIN Pending /\ Head(Pending) = Pending[1]
  BY <1>1, Tailed
<1>4. NoneAsked /\ NoneOpen /\ NoneQueued /\ NoneTold'
  <2>1. CASE Mine = {}
    BY <1>2, <2>1, NothingInHand DEF NoneTold
  <2>2. CASE Answers(Head(Pending))
    <3>1. ~NoneTold
      BY <1>3, <2>2 DEF NoneTold
    <3>2. NoneAsked /\ NoneOpen /\ NoneQueued
      BY <3>1 DEF Held, InHand, OnePlace
    <3>3. ASSUME NEW i \in DOMAIN Pending', Answers(Pending'[i]) PROVE FALSE
      <4>1. i \in Nat /\ i + 1 \in DOMAIN Pending /\ Answers(Pending[i + 1])
        BY <1>2, <3>3
      <4>2. i + 1 = 1
        BY <1>3, <2>2, <4>1 DEF Held, InHand, Single
      <4>3. i \in DOMAIN Tail(Pending)
        BY <3>3
      <4>4. i >= 1
        BY <1>1, <4>3
      <4>5. QED BY <4>1, <4>2, <4>4
    <3>4. QED BY <3>2, <3>3 DEF NoneTold
  <2>3. QED BY <2>1, <2>2
<1>5. NoneAsked' /\ NoneOpen' /\ NoneQueued'
  BY <1>4 DEF NoneAsked, NoneOpen, NoneQueued
<1>6. Mine' = {} /\ ~InCall("connect")'
  BY DEF Mine, InCall
<1>7. Len(<<>>) = 0 /\ DOMAIN <<>> = {}
  OBVIOUS
<1>8. Len(mgmt_q') = 0 /\ DOMAIN mgmt_q' = {}
  BY <1>5, <1>7, Zenon DEF NoneQueued
<1>9. \A b \in Chan : Len(ops'[b]) = 0 /\ DOMAIN ops'[b] = {} /\ ops'[b] = <<>>
  BY <1>5, <1>7, Zenon DEF NoneOpen
<1>10. OnlyMine'
  BY <1>4, <1>5, <1>8, <1>9 DEF OnlyMine, NoneAsked, NoneTold
<1>11. Single'
  BY <1>4, <1>5, <1>8, <1>9 DEF Single, NoneAsked, NoneTold
<1>12. InHand'
  BY <1>4, <1>5, <1>10, <1>11 DEF InHand, OnePlace
<1>13. Readable'
  BY DEF Held, Readable
<1>14. NoAttempt' /\ (NotYet => NotYet')
  BY <1>2 DEF NoAttempt, NoConn, NoConnecting, NoFail, NotYet, NoConnLine
<1>15. Stage'
  BY <1>6, <1>14 DEF Stage
<1>16. QED BY <1>12, <1>13, <1>15 DEF Held

LEMMA TakePending ==
  ASSUME TypeInv, lineq # <<>>, lineq' = Tail(lineq), UNCHANGED stdout
  PROVE  Pending # <<>> /\ Head(Pending) = Head(lineq) /\ Pending' = Tail(Pending)
<1>1. lineq \in Seq(Line) /\ stdout \in Seq(Line)
  BY DEF TypeInv, SessionTypeOK, TypeOK, WireTypeOK
<1>2. Pending \in Seq(Line) /\ Len(Pending) = Len(lineq) + Len(stdout) /\ Len(lineq) > 0
  BY <1>1 DEF Pending
<1>3. Pending # <<>> /\ Head(Pending) = Head(lineq)
  BY <1>1, <1>2 DEF Pending
<1>4. Tail(lineq) \in Seq(Line) /\ Len(Tail(lineq)) = Len(lineq) - 1
      /\ Tail(Pending) \in Seq(Line) /\ Len(Tail(Pending)) = Len(Pending) - 1
  BY <1>1, <1>2, <1>3
<1>5. /\ Tail(lineq) \o stdout \in Seq(Line)
      /\ Len(Tail(lineq) \o stdout) = Len(Tail(Pending))
  BY <1>1, <1>2, <1>4
<1>6. \A i \in 1 .. Len(Tail(Pending)) : Tail(Pending)[i] = (Tail(lineq) \o stdout)[i]
  BY <1>1, <1>2, <1>4 DEF Pending
<1>7. Tail(Pending) = Tail(lineq) \o stdout
  BY <1>4, <1>5, <1>6, SeqEqual
<1>8. QED BY <1>3, <1>7 DEF Pending

LEMMA ReadPending ==
  ASSUME TypeInv, ReadToQueue
  PROVE  Pending' = Pending
<1>1. lineq \in Seq(Line) /\ stdout \in Seq(Line) /\ stdout # <<>>
      /\ stdout' = Tail(stdout) /\ lineq' = Append(lineq, Head(stdout))
  BY DEF ReadToQueue, TypeInv, SessionTypeOK, TypeOK, WireTypeOK
<1>2. Append(lineq, Head(stdout)) = lineq \o <<Head(stdout)>>
  BY <1>1, AppendIsConcat
<1>3. <<Head(stdout)>> \o Tail(stdout) = stdout
      /\ <<Head(stdout)>> \in Seq(Line) /\ Tail(stdout) \in Seq(Line)
  <2>1. Head(stdout) \in Line /\ Tail(stdout) \in Seq(Line)
    BY <1>1
  <2>2. QED BY <1>1, <2>1
<1>4. (lineq \o <<Head(stdout)>>) \o Tail(stdout) = lineq \o (<<Head(stdout)>> \o Tail(stdout))
  BY <1>1, <1>3, ConcatAssociative
<1>5. QED BY <1>1, <1>2, <1>3, <1>4 DEF Pending

\* what a step keeps
Kept == Frames' /\ Reset' /\ (Alive' => Held') /\ Right(last')

\* a step of the library or of the reader thread
LibCtx == ClientCtx /\ Right(last) /\ UNCHANGED <<helper, proc>>

LEMMA LibFacts ==
  ASSUME LibCtx
  PROVE  /\ Plain /\ TypeInv /\ TypeInv' /\ Frames /\ Reset /\ Reset' /\ (Alive => Held) /\ Right(last)
         /\ UNCHANGED <<ops, mgmt_q, conn_state, opt_dst, link, proc>>
<1>1. UNCHANGED <<ops, mgmt_q, conn_state, opt_dst, link, proc>>
  BY DEF LibCtx, helper, conn, chans, mgmt
<1>2. QED BY <1>1 DEF LibCtx, ClientCtx, Reset

LEMMA ResultIs ==
  ASSUME NEW f, NEW how, NEW line
  PROVE  /\ Result(f, how, line).call = f.call /\ Result(f, how, line).how = how
         /\ Result(f, how, line).id = f.id /\ Result(f, how, line).dst = f.dst
         /\ Result(f, how, line).line = line
         /\ Result(f, how, line).linked <=>
              f.pc # "wait" /\ (last.linked \/ (f.call = "connect" /\ how = "ok"))
BY DEF Result

\* a result that is no answer
LEMMA NoAnswer ==
  ASSUME NEW f, NEW how, NEW line, how \notin {"ok", "gatt", "mgmt"}
  PROVE  Right(Result(f, how, line))
BY ResultIs DEF Right

LEMMA FramesGone ==
  ASSUME LibCtx, stack' = <<>>, UNCHANGED <<helper_up, partial>>,
         ~helper_up => ~last'.linked
  PROVE  Frames'
<1>1. Len(<<>>) = 0
  OBVIOUS
<1>2. Len(stack') = 0
  BY <1>1, Zenon
<1>3. QED BY <1>2, LibFacts DEF Frames

LEMMA FramesTop ==
  ASSUME LibCtx, stack # <<>>, stack' # <<>>, Len(stack') <= 1, Top'.call = Top.call,
         Top'.pc \in {"stop", "wait"} /\ Top'.call # "disconnect" => Top'.how = "disc",
         UNCHANGED <<helper_up, partial, last>>
  PROVE  Frames'
BY LibFacts DEF Frames

\* a call that goes on with the same lines before it
LEMMA GoesOn ==
  ASSUME LibCtx, stack # <<>>, NEW pc \in {"poll", "get"}, Goto(pc), Alive,
         UNCHANGED <<stdin, stdout, lineq, helper_up, partial, last>>
  PROVE  Kept
<1>1. /\ stack' # <<>> /\ Len(stack') <= 1
      /\ Top'.call = Top.call /\ Top'.id = Top.id /\ Top'.dst = Top.dst /\ Top'.pc = pc
  BY LibFacts, GotoTop
<1>2. Frames'
  BY <1>1, FramesTop
<1>3. Mine' = Mine /\ (InCall("connect")' <=> InCall("connect")) /\ Pending' = Pending
  BY <1>1 DEF Mine, InCall, Pending
<1>4. Held'
  BY <1>1, <1>3, LibFacts, KeptHeld
<1>5. QED BY <1>2, <1>4, LibFacts DEF Kept

\* waitForNotifications ends
LEMMA WaitEnds ==
  ASSUME LibCtx, stack # <<>>, Top.call = "waitForNotifications", Top.pc # "wait",
         NEW how, NEW line, Return(how, line), Alive,
         UNCHANGED <<stdin, helper_up, partial>>,
         Pending' = Pending \/ (Pending # <<>> /\ Pending' = Tail(Pending))
  PROVE  Kept
<1>1. stack' = <<>> /\ last' = Result(Top, how, line)
  BY LibFacts, TopGone
<1>2. last'.call = "waitForNotifications" /\ (last'.linked <=> last.linked)
  BY <1>1, ResultIs
<1>3. helper_up
  BY LibFacts DEF Frames
<1>4. Frames'
  BY <1>1, <1>3, FramesGone
<1>5. Right(last')
  BY <1>2 DEF Right, Answered
<1>6. ~InCall("connect") /\ ~InCall("connect")' /\ Mine = {} /\ Mine' = {}
  BY <1>1 DEF InCall, Mine, Asking
<1>7. Held'
  <2>1. CASE Pending' = Pending
    BY <1>2, <1>6, <2>1, LibFacts, KeptHeld
  <2>2. CASE Pending # <<>> /\ Pending' = Tail(Pending)
    <3>1. NoAttempt /\ (~last'.linked => NotYet)
      BY <1>2, <1>6, LibFacts DEF Held, Stage
    <3>2. QED BY <1>1, <1>6, <2>2, <3>1, LibFacts, LeftHeld
  <2>3. QED BY <2>1, <2>2
<1>8. QED BY <1>4, <1>5, <1>7, LibFacts DEF Kept

LEMMA PollKept ==
  ASSUME LibCtx, Poll
  PROVE  Kept
<1>1. /\ stack # <<>> /\ Top.pc = "poll" /\ helper_up
      /\ UNCHANGED <<stdin, stdout, lineq, helper_up, partial>>
  BY LibFacts DEF Poll, Running, Frames, wire
<1>2. CASE proc = "exited" /\ Raise("internal", NoLine)
  <2>1. stack' = <<>> /\ last' = Result(Top, "internal", NoLine)
    BY <1>1, <1>2, LibFacts, TopGone
  <2>2. Frames' /\ Right(last')
    BY <1>1, <2>1, FramesGone, NoAnswer
  <2>3. ~Alive'
    BY <1>2, <2>1, LibFacts DEF Alive
  <2>4. QED BY <2>2, <2>3, LibFacts DEF Kept
<1>3. CASE proc = "running" /\ Goto("get") /\ UNCHANGED last
  <2>1. Alive
    BY <1>1, <1>3 DEF Alive
  <2>2. QED BY <1>1, <1>3, <2>1, GoesOn
<1>4. QED BY <1>1, <1>2, <1>3 DEF Poll

LEMMA TimeoutKept ==
  ASSUME LibCtx, Timeout
  PROVE  Kept
<1>1. /\ stack # <<>> /\ Top.pc = "get" /\ Top.call \in Timed
      /\ UNCHANGED <<stdin, stdout, lineq, helper_up, partial>>
  BY DEF Timeout, Running, wire
<1>2. Top.call = "waitForNotifications"
  BY <1>1, LibFacts DEF Plain
<1>3. Return("none", NoLine)
  BY <1>2 DEF Timeout
<1>4. Alive
  BY <1>1, LibFacts DEF Alive, Frames
<1>5. Pending' = Pending
  BY <1>1 DEF Pending
<1>6. QED BY <1>1, <1>2, <1>3, <1>4, <1>5, WaitEnds

LEMMA CallbackDoneKept ==
  ASSUME LibCtx, CallbackDone
  PROVE  Kept
<1>1. /\ stack # <<>> /\ Top.pc = "cb" /\ helper_up
      /\ UNCHANGED <<stdin, stdout, lineq, helper_up, partial, proc>>
  BY LibFacts DEF CallbackDone, Running, Frames, wire
<1>2. Pending' = Pending
  BY <1>1 DEF Pending
<1>3. CASE proc # "running"
  <2>1. CASE Return("ok", Top.line) /\ Top.call = "waitForNotifications"
    <3>1. stack' = <<>> /\ last' = Result(Top, "ok", Top.line)
      BY <1>1, <2>1, LibFacts, TopGone
    <3>2. Frames'
      BY <1>1, <3>1, FramesGone
    <3>3. last'.call = "waitForNotifications"
      BY <2>1, <3>1, ResultIs
    <3>4. Right(last')
      BY <3>3 DEF Right, Answered
    <3>5. ~Alive'
      BY <1>1, <1>3, <3>1 DEF Alive
    <3>6. QED BY <3>2, <3>4, <3>5, LibFacts DEF Kept
  <2>2. CASE Goto("poll") /\ UNCHANGED last
    <3>1. stack' # <<>> /\ Len(stack') <= 1 /\ Top'.call = Top.call /\ Top'.pc = "poll"
      BY <1>1, <2>2, LibFacts, GotoTop
    <3>2. Frames'
      BY <1>1, <2>2, <3>1, FramesTop
    <3>3. ~Alive'
      BY <1>1, <1>3, <3>1 DEF Alive
    <3>4. QED BY <2>2, <3>2, <3>3, LibFacts DEF Kept
  <2>3. QED BY <2>1, <2>2 DEF CallbackDone, EndsOnNotice
<1>4. CASE proc = "running"
  <2>1. Alive
    BY <1>1, <1>4 DEF Alive
  <2>2. CASE Return("ok", Top.line) /\ Top.call = "waitForNotifications"
    BY <1>1, <1>2, <2>1, <2>2, WaitEnds
  <2>3. CASE Goto("poll") /\ UNCHANGED last
    BY <1>1, <2>1, <2>3, GoesOn
  <2>4. QED BY <2>2, <2>3 DEF CallbackDone, EndsOnNotice
<1>5. QED BY <1>3, <1>4

LEMMA WriteQuitKept ==
  ASSUME LibCtx, WriteQuit
  PROVE  Kept
<1>1. /\ stack # <<>> /\ Top.pc = "stop" /\ helper_up /\ UNCHANGED helper_up /\ ~partial
  BY LibFacts DEF WriteQuit, Running, Frames
<1>2. CASE proc = "exited" /\ Raise("pipe", NoLine) /\ UNCHANGED partial
  <2>1. stack' = <<>> /\ last' = Result(Top, "pipe", NoLine)
    BY <1>1, <1>2, LibFacts, TopGone
  <2>2. Frames' /\ Right(last')
    BY <1>1, <1>2, <2>1, FramesGone, NoAnswer
  <2>3. ~Alive'
    BY <1>2, <2>1, LibFacts DEF Alive
  <2>4. QED BY <2>2, <2>3, LibFacts DEF Kept
<1>3. CASE Goto("wait") /\ partial' = FALSE /\ UNCHANGED last
  <2>1. /\ stack' # <<>> /\ Len(stack') <= 1 /\ Top'.call = Top.call /\ Top'.pc = "wait"
        /\ Top'.how = Top.how
    BY <1>1, <1>3, LibFacts, GotoTop
  <2>2. Top'.call # "disconnect" => Top'.how = "disc"
    BY <1>1, <2>1, LibFacts DEF Frames
  <2>3. Frames'
    BY <1>1, <1>3, <2>1, <2>2, LibFacts DEF Frames
  <2>4. ~Alive'
    BY <2>1 DEF Alive
  <2>5. QED BY <1>3, <2>3, <2>4, LibFacts DEF Kept
<1>4. QED BY <1>2, <1>3 DEF WriteQuit

LEMMA WaitExitKept ==
  ASSUME LibCtx, WaitExit
  PROVE  Kept
<1>1. /\ stack # <<>> /\ Top.pc = "wait" /\ proc = "exited" /\ helper_up' = FALSE
      /\ UNCHANGED partial /\ AfterStop(Top.how, Top.line)
  BY DEF WaitExit, Running
<1>2. /\ stack' = <<>> /\ Len(stack') = 0 /\ last' = Result(Top, Top.how, Top.line)
  BY <1>1, LibFacts, TopGone DEF AfterStop
<1>3. ~last'.linked /\ last'.call = Top.call /\ last'.how = Top.how
  BY <1>1, <1>2, ResultIs
<1>4. Frames'
  BY <1>1, <1>2, <1>3, LibFacts DEF Frames
<1>5. Top.call # "disconnect" => Top.how = "disc"
  BY <1>1, LibFacts DEF Frames
<1>6. Right(last')
  BY <1>3, <1>5 DEF Right, Answered
<1>7. ~Alive'
  BY <1>1 DEF Alive
<1>8. QED BY <1>4, <1>6, <1>7, LibFacts DEF Kept

LEMMA ReadToQueueKept ==
  ASSUME LibCtx, ReadToQueue
  PROVE  Kept
<1>1. UNCHANGED <<stdin, helper_up, partial, stack, last>>
  BY DEF ReadToQueue
<1>2. Frames' /\ Right(last')
  BY <1>1, LibFacts DEF Frames, Top
<1>3. Pending' = Pending
  BY LibFacts, ReadPending
<1>4. Mine' = Mine /\ (InCall("connect")' <=> InCall("connect")) /\ (Alive' <=> Alive) /\ Top' = Top
  BY <1>1, LibFacts DEF Mine, InCall, Alive, Top
<1>5. Alive' => Held'
  BY <1>1, <1>3, <1>4, LibFacts, KeptHeld
<1>6. QED BY <1>2, <1>5, LibFacts DEF Kept

LEMMA TakeKept ==
  ASSUME LibCtx, Take
  PROVE  Kept
<1> DEFINE line == Head(lineq)
<1>1. /\ stack # <<>> /\ Top.pc = "get" /\ lineq # <<>> /\ lineq' = Tail(lineq)
      /\ UNCHANGED <<stdin, stdout, helper_up, partial>> /\ helper_up
      /\ Top.call \in Calls
  BY LibFacts DEF Take, Running, Frames, wire
<1>2. line \in Line /\ lineq \in Seq(Line)
  BY <1>1, LibFacts DEF TypeInv, SessionTypeOK
<1>3. Alive /\ Held
  BY <1>1, LibFacts DEF Alive
<1>4. Pending # <<>> /\ Head(Pending) = line /\ Pending' = Tail(Pending)
  BY <1>1, LibFacts, TakePending
<1>5. /\ Pending \in Seq(Line) /\ 1 \in DOMAIN Pending /\ Pending[1] = line
  BY <1>4, LibFacts, PendingType, Tailed
<1>6. Top \in Frame
  BY <1>1, LibFacts, TopIsFrame
<1>7. \/ Wanted(Top, line) /\ line.rsp \in Notice /\ Notify(line)
      \/ Wanted(Top, line) /\ line.rsp \notin Notice /\ Deliver(line)
      \/ ~Wanted(Top, line) /\ Unwanted(line)
  BY DEF Take
<1>8. Top.call \in {"connect", "disconnect", "getState", "waitForNotifications"} \cup Asking
      /\ Top.call \notin {"pair", "unpair", "setMTU", "setSecurityLevel"}
  BY <1>1, LibFacts DEF Plain, Asking
<1> HIDE DEF line
\* an answer at the head is the call's
<1>9. Answers(line) => line.re = Top.id /\ Top.call \in Asking
  BY <1>1, <1>3, <1>5 DEF Held, InHand, OnlyMine, Mine
<1>10. Top.call \notin Asking => Mine = {}
  BY DEF Mine
<1>11. ~FailLine(line)
  <2>1. CASE Top.call = "connect"
    <3>1. Attempt
      BY <1>1, <1>3, <2>1 DEF Held, Stage, InCall
    <3>2. ASSUME Announced, FailLine(line) PROVE FALSE
      <4>1. PICK j \in DOMAIN Pending : j < 1
        BY <1>5, <3>2 DEF Announced
      <4>2. QED BY <1>5, <4>1
    <3>3. QED BY <1>5, <3>1, <3>2 DEF Attempt, NoAttempt, NoFail
  <2>2. CASE Top.call # "connect"
    BY <1>3, <1>5, <2>2 DEF Held, Stage, InCall, NoAttempt, NoFail
  <2>3. QED BY <2>1, <2>2
<1>12. Top.call # "connect" => NoAttempt /\ (~last.linked => NotYet)
  BY <1>3 DEF Held, Stage, InCall
\* the call goes on
<1>13. ASSUME NEW f \in Frame, SetTop(f), UNCHANGED last, f.call = Top.call, f.id = Top.id,
              f.dst = Top.dst, f.pc \in {"poll", "cb"},
              Top.call = "connect" => ~DiscLine(line)
       PROVE  Kept
  <2>1. stack' # <<>> /\ Len(stack') <= 1 /\ Top' = f
    BY <1>1, <1>13, LibFacts, TopSet
  <2>2. Frames'
    BY <1>1, <1>13, <2>1, FramesTop
  <2>3. Mine' = Mine /\ (InCall("connect")' <=> InCall("connect"))
    BY <1>1, <1>13, <2>1 DEF Mine, InCall
  <2>4. InCall("connect") => ~DiscLine(Head(Pending)) /\ Top'.dst = Top.dst
    BY <1>4, <1>13, <2>1 DEF InCall
  <2>5. Held'
    BY <1>1, <1>3, <1>4, <1>13, <2>3, <2>4, LibFacts, TakenHeld
  <2>6. QED BY <1>13, <2>2, <2>5, LibFacts DEF Kept
<1>14. ASSUME Goto("poll"), UNCHANGED last, Top.call = "connect" => ~DiscLine(line)
       PROVE  Kept
  <2>1. /\ [Top EXCEPT !.pc = "poll"] \in Frame
        /\ [Top EXCEPT !.pc = "poll"].call = Top.call /\ [Top EXCEPT !.pc = "poll"].id = Top.id
        /\ [Top EXCEPT !.pc = "poll"].dst = Top.dst /\ [Top EXCEPT !.pc = "poll"].pc = "poll"
    BY <1>6 DEF Frame
  <2>2. QED BY <1>13, <1>14, <2>1 DEF Goto
\* the call is over
<1>15. ASSUME NEW how, Return(how, line) \/ Raise(how, line),
              Answers(line) \/ Top.call \notin Asking,
              Top.call = "connect" => how = "ok" /\ ConnLine(line),
              Right(Result(Top, how, line))
       PROVE  Kept
  <2>1. stack' = <<>> /\ last' = Result(Top, how, line)
    BY <1>1, <1>15, LibFacts, TopGone
  <2>2. Frames'
    BY <1>1, <2>1, FramesGone
  <2>3. last'.linked <=> last.linked \/ (Top.call = "connect" /\ how = "ok")
    BY <1>1, <2>1, ResultIs
  <2>4. NoAttempt /\ (~last'.linked => NotYet)
    <3>1. CASE Top.call = "connect"
      <4>1. Attempt
        BY <1>1, <1>3, <3>1 DEF Held, Stage, InCall
      <4>2. ~NotYet
        BY <1>5, <1>15, <3>1 DEF NotYet, NoConnLine
      <4>3. QED BY <1>15, <2>3, <3>1, <4>1, <4>2 DEF Attempt
    <3>2. CASE Top.call # "connect"
      BY <1>12, <2>3, <3>2
    <3>3. QED BY <3>1, <3>2
  <2>5. Answers(Head(Pending)) \/ Mine = {}
    BY <1>4, <1>10, <1>15
  <2>6. Held'
    BY <1>1, <1>3, <1>4, <2>1, <2>4, <2>5, LibFacts, LeftHeld
  <2>7. QED BY <1>15, <2>1, <2>2, <2>6, LibFacts DEF Kept
\* the helper is to be stopped
<1>16. ASSUME NEW how \in {"ok", "disc"}, StopThen(how, line), how = "disc" \/ Top.call = "disconnect"
       PROVE  Kept
  <2>1. /\ stack' # <<>> /\ Len(stack') <= 1 /\ UNCHANGED last
        /\ Top'.call = Top.call /\ Top'.pc = "stop" /\ Top'.how = how
    BY <1>1, <1>2, <1>16, LibFacts, StopTop
  <2>2. Frames'
    BY <1>1, <1>16, <2>1, FramesTop
  <2>3. ~Alive'
    BY <2>1 DEF Alive
  <2>4. QED BY <2>1, <2>2, <2>3, LibFacts DEF Kept
<1>17. CASE Wanted(Top, line) /\ line.rsp \in Notice /\ Notify(line)
  <2>1. ~DiscLine(line)
    BY <1>17 DEF Notice, DiscLine
  <2>2. CASE SetTop([Top EXCEPT !.pc = "cb", !.line = line]) /\ UNCHANGED last
    <3> DEFINE f == [Top EXCEPT !.pc = "cb", !.line = line]
    <3>1. f \in Frame /\ f.call = Top.call /\ f.id = Top.id /\ f.dst = Top.dst /\ f.pc = "cb"
      BY <1>2, <1>6 DEF Frame
    <3>2. SetTop(f) /\ UNCHANGED last
      BY <2>2
    <3> HIDE DEF f
    <3>3. QED BY <1>13, <2>1, <3>1, <3>2
  <2>3. CASE EndsOnNotice(Top) /\ Return("ok", line)
    <3>1. Top.call = "waitForNotifications" /\ Top.pc # "wait"
      BY <1>1, <2>3 DEF EndsOnNotice
    <3>2. QED BY <1>1, <1>3, <1>4, <2>3, <3>1, WaitEnds
  <2>4. CASE Goto("poll") /\ UNCHANGED last
    BY <1>14, <2>1, <2>4
  <2>5. QED BY <1>17, <2>2, <2>3, <2>4 DEF Notify
<1>18. CASE Wanted(Top, line) /\ line.rsp \notin Notice /\ Deliver(line)
  <2>1. CASE /\ Top.call = "connect" /\ line.tag = "tryconn"
             /\ SetTop([Top EXCEPT !.pc = "poll", !.tried = TRUE]) /\ UNCHANGED last
    <3> DEFINE f == [Top EXCEPT !.pc = "poll", !.tried = TRUE]
    <3>1. f \in Frame /\ f.call = Top.call /\ f.id = Top.id /\ f.dst = Top.dst /\ f.pc = "poll"
      BY <1>6 DEF Frame
    <3>2. SetTop(f) /\ UNCHANGED last /\ ~DiscLine(line)
      BY <2>1 DEF DiscLine
    <3> HIDE DEF f
    <3>3. QED BY <1>13, <3>1, <3>2
  <2>2. CASE StopThen("disc", line)
    BY <1>16, <2>2
  <2>3. CASE Top.call = "disconnect" /\ StopThen("ok", line)
    BY <1>16, <2>3
  <2>4. CASE /\ Top.call = "connect" => line.tag = "conn"
             /\ Top.call # "disconnect" /\ Return("ok", line)
    <3>1. Top.call = "connect" => ConnLine(line)
      BY <1>18, <2>4 DEF Wanted, WantType, ConnLine
    <3>2. Top.call \in Asking => Answers(line)
      BY <1>18 DEF Wanted, WantType, Asking, Answers, UsesGetResp
    <3>3. Right(Result(Top, "ok", line))
      <4>1. Top.call \in Answered => line.re = Top.id
        BY <1>8, <1>9, <3>2 DEF Answered, Asking
      <4>2. Top.call = "connect" => line.dst = Top.dst
        BY <1>1, <1>3, <1>5, <3>1 DEF Held, Stage, InCall, RightOne
      <4>3. QED BY <4>1, <4>2, ResultIs DEF Right
    <3>4. QED BY <1>15, <2>4, <3>1, <3>2, <3>3
  <2>5. QED BY <1>8, <1>18, <2>1, <2>2, <2>3, <2>4 DEF Deliver, Disconnected
<1>19. CASE ~Wanted(Top, line) /\ Unwanted(line)
  <2>1. Top.call = "connect" => line.rsp # "stat" /\ line.rsp \notin Notice
    BY <1>19 DEF Wanted, WantType, UsesGetResp
  <2>2. CASE StopThen("disc", line)
    BY <1>16, <2>2
  <2>3. CASE Goto("poll") /\ UNCHANGED last
    BY <1>14, <2>1, <2>3 DEF DiscLine
  <2>4. CASE line.rsp = "err"
    <3>1. Answers(line)
      BY <1>11, <2>4 DEF Answers, FailLine
    <3>2. PICK how \in {"mgmt", "gatt", "error"} : Raise(how, line)
      BY <1>19, <2>4 DEF Unwanted, LostConnection
    <3>3. Top.call \in Asking /\ line.re = Top.id /\ Top.call # "connect"
      BY <1>9, <3>1 DEF Asking
    <3>4. Right(Result(Top, how, line))
      BY <3>3, ResultIs DEF Right
    <3>5. QED BY <1>15, <3>1, <3>2, <3>3, <3>4
  <2>5. CASE line.rsp \notin {"stat", "scan", "err"} /\ Raise("internal", line)
    <3>1. Answers(line) \/ line.rsp \in Notice
      BY <1>2, <2>5 DEF Line, RspType, Answers, Notice
    <3>2. line.rsp \in Notice => Top.call \notin Asking
      BY <1>19 DEF Wanted, Asking, UsesGetResp
    <3>3. Top.call # "connect"
      BY <1>9, <2>1, <3>1 DEF Asking
    <3>4. QED BY <1>15, <2>5, <3>1, <3>2, <3>3, NoAnswer
  <2>6. QED BY <1>2, <1>19, <2>2, <2>3, <2>4, <2>5 DEF Unwanted, LostConnection
<1>20. QED BY <1>7, <1>17, <1>18, <1>19

LEMMA LibraryKept ==
  ASSUME LibCtx, Library
  PROVE  Kept
BY PollKept, TakeKept, TimeoutKept, CallbackDoneKept, WriteQuitKept, WaitExitKept DEF Library

-----------------------------------------------------------------------------
(* The application's calls.                                                 *)

AppCtx == ClientCtx /\ Right(last) /\ stack = <<>>

LEMMA AppFacts ==
  ASSUME AppCtx
  PROVE  /\ Plain /\ TypeInv /\ TypeInv' /\ Frames /\ Reset /\ Right(last) /\ stack = <<>>
         /\ (Alive <=> helper_up /\ proc = "running")
         /\ helper_up /\ proc = "running" => Held
         /\ Mine = {} /\ ~InCall("connect")
         /\ ncmd + 1 \in Nat /\ stdin \in Seq(Command)
BY DEF AppCtx, ClientCtx, Alive, Mine, InCall, TypeInv, SessionTypeOK, TypeOK, WireTypeOK

LEMMA PlainCall ==
  ASSUME Plain, NEW call \in Calls, call # "waitForNotifications",
         NEW id \in Nat, NEW dst \in Addr \cup {NoAddr}, NEW arg \in Nat
  PROVE  /\ call \in Methods /\ call \notin {"setMTU", "setRemoteOOB"}
         /\ Cmd(Verb(call), id, dst, arg) \in Command
<1>1. call \in Methods \ {"waitForNotifications", "setRemoteOOB", "setMTU"}
  BY ClientAssumption DEF Plain
<1>2. QED BY <1>1, VerbType DEF Cmd, Command

\* refused before anything is written
LEMMA RefusedKept ==
  ASSUME AppCtx, NEW call, NEW how \in {"internal", "pipe"}, Refused(call, how),
         UNCHANGED <<helper, proc>>, ~helper_up \/ proc = "exited"
  PROVE  Kept
<1>1. LibCtx
  BY DEF LibCtx, AppCtx
<1>2. stack' = <<>> /\ UNCHANGED <<helper_up, partial>> /\ last'.how = how
      /\ last'.linked = last.linked
  BY DEF Refused, Ended
<1>3. Frames'
  BY <1>1, <1>2, FramesGone, AppFacts DEF Frames
<1>4. Right(last')
  BY <1>2 DEF Right
<1>5. ~Alive'
  BY <1>1, <1>2, LibFacts DEF Alive
<1>6. QED BY <1>1, <1>3, <1>4, <1>5, LibFacts DEF Kept

\* a call's command is written to the helper that runs
LEMMA WrittenKept ==
  ASSUME AppCtx, NEW call \in Calls, call # "waitForNotifications",
         NEW dst \in Addr \cup {NoAddr}, call = "connect" => dst \in Addr /\ ~last.linked,
         helper_up, proc = "running", UNCHANGED <<helper, proc>>, partial' = FALSE,
         NEW arg \in Nat, stdin' = Append(stdin, Cmd(Verb(call), ncmd + 1, dst, arg)),
         Enter(call, dst, ncmd + 1), UNCHANGED <<stdout, lineq, helper_up, last>>
  PROVE  Kept
<1>1. LibCtx /\ Held
  BY AppFacts DEF LibCtx, AppCtx
<1>2. call \in Methods /\ Cmd(Verb(call), ncmd + 1, dst, arg) \in Command
  BY AppFacts, PlainCall
<1>3. /\ stack' # <<>> /\ Len(stack') <= 1
      /\ Top'.call = call /\ Top'.id = ncmd + 1 /\ Top'.dst = dst /\ Top'.pc = "poll"
  BY <1>2, AppFacts, TopEntered
<1>4. Frames'
  BY <1>3, AppFacts DEF Frames
<1>5. NoneAsked /\ NoneOpen /\ NoneQueued /\ NoneTold
  BY <1>1, AppFacts, NothingInHand
<1>6. NoAttempt /\ (~last.linked => NotYet)
  BY <1>1, AppFacts DEF Held, Stage
<1>7. \A i \in DOMAIN stdin : stdin[i].verb \in {"disc", "stat"}
  BY <1>1, <1>5, <1>6 DEF Held, Readable, NoneAsked, NoAttempt, NoConn
<1>8. Pending' = Pending
  BY DEF Pending
<1>9. /\ NoneOpen' /\ NoneQueued' /\ NoneTold' /\ NoConnecting' /\ NoFail'
      /\ (~last'.linked => NotYet')
  BY <1>1, <1>5, <1>6, <1>8, LibFacts
  DEF NoneOpen, NoneQueued, NoneTold, NoAttempt, NoConnecting, NoFail, NotYet, NoConnLine
<1>10. call = "connect" => NotYet' /\ dst \in Addr
  BY <1>9
<1>11. Held'
  BY <1>2, <1>3, <1>7, <1>9, <1>10, AppFacts, EnteredHeld
<1>12. QED BY <1>1, <1>4, <1>11, LibFacts DEF Kept

LEMMA WriteCmdKept ==
  ASSUME AppCtx, NEW call \in Calls, call # "waitForNotifications",
         NEW dst \in Addr \cup {NoAddr}, call = "connect" => dst \in Addr /\ ~last.linked,
         WriteCmd(call, dst), ClientStep
  PROVE  Kept
<1>1. UNCHANGED <<helper, proc>>
  BY DEF WriteCmd, Refused, wire, ClientStep, Spawned
<1>2. CASE ~helper_up /\ Refused(call, "internal")
  BY <1>1, <1>2, RefusedKept
<1>3. CASE helper_up /\ proc = "exited" /\ Refused(call, "pipe")
  BY <1>1, <1>3, RefusedKept
<1>4. CASE /\ helper_up /\ proc = "running"
           /\ \E cmd \in Written(Cmd(Verb(call), ncmd + 1, dst, IF call = "setMTU" THEN MtuWanted ELSE 1)) :
                stdin' = Append(stdin, cmd)
           /\ partial' = FALSE /\ Enter(call, dst, ncmd + 1)
           /\ UNCHANGED <<stdout, lineq, helper_up, last>>
  <2>1. ~partial /\ 1 \in Nat
    BY AppFacts DEF Frames
  <2>2. call # "setMTU"
    BY <2>1, AppFacts, PlainCall
  <2>3. stdin' = Append(stdin, Cmd(Verb(call), ncmd + 1, dst, 1))
    BY <1>4, <2>1, <2>2 DEF Written
  <2>4. QED BY <1>1, <1>4, <2>1, <2>3, WrittenKept
<1>5. QED BY <1>2, <1>3, <1>4 DEF WriteCmd

\* a helper is started, and its first command written
LEMMA StartWithKept ==
  ASSUME AppCtx, NEW call \in Calls, call # "waitForNotifications",
         NEW dst \in Addr \cup {NoAddr}, call = "connect" => dst \in Addr,
         StartWith(call, dst), ClientStep
  PROVE  Kept
<1>1. /\ ~helper_up /\ helper_up' /\ proc' = "running" /\ stdout' = <<>> /\ lineq' = <<>>
      /\ stdin' = <<Cmd(Verb(call), ncmd + 1, dst, 1)>> /\ partial' = FALSE
      /\ Enter(call, dst, ncmd + 1) /\ UNCHANGED last
  BY DEF StartWith, StartHelper, NewQueue
<1>2. proc # "running" /\ ~last.linked /\ ~last'.linked
  BY <1>1, AppFacts DEF Frames
<1>3. UNCHANGED <<conn_state, opt_dst, link, ops, mgmt_q>>
  BY <1>1, <1>2 DEF ClientStep, Spawned, Boot, conn, chans
<1>4. /\ conn_state' = "disc" /\ mgmt_q' = <<>>
      /\ \A c \in Chan : link'[c] = "none" /\ ops'[c] = <<>>
  BY <1>2, <1>3, AppFacts DEF Reset
<1>5. call \in Methods /\ Cmd(Verb(call), ncmd + 1, dst, 1) \in Command
  BY AppFacts, PlainCall
<1>6. /\ stack' # <<>> /\ Len(stack') <= 1
      /\ Top'.call = call /\ Top'.id = ncmd + 1 /\ Top'.dst = dst /\ Top'.pc = "poll"
  BY <1>1, <1>5, AppFacts, TopEntered
<1>7. Frames' /\ Reset' /\ Right(last')
  BY <1>1, <1>2, <1>6, AppFacts DEF Frames, Reset
<1>8. Pending' = <<>> /\ DOMAIN Pending' = {}
  <2>1. <<>> \o <<>> = <<>> /\ DOMAIN <<>> = {}
    OBVIOUS
  <2>2. Pending' = <<>>
    BY <1>1, <2>1, Zenon DEF Pending
  <2>3. QED BY <2>1, <2>2, Zenon
<1>9. /\ NoneOpen' /\ NoneQueued' /\ NoneTold' /\ NoConnecting' /\ NoFail' /\ NotYet'
  BY <1>4, <1>8
  DEF NoneOpen, NoneQueued, NoneTold, NoConnecting, NoFail, NotYet, NoConnLine
<1>10. Held'
  <2> DEFINE cmd == Cmd(Verb(call), ncmd + 1, dst, 1)
  <2>1. stdin' = <<cmd>>
    BY <1>1
  <2> HIDE DEF cmd
  <2>2. <<>> \in Seq(Command) /\ DOMAIN <<>> = {} /\ Append(<<>>, cmd) = <<cmd>>
    OBVIOUS
  <2>3. stdin' = Append(<<>>, cmd)
    BY <2>1, <2>2
  <2>4. \A i \in DOMAIN <<>> : <<>>[i].verb \in {"disc", "stat"}
    BY <2>2
  <2> USE DEF cmd
  <2>5. stdin' = Append(<<>>, Cmd(Verb(call), ncmd + 1, dst, 1))
    BY <2>3
  <2>6. QED BY <1>5, <1>6, <1>9, <2>2, <2>4, <2>5, AppFacts, EnteredHeld
<1>11. QED BY <1>7, <1>10 DEF Kept

LEMMA ApplicationKept ==
  ASSUME ClientCtx, Right(last), Application, ClientStep
  PROVE  Kept
<1>1. MayCall => AppCtx
  BY Zenon DEF MayCall, AppCtx, ClientCtx, Plain
<1>2. ASSUME NEW dst \in Addr, Connect(dst)
      PROVE  Kept
  <2>1. AppCtx /\ "connect" \in Calls /\ (~helper_up \/ ~last.linked)
    BY <1>1, <1>2 DEF Connect, MayConnect
  <2>2. ~last.linked
    BY <2>1, AppFacts DEF Frames
  <2>3. QED BY <1>2, <2>1, <2>2, StartWithKept, WriteCmdKept DEF Connect
<1>3. CASE Disconnect
  <2>1. AppCtx /\ "disconnect" \in Calls
    BY <1>1, <1>3 DEF Disconnect
  <2>2. QED BY <1>3, <2>1, WriteCmdKept DEF Disconnect
<1>4. CASE WithDelegate
  <2>1. /\ AppCtx
        /\ UNCHANGED <<stdin, stdout, proc, helper_up, lineq, partial, stack, last>>
    BY <1>1, <1>4 DEF WithDelegate, wire
  <2>2. UNCHANGED helper
    BY <2>1 DEF ClientStep, Spawned
  <2>3. LibCtx /\ Alive' = Alive /\ Pending' = Pending
    BY <2>1, <2>2 DEF LibCtx, AppCtx, Alive, Top, Pending
  <2>4. Mine' = Mine /\ (InCall("connect")' <=> InCall("connect")) /\ Top' = Top
    BY <2>1 DEF Mine, InCall, Top
  <2>5. Frames'
    BY <2>1, <2>3, AppFacts DEF Frames
  <2>6. Alive' => Held'
    BY <2>1, <2>3, <2>4, LibFacts, KeptHeld
  <2>7. QED BY <2>1, <2>3, <2>5, <2>6, LibFacts DEF Kept
<1>5. CASE WaitForNotifications
  <2>1. /\ AppCtx /\ helper_up /\ "waitForNotifications" \in Calls
        /\ UNCHANGED <<stdin, stdout, proc, helper_up, lineq, partial, last>>
        /\ Enter("waitForNotifications", NoAddr, 0)
    BY <1>1, <1>5 DEF WaitForNotifications, wire
  <2>2. UNCHANGED helper
    BY <2>1 DEF ClientStep, Spawned
  <2>3. LibCtx /\ Pending' = Pending
    BY <2>1, <2>2 DEF LibCtx, AppCtx, Pending
  <2>4. /\ stack' # <<>> /\ Len(stack') <= 1 /\ Top'.call = "waitForNotifications"
        /\ Top'.pc = "poll"
    BY <2>1, AppFacts, TopEntered DEF Methods
  <2>5. Frames'
    BY <2>1, <2>3, <2>4, AppFacts DEF Frames
  <2>6. Alive' => Alive
    BY <2>1, <2>4, AppFacts DEF Alive
  <2>7. Mine' = Mine /\ ~InCall("connect") /\ ~InCall("connect")'
    BY <2>1, <2>4, AppFacts DEF Mine, InCall, Asking
  <2>8. Alive' => Held'
    BY <2>1, <2>3, <2>6, <2>7, LibFacts, KeptHeld
  <2>9. QED BY <2>1, <2>3, <2>5, <2>8, LibFacts DEF Kept
<1>6. CASE SetRemoteOOB
  BY <1>6 DEF SetRemoteOOB, ClientCtx, Plain
<1>7. CASE GetLocalOOB
  <2>1. AppCtx /\ "getLocalOOB" \in Calls
    BY <1>1, <1>7 DEF GetLocalOOB
  <2>2. QED BY <1>7, <2>1, StartWithKept, WriteCmdKept DEF GetLocalOOB
<1>8. ASSUME NEW call \in Calls, Request(call)
      PROVE  Kept
  <2>1. AppCtx /\ call \notin {"connect", "waitForNotifications"} /\ WriteCmd(call, NoAddr)
    BY <1>1, <1>8 DEF Request
  <2>2. QED BY <2>1, WriteCmdKept
<1>9. QED BY <1>2, <1>3, <1>4, <1>5, <1>6, <1>7, <1>8 DEF Application

LEMMA ClientStepKept ==
  ASSUME ClientCtx, Right(last), ClientStep
  PROVE  Kept
<1>1. CASE Library
  <2>1. UNCHANGED proc
    BY <1>1 DEF Library, Poll, Take, Timeout, CallbackDone, WriteQuit, WaitExit, wire
  <2>2. LibCtx
    BY <2>1 DEF LibCtx, ClientStep, Spawned
  <2>3. QED BY <1>1, <2>2, LibraryKept
<1>2. CASE ReadToQueue
  <2>1. LibCtx
    BY <1>2 DEF LibCtx, ClientStep, Spawned, ReadToQueue
  <2>2. QED BY <1>2, <2>1, ReadToQueueKept
<1>3. QED BY <1>1, <1>2, ApplicationKept DEF ClientStep

\* the process runs on, or has nothing in hand
LEMMA GoneReset ==
  ASSUME HelperStep \/ Gone, proc = "running"
  PROVE  Reset'
<1>1. CASE Gone
  BY <1>1 DEF Gone, Reset
<1>2. CASE proc' = proc
  BY <1>2 DEF Reset
<1>3. HelperStep => Gone \/ proc' = proc
  BY DEF HelperStep, PromptRead, AddOobAborts, PromptEof, Exit, FlushBearer, wire
<1>4. QED BY <1>1, <1>2, <1>3

LEMMA HelperKept ==
  ASSUME ClientCtx, Right(last), Helping \/ Killed
  PROVE  Kept
<1>1. UNCHANGED client /\ proc = "running"
  BY DEF Helping, Killed, HelperStep
<1>2. Reset'
  BY <1>1, GoneReset DEF Helping, Killed
<1>3. Frames' /\ Right(last')
  BY <1>1 DEF ClientCtx, Frames, client, Top
<1>4. Alive' => Alive
  BY <1>1 DEF Alive, client, Top
<1>5. ASSUME Held PROVE Held'
  <2>1. CASE Helping
    BY <1>5, <2>1, HelperStepHeld DEF Helping, ClientCtx
  <2>2. CASE Killed
    <3>1. CallCtx
      BY <1>1, <1>5, <2>2 DEF CallCtx, HelperCtx, ClientCtx, Killed
    <3>2. UNCHANGED stdout /\ OpsQuiet /\ ConnQuiet
      BY <2>2, <3>1, CallReads, GoneQuiet DEF Killed
    <3>3. InHand' /\ Stage'
      BY <3>1, <3>2, CallReads, QuietSilent
    <3>4. Readable'
      BY <1>5, <3>1 DEF CallCtx, Held, Readable
    <3>5. QED BY <3>3, <3>4 DEF Held
  <2>3. QED BY <2>1, <2>2, <1>5
<1>6. QED BY <1>2, <1>3, <1>4, <1>5 DEF Kept, ClientCtx

-----------------------------------------------------------------------------
(* The theorems.                                                            *)

\* the inductive invariant
OwnInv == Frames /\ Reset /\ (Alive => Held) /\ Right(last)

LEMMA OwnInit ==
  ASSUME SessionInit
  PROVE  OwnInv
<1>1. /\ stack = <<>> /\ ~helper_up /\ ~partial /\ proc = "none" /\ ~last.linked
      /\ last.call = "none"
  BY DEF SessionInit, ClientInit, WireInit
<1>2. Len(<<>>) = 0
  OBVIOUS
<1>3. Len(stack) = 0
  BY <1>1, <1>2, Zenon
<1>4. Frames
  BY <1>1, <1>3 DEF Frames
<1>5. Reset
  BY DEF SessionInit, Init, Reset
<1>6. ~Alive
  BY <1>1 DEF Alive
<1>7. Right(last)
  BY <1>1 DEF Right, Answered
<1>8. QED BY <1>4, <1>5, <1>6, <1>7 DEF OwnInv

LEMMA OwnNext ==
  ASSUME Plain, TypeInv, TypeInv', OwnInv, [Next]_vars
  PROVE  OwnInv'
<1>1. ClientCtx /\ Right(last)
  BY DEF ClientCtx, OwnInv
<1>2. CASE Next
  BY <1>1, <1>2, ClientStepKept, HelperKept DEF Next, Kept, OwnInv
<1>3. CASE UNCHANGED vars
  <2>1. UNCHANGED <<stdin, ops, mgmt_q, conn_state, opt_dst, link, stdout, lineq, stack,
                    last, helper_up, partial, proc>>
    BY <1>3 DEF vars, wire, client, helper, conn, chans, mgmt
  <2>2. Pending' = Pending /\ Mine' = Mine /\ Alive' = Alive /\ Top' = Top
        /\ InCall("connect")' = InCall("connect")
    BY <2>1 DEF Pending, Mine, Alive, Top, InCall
  <2>3. Held => Held'
    BY <2>1, <2>2, KeptHeld
  <2>4. Frames' /\ Reset' /\ Right(last')
    BY <2>1, <2>2 DEF OwnInv, Frames, Reset
  <2>5. QED BY <2>2, <2>3, <2>4 DEF OwnInv
<1>4. QED BY <1>2, <1>3

LEMMA OwnAlways ==
  ASSUME Plain
  PROVE  Spec => []OwnInv
<1>1. SessionInit => OwnInv
  BY OwnInit
<1>2. TypeInv /\ TypeInv' /\ OwnInv /\ [Next]_vars => OwnInv'
  BY OwnNext
<1>3. QED BY <1>1, <1>2, SessionTypeCorrect, PTL DEF Spec

\* A value that a call returns was read by that very call: for calls waited for
\* to their end, no answer is left over for, or taken by, another one.
THEOREM OwnAnswerAlways ==
  ASSUME Plain
  PROVE  Spec => []OwnAnswer
<1>1. TypeInv /\ OwnInv => OwnAnswer
  BY DEF TypeInv, OwnInv, Right, OwnAnswer
<1>2. QED BY <1>1, OwnAlways, SessionTypeCorrect, PTL

\* connect() returns normally only when the helper is talking to the device it
\* was asked for, whatever was connected, lost or refused before.
THEOREM ConnectedToTheRightOneAlways ==
  ASSUME Plain
  PROVE  Spec => []ConnectedToTheRightOne
<1>1. OwnInv => ConnectedToTheRightOne
  BY DEF OwnInv, Right, ConnectedToTheRightOne
<1>2. QED BY <1>1, OwnAlways, PTL

-----------------------------------------------------------------------------
(* The MTU of the helper and of the program.  As long as no setMTU leaves a *)
(* number the peripheral has not agreed to, whatever opt_mtu is now, the    *)
(* last "stat" line on its way says so; if none is, the program knows.      *)

IsStat(l) == l.rsp = "stat"
Silent(q) == \A i \in DOMAIN q : ~IsStat(q[i])

\* who has read the lines of q knows x, if it knew m
Tells(q, m, x) ==
  \/ Silent(q) /\ x = m
  \/ \E i \in DOMAIN q : /\ IsStat(q[i]) /\ q[i].mtu = x
                         /\ \A j \in DOMAIN q : j > i => ~IsStat(q[j])

NoMtu ==
  /\ \A i \in DOMAIN stdin : stdin[i].verb # "mtu"
  /\ \A b \in Chan : \A i \in DOMAIN ops[b] : ops[b][i].verb # "mtu"

Heard == NoMtu /\ Tells(Pending, mtu, opt_mtu)

MtuInv ==
  /\ NoMtu
  /\ helper_up \/ proc # "running"
  /\ IF proc = "running" THEN Tells(Pending, mtu, opt_mtu) ELSE opt_mtu = 0

\* one more line: a "stat" line says it, any other line leaves it
LEMMA TellsOne ==
  ASSUME NEW q \in Seq(Line), NEW l \in Line, NEW m, NEW x, NEW y, Tells(q, m, x),
         IF IsStat(l) THEN l.mtu = y ELSE x = y
  PROVE  Tells(q \o <<l>>, m, y)
<1> DEFINE r == q \o <<l>>
           n == Len(q)
<1>1. /\ n \in Nat /\ DOMAIN q = 1 .. n /\ DOMAIN r = 1 .. n + 1
      /\ r[n + 1] = l /\ \A i \in 1 .. n : r[i] = q[i]
  OBVIOUS
<1> HIDE DEF r, n
<1>2. CASE IsStat(l)
  <2>1. n + 1 \in DOMAIN r /\ IsStat(r[n + 1]) /\ r[n + 1].mtu = y
    BY <1>1, <1>2
  <2>2. \A j \in DOMAIN r : ~(j > n + 1)
    BY <1>1
  <2>3. Tells(r, m, y)
    BY <2>1, <2>2 DEF Tells
  <2>4. QED BY <2>3 DEF r
<1>3. CASE ~IsStat(l) /\ Silent(q) /\ x = m
  <2>1. \A i \in DOMAIN r : i \in DOMAIN q \/ r[i] = l
    BY <1>1
  <2>2. Silent(r)
    BY <1>1, <1>3, <2>1 DEF Silent
  <2>3. Tells(r, m, y)
    BY <1>3, <2>2 DEF Tells
  <2>4. QED BY <2>3 DEF r
<1>4. ASSUME ~IsStat(l), NEW i \in DOMAIN q, IsStat(q[i]), q[i].mtu = x,
             \A j \in DOMAIN q : j > i => ~IsStat(q[j])
      PROVE  Tells(q \o <<l>>, m, y)
  <2>1. i \in DOMAIN r /\ IsStat(r[i]) /\ r[i].mtu = y
    BY <1>1, <1>4
  <2>2. ASSUME NEW j \in DOMAIN r, j > i
        PROVE  ~IsStat(r[j])
    <3>1. j \in DOMAIN q \/ j = n + 1
      BY <1>1
    <3>2. QED BY <1>1, <1>4, <2>2, <3>1
  <2>3. Tells(r, m, y)
    BY <2>1, <2>2 DEF Tells
  <2>4. QED BY <2>3 DEF r
<1>5. QED BY <1>2, <1>3, <1>4 DEF Tells

\* lines none of which is a "stat" line
LEMMA TellsMore ==
  ASSUME NEW q \in Seq(Line), NEW lines \in Seq(Line), NEW m, NEW x, Tells(q, m, x),
         Silent(lines)
  PROVE  Tells(q \o lines, m, x)
<1> DEFINE r == q \o lines
           n == Len(q)
<1>1. /\ n \in Nat /\ DOMAIN q = 1 .. n
      /\ \A i \in DOMAIN q : i \in DOMAIN r /\ r[i] = q[i]
      /\ \A i \in DOMAIN r :
           i \in DOMAIN q \/ (i - n \in DOMAIN lines /\ r[i] = lines[i - n])
  BY Appended
<1> HIDE DEF r, n
<1>2. \A i \in DOMAIN r : i \in DOMAIN q \/ ~IsStat(r[i])
  BY <1>1 DEF Silent
<1>3. Tells(r, m, x)
  <2>1. CASE Silent(q) /\ x = m
    BY <1>1, <1>2, <2>1 DEF Silent, Tells
  <2>2. CASE \E i \in DOMAIN q : /\ IsStat(q[i]) /\ q[i].mtu = x
                                 /\ \A j \in DOMAIN q : j > i => ~IsStat(q[j])
    BY <1>1, <1>2, <2>2 DEF Tells
  <2>3. QED BY <2>1, <2>2 DEF Tells
<1>4. QED BY <1>3 DEF r

\* the first line was read
LEMMA TellsLess ==
  ASSUME NEW q \in Seq(Line), q # <<>>, NEW m, NEW x, Tells(q, m, x)
  PROVE  Tells(Tail(q), IF IsStat(Head(q)) THEN Head(q).mtu ELSE m, x)
<1> DEFINE t == Tail(q)
           k == IF IsStat(Head(q)) THEN Head(q).mtu ELSE m
<1>1. /\ Head(q) = q[1] /\ 1 \in DOMAIN q
      /\ \A i \in DOMAIN t : i + 1 \in DOMAIN q /\ t[i] = q[i + 1] /\ i \in Nat /\ i >= 1
      /\ \A i \in DOMAIN q : i \in Nat /\ i >= 1
                             /\ (i = 1 \/ (i - 1 \in DOMAIN t /\ t[i - 1] = q[i]))
  OBVIOUS
<1> HIDE DEF t
<1>2. CASE Silent(q) /\ x = m
  <2>1. Silent(t) /\ ~IsStat(Head(q))
    BY <1>1, <1>2 DEF Silent
  <2>2. Tells(t, k, x)
    BY <1>2, <2>1 DEF Tells
  <2>3. QED BY <2>2 DEF t
<1>3. ASSUME NEW i \in DOMAIN q, IsStat(q[i]), q[i].mtu = x,
             \A j \in DOMAIN q : j > i => ~IsStat(q[j])
      PROVE  Tells(t, k, x)
  <2>1. CASE i = 1
    <3>1. k = x
      BY <1>1, <1>3, <2>1
    <3>2. ASSUME NEW j \in DOMAIN t
          PROVE  ~IsStat(t[j])
      <4>1. j + 1 \in DOMAIN q /\ t[j] = q[j + 1] /\ j + 1 > 1
        BY <1>1
      <4>2. QED BY <1>3, <2>1, <4>1
    <3>3. QED BY <3>1, <3>2 DEF Tells, Silent
  <2>2. CASE i # 1
    <3>1. i - 1 \in DOMAIN t /\ t[i - 1] = q[i]
      BY <1>1, <2>2
    <3>2. ASSUME NEW j \in DOMAIN t, j > i - 1
          PROVE  ~IsStat(t[j])
      <4>1. j + 1 \in DOMAIN q /\ t[j] = q[j + 1] /\ j + 1 > i
        BY <1>1, <3>2
      <4>2. QED BY <1>3, <4>1
    <3>3. QED BY <1>3, <3>1, <3>2 DEF Tells
  <2>3. QED BY <2>1, <2>2
<1>4. Tells(t, k, x)
  BY <1>2, <1>3 DEF Tells, t
<1>5. QED BY <1>4 DEF t

MtuCtx == TypeInv /\ Heard /\ UNCHANGED client

\* the requests are those there were, or fewer, or with a part of their answer
OpsFewer ==
  \A b \in Chan : \A i \in DOMAIN ops'[b] :
    \E k \in DOMAIN ops[b] : ops'[b][i].verb = ops[b][k].verb

LEMMA HeardSay ==
  ASSUME MtuCtx, NEW l \in Line, Say(<<l>>), NoMtu',
         IF IsStat(l) THEN l.mtu = opt_mtu' ELSE opt_mtu' = opt_mtu
  PROVE  Heard'
<1>1. TypeInv /\ Tells(Pending, mtu, opt_mtu) /\ UNCHANGED <<lineq, mtu>>
  BY DEF MtuCtx, Heard, client
<1>2. <<l>> \in Seq(Line)
  OBVIOUS
<1>3. Pending \in Seq(Line) /\ Pending' = Pending \o <<l>>
  BY <1>1, <1>2, PendingType, PendingGrows
<1>4. IF IsStat(l) THEN l.mtu = opt_mtu' ELSE opt_mtu = opt_mtu'
  OBVIOUS
<1>5. Tells(Pending \o <<l>>, mtu, opt_mtu')
  BY <1>1, <1>3, <1>4, TellsOne
<1>6. Tells(Pending, mtu, opt_mtu)'
  BY <1>1, <1>3, <1>5
<1>7. QED BY <1>6 DEF Heard

LEMMA HeardSayTwo ==
  ASSUME MtuCtx, NEW l \in Line, NEW k \in Line, Say(<<l, k>>), NoMtu',
         UNCHANGED opt_mtu, IsStat(l) => l.mtu = opt_mtu, IsStat(k) => k.mtu = opt_mtu
  PROVE  Heard'
<1>1. TypeInv /\ Tells(Pending, mtu, opt_mtu) /\ UNCHANGED <<lineq, mtu>>
  BY DEF MtuCtx, Heard, client
<1>2. <<l>> \in Seq(Line) /\ <<k>> \in Seq(Line) /\ <<l, k>> \in Seq(Line)
  OBVIOUS
<1>8. <<l, k>> = <<l>> \o <<k>>
  <2>1. /\ <<l>> \o <<k>> \in Seq(Line) /\ Len(<<l>> \o <<k>>) = 2
        /\ (<<l>> \o <<k>>)[1] = l /\ (<<l>> \o <<k>>)[2] = k
    BY <1>2
  <2>2. Len(<<l, k>>) = 2 /\ <<l, k>>[1] = l /\ <<l, k>>[2] = k
    OBVIOUS
  <2>3. \A i \in 1 .. Len(<<l, k>>) : <<l, k>>[i] = (<<l>> \o <<k>>)[i]
    BY <2>1, <2>2
  <2>4. QED BY <1>2, <2>1, <2>2, <2>3, SeqEqual
<1>3. Pending \in Seq(Line) /\ Pending' = Pending \o <<l, k>>
  BY <1>1, <1>2, PendingType, PendingGrows
<1>4. Pending \o <<l, k>> = (Pending \o <<l>>) \o <<k>> /\ Pending \o <<l>> \in Seq(Line)
  BY <1>2, <1>3, <1>8, ConcatAssociative, ConcatProperties
<1>5. Tells(Pending \o <<l>>, mtu, opt_mtu)
  BY <1>1, <1>3, TellsOne
<1>6. Tells((Pending \o <<l>>) \o <<k>>, mtu, opt_mtu)
  BY <1>4, <1>5, TellsOne
<1>7. Tells(Pending, mtu, opt_mtu)'
  BY <1>1, <1>3, <1>4, <1>6
<1>9. QED BY <1>7 DEF Heard

LEMMA HeardSilent ==
  ASSUME MtuCtx, NEW lines \in Seq(Line), Say(lines), Silent(lines), NoMtu',
         UNCHANGED opt_mtu
  PROVE  Heard'
<1>1. TypeInv /\ Tells(Pending, mtu, opt_mtu) /\ UNCHANGED <<lineq, mtu>>
  BY DEF MtuCtx, Heard, client
<1>2. Pending \in Seq(Line) /\ Pending' = Pending \o lines
  BY <1>1, PendingType, PendingGrows
<1>3. Tells(Pending \o lines, mtu, opt_mtu)
  BY <1>1, <1>2, TellsMore
<1>4. Tells(Pending, mtu, opt_mtu)'
  BY <1>1, <1>2, <1>3
<1>5. QED BY <1>4 DEF Heard

LEMMA HeardNothing ==
  ASSUME MtuCtx, UNCHANGED <<stdout, opt_mtu>>, NoMtu'
  PROVE  Heard'
<1>1. Tells(Pending, mtu, opt_mtu)'
  BY DEF MtuCtx, Heard, client, Pending
<1>2. QED BY <1>1 DEF Heard

\* no command was added, and no request
LEMMA NoMtuKept ==
  ASSUME TypeInv, NoMtu, Reads, OpsFewer
  PROVE  NoMtu'
<1>1. \A i \in DOMAIN stdin' : stdin'[i].verb # "mtu"
  BY CommandsLeft DEF NoMtu
<1>2. \A b \in Chan : \A i \in DOMAIN ops'[b] : ops'[b][i].verb # "mtu"
  BY DEF NoMtu, OpsFewer
<1>3. QED BY <1>1, <1>2 DEF NoMtu

LEMMA SameOps ==
  ASSUME UNCHANGED ops
  PROVE  OpsFewer
BY DEF OpsFewer

\* one bearer loses its requests, or its first one
LEMMA FewerOps ==
  ASSUME TypeInv, NEW b \in Chan, NEW q \in Seq(Op),
         \/ q = <<>>
         \/ ops[b] # <<>> /\ q = Tail(ops[b])
         \/ /\ ops[b] # <<>>
            /\ q = Append(Tail(ops[b]), [Head(ops[b]) EXCEPT !.part = TRUE]),
         ops' = ops \/ ops' = [ops EXCEPT ![b] = q] \/ ops' = [ops EXCEPT ![b] = <<>>]
  PROVE  OpsFewer
<1>1. ops \in [Chan -> Seq(Op)] /\ ops[b] \in Seq(Op)
  BY DEF TypeInv, SessionTypeOK, TypeOK, HelperTypeOK
<1>2. ASSUME NEW i \in DOMAIN q
      PROVE  \E k \in DOMAIN ops[b] : q[i].verb = ops[b][k].verb
  <2>1. CASE ops[b] # <<>> /\ q = Tail(ops[b])
    <3>1. i + 1 \in DOMAIN ops[b] /\ q[i] = ops[b][i + 1]
      BY <1>1, <1>2, <2>1, Tailed
    <3>2. QED BY <3>1
  <2>2. CASE ops[b] # <<>>
             /\ q = Append(Tail(ops[b]), [Head(ops[b]) EXCEPT !.part = TRUE])
    <3> DEFINE h == [Head(ops[b]) EXCEPT !.part = TRUE]
    <3>1. Tail(ops[b]) \in Seq(Op) /\ 1 \in DOMAIN ops[b] /\ Head(ops[b]) = ops[b][1]
          /\ Head(ops[b]) \in Op
      BY <1>1, <2>2
    <3>2. h.verb = ops[b][1].verb /\ h \in Op
      BY <3>1 DEF Op
    <3> HIDE DEF h
    <3>3. q = Append(Tail(ops[b]), h)
      BY <2>2 DEF h
    <3>4. q[i] = h \/ (i \in DOMAIN Tail(ops[b]) /\ q[i] = Tail(ops[b])[i])
      BY <1>2, <3>1, <3>2, <3>3
    <3>5. CASE q[i] = h
      BY <3>1, <3>2, <3>5
    <3>6. CASE i \in DOMAIN Tail(ops[b]) /\ q[i] = Tail(ops[b])[i]
      <4>1. i + 1 \in DOMAIN ops[b] /\ q[i] = ops[b][i + 1]
        BY <1>1, <2>2, <3>6, Tailed
      <4>2. QED BY <4>1
    <3>7. QED BY <3>4, <3>5, <3>6
  <2>3. CASE q = <<>>
    BY <1>2, <2>3
  <2>4. QED BY <2>1, <2>2, <2>3
<1>3. ASSUME NEW c \in Chan, NEW i \in DOMAIN ops'[c]
      PROVE  \E k \in DOMAIN ops[c] : ops'[c][i].verb = ops[c][k].verb
  <2>1. ops'[c] = ops[c] \/ (c = b /\ ops'[c] = q) \/ ops'[c] = <<>>
    BY <1>1
  <2>2. CASE ops'[c] = ops[c]
    BY <1>3, <2>2
  <2>3. CASE c = b /\ ops'[c] = q
    BY <1>2, <1>3, <2>3
  <2>4. CASE ops'[c] = <<>>
    BY <1>3, <2>4
  <2>5. QED BY <2>1, <2>2, <2>3, <2>4
<1>4. QED BY <1>3 DEF OpsFewer

LEMMA StatSays ==
  ASSUME NEW s, NEW d, NEW m, NEW r
  PROVE  IsStat(Stat(s, d, m, r)) /\ Stat(s, d, m, r).mtu = m
BY DEF IsStat, Stat

LEMMA OthersSay ==
  ASSUME NEW t, NEW d, NEW r
  PROVE  /\ ~IsStat(Err(t, r)) /\ ~IsStat(Mgmt(t, r))
         /\ t # "stat" => ~IsStat(Data(t, d, r))
BY DEF IsStat, Err, Mgmt, Data

\* the line says what opt_mtu is from now on
LEMMA HeardStat ==
  ASSUME MtuCtx, NEW s \in ConnState, NEW d \in Addr \cup {NoAddr}, NEW r \in Nat,
         opt_mtu' \in Nat, Say(<<Stat(s, d, opt_mtu', r)>>), NoMtu'
  PROVE  Heard'
<1> DEFINE l == Stat(s, d, opt_mtu', r)
<1>1. l \in Line
  BY StatType
<1>2. IsStat(l) /\ l.mtu = opt_mtu'
  BY StatSays
<1> HIDE DEF l
<1>3. Say(<<l>>)
  BY DEF l
<1>4. QED BY <1>1, <1>2, <1>3, HeardSay

LEMMA HeardOther ==
  ASSUME MtuCtx, NEW l \in Line, ~IsStat(l), Say(<<l>>), UNCHANGED opt_mtu, NoMtu'
  PROVE  Heard'
BY HeardSay

-----------------------------------------------------------------------------
(* Every command and every callback says what it makes of opt_mtu.          *)

MtuCmd ==
  /\ MtuCtx /\ stdin # <<>> /\ stdin' = Tail(stdin)
  /\ Head(stdin) \in Command /\ Head(stdin).verb # "mtu"

LEMMA MtuFacts ==
  ASSUME MtuCtx
  PROVE  /\ TypeInv /\ NoMtu /\ TypeOK /\ HelperTypeOK
         /\ opt_mtu \in Nat /\ opt_dst \in Addr \cup {NoAddr} /\ conn_state \in ConnState
BY DEF MtuCtx, Heard, TypeInv, SessionTypeOK, TypeOK, HelperTypeOK

LEMMA MtuCmdReads ==
  ASSUME MtuCmd
  PROVE  /\ MtuCtx /\ Reads /\ Head(stdin).id \in Nat
         /\ OpsFewer => NoMtu'
<1>1. MtuCtx /\ Reads /\ Head(stdin).id \in Nat
  BY DEF MtuCmd, Reads, Command
<1>2. QED BY <1>1, MtuFacts, NoMtuKept

LEMMA CmdStatusMtu ==
  ASSUME MtuCmd, CmdStatus(Head(stdin))
  PROVE  Heard'
<1>1. /\ UNCHANGED <<opt_mtu, ops>>
      /\ Say(<<Stat(conn_state, opt_dst, opt_mtu, Head(stdin).id)>>)
  BY DEF CmdStatus, conn, chans
<1>2. NoMtu'
  BY <1>1, SameOps, MtuCmdReads
<1>3. Say(<<Stat(conn_state, opt_dst, opt_mtu', Head(stdin).id)>>)
  BY <1>1
<1>4. opt_mtu' \in Nat
  BY <1>1, MtuCmdReads, MtuFacts
<1>5. QED BY <1>2, <1>3, <1>4, MtuCmdReads, MtuFacts, HeardStat

LEMMA CmdExitMtu ==
  ASSUME MtuCmd, CmdExit(Head(stdin))
  PROVE  Heard'
<1>1. UNCHANGED <<opt_mtu, ops, stdout>>
  BY DEF CmdExit, conn, chans
<1>2. NoMtu'
  BY <1>1, SameOps, MtuCmdReads
<1>3. QED BY <1>1, <1>2, MtuCmdReads, HeardNothing

\* a connection that ends leaves no number behind, and says so
LEMMA DisconnectIoMtu ==
  ASSUME MtuCtx, Reads, NEW re \in Nat, DisconnectIo(re)
  PROVE  Heard'
<1>1. CASE conn_state = "disc"
  <2>1. UNCHANGED <<opt_mtu, ops, stdout>>
    BY <1>1 DEF DisconnectIo, conn, chans
  <2>2. NoMtu'
    BY <2>1, SameOps, MtuFacts, NoMtuKept
  <2>3. QED BY <2>1, <2>2, HeardNothing
<1>2. CASE conn_state # "disc"
  <2>1. /\ opt_mtu' = 0 /\ Say(<<Stat("disc", NoAddr, 0, re)>>)
        /\ IF attrib = 0 THEN UNCHANGED <<over, ops, orphan>> ELSE Unref(attrib)
    BY <1>2 DEF DisconnectIo, ResetMtu
  <2>2. OpsFewer
    <3>1. CASE attrib = 0
      BY <2>1, <3>1, SameOps
    <3>2. CASE attrib # 0
      <4>1. attrib \in Chan
        BY <3>2, MtuFacts, HelperAssumption DEF HelperTypeOK, Chan
      <4>2. ops' = ops \/ ops' = [ops EXCEPT ![attrib] = <<>>]
        BY <2>1, <3>2 DEF Unref
      <4>3. <<>> \in Seq(Op)
        OBVIOUS
      <4>4. QED BY <4>1, <4>2, <4>3, MtuFacts, FewerOps
    <3>3. QED BY <3>1, <3>2
  <2>3. NoMtu'
    BY <2>2, MtuFacts, NoMtuKept
  <2>4. Say(<<Stat("disc", NoAddr, opt_mtu', re)>>) /\ opt_mtu' \in Nat
    BY <2>1
  <2>5. QED BY <2>3, <2>4, HeardStat DEF ConnState
<1>3. QED BY <1>1, <1>2

LEMMA CmdDisconnectMtu ==
  ASSUME MtuCmd, CmdDisconnect(Head(stdin))
  PROVE  Heard'
BY MtuCmdReads, DisconnectIoMtu DEF CmdDisconnect

LEMMA CmdConnectMtu ==
  ASSUME MtuCmd, CmdConnect(Head(stdin))
  PROVE  Heard'
<1> DEFINE c == Head(stdin)
           dst == IF c.dst = NoAddr THEN opt_dst ELSE c.dst
<1>1. /\ UNCHANGED <<opt_mtu, ops>> /\ c.id \in Nat /\ dst \in Addr \cup {NoAddr}
      /\ opt_mtu \in Nat
  BY MtuCmdReads, MtuFacts DEF CmdConnect, MtuCmd, Command
<1>2. NoMtu'
  BY <1>1, SameOps, MtuCmdReads
<1> DEFINE try == Stat("tryconn", dst, opt_mtu, c.id)
           dis == Stat("disc", dst, opt_mtu, c.id)
           err == Err("badparam", c.id)
<1>3. UNCHANGED stdout \/ Say(<<err>>) \/ Say(<<try, dis>>) \/ Say(<<try>>)
  BY DEF CmdConnect
<1> HIDE DEF c, dst
<1>4. /\ err \in Line /\ ~IsStat(err)
      /\ try \in Line /\ try.mtu = opt_mtu
      /\ dis \in Line /\ dis.mtu = opt_mtu
  <2>1. "badparam" \in ErrCode /\ "tryconn" \in ConnState /\ "disc" \in ConnState
    BY DEF ErrCode, ConnState
  <2>2. err \in Line /\ ~IsStat(err)
    BY <1>1, <2>1, ErrType, OthersSay
  <2>3. try \in Line /\ dis \in Line
    BY <1>1, <2>1, StatType
  <2>4. try.mtu = opt_mtu /\ dis.mtu = opt_mtu
    BY StatSays
  <2>5. QED BY <2>2, <2>3, <2>4
<1> HIDE DEF try, dis, err
<1>5. CASE UNCHANGED stdout
  BY <1>1, <1>2, <1>5, MtuCmdReads, HeardNothing
<1>6. CASE Say(<<err>>)
  BY <1>1, <1>2, <1>4, <1>6, MtuCmdReads, HeardOther
<1>7. CASE Say(<<try>>)
  <2>1. IF IsStat(try) THEN try.mtu = opt_mtu' ELSE opt_mtu' = opt_mtu
    BY <1>1, <1>4
  <2>2. QED BY <1>2, <1>4, <1>7, <2>1, MtuCmdReads, HeardSay
<1>8. CASE Say(<<try, dis>>)
  BY <1>1, <1>2, <1>4, <1>8, MtuCmdReads, HeardSayTwo
<1>9. QED BY <1>3, <1>5, <1>6, <1>7, <1>8

\* a request is no "mtu" command's if its command is none
LEMMA MoreOps ==
  ASSUME MtuCmd,
         ops' = [b \in Chan |-> IF b = attrib THEN Append(ops[b], Req(Head(stdin)))
                                              ELSE ops[b]]
  PROVE  NoMtu'
<1>1. ops \in [Chan -> Seq(Op)] /\ TypeInv /\ NoMtu /\ Reads
  BY MtuCmdReads, MtuFacts DEF HelperTypeOK
<1>2. Req(Head(stdin)).verb # "mtu"
  BY DEF MtuCmd, Req
<1>3. ASSUME NEW b \in Chan, NEW i \in DOMAIN ops'[b]
      PROVE  ops'[b][i].verb # "mtu"
  <2>1. ops[b] \in Seq(Op) /\ \A k \in DOMAIN ops[b] : ops[b][k].verb # "mtu"
    BY <1>1 DEF NoMtu
  <2>2. ops'[b] = ops[b] \/ ops'[b] = Append(ops[b], Req(Head(stdin)))
    OBVIOUS
  <2>3. CASE ops'[b] = ops[b]
    BY <1>3, <2>1, <2>3
  <2>4. CASE ops'[b] = Append(ops[b], Req(Head(stdin)))
    <3> DEFINE r == Req(Head(stdin))
    <3>1. Append(ops[b], r)[i] = r \/ (i \in DOMAIN ops[b] /\ Append(ops[b], r)[i] = ops[b][i])
      <4> HIDE DEF r
      <4>1. i \in DOMAIN Append(ops[b], r)
        BY <1>3, <2>4 DEF r
      <4>2. QED BY <2>1, <4>1
    <3>2. QED BY <1>2, <2>1, <2>4, <3>1
  <2>5. QED BY <2>2, <2>3, <2>4
<1>4. \A i \in DOMAIN stdin' : stdin'[i].verb # "mtu"
  BY <1>1, CommandsLeft DEF NoMtu
<1>5. QED BY <1>3, <1>4 DEF NoMtu

LEMMA CmdGattMtu ==
  ASSUME MtuCmd, CmdGatt(Head(stdin))
  PROVE  Heard'
<1> DEFINE c == Head(stdin)
           state == Err("badstate", c.id)
           param == Err("badparam", c.id)
<1>1. UNCHANGED opt_mtu /\ c.id \in Nat
  BY MtuCmdReads DEF CmdGatt, conn
<1>2. /\ \/ UNCHANGED ops
         \/ ops' = [b \in Chan |-> IF b = attrib THEN Append(ops[b], Req(c)) ELSE ops[b]]
      /\ UNCHANGED stdout \/ Say(<<state>>) \/ Say(<<param>>)
  BY DEF CmdGatt
<1>3. NoMtu'
  BY <1>2, SameOps, MoreOps, MtuCmdReads
<1>4. state \in Line /\ ~IsStat(state) /\ param \in Line /\ ~IsStat(param)
  BY <1>1, ErrType, OthersSay DEF ErrCode
<1> HIDE DEF state, param
<1>5. QED BY <1>1, <1>2, <1>3, <1>4, MtuCmdReads, HeardOther, HeardNothing

LEMMA CmdWriteMtu ==
  ASSUME MtuCmd, CmdWrite(Head(stdin))
  PROVE  Heard'
<1> DEFINE c == Head(stdin)
           state == Err("badstate", c.id)
           param == Err("badparam", c.id)
           done == Data("wr", opt_dst, c.id)
<1>1. UNCHANGED <<opt_mtu, ops>> /\ c.id \in Nat
  BY MtuCmdReads DEF CmdWrite, conn, chans
<1>2. Say(<<state>>) \/ Say(<<param>>) \/ Say(<<done>>)
  BY DEF CmdWrite
<1>3. NoMtu'
  BY <1>1, SameOps, MtuCmdReads
<1>4. /\ state \in Line /\ ~IsStat(state) /\ param \in Line /\ ~IsStat(param)
      /\ done \in Line /\ ~IsStat(done)
  BY <1>1, MtuCmdReads, MtuFacts, ErrType, DataType, OthersSay DEF ErrCode, RspType
<1> HIDE DEF state, param, done
<1>5. QED BY <1>1, <1>2, <1>3, <1>4, MtuCmdReads, HeardOther

LEMMA CmdSecLevelMtu ==
  ASSUME MtuCmd, CmdSecLevel(Head(stdin))
  PROVE  Heard'
<1> DEFINE c == Head(stdin)
           param == Err("badparam", c.id)
           fail == Err("callfail", c.id)
<1>1. UNCHANGED <<opt_mtu, ops>> /\ c.id \in Nat
  BY MtuCmdReads DEF CmdSecLevel, conn, chans
<1>2. \/ UNCHANGED stdout \/ Say(<<param>>) \/ Say(<<fail>>)
      \/ Say(<<Stat(conn_state, opt_dst, opt_mtu, c.id)>>)
  BY DEF CmdSecLevel
<1>3. NoMtu'
  BY <1>1, SameOps, MtuCmdReads
<1>4. param \in Line /\ ~IsStat(param) /\ fail \in Line /\ ~IsStat(fail)
  BY <1>1, ErrType, OthersSay DEF ErrCode
<1> HIDE DEF param, fail
<1>5. CASE Say(<<Stat(conn_state, opt_dst, opt_mtu, c.id)>>)
  <2>1. Say(<<Stat(conn_state, opt_dst, opt_mtu', c.id)>>) /\ opt_mtu' \in Nat
    BY <1>1, <1>5, MtuCmdReads, MtuFacts
  <2>2. QED BY <1>1, <1>3, <2>1, MtuCmdReads, MtuFacts, HeardStat
<1>6. QED BY <1>1, <1>2, <1>3, <1>4, <1>5, MtuCmdReads, HeardOther, HeardNothing

LEMMA CmdMgmtMtu ==
  ASSUME MtuCmd, CmdMgmt(Head(stdin))
  PROVE  Heard'
<1> DEFINE c == Head(stdin)
           m(code) == Mgmt(code, c.id)
           e(code) == Err(code, c.id)
<1>1. UNCHANGED <<opt_mtu, ops>> /\ c.id \in Nat
  BY MtuCmdReads DEF CmdMgmt, conn, chans
<1>2. \/ UNCHANGED stdout
      \/ Say(<<m("badparam")>>) \/ Say(<<m("notfound")>>) \/ Say(<<m("badstate")>>)
      \/ Say(<<e("badparam")>>) \/ Say(<<e("nomgmt")>>)
  BY DEF CmdMgmt
<1>3. NoMtu'
  BY <1>1, SameOps, MtuCmdReads
<1>4. \A code \in ErrCode : /\ m(code) \in Line /\ ~IsStat(m(code))
                            /\ e(code) \in Line /\ ~IsStat(e(code))
  BY <1>1, ErrType, MgmtType, OthersSay
<1>5. {"badparam", "notfound", "badstate", "nomgmt"} \subseteq ErrCode
  BY DEF ErrCode
<1> HIDE DEF m, e
<1>6. ASSUME NEW code \in ErrCode, Say(<<m(code)>>) \/ Say(<<e(code)>>)
      PROVE  Heard'
  BY <1>1, <1>3, <1>4, <1>6, MtuCmdReads, HeardOther
<1>7. CASE UNCHANGED stdout
  BY <1>1, <1>3, <1>7, MtuCmdReads, HeardNothing
<1>8. QED BY <1>2, <1>5, <1>6, <1>7

LEMMA DispatchMtu ==
  ASSUME MtuCmd, Dispatch(Head(stdin))
  PROVE  Heard'
<1>1. ~CmdMtu(Head(stdin))
  BY DEF MtuCmd, CmdMtu
<1>2. QED
  BY <1>1, CmdStatusMtu, CmdExitMtu, CmdConnectMtu, CmdDisconnectMtu, CmdGattMtu,
     CmdWriteMtu, CmdSecLevelMtu, CmdMgmtMtu DEF Dispatch

MtuCall == MtuCtx /\ UNCHANGED stdin

LEMMA MtuCallReads ==
  ASSUME MtuCall
  PROVE  /\ MtuCtx /\ Reads
         /\ OpsFewer => NoMtu'
<1>1. MtuCtx /\ Reads
  BY DEF MtuCall, Reads
<1>2. QED BY <1>1, MtuFacts, NoMtuKept

LEMMA ConnectCbOkMtu ==
  ASSUME MtuCall, NEW c \in Chan, ConnectCbOk(c)
  PROVE  Heard'
<1>1. UNCHANGED <<opt_mtu, ops>> /\ Say(<<Stat("conn", opt_dst, opt_mtu, 0)>>)
  BY DEF ConnectCbOk
<1>2. NoMtu'
  BY <1>1, SameOps, MtuCallReads
<1>3. Say(<<Stat("conn", opt_dst, opt_mtu', 0)>>) /\ opt_mtu' \in Nat
  BY <1>1, MtuCallReads, MtuFacts
<1>4. QED BY <1>2, <1>3, MtuCallReads, MtuFacts, HeardStat DEF ConnState

LEMMA ConnectCbErrMtu ==
  ASSUME MtuCall, NEW c \in Chan, ConnectCbErr(c)
  PROVE  Heard'
<1> DEFINE dis == Stat("disc", NoAddr, opt_mtu, 0)
           err == Err("connfail", 0)
<1>1. UNCHANGED <<opt_mtu, ops>> /\ Say(<<dis, err>>)
  BY DEF ConnectCbErr, ConnectErrLines
<1>2. NoMtu'
  BY <1>1, SameOps, MtuCallReads
<1>3. /\ dis \in Line /\ dis.mtu = opt_mtu
      /\ err \in Line /\ ~IsStat(err)
  <2>1. "connfail" \in ErrCode /\ "disc" \in ConnState
    BY DEF ErrCode, ConnState
  <2>2. err \in Line /\ ~IsStat(err)
    BY <2>1, ErrType, OthersSay
  <2>3. dis \in Line
    BY <2>1, MtuCallReads, MtuFacts, StatType
  <2>4. dis.mtu = opt_mtu
    BY StatSays
  <2>5. QED BY <2>2, <2>3, <2>4
<1> HIDE DEF dis, err
<1>4. QED BY <1>1, <1>2, <1>3, MtuCallReads, HeardSayTwo

LEMMA ChannelWatcherMtu ==
  ASSUME MtuCall, NEW c \in Chan, ChannelWatcher(c)
  PROVE  Heard'
<1>1. CASE IsCurrent(c)
  BY <1>1, MtuCallReads, DisconnectIoMtu DEF ChannelWatcher
<1>2. CASE ~IsCurrent(c)
  <2>1. UNCHANGED <<opt_mtu, ops, stdout>>
    BY <1>2 DEF ChannelWatcher, conn, chans
  <2>2. NoMtu'
    BY <2>1, SameOps, MtuCallReads
  <2>3. QED BY <2>1, <2>2, MtuCallReads, HeardNothing
<1>3. QED BY <1>1, <1>2

LEMMA LinkLossMtu ==
  ASSUME MtuCall, NEW c \in Chan, LinkLoss(c)
  PROVE  Heard'
<1>1. UNCHANGED <<opt_mtu, ops, stdout>>
  BY DEF LinkLoss, conn
<1>2. NoMtu'
  BY <1>1, SameOps, MtuCallReads
<1>3. QED BY <1>1, <1>2, MtuCallReads, HeardNothing

\* the first request of a bearer is answered, or given up
LEMMA SettleMtu ==
  ASSUME MtuCall, NEW b \in Chan, Live(b), ops[b] # <<>>, Settle(b, Tail(ops[b]))
  PROVE  NoMtu'
<1>1. Tail(ops[b]) \in Seq(Op) /\ TypeInv
  BY MtuCallReads, MtuFacts, HeadType
<1>2. ops' = [ops EXCEPT ![b] = Tail(ops[b])] \/ ops' = [ops EXCEPT ![b] = <<>>]
  BY DEF Settle
<1>3. OpsFewer
  BY <1>1, <1>2, FewerOps
<1>4. QED BY <1>3, MtuCallReads

LEMMA AttResultMtu ==
  ASSUME MtuCall, NEW b \in Chan, AttResult(b)
  PROVE  Heard'
<1> DEFINE o == Head(ops[b])
           l == Data(ResultType(o.verb), peer[over[b]], o.id)
<1>1. /\ Live(b) /\ ops[b] # <<>> /\ o.verb # "mtu" /\ Say(<<l>>)
      /\ Settle(b, Tail(ops[b])) /\ UNCHANGED opt_mtu
  BY DEF AttResult, conn
<1>2. /\ peer[over[b]] \in Addr \cup {NoAddr} /\ o.id \in Nat /\ o.verb \in GattVerbs
  BY <1>1, MtuCallReads, MtuFacts, HeadType
<1> HIDE DEF o
<1>3. ResultType(o.verb) \in RspType /\ ResultType(o.verb) # "stat"
  BY <1>2 DEF ResultType, GattVerbs, RspType
<1>4. l \in Line /\ ~IsStat(l)
  BY <1>2, <1>3, DataType, OthersSay
<1> HIDE DEF l
<1>5. NoMtu'
  BY <1>1, SettleMtu
<1>6. QED BY <1>1, <1>4, <1>5, MtuCallReads, HeardOther

LEMMA AttContinueMtu ==
  ASSUME MtuCall, NEW b \in Chan, AttContinue(b)
  PROVE  Heard'
<1> DEFINE o == [Head(ops[b]) EXCEPT !.part = TRUE]
           q == Append(Tail(ops[b]), o)
<1>1. /\ Live(b) /\ ops[b] # <<>> /\ ops' = [ops EXCEPT ![b] = q]
      /\ UNCHANGED <<opt_mtu, stdout>>
  BY DEF AttContinue, conn
<1>2. Head(ops[b]) \in Op /\ Tail(ops[b]) \in Seq(Op) /\ TypeInv
  BY <1>1, MtuCallReads, MtuFacts, HeadType
<1>3. q \in Seq(Op)
  <2>1. o \in Op
    BY <1>2 DEF Op
  <2>2. QED BY <1>2, <2>1
<1>4. OpsFewer
  BY <1>1, <1>2, <1>3, FewerOps
<1>5. QED BY <1>1, <1>4, MtuCallReads, HeardNothing

LEMMA FailedSays ==
  ASSUME NEW o, NEW dst
  PROVE  ~IsStat(Failed(o, dst))
<1>1. ~IsStat(Data("rd", dst, o.id)) /\ ~IsStat(Err("atterr", o.id))
  BY OthersSay
<1>2. QED BY <1>1 DEF Failed

LEMMA AttErrorMtu ==
  ASSUME MtuCall, NEW b \in Chan, AttError(b)
  PROVE  Heard'
<1> DEFINE l == Failed(Head(ops[b]), peer[over[b]])
<1>1. /\ Live(b) /\ ops[b] # <<>> /\ Say(<<l>>)
      /\ Settle(b, Tail(ops[b])) /\ UNCHANGED opt_mtu
  BY DEF AttError, conn
<1>2. l \in Line /\ ~IsStat(l)
  BY <1>1, MtuCallReads, MtuFacts, HeadType, FailedType, FailedSays
<1> HIDE DEF l
<1>3. NoMtu'
  BY <1>1, SettleMtu
<1>4. QED BY <1>1, <1>2, <1>3, MtuCallReads, HeardOther

LEMMA MtuResultMtu ==
  ASSUME MtuCall, NEW b \in Chan, NEW m \in Mtus
  PROVE  ~MtuResult(b, m)
<1>1. SUFFICES ASSUME ops[b] # <<>>
               PROVE  Head(ops[b]).verb # "mtu"
  BY DEF MtuResult
<1>2. ops[b] \in Seq(Op) /\ \A i \in DOMAIN ops[b] : ops[b][i].verb # "mtu"
  BY MtuCallReads, MtuFacts DEF HelperTypeOK, NoMtu
<1>3. QED BY <1>1, <1>2

LEMMA AttTimeoutMtu ==
  ASSUME MtuCall, NEW b \in Chan, AttTimeout(b)
  PROVE  Heard'
<1>1. Live(b) /\ ops[b] # <<>> /\ UNCHANGED <<opt_mtu, stdout>>
  BY DEF AttTimeout, conn
<1>2. Tail(ops[b]) \in Seq(Op) /\ TypeInv
  BY <1>1, MtuCallReads, MtuFacts, HeadType
<1>3. ops' = [ops EXCEPT ![b] = Tail(ops[b])] \/ ops' = [ops EXCEPT ![b] = <<>>]
  BY DEF AttTimeout, Settle
<1>4. OpsFewer
  BY <1>1, <1>2, <1>3, FewerOps
<1>5. QED BY <1>1, <1>4, MtuCallReads, HeardNothing

LEMMA NotificationMtu ==
  ASSUME MtuCall, NEW b \in Chan, NEW kind \in {"ntfy", "ind"}, Notification(b, kind)
  PROVE  Heard'
<1> DEFINE l == Data(kind, peer[over[b]], 0)
<1>1. UNCHANGED <<opt_mtu, ops>> /\ Say(<<l>>) /\ Live(b)
  BY DEF Notification, conn, chans
<1>2. over[b] \in Chan
  BY <1>1, MtuCallReads, MtuFacts, HelperAssumption DEF Live, HelperTypeOK, Chan
<1>3. l \in Line /\ ~IsStat(l)
  BY <1>2, MtuCallReads, MtuFacts, DataType, OthersSay DEF RspType, HelperTypeOK
<1> HIDE DEF l
<1>4. QED BY <1>1, <1>3, SameOps, MtuCallReads, HeardOther

LEMMA PeerMtuReqMtu ==
  ASSUME MtuCall, NEW b \in Chan, NEW m \in Mtus, PeerMtuReq(b, m)
  PROVE  Heard'
<1>1. UNCHANGED ops
  BY DEF PeerMtuReq, chans
<1>2. NoMtu'
  BY <1>1, SameOps, MtuCallReads
<1>3. CASE opt_mtu' = m /\ Say(<<Stat(conn_state, opt_dst, m, 0)>>)
  <2>1. opt_mtu' \in Nat /\ Say(<<Stat(conn_state, opt_dst, opt_mtu', 0)>>)
    BY <1>3, HelperAssumption
  <2>2. QED BY <1>2, <2>1, MtuCallReads, MtuFacts, HeardStat
<1>4. CASE UNCHANGED <<opt_mtu, stdout>>
  BY <1>2, <1>4, MtuCallReads, HeardNothing
<1>5. QED BY <1>3, <1>4 DEF PeerMtuReq

LEMMA MgmtCompleteMtu ==
  ASSUME MtuCall, MgmtComplete
  PROVE  Heard'
<1> DEFINE m == Head(mgmt_q)
           line(code) == Mgmt(code, m.id)
           oob == Data("oob", NoAddr, m.id)
<1>1. UNCHANGED <<opt_mtu, ops>>
  BY DEF MgmtComplete, conn, chans
<1>2. m.id \in Nat
  <2>1. mgmt_q \in Seq(MgmtOp) /\ mgmt_q # <<>>
    BY MtuCallReads, MtuFacts DEF HelperTypeOK, MgmtComplete
  <2>2. m \in MgmtOp
    BY <2>1
  <2>3. QED BY <2>2 DEF MgmtOp
<1>3. \/ Say(<<line("busy")>>) \/ Say(<<line("mgmterr")>>) \/ Say(<<line("success")>>)
      \/ Say(<<oob>>) \/ UNCHANGED stdout
  BY DEF MgmtComplete
<1>4. /\ oob \in Line /\ ~IsStat(oob)
      /\ \A code \in ErrCode : line(code) \in Line /\ ~IsStat(line(code))
  BY <1>2, MgmtType, DataType, OthersSay DEF RspType
<1>5. {"busy", "mgmterr", "success"} \subseteq ErrCode
  BY DEF ErrCode
<1> HIDE DEF line, oob
<1>6. NoMtu'
  BY <1>1, SameOps, MtuCallReads
<1>7. ASSUME NEW code \in ErrCode, Say(<<line(code)>>)
      PROVE  Heard'
  BY <1>1, <1>4, <1>6, <1>7, MtuCallReads, HeardOther
<1>8. CASE Say(<<oob>>) \/ UNCHANGED stdout
  BY <1>1, <1>4, <1>6, <1>8, MtuCallReads, HeardOther, HeardNothing
<1>9. QED BY <1>3, <1>5, <1>7, <1>8

LEMMA MgmtScanningMtu ==
  ASSUME MtuCall, NEW on \in BOOLEAN, MgmtScanning(on)
  PROVE  Heard'
<1> DEFINE s == IF on THEN "scan" ELSE "disc"
<1>1. UNCHANGED <<opt_mtu, ops>> /\ Say(<<Stat(s, opt_dst, opt_mtu, 0)>>)
  BY DEF MgmtScanning, chans
<1>2. s \in ConnState
  BY DEF ConnState
<1> HIDE DEF s
<1>3. Say(<<Stat(s, opt_dst, opt_mtu', 0)>>) /\ opt_mtu' \in Nat
  BY <1>1, MtuCallReads, MtuFacts
<1>4. NoMtu'
  BY <1>1, SameOps, MtuCallReads
<1>5. QED BY <1>2, <1>3, <1>4, MtuCallReads, MtuFacts, HeardStat

LEMMA MgmtDeviceFoundMtu ==
  ASSUME MtuCall, MgmtDeviceFound
  PROVE  Heard'
<1> DEFINE l == Data("scan", NoAddr, 0)
<1>1. UNCHANGED <<opt_mtu, ops>> /\ Say(<<l>>)
  BY DEF MgmtDeviceFound, conn, chans
<1>2. l \in Line /\ ~IsStat(l)
  BY DataType, OthersSay DEF RspType
<1> HIDE DEF l
<1>3. QED BY <1>1, <1>2, SameOps, MtuCallReads, HeardOther

LEMMA CallbackMtu ==
  ASSUME MtuCall, Callback
  PROVE  Heard'
BY ConnectCbOkMtu, ConnectCbErrMtu, ChannelWatcherMtu, LinkLossMtu, AttResultMtu,
   AttContinueMtu, AttErrorMtu, AttTimeoutMtu, NotificationMtu, MtuResultMtu,
   PeerMtuReqMtu, MgmtCompleteMtu, MgmtScanningMtu, MgmtDeviceFoundMtu DEF Callback

LEMMA FlushBearerMtu ==
  ASSUME MtuCall, NEW b \in Chan, FlushBearer(b), ~Gone
  PROVE  Heard'
<1>1. ops' = [ops EXCEPT ![b] = <<>>] /\ UNCHANGED opt_mtu
  BY MtuCallReads, MtuFacts, FlushBearerLink DEF conn
<1>2. <<>> \in Seq(Op)
  OBVIOUS
<1>3. NoMtu'
  BY <1>1, <1>2, MtuCallReads, MtuFacts, FewerOps
<1>4. PICK q \in {ops[b], Append(Tail(ops[b]), Head(ops[b]))} :
        \E n \in 1 .. Len(q) :
           /\ [i \in 1 .. n |-> Failed(q[i], peer[over[b]])] \in Seq(Line)
           /\ Say([i \in 1 .. n |-> Failed(q[i], peer[over[b]])])
  BY MtuCallReads, MtuFacts, FlushLines
<1>5. PICK n \in 1 .. Len(q) :
           /\ [i \in 1 .. n |-> Failed(q[i], peer[over[b]])] \in Seq(Line)
           /\ Say([i \in 1 .. n |-> Failed(q[i], peer[over[b]])])
  BY <1>4
<1> DEFINE lines == [i \in 1 .. n |-> Failed(q[i], peer[over[b]])]
<1>6. Silent(lines)
  BY FailedSays DEF Silent
<1>7. lines \in Seq(Line) /\ Say(lines)
  BY <1>5
<1> HIDE DEF lines
<1>8. QED BY <1>1, <1>3, <1>6, <1>7, MtuCallReads, HeardSilent

\* a helper's step, if the process survives it
LEMMA HelperStepMtu ==
  ASSUME TypeInv, Heard, HelperStep, UNCHANGED client, ~Gone
  PROVE  Heard'
<1>1. MtuCtx
  BY DEF MtuCtx
<1>2. CASE PromptRead
  <2>1. stdin \in Seq(Command) /\ stdin # <<>> /\ stdin' = Tail(stdin)
        /\ Dispatch(Head(stdin))
    BY <1>2 DEF PromptRead, AddOobAborts, TypeInv, SessionTypeOK, TypeOK, WireTypeOK
  <2>2. 1 \in DOMAIN stdin /\ Head(stdin) = stdin[1] /\ Head(stdin) \in Command
    BY <2>1
  <2>3. MtuCmd
    BY <1>1, <2>1, <2>2 DEF MtuCmd, Heard, NoMtu
  <2>4. QED BY <2>1, <2>3, DispatchMtu
<1>3. CASE PromptEof
  <2>1. UNCHANGED <<stdin, opt_mtu, ops, stdout>>
    BY <1>3 DEF PromptEof, wire, conn, chans
  <2>2. MtuCall
    BY <1>1, <2>1 DEF MtuCall
  <2>3. NoMtu'
    BY <2>1, <2>2, SameOps, MtuCallReads
  <2>4. QED BY <1>1, <2>1, <2>3, HeardNothing
<1>4. ~Exit
  BY DEF Exit
<1>5. CASE Callback /\ UNCHANGED stdin
  BY <1>1, <1>5, CallbackMtu DEF MtuCall
<1>6. ASSUME NEW b \in Chan, FlushBearer(b), UNCHANGED stdin
      PROVE  Heard'
  BY <1>1, <1>6, FlushBearerMtu DEF MtuCall
<1>7. QED BY <1>2, <1>3, <1>4, <1>5, <1>6 DEF HelperStep

LEMMA HelperMtu ==
  ASSUME TypeInv, MtuInv, Helping \/ Killed
  PROVE  MtuInv'
<1>1. UNCHANGED <<client, helper_up>> /\ proc = "running" /\ helper_up
  BY DEF Helping, Killed, HelperStep, client, MtuInv
<1>2. Heard
  BY <1>1 DEF MtuInv, Heard
<1>3. CASE Gone
  <2>1. proc' = "exited" /\ opt_mtu' = 0 /\ ops' = [c \in Chan |-> <<>>]
    BY <1>3 DEF Gone
  <2>2. Reads
    BY DEF Helping, Killed, HelperStep, PromptRead, PromptEof, Exit, Reads, wire
  <2>3. OpsFewer
    BY <2>1 DEF OpsFewer
  <2>4. NoMtu'
    BY <1>2, <2>2, <2>3, NoMtuKept DEF Heard
  <2>5. QED BY <2>1, <2>4 DEF MtuInv
<1>4. CASE ~Gone
  <2>1. HelperStep
    BY <1>4 DEF Helping, Killed
  <2>2. Heard'
    BY <1>1, <1>2, <1>4, <2>1, HelperStepMtu
  <2>3. helper_up'
    BY <1>1
  <2>4. UNCHANGED proc
    BY <1>4, <2>1 DEF HelperStep, PromptRead, AddOobAborts, PromptEof, Exit, FlushBearer, wire
  <2>5. QED BY <1>1, <2>2, <2>3, <2>4 DEF Heard, MtuInv
<1>5. QED BY <1>3, <1>4

-----------------------------------------------------------------------------

\* a line written by any call but setMTU
LEMMA WrittenMtu ==
  ASSUME NEW call \in Methods \ {"setMTU", "setRemoteOOB", "waitForNotifications"},
         NEW id, NEW dst, NEW arg
  PROVE  \A cmd \in Written(Cmd(Verb(call), id, dst, arg)) : cmd.verb # "mtu"
<1>1. Verb(call) # "mtu"
  BY DEF Methods, Verb
<1>2. QED BY <1>1 DEF Written, Cmd

\* a command is added that is no "mtu"
LEMMA SentMtu ==
  ASSUME TypeInv, NoMtu, NEW cmd, cmd.verb # "mtu", stdin' = Append(stdin, cmd),
         UNCHANGED ops
  PROVE  NoMtu'
<1>1. stdin \in Seq(Command)
  BY DEF TypeInv, SessionTypeOK, TypeOK, WireTypeOK
<1>2. \A i \in DOMAIN stdin' : stdin'[i] = cmd \/ (i \in DOMAIN stdin /\ stdin'[i] = stdin[i])
  BY <1>1
<1>3. QED BY <1>2 DEF NoMtu

\* neither the helper nor what is on its way to the program changes
LEMMA SameHelperMtu ==
  ASSUME TypeInv, MtuInv, NoMtu', UNCHANGED <<helper_up, proc, lineq, stdout, mtu, opt_mtu>>
  PROVE  MtuInv'
BY DEF MtuInv, Pending

LEMMA RefusedMtu ==
  ASSUME TypeInv, MtuInv, UNCHANGED helper, NEW call, NEW how, Refused(call, how)
  PROVE  MtuInv'
<1>1. UNCHANGED <<helper_up, proc, lineq, stdout, mtu, opt_mtu, stdin, ops>>
  BY DEF Refused, wire, helper, conn, chans
<1>2. NoMtu'
  BY <1>1 DEF MtuInv, NoMtu
<1>3. QED BY <1>1, <1>2, SameHelperMtu

LEMMA WriteCmdMtu ==
  ASSUME TypeInv, MtuInv, UNCHANGED helper, NEW dst,
         NEW call \in Methods \ {"setMTU", "setRemoteOOB", "waitForNotifications"},
         WriteCmd(call, dst)
  PROVE  MtuInv'
<1>1. CASE Refused(call, "internal") \/ Refused(call, "pipe")
  BY <1>1, RefusedMtu
<1>2. CASE ~(Refused(call, "internal") \/ Refused(call, "pipe"))
  <2>1. UNCHANGED <<helper_up, proc, lineq, stdout, mtu, opt_mtu, ops>>
    BY <1>2 DEF WriteCmd, helper, conn, chans
  <2>2. PICK cmd \in Written(Cmd(Verb(call), ncmd + 1, dst,
                                 IF call = "setMTU" THEN MtuWanted ELSE 1)) :
          stdin' = Append(stdin, cmd)
    BY <1>2 DEF WriteCmd
  <2>3. cmd.verb # "mtu"
    BY <2>2, WrittenMtu
  <2>4. NoMtu'
    BY <2>1, <2>2, <2>3, SentMtu DEF MtuInv
  <2>5. QED BY <2>1, <2>4, SameHelperMtu
<1>3. QED BY <1>1, <1>2

\* a new process has no number, nor has the program, and nothing is on its way
LEMMA StartedMtu ==
  ASSUME TypeInv, MtuInv, StartHelper, (IF Spawned THEN Boot ELSE UNCHANGED helper),
         \A i \in DOMAIN stdin' : stdin'[i].verb # "mtu"
  PROVE  MtuInv'
<1>1. /\ ~helper_up /\ helper_up' /\ proc # "running" /\ proc' = "running" /\ mtu' = 0
      /\ lineq' = <<>> /\ stdout' = <<>> /\ opt_mtu = 0
  BY DEF StartHelper, NewQueue, MtuInv
<1>2. UNCHANGED <<opt_mtu, ops>>
  BY <1>1 DEF Spawned, Boot, conn, chans
<1>3. NoMtu'
  BY <1>2 DEF MtuInv, NoMtu
<1>4. Pending' = <<>>
  BY <1>1 DEF Pending
<1>5. Silent(Pending)'
  BY <1>4 DEF Silent
<1>6. Tells(Pending, mtu, opt_mtu)'
  BY <1>1, <1>2, <1>5 DEF Tells
<1>7. QED BY <1>1, <1>3, <1>6 DEF MtuInv

LEMMA StartWithMtu ==
  ASSUME TypeInv, MtuInv, NEW dst,
         (IF Spawned THEN Boot ELSE UNCHANGED helper),
         NEW call \in Methods \ {"setMTU", "setRemoteOOB", "waitForNotifications"},
         StartWith(call, dst)
  PROVE  MtuInv'
<1>1. StartHelper /\ stdin' = <<Cmd(Verb(call), ncmd + 1, dst, 1)>>
  BY DEF StartWith
<1>2. Verb(call) # "mtu"
  BY DEF Methods, Verb
<1>3. Cmd(Verb(call), ncmd + 1, dst, 1).verb # "mtu"
  BY <1>2 DEF Cmd
<1>4. \A i \in DOMAIN stdin' : stdin'[i] = Cmd(Verb(call), ncmd + 1, dst, 1)
  BY <1>1
<1>5. \A i \in DOMAIN stdin' : stdin'[i].verb # "mtu"
  BY <1>3, <1>4
<1>6. QED BY <1>1, <1>5, StartedMtu

LEMMA ApplicationMtu ==
  ASSUME "setMTU" \notin Calls, TypeInv, MtuInv, Application,
         (IF Spawned THEN Boot ELSE UNCHANGED helper)
  PROVE  MtuInv'
<1> DEFINE M == Methods \ {"setMTU", "setRemoteOOB", "waitForNotifications"}
<1>1. {"connect", "disconnect", "getLocalOOB"} \subseteq M
      /\ Calls \ {"waitForNotifications", "setRemoteOOB"} \subseteq M
  BY ClientAssumption DEF Methods
<1>2. ASSUME NEW call \in M, NEW dst, WriteCmd(call, dst)
      PROVE  MtuInv'
  <2>1. UNCHANGED proc
    BY <1>2 DEF WriteCmd, Refused, wire
  <2>2. UNCHANGED helper
    BY <2>1 DEF Spawned
  <2>3. QED BY <1>2, <2>2, WriteCmdMtu
<1>3. ASSUME NEW call \in M, NEW dst, StartWith(call, dst)
      PROVE  MtuInv'
  BY <1>3, StartWithMtu
<1> HIDE DEF M
<1>4. ASSUME NEW dst \in Addr, Connect(dst)
      PROVE  MtuInv'
  BY <1>1, <1>2, <1>3, <1>4 DEF Connect
<1>5. CASE Disconnect
  BY <1>1, <1>2, <1>5 DEF Disconnect
<1>6. CASE GetLocalOOB
  BY <1>1, <1>2, <1>3, <1>6 DEF GetLocalOOB
<1>7. ASSUME NEW call \in Calls, Request(call)
      PROVE  MtuInv'
  BY <1>1, <1>2, <1>7 DEF Request
<1>8. ASSUME UNCHANGED <<wire, helper_up, mtu, lineq>>
      PROVE  MtuInv'
  <2>1. UNCHANGED <<helper_up, proc, lineq, stdout, mtu, stdin>>
    BY <1>8 DEF wire
  <2>2. UNCHANGED <<opt_mtu, ops>>
    BY <2>1 DEF Spawned, helper, conn, chans
  <2>3. NoMtu'
    BY <2>1, <2>2 DEF MtuInv, NoMtu
  <2>4. QED BY <2>1, <2>2, <2>3, SameHelperMtu
<1>9. CASE WithDelegate
  BY <1>8, <1>9 DEF WithDelegate
<1>10. CASE WaitForNotifications
  BY <1>8, <1>10 DEF WaitForNotifications
<1>11. CASE SetRemoteOOB
  <2>1. CASE StartHelper /\ stdin' = <<>>
    BY <2>1, StartedMtu
  <2>2. CASE UNCHANGED <<wire, helper_up, mtu, lineq>>
    BY <1>8, <2>2
  <2>3. QED BY <1>11, <2>1, <2>2 DEF SetRemoteOOB, Refused
<1>12. QED
  BY <1>4, <1>5, <1>6, <1>7, <1>9, <1>10, <1>11 DEF Application

LEMMA TakeMtu ==
  ASSUME TypeInv, MtuInv, Take, UNCHANGED helper
  PROVE  MtuInv'
<1>1. /\ lineq # <<>> /\ lineq' = Tail(lineq) /\ mtu' = NewMtu(Head(lineq))
      /\ UNCHANGED <<stdin, stdout, proc, helper_up, opt_mtu, ops>>
  BY DEF Take, wire, helper, conn, chans
<1>2. Pending # <<>> /\ Head(Pending) = Head(lineq) /\ Pending' = Tail(Pending)
      /\ Pending \in Seq(Line)
  BY <1>1, TakePending, PendingType
<1>3. NoMtu'
  BY <1>1 DEF MtuInv, NoMtu
<1>4. ASSUME Tells(Pending, mtu, opt_mtu)
      PROVE  Tells(Pending, mtu, opt_mtu)'
  <2>1. Tells(Tail(Pending),
              IF IsStat(Head(Pending)) THEN Head(Pending).mtu ELSE mtu, opt_mtu)
    BY <1>2, <1>4, TellsLess
  <2>2. mtu' = IF IsStat(Head(Pending)) THEN Head(Pending).mtu ELSE mtu
    BY <1>1, <1>2 DEF NewMtu, IsStat
  <2>3. Tells(Tail(Pending), mtu', opt_mtu)
    BY <2>1, <2>2
  <2>4. QED BY <1>1, <1>2, <2>3
<1>5. QED BY <1>1, <1>3, <1>4 DEF MtuInv

LEMMA LibraryMtu ==
  ASSUME TypeInv, MtuInv, Library \/ ReadToQueue, UNCHANGED helper
  PROVE  MtuInv'
<1>1. UNCHANGED <<opt_mtu, ops>>
  BY DEF helper, conn, chans
<1>2. CASE Take
  BY <1>2, TakeMtu
<1>3. CASE Poll \/ Timeout \/ CallbackDone
  <2>1. UNCHANGED <<helper_up, proc, lineq, stdout, mtu, stdin>>
    BY <1>3 DEF Poll, Timeout, CallbackDone, wire
  <2>2. NoMtu'
    BY <1>1, <2>1 DEF MtuInv, NoMtu
  <2>3. QED BY <1>1, <2>1, <2>2, SameHelperMtu
<1>4. CASE WriteQuit
  <2>1. UNCHANGED <<helper_up, proc, lineq, stdout, mtu>>
    BY <1>4 DEF WriteQuit, wire
  <2>2. NoMtu'
    <3>1. CASE UNCHANGED stdin
      BY <1>1, <3>1 DEF MtuInv, NoMtu
    <3>2. CASE \E cmd \in Written(Cmd("quit", 0, NoAddr, 1)) : stdin' = Append(stdin, cmd)
      <4>1. PICK cmd \in Written(Cmd("quit", 0, NoAddr, 1)) : stdin' = Append(stdin, cmd)
        BY <3>2
      <4>2. cmd.verb # "mtu"
        BY <4>1 DEF Written, Cmd
      <4>3. QED BY <1>1, <4>1, <4>2, SentMtu DEF MtuInv
    <3>3. QED BY <1>4, <3>1, <3>2 DEF WriteQuit, wire
  <2>3. QED BY <1>1, <2>1, <2>2, SameHelperMtu
<1>5. CASE WaitExit
  <2>1. proc = "exited" /\ UNCHANGED <<proc, stdin>>
    BY <1>5 DEF WaitExit, wire
  <2>2. NoMtu'
    BY <1>1, <2>1 DEF MtuInv, NoMtu
  <2>3. QED BY <1>1, <2>1, <2>2 DEF MtuInv
<1>6. CASE ReadToQueue
  <2>1. Pending' = Pending /\ UNCHANGED <<helper_up, proc, mtu, stdin>>
    BY <1>6, ReadPending DEF ReadToQueue
  <2>2. NoMtu'
    BY <1>1, <2>1 DEF MtuInv, NoMtu
  <2>3. QED BY <1>1, <2>1, <2>2 DEF MtuInv
<1>7. QED BY <1>2, <1>3, <1>4, <1>5, <1>6 DEF Library

LEMMA ClientStepMtu ==
  ASSUME "setMTU" \notin Calls, TypeInv, MtuInv, ClientStep
  PROVE  MtuInv'
<1>1. IF Spawned THEN Boot ELSE UNCHANGED helper
  BY DEF ClientStep
<1>2. CASE Application
  BY <1>1, <1>2, ApplicationMtu
<1>3. CASE Library \/ ReadToQueue
  <2>1. UNCHANGED proc
    BY <1>3 DEF Library, Poll, Take, Timeout, CallbackDone, WriteQuit, WaitExit,
                ReadToQueue, wire
  <2>2. UNCHANGED helper
    BY <1>1, <2>1 DEF Spawned
  <2>3. QED BY <1>3, <2>2, LibraryMtu
<1>4. QED BY <1>2, <1>3 DEF ClientStep

LEMMA MtuInit ==
  ASSUME SessionInit
  PROVE  MtuInv
<1>1. /\ stdin = <<>> /\ proc = "none" /\ opt_mtu = 0 /\ ops = [c \in Chan |-> <<>>]
  BY DEF SessionInit, WireInit, Init
<1>2. NoMtu
  BY <1>1 DEF NoMtu
<1>3. QED BY <1>1, <1>2 DEF MtuInv

\* getMTU() agrees with the helper whenever every line has been looked at: for
\* a program that does not call setMTU (whose number opt_mtu holds before the
\* peripheral agreed to it), whatever connects, hangs up, is killed or is
\* started again, and whoever else changes the MTU.
THEOREM MtuAgreesAlways ==
  ASSUME "setMTU" \notin Calls
  PROVE  Spec => []MtuAgrees
<1>1. ASSUME TypeInv, MtuInv, [Next]_vars
      PROVE  MtuInv'
  <2>1. CASE Next
    BY <1>1, <2>1, ClientStepMtu, HelperMtu DEF Next
  <2>2. CASE UNCHANGED vars
    <3>1. UNCHANGED <<stdin, stdout, proc, helper_up, opt_mtu, ops, mtu, lineq>>
      BY <2>2 DEF vars, wire, client, helper, conn, chans
    <3>2. NoMtu'
      BY <1>1, <3>1 DEF MtuInv, NoMtu
    <3>3. QED BY <1>1, <3>1, <3>2, SameHelperMtu
  <2>3. QED BY <1>1, <2>1, <2>2
<1>2. TypeInv /\ MtuInv => MtuAgrees
  <2>1. SUFFICES ASSUME TypeInv, MtuInv, helper_up, proc = "running", Drained
                 PROVE  mtu = opt_mtu
    BY DEF MtuAgrees
  <2>2. Tells(Pending, mtu, opt_mtu) /\ lineq = <<>> /\ stdout = <<>>
    BY <2>1 DEF MtuInv, Drained
  <2>3. DOMAIN Pending = {}
    BY <2>2 DEF Pending
  <2>4. QED BY <2>2, <2>3 DEF Tells
<1>3. SessionInit => MtuInv
  BY MtuInit
<1>4. TypeInv /\ MtuInv /\ [Next]_vars => MtuInv'
  BY <1>1
<1>5. QED BY <1>2, <1>3, <1>4, SessionTypeCorrect, PTL DEF Spec
=============================================================================
