-------------------------- MODULE HelperOpen_proofs --------------------------
(***************************************************************************)
(* Proofs about bluepy-helper under any client: its variables keep their    *)
(* types, the four state variables of a connection agree with the sockets   *)
(* and the bearers, and what it prints is true: the state it reports is the *)
(* state it is in, no command is answered twice, nothing is printed of      *)
(* another connection than the one last reported, and no request is dropped *)
(* without a sign; for any number of devices, sockets, commands and events. *)
(* stdout, which nothing reads in HelperOpen, is the history of the lines.  *)
(***************************************************************************)
EXTENDS HelperOpen, Helper_proofs

-----------------------------------------------------------------------------
(* Type correctness.                                                        *)

LEMMA SendType ==
  ASSUME TypeOK, NEW verb \in Verbs, NEW dst \in Addr \cup {NoAddr},
         NEW arg \in Args, Send(verb, dst, arg)
  PROVE  TypeOK'
<1>1. Cmd(verb, ncmd + 1, dst, arg) \in Command /\ ncmd' \in Nat
  BY OpenAssumption DEF Cmd, Command, Send, TypeOK, WireTypeOK
<1>2. stdin' \in Seq(Command)
  BY <1>1 DEF Send, TypeOK, WireTypeOK
<1>3. QED
  BY <1>1, <1>2
  DEF Send, TypeOK, WireTypeOK, HelperTypeOK, helper, conn, chans, mgmt

LEMMA ClientType ==
  ASSUME TypeOK, Client
  PROVE  TypeOK'
<1>1. CASE Spawn
  <2>1. WireTypeOK'
    BY <1>1 DEF Spawn, TypeOK, WireTypeOK
  <2>2. /\ mgmt_master' \in BOOLEAN /\ loop' \in BOOLEAN
        /\ UNCHANGED <<conn, chans, watch, mgmt_q, nevt>>
    BY <1>1, HelperAssumption DEF Spawn, Boot
  <2>3. HelperTypeOK'
    BY <2>2 DEF TypeOK, HelperTypeOK, conn, chans
  <2>4. QED BY <2>1, <2>3 DEF TypeOK
<1>2. CASE Close
  BY <1>2 DEF Close, TypeOK, WireTypeOK, HelperTypeOK, helper, conn, chans, mgmt
<1>3. CASE \E verb \in Verbs, arg \in Args :
             \/ verb = "conn" /\ \E dst \in Addr \cup {NoAddr} : Send(verb, dst, arg)
             \/ verb # "conn" /\ Send(verb, NoAddr, arg)
  BY <1>3, SendType
<1>4. QED BY <1>1, <1>2, <1>3 DEF Client

LEMMA InitType == OpenInit => TypeOK
<1>1. SUFFICES ASSUME OpenInit PROVE TypeOK
  OBVIOUS
<1>2. <<>> \in Seq(Op) /\ <<>> \in Seq(MgmtOp)
  OBVIOUS
<1>3. /\ link \in [Chan -> LinkState] /\ ops \in [Chan -> Seq(Op)]
      /\ over \in [Chan -> 0 .. MaxChan] /\ peer \in [Chan -> Addr \cup {NoAddr}]
  BY <1>1, <1>2, HelperAssumption DEF OpenInit, Init, LinkState
<1>4. HelperTypeOK
  BY <1>1, <1>2, <1>3, HelperAssumption
  DEF OpenInit, Init, HelperTypeOK, ConnState
<1>5. WireTypeOK
  <2>1. <<>> \in Seq(Command) /\ <<>> \in Seq(Line)
    OBVIOUS
  <2>2. QED BY <1>1, <2>1 DEF OpenInit, WireInit, WireTypeOK
<1>6. QED BY <1>4, <1>5 DEF TypeOK

\* Every variable of the helper and of its pipes keeps its type, whatever the
\* client writes and whatever the radio does.
THEOREM TypeCorrect == Spec => []TypeOK
<1>1. TypeOK /\ [Next]_vars => TypeOK'
  <2>1. SUFFICES ASSUME TypeOK, [Next]_vars PROVE TypeOK'
    OBVIOUS
  <2>2. CASE UNCHANGED vars
    BY <2>1, <2>2
    DEF vars, wire, helper, conn, chans, mgmt, TypeOK, WireTypeOK, HelperTypeOK
  <2>3. QED BY <2>1, <2>2, ClientType, HelperStepType DEF Next
<1>2. QED BY <1>1, InitType, PTL DEF Spec

-----------------------------------------------------------------------------
(* The state of the connection agrees with the sockets and the bearers, as  *)
(* long as nobody discovers devices through the management interface: the   *)
(* inductive invariant is Sound.                                            *)

SoundVars == <<conn_state, opt_mtu, iochannel, attrib, nchan, link, over, orphan>>

LEMMA SoundUnchanged ==
  ASSUME Sound, UNCHANGED SoundVars
  PROVE  Sound'
BY DEF Sound, SoundVars, Connecting, Connected, Disconnected, OneSocket,
       OldBearers, Unopened

\* the bearer of an open socket is that of the connection at hand
LEMMA LiveIsCurrent ==
  ASSUME ~Discovering, HelperTypeOK, Sound, NEW b \in Chan, Live(b)
  PROVE  conn_state = "conn" /\ b = iochannel /\ b = attrib /\ over[b] = b
<1>1. over[b] = b /\ link[b] = "up"
  BY DEF Live, Sound, OldBearers
<1>2. b = iochannel /\ conn_state # "disc"
  BY <1>1 DEF Sound, OneSocket
<1>3. conn_state # "tryconn" /\ conn_state # "scan"
  BY <1>1, <1>2 DEF Sound, Connecting
<1>4. conn_state = "conn"
  BY <1>2, <1>3 DEF HelperTypeOK, ConnState
<1>5. QED BY <1>1, <1>2, <1>4 DEF Sound, Connected

\* a bearer that ends with its last request was no part of the connection
LEMMA SettleSound ==
  ASSUME ~Discovering, HelperTypeOK, Sound, NEW b \in Chan, NEW q,
         over[b] # 0, Settle(b, q),
         UNCHANGED <<conn_state, iochannel, attrib, nchan>>,
         opt_mtu' # 0 => conn_state = "conn"
  PROVE  Sound'
<1>1. CASE b \in orphan /\ ~RefHeld(q)
  <2>1. over[b] = b /\ link[b] = "closed"
    BY <1>1 DEF Sound, OldBearers
  <2>2. /\ over' = [over EXCEPT ![b] = 0]
        /\ orphan' = orphan \ {b}
        /\ link' = [link EXCEPT ![b] = "closed"]
    BY <1>1, <2>1 DEF Settle
  <2>3. link' = link
    BY <2>1, <2>2 DEF HelperTypeOK
  <2>4. b # attrib \/ attrib = 0 \/ conn_state # "conn"
    BY <2>1 DEF Sound, Connected
  <2>5. \A x \in Chan : over'[x] = IF x = b THEN 0 ELSE over[x]
    BY <2>2 DEF HelperTypeOK
  <2>6. Connecting' /\ Disconnected' /\ OneSocket' /\ Unopened'
    BY <2>3 DEF Sound, Connecting, Disconnected, OneSocket, Unopened
  <2>7. Connected'
    <3>1. SUFFICES ASSUME conn_state = "conn"
          PROVE  /\ iochannel # 0 /\ attrib = iochannel
                 /\ over'[attrib] = iochannel
                 /\ link[iochannel] \in {"up", "down"}
      BY <2>3 DEF Connected
    <3>2. /\ iochannel # 0 /\ attrib = iochannel /\ over[attrib] = iochannel
          /\ link[iochannel] \in {"up", "down"}
      BY <3>1 DEF Sound, Connected
    <3>3. attrib \in Chan /\ attrib # b
      BY <2>1, <3>2 DEF HelperTypeOK, Chan
    <3>4. QED BY <2>5, <3>2, <3>3
  <2>8. OldBearers'
    BY <2>2, <2>3, <2>5 DEF Sound, OldBearers
  <2>9. QED BY <2>6, <2>7, <2>8 DEF Sound
<1>2. CASE ~(b \in orphan /\ ~RefHeld(q))
  <2>1. UNCHANGED <<over, orphan, link>>
    BY <1>2 DEF Settle
  <2>2. QED
    BY <2>1 DEF Sound, Connecting, Connected, Disconnected, OneSocket,
                OldBearers, Unopened
<1>3. QED BY <1>1, <1>2

\* disconnect_io leaves no socket open and no bearer on an open one
LEMMA DisconnectIoSound ==
  ASSUME ~Discovering, HelperTypeOK, Sound, NEW re, DisconnectIo(re)
  PROVE  Sound'
<1>1. CASE conn_state = "disc"
  BY <1>1, SoundUnchanged DEF DisconnectIo, SoundVars, conn, chans
<1>2. CASE conn_state # "disc"
  <2>1. /\ conn_state' = "disc" /\ opt_mtu' = 0
        /\ attrib' = 0 /\ iochannel' = 0 /\ nchan' = nchan
        /\ IF attrib = 0 THEN UNCHANGED <<over, ops, orphan>> ELSE Unref(attrib)
        /\ link' = [c \in Chan |-> IF Shut(c) THEN "closed" ELSE link[c]]
    BY <1>2 DEF DisconnectIo, ResetMtu
  <2>2. /\ iochannel # 0 /\ link[iochannel] # "none"
        /\ attrib # 0 => attrib = iochannel /\ over[attrib] = iochannel
    BY <1>2 DEF Sound, Connecting, Connected, HelperTypeOK, ConnState
  <2>3. iochannel \in Chan
    BY <2>2 DEF HelperTypeOK, Chan
  <2>4. \A c \in Chan : link'[c] = IF c = iochannel THEN "closed" ELSE link[c]
    BY <2>1, <2>2 DEF Shut
  <2>5. OneSocket' /\ Unopened'
    <3>1. OneSocket' BY <2>1, <2>3, <2>4 DEF Sound, OneSocket
    <3>2. Unopened' BY <2>1, <2>2, <2>3, <2>4 DEF Sound, Unopened
    <3>3. QED BY <3>1, <3>2
  <2>6. OldBearers'
    <3>1. CASE attrib = 0
      BY <2>1, <2>4, <3>1 DEF Sound, OldBearers
    <3>2. CASE attrib # 0 /\ RefHeld(ops[attrib])
      <4>1. orphan' = orphan \cup {attrib} /\ over' = over
        BY <2>1, <3>2 DEF Unref
      <4>2. \A x \in orphan' : x \in orphan \/ x = iochannel
        BY <2>2, <3>2, <4>1
      <4>3. over[iochannel] = iochannel
        BY <2>2, <3>2
      <4>4. QED
        BY <2>1, <2>2, <2>3, <2>4, <3>2, <4>1, <4>2, <4>3
        DEF Sound, OldBearers
    <3>3. CASE attrib # 0 /\ ~RefHeld(ops[attrib])
      <4>1. orphan' = orphan /\ over' = [over EXCEPT ![attrib] = 0]
        BY <2>1, <3>3 DEF Unref
      <4>2. \A x \in Chan : over'[x] = IF x = attrib THEN 0 ELSE over[x]
        BY <4>1 DEF HelperTypeOK
      <4>3. attrib \notin orphan
        BY <1>2, <2>2, <2>3, <3>3
        DEF Sound, OldBearers, Connected, Connecting, HelperTypeOK, ConnState
      <4>4. QED
        BY <2>1, <2>2, <2>4, <3>3, <4>1, <4>2, <4>3 DEF Sound, OldBearers
    <3>4. QED BY <3>1, <3>2, <3>3
  <2>7. QED
    BY <2>1, <2>5, <2>6 DEF Sound, Connecting, Connected, Disconnected
<1>3. QED BY <1>1, <1>2

LEMMA CmdConnectSound ==
  ASSUME ~Discovering, TypeOK, Sound, NEW c \in Command, CmdConnect(c)
  PROVE  Sound'
<1> DEFINE n == nchan + 1
<1>1. UNCHANGED <<opt_mtu, attrib, over, orphan>>
  BY DEF CmdConnect
<1>2. CASE UNCHANGED <<conn, chans>>
  BY <1>2, SoundUnchanged DEF SoundVars, conn, chans
<1>3. CASE CanConnect /\ iochannel' = 0 /\ UNCHANGED <<conn_state, chans>>
  BY <1>1, <1>3
  DEF CanConnect, chans, Sound, Connecting, Connected, Disconnected, OneSocket,
      OldBearers, Unopened
<1>4. CASE /\ CanConnect /\ n \in Chan
           /\ conn_state' = "tryconn" /\ iochannel' = n /\ nchan' = n
           /\ link' = [link EXCEPT ![n] = "connecting"]
  <2>1. conn_state = "disc" /\ attrib = 0 /\ opt_mtu = 0 /\ link[n] = "none"
    BY <1>4 DEF CanConnect, Sound, Disconnected, Unopened, TypeOK, HelperTypeOK
  <2>2. \A x \in Chan : link'[x] = IF x = n THEN "connecting" ELSE link[x]
    BY <1>4 DEF TypeOK, HelperTypeOK
  <2>3. n # 0 /\ n > nchan
    BY DEF TypeOK, HelperTypeOK
  <2>4. Connecting' /\ Connected' /\ Disconnected'
    BY <1>1, <1>4, <2>1, <2>2, <2>3 DEF Connecting, Connected, Disconnected
  <2>5. OneSocket'
    BY <1>4, <2>1, <2>2 DEF Sound, OneSocket
  <2>6. OldBearers'
    BY <1>1, <1>4, <2>1, <2>2 DEF Sound, OldBearers
  <2>7. Unopened'
    <3>1. \A x \in Chan : x > n => x # n /\ x > nchan
      BY DEF TypeOK, HelperTypeOK, Chan
    <3>2. QED BY <1>4, <2>2, <3>1 DEF Sound, Unopened
  <2>8. QED BY <1>1, <1>4, <2>1, <2>4, <2>5, <2>6, <2>7 DEF Sound
<1>5. QED BY <1>2, <1>3, <1>4 DEF CmdConnect

LEMMA CmdMtuSound ==
  ASSUME ~Discovering, TypeOK, Sound, NEW c \in Command, CmdMtu(c)
  PROVE  Sound'
<1>1. /\ UNCHANGED <<conn_state, iochannel, attrib, nchan, link, over, orphan>>
      /\ UNCHANGED opt_mtu \/ conn_state = "conn"
  BY DEF CmdMtu, CanSetMtu
<1>2. QED
  BY <1>1 DEF Sound, Connecting, Connected, Disconnected, OneSocket,
              OldBearers, Unopened

LEMMA DispatchSound ==
  ASSUME ~Discovering, TypeOK, Sound, NEW c \in Command, Dispatch(c)
  PROVE  Sound'
<1>1. CASE CmdStatus(c) \/ CmdExit(c) \/ CmdGatt(c) \/ CmdWrite(c)
           \/ CmdSecLevel(c) \/ CmdMgmt(c)
  <2>1. UNCHANGED SoundVars
    BY <1>1 DEF CmdStatus, CmdExit, CmdGatt, CmdWrite, CmdSecLevel, CmdMgmt,
                conn, chans, SoundVars
  <2>2. QED BY <2>1, SoundUnchanged
<1>2. CASE CmdDisconnect(c)
  BY <1>2, DisconnectIoSound DEF CmdDisconnect, TypeOK
<1>3. QED BY <1>1, <1>2, CmdConnectSound, CmdMtuSound DEF Dispatch

\* the connection that connect_cb reports is the one last asked for
LEMMA ConnectCbOkSound ==
  ASSUME ~Discovering, TypeOK, Sound, NEW c \in Chan, ConnectCbOk(c)
  PROVE  Sound'
<1>1. /\ link[c] = "connecting" /\ link' = [link EXCEPT ![c] = "up"]
      /\ over' = [over EXCEPT ![c] = iochannel]
      /\ attrib' = IF iochannel = 0 THEN 0 ELSE c
      /\ conn_state' = "conn"
      /\ UNCHANGED <<opt_mtu, iochannel, nchan, orphan>>
  BY DEF ConnectCbOk
<1>2. c = iochannel /\ c # 0
  BY <1>1 DEF Sound, OneSocket, Chan
<1>3. conn_state = "tryconn" /\ attrib = 0
  BY <1>1, <1>2
  DEF Sound, OneSocket, Connecting, Connected, TypeOK, HelperTypeOK, ConnState
<1>4. \A x \in Chan : /\ link'[x] = IF x = c THEN "up" ELSE link[x]
                      /\ over'[x] = IF x = c THEN c ELSE over[x]
  BY <1>1, <1>2 DEF TypeOK, HelperTypeOK
<1>5. attrib' = c
  BY <1>1, <1>2
<1>6. Connecting' /\ Connected' /\ Disconnected'
  BY <1>1, <1>2, <1>4, <1>5 DEF Connecting, Connected, Disconnected
<1>7. OneSocket' /\ Unopened'
  BY <1>1, <1>2, <1>4 DEF Sound, OneSocket, Unopened
<1>8. OldBearers'
  BY <1>1, <1>3, <1>4, <1>5 DEF Sound, OldBearers
<1>9. QED BY <1>1, <1>6, <1>7, <1>8 DEF Sound

LEMMA ConnectCbErrSound ==
  ASSUME ~Discovering, TypeOK, Sound, NEW c \in Chan, ConnectCbErr(c)
  PROVE  Sound'
<1>1. /\ link[c] = "connecting" /\ link' = [link EXCEPT ![c] = "failed"]
      /\ conn_state' = "disc"
      /\ UNCHANGED <<opt_mtu, iochannel, attrib, nchan, over, orphan>>
  BY DEF ConnectCbErr
<1>2. c = iochannel
  BY <1>1 DEF Sound, OneSocket
<1>3. conn_state = "tryconn" /\ attrib = 0
  BY <1>1, <1>2
  DEF Sound, OneSocket, Connecting, Connected, TypeOK, HelperTypeOK, ConnState
<1>4. \A x \in Chan : link'[x] = IF x = c THEN "failed" ELSE link[x]
  BY <1>1 DEF TypeOK, HelperTypeOK
<1>5. Connecting' /\ Connected' /\ Disconnected'
  BY <1>1, <1>3 DEF Connecting, Connected, Disconnected
<1>6. OneSocket' /\ Unopened'
  BY <1>1, <1>2, <1>4 DEF Sound, OneSocket, Unopened
<1>7. OldBearers'
  BY <1>1, <1>3, <1>4 DEF Sound, OldBearers
<1>8. QED BY <1>1, <1>3, <1>5, <1>6, <1>7 DEF Sound

\* a working link goes down: the radio's doing, or the timeout's
LEMMA LinkDownSound ==
  ASSUME ~Discovering, TypeOK, Sound, NEW c \in Chan, link[c] = "up",
         link' = [link EXCEPT ![c] = "down"],
         UNCHANGED <<conn, nchan, over, orphan>>
  PROVE  Sound'
<1>1. \A x \in Chan : link'[x] = IF x = c THEN "down" ELSE link[x]
  BY DEF TypeOK, HelperTypeOK
<1>2. QED
  BY <1>1 DEF conn, Sound, Connecting, Connected, Disconnected, OneSocket,
              OldBearers, Unopened, TypeOK, HelperTypeOK, Chan

LEMMA AttTimeoutSound ==
  ASSUME ~Discovering, TypeOK, Sound, NEW b \in Chan, AttTimeout(b)
  PROVE  Sound'
<1>1. Live(b) /\ over[b] = b /\ over[b] # 0 /\ link[b] = "up"
  BY LiveIsCurrent DEF AttTimeout, Live, TypeOK
<1>2. CASE Settle(b, Tail(ops[b]))
  <2>1. /\ UNCHANGED <<conn_state, iochannel, attrib, nchan>>
        /\ opt_mtu' # 0 => conn_state = "conn"
    BY DEF AttTimeout, conn, Sound
  <2>2. QED BY <1>1, <1>2, <2>1, SettleSound DEF TypeOK
<1>3. CASE Shutdown(b) /\ UNCHANGED <<over, orphan>>
  BY <1>1, <1>3, LinkDownSound DEF Shutdown, AttTimeout
<1>4. QED BY <1>2, <1>3 DEF AttTimeout

LEMMA CallbackSound ==
  ASSUME ~Discovering, TypeOK, Sound, Callback
  PROVE  Sound'
<1>1. ASSUME NEW c \in Chan, ChannelWatcher(c) PROVE Sound'
  <2>1. CASE DisconnectIo(0)
    BY <2>1, DisconnectIoSound DEF TypeOK
  <2>2. CASE UNCHANGED <<conn, chans>>
    BY <2>2, SoundUnchanged DEF conn, chans, SoundVars
  <2>3. QED BY <1>1, <2>1, <2>2 DEF ChannelWatcher
<1>2. ASSUME NEW c \in Chan, LinkLoss(c) PROVE Sound'
  BY <1>2, LinkDownSound DEF LinkLoss
<1>3. ASSUME NEW b \in Chan, AttResult(b) \/ AttError(b) PROVE Sound'
  <2>1. /\ over[b] # 0 /\ Settle(b, Tail(ops[b]))
        /\ UNCHANGED <<conn, nchan>>
    BY <1>3 DEF AttResult, AttError, Live
  <2>2. QED BY <2>1, SettleSound DEF TypeOK, conn, Sound
<1>4. ASSUME NEW b \in Chan, NEW m \in Mtus, MtuResult(b, m) PROVE Sound'
  <2>1. /\ Live(b) /\ over[b] # 0 /\ Settle(b, Tail(ops[b]))
        /\ UNCHANGED <<conn_state, iochannel, attrib, nchan>>
    BY <1>4 DEF MtuResult, Live
  <2>2. QED BY <2>1, LiveIsCurrent, SettleSound DEF TypeOK
<1>5. ASSUME NEW b \in Chan, NEW m \in Mtus, PeerMtuReq(b, m) PROVE Sound'
  <2>1. /\ Live(b) /\ UNCHANGED <<conn_state, iochannel, attrib, chans>>
    BY <1>5 DEF PeerMtuReq
  <2>2. conn_state = "conn"
    BY <2>1, LiveIsCurrent DEF TypeOK
  <2>3. QED
    BY <2>1, <2>2 DEF chans, Sound, Connecting, Connected, Disconnected,
                      OneSocket, OldBearers, Unopened
<1>6. CASE \/ \E b \in Chan : \/ AttContinue(b)
                              \/ \E kind \in {"ntfy", "ind"} : Notification(b, kind)
           \/ MgmtComplete \/ MgmtDeviceFound
  <2>1. UNCHANGED SoundVars
    BY <1>6 DEF AttContinue, Notification, MgmtComplete, MgmtDeviceFound,
                conn, chans, SoundVars
  <2>2. QED BY <2>1, SoundUnchanged
<1>7. ASSUME NEW on \in BOOLEAN, MgmtScanning(on) PROVE Sound'
  BY <1>7 DEF MgmtScanning
<1>8. QED
  BY <1>1, <1>2, <1>3, <1>4, <1>5, <1>6, <1>7, ConnectCbOkSound,
     ConnectCbErrSound, AttTimeoutSound DEF Callback

\* a connecting socket is closed, a bearer is freed: neither harms
LEMMA ClosedEarlySound ==
  ASSUME ~Discovering, TypeOK, Sound, orphan' \subseteq orphan,
         UNCHANGED <<conn, nchan>>,
         \A c \in Chan : \/ link'[c] = link[c]
                         \/ link[c] = "connecting" /\ link'[c] = "closed",
         \A c \in Chan : \/ over'[c] = over[c]
                         \/ over'[c] = 0 /\ c \in orphan /\ c \notin orphan'
  PROVE  Sound'
<1>1. Connecting' /\ Connected' /\ Disconnected'
  BY DEF conn, Sound, Connecting, Connected, Disconnected, OldBearers, OneSocket,
         TypeOK, HelperTypeOK, Chan
<1>2. OneSocket' /\ Unopened'
  BY DEF conn, Sound, OneSocket, Unopened
<1>3. OldBearers'
  BY DEF conn, Sound, OneSocket, OldBearers
<1>4. QED BY <1>1, <1>2, <1>3 DEF conn, Sound

LEMMA GoneSound ==
  ASSUME Gone
  PROVE  Sound'
BY DEF Gone, Sound, Connecting, Connected, Disconnected, OneSocket, OldBearers,
       Unopened

LEMMA HelperStepSound ==
  ASSUME ~Discovering, TypeOK, Sound, HelperStep
  PROVE  Sound'
<1>1. CASE PromptRead
  <2>1. /\ stdin \in Seq(Command) /\ stdin # <<>>
        /\ Dispatch(Head(stdin)) \/ AddOobAborts(Head(stdin))
    BY <1>1 DEF PromptRead, TypeOK, WireTypeOK
  <2>2. Head(stdin) \in Command
    BY <2>1
  <2>3. QED BY <2>1, <2>2, DispatchSound, GoneSound DEF AddOobAborts
<1>2. CASE PromptEof
  BY <1>2, SoundUnchanged DEF PromptEof, SoundVars, conn, chans
<1>3. CASE Exit
  BY <1>3, GoneSound DEF Exit
<1>4. CASE Callback
  BY <1>4, CallbackSound
<1>5. ASSUME NEW b \in Chan, FlushBearer(b) PROVE Sound'
  <2>1. CASE Gone
    BY <2>1, GoneSound
  <2>2. CASE ~Gone
    <3>1. /\ over' = [over EXCEPT ![b] = IF b \in orphan THEN 0 ELSE @]
          /\ orphan' = orphan \ {b}
          /\ link' = [c \in Chan |->
                         IF SameNumber(b, c) THEN "closed" ELSE link[c]]
          /\ UNCHANGED <<conn, nchan>>
      BY <1>5, <2>2, FlushBearerLink
    <3>2. \A c \in Chan : \/ link'[c] = link[c]
                          \/ link[c] = "connecting" /\ link'[c] = "closed"
      <4>1. TAKE c \in Chan
      <4>2. link'[c] = IF SameNumber(b, c) THEN "closed" ELSE link[c]
        BY <3>1
      <4>3. CASE SameNumber(b, c)
        BY <4>2, <4>3 DEF SameNumber
      <4>4. CASE ~SameNumber(b, c)
        BY <4>2, <4>4
      <4>5. QED BY <4>3, <4>4
    <3>3. \A c \in Chan : \/ over'[c] = over[c]
                          \/ over'[c] = 0 /\ c \in orphan /\ c \notin orphan'
      <4>1. TAKE c \in Chan
      <4>2. over \in [Chan -> 0 .. MaxChan]
        BY DEF TypeOK, HelperTypeOK
      <4>3. CASE c = b
        BY <3>1, <4>2, <4>3
      <4>4. CASE c # b
        BY <3>1, <4>2, <4>4
      <4>5. QED BY <4>3, <4>4
    <3>4. orphan' \subseteq orphan /\ UNCHANGED <<conn, nchan>>
      BY <3>1
    <3>5. QED BY <3>2, <3>3, <3>4, ClosedEarlySound
  <2>3. QED BY <2>1, <2>2
<1>6. QED BY <1>1, <1>2, <1>3, <1>4, <1>5 DEF HelperStep

\* Connecting, Connected and Disconnected say what the helper's state means
\* for its socket and its bearer; OneSocket, OldBearers and Unopened that
\* nothing is left of earlier connections that could reach the current one.
THEOREM SoundAlways == Spec => []Sound
<1>1. OpenInit => Sound
  BY DEF OpenInit, Init, Sound, Connecting, Connected, Disconnected, OneSocket,
         OldBearers, Unopened
<1>2. TypeOK /\ Sound /\ [Next]_vars => Sound'
  <2>1. SUFFICES ASSUME TypeOK, Sound, [Next]_vars PROVE Sound'
    OBVIOUS
  <2>2. CASE Discovering
    BY <2>2 DEF Sound
  <2>3. CASE ~Discovering
    <3>1. CASE UNCHANGED helper
      BY <2>1, <3>1, SoundUnchanged DEF helper, conn, chans, SoundVars
    <3>2. CASE Client
      <4>1. UNCHANGED SoundVars
        BY <3>2 DEF Client, Spawn, Boot, Send, Close, helper, conn, chans, SoundVars
      <4>2. QED BY <2>1, <4>1, SoundUnchanged
    <3>3. QED BY <2>1, <2>3, <3>1, <3>2, HelperStepSound DEF Next, vars
  <2>4. QED BY <2>2, <2>3
<1>3. QED BY <1>1, <1>2, TypeCorrect, PTL DEF Spec

\* In the connected state the two pointers the handlers use are not NULL, and
\* the bearer sits on the current socket.
THEOREM ConnectedHasBearerAlways == Spec => []ConnectedHasBearer
<1>1. Sound => ConnectedHasBearer
  BY DEF Sound, Connected, ConnectedHasBearer
<1>2. QED BY <1>1, SoundAlways, PTL

\* No socket but the current one is connecting or connected.
THEOREM NoLostLinkAlways == Spec => []NoLostLink
<1>1. Sound => NoLostLink
  BY DEF Sound, OneSocket, NoLostLink
<1>2. QED BY <1>1, SoundAlways, PTL

\* A working connection ends only because it was asked to, or with the helper.
THEOREM EndsOnRequestAlways == Spec => EndsOnRequest
<1> DEFINE Ends == conn_state = "conn" /\ conn_state' = "disc" /\ ~Discovering
           Asked == \/ link[iochannel] = "down"
                    \/ ~loop
                    \/ proc' = "exited"
                    \/ stdin # <<>> /\ Head(stdin).verb = "disc"
<1>1. TypeOK /\ Sound /\ [Next]_vars => [Ends => Asked]_vars
  <2>1. SUFFICES ASSUME TypeOK, Sound, Next, Ends PROVE Asked
    OBVIOUS
  <2>2. /\ iochannel # 0 /\ iochannel \in Chan /\ attrib = iochannel
        /\ link[iochannel] \in {"up", "down"}
    BY <2>1 DEF Sound, Connected, TypeOK, HelperTypeOK, Chan
  <2>3. CASE Client
    BY <2>1, <2>3 DEF Client, Spawn, Boot, Send, Close, helper, conn
  <2>4. CASE PromptRead
    <3>1. /\ stdin # <<>>
          /\ Dispatch(Head(stdin)) \/ AddOobAborts(Head(stdin))
      BY <2>4 DEF PromptRead
    <3>2. CASE Head(stdin).verb = "disc"
      BY <3>1, <3>2
    <3>3. CASE AddOobAborts(Head(stdin))
      BY <3>3 DEF AddOobAborts, Gone
    <3>4. CASE Dispatch(Head(stdin)) /\ Head(stdin).verb # "disc"
      <4>1. UNCHANGED conn_state
        BY <2>1, <3>4
        DEF Dispatch, CmdStatus, CmdExit, CmdConnect, CmdDisconnect, CmdGatt,
            CmdWrite, CmdSecLevel, CmdMtu, CmdMgmt, conn, CanConnect
      <4>2. QED BY <2>1, <4>1
    <3>5. QED BY <3>1, <3>2, <3>3, <3>4
  <2>5. CASE PromptEof
    BY <2>1, <2>5 DEF PromptEof, conn
  <2>6. CASE Exit
    BY <2>6 DEF Exit
  <2>7. CASE Callback
    <3>1. ASSUME NEW c \in Chan, ConnectCbErr(c) PROVE Asked
      BY <2>1, <2>2, <3>1 DEF ConnectCbErr, Sound, OneSocket
    <3>2. ASSUME NEW c \in Chan, ChannelWatcher(c) PROVE Asked
      <4>1. CASE IsCurrent(c)
        BY <2>2, <3>2, <4>1 DEF ChannelWatcher, IsCurrent
      <4>2. CASE ~IsCurrent(c)
        BY <2>1, <3>2, <4>2 DEF ChannelWatcher, conn
      <4>3. QED BY <4>1, <4>2
    <3>3. ASSUME NEW on \in BOOLEAN, MgmtScanning(on) PROVE Asked
      BY <2>1, <3>3 DEF MgmtScanning
    <3>4. CASE UNCHANGED conn_state
      BY <2>1, <3>4
    <3>5. CASE \E c \in Chan : ConnectCbOk(c)
      BY <2>1, <3>5 DEF ConnectCbOk
    <3>6. QED
      BY <2>7, <3>1, <3>2, <3>3, <3>4, <3>5
      DEF Callback, LinkLoss, AttResult, AttContinue, AttError, AttTimeout,
          Notification, MtuResult, PeerMtuReq, MgmtComplete, MgmtDeviceFound, conn
  <2>8. CASE \E b \in Chan : FlushBearer(b)
    BY <2>1, <2>8 DEF FlushBearer, Gone, conn
  <2>9. QED
    BY <2>1, <2>3, <2>4, <2>5, <2>6, <2>7, <2>8 DEF Next, HelperStep
<1>2. QED
  BY <1>1, TypeCorrect, SoundAlways, PTL DEF Spec, EndsOnRequest

-----------------------------------------------------------------------------
(* Printing.                                                                *)

\* the old lines stay where they are, the new ones follow
LEMMA SayAt ==
  ASSUME stdout \in Seq(Line), NEW lines \in Seq(Line), Say(lines)
  PROVE  /\ stdout' \in Seq(Line)
         /\ Len(stdout) \in Nat /\ Len(lines) \in Nat
         /\ Len(stdout') = Len(stdout) + Len(lines)
         /\ DOMAIN stdout = 1 .. Len(stdout) /\ DOMAIN lines = 1 .. Len(lines)
         /\ DOMAIN stdout' = 1 .. Len(stdout')
         /\ \A i \in 1 .. Len(stdout) : i \in DOMAIN stdout' /\ stdout'[i] = stdout[i]
         /\ \A i \in 1 .. Len(stdout') : i > Len(stdout) =>
              /\ i - Len(stdout) \in 1 .. Len(lines)
              /\ stdout'[i] = lines[i - Len(stdout)]
         /\ \A k \in 1 .. Len(lines) :
              /\ Len(stdout) + k \in 1 .. Len(stdout')
              /\ stdout'[Len(stdout) + k] = lines[k]
BY DEF Say

\* the same, line by line
LEMMA SayLines ==
  ASSUME stdout \in Seq(Line), NEW lines \in Seq(Line), Say(lines)
  PROVE  /\ Len(stdout) \in Nat
         /\ \A j \in DOMAIN stdout :
              j \in Nat /\ j <= Len(stdout) /\ j \in DOMAIN stdout' /\ stdout'[j] = stdout[j]
         /\ \A k \in DOMAIN lines :
              /\ k \in Nat /\ k >= 1 /\ Len(stdout) + k \in DOMAIN stdout'
              /\ stdout'[Len(stdout) + k] = lines[k]
         /\ \A j \in DOMAIN stdout' :
              /\ j \in Nat
              /\ j <= Len(stdout) => j \in DOMAIN stdout /\ stdout'[j] = stdout[j]
              /\ j > Len(stdout) => /\ j - Len(stdout) \in DOMAIN lines
                                    /\ stdout'[j] = lines[j - Len(stdout)]
<1> DEFINE n == Len(stdout)
<1>1. /\ n \in Nat /\ Len(lines) \in Nat /\ DOMAIN stdout = 1 .. n
      /\ DOMAIN lines = 1 .. Len(lines) /\ DOMAIN stdout' = 1 .. (n + Len(lines))
  BY SayAt
<1>2. /\ \A i \in 1 .. n : stdout'[i] = stdout[i]
      /\ \A i \in 1 .. (n + Len(lines)) : i > n => stdout'[i] = lines[i - n]
      /\ \A k \in 1 .. Len(lines) : stdout'[n + k] = lines[k]
  BY SayAt
<1> HIDE DEF n
<1>3. QED BY <1>1, <1>2 DEF n

LEMMA OneLine ==
  ASSUME NEW l \in Line
  PROVE  <<l>> \in Seq(Line) /\ DOMAIN <<l>> = {1} /\ Len(<<l>>) = 1 /\ <<l>>[1] = l
OBVIOUS

LEMMA TwoLines ==
  ASSUME NEW l \in Line, NEW k \in Line
  PROVE  /\ <<l, k>> \in Seq(Line) /\ DOMAIN <<l, k>> = {1, 2}
         /\ Len(<<l, k>>) = 2 /\ <<l, k>>[1] = l /\ <<l, k>>[2] = k
OBVIOUS

\* the types of the lines
LEMMA LineKinds ==
  /\ \A state, dst, m, re : /\ Stat(state, dst, m, re).rsp = "stat"
                            /\ Stat(state, dst, m, re).tag = state
                            /\ Stat(state, dst, m, re).re = re
                            /\ state # "disc" => Stat(state, dst, m, re).dst = dst
  /\ \A code, re : /\ Err(code, re).rsp = "err" /\ Err(code, re).re = re
                   /\ Mgmt(code, re).rsp = "mgmt" /\ Mgmt(code, re).re = re
  /\ \A rsp, dst, re : /\ Data(rsp, dst, re).rsp = rsp
                       /\ Data(rsp, dst, re).dst = dst
                       /\ Data(rsp, dst, re).re = re
BY DEF Stat, Err, Mgmt, Data

\* a failed request prints an error, or the part of a value it has got
LEMMA FailedKind ==
  ASSUME NEW o \in Op, NEW dst \in Addr \cup {NoAddr}
  PROVE  /\ Failed(o, dst) \in Line /\ Failed(o, dst).re = o.id
         /\ Failed(o, dst).rsp \in {"rd", "err"}
         /\ Failed(o, dst).rsp = "rd" => Failed(o, dst).dst = dst
<1>1. Failed(o, dst) \in Line
  BY FailedType
<1>2. QED BY <1>1 DEF Failed, Data, Err

LEMMA ResultKind ==
  ASSUME NEW verb \in GattVerbs
  PROVE  ResultType(verb) \in {"find", "desc", "rd", "wr"}
BY DEF GattVerbs, ResultType

-----------------------------------------------------------------------------
(* The state reported.                                                      *)

\* lines that report no state, and the state stays
LEMMA ReportStays ==
  ASSUME TypeOK, StateReported, proc = "running",
         NEW lines \in Seq(Line), Say(lines),
         \A k \in DOMAIN lines : lines[k].rsp # "stat", UNCHANGED conn_state
  PROVE  StateReported'
<1>1. SUFFICES ASSUME NEW i \in DOMAIN stdout', LastStat(i)'
               PROVE  stdout'[i].tag = conn_state
  BY DEF StateReported
<1>2. stdout \in Seq(Line)
  BY DEF TypeOK, WireTypeOK
<1> DEFINE n == Len(stdout)
<1>3. /\ n \in Nat
      /\ \A j \in DOMAIN stdout :
           j \in Nat /\ j <= n /\ j \in DOMAIN stdout' /\ stdout'[j] = stdout[j]
      /\ \A j \in DOMAIN stdout' :
           /\ j \in Nat
           /\ j <= n => j \in DOMAIN stdout /\ stdout'[j] = stdout[j]
           /\ j > n => j - n \in DOMAIN lines /\ stdout'[j] = lines[j - n]
  BY <1>2, SayLines
<1> HIDE DEF n
<1>4. stdout'[i].rsp = "stat"
  BY <1>1 DEF LastStat
<1>5. ~(i > n)
  BY <1>1, <1>3, <1>4
<1>6. i \in DOMAIN stdout /\ stdout'[i] = stdout[i]
  BY <1>3, <1>5
<1>7. LastStat(i)
  BY <1>1, <1>3, <1>6 DEF LastStat
<1>8. QED BY <1>6, <1>7 DEF StateReported

\* lines the last "stat" of which reports the new state
LEMMA ReportTold ==
  ASSUME TypeOK, NEW lines \in Seq(Line), Say(lines), NEW k \in DOMAIN lines,
         lines[k].rsp = "stat", lines[k].tag = conn_state',
         \A j \in DOMAIN lines : j > k => lines[j].rsp # "stat"
  PROVE  StateReported'
<1>1. SUFFICES ASSUME NEW i \in DOMAIN stdout', LastStat(i)'
               PROVE  stdout'[i].tag = conn_state'
  BY DEF StateReported
<1>2. stdout \in Seq(Line)
  BY DEF TypeOK, WireTypeOK
<1> DEFINE n == Len(stdout)
<1>3. /\ n \in Nat
      /\ \A j \in DOMAIN lines :
           /\ j \in Nat /\ j >= 1
           /\ n + j \in DOMAIN stdout' /\ stdout'[n + j] = lines[j]
      /\ \A j \in DOMAIN stdout' :
           /\ j \in Nat
           /\ j > n => j - n \in DOMAIN lines /\ stdout'[j] = lines[j - n]
  BY <1>2, SayLines
<1> HIDE DEF n
<1>4. k \in Nat /\ n + k \in DOMAIN stdout' /\ stdout'[n + k] = lines[k]
  BY <1>3
<1>5. ~(i < n + k)
  BY <1>1, <1>4 DEF LastStat
<1>6. ~(i > n + k)
  <2>1. SUFFICES ASSUME i > n + k PROVE FALSE
    OBVIOUS
  <2>2. i > n /\ i - n > k
    BY <1>3, <1>4, <2>1
  <2>3. i - n \in DOMAIN lines /\ stdout'[i] = lines[i - n]
    BY <1>1, <1>3, <2>2
  <2>4. QED BY <1>1, <2>2, <2>3 DEF LastStat
<1>7. i = n + k
  BY <1>3, <1>4, <1>5, <1>6
<1>8. QED BY <1>4, <1>7

LEMMA ReportQuiet ==
  ASSUME StateReported, proc = "running", UNCHANGED <<stdout, conn_state>>
  PROVE  StateReported'
BY DEF StateReported, LastStat

LEMMA ReportLine ==
  ASSUME TypeOK, StateReported, proc = "running", NEW l \in Line, Say(<<l>>),
         l.rsp # "stat", UNCHANGED conn_state
  PROVE  StateReported'
<1>1. <<l>> \in Seq(Line) /\ \A k \in DOMAIN <<l>> : <<l>>[k].rsp # "stat"
  BY OneLine
<1>2. QED BY <1>1, ReportStays

LEMMA ReportStat ==
  ASSUME TypeOK, NEW l \in Line, Say(<<l>>), l.rsp = "stat", l.tag = conn_state'
  PROVE  StateReported'
<1>1. /\ <<l>> \in Seq(Line) /\ 1 \in DOMAIN <<l>> /\ <<l>>[1] = l
      /\ \A j \in DOMAIN <<l>> : ~(j > 1)
  BY OneLine
<1>2. QED BY <1>1, ReportTold

LEMMA DisconnectIoReported ==
  ASSUME TypeOK, StateReported, proc = "running", NEW re \in Nat, DisconnectIo(re)
  PROVE  StateReported'
<1>1. CASE UNCHANGED <<conn, chans, stdout>>
  BY <1>1, ReportQuiet DEF conn
<1>2. CASE conn_state' = "disc" /\ Say(<<Stat("disc", NoAddr, 0, re)>>)
  <2>1. Stat("disc", NoAddr, 0, re) \in Line
    BY StatType DEF ConnState
  <2>2. QED BY <1>2, <2>1, ReportStat, LineKinds
<1>3. QED BY <1>1, <1>2 DEF DisconnectIo

LEMMA DispatchReported ==
  ASSUME TypeOK, StateReported, proc = "running", NEW c \in Command, Dispatch(c)
  PROVE  StateReported'
<1>1. /\ c.id \in Nat /\ opt_dst \in Addr \cup {NoAddr} /\ opt_mtu \in Nat
      /\ conn_state \in ConnState /\ c.dst \in Addr \cup {NoAddr}
  BY DEF Command, TypeOK, HelperTypeOK
<1>2. ASSUME NEW code \in ErrCode, Say(<<Err(code, c.id)>>) \/ Say(<<Mgmt(code, c.id)>>),
             UNCHANGED conn_state
      PROVE  StateReported'
  <2>1. Err(code, c.id) \in Line /\ Mgmt(code, c.id) \in Line
    BY <1>1, <1>2, ErrType, MgmtType
  <2>2. Err(code, c.id).rsp # "stat" /\ Mgmt(code, c.id).rsp # "stat"
    BY LineKinds
  <2>3. QED BY <1>2, <2>1, <2>2, ReportLine
<1>3. ASSUME Say(<<Stat(conn_state, opt_dst, opt_mtu, c.id)>>), UNCHANGED conn_state
      PROVE  StateReported'
  <2>1. Stat(conn_state, opt_dst, opt_mtu, c.id) \in Line
    BY <1>1, StatType
  <2>2. QED BY <1>3, <2>1, ReportStat, LineKinds
<1>4. CASE CmdStatus(c)
  BY <1>3, <1>4 DEF CmdStatus, conn
<1>5. CASE CmdExit(c)
  BY <1>5, ReportQuiet DEF CmdExit, conn
<1>6. CASE CmdConnect(c)
  <2> DEFINE dst == IF c.dst = NoAddr THEN opt_dst ELSE c.dst
             n == nchan + 1
  <2>1. dst \in Addr \cup {NoAddr}
    BY <1>1
  <2>2. /\ Stat("tryconn", dst, opt_mtu, c.id) \in Line
        /\ Stat("disc", dst, opt_mtu, c.id) \in Line
    BY <1>1, <2>1, StatType DEF ConnState
  <2> HIDE DEF dst
  <2>3. CASE UNCHANGED <<conn, chans, watch, stdout>>
    BY <2>3, ReportQuiet DEF conn
  <2>4. CASE Say(<<Err("badparam", c.id)>>) /\ UNCHANGED <<conn, chans, watch>>
    BY <1>2, <2>4 DEF conn, ErrCode
  <2>5. CASE /\ CanConnect /\ UNCHANGED <<conn_state, chans, watch>>
             /\ Say(<<Stat("tryconn", dst, opt_mtu, c.id),
                      Stat("disc", dst, opt_mtu, c.id)>>)
    <3> DEFINE l == Stat("tryconn", dst, opt_mtu, c.id)
               k == Stat("disc", dst, opt_mtu, c.id)
    <3>1. k.rsp = "stat" /\ k.tag = "disc" /\ conn_state' = "disc"
      BY <2>5, LineKinds DEF CanConnect
    <3>2. l \in Line /\ k \in Line /\ Say(<<l, k>>)
      BY <2>2, <2>5
    <3> HIDE DEF l, k
    <3>3. /\ <<l, k>> \in Seq(Line) /\ 2 \in DOMAIN <<l, k>> /\ <<l, k>>[2] = k
          /\ \A j \in DOMAIN <<l, k>> : ~(j > 2)
      BY <3>2, TwoLines
    <3>4. QED BY <3>1, <3>2, <3>3, ReportTold
  <2>6. CASE conn_state' = "tryconn" /\ Say(<<Stat("tryconn", dst, opt_mtu, c.id)>>)
    BY <2>2, <2>6, ReportStat, LineKinds
  <2>7. QED BY <1>6, <2>3, <2>4, <2>5, <2>6 DEF CmdConnect, dst
<1>7. CASE CmdDisconnect(c)
  BY <1>1, <1>7, DisconnectIoReported DEF CmdDisconnect
<1>8. CASE CmdGatt(c)
  BY <1>2, <1>8, ReportQuiet DEF CmdGatt, conn, ErrCode
<1>9. CASE CmdWrite(c)
  <2>1. Data("wr", opt_dst, c.id) \in Line /\ Data("wr", opt_dst, c.id).rsp # "stat"
    BY <1>1, DataType, LineKinds DEF RspType
  <2>2. QED BY <1>2, <1>9, <2>1, ReportLine DEF CmdWrite, conn, ErrCode
<1>10. CASE CmdSecLevel(c)
  BY <1>2, <1>3, <1>10, ReportQuiet DEF CmdSecLevel, conn, ErrCode
<1>11. CASE CmdMtu(c)
  BY <1>2, <1>11, ReportQuiet DEF CmdMtu, ErrCode
<1>12. CASE CmdMgmt(c)
  <2>1. UNCHANGED conn_state
    BY <1>12 DEF CmdMgmt, conn
  <2>2. \/ Say(<<Mgmt("badparam", c.id)>>) \/ Say(<<Mgmt("notfound", c.id)>>)
        \/ Say(<<Err("badparam", c.id)>>) \/ Say(<<Err("nomgmt", c.id)>>)
        \/ Say(<<Mgmt("badstate", c.id)>>) \/ UNCHANGED stdout
    BY <1>12 DEF CmdMgmt
  <2>3. QED BY <1>2, <2>1, <2>2, ReportQuiet DEF ErrCode
<1>13. QED
  BY <1>4, <1>5, <1>6, <1>7, <1>8, <1>9, <1>10, <1>11, <1>12 DEF Dispatch

LEMMA CallbackReported ==
  ASSUME TypeOK, StateReported, proc = "running", Callback
  PROVE  StateReported'
<1>1. /\ opt_dst \in Addr \cup {NoAddr} /\ opt_mtu \in Nat /\ conn_state \in ConnState
      /\ stdout \in Seq(Line)
  BY DEF TypeOK, WireTypeOK, HelperTypeOK
<1>2. ASSUME NEW c \in Chan, ConnectCbOk(c) PROVE StateReported'
  <2>1. Stat("conn", opt_dst, opt_mtu, 0) \in Line
    BY <1>1, StatType DEF ConnState
  <2>2. QED BY <1>2, <2>1, ReportStat, LineKinds DEF ConnectCbOk
<1>3. ASSUME NEW c \in Chan, ConnectCbErr(c) PROVE StateReported'
  <2> DEFINE l == Stat("disc", NoAddr, opt_mtu, 0)
             k == Err("connfail", 0)
  <2>1. l \in Line /\ k \in Line
    BY <1>1, StatType, ErrType DEF ConnState, ErrCode
  <2>2. l.rsp = "stat" /\ l.tag = "disc" /\ k.rsp = "err"
    BY LineKinds
  <2>3. Say(<<l, k>>) /\ conn_state' = "disc"
    BY <1>3 DEF ConnectCbErr, ConnectErrLines
  <2> HIDE DEF l, k
  <2>4. /\ <<l, k>> \in Seq(Line) /\ 1 \in DOMAIN <<l, k>> /\ <<l, k>>[1] = l
        /\ \A j \in DOMAIN <<l, k>> : j > 1 => <<l, k>>[j] = k
    BY <2>1, TwoLines
  <2>5. QED BY <2>2, <2>3, <2>4, ReportTold
<1>4. ASSUME NEW c \in Chan, ChannelWatcher(c) PROVE StateReported'
  BY <1>4, DisconnectIoReported, ReportQuiet DEF ChannelWatcher, conn
<1>5. ASSUME NEW b \in Chan, AttResult(b) PROVE StateReported'
  <2> DEFINE o == Head(ops[b])
             l == Data(ResultType(o.verb), peer[over[b]], o.id)
  <2>1. /\ peer[over[b]] \in Addr \cup {NoAddr} /\ o.id \in Nat
        /\ o.verb \in GattVerbs
    BY <1>5, HeadType DEF AttResult, TypeOK
  <2>2. l \in Line
    BY <2>1, ResultTypeType, DataType
  <2>3. l.rsp # "stat"
    BY <2>1, ResultKind, LineKinds
  <2>4. Say(<<l>>) /\ UNCHANGED conn_state
    BY <1>5 DEF AttResult, conn
  <2>5. QED BY <2>2, <2>3, <2>4, ReportLine
<1>6. ASSUME NEW b \in Chan, AttError(b) PROVE StateReported'
  <2>1. Head(ops[b]) \in Op /\ peer[over[b]] \in Addr \cup {NoAddr}
    BY <1>6, HeadType DEF AttError, TypeOK
  <2>2. /\ Failed(Head(ops[b]), peer[over[b]]) \in Line
        /\ Failed(Head(ops[b]), peer[over[b]]).rsp # "stat"
    BY <2>1, FailedKind
  <2>3. QED BY <1>6, <2>2, ReportLine DEF AttError, conn
<1>7. ASSUME NEW b \in Chan, NEW kind \in {"ntfy", "ind"}, Notification(b, kind)
      PROVE  StateReported'
  <2>1. over[b] \in Chan
    BY <1>7, HelperAssumption DEF Notification, Live, TypeOK, HelperTypeOK, Chan
  <2>2. Data(kind, peer[over[b]], 0) \in Line
    BY <2>1, DataType DEF RspType, TypeOK, HelperTypeOK
  <2>3. Data(kind, peer[over[b]], 0).rsp # "stat"
    BY <1>7, LineKinds
  <2>4. QED BY <1>7, <2>2, <2>3, ReportLine DEF Notification, conn
<1>8. ASSUME NEW b \in Chan, NEW m \in Mtus, MtuResult(b, m) PROVE StateReported'
  <2> DEFINE o == Head(ops[b])
             mtu == IF m < opt_mtu THEN m ELSE opt_mtu
  <2>1. o.id \in Nat
    BY <1>8, HeadType DEF MtuResult, TypeOK
  <2>2. mtu \in Nat
    BY <1>1, HelperAssumption
  <2>3. /\ \/ Say(<<Stat(conn_state, opt_dst, mtu, o.id)>>)
           \/ Say(<<Err("callfail", o.id)>>)
        /\ UNCHANGED conn_state
    BY <1>8 DEF MtuResult
  <2> HIDE DEF mtu, o
  <2>4. /\ Stat(conn_state, opt_dst, mtu, o.id) \in Line
        /\ Err("callfail", o.id) \in Line
    BY <1>1, <2>1, <2>2, StatType, ErrType DEF ErrCode
  <2>5. /\ Stat(conn_state, opt_dst, mtu, o.id).rsp = "stat"
        /\ Stat(conn_state, opt_dst, mtu, o.id).tag = conn_state
        /\ Err("callfail", o.id).rsp # "stat"
    BY LineKinds
  <2>6. QED BY <2>3, <2>4, <2>5, ReportStat, ReportLine
<1>9. ASSUME NEW b \in Chan, NEW m \in Mtus, PeerMtuReq(b, m) PROVE StateReported'
  <2>1. Stat(conn_state, opt_dst, m, 0) \in Line
    BY <1>1, HelperAssumption, StatType
  <2>2. /\ Stat(conn_state, opt_dst, m, 0).rsp = "stat"
        /\ Stat(conn_state, opt_dst, m, 0).tag = conn_state
    BY LineKinds
  <2>3. QED BY <1>9, <2>1, <2>2, ReportStat, ReportQuiet DEF PeerMtuReq
<1>10. CASE MgmtComplete
  <2> DEFINE m == Head(mgmt_q)
  <2>1. m.id \in Nat
    <3>1. mgmt_q \in Seq(MgmtOp) /\ mgmt_q # <<>>
      BY <1>10 DEF MgmtComplete, TypeOK, HelperTypeOK
    <3>2. m \in MgmtOp
      BY <3>1
    <3>3. QED BY <3>2 DEF MgmtOp
  <2>2. /\ \/ Say(<<Mgmt("busy", m.id)>>) \/ Say(<<Mgmt("mgmterr", m.id)>>)
           \/ Say(<<Data("oob", NoAddr, m.id)>>) \/ UNCHANGED stdout
           \/ Say(<<Mgmt("success", m.id)>>)
        /\ UNCHANGED conn_state
    BY <1>10 DEF MgmtComplete, conn
  <2> HIDE DEF m
  <2>3. /\ Mgmt("busy", m.id) \in Line /\ Mgmt("mgmterr", m.id) \in Line
        /\ Mgmt("success", m.id) \in Line /\ Data("oob", NoAddr, m.id) \in Line
    BY <2>1, MgmtType, DataType DEF ErrCode, RspType
  <2>4. /\ Mgmt("busy", m.id).rsp # "stat" /\ Mgmt("mgmterr", m.id).rsp # "stat"
        /\ Mgmt("success", m.id).rsp # "stat" /\ Data("oob", NoAddr, m.id).rsp # "stat"
    BY LineKinds
  <2>5. QED BY <2>2, <2>3, <2>4, ReportLine, ReportQuiet
<1>11. ASSUME NEW on \in BOOLEAN, MgmtScanning(on) PROVE StateReported'
  <2>1. conn_state' \in ConnState
    BY <1>11 DEF MgmtScanning, ConnState
  <2>2. Stat(conn_state', opt_dst, opt_mtu, 0) \in Line
    BY <1>1, <2>1, StatType
  <2>3. QED BY <1>11, <2>2, ReportStat, LineKinds DEF MgmtScanning
<1>12. CASE MgmtDeviceFound
  <2>1. Data("scan", NoAddr, 0) \in Line /\ Data("scan", NoAddr, 0).rsp # "stat"
    BY DataType, LineKinds DEF RspType
  <2>2. QED BY <1>12, <2>1, ReportLine DEF MgmtDeviceFound, conn
<1>13. CASE \E b \in Chan : LinkLoss(b) \/ AttContinue(b) \/ AttTimeout(b)
  BY <1>13, ReportQuiet DEF LinkLoss, AttContinue, AttTimeout, conn
<1>14. QED
  BY <1>2, <1>3, <1>4, <1>5, <1>6, <1>7, <1>8, <1>9, <1>10, <1>11, <1>12, <1>13
  DEF Callback

LEMMA FlushReported ==
  ASSUME TypeOK, StateReported, proc = "running", NEW b \in Chan, FlushBearer(b)
  PROVE  StateReported'
<1>1. CASE Gone
  BY <1>1 DEF Gone, StateReported
<1>2. CASE ~Gone
  <2>1. UNCHANGED conn_state
    BY <1>2, FlushBearerLink DEF conn
  <2>2. PICK q \in {ops[b], Append(Tail(ops[b]), Head(ops[b]))} :
          /\ q \in Seq(Op) /\ over[b] \in Chan
          /\ \E n \in 1 .. Len(q) :
               /\ [i \in 1 .. n |-> Failed(q[i], peer[over[b]])] \in Seq(Line)
               /\ Say([i \in 1 .. n |-> Failed(q[i], peer[over[b]])])
    BY FlushLines
  <2>3. PICK n \in 1 .. Len(q) :
          /\ [i \in 1 .. n |-> Failed(q[i], peer[over[b]])] \in Seq(Line)
          /\ Say([i \in 1 .. n |-> Failed(q[i], peer[over[b]])])
    BY <2>2
  <2> DEFINE lines == [i \in 1 .. n |-> Failed(q[i], peer[over[b]])]
  <2>4. \A k \in DOMAIN lines : lines[k].rsp # "stat"
    <3>1. TAKE k \in DOMAIN lines
    <3>2. q[k] \in Op /\ peer[over[b]] \in Addr \cup {NoAddr}
      BY <2>2, <3>1 DEF TypeOK, HelperTypeOK
    <3>3. lines[k] = Failed(q[k], peer[over[b]])
      BY <3>1
    <3>4. QED BY <3>2, <3>3, FailedKind
  <2> HIDE DEF lines
  <2>5. lines \in Seq(Line) /\ Say(lines)
    BY <2>3 DEF lines
  <2>6. QED BY <2>1, <2>4, <2>5, ReportStays
<1>3. QED BY <1>1, <1>2

\* Before the helper runs it has printed nothing; from then on the last
\* "stat" line names the state the handlers decide by.
THEOREM StateReportedAlways == Spec => []StateReported
<1> DEFINE Silent == proc = "none" => stdout = <<>>
<1>1. OpenInit => StateReported /\ Silent
  BY DEF OpenInit, WireInit, StateReported
<1>2. TypeOK /\ StateReported /\ Silent /\ [Next]_vars => StateReported' /\ Silent'
  <2>1. SUFFICES ASSUME TypeOK, StateReported, Silent, [Next]_vars
                 PROVE  StateReported' /\ Silent'
    OBVIOUS
  <2>2. CASE UNCHANGED vars
    BY <2>1, <2>2 DEF vars, wire, helper, conn, StateReported, LastStat
  <2>3. CASE Client
    <3>1. UNCHANGED stdout /\ UNCHANGED conn_state
      BY <2>3 DEF Client, Spawn, Boot, Send, Close, helper, conn
    <3>2. CASE Spawn
      <4>1. stdout' = <<>> /\ proc' = "running"
        BY <2>1, <3>1, <3>2 DEF Spawn
      <4>2. QED BY <4>1 DEF StateReported
    <3>3. CASE proc = "running" /\ proc' = proc
      BY <2>1, <3>1, <3>3, ReportQuiet
    <3>4. QED BY <2>3, <3>2, <3>3 DEF Client, Send, Close
  <2>4. CASE HelperStep
    <3>1. proc = "running"
      BY <2>4 DEF HelperStep
    <3>2. proc' # "none"
      BY <2>4, <3>1
      DEF HelperStep, PromptRead, PromptEof, Exit, FlushBearer, AddOobAborts, Gone, wire
    <3>3. CASE proc' = "exited"
      BY <3>3 DEF StateReported
    <3>4. CASE PromptRead /\ proc' # "exited"
      <4>1. /\ stdin \in Seq(Command) /\ stdin # <<>>
            /\ Dispatch(Head(stdin))
        BY <2>1, <3>4 DEF PromptRead, AddOobAborts, Gone, TypeOK, WireTypeOK
      <4>2. Head(stdin) \in Command
        BY <4>1
      <4>3. QED BY <2>1, <3>1, <3>2, <4>1, <4>2, DispatchReported
    <3>5. CASE PromptEof
      BY <2>1, <3>1, <3>2, <3>5, ReportQuiet DEF PromptEof, wire, conn
    <3>6. CASE Callback
      BY <2>1, <3>1, <3>2, <3>6, CallbackReported
    <3>7. CASE \E b \in Chan : FlushBearer(b)
      BY <2>1, <3>1, <3>2, <3>7, FlushReported
    <3>8. QED
      BY <2>4, <3>2, <3>3, <3>4, <3>5, <3>6, <3>7 DEF HelperStep, Exit, Gone
  <2>5. QED BY <2>1, <2>2, <2>3, <2>4 DEF Next
<1>3. QED BY <1>1, <1>2, TypeCorrect, PTL DEF Spec

-----------------------------------------------------------------------------
(* The connection the lines are about.  Named(d): the last "stat conn" line *)
(* names d.  NotEnded: no end was reported after it.                        *)

Results == {"find", "desc", "rd", "wr", "ntfy", "ind"}
ConnLine(l) == l.rsp = "stat" /\ l.tag = "conn"
DiscLine(l) == l.rsp = "stat" /\ l.tag = "disc"

Named(d) ==
  \E j \in DOMAIN stdout :
    /\ ConnLine(stdout[j]) /\ stdout[j].dst = d
    /\ \A k \in DOMAIN stdout : k > j => ~ConnLine(stdout[k])

NotEnded ==
  \A i \in DOMAIN stdout :
    DiscLine(stdout[i]) => \E k \in DOMAIN stdout : k > i /\ ConnLine(stdout[k])

\* The inductive invariant: what still waits for an answer is of the
\* connection last named, and the states before and during a connection say
\* which device it is.
OpsNamed == \A b \in Chan : ops[b] # <<>> => over[b] # 0 /\ Named(peer[b])
ConnNamed ==
  conn_state = "conn" => Named(opt_dst) /\ opt_dst = peer[iochannel] /\ NotEnded
TryNamed == conn_state = "tryconn" => peer[iochannel] = opt_dst
Speaks ==
  ~Discovering => OpsNamed /\ ConnNamed /\ TryNamed /\ OnlyOfTheConnection

LEMMA NamedOnce ==
  ASSUME TypeOK, NEW d, NEW e, Named(d), Named(e)
  PROVE  d = e
<1>1. PICK j \in DOMAIN stdout :
        /\ ConnLine(stdout[j]) /\ stdout[j].dst = d
        /\ \A k \in DOMAIN stdout : k > j => ~ConnLine(stdout[k])
  BY DEF Named
<1>2. PICK i \in DOMAIN stdout :
        /\ ConnLine(stdout[i]) /\ stdout[i].dst = e
        /\ \A k \in DOMAIN stdout : k > i => ~ConnLine(stdout[k])
  BY DEF Named
<1>3. j \in Nat /\ i \in Nat
  BY DEF TypeOK, WireTypeOK
<1>4. ~(j > i) /\ ~(i > j)
  BY <1>1, <1>2
<1>5. QED BY <1>1, <1>2, <1>3, <1>4

\* the two parts of the property, in the words used here
OnlyHere ==
  /\ \A i \in DOMAIN stdout : stdout[i].rsp \in Results =>
       \E j \in DOMAIN stdout :
         /\ j <= i /\ ConnLine(stdout[j])
         /\ \A k \in DOMAIN stdout : k > j /\ k <= i => ~ConnLine(stdout[k])
         /\ stdout[j].dst = stdout[i].dst
  /\ \A i, j \in DOMAIN stdout :
       /\ i < j /\ DiscLine(stdout[i])
       /\ stdout[j].rsp \in Results \ {"rd"}
       => \E k \in DOMAIN stdout :
            i <= k /\ k <= j /\ ConnLine(stdout[k])

LEMMA OnlyIff ==
  ~Discovering /\ stdout \in Seq(Line) => (OnlyOfTheConnection <=> OnlyHere)
<1> SUFFICES ASSUME ~Discovering, stdout \in Seq(Line)
             PROVE  OnlyOfTheConnection <=> OnlyHere
  OBVIOUS
<1>1. DOMAIN stdout = 1 .. Len(stdout) /\ Len(stdout) \in Nat
  OBVIOUS
<1>2. \A i \in DOMAIN stdout :
        LastConn(i) = {j \in DOMAIN stdout : j <= i /\ ConnLine(stdout[j])}
  BY <1>1 DEF LastConn, ConnLine
<1>3. \A i \in DOMAIN stdout :
        (\E j \in LastConn(i) : /\ \A k \in LastConn(i) : k <= j
                                /\ stdout[j].dst = stdout[i].dst)
        <=> \E j \in DOMAIN stdout :
              /\ j <= i /\ ConnLine(stdout[j])
              /\ \A k \in DOMAIN stdout : k > j /\ k <= i => ~ConnLine(stdout[k])
              /\ stdout[j].dst = stdout[i].dst
  <2>1. TAKE i \in DOMAIN stdout
  <2>2. \A j, k \in DOMAIN stdout : k <= j <=> ~(k > j)
    BY <1>1
  <2>3. QED BY <1>2, <2>1, <2>2
<1>4. FromConnectedDevice <=>
        \A i \in DOMAIN stdout : stdout[i].rsp \in Results =>
          \E j \in LastConn(i) : /\ \A k \in LastConn(i) : k <= j
                                 /\ stdout[j].dst = stdout[i].dst
  BY DEF FromConnectedDevice, Results
<1>5. NoResultAfterDisc <=>
        \A i, j \in DOMAIN stdout :
          /\ i < j /\ DiscLine(stdout[i])
          /\ stdout[j].rsp \in Results \ {"rd"}
          => \E k \in DOMAIN stdout :
               i <= k /\ k <= j /\ ConnLine(stdout[k])
  <2>1. \A i, j \in DOMAIN stdout : i .. j = {k \in DOMAIN stdout : i <= k /\ k <= j}
    BY <1>1
  <2>2. Results \ {"rd"} = {"find", "desc", "wr", "ntfy", "ind"}
    BY DEF Results
  <2>3. \A i, j \in DOMAIN stdout :
          (\E k \in i .. j : ConnLine(stdout[k]))
          <=> \E k \in DOMAIN stdout : i <= k /\ k <= j /\ ConnLine(stdout[k])
    BY <2>1
  <2>4. QED BY <2>2, <2>3 DEF NoResultAfterDisc, DiscLine, ConnLine
<1>6. QED BY <1>3, <1>4, <1>5 DEF OnlyOfTheConnection, OnlyHere

LEMMA HistoryQuiet ==
  ASSUME UNCHANGED stdout
  PROVE  /\ \A d : Named(d) => Named(d)'
         /\ NotEnded => NotEnded'
         /\ OnlyOfTheConnection => OnlyOfTheConnection'
BY DEF Named, NotEnded, OnlyOfTheConnection, FromConnectedDevice,
       NoResultAfterDisc, LastConn, ConnLine, DiscLine

\* lines that name no connection
LEMMA HistorySay ==
  ASSUME ~Discovering, TypeOK, OnlyOfTheConnection,
         NEW lines \in Seq(Line), Say(lines),
         \A k \in DOMAIN lines :
           /\ ~ConnLine(lines[k])
           /\ lines[k].rsp \in Results => Named(lines[k].dst)
           /\ lines[k].rsp \in Results \ {"rd"} =>
                NotEnded /\ \A j \in DOMAIN lines : ~DiscLine(lines[j])
  PROVE  /\ \A d : Named(d) => Named(d)'
         /\ (NotEnded /\ \A k \in DOMAIN lines : ~DiscLine(lines[k])) => NotEnded'
         /\ OnlyOfTheConnection'
<1> DEFINE n == Len(stdout)
<1>1. stdout \in Seq(Line) /\ stdout' \in Seq(Line)
  BY SayAt DEF TypeOK, WireTypeOK
<1>2. /\ n \in Nat
      /\ \A j \in DOMAIN stdout :
           j \in Nat /\ j <= n /\ j \in DOMAIN stdout' /\ stdout'[j] = stdout[j]
      /\ \A j \in DOMAIN stdout' :
           /\ j \in Nat
           /\ j <= n => j \in DOMAIN stdout /\ stdout'[j] = stdout[j]
           /\ j > n => j - n \in DOMAIN lines /\ stdout'[j] = lines[j - n]
  BY <1>1, SayLines
<1> HIDE DEF n
<1>3. \A j \in DOMAIN stdout' :
        ConnLine(stdout'[j]) => j <= n /\ j \in DOMAIN stdout /\ stdout'[j] = stdout[j]
  BY <1>2
<1>4. \A d : Named(d) => Named(d)'
  <2>1. SUFFICES ASSUME NEW d, Named(d) PROVE Named(d)'
    OBVIOUS
  <2>2. PICK j \in DOMAIN stdout :
          /\ ConnLine(stdout[j]) /\ stdout[j].dst = d
          /\ \A k \in DOMAIN stdout : k > j => ~ConnLine(stdout[k])
    BY <2>1 DEF Named
  <2>3. /\ j \in DOMAIN stdout' /\ ConnLine(stdout'[j]) /\ stdout'[j].dst = d
        /\ \A k \in DOMAIN stdout' : k > j => ~ConnLine(stdout'[k])
    BY <1>2, <1>3, <2>2
  <2>4. QED BY <2>3 DEF Named, ConnLine
<1>5. (NotEnded /\ \A k \in DOMAIN lines : ~DiscLine(lines[k])) => NotEnded'
  <2>1. SUFFICES ASSUME NotEnded, \A k \in DOMAIN lines : ~DiscLine(lines[k]),
                        NEW i \in DOMAIN stdout', DiscLine(stdout'[i])
                 PROVE  \E k \in DOMAIN stdout' : k > i /\ ConnLine(stdout'[k])
    BY DEF NotEnded, DiscLine, ConnLine
  <2>2. i \in DOMAIN stdout /\ stdout'[i] = stdout[i]
    BY <1>2, <2>1
  <2>3. PICK k \in DOMAIN stdout : k > i /\ ConnLine(stdout[k])
    BY <2>1, <2>2 DEF NotEnded
  <2>4. QED BY <1>2, <2>3
<1>6. OnlyOfTheConnection'
  <2>1. ASSUME NEW i \in DOMAIN stdout', stdout'[i].rsp \in Results
        PROVE  \E j \in DOMAIN stdout' :
                 /\ j <= i /\ ConnLine(stdout'[j])
                 /\ \A k \in DOMAIN stdout' : k > j /\ k <= i => ~ConnLine(stdout'[k])
                 /\ stdout'[j].dst = stdout'[i].dst
    <3>1. CASE i <= n
      <4>1. i \in DOMAIN stdout /\ stdout'[i] = stdout[i]
        BY <1>2, <3>1
      <4>2. PICK j \in DOMAIN stdout :
              /\ j <= i /\ ConnLine(stdout[j])
              /\ \A k \in DOMAIN stdout : k > j /\ k <= i => ~ConnLine(stdout[k])
              /\ stdout[j].dst = stdout[i].dst
        BY <1>1, <2>1, <4>1, OnlyIff DEF OnlyHere
      <4>3. j \in DOMAIN stdout' /\ stdout'[j] = stdout[j]
        BY <1>2
      <4>4. \A k \in DOMAIN stdout' : k > j /\ k <= i => ~ConnLine(stdout'[k])
        BY <1>3, <4>2
      <4>5. QED BY <4>1, <4>2, <4>3, <4>4
    <3>2. CASE ~(i <= n)
      <4>1. i > n /\ i - n \in DOMAIN lines /\ stdout'[i] = lines[i - n]
        BY <1>2, <3>2
      <4>2. Named(stdout'[i].dst)
        BY <2>1, <4>1
      <4>3. PICK j \in DOMAIN stdout :
              /\ ConnLine(stdout[j]) /\ stdout[j].dst = stdout'[i].dst
              /\ \A k \in DOMAIN stdout : k > j => ~ConnLine(stdout[k])
        BY <4>2 DEF Named
      <4>4. j \in DOMAIN stdout' /\ stdout'[j] = stdout[j] /\ j <= i
        BY <1>2, <4>1
      <4>5. \A k \in DOMAIN stdout' : k > j /\ k <= i => ~ConnLine(stdout'[k])
        BY <1>3, <4>3
      <4>6. QED BY <4>3, <4>4, <4>5
    <3>3. QED BY <3>1, <3>2
  <2>2. ASSUME NEW i \in DOMAIN stdout', NEW j \in DOMAIN stdout',
               i < j, DiscLine(stdout'[i]), stdout'[j].rsp \in Results \ {"rd"}
        PROVE  \E k \in DOMAIN stdout' : i <= k /\ k <= j /\ ConnLine(stdout'[k])
    <3>1. CASE j <= n
      <4>1. /\ i \in DOMAIN stdout /\ stdout'[i] = stdout[i]
            /\ j \in DOMAIN stdout /\ stdout'[j] = stdout[j]
        BY <1>2, <2>2, <3>1
      <4>2. PICK k \in DOMAIN stdout : i <= k /\ k <= j /\ ConnLine(stdout[k])
        BY <1>1, <2>2, <4>1, OnlyIff DEF OnlyHere
      <4>3. QED BY <1>2, <4>2
    <3>2. CASE ~(j <= n)
      <4>1. j > n /\ j - n \in DOMAIN lines /\ stdout'[j] = lines[j - n]
        BY <1>2, <3>2
      <4>2. NotEnded /\ \A k \in DOMAIN lines : ~DiscLine(lines[k])
        BY <2>2, <4>1
      <4>3. i \in DOMAIN stdout /\ stdout'[i] = stdout[i]
        BY <1>2, <2>2, <4>2
      <4>4. PICK k \in DOMAIN stdout : k > i /\ ConnLine(stdout[k])
        BY <2>2, <4>2, <4>3 DEF NotEnded
      <4>5. /\ k \in DOMAIN stdout' /\ stdout'[k] = stdout[k]
            /\ k \in Nat /\ i \in Nat /\ j \in Nat /\ k <= n
        BY <1>2
      <4>6. i <= k /\ k <= j
        BY <1>2, <4>1, <4>4, <4>5
      <4>7. QED BY <4>4, <4>5, <4>6
    <3>3. QED BY <3>1, <3>2
  <2>3. OnlyHere' => OnlyOfTheConnection'
    <3>1. (~Discovering /\ stdout \in Seq(Line)
             => (OnlyOfTheConnection <=> OnlyHere))'
      BY OnlyIff, PTL
    <3>2. QED BY <1>1, <3>1
  <2>4. QED BY <2>1, <2>2, <2>3 DEF OnlyHere, ConnLine, DiscLine
<1>7. QED BY <1>4, <1>5, <1>6

\* a line that names a connection
LEMMA HistoryConn ==
  ASSUME ~Discovering, TypeOK, OnlyOfTheConnection,
         NEW l \in Line, Say(<<l>>), ConnLine(l)
  PROVE  (\A d : d = l.dst => Named(d)') /\ NotEnded' /\ OnlyOfTheConnection'
<1> DEFINE n == Len(stdout)
<1>1. stdout \in Seq(Line) /\ stdout' \in Seq(Line)
  BY OneLine, SayAt DEF TypeOK, WireTypeOK
<1>2. /\ n \in Nat
      /\ \A j \in DOMAIN stdout :
           j \in Nat /\ j <= n /\ j \in DOMAIN stdout' /\ stdout'[j] = stdout[j]
      /\ n + 1 \in DOMAIN stdout' /\ stdout'[n + 1] = l
      /\ \A j \in DOMAIN stdout' :
           /\ j \in Nat
           /\ j <= n => j \in DOMAIN stdout /\ stdout'[j] = stdout[j]
           /\ j > n => j = n + 1
  <2>1. <<l>> \in Seq(Line) /\ DOMAIN <<l>> = {1} /\ <<l>>[1] = l
    BY OneLine
  <2>2. /\ Len(stdout) \in Nat
        /\ \A j \in DOMAIN stdout :
             j \in Nat /\ j <= n /\ j \in DOMAIN stdout' /\ stdout'[j] = stdout[j]
        /\ \A k \in DOMAIN <<l>> :
             /\ k \in Nat /\ k >= 1 /\ n + k \in DOMAIN stdout'
             /\ stdout'[n + k] = <<l>>[k]
        /\ \A j \in DOMAIN stdout' :
             /\ j \in Nat
             /\ j <= n => j \in DOMAIN stdout /\ stdout'[j] = stdout[j]
             /\ j > n => j - n \in DOMAIN <<l>> /\ stdout'[j] = <<l>>[j - n]
    BY <1>1, <2>1, SayLines
  <2> HIDE DEF n
  <2>3. QED BY <2>1, <2>2 DEF n
<1> HIDE DEF n
<1>3. \A k \in DOMAIN stdout' : ~(k > n + 1)
  BY <1>2
<1>4. \A d : d = l.dst => Named(d)'
  BY <1>2, <1>3 DEF Named, ConnLine
<1>5. NotEnded'
  <2>1. ASSUME NEW i \in DOMAIN stdout', DiscLine(stdout'[i])
        PROVE  n + 1 > i
    <3>1. stdout'[i].tag = "disc" /\ l.tag = "conn"
      BY <2>1 DEF DiscLine, ConnLine
    <3>2. i # n + 1
      BY <1>2, <3>1
    <3>3. QED BY <1>2, <3>2
  <2>2. QED BY <1>2, <2>1 DEF NotEnded, ConnLine, DiscLine
<1>6. OnlyOfTheConnection'
  <2>1. l.rsp \notin Results
    BY DEF ConnLine, Results
  <2>2. \A i \in DOMAIN stdout' : stdout'[i].rsp \in Results =>
          i <= n /\ i \in DOMAIN stdout /\ stdout'[i] = stdout[i]
    BY <1>2, <2>1
  <2>3. OnlyHere
    BY <1>1, OnlyIff
  <2>4. ASSUME NEW i \in DOMAIN stdout', stdout'[i].rsp \in Results
        PROVE  \E j \in DOMAIN stdout' :
                 /\ j <= i /\ ConnLine(stdout'[j])
                 /\ \A k \in DOMAIN stdout' : k > j /\ k <= i => ~ConnLine(stdout'[k])
                 /\ stdout'[j].dst = stdout'[i].dst
    <3>1. i <= n /\ i \in DOMAIN stdout /\ stdout'[i] = stdout[i]
      BY <2>2, <2>4
    <3>2. PICK j \in DOMAIN stdout :
            /\ j <= i /\ ConnLine(stdout[j])
            /\ \A k \in DOMAIN stdout : k > j /\ k <= i => ~ConnLine(stdout[k])
            /\ stdout[j].dst = stdout[i].dst
      BY <2>3, <2>4, <3>1 DEF OnlyHere
    <3>3. j \in DOMAIN stdout' /\ stdout'[j] = stdout[j]
      BY <1>2
    <3>4. \A k \in DOMAIN stdout' : k > j /\ k <= i =>
            k \in DOMAIN stdout /\ stdout'[k] = stdout[k]
      BY <1>2, <3>1
    <3>5. QED BY <3>1, <3>2, <3>3, <3>4
  <2>5. ASSUME NEW i \in DOMAIN stdout', NEW j \in DOMAIN stdout',
               i < j, DiscLine(stdout'[i]), stdout'[j].rsp \in Results \ {"rd"}
        PROVE  \E k \in DOMAIN stdout' : i <= k /\ k <= j /\ ConnLine(stdout'[k])
    <3>1. j <= n /\ j \in DOMAIN stdout /\ stdout'[j] = stdout[j]
      BY <2>2, <2>5
    <3>2. i <= n
      BY <1>2, <2>5, <3>1
    <3>3. i \in DOMAIN stdout /\ stdout'[i] = stdout[i]
      BY <1>2, <3>2
    <3>4. PICK k \in DOMAIN stdout : i <= k /\ k <= j /\ ConnLine(stdout[k])
      BY <2>3, <2>5, <3>1, <3>3 DEF OnlyHere
    <3>5. QED BY <1>2, <3>4
  <2>6. OnlyHere' => OnlyOfTheConnection'
    <3>1. (~Discovering /\ stdout \in Seq(Line)
             => (OnlyOfTheConnection <=> OnlyHere))'
      BY OnlyIff, PTL
    <3>2. QED BY <1>1, <3>1
  <2>7. QED BY <2>4, <2>5, <2>6 DEF OnlyHere, ConnLine, DiscLine
<1>7. QED BY <1>4, <1>5, <1>6

-----------------------------------------------------------------------------
(* What each kind of step does to Speaks.                                   *)

\* no bearer gets its first request
OpsFrame ==
  \A b \in Chan : ops'[b] # <<>> =>
    ops[b] # <<>> /\ over'[b] = over[b] /\ peer'[b] = peer[b]

\* a connection, or an attempt, is the same as before
StateFrame ==
  conn_state' \in {"conn", "tryconn"} =>
    /\ conn_state' = conn_state
    /\ UNCHANGED <<opt_dst, iochannel>>
    /\ peer'[iochannel] = peer[iochannel]

\* no new request, no new connection: Speaks stays if the history does
LEMMA SpeaksStays ==
  ASSUME ~Discovering, Speaks,
         \A d : Named(d) => Named(d)', OnlyOfTheConnection',
         OpsFrame, StateFrame, conn_state' = "conn" => NotEnded'
  PROVE  Speaks'
<1>1. OpsNamed /\ ConnNamed /\ TryNamed
  BY DEF Speaks
<1>2. OpsNamed'
  <2>1. SUFFICES ASSUME NEW b \in Chan, ops'[b] # <<>>
                 PROVE  over'[b] # 0 /\ Named(peer[b])'
    BY DEF OpsNamed
  <2>2. over[b] # 0 /\ Named(peer[b]) /\ over'[b] = over[b] /\ peer'[b] = peer[b]
    BY <1>1, <2>1 DEF OpsNamed, OpsFrame
  <2>3. Named(peer[b])' <=> \E j \in DOMAIN stdout' :
          /\ ConnLine(stdout'[j]) /\ stdout'[j].dst = peer'[b]
          /\ \A k \in DOMAIN stdout' : k > j => ~ConnLine(stdout'[k])
    BY DEF Named, ConnLine
  <2> DEFINE d == peer[b]
  <2>4. Named(d) /\ peer'[b] = d
    BY <2>2
  <2> HIDE DEF d
  <2>5. \E j \in DOMAIN stdout' :
          /\ ConnLine(stdout'[j]) /\ stdout'[j].dst = d
          /\ \A k \in DOMAIN stdout' : k > j => ~ConnLine(stdout'[k])
    BY <2>4 DEF Named, ConnLine
  <2>6. QED BY <2>2, <2>3, <2>4, <2>5
<1>3. ConnNamed'
  <2>1. SUFFICES ASSUME conn_state' = "conn"
                 PROVE  Named(opt_dst)' /\ opt_dst' = peer'[iochannel'] /\ NotEnded'
    BY DEF ConnNamed
  <2>2. Named(opt_dst) /\ opt_dst = peer[iochannel] /\ opt_dst' = opt_dst
        /\ peer'[iochannel'] = peer[iochannel]
    BY <1>1, <2>1 DEF ConnNamed, StateFrame
  <2>3. QED BY <2>1, <2>2 DEF Named
<1>4. TryNamed'
  BY <1>1 DEF TryNamed, StateFrame
<1>5. QED BY <1>2, <1>3, <1>4 DEF Speaks

LEMMA SpeaksQuiet ==
  ASSUME ~Discovering, Speaks, UNCHANGED stdout, OpsFrame, StateFrame
  PROVE  Speaks'
<1>1. conn_state' = "conn" => NotEnded
  BY DEF Speaks, ConnNamed, StateFrame
<1>2. QED BY <1>1, HistoryQuiet, SpeaksStays DEF Speaks

\* one line that names no connection
LEMMA SpeaksLine ==
  ASSUME ~Discovering, TypeOK, Speaks, NEW l \in Line, Say(<<l>>), ~ConnLine(l),
         l.rsp \in Results => Named(l.dst),
         l.rsp \in Results \ {"rd"} => NotEnded,
         OpsFrame, StateFrame, conn_state' = "conn" => ~DiscLine(l)
  PROVE  Speaks'
<1>1. /\ <<l>> \in Seq(Line) /\ \A k \in DOMAIN <<l>> : <<l>>[k] = l
      /\ OnlyOfTheConnection
  BY OneLine DEF Speaks
<1>2. l.rsp \in Results => ~DiscLine(l)
  BY DEF Results, DiscLine
<1>3. /\ \A d : Named(d) => Named(d)'
      /\ (NotEnded /\ \A k \in DOMAIN <<l>> : ~DiscLine(<<l>>[k])) => NotEnded'
      /\ OnlyOfTheConnection'
  BY <1>1, <1>2, HistorySay
<1>4. conn_state' = "conn" => NotEnded
  BY DEF Speaks, ConnNamed, StateFrame
<1>5. conn_state' = "conn" => NotEnded'
  BY <1>1, <1>3, <1>4
<1>6. QED BY <1>3, <1>5, SpeaksStays

\* an error names nothing
LEMMA SpeaksErr ==
  ASSUME ~Discovering, TypeOK, Speaks, NEW code \in ErrCode, NEW re \in Nat,
         Say(<<Err(code, re)>>) \/ Say(<<Mgmt(code, re)>>), OpsFrame, StateFrame
  PROVE  Speaks'
<1>1. Err(code, re) \in Line /\ Mgmt(code, re) \in Line
  BY ErrType, MgmtType
<1>2. Err(code, re).rsp = "err" /\ Mgmt(code, re).rsp = "mgmt"
  BY LineKinds
<1>3. \A l \in Line : l.rsp \in {"err", "mgmt"} =>
        ~ConnLine(l) /\ ~DiscLine(l) /\ l.rsp \notin Results
  BY DEF ConnLine, DiscLine, Results
<1>4. QED BY <1>1, <1>2, <1>3, SpeaksLine

\* a "stat" line of the state and the device at hand
LEMMA SpeaksStat ==
  ASSUME ~Discovering, TypeOK, Speaks, NEW m \in Nat, NEW re \in Nat,
         Say(<<Stat(conn_state, opt_dst, m, re)>>), OpsFrame,
         UNCHANGED <<conn_state, opt_dst, iochannel, peer>>
  PROVE  Speaks'
<1> DEFINE l == Stat(conn_state, opt_dst, m, re)
<1>1. l \in Line
  BY StatType DEF TypeOK, HelperTypeOK
<1>2. l.rsp = "stat" /\ l.tag = conn_state /\ (conn_state = "conn" => l.dst = opt_dst)
  BY LineKinds
<1>3. Say(<<l>>)
  OBVIOUS
<1> HIDE DEF l
<1>4. CASE conn_state # "conn"
  <2>1. ~ConnLine(l) /\ l.rsp \notin Results
    BY <1>2, <1>4 DEF ConnLine, Results
  <2>2. StateFrame
    BY DEF StateFrame
  <2>3. QED BY <1>1, <1>3, <1>4, <2>1, <2>2, SpeaksLine
<1>5. CASE conn_state = "conn"
  <2>1. OpsNamed /\ ConnNamed /\ OnlyOfTheConnection
    BY DEF Speaks
  <2>2. Named(opt_dst) /\ opt_dst = peer[iochannel]
    BY <1>5, <2>1 DEF ConnNamed
  <2>3. ConnLine(l) /\ l.dst = opt_dst
    BY <1>2, <1>5 DEF ConnLine
  <2>4. (\A d : d = l.dst => Named(d)') /\ NotEnded' /\ OnlyOfTheConnection'
    BY <1>1, <1>3, <2>1, <2>3, HistoryConn
  <2>5. Named(opt_dst)'
    <3>1. PICK d : d = opt_dst
      OBVIOUS
    <3>2. Named(d)'
      BY <2>3, <2>4, <3>1
    <3>3. opt_dst' = d
      BY <3>1
    <3>4. QED BY <3>2, <3>3 DEF Named
  <2>6. \A b \in Chan : ops'[b] # <<>> => over'[b] # 0 /\ peer'[b] = opt_dst'
    <3>1. SUFFICES ASSUME NEW b \in Chan, ops'[b] # <<>>
                   PROVE  over'[b] # 0 /\ peer'[b] = opt_dst'
      OBVIOUS
    <3>2. over[b] # 0 /\ over'[b] = over[b] /\ Named(peer[b]) /\ peer'[b] = peer[b]
      BY <2>1, <3>1 DEF OpsFrame, OpsNamed
    <3>3. peer[b] = opt_dst
      BY <2>2, <3>2, NamedOnce
    <3>4. QED BY <3>2, <3>3
  <2>7. OpsNamed'
    BY <2>5, <2>6 DEF OpsNamed, Named
  <2>8. ConnNamed' /\ TryNamed'
    BY <1>5, <2>2, <2>4, <2>5 DEF ConnNamed, TryNamed
  <2>9. QED BY <2>4, <2>7, <2>8 DEF Speaks
<1>6. QED BY <1>4, <1>5

\* a request ends on an open link: its bearer is no orphan
LEMMA SettleLive ==
  ASSUME ~Discovering, TypeOK, Sound, NEW b \in Chan, NEW q, Live(b), Settle(b, q)
  PROVE  /\ ops' = [ops EXCEPT ![b] = q]
         /\ UNCHANGED <<over, orphan, link>>
         /\ \A x \in Chan : ops'[x] = IF x = b THEN q ELSE ops[x]
<1>1. over[b] = b /\ link[over[b]] = "up"
  BY LiveIsCurrent DEF Live, TypeOK
<1>2. b \notin orphan
  BY <1>1 DEF Sound, OldBearers
<1>3. ops' = [ops EXCEPT ![b] = q] /\ UNCHANGED <<over, orphan, link>>
  BY <1>2 DEF Settle
<1>4. QED BY <1>3 DEF TypeOK, HelperTypeOK

LEMMA SettleFrame ==
  ASSUME ~Discovering, TypeOK, Sound, NEW b \in Chan, Live(b), ops[b] # <<>>,
         Settle(b, Tail(ops[b])), UNCHANGED peer
  PROVE  OpsFrame
<1>1. /\ UNCHANGED over
      /\ \A x \in Chan : ops'[x] = IF x = b THEN Tail(ops[b]) ELSE ops[x]
  BY SettleLive
<1>2. QED BY <1>1 DEF OpsFrame

\* the device a bearer belongs to is the one its requests were named after
LEMMA LiveNamed ==
  ASSUME ~Discovering, TypeOK, Sound, Speaks, NEW b \in Chan, Live(b)
  PROVE  Named(peer[over[b]]) /\ NotEnded /\ conn_state = "conn"
<1>1. conn_state = "conn" /\ b = iochannel /\ over[b] = b
  BY LiveIsCurrent DEF TypeOK
<1>2. QED BY <1>1 DEF Speaks, ConnNamed

LEMMA DisconnectIoSpeaks ==
  ASSUME ~Discovering, TypeOK, Speaks, NEW re \in Nat, DisconnectIo(re)
  PROVE  Speaks'
<1>1. CASE UNCHANGED <<conn, chans, stdout>>
  BY <1>1, SpeaksQuiet DEF OpsFrame, StateFrame, conn, chans
<1>2. CASE /\ conn_state' = "disc" /\ Say(<<Stat("disc", NoAddr, 0, re)>>)
           /\ IF attrib = 0 THEN UNCHANGED <<over, ops, orphan>> ELSE Unref(attrib)
           /\ UNCHANGED peer
  <2> DEFINE l == Stat("disc", NoAddr, 0, re)
  <2>1. l \in Line /\ l.rsp = "stat" /\ l.tag = "disc" /\ Say(<<l>>)
    BY <1>2, StatType, LineKinds DEF ConnState
  <2> HIDE DEF l
  <2>2. ~ConnLine(l) /\ l.rsp \notin Results
    BY <2>1 DEF ConnLine, Results
  <2>3. OpsFrame
    <3>1. CASE UNCHANGED <<over, ops>>
      BY <1>2, <3>1 DEF OpsFrame
    <3>2. CASE /\ over' = [over EXCEPT ![attrib] = 0]
               /\ ops' = [ops EXCEPT ![attrib] = <<>>]
      <4>1. \A b \in Chan : ops'[b] # <<>> => ops'[b] = ops[b] /\ over'[b] = over[b]
        BY <3>2 DEF TypeOK, HelperTypeOK
      <4>2. QED BY <1>2, <4>1 DEF OpsFrame
    <3>3. QED BY <1>2, <3>1, <3>2 DEF Unref
  <2>4. StateFrame
    BY <1>2 DEF StateFrame
  <2>5. QED BY <1>2, <2>1, <2>2, <2>3, <2>4, SpeaksLine
<1>3. QED BY <1>1, <1>2 DEF DisconnectIo

\* a request of the connection at hand
LEMMA QueueSpeaks ==
  ASSUME ~Discovering, TypeOK, Sound, Speaks, conn_state = "conn", NEW o,
         ops' = [b \in Chan |-> IF b = attrib THEN Append(ops[b], o) ELSE ops[b]],
         UNCHANGED <<conn_state, opt_dst, iochannel, peer, over, stdout>>
  PROVE  Speaks'
<1>1. attrib = iochannel /\ over[attrib] # 0
  BY DEF Sound, Connected
<1>2. OpsNamed /\ ConnNamed /\ OnlyOfTheConnection
  BY DEF Speaks
<1>3. \A b \in Chan : ops'[b] # <<>> => over[b] # 0 /\ Named(peer[b])
  <2>1. SUFFICES ASSUME NEW b \in Chan, ops'[b] # <<>>
                 PROVE  over[b] # 0 /\ Named(peer[b])
    OBVIOUS
  <2>2. CASE b = attrib
    BY <1>1, <1>2, <2>2 DEF ConnNamed
  <2>3. CASE b # attrib
    BY <1>2, <2>1, <2>3 DEF OpsNamed
  <2>4. QED BY <2>2, <2>3
<1>4. OpsNamed'
  BY <1>3 DEF OpsNamed, Named
<1>5. ConnNamed' /\ TryNamed' /\ OnlyOfTheConnection'
  BY <1>2, HistoryQuiet DEF ConnNamed, TryNamed, Named
<1>6. QED BY <1>4, <1>5 DEF Speaks

LEMMA CmdConnectSpeaks ==
  ASSUME ~Discovering, TypeOK, Sound, Speaks, NEW c \in Command, CmdConnect(c)
  PROVE  Speaks'
<1> DEFINE dst == IF c.dst = NoAddr THEN opt_dst ELSE c.dst
           n == nchan + 1
<1>1. /\ dst \in Addr \cup {NoAddr} /\ c.id \in Nat /\ opt_mtu \in Nat
      /\ UNCHANGED <<over, ops>>
  BY DEF CmdConnect, Command, TypeOK, HelperTypeOK
<1>2. /\ Stat("tryconn", dst, opt_mtu, c.id) \in Line
      /\ Stat("disc", dst, opt_mtu, c.id) \in Line
  BY <1>1, StatType DEF ConnState
<1>3. /\ Stat("tryconn", dst, opt_mtu, c.id).rsp = "stat"
      /\ Stat("tryconn", dst, opt_mtu, c.id).tag = "tryconn"
      /\ Stat("disc", dst, opt_mtu, c.id).rsp = "stat"
      /\ Stat("disc", dst, opt_mtu, c.id).tag = "disc"
  BY LineKinds
<1> HIDE DEF dst
<1>4. \A l \in Line : l.rsp = "stat" /\ l.tag \in {"disc", "tryconn"} =>
        ~ConnLine(l) /\ l.rsp \notin Results
  BY DEF ConnLine, Results
<1>5. CASE UNCHANGED <<conn, chans, watch, stdout>>
  BY <1>5, SpeaksQuiet DEF OpsFrame, StateFrame, conn, chans
<1>6. CASE Say(<<Err("badparam", c.id)>>) /\ UNCHANGED <<conn, chans, watch>>
  <2>1. OpsFrame /\ StateFrame
    BY <1>6 DEF OpsFrame, StateFrame, conn, chans
  <2>2. QED BY <1>1, <1>6, <2>1, SpeaksErr DEF ErrCode
<1>7. CASE /\ CanConnect
           /\ Say(<<Stat("tryconn", dst, opt_mtu, c.id),
                    Stat("disc", dst, opt_mtu, c.id)>>)
           /\ UNCHANGED <<conn_state, chans, watch>>
  <2> DEFINE l == Stat("tryconn", dst, opt_mtu, c.id)
             k == Stat("disc", dst, opt_mtu, c.id)
             lines == <<l, k>>
  <2>1. /\ ~ConnLine(l) /\ l.rsp \notin Results
        /\ ~ConnLine(k) /\ k.rsp \notin Results
    BY <1>2, <1>3, <1>4
  <2>2. l \in Line /\ k \in Line /\ Say(lines)
    BY <1>2, <1>7
  <2> HIDE DEF l, k
  <2>3. /\ lines \in Seq(Line)
        /\ \A j \in DOMAIN lines : lines[j] = l \/ lines[j] = k
    BY <2>2, TwoLines
  <2> HIDE DEF lines
  <2>4. (\A d : Named(d) => Named(d)') /\ OnlyOfTheConnection'
    BY <2>1, <2>2, <2>3, HistorySay DEF Speaks
  <2>5. conn_state' = "disc" /\ OpsFrame /\ StateFrame
    BY <1>7 DEF CanConnect, OpsFrame, StateFrame, chans
  <2>6. QED BY <2>4, <2>5, SpeaksStays
<1>8. CASE /\ CanConnect /\ n \in Chan
           /\ conn_state' = "tryconn" /\ opt_dst' = dst /\ iochannel' = n
           /\ peer' = [peer EXCEPT ![n] = dst]
           /\ Say(<<Stat("tryconn", dst, opt_mtu, c.id)>>)
  <2> DEFINE l == Stat("tryconn", dst, opt_mtu, c.id)
  <2>1. l \in Line /\ ~ConnLine(l) /\ l.rsp \notin Results /\ Say(<<l>>)
    BY <1>2, <1>3, <1>4, <1>8
  <2> HIDE DEF l
  <2>2. /\ <<l>> \in Seq(Line) /\ \A k \in DOMAIN <<l>> : <<l>>[k] = l
    BY <2>1, OneLine
  <2>3. (\A d : Named(d) => Named(d)') /\ OnlyOfTheConnection'
    BY <2>1, <2>2, HistorySay DEF Speaks
  <2>4. attrib = 0 /\ link[n] = "none"
    BY <1>8 DEF CanConnect, Sound, Disconnected, Unopened, TypeOK, HelperTypeOK
  <2>5. ops[n] = <<>>
    <3>1. over[n] = 0
      BY <1>8, <2>4 DEF Sound, OldBearers, Chan
    <3>2. QED BY <1>8, <3>1 DEF Speaks, OpsNamed
  <2>6. OpsNamed'
    <3>1. SUFFICES ASSUME NEW b \in Chan, ops'[b] # <<>>
                   PROVE  over'[b] # 0 /\ Named(peer[b])'
      BY DEF OpsNamed
    <3>2. b # n /\ over[b] # 0 /\ Named(peer[b])
      BY <1>1, <2>5, <3>1 DEF Speaks, OpsNamed
    <3>3. peer'[b] = peer[b]
      BY <1>8, <3>2
    <3>4. PICK d : d = peer[b]
      OBVIOUS
    <3>5. Named(d)' /\ peer'[b] = d
      BY <2>3, <3>2, <3>3, <3>4
    <3>6. QED BY <1>1, <3>2, <3>5 DEF Named
  <2>7. ConnNamed' /\ TryNamed'
    BY <1>8 DEF ConnNamed, TryNamed, TypeOK, HelperTypeOK
  <2>8. QED BY <2>3, <2>6, <2>7 DEF Speaks
<1>9. QED BY <1>5, <1>6, <1>7, <1>8 DEF CmdConnect, dst

LEMMA DispatchSpeaks ==
  ASSUME ~Discovering, TypeOK, Sound, Speaks, NEW c \in Command, Dispatch(c)
  PROVE  Speaks'
<1>1. /\ c.id \in Nat /\ opt_dst \in Addr \cup {NoAddr} /\ opt_mtu \in Nat
  BY DEF Command, TypeOK, HelperTypeOK
<1>2. UNCHANGED <<conn_state, opt_dst, iochannel, peer, over, ops>>
        => OpsFrame /\ StateFrame
  BY DEF OpsFrame, StateFrame
<1>3. CASE CmdStatus(c)
  <2>1. UNCHANGED <<conn_state, opt_dst, iochannel, peer, over, ops>>
    BY <1>3 DEF CmdStatus, conn, chans
  <2>2. QED BY <1>1, <1>2, <1>3, <2>1, SpeaksStat DEF CmdStatus
<1>4. CASE CmdExit(c)
  BY <1>2, <1>4, SpeaksQuiet DEF CmdExit, conn, chans
<1>5. CASE CmdConnect(c)
  BY <1>5, CmdConnectSpeaks
<1>6. CASE CmdDisconnect(c)
  BY <1>1, <1>6, DisconnectIoSpeaks DEF CmdDisconnect
<1>7. CASE CmdGatt(c)
  <2>1. UNCHANGED <<conn_state, opt_dst, iochannel, peer, over>>
    BY <1>7 DEF CmdGatt, conn
  <2>2. CASE UNCHANGED ops
    BY <1>1, <1>2, <1>7, <2>1, <2>2, SpeaksErr, SpeaksQuiet DEF CmdGatt, ErrCode
  <2>3. CASE ~UNCHANGED ops
    BY <1>7, <2>1, <2>3, QueueSpeaks DEF CmdGatt
  <2>4. QED BY <2>2, <2>3
<1>8. CASE CmdWrite(c)
  <2> DEFINE l == Data("wr", opt_dst, c.id)
  <2>1. UNCHANGED <<conn_state, opt_dst, iochannel, peer, over, ops>>
    BY <1>8 DEF CmdWrite, conn, chans
  <2>2. CASE conn_state = "conn" /\ Say(<<l>>)
    <3>1. l \in Line /\ l.rsp = "wr" /\ l.dst = opt_dst /\ Say(<<l>>)
      BY <1>1, <2>2, DataType, LineKinds DEF RspType
    <3>2. Named(opt_dst) /\ NotEnded
      BY <2>2 DEF Speaks, ConnNamed
    <3> HIDE DEF l
    <3>3. ~ConnLine(l) /\ ~DiscLine(l)
      BY <3>1 DEF ConnLine, DiscLine
    <3>4. QED BY <1>2, <2>1, <3>1, <3>2, <3>3, SpeaksLine
  <2>3. QED BY <1>1, <1>2, <1>8, <2>1, <2>2, SpeaksErr DEF CmdWrite, ErrCode
<1>9. CASE CmdSecLevel(c)
  <2>1. UNCHANGED <<conn_state, opt_dst, iochannel, peer, over, ops>>
    BY <1>9 DEF CmdSecLevel, conn, chans
  <2>2. \/ Say(<<Err("badparam", c.id)>>) \/ Say(<<Err("callfail", c.id)>>)
        \/ Say(<<Stat(conn_state, opt_dst, opt_mtu, c.id)>>) \/ UNCHANGED stdout
    BY <1>9 DEF CmdSecLevel
  <2>3. QED
    BY <1>1, <1>2, <2>1, <2>2, SpeaksErr, SpeaksStat, SpeaksQuiet DEF ErrCode
<1>10. CASE CmdMtu(c)
  <2>1. UNCHANGED <<conn_state, opt_dst, iochannel, peer, over>>
    BY <1>10 DEF CmdMtu
  <2>2. CASE UNCHANGED ops
    BY <1>1, <1>2, <1>10, <2>1, <2>2, SpeaksErr, SpeaksQuiet DEF CmdMtu, ErrCode
  <2>3. CASE ~UNCHANGED ops
    BY <1>10, <2>1, <2>3, QueueSpeaks DEF CmdMtu, CanSetMtu
  <2>4. QED BY <2>2, <2>3
<1>11. CASE CmdMgmt(c)
  <2>1. UNCHANGED <<conn_state, opt_dst, iochannel, peer, over, ops>>
    BY <1>11 DEF CmdMgmt, conn, chans
  <2>2. \/ Say(<<Mgmt("badparam", c.id)>>) \/ Say(<<Mgmt("notfound", c.id)>>)
        \/ Say(<<Err("badparam", c.id)>>) \/ Say(<<Err("nomgmt", c.id)>>)
        \/ Say(<<Mgmt("badstate", c.id)>>) \/ UNCHANGED stdout
    BY <1>11 DEF CmdMgmt
  <2>3. QED BY <1>1, <1>2, <2>1, <2>2, SpeaksErr, SpeaksQuiet DEF ErrCode
<1>12. QED
  BY <1>3, <1>4, <1>5, <1>6, <1>7, <1>8, <1>9, <1>10, <1>11 DEF Dispatch

\* The turn of the loop that reports a connection has called back all that
\* was left of earlier ones: nothing waits that is not of the new connection.
LEMMA ConnectCbOkSpeaks ==
  ASSUME ~Discovering, TypeOK, Sound, Speaks, NEW c \in Chan, ConnectCbOk(c)
  PROVE  Speaks'
<1> DEFINE l == Stat("conn", opt_dst, opt_mtu, 0)
<1>1. /\ link[c] = "connecting" /\ conn_state' = "conn" /\ Say(<<l>>)
      /\ \A b \in Chan : Dead(b) => ops[b] = <<>>
      /\ UNCHANGED <<opt_dst, iochannel, peer, ops>>
  BY DEF ConnectCbOk
<1>2. c = iochannel
  BY <1>1 DEF Sound, OneSocket
<1>3. conn_state = "tryconn" /\ attrib = 0
  BY <1>1, <1>2
  DEF Sound, OneSocket, Connecting, Connected, TypeOK, HelperTypeOK, ConnState
<1>4. opt_dst = peer[iochannel] /\ OpsNamed /\ OnlyOfTheConnection
  BY <1>3 DEF Speaks, TryNamed
<1>5. l \in Line /\ l.dst = opt_dst /\ l.rsp = "stat" /\ l.tag = "conn"
  BY StatType, LineKinds DEF ConnState, TypeOK, HelperTypeOK
<1> HIDE DEF l
<1>6. (\A d : d = l.dst => Named(d)') /\ NotEnded' /\ OnlyOfTheConnection'
  BY <1>1, <1>4, <1>5, HistoryConn DEF ConnLine
<1>7. Named(opt_dst)'
  <2>1. PICK d : d = opt_dst
    OBVIOUS
  <2>2. Named(d)' /\ opt_dst' = d
    BY <1>1, <1>5, <1>6, <2>1
  <2>3. QED BY <2>2 DEF Named
<1>8. \A b \in Chan : ops[b] = <<>>
  <2>1. SUFFICES ASSUME NEW b \in Chan, ops[b] # <<>> PROVE FALSE
    OBVIOUS
  <2>2. over[b] # 0
    BY <1>4, <2>1 DEF OpsNamed
  <2>3. over[b] = b /\ link[b] = "closed"
    BY <1>3, <2>2 DEF Sound, OldBearers, Chan
  <2>4. Dead(b)
    BY <2>2, <2>3 DEF Dead
  <2>5. QED BY <1>1, <2>1, <2>4
<1>9. OpsNamed'
  BY <1>1, <1>8 DEF OpsNamed
<1>10. ConnNamed' /\ TryNamed'
  BY <1>1, <1>4, <1>6, <1>7 DEF ConnNamed, TryNamed
<1>11. QED BY <1>6, <1>9, <1>10 DEF Speaks

LEMMA CallbackSpeaks ==
  ASSUME ~Discovering, TypeOK, Sound, Speaks, Callback
  PROVE  Speaks'
<1>1. /\ opt_dst \in Addr \cup {NoAddr} /\ opt_mtu \in Nat
  BY DEF TypeOK, HelperTypeOK
<1>2. UNCHANGED <<conn_state, opt_dst, iochannel, peer>> => StateFrame
  BY DEF StateFrame
<1>3. UNCHANGED <<ops, over, peer>> => OpsFrame
  BY DEF OpsFrame
<1>4. ASSUME NEW c \in Chan, ConnectCbErr(c) PROVE Speaks'
  <2> DEFINE l == Stat("disc", NoAddr, opt_mtu, 0)
             k == Err("connfail", 0)
             lines == <<l, k>>
  <2>1. /\ l \in Line /\ k \in Line /\ Say(lines)
        /\ l.rsp = "stat" /\ l.tag = "disc" /\ k.rsp = "err"
    <3>1. l \in Line /\ k \in Line
      BY <1>1, StatType, ErrType DEF ConnState, ErrCode
    <3>2. l.rsp = "stat" /\ l.tag = "disc" /\ k.rsp = "err"
      BY LineKinds
    <3>3. Say(lines)
      BY <1>4 DEF ConnectCbErr, ConnectErrLines
    <3>4. QED BY <3>1, <3>2, <3>3
  <2> HIDE DEF l, k
  <2>2. /\ lines \in Seq(Line)
        /\ \A j \in DOMAIN lines : lines[j] = l \/ lines[j] = k
    BY <2>1, TwoLines
  <2>3. /\ ~ConnLine(l) /\ l.rsp \notin Results
        /\ ~ConnLine(k) /\ k.rsp \notin Results
    BY <2>1 DEF ConnLine, Results
  <2> HIDE DEF lines
  <2>4. (\A d : Named(d) => Named(d)') /\ OnlyOfTheConnection'
    BY <2>1, <2>2, <2>3, HistorySay DEF Speaks
  <2>5. conn_state' = "disc" /\ OpsFrame /\ StateFrame
    BY <1>4 DEF ConnectCbErr, OpsFrame, StateFrame
  <2>6. QED BY <2>4, <2>5, SpeaksStays
<1>5. ASSUME NEW c \in Chan, ChannelWatcher(c) PROVE Speaks'
  <2>1. CASE DisconnectIo(0)
    BY <2>1, DisconnectIoSpeaks
  <2>2. CASE UNCHANGED <<conn, chans, stdout>>
    BY <1>2, <1>3, <2>2, SpeaksQuiet DEF conn, chans
  <2>3. QED BY <1>5, <2>1, <2>2 DEF ChannelWatcher
<1>6. ASSUME NEW b \in Chan, AttResult(b) PROVE Speaks'
  <2> DEFINE o == Head(ops[b])
             l == Data(ResultType(o.verb), peer[over[b]], o.id)
  <2>1. /\ peer[over[b]] \in Addr \cup {NoAddr} /\ o.id \in Nat
        /\ o.verb \in GattVerbs
    BY <1>6, HeadType DEF AttResult, TypeOK
  <2>2. /\ l \in Line /\ l.rsp \in {"find", "desc", "rd", "wr"}
        /\ l.dst = peer[over[b]]
    <3>1. ResultType(o.verb) \in {"find", "desc", "rd", "wr"}
      BY <2>1, ResultKind
    <3>2. l \in Line
      BY <2>1, ResultTypeType, DataType
    <3>3. l.rsp = ResultType(o.verb) /\ l.dst = peer[over[b]]
      BY LineKinds
    <3>4. QED BY <3>1, <3>2, <3>3
  <2>3. /\ Say(<<l>>) /\ Live(b) /\ ops[b] # <<>> /\ Settle(b, Tail(ops[b]))
        /\ UNCHANGED <<conn_state, opt_dst, iochannel, peer>>
    BY <1>6 DEF AttResult, conn
  <2> HIDE DEF l
  <2>4. ~ConnLine(l) /\ ~DiscLine(l)
    BY <2>2 DEF ConnLine, DiscLine
  <2>5. Named(l.dst) /\ NotEnded
    BY <2>2, <2>3, LiveNamed
  <2>6. OpsFrame
    BY <2>3, SettleFrame
  <2>7. QED BY <1>2, <2>2, <2>3, <2>4, <2>5, <2>6, SpeaksLine
<1>7. ASSUME NEW b \in Chan, AttError(b) PROVE Speaks'
  <2> DEFINE l == Failed(Head(ops[b]), peer[over[b]])
  <2>1. Head(ops[b]) \in Op /\ peer[over[b]] \in Addr \cup {NoAddr}
    BY <1>7, HeadType DEF AttError, TypeOK
  <2>2. /\ l \in Line /\ l.rsp \in {"rd", "err"}
        /\ l.rsp = "rd" => l.dst = peer[over[b]]
    BY <2>1, FailedKind
  <2>3. /\ Say(<<l>>) /\ Live(b) /\ ops[b] # <<>> /\ Settle(b, Tail(ops[b]))
        /\ UNCHANGED <<conn_state, opt_dst, iochannel, peer>>
    BY <1>7 DEF AttError, conn
  <2> HIDE DEF l
  <2>4. ~ConnLine(l) /\ ~DiscLine(l) /\ (l.rsp \in Results => l.rsp = "rd")
    BY <2>2 DEF ConnLine, DiscLine, Results
  <2>5. Named(peer[over[b]]) /\ NotEnded
    BY <2>3, LiveNamed
  <2>6. OpsFrame
    BY <2>3, SettleFrame
  <2>7. QED BY <1>2, <2>2, <2>3, <2>4, <2>5, <2>6, SpeaksLine
<1>8. ASSUME NEW b \in Chan, NEW kind \in {"ntfy", "ind"}, Notification(b, kind)
      PROVE  Speaks'
  <2> DEFINE l == Data(kind, peer[over[b]], 0)
  <2>1. over[b] \in Chan
    BY <1>8, HelperAssumption DEF Notification, Live, TypeOK, HelperTypeOK, Chan
  <2>2. l \in Line /\ l.rsp = kind /\ l.dst = peer[over[b]]
    <3>1. l \in Line
      BY <2>1, DataType DEF RspType, TypeOK, HelperTypeOK
    <3>2. QED BY <3>1, LineKinds
  <2>3. /\ Say(<<l>>) /\ Live(b)
        /\ UNCHANGED <<conn_state, opt_dst, iochannel, peer, over, ops>>
    BY <1>8 DEF Notification, conn, chans
  <2> HIDE DEF l
  <2>4. ~ConnLine(l) /\ ~DiscLine(l)
    BY <2>2 DEF ConnLine, DiscLine
  <2>5. Named(l.dst) /\ NotEnded
    BY <2>2, <2>3, LiveNamed
  <2>6. QED BY <1>2, <1>3, <2>2, <2>3, <2>4, <2>5, SpeaksLine
<1>9. ASSUME NEW b \in Chan, NEW m \in Mtus, MtuResult(b, m) PROVE Speaks'
  <2> DEFINE o == Head(ops[b])
             mtu == IF m < opt_mtu THEN m ELSE opt_mtu
  <2>1. o.id \in Nat
    BY <1>9, HeadType DEF MtuResult, TypeOK
  <2>2. mtu \in Nat
    BY <1>1, HelperAssumption
  <2>3. /\ \/ Say(<<Stat(conn_state, opt_dst, mtu, o.id)>>)
           \/ Say(<<Err("callfail", o.id)>>)
        /\ Live(b) /\ ops[b] # <<>> /\ Settle(b, Tail(ops[b]))
        /\ UNCHANGED <<conn_state, opt_dst, iochannel, peer>>
    BY <1>9 DEF MtuResult
  <2> HIDE DEF mtu, o
  <2>4. OpsFrame
    BY <2>3, SettleFrame
  <2>5. QED BY <1>2, <2>1, <2>2, <2>3, <2>4, SpeaksStat, SpeaksErr DEF ErrCode
<1>10. ASSUME NEW b \in Chan, NEW m \in Mtus, PeerMtuReq(b, m) PROVE Speaks'
  <2>1. /\ Say(<<Stat(conn_state, opt_dst, m, 0)>>) \/ UNCHANGED stdout
        /\ UNCHANGED <<conn_state, opt_dst, iochannel, peer, over, ops>>
    BY <1>10 DEF PeerMtuReq, chans
  <2>2. m \in Nat /\ 0 \in Nat
    BY HelperAssumption
  <2>3. QED BY <1>2, <1>3, <2>1, <2>2, SpeaksStat, SpeaksQuiet
<1>11. CASE MgmtComplete
  <2> DEFINE m == Head(mgmt_q)
             l == Data("oob", NoAddr, m.id)
  <2>1. m.id \in Nat
    <3>1. mgmt_q \in Seq(MgmtOp) /\ mgmt_q # <<>>
      BY <1>11 DEF MgmtComplete, TypeOK, HelperTypeOK
    <3>2. m \in MgmtOp
      BY <3>1
    <3>3. QED BY <3>2 DEF MgmtOp
  <2>2. /\ \/ Say(<<Mgmt("busy", m.id)>>) \/ Say(<<Mgmt("mgmterr", m.id)>>)
           \/ Say(<<l>>) \/ UNCHANGED stdout
           \/ Say(<<Mgmt("success", m.id)>>)
        /\ UNCHANGED <<conn_state, opt_dst, iochannel, peer, over, ops>>
    BY <1>11 DEF MgmtComplete, conn, chans
  <2> HIDE DEF m
  <2>3. l \in Line /\ l.rsp = "oob"
    BY <2>1, DataType, LineKinds DEF RspType
  <2> HIDE DEF l
  <2>4. ~ConnLine(l) /\ ~DiscLine(l) /\ l.rsp \notin Results
    BY <2>3 DEF ConnLine, DiscLine, Results
  <2>5. OpsFrame /\ StateFrame
    BY <1>2, <1>3, <2>2
  <2>6. QED
    BY <2>1, <2>2, <2>3, <2>4, <2>5, SpeaksErr, SpeaksLine, SpeaksQuiet DEF ErrCode
<1>12. ASSUME NEW on \in BOOLEAN, MgmtScanning(on) PROVE Speaks'
  BY <1>12 DEF MgmtScanning
<1>13. CASE MgmtDeviceFound
  BY <1>13 DEF MgmtDeviceFound
<1>14. ASSUME NEW b \in Chan, AttContinue(b) PROVE Speaks'
  <2>1. /\ ops[b] # <<>> /\ UNCHANGED <<conn_state, opt_dst, iochannel, peer, over>>
        /\ UNCHANGED stdout
        /\ \A x \in Chan : x # b => ops'[x] = ops[x]
    BY <1>14 DEF AttContinue, conn, TypeOK, HelperTypeOK
  <2>2. OpsFrame
    BY <2>1 DEF OpsFrame
  <2>3. QED BY <1>2, <2>1, <2>2, SpeaksQuiet
<1>15. ASSUME NEW b \in Chan, AttTimeout(b) PROVE Speaks'
  <2>1. /\ Live(b) /\ ops[b] # <<>> /\ UNCHANGED stdout
        /\ UNCHANGED <<conn_state, opt_dst, iochannel, peer>>
        /\ \/ Settle(b, Tail(ops[b]))
           \/ ops' = [ops EXCEPT ![b] = Tail(@)] /\ UNCHANGED over
    BY <1>15 DEF AttTimeout, conn
  <2>2. OpsFrame
    <3>1. CASE Settle(b, Tail(ops[b]))
      BY <2>1, <3>1, SettleFrame
    <3>2. CASE ops' = [ops EXCEPT ![b] = Tail(@)] /\ UNCHANGED over
      <4>1. \A x \in Chan : x # b => ops'[x] = ops[x]
        BY <3>2 DEF TypeOK, HelperTypeOK
      <4>2. QED BY <2>1, <3>2, <4>1 DEF OpsFrame
    <3>3. QED BY <2>1, <3>1, <3>2
  <2>3. QED BY <1>2, <2>1, <2>2, SpeaksQuiet
<1>16. ASSUME NEW c \in Chan, LinkLoss(c) PROVE Speaks'
  BY <1>2, <1>3, <1>16, SpeaksQuiet DEF LinkLoss, conn
<1>17. QED
  BY <1>4, <1>5, <1>6, <1>7, <1>8, <1>9, <1>10, <1>11, <1>12, <1>13, <1>14,
     <1>15, <1>16, ConnectCbOkSpeaks DEF Callback

\* the requests left on a socket that hung up are of the connection last named
LEMMA FlushSpeaks ==
  ASSUME ~Discovering, TypeOK, Sound, Speaks, NEW b \in Chan, FlushBearer(b)
  PROVE  Speaks'
<1>1. PICK q \in {ops[b], Append(Tail(ops[b]), Head(ops[b]))} :
        /\ q \in Seq(Op) /\ over[b] \in Chan
        /\ \E n \in 1 .. Len(q) :
             /\ [i \in 1 .. n |-> Failed(q[i], peer[over[b]])] \in Seq(Line)
             /\ Say([i \in 1 .. n |-> Failed(q[i], peer[over[b]])])
  BY FlushLines
<1>2. PICK n \in 1 .. Len(q) :
        /\ [i \in 1 .. n |-> Failed(q[i], peer[over[b]])] \in Seq(Line)
        /\ Say([i \in 1 .. n |-> Failed(q[i], peer[over[b]])])
  BY <1>1
<1> DEFINE lines == [i \in 1 .. n |-> Failed(q[i], peer[over[b]])]
<1>3. Named(peer[over[b]])
  <2>1. over[b] # 0 /\ ops[b] # <<>>
    BY DEF FlushBearer, Dead
  <2>2. over[b] = b
    BY <2>1 DEF Sound, OldBearers
  <2>3. QED BY <2>1, <2>2 DEF Speaks, OpsNamed
<1>4. \A k \in DOMAIN lines :
        /\ lines[k].rsp \in {"rd", "err"}
        /\ lines[k].rsp = "rd" => lines[k].dst = peer[over[b]]
  <2>1. TAKE k \in DOMAIN lines
  <2>2. q[k] \in Op /\ peer[over[b]] \in Addr \cup {NoAddr}
    BY <1>1, <2>1 DEF TypeOK, HelperTypeOK
  <2>3. lines[k] = Failed(q[k], peer[over[b]])
    BY <2>1
  <2>4. QED BY <2>2, <2>3, FailedKind
<1>5. lines \in Seq(Line) /\ Say(lines)
  BY <1>2
<1> HIDE DEF lines
<1>6. \A k \in DOMAIN lines :
        /\ ~ConnLine(lines[k]) /\ ~DiscLine(lines[k])
        /\ lines[k].rsp \in Results => lines[k].rsp = "rd" /\ Named(lines[k].dst)
  BY <1>3, <1>4 DEF ConnLine, DiscLine, Results
<1>7. /\ \A d : Named(d) => Named(d)'
      /\ NotEnded => NotEnded'
      /\ OnlyOfTheConnection'
  BY <1>5, <1>6, HistorySay DEF Speaks
<1>8. CASE Gone
  <2>1. conn_state' = "disc" /\ OpsFrame
    BY <1>8 DEF Gone, OpsFrame
  <2>2. StateFrame
    BY <2>1 DEF StateFrame
  <2>3. QED BY <1>7, <2>1, <2>2, SpeaksStays
<1>9. CASE ~Gone
  <2>1. /\ ops' = [ops EXCEPT ![b] = <<>>]
        /\ over' = [over EXCEPT ![b] = IF b \in orphan THEN 0 ELSE @]
        /\ UNCHANGED <<conn_state, opt_dst, iochannel, peer>>
    BY <1>9, FlushBearerLink DEF conn
  <2>2. OpsFrame
    <3>1. \A x \in Chan : ops'[x] # <<>> => ops'[x] = ops[x] /\ over'[x] = over[x]
      BY <2>1 DEF TypeOK, HelperTypeOK
    <3>2. QED BY <2>1, <3>1 DEF OpsFrame
  <2>3. StateFrame
    BY <2>1 DEF StateFrame
  <2>4. conn_state' = "conn" => NotEnded'
    BY <1>7, <2>1 DEF Speaks, ConnNamed
  <2>5. QED BY <1>7, <2>2, <2>3, <2>4, SpeaksStays
<1>10. QED BY <1>8, <1>9

\* the process ends
LEMMA GoneSpeaks ==
  ASSUME ~Discovering, TypeOK, Speaks, Gone,
         UNCHANGED stdout \/ Say(<<Stat("disc", NoAddr, 0, 0)>>)
  PROVE  Speaks'
<1>1. conn_state' = "disc" /\ OpsFrame
  BY DEF Gone, OpsFrame
<1>2. StateFrame
  BY <1>1 DEF StateFrame
<1>3. CASE UNCHANGED stdout
  BY <1>1, <1>2, <1>3, SpeaksQuiet
<1>4. CASE Say(<<Stat("disc", NoAddr, 0, 0)>>)
  <2> DEFINE l == Stat("disc", NoAddr, 0, 0)
  <2>1. l \in Line /\ l.rsp = "stat" /\ l.tag = "disc"
    BY StatType, LineKinds DEF ConnState
  <2>2. ~ConnLine(l) /\ l.rsp \notin Results
    BY <2>1 DEF ConnLine, Results
  <2>3. QED BY <1>1, <1>2, <1>4, <2>1, <2>2, SpeaksLine
<1>5. QED BY <1>3, <1>4

\* The device of the last "stat conn" line is the one every result and every
\* notification comes from, and none of the two but the beginning of a long
\* read is printed after the end of the connection was.
THEOREM OnlyOfTheConnectionAlways == Spec => []OnlyOfTheConnection
<1>1. OpenInit => Speaks
  BY DEF OpenInit, WireInit, Init, Speaks, OpsNamed, ConnNamed, TryNamed,
         OnlyOfTheConnection, FromConnectedDevice, NoResultAfterDisc
<1>2. TypeOK /\ Sound /\ Speaks /\ [Next]_vars => Speaks'
  <2>1. SUFFICES ASSUME ~Discovering, TypeOK, Sound, Speaks, [Next]_vars
                 PROVE  Speaks'
    BY DEF Speaks
  <2>2. UNCHANGED <<stdout, conn, chans>> => Speaks'
    BY <2>1, SpeaksQuiet DEF OpsFrame, StateFrame, conn, chans
  <2>3. CASE UNCHANGED vars
    BY <2>2, <2>3 DEF vars, wire, helper
  <2>4. CASE Client
    BY <2>2, <2>4 DEF Client, Spawn, Boot, Send, Close, helper
  <2>5. CASE PromptRead
    <3>1. /\ stdin \in Seq(Command) /\ stdin # <<>>
          /\ \/ Dispatch(Head(stdin))
             \/ Gone /\ UNCHANGED stdout
      BY <2>1, <2>5 DEF PromptRead, AddOobAborts, TypeOK, WireTypeOK
    <3>2. Head(stdin) \in Command
      BY <3>1
    <3>3. QED BY <2>1, <3>1, <3>2, DispatchSpeaks, GoneSpeaks
  <2>6. CASE PromptEof
    BY <2>2, <2>6 DEF PromptEof, wire
  <2>7. CASE Exit
    BY <2>1, <2>7, GoneSpeaks DEF Exit
  <2>8. CASE Callback
    BY <2>1, <2>8, CallbackSpeaks
  <2>9. CASE \E b \in Chan : FlushBearer(b)
    BY <2>1, <2>9, FlushSpeaks
  <2>10. QED
    BY <2>1, <2>3, <2>4, <2>5, <2>6, <2>7, <2>8, <2>9 DEF Next, HelperStep
<1>3. Speaks => OnlyOfTheConnection
  BY DEF Speaks, OnlyOfTheConnection, FromConnectedDevice, NoResultAfterDisc
<1>4. QED BY <1>1, <1>2, <1>3, TypeCorrect, SoundAlways, PTL DEF Spec

-----------------------------------------------------------------------------
(* One answer to a command.  Commands are numbered as they are written and  *)
(* read in that order: those up to Read are with the helper, in one of its  *)
(* queues or done with; those after it are still in the pipe.               *)

Read == ncmd - Len(stdin)
InOrder ==
  Len(stdin) <= ncmd /\ \A i \in DOMAIN stdin : stdin[i].id = Read + i

\* the numbers of the commands a queue holds, and that it holds each once
Ids(q) == {q[i].id : i \in DOMAIN q}
Distinct(q) == \A i, j \in DOMAIN q : q[i].id = q[j].id => i = j

\* the queues of the helper: 0 stands for that of the management socket
Place == {0} \cup Chan
Queue(w) == IF w = 0 THEN mgmt_q ELSE ops[w]

\* the numbers of the commands that were answered
IsAnswer(l) == l.rsp \in Answer /\ l.re # 0
Said == {stdout[i].re : i \in {j \in DOMAIN stdout : IsAnswer(stdout[j])}}

\* The inductive invariant: a command is in one place, waits there once, and
\* was not answered while it waits.
HeldOnce ==
  /\ \A w \in Place : /\ Distinct(Queue(w))
                      /\ Ids(Queue(w)) \subseteq 1 .. Read
                      /\ Ids(Queue(w)) \cap Said = {}
  /\ \A w, v \in Place : w # v => Ids(Queue(w)) \cap Ids(Queue(v)) = {}
  /\ Said \subseteq 1 .. Read
Once == InOrder /\ HeldOnce /\ AnsweredOnce

LEMMA IdsEmpty == Ids(<<>>) = {} /\ Distinct(<<>>)
BY DEF Ids, Distinct

LEMMA IdsAppend ==
  ASSUME NEW S, NEW q \in Seq(S), NEW o \in S
  PROVE  /\ Ids(Append(q, o)) = Ids(q) \cup {o.id}
         /\ Distinct(q) /\ o.id \notin Ids(q) => Distinct(Append(q, o))
<1> DEFINE n == Len(q)
           p == Append(q, o)
<1>1. /\ n \in Nat /\ DOMAIN q = 1 .. n /\ DOMAIN p = 1 .. (n + 1)
      /\ p[n + 1] = o /\ \A i \in 1 .. n : p[i] = q[i]
  OBVIOUS
<1> HIDE DEF n, p
<1>2. \A i \in DOMAIN p : i \in DOMAIN q \/ i = n + 1
  BY <1>1
<1>3. n + 1 \in DOMAIN p /\ \A i \in DOMAIN q : i \in DOMAIN p /\ p[i] = q[i]
  BY <1>1
<1>4. Ids(p) = Ids(q) \cup {o.id}
  BY <1>1, <1>2, <1>3 DEF Ids
<1>5. Distinct(q) /\ o.id \notin Ids(q) => Distinct(p)
  <2>1. SUFFICES ASSUME Distinct(q), o.id \notin Ids(q),
                        NEW i \in DOMAIN p, NEW j \in DOMAIN p, p[i].id = p[j].id
                 PROVE  i = j
    BY DEF Distinct
  <2>2. CASE i \in DOMAIN q /\ j \in DOMAIN q
    BY <1>3, <2>1, <2>2 DEF Distinct
  <2>3. CASE i = n + 1 /\ j \in DOMAIN q
    BY <1>1, <1>3, <2>1, <2>3 DEF Ids
  <2>4. CASE j = n + 1 /\ i \in DOMAIN q
    BY <1>1, <1>3, <2>1, <2>4 DEF Ids
  <2>5. QED BY <1>2, <2>2, <2>3, <2>4
<1>6. QED BY <1>4, <1>5 DEF p

LEMMA IdsTail ==
  ASSUME NEW S, NEW q \in Seq(S), q # <<>>, Distinct(q)
  PROVE  /\ Head(q).id \in Ids(q) /\ Head(q) \in S /\ Tail(q) \in Seq(S)
         /\ Ids(Tail(q)) = Ids(q) \ {Head(q).id}
         /\ Distinct(Tail(q))
<1> DEFINE n == Len(q)
           p == Tail(q)
<1>1. /\ n \in Nat /\ n >= 1 /\ DOMAIN q = 1 .. n /\ DOMAIN p = 1 .. (n - 1)
      /\ Head(q) = q[1] /\ \A i \in 1 .. (n - 1) : p[i] = q[i + 1]
  OBVIOUS
<1>2. Head(q) \in S /\ Tail(q) \in Seq(S)
  OBVIOUS
<1> HIDE DEF n, p
<1>3. /\ 1 \in DOMAIN q
      /\ \A i \in DOMAIN p : i + 1 \in DOMAIN q /\ p[i] = q[i + 1] /\ i + 1 # 1
      /\ \A i \in DOMAIN q : i # 1 => i - 1 \in DOMAIN p /\ p[i - 1] = q[i]
  <2>1. \A i \in DOMAIN q : i # 1 => i - 1 \in 1 .. (n - 1) /\ (i - 1) + 1 = i
    BY <1>1
  <2>2. \A i \in DOMAIN p : i + 1 \in DOMAIN q /\ p[i] = q[i + 1] /\ i + 1 # 1
    BY <1>1
  <2>3. QED BY <1>1, <2>1, <2>2
<1>4. Ids(p) = Ids(q) \ {q[1].id}
  <2>1. ASSUME NEW x \in Ids(p) PROVE x \in Ids(q) \ {q[1].id}
    <3>1. PICK i \in DOMAIN p : x = p[i].id
      BY <2>1 DEF Ids
    <3>2. x = q[i + 1].id /\ i + 1 \in DOMAIN q /\ i + 1 # 1
      BY <1>3, <3>1
    <3>3. QED BY <1>3, <3>2 DEF Ids, Distinct
  <2>2. ASSUME NEW x \in Ids(q) \ {q[1].id} PROVE x \in Ids(p)
    <3>1. PICK i \in DOMAIN q : x = q[i].id
      BY <2>2 DEF Ids
    <3>2. QED BY <1>3, <2>2, <3>1 DEF Ids
  <2>3. QED BY <2>1, <2>2
<1>5. Distinct(p)
  <2>1. SUFFICES ASSUME NEW i \in DOMAIN p, NEW j \in DOMAIN p, p[i].id = p[j].id
                 PROVE  i = j
    BY DEF Distinct
  <2>2. i + 1 = j + 1
    BY <1>3, <2>1 DEF Distinct
  <2>3. i \in Nat /\ j \in Nat
    BY <1>1
  <2>4. QED BY <2>2, <2>3
<1>6. Head(q).id \in Ids(q)
  BY <1>1, <1>3 DEF Ids
<1>7. QED BY <1>1, <1>2, <1>4, <1>5, <1>6 DEF p

\* the head goes to the end
LEMMA IdsRotate ==
  ASSUME NEW S, NEW q \in Seq(S), q # <<>>, Distinct(q),
         NEW o \in S, o.id = Head(q).id
  PROVE  /\ Ids(Append(Tail(q), o)) = Ids(q)
         /\ Distinct(Append(Tail(q), o))
<1>1. /\ Head(q).id \in Ids(q) /\ Tail(q) \in Seq(S)
      /\ Ids(Tail(q)) = Ids(q) \ {Head(q).id} /\ Distinct(Tail(q))
  BY IdsTail
<1>2. /\ Ids(Append(Tail(q), o)) = Ids(Tail(q)) \cup {o.id}
      /\ o.id \notin Ids(Tail(q)) => Distinct(Append(Tail(q), o))
  <2> DEFINE p == Tail(q)
  <2>1. p \in Seq(S)
    BY <1>1
  <2> HIDE DEF p
  <2>2. /\ Ids(Append(p, o)) = Ids(p) \cup {o.id}
        /\ Distinct(p) /\ o.id \notin Ids(p) => Distinct(Append(p, o))
    BY <2>1, IdsAppend
  <2>3. QED BY <1>1, <2>2 DEF p
<1>3. QED BY <1>1, <1>2

\* the answers among some lines: their numbers are in S, each comes once
AnswersIn(lines, S) ==
  /\ \A k \in DOMAIN lines : IsAnswer(lines[k]) => lines[k].re \in S
  /\ \A j, k \in DOMAIN lines :
       IsAnswer(lines[j]) /\ IsAnswer(lines[k]) /\ lines[j].re = lines[k].re => j = k

LEMMA AnsweredIff ==
  AnsweredOnce <=>
    \A i, j \in DOMAIN stdout :
      IsAnswer(stdout[i]) /\ IsAnswer(stdout[j]) /\ stdout[i].re = stdout[j].re
      => i = j
BY DEF AnsweredOnce, IsAnswer

LEMMA SaidGrows ==
  ASSUME TypeOK, AnsweredOnce, NEW lines \in Seq(Line), Say(lines), NEW S,
         AnswersIn(lines, S), S \cap Said = {}
  PROVE  /\ AnsweredOnce'
         /\ Said' \subseteq Said \cup S
<1> DEFINE n == Len(stdout)
<1>1. stdout \in Seq(Line)
  BY DEF TypeOK, WireTypeOK
<1>2. /\ n \in Nat
      /\ \A j \in DOMAIN stdout' :
           /\ j \in Nat
           /\ j <= n => j \in DOMAIN stdout /\ stdout'[j] = stdout[j]
           /\ j > n => j - n \in DOMAIN lines /\ stdout'[j] = lines[j - n]
  BY <1>1, SayLines
<1> HIDE DEF n
<1>3. \A j \in DOMAIN stdout' :
        IsAnswer(stdout'[j]) =>
          /\ j <= n => stdout'[j].re \in Said
          /\ j > n => stdout'[j].re \in S
  BY <1>2 DEF Said, AnswersIn
<1>4. Said' \subseteq Said \cup S
  <2>1. SUFFICES ASSUME NEW j \in DOMAIN stdout', IsAnswer(stdout'[j])
                 PROVE  stdout'[j].re \in Said \cup S
    BY DEF Said, IsAnswer
  <2>2. j \in Nat
    BY <1>2
  <2>3. j <= n \/ j > n
    BY <1>2, <2>2
  <2>4. QED BY <1>3, <2>1, <2>3
<1>5. AnsweredOnce'
  <2>1. SUFFICES ASSUME NEW i \in DOMAIN stdout', NEW j \in DOMAIN stdout',
                        IsAnswer(stdout'[i]), IsAnswer(stdout'[j]),
                        stdout'[i].re = stdout'[j].re
                 PROVE  i = j
    BY DEF AnsweredOnce, IsAnswer
  <2>2. i \in Nat /\ j \in Nat
    BY <1>2
  <2>3. CASE i <= n /\ j <= n
    BY <1>2, <2>1, <2>3, AnsweredIff
  <2>4. CASE i > n /\ j > n
    <3>1. /\ i - n \in DOMAIN lines /\ stdout'[i] = lines[i - n]
          /\ j - n \in DOMAIN lines /\ stdout'[j] = lines[j - n]
      BY <1>2, <2>4
    <3>2. i - n = j - n
      BY <2>1, <3>1 DEF AnswersIn
    <3>3. QED BY <1>2, <2>2, <3>2
  <2>5. CASE i <= n /\ j > n
    BY <1>3, <2>1, <2>5
  <2>6. CASE i > n /\ j <= n
    BY <1>3, <2>1, <2>6
  <2>7. QED BY <1>2, <2>2, <2>3, <2>4, <2>5, <2>6
<1>6. QED BY <1>4, <1>5

\* the queues are sequences of things that have a number
LEMMA QueueSeq ==
  ASSUME TypeOK, NEW w \in Place
  PROVE  Queue(w) \in Seq(Op \cup MgmtOp)
<1>1. mgmt_q \in Seq(Op \cup MgmtOp) /\ \A b \in Chan : ops[b] \in Seq(Op \cup MgmtOp)
  BY DEF TypeOK, HelperTypeOK
<1>2. QED BY <1>1 DEF Queue, Place

\* reading the next command
LEMMA ReadNext ==
  ASSUME TypeOK, InOrder, stdin # <<>>, stdin' = Tail(stdin), UNCHANGED ncmd
  PROVE  /\ InOrder' /\ Read \in Nat /\ Read' = Read + 1
         /\ Head(stdin).id = Read + 1 /\ Head(stdin) \in Command
<1> DEFINE n == Len(stdin)
<1>1. stdin \in Seq(Command) /\ ncmd \in Nat
  BY DEF TypeOK, WireTypeOK
<1>2. /\ n \in Nat /\ n >= 1 /\ DOMAIN stdin = 1 .. n /\ Head(stdin) = stdin[1]
      /\ Head(stdin) \in Command
      /\ Len(Tail(stdin)) = n - 1 /\ DOMAIN Tail(stdin) = 1 .. (n - 1)
      /\ \A i \in 1 .. (n - 1) : Tail(stdin)[i] = stdin[i + 1]
  BY <1>1
<1>3. Read = ncmd - n /\ Read' = ncmd - (n - 1) /\ n <= ncmd
  BY <1>2 DEF Read, InOrder
<1>4. \A i \in 1 .. n : stdin[i].id = (ncmd - n) + i
  BY <1>2, <1>3 DEF InOrder
<1> HIDE DEF n
<1>5. Read \in Nat /\ Read' = Read + 1
  BY <1>1, <1>2, <1>3
<1>6. Head(stdin).id = Read + 1
  BY <1>2, <1>3, <1>4
<1>7. \A i \in 1 .. (n - 1) : Tail(stdin)[i].id = Read' + i
  <2>1. TAKE i \in 1 .. (n - 1)
  <2>2. i + 1 \in 1 .. n /\ Tail(stdin)[i] = stdin[i + 1]
    BY <1>2
  <2>3. Tail(stdin)[i].id = (ncmd - n) + (i + 1)
    BY <1>4, <2>2
  <2>4. QED BY <1>1, <1>2, <1>3, <2>3
<1>8. InOrder'
  BY <1>1, <1>2, <1>3, <1>7 DEF InOrder
<1>9. QED BY <1>2, <1>5, <1>6, <1>8

LEMMA ReadType ==
  ASSUME TypeOK, InOrder
  PROVE  Read \in Nat
<1>1. ncmd \in Nat /\ Len(stdin) \in Nat /\ Len(stdin) <= ncmd
  BY DEF TypeOK, WireTypeOK, InOrder
<1>2. QED BY <1>1 DEF Read

\* No queue gets a command it did not hold; the answers are to commands of
\* one queue, which it holds no more.
QueuesShrink ==
  \A w \in Place : Distinct(Queue(w))' /\ Ids(Queue(w))' \subseteq Ids(Queue(w))

LEMMA OnceCallback ==
  ASSUME TypeOK, Once, UNCHANGED <<stdin, ncmd>>,
         NEW lines \in Seq(Line), Say(lines), QueuesShrink,
         NEW S, AnswersIn(lines, S),
         \E v \in Place : S \subseteq Ids(Queue(v)) /\ S \cap Ids(Queue(v))' = {}
  PROVE  Once'
<1>1. PICK v \in Place : S \subseteq Ids(Queue(v)) /\ S \cap Ids(Queue(v))' = {}
  OBVIOUS
<1>2. InOrder /\ HeldOnce /\ AnsweredOnce
  BY DEF Once
<1>3. S \cap Said = {} /\ S \subseteq 1 .. Read
  BY <1>1, <1>2 DEF HeldOnce
<1>4. AnsweredOnce' /\ Said' \subseteq Said \cup S
  BY <1>2, <1>3, SaidGrows
<1>5. InOrder' /\ Read' = Read
  BY <1>2 DEF InOrder, Read
<1>6. \A w \in Place : Ids(Queue(w))' \cap S = {}
  <2>1. TAKE w \in Place
  <2>2. CASE w = v
    BY <1>1, <2>2
  <2>3. CASE w # v
    <3>1. Ids(Queue(w)) \cap Ids(Queue(v)) = {}
      BY <1>2, <2>3 DEF HeldOnce
    <3>2. QED BY <1>1, <3>1 DEF QueuesShrink
  <2>4. QED BY <2>2, <2>3
<1>7. HeldOnce'
  <2>1. \A w \in Place : /\ Distinct(Queue(w))'
                         /\ Ids(Queue(w))' \subseteq 1 .. Read'
                         /\ Ids(Queue(w))' \cap Said' = {}
    BY <1>2, <1>4, <1>5, <1>6 DEF HeldOnce, QueuesShrink
  <2>2. \A w, u \in Place : w # u => Ids(Queue(w))' \cap Ids(Queue(u))' = {}
    <3>1. TAKE w, u \in Place
    <3>2. w # u => Ids(Queue(w)) \cap Ids(Queue(u)) = {}
      BY <1>2 DEF HeldOnce
    <3>3. QED BY <3>2 DEF QueuesShrink
  <2>3. Said' \subseteq 1 .. Read'
    BY <1>2, <1>3, <1>4, <1>5 DEF HeldOnce
  <2>4. QED BY <2>1, <2>2, <2>3 DEF HeldOnce
<1>8. QED BY <1>4, <1>5, <1>7 DEF Once

\* a command that is done with at once
LEMMA OnceRead ==
  ASSUME TypeOK, Once, stdin # <<>>, stdin' = Tail(stdin), UNCHANGED ncmd,
         NEW lines \in Seq(Line), Say(lines), QueuesShrink,
         AnswersIn(lines, {Head(stdin).id})
  PROVE  Once'
<1> DEFINE S == {Head(stdin).id}
<1>1. InOrder /\ HeldOnce /\ AnsweredOnce
  BY DEF Once
<1>2. InOrder' /\ Read \in Nat /\ Read' = Read + 1 /\ S = {Read + 1}
  BY <1>1, ReadNext
<1> HIDE DEF S
<1>3. S \cap Said = {}
  BY <1>1, <1>2 DEF HeldOnce
<1>4. AnsweredOnce' /\ Said' \subseteq Said \cup S
  BY <1>1, <1>3, SaidGrows DEF S
<1>5. 1 .. Read \subseteq 1 .. Read' /\ S \subseteq 1 .. Read' /\ S \cap (1 .. Read) = {}
  BY <1>2
<1>6. \A w \in Place : /\ Ids(Queue(w))' \subseteq 1 .. Read
                       /\ Ids(Queue(w))' \cap Said = {}
                       /\ Distinct(Queue(w))'
  BY <1>1 DEF HeldOnce, QueuesShrink
<1>7. HeldOnce'
  <2>1. \A w \in Place : /\ Distinct(Queue(w))'
                         /\ Ids(Queue(w))' \subseteq 1 .. Read'
                         /\ Ids(Queue(w))' \cap Said' = {}
    <3>1. TAKE w \in Place
    <3>2. Ids(Queue(w))' \cap S = {}
      BY <1>5, <1>6
    <3>3. QED BY <1>4, <1>5, <1>6, <3>2
  <2>2. \A w, u \in Place : w # u => Ids(Queue(w))' \cap Ids(Queue(u))' = {}
    <3>1. TAKE w, u \in Place
    <3>2. w # u => Ids(Queue(w)) \cap Ids(Queue(u)) = {}
      BY <1>1 DEF HeldOnce
    <3>3. QED BY <3>2 DEF QueuesShrink
  <2>3. Said' \subseteq 1 .. Read'
    BY <1>1, <1>4, <1>5 DEF HeldOnce
  <2>4. QED BY <2>1, <2>2, <2>3 DEF HeldOnce
<1>8. QED BY <1>2, <1>4, <1>7 DEF Once

\* a command that is queued
LEMMA OnceQueued ==
  ASSUME TypeOK, Once, stdin # <<>>, stdin' = Tail(stdin), UNCHANGED <<ncmd, stdout>>,
         \E v \in Place : \E o \in Op \cup MgmtOp :
           /\ o.id = Head(stdin).id /\ Queue(v)' = Append(Queue(v), o)
           /\ \A w \in Place : w # v => Queue(w)' = Queue(w)
  PROVE  Once'
<1>1. PICK v \in Place : \E o \in Op \cup MgmtOp :
        /\ o.id = Head(stdin).id /\ Queue(v)' = Append(Queue(v), o)
        /\ \A w \in Place : w # v => Queue(w)' = Queue(w)
  OBVIOUS
<1>2. PICK o \in Op \cup MgmtOp :
        /\ o.id = Head(stdin).id /\ Queue(v)' = Append(Queue(v), o)
        /\ \A w \in Place : w # v => Queue(w)' = Queue(w)
  BY <1>1
<1>3. InOrder /\ HeldOnce /\ AnsweredOnce
  BY DEF Once
<1>4. InOrder' /\ Read \in Nat /\ Read' = Read + 1 /\ o.id = Read + 1
  BY <1>2, <1>3, ReadNext
<1>5. 1 .. Read \subseteq 1 .. Read' /\ o.id \in 1 .. Read' /\ o.id \notin 1 .. Read
  BY <1>4
<1>6. AnsweredOnce' /\ Said' = Said
  BY <1>3 DEF AnsweredOnce, Said
<1>7. \A w \in Place : Ids(Queue(w)) \subseteq 1 .. Read /\ o.id \notin Ids(Queue(w))
  BY <1>3, <1>5 DEF HeldOnce
<1>8. Ids(Queue(v))' = Ids(Queue(v)) \cup {o.id} /\ Distinct(Queue(v))'
  <2>1. Queue(v) \in Seq(Op \cup MgmtOp)
    BY QueueSeq
  <2>2. /\ Ids(Append(Queue(v), o)) = Ids(Queue(v)) \cup {o.id}
        /\ Distinct(Queue(v)) /\ o.id \notin Ids(Queue(v))
             => Distinct(Append(Queue(v), o))
    BY <1>2, <2>1, IdsAppend
  <2>3. Ids(Queue(v))' = Ids(Append(Queue(v), o))
    BY <1>2 DEF Ids
  <2>4. Distinct(Queue(v))' = Distinct(Append(Queue(v), o))
    BY <1>2 DEF Distinct
  <2>5. Distinct(Queue(v))
    BY <1>3 DEF HeldOnce
  <2>6. QED BY <1>7, <2>2, <2>3, <2>4, <2>5
<1>9. \A w \in Place : w # v =>
        Ids(Queue(w))' = Ids(Queue(w)) /\ Distinct(Queue(w))' = Distinct(Queue(w))
  BY <1>2 DEF Ids, Distinct
<1>10. HeldOnce'
  <2>1. \A w \in Place : /\ Distinct(Queue(w))'
                         /\ Ids(Queue(w))' \subseteq 1 .. Read'
                         /\ Ids(Queue(w))' \cap Said' = {}
    <3>1. TAKE w \in Place
    <3>2. CASE w = v
      BY <1>3, <1>5, <1>6, <1>7, <1>8, <3>2 DEF HeldOnce
    <3>3. CASE w # v
      BY <1>3, <1>5, <1>6, <1>7, <1>9, <3>3 DEF HeldOnce
    <3>4. QED BY <3>2, <3>3
  <2>2. \A w, u \in Place : w # u => Ids(Queue(w))' \cap Ids(Queue(u))' = {}
    <3>1. TAKE w, u \in Place
    <3>2. w # u => Ids(Queue(w)) \cap Ids(Queue(u)) = {}
      BY <1>3 DEF HeldOnce
    <3>3. CASE w = v
      BY <1>7, <1>8, <1>9, <3>2, <3>3
    <3>4. CASE u = v
      BY <1>7, <1>8, <1>9, <3>2, <3>4
    <3>5. CASE w # v /\ u # v
      BY <1>9, <3>2, <3>5
    <3>6. QED BY <3>3, <3>4, <3>5
  <2>3. Said' \subseteq 1 .. Read'
    BY <1>3, <1>5, <1>6 DEF HeldOnce
  <2>4. QED BY <2>1, <2>2, <2>3 DEF HeldOnce
<1>11. QED BY <1>4, <1>6, <1>10 DEF Once

\* queues that stay as they are, or are emptied
LEMMA QueuesStay ==
  ASSUME Once, UNCHANGED <<ops, mgmt_q>>
  PROVE  QueuesShrink
<1>1. \A w \in Place : Queue(w)' = Queue(w)
  BY DEF Queue
<1>2. \A w \in Place : Distinct(Queue(w))' = Distinct(Queue(w)) /\ Ids(Queue(w))' = Ids(Queue(w))
  BY <1>1 DEF Distinct, Ids
<1>3. QED BY <1>2 DEF Once, HeldOnce, QueuesShrink

LEMMA QueuesEmptied ==
  ASSUME Once, UNCHANGED mgmt_q \/ mgmt_q' = <<>>,
         \A b \in Chan : ops'[b] = ops[b] \/ ops'[b] = <<>>
  PROVE  QueuesShrink
<1>1. \A w \in Place : Queue(w)' = Queue(w) \/ Queue(w)' = <<>>
  BY DEF Queue, Place
<1>2. \A w \in Place : \/ /\ Distinct(Queue(w))' = Distinct(Queue(w))
                          /\ Ids(Queue(w))' = Ids(Queue(w))
                       \/ Distinct(Queue(w))' /\ Ids(Queue(w))' = {}
  BY <1>1, IdsEmpty DEF Distinct, Ids
<1>3. QED BY <1>2 DEF Once, HeldOnce, QueuesShrink

\* the queue of bearer b loses its head, or all; others may be emptied too
LEMMA QueuesSettle ==
  ASSUME TypeOK, Once, NEW b \in Chan, ops[b] # <<>>, UNCHANGED mgmt_q,
         \A x \in Chan : ops'[x] = (IF x = b THEN Tail(ops[x]) ELSE ops[x])
                         \/ ops'[x] = <<>>
  PROVE  /\ QueuesShrink
         /\ Head(ops[b]).id \in Ids(ops[b]) /\ Head(ops[b]).id \notin Ids(ops'[b])
<1>1. ops[b] \in Seq(Op) /\ Queue(b) = ops[b] /\ b \in Place
  BY DEF TypeOK, HelperTypeOK, Queue, Place, Chan
<1>2. Distinct(ops[b])
  BY <1>1 DEF Once, HeldOnce
<1>3. /\ Head(ops[b]).id \in Ids(ops[b])
      /\ Ids(Tail(ops[b])) = Ids(ops[b]) \ {Head(ops[b]).id}
      /\ Distinct(Tail(ops[b]))
  BY <1>1, <1>2, IdsTail
<1>4. Head(ops[b]).id \notin Ids(ops'[b])
  BY <1>3, IdsEmpty
<1>5. QueuesShrink
  <2>1. SUFFICES ASSUME NEW w \in Place
                 PROVE  Distinct(Queue(w))' /\ Ids(Queue(w))' \subseteq Ids(Queue(w))
    BY DEF QueuesShrink
  <2>2. Distinct(Queue(w))
    BY DEF Once, HeldOnce
  <2>3. CASE w = b
    <3>1. Queue(w)' = Tail(ops[b]) \/ Queue(w)' = <<>>
      BY <2>3 DEF Queue, Chan
    <3>2. \/ Distinct(Queue(w))' = Distinct(Tail(ops[b])) /\ Ids(Queue(w))' = Ids(Tail(ops[b]))
          \/ Distinct(Queue(w))' = Distinct(<<>>) /\ Ids(Queue(w))' = Ids(<<>>)
      BY <3>1 DEF Distinct, Ids
    <3>3. QED BY <1>1, <1>3, <2>3, <3>2, IdsEmpty
  <2>4. CASE w # b
    <3>1. Queue(w)' = Queue(w) \/ Queue(w)' = <<>>
      BY <2>4 DEF Queue, Place
    <3>2. \/ Distinct(Queue(w))' = Distinct(Queue(w)) /\ Ids(Queue(w))' = Ids(Queue(w))
          \/ Distinct(Queue(w))' = Distinct(<<>>) /\ Ids(Queue(w))' = Ids(<<>>)
      BY <3>1 DEF Distinct, Ids
    <3>3. QED BY <2>2, <3>2, IdsEmpty
  <2>5. QED BY <2>3, <2>4
<1>6. QED BY <1>3, <1>4, <1>5

LEMMA AnswerOne ==
  ASSUME NEW l \in Line, NEW S, IsAnswer(l) => l.re \in S
  PROVE  AnswersIn(<<l>>, S)
<1>1. DOMAIN <<l>> = {1} /\ <<l>>[1] = l
  BY OneLine
<1>2. QED BY <1>1 DEF AnswersIn

LEMMA SayNothing ==
  ASSUME TypeOK, UNCHANGED stdout, NEW S
  PROVE  <<>> \in Seq(Line) /\ Say(<<>>) /\ AnswersIn(<<>>, S)
BY DEF TypeOK, WireTypeOK, Say, AnswersIn

\* the ways a callback can go: with a line that is no answer, with the answer
\* to what was at the head of a queue, or without a line
LEMMA OnceLine ==
  ASSUME TypeOK, Once, UNCHANGED <<stdin, ncmd>>, QueuesShrink,
         NEW l \in Line, Say(<<l>>), ~IsAnswer(l)
  PROVE  Once'
<1>1. <<l>> \in Seq(Line) /\ AnswersIn(<<l>>, {})
  BY OneLine, AnswerOne
<1>2. \E v \in Place : {} \subseteq Ids(Queue(v)) /\ {} \cap Ids(Queue(v))' = {}
  BY DEF Place
<1>3. QED BY <1>1, <1>2, OnceCallback

LEMMA OnceAnswer ==
  ASSUME TypeOK, Once, UNCHANGED <<stdin, ncmd>>, QueuesShrink,
         NEW l \in Line, Say(<<l>>),
         \E v \in Place : l.re \in Ids(Queue(v)) /\ l.re \notin Ids(Queue(v))'
  PROVE  Once'
<1>1. <<l>> \in Seq(Line) /\ AnswersIn(<<l>>, {l.re})
  BY OneLine, AnswerOne
<1>2. \E v \in Place : {l.re} \subseteq Ids(Queue(v)) /\ {l.re} \cap Ids(Queue(v))' = {}
  OBVIOUS
<1>3. QED BY <1>1, <1>2, OnceCallback

LEMMA OnceQuiet ==
  ASSUME TypeOK, Once, UNCHANGED <<stdin, ncmd, stdout>>, QueuesShrink
  PROVE  Once'
<1>1. <<>> \in Seq(Line) /\ Say(<<>>) /\ AnswersIn(<<>>, {})
  BY SayNothing
<1>2. \E v \in Place : {} \subseteq Ids(Queue(v)) /\ {} \cap Ids(Queue(v))' = {}
  BY DEF Place
<1>3. QED BY <1>1, <1>2, OnceCallback

\* a command read and done with: one line, or none
LEMMA OnceReadLine ==
  ASSUME TypeOK, Once, stdin # <<>>, stdin' = Tail(stdin), UNCHANGED ncmd,
         QueuesShrink, NEW l \in Line, Say(<<l>>),
         IsAnswer(l) => l.re = Head(stdin).id
  PROVE  Once'
<1>1. <<l>> \in Seq(Line) /\ AnswersIn(<<l>>, {Head(stdin).id})
  BY OneLine, AnswerOne
<1>2. QED BY <1>1, OnceRead

LEMMA OnceReadQuiet ==
  ASSUME TypeOK, Once, stdin # <<>>, stdin' = Tail(stdin), UNCHANGED ncmd,
         QueuesShrink, UNCHANGED stdout
  PROVE  Once'
<1>1. <<>> \in Seq(Line) /\ Say(<<>>) /\ AnswersIn(<<>>, {Head(stdin).id})
  BY SayNothing
<1>2. QED BY <1>1, OnceRead

\* the end of a connection empties a queue, and its line is no answer
LEMMA DisconnectIoQueues ==
  ASSUME TypeOK, Once, NEW re \in Nat, DisconnectIo(re), UNCHANGED mgmt_q
  PROVE  /\ QueuesShrink
         /\ \/ UNCHANGED stdout
            \/ \E l \in Line : Say(<<l>>) /\ ~IsAnswer(l)
<1>1. \A b \in Chan : ops'[b] = ops[b] \/ ops'[b] = <<>>
  <2>1. UNCHANGED ops \/ ops' = [ops EXCEPT ![attrib] = <<>>]
    BY DEF DisconnectIo, Unref, chans
  <2>2. QED BY <2>1 DEF TypeOK, HelperTypeOK
<1>2. UNCHANGED stdout \/ Say(<<Stat("disc", NoAddr, 0, re)>>)
  BY DEF DisconnectIo
<1>3. /\ Stat("disc", NoAddr, 0, re) \in Line
      /\ ~IsAnswer(Stat("disc", NoAddr, 0, re))
  <2>1. Stat("disc", NoAddr, 0, re) \in Line
    BY StatType DEF ConnState
  <2>2. Stat("disc", NoAddr, 0, re).rsp = "stat"
    BY LineKinds
  <2>3. QED BY <2>1, <2>2 DEF IsAnswer, Answer
<1>4. QED BY <1>1, <1>2, <1>3, QueuesEmptied

\* a request is put into the queue of the bearer, if there is one
LEMMA OnceRequest ==
  ASSUME TypeOK, Once, stdin # <<>>, stdin' = Tail(stdin),
         UNCHANGED <<ncmd, stdout, mgmt_q>>,
         NEW c \in Command, c = Head(stdin), c.verb \in GattVerbs \cup {"mtu"},
         ops' = [b \in Chan |-> IF b = attrib THEN Append(ops[b], Req(c)) ELSE ops[b]]
  PROVE  Once'
<1>1. CASE attrib \notin Chan
  <2>1. UNCHANGED ops
    BY <1>1 DEF TypeOK, HelperTypeOK
  <2>2. QED BY <2>1, QueuesStay, OnceReadQuiet
<1>2. CASE attrib \in Chan
  <2>1. Req(c) \in Op /\ Req(c).id = c.id
    BY DEF Req, Op, Command
  <2>2. PICK v \in Chan : v = attrib
    BY <1>2
  <2>3. PICK o \in Op : o = Req(c)
    BY <2>1
  <2>4. v \in Place /\ v # 0
    BY <2>2 DEF Place, Chan
  <2>5. ops'[v] = Append(ops[v], o) /\ \A x \in Chan : x # v => ops'[x] = ops[x]
    BY <2>2, <2>3
  <2>6. /\ o.id = Head(stdin).id /\ Queue(v)' = Append(Queue(v), o)
        /\ \A w \in Place : w # v => Queue(w)' = Queue(w)
    BY <2>1, <2>3, <2>4, <2>5 DEF Queue, Place
  <2>7. QED BY <2>4, <2>6, OnceQueued
<1>3. QED BY <1>1, <1>2

LEMMA DispatchOnce ==
  ASSUME TypeOK, Once, stdin # <<>>, stdin' = Tail(stdin), UNCHANGED ncmd,
         Dispatch(Head(stdin))
  PROVE  Once'
<1>1. PICK c \in Command : c = Head(stdin)
  <2>1. Head(stdin) \in Command
    BY DEF TypeOK, WireTypeOK
  <2>2. QED BY <2>1
<1>2. /\ c.id \in Nat /\ opt_dst \in Addr \cup {NoAddr} /\ opt_mtu \in Nat
      /\ conn_state \in ConnState /\ c.dst \in Addr \cup {NoAddr}
  BY DEF Command, TypeOK, HelperTypeOK
<1>3. UNCHANGED <<ops, mgmt_q>> => QueuesShrink
  BY QueuesStay
<1>4. ASSUME NEW code \in ErrCode, Say(<<Err(code, c.id)>>) \/ Say(<<Mgmt(code, c.id)>>),
             QueuesShrink
      PROVE  Once'
  <2>1. Err(code, c.id) \in Line /\ Mgmt(code, c.id) \in Line
    BY <1>2, ErrType, MgmtType
  <2>2. Err(code, c.id).re = c.id /\ Mgmt(code, c.id).re = c.id
    BY LineKinds
  <2>3. QED BY <1>1, <1>4, <2>1, <2>2, OnceReadLine
<1>5. ASSUME NEW s \in ConnState, NEW d \in Addr \cup {NoAddr},
             Say(<<Stat(s, d, opt_mtu, c.id)>>), QueuesShrink
      PROVE  Once'
  <2>1. Stat(s, d, opt_mtu, c.id) \in Line
    BY <1>2, StatType
  <2>2. Stat(s, d, opt_mtu, c.id).re = c.id
    BY LineKinds
  <2>3. QED BY <1>1, <1>5, <2>1, <2>2, OnceReadLine
<1>6. CASE CmdStatus(c)
  BY <1>2, <1>3, <1>5, <1>6 DEF CmdStatus, chans, mgmt
<1>7. CASE CmdExit(c)
  BY <1>3, <1>7, OnceReadQuiet DEF CmdExit, chans, mgmt
<1>8. CASE CmdConnect(c)
  <2> DEFINE dst == IF c.dst = NoAddr THEN opt_dst ELSE c.dst
             l == Stat("tryconn", dst, opt_mtu, c.id)
             k == Stat("disc", dst, opt_mtu, c.id)
  <2>1. dst \in Addr \cup {NoAddr} /\ QueuesShrink
    BY <1>2, <1>3, <1>8 DEF CmdConnect, mgmt
  <2>2. \/ UNCHANGED stdout \/ Say(<<Err("badparam", c.id)>>)
        \/ Say(<<l, k>>) \/ Say(<<l>>)
    BY <1>8 DEF CmdConnect
  <2> HIDE DEF dst
  <2>3. l \in Line /\ k \in Line
    BY <1>2, <2>1, StatType DEF ConnState
  <2>4. l.rsp = "stat" /\ k.rsp = "stat"
    BY LineKinds
  <2> HIDE DEF l, k
  <2>5. ~IsAnswer(l) /\ ~IsAnswer(k)
    BY <2>4 DEF IsAnswer, Answer
  <2>6. CASE Say(<<l, k>>)
    <3> DEFINE lines == <<l, k>>
    <3>1. lines \in Seq(Line) /\ \A j \in DOMAIN lines : lines[j] = l \/ lines[j] = k
      BY <2>3, TwoLines
    <3>2. Say(lines)
      BY <2>6
    <3> HIDE DEF lines
    <3>3. AnswersIn(lines, {Head(stdin).id})
      BY <2>5, <3>1 DEF AnswersIn
    <3>4. QED BY <2>1, <3>1, <3>2, <3>3, OnceRead
  <2>7. CASE Say(<<l>>)
    BY <2>1, <2>3, <2>5, <2>7, OnceReadLine
  <2>8. CASE UNCHANGED stdout
    BY <2>1, <2>8, OnceReadQuiet
  <2>9. CASE Say(<<Err("badparam", c.id)>>)
    BY <1>4, <2>1, <2>9 DEF ErrCode
  <2>10. QED BY <2>2, <2>6, <2>7, <2>8, <2>9
<1>9. CASE CmdDisconnect(c)
  <2>1. /\ QueuesShrink
        /\ \/ UNCHANGED stdout
           \/ \E l \in Line : Say(<<l>>) /\ ~IsAnswer(l)
    BY <1>2, <1>9, DisconnectIoQueues DEF CmdDisconnect, mgmt
  <2>2. QED BY <2>1, OnceReadLine, OnceReadQuiet
<1>10. CASE CmdGatt(c)
  <2>1. UNCHANGED mgmt_q
    BY <1>10 DEF CmdGatt, mgmt
  <2>2. CASE UNCHANGED ops
    BY <1>3, <1>4, <1>10, <2>1, <2>2, OnceReadQuiet DEF CmdGatt, ErrCode
  <2>3. CASE ~UNCHANGED ops
    BY <1>1, <1>10, <2>1, <2>3, OnceRequest DEF CmdGatt
  <2>4. QED BY <2>2, <2>3
<1>11. CASE CmdWrite(c)
  <2>1. Data("wr", opt_dst, c.id) \in Line /\ Data("wr", opt_dst, c.id).re = c.id
    <3>1. Data("wr", opt_dst, c.id) \in Line
      BY <1>2, DataType DEF RspType
    <3>2. QED BY <3>1, LineKinds
  <2>2. QueuesShrink
    BY <1>3, <1>11 DEF CmdWrite, chans, mgmt
  <2>3. QED BY <1>1, <1>4, <1>11, <2>1, <2>2, OnceReadLine DEF CmdWrite, ErrCode
<1>12. CASE CmdSecLevel(c)
  <2>1. QueuesShrink
    BY <1>3, <1>12 DEF CmdSecLevel, chans, mgmt
  <2>2. \/ Say(<<Err("badparam", c.id)>>) \/ Say(<<Err("callfail", c.id)>>)
        \/ Say(<<Stat(conn_state, opt_dst, opt_mtu, c.id)>>) \/ UNCHANGED stdout
    BY <1>12 DEF CmdSecLevel
  <2>3. QED BY <1>2, <1>4, <1>5, <2>1, <2>2, OnceReadQuiet DEF ErrCode
<1>13. CASE CmdMtu(c)
  <2>1. UNCHANGED mgmt_q /\ c.verb = "mtu"
    BY <1>13 DEF CmdMtu, mgmt
  <2>2. CASE UNCHANGED ops
    BY <1>3, <1>4, <1>13, <2>1, <2>2, OnceReadQuiet DEF CmdMtu, ErrCode
  <2>3. CASE ~UNCHANGED ops
    BY <1>1, <1>13, <2>1, <2>3, OnceRequest DEF CmdMtu
  <2>4. QED BY <2>2, <2>3
<1>14. CASE CmdMgmt(c)
  <2>1. UNCHANGED ops /\ c.verb \in MgmtVerbs
    BY <1>14 DEF CmdMgmt, chans
  <2>2. CASE UNCHANGED mgmt_q
    <3>1. QueuesShrink
      BY <1>3, <2>1, <2>2
    <3>2. \/ Say(<<Mgmt("badparam", c.id)>>) \/ Say(<<Mgmt("notfound", c.id)>>)
          \/ Say(<<Err("badparam", c.id)>>) \/ Say(<<Err("nomgmt", c.id)>>)
          \/ Say(<<Mgmt("badstate", c.id)>>) \/ UNCHANGED stdout
      BY <1>14 DEF CmdMgmt
    <3>3. QED BY <1>4, <3>1, <3>2, OnceReadQuiet DEF ErrCode
  <2>3. CASE ~UNCHANGED mgmt_q
    <3> DEFINE o == [verb |-> c.verb, id |-> c.id]
    <3>1. mgmt_q' = Append(mgmt_q, o) /\ UNCHANGED stdout
      BY <1>14, <2>3 DEF CmdMgmt
    <3>2. o \in Op \cup MgmtOp /\ o.id = Head(stdin).id
      BY <1>1, <1>2, <2>1 DEF MgmtOp
    <3> HIDE DEF o
    <3>3. PICK p \in Op \cup MgmtOp : p = o
      BY <3>2
    <3>4. /\ 0 \in Place /\ Queue(0)' = Append(Queue(0), p)
          /\ \A w \in Place : w # 0 => Queue(w)' = Queue(w)
      BY <2>1, <3>1, <3>3 DEF Place, Queue
    <3>5. QED BY <3>1, <3>2, <3>3, <3>4, OnceQueued
  <2>4. QED BY <2>2, <2>3
<1>15. QED
  BY <1>1, <1>6, <1>7, <1>8, <1>9, <1>10, <1>11, <1>12, <1>13, <1>14 DEF Dispatch

\* the head of a bearer's queue is answered, with one line, and goes
LEMMA OnceSettle ==
  ASSUME TypeOK, Once, UNCHANGED <<stdin, ncmd, mgmt_q>>,
         NEW b \in Chan, ops[b] # <<>>, Settle(b, Tail(ops[b])),
         NEW l \in Line, l.re = Head(ops[b]).id, Say(<<l>>)
  PROVE  Once'
<1>1. \A x \in Chan : ops'[x] = (IF x = b THEN Tail(ops[x]) ELSE ops[x])
                      \/ ops'[x] = <<>>
  <2>1. ops' = [ops EXCEPT ![b] = <<>>] \/ ops' = [ops EXCEPT ![b] = Tail(ops[b])]
    BY DEF Settle
  <2>2. QED BY <2>1 DEF TypeOK, HelperTypeOK
<1>2. /\ QueuesShrink
      /\ Head(ops[b]).id \in Ids(ops[b]) /\ Head(ops[b]).id \notin Ids(ops'[b])
  BY <1>1, QueuesSettle
<1>3. PICK v \in Place : v = b /\ v # 0
  BY DEF Place, Chan
<1>4. Queue(v) = ops[b] /\ Queue(v)' = ops'[b]
  BY <1>3 DEF Queue
<1>5. Ids(Queue(v)) = Ids(ops[b]) /\ Ids(Queue(v))' = Ids(ops'[b])
  BY <1>4 DEF Ids
<1>6. l.re \in Ids(Queue(v)) /\ l.re \notin Ids(Queue(v))'
  BY <1>2, <1>5
<1>7. QED BY <1>2, <1>6, OnceAnswer

\* a request is put back for a further part of its answer
LEMMA OnceContinue ==
  ASSUME TypeOK, Once, UNCHANGED <<stdin, ncmd, stdout>>,
         NEW b \in Chan, AttContinue(b)
  PROVE  Once'
<1> DEFINE o == [Head(ops[b]) EXCEPT !.part = TRUE]
<1>1. /\ ops[b] # <<>> /\ ops[b] \in Seq(Op) /\ UNCHANGED mgmt_q
      /\ ops' = [ops EXCEPT ![b] = Append(Tail(ops[b]), o)]
  BY DEF AttContinue, mgmt, TypeOK, HelperTypeOK
<1>2. Head(ops[b]) \in Op /\ o \in Op /\ o.id = Head(ops[b]).id
  <2>1. Head(ops[b]) \in Op
    BY <1>1
  <2>2. QED BY <2>1 DEF Op
<1>3. Distinct(ops[b])
  <2>1. b \in Place /\ b # 0
    BY DEF Place, Chan
  <2>2. Queue(b) = ops[b] /\ Distinct(Queue(b))
    BY <2>1 DEF Queue, Once, HeldOnce
  <2>3. QED BY <2>2
<1> HIDE DEF o
<1>4. /\ Ids(Append(Tail(ops[b]), o)) = Ids(ops[b])
      /\ Distinct(Append(Tail(ops[b]), o))
  BY <1>1, <1>2, <1>3, IdsRotate
<1>5. QueuesShrink
  <2>1. SUFFICES ASSUME NEW w \in Place
                 PROVE  Distinct(Queue(w))' /\ Ids(Queue(w))' \subseteq Ids(Queue(w))
    BY DEF QueuesShrink
  <2>2. CASE w = b
    <3>1. Queue(w)' = Append(Tail(ops[b]), o) /\ Queue(w) = ops[b]
      BY <1>1, <2>2 DEF Queue, Chan, TypeOK, HelperTypeOK
    <3>2. /\ Distinct(Queue(w))' = Distinct(Append(Tail(ops[b]), o))
          /\ Ids(Queue(w))' = Ids(Append(Tail(ops[b]), o))
          /\ Ids(Queue(w)) = Ids(ops[b])
      BY <3>1 DEF Distinct, Ids
    <3>3. QED BY <1>4, <3>2
  <2>3. CASE w # b
    <3>1. Queue(w)' = Queue(w)
      BY <1>1, <2>3 DEF Queue, Place, TypeOK, HelperTypeOK
    <3>2. Distinct(Queue(w))' = Distinct(Queue(w)) /\ Ids(Queue(w))' = Ids(Queue(w))
      BY <3>1 DEF Distinct, Ids
    <3>3. QED BY <3>2 DEF Once, HeldOnce
  <2>4. QED BY <2>2, <2>3
<1>6. QED BY <1>5, OnceQuiet

\* a line that is not an answer, or numbered 0
LEMMA NoAnswer ==
  ASSUME NEW l \in Line, l.re = 0 \/ l.rsp \in {"stat", "ntfy", "ind", "scan"}
  PROVE  ~IsAnswer(l)
BY DEF IsAnswer, Answer

LEMMA OnceStat ==
  ASSUME TypeOK, Once, UNCHANGED <<stdin, ncmd, ops, mgmt_q>>,
         NEW s \in ConnState, NEW d \in Addr \cup {NoAddr}, NEW m \in Nat,
         NEW re \in Nat, Say(<<Stat(s, d, m, re)>>)
  PROVE  Once'
<1> DEFINE l == Stat(s, d, m, re)
<1>1. l \in Line
  BY StatType
<1>2. l.rsp = "stat"
  BY LineKinds
<1>3. Say(<<l>>)
  OBVIOUS
<1> HIDE DEF l
<1>4. ~IsAnswer(l) /\ QueuesShrink
  BY <1>1, <1>2, NoAnswer, QueuesStay
<1>5. QED BY <1>1, <1>3, <1>4, OnceLine

LEMMA OnceConnectErr ==
  ASSUME TypeOK, Once, UNCHANGED <<stdin, ncmd>>, NEW c \in Chan, ConnectCbErr(c)
  PROVE  Once'
<1> DEFINE l == Stat("disc", NoAddr, opt_mtu, 0)
           k == Err("connfail", 0)
           lines == <<l, k>>
<1>1. QueuesShrink /\ Say(lines)
  BY QueuesStay DEF ConnectCbErr, mgmt, ConnectErrLines
<1>2. l \in Line /\ k \in Line
  BY StatType, ErrType DEF ConnState, ErrCode, TypeOK, HelperTypeOK
<1>3. l.rsp = "stat" /\ k.re = 0
  BY LineKinds
<1> HIDE DEF l, k
<1>4. ~IsAnswer(l) /\ ~IsAnswer(k)
  BY <1>2, <1>3, NoAnswer
<1>5. lines \in Seq(Line) /\ \A j \in DOMAIN lines : lines[j] = l \/ lines[j] = k
  BY <1>2, TwoLines
<1> HIDE DEF lines
<1>6. AnswersIn(lines, {})
  BY <1>4, <1>5 DEF AnswersIn
<1>7. \E v \in Place : {} \subseteq Ids(Queue(v)) /\ {} \cap Ids(Queue(v))' = {}
  BY DEF Place
<1>8. QED BY <1>1, <1>5, <1>6, <1>7, OnceCallback

LEMMA OnceMtuResult ==
  ASSUME TypeOK, Once, UNCHANGED <<stdin, ncmd>>,
         NEW b \in Chan, NEW m \in Mtus, MtuResult(b, m)
  PROVE  Once'
<1> DEFINE mtu == IF m < opt_mtu THEN m ELSE opt_mtu
           o == Head(ops[b])
           l == Stat(conn_state, opt_dst, mtu, o.id)
           k == Err("callfail", o.id)
<1>1. /\ ops[b] # <<>> /\ Settle(b, Tail(ops[b])) /\ UNCHANGED mgmt_q
      /\ Say(<<l>>) \/ Say(<<k>>)
  BY DEF MtuResult, mgmt
<1>2. mtu \in Nat /\ o.id \in Nat
  <2>1. m \in Nat /\ opt_mtu \in Nat
    BY HelperAssumption DEF TypeOK, HelperTypeOK
  <2>2. o \in Op
    BY <1>1 DEF TypeOK, HelperTypeOK
  <2>3. QED BY <2>1, <2>2 DEF Op
<1> HIDE DEF mtu
<1>3. l \in Line /\ k \in Line
  BY <1>2, StatType, ErrType DEF ErrCode, TypeOK, HelperTypeOK
<1>4. l.re = o.id /\ k.re = o.id
  BY LineKinds
<1> HIDE DEF l, k
<1>5. QED BY <1>1, <1>3, <1>4, OnceSettle

LEMMA OncePeerMtu ==
  ASSUME TypeOK, Once, UNCHANGED <<stdin, ncmd>>,
         NEW b \in Chan, NEW m \in Mtus, PeerMtuReq(b, m)
  PROVE  Once'
<1>1. /\ UNCHANGED <<ops, mgmt_q>>
      /\ UNCHANGED stdout \/ Say(<<Stat(conn_state, opt_dst, m, 0)>>)
  BY DEF PeerMtuReq, chans, mgmt
<1>2. m \in Nat /\ conn_state \in ConnState /\ opt_dst \in Addr \cup {NoAddr}
  BY HelperAssumption DEF TypeOK, HelperTypeOK
<1>3. QED BY <1>1, <1>2, OnceStat, OnceQuiet, QueuesStay

\* the head of the management queue is completed
LEMMA OnceMgmt ==
  ASSUME TypeOK, Once, UNCHANGED <<stdin, ncmd>>, MgmtComplete
  PROVE  Once'
<1> DEFINE o == Head(mgmt_q)
<1>1. /\ mgmt_q # <<>> /\ mgmt_q' = Tail(mgmt_q) /\ UNCHANGED ops
      /\ \/ Say(<<Mgmt("busy", o.id)>>) \/ Say(<<Mgmt("mgmterr", o.id)>>)
         \/ Say(<<Data("oob", NoAddr, o.id)>>) \/ UNCHANGED stdout
         \/ Say(<<Mgmt("success", o.id)>>)
  BY DEF MgmtComplete, chans
<1>2. mgmt_q \in Seq(MgmtOp)
  BY DEF TypeOK, HelperTypeOK
<1>3. o \in MgmtOp /\ o.id \in Nat
  <2>1. o \in MgmtOp
    BY <1>1, <1>2
  <2>2. QED BY <2>1 DEF MgmtOp
<1>4. PICK v \in Place : v = 0
  BY DEF Place
<1>5. Queue(v) = mgmt_q /\ Queue(v)' = Tail(mgmt_q)
  BY <1>1, <1>4 DEF Queue
<1>6. /\ Ids(Queue(v)) = Ids(mgmt_q) /\ Ids(Queue(v))' = Ids(Tail(mgmt_q))
      /\ Distinct(mgmt_q) /\ Distinct(Queue(v))' = Distinct(Tail(mgmt_q))
  BY <1>5 DEF Ids, Distinct, Once, HeldOnce
<1>7. /\ o.id \in Ids(mgmt_q) /\ Ids(Tail(mgmt_q)) = Ids(mgmt_q) \ {o.id}
      /\ Distinct(Tail(mgmt_q))
  BY <1>1, <1>2, <1>6, IdsTail
<1>8. QueuesShrink
  <2>1. SUFFICES ASSUME NEW w \in Place
                 PROVE  Distinct(Queue(w))' /\ Ids(Queue(w))' \subseteq Ids(Queue(w))
    BY DEF QueuesShrink
  <2>2. CASE w = v
    BY <1>6, <1>7, <2>2
  <2>3. CASE w # v
    <3>1. Queue(w)' = Queue(w)
      BY <1>1, <1>4, <2>3 DEF Queue
    <3>2. Distinct(Queue(w))' = Distinct(Queue(w)) /\ Ids(Queue(w))' = Ids(Queue(w))
      BY <3>1 DEF Distinct, Ids
    <3>3. QED BY <3>2 DEF Once, HeldOnce
  <2>4. QED BY <2>2, <2>3
<1>9. o.id \in Ids(Queue(v)) /\ o.id \notin Ids(Queue(v))'
  BY <1>6, <1>7
<1>10. /\ Mgmt("busy", o.id) \in Line /\ Mgmt("mgmterr", o.id) \in Line
       /\ Mgmt("success", o.id) \in Line /\ Data("oob", NoAddr, o.id) \in Line
  BY <1>3, MgmtType, DataType DEF ErrCode, RspType
<1>11. /\ Mgmt("busy", o.id).re = o.id /\ Mgmt("mgmterr", o.id).re = o.id
       /\ Mgmt("success", o.id).re = o.id /\ Data("oob", NoAddr, o.id).re = o.id
  BY LineKinds
<1>12. ASSUME NEW l \in Line, l.re = o.id, Say(<<l>>) PROVE Once'
  BY <1>8, <1>9, <1>12, OnceAnswer
<1>13. CASE UNCHANGED stdout
  BY <1>8, <1>13, OnceQuiet
<1>14. QED BY <1>1, <1>10, <1>11, <1>12, <1>13

LEMMA CallbackOnce ==
  ASSUME TypeOK, Once, UNCHANGED <<stdin, ncmd>>, Callback
  PROVE  Once'
<1>1. UNCHANGED <<ops, mgmt_q>> => QueuesShrink
  BY QueuesStay
<1>2. opt_dst \in Addr \cup {NoAddr} /\ opt_mtu \in Nat /\ conn_state \in ConnState
  BY DEF TypeOK, HelperTypeOK
<1>3. ASSUME NEW c \in Chan, ConnectCbOk(c) PROVE Once'
  <2>1. UNCHANGED <<ops, mgmt_q>> /\ Say(<<Stat("conn", opt_dst, opt_mtu, 0)>>)
    BY <1>3 DEF ConnectCbOk, mgmt
  <2>2. QED BY <1>2, <2>1, OnceStat DEF ConnState
<1>4. ASSUME NEW c \in Chan, ChannelWatcher(c) PROVE Once'
  <2>1. UNCHANGED mgmt_q
    BY <1>4 DEF ChannelWatcher, mgmt
  <2>2. CASE DisconnectIo(0)
    <3>1. /\ QueuesShrink
          /\ \/ UNCHANGED stdout
             \/ \E l \in Line : Say(<<l>>) /\ ~IsAnswer(l)
      BY <2>1, <2>2, DisconnectIoQueues
    <3>2. QED BY <3>1, OnceLine, OnceQuiet
  <2>3. CASE UNCHANGED <<conn, chans, stdout>>
    BY <1>1, <2>1, <2>3, OnceQuiet DEF chans
  <2>4. QED BY <1>4, <2>2, <2>3 DEF ChannelWatcher
<1>5. ASSUME NEW c \in Chan, LinkLoss(c) PROVE Once'
  BY <1>1, <1>5, OnceQuiet DEF LinkLoss, mgmt
<1>6. ASSUME NEW b \in Chan, AttResult(b) PROVE Once'
  <2> DEFINE o == Head(ops[b])
             l == Data(ResultType(o.verb), peer[over[b]], o.id)
  <2>1. /\ ops[b] # <<>> /\ Live(b) /\ o.verb # "mtu" /\ Say(<<l>>)
        /\ Settle(b, Tail(ops[b])) /\ UNCHANGED mgmt_q
    BY <1>6 DEF AttResult, mgmt
  <2>2. peer[over[b]] \in Addr \cup {NoAddr} /\ o.id \in Nat /\ o.verb \in GattVerbs
    BY <2>1, HeadType DEF TypeOK
  <2>3. l \in Line
    BY <2>2, DataType, ResultTypeType
  <2>4. l.re = o.id
    BY LineKinds
  <2> HIDE DEF l
  <2>5. QED BY <2>1, <2>3, <2>4, OnceSettle
<1>7. ASSUME NEW b \in Chan, AttError(b) PROVE Once'
  <2> DEFINE o == Head(ops[b])
             l == Failed(o, peer[over[b]])
  <2>1. /\ ops[b] # <<>> /\ Live(b) /\ Say(<<l>>)
        /\ Settle(b, Tail(ops[b])) /\ UNCHANGED mgmt_q
    BY <1>7 DEF AttError, mgmt
  <2>2. peer[over[b]] \in Addr \cup {NoAddr} /\ o \in Op
    BY <2>1, HeadType DEF TypeOK
  <2>3. l \in Line /\ l.re = o.id
    BY <2>2, FailedKind
  <2> HIDE DEF l
  <2>4. QED BY <2>1, <2>3, OnceSettle
<1>8. ASSUME NEW b \in Chan, AttContinue(b) PROVE Once'
  BY <1>8, OnceContinue DEF AttContinue
<1>9. ASSUME NEW b \in Chan, AttTimeout(b) PROVE Once'
  <2>1. ops[b] # <<>> /\ UNCHANGED <<mgmt_q, stdout>>
    BY <1>9 DEF AttTimeout, mgmt
  <2>2. ops' = [ops EXCEPT ![b] = <<>>] \/ ops' = [ops EXCEPT ![b] = Tail(ops[b])]
    BY <1>9 DEF AttTimeout, Settle
  <2>3. \A x \in Chan : ops'[x] = (IF x = b THEN Tail(ops[x]) ELSE ops[x])
                        \/ ops'[x] = <<>>
    BY <2>2 DEF TypeOK, HelperTypeOK
  <2>4. QED BY <2>1, <2>3, QueuesSettle, OnceQuiet
<1>10. ASSUME NEW b \in Chan, NEW kind \in {"ntfy", "ind"}, Notification(b, kind)
       PROVE  Once'
  <2> DEFINE l == Data(kind, peer[over[b]], 0)
  <2>1. QueuesShrink /\ Say(<<l>>) /\ Live(b)
    BY <1>1, <1>10 DEF Notification, chans, mgmt
  <2>2. over[b] \in Chan /\ peer[over[b]] \in Addr \cup {NoAddr}
    BY <2>1, HelperAssumption DEF Live, TypeOK, HelperTypeOK, Chan
  <2>3. l \in Line
    BY <2>2, DataType DEF RspType
  <2>4. l.re = 0
    BY LineKinds
  <2> HIDE DEF l
  <2>5. QED BY <2>1, <2>3, <2>4, NoAnswer, OnceLine
<1>11. ASSUME NEW b \in Chan, NEW m \in Mtus, MtuResult(b, m) PROVE Once'
  BY <1>11, OnceMtuResult
<1>12. ASSUME NEW b \in Chan, NEW m \in Mtus, PeerMtuReq(b, m) PROVE Once'
  BY <1>12, OncePeerMtu
<1>13. ASSUME NEW on \in BOOLEAN, MgmtScanning(on) PROVE Once'
  <2>1. /\ UNCHANGED <<ops, mgmt_q>> /\ Say(<<Stat(conn_state', opt_dst, opt_mtu, 0)>>)
        /\ conn_state' = IF on THEN "scan" ELSE "disc"
    BY <1>13 DEF MgmtScanning, chans, mgmt
  <2>2. PICK s \in ConnState : s = conn_state'
    BY <2>1 DEF ConnState
  <2>3. Say(<<Stat(s, opt_dst, opt_mtu, 0)>>)
    BY <2>1, <2>2
  <2>4. QED BY <1>2, <2>1, <2>3, OnceStat
<1>14. CASE MgmtDeviceFound
  <2> DEFINE l == Data("scan", NoAddr, 0)
  <2>1. QueuesShrink /\ Say(<<l>>)
    BY <1>1, <1>14 DEF MgmtDeviceFound, chans, mgmt
  <2>2. l \in Line
    BY DataType DEF RspType
  <2>3. l.re = 0
    BY LineKinds
  <2> HIDE DEF l
  <2>4. QED BY <2>1, <2>2, <2>3, NoAnswer, OnceLine
<1>15. ASSUME NEW c \in Chan, ConnectCbErr(c) PROVE Once'
  BY <1>15, OnceConnectErr
<1>16. CASE MgmtComplete
  BY <1>16, OnceMgmt
<1>17. QED
  BY <1>3, <1>4, <1>5, <1>6, <1>7, <1>8, <1>9, <1>10, <1>11, <1>12, <1>13, <1>14,
     <1>15, <1>16 DEF Callback

\* the requests of a socket that hung up are answered, each once
LEMMA FlushOnce ==
  ASSUME TypeOK, Once, UNCHANGED <<stdin, ncmd>>, NEW b \in Chan, FlushBearer(b)
  PROVE  Once'
<1>1. PICK q \in {ops[b], Append(Tail(ops[b]), Head(ops[b]))} :
        /\ q \in Seq(Op) /\ over[b] \in Chan
        /\ \E n \in 1 .. Len(q) :
             /\ n = Len(q) \/ Gone
             /\ [i \in 1 .. n |-> Failed(q[i], peer[over[b]])] \in Seq(Line)
             /\ Say([i \in 1 .. n |-> Failed(q[i], peer[over[b]])])
  BY FlushLines
<1>2. PICK n \in 1 .. Len(q) :
        /\ n = Len(q) \/ Gone
        /\ [i \in 1 .. n |-> Failed(q[i], peer[over[b]])] \in Seq(Line)
        /\ Say([i \in 1 .. n |-> Failed(q[i], peer[over[b]])])
  BY <1>1
<1> DEFINE lines == [i \in 1 .. n |-> Failed(q[i], peer[over[b]])]
<1>3. ops[b] \in Seq(Op) /\ ops[b] # <<>>
  BY DEF FlushBearer, TypeOK, HelperTypeOK
<1>4. PICK v \in Place : v = b /\ v # 0
  BY DEF Place, Chan
<1>5. Distinct(ops[b]) /\ Queue(v) = ops[b]
  <2>1. Queue(v) = ops[b]
    BY <1>4 DEF Queue
  <2>2. Distinct(Queue(v))
    BY DEF Once, HeldOnce
  <2>3. QED BY <2>1, <2>2
<1>6. Distinct(q) /\ Ids(q) = Ids(ops[b])
  <2>1. Head(ops[b]) \in Op /\ Head(ops[b]).id = Head(ops[b]).id
    BY <1>3
  <2>2. /\ Ids(Append(Tail(ops[b]), Head(ops[b]))) = Ids(ops[b])
        /\ Distinct(Append(Tail(ops[b]), Head(ops[b])))
    BY <1>3, <1>5, <2>1, IdsRotate
  <2>3. QED BY <1>5, <2>2
<1>7. 1 .. n \subseteq DOMAIN q /\ DOMAIN q = 1 .. Len(q) /\ DOMAIN lines = 1 .. n
  BY <1>1, <1>2
<1>8. \A i \in 1 .. n : lines[i].re = q[i].id
  <2>1. TAKE i \in 1 .. n
  <2>2. q[i] \in Op
    BY <1>1, <1>7
  <2>3. peer[over[b]] \in Addr \cup {NoAddr}
    BY <1>1 DEF TypeOK, HelperTypeOK
  <2>4. Failed(q[i], peer[over[b]]).re = q[i].id
    BY <2>2, <2>3, FailedKind
  <2>5. QED BY <2>4
<1>9. lines \in Seq(Line) /\ Say(lines)
  BY <1>2
<1> HIDE DEF lines
<1>10. AnswersIn(lines, Ids(ops[b]))
  <2>1. \A k \in DOMAIN lines : k \in DOMAIN q /\ lines[k].re = q[k].id
    BY <1>7, <1>8
  <2>2. \A k \in DOMAIN lines : lines[k].re \in Ids(ops[b])
    BY <1>6, <2>1 DEF Ids
  <2>3. \A j, k \in DOMAIN lines : lines[j].re = lines[k].re => j = k
    BY <1>6, <2>1 DEF Distinct
  <2>4. QED BY <2>2, <2>3 DEF AnswersIn
<1>11. /\ UNCHANGED mgmt_q \/ mgmt_q' = <<>>
       /\ \A x \in Chan : ops'[x] = ops[x] \/ ops'[x] = <<>>
       /\ ops'[b] = <<>>
  <2>1. CASE Gone
    BY <2>1 DEF Gone
  <2>2. CASE ~Gone
    <3>1. ops' = [ops EXCEPT ![b] = <<>>]
      BY <2>2, FlushBearerLink
    <3>2. UNCHANGED mgmt_q
      BY <2>2 DEF FlushBearer, mgmt
    <3>3. QED BY <3>1, <3>2 DEF TypeOK, HelperTypeOK
  <2>3. QED BY <2>1, <2>2
<1>12. QueuesShrink
  BY <1>11, QueuesEmptied
<1>13. Ids(Queue(v)) = Ids(ops[b]) /\ Ids(Queue(v))' = {}
  <2>1. Queue(v)' = <<>>
    BY <1>4, <1>11 DEF Queue
  <2>2. Ids(Queue(v))' = Ids(<<>>) /\ Ids(Queue(v)) = Ids(ops[b])
    BY <1>5, <2>1 DEF Ids
  <2>3. QED BY <2>2, IdsEmpty
<1>14. Ids(ops[b]) \subseteq Ids(Queue(v)) /\ Ids(ops[b]) \cap Ids(Queue(v))' = {}
  BY <1>13
<1>15. QED BY <1>9, <1>10, <1>12, <1>14, OnceCallback

\* a process that ends leaves nothing waiting
LEMMA GoneQueues ==
  ASSUME Once, Gone
  PROVE  QueuesShrink
BY QueuesEmptied DEF Gone

LEMMA HelperStepOnce ==
  ASSUME TypeOK, Once, HelperStep
  PROVE  Once'
<1>1. CASE PromptRead
  <2>1. /\ stdin # <<>> /\ stdin' = Tail(stdin) /\ UNCHANGED ncmd
        /\ Dispatch(Head(stdin)) \/ AddOobAborts(Head(stdin))
    BY <1>1 DEF PromptRead
  <2>2. CASE Dispatch(Head(stdin))
    BY <2>1, <2>2, DispatchOnce
  <2>3. CASE AddOobAborts(Head(stdin))
    BY <2>1, <2>3, GoneQueues, OnceReadQuiet DEF AddOobAborts
  <2>4. QED BY <2>1, <2>2, <2>3
<1>2. CASE PromptEof
  <2>1. UNCHANGED <<ops, mgmt_q, stdin, ncmd, stdout>>
    BY <1>2 DEF PromptEof, chans, mgmt, wire
  <2>2. QED BY <2>1, QueuesStay, OnceQuiet
<1>3. CASE Exit
  <2>1. QueuesShrink /\ UNCHANGED <<stdin, ncmd>>
    BY <1>3, GoneQueues DEF Exit
  <2>2. CASE UNCHANGED stdout
    BY <2>1, <2>2, OnceQuiet
  <2>3. CASE Say(<<Stat("disc", NoAddr, 0, 0)>>)
    <3> DEFINE l == Stat("disc", NoAddr, 0, 0)
    <3>1. l \in Line /\ Say(<<l>>)
      BY <2>3, StatType DEF ConnState
    <3>2. l.re = 0
      BY LineKinds
    <3> HIDE DEF l
    <3>3. QED BY <2>1, <3>1, <3>2, NoAnswer, OnceLine
  <2>4. QED BY <1>3, <2>2, <2>3 DEF Exit
<1>4. CASE Callback /\ UNCHANGED <<stdin, eof, proc, ncmd>>
  BY <1>4, CallbackOnce
<1>5. ASSUME NEW b \in Chan, FlushBearer(b), UNCHANGED <<stdin, eof, ncmd>>
      PROVE  Once'
  BY <1>5, FlushOnce
<1>6. QED BY <1>1, <1>2, <1>3, <1>4, <1>5 DEF HelperStep

\* The client numbers its commands as it writes them.
LEMMA ClientOnce ==
  ASSUME TypeOK, Once, Client
  PROVE  Once'
<1>1. UNCHANGED <<ops, mgmt_q, stdout>>
  BY DEF Client, Spawn, Boot, Send, Close, helper, chans, mgmt
<1>2. \/ UNCHANGED <<stdin, ncmd>>
      \/ \E c : c.id = ncmd + 1 /\ stdin' = Append(stdin, c) /\ ncmd' = ncmd + 1
  BY DEF Client, Spawn, Send, Close, Cmd
<1>3. /\ \A w \in Place : Queue(w)' = Queue(w)
      /\ Said' = Said /\ AnsweredOnce' = AnsweredOnce
  BY <1>1 DEF Queue, Said, AnsweredOnce
<1>4. \A w \in Place : Distinct(Queue(w))' = Distinct(Queue(w)) /\ Ids(Queue(w))' = Ids(Queue(w))
  BY <1>3 DEF Distinct, Ids
<1>5. InOrder' /\ Read' = Read
  <2>1. CASE UNCHANGED <<stdin, ncmd>>
    BY <2>1 DEF Once, InOrder, Read
  <2>2. CASE \E c : c.id = ncmd + 1 /\ stdin' = Append(stdin, c) /\ ncmd' = ncmd + 1
    <3>1. PICK c : c.id = ncmd + 1 /\ stdin' = Append(stdin, c) /\ ncmd' = ncmd + 1
      BY <2>2
    <3> DEFINE n == Len(stdin)
    <3>2. ncmd \in Nat /\ n \in Nat /\ n <= ncmd /\ DOMAIN stdin = 1 .. n
      BY DEF TypeOK, WireTypeOK, Once, InOrder
    <3>3. stdin \in Seq(Command)
      BY DEF TypeOK, WireTypeOK
    <3>4. Len(stdin') = n + 1
      BY <3>1, <3>3
    <3>5. /\ DOMAIN stdin' = 1 .. (n + 1)
          /\ stdin'[n + 1] = c /\ \A i \in 1 .. n : stdin'[i] = stdin[i]
      BY <3>1, <3>3
    <3>6. Read = ncmd - n /\ Read' = (ncmd + 1) - (n + 1)
      BY <3>1, <3>4 DEF Read
    <3>7. \A i \in 1 .. n : stdin[i].id = Read + i
      BY <3>2 DEF Once, InOrder
    <3> HIDE DEF n
    <3>8. Read' = Read /\ Len(stdin') <= ncmd'
      BY <3>1, <3>2, <3>4, <3>6
    <3>9. c.id = Read + (n + 1)
      BY <3>1, <3>2, <3>6
    <3>10. \A i \in 1 .. (n + 1) : stdin'[i].id = Read + i
      <4>1. TAKE i \in 1 .. (n + 1)
      <4>2. i \in 1 .. n \/ i = n + 1
        BY <3>2
      <4>3. QED BY <3>5, <3>7, <3>9, <4>2
    <3>11. QED BY <3>5, <3>8, <3>10 DEF InOrder
  <2>3. QED BY <1>2, <2>1, <2>2
<1>6. HeldOnce'
  BY <1>3, <1>4, <1>5 DEF Once, HeldOnce
<1>7. QED BY <1>3, <1>5, <1>6 DEF Once

LEMMA InitOnce == OpenInit => Once
<1>1. SUFFICES ASSUME OpenInit PROVE Once
  OBVIOUS
<1>2. /\ stdin = <<>> /\ stdout = <<>> /\ ncmd = 0 /\ mgmt_q = <<>>
      /\ \A b \in Chan : ops[b] = <<>>
  BY <1>1 DEF OpenInit, WireInit, Init
<1>3. InOrder
  BY <1>2 DEF InOrder
<1>4. \A w \in Place : Queue(w) = <<>>
  BY <1>2 DEF Queue, Place
<1>5. \A w \in Place : Distinct(Queue(w)) /\ Ids(Queue(w)) = {}
  BY <1>4, IdsEmpty
<1>6. Said = {} /\ AnsweredOnce
  BY <1>2 DEF Said, AnsweredOnce
<1>7. QED BY <1>3, <1>5, <1>6 DEF Once, HeldOnce

\* A command is answered once at most, in whatever order responses, errors,
\* time-outs and hang-ups come: it waits in one place at a time, and leaves it
\* with its answer.
THEOREM AnsweredOnceAlways == Spec => []AnsweredOnce
<1>1. TypeOK /\ Once /\ [Next]_vars => Once'
  <2>1. SUFFICES ASSUME TypeOK, Once, [Next]_vars PROVE Once'
    OBVIOUS
  <2>2. CASE Client
    BY <2>1, <2>2, ClientOnce
  <2>3. CASE HelperStep
    BY <2>1, <2>3, HelperStepOnce
  <2>4. CASE UNCHANGED vars
    <3>1. UNCHANGED <<ops, mgmt_q, stdin, ncmd, stdout>>
      BY <2>4 DEF vars, wire, helper, chans, mgmt
    <3>2. QED BY <2>1, <3>1, QueuesStay, OnceQuiet
  <2>5. QED BY <2>1, <2>2, <2>3, <2>4 DEF Next
<1>2. Once => AnsweredOnce
  BY DEF Once
<1>3. QED BY <1>1, <1>2, InitOnce, TypeCorrect, PTL DEF Spec

-----------------------------------------------------------------------------
(* Nothing vanishes.                                                        *)

\* what may accompany the end of a request
Sign(id) ==
  \/ \E l \in Printed : l.re = id
  \/ \E l \in Printed : l.rsp = "stat" /\ l.tag = "disc"
  \/ \E c \in Chan : link[c] = "up" /\ link'[c] # "up"
  \/ proc' = "exited"

LEMMA SayPrinted ==
  ASSUME TypeOK, NEW lines \in Seq(Line), Say(lines)
  PROVE  \A k \in DOMAIN lines : \E l \in Printed : l = lines[k]
<1>1. stdout \in Seq(Line)
  BY DEF TypeOK, WireTypeOK
<1> DEFINE n == Len(stdout)
<1>2. /\ n \in Nat
      /\ \A j \in DOMAIN stdout : j \in Nat /\ j <= n
      /\ \A k \in DOMAIN lines : /\ k \in Nat /\ k >= 1 /\ n + k \in DOMAIN stdout'
                                 /\ stdout'[n + k] = lines[k]
  BY <1>1, SayLines
<1> HIDE DEF n
<1>3. \A k \in DOMAIN lines : n + k \in DOMAIN stdout' \ DOMAIN stdout
  <2>1. \A k \in DOMAIN lines : ~(n + k <= n)
    BY <1>2
  <2>2. QED BY <1>2, <2>1
<1>4. QED BY <1>2, <1>3 DEF Printed

LEMMA SayOnePrinted ==
  ASSUME TypeOK, NEW l \in Line, Say(<<l>>)
  PROVE  l \in Printed
<1>1. <<l>> \in Seq(Line) /\ DOMAIN <<l>> = {1} /\ <<l>>[1] = l
  BY OneLine
<1>2. \E k \in Printed : k = <<l>>[1]
  BY <1>1, SayPrinted
<1>3. QED BY <1>1, <1>2

\* the requests of the bearers, and those not read yet
Unread(x) == \E i \in DOMAIN stdin : stdin[i].verb \in GattVerbs /\ stdin[i].id = x

LEMMA WaitingIs ==
  \A x : x \in Waiting <=> Unread(x) \/ \E b \in Chan : x \in Ids(ops[b])
<1>1. ASSUME NEW x, x \in Waiting
      PROVE  Unread(x) \/ \E b \in Chan : x \in Ids(ops[b])
  <2>1. CASE \E o \in UNION {ToSet(ops[b]) : b \in Chan} : x = o.id
    BY <2>1 DEF ToSet, Ids
  <2>2. CASE \E c \in {d \in ToSet(stdin) : d.verb \in GattVerbs} : x = c.id
    BY <2>2 DEF ToSet, Unread
  <2>3. QED BY <1>1, <2>1, <2>2 DEF Waiting
<1>2. ASSUME NEW x, Unread(x) PROVE x \in Waiting
  <2>1. PICK i \in DOMAIN stdin : stdin[i].verb \in GattVerbs /\ stdin[i].id = x
    BY <1>2 DEF Unread
  <2>2. stdin[i] \in {d \in ToSet(stdin) : d.verb \in GattVerbs}
    BY <2>1 DEF ToSet
  <2>3. QED BY <2>1, <2>2 DEF Waiting
<1>3. ASSUME NEW x, NEW b \in Chan, x \in Ids(ops[b]) PROVE x \in Waiting
  <2>1. PICK i \in DOMAIN ops[b] : x = ops[b][i].id
    BY <1>3 DEF Ids
  <2>2. ops[b][i] \in UNION {ToSet(ops[y]) : y \in Chan}
    BY <2>1 DEF ToSet
  <2>3. QED BY <2>1, <2>2 DEF Waiting
<1>4. QED BY <1>1, <1>2, <1>3

LEMMA WaitingIsNext ==
  \A x : x \in Waiting' <=> Unread(x)' \/ \E b \in Chan : x \in Ids(ops'[b])
<1>1. (\A x : x \in Waiting <=> Unread(x) \/ \E b \in Chan : x \in Ids(ops[b]))'
  BY WaitingIs, PTL
<1>2. \A b \in Chan : Ids(ops'[b]) = Ids(ops[b])'
  BY DEF Ids
<1>3. QED BY <1>1, <1>2

\* what leaves a queue with its head is the head's number
LEMMA HeadGoes ==
  ASSUME NEW S, NEW q \in Seq(S), q # <<>>, NEW x \in Ids(q), x # Head(q).id
  PROVE  x \in Ids(Tail(q))
<1>1. PICK i \in DOMAIN q : x = q[i].id
  BY DEF Ids
<1> DEFINE p == Tail(q)
<1>2. i \in Nat /\ i # 1 /\ i - 1 \in DOMAIN p /\ p[i - 1] = q[i]
  BY <1>1
<1> HIDE DEF p
<1>3. x \in Ids(p)
  BY <1>1, <1>2 DEF Ids
<1>4. QED BY <1>3 DEF p

LEMMA AppendKeeps ==
  ASSUME NEW S, NEW q \in Seq(S), NEW o
  PROVE  /\ o.id \in Ids(Append(q, o))
         /\ Ids(q) \subseteq Ids(Append(q, o))
<1> DEFINE n == Len(q)
           p == Append(q, o)
<1>1. /\ n \in Nat /\ DOMAIN q = 1 .. n /\ DOMAIN p = 1 .. (n + 1)
      /\ p[n + 1] = o /\ \A i \in 1 .. n : p[i] = q[i]
  OBVIOUS
<1> HIDE DEF n, p
<1>2. n + 1 \in DOMAIN p /\ \A i \in DOMAIN q : i \in DOMAIN p /\ p[i] = q[i]
  BY <1>1
<1>3. o.id \in Ids(p) /\ Ids(q) \subseteq Ids(p)
  BY <1>1, <1>2 DEF Ids
<1>4. QED BY <1>3 DEF p

\* the queue with its head moved to the end holds the same numbers
LEMMA RotateKeeps ==
  ASSUME NEW S, NEW q \in Seq(S), q # <<>>, NEW o, o.id = Head(q).id
  PROVE  Ids(q) \subseteq Ids(Append(Tail(q), o))
<1> DEFINE p == Tail(q)
<1>1. p \in Seq(S)
  OBVIOUS
<1>2. \A x \in Ids(q) : x = Head(q).id \/ x \in Ids(p)
  BY HeadGoes
<1> HIDE DEF p
<1>3. o.id \in Ids(Append(p, o)) /\ Ids(p) \subseteq Ids(Append(p, o))
  BY <1>1, AppendKeeps
<1>4. Ids(q) \subseteq Ids(Append(p, o))
  BY <1>2, <1>3
<1>5. QED BY <1>4 DEF p

\* what was not read stays unread, but for the head
LEMMA UnreadTail ==
  ASSUME TypeOK, stdin # <<>>, stdin' = Tail(stdin), NEW x, Unread(x)
  PROVE  \/ Unread(x)'
         \/ Head(stdin).id = x /\ Head(stdin).verb \in GattVerbs
<1>1. PICK i \in DOMAIN stdin : stdin[i].verb \in GattVerbs /\ stdin[i].id = x
  BY DEF Unread
<1> DEFINE p == Tail(stdin)
<1>2. stdin \in Seq(Command)
  BY DEF TypeOK, WireTypeOK
<1>3. CASE i = 1
  BY <1>1, <1>2, <1>3
<1>4. CASE i # 1
  <2>1. i - 1 \in DOMAIN p /\ p[i - 1] = stdin[i]
    BY <1>1, <1>2, <1>4
  <2> HIDE DEF p
  <2>2. stdin' = p
    BY DEF p
  <2>3. QED BY <1>1, <2>1, <2>2 DEF Unread
<1>5. QED BY <1>3, <1>4

\* the end of a connection is announced
LEMMA DisconnectIoSign ==
  ASSUME TypeOK, NEW re \in Nat, DisconnectIo(re), NEW id
  PROVE  UNCHANGED ops \/ Sign(id)
<1>1. CASE Say(<<Stat("disc", NoAddr, 0, re)>>)
  <2> DEFINE l == Stat("disc", NoAddr, 0, re)
  <2>1. l \in Line /\ Say(<<l>>)
    BY <1>1, StatType DEF ConnState
  <2>2. l.rsp = "stat" /\ l.tag = "disc"
    BY LineKinds
  <2> HIDE DEF l
  <2>3. l \in Printed
    BY <2>1, SayOnePrinted
  <2>4. QED BY <2>2, <2>3 DEF Sign
<1>2. QED BY <1>1 DEF DisconnectIo, chans

\* a request is queued where there is a bearer
LEMMA QueueKeeps ==
  ASSUME TypeOK, NEW c,
         ops' = [b \in Chan |-> IF b = attrib THEN Append(ops[b], Req(c)) ELSE ops[b]]
  PROVE  /\ \A b \in Chan : Ids(ops[b]) \subseteq Ids(ops'[b])
         /\ attrib \in Chan => c.id \in Ids(ops'[attrib])
<1> DEFINE o == Req(c)
<1>1. o.id = c.id
  BY DEF Req
<1> HIDE DEF o
<1>2. \A b \in Chan : ops'[b] = IF b = attrib THEN Append(ops[b], o) ELSE ops[b]
  BY DEF o
<1>3. \A b \in Chan : ops[b] \in Seq(Op)
  BY DEF TypeOK, HelperTypeOK
<1>4. \A b \in Chan : /\ o.id \in Ids(Append(ops[b], o))
                      /\ Ids(ops[b]) \subseteq Ids(Append(ops[b], o))
  BY <1>3, AppendKeeps
<1>5. QED BY <1>1, <1>2, <1>4

\* every handler answers the GATT request it does not queue
LEMMA DispatchSign ==
  ASSUME ~Discovering, TypeOK, Sound, stdin # <<>>, stdin' = Tail(stdin),
         Dispatch(Head(stdin)), NEW id \in Waiting, id \notin Waiting'
  PROVE  Sign(id)
<1>1. PICK c \in Command : c = Head(stdin)
  <2>1. Head(stdin) \in Command
    BY DEF TypeOK, WireTypeOK
  <2>2. QED BY <2>1
<1>2. c.id \in Nat
  BY DEF Command
<1>3. ~Unread(id)' /\ \A b \in Chan : id \notin Ids(ops'[b])
  BY WaitingIsNext
<1>4. \/ c.id = id /\ c.verb \in GattVerbs
      \/ \E b \in Chan : id \in Ids(ops[b])
  BY <1>1, <1>3, WaitingIs, UnreadTail
<1>5. CASE CmdDisconnect(c)
  <2>1. c.verb \notin GattVerbs /\ DisconnectIo(c.id)
    BY <1>5 DEF CmdDisconnect, GattVerbs
  <2>2. UNCHANGED ops \/ Sign(id)
    BY <1>2, <2>1, DisconnectIoSign
  <2>3. QED BY <1>3, <1>4, <2>1, <2>2
<1>6. CASE CmdGatt(c)
  <2>1. CASE ops' = [b \in Chan |->
                        IF b = attrib THEN Append(ops[b], Req(c)) ELSE ops[b]]
             /\ conn_state = "conn"
    <3>1. attrib \in Chan
      BY <2>1 DEF Sound, Connected, TypeOK, HelperTypeOK, Chan
    <3>2. QED BY <1>3, <1>4, <2>1, <3>1, QueueKeeps
  <2>2. CASE UNCHANGED ops /\ \E code \in ErrCode : Say(<<Err(code, c.id)>>)
    <3>1. PICK code \in ErrCode : Say(<<Err(code, c.id)>>)
      BY <2>2
    <3>2. Err(code, c.id) \in Line
      BY <1>2, ErrType
    <3>3. Err(code, c.id).re = c.id
      BY LineKinds
    <3>4. c.id = id
      BY <1>3, <1>4, <2>2
    <3>5. QED BY <3>1, <3>2, <3>3, <3>4, SayOnePrinted DEF Sign
  <2>3. QED BY <1>6, <2>1, <2>2 DEF CmdGatt, ErrCode
<1>7. CASE CmdMtu(c)
  <2>1. c.verb \notin GattVerbs
    BY <1>7 DEF CmdMtu, GattVerbs
  <2>2. \/ UNCHANGED ops
        \/ ops' = [b \in Chan |-> IF b = attrib THEN Append(ops[b], Req(c)) ELSE ops[b]]
    BY <1>7 DEF CmdMtu
  <2>3. \A b \in Chan : Ids(ops[b]) \subseteq Ids(ops'[b])
    BY <2>2, QueueKeeps
  <2>4. QED BY <1>3, <1>4, <2>1, <2>3
<1>8. CASE \/ CmdStatus(c) \/ CmdExit(c) \/ CmdConnect(c) \/ CmdWrite(c)
           \/ CmdSecLevel(c) \/ CmdMgmt(c)
  <2>1. UNCHANGED ops
    BY <1>8 DEF CmdStatus, CmdExit, CmdConnect, CmdWrite, CmdSecLevel, CmdMgmt, chans
  <2>2. c.verb \notin GattVerbs
    BY <1>8 DEF CmdStatus, CmdExit, CmdConnect, CmdWrite, CmdSecLevel, CmdMgmt,
                GattVerbs, MgmtVerbs
  <2>3. QED BY <1>3, <1>4, <2>1, <2>2
<1>9. QED BY <1>1, <1>5, <1>6, <1>7, <1>8 DEF Dispatch

\* a request that ends on an open link ends with a line of its own
LEMMA SettleSign ==
  ASSUME ~Discovering, TypeOK, Sound, NEW b \in Chan, Live(b), ops[b] # <<>>,
         Settle(b, Tail(ops[b])), NEW l \in Line, l.re = Head(ops[b]).id, Say(<<l>>),
         NEW id, NEW x \in Chan, id \in Ids(ops[x]), id \notin Ids(ops'[x])
  PROVE  Sign(id)
<1>1. \A y \in Chan : ops'[y] = IF y = b THEN Tail(ops[b]) ELSE ops[y]
  BY SettleLive
<1>2. x = b
  BY <1>1
<1>3. ops[b] \in Seq(Op)
  BY DEF TypeOK, HelperTypeOK
<1>4. id = Head(ops[b]).id
  BY <1>1, <1>2, <1>3, HeadGoes
<1>5. l \in Printed
  BY SayOnePrinted
<1>6. QED BY <1>4, <1>5 DEF Sign

LEMMA CallbackSign ==
  ASSUME ~Discovering, TypeOK, Sound, Callback, UNCHANGED stdin,
         NEW id \in Waiting, id \notin Waiting'
  PROVE  Sign(id)
<1>1. Unread(id)' = Unread(id)
  BY DEF Unread
<1>2. ~Unread(id)' /\ \A b \in Chan : id \notin Ids(ops'[b])
  BY WaitingIsNext
<1>3. PICK x \in Chan : id \in Ids(ops[x]) /\ id \notin Ids(ops'[x])
  BY <1>1, <1>2, WaitingIs
<1>4. ~UNCHANGED ops /\ ops[x] \in Seq(Op)
  BY <1>3 DEF TypeOK, HelperTypeOK
<1>5. ASSUME NEW c \in Chan, ChannelWatcher(c) PROVE Sign(id)
  BY <1>4, <1>5, DisconnectIoSign DEF ChannelWatcher, chans
<1>6. ASSUME NEW b \in Chan, AttResult(b) PROVE Sign(id)
  <2> DEFINE o == Head(ops[b])
             l == Data(ResultType(o.verb), peer[over[b]], o.id)
  <2>1. /\ ops[b] # <<>> /\ Live(b) /\ o.verb # "mtu" /\ Say(<<l>>)
        /\ Settle(b, Tail(ops[b]))
    BY <1>6 DEF AttResult
  <2>2. peer[over[b]] \in Addr \cup {NoAddr} /\ o.id \in Nat /\ o.verb \in GattVerbs
    BY <2>1, HeadType DEF TypeOK
  <2>3. l \in Line
    BY <2>2, DataType, ResultTypeType
  <2>4. l.re = o.id
    BY LineKinds
  <2> HIDE DEF l
  <2>5. QED BY <1>3, <2>1, <2>3, <2>4, SettleSign
<1>7. ASSUME NEW b \in Chan, AttError(b) PROVE Sign(id)
  <2> DEFINE o == Head(ops[b])
             l == Failed(o, peer[over[b]])
  <2>1. /\ ops[b] # <<>> /\ Live(b) /\ Say(<<l>>) /\ Settle(b, Tail(ops[b]))
    BY <1>7 DEF AttError
  <2>2. peer[over[b]] \in Addr \cup {NoAddr} /\ o \in Op
    BY <2>1, HeadType DEF TypeOK
  <2>3. l \in Line /\ l.re = o.id
    BY <2>2, FailedKind
  <2> HIDE DEF l
  <2>4. QED BY <1>3, <2>1, <2>3, SettleSign
<1>8. ASSUME NEW b \in Chan, NEW m \in Mtus, MtuResult(b, m) PROVE Sign(id)
  <2> DEFINE mtu == IF m < opt_mtu THEN m ELSE opt_mtu
             o == Head(ops[b])
             l == Stat(conn_state, opt_dst, mtu, o.id)
             k == Err("callfail", o.id)
  <2>1. /\ ops[b] # <<>> /\ Live(b) /\ Settle(b, Tail(ops[b]))
        /\ Say(<<l>>) \/ Say(<<k>>)
    BY <1>8 DEF MtuResult
  <2>2. m \in Nat /\ opt_mtu \in Nat
    BY HelperAssumption DEF TypeOK, HelperTypeOK
  <2>3. mtu \in Nat
    BY <2>2
  <2>4. o.id \in Nat
    BY <2>1, HeadType DEF TypeOK
  <2> HIDE DEF mtu
  <2>5. l \in Line /\ k \in Line
    BY <2>3, <2>4, StatType, ErrType DEF ErrCode, TypeOK, HelperTypeOK
  <2>6. l.re = o.id /\ k.re = o.id
    BY LineKinds
  <2> HIDE DEF l, k
  <2>7. QED BY <1>3, <2>1, <2>5, <2>6, SettleSign
<1>9. ASSUME NEW b \in Chan, AttContinue(b) PROVE FALSE
  <2> DEFINE o == [Head(ops[b]) EXCEPT !.part = TRUE]
  <2>1. /\ ops[b] # <<>> /\ ops[b] \in Seq(Op)
        /\ \A y \in Chan : ops'[y] = IF y = b THEN Append(Tail(ops[b]), o) ELSE ops[y]
    BY <1>9 DEF AttContinue, TypeOK, HelperTypeOK
  <2>2. o.id = Head(ops[b]).id
    <3>1. Head(ops[b]) \in Op
      BY <2>1
    <3>2. QED BY <3>1 DEF Op
  <2> HIDE DEF o
  <2>3. Ids(ops[b]) \subseteq Ids(Append(Tail(ops[b]), o))
    BY <2>1, <2>2, RotateKeeps
  <2>4. QED BY <1>3, <2>1, <2>3
<1>10. ASSUME NEW b \in Chan, AttTimeout(b) PROVE Sign(id)
  <2>1. Live(b) /\ over[b] = b /\ link[b] = "up"
    BY <1>10, LiveIsCurrent DEF AttTimeout, Live, TypeOK
  <2>2. b \notin orphan
    BY <2>1 DEF Sound, OldBearers
  <2>3. link' = [link EXCEPT ![b] = "down"]
    BY <1>10, <2>1, <2>2 DEF AttTimeout, Shutdown
  <2>4. link'[b] # "up"
    BY <2>3 DEF TypeOK, HelperTypeOK
  <2>5. QED BY <2>1, <2>4 DEF Sign
<1>11. QED
  BY <1>4, <1>5, <1>6, <1>7, <1>8, <1>9, <1>10
  DEF Callback, ConnectCbOk, ConnectCbErr, LinkLoss, Notification, PeerMtuReq,
      MgmtComplete, MgmtScanning, MgmtDeviceFound, chans

\* whatever a bearer held when its socket hung up is answered as failed
LEMMA FlushSign ==
  ASSUME TypeOK, UNCHANGED stdin, NEW b \in Chan, FlushBearer(b),
         NEW id \in Waiting, id \notin Waiting'
  PROVE  Sign(id)
<1>1. CASE Gone
  BY <1>1 DEF Gone, Sign
<1>2. CASE ~Gone
  <2>1. PICK q \in {ops[b], Append(Tail(ops[b]), Head(ops[b]))} :
          /\ q \in Seq(Op) /\ over[b] \in Chan
          /\ \E n \in 1 .. Len(q) :
               /\ n = Len(q) \/ Gone
               /\ [i \in 1 .. n |-> Failed(q[i], peer[over[b]])] \in Seq(Line)
               /\ Say([i \in 1 .. n |-> Failed(q[i], peer[over[b]])])
    BY FlushLines
  <2> DEFINE n == Len(q)
             lines == [i \in 1 .. n |-> Failed(q[i], peer[over[b]])]
  <2>2. lines \in Seq(Line) /\ Say(lines) /\ DOMAIN lines = 1 .. n /\ DOMAIN q = 1 .. n
    BY <1>2, <2>1
  <2>3. ops[b] \in Seq(Op) /\ ops[b] # <<>>
    BY DEF FlushBearer, TypeOK, HelperTypeOK
  <2>4. Ids(ops[b]) \subseteq Ids(q)
    BY <2>3, RotateKeeps
  <2>5. Unread(id)' = Unread(id)
    BY DEF Unread
  <2>6. PICK x \in Chan : id \in Ids(ops[x]) /\ id \notin Ids(ops'[x])
    BY <2>5, WaitingIs, WaitingIsNext
  <2>7. x = b
    <3>1. \A y \in Chan : y # b => ops'[y] = ops[y]
      BY <1>2, FlushBearerLink DEF TypeOK, HelperTypeOK
    <3>2. QED BY <2>6, <3>1
  <2>8. PICK i \in DOMAIN q : id = q[i].id
    <3>1. id \in Ids(q)
      BY <2>4, <2>6, <2>7
    <3>2. QED BY <3>1 DEF Ids
  <2>9. lines[i].re = id /\ i \in DOMAIN lines
    <3>1. q[i] \in Op /\ peer[over[b]] \in Addr \cup {NoAddr}
      BY <2>1, <2>8 DEF TypeOK, HelperTypeOK
    <3>2. Failed(q[i], peer[over[b]]).re = q[i].id
      BY <3>1, FailedKind
    <3>3. QED BY <2>2, <2>8, <3>2
  <2> HIDE DEF lines
  <2>10. \E l \in Printed : l = lines[i]
    BY <2>2, <2>9, SayPrinted
  <2>11. QED BY <2>9, <2>10 DEF Sign
<1>3. QED BY <1>1, <1>2

LEMMA ClientWaiting ==
  ASSUME TypeOK, Client, NEW id \in Waiting
  PROVE  id \in Waiting'
<1>1. UNCHANGED ops /\ (UNCHANGED stdin \/ \E c : stdin' = Append(stdin, c))
  BY DEF Client, Spawn, Boot, Send, Close, helper, chans
<1>2. stdin \in Seq(Command)
  BY DEF TypeOK, WireTypeOK
<1>3. \A i \in DOMAIN stdin : i \in DOMAIN stdin' /\ stdin'[i] = stdin[i]
  BY <1>1, <1>2
<1>4. Unread(id) => Unread(id)'
  BY <1>3 DEF Unread
<1>5. QED BY <1>1, <1>4, WaitingIs, WaitingIsNext

\* A request the helper took is never dropped in silence: the step that drops
\* it prints its answer or the end of the connection, shuts the link, or is
\* the end of the process.
THEOREM NothingVanishesAlways == Spec => NothingVanishes
<1> DEFINE Signed == ~Discovering => \A id \in Waiting \ Waiting' : Sign(id)
<1>1. TypeOK /\ Sound /\ [Next]_vars => [Signed]_vars
  <2>1. SUFFICES ASSUME ~Discovering, TypeOK, Sound, Next,
                        NEW id \in Waiting, id \notin Waiting'
                 PROVE  Sign(id)
    OBVIOUS
  <2>2. CASE Client
    BY <2>1, <2>2, ClientWaiting
  <2>3. CASE PromptRead
    <3>1. /\ stdin # <<>> /\ stdin' = Tail(stdin)
          /\ Dispatch(Head(stdin)) \/ AddOobAborts(Head(stdin))
      BY <2>3 DEF PromptRead
    <3>2. CASE AddOobAborts(Head(stdin))
      BY <3>2 DEF AddOobAborts, Gone, Sign
    <3>3. CASE Dispatch(Head(stdin))
      BY <2>1, <3>1, <3>3, DispatchSign
    <3>4. QED BY <3>1, <3>2, <3>3
  <2>4. CASE PromptEof
    <3>1. UNCHANGED <<ops, stdin>>
      BY <2>4 DEF PromptEof, chans, wire
    <3>2. Waiting' = Waiting
      BY <3>1 DEF Waiting
    <3>3. QED BY <2>1, <3>2
  <2>5. CASE Exit
    BY <2>5 DEF Exit, Gone, Sign
  <2>6. CASE Callback /\ UNCHANGED stdin
    BY <2>1, <2>6, CallbackSign
  <2>7. ASSUME NEW b \in Chan, FlushBearer(b), UNCHANGED stdin PROVE Sign(id)
    BY <2>1, <2>7, FlushSign
  <2>8. QED BY <2>1, <2>2, <2>3, <2>4, <2>5, <2>6, <2>7 DEF Next, HelperStep
<1>2. [Signed]_vars <=> [~Discovering => \A id \in Waiting \ Waiting' :
        \/ \E l \in Printed : l.re = id
        \/ \E l \in Printed : l.rsp = "stat" /\ l.tag = "disc"
        \/ \E c \in Chan : link[c] = "up" /\ link'[c] # "up"
        \/ proc' = "exited"]_vars
  BY DEF Sign
<1>3. QED BY <1>1, <1>2, TypeCorrect, SoundAlways, PTL DEF Spec, NothingVanishes
=============================================================================
