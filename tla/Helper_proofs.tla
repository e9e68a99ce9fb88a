---------------------------- MODULE Helper_proofs ----------------------------
(***************************************************************************)
(* Lemmas about the steps of bluepy-helper that need no client: every       *)
(* handler and every callback keeps the variables' types, whoever holds the *)
(* pipes.                                                                   *)
(***************************************************************************)
EXTENDS Helper, SequenceTheorems, TLAPS

-----------------------------------------------------------------------------
(* The lines.                                                               *)

LEMMA StatType ==
  ASSUME NEW state \in ConnState, NEW dst \in Addr \cup {NoAddr},
         NEW m \in Nat, NEW re \in Nat
  PROVE  Stat(state, dst, m, re) \in Line
BY DEF Stat, Line, RspType, ConnState

LEMMA ErrType ==
  ASSUME NEW code \in ErrCode, NEW re \in Nat
  PROVE  Err(code, re) \in Line
BY DEF Err, Line, RspType

LEMMA MgmtType ==
  ASSUME NEW code \in ErrCode, NEW re \in Nat
  PROVE  Mgmt(code, re) \in Line
BY DEF Mgmt, Line, RspType

LEMMA DataType ==
  ASSUME NEW rsp \in RspType, NEW dst \in Addr \cup {NoAddr}, NEW re \in Nat
  PROVE  Data(rsp, dst, re) \in Line
BY DEF Data, Line

LEMMA ResultTypeType ==
  ASSUME NEW verb \in GattVerbs PROVE ResultType(verb) \in RspType
BY DEF GattVerbs, ResultType, RspType

\* printing one line, or two, keeps stdout a sequence of lines
LEMMA SayOne ==
  ASSUME stdout \in Seq(Line), NEW l \in Line, Say(<<l>>)
  PROVE  stdout' \in Seq(Line)
BY DEF Say

LEMMA SayTwo ==
  ASSUME stdout \in Seq(Line), NEW l \in Line, NEW k \in Line, Say(<<l, k>>)
  PROVE  stdout' \in Seq(Line)
BY DEF Say

\* what Settle and Unref do to the bearers is of the right type
LEMMA SettleType ==
  ASSUME HelperTypeOK, NEW b \in Chan, NEW q \in Seq(Op),
         over[b] # 0, Settle(b, q)
  PROVE  /\ over' \in [Chan -> 0 .. MaxChan]
         /\ ops' \in [Chan -> Seq(Op)]
         /\ orphan' \subseteq Chan
         /\ link' \in [Chan -> LinkState]
<1>1. over[b] \in Chan
  BY DEF HelperTypeOK, Chan
<1>2. CASE b \in orphan /\ ~RefHeld(q)
  <2>1. over' \in [Chan -> 0 .. MaxChan]
    BY <1>2, HelperAssumption DEF HelperTypeOK, Settle
  <2>2. ops' \in [Chan -> Seq(Op)]
    <3>1. <<>> \in Seq(Op) OBVIOUS
    <3>2. QED BY <1>2, <3>1 DEF HelperTypeOK, Settle
  <2>3. orphan' \subseteq Chan
    BY <1>2 DEF HelperTypeOK, Settle
  <2>4. link' \in [Chan -> LinkState]
    BY <1>1, <1>2 DEF HelperTypeOK, Settle, LinkState
  <2>5. QED BY <2>1, <2>2, <2>3, <2>4
<1>3. CASE ~(b \in orphan /\ ~RefHeld(q))
  BY <1>3 DEF HelperTypeOK, Settle
<1>4. QED BY <1>2, <1>3

LEMMA UnrefType ==
  ASSUME HelperTypeOK, NEW b \in Chan, Unref(b)
  PROVE  /\ over' \in [Chan -> 0 .. MaxChan]
         /\ ops' \in [Chan -> Seq(Op)]
         /\ orphan' \subseteq Chan
<1>1. CASE RefHeld(ops[b])
  BY <1>1 DEF Unref, HelperTypeOK
<1>2. CASE ~RefHeld(ops[b])
  <2>1. over' \in [Chan -> 0 .. MaxChan]
    <3>1. over' = [over EXCEPT ![b] = 0] BY <1>2 DEF Unref
    <3>2. over \in [Chan -> 0 .. MaxChan] BY DEF HelperTypeOK
    <3>3. 0 \in 0 .. MaxChan BY HelperAssumption
    <3>4. QED BY <3>1, <3>2, <3>3
  <2>2. ops' \in [Chan -> Seq(Op)]
    <3>1. <<>> \in Seq(Op) OBVIOUS
    <3>2. QED BY <1>2, <3>1 DEF Unref, HelperTypeOK
  <2>3. orphan' \subseteq Chan
    BY <1>2 DEF Unref, HelperTypeOK
  <2>4. QED BY <2>1, <2>2, <2>3
<1>3. QED BY <1>1, <1>2

LEMMA DisconnectIoType ==
  ASSUME WireTypeOK, HelperTypeOK, NEW re \in Nat, DisconnectIo(re)
  PROVE  /\ stdout' \in Seq(Line)
         /\ conn_state' \in ConnState
         /\ opt_dst' \in Addr \cup {NoAddr}
         /\ opt_mtu' \in Nat
         /\ iochannel' \in 0 .. MaxChan
         /\ attrib' \in 0 .. MaxChan
         /\ nchan' \in 0 .. MaxChan
         /\ link' \in [Chan -> LinkState]
         /\ peer' \in [Chan -> Addr \cup {NoAddr}]
         /\ over' \in [Chan -> 0 .. MaxChan]
         /\ ops' \in [Chan -> Seq(Op)]
         /\ orphan' \subseteq Chan
<1>1. CASE conn_state = "disc"
  BY <1>1 DEF WireTypeOK, HelperTypeOK, DisconnectIo, conn, chans
<1>2. CASE conn_state # "disc"
  <2>1. Stat("disc", NoAddr, 0, re) \in Line
    BY StatType DEF ConnState
  <2>2. stdout' \in Seq(Line)
    BY <1>2, <2>1, SayOne DEF DisconnectIo, WireTypeOK
  <2>3. link' \in [Chan -> LinkState]
    BY <1>2 DEF DisconnectIo, HelperTypeOK, LinkState
  <2>4. CASE attrib = 0
    BY <1>2, <2>2, <2>3, <2>4, HelperAssumption
    DEF DisconnectIo, HelperTypeOK, ConnState, ResetMtu
  <2>5. CASE attrib # 0
    <3>1. attrib \in Chan
      BY <2>5 DEF HelperTypeOK, Chan
    <3>2. /\ over' \in [Chan -> 0 .. MaxChan]
          /\ ops' \in [Chan -> Seq(Op)]
          /\ orphan' \subseteq Chan
      BY <1>2, <2>5, <3>1, UnrefType DEF DisconnectIo
    <3>3. QED
      BY <1>2, <2>2, <2>3, <3>2, HelperAssumption
      DEF DisconnectIo, HelperTypeOK, ConnState, ResetMtu
  <2>6. QED BY <2>4, <2>5
<1>3. QED BY <1>1, <1>2

-----------------------------------------------------------------------------
(* The commands keep the types.                                             *)

LEMMA CmdStatusType ==
  ASSUME TypeOK, NEW c \in Command, CmdStatus(c), UNCHANGED nevt
  PROVE  HelperTypeOK' /\ stdout' \in Seq(Line)
<1>1. Stat(conn_state, opt_dst, opt_mtu, c.id) \in Line
  BY StatType DEF TypeOK, HelperTypeOK, Command
<1>2. stdout' \in Seq(Line)
  BY <1>1, SayOne DEF CmdStatus, TypeOK, WireTypeOK
<1>3. HelperTypeOK'
  BY DEF CmdStatus, TypeOK, HelperTypeOK, conn, chans, mgmt
<1>4. QED BY <1>2, <1>3

LEMMA CmdExitType ==
  ASSUME TypeOK, NEW c \in Command, CmdExit(c), UNCHANGED nevt
  PROVE  HelperTypeOK' /\ stdout' \in Seq(Line)
BY DEF CmdExit, TypeOK, WireTypeOK, HelperTypeOK, conn, chans, mgmt

LEMMA CmdDisconnectType ==
  ASSUME TypeOK, NEW c \in Command, CmdDisconnect(c), UNCHANGED nevt
  PROVE  HelperTypeOK' /\ stdout' \in Seq(Line)
<1>1. c.id \in Nat /\ DisconnectIo(c.id) /\ UNCHANGED <<watch, mgmt, loop>>
  BY DEF CmdDisconnect, Command
<1>2. QED
  BY <1>1, DisconnectIoType DEF TypeOK, HelperTypeOK, mgmt

LEMMA CmdConnectType ==
  ASSUME TypeOK, NEW c \in Command, CmdConnect(c), UNCHANGED nevt
  PROVE  HelperTypeOK' /\ stdout' \in Seq(Line)
<1> DEFINE dst == IF c.dst = NoAddr THEN opt_dst ELSE c.dst
           n == nchan + 1
<1>1. /\ dst \in Addr \cup {NoAddr} /\ c.id \in Nat
      /\ UNCHANGED <<opt_mtu, attrib, over, ops, orphan, mgmt, loop>>
  BY DEF CmdConnect, Command, TypeOK, HelperTypeOK
<1>2. /\ Err("badparam", c.id) \in Line
      /\ Stat("tryconn", dst, opt_mtu, c.id) \in Line
      /\ Stat("disc", dst, opt_mtu, c.id) \in Line
  BY <1>1, ErrType, StatType DEF ErrCode, ConnState, TypeOK, HelperTypeOK
<1> HIDE DEF dst
<1>3. CASE ~CanConnect /\ UNCHANGED <<conn, chans, watch, stdout>>
  BY <1>1, <1>3 DEF TypeOK, WireTypeOK, HelperTypeOK, conn, chans, mgmt
<1>4. CASE Say(<<Err("badparam", c.id)>>) /\ UNCHANGED <<conn, chans, watch>>
  <2>1. stdout' \in Seq(Line) BY <1>2, <1>4, SayOne DEF TypeOK, WireTypeOK
  <2>2. QED
    BY <1>1, <1>4, <2>1 DEF TypeOK, HelperTypeOK, conn, chans, mgmt
<1>5. CASE /\ opt_dst' = dst /\ iochannel' = 0
           /\ Say(<<Stat("tryconn", dst, opt_mtu, c.id),
                    Stat("disc", dst, opt_mtu, c.id)>>)
           /\ UNCHANGED <<conn_state, chans, watch>>
  <2>1. stdout' \in Seq(Line) BY <1>2, <1>5, SayTwo DEF TypeOK, WireTypeOK
  <2>2. QED
    BY <1>1, <1>5, <2>1, HelperAssumption
    DEF TypeOK, HelperTypeOK, chans, mgmt
<1>6. CASE /\ n \in Chan
           /\ conn_state' = "tryconn" /\ opt_dst' = dst /\ iochannel' = n
           /\ nchan' = n
           /\ link' = [link EXCEPT ![n] = "connecting"]
           /\ peer' = [peer EXCEPT ![n] = dst]
           /\ watch' = watch \cup {n}
           /\ Say(<<Stat("tryconn", dst, opt_mtu, c.id)>>)
  <2>1. stdout' \in Seq(Line) BY <1>2, <1>6, SayOne DEF TypeOK, WireTypeOK
  <2>2. link' \in [Chan -> LinkState]
    BY <1>6 DEF TypeOK, HelperTypeOK, LinkState
  <2>3. QED
    BY <1>1, <1>6, <2>1, <2>2, HelperAssumption
    DEF TypeOK, HelperTypeOK, ConnState, Chan, mgmt
<1>7. QED BY <1>3, <1>4, <1>5, <1>6 DEF CmdConnect, dst

\* a request of the current bearer, if there is one, is queued
LEMMA QueueType ==
  ASSUME HelperTypeOK, NEW o \in Op,
         ops' = [b \in Chan |-> IF b = attrib THEN Append(ops[b], o) ELSE ops[b]]
  PROVE  ops' \in [Chan -> Seq(Op)]
<1>1. \A b \in Chan : ops[b] \in Seq(Op) /\ Append(ops[b], o) \in Seq(Op)
  BY DEF HelperTypeOK
<1>2. QED BY <1>1

LEMMA CmdGattType ==
  ASSUME TypeOK, NEW c \in Command, CmdGatt(c), UNCHANGED nevt
  PROVE  HelperTypeOK' /\ stdout' \in Seq(Line)
<1>1. c.id \in Nat /\ c.verb \in GattVerbs
  BY DEF CmdGatt, Command
<1>2. stdout' \in Seq(Line)
  <2>1. Err("badstate", c.id) \in Line /\ Err("badparam", c.id) \in Line
    BY <1>1, ErrType DEF ErrCode
  <2>2. CASE Say(<<Err("badstate", c.id)>>)
    BY <2>1, <2>2, SayOne DEF TypeOK, WireTypeOK
  <2>3. CASE Say(<<Err("badparam", c.id)>>)
    BY <2>1, <2>3, SayOne DEF TypeOK, WireTypeOK
  <2>4. CASE UNCHANGED stdout
    BY <2>4 DEF TypeOK, WireTypeOK
  <2>5. QED BY <2>2, <2>3, <2>4 DEF CmdGatt
<1>3. ops' \in [Chan -> Seq(Op)]
  <2>1. CASE UNCHANGED ops
    BY <2>1 DEF TypeOK, HelperTypeOK
  <2>2. CASE ~UNCHANGED ops
    <3>1. Req(c) \in Op
      BY <1>1 DEF Req, Op
    <3>2. QED BY <2>2, <3>1, QueueType DEF CmdGatt, TypeOK
  <2>3. QED BY <2>1, <2>2
<1>4. UNCHANGED <<conn, nchan, link, peer, over, orphan, watch, mgmt, loop>>
  BY DEF CmdGatt
<1>5. QED BY <1>2, <1>3, <1>4 DEF TypeOK, HelperTypeOK, conn, mgmt

LEMMA CmdWriteType ==
  ASSUME TypeOK, NEW c \in Command, CmdWrite(c), UNCHANGED nevt
  PROVE  HelperTypeOK' /\ stdout' \in Seq(Line)
<1>1. /\ Err("badstate", c.id) \in Line /\ Err("badparam", c.id) \in Line
      /\ Data("wr", opt_dst, c.id) \in Line
  BY ErrType, DataType DEF ErrCode, RspType, Command, TypeOK, HelperTypeOK
<1>2. stdout' \in Seq(Line)
  BY <1>1, SayOne DEF CmdWrite, TypeOK, WireTypeOK
<1>3. QED BY <1>2 DEF CmdWrite, TypeOK, HelperTypeOK, conn, chans, mgmt

LEMMA CmdSecLevelType ==
  ASSUME TypeOK, NEW c \in Command, CmdSecLevel(c), UNCHANGED nevt
  PROVE  HelperTypeOK' /\ stdout' \in Seq(Line)
<1>1. /\ Err("badparam", c.id) \in Line /\ Err("callfail", c.id) \in Line
      /\ Stat(conn_state, opt_dst, opt_mtu, c.id) \in Line
  BY ErrType, StatType DEF ErrCode, Command, TypeOK, HelperTypeOK
<1>2. stdout' \in Seq(Line)
  BY <1>1, SayOne DEF CmdSecLevel, TypeOK, WireTypeOK
<1>3. QED BY <1>2 DEF CmdSecLevel, TypeOK, HelperTypeOK, conn, chans, mgmt

LEMMA CmdMtuType ==
  ASSUME TypeOK, NEW c \in Command, CmdMtu(c), UNCHANGED nevt
  PROVE  HelperTypeOK' /\ stdout' \in Seq(Line)
<1>1. c.id \in Nat /\ c.arg \in Nat
  BY DEF Command
<1>2. Err("badstate", c.id) \in Line /\ Err("badparam", c.id) \in Line
  BY <1>1, ErrType DEF ErrCode
<1>3. stdout' \in Seq(Line)
  BY <1>2, SayOne DEF CmdMtu, TypeOK, WireTypeOK
<1>4. ops' \in [Chan -> Seq(Op)]
  <2>1. CASE UNCHANGED ops
    BY <2>1 DEF TypeOK, HelperTypeOK
  <2>2. CASE ~UNCHANGED ops
    <3>1. Req(c) \in Op
      BY <1>1 DEF CmdMtu, Req, Op
    <3>2. QED BY <2>2, <3>1, QueueType DEF CmdMtu, TypeOK
  <2>3. QED BY <2>1, <2>2
<1>5. opt_mtu' \in Nat
  BY <1>1 DEF CmdMtu, TypeOK, HelperTypeOK
<1>6. /\ UNCHANGED <<conn_state, opt_dst, iochannel, attrib>>
      /\ UNCHANGED <<nchan, link, peer, over, orphan, watch, mgmt, loop>>
  BY DEF CmdMtu
<1>7. QED BY <1>3, <1>4, <1>5, <1>6 DEF TypeOK, HelperTypeOK, mgmt

LEMMA CmdMgmtType ==
  ASSUME TypeOK, NEW c \in Command, CmdMgmt(c), UNCHANGED nevt
  PROVE  HelperTypeOK' /\ stdout' \in Seq(Line)
<1>1. c.id \in Nat /\ c.verb \in MgmtVerbs
  BY DEF CmdMgmt, Command
<1>2. /\ Err("nomgmt", c.id) \in Line /\ Err("badparam", c.id) \in Line
      /\ Mgmt("badparam", c.id) \in Line
      /\ Mgmt("badstate", c.id) \in Line /\ Mgmt("notfound", c.id) \in Line
  BY <1>1, ErrType, MgmtType DEF ErrCode
<1>3. stdout' \in Seq(Line)
  BY <1>2, SayOne DEF CmdMgmt, TypeOK, WireTypeOK
<1>4. mgmt_q' \in Seq(MgmtOp)
  <2>1. [verb |-> c.verb, id |-> c.id] \in MgmtOp
    BY <1>1 DEF MgmtOp
  <2>2. mgmt_q \in Seq(MgmtOp)
    BY DEF TypeOK, HelperTypeOK
  <2>3. \/ UNCHANGED mgmt_q
        \/ mgmt_q' = Append(mgmt_q, [verb |-> c.verb, id |-> c.id])
    BY DEF CmdMgmt
  <2>4. QED BY <2>1, <2>2, <2>3
<1>5. UNCHANGED <<conn, chans, watch, mgmt_master, loop>>
  BY DEF CmdMgmt
<1>6. QED BY <1>3, <1>4, <1>5 DEF TypeOK, HelperTypeOK, conn, chans

LEMMA DispatchType ==
  ASSUME TypeOK, NEW c \in Command, Dispatch(c), UNCHANGED nevt
  PROVE  HelperTypeOK' /\ stdout' \in Seq(Line)
BY CmdStatusType, CmdExitType, CmdConnectType, CmdDisconnectType, CmdGattType,
   CmdWriteType, CmdSecLevelType, CmdMtuType, CmdMgmtType DEF Dispatch

-----------------------------------------------------------------------------
(* The callbacks keep the types.                                            *)

\* the parts of a request at the head of a bearer's queue
LEMMA HeadType ==
  ASSUME HelperTypeOK, NEW b \in Chan, Live(b), ops[b] # <<>>
  PROVE  /\ over[b] \in Chan /\ peer[over[b]] \in Addr \cup {NoAddr}
         /\ Head(ops[b]) \in Op /\ Tail(ops[b]) \in Seq(Op)
         /\ Head(ops[b]).id \in Nat
         /\ Head(ops[b]).verb \in GattVerbs \cup {"mtu"}
<1>1. ops[b] \in Seq(Op) /\ over[b] \in 0 .. MaxChan
  BY DEF HelperTypeOK
<1>2. over[b] \in Chan
  BY <1>1, HelperAssumption DEF Live, Chan
<1>3. Head(ops[b]) \in Op /\ Tail(ops[b]) \in Seq(Op)
  BY <1>1
<1>4. QED BY <1>2, <1>3 DEF HelperTypeOK, Op

LEMMA ConnectCbOkType ==
  ASSUME TypeOK, NEW c \in Chan, ConnectCbOk(c)
  PROVE  HelperTypeOK' /\ stdout' \in Seq(Line)
<1>1. Stat("conn", opt_dst, opt_mtu, 0) \in Line
  BY StatType DEF ConnState, TypeOK, HelperTypeOK
<1>2. stdout' \in Seq(Line)
  BY <1>1, SayOne DEF ConnectCbOk, TypeOK, WireTypeOK
<1>3. link' \in [Chan -> LinkState] /\ over' \in [Chan -> 0 .. MaxChan]
  BY DEF ConnectCbOk, TypeOK, HelperTypeOK, LinkState
<1>4. attrib' \in 0 .. MaxChan /\ conn_state' \in ConnState
  BY HelperAssumption DEF ConnectCbOk, Chan, ConnState
<1>5. /\ UNCHANGED <<opt_dst, opt_mtu, iochannel>>
      /\ UNCHANGED <<nchan, peer, ops, orphan, watch, mgmt, loop, nevt>>
  BY DEF ConnectCbOk
<1>6. QED BY <1>2, <1>3, <1>4, <1>5 DEF TypeOK, HelperTypeOK, mgmt

LEMMA ConnectCbErrType ==
  ASSUME TypeOK, NEW c \in Chan, ConnectCbErr(c)
  PROVE  HelperTypeOK' /\ stdout' \in Seq(Line)
<1>1. Stat("disc", NoAddr, opt_mtu, 0) \in Line /\ Err("connfail", 0) \in Line
  BY StatType, ErrType DEF ConnState, ErrCode, TypeOK, HelperTypeOK
<1>2. stdout' \in Seq(Line)
  BY <1>1, SayTwo DEF ConnectCbErr, ConnectErrLines, TypeOK, WireTypeOK
<1>3. link' \in [Chan -> LinkState] /\ conn_state' \in ConnState
  BY DEF ConnectCbErr, TypeOK, HelperTypeOK, LinkState, ConnState
<1>4. /\ UNCHANGED <<opt_dst, opt_mtu, iochannel, attrib>>
      /\ UNCHANGED <<nchan, peer, over, ops, orphan, watch, mgmt, loop, nevt>>
  BY DEF ConnectCbErr
<1>5. QED BY <1>2, <1>3, <1>4 DEF TypeOK, HelperTypeOK, mgmt

LEMMA ChannelWatcherType ==
  ASSUME TypeOK, NEW c \in Chan, ChannelWatcher(c)
  PROVE  HelperTypeOK' /\ stdout' \in Seq(Line)
<1>1. watch' \subseteq Chan /\ UNCHANGED <<mgmt, loop, nevt>>
  BY DEF ChannelWatcher, TypeOK, HelperTypeOK
<1>2. CASE IsCurrent(c)
  <2>1. DisconnectIo(0) BY <1>2 DEF ChannelWatcher
  <2>2. QED BY <1>1, <2>1, DisconnectIoType DEF TypeOK, HelperTypeOK, mgmt
<1>3. CASE ~IsCurrent(c)
  BY <1>1, <1>3
  DEF ChannelWatcher, TypeOK, WireTypeOK, HelperTypeOK, conn, chans, mgmt
<1>4. QED BY <1>2, <1>3

LEMMA LinkLossType ==
  ASSUME TypeOK, NEW c \in Chan, LinkLoss(c)
  PROVE  HelperTypeOK' /\ stdout' \in Seq(Line)
<1>1. link' \in [Chan -> LinkState]
  BY DEF LinkLoss, TypeOK, HelperTypeOK, LinkState
<1>2. /\ UNCHANGED <<conn, nchan, peer, over, ops, orphan, watch, stdout>>
      /\ UNCHANGED <<mgmt, loop, nevt>>
  BY DEF LinkLoss
<1>3. QED BY <1>1, <1>2 DEF TypeOK, WireTypeOK, HelperTypeOK, conn, mgmt

LEMMA AttResultType ==
  ASSUME TypeOK, NEW b \in Chan, AttResult(b)
  PROVE  HelperTypeOK' /\ stdout' \in Seq(Line)
<1> DEFINE o == Head(ops[b])
<1>1. /\ Live(b) /\ ops[b] # <<>> /\ o.verb # "mtu" /\ over[b] # 0
      /\ Say(<<Data(ResultType(o.verb), peer[over[b]], o.id)>>)
      /\ Settle(b, Tail(ops[b]))
      /\ UNCHANGED <<conn, nchan, peer, watch, mgmt, loop, nevt>>
  BY DEF AttResult, Live
<1>2. /\ peer[over[b]] \in Addr \cup {NoAddr} /\ o.id \in Nat
      /\ o.verb \in GattVerbs /\ Tail(ops[b]) \in Seq(Op)
  BY <1>1, HeadType DEF TypeOK
<1> HIDE DEF o
<1>3. Data(ResultType(o.verb), peer[over[b]], o.id) \in Line
  BY <1>2, ResultTypeType, DataType
<1>4. stdout' \in Seq(Line)
  BY <1>1, <1>3, SayOne DEF TypeOK, WireTypeOK
<1>5. QED
  BY <1>1, <1>2, <1>4, SettleType DEF TypeOK, HelperTypeOK, conn, mgmt

LEMMA AttContinueType ==
  ASSUME TypeOK, NEW b \in Chan, AttContinue(b)
  PROVE  HelperTypeOK' /\ stdout' \in Seq(Line)
<1> DEFINE o == [Head(ops[b]) EXCEPT !.part = TRUE]
<1>1. Head(ops[b]) \in Op /\ Tail(ops[b]) \in Seq(Op)
  BY HeadType DEF AttContinue, TypeOK
<1>2. o \in Op
  BY <1>1 DEF Op
<1>3. ops' = [ops EXCEPT ![b] = Append(Tail(ops[b]), o)]
  BY DEF AttContinue
<1>4. Append(Tail(ops[b]), o) \in Seq(Op)
  BY <1>1, <1>2
<1>5. ops' \in [Chan -> Seq(Op)]
  BY <1>3, <1>4 DEF TypeOK, HelperTypeOK
<1>6. /\ UNCHANGED <<conn, nchan, link, peer, over, orphan, watch, stdout>>
      /\ UNCHANGED <<mgmt, loop, nevt>>
  BY DEF AttContinue
<1>7. QED BY <1>5, <1>6 DEF TypeOK, WireTypeOK, HelperTypeOK, conn, mgmt

\* what a failed request prints is a line
LEMMA FailedType ==
  ASSUME NEW o \in Op, NEW dst \in Addr \cup {NoAddr}
  PROVE  Failed(o, dst) \in Line
<1>1. o.id \in Nat
  BY DEF Op
<1>2. Data("rd", dst, o.id) \in Line /\ Err("atterr", o.id) \in Line
  BY <1>1, DataType, ErrType DEF RspType, ErrCode
<1>3. QED BY <1>2 DEF Failed

LEMMA AttErrorType ==
  ASSUME TypeOK, NEW b \in Chan, AttError(b)
  PROVE  HelperTypeOK' /\ stdout' \in Seq(Line)
<1>1. /\ Head(ops[b]) \in Op /\ Tail(ops[b]) \in Seq(Op)
      /\ over[b] # 0 /\ over[b] \in Chan /\ Settle(b, Tail(ops[b]))
      /\ UNCHANGED <<conn, nchan, peer, watch, mgmt, loop, nevt>>
  BY HeadType DEF AttError, TypeOK, Live
<1>2. Failed(Head(ops[b]), peer[over[b]]) \in Line
  BY <1>1, FailedType DEF TypeOK, HelperTypeOK
<1>3. stdout' \in Seq(Line)
  BY <1>2, SayOne DEF AttError, TypeOK, WireTypeOK
<1>4. QED
  BY <1>1, <1>3, SettleType DEF TypeOK, HelperTypeOK, conn, mgmt

LEMMA MtuResultType ==
  ASSUME TypeOK, NEW b \in Chan, NEW m \in Mtus, MtuResult(b, m)
  PROVE  HelperTypeOK' /\ stdout' \in Seq(Line)
<1> DEFINE mtu == IF m < opt_mtu THEN m ELSE opt_mtu
           o == Head(ops[b])
<1>1. /\ o.id \in Nat /\ Tail(ops[b]) \in Seq(Op)
      /\ over[b] # 0 /\ Settle(b, Tail(ops[b]))
      /\ UNCHANGED <<conn_state, opt_dst, iochannel, attrib>>
      /\ UNCHANGED <<nchan, peer, watch, mgmt, loop, nevt>>
  BY HeadType DEF MtuResult, TypeOK, Live
<1>2. mtu \in Nat
  BY HelperAssumption DEF TypeOK, HelperTypeOK
<1>3. \/ opt_mtu' = mtu /\ Say(<<Stat(conn_state, opt_dst, mtu, o.id)>>)
      \/ UNCHANGED opt_mtu /\ Say(<<Err("callfail", o.id)>>)
  BY DEF MtuResult
<1> HIDE DEF mtu, o
<1>4. /\ Stat(conn_state, opt_dst, mtu, o.id) \in Line
      /\ Err("callfail", o.id) \in Line
  BY <1>1, <1>2, StatType, ErrType DEF ErrCode, TypeOK, HelperTypeOK
<1>5. stdout' \in Seq(Line)
  BY <1>3, <1>4, SayOne DEF TypeOK, WireTypeOK
<1>6. opt_mtu' \in Nat
  BY <1>2, <1>3 DEF TypeOK, HelperTypeOK
<1>7. QED
  BY <1>1, <1>5, <1>6, SettleType DEF TypeOK, HelperTypeOK, mgmt

LEMMA AttTimeoutType ==
  ASSUME TypeOK, NEW b \in Chan, AttTimeout(b)
  PROVE  HelperTypeOK' /\ stdout' \in Seq(Line)
<1>1. /\ Tail(ops[b]) \in Seq(Op) /\ over[b] # 0 /\ over[b] \in Chan
      /\ UNCHANGED <<conn, nchan, peer, watch, stdout, mgmt, loop, nevt>>
  BY HeadType DEF AttTimeout, TypeOK, Live
<1>2. CASE Settle(b, Tail(ops[b]))
  BY <1>1, <1>2, SettleType
  DEF TypeOK, WireTypeOK, HelperTypeOK, conn, mgmt
<1>3. CASE /\ ops' = [ops EXCEPT ![b] = Tail(@)]
           /\ Shutdown(b)
           /\ UNCHANGED <<over, orphan>>
  <2>1. ops' \in [Chan -> Seq(Op)]
    BY <1>1, <1>3 DEF TypeOK, HelperTypeOK
  <2>2. link' \in [Chan -> LinkState]
    BY <1>1, <1>3 DEF Shutdown, TypeOK, HelperTypeOK, LinkState
  <2>3. QED
    BY <1>1, <1>3, <2>1, <2>2
    DEF TypeOK, WireTypeOK, HelperTypeOK, conn, mgmt
<1>4. QED BY <1>2, <1>3 DEF AttTimeout

LEMMA NotificationType ==
  ASSUME TypeOK, NEW b \in Chan, NEW kind \in {"ntfy", "ind"},
         Notification(b, kind)
  PROVE  HelperTypeOK' /\ stdout' \in Seq(Line)
<1>1. over[b] \in Chan
  BY HelperAssumption DEF Notification, Live, TypeOK, HelperTypeOK, Chan
<1>2. Data(kind, peer[over[b]], 0) \in Line
  BY <1>1, DataType DEF RspType, TypeOK, HelperTypeOK
<1>3. stdout' \in Seq(Line)
  BY <1>2, SayOne DEF Notification, TypeOK, WireTypeOK
<1>4. QED
  BY <1>3 DEF Notification, TypeOK, HelperTypeOK, conn, chans, mgmt

LEMMA PeerMtuReqType ==
  ASSUME TypeOK, NEW b \in Chan, NEW m \in Mtus, PeerMtuReq(b, m)
  PROVE  HelperTypeOK' /\ stdout' \in Seq(Line)
<1>1. m \in Nat
  BY HelperAssumption
<1>2. Stat(conn_state, opt_dst, m, 0) \in Line
  BY <1>1, StatType DEF TypeOK, HelperTypeOK
<1>3. stdout' \in Seq(Line)
  BY <1>2, SayOne DEF PeerMtuReq, TypeOK, WireTypeOK
<1>4. opt_mtu' \in Nat /\ nevt' \in Nat
  BY <1>1 DEF PeerMtuReq, TypeOK, HelperTypeOK
<1>5. /\ UNCHANGED <<conn_state, opt_dst, iochannel, attrib>>
      /\ UNCHANGED <<chans, watch, mgmt, loop>>
  BY DEF PeerMtuReq
<1>6. QED BY <1>3, <1>4, <1>5 DEF TypeOK, HelperTypeOK, chans, mgmt

LEMMA MgmtCompleteType ==
  ASSUME TypeOK, MgmtComplete
  PROVE  HelperTypeOK' /\ stdout' \in Seq(Line)
<1> DEFINE m == Head(mgmt_q)
<1>1. m \in MgmtOp /\ mgmt_q' \in Seq(MgmtOp)
  <2>1. mgmt_q \in Seq(MgmtOp) /\ mgmt_q # <<>> /\ mgmt_q' = Tail(mgmt_q)
    BY DEF MgmtComplete, TypeOK, HelperTypeOK
  <2>2. QED BY <2>1
<1>2. m.id \in Nat
  BY <1>1 DEF MgmtOp
<1>3. /\ Mgmt("busy", m.id) \in Line /\ Mgmt("mgmterr", m.id) \in Line
      /\ Mgmt("success", m.id) \in Line /\ Data("oob", NoAddr, m.id) \in Line
  BY <1>2, MgmtType, DataType DEF ErrCode, RspType
<1>4. stdout' \in Seq(Line)
  BY <1>3, SayOne DEF MgmtComplete, TypeOK, WireTypeOK
<1>5. UNCHANGED <<conn, chans, watch, mgmt_master, loop, nevt>>
  BY DEF MgmtComplete
<1>6. QED BY <1>1, <1>4, <1>5 DEF TypeOK, HelperTypeOK, conn, chans

LEMMA MgmtScanningType ==
  ASSUME TypeOK, NEW on \in BOOLEAN, MgmtScanning(on)
  PROVE  HelperTypeOK' /\ stdout' \in Seq(Line)
<1>1. conn_state' \in ConnState /\ nevt' \in Nat
  BY DEF MgmtScanning, ConnState, TypeOK, HelperTypeOK
<1>2. Stat(conn_state', opt_dst, opt_mtu, 0) \in Line
  BY <1>1, StatType DEF TypeOK, HelperTypeOK
<1>3. stdout' \in Seq(Line)
  BY <1>2, SayOne DEF MgmtScanning, TypeOK, WireTypeOK
<1>4. /\ UNCHANGED <<opt_dst, opt_mtu, iochannel, attrib>>
      /\ UNCHANGED <<chans, watch, mgmt, loop>>
  BY DEF MgmtScanning
<1>5. QED BY <1>1, <1>3, <1>4 DEF TypeOK, HelperTypeOK, chans, mgmt

LEMMA MgmtDeviceFoundType ==
  ASSUME TypeOK, MgmtDeviceFound
  PROVE  HelperTypeOK' /\ stdout' \in Seq(Line)
<1>1. Data("scan", NoAddr, 0) \in Line
  BY DataType DEF RspType
<1>2. stdout' \in Seq(Line)
  BY <1>1, SayOne DEF MgmtDeviceFound, TypeOK, WireTypeOK
<1>3. QED
  BY <1>2 DEF MgmtDeviceFound, TypeOK, HelperTypeOK, conn, chans, mgmt

LEMMA CallbackType ==
  ASSUME TypeOK, Callback
  PROVE  HelperTypeOK' /\ stdout' \in Seq(Line)
BY ConnectCbOkType, ConnectCbErrType, ChannelWatcherType, LinkLossType,
   AttResultType, AttContinueType, AttErrorType, AttTimeoutType,
   NotificationType, MtuResultType, PeerMtuReqType, MgmtCompleteType,
   MgmtScanningType, MgmtDeviceFoundType DEF Callback

\* the process ends: everything is as before its start
LEMMA GoneType ==
  ASSUME HelperTypeOK, Gone
  PROVE  HelperTypeOK' /\ proc' = "exited"
<1>1. <<>> \in Seq(Op) /\ <<>> \in Seq(MgmtOp)
  OBVIOUS
<1>2. /\ link' \in [Chan -> LinkState] /\ ops' \in [Chan -> Seq(Op)]
      /\ over' \in [Chan -> 0 .. MaxChan]
      /\ peer' \in [Chan -> Addr \cup {NoAddr}]
  BY <1>1, HelperAssumption DEF Gone, LinkState
<1>3. QED
  BY <1>1, <1>2, HelperAssumption DEF Gone, HelperTypeOK, ConnState

\* the hang-up of an orphan can only close sockets
LEMMA FlushBearerLink ==
  ASSUME TypeOK, NEW b \in Chan, FlushBearer(b), ~Gone
  PROVE  /\ ops' = [ops EXCEPT ![b] = <<>>]
         /\ over' = [over EXCEPT ![b] = IF b \in orphan THEN 0 ELSE @]
         /\ orphan' = orphan \ {b}
         /\ link' = [c \in Chan |->
                        IF SameNumber(b, c) THEN "closed" ELSE link[c]]
         /\ UNCHANGED <<proc, conn, nchan, peer, watch, mgmt, loop, nevt>>
BY DEF FlushBearer

\* The lines of a bearer whose socket hung up: those of the requests left, in
\* one order or the other, or the first of them if the process aborts.
LEMMA FlushLines ==
  ASSUME TypeOK, NEW b \in Chan, FlushBearer(b)
  PROVE  \E q \in {ops[b], Append(Tail(ops[b]), Head(ops[b]))} :
           /\ q \in Seq(Op) /\ over[b] \in Chan
           /\ \E n \in 1 .. Len(q) :
                /\ n = Len(q) \/ Gone
                /\ [i \in 1 .. n |-> Failed(q[i], peer[over[b]])] \in Seq(Line)
                /\ Say([i \in 1 .. n |-> Failed(q[i], peer[over[b]])])
<1>1. ops[b] \in Seq(Op) /\ ops[b] # <<>> /\ over[b] \in Chan
  BY HelperAssumption DEF FlushBearer, Dead, TypeOK, HelperTypeOK, Chan
<1>2. PICK q \in {ops[b], Append(Tail(ops[b]), Head(ops[b]))} :
        LET lines == [i \in DOMAIN q |-> Failed(q[i], peer[over[b]])]
        IN \/ Say(lines)
           \/ /\ Gone
              /\ \E i \in DOMAIN q : Say(SubSeq(lines, 1, i))
  BY DEF FlushBearer
<1> DEFINE lines == [i \in DOMAIN q |-> Failed(q[i], peer[over[b]])]
           part(n) == [i \in 1 .. n |-> Failed(q[i], peer[over[b]])]
<1>3. q \in Seq(Op) /\ Len(q) \in Nat \ {0} /\ DOMAIN q = 1 .. Len(q)
  <2>1. Head(ops[b]) \in Op /\ Tail(ops[b]) \in Seq(Op)
    BY <1>1
  <2>2. q \in Seq(Op) /\ q # <<>>
    BY <1>1, <1>2, <2>1
  <2>3. QED BY <2>2
<1>4. \A i \in 1 .. Len(q) : Failed(q[i], peer[over[b]]) \in Line
  <2>1. TAKE i \in 1 .. Len(q)
  <2>2. q[i] \in Op /\ peer[over[b]] \in Addr \cup {NoAddr}
    BY <1>1, <1>3 DEF TypeOK, HelperTypeOK
  <2>3. QED BY <2>2, FailedType
<1>5. \A n \in 1 .. Len(q) : part(n) \in Seq(Line)
  BY <1>3, <1>4
<1>6. lines = part(Len(q))
  BY <1>3
<1>7. \A n \in 1 .. Len(q) : SubSeq(lines, 1, n) = part(n)
  <2>1. TAKE n \in 1 .. Len(q)
  <2>2. lines \in Seq(Line) /\ Len(lines) = Len(q)
    BY <1>3, <1>5, <1>6
  <2>3. QED BY <1>3, <2>2
<1>8. CASE Say(lines)
  <2>1. Len(q) \in 1 .. Len(q) /\ Say(part(Len(q)))
    BY <1>3, <1>6, <1>8
  <2>2. QED BY <1>1, <1>2, <1>3, <1>5, <2>1
<1>9. CASE Gone /\ \E i \in DOMAIN q : Say(SubSeq(lines, 1, i))
  <2>1. PICK n \in 1 .. Len(q) : Say(part(n))
    BY <1>3, <1>7, <1>9
  <2>2. QED BY <1>1, <1>2, <1>3, <1>5, <1>9, <2>1
<1>10. QED BY <1>2, <1>8, <1>9

LEMMA FlushBearerType ==
  ASSUME TypeOK, NEW b \in Chan, FlushBearer(b)
  PROVE  /\ HelperTypeOK' /\ stdout' \in Seq(Line)
         /\ proc' \in {"none", "running", "exited"}
<1>1. PICK q \in {ops[b], Append(Tail(ops[b]), Head(ops[b]))} :
        LET lines == [i \in DOMAIN q |-> Failed(q[i], peer[over[b]])]
        IN \/ Say(lines)
           \/ \E i \in DOMAIN q : Say(SubSeq(lines, 1, i))
  BY DEF FlushBearer
<1> DEFINE lines == [i \in DOMAIN q |-> Failed(q[i], peer[over[b]])]
<1>2. over[b] # 0 /\ ops[b] # <<>>
  BY DEF FlushBearer, Dead
<1>3. q \in Seq(Op)
  <2>1. ops[b] \in Seq(Op)
    BY DEF TypeOK, HelperTypeOK
  <2>2. Append(Tail(ops[b]), Head(ops[b])) \in Seq(Op)
    BY <1>2, <2>1
  <2>3. QED BY <1>1, <2>1, <2>2
<1>4. lines \in Seq(Line)
  <2>1. DOMAIN q = 1 .. Len(q) /\ Len(q) \in Nat
    BY <1>3
  <2>2. peer[over[b]] \in Addr \cup {NoAddr}
    BY <1>2, HelperAssumption DEF TypeOK, HelperTypeOK, Chan
  <2>3. \A i \in DOMAIN q : Failed(q[i], peer[over[b]]) \in Line
    <3>1. TAKE i \in DOMAIN q
    <3>2. q[i] \in Op
      BY <1>3, <2>1
    <3>3. QED BY <2>2, <3>2, FailedType
  <2>4. QED BY <2>1, <2>3
<1>5. stdout \in Seq(Line)
  BY DEF TypeOK, WireTypeOK
<1>6. stdout' \in Seq(Line)
  <2>1. CASE Say(lines)
    BY <1>4, <1>5, <2>1 DEF Say
  <2>2. CASE \E i \in DOMAIN q : Say(SubSeq(lines, 1, i))
    <3>1. PICK i \in DOMAIN q : Say(SubSeq(lines, 1, i))
      BY <2>2
    <3>2. i \in 1 .. Len(lines)
      BY <1>3, <1>4, <3>1
    <3>3. SubSeq(lines, 1, i) \in Seq(Line)
      BY <1>4, <3>2
    <3>4. QED BY <1>5, <3>1, <3>3 DEF Say
  <2>3. QED BY <1>1, <2>1, <2>2
<1>7. CASE Gone
  BY <1>6, <1>7, GoneType DEF TypeOK
<1>8. CASE ~Gone
  <2>1. /\ ops' = [ops EXCEPT ![b] = <<>>]
        /\ over' = [over EXCEPT ![b] = IF b \in orphan THEN 0 ELSE @]
        /\ orphan' = orphan \ {b}
        /\ link' = [c \in Chan |->
                       IF SameNumber(b, c) THEN "closed" ELSE link[c]]
        /\ UNCHANGED <<proc, conn, nchan, peer, watch, mgmt, loop, nevt>>
    BY <1>8, FlushBearerLink
  <2>2. link' \in [Chan -> LinkState]
    BY <2>1 DEF TypeOK, HelperTypeOK, LinkState
  <2>3. ops' \in [Chan -> Seq(Op)] /\ over' \in [Chan -> 0 .. MaxChan]
    BY <2>1, HelperAssumption DEF TypeOK, HelperTypeOK
  <2>4. QED
    BY <1>6, <2>1, <2>2, <2>3
    DEF TypeOK, WireTypeOK, HelperTypeOK, conn, mgmt
<1>9. QED BY <1>7, <1>8

-----------------------------------------------------------------------------
(* Type correctness.                                                        *)

LEMMA HelperStepType ==
  ASSUME TypeOK, HelperStep
  PROVE  TypeOK'
<1>1. CASE PromptRead
  <2>1. /\ stdin \in Seq(Command) /\ stdin # <<>> /\ stdin' = Tail(stdin)
        /\ UNCHANGED <<eof, ncmd>>
        /\ \/ Dispatch(Head(stdin)) /\ UNCHANGED <<proc, nevt>>
           \/ AddOobAborts(Head(stdin))
    BY <1>1 DEF PromptRead, TypeOK, WireTypeOK
  <2>2. Head(stdin) \in Command /\ stdin' \in Seq(Command)
    BY <2>1
  <2>3. CASE Dispatch(Head(stdin)) /\ UNCHANGED <<proc, nevt>>
    <3>1. HelperTypeOK' /\ stdout' \in Seq(Line)
      BY <2>2, <2>3, DispatchType
    <3>2. QED BY <2>1, <2>2, <2>3, <3>1 DEF TypeOK, WireTypeOK
  <2>4. CASE AddOobAborts(Head(stdin))
    BY <2>1, <2>2, <2>4, GoneType DEF AddOobAborts, TypeOK, WireTypeOK
  <2>5. QED BY <2>1, <2>3, <2>4
<1>2. CASE PromptEof
  BY <1>2
  DEF PromptEof, TypeOK, WireTypeOK, HelperTypeOK, wire, conn, chans, mgmt
<1>3. CASE Exit
  <2>1. Stat("disc", NoAddr, 0, 0) \in Line
    BY StatType DEF ConnState
  <2>2. stdout' \in Seq(Line)
    BY <1>3, <2>1, SayOne DEF Exit, TypeOK, WireTypeOK
  <2>3. QED BY <1>3, <2>2, GoneType DEF Exit, TypeOK, WireTypeOK
<1>4. CASE Callback /\ UNCHANGED <<stdin, eof, proc, ncmd>>
  BY <1>4, CallbackType DEF TypeOK, WireTypeOK
<1>5. CASE \E b \in Chan : FlushBearer(b) /\ UNCHANGED <<stdin, eof, ncmd>>
  BY <1>5, FlushBearerType DEF TypeOK, WireTypeOK
<1>6. QED BY <1>1, <1>2, <1>3, <1>4, <1>5 DEF HelperStep
=============================================================================
