------------------------------- MODULE Helper -------------------------------
(***************************************************************************)
(* bluepy-helper: one GLib main loop that reads command lines, drives one   *)
(* ATT bearer over an L2CAP socket and the kernel's management socket, and  *)
(* prints response lines.  One action per command handler and per callback  *)
(* of the main loop; an action is one dispatch, and the loop may dispatch   *)
(* its ready sources in any order the guards allow.                         *)
(***************************************************************************)
EXTENDS Wire, FiniteSets, SequencesExt

CONSTANTS MaxChan,     \* bound: sockets one helper process opens
          MaxEvents,   \* bound: notifications, peer MTU requests, scan events
          Mtus,        \* MTU values a peripheral offers
          Discovering, \* some process of the host runs LE discovery
          MgmtAvail    \* whether mgmt_new_default may succeed, fail, or both

ASSUME HelperAssumption ==
  /\ MaxChan \in Nat /\ MaxEvents \in Nat /\ Mtus \subseteq Nat
  /\ Discovering \in BOOLEAN /\ MgmtAvail \subseteq BOOLEAN

VARIABLES
  conn_state, opt_dst, opt_mtu,  \* the globals of the same names
  iochannel,   \* socket opened last, 0 for NULL
  attrib,      \* current bearer, 0 for NULL
  mgmt_master, \* the management socket is open
  loop,        \* the main loop has not been told to quit
  nchan,       \* sockets opened so far
  link,        \* state of each socket
  peer,        \* address each socket connects to
  watch,       \* sockets whose channel_watcher is installed
  over,        \* socket under the bearer made for each socket, 0 if none
  ops,         \* requests of each bearer that have no answer yet
  orphan,      \* bearers the global attrib no longer holds
  mgmt_q,      \* management commands sent and not completed
  nevt         \* events of the outside world so far

conn == <<conn_state, opt_dst, opt_mtu, iochannel, attrib>>
chans == <<nchan, link, peer, over, ops, orphan>>
mgmt == <<mgmt_master, mgmt_q>>
helper == <<conn, chans, watch, mgmt, loop, nevt>>

Chan == 1 .. MaxChan
LinkState == {"none", "connecting", "up", "down", "failed", "closed"}
Op == [verb : GattVerbs \cup {"mtu"}, id : Nat, part : BOOLEAN]
MgmtOp == [verb : MgmtVerbs, id : Nat]

\* a request for command c; "part" once a part of its answer came
Req(c) == [verb |-> c.verb, id |-> c.id, part |-> FALSE]

ATT_DEFAULT_LE_MTU == 23

Say(lines) == stdout' = stdout \o lines

Init ==
  /\ conn_state = "disc" /\ opt_dst = NoAddr /\ opt_mtu = 0
  /\ iochannel = 0 /\ attrib = 0
  /\ mgmt_master \in MgmtAvail /\ mgmt_q = <<>>
  /\ loop = TRUE /\ nevt = 0 /\ nchan = 0
  /\ link = [c \in Chan |-> "none"]
  /\ peer = [c \in Chan |-> NoAddr]
  /\ over = [c \in Chan |-> 0]
  /\ ops = [c \in Chan |-> <<>>]
  /\ watch = {} /\ orphan = {}

\* main() up to g_main_loop_run: nothing but mgmt_setup has a choice
Boot ==
  /\ mgmt_master' \in MgmtAvail
  /\ loop' = TRUE
  /\ UNCHANGED <<conn, chans, watch, mgmt_q, nevt>>

\* The process is gone: the kernel closes its sockets, its memory is lost.
Gone ==
  /\ proc' = "exited"
  /\ conn_state' = "disc" /\ opt_dst' = NoAddr /\ opt_mtu' = 0
  /\ iochannel' = 0 /\ attrib' = 0 /\ mgmt_q' = <<>> /\ nchan' = 0
  /\ link' = [c \in Chan |-> "none"]
  /\ peer' = [c \in Chan |-> NoAddr]
  /\ over' = [c \in Chan |-> 0]
  /\ ops' = [c \in Chan |-> <<>>]
  /\ watch' = {} /\ orphan' = {}
  /\ UNCHANGED <<mgmt_master, loop, nevt>>

-----------------------------------------------------------------------------
(* Bearers.  gatt_read_char and the discovery procedures hold a reference   *)
(* to the bearer until they end; writes, reads by UUID and the MTU exchange *)
(* do not, and die with the last reference without a callback.              *)

RefVerbs == {"svcs", "char", "desc", "rd"}

\* procedures that send a further request when a response arrives
LongVerbs == RefVerbs \cup {"wrr"}

RefHeld(q) == \E i \in DOMAIN q : q[i].verb \in RefVerbs

\* the global reference of the bearer is dropped
Unref(b) ==
  IF RefHeld(ops[b])
  THEN /\ orphan' = orphan \cup {b}
       /\ UNCHANGED <<over, ops>>
  ELSE /\ over' = [over EXCEPT ![b] = 0]
       /\ ops' = [ops EXCEPT ![b] = <<>>]
       /\ UNCHANGED orphan

\* the requests of bearer b are now q; an orphan that holds no reference ends
Settle(b, q) ==
  IF b \in orphan /\ ~RefHeld(q)
  THEN /\ over' = [over EXCEPT ![b] = 0]
       /\ ops' = [ops EXCEPT ![b] = <<>>]
       /\ orphan' = orphan \ {b}
       /\ link' = [link EXCEPT ![over[b]] = "closed"]
  ELSE /\ ops' = [ops EXCEPT ![b] = q]
       /\ UNCHANGED <<over, orphan, link>>

\* Bearer b sits on an open socket
Live(b) == over[b] # 0 /\ link[over[b]] = "up"

\* Bearer b sits on a socket that hung up or was shut
Dead(b) == over[b] # 0 /\ link[over[b]] \in {"down", "closed"}

-----------------------------------------------------------------------------
(* State reports and the end of a connection.                               *)

\* mutant: g_io_channel_shutdown is left to the bearer
ShutMutant(c) == attrib # 0 /\ ~RefHeld(ops[attrib]) /\ c = over[attrib]

\* the sockets disconnect_io shuts: its own, and the bearer's with the bearer
Shut(c) ==
  c = iochannel \/ (attrib # 0 /\ ~RefHeld(ops[attrib]) /\ c = over[attrib])

ResetMtu == opt_mtu' = 0

DisconnectIo(re) ==
  \/ /\ conn_state = "disc"
     /\ UNCHANGED <<conn, chans, stdout>>
  \/ /\ conn_state # "disc"
     /\ conn_state' = "disc" /\ ResetMtu
     /\ attrib' = 0 /\ iochannel' = 0
     /\ IF attrib = 0 THEN UNCHANGED <<over, ops, orphan>> ELSE Unref(attrib)
     /\ link' = [c \in Chan |-> IF Shut(c) THEN "closed" ELSE link[c]]
     /\ Say(<<Stat("disc", NoAddr, 0, re)>>)
     /\ UNCHANGED <<opt_dst, nchan, peer>>

CmdStatus(c) ==
  /\ c.verb = "stat"
  /\ Say(<<Stat(conn_state, opt_dst, opt_mtu, c.id)>>)
  /\ UNCHANGED <<conn, chans, watch, mgmt, loop>>

CmdExit(c) ==
  /\ c.verb = "quit"
  /\ loop' = FALSE
  /\ UNCHANGED <<conn, chans, watch, mgmt, stdout>>

CmdDisconnect(c) ==
  /\ c.verb = "disc"
  /\ DisconnectIo(c.id)
  /\ UNCHANGED <<watch, mgmt, loop>>

-----------------------------------------------------------------------------
(* Connecting.                                                              *)

\* "conn" in any state but disconnected is dropped without a line
CanConnect == conn_state = "disc"

CmdConnect(c) ==
  LET dst == IF c.dst = NoAddr THEN opt_dst ELSE c.dst
      n   == nchan + 1
  IN
  /\ c.verb = "conn"
  /\ UNCHANGED <<opt_mtu, attrib, over, ops, orphan, mgmt, loop>>
  /\ \/ /\ ~CanConnect
        /\ UNCHANGED <<conn, chans, watch, stdout>>
     \/ /\ CanConnect /\ dst = NoAddr
        /\ Say(<<Err("badparam", c.id)>>)
        /\ UNCHANGED <<conn, chans, watch>>
     \/ /\ CanConnect /\ dst # NoAddr  \* gatt_connect fails at once
        /\ opt_dst' = dst /\ iochannel' = 0
        /\ Say(<<Stat("tryconn", dst, opt_mtu, c.id),
                 Stat("disc", dst, opt_mtu, c.id)>>)
        /\ UNCHANGED <<conn_state, chans, watch>>
     \/ /\ CanConnect /\ dst # NoAddr /\ n \in Chan
        /\ conn_state' = "tryconn" /\ opt_dst' = dst /\ iochannel' = n
        /\ nchan' = n
        /\ link' = [link EXCEPT ![n] = "connecting"]
        /\ peer' = [peer EXCEPT ![n] = dst]
        /\ watch' = watch \cup {n}
        /\ Say(<<Stat("tryconn", dst, opt_mtu, c.id)>>)

\* The bearer is made over the global iochannel, not over the socket at hand.
\* One turn of the loop dispatches all that was ready: requests left on a
\* socket that was shut are called back before a socket opened later connects.
ConnectCbOk(c) ==
  /\ link[c] = "connecting"
  /\ \A b \in Chan : Dead(b) => ops[b] = <<>>
  /\ link' = [link EXCEPT ![c] = "up"]
  /\ over' = [over EXCEPT ![c] = iochannel]
  /\ attrib' = IF iochannel = 0 THEN 0 ELSE c
  /\ conn_state' = "conn"
  /\ Say(<<Stat("conn", opt_dst, opt_mtu, 0)>>)
  /\ UNCHANGED <<opt_dst, opt_mtu, iochannel>>
  /\ UNCHANGED <<nchan, peer, ops, orphan, watch, mgmt, loop, nevt>>

\* mutant: only the error is reported
ConnectErrLinesMutant == <<Err("connfail", 0)>>

ConnectErrLines == <<Stat("disc", NoAddr, opt_mtu, 0), Err("connfail", 0)>>

ConnectCbErr(c) ==
  /\ link[c] = "connecting"
  /\ link' = [link EXCEPT ![c] = "failed"]
  /\ conn_state' = "disc"
  /\ Say(ConnectErrLines)
  /\ UNCHANGED <<opt_dst, opt_mtu, iochannel, attrib>>
  /\ UNCHANGED <<nchan, peer, over, ops, orphan, watch, mgmt, loop, nevt>>

\* mutant: any hang-up is the connection's
IsCurrentMutant(c) == TRUE

\* channel_watcher's test: the socket that hung up is still the current one
IsCurrent(c) == c = iochannel

\* HUP or NVAL on a socket
ChannelWatcher(c) ==
  /\ c \in watch
  /\ link[c] \in {"down", "failed", "closed"}
  /\ watch' = watch \ {c}
  /\ IF IsCurrent(c) THEN DisconnectIo(0) ELSE UNCHANGED <<conn, chans, stdout>>
  /\ UNCHANGED <<mgmt, loop, nevt>>

-----------------------------------------------------------------------------
(* Requests to the peripheral.                                              *)

\* cmd_primary, cmd_char, cmd_char_desc, cmd_read_hnd,
\* cmd_read_uuid and the write with response.  With a NULL bearer nothing is
\* sent and nothing is printed.
CmdGatt(c) ==
  /\ c.verb \in GattVerbs
  /\ UNCHANGED <<conn, nchan, link, peer, over, orphan, watch, mgmt, loop>>
  /\ \/ /\ conn_state # "conn"
        /\ Say(<<Err("badstate", c.id)>>)
        /\ UNCHANGED ops
     \/ /\ conn_state = "conn" /\ c.arg = 0
        /\ Say(<<Err("badparam", c.id)>>)
        /\ UNCHANGED ops
     \/ /\ conn_state = "conn" /\ c.arg # 0
        /\ ops' = [b \in Chan |->
             IF b = attrib THEN Append(ops[b], Req(c))
                           ELSE ops[b]]
        /\ UNCHANGED stdout

\* the write without response answers before anything is sent
CmdWrite(c) ==
  /\ c.verb = "wr"
  /\ \/ /\ conn_state # "conn"
        /\ Say(<<Err("badstate", c.id)>>)
     \/ /\ conn_state = "conn" /\ c.arg = 0
        /\ Say(<<Err("badparam", c.id)>>)
     \/ /\ conn_state = "conn" /\ c.arg # 0
        /\ Say(<<Data("wr", opt_dst, c.id)>>)
  /\ UNCHANGED <<conn, chans, watch, mgmt, loop>>

\* silent when there is no connection to apply the level to
CmdSecLevel(c) ==
  /\ c.verb = "secu"
  /\ \/ /\ c.arg = 0
        /\ Say(<<Err("badparam", c.id)>>)
     \/ /\ c.arg # 0 /\ conn_state # "conn"
        /\ UNCHANGED stdout
     \/ /\ c.arg # 0 /\ conn_state = "conn"
        /\ \/ Say(<<Stat(conn_state, opt_dst, opt_mtu, c.id)>>)
           \/ Say(<<Err("callfail", c.id)>>)
  /\ UNCHANGED <<conn, chans, watch, mgmt, loop>>

\* mutant: a number can be left before there is a connection
CanSetMtuMutant == opt_mtu = 0

CanSetMtu == conn_state = "conn" /\ opt_mtu = 0

\* opt_mtu takes the number before it is checked or agreed with the peer
CmdMtu(c) ==
  /\ c.verb = "mtu"
  /\ UNCHANGED <<conn_state, opt_dst, iochannel, attrib>>
  /\ UNCHANGED <<nchan, link, peer, over, orphan, watch, mgmt, loop>>
  /\ \/ /\ ~CanSetMtu
        /\ Say(<<Err("badstate", c.id)>>)
        /\ UNCHANGED <<opt_mtu, ops>>
     \/ /\ CanSetMtu
        /\ c.arg < ATT_DEFAULT_LE_MTU
        /\ opt_mtu' = c.arg
        /\ Say(<<Err("badparam", c.id)>>)
        /\ UNCHANGED ops
     \/ /\ CanSetMtu
        /\ c.arg >= ATT_DEFAULT_LE_MTU
        /\ opt_mtu' = c.arg
        /\ ops' = [b \in Chan |->
             IF b = attrib THEN Append(ops[b], Req(c))
                           ELSE ops[b]]
        /\ UNCHANGED stdout

-----------------------------------------------------------------------------
(* Answers of the peripheral, and their absence.                            *)

\* a final response: the callbacks of gatt.c and of the helper print it
AttResult(b) ==
  /\ Live(b) /\ ops[b] # <<>> /\ Head(ops[b]).verb # "mtu"
  /\ Say(<<Data(ResultType(Head(ops[b]).verb), peer[over[b]], Head(ops[b]).id)>>)
  /\ Settle(b, Tail(ops[b]))
  /\ UNCHANGED <<conn, nchan, peer, watch, mgmt, loop, nevt>>

\* an intermediate one: the next request goes to the end of the queue
AttContinue(b) ==
  /\ Live(b) /\ ops[b] # <<>> /\ Head(ops[b]).verb \in LongVerbs
  /\ ops' = [ops EXCEPT ![b] = Append(Tail(@), [Head(@) EXCEPT !.part = TRUE])]
  /\ UNCHANGED <<conn, nchan, link, peer, over, orphan, watch, stdout>>
  /\ UNCHANGED <<mgmt, loop, nevt>>

\* How a request that fails ends.  read_blob_helper forgets the status: a
\* long read that has a part of its value prints it as the result.
Failed(op, dst) ==
  IF op.verb = "rd" /\ op.part THEN Data("rd", dst, op.id)
                               ELSE Err("atterr", op.id)

\* mutant: the request stays in the bearer's queue
AttErrorMutant(b) ==
  /\ Live(b) /\ ops[b] # <<>>
  /\ Say(<<Failed(Head(ops[b]), peer[over[b]])>>)
  /\ UNCHANGED <<over, ops, orphan, link>>
  /\ UNCHANGED <<conn, nchan, peer, watch, mgmt, loop, nevt>>

AttError(b) ==
  /\ Live(b) /\ ops[b] # <<>>
  /\ Say(<<Failed(Head(ops[b]), peer[over[b]])>>)
  /\ Settle(b, Tail(ops[b]))
  /\ UNCHANGED <<conn, nchan, peer, watch, mgmt, loop, nevt>>

\* exchange_mtu_cb: the smaller of the two offers, if the bearer takes it
MtuResult(b, m) ==
  /\ Live(b) /\ ops[b] # <<>> /\ Head(ops[b]).verb = "mtu"
  /\ LET mtu == IF m < opt_mtu THEN m ELSE opt_mtu IN
     \/ /\ attrib # 0 /\ mtu >= ATT_DEFAULT_LE_MTU
        /\ opt_mtu' = mtu
        /\ Say(<<Stat(conn_state, opt_dst, mtu, Head(ops[b]).id)>>)
     \/ /\ attrib = 0 \/ mtu < ATT_DEFAULT_LE_MTU
        /\ Say(<<Err("callfail", Head(ops[b]).id)>>)
        /\ UNCHANGED opt_mtu
  /\ Settle(b, Tail(ops[b]))
  /\ UNCHANGED <<conn_state, opt_dst, iochannel, attrib>>
  /\ UNCHANGED <<nchan, peer, watch, mgmt, loop, nevt>>

\* mutant: the request goes and the link stays
ShutdownMutant(b) == UNCHANGED link

\* bt_att's reaction to a timeout, io_shutdown
Shutdown(b) == link' = [link EXCEPT ![over[b]] = "down"]

\* thirty seconds without an answer: the request goes, and so does the link
AttTimeout(b) ==
  /\ Live(b) /\ ops[b] # <<>>
  /\ \/ /\ b \in orphan /\ ~RefHeld(Tail(ops[b]))
        /\ Settle(b, Tail(ops[b]))
     \/ /\ b \notin orphan \/ RefHeld(Tail(ops[b]))
        /\ ops' = [ops EXCEPT ![b] = Tail(@)]
        /\ Shutdown(b)
        /\ UNCHANGED <<over, orphan>>
  /\ UNCHANGED <<conn, nchan, peer, watch, stdout, mgmt, loop, nevt>>

\* out of range, switched off, or disconnected by the peripheral
LinkLoss(c) ==
  /\ link[c] = "up"
  /\ link' = [link EXCEPT ![c] = "down"]
  /\ UNCHANGED <<conn, nchan, peer, over, ops, orphan, watch, stdout>>
  /\ UNCHANGED <<mgmt, loop, nevt>>

\* An orphan's socket was shut by disconnect_io; its bearer closes the same
\* number again, which belongs to a socket that was opened in between.
SameNumber(b, c) ==
  b \in orphan /\ link[over[b]] = "closed" /\ link[c] = "connecting"

\* disconnect_cb of att.c, after channel_watcher: every request left is
\* called back as failed, the one on the air last, and the bearer's number is
\* closed.  If that drops the last reference of an orphan, the bearer is
\* freed under the handler: the process survives it or aborts there.
FlushBearer(b) ==
  /\ Dead(b) /\ over[b] \notin watch /\ ops[b] # <<>>
  /\ \E q \in {ops[b], Append(Tail(ops[b]), Head(ops[b]))} :
     LET lines == [i \in DOMAIN q |-> Failed(q[i], peer[over[b]])]
         refs  == {i \in DOMAIN q : q[i].verb \in RefVerbs}
     IN \/ /\ Say(lines)
           /\ ops' = [ops EXCEPT ![b] = <<>>]
           /\ over' = [over EXCEPT ![b] = IF b \in orphan THEN 0 ELSE @]
           /\ orphan' = orphan \ {b}
           /\ link' = [c \in Chan |->
                         IF SameNumber(b, c) THEN "closed" ELSE link[c]]
           /\ UNCHANGED <<proc, conn, nchan, peer, watch, mgmt, loop, nevt>>
        \/ /\ b \in orphan
           /\ \E i \in refs :
                /\ \A j \in refs : j <= i
                /\ Say(SubSeq(lines, 1, i))
           /\ Gone

\* events_handler
Notification(b, kind) ==
  /\ Live(b) /\ nevt < MaxEvents
  /\ Say(<<Data(kind, peer[over[b]], 0)>>)
  /\ nevt' = nevt + 1
  /\ UNCHANGED <<conn, chans, watch, mgmt, loop>>

\* gatts_mtu_req: the peripheral exchanges the MTU; a refused value is
\* answered on the air only
PeerMtuReq(b, m) ==
  /\ Live(b) /\ attrib # 0 /\ nevt < MaxEvents
  /\ nevt' = nevt + 1
  /\ \/ /\ m >= ATT_DEFAULT_LE_MTU
        /\ opt_mtu' = m
        /\ Say(<<Stat(conn_state, opt_dst, m, 0)>>)
     \/ /\ m < ATT_DEFAULT_LE_MTU
        /\ UNCHANGED <<opt_mtu, stdout>>
  /\ UNCHANGED <<conn_state, opt_dst, iochannel, attrib>>
  /\ UNCHANGED <<chans, watch, mgmt, loop>>

-----------------------------------------------------------------------------
(* The management socket: one command at a time goes to the kernel.         *)

\* commands that take no argument
BareVerbs == {"pair", "unpair", "local_oob"}

CmdMgmt(c) ==
  /\ c.verb \in MgmtVerbs
  /\ \/ /\ c.arg = 0 /\ c.verb \notin BareVerbs
        /\ Say(<<Mgmt("badparam", c.id)>>)
        /\ UNCHANGED mgmt_q
     \/ /\ c.arg = 0 /\ c.verb = "remote_oob"
        /\ \/ Say(<<Mgmt("notfound", c.id)>>)
           \/ mgmt_master /\ Say(<<Err("badparam", c.id)>>)
        /\ UNCHANGED mgmt_q
     \/ /\ ~mgmt_master
        /\ Say(<<Err("nomgmt", c.id)>>)
        /\ UNCHANGED mgmt_q
     \/ /\ mgmt_master /\ c.verb = "pair" /\ conn_state # "conn"
        /\ Say(<<Mgmt("badstate", c.id)>>)
        /\ UNCHANGED mgmt_q
     \/ /\ mgmt_master /\ c.verb = "unpair" /\ opt_dst = NoAddr
        /\ Say(<<Mgmt("notfound", c.id)>>)
        /\ UNCHANGED mgmt_q
     \/ /\ mgmt_master
        /\ c.arg # 0 \/ c.verb \in BareVerbs
        /\ c.verb = "pair" => conn_state = "conn"
        /\ c.verb = "unpair" => opt_dst # NoAddr
        /\ mgmt_q' = Append(mgmt_q, [verb |-> c.verb, id |-> c.id])
        /\ UNCHANGED stdout
  /\ UNCHANGED <<conn, chans, watch, mgmt_master, loop>>

\* add_remote_oob_data frees "oob" once more at its end, or frees it without
\* having set it: the process survives that, or aborts there
AddOobAborts(c) ==
  /\ c.verb = "remote_oob" /\ mgmt_master /\ c.arg # 0
  /\ Gone
  /\ UNCHANGED stdout

\* set_mode_complete, pair_device_complete, unpair_device_complete, scan_cb,
\* read_local_oob_data_complete; add_remote_oob_data_complete says nothing
\* when it succeeds
MgmtComplete ==
  LET m == Head(mgmt_q) IN
  /\ mgmt_q # <<>>
  /\ mgmt_q' = Tail(mgmt_q)
  /\ \/ /\ m.verb \in {"scan", "scanend"}
        /\ Say(<<Mgmt("busy", m.id)>>)
     \/ Say(<<Mgmt("mgmterr", m.id)>>)
     \/ /\ m.verb = "local_oob"
        /\ Say(<<Data("oob", NoAddr, m.id)>>)
     \/ /\ m.verb = "remote_oob"
        /\ UNCHANGED stdout
     \/ /\ m.verb \notin {"local_oob", "remote_oob"}
        /\ Say(<<Mgmt("success", m.id)>>)
  /\ UNCHANGED <<conn, chans, watch, mgmt_master, loop, nevt>>

\* The kernel tells every management socket that discovery started or ended,
\* whoever asked for it
MgmtScanning(on) ==
  /\ Discovering /\ mgmt_master /\ nevt < MaxEvents
  /\ nevt' = nevt + 1
  /\ conn_state' = IF on THEN "scan" ELSE "disc"
  /\ Say(<<Stat(conn_state', opt_dst, opt_mtu, 0)>>)
  /\ UNCHANGED <<opt_dst, opt_mtu, iochannel, attrib>>
  /\ UNCHANGED <<chans, watch, mgmt, loop>>

MgmtDeviceFound ==
  /\ Discovering /\ mgmt_master /\ nevt < MaxEvents
  /\ conn_state = "scan"
  /\ nevt' = nevt + 1
  /\ Say(<<Data("scan", NoAddr, 0)>>)
  /\ UNCHANGED <<conn, chans, watch, mgmt, loop>>

-----------------------------------------------------------------------------
(* The main loop.                                                           *)

\* parse_line's table of commands
Dispatch(c) ==
  \/ CmdStatus(c) \/ CmdExit(c) \/ CmdConnect(c) \/ CmdDisconnect(c)
  \/ CmdGatt(c) \/ CmdWrite(c) \/ CmdSecLevel(c) \/ CmdMtu(c) \/ CmdMgmt(c)

PromptRead ==
  /\ loop /\ ~eof /\ stdin # <<>>
  /\ \/ Dispatch(Head(stdin)) /\ UNCHANGED <<proc, nevt>>
     \/ AddOobAborts(Head(stdin))
  /\ stdin' = Tail(stdin)
  /\ UNCHANGED <<eof, ncmd>>

\* hang-up of stdin is looked at before the lines that are still in it
PromptEof ==
  /\ loop /\ eof
  /\ loop' = FALSE
  /\ UNCHANGED <<conn, chans, watch, mgmt, nevt, wire>>

\* main() after g_main_loop_run: cmd_disconnect, then exit
Exit ==
  /\ ~loop
  /\ IF conn_state = "disc" THEN UNCHANGED stdout
     ELSE Say(<<Stat("disc", NoAddr, 0, 0)>>)
  /\ Gone
  /\ UNCHANGED <<stdin, eof, ncmd>>

\* what the main loop dispatches besides stdin, and what the radio does
Callback ==
  \/ \E c \in Chan : \/ ConnectCbOk(c) \/ ConnectCbErr(c)
                     \/ ChannelWatcher(c) \/ LinkLoss(c)
  \/ \E b \in Chan : \/ AttResult(b) \/ AttContinue(b) \/ AttError(b)
                     \/ AttTimeout(b)
                     \/ \E kind \in {"ntfy", "ind"} : Notification(b, kind)
                     \/ \E m \in Mtus : MtuResult(b, m) \/ PeerMtuReq(b, m)
  \/ MgmtComplete
  \/ \E on \in BOOLEAN : MgmtScanning(on)
  \/ MgmtDeviceFound

HelperStep ==
  /\ proc = "running"
  /\ \/ PromptRead
     \/ PromptEof
     \/ Exit
     \/ Callback /\ UNCHANGED <<stdin, eof, proc, ncmd>>
     \/ \E b \in Chan : FlushBearer(b) /\ UNCHANGED <<stdin, eof, ncmd>>

-----------------------------------------------------------------------------
HelperTypeOK ==
  /\ conn_state \in ConnState
  /\ opt_dst \in Addr \cup {NoAddr}
  /\ opt_mtu \in Nat
  /\ iochannel \in 0 .. MaxChan
  /\ attrib \in 0 .. MaxChan
  /\ mgmt_master \in BOOLEAN
  /\ mgmt_q \in Seq(MgmtOp)
  /\ loop \in BOOLEAN
  /\ nevt \in Nat
  /\ nchan \in 0 .. MaxChan
  /\ link \in [Chan -> LinkState]
  /\ peer \in [Chan -> Addr \cup {NoAddr}]
  /\ over \in [Chan -> 0 .. MaxChan]
  /\ ops \in [Chan -> Seq(Op)]
  /\ watch \subseteq Chan
  /\ orphan \subseteq Chan

\* Every variable of the helper and of its pipes keeps its type.
TypeOK == WireTypeOK /\ HelperTypeOK
=============================================================================
