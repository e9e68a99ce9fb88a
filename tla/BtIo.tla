-------------------------------- MODULE BtIo --------------------------------
(***************************************************************************)
(* btio/btio.c: Bluetooth sockets in GIOChannels, with their options.  A    *)
(* connection is asked for (bt_io_connect) or awaited (bt_io_listen, then   *)
(* bt_io_accept if the user is to confirm it), and a watch tells the user   *)
(* how it went.  The helper connects through gatt_connect.                  *)
(*                                                                          *)
(* Addresses are left out, but for their type and for whether the socket    *)
(* has a peer.  A kernel that is not modern answers ENOPROTOOPT to          *)
(* BT_SECURITY.                                                             *)
(***************************************************************************)
EXTENDS Integers, Sequences

CONSTANTS Lists,    \* option lists that the program gives: sequences of <<option, value>>
          MaxOwn,   \* bound: sockets that the program creates
          MaxSock,  \* bound: sockets, with those accepted
          MaxSets   \* bound: calls of bt_io_set

\* what may follow an option: gboolean, or an unsigned number
Values(opt) ==
  CASE opt = "SOURCE_TYPE" -> {"BREDR", "LE"}
    [] opt \in {"MASTER", "FLUSHABLE"} -> {0, 1}
    [] OTHER -> Nat

BtIoAssumption ==
  /\ MaxOwn \in Nat /\ MaxSock \in Nat /\ MaxSets \in Nat
  /\ \A list \in Lists :
       /\ list \in Seq({list[i] : i \in DOMAIN list})
       /\ \A i \in DOMAIN list : list[i][2] \in Values(list[i][1])

VARIABLES sock,     \* sequence of sockets, open or not
          modern,   \* of the kernel
          last,     \* options that this step set: on which socket, and whether all were
          nsets

btioVars == <<sock, modern, last, nsets>>

Types == {"L2CAP", "RFCOMM", "SCO"}

-----------------------------------------------------------------------------
(* Options.                                                                 *)

\* struct set_opts, as parse_set_opts begins with it
Defaults ==
  [TYPE |-> "SCO", SOURCE_TYPE |-> "BREDR", DEFER_TIMEOUT |-> 30, SEC_LEVEL |-> 0,
   CHANNEL |-> 0, PSM |-> 0, CID |-> 0, MTU |-> 0, IMTU |-> 0, OMTU |-> 0,
   MASTER |-> -1, MODE |-> 0, FLUSHABLE |-> -1, PRIORITY |-> 0, VOICE |-> 0]

Settable == DOMAIN Defaults \ {"TYPE"}

\* one turn of the loop of parse_set_opts
SetOpt(o, item) ==
  LET opt == item[1]  v == item[2]
      given == [o EXCEPT ![opt] = v]
      mtu == IF o.MTU = 0 THEN v ELSE o.MTU IN
    CASE opt = "CHANNEL"           -> [given EXCEPT !.TYPE = "RFCOMM"]
      [] opt \in {"PSM", "CID"}    -> [given EXCEPT !.TYPE = "L2CAP"]
      [] opt = "MTU"               -> [given EXCEPT !.IMTU = v, !.OMTU = v]
      [] opt \in {"IMTU", "OMTU"}  -> [given EXCEPT !.MTU = mtu]
      [] OTHER                     -> given

Understood(list) == \A i \in DOMAIN list : list[i][1] \in Settable
ParseSetOpts(list) ==
  LET opts[k \in 0 .. Len(list)] == IF k = 0 THEN Defaults ELSE SetOpt(opts[k - 1], list[k])
  IN  opts[Len(list)]

\* lm_map of l2cap_set_lm and rfcomm_set_lm, and back
LmMap == <<{"AUTH"}, {"AUTH", "ENCRYPT"}, {"AUTH", "ENCRYPT", "SECURE"}>>
LmLevel(lm) == IF "SECURE" \in lm THEN 3 ELSE IF "ENCRYPT" \in lm THEN 2 ELSE IF "AUTH" \in lm THEN 1 ELSE 0

If(asked, step) == IF asked THEN <<step>> ELSE <<>>

\* the options set on a socket, in this order
L2capSet(o) ==
  If(o.IMTU # 0 \/ o.OMTU # 0 \/ o.MODE # 0, IF o.SOURCE_TYPE = "BREDR" THEN "l2opts" ELSE "le_imtu")
  \o If(o.MASTER >= 0, "master") \o If(o.FLUSHABLE >= 0, "flushable")
  \o If(o.PRIORITY > 0, "priority") \o If(o.SEC_LEVEL # 0, "sec_level")

RfcommSet(o) == If(o.SEC_LEVEL # 0, "sec_level") \o If(o.MASTER >= 0, "master")

ScoSet(o) == If(o.MTU # 0, "sco_mtu") \o If(o.VOICE # 0, "voice")

Sets(type, o) ==
  CASE type = "L2CAP" -> L2capSet(o) [] type = "RFCOMM" -> RfcommSet(o) [] type = "SCO" -> ScoSet(o)

Keep(new, old) == IF new = 0 THEN old ELSE new

set_l2opts(o, s) == [s EXCEPT !.IMTU = Keep(o.IMTU, @), !.OMTU = Keep(o.OMTU, @), !.MODE = Keep(o.MODE, @)]
set_le_imtu(o, s) == [s EXCEPT !.IMTU = o.IMTU]
sco_set(o, s) == [s EXCEPT !.IMTU = o.MTU, !.OMTU = o.MTU]
set_master(o, s) == [s EXCEPT !.lm = IF o.MASTER = 1 THEN @ \cup {"MASTER"} ELSE @ \ {"MASTER"}]
set_flushable(o, s) == [s EXCEPT !.FLUSHABLE = o.FLUSHABLE]
set_priority(o, s) == [s EXCEPT !.PRIORITY = o.PRIORITY]
\* the flags of an older kernel's security level take the place of all flags
set_sec_level(o, s) ==
  IF modern THEN [s EXCEPT !.SEC_LEVEL = o.SEC_LEVEL] ELSE [s EXCEPT !.lm = LmMap[o.SEC_LEVEL]]

\* a step, on socket s; nobody reads the voice setting back
SetStep(o, s, step) ==
  CASE step = "l2opts"    -> set_l2opts(o, s)
    [] step = "le_imtu"   -> set_le_imtu(o, s)
    [] step = "sco_mtu"   -> sco_set(o, s)
    [] step = "master"    -> set_master(o, s)
    [] step = "flushable" -> set_flushable(o, s)
    [] step = "priority"  -> set_priority(o, s)
    [] step = "sec_level" -> set_sec_level(o, s)
    [] step = "voice"     -> s

\* the kernel took the first n steps, of at most five (in L2capSet)
Most == 5

Applied(o, s, n) ==
  LET After(x, k) == IF k <= n THEN SetStep(o, x, Sets(s.type, o)[k]) ELSE x
  IN  After(After(After(After(After(s, 1), 2), 3), 4), 5)

\* set_sec_level refuses levels that it does not know
Takes(o, s) ==
  {n \in 0 .. Len(Sets(s.type, o)) :
     \A i \in 1 .. n : Sets(s.type, o)[i] = "sec_level" => o.SEC_LEVEL \in 1 .. 3}

All(o, s, n) == n = Len(Sets(s.type, o))

\* the options that l2cap_get, rfcomm_get and sco_get know, and those that take
\* the name of the peer
Known(type) ==
  CASE type = "L2CAP"  -> {"DEST", "DEFER_TIMEOUT", "SEC_LEVEL", "PSM", "CID", "IMTU", "OMTU", "MASTER", "MODE", "FLUSHABLE", "PRIORITY"}
    [] type = "RFCOMM" -> {"DEST", "DEFER_TIMEOUT", "SEC_LEVEL", "CHANNEL", "MASTER"}
    [] type = "SCO"    -> {"DEST", "MTU", "IMTU", "OMTU"}

NeedsPeer(s, name) ==
  \/ s.type = "SCO" \/ name = "DEST"
  \/ (name \in {"PSM", "CID", "CHANNEL"} /\ ~s.hasPSM)

\* bt_io_get has an answer
Tells(s, name) == name \in Known(s.type) /\ (NeedsPeer(s, name) => s.state = "up")

Got(s, name) ==
  CASE name = "MASTER"    -> IF "MASTER" \in s.lm THEN 1 ELSE 0
    [] name = "SEC_LEVEL" -> IF modern THEN s.SEC_LEVEL ELSE LmLevel(s.lm)
    [] name \in {"IMTU", "OMTU", "MODE", "FLUSHABLE", "PRIORITY"} -> s[name]
    [] name = "MTU"       -> s.IMTU
    [] OTHER              -> 0

-----------------------------------------------------------------------------
(* Sockets.                                                                 *)

NewSock(type, o) ==
  [type |-> type, le |-> o.SOURCE_TYPE # "BREDR",
   state |-> "bound",             \* also connecting, listening, deferred, accepting, up, down
   hasPSM |-> FALSE, confirms |-> FALSE,
   open |-> TRUE, refs |-> 1,     \* of the GIOChannel
   shut |-> FALSE,                \* by the program
   watch |-> "none", added |-> 0, destroyed |-> 0,
   told |-> <<>>, wasUp |-> FALSE,
   lm |-> {}, SEC_LEVEL |-> 0, IMTU |-> 1, OMTU |-> 1, MODE |-> 0, FLUSHABLE |-> 0, PRIORITY |-> 0]

S == DOMAIN sock
Set(i, new) == sock' = [sock EXCEPT ![i] = new]

\* a reference is given up; the last one closes the socket
Unref(s) == [s EXCEPT !.refs = @ - 1, !.open = @ /\ s.refs > 1]

\* connect_add, server_add, accept_add
Watch(s, kind) == [s EXCEPT !.watch = kind, !.added = @ + 1, !.refs = @ + 1]

\* a watch that returns FALSE: connect_remove and the others
Unwatch(s) == Unref([s EXCEPT !.watch = "none", !.destroyed = @ + 1])

NothingSet == [sock |-> 0, o |-> Defaults, ok |-> FALSE]

BtIoInit == sock = <<>> /\ modern \in BOOLEAN /\ last = NothingSet /\ nsets = 0

\* mutant: the socket stays open when bind or an option fails
CloseMutant(s) == [s EXCEPT !.refs = 0]

\* failed: of create_io
Close(s) == [s EXCEPT !.open = FALSE, !.refs = 0]

\* connect and listen, and the watch that goes with them
Begun(s, kind, confirms) ==
  IF kind = "connect" THEN Watch([s EXCEPT !.state = "connecting"], kind)
  ELSE Watch([s EXCEPT !.state = "listening", !.hasPSM = TRUE, !.confirms = confirms], kind)

\* create_io, with bind and the first n options taken, and what its caller does
\* with the socket, which the kernel may refuse
Create(list, bound, n, kind, confirms, ok) ==
  /\ Len(sock) < MaxOwn /\ Understood(list)
  /\ LET o == ParseSetOpts(list)  new == NewSock(o.TYPE, o)  set == Applied(o, new, n)
         created == bound /\ All(o, new, n)  started == created /\ ok IN
       /\ n \in Takes(o, new)
       /\ sock' = Append(sock, IF started THEN Begun(set, kind, confirms)
                               ELSE IF created THEN Unref(set) ELSE Close(new))
       /\ last' = [sock |-> Len(sock) + 1, o |-> o, ok |-> started]
  /\ UNCHANGED <<modern, nsets>>

\* bt_io_connect: connect fails at once, or is under way
Connect(list, bound, n, ok) == Create(list, bound, n, "connect", FALSE, ok)

\* bt_io_listen
Listen(list, confirms, bound, n, ok) == Create(list, bound, n, "server", confirms, ok)

Held(i) == sock[i].open /\ sock[i].refs > (IF sock[i].watch = "none" THEN 0 ELSE 1)

\* bt_io_set: what precedes an option that fails stays set.  The source type of
\* the list (BR/EDR, if it names none), not the socket's, chooses how the MTU is
\* set; the kernel may refuse it to a socket of the other type.
BtIoSet(i, list, n) ==
  /\ nsets < MaxSets /\ Held(i) /\ Understood(list)
  /\ LET o == ParseSetOpts(list)  s == sock[i] IN
       /\ n \in Takes(o, s)
       /\ Set(i, Applied(o, s, n))
       /\ last' = [sock |-> i, o |-> o, ok |-> All(o, s, n)]
  /\ nsets' = nsets + 1 /\ UNCHANGED modern

Else == last' = NothingSet /\ UNCHANGED <<modern, nsets>>

\* bt_io_accept of a connection that the program confirms; nothing is done if poll or
\* read fails
BtIoAccept(i) ==
  /\ Held(i) /\ sock[i].state \in {"deferred", "up", "down"} /\ sock[i].watch = "none"
  /\ sock[i].confirms /\ sock[i].added = 0
  /\ Set(i, Watch([sock[i] EXCEPT !.state = IF @ = "deferred" THEN "accepting" ELSE @], "accept"))
  /\ Else

\* the program is done with a socket, or closes it while others hold it
Release(i) ==
  /\ sock[i].refs > (IF sock[i].watch = "none" THEN 0 ELSE 1)
  /\ Set(i, Unref(sock[i]))
  /\ Else

ShutDown(i) ==
  /\ Held(i) /\ Set(i, [sock[i] EXCEPT !.open = FALSE, !.shut = TRUE])
  /\ Else

-----------------------------------------------------------------------------
(* Watches.                                                                 *)

Tell(s, word) == [s EXCEPT !.told = Append(@, word)]

\* mutant: SO_ERROR is not looked at
WordsMutant(s) == {"ok"}

\* what connect_cb and accept_cb say: accept_cb asks for SO_ERROR only after a
\* hang-up, and there is none to tell once a link that was up is down
Words(s) == CASE s.state = "up" -> {"ok"}
              [] s.state = "down" /\ s.wasUp  -> {"ok", "error"}
              [] s.state = "down" /\ ~s.wasUp -> {"error"}

\* G_IO_OUT, G_IO_ERR or G_IO_HUP
Ready(s) == s.state \in {"up", "down"}

\* connect_cb, accept_cb; a socket that was closed is not spoken of
AttemptEnds(i) ==
  /\ sock[i].watch \in {"connect", "accept"}
  /\ \/ sock[i].open /\ Ready(sock[i])
          /\ \E word \in Words(sock[i]) : Set(i, Unwatch(Tell(sock[i], word)))
     \/ ~sock[i].open /\ Set(i, Unwatch(sock[i]))
  /\ Else

\* server_cb: accept, and the program is told and may keep the connection; a
\* server that was closed is watched no more
ServerCb(i, keeps) ==
  /\ sock[i].watch = "server" /\ sock[i].open /\ Len(sock) < MaxSock
  /\ LET new == [NewSock(sock[i].type, Defaults) EXCEPT
                   !.state = IF sock[i].confirms THEN "deferred" ELSE "up",
                   !.le = sock[i].le, !.hasPSM = TRUE, !.confirms = sock[i].confirms, !.wasUp = ~sock[i].confirms] IN
       sock' = Append(sock, IF keeps THEN new ELSE Unref(new))
  /\ Else

ServerEnds(i) ==
  /\ sock[i].watch = "server" /\ ~sock[i].open
  /\ Set(i, Unwatch(sock[i]))
  /\ Else

-----------------------------------------------------------------------------
(* The kernel and the peers.                                                *)

Resolves(i) ==
  /\ sock[i].open /\ sock[i].state \in {"connecting", "accepting"}
  /\ \E up \in BOOLEAN : Set(i, [sock[i] EXCEPT !.state = IF up THEN "up" ELSE "down", !.wasUp = up])
  /\ Else

HangsUp(i) ==
  /\ sock[i].open /\ sock[i].state \in {"deferred", "up"}
  /\ Set(i, [sock[i] EXCEPT !.state = "down"])
  /\ Else

Dispatched(i) == AttemptEnds(i) \/ ServerEnds(i)

BtIoNext ==
  \/ \E list \in Lists, n \in 0 .. Most, b, ok \in BOOLEAN :
        Connect(list, b, n, ok) \/ \E confirms \in BOOLEAN : Listen(list, confirms, b, n, ok)
  \/ \E i \in S :
       \/ \E list \in Lists, n \in 0 .. Most : BtIoSet(i, list, n)
       \/ BtIoAccept(i) \/ Release(i) \/ ShutDown(i)
       \/ Dispatched(i) \/ \E keeps \in BOOLEAN : ServerCb(i, keeps)
       \/ Resolves(i) \/ HangsUp(i)

\* an attempt to connect ends, and the main loop dispatches the watch
BtIoFairness ==
  \A i \in 1 .. MaxSock :
    /\ WF_btioVars(i \in S /\ Dispatched(i)) /\ WF_btioVars(i \in S /\ Resolves(i))

BtIoFairSpec == BtIoInit /\ [][BtIoNext]_btioVars /\ BtIoFairness

-----------------------------------------------------------------------------
(* Properties.                                                              *)

\* A socket that nobody refers to is closed, and one that is referred to is
\* open until the program closes it: on every way out of create_io,
\* bt_io_connect and bt_io_listen, and after the last watch.
ClosedWhenUnused == \A i \in S : sock[i].open <=> sock[i].refs > 0 /\ ~sock[i].shut

\* Whoever waits for a connection hears of it once: that it is there only if it
\* was; and what was handed to the watch is destroyed once, when it is gone.
ToldOnce ==
  \A i \in S :
    /\ Len(sock[i].told) <= 1
    /\ sock[i].told = <<"ok">> => sock[i].wasUp
    /\ sock[i].destroyed = sock[i].added - (IF sock[i].watch = "none" THEN 0 ELSE 1)

\* The options that take effect on a socket of a type.  An LE socket has no mode
\* and an outgoing MTU of the peer's, and a list of the LE type sets neither on
\* a BR/EDR socket: l2cap_set looks at the list.  (An older kernel keeps the
\* master flag of an L2CAP socket only if no security level is set after it:
\* l2cap_set_lm overwrites it, and l2cap_set sets the level last.)
Effective(s, o) ==
  CASE s.type = "SCO"    -> {"MTU"}
    [] s.type = "RFCOMM" -> {"SEC_LEVEL", "MASTER"}
    [] s.type = "L2CAP"  -> {"IMTU", "FLUSHABLE", "PRIORITY", "SEC_LEVEL"}
                            \cup (IF s.le \/ o.SOURCE_TYPE # "BREDR" THEN {} ELSE {"OMTU", "MODE"})
                            \cup (IF modern \/ o.SEC_LEVEL = 0 THEN {"MASTER"} ELSE {})

\* If all options were set, bt_io_get tells each of those given.
OptionsKept ==
  last.ok => LET s == sock[last.sock] IN
    \A name \in Effective(s, last.o) : last.o[name] # Defaults[name] =>
      name \in Known(s.type) /\ (Tells(s, name) => Got(s, name) = last.o[name])

Waits(i) == i \in S /\ sock[i].watch \in {"connect", "accept"}
Served(i) == i \in S /\ sock[i].watch = "none"

\* Every attempt to connect is heard of, or was given up by closing the socket.
AttemptsEnd == \A i \in 1 .. MaxSock : Waits(i) ~> Served(i)
=============================================================================
