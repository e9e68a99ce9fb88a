----------------------------- MODULE ScanHelper -----------------------------
(***************************************************************************)
(* Scanning as the helper does it: the active scan through the kernel's     *)
(* management interface (scan, scanend) and the passive one through raw HCI *)
(* sockets (pasv, pasvend), with the pipes, the kernel and the radio.       *)
(*                                                                          *)
(* Helpers are numbered in the order they are started.  The pipe of one     *)
(* that has exited may still hold lines.                                    *)
(***************************************************************************)
EXTENDS Naturals, Sequences, SequencesExt

CONSTANTS Addr, AddrType,  \* of the devices that advertise
          Master,          \* whether the management socket opens: subset of BOOLEAN
          MaxHelpers,      \* bound: helpers started
          MaxLines         \* bound: lines and events under way when the air adds another

ASSUME ScanAssumption == MaxHelpers \in Nat /\ MaxLines \in Nat /\ Master \subseteq BOOLEAN

VARIABLES
  stdin,       \* commands written and not yet read by the helper
  stdout,      \* of each helper, lines printed and not yet read
  running,     \* number of the helper that runs, 0 if none does
  mgmt_master, \* its management socket is open
  conn_state,
  requests,    \* management requests not yet written to the kernel
  events,      \* management events the kernel has sent and the helper not read
  monitors,    \* packets seen by each hci_monitor_cb watch, oldest watch first
  discovery,   \* who the kernel discovers devices for: "none", "us", "other"
  radio        \* who has the controller receive advertising: "off", "us", "other"

helperVars == <<stdin, stdout, running, mgmt_master, conn_state, requests, events, monitors, discovery, radio>>

-----------------------------------------------------------------------------
Helpers == 1 .. MaxHelpers
Device == [addr : Addr, type : AddrType]

NoDevice == [addr |-> "none", type |-> "none"]

\* a line of a response: dev is the device of a "scan" line
Line(rsp, tag) == [rsp |-> rsp, tag |-> tag, dev |-> NoDevice]

Found(dev) == [rsp |-> "scan", tag |-> "-", dev |-> dev]

Lines == {Line("err", "nomgmt")}
         \cup {Line("mgmt", c) : c \in {"success", "busy", "mgmterr", "badstate"}}
         \cup {Line("stat", s) : s \in {"disc", "scan"}}
         \cup [rsp : {"scan"}, tag : {"-"}, dev : Device]

\* management events, and packets of the controller
Completed(code)   == [ev |-> "complete", tag |-> code, dev |-> NoDevice]
Discovering(st)   == [ev |-> "discovering", tag |-> st, dev |-> NoDevice]
DeviceFound(dev)  == [ev |-> "found", tag |-> "-", dev |-> dev]
Packet(enable)    == [pkt |-> enable, dev |-> NoDevice]
Report(dev)       == [pkt |-> "report", dev |-> dev]

Verbs == {"le", "scan", "scanend", "pasv", "pasvend", "quit"}

ScanHelperInit ==
  /\ stdin = <<>>
  /\ stdout = [h \in Helpers |-> <<>>]
  /\ running = 0 /\ mgmt_master = FALSE
  /\ conn_state = "disc"
  /\ requests = <<>> /\ events = <<>> /\ monitors = <<>>
  /\ discovery = "none" /\ radio = "off"

\* main and mgmt_setup, of helper h
Start(h) ==
  /\ running' = h
  /\ mgmt_master' \in Master
  /\ conn_state' = "disc"
  /\ requests' = <<>> /\ events' = <<>> /\ monitors' = <<>>
  /\ UNCHANGED <<stdout, discovery, radio>>

Say(lines) == stdout' = [stdout EXCEPT ![running] = @ \o lines]

-----------------------------------------------------------------------------
(* The radio.  Every watch sees the packets of the controller, commands of  *)
(* other sockets included.                                                  *)

Seen(packet) == [i \in DOMAIN monitors |-> Append(monitors[i], packet)]

\* LE_SET_SCAN_ENABLE by the kernel or by another program
Switch(to) ==
  /\ radio' = to
  /\ monitors' = Seen(Packet(IF to = "off" THEN "disable" ELSE "enable"))

-----------------------------------------------------------------------------
(* Commands.                                                                *)

Read(verb) == /\ running # 0 /\ stdin # <<>> /\ Head(stdin) = verb
              /\ stdin' = Tail(stdin)

\* cmd_le, cmd_scan, cmd_scanend: set_mode and scan
CmdMgmt(verb) ==
  /\ verb \in {"le", "scan", "scanend"} /\ Read(verb)
  /\ IF mgmt_master
     THEN requests' = Append(requests, verb) /\ UNCHANGED stdout
     ELSE Say(<<Line("err", "nomgmt")>>) /\ UNCHANGED requests
  /\ UNCHANGED <<running, mgmt_master, conn_state, events, monitors, discovery, radio>>

\* discover(TRUE): the device cannot be opened, or takes no parameters, or does
\* not enable the scan although a watch is there already, or all is well.  The
\* new watch hears only of what others send.
Attempts == {"nodev", "params", "enable", "ok"}

Written(how) == CASE how = "nodev" -> <<>>
                  [] how = "params" -> <<Packet("disable")>>
                  [] how \in {"enable", "ok"} -> <<Packet("disable"), Packet("enable")>>

Watching(how) == how \in {"enable", "ok"}
Others(how) == [i \in DOMAIN monitors |-> monitors[i] \o Written(how)]

\* mutant: the new watch hears what its own socket sends
HeardMutant(how) == IF Watching(how) THEN Append(Others(how), Written(how)) ELSE Others(how)

Heard(how) == IF Watching(how) THEN Append(Others(how), <<>>) ELSE Others(how)

\* bound: the main loop dispatches a watch that has something to read before
\* it reads one command after another
Dispatched == Len(FlattenSeq(monitors)) <= 1

CmdPasv(how) ==
  /\ Read("pasv") /\ Dispatched
  /\ monitors' = Heard(how)
  /\ radio' = CASE how = "nodev" -> radio [] how = "ok" -> "us" [] OTHER -> "off"
  /\ IF how = "ok"
     THEN Say(<<Line("mgmt", "success"), Line("stat", "scan")>>) /\ conn_state' = "scan"
     ELSE Say(<<Line("mgmt", "badstate")>>) /\ UNCHANGED conn_state
  /\ UNCHANGED <<running, mgmt_master, requests, events, discovery>>

\* mutant: the scan is said to have ended and goes on
PasvEndMutant(how) == UNCHANGED <<monitors, radio>>

\* discover(FALSE): a socket of its own switches the radio off
PasvEnd(how) ==
  /\ radio' = IF how = "ok" THEN "off" ELSE radio
  /\ monitors' = IF how = "nodev" THEN monitors ELSE Seen(Packet("disable"))

CmdPasvEnd(how) ==
  /\ Read("pasvend")
  /\ PasvEnd(how)
  /\ Say(<<Line("mgmt", IF how = "ok" THEN "success" ELSE "badstate"), Line("stat", "disc")>>)
  /\ conn_state' = "disc"
  /\ UNCHANGED <<running, mgmt_master, requests, events, discovery>>

\* quit, the end of main: cmd_disconnect, and all sockets closed
CmdQuit ==
  /\ Read("quit")
  /\ Say(IF conn_state = "disc" THEN <<>> ELSE <<Line("stat", "disc")>>)
  /\ running' = 0 /\ conn_state' = "disc"
  /\ requests' = <<>> /\ events' = <<>> /\ monitors' = <<>>
  /\ UNCHANGED <<mgmt_master, discovery, radio>>

PromptRead ==
  \/ \E v \in Verbs : CmdMgmt(v)
  \/ \E how \in Attempts : CmdPasv(how)
  \/ \E how \in {"nodev", "refused", "ok"} : CmdPasvEnd(how)
  \/ CmdQuit

-----------------------------------------------------------------------------
(* Callbacks of the main loop.                                              *)

Reports(dev) == IF conn_state = "scan" THEN <<Found(dev)>> ELSE <<>>

\* scan_cb and set_mode_complete, mgmt_scanning, mgmt_device_found
MgmtEvent ==
  /\ running # 0 /\ events # <<>>
  /\ events' = Tail(events)
  /\ LET e == Head(events) IN
       CASE e.ev = "complete"    -> /\ Say(<<Line("mgmt", e.tag)>>)
                                    /\ UNCHANGED conn_state
         [] e.ev = "discovering" -> /\ conn_state' = e.tag
                                    /\ Say(<<Line("stat", e.tag)>>)
         [] e.ev = "found"       -> Say(Reports(e.dev)) /\ UNCHANGED conn_state
  /\ UNCHANGED <<stdin, running, mgmt_master, requests, monitors, discovery, radio>>

EndsScan(packet) == packet.pkt = "disable"

Drop(i) == [j \in 1 .. Len(monitors) - 1 |-> monitors[IF j < i THEN j ELSE j + 1]]

\* hci_monitor_cb of the i-th watch
HciMonitor(i) ==
  /\ running # 0 /\ monitors[i] # <<>>
  /\ LET packet == Head(monitors[i]) IN
       IF EndsScan(packet)
       THEN /\ monitors' = Drop(i)
            /\ conn_state' = "disc"
            /\ Say(IF conn_state = "scan" THEN <<Line("stat", "disc")>> ELSE <<>>)
       ELSE /\ monitors' = [monitors EXCEPT ![i] = Tail(@)]
            /\ Say(IF packet.pkt = "report" THEN Reports(packet.dev) ELSE <<>>)
            /\ UNCHANGED conn_state
  /\ UNCHANGED <<stdin, running, mgmt_master, requests, events, discovery, radio>>

-----------------------------------------------------------------------------
(* The kernel and the air.                                                  *)

Tell(evs) == events' = IF running # 0 /\ mgmt_master THEN events \o evs ELSE events

\* the first request is carried out, or fails; START is refused while devices
\* are discovered, STOP while they are not
KernelDoes(ok) ==
  /\ running # 0 /\ requests # <<>>
  /\ requests' = Tail(requests)
  /\ CASE ~ok -> /\ Tell(<<Completed("mgmterr")>>)
                 /\ UNCHANGED <<discovery, radio, monitors>>
       [] ok /\ Head(requests) = "le" ->
                 /\ Tell(<<Completed("success")>>)
                 /\ UNCHANGED <<discovery, radio, monitors>>
       [] ok /\ Head(requests) = "scan" /\ discovery # "none" ->
                 /\ Tell(<<Completed("busy")>>)
                 /\ UNCHANGED <<discovery, radio, monitors>>
       [] ok /\ Head(requests) = "scan" /\ discovery = "none" ->
                 /\ Tell(<<Completed("success"), Discovering("scan")>>)
                 /\ discovery' = "us" /\ Switch("us")
       [] ok /\ Head(requests) = "scanend" /\ discovery = "none" ->
                 /\ Tell(<<Completed("mgmterr")>>)
                 /\ UNCHANGED <<discovery, radio, monitors>>
       [] ok /\ Head(requests) = "scanend" /\ discovery # "none" ->
                 /\ Tell(<<Completed("success"), Discovering("disc")>>)
                 /\ discovery' = "none" /\ Switch("off")
  /\ UNCHANGED <<stdin, stdout, running, mgmt_master, conn_state>>

\* the lines and events on their way to the program
UnderWay == Len(FlattenSeq(stdout)) + Len(events) + Len(FlattenSeq(monitors))

\* a discovery ends after some ten seconds
DiscoveryEnds ==
  /\ discovery # "none"
  /\ discovery' = "none" /\ Switch("off")
  /\ Tell(<<Discovering("disc")>>)
  /\ UNCHANGED <<stdin, stdout, running, mgmt_master, conn_state, requests>>

\* another program discovers devices, or ends what is under way on the radio
OtherStarts ==
  /\ discovery = "none"
  /\ discovery' = "other" /\ Switch("other")
  /\ Tell(<<Discovering("scan")>>)
  /\ UNCHANGED <<stdin, stdout, running, mgmt_master, conn_state, requests>>

OtherDisables ==
  /\ discovery = "none" /\ radio # "off"
  /\ Switch("off")
  /\ UNCHANGED <<stdin, stdout, running, mgmt_master, conn_state, requests, events, discovery>>

\* a device advertises
Advertises(dev) ==
  /\ radio # "off" /\ running # 0
  /\ Tell(IF discovery # "none" THEN <<DeviceFound(dev)>> ELSE <<>>)
  /\ monitors' = Seen(Report(dev))
  /\ UNCHANGED <<stdin, stdout, running, mgmt_master, conn_state, requests, discovery, radio>>

Air == DiscoveryEnds \/ OtherStarts \/ OtherDisables \/ \E d \in Device : Advertises(d)
=============================================================================
