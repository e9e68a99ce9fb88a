------------------------------ MODULE Session ------------------------------
(***************************************************************************)
(* A Python program, the helper it starts, and the peripheral: Client and   *)
(* Helper joined by the two pipes.                                          *)
(***************************************************************************)
EXTENDS Client, Helper

CONSTANT Killable   \* the helper may be killed from outside

ASSUME SessionAssumption == Killable \in BOOLEAN

vars == <<wire, client, helper>>

SessionInit == WireInit /\ ClientInit /\ Init

Spawned == proc # "running" /\ proc' = "running"

ClientStep ==
  /\ Application \/ Library \/ ReadToQueue
  /\ IF Spawned THEN Boot ELSE UNCHANGED helper

Helping == HelperStep /\ UNCHANGED client

Killed ==
  /\ Killable /\ proc = "running"
  /\ Gone
  /\ UNCHANGED <<stdin, stdout, eof, ncmd, client>>

Next == ClientStep \/ Helping \/ Killed

Spec == SessionInit /\ [][Next]_vars

-----------------------------------------------------------------------------
(* Fairness.  The library's own steps, the reader thread and the helper's   *)
(* main loop are never suspended for ever; but prompt_read, once it has the *)
(* beginning of a line, blocks until it has the end, and nothing else is    *)
(* dispatched then.  A connection attempt ends one way or the other (the    *)
(* kernel gives up), a request is answered or its thirty-second timer       *)
(* fires, a management command completes.  Nothing obliges the application  *)
(* to call, the peripheral to notify, or the link to break.                 *)

\* the main loop is inside prompt_read, with half a line
Stuck == partial /\ stdin = <<>>

Resolve(b) == AttResult(b) \/ AttError(b) \/ AttTimeout(b)
              \/ \E m \in Mtus : MtuResult(b, m)

Callbacks(A) == proc = "running" /\ ~Stuck /\ A
                /\ UNCHANGED <<stdin, eof, proc, ncmd, client>>

Fairness ==
  /\ WF_vars(Library /\ UNCHANGED helper)
  /\ WF_vars(ReadToQueue /\ UNCHANGED helper)
  /\ WF_vars(proc = "running" /\ PromptRead /\ UNCHANGED client)
  /\ WF_vars(proc = "running" /\ Exit /\ UNCHANGED client)
  /\ WF_vars(Callbacks(MgmtComplete))
  /\ \A c \in Chan :
       /\ WF_vars(Callbacks(ConnectCbOk(c) \/ ConnectCbErr(c)))
       /\ WF_vars(Callbacks(ChannelWatcher(c)))
       /\ WF_vars(Callbacks(Resolve(c)))
       /\ WF_vars(/\ proc = "running" /\ ~Stuck /\ FlushBearer(c)
                  /\ UNCHANGED <<stdin, eof, ncmd, client>>)

FairSpec == Spec /\ Fairness

-----------------------------------------------------------------------------
(* Properties.                                                              *)

SessionTypeOK ==
  /\ TypeOK
  /\ helper_up \in BOOLEAN /\ delegate \in BOOLEAN /\ mtu \in Nat
  /\ lineq \in Seq(Line) /\ partial \in BOOLEAN
  /\ Len(stack) <= 2

\* A value that a call returns was read by that very call: no answer is left
\* over for, or taken by, another one.
Answered == {"discoverServices", "getCharacteristics", "getDescriptors",
             "readCharacteristic", "writeCharacteristic", "writeWithResponse",
             "pair", "unpair", "getLocalOOB"}
OwnAnswer ==
  /\ SessionTypeOK
  /\ last.call \in Answered /\ last.how \in {"ok", "gatt", "mgmt"} =>
       last.line.re = last.id

\* connect() returns normally only when the helper is talking to the device
\* it was asked for.
ConnectedToTheRightOne ==
  last.call = "connect" /\ last.how = "ok" => last.line.dst = last.dst

\* Whoever is told that the device is disconnected has no helper left that
\* could still hold the link ("cleans up associated OS resources").
DisconnectedIsStopped ==
  (stack = <<>> /\ helper_up) =>
    ~(last.how = "disc" \/ (last.call = "disconnect" /\ last.how = "ok"))

\* getMTU() agrees with the helper whenever every line has been looked at.
Drained == stdin = <<>> /\ stdout = <<>> /\ lineq = <<>>
MtuAgrees ==
  (helper_up /\ proc = "running" /\ Drained) => mtu = opt_mtu

\* Every call returns or raises.
CallsReturn == (stack # <<>>) ~> (stack = <<>>)

=============================================================================
