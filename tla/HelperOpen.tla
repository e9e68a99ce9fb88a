----------------------------- MODULE HelperOpen -----------------------------
(***************************************************************************)
(* The helper under any client: whoever holds its pipes may write any       *)
(* command at any time, close the pipe, or start the helper again when it   *)
(* is gone.  Nothing reads stdout, so stdout is the history of the output.  *)
(* What holds here holds whatever btle.py, or a person at a terminal, does. *)
(***************************************************************************)
EXTENDS Helper

CONSTANTS Verbs,      \* the commands the client uses
          Args        \* the numbers it passes

ASSUME OpenAssumption == Verbs \subseteq AllVerbs /\ Args \subseteq Nat

vars == <<wire, helper>>

OpenInit == WireInit /\ Init

Spawn ==
  /\ proc = "none"
  /\ proc' = "running"
  /\ Boot
  /\ UNCHANGED <<stdin, stdout, eof, ncmd>>

Send(verb, dst, arg) ==
  /\ proc = "running" /\ ~eof /\ ncmd < MaxCmds
  /\ ncmd' = ncmd + 1
  /\ stdin' = Append(stdin, Cmd(verb, ncmd + 1, dst, arg))
  /\ UNCHANGED <<stdout, eof, proc, helper>>

Close ==
  /\ proc = "running" /\ ~eof
  /\ eof' = TRUE
  /\ UNCHANGED <<stdin, stdout, proc, ncmd, helper>>

Client ==
  \/ Spawn
  \/ \E verb \in Verbs, arg \in Args :
       \/ verb = "conn" /\ \E dst \in Addr \cup {NoAddr} : Send(verb, dst, arg)
       \/ verb # "conn" /\ Send(verb, NoAddr, arg)
  \/ Close

Next == Client \/ HelperStep

Spec == OpenInit /\ [][Next]_vars

-----------------------------------------------------------------------------
(* Properties.                                                              *)

\* In the connected state, the only one in which the handlers use the two
\* pointers, neither is NULL, and the bearer sits on the current socket.
\* Nothing in the handlers checks them: cmd_read_hnd and its like look at
\* conn_state alone.
ConnectedHasBearer ==
  ~Discovering =>
    (conn_state = "conn" =>
       /\ iochannel # 0 /\ attrib # 0
       /\ over[attrib] = iochannel
       /\ link[iochannel] \in {"up", "down"})

\* No socket but the current one is connecting or connected: a connection the
\* helper no longer knows of would keep the peripheral from advertising.
NoLostLink ==
  ~Discovering =>
    \A c \in Chan : link[c] \in {"connecting", "up"} =>
      c = iochannel /\ conn_state # "disc"

\* Why the two hold: what each state of the connection says of the socket
\* and the bearer, and what is left of earlier connections.  A bearer that
\* outlived its connection sits on a socket that is closed for good, so
\* nothing that happens to it can reach the connection at hand.  A number
\* left in opt_mtu belongs to the connection at hand, so that the next one can
\* still exchange its MTU ("can only set once per connection").
Connecting ==
  conn_state = "tryconn" =>
    iochannel # 0 /\ attrib = 0 /\ link[iochannel] \in {"connecting", "closed"}
Connected ==
  conn_state = "conn" =>
    /\ iochannel # 0 /\ attrib = iochannel
    /\ over[attrib] = iochannel
    /\ link[iochannel] \in {"up", "down"}
Disconnected == conn_state = "disc" => attrib = 0
OneSocket ==
  \A c \in Chan : link[c] \in {"connecting", "up", "down"} =>
    c = iochannel /\ conn_state # "disc"
OldBearers ==
  \A b \in Chan :
    /\ over[b] # 0 => over[b] = b /\ (b = attrib \/ link[b] = "closed")
    /\ b \in orphan => over[b] = b /\ link[b] = "closed"
Unopened == \A c \in Chan : c > nchan => link[c] = "none"
Sound ==
  ~Discovering =>
    /\ conn_state # "scan"
    /\ Connecting /\ Connected /\ Disconnected
    /\ OneSocket /\ OldBearers /\ Unopened
    /\ opt_mtu # 0 => conn_state = "conn"

\* A command of the GATT or management kind is answered once at most, in
\* whatever order responses, errors, time-outs and hang-ups come.
Answer == {"find", "desc", "rd", "wr", "mgmt", "oob", "err"}
AnsweredOnce ==
  \A i, j \in DOMAIN stdout :
    /\ stdout[i].rsp \in Answer /\ stdout[j].rsp \in Answer
    /\ stdout[i].re = stdout[j].re /\ stdout[i].re # 0
    => i = j

\* A result, a notification or an indication comes from the device the last
\* "stat conn" line named.
LastConn(i) == {j \in 1 .. i : stdout[j].rsp = "stat" /\ stdout[j].tag = "conn"}
FromConnectedDevice ==
  ~Discovering =>
    \A i \in DOMAIN stdout :
      stdout[i].rsp \in {"find", "desc", "rd", "wr", "ntfy", "ind"} =>
        \E j \in LastConn(i) :
          /\ \A k \in LastConn(i) : k <= j
          /\ stdout[j].dst = stdout[i].dst

\* After the end of a connection was reported, no late result of it appears
\* but the part a long read has got, which read_blob_helper prints as a "rd".
NoResultAfterDisc ==
  ~Discovering =>
    \A i, j \in DOMAIN stdout :
      i < j /\ stdout[i].rsp = "stat" /\ stdout[i].tag = "disc"
            /\ stdout[j].rsp \in {"find", "desc", "wr", "ntfy", "ind"} =>
        \E k \in i .. j : stdout[k].rsp = "stat" /\ stdout[k].tag = "conn"

\* What is printed of a connection is of that connection alone.
OnlyOfTheConnection == FromConnectedDevice /\ NoResultAfterDisc

\* Whoever follows the "stat" lines knows the state the handlers decide by:
\* no handler or callback leaves conn_state other than it last reported.
LastStat(i) ==
  stdout[i].rsp = "stat" /\ \A j \in DOMAIN stdout : j > i => stdout[j].rsp # "stat"
StateReported ==
  proc = "running" =>
    \A i \in DOMAIN stdout : LastStat(i) => stdout[i].tag = conn_state

\* A working connection ends because it was asked to: by "disc", or by the
\* helper's own end.  In particular the hang-up of an earlier socket does not
\* end it ("in case of quick disconnection/reconnection, do not mix them").
EndsOnRequest ==
  [][ (conn_state = "conn" /\ conn_state' = "disc" /\ ~Discovering) =>
        \/ link[iochannel] = "down"
        \/ ~loop
        \/ proc' = "exited"
        \/ stdin # <<>> /\ Head(stdin).verb = "disc" ]_vars

\* A request the helper took is never dropped in silence: the step that drops
\* it prints its answer or the end of the connection, shuts the link, or is
\* the end of the process.
Waiting == {o.id : o \in UNION {ToSet(ops[b]) : b \in Chan}}
           \cup {c.id : c \in {d \in ToSet(stdin) : d.verb \in GattVerbs}}
Printed == {stdout'[i] : i \in DOMAIN stdout' \ DOMAIN stdout}
NothingVanishes ==
  [][ ~Discovering => \A id \in Waiting \ Waiting' :
        \/ \E l \in Printed : l.re = id
        \/ \E l \in Printed : l.rsp = "stat" /\ l.tag = "disc"
        \/ \E c \in Chan : link[c] = "up" /\ link'[c] # "up"
        \/ proc' = "exited" ]_vars
=============================================================================
