-------------------------------- MODULE Wire --------------------------------
(***************************************************************************)
(* The two pipes between a Python program and the bluepy-helper process it  *)
(* started: command lines on the helper's stdin, response lines on its      *)
(* stdout, and whether the process runs.                                    *)
(*                                                                          *)
(* A line is a record, not text: the fields the properties tell apart and   *)
(* none of the hexadecimal payload.  Two fields are not in the real lines:  *)
(* "id" numbers the commands and "re" names the command a response line     *)
(* answers (0 for a line the helper printed on its own), so that a property *)
(* can say whose answer a call returned.                                    *)
(***************************************************************************)
EXTENDS Naturals, Sequences

CONSTANTS Addr,     \* addresses of the BLE devices in range
          NoAddr,   \* opt_dst == NULL, or no device in this line
          MaxCmds   \* bound: command lines ever written

ASSUME WireAssumption == NoAddr \notin Addr /\ MaxCmds \in Nat

VARIABLES stdin,    \* command lines written and not yet read by the helper
          stdout,   \* response lines printed and not yet read by the reader
          eof,      \* the write end of stdin is closed
          proc,     \* "none" before the first Popen, then "running", "exited"
          ncmd      \* number of command lines written so far

wire == <<stdin, stdout, eof, proc, ncmd>>

-----------------------------------------------------------------------------
(* The commands of the helper's table, but for help, incl, pasv, pasvend.   *)

\* answered by one ATT transaction (or several) with the peripheral
GattVerbs == {"svcs", "char", "desc", "rd", "rdu", "wrr"}

\* answered by the kernel's management interface
MgmtVerbs == {"le", "pairable", "pair", "unpair", "scan", "scanend",
              "local_oob", "remote_oob"}

AllVerbs == GattVerbs \cup MgmtVerbs
            \cup {"stat", "quit", "conn", "disc", "wr", "secu", "mtu"}

\* dst is the address of "conn"; arg the number of "mtu", and for every other
\* command 0 if its handler finds the argument malformed, 1 if not
Command == [verb : AllVerbs, id : Nat, dst : Addr \cup {NoAddr}, arg : Nat]

Cmd(verb, id, dst, arg) == [verb |-> verb, id |-> id, dst |-> dst, arg |-> arg]

-----------------------------------------------------------------------------
(* The lines of the helper.                                                 *)

ConnState == {"disc", "tryconn", "conn", "scan"}

ErrCode == {"connfail", "atterr", "callfail", "notfound", "badparam",
            "badstate", "busy", "nomgmt", "mgmterr", "success"}

RspType == {"stat", "err", "ntfy", "ind", "find", "desc", "rd", "wr",
            "mgmt", "scan", "oob"}

\* tag is the state of a "stat" line and the code of an "err" or "mgmt" line;
\* dst is the dst field of a "stat" line, and the device a "ntfy" line or a
\* GATT result came from (which the real line does not say)
Line == [rsp : RspType, tag : ConnState \cup ErrCode \cup {"-"},
         dst : Addr \cup {NoAddr}, mtu : Nat, re : Nat]

Stat(state, dst, mtu, re) ==
  [rsp |-> "stat", tag |-> state,
   dst |-> IF state = "disc" THEN NoAddr ELSE dst, mtu |-> mtu, re |-> re]

Err(code, re) ==
  [rsp |-> "err", tag |-> code, dst |-> NoAddr, mtu |-> 0, re |-> re]

Mgmt(code, re) ==
  [rsp |-> "mgmt", tag |-> code, dst |-> NoAddr, mtu |-> 0, re |-> re]

Data(rsp, dst, re) ==
  [rsp |-> rsp, tag |-> "-", dst |-> dst, mtu |-> 0, re |-> re]

\* mutant: the line is named after the command
ResultTypeMutant(verb) == verb

\* the type of the line that carries a command's result
ResultType(verb) ==
  CASE verb \in {"svcs", "char"} -> "find"
    [] verb = "desc"             -> "desc"
    [] verb \in {"rd", "rdu"}    -> "rd"
    [] verb \in {"wr", "wrr"}    -> "wr"

-----------------------------------------------------------------------------
WireTypeOK ==
  /\ stdin \in Seq(Command)
  /\ stdout \in Seq(Line)
  /\ eof \in BOOLEAN
  /\ proc \in {"none", "running", "exited"}
  /\ ncmd \in Nat

WireInit ==
  /\ stdin = <<>>
  /\ stdout = <<>>
  /\ eof = FALSE
  /\ proc = "none"
  /\ ncmd = 0
=============================================================================
