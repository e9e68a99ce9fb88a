------------------------------- MODULE Scanner -------------------------------
(***************************************************************************)
(* The class Scanner of btle.py with ScanEntry, its helpers, and the        *)
(* threads that read what they print.                                       *)
(*                                                                          *)
(* A call is a list of methods to go through: scan() is clear, start,       *)
(* process and stop.  pc says where in a method the program waits.          *)
(***************************************************************************)
EXTENDS ScanHelper

CONSTANTS Modes,      \* commands of start(passive): subset of {"scan", "pasv"}
          Mixing,     \* bound: whether what follows is explored when ~apart
          MaxStarts   \* bound: calls of start()

ASSUME ScannerAssumption == Modes \subseteq {"scan", "pasv"} /\ MaxStarts \in Nat /\ Mixing \in BOOLEAN

VARIABLES
  helper,    \* self._helper: its number, 0 for None
  started,   \* number of helpers started
  reader,    \* of each helper, the thread started with it
  lineq,     \* self._lineq
  todo,      \* methods of the call under way, the current one first
  pc,        \* the response the current method waits for, "quit" in _stopHelper
  mode,      \* self._cmd()
  late,      \* the time-out of process() has passed while it restarts a scan
  scanned,   \* self.scanned: the address type of each entry
  starts,    \* calls of start()
  last,      \* the last method of this call to end, and how
  enabled,   \* the last start() was told "success"
  apart      \* no thread of an earlier helper took part in the lines of a later one

scannerVars == <<helper, started, reader, lineq, todo, pc, mode, late, scanned, starts, last, enabled, apart>>
scanVars == <<helperVars, scannerVars>>

-----------------------------------------------------------------------------
\* self._cmd() + "end"
Ended == [scan |-> "scanend", pasv |-> "pasvend"]

\* where _mgmtCmd, or start() itself, waits for the answer of a command
Awaited == [le |-> "le", first |-> mode, ended |-> Ended[mode], again |-> mode,
            restart |-> mode, stop |-> Ended[mode]]
Managing == DOMAIN Awaited

Unseen == "none"

NoCall == [call |-> "none", how |-> "ok"]

Over == [at |-> "end", from |-> 0, line |-> <<>>]

ScannerInit ==
  /\ ScanHelperInit
  /\ helper = 0 /\ started = 0
  /\ reader = [h \in Helpers |-> Over]
  /\ lineq = <<>>
  /\ todo = <<>> /\ pc = "idle"
  /\ mode = "scan" /\ late = FALSE
  /\ scanned = [a \in Addr |-> Unseen]
  /\ starts = 0
  /\ last = NoCall
  /\ enabled = FALSE /\ apart = TRUE

Ends(how) == last' = [call |-> Head(todo), how |-> how]

\* the current method returns, and the next one is to be entered
Return == /\ todo' = Tail(todo) /\ pc' = (IF Len(todo) = 1 THEN "idle" ELSE "enter")
          /\ Ends("ok")

Raise(how) == todo' = <<>> /\ pc' = "idle" /\ Ends(how)

WriteCmd(verb) == stdin' = Append(stdin, verb)

\* wait for the answer of a command just written
Command(at) == pc' = at /\ WriteCmd(Awaited[at]) /\ UNCHANGED <<todo, last>>

\* mutant: the line written to the helper has no newline
StopThenMutant(how) ==
  /\ pc' = "quit" /\ last' = [call |-> Head(todo), how |-> how]
  /\ UNCHANGED <<todo, stdin>>

\* _stopHelper writes "quit" and waits for the helper to exit; how is what
\* happens then
StopThen(how) ==
  /\ WriteCmd("quit")
  /\ pc' = "quit"
  /\ last' = [call |-> Head(todo), how |-> how]
  /\ UNCHANGED todo

-----------------------------------------------------------------------------
(* Calls.                                                                   *)

Calls == {<<"start">>, <<"process">>, <<"stop">>, <<"clear">>,
          <<"clear", "start", "process", "stop">>}

Starts(call) == "start" \in {call[i] : i \in DOMAIN call}

\* bounds on start()
MayStart == starts < MaxStarts /\ (helper = 0 => started < MaxHelpers)

\* the program calls a method; m is the argument passive of start() and scan()
Call(call, m) ==
  /\ pc = "idle" /\ (Starts(call) => MayStart)
  /\ todo' = call /\ pc' = "enter"
  /\ mode' = IF Starts(call) THEN m ELSE mode
  /\ last' = NoCall
  /\ UNCHANGED <<helper, started, reader, lineq, late, scanned, starts, enabled, apart>>
  /\ UNCHANGED helperVars

Entered(method) == pc = "enter" /\ Head(todo) = method

\* mutant: the lines of the previous helper are kept
NewQueueMutant == lineq

\* _startHelper makes a queue
NewQueue == <<>>

\* start(), with _startHelper if there is no helper
EnterStart ==
  /\ Entered("start")
  /\ pc' = "le" /\ UNCHANGED <<todo, last>>
  /\ enabled' = FALSE
  /\ starts' = starts + 1
  /\ IF helper = 0
     THEN /\ started' = started + 1 /\ helper' = started + 1
          /\ Start(started + 1)
          /\ stdin' = <<"le">>
          /\ lineq' = NewQueue
          /\ reader' = [reader EXCEPT ![started + 1] = [at |-> "loop", from |-> 0, line |-> <<>>]]
     ELSE /\ WriteCmd("le")
          /\ UNCHANGED <<helper, started, lineq, reader>>
          /\ UNCHANGED <<stdout, running, mgmt_master, conn_state, requests, events, monitors, discovery, radio>>
  /\ UNCHANGED <<mode, late, scanned, apart>>

EnterProcess ==
  /\ Entered("process")
  /\ IF helper = 0 THEN Raise("internal")
     ELSE pc' = "process" /\ UNCHANGED <<todo, last>>
  /\ UNCHANGED <<helper, started, reader, lineq, mode, late, scanned, starts, enabled, apart>>
  /\ UNCHANGED helperVars

EnterStop ==
  /\ Entered("stop")
  /\ IF helper = 0 THEN Raise("internal") /\ UNCHANGED stdin ELSE Command("stop")
  /\ UNCHANGED <<helper, started, reader, lineq, mode, late, scanned, starts, enabled, apart>>
  /\ UNCHANGED <<stdout, running, mgmt_master, conn_state, requests, events, monitors, discovery, radio>>

Clear ==
  /\ Entered("clear")
  /\ scanned' = [a \in Addr |-> Unseen]
  /\ Return
  /\ UNCHANGED <<helper, started, reader, lineq, mode, late, starts, enabled, apart>>
  /\ UNCHANGED helperVars

-----------------------------------------------------------------------------
(* _waitResp, and what the caller does with a line it asked for.            *)

Wants(line) ==
  \/ pc \in Managing /\ line.rsp = "mgmt"
  \/ pc = "gone" /\ line.rsp = "stat"
  \/ pc = "process" /\ line.rsp \in {"stat", "scan"}

Succeeded ==
  CASE pc = "le"                -> Command("first")
    [] pc \in {"first", "again"} -> Return /\ UNCHANGED stdin
    [] pc = "ended"             -> pc' = "gone" /\ UNCHANGED <<todo, last, stdin>>
    [] pc = "restart"           -> /\ IF late THEN Return
                                      ELSE pc' = "process" /\ UNCHANGED <<todo, last>>
                                   /\ UNCHANGED stdin
    [] pc = "stop"              -> StopThen("ok")

\* the first answer of start() is looked at by start() itself, the others by
\* _mgmtCmd
Answer(code) ==
  CASE code = "success"                 -> Succeeded
    [] code = "busy" /\ pc = "first"    -> Command("ended")
    [] code # "success" /\ pc # "first" -> StopThen("mgmt")
    [] OTHER                            -> Return /\ UNCHANGED stdin

\* ScanEntry._update refuses another address type
Changed(dev) == scanned[dev.addr] \notin {Unseen, dev.type}

NextRound == IF late THEN Return ELSE pc' = "process" /\ UNCHANGED <<todo, last>>

\* mutant: a scan that ended is not started again
RestartMutant == NextRound /\ UNCHANGED stdin

Restart == Command("restart")

\* process(): a scan that has ended is restarted, a device is remembered
Process(line) ==
  IF line.rsp = "stat"
  THEN /\ IF line.tag = "disc" THEN Restart ELSE NextRound /\ UNCHANGED stdin
       /\ UNCHANGED scanned
  ELSE /\ UNCHANGED stdin
       /\ IF Changed(line.dev) THEN Raise("type") /\ UNCHANGED scanned
          ELSE /\ scanned' = [scanned EXCEPT ![line.dev.addr] = line.dev.type]
               /\ NextRound

\* "disc" when it was not asked for
Unwanted(line) ==
  CASE line = Line("stat", "disc") -> StopThen("disc")
    [] line.rsp = "err"            -> Raise("nomgmt") /\ UNCHANGED stdin
    [] line.rsp = "mgmt"           -> Raise("internal") /\ UNCHANGED stdin
    [] OTHER                       -> UNCHANGED <<todo, pc, last, stdin>>

Take ==
  /\ pc \in Managing \cup {"gone", "process"} /\ lineq # <<>>
  /\ lineq' = Tail(lineq)
  /\ LET line == Head(lineq) IN
       /\ CASE ~Wants(line)   -> Unwanted(line) /\ UNCHANGED scanned
            [] Wants(line) /\ pc \in Managing -> Answer(line.tag) /\ UNCHANGED scanned
            [] Wants(line) /\ pc = "gone" ->
                 /\ IF line.tag = "disc" THEN Command("again")
                    ELSE Raise("assert") /\ UNCHANGED stdin
                 /\ UNCHANGED scanned
            [] Wants(line) /\ pc = "process" -> Process(line)
       /\ enabled' = (enabled \/ (pc \in {"first", "again"} /\ line = Line("mgmt", "success")))
  /\ late' = (late /\ pc' = "restart")
  /\ UNCHANGED <<helper, started, reader, mode, starts, apart>>
  /\ UNCHANGED <<stdout, running, mgmt_master, conn_state, requests, events, monitors, discovery, radio>>

\* the time of process() is over; it notices when it waits
Clock ==
  /\ pc \in {"process", "restart"} /\ ~late
  /\ IF pc = "process" THEN Return /\ UNCHANGED late
     ELSE late' = TRUE /\ UNCHANGED <<todo, pc, last>>
  /\ UNCHANGED <<helper, started, reader, lineq, mode, scanned, starts, enabled, apart>>
  /\ UNCHANGED helperVars

\* the end of _stopHelper
WaitExit ==
  /\ pc = "quit" /\ running = 0
  /\ helper' = 0
  /\ IF last.how = "ok" THEN Return ELSE Raise(last.how)
  /\ stdin' = <<>>
  /\ UNCHANGED <<started, reader, lineq, mode, late, scanned, starts, enabled, apart>>
  /\ UNCHANGED <<stdout, running, mgmt_master, conn_state, requests, events, monitors, discovery, radio>>

-----------------------------------------------------------------------------
(* _readToQueue of the thread started with helper h: it looks up            *)
(* self._helper before each line and self._lineq after it.                  *)

ReaderLoop(h) ==
  /\ reader[h].at = "loop"
  /\ reader' = [reader EXCEPT ![h] = IF helper = 0 THEN Over ELSE [at |-> "read", from |-> helper, line |-> <<>>]]
  /\ UNCHANGED <<lineq, stdout>>

ReaderLine(h) ==
  /\ reader[h].at = "read"
  /\ LET from == reader[h].from IN
       IF stdout[from] # <<>>
       THEN /\ reader' = [reader EXCEPT ![h] = [at |-> "put", from |-> from, line |-> <<Head(stdout[from])>>]]
            /\ stdout' = [stdout EXCEPT ![from] = Tail(@)]
       ELSE /\ running # from   \* end of file
            /\ reader' = [reader EXCEPT ![h] = Over]
            /\ UNCHANGED stdout
  /\ UNCHANGED lineq

ReaderPut(h) ==
  /\ reader[h].at = "put"
  /\ lineq' = lineq \o reader[h].line
  /\ reader' = [reader EXCEPT ![h] = [at |-> "loop", from |-> 0, line |-> <<>>]]
  /\ UNCHANGED stdout

\* the thread of an earlier helper reads what a later one prints, or puts what is left
\* of the earlier one in the queue of the later: it looks up both, and only ends apart
Mixes(h) == h # started /\ reader'[h].at # "end"

ReadToQueue(h) ==
  /\ ReaderLoop(h) \/ ReaderLine(h) \/ ReaderPut(h)
  /\ apart' = (apart /\ ~Mixes(h)) /\ (Mixing \/ apart')
  /\ UNCHANGED <<helper, started, todo, pc, mode, late, scanned, starts, last, enabled>>
  /\ UNCHANGED <<stdin, running, mgmt_master, conn_state, requests, events, monitors, discovery, radio>>

-----------------------------------------------------------------------------
Method == EnterStart \/ EnterProcess \/ EnterStop \/ Clear \/ Take \/ WaitExit

Application == \E call \in Calls, m \in Modes : Call(call, m)

Helping == PromptRead \/ MgmtEvent \/ \E i \in DOMAIN monitors : HciMonitor(i)

Kernel == (\E ok \in BOOLEAN : KernelDoes(ok))
          \/ (UnderWay + Len(lineq) < MaxLines /\ Air)

ScanNext ==
  \/ Application \/ Method \/ Clock \/ \E h \in Helpers : ReadToQueue(h)
  \/ (Helping \/ Kernel) /\ UNCHANGED scannerVars

ScanSpec == ScannerInit /\ [][ScanNext]_scanVars

\* The program's own steps, the threads, the clock and the kernel go on; the
\* main loop dispatches every watch that is ready in each of its rounds.
ScanFairness ==
  /\ WF_scanVars(Method) /\ WF_scanVars(Clock)
  /\ \A h \in Helpers : WF_scanVars(ReadToQueue(h))
  /\ WF_scanVars(PromptRead /\ UNCHANGED scannerVars)
  /\ WF_scanVars(MgmtEvent /\ UNCHANGED scannerVars)
  /\ WF_scanVars((\E i \in DOMAIN monitors : HciMonitor(i)) /\ UNCHANGED scannerVars)
  /\ WF_scanVars((\E ok \in BOOLEAN : KernelDoes(ok)) /\ UNCHANGED scannerVars)

ScanFairSpec == ScanSpec /\ ScanFairness

-----------------------------------------------------------------------------
(* Properties.                                                              *)

ScanTypeOK ==
  /\ stdin \in Seq(Verbs) /\ stdout \in [Helpers -> Seq(Lines)] /\ lineq \in Seq(Lines)
  /\ running \in 0 .. MaxHelpers /\ helper \in 0 .. MaxHelpers
  /\ conn_state \in {"disc", "scan"}
  /\ \A h \in Helpers : reader[h].line \in Seq(Lines)
  /\ scanned \in [Addr -> AddrType \cup {Unseen}]

Count(s, S) == Cardinality({i \in DOMAIN s : s[i] \in S})

Codes == {"success", "busy", "mgmterr", "badstate"}
Answers == {Line("err", "nomgmt")} \cup {Line("mgmt", c) : c \in Codes}
Completions == {Completed(c) : c \in Codes}

\* what the helper at hand has printed, and the line its thread has in hand
Printed == IF helper = 0 THEN <<>> ELSE stdout[helper]
Held == IF helper = 0 THEN <<>> ELSE reader[helper].line

\* The answers a program is owed are those of the command it waits for: none
\* is left over for the next command, as long as the threads stay apart.
Owed ==
  Count(stdin, Verbs \ {"quit"}) + Len(requests) + Count(events, Completions)
  + Count(Printed, Answers) + Count(Held, Answers) + Count(lineq, Answers)
OneOwed ==
  ScanTypeOK /\ (helper # 0 /\ pc # "quit" =>
    Owed = IF pc \in Managing THEN 1 ELSE 0)
OneAnswerOwed == apart => OneOwed

\* While process() waits and there is nothing left to read, devices are being
\* looked for, provided start() had been told so: no end of a scan is missed.
Quiet == /\ stdin = <<>> /\ requests = <<>> /\ events = <<>> /\ lineq = <<>>
         /\ \A h \in Helpers : stdout[h] = <<>> /\ reader[h].line = <<>>
         /\ \A i \in DOMAIN monitors : monitors[i] = <<>>
KeepsScanning ==
  apart /\ pc = "process" /\ enabled /\ Quiet => radio # "off" /\ conn_state = "scan"

\* stop() that returns has stopped what start() had started.
StopStops ==
  apart /\ pc = "idle" /\ last = [call |-> "stop", how |-> "ok"] => radio # "us" /\ running = 0

\* While process() goes on after one start() of the helper and one watch is left, this does
\* not say that the scan has ended when the radio still receives for it.
EndIsReal ==
  [][/\ apart
     /\ \E i \in DOMAIN monitors : HciMonitor(i)
     /\ pc = "process" /\ starts = started /\ Len(monitors) = 1
     /\ conn_state = "scan" /\ conn_state' = "disc"
     => radio # "us"]_scanVars

\* Every method returns or raises.
ScanCallsReturn == (pc # "idle") ~> (pc = "idle")

=============================================================================
