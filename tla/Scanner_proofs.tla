--------------------------- MODULE Scanner_proofs ---------------------------
(***************************************************************************)
(* Proofs about a Scanner, its helpers and their reader threads, for any    *)
(* modes, calls and devices: the program is owed one answer, that of the    *)
(* command it waits for, stop() that returns has stopped the scan, a watch  *)
(* that says a scan has ended does not say so of one that goes on, and no   *)
(* end of a scan is missed.  Helpers may be started while the threads of    *)
(* earlier ones live; the invariant holds as long as those stay apart.      *)
(***************************************************************************)
EXTENDS Scanner, FiniteSetTheorems, FunctionTheorems, SequenceTheorems, TLAPS

-----------------------------------------------------------------------------
(* Counting.                                                                *)

LEMMA CountType ==
  ASSUME NEW A, NEW s \in Seq(A), NEW S
  PROVE  /\ IsFiniteSet({i \in DOMAIN s : s[i] \in S})
         /\ Count(s, S) \in Nat
<1>1. IsFiniteSet(1 .. Len(s)) /\ {i \in DOMAIN s : s[i] \in S} \in SUBSET (1 .. Len(s))
  BY FS_Interval
<1>2. IsFiniteSet({i \in DOMAIN s : s[i] \in S})
  BY <1>1, FS_Subset
<1>3. QED BY <1>2, FS_CardinalityType DEF Count

LEMMA CountEmpty ==
  ASSUME NEW S
  PROVE  Count(<<>>, S) = 0
  BY FS_EmptySet DEF Count

LEMMA CountConcat ==
  ASSUME NEW A, NEW s \in Seq(A), NEW t \in Seq(A), NEW S
  PROVE  Count(s \o t, S) = Count(s, S) + Count(t, S)
<1> DEFINE u == s \o t
           I == {i \in DOMAIN s : s[i] \in S}
           J == {j \in DOMAIN t : t[j] \in S}
           K == {k \in DOMAIN u : u[k] \in S}
           up == [j \in J |-> j + Len(s)]
<1>1. /\ Len(s) \in Nat /\ Len(t) \in Nat /\ DOMAIN s = 1 .. Len(s) /\ DOMAIN t = 1 .. Len(t)
      /\ DOMAIN u = 1 .. (Len(s) + Len(t)) /\ u \in Seq(A)
      /\ \A i \in 1 .. Len(s) : u[i] = s[i]
      /\ \A j \in 1 .. Len(t) : u[j + Len(s)] = t[j]
  OBVIOUS
<1> HIDE DEF u
<1>2. IsFiniteSet(I) /\ IsFiniteSet(J) /\ IsFiniteSet(K)
  BY <1>1, CountType
<1>3. I \subseteq K
  BY <1>1
<1>4. up \in Bijection(J, K \ I)
  <2>1. up \in [J -> K \ I]
    BY <1>1
  <2>2. \A j, k \in J : up[j] = up[k] => j = k
    BY <1>1
  <2>3. ASSUME NEW k \in K \ I PROVE \E j \in J : up[j] = k
    <3>1. k \in 1 .. (Len(s) + Len(t)) /\ k \notin 1 .. Len(s)
      BY <1>1
    <3>2. k - Len(s) \in 1 .. Len(t) /\ (k - Len(s)) + Len(s) = k
      BY <1>1, <3>1
    <3>3. k - Len(s) \in J
      BY <1>1, <3>2
    <3>4. QED BY <3>2, <3>3
  <2> HIDE DEF up
  <2>4. QED BY <2>1, <2>2, <2>3, Fun_IsBij
<1>5. Cardinality(K \ I) = Cardinality(J)
  <2>1. ExistsBijection(J, K \ I)
    BY <1>4 DEF ExistsBijection
  <2>2. IsFiniteSet(K \ I)
    BY <1>2, FS_Difference
  <2>3. QED BY <1>2, <2>1, <2>2, FS_Bijection
<1>6. Cardinality(K \ I) = Cardinality(K) - Cardinality(K \cap I)
  BY <1>2, FS_Difference
<1>7. K \cap I = I
  BY <1>3
<1>8. Cardinality(I) \in Nat /\ Cardinality(J) \in Nat /\ Cardinality(K) \in Nat
  BY <1>2, FS_CardinalityType
<1>9. Cardinality(K) = Cardinality(I) + Cardinality(J)
  <2> HIDE DEF I, J, K
  <2>1. Cardinality(J) = Cardinality(K) - Cardinality(I)
    BY <1>5, <1>6, <1>7
  <2>2. QED BY <1>8, <2>1
<1>10. Count(s, S) = Cardinality(I) /\ Count(t, S) = Cardinality(J) /\ Count(u, S) = Cardinality(K)
  BY DEF Count
<1> HIDE DEF I, J, K
<1>11. Count(u, S) = Count(s, S) + Count(t, S)
  BY <1>9, <1>10
<1>12. QED BY <1>11 DEF u

LEMMA CountOne ==
  ASSUME NEW x, NEW S
  PROVE  Count(<<x>>, S) = IF x \in S THEN 1 ELSE 0
<1>1. {i \in DOMAIN <<x>> : <<x>>[i] \in S} = IF x \in S THEN {1} ELSE {}
  OBVIOUS
<1>2. QED BY <1>1, FS_Singleton, FS_EmptySet DEF Count

LEMMA CountAppend ==
  ASSUME NEW A, NEW s \in Seq(A), NEW x \in A, NEW S
  PROVE  Count(Append(s, x), S) = Count(s, S) + (IF x \in S THEN 1 ELSE 0)
<1>1. Append(s, x) = s \o <<x>> /\ <<x>> \in Seq(A)
  OBVIOUS
<1>2. Count(s \o <<x>>, S) = Count(s, S) + Count(<<x>>, S)
  BY <1>1, CountConcat
<1>3. Count(<<x>>, S) = IF x \in S THEN 1 ELSE 0
  BY CountOne
<1>4. QED BY <1>1, <1>2, <1>3

LEMMA CountTail ==
  ASSUME NEW A, NEW s \in Seq(A), s # <<>>, NEW S
  PROVE  /\ Head(s) \in A /\ Tail(s) \in Seq(A)
         /\ Count(s, S) = Count(Tail(s), S) + (IF Head(s) \in S THEN 1 ELSE 0)
<1>1. s = <<Head(s)>> \o Tail(s) /\ <<Head(s)>> \in Seq(A) /\ Tail(s) \in Seq(A) /\ Head(s) \in A
  OBVIOUS
<1>2. Count(s, S) = Count(<<Head(s)>>, S) + Count(Tail(s), S)
  <2> DEFINE first == <<Head(s)>>
             rest == Tail(s)
  <2>1. first \in Seq(A) /\ rest \in Seq(A) /\ s = first \o rest
    BY <1>1
  <2> HIDE DEF first, rest
  <2>2. Count(first \o rest, S) = Count(first, S) + Count(rest, S)
    BY <2>1, CountConcat
  <2>3. Count(s, S) = Count(first, S) + Count(rest, S)
    BY <2>1, <2>2
  <2>4. QED BY <2>3 DEF first, rest
<1>3. Count(Tail(s), S) \in Nat
  BY <1>1, CountType
<1>4. QED BY <1>1, <1>2, <1>3, CountOne

LEMMA CountAll ==
  ASSUME NEW A, NEW s \in Seq(A), NEW S, A \subseteq S
  PROVE  Count(s, S) = Len(s)
<1>1. {i \in DOMAIN s : s[i] \in S} = 1 .. Len(s)
  OBVIOUS
<1>2. Len(s) \in Nat
  OBVIOUS
<1>3. Cardinality(1 .. Len(s)) = Len(s)
  <2>1. \A n \in Nat : 1 \in Int /\ n \in Int /\ (1 > n => n = 0)
    OBVIOUS
  <2>2. \A n \in Nat : Cardinality(1 .. n) = IF 1 > n THEN 0 ELSE n - 1 + 1
    BY <2>1, FS_Interval
  <2>3. \A n \in Nat : Cardinality(1 .. n) = n
    BY <2>2
  <2>4. QED BY <1>2, <2>3
<1>4. QED BY <1>1, <1>3 DEF Count

LEMMA CountNone ==
  ASSUME NEW A, NEW s \in Seq(A), NEW S, A \cap S = {}
  PROVE  Count(s, S) = 0
<1>1. {i \in DOMAIN s : s[i] \in S} = {}
  OBVIOUS
<1>2. QED BY <1>1, FS_EmptySet DEF Count

LEMMA CountMore ==
  ASSUME NEW A, NEW s \in Seq(A), NEW S, NEW T, S \subseteq T
  PROVE  Count(s, S) <= Count(s, T)
<1>1. {i \in DOMAIN s : s[i] \in S} \in SUBSET {i \in DOMAIN s : s[i] \in T}
  OBVIOUS
<1> DEFINE I == {i \in DOMAIN s : s[i] \in S}  J == {i \in DOMAIN s : s[i] \in T}
<1>2. IsFiniteSet(J)
  BY CountType
<1>3. I \in SUBSET J
  BY <1>1
<1>4. Count(s, S) = Cardinality(I) /\ Count(s, T) = Cardinality(J)
  BY DEF Count
<1> HIDE DEF I, J
<1>5. QED BY <1>2, <1>3, <1>4, FS_Subset

-----------------------------------------------------------------------------
(* The invariant.                                                           *)

Event == Completions \cup {Discovering(st) : st \in {"disc", "scan"}}
         \cup {DeviceFound(dev) : dev \in Device}

Reader == [at : {"loop", "read", "put", "end"}, from : Nat, line : Seq(Lines)]

Packets == {Packet("enable"), Packet("disable")} \cup {Report(dev) : dev \in Device}

\* what may be left of a call
Rest == {<<>>, <<"start">>, <<"process">>, <<"stop">>, <<"clear">>, <<"process", "stop">>,
         <<"start", "process", "stop">>, <<"clear", "start", "process", "stop">>}

Types ==
  /\ ScanTypeOK
  /\ started \in 0 .. MaxHelpers /\ starts \in Nat /\ started <= starts
  /\ mode \in {"scan", "pasv"}
  /\ mgmt_master \in BOOLEAN
  /\ requests \in Seq({"le", "scan", "scanend"})
  /\ events \in Seq(Event)
  /\ reader \in [Helpers -> Reader]
  /\ monitors \in Seq(Seq(Packets))
  /\ todo \in Rest
  /\ pc \in Managing \cup {"idle", "enter", "gone", "process", "quit"}

\* the thread started last reads of its helper, and the others of earlier helpers
Reads(h, from, newest) == IF h = newest THEN from = newest ELSE from < newest

\* only the helper that was started last runs
OneHelper ==
  /\ helper \in {0, started} /\ running \in {0, helper}
  /\ pc \in Managing \cup {"gone", "process", "quit"} => helper # 0
  /\ helper # 0 /\ pc # "quit" => running = helper
  /\ helper = 0 /\ pc = "enter" /\ Starts(todo) => started < MaxHelpers
  /\ \A h \in Helpers :
       /\ h > started => stdout[h] = <<>>
       /\ reader[h].at \in {"read", "put"} => Reads(h, reader[h].from, started)
       /\ IF reader[h].at = "put" THEN Len(reader[h].line) = 1 ELSE reader[h].line = <<>>

\* the commands on their way are the one that is waited for
Commanded ==
  /\ pc \in Managing => stdin \in Seq({Awaited[pc]}) /\ requests \in Seq({Awaited[pc]})
  /\ helper # 0 /\ pc \notin Managing \cup {"quit"} => stdin = <<>> /\ requests = <<>>
  /\ requests # <<>> => mgmt_master

\* where in which method the program waits
Fits(at, call) ==
  /\ at # "idle" => call # <<>>
  /\ at \in {"le", "first", "ended", "gone", "again"} => Head(call) = "start"
  /\ at \in {"process", "restart"} => Head(call) = "process"
  /\ at = "stop" => Head(call) = "stop"
  /\ at = "quit" => Head(call) \in {"start", "process", "stop"}
Waiting == Fits(pc, todo) /\ (pc = "quit" => last = [call |-> Head(todo), how |-> last.how])

\* good news for stop()
Good ==
  Count(events, {Completed("success")}) + Count(Printed, {Line("mgmt", "success")})
  + Count(Held, {Line("mgmt", "success")}) + Count(lineq, {Line("mgmt", "success")})

Stopped == last = [call |-> "stop", how |-> "ok"]

StopsScan == pc = "idle" /\ Stopped => radio # "us" /\ running = 0

\* between the end of a scan and the end of the helper nothing begins another
Ending ==
  /\ pc = "stop" /\ Good > 0 => radio # "us"
  /\ pc = "quit" /\ Stopped =>
       radio # "us" /\ requests = <<>> /\ stdin \in Seq({"quit"})
  /\ StopsScan

\* In a passive scan all answers come from the helper itself.
Passively == mode = "pasv" /\ pc \in Managing \ {"le"}
Foul == Answers \ {Line("mgmt", "success"), Line("mgmt", "badstate")}
Pure ==
  /\ pc = "ended" => mode = "scan"
  /\ Passively =>
       /\ Count(events, Completions) = 0
       /\ Count(Printed, Foul) + Count(Held, Foul) + Count(lineq, Foul) = 0

\* The helper was started once, and start() is not about to be called again.
StartedOnce ==
  helper # 0 /\ starts = started /\ pc # "quit" /\ ~(pc = "enter" /\ Starts(todo))

\* The watch of the scan at hand is the last one; it has not heard that the scan ended.
Listens(watches, on) ==
  /\ mode = "scan" => watches = <<>>
  /\ on = "us" /\ watches # <<>> /\ pc # "stop" =>
       \A k \in DOMAIN watches[Len(watches)] : ~EndsScan(watches[Len(watches)][k])

Listening == StartedOnce => Listens(monitors, radio)

ScanInv == /\ Types /\ OneHelper /\ Commanded /\ OneOwed /\ Waiting /\ Ending
           /\ Pure /\ Listening

LEMMA Codings ==
  /\ Answers \subseteq Lines /\ Completions \subseteq Event
  /\ \A c \in Codes : Line("mgmt", c) \in Answers /\ Completed(c) \in Completions
  /\ Line("err", "nomgmt") \in Answers
  /\ \A st \in {"disc", "scan"} :
       Line("stat", st) \in Lines \ Answers /\ Discovering(st) \in Event \ Completions
  /\ \A dev \in Device :
       Found(dev) \in Lines \ Answers /\ DeviceFound(dev) \in Event \ Completions
BY DEF Answers, Completions, Event, Codes, Lines, Line, Completed, Discovering, DeviceFound, Found

LEMMA AnswersAre ==
  ASSUME NEW line \in Lines
  PROVE  /\ line \in Answers <=> line.rsp \in {"mgmt", "err"}
         /\ line.rsp \in {"mgmt", "err", "stat", "scan"}
         /\ line.rsp = "mgmt" => line.tag \in Codes /\ line = Line("mgmt", line.tag)
         /\ line.rsp = "stat" => line.tag \in {"disc", "scan"} /\ line = Line("stat", line.tag)
         /\ line.rsp = "scan" => line.dev \in Device
BY DEF Answers, Completions, Event, Codes, Lines, Line, Completed, Discovering, DeviceFound, Found

LEMMA EventsAre ==
  ASSUME NEW e \in Event
  PROVE  /\ e.ev \in {"complete", "discovering", "found"}
         /\ e.ev = "complete" => e.tag \in Codes /\ e = Completed(e.tag)
         /\ e.ev = "discovering" => e.tag \in {"disc", "scan"} /\ e = Discovering(e.tag)
         /\ e.ev = "found" => e.dev \in Device /\ e = DeviceFound(e.dev)
BY DEF Answers, Completions, Event, Codes, Lines, Line, Completed, Discovering, DeviceFound, Found

LEMMA ManagingIs == Managing = {"le", "first", "ended", "again", "restart", "stop"}
  BY DEF Managing, Awaited

LEMMA AwaitedIs ==
  ASSUME mode \in {"scan", "pasv"}
  PROVE  /\ \A at \in Managing : Awaited[at] \in {"le", "scan", "scanend", "pasv", "pasvend"}
         /\ Awaited["le"] = "le" /\ Awaited["first"] = mode /\ Awaited["again"] = mode
         /\ Awaited["restart"] = mode
         /\ Awaited["stop"] \in {"scanend", "pasvend"}
  BY ManagingIs DEF Awaited, Ended

LEMMA SeqOfOne ==
  ASSUME NEW A, NEW s \in Seq(A), NEW v, s \in Seq({v}), s # <<>>
  PROVE  Head(s) = v /\ v \in A /\ Tail(s) \in Seq({v})
  OBVIOUS

-----------------------------------------------------------------------------
(* The helper, the kernel and the air.                                      *)

LEMMA SayCounts ==
  ASSUME Types, running \in Helpers, NEW lines \in Seq(Lines), Say(lines)
  PROVE  /\ stdout' \in [Helpers -> Seq(Lines)]
         /\ \A h \in Helpers : h # running => stdout'[h] = stdout[h]
         /\ \A S : Count(stdout'[running], S) = Count(stdout[running], S) + Count(lines, S)
<1>1. stdout \in [Helpers -> Seq(Lines)]
  BY DEF Types, ScanTypeOK
<1>2. /\ stdout' = [stdout EXCEPT ![running] = stdout[running] \o lines]
      /\ stdout[running] \in Seq(Lines) /\ stdout[running] \o lines \in Seq(Lines)
  BY <1>1 DEF Say
<1>3. stdout'[running] = stdout[running] \o lines
  BY <1>1, <1>2
<1>4. QED BY <1>1, <1>2, <1>3, CountConcat

LEMMA SayNothing ==
  ASSUME Types, running \in Helpers, UNCHANGED stdout
  PROVE  Say(<<>>)
<1>1. stdout \in [Helpers -> Seq(Lines)]
  BY DEF Types, ScanTypeOK
<1>2. stdout[running] \o <<>> = stdout[running]
  BY <1>1
<1>3. QED BY <1>1, <1>2 DEF Say

\* The helper prints lines, and does what keeps the number of answers.
Serves(lines) ==
  /\ running # 0 /\ running' = running /\ mgmt_master' = mgmt_master
  /\ lines \in Seq(Lines) /\ Say(lines)
  /\ conn_state' \in {"disc", "scan"} /\ monitors' \in Seq(Seq(Packets))
  /\ stdin' \in Seq(Verbs) /\ events' \in Seq(Event)
  /\ requests' \in Seq({"le", "scan", "scanend"})
  /\ stdin = <<>> /\ requests = <<>> => stdin' = <<>> /\ requests' = <<>>
  /\ \A v \in Verbs : stdin \in Seq({v}) /\ requests \in Seq({v}) =>
                      stdin' \in Seq({v}) /\ requests' \in Seq({v})
  /\ requests' # <<>> => mgmt_master
  /\ pc # "quit" =>
       Count(stdin', Verbs \ {"quit"}) + Len(requests') + Count(events', Completions)
         + Count(lines, Answers)
       = Count(stdin, Verbs \ {"quit"}) + Len(requests) + Count(events, Completions)
  /\ pc = "stop" /\ radio' = "us" =>
       /\ radio = "us"
       /\ Count(events', {Completed("success")}) + Count(lines, {Line("mgmt", "success")})
          = Count(events, {Completed("success")})
  /\ pc = "quit" /\ Stopped /\ radio' = "us" => radio = "us"
  /\ Passively => Count(events', Completions) = 0 /\ Count(lines, Foul) = 0
  /\ StartedOnce => Listens(monitors', radio')

LEMMA Serving ==
  ASSUME ScanInv, UNCHANGED scannerVars, NEW lines, Serves(lines)
  PROVE  ScanInv'
<1> USE DEF Serves
<1>1. /\ running \in Helpers /\ helper = running /\ started = running /\ helper # 0
      /\ UNCHANGED <<helper, started, reader, lineq, todo, pc, mode, late, scanned, starts, last>>
  BY DEF ScanInv, Types, ScanTypeOK, OneHelper, scannerVars, Helpers
<1>2. /\ stdout' \in [Helpers -> Seq(Lines)]
      /\ \A h \in Helpers : h # running => stdout'[h] = stdout[h]
      /\ \A S : Count(stdout'[running], S) = Count(stdout[running], S) + Count(lines, S)
  BY <1>1, SayCounts DEF ScanInv
<1>3. /\ Managing' = Managing /\ Awaited' = Awaited
  BY <1>1 DEF Managing, Awaited
<1>4. Types'
  BY <1>1, <1>2, <1>3 DEF ScanInv, Types, ScanTypeOK
<1>5. OneHelper'
  <2>1. /\ helper' \in {0, started'} /\ running' \in {0, helper'} /\ helper' # 0
        /\ running' = helper'
    BY <1>1
  <2>2. ASSUME NEW h \in Helpers, h > started
        PROVE  stdout'[h] = <<>>
    <3>1. h # running
      BY <1>1, <2>2 DEF Helpers
    <3>2. stdout[h] = <<>>
      BY <2>2 DEF ScanInv, OneHelper
    <3>3. QED BY <1>2, <3>1, <3>2
  <2>3. QED
    BY <1>1, <2>1, <2>2 DEF ScanInv, OneHelper
<1>6. Commanded'
  <2>1. \A at \in Managing : Awaited[at] \in Verbs
    BY AwaitedIs DEF ScanInv, Types, Verbs
  <2>2. pc \in Managing => stdin' \in Seq({Awaited[pc]}) /\ requests' \in Seq({Awaited[pc]})
    BY <2>1 DEF ScanInv, Commanded
  <2>3. QED
    BY <1>1, <1>3, <2>2 DEF ScanInv, Commanded
<1>7. /\ Held' = Held
      /\ \A S : Count(Printed', S) = Count(Printed, S) + Count(lines, S)
  BY <1>1, <1>2 DEF Held, Printed
<1>8. OneOwed'
  <2>1. /\ Count(Printed, Answers) \in Nat /\ Count(lines, Answers) \in Nat
        /\ Count(Held, Answers) \in Nat /\ Count(lineq, Answers) \in Nat
        /\ Count(stdin, Verbs \ {"quit"}) \in Nat /\ Count(events, Completions) \in Nat
        /\ Count(stdin', Verbs \ {"quit"}) \in Nat /\ Count(events', Completions) \in Nat
        /\ Len(requests) \in Nat /\ Len(requests') \in Nat
    <3>1. Printed \in Seq(Lines) /\ Held \in Seq(Lines) /\ lineq \in Seq(Lines)
          /\ stdin \in Seq(Verbs) /\ events \in Seq(Event)
          /\ requests \in Seq({"le", "scan", "scanend"})
      BY <1>1 DEF ScanInv, Types, ScanTypeOK, Printed, Held
    <3>2. Len(requests) \in Nat /\ Len(requests') \in Nat
      BY <3>1
    <3>3. QED BY <3>1, <3>2, CountType
  <2>2. pc # "quit" => Owed' = Owed
    <3>1. pc # "quit" =>
            Count(stdin', Verbs \ {"quit"}) + Len(requests') + Count(events', Completions)
              + Count(lines, Answers)
            = Count(stdin, Verbs \ {"quit"}) + Len(requests) + Count(events, Completions)
      OBVIOUS
    <3>2. Count(Printed', Answers) = Count(Printed, Answers) + Count(lines, Answers)
      BY <1>7
    <3> HIDE DEF Serves
    <3>3. QED BY <1>1, <1>7, <2>1, <3>1, <3>2 DEF Owed
  <2>3. QED
    BY <1>1, <1>3, <1>4, <2>2 DEF ScanInv, OneOwed, Types
<1>9. Waiting'
  BY <1>1 DEF ScanInv, Waiting
<1>10. Ending'
  <2>1. Good' = Count(events', {Completed("success")}) + Count(lines, {Line("mgmt", "success")})
                + Count(Printed, {Line("mgmt", "success")}) + Count(Held, {Line("mgmt", "success")})
                + Count(lineq, {Line("mgmt", "success")})
    <3>1. /\ Count(Printed, {Line("mgmt", "success")}) \in Nat
          /\ Count(lines, {Line("mgmt", "success")}) \in Nat
          /\ Count(Held, {Line("mgmt", "success")}) \in Nat
          /\ Count(lineq, {Line("mgmt", "success")}) \in Nat
          /\ Count(events', {Completed("success")}) \in Nat
      <4>1. Printed \in Seq(Lines) /\ Held \in Seq(Lines) /\ lineq \in Seq(Lines)
        BY <1>1 DEF ScanInv, Types, ScanTypeOK, Printed, Held
      <4>2. QED BY <4>1, CountType
    <3>2. QED BY <1>1, <1>7, <3>1 DEF Good
  <2>2. pc = "stop" /\ radio' = "us" => Good' = Good
    BY <2>1 DEF Good
  <2>3. pc = "stop" /\ Good' > 0 => radio' # "us"
    BY <2>2 DEF ScanInv, Ending
  <2>4. pc = "quit" /\ Stopped =>
          radio' # "us" /\ requests' = <<>> /\ stdin' \in Seq({"quit"})
    <3>1. SUFFICES ASSUME pc = "quit", Stopped
                   PROVE  radio' # "us" /\ requests' = <<>> /\ stdin' \in Seq({"quit"})
      OBVIOUS
    <3>2. radio # "us" /\ requests \in Seq({"quit"}) /\ stdin \in Seq({"quit"})
      BY <3>1 DEF ScanInv, Ending
    <3>3. stdin' \in Seq({"quit"}) /\ requests' \in Seq({"quit"})
      BY <3>2 DEF Verbs
    <3>4. requests' # <<>> => "quit" \in {"le", "scan", "scanend"}
      BY <3>3, SeqOfOne
    <3>5. QED BY <3>1, <3>2, <3>3, <3>4
  <2>5. StopsScan'
    BY <1>1 DEF ScanInv, Ending, StopsScan, Stopped
  <2>6. QED
    BY <1>1, <2>3, <2>4, <2>5 DEF Ending, Stopped
<1>11. Pure'
  <2>1. Passively' = Passively
    BY <1>1, <1>3 DEF Passively
  <2>2. Count(lines, Foul) \in Nat /\ Count(Printed, Foul) \in Nat
    <3>1. Printed \in Seq(Lines)
      BY <1>1 DEF ScanInv, Types, ScanTypeOK, Printed
    <3>2. QED BY <3>1, CountType
  <2>3. Passively => Count(Printed', Foul) + Count(Held', Foul) + Count(lineq', Foul) = 0
    <3>1. SUFFICES ASSUME Passively
                   PROVE  Count(Printed', Foul) + Count(Held', Foul) + Count(lineq', Foul) = 0
      OBVIOUS
    <3>2. Count(lines, Foul) = 0
      BY <3>1
    <3>3. Count(Printed', Foul) = Count(Printed, Foul) + 0
      BY <1>7, <3>2
    <3>4. Count(Printed, Foul) + Count(Held, Foul) + Count(lineq, Foul) = 0
      BY <3>1 DEF ScanInv, Pure
    <3>5. QED BY <1>1, <1>7, <2>2, <3>3, <3>4
  <2>4. QED BY <1>1, <2>1, <2>3 DEF ScanInv, Pure
<1>12. Listening'
  <2>1. StartedOnce' => StartedOnce
    BY <1>1 DEF StartedOnce, scannerVars
  <2>2. StartedOnce => Listens(monitors, radio)'
    BY <1>1 DEF Listens
  <2>3. QED BY <2>1, <2>2 DEF Listening
<1>13. QED
  BY <1>4, <1>5, <1>6, <1>8, <1>9, <1>10, <1>11, <1>12 DEF ScanInv

LEMMA ReadFacts ==
  ASSUME ScanInv, NEW verb, Read(verb)
  PROVE  /\ running # 0 /\ stdin # <<>> /\ verb \in Verbs /\ stdin' \in Seq(Verbs)
         /\ Count(stdin', Verbs \ {"quit"}) \in Nat
         /\ Count(stdin, Verbs \ {"quit"}) =
              Count(stdin', Verbs \ {"quit"}) + (IF verb = "quit" THEN 0 ELSE 1)
         /\ \A v \in Verbs : stdin \in Seq({v}) => verb = v /\ stdin' \in Seq({v})
         /\ pc = "stop" => verb \in {"scanend", "pasvend"}
         /\ pc = "quit" /\ Stopped => verb = "quit"
         /\ verb = "quit" => pc = "quit"
<1>1. running # 0 /\ stdin # <<>> /\ Head(stdin) = verb /\ stdin' = Tail(stdin)
  BY DEF Read
<1>2. stdin \in Seq(Verbs)
  BY DEF ScanInv, Types, ScanTypeOK
<1>3. verb \in Verbs /\ stdin' \in Seq(Verbs)
  BY <1>1, <1>2
<1>4. /\ Count(stdin', Verbs \ {"quit"}) \in Nat
      /\ Count(stdin, Verbs \ {"quit"}) =
           Count(stdin', Verbs \ {"quit"}) + (IF verb = "quit" THEN 0 ELSE 1)
  <2>1. Count(stdin', Verbs \ {"quit"}) \in Nat
    BY <1>3, CountType
  <2>2. Count(stdin, Verbs \ {"quit"}) =
          Count(Tail(stdin), Verbs \ {"quit"}) + (IF Head(stdin) \in Verbs \ {"quit"} THEN 1 ELSE 0)
    BY <1>1, <1>2, CountTail
  <2>3. QED BY <1>1, <1>3, <2>1, <2>2
<1>5. \A v \in Verbs : stdin \in Seq({v}) => verb = v /\ stdin' \in Seq({v})
  BY <1>1, <1>2, SeqOfOne
<1>6. helper # 0
  BY <1>1 DEF ScanInv, OneHelper
<1>7. pc \in Managing => Awaited[pc] \in Verbs \ {"quit"}
  BY AwaitedIs DEF ScanInv, Types, Verbs
<1>8. pc \in Managing => verb = Awaited[pc]
  BY <1>5, <1>7 DEF ScanInv, Commanded
<1>9. pc = "stop" => verb \in {"scanend", "pasvend"}
  BY <1>8, AwaitedIs, ManagingIs DEF ScanInv, Types
<1>10. pc = "quit" /\ Stopped => verb = "quit"
  <2>1. "quit" \in Verbs
    BY DEF Verbs
  <2>2. QED BY <1>5, <2>1 DEF ScanInv, Ending
<1>11. verb = "quit" => pc = "quit"
  BY <1>1, <1>6, <1>7, <1>8 DEF ScanInv, Commanded
<1>12. QED BY <1>1, <1>3, <1>4, <1>5, <1>9, <1>10, <1>11

\* lines and events, and whether they are answers
LEMMA Kinds ==
  /\ \A line \in Lines : /\ <<line>> \in Seq(Lines)
                         /\ \A S : Count(<<line>>, S) = IF line \in S THEN 1 ELSE 0
  /\ \A line, next \in Lines :
       /\ <<line, next>> \in Seq(Lines)
       /\ \A S : Count(<<line, next>>, S) =
                  (IF line \in S THEN 1 ELSE 0) + (IF next \in S THEN 1 ELSE 0)
  /\ <<>> \in Seq(Lines) /\ \A S : Count(<<>>, S) = 0
<1>1. ASSUME NEW line \in Lines, NEW next \in Lines, NEW S
      PROVE  /\ <<line, next>> \in Seq(Lines)
             /\ Count(<<line, next>>, S) =
                  (IF line \in S THEN 1 ELSE 0) + (IF next \in S THEN 1 ELSE 0)
  <2>1. <<line, next>> = Append(<<line>>, next) /\ <<line>> \in Seq(Lines)
    OBVIOUS
  <2>2. Count(Append(<<line>>, next), S) = Count(<<line>>, S) + (IF next \in S THEN 1 ELSE 0)
    BY <2>1, CountAppend
  <2>3. Count(<<line>>, S) = IF line \in S THEN 1 ELSE 0
    BY CountOne
  <2>4. <<line, next>> \in Seq(Lines)
    OBVIOUS
  <2>5. QED BY <2>1, <2>2, <2>3, <2>4
<1>2. QED BY <1>1, CountOne, CountEmpty

LEMMA AsItWas ==
  ASSUME ScanInv
  PROVE  /\ conn_state \in {"disc", "scan"} /\ monitors \in Seq(Seq(Packets))
         /\ stdin \in Seq(Verbs)
         /\ events \in Seq(Event) /\ requests \in Seq({"le", "scan", "scanend"})
         /\ Count(events, Completions) \in Nat /\ Count(events, {Completed("success")}) \in Nat
         /\ Count(stdin, Verbs \ {"quit"}) \in Nat /\ Len(requests) \in Nat
<1>1. /\ conn_state \in {"disc", "scan"} /\ monitors \in Seq(Seq(Packets))
      /\ stdin \in Seq(Verbs)
      /\ events \in Seq(Event) /\ requests \in Seq({"le", "scan", "scanend"})
  BY DEF ScanInv, Types, ScanTypeOK
<1>2. Len(requests) \in Nat
  BY <1>1
<1>3. QED BY <1>1, <1>2, CountType

LEMMA FoulIs ==
  /\ \A line \in Lines \ Answers : line \notin Foul
  /\ Line("mgmt", "success") \notin Foul /\ Line("mgmt", "badstate") \notin Foul
  /\ Foul \subseteq Answers
  BY DEF Foul

\* what the helper and the kernel may find of a scan at hand
LEMMA AtHand ==
  ASSUME ScanInv
  PROVE  /\ Passively => mode = "pasv" /\ Awaited[pc] \in {"pasv", "pasvend"} /\ pc \in Managing
         /\ Passively => requests = <<>> /\ Count(events, Completions) = 0
         /\ StartedOnce /\ stdin # <<>> => pc \in Managing
         /\ StartedOnce /\ requests # <<>> => pc \in Managing
         /\ StartedOnce => Listens(monitors, radio)
         /\ pc \in Managing => stdin \in Seq({Awaited[pc]}) /\ requests \in Seq({Awaited[pc]})
                               /\ Awaited[pc] \in Verbs
         /\ pc \in Managing /\ Awaited[pc] = "scan" => mode = "scan"
         /\ pc \in Managing /\ Awaited[pc] = "pasv" => mode = "pasv"
         /\ pc \in Managing /\ Awaited[pc] = "pasvend" => mode = "pasv" /\ pc = "stop"
<1>1. mode \in {"scan", "pasv"}
  BY DEF ScanInv, Types
<1>2. pc \in Managing =>
        Awaited[pc] = IF pc = "le" THEN "le" ELSE IF pc \in {"ended", "stop"} THEN Ended[mode] ELSE mode
  BY ManagingIs DEF Awaited
<1>3. Ended[mode] = IF mode = "scan" THEN "scanend" ELSE "pasvend"
  BY <1>1 DEF Ended
<1>4. pc = "ended" => mode = "scan"
  BY DEF ScanInv, Pure
<1>5. Passively => mode = "pasv" /\ Awaited[pc] \in {"pasv", "pasvend"} /\ pc \in Managing
  BY <1>2, <1>3 DEF Passively
<1>6. pc \in Managing => stdin \in Seq({Awaited[pc]}) /\ requests \in Seq({Awaited[pc]})
                         /\ Awaited[pc] \in Verbs
  BY <1>1, <1>2, <1>3 DEF ScanInv, Commanded, Verbs
<1>7. Passively => requests = <<>>
  <2>1. SUFFICES ASSUME Passively, requests # <<>> PROVE FALSE
    OBVIOUS
  <2>2. requests \in Seq({"le", "scan", "scanend"})
    BY AsItWas
  <2>3. Awaited[pc] \in {"le", "scan", "scanend"}
    BY <1>5, <1>6, <2>1, <2>2, SeqOfOne
  <2>4. QED BY <1>5, <2>1, <2>3
<1>8. Passively => Count(events, Completions) = 0
  BY DEF ScanInv, Pure
<1>9. StartedOnce /\ (stdin # <<>> \/ requests # <<>>) => pc \in Managing
  BY DEF StartedOnce, ScanInv, Commanded
<1>10. StartedOnce => Listens(monitors, radio)
  BY DEF ScanInv, Listening
<1>11. QED BY <1>1, <1>2, <1>3, <1>4, <1>5, <1>6, <1>7, <1>8, <1>9, <1>10

LEMMA CmdMgmtKeeps ==
  ASSUME ScanInv, UNCHANGED scannerVars, NEW verb, CmdMgmt(verb)
  PROVE  ScanInv'
<1>1. /\ verb \in {"le", "scan", "scanend"}
      /\ UNCHANGED <<running, mgmt_master, conn_state, events, monitors, radio>>
      /\ running # 0 /\ stdin # <<>> /\ verb \in Verbs /\ stdin' \in Seq(Verbs)
      /\ Count(stdin', Verbs \ {"quit"}) \in Nat
      /\ Count(stdin, Verbs \ {"quit"}) = Count(stdin', Verbs \ {"quit"}) + 1
      /\ \A v \in Verbs : stdin \in Seq({v}) => verb = v /\ stdin' \in Seq({v})
      /\ pc = "quit" /\ Stopped => verb = "quit"
  BY ReadFacts DEF CmdMgmt
<1>2. /\ conn_state \in {"disc", "scan"} /\ monitors \in Seq(Seq(Packets))
      /\ events \in Seq(Event) /\ requests \in Seq({"le", "scan", "scanend"})
      /\ Count(events, Completions) \in Nat /\ Count(events, {Completed("success")}) \in Nat
      /\ Len(requests) \in Nat
  BY AsItWas
<1> DEFINE Also == /\ ~Passively
                   /\ StartedOnce => Listens(monitors', radio')
<1>21. Also
  <2>1. ~Passively
    <3>1. Passively => verb \in {"pasv", "pasvend"}
      BY <1>1, AtHand
    <3>2. QED BY <1>1, <3>1
  <2>2. QED BY <1>1, <2>1, AtHand
<1>3. CASE mgmt_master
  <2>1. requests' = Append(requests, verb) /\ Say(<<>>)
    BY <1>1, <1>3, SayNothing DEF CmdMgmt, ScanInv, Types, ScanTypeOK, Helpers
  <2>2. /\ requests' \in Seq({"le", "scan", "scanend"}) /\ Len(requests') = Len(requests) + 1
        /\ Len(requests) \in Nat
        /\ \A v \in Verbs : requests \in Seq({v}) /\ verb = v => requests' \in Seq({v})
    BY <1>1, <1>2, <2>1
  <2>3. /\ <<>> \in Seq(Lines) /\ Count(<<>>, Answers) = 0
        /\ Count(<<>>, {Line("mgmt", "success")}) = 0
    BY Kinds
  <2>4. \A v \in Verbs : stdin \in Seq({v}) /\ requests \in Seq({v}) =>
                        stdin' \in Seq({v}) /\ requests' \in Seq({v})
    BY <1>1, <2>2
  <2>5. Count(stdin', Verbs \ {"quit"}) + Len(requests') + Count(events', Completions)
          + Count(<<>>, Answers)
        = Count(stdin, Verbs \ {"quit"}) + Len(requests) + Count(events, Completions)
    BY <1>1, <1>2, <2>2, <2>3
  <2>6. Count(events', {Completed("success")}) + Count(<<>>, {Line("mgmt", "success")})
        = Count(events, {Completed("success")})
    BY <1>1, <1>2, <2>3
  <2>7. Serves(<<>>)
    BY <1>1, <1>2, <1>21, <1>3, <2>1, <2>2, <2>3, <2>4, <2>5, <2>6 DEF Serves
  <2>8. QED BY <2>7, Serving
<1>4. CASE ~mgmt_master
  <2>1. UNCHANGED requests /\ Say(<<Line("err", "nomgmt")>>)
    BY <1>4 DEF CmdMgmt
  <2>2. /\ Line("err", "nomgmt") \in Answers /\ Line("err", "nomgmt") \in Lines
        /\ Line("err", "nomgmt") # Line("mgmt", "success")
    BY Codings DEF Line
  <2>3. /\ <<Line("err", "nomgmt")>> \in Seq(Lines)
        /\ Count(<<Line("err", "nomgmt")>>, Answers) = 1
        /\ Count(<<Line("err", "nomgmt")>>, {Line("mgmt", "success")}) = 0
    BY <2>2, Kinds
  <2>4. requests = <<>> /\ Len(requests) = 0
    BY <1>4 DEF ScanInv, Commanded
  <2>5. Serves(<<Line("err", "nomgmt")>>)
    BY <1>1, <1>2, <1>21, <1>4, <2>1, <2>3, <2>4 DEF Serves
  <2>6. QED BY <2>5, Serving
<1>5. QED BY <1>3, <1>4

LEMMA OthersType ==
  ASSUME ScanInv, NEW how \in Attempts
  PROVE  /\ Others(how) \in Seq(Seq(Packets))
         /\ how = "nodev" => Others(how) = monitors
<1> DEFINE SP == Seq(Packets)  n == Len(monitors)
<1>1. n \in Nat /\ DOMAIN monitors = 1 .. n /\ \A i \in 1 .. n : monitors[i] \in SP
  BY AsItWas
<1>2. Written(how) \in SP
  <2>1. \A p, q \in Packets : <<>> \in SP /\ <<p>> \in SP /\ <<p, q>> \in SP
    OBVIOUS
  <2>2. Packet("enable") \in Packets /\ Packet("disable") \in Packets
    BY DEF Packets
  <2>3. Written(how) \in {<<>>, <<Packet("disable")>>, <<Packet("disable"), Packet("enable")>>}
    BY DEF Written, Attempts
  <2>4. QED BY <2>1, <2>2, <2>3
<1>3. \A i \in 1 .. n : monitors[i] \o Written(how) \in SP
  BY <1>1, <1>2
<1>4. how = "nodev" => Others(how) = monitors
  <2>1. SUFFICES ASSUME how = "nodev" PROVE Others(how) = monitors
    OBVIOUS
  <2>2. \A i \in 1 .. n : monitors[i] \o <<>> = monitors[i]
    BY <1>1
  <2>3. Others(how) = [i \in 1 .. n |-> monitors[i]]
    BY <1>1, <2>1, <2>2 DEF Others, Written
  <2>4. monitors = [i \in 1 .. n |-> monitors[i]]
    BY <1>1, AsItWas
  <2>5. QED BY <2>3, <2>4
<1> HIDE DEF SP
<1>5. Others(how) \in Seq(SP)
  BY <1>1, <1>3 DEF Others
<1>6. QED BY <1>4, <1>5 DEF SP

LEMMA WatchesType ==
  ASSUME ScanInv
  PROVE  /\ \A packet \in Packets : Seen(packet) \in Seq(Seq(Packets))
         /\ \A how \in Attempts : Heard(how) \in Seq(Seq(Packets))
         /\ \A i \in DOMAIN monitors :
              /\ Drop(i) \in Seq(Seq(Packets))
              /\ monitors[i] \in Seq(Packets)
              /\ monitors[i] # <<>> =>
                   [monitors EXCEPT ![i] = Tail(monitors[i])] \in Seq(Seq(Packets))
<1> DEFINE SP == Seq(Packets)  n == Len(monitors)
<1>1. monitors \in Seq(SP)
  BY DEF ScanInv, Types
<1>2. n \in Nat /\ DOMAIN monitors = 1 .. n /\ \A i \in 1 .. n : monitors[i] \in SP
  BY <1>1
<1>3. ASSUME NEW packet \in Packets PROVE Seen(packet) \in Seq(SP)
  <2>1. \A i \in 1 .. n : Append(monitors[i], packet) \in SP
    BY <1>2
  <2> HIDE DEF SP
  <2>2. QED BY <1>2, <2>1 DEF Seen
<1>4. ASSUME NEW how \in Attempts PROVE Heard(how) \in Seq(SP)
  <2>1. Others(how) \in Seq(SP) /\ <<>> \in SP
    BY OthersType
  <2> HIDE DEF SP
  <2>2. QED BY <2>1 DEF Heard
<1>5. ASSUME NEW i \in DOMAIN monitors
      PROVE  /\ Drop(i) \in Seq(SP)
             /\ monitors[i] \in SP
             /\ monitors[i] # <<>> => [monitors EXCEPT ![i] = Tail(monitors[i])] \in Seq(SP)
  <2>1. monitors[i] # <<>> => Tail(monitors[i]) \in SP
    BY <1>2
  <2> HIDE DEF SP
  <2>2. n - 1 \in Nat
    BY <1>2
  <2>3. \A j \in 1 .. n - 1 : monitors[IF j < i THEN j ELSE j + 1] \in SP
    BY <1>2
  <2>4. Drop(i) \in Seq(SP)
    BY <2>2, <2>3 DEF Drop
  <2>5. QED BY <1>1, <1>2, <2>1, <2>4
<1>6. QED BY <1>3, <1>4, <1>5

LEMMA CmdPasvKeeps ==
  ASSUME ScanInv, UNCHANGED scannerVars, NEW how \in Attempts, CmdPasv(how)
  PROVE  ScanInv'
<1>1. /\ UNCHANGED <<running, mgmt_master, requests, events>>
      /\ running # 0 /\ stdin # <<>> /\ stdin' \in Seq(Verbs)
      /\ Count(stdin', Verbs \ {"quit"}) \in Nat
      /\ Count(stdin, Verbs \ {"quit"}) = Count(stdin', Verbs \ {"quit"}) + 1
      /\ \A v \in Verbs : stdin \in Seq({v}) => stdin' \in Seq({v})
      /\ pc # "stop" /\ ~(pc = "quit" /\ Stopped)
      /\ StartedOnce => mode = "pasv"
  <2> DEFINE verb == "pasv"
  <2>1. Read(verb) /\ UNCHANGED <<running, mgmt_master, requests, events>>
    BY DEF CmdPasv
  <2>2. verb # "quit" /\ verb # "scanend" /\ verb # "pasvend"
    OBVIOUS
  <2> HIDE DEF verb
  <2>3. pc \in Managing => verb = Awaited[pc]
    BY <2>1, ReadFacts, AtHand
  <2>4. StartedOnce => mode = "pasv"
    <3>1. pc \in Managing => Awaited[pc] = "pasv"
      BY <2>3 DEF verb
    <3>2. QED BY <2>1, <3>1, ReadFacts, AtHand
  <2>5. QED BY <2>1, <2>2, <2>4, ReadFacts
<1>2. PICK lines \in Seq(Lines) :
        Say(lines) /\ Count(lines, Answers) = 1 /\ Count(lines, Foul) = 0
        /\ conn_state' \in {"disc", "scan"}
  <2>1. CASE how = "ok"
    <3> DEFINE lines == <<Line("mgmt", "success"), Line("stat", "scan")>>
    <3>1. lines \in Seq(Lines) /\ Count(lines, Answers) = 1 /\ Count(lines, Foul) = 0
      BY Codings, Kinds, FoulIs DEF Codes
    <3>2. Say(lines) /\ conn_state' = "scan"
      BY <2>1 DEF CmdPasv
    <3> HIDE DEF lines
    <3>3. QED BY <3>1, <3>2
  <2>2. CASE how # "ok"
    <3> DEFINE lines == <<Line("mgmt", "badstate")>>
    <3>1. lines \in Seq(Lines) /\ Count(lines, Answers) = 1 /\ Count(lines, Foul) = 0
      BY Codings, Kinds, FoulIs DEF Codes
    <3>2. Say(lines) /\ conn_state' = conn_state
      BY <2>2 DEF CmdPasv
    <3> HIDE DEF lines
    <3>3. QED BY <3>1, <3>2, AsItWas
  <2>3. QED BY <2>1, <2>2
<1>3. monitors' \in Seq(Seq(Packets))
  BY WatchesType DEF CmdPasv
<1>4. requests # <<>> => mgmt_master
  BY DEF ScanInv, Commanded
<1>5. Count(stdin', Verbs \ {"quit"}) + Len(requests') + Count(events', Completions)
        + Count(lines, Answers)
      = Count(stdin, Verbs \ {"quit"}) + Len(requests) + Count(events, Completions)
  BY <1>1, <1>2, AsItWas
<1>6. StartedOnce => Listens(monitors', radio')
  <2>1. CASE how = "ok"
    <3>1. monitors' = Append(Others(how), <<>>)
      BY <2>1 DEF CmdPasv, Heard, Watching
    <3>2. Others(how) \in Seq(Seq(Packets))
      BY OthersType
    <3>3. monitors'[Len(monitors')] = <<>>
      BY <3>1, <3>2
    <3>4. QED BY <1>1, <3>3 DEF Listens
  <2>2. CASE how = "nodev"
    <3>1. radio' = radio /\ monitors' = monitors
      BY <2>2, OthersType DEF CmdPasv, Heard, Watching
    <3>2. QED BY <3>1, AtHand
  <2>3. CASE how \in {"params", "enable"}
    <3>1. radio' = "off"
      BY <2>3 DEF CmdPasv
    <3>2. QED BY <1>1, <3>1 DEF Listens
  <2>4. QED BY <2>1, <2>2, <2>3 DEF Attempts
<1>7. Passively => Count(events', Completions) = 0
  BY <1>1, AtHand
<1>8. Serves(lines)
  BY <1>1, <1>2, <1>3, <1>4, <1>5, <1>6, <1>7, AsItWas DEF Serves
<1>9. QED BY <1>8, Serving

LEMMA CmdPasvEndKeeps ==
  ASSUME ScanInv, UNCHANGED scannerVars, NEW how \in {"nodev", "refused", "ok"}, CmdPasvEnd(how)
  PROVE  ScanInv'
<1>1. /\ UNCHANGED <<running, mgmt_master, requests, events>> /\ conn_state' = "disc"
      /\ running # 0 /\ stdin # <<>> /\ stdin' \in Seq(Verbs)
      /\ Count(stdin', Verbs \ {"quit"}) \in Nat
      /\ Count(stdin, Verbs \ {"quit"}) = Count(stdin', Verbs \ {"quit"}) + 1
      /\ \A v \in Verbs : stdin \in Seq({v}) => stdin' \in Seq({v})
      /\ ~(pc = "quit" /\ Stopped)
      /\ StartedOnce => mode = "pasv" /\ pc = "stop"
  <2> DEFINE verb == "pasvend"
  <2>1. Read(verb) /\ UNCHANGED <<running, mgmt_master, requests, events>> /\ conn_state' = "disc"
    BY DEF CmdPasvEnd
  <2>2. verb # "quit"
    OBVIOUS
  <2> HIDE DEF verb
  <2>3. pc \in Managing => verb = Awaited[pc]
    BY <2>1, ReadFacts, AtHand
  <2>4. StartedOnce => mode = "pasv" /\ pc = "stop"
    <3>1. pc \in Managing => Awaited[pc] = "pasvend"
      BY <2>3 DEF verb
    <3>2. QED BY <2>1, <3>1, ReadFacts, AtHand
  <2>5. QED BY <2>1, <2>2, <2>4, ReadFacts
<1> DEFINE code == IF how = "ok" THEN "success" ELSE "badstate"
           lines == <<Line("mgmt", code), Line("stat", "disc")>>
<1>2. /\ Say(lines) /\ lines \in Seq(Lines) /\ Count(lines, Answers) = 1 /\ Count(lines, Foul) = 0
  BY Codings, Kinds, FoulIs DEF CmdPasvEnd, Codes
<1>3. radio' = "us" => radio = "us" /\ Count(lines, {Line("mgmt", "success")}) = 0
  <2>1. SUFFICES ASSUME radio' = "us"
                 PROVE  radio = "us" /\ Count(lines, {Line("mgmt", "success")}) = 0
    OBVIOUS
  <2>2. how # "ok" /\ radio = "us"
    BY <2>1 DEF CmdPasvEnd, PasvEnd
  <2>3. /\ Line("mgmt", code) # Line("mgmt", "success")
        /\ Line("stat", "disc") # Line("mgmt", "success")
        /\ Line("mgmt", code) \in Lines /\ Line("stat", "disc") \in Lines
    BY <2>2, Codings DEF Line, Codes
  <2>4. QED BY <2>2, <2>3, Kinds
<1>4. monitors' \in Seq(Seq(Packets))
  BY WatchesType, AsItWas DEF CmdPasvEnd, PasvEnd, Packets
<1>5. requests # <<>> => mgmt_master
  BY DEF ScanInv, Commanded
<1> HIDE DEF lines, code
<1>6. Count(stdin', Verbs \ {"quit"}) + Len(requests') + Count(events', Completions)
        + Count(lines, Answers)
      = Count(stdin, Verbs \ {"quit"}) + Len(requests) + Count(events, Completions)
  BY <1>1, <1>2, AsItWas
<1>7. radio' = "us" =>
        /\ radio = "us"
        /\ Count(events', {Completed("success")}) + Count(lines, {Line("mgmt", "success")})
           = Count(events, {Completed("success")})
  BY <1>1, <1>3, AsItWas
<1>8. Passively => Count(events', Completions) = 0
  BY <1>1, AtHand
<1>9. StartedOnce => Listens(monitors', radio')
  BY <1>1 DEF Listens
<1>10. Serves(lines)
  BY <1>1, <1>2, <1>4, <1>5, <1>6, <1>7, <1>8, <1>9, AsItWas DEF Serves
<1>11. QED BY <1>10, Serving

LEMMA CmdQuitKeeps ==
  ASSUME ScanInv, UNCHANGED scannerVars, CmdQuit
  PROVE  ScanInv'
<1>1. /\ running # 0 /\ stdin' \in Seq(Verbs) /\ pc = "quit"
      /\ stdin \in Seq({"quit"}) => stdin' \in Seq({"quit"})
  BY ReadFacts DEF CmdQuit, Verbs
<1>2. /\ running' = 0 /\ conn_state' = "disc" /\ UNCHANGED <<mgmt_master, radio>>
      /\ requests' = <<>> /\ events' = <<>> /\ monitors' = <<>>
  BY DEF CmdQuit
<1>3. /\ running \in Helpers /\ helper = running /\ started = running
      /\ UNCHANGED <<helper, started, reader, lineq, todo, pc, mode, late, scanned, starts, last>>
  BY <1>1 DEF ScanInv, Types, ScanTypeOK, OneHelper, scannerVars, Helpers
<1>4. PICK lines \in Seq(Lines) : Say(lines)
  BY Codings, Kinds DEF CmdQuit
<1>5. /\ stdout' \in [Helpers -> Seq(Lines)]
      /\ \A h \in Helpers : h # running => stdout'[h] = stdout[h]
  BY <1>3, <1>4, SayCounts DEF ScanInv
<1>6. /\ Managing' = Managing /\ Awaited' = Awaited /\ "quit" \notin Managing
  BY <1>3, ManagingIs DEF Managing, Awaited
<1>7. Types'
  <2>1. /\ requests' \in Seq({"le", "scan", "scanend"}) /\ events' \in Seq(Event)
        /\ monitors' \in Seq(Seq(Packets))
    BY <1>2
  <2>2. running' \in 0 .. MaxHelpers
    BY <1>2, ScanAssumption
  <2>3. QED
    BY <1>1, <1>2, <1>3, <1>5, <1>6, <2>1, <2>2 DEF ScanInv, Types, ScanTypeOK
<1>8. OneHelper'
  <2>1. ASSUME NEW h \in Helpers, h > started
        PROVE  stdout'[h] = <<>>
    <3>1. h # running
      BY <1>3, <2>1 DEF Helpers
    <3>2. stdout[h] = <<>>
      BY <2>1 DEF ScanInv, OneHelper
    <3>3. QED BY <1>5, <3>1, <3>2
  <2>2. QED
    BY <1>1, <1>2, <1>3, <2>1 DEF ScanInv, OneHelper
<1>9. Commanded' /\ OneOwed' /\ Waiting'
  BY <1>1, <1>2, <1>3, <1>6, <1>7 DEF ScanInv, Commanded, OneOwed, Waiting, Types
<1>10. Ending'
  BY <1>1, <1>2, <1>3 DEF ScanInv, Ending, Stopped, StopsScan
<1>11. Pure' /\ Listening'
  BY <1>1, <1>3, <1>6 DEF Pure, Passively, Listening, StartedOnce
<1>12. QED
  BY <1>7, <1>8, <1>9, <1>10, <1>11 DEF ScanInv

\* The helper, the kernel or the air does something that no command asks for.
Tells(lines) ==
  /\ running # 0 /\ UNCHANGED <<stdin, running, mgmt_master, requests>>
  /\ lines \in Seq(Lines) /\ Say(lines)
  /\ conn_state' \in {"disc", "scan"} /\ monitors' \in Seq(Seq(Packets))
  /\ events' \in Seq(Event)
  /\ Count(events', Completions) + Count(lines, Answers) = Count(events, Completions)
  /\ Count(events', {Completed("success")}) + Count(lines, {Line("mgmt", "success")})
     = Count(events, {Completed("success")})
  /\ radio' = "us" => radio = "us"
  /\ StartedOnce => Listens(monitors', radio')

LEMMA SwitchListens ==
  ASSUME ScanInv, StartedOnce, NEW to, Switch(to), to # "us" \/ mode = "scan"
  PROVE  Listens(monitors', radio')
<1>1. radio' = to /\ \E packet : monitors' = Seen(packet)
  BY DEF Switch
<1>2. mode = "scan" => monitors = <<>>
  BY AtHand DEF Listens
<1>3. \A packet : monitors = <<>> => Seen(packet) = <<>>
  BY DEF Seen
<1>4. mode = "scan" => monitors' = <<>>
  BY <1>1, <1>2, <1>3
<1>5. QED BY <1>1, <1>4 DEF Listens

LEMMA AirListens ==
  ASSUME ScanInv, Air, StartedOnce
  PROVE  Listens(monitors', radio')
<1>1. ASSUME NEW to \in {"off", "other"}, Switch(to)
      PROVE  Listens(monitors', radio')
  BY <1>1, SwitchListens
<1>2. ASSUME NEW d \in Device, Advertises(d)
      PROVE  Listens(monitors', radio')
  <2> DEFINE n == Len(monitors)
  <2>1. radio' = radio /\ monitors' = Seen(Report(d)) /\ ~EndsScan(Report(d))
    BY <1>2 DEF Advertises, EndsScan, Report
  <2>2. n \in Nat /\ DOMAIN monitors = 1 .. n /\ monitors \in Seq(Seq(Packets))
    BY AsItWas
  <2>3. monitors' = [i \in 1 .. n |-> Append(monitors[i], Report(d))]
    BY <2>1, <2>2 DEF Seen
  <2>4. Report(d) \in Packets
    BY DEF Packets
  <2>5. \A i \in 1 .. n : monitors[i] \in Seq(Packets) /\ monitors'[i] = Append(monitors[i], Report(d))
    BY <2>2, <2>3
  <2>6. Len(monitors') = n
    BY <2>2, <2>3
  <2>7. monitors = <<>> => monitors' = <<>>
    BY <2>2, <2>3
  <2>8. Listens(monitors, radio)
    BY AtHand
  <2>9. ASSUME radio' = "us", monitors' # <<>>, pc # "stop", NEW k \in DOMAIN monitors'[n]
        PROVE  ~EndsScan(monitors'[n][k])
    <3>1. monitors # <<>> /\ n \in 1 .. n
      BY <2>2, <2>7, <2>9
    <3>2. \A m \in DOMAIN monitors[n] : ~EndsScan(monitors[n][m])
      BY <2>1, <2>8, <2>9, <3>1 DEF Listens
    <3>3. monitors[n] \in Seq(Packets) /\ monitors'[n] = Append(monitors[n], Report(d))
      BY <2>5, <3>1
    <3>4. (k \in DOMAIN monitors[n] /\ monitors'[n][k] = monitors[n][k]) \/ monitors'[n][k] = Report(d)
      BY <2>4, <2>9, <3>3
    <3>5. QED BY <2>1, <3>2, <3>4
  <2>10. mode = "scan" => monitors' = <<>>
    BY <2>7, <2>8 DEF Listens
  <2>11. QED BY <2>6, <2>9, <2>10 DEF Listens
<1>3. QED
  BY <1>1, <1>2 DEF Air, DiscoveryEnds, OtherStarts, OtherDisables

LEMMA HciListens ==
  ASSUME ScanInv, StartedOnce, NEW i \in DOMAIN monitors, HciMonitor(i)
  PROVE  Listens(monitors', radio')
<1> DEFINE n == Len(monitors)
<1>1. /\ n \in Nat /\ DOMAIN monitors = 1 .. n /\ monitors \in Seq(Seq(Packets))
      /\ i \in 1 .. n /\ n \in 1 .. n /\ monitors # <<>>
      /\ \A j \in 1 .. n : monitors[j] \in Seq(Packets)
  BY AsItWas
<1>2. monitors[i] # <<>> /\ radio' = radio
  BY DEF HciMonitor
<1>3. Listens(monitors, radio)
  BY AtHand
<1>4. mode # "scan"
  BY <1>1, <1>3 DEF Listens
<1>5. SUFFICES ASSUME radio = "us", pc # "stop", monitors' # <<>>
               PROVE  \A k \in DOMAIN monitors'[Len(monitors')] :
                        ~EndsScan(monitors'[Len(monitors')][k])
  BY <1>2, <1>4 DEF Listens
<1>6. \A k \in DOMAIN monitors[n] : ~EndsScan(monitors[n][k])
  BY <1>1, <1>3, <1>5 DEF Listens
<1>7. CASE EndsScan(Head(monitors[i]))
  <2>1. monitors' = Drop(i)
    BY <1>7 DEF HciMonitor
  <2>2. i # n
    <3>1. SUFFICES ASSUME i = n PROVE FALSE
      OBVIOUS
    <3>2. 1 \in DOMAIN monitors[n] /\ monitors[n][1] = Head(monitors[i])
      BY <1>1, <1>2, <3>1
    <3>3. QED BY <1>6, <1>7, <3>2
  <2>3. i \in 1 .. n - 1 /\ n - 1 \in Nat /\ n - 1 \in 1 .. n - 1 /\ ~(n - 1 < i) /\ n - 1 + 1 = n
    BY <1>1, <2>2
  <2>4. Len(monitors') = n - 1
    BY <2>1, <2>3 DEF Drop
  <2>5. monitors'[n - 1] = monitors[n]
    BY <2>1, <2>3 DEF Drop
  <2>6. QED BY <1>6, <2>4, <2>5
<1>8. CASE ~EndsScan(Head(monitors[i]))
  <2>1. monitors' = [monitors EXCEPT ![i] = Tail(monitors[i])]
    BY <1>8 DEF HciMonitor
  <2>2. Len(monitors') = n
    BY <1>1, <2>1
  <2>3. CASE i = n
    <3>1. monitors'[n] = Tail(monitors[n])
      BY <1>1, <2>1, <2>3
    <3>2. ASSUME NEW k \in DOMAIN Tail(monitors[n])
          PROVE  k + 1 \in DOMAIN monitors[n] /\ Tail(monitors[n])[k] = monitors[n][k + 1]
      BY <1>1, <1>2, <2>3, <3>2
    <3>3. QED BY <1>6, <2>2, <3>1, <3>2
  <2>4. CASE i # n
    <3>1. monitors'[n] = monitors[n]
      BY <1>1, <2>1, <2>4
    <3>2. QED BY <1>6, <2>2, <3>1
  <2>5. QED BY <2>3, <2>4
<1>9. QED BY <1>7, <1>8

LEMMA Telling ==
  ASSUME ScanInv, UNCHANGED scannerVars, NEW lines, Tells(lines)
  PROVE  ScanInv'
<1>1. lines \in Seq(Lines) /\ Count(lines, Answers) \in Nat /\ Count(events', Completions) \in Nat
  BY CountType DEF Tells
<1>2. Count(stdin', Verbs \ {"quit"}) + Len(requests') + Count(events', Completions)
        + Count(lines, Answers)
      = Count(stdin, Verbs \ {"quit"}) + Len(requests) + Count(events, Completions)
  BY <1>1, AsItWas DEF Tells
<1>3. requests # <<>> => mgmt_master
  BY DEF ScanInv, Commanded
<1>4. Passively => Count(events', Completions) = 0 /\ Count(lines, Foul) = 0
  <2>1. SUFFICES ASSUME Passively
                 PROVE  Count(events', Completions) = 0 /\ Count(lines, Foul) = 0
    OBVIOUS
  <2>2. Count(events', Completions) = 0 /\ Count(lines, Answers) = 0
    BY <1>1, <2>1, AtHand DEF Tells
  <2>3. Count(lines, Foul) <= Count(lines, Answers) /\ Count(lines, Foul) \in Nat
    BY <1>1, FoulIs, CountMore, CountType
  <2>4. QED BY <2>2, <2>3
<1>5. Serves(lines)
  BY <1>1, <1>2, <1>3, <1>4, AsItWas DEF Tells, Serves
<1>6. QED BY <1>5, Serving

LEMMA MgmtEventKeeps ==
  ASSUME ScanInv, UNCHANGED scannerVars, MgmtEvent
  PROVE  ScanInv'
<1> DEFINE e == Head(events)  S == {Completed("success")}  L == {Line("mgmt", "success")}
<1>1. /\ running # 0 /\ events # <<>> /\ events' = Tail(events)
      /\ UNCHANGED <<stdin, running, mgmt_master, requests, monitors, radio>>
  BY DEF MgmtEvent
<1>2. /\ e \in Event /\ events' \in Seq(Event)
      /\ Count(events, Completions) = Count(events', Completions) + (IF e \in Completions THEN 1 ELSE 0)
      /\ Count(events, S) = Count(events', S) + (IF e \in S THEN 1 ELSE 0)
      /\ Count(events', Completions) \in Nat /\ Count(events', S) \in Nat
  <2>1. events \in Seq(Event)
    BY AsItWas
  <2>2. e \in Event /\ events' \in Seq(Event)
    BY <1>1, <2>1
  <2> HIDE DEF S
  <2>3. /\ Count(events, Completions) =
             Count(events', Completions) + (IF e \in Completions THEN 1 ELSE 0)
        /\ Count(events, S) = Count(events', S) + (IF e \in S THEN 1 ELSE 0)
    BY <1>1, <2>1, CountTail
  <2>4. Count(events', Completions) \in Nat /\ Count(events', S) \in Nat
    BY <2>2, CountType
  <2>5. QED BY <2>2, <2>3, <2>4
<1>3. SUFFICES
        ASSUME NEW lines \in Seq(Lines), Say(lines), conn_state' \in {"disc", "scan"},
               Count(lines, Answers) = (IF e \in Completions THEN 1 ELSE 0),
               Count(lines, L) = (IF e \in S THEN 1 ELSE 0)
        PROVE  ScanInv'
  <2>1. CASE e.ev = "complete"
    <3> DEFINE line == Line("mgmt", e.tag)
    <3>1. Say(<<line>>) /\ conn_state' = conn_state
      BY <2>1 DEF MgmtEvent
    <3>2. e.tag \in Codes /\ e = Completed(e.tag) /\ line \in Answers /\ e \in Completions
      BY <1>2, <2>1, EventsAre, Codings
    <3>3. e \in S <=> line \in L
      BY <3>2 DEF Completed, Line
    <3>4. line \in Lines
      BY <3>2, Codings
    <3> HIDE DEF line, S, L, e
    <3>5. /\ <<line>> \in Seq(Lines) /\ Count(<<line>>, Answers) = 1
          /\ Count(<<line>>, L) = (IF line \in L THEN 1 ELSE 0)
      BY <3>2, <3>4, Kinds
    <3>6. QED BY <1>3, <3>1, <3>2, <3>3, <3>5, AsItWas
  <2>2. CASE e.ev = "discovering"
    <3> DEFINE line == Line("stat", e.tag)
    <3>1. Say(<<line>>) /\ conn_state' = e.tag
      BY <2>2 DEF MgmtEvent
    <3>2. /\ e.tag \in {"disc", "scan"} /\ e \notin Completions
          /\ line \in Lines /\ line \notin Answers
      BY <1>2, <2>2, EventsAre, Codings
    <3>3. e \notin S /\ line \notin L
      BY <2>2 DEF Completed, Line
    <3> HIDE DEF line, S, L, e
    <3>4. /\ <<line>> \in Seq(Lines) /\ Count(<<line>>, Answers) = 0
          /\ Count(<<line>>, L) = 0
      BY <3>2, <3>3, Kinds
    <3>5. QED BY <1>3, <3>1, <3>2, <3>3, <3>4
  <2>3. CASE e.ev = "found"
    <3> DEFINE line == Found(e.dev)
    <3>1. (Say(<<line>>) \/ Say(<<>>)) /\ conn_state' = conn_state
      BY <2>3 DEF MgmtEvent, Reports
    <3>2. /\ e.dev \in Device /\ e \notin Completions
          /\ line \in Lines /\ line \notin Answers
      BY <1>2, <2>3, EventsAre, Codings
    <3>3. e \notin S /\ line \notin L
      BY <2>3 DEF Completed, Line, Found
    <3> HIDE DEF line, S, L, e
    <3>4. /\ <<line>> \in Seq(Lines) /\ Count(<<line>>, Answers) = 0
          /\ Count(<<line>>, L) = 0
          /\ <<>> \in Seq(Lines) /\ Count(<<>>, Answers) = 0 /\ Count(<<>>, L) = 0
      BY <3>2, <3>3, Kinds
    <3>5. QED BY <1>3, <3>1, <3>2, <3>3, <3>4, AsItWas
  <2>4. QED BY <1>2, <2>1, <2>2, <2>3, EventsAre
<1> HIDE DEF e
<1>4. Tells(lines)
  BY <1>1, <1>2, <1>3, AsItWas, AtHand DEF Tells
<1>5. QED BY <1>4, Telling

LEMMA HciMonitorKeeps ==
  ASSUME ScanInv, UNCHANGED scannerVars, NEW i \in DOMAIN monitors, HciMonitor(i)
  PROVE  ScanInv'
<1>1. /\ running # 0 /\ monitors[i] # <<>>
      /\ UNCHANGED <<stdin, running, mgmt_master, requests, events, radio>>
  BY DEF HciMonitor
<1>2. SUFFICES
        ASSUME NEW lines \in Seq(Lines), Say(lines), conn_state' \in {"disc", "scan"},
               monitors' \in Seq(Seq(Packets)),
               Count(lines, Answers) = 0, Count(lines, {Line("mgmt", "success")}) = 0
        PROVE  ScanInv'
  <2>1. /\ <<>> \in Seq(Lines) /\ Count(<<>>, Answers) = 0
        /\ Count(<<>>, {Line("mgmt", "success")}) = 0
    BY Kinds
  <2>2. ASSUME NEW line \in Lines, line \notin Answers
        PROVE  /\ <<line>> \in Seq(Lines) /\ Count(<<line>>, Answers) = 0
               /\ Count(<<line>>, {Line("mgmt", "success")}) = 0
    BY <2>2, Kinds, Codings DEF Codes
  <2>3. CASE EndsScan(Head(monitors[i]))
    <3>1. monitors' = Drop(i) /\ conn_state' = "disc"
          /\ (Say(<<>>) \/ Say(<<Line("stat", "disc")>>))
      BY <2>3 DEF HciMonitor
    <3>2. QED BY <1>2, <2>1, <2>2, <3>1, WatchesType, Codings
  <2>4. CASE ~EndsScan(Head(monitors[i]))
    <3> DEFINE packet == Head(monitors[i])
    <3>1. /\ monitors' = [monitors EXCEPT ![i] = Tail(monitors[i])] /\ conn_state' = conn_state
          /\ Say(<<>>) \/ (packet.pkt = "report" /\ Say(<<Found(packet.dev)>>))
      BY <2>4 DEF HciMonitor, Reports
    <3>2. packet \in Packets
      BY <1>1, WatchesType
    <3>3. packet.pkt = "report" => packet.dev \in Device
      BY <3>2 DEF Packets, Packet, Report
    <3>4. packet.pkt = "report" => Found(packet.dev) \in Lines /\ Found(packet.dev) \notin Answers
      BY <3>3, Codings
    <3> HIDE DEF packet
    <3>5. QED BY <1>1, <1>2, <2>1, <2>2, <3>1, <3>4, WatchesType, AsItWas
  <2>5. QED BY <2>3, <2>4
<1>3. Tells(lines)
  BY <1>1, <1>2, AsItWas, HciListens DEF Tells
<1>4. QED BY <1>3, Telling

LEMMA TellCounts ==
  ASSUME ScanInv, running # 0, NEW evs \in Seq(Event), Tell(evs)
  PROVE  /\ events' \in Seq(Event)
         /\ \A S : mgmt_master => Count(events', S) = Count(events, S) + Count(evs, S)
         /\ \A S : Count(evs, S) = 0 => Count(events', S) = Count(events, S)
<1>1. events \in Seq(Event) /\ \A S : Count(events, S) \in Nat
  BY AsItWas, CountType
<1>2. CASE mgmt_master
  <2>1. events' = events \o evs
    BY <1>2 DEF Tell
  <2>2. events' \in Seq(Event)
    BY <1>1, <2>1
  <2>3. \A S : Count(events', S) = Count(events, S) + Count(evs, S)
    BY <1>1, <2>1, CountConcat
  <2>4. QED BY <1>1, <2>2, <2>3
<1>3. CASE ~mgmt_master
  BY <1>1, <1>3 DEF Tell
<1>4. QED BY <1>2, <1>3

LEMMA EventKinds ==
  ASSUME NEW S
  PROVE  /\ \A e \in Event : <<e>> \in Seq(Event) /\ Count(<<e>>, S) = IF e \in S THEN 1 ELSE 0
         /\ \A e, f \in Event :
              /\ <<e, f>> \in Seq(Event)
              /\ Count(<<e, f>>, S) = (IF e \in S THEN 1 ELSE 0) + (IF f \in S THEN 1 ELSE 0)
         /\ <<>> \in Seq(Event) /\ Count(<<>>, S) = 0
<1>1. ASSUME NEW e \in Event, NEW f \in Event
      PROVE  /\ <<e, f>> \in Seq(Event)
             /\ Count(<<e, f>>, S) = (IF e \in S THEN 1 ELSE 0) + (IF f \in S THEN 1 ELSE 0)
  <2>1. <<e, f>> = Append(<<e>>, f) /\ <<e>> \in Seq(Event) /\ <<e, f>> \in Seq(Event)
    OBVIOUS
  <2>2. Count(Append(<<e>>, f), S) = Count(<<e>>, S) + (IF f \in S THEN 1 ELSE 0)
    BY <2>1, CountAppend
  <2>3. Count(<<e>>, S) = IF e \in S THEN 1 ELSE 0
    BY CountOne
  <2>4. QED BY <2>1, <2>2, <2>3
<1>2. QED BY <1>1, CountOne, CountEmpty

LEMMA AirKeeps ==
  ASSUME ScanInv, UNCHANGED scannerVars, Air, running # 0
  PROVE  ScanInv'
<1>1. SUFFICES
        ASSUME NEW evs \in Seq(Event), Tell(evs),
               Count(evs, Completions) = 0, Count(evs, {Completed("success")}) = 0,
               monitors' \in Seq(Seq(Packets)), radio' = "us" => radio = "us",
               UNCHANGED <<stdin, stdout, running, mgmt_master, conn_state, requests>>
        PROVE  ScanInv'
  <2>1. ASSUME NEW e \in Event, e \notin Completions
        PROVE  /\ <<e>> \in Seq(Event) /\ Count(<<e>>, Completions) = 0
               /\ Count(<<e>>, {Completed("success")}) = 0
    <3> DEFINE S == {Completed("success")}
    <3>1. Completed("success") \in Completions
      BY Codings DEF Codes
    <3>2. e \notin S
      BY <2>1, <3>1
    <3> HIDE DEF S
    <3>3. <<e>> \in Seq(Event) /\ Count(<<e>>, Completions) = 0
      BY <2>1, EventKinds
    <3>4. Count(<<e>>, S) = 0
      BY <2>1, <3>2, EventKinds
    <3>5. QED BY <3>3, <3>4 DEF S
  <2>2. /\ <<>> \in Seq(Event) /\ Count(<<>>, Completions) = 0
        /\ Count(<<>>, {Completed("success")}) = 0
    BY EventKinds
  <2>3. ASSUME NEW to \in {"off", "other"}, Switch(to)
        PROVE  monitors' \in Seq(Seq(Packets)) /\ radio' # "us"
    BY <2>3, WatchesType DEF Switch, Packets
  <2>4. CASE DiscoveryEnds
    BY <1>1, <2>1, <2>3, <2>4, Codings DEF DiscoveryEnds
  <2>5. CASE OtherStarts
    BY <1>1, <2>1, <2>3, <2>5, Codings DEF OtherStarts
  <2>6. CASE OtherDisables
    <3>1. Tell(<<>>)
      <4>1. events \in Seq(Event) /\ events \o <<>> = events
        BY AsItWas
      <4>2. QED BY <2>6, <4>1 DEF OtherDisables, Tell
    <3>2. QED BY <1>1, <2>2, <2>3, <2>6, <3>1 DEF OtherDisables
  <2>7. ASSUME NEW d \in Device, Advertises(d)
        PROVE  ScanInv'
    <3>1. Report(d) \in Packets
      BY DEF Packets
    <3>2. Tell(<<>>) \/ Tell(<<DeviceFound(d)>>)
      BY <2>7 DEF Advertises
    <3>3. monitors' \in Seq(Seq(Packets)) /\ radio' = radio
      BY <2>7, <3>1, WatchesType DEF Advertises
    <3>4. QED BY <1>1, <2>1, <2>2, <2>7, <3>2, <3>3, Codings DEF Advertises
  <2>8. QED BY <2>4, <2>5, <2>6, <2>7 DEF Air
<1>2. /\ events' \in Seq(Event)
      /\ Count(events', Completions) = Count(events, Completions)
      /\ Count(events', {Completed("success")}) = Count(events, {Completed("success")})
  BY <1>1, TellCounts
<1>3. running \in Helpers
  BY DEF ScanInv, Types, ScanTypeOK, Helpers
<1>4. Say(<<>>)
  BY <1>1, <1>3, SayNothing DEF ScanInv
<1>5. /\ <<>> \in Seq(Lines) /\ Count(<<>>, Answers) = 0
      /\ Count(<<>>, {Line("mgmt", "success")}) = 0
  BY Kinds
<1>6. Tells(<<>>)
  BY <1>1, <1>2, <1>4, <1>5, AsItWas, AirListens DEF Tells
<1>7. QED BY <1>6, Telling

LEMMA KernelDoesKeeps ==
  ASSUME ScanInv, UNCHANGED scannerVars, NEW ok \in BOOLEAN, KernelDoes(ok)
  PROVE  ScanInv'
<1> DEFINE r == Head(requests)
<1>1. /\ running # 0 /\ requests # <<>> /\ requests' = Tail(requests) /\ mgmt_master
      /\ UNCHANGED <<stdin, stdout, running, mgmt_master, conn_state>>
  BY DEF KernelDoes, ScanInv, Commanded
<1>2. /\ r \in {"le", "scan", "scanend"} /\ requests' \in Seq({"le", "scan", "scanend"})
      /\ Len(requests) = Len(requests') + 1 /\ Len(requests') \in Nat
      /\ \A v \in Verbs : requests \in Seq({v}) => r = v /\ requests' \in Seq({v})
  <2>1. requests \in Seq({"le", "scan", "scanend"})
    BY AsItWas
  <2>2. \A v \in Verbs : requests \in Seq({v}) => r = v /\ requests' \in Seq({v})
    BY <1>1, <2>1, SeqOfOne
  <2>3. QED BY <1>1, <2>1, <2>2
<1>3. pc = "stop" => r = "scanend"
  <2>1. SUFFICES ASSUME pc = "stop" PROVE r = "scanend"
    OBVIOUS
  <2>2. Awaited["stop"] \in {"scanend", "pasvend"}
    BY AwaitedIs DEF ScanInv, Types
  <2>3. requests \in Seq({Awaited["stop"]})
    BY <2>1, ManagingIs DEF ScanInv, Commanded
  <2>4. r = Awaited["stop"]
    BY <1>2, <2>2, <2>3 DEF Verbs
  <2>5. QED BY <1>2, <2>2, <2>4
<1>4. ~(pc = "quit" /\ Stopped)
  BY <1>1 DEF ScanInv, Ending
<1>5. StartedOnce /\ r = "scan" => mode = "scan"
  BY <1>1, <1>2, AtHand
<1>6. StartedOnce => Listens(monitors, radio)
  BY AtHand
<1>7. SUFFICES
        ASSUME NEW evs \in Seq(Event), Tell(evs), Count(evs, Completions) = 1,
               monitors' \in Seq(Seq(Packets)),
               StartedOnce => Listens(monitors', radio'),
               pc = "stop" /\ radio' = "us" =>
                 radio = "us" /\ Count(evs, {Completed("success")}) = 0
        PROVE  ScanInv'
  <2>1. ASSUME NEW c \in Codes
        PROVE  /\ <<Completed(c)>> \in Seq(Event) /\ Count(<<Completed(c)>>, Completions) = 1
               /\ c # "success" => Count(<<Completed(c)>>, {Completed("success")}) = 0
    <3> DEFINE S == {Completed("success")}
    <3>1. Completed(c) \in Completions /\ Completed(c) \in Event
      BY Codings
    <3>2. c # "success" => Completed(c) \notin S
      BY DEF Completed
    <3> HIDE DEF S
    <3>3. /\ <<Completed(c)>> \in Seq(Event) /\ Count(<<Completed(c)>>, Completions) = 1
      BY <3>1, EventKinds
    <3>4. c # "success" => Count(<<Completed(c)>>, S) = 0
      BY <3>1, <3>2, EventKinds
    <3>5. QED BY <3>3, <3>4 DEF S
  <2>2. ASSUME NEW c \in Codes, NEW st \in {"disc", "scan"}
        PROVE  /\ <<Completed(c), Discovering(st)>> \in Seq(Event)
               /\ Count(<<Completed(c), Discovering(st)>>, Completions) = 1
    <3> DEFINE e == Completed(c)  f == Discovering(st)
    <3>1. e \in Completions /\ e \in Event
      BY Codings
    <3>2. f \in Event /\ f \notin Completions
      BY Codings
    <3> HIDE DEF e, f
    <3>3. <<e, f>> \in Seq(Event)
      BY <3>1, <3>2, EventKinds
    <3>4. Count(<<e, f>>, Completions) = 1
      BY <3>1, <3>2, EventKinds
    <3>5. QED BY <3>3, <3>4 DEF e, f
  <2>3. monitors \in Seq(Seq(Packets))
    BY AsItWas
  <2>4. ASSUME NEW to \in {"off", "us"}, Switch(to)
        PROVE  /\ monitors' \in Seq(Seq(Packets)) /\ radio' = to
               /\ StartedOnce /\ (to # "us" \/ mode = "scan") => Listens(monitors', radio')
    BY <2>4, WatchesType, SwitchListens DEF Switch, Packets
  <2>5. CASE ~ok
    <3>1. Tell(<<Completed("mgmterr")>>) /\ radio' = radio /\ monitors' = monitors
      BY <2>5 DEF KernelDoes
    <3>2. QED BY <1>7, <1>6, <2>1, <2>3, <3>1 DEF Codes
  <2>6. CASE ok /\ r = "le"
    <3>1. Tell(<<Completed("success")>>) /\ radio' = radio /\ monitors' = monitors
      BY <2>6 DEF KernelDoes
    <3>2. pc # "stop"
      BY <1>3, <2>6
    <3>3. QED BY <1>7, <1>6, <2>1, <2>3, <3>1, <3>2 DEF Codes
  <2>7. CASE ok /\ r = "scan" /\ discovery # "none"
    <3>1. Tell(<<Completed("busy")>>) /\ radio' = radio /\ monitors' = monitors
      BY <2>7 DEF KernelDoes
    <3>2. QED BY <1>7, <1>6, <2>1, <2>3, <3>1 DEF Codes
  <2>8. CASE ok /\ r = "scan" /\ discovery = "none"
    <3>1. Tell(<<Completed("success"), Discovering("scan")>>) /\ Switch("us")
      BY <2>8 DEF KernelDoes
    <3>2. pc # "stop"
      BY <1>3, <2>8
    <3>3. QED BY <1>7, <1>5, <2>2, <2>4, <2>8, <3>1, <3>2 DEF Codes
  <2>9. CASE ok /\ r = "scanend" /\ discovery = "none"
    <3>1. Tell(<<Completed("mgmterr")>>) /\ radio' = radio /\ monitors' = monitors
      BY <2>9 DEF KernelDoes
    <3>2. QED BY <1>7, <1>6, <2>1, <2>3, <3>1 DEF Codes
  <2>10. CASE ok /\ r = "scanend" /\ discovery # "none"
    <3>1. Tell(<<Completed("success"), Discovering("disc")>>) /\ Switch("off")
      BY <2>10 DEF KernelDoes
    <3>2. /\ radio' # "us" /\ monitors' \in Seq(Seq(Packets))
          /\ StartedOnce => Listens(monitors', radio')
      BY <2>4, <3>1
    <3>3. QED BY <1>7, <2>2, <3>1, <3>2 DEF Codes
  <2>11. QED BY <1>2, <2>5, <2>6, <2>7, <2>8, <2>9, <2>10
<1>8. /\ events' \in Seq(Event)
      /\ Count(events', Completions) = Count(events, Completions) + 1
  BY <1>1, <1>7, TellCounts
<1>9. Count(evs, {Completed("success")}) = 0 =>
        Count(events', {Completed("success")}) = Count(events, {Completed("success")})
  BY <1>1, <1>7, TellCounts
<1>10. running \in Helpers
  BY <1>1 DEF ScanInv, Types, ScanTypeOK, Helpers
<1>11. Say(<<>>)
  BY <1>1, <1>10, SayNothing DEF ScanInv
<1>12. /\ <<>> \in Seq(Lines) /\ Count(<<>>, Answers) = 0
       /\ Count(<<>>, {Line("mgmt", "success")}) = 0
  BY Kinds
<1>13. Count(stdin', Verbs \ {"quit"}) + Len(requests') + Count(events', Completions)
         + Count(<<>>, Answers)
       = Count(stdin, Verbs \ {"quit"}) + Len(requests) + Count(events, Completions)
  BY <1>1, <1>2, <1>8, <1>12, AsItWas
<1>14. pc = "stop" /\ radio' = "us" =>
         /\ radio = "us"
         /\ Count(events', {Completed("success")}) + Count(<<>>, {Line("mgmt", "success")})
            = Count(events, {Completed("success")})
  BY <1>7, <1>9, <1>12, AsItWas
<1>15. ~Passively
  BY <1>1, AtHand
<1>16. Serves(<<>>)
  BY <1>1, <1>2, <1>4, <1>7, <1>8, <1>11, <1>12, <1>13, <1>14, <1>15, AsItWas DEF Serves
<1>17. QED BY <1>16, Serving

LEMMA AirAlone ==
  ASSUME ScanInv, UNCHANGED scannerVars, Air, running = 0
  PROVE  ScanInv'
<1>1. /\ UNCHANGED <<stdin, stdout, running, mgmt_master, conn_state, requests, events>>
      /\ radio' = "us" => radio = "us"
      /\ monitors' \in Seq(Seq(Packets))
  <2>1. ASSUME NEW to \in {"off", "other"}, Switch(to)
        PROVE  monitors' \in Seq(Seq(Packets)) /\ radio' # "us"
    BY <2>1, WatchesType DEF Switch, Packets
  <2>2. CASE DiscoveryEnds
    BY <2>1, <2>2 DEF DiscoveryEnds, Tell
  <2>3. CASE OtherStarts
    BY <2>1, <2>3 DEF OtherStarts, Tell
  <2>4. CASE OtherDisables
    BY <2>1, <2>4 DEF OtherDisables
  <2>5. QED BY <2>2, <2>3, <2>4 DEF Air, Advertises
<1>2. /\ Managing' = Managing /\ Awaited' = Awaited
      /\ Printed' = Printed /\ Held' = Held
      /\ UNCHANGED scannerVars
  BY <1>1 DEF Managing, Awaited, Printed, Held, scannerVars
<1>3. Types'
  BY <1>1, <1>2 DEF ScanInv, Types, ScanTypeOK, scannerVars
<1>4. OneHelper' /\ Commanded' /\ Waiting'
  BY <1>1, <1>2 DEF ScanInv, OneHelper, Commanded, Waiting, scannerVars
<1>5. OneOwed'
  <2>1. Owed' = Owed
    BY <1>1, <1>2 DEF Owed, scannerVars
  <2>2. QED BY <1>2, <1>3, <2>1 DEF ScanInv, OneOwed, Types, scannerVars
<1>6. Ending'
  <2>1. Good' = Good
    BY <1>1, <1>2 DEF Good, scannerVars
  <2>2. QED BY <1>1, <1>2, <2>1 DEF ScanInv, Ending, Stopped, StopsScan, scannerVars
<1>7. Pure'
  <2>1. Passively' = Passively
    BY <1>2 DEF Passively, scannerVars
  <2>2. QED BY <1>1, <1>2, <2>1 DEF ScanInv, Pure, scannerVars
<1>8. Listening'
  <2>1. StartedOnce' => StartedOnce
    BY <1>2 DEF StartedOnce, scannerVars
  <2>2. StartedOnce => Listens(monitors, radio)'
    BY <1>2, AirListens DEF Listens, scannerVars
  <2>3. QED BY <2>1, <2>2 DEF Listening
<1>9. QED BY <1>3, <1>4, <1>5, <1>6, <1>7, <1>8 DEF ScanInv

LEMMA HelperSteps ==
  ASSUME ScanInv, UNCHANGED scannerVars, Helping \/ Kernel
  PROVE  ScanInv'
<1>1. CASE Helping
  BY <1>1, CmdMgmtKeeps, CmdPasvKeeps, CmdPasvEndKeeps, CmdQuitKeeps, MgmtEventKeeps, HciMonitorKeeps
  DEF Helping, PromptRead
<1>2. CASE Kernel
  BY <1>2, KernelDoesKeeps, AirKeeps, AirAlone DEF Kernel
<1>3. QED BY <1>1, <1>2

-----------------------------------------------------------------------------
(* The program.                                                             *)

LEMMA RestIs ==
  ASSUME NEW call \in Rest, call # <<>>
  PROVE  /\ Tail(call) \in Rest
         /\ Len(call) # 1 => Tail(call) # <<>>
         /\ Starts(Tail(call)) => Starts(call) /\ Head(call) = "clear"
         /\ Head(call) \in {"start", "process", "stop", "clear"}
         /\ Head(call) \in {"process", "stop"} => ~Starts(call)
         /\ Head(call) = "clear" /\ Starts(call) => Len(call) # 1 /\ Starts(Tail(call))
<1>1. CASE \E m \in {"start", "process", "stop", "clear"} : call = <<m>>
  <2>1. PICK m \in {"start", "process", "stop", "clear"} : call = <<m>>
    BY <1>1
  <2>2. Tail(call) = <<>> /\ Len(call) = 1 /\ Head(call) = m
    BY <2>1
  <2>3. QED BY <2>1, <2>2 DEF Rest, Starts
<1>2. CASE call = <<"process", "stop">>
  <2>1. Tail(call) = <<"stop">>
    BY <1>2
  <2>2. QED BY <1>2, <2>1 DEF Rest, Starts
<1>3. CASE call = <<"start", "process", "stop">>
  <2>1. Tail(call) = <<"process", "stop">>
    BY <1>3
  <2>2. QED BY <1>3, <2>1 DEF Rest, Starts
<1>4. CASE call = <<"clear", "start", "process", "stop">>
  <2>1. Tail(call) = <<"start", "process", "stop">>
    BY <1>4
  <2>2. /\ call[2] = "start" /\ 2 \in DOMAIN call /\ Len(call) # 1
        /\ Tail(call)[1] = "start" /\ 1 \in DOMAIN Tail(call)
    BY <1>4
  <2>3. QED BY <1>4, <2>1, <2>2 DEF Rest, Starts
<1>5. QED BY <1>1, <1>2, <1>3, <1>4 DEF Rest

LEMMA Returns ==
  ASSUME ScanInv, todo # <<>>, Return
  PROVE  /\ todo' \in Rest /\ pc' \in {"idle", "enter"} /\ Fits(pc', todo')
         /\ last' = [call |-> Head(todo), how |-> "ok"]
         /\ Starts(todo') => Starts(todo) /\ Head(todo) = "clear"
         /\ Head(todo) # "start" /\ Starts(todo) => pc' = "enter" /\ Starts(todo')
<1>1. todo \in Rest
  BY DEF ScanInv, Types
<1>2. QED BY <1>1, RestIs DEF Return, Ends, Fits

\* nothing on its way to the program is an answer
Cleared ==
  /\ requests = <<>> /\ Count(events, Completions) = 0
  /\ Count(Printed, Answers) = 0 /\ Count(Held, Answers) = 0

\* the start() that began the scan at hand is still the last one
GoesOn ==
  /\ starts' \in Nat /\ started <= starts'
  /\ StartedOnce' => StartedOnce /\ mode' = mode /\ (pc = "stop" => mode = "scan")

\* The program goes on in a way that keeps the accounts.
Proceeds ==
  /\ UNCHANGED <<helper, started, reader, stdout, running, mgmt_master, conn_state, requests,
                 events, monitors, radio>>
  /\ lineq' \in Seq(Lines) /\ mode' \in {"scan", "pasv"} /\ stdin' \in Seq(Verbs)
  /\ scanned' \in [Addr -> AddrType \cup {Unseen}]
  /\ pc # "quit" /\ pc' \in Managing \cup {"idle", "enter", "gone", "process", "quit"}
  /\ todo' \in Rest /\ Fits(pc', todo')
  /\ pc' \in Managing \cup {"gone", "process", "quit"} => helper # 0
  /\ helper = 0 /\ pc' = "enter" /\ Starts(todo') => started < MaxHelpers
  /\ pc' = "idle" => last' # [call |-> "stop", how |-> "ok"]
  /\ pc' = "quit" => last' = [call |-> Head(todo'), how |-> last'.how]
  /\ pc' = "quit" /\ last'.how = "ok" =>
       radio # "us" /\ requests = <<>> /\ stdin' \in Seq({"quit"})
  /\ helper # 0 /\ pc' # "quit" => Cleared /\ Count(lineq', Answers) = 0
  /\ helper # 0 /\ pc' \notin Managing \cup {"quit"} => stdin' = <<>>
  /\ pc' \in Managing => stdin' = <<Awaited'[pc']>>
  /\ GoesOn /\ (pc' = "ended" => mode' = "scan")

LEMMA Proceeding ==
  ASSUME ScanInv, Proceeds
  PROVE  ScanInv'
<1>1. /\ UNCHANGED <<helper, started, reader, stdout, running, mgmt_master, conn_state,
                     requests, events, monitors, radio>>
      /\ Managing' = Managing /\ Printed' = Printed /\ Held' = Held
  BY ManagingIs DEF Proceeds, Managing, Awaited, Printed, Held
<1>2. Types'
  BY <1>1 DEF ScanInv, Types, ScanTypeOK, Proceeds, GoesOn
<1>3. OneHelper'
  BY <1>1 DEF ScanInv, OneHelper, Proceeds
<1>4. \A at \in Managing : Awaited'[at] \in Verbs \ {"quit"}
  BY <1>1, <1>2, ManagingIs DEF Types, Awaited, Ended, Verbs
<1>5. /\ pc' \in Managing => stdin' = <<Awaited'[pc']>> /\ requests' = <<>>
      /\ helper' # 0 /\ pc' \notin Managing \cup {"quit"} => stdin' = <<>> /\ requests' = <<>>
  BY <1>1, ManagingIs DEF Proceeds, Cleared
<1>6. Commanded'
  <2>1. \A v : <<v>> \in Seq({v}) /\ <<>> \in Seq({v})
    OBVIOUS
  <2>2. requests' # <<>> => mgmt_master'
    BY <1>1 DEF ScanInv, Commanded
  <2>3. pc' \in Managing' => stdin' \in Seq({Awaited'[pc']}) /\ requests' \in Seq({Awaited'[pc']})
    BY <1>1, <1>5, <2>1
  <2>4. QED BY <1>1, <1>5, <2>2, <2>3 DEF Commanded
<1>7. Waiting'
  BY DEF Proceeds, Waiting
<1>8. helper' # 0 /\ pc' # "quit" =>
        /\ Len(requests') = 0 /\ Count(events', Completions) = 0
        /\ Count(Printed', Answers) = 0 /\ Count(Held', Answers) = 0
        /\ Count(lineq', Answers) = 0
  BY <1>1 DEF Proceeds, Cleared
<1>9. OneOwed'
  <2>1. helper' # 0 /\ pc' # "quit" =>
          Count(stdin', Verbs \ {"quit"}) = IF pc' \in Managing THEN 1 ELSE 0
    <3>1. CASE pc' \in Managing
      BY <1>4, <1>5, <3>1, CountOne
    <3>2. CASE pc' \notin Managing
      BY <1>1, <1>5, <3>2, CountEmpty
    <3>3. QED BY <3>1, <3>2
  <2>2. helper' # 0 /\ pc' # "quit" => Owed' = IF pc' \in Managing THEN 1 ELSE 0
    BY <1>8, <2>1 DEF Owed
  <2>3. QED BY <1>1, <1>2, <2>2 DEF OneOwed, Types
<1>10. Ending'
  <2>1. pc' = "stop" => Good' = 0
    <3>1. SUFFICES ASSUME pc' = "stop" PROVE Good' = 0
      OBVIOUS
    <3>2. helper' # 0 /\ pc' # "quit"
      BY <1>1, <3>1, ManagingIs DEF Proceeds
    <3>3. /\ events' \in Seq(Event) /\ Printed' \in Seq(Lines) /\ Held' \in Seq(Lines)
          /\ lineq' \in Seq(Lines)
      BY <1>2, <3>2 DEF Types, ScanTypeOK, Printed, Held, Helpers
    <3>4. {Completed("success")} \subseteq Completions /\ {Line("mgmt", "success")} \subseteq Answers
      BY Codings DEF Codes
    <3>5. Count(events', {Completed("success")}) <= 0 /\ Count(events', {Completed("success")}) \in Nat
      BY <1>8, <3>2, <3>3, <3>4, CountMore, CountType
    <3>6. \A s \in Seq(Lines) : Count(s, Answers) = 0 => Count(s, {Line("mgmt", "success")}) = 0
      <4>1. ASSUME NEW s \in Seq(Lines), Count(s, Answers) = 0
            PROVE  Count(s, {Line("mgmt", "success")}) = 0
        <5>1. Count(s, {Line("mgmt", "success")}) <= 0 /\ Count(s, {Line("mgmt", "success")}) \in Nat
          BY <3>4, <4>1, CountMore, CountType
        <5>2. QED BY <5>1
      <4>2. QED BY <4>1
    <3>7. /\ Count(Printed', {Line("mgmt", "success")}) = 0
          /\ Count(Held', {Line("mgmt", "success")}) = 0
          /\ Count(lineq', {Line("mgmt", "success")}) = 0
      BY <1>8, <3>2, <3>3, <3>6
    <3>8. QED BY <3>5, <3>7 DEF Good
  <2>2. pc' = "quit" /\ Stopped' =>
          radio' # "us" /\ requests' = <<>> /\ stdin' \in Seq({"quit"})
    BY <1>1 DEF Proceeds, Stopped
  <2>3. StopsScan'
    BY DEF Proceeds, StopsScan, Stopped
  <2>4. QED BY <2>1, <2>2, <2>3 DEF Ending
<1>11. Pure'
  <2>1. pc' = "ended" => mode' = "scan"
    BY DEF Proceeds
  <2>2. SUFFICES ASSUME Passively'
                 PROVE  /\ Count(events', Completions) = 0
                        /\ Count(Printed', Foul) + Count(Held', Foul) + Count(lineq', Foul) = 0
    BY <1>1, <2>1 DEF Pure
  <2>3. helper' # 0 /\ pc' # "quit"
    BY <1>1, <2>2, ManagingIs DEF Proceeds, Passively
  <2>4. Printed' \in Seq(Lines) /\ Held' \in Seq(Lines) /\ lineq' \in Seq(Lines)
    BY <1>2, <2>3 DEF Types, ScanTypeOK, Printed, Held, Helpers
  <2>5. ASSUME NEW t \in Seq(Lines), Count(t, Answers) = 0
        PROVE  Count(t, Foul) = 0
    <3>1. Count(t, Foul) <= 0 /\ Count(t, Foul) \in Nat
      BY <2>5, FoulIs, CountMore, CountType
    <3>2. QED BY <3>1
  <2>6. Count(Printed', Foul) = 0 /\ Count(Held', Foul) = 0 /\ Count(lineq', Foul) = 0
    BY <1>8, <2>3, <2>4, <2>5
  <2>7. QED BY <1>8, <2>3, <2>6
<1>12. Listening'
  <2>1. SUFFICES ASSUME StartedOnce' PROVE Listens(monitors, radio)'
    BY DEF Listening
  <2>2. /\ StartedOnce /\ mode' = mode /\ (pc = "stop" => mode = "scan")
        /\ monitors' = monitors /\ radio' = radio
    BY <1>1, <2>1 DEF Proceeds, GoesOn
  <2>3. Listens(monitors, radio)
    BY <2>2 DEF ScanInv, Listening
  <2>4. QED BY <2>2, <2>3 DEF Listens
<1>13. QED
  BY <1>2, <1>3, <1>6, <1>7, <1>9, <1>10, <1>11, <1>12 DEF ScanInv

\* A line that is no answer is dropped, or time passes.
LEMMA Dropping ==
  ASSUME ScanInv, UNCHANGED helperVars,
         UNCHANGED <<helper, started, reader, todo, pc, mode, scanned, starts, last>>,
         UNCHANGED lineq \/ (lineq # <<>> /\ Head(lineq) \notin Answers /\ lineq' = Tail(lineq))
  PROVE  ScanInv'
<1>1. /\ Managing' = Managing /\ Awaited' = Awaited
      /\ Printed' = Printed /\ Held' = Held
      /\ UNCHANGED helperVars
      /\ UNCHANGED <<helper, started, reader, todo, pc, mode, scanned, starts, last>>
  BY DEF Managing, Awaited, Printed, Held, helperVars
<1>2. /\ lineq' \in Seq(Lines) /\ Count(lineq', Answers) = Count(lineq, Answers)
      /\ Count(lineq', {Line("mgmt", "success")}) = Count(lineq, {Line("mgmt", "success")})
      /\ Count(lineq', Foul) = Count(lineq, Foul)
  <2>1. lineq \in Seq(Lines)
    BY DEF ScanInv, Types, ScanTypeOK
  <2>2. CASE UNCHANGED lineq
    BY <2>1, <2>2
  <2>3. CASE lineq # <<>> /\ Head(lineq) \notin Answers /\ lineq' = Tail(lineq)
    <3> DEFINE S == {Line("mgmt", "success")}
    <3>1. Head(lineq) \notin S
      BY <2>3, Codings DEF Codes
    <3> HIDE DEF S
    <3>2. lineq' \in Seq(Lines)
      BY <2>1, <2>3
    <3>3. Count(lineq', Answers) \in Nat /\ Count(lineq', S) \in Nat
      BY <3>2, CountType
    <3>4. Count(lineq, Answers) = Count(lineq', Answers) + 0
      BY <2>1, <2>3, CountTail
    <3>5. Count(lineq, S) = Count(lineq', S) + 0
      BY <2>1, <2>3, <3>1, CountTail
    <3>6. Count(lineq, Foul) = Count(lineq', Foul) + 0 /\ Count(lineq', Foul) \in Nat
      <4>1. Head(lineq) \notin Foul
        BY <2>3, FoulIs
      <4>2. Count(lineq, Foul) = Count(lineq', Foul) + 0
        BY <2>1, <2>3, <4>1, CountTail
      <4>3. QED BY <3>2, <4>2, CountType
    <3>7. QED BY <3>2, <3>3, <3>4, <3>5, <3>6 DEF S
  <2>4. QED BY <2>2, <2>3
<1>3. Types'
  BY <1>1, <1>2 DEF ScanInv, Types, ScanTypeOK, helperVars
<1>4. OneHelper' /\ Commanded' /\ Waiting'
  BY <1>1 DEF ScanInv, OneHelper, Commanded, Waiting, helperVars
<1>5. OneOwed'
  <2>1. Owed' = Owed
    BY <1>1, <1>2 DEF Owed, helperVars
  <2>2. QED BY <1>1, <1>3, <2>1 DEF ScanInv, OneOwed, Types
<1>6. Ending'
  <2>1. Good' = Good
    BY <1>1, <1>2 DEF Good, helperVars
  <2>2. QED BY <1>1, <2>1 DEF ScanInv, Ending, Stopped, StopsScan, helperVars
<1>7. Pure'
  <2>1. Passively' = Passively
    BY <1>1 DEF Passively
  <2>2. QED BY <1>1, <1>2, <2>1 DEF ScanInv, Pure, helperVars
<1>8. Listening'
  <2>1. StartedOnce' = StartedOnce
    BY <1>1 DEF StartedOnce
  <2>2. Listens(monitors, radio)' = Listens(monitors, radio)
    BY <1>1 DEF Listens, helperVars
  <2>3. QED BY <2>1, <2>2 DEF ScanInv, Listening
<1>9. QED BY <1>3, <1>4, <1>5, <1>6, <1>7, <1>8 DEF ScanInv

LEMMA AccountTypes ==
  ASSUME ScanInv
  PROVE  /\ Count(stdin, Verbs \ {"quit"}) \in Nat /\ Len(requests) \in Nat
         /\ Count(events, Completions) \in Nat /\ Count(Printed, Answers) \in Nat
         /\ Count(Held, Answers) \in Nat /\ Count(lineq, Answers) \in Nat
         /\ Printed \in Seq(Lines) /\ Held \in Seq(Lines) /\ lineq \in Seq(Lines)
<1>1. Printed \in Seq(Lines) /\ Held \in Seq(Lines) /\ lineq \in Seq(Lines)
  <2>1. /\ stdout \in [Helpers -> Seq(Lines)] /\ lineq \in Seq(Lines)
        /\ helper \in 0 .. MaxHelpers
        /\ \A h \in Helpers : reader[h].line \in Seq(Lines)
    BY DEF ScanInv, Types, ScanTypeOK
  <2>2. helper # 0 => helper \in Helpers
    BY <2>1 DEF Helpers
  <2>3. <<>> \in Seq(Lines)
    OBVIOUS
  <2>4. QED BY <2>1, <2>2, <2>3 DEF Printed, Held
<1>2. QED BY <1>1, AsItWas, CountType

\* Between two commands nothing is owed.
LEMMA NothingOwed ==
  ASSUME ScanInv, helper # 0, pc \notin Managing \cup {"quit"}
  PROVE  Cleared /\ stdin = <<>> /\ Count(lineq, Answers) = 0
<1>1. Owed = 0
  BY DEF ScanInv, OneOwed
<1>2. QED BY <1>1, AccountTypes DEF Owed, Cleared, ScanInv, Commanded

\* The answer that is read was the only one.
LEMMA AnswerRead ==
  ASSUME ScanInv, pc \in Managing, lineq # <<>>, Head(lineq) \in Answers
  PROVE  Cleared /\ stdin = <<>> /\ Count(Tail(lineq), Answers) = 0
<1>1. Owed = 1
  BY ManagingIs DEF ScanInv, OneOwed, OneHelper
<1>2. /\ Count(lineq, Answers) = Count(Tail(lineq), Answers) + 1
      /\ Count(Tail(lineq), Answers) \in Nat
  <2>1. lineq \in Seq(Lines)
    BY AccountTypes
  <2>2. Tail(lineq) \in Seq(Lines)
    BY <2>1
  <2>3. Count(Tail(lineq), Answers) \in Nat
    BY <2>2, CountType
  <2>4. Count(lineq, Answers) = Count(Tail(lineq), Answers) + (IF Head(lineq) \in Answers THEN 1 ELSE 0)
    BY <2>1, CountTail
  <2>5. QED BY <2>3, <2>4
<1>3. /\ Count(Tail(lineq), Answers) = 0 /\ Count(stdin, Verbs \ {"quit"}) = 0
      /\ Len(requests) = 0 /\ Count(events, Completions) = 0
      /\ Count(Printed, Answers) = 0 /\ Count(Held, Answers) = 0
  BY <1>1, <1>2, AccountTypes, SMTT(30) DEF Owed
<1>4. requests = <<>>
  BY <1>3, AsItWas
<1>5. stdin = <<>>
  <2>1. Awaited[pc] \in Verbs \ {"quit"}
    BY AwaitedIs DEF ScanInv, Types, Verbs
  <2>2. stdin \in Seq({Awaited[pc]})
    BY DEF ScanInv, Commanded
  <2>3. {Awaited[pc]} \subseteq Verbs \ {"quit"}
    BY <2>1
  <2>4. Count(stdin, Verbs \ {"quit"}) = Len(stdin)
    BY <2>2, <2>3, CountAll
  <2>5. QED BY <1>3, <2>2, <2>4
<1>6. QED BY <1>3, <1>4, <1>5 DEF Cleared

\* what the program's own steps leave alone
Kept ==
  /\ UNCHANGED <<helper, started, reader, stdout, running, mgmt_master, conn_state, requests,
                 events, monitors, radio>>
  /\ lineq' \in Seq(Lines) /\ mode' \in {"scan", "pasv"}
  /\ scanned' \in [Addr -> AddrType \cup {Unseen}]
  /\ starts' \in Nat /\ started <= starts'
  /\ mode' = mode
  /\ (starts' = starts /\ ~(pc = "enter" /\ Head(todo) = "start")) \/ started < starts'
  /\ pc \notin {"idle", "quit"}

\* nothing is owed after the step either
Even == Kept /\ (helper # 0 => Cleared /\ stdin = <<>> /\ Count(lineq', Answers) = 0)

LEMMA Before ==
  ASSUME ScanInv, pc \notin {"idle", "quit"}
  PROVE  /\ todo \in Rest /\ todo # <<>> /\ Fits(pc, todo) /\ stdin \in Seq(Verbs)
         /\ helper = 0 => pc = "enter"
         /\ helper = 0 /\ Starts(todo) => started < MaxHelpers
  BY DEF ScanInv, Types, ScanTypeOK, OneHelper, Waiting, Fits

LEMMA GoingOn ==
  ASSUME ScanInv, Kept, pc = "stop" => mode = "scan" \/ pc' = "quit",
         (pc = "enter" /\ Head(todo) \in {"process", "stop", "start"})
           \/ (pc' = "enter" /\ Starts(todo')) \/ pc # "enter" \/ ~Starts(todo)
  PROVE  GoesOn
<1>1. todo \in Rest /\ todo # <<>> /\ helper' = helper /\ started' = started
  BY Before DEF Kept
<1>2. started \in Nat /\ starts \in Nat /\ MaxHelpers \in Nat
  BY ScanAssumption DEF ScanInv, Types
<1>3. SUFFICES ASSUME StartedOnce'
               PROVE  StartedOnce /\ (pc = "stop" => mode = "scan")
  BY DEF Kept, GoesOn
<1>4. /\ helper # 0 /\ starts' = started /\ pc' # "quit" /\ ~(pc' = "enter" /\ Starts(todo'))
  BY <1>1, <1>3 DEF StartedOnce
<1>5. starts' = starts /\ ~(pc = "enter" /\ Head(todo) = "start")
  BY <1>2, <1>4 DEF Kept
<1>6. ~(pc = "enter" /\ Starts(todo))
  BY <1>1, <1>4, <1>5, RestIs
<1>7. QED BY <1>4, <1>5, <1>6 DEF StartedOnce, Kept

LEMMA ReturnKeeps ==
  ASSUME ScanInv, Even, Return, UNCHANGED stdin, Head(todo) # "stop"
  PROVE  ScanInv'
<1>1. /\ todo \in Rest /\ todo # <<>> /\ Fits(pc, todo) /\ stdin \in Seq(Verbs)
      /\ helper = 0 /\ Starts(todo) => started < MaxHelpers
  BY Before DEF Even, Kept
<1>2. /\ todo' \in Rest /\ pc' \in {"idle", "enter"} /\ Fits(pc', todo')
      /\ last' = [call |-> Head(todo), how |-> "ok"]
      /\ Starts(todo') => Starts(todo)
      /\ Head(todo) # "start" /\ Starts(todo) => pc' = "enter" /\ Starts(todo')
  BY <1>1, Returns
<1>3. GoesOn
  BY <1>1, <1>2, GoingOn DEF Even, Fits
<1>4. Proceeds
  BY <1>1, <1>2, <1>3, ManagingIs DEF Even, Kept, Proceeds
<1>5. QED BY <1>4, Proceeding

LEMMA RaiseKeeps ==
  ASSUME ScanInv, Even, NEW how, Raise(how), UNCHANGED stdin, how # "ok",
         helper = 0 \/ (pc # "enter" /\ (pc = "stop" => mode = "scan"))
  PROVE  ScanInv'
<1>1. stdin \in Seq(Verbs)
  BY Before DEF Even, Kept
<1>2. todo' = <<>> /\ pc' = "idle" /\ last' = [call |-> Head(todo), how |-> how]
  BY DEF Raise, Ends
<1>3. GoesOn
  <2>1. CASE helper = 0
    BY <2>1 DEF Even, Kept, GoesOn, StartedOnce
  <2>2. CASE helper # 0
    BY <2>2, GoingOn DEF Even
  <2>3. QED BY <2>1, <2>2
<1>4. Proceeds
  BY <1>1, <1>2, <1>3, ManagingIs DEF Even, Kept, Proceeds, Rest, Fits
<1>5. QED BY <1>4, Proceeding

LEMMA StaysKeeps ==
  ASSUME ScanInv, Even, helper # 0, pc' \in {"gone", "process"}, Fits(pc', todo),
         UNCHANGED <<todo, last, stdin>>
  PROVE  ScanInv'
<1>1. todo \in Rest /\ stdin \in Seq(Verbs) /\ todo # <<>> /\ Fits(pc, todo)
  BY Before DEF Even, Kept
<1>2. Head(todo) \in {"start", "process"} /\ pc # "stop"
  BY <1>1 DEF Fits
<1>3. GoesOn
  BY <1>2, GoingOn DEF Even
<1>4. Proceeds
  BY <1>1, <1>3, ManagingIs DEF Even, Kept, Proceeds
<1>5. QED BY <1>4, Proceeding

LEMMA CommandKeeps ==
  ASSUME ScanInv, Even, helper # 0, NEW at, at \in Managing, Command(at), mode' = mode, Fits(at, todo),
         pc # "stop", at = "ended" => mode = "scan"
  PROVE  ScanInv'
<1>1. todo \in Rest /\ stdin = <<>>
  BY Before DEF Even, Kept
<1>2. Awaited' = Awaited
  BY DEF Awaited
<1>3. pc' = at /\ stdin' = <<Awaited'[pc']>> /\ UNCHANGED <<todo, last>>
  BY <1>1, <1>2 DEF Command, WriteCmd
<1>4. Awaited[at] \in Verbs
  BY AwaitedIs DEF ScanInv, Types, Verbs
<1>5. stdin' \in Seq(Verbs)
  BY <1>2, <1>3, <1>4
<1>6. pc' \in Managing /\ pc' \notin {"idle", "enter", "quit"}
  BY <1>3, ManagingIs
<1>7. Head(todo) \in {"start", "process", "stop"}
  BY ManagingIs DEF Fits
<1>8. GoesOn
  BY <1>7, GoingOn DEF Even
<1>9. Proceeds
  BY <1>1, <1>3, <1>5, <1>6, <1>8 DEF Even, Kept, Proceeds
<1>10. QED BY <1>9, Proceeding

LEMMA StopKeeps ==
  ASSUME ScanInv, Kept, helper # 0, NEW how, StopThen(how), Fits("quit", todo),
         how = "ok" => radio # "us" /\ requests = <<>> /\ stdin = <<>>
  PROVE  ScanInv'
<1>1. todo \in Rest /\ stdin \in Seq(Verbs)
  BY Before DEF Kept
<1>2. /\ pc' = "quit" /\ last' = [call |-> Head(todo), how |-> how] /\ UNCHANGED todo
      /\ stdin' = Append(stdin, "quit")
  BY DEF StopThen, WriteCmd
<1>3. "quit" \in Verbs
  BY DEF Verbs
<1>4. stdin' \in Seq(Verbs) /\ (stdin = <<>> => stdin' \in Seq({"quit"}))
  BY <1>1, <1>2, <1>3
<1>5. GoesOn
  BY <1>2 DEF GoesOn, Kept, StartedOnce
<1>6. Proceeds
  BY <1>1, <1>2, <1>4, <1>5, ManagingIs DEF Kept, Proceeds
<1>7. QED BY <1>6, Proceeding

LEMMA CallKeeps ==
  ASSUME ScanInv, NEW call \in Calls, NEW m \in Modes, Call(call, m)
  PROVE  ScanInv'
<1>1. call \in Rest /\ call # <<>>
  BY DEF Calls, Rest
<1>2. /\ pc = "idle" /\ todo' = call /\ pc' = "enter" /\ UNCHANGED helperVars
      /\ UNCHANGED <<helper, started, reader, lineq, scanned, starts>>
      /\ Starts(call) => MayStart
      /\ mode' \in {mode, m} /\ (~Starts(call) => mode' = mode)
  BY DEF Call
<1>3. mode' \in {"scan", "pasv"}
  BY <1>2, ScannerAssumption DEF ScanInv, Types
<1>4. Fits(pc', todo')
  BY <1>1, <1>2 DEF Fits
<1>5. GoesOn
  <2>1. starts' \in Nat /\ started <= starts'
    BY <1>2 DEF ScanInv, Types
  <2>2. QED BY <1>2, <2>1 DEF GoesOn, StartedOnce
<1>6. Proceeds
  BY <1>1, <1>2, <1>3, <1>4, <1>5, NothingOwed, ManagingIs
  DEF Proceeds, MayStart, helperVars, ScanInv, Types, ScanTypeOK
<1>7. QED BY <1>6, Proceeding

LEMMA ClearKeeps ==
  ASSUME ScanInv, Clear
  PROVE  ScanInv'
<1>1. /\ pc = "enter" /\ Head(todo) = "clear" /\ Return /\ UNCHANGED helperVars
      /\ UNCHANGED <<helper, started, reader, lineq, mode, starts>>
      /\ scanned' = [a \in Addr |-> Unseen]
  BY DEF Clear, Entered
<1>2. Even
  BY <1>1, NothingOwed, ManagingIs DEF Even, Kept, helperVars, ScanInv, Types, ScanTypeOK
<1>3. QED BY <1>1, <1>2, ReturnKeeps DEF helperVars

LEMMA EnterProcessKeeps ==
  ASSUME ScanInv, EnterProcess
  PROVE  ScanInv'
<1>1. /\ pc = "enter" /\ Head(todo) = "process" /\ UNCHANGED helperVars
      /\ UNCHANGED <<helper, started, reader, lineq, mode, scanned, starts>>
  BY DEF EnterProcess, Entered
<1>2. Even
  BY <1>1, NothingOwed, ManagingIs DEF Even, Kept, helperVars, ScanInv, Types, ScanTypeOK
<1>3. CASE helper = 0
  BY <1>1, <1>2, <1>3, RaiseKeeps DEF EnterProcess, helperVars
<1>4. CASE helper # 0
  <2>1. pc' = "process" /\ UNCHANGED <<todo, last>>
    BY <1>4 DEF EnterProcess
  <2>2. Fits(pc', todo)
    BY <1>1, <2>1, Before DEF Fits
  <2>3. QED BY <1>1, <1>2, <1>4, <2>1, <2>2, StaysKeeps DEF helperVars
<1>5. QED BY <1>3, <1>4

LEMMA EnterStopKeeps ==
  ASSUME ScanInv, EnterStop
  PROVE  ScanInv'
<1>1. /\ pc = "enter" /\ Head(todo) = "stop"
      /\ UNCHANGED <<helper, started, reader, lineq, mode, scanned, starts>>
      /\ UNCHANGED <<stdout, running, mgmt_master, conn_state, requests, events, monitors, radio>>
  BY DEF EnterStop, Entered
<1>2. Even
  BY <1>1, NothingOwed, ManagingIs DEF Even, Kept, ScanInv, Types, ScanTypeOK
<1>3. CASE helper = 0
  BY <1>1, <1>2, <1>3, RaiseKeeps DEF EnterStop
<1>4. CASE helper # 0
  <2> DEFINE at == "stop"
  <2>1. Command(at)
    BY <1>4 DEF EnterStop
  <2>2. at \in Managing /\ Fits(at, todo) /\ at # "ended"
    BY <1>1, Before, ManagingIs DEF Fits
  <2> HIDE DEF at
  <2>3. QED BY <1>1, <1>2, <1>4, <2>1, <2>2, CommandKeeps
<1>5. QED BY <1>3, <1>4

LEMMA EnterStartKeeps ==
  ASSUME ScanInv, EnterStart
  PROVE  ScanInv'
<1>1. /\ pc = "enter" /\ Head(todo) = "start" /\ pc' = "le"
      /\ UNCHANGED <<todo, last, mode, scanned>>
      /\ todo \in Rest /\ Fits("le", todo) /\ "le" \in Managing
      /\ starts' = starts + 1
  BY Before, ManagingIs DEF EnterStart, Entered, Fits
<1>2. starts' \in Nat /\ started + 1 <= starts' /\ started < starts' /\ started <= starts'
  <2>1. started \in Nat /\ starts \in Nat /\ started <= starts
    BY ScanAssumption DEF ScanInv, Types
  <2>2. QED BY <1>1, <2>1
<1>3. CASE helper # 0
  <2> DEFINE at == "le"
  <2>1. /\ UNCHANGED <<helper, started, lineq, reader>>
        /\ UNCHANGED <<stdout, running, mgmt_master, conn_state, requests, events, monitors, radio>>
        /\ stdin' = Append(stdin, "le")
    BY <1>3 DEF EnterStart, WriteCmd
  <2>2. Even
    BY <1>1, <1>2, <2>1, NothingOwed, ManagingIs DEF Even, Kept, ScanInv, Types, ScanTypeOK
  <2>3. Awaited[at] = "le"
    BY AwaitedIs DEF ScanInv, Types
  <2>4. Command(at) /\ Fits(at, todo) /\ at \in Managing /\ at # "ended"
    BY <1>1, <2>1, <2>3 DEF Command, WriteCmd
  <2> HIDE DEF at
  <2>5. QED BY <1>1, <1>3, <2>2, <2>4, CommandKeeps
<1>4. CASE helper = 0
  <2> DEFINE new == started + 1
  <2>1. started \in Nat /\ started < MaxHelpers /\ new \in Helpers /\ new # 0 /\ MaxHelpers \in Nat
    <3>1. Starts(todo)
      <4>1. todo \in Rest /\ Head(todo) = "start" /\ todo # <<>>
        BY <1>1 DEF Fits
      <4>2. 1 \in DOMAIN todo /\ todo[1] = "start"
        BY <4>1 DEF Rest
      <4>3. QED BY <4>2 DEF Starts
    <3>2. started \in 0 .. MaxHelpers /\ started < MaxHelpers
      BY <1>1, <1>4, <3>1 DEF ScanInv, OneHelper, Types
    <3>3. QED BY <3>2, ScanAssumption DEF Helpers
  <2> HIDE DEF new
  <2>2. /\ started' = new /\ helper' = new /\ running' = new
        /\ stdin' = <<"le">> /\ lineq' = <<>>
        /\ reader' = [reader EXCEPT ![new] = [at |-> "loop", from |-> 0, line |-> <<>>]]
        /\ mgmt_master' \in Master /\ conn_state' = "disc"
        /\ requests' = <<>> /\ events' = <<>> /\ monitors' = <<>>
        /\ UNCHANGED <<stdout, radio>>
    BY <1>4 DEF EnterStart, Start, NewQueue, new
  <2>3. /\ reader \in [Helpers -> Reader] /\ stdout \in [Helpers -> Seq(Lines)]
        /\ reader' \in [Helpers -> Reader]
        /\ reader'[new] = [at |-> "loop", from |-> 0, line |-> <<>>]
        /\ \A h \in Helpers : h # new => reader'[h] = reader[h]
    <3>1. reader \in [Helpers -> Reader] /\ stdout \in [Helpers -> Seq(Lines)]
      BY DEF ScanInv, Types, ScanTypeOK
    <3>2. [at |-> "loop", from |-> 0, line |-> <<>>] \in Reader
      BY DEF Reader
    <3>3. QED BY <2>1, <2>2, <3>1, <3>2
  <2>4. Managing' = Managing /\ Awaited' = Awaited /\ Awaited["le"] = "le"
    BY <1>1, AwaitedIs DEF Managing, Awaited, ScanInv, Types
  <2>5. Types'
    <3>1. /\ <<"le">> \in Seq(Verbs) /\ mgmt_master' \in BOOLEAN
          /\ new \in 0 .. MaxHelpers
      BY <2>1, <2>2, ScanAssumption DEF Verbs, Helpers
    <3>2. \A h \in Helpers : reader'[h].line \in Seq(Lines)
      BY <2>3 DEF Reader
    <3>3. QED BY <1>1, <1>2, <2>2, <2>3, <2>4, <3>1, <3>2 DEF ScanInv, Types, ScanTypeOK, new
  <2>6. OneHelper'
    <3>1. ASSUME NEW h \in Helpers
          PROVE  /\ h > started' => stdout'[h] = <<>>
                 /\ reader'[h].at \in {"read", "put"} => Reads(h, reader'[h].from, started')
                 /\ IF reader'[h].at = "put" THEN Len(reader'[h].line) = 1
                                             ELSE reader'[h].line = <<>>
      <4>1. h > started' => stdout'[h] = <<>>
        <5>1. h > new => h > started
          BY <2>1 DEF new, Helpers
        <5>2. QED BY <2>2, <5>1 DEF ScanInv, OneHelper
      <4>2. CASE h = new
        BY <2>2, <2>3, <4>1, <4>2
      <4>3. CASE h # new
        <5>1. reader[h].from \in Nat
          BY <2>3 DEF Reader
        <5>2. reader[h].at \in {"read", "put"} => reader[h].from <= started
          BY <2>1, <5>1 DEF ScanInv, OneHelper, Reads
        <5>3. reader[h].at \in {"read", "put"} => reader[h].from < new
          BY <2>1, <5>1, <5>2 DEF new
        <5>4. reader'[h] = reader[h]
          BY <2>3, <4>3
        <5>5. IF reader'[h].at = "put" THEN Len(reader'[h].line) = 1 ELSE reader'[h].line = <<>>
          BY <5>4 DEF ScanInv, OneHelper
        <5>6. reader'[h].at \in {"read", "put"} => Reads(h, reader'[h].from, started')
          BY <2>2, <4>3, <5>3, <5>4 DEF Reads
        <5>7. QED BY <4>1, <5>5, <5>6
      <4>4. QED BY <4>2, <4>3
    <3>2. QED BY <1>1, <2>1, <2>2, <3>1 DEF OneHelper
  <2>7. Commanded'
    <3>1. <<"le">> \in Seq({"le"}) /\ <<>> \in Seq({"le"})
      OBVIOUS
    <3>2. QED BY <1>1, <2>2, <2>4, <3>1 DEF Commanded
  <2>8. OneOwed'
    <3>1. stdout[new] = <<>>
      BY <2>1 DEF ScanInv, OneHelper, new
    <3>2. Printed' = <<>> /\ Held' = <<>>
      BY <2>1, <2>2, <2>3, <3>1 DEF Printed, Held
    <3>3. Count(<<"le">>, Verbs \ {"quit"}) = 1
      BY CountOne DEF Verbs
    <3>4. Owed' = 1
      BY <2>2, <3>2, <3>3, CountEmpty DEF Owed
    <3>5. QED BY <1>1, <2>4, <2>5, <3>4 DEF OneOwed, Types
  <2>9. Waiting' /\ Ending'
    BY <1>1 DEF Waiting, Ending, StopsScan
  <2>10. Pure' /\ Listening'
    BY <1>1, <2>2 DEF Pure, Passively, Listening, Listens
  <2>11. QED BY <2>5, <2>6, <2>7, <2>8, <2>9, <2>10 DEF ScanInv
<1>5. QED BY <1>3, <1>4

LEMMA ClockKeeps ==
  ASSUME ScanInv, Clock
  PROVE  ScanInv'
<1>1. /\ UNCHANGED <<helper, started, reader, lineq, mode, scanned, starts>> /\ UNCHANGED helperVars
      /\ pc \in {"process", "restart"}
  BY DEF Clock
<1>2. CASE pc = "process"
  <2>1. Return
    BY <1>2 DEF Clock
  <2>2. Even
    BY <1>1, <1>2, NothingOwed, ManagingIs DEF Even, Kept, helperVars, ScanInv, Types, ScanTypeOK
  <2>3. Head(todo) # "stop"
    BY <1>2, Before DEF Fits
  <2>4. QED BY <1>1, <2>1, <2>2, <2>3, ReturnKeeps DEF helperVars
<1>3. CASE pc # "process"
  <2>1. UNCHANGED <<todo, pc, last>>
    BY <1>3 DEF Clock
  <2>2. QED BY <1>1, <2>1, Dropping
<1>4. QED BY <1>2, <1>3

LEMMA WaitExitKeeps ==
  ASSUME ScanInv, WaitExit
  PROVE  ScanInv'
<1>1. /\ pc = "quit" /\ running = 0 /\ helper' = 0 /\ stdin' = <<>>
      /\ UNCHANGED <<started, reader, lineq, mode, scanned, starts>>
      /\ UNCHANGED <<stdout, running, mgmt_master, conn_state, requests, events, monitors, radio>>
  BY DEF WaitExit
<1>2. /\ todo \in Rest /\ todo # <<>> /\ Head(todo) \in {"start", "process", "stop"}
      /\ last = [call |-> Head(todo), how |-> last.how]
  BY <1>1 DEF ScanInv, Types, Waiting, Fits
<1>3. /\ todo' \in Rest /\ pc' \in {"idle", "enter"} /\ Fits(pc', todo') /\ last' = last
      /\ pc' = "enter" => ~Starts(todo')
  <2>1. CASE last.how = "ok"
    BY <1>1, <1>2, <2>1, Returns DEF WaitExit
  <2>2. CASE last.how # "ok"
    <3>1. todo' = <<>> /\ pc' = "idle" /\ last' = [call |-> Head(todo), how |-> last.how]
      BY <2>2 DEF WaitExit, Raise, Ends
    <3>2. QED BY <1>2, <3>1 DEF Rest, Fits
  <2>3. QED BY <2>1, <2>2
<1>4. Managing' = Managing /\ Awaited' = Awaited /\ "idle" \notin Managing /\ "enter" \notin Managing
  BY <1>1, ManagingIs DEF Managing, Awaited
<1>5. Types'
  <2>1. <<>> \in Seq(Verbs) /\ 0 \in 0 .. MaxHelpers
    BY ScanAssumption
  <2>2. QED BY <1>1, <1>3, <1>4, <2>1 DEF ScanInv, Types, ScanTypeOK
<1>6. OneHelper'
  BY <1>1, <1>3, <1>4 DEF ScanInv, OneHelper
<1>7. Commanded' /\ OneOwed' /\ Waiting'
  BY <1>1, <1>3, <1>4, <1>5 DEF ScanInv, Commanded, OneOwed, Types, Waiting
<1>8. Ending'
  BY <1>1, <1>3 DEF ScanInv, Ending, Stopped, StopsScan
<1>9. Pure' /\ Listening'
  BY <1>1, <1>3, <1>4 DEF Pure, Passively, Listening, StartedOnce
<1>10. QED BY <1>5, <1>6, <1>7, <1>8, <1>9 DEF ScanInv

\* In a passive scan the line at hand is no answer of the kernel.
LEMMA AtHandPure ==
  ASSUME ScanInv, lineq # <<>>, Head(lineq) \in Foul, mode # "scan"
  PROVE  pc \notin Managing \ {"le"}
<1>1. SUFFICES ASSUME pc \in Managing \ {"le"} PROVE FALSE
  OBVIOUS
<1>2. Passively
  BY <1>1 DEF Passively, ScanInv, Types
<1>3. Count(Printed, Foul) + Count(Held, Foul) + Count(lineq, Foul) = 0
  BY <1>2 DEF ScanInv, Pure
<1>4. Count(Printed, Foul) \in Nat /\ Count(Held, Foul) \in Nat /\ Count(Tail(lineq), Foul) \in Nat
      /\ Count(lineq, Foul) = Count(Tail(lineq), Foul) + 1
  <2>1. Printed \in Seq(Lines) /\ Held \in Seq(Lines) /\ lineq \in Seq(Lines)
    BY AccountTypes
  <2>2. Tail(lineq) \in Seq(Lines)
    BY <2>1
  <2>3. Count(lineq, Foul) = Count(Tail(lineq), Foul) + (IF Head(lineq) \in Foul THEN 1 ELSE 0)
    BY <2>1, CountTail
  <2>4. QED BY <2>1, <2>2, <2>3, CountType
<1>5. QED BY <1>3, <1>4

LEMMA TakeKeeps ==
  ASSUME ScanInv, Take
  PROVE  ScanInv'
<1> DEFINE line == Head(lineq)
<1>1. /\ pc \in Managing \cup {"gone", "process"} /\ lineq # <<>> /\ lineq' = Tail(lineq)
      /\ UNCHANGED <<helper, started, reader, mode, starts>>
      /\ UNCHANGED <<stdout, running, mgmt_master, conn_state, requests, events, monitors, discovery, radio>>
  BY DEF Take
<1>2. line \in Lines /\ lineq' \in Seq(Lines) /\ lineq \in Seq(Lines)
  BY <1>1, AccountTypes
<1>3. /\ helper # 0 /\ pc \notin {"idle", "quit", "enter"} /\ Fits(pc, todo) /\ Fits("quit", todo)
  BY <1>1, Before, ManagingIs DEF Fits, ScanInv, OneHelper
<1>4. pc \notin Managing => line \notin Answers
  <2>1. SUFFICES ASSUME pc \notin Managing, line \in Answers
                 PROVE  FALSE
    OBVIOUS
  <2>2. Count(lineq, Answers) = 0
    BY <1>3, <2>1, NothingOwed
  <2>3. Count(Tail(lineq), Answers) \in Nat
    BY <1>1, <1>2, CountType
  <2>4. Count(lineq, Answers) = Count(Tail(lineq), Answers) + (IF Head(lineq) \in Answers THEN 1 ELSE 0)
    BY <1>1, <1>2, CountTail
  <2>5. QED BY <2>1, <2>2, <2>3, <2>4
<1>5. scanned' \in [Addr -> AddrType \cup {Unseen}] => Kept
  BY <1>1, <1>2, <1>3 DEF Kept, ScanInv, Types
<1>6. scanned \in [Addr -> AddrType \cup {Unseen}]
  BY DEF ScanInv, Types, ScanTypeOK
<1>7. Kept /\ (pc \notin Managing \/ line \in Answers) => Even
  <2>1. CASE pc \notin Managing
    <3>1. Cleared /\ stdin = <<>> /\ Count(lineq, Answers) = 0
      BY <1>3, <2>1, NothingOwed
    <3>2. Count(lineq', Answers) = 0
      <4>1. Count(lineq', Answers) \in Nat
        BY <1>2, CountType
      <4>2. Count(lineq, Answers) = Count(Tail(lineq), Answers) + (IF Head(lineq) \in Answers THEN 1 ELSE 0)
        BY <1>1, <1>2, CountTail
      <4>3. QED BY <1>1, <1>4, <2>1, <3>1, <4>1, <4>2
    <3>3. QED BY <3>1, <3>2 DEF Even
  <2>2. CASE pc \in Managing /\ line \in Answers
    BY <1>1, <2>2, AnswerRead DEF Even
  <2>3. QED BY <2>1, <2>2
<1>8. CASE ~Wants(line)
  <2>1. Unwanted(line) /\ UNCHANGED scanned /\ Kept
    BY <1>5, <1>6, <1>8 DEF Take
  <2>2. CASE line = Line("stat", "disc")
    <3> DEFINE how == "disc"
    <3>1. StopThen(how) /\ how # "ok"
      BY <2>1, <2>2 DEF Unwanted, Line
    <3> HIDE DEF how
    <3>2. QED BY <1>3, <2>1, <3>1, StopKeeps
  <2>3. CASE line # Line("stat", "disc") /\ line.rsp = "err"
    <3> DEFINE how == "nomgmt"
    <3>1. Raise(how) /\ UNCHANGED stdin /\ how # "ok"
      BY <2>1, <2>3 DEF Unwanted
    <3>2. line \in Answers
      BY <1>2, <2>3, AnswersAre
    <3>3. pc = "stop" => mode = "scan"
      <4>1. line \in Foul
        BY <2>3, <3>2 DEF Foul, Line
      <4>2. QED BY <1>1, <4>1, AtHandPure, ManagingIs
    <3> HIDE DEF how
    <3>4. QED BY <1>3, <1>7, <2>1, <3>1, <3>2, <3>3, RaiseKeeps
  <2>4. CASE line.rsp = "mgmt"
    <3>1. line \in Answers /\ pc \notin Managing
      BY <1>2, <1>8, <2>4, AnswersAre DEF Wants
    <3>2. QED BY <1>4, <3>1
  <2>5. CASE line # Line("stat", "disc") /\ line.rsp \notin {"err", "mgmt"}
    <3>1. UNCHANGED <<todo, pc, last, stdin>>
      BY <2>1, <2>5 DEF Unwanted
    <3>2. line \notin Answers
      BY <1>2, <2>5, AnswersAre
    <3>3. UNCHANGED helperVars
      BY <1>1, <3>1 DEF helperVars
    <3>4. QED BY <1>1, <2>1, <3>1, <3>2, <3>3, Dropping
  <2>6. QED BY <2>2, <2>3, <2>4, <2>5
<1>9. CASE Wants(line) /\ pc \in Managing
  <2>1. /\ Answer(line.tag) /\ UNCHANGED scanned /\ Kept
        /\ pc \notin {"gone", "process"}
    BY <1>5, <1>6, <1>9, ManagingIs DEF Take
  <2>2. line \in Answers /\ line = Line("mgmt", line.tag) /\ line.tag \in Codes
    BY <1>2, <1>9, <2>1, AnswersAre DEF Wants
  <2>3. Even
    BY <1>7, <2>1, <2>2
  <2>4. ASSUME NEW at, at \in Managing, Fits(at, todo), Command(at), pc # "stop",
               at = "ended" => mode = "scan"
        PROVE  ScanInv'
    BY <1>1, <1>3, <2>3, <2>4, CommandKeeps
  <2>5. ASSUME Return, UNCHANGED stdin, pc # "stop"
        PROVE  ScanInv'
    <3>1. Head(todo) # "stop"
      BY <1>3, <1>9, <2>5, ManagingIs DEF Fits
    <3>2. QED BY <2>3, <2>5, <3>1, ReturnKeeps
  <2>6. CASE line.tag = "success"
    <3>1. Succeeded
      BY <2>1, <2>6 DEF Answer
    <3>2. CASE pc = "le"
      <4> DEFINE at == "first"
      <4>1. Command(at)
        BY <3>1, <3>2 DEF Succeeded
      <4>2. at \in Managing /\ Fits(at, todo) /\ at # "ended" /\ pc # "stop"
        BY <1>3, <3>2, ManagingIs DEF Fits
      <4> HIDE DEF at
      <4>3. QED BY <2>4, <4>1, <4>2
    <3>3. CASE pc \in {"first", "again"}
      BY <2>5, <3>1, <3>3 DEF Succeeded
    <3>4. CASE pc = "ended"
      <4>1. pc' = "gone" /\ UNCHANGED <<todo, last, stdin>>
        BY <3>1, <3>4 DEF Succeeded
      <4>2. Fits(pc', todo)
        BY <1>3, <3>4, <4>1 DEF Fits
      <4>3. QED BY <1>3, <2>3, <4>1, <4>2, StaysKeeps
    <3>5. CASE pc = "restart"
      <4>1. UNCHANGED stdin /\ (Return \/ (pc' = "process" /\ UNCHANGED <<todo, last>>))
        BY <3>1, <3>5 DEF Succeeded
      <4>2. pc' = "process" => Fits(pc', todo)
        BY <1>3, <3>5 DEF Fits
      <4>3. QED BY <1>3, <2>3, <2>5, <3>5, <4>1, <4>2, StaysKeeps
    <3>6. CASE pc = "stop"
      <4> DEFINE how == "ok"
      <4>1. StopThen(how)
        BY <3>1, <3>6 DEF Succeeded
      <4>2. Good > 0
        <5> DEFINE S == {Line("mgmt", "success")}
        <5>1. line \in S
          BY <2>2, <2>6
        <5> HIDE DEF S
        <5>2. Count(lineq, S) = Count(Tail(lineq), S) + 1 /\ Count(Tail(lineq), S) \in Nat
          <6>1. Count(lineq, S) = Count(Tail(lineq), S) + (IF Head(lineq) \in S THEN 1 ELSE 0)
            BY <1>1, <1>2, CountTail
          <6>2. Count(Tail(lineq), S) \in Nat
            BY <1>1, <1>2, CountType
          <6>3. QED BY <5>1, <6>1, <6>2
        <5>3. Count(Printed, S) \in Nat /\ Count(Held, S) \in Nat
          BY AccountTypes, CountType
        <5>4. Count(events, {Completed("success")}) \in Nat
          BY AsItWas
        <5>5. QED BY <5>2, <5>3, <5>4 DEF Good, S
      <4>3. radio # "us"
        BY <3>6, <4>2 DEF ScanInv, Ending
      <4>4. requests = <<>> /\ stdin = <<>>
        BY <1>3, <2>3 DEF Even, Cleared
      <4> HIDE DEF how
      <4>5. QED BY <1>3, <2>1, <4>1, <4>3, <4>4, StopKeeps
    <3>7. QED BY <1>9, <3>2, <3>3, <3>4, <3>5, <3>6, ManagingIs
  <2>7. CASE line.tag = "busy" /\ pc = "first"
    <3> DEFINE at == "ended"
    <3>1. Command(at)
      BY <2>1, <2>7 DEF Answer
    <3>2. at \in Managing /\ Fits(at, todo) /\ pc # "stop"
      BY <1>3, <2>7, ManagingIs DEF Fits
    <3>3. mode = "scan"
      <4>1. line \in Foul
        BY <2>2, <2>7 DEF Foul, Line
      <4>2. QED BY <1>1, <2>7, <4>1, AtHandPure, ManagingIs
    <3> HIDE DEF at
    <3>4. QED BY <2>4, <3>1, <3>2, <3>3
  <2>8. CASE line.tag # "success" /\ pc # "first"
    <3> DEFINE how == "mgmt"
    <3>1. StopThen(how) /\ how # "ok"
      BY <2>1, <2>8 DEF Answer
    <3> HIDE DEF how
    <3>2. QED BY <1>3, <2>1, <3>1, StopKeeps
  <2>9. CASE line.tag \notin {"success", "busy"} /\ pc = "first"
    <3>1. Return /\ UNCHANGED stdin
      BY <2>1, <2>9 DEF Answer
    <3>2. QED BY <2>5, <2>9, <3>1
  <2>10. QED BY <2>6, <2>7, <2>8, <2>9
<1>10. CASE Wants(line) /\ pc = "gone"
  <2>1. /\ UNCHANGED scanned /\ Kept /\ Even
        /\ Command("again") \/ (Raise("assert") /\ UNCHANGED stdin)
    BY <1>5, <1>6, <1>7, <1>10, ManagingIs DEF Take
  <2>2. CASE Command("again")
    <3> DEFINE at == "again"
    <3>1. Command(at) /\ at \in Managing /\ Fits(at, todo) /\ at # "ended" /\ pc # "stop"
      BY <1>3, <1>10, <2>2, ManagingIs DEF Fits
    <3> HIDE DEF at
    <3>2. QED BY <1>1, <1>3, <2>1, <3>1, CommandKeeps
  <2>3. CASE Raise("assert") /\ UNCHANGED stdin
    <3> DEFINE how == "assert"
    <3>1. Raise(how) /\ how # "ok"
      BY <2>3
    <3> HIDE DEF how
    <3>2. QED BY <1>3, <1>10, <2>1, <2>3, <3>1, RaiseKeeps
  <2>4. QED BY <2>1, <2>2, <2>3
<1>11. CASE Wants(line) /\ pc = "process"
  <2>1. Process(line) /\ pc \notin Managing
    BY <1>11, ManagingIs DEF Take
  <2>2. scanned' \in [Addr -> AddrType \cup {Unseen}]
    <3>1. line.rsp # "stat" => line.dev \in Device
      BY <1>2, <1>11, <2>1, AnswersAre DEF Wants
    <3>2. \/ UNCHANGED scanned
          \/ /\ line.rsp # "stat"
             /\ scanned' = [scanned EXCEPT ![line.dev.addr] = line.dev.type]
      BY <2>1 DEF Process
    <3> HIDE DEF line
    <3>3. QED BY <1>6, <3>1, <3>2 DEF Device
  <2>3. Even
    BY <1>5, <1>7, <2>1, <2>2
  <2>4. CASE Command("restart")
    <3> DEFINE at == "restart"
    <3>1. Command(at) /\ at \in Managing /\ Fits(at, todo) /\ at # "ended" /\ pc # "stop"
      BY <1>3, <1>11, <2>4, ManagingIs DEF Fits
    <3> HIDE DEF at
    <3>2. QED BY <1>1, <1>3, <2>3, <3>1, CommandKeeps
  <2>5. CASE Raise("type") /\ UNCHANGED stdin
    <3> DEFINE how == "type"
    <3>1. Raise(how) /\ how # "ok"
      BY <2>5
    <3> HIDE DEF how
    <3>2. QED BY <1>3, <1>11, <2>3, <2>5, <3>1, RaiseKeeps
  <2>6. CASE NextRound /\ UNCHANGED stdin
    <3>1. UNCHANGED stdin /\ (Return \/ (pc' = "process" /\ UNCHANGED <<todo, last>>))
      BY <2>6 DEF NextRound
    <3>2. Head(todo) # "stop" /\ (pc' = "process" => Fits(pc', todo))
      BY <1>3, <1>11 DEF Fits
    <3>3. QED BY <1>3, <2>3, <3>1, <3>2, ReturnKeeps, StaysKeeps
  <2>7. QED BY <2>1, <2>4, <2>5, <2>6 DEF Process, Restart
<1>12. QED BY <1>1, <1>8, <1>9, <1>10, <1>11

-----------------------------------------------------------------------------
(* The reader threads.                                                      *)

\* A thread moves a line from the pipe through its hand to the queue.
Moves ==
  /\ reader' \in [Helpers -> Reader] /\ stdout' \in [Helpers -> Seq(Lines)]
  /\ lineq' \in Seq(Lines)
  /\ \A h \in Helpers :
       /\ h > started => stdout'[h] = <<>>
       /\ reader'[h].at \in {"read", "put"} => Reads(h, reader'[h].from, started)
       /\ IF reader'[h].at = "put" THEN Len(reader'[h].line) = 1 ELSE reader'[h].line = <<>>
  /\ helper # 0 =>
       \A S : Count(Printed', S) + Count(Held', S) + Count(lineq', S)
             = Count(Printed, S) + Count(Held, S) + Count(lineq, S)

LEMMA Moving ==
  ASSUME ScanInv, Moves,
         UNCHANGED <<helper, started, todo, pc, mode, late, scanned, starts, last, enabled>>,
         UNCHANGED <<stdin, running, mgmt_master, conn_state, requests, events, monitors, discovery, radio>>
  PROVE  ScanInv'
<1>1. /\ Managing' = Managing /\ Awaited' = Awaited
      /\ UNCHANGED <<helper, started, todo, pc, mode, scanned, starts, last>>
      /\ UNCHANGED <<stdin, running, mgmt_master, conn_state, requests, events, monitors, radio>>
  BY DEF Managing, Awaited
<1>2. Types'
  <2>1. \A h \in Helpers : reader'[h].line \in Seq(Lines)
    BY DEF Moves, Reader
  <2>2. QED BY <1>1, <2>1 DEF Moves, ScanInv, Types, ScanTypeOK
<1>3. OneHelper' /\ Commanded' /\ Waiting'
  BY <1>1 DEF Moves, ScanInv, OneHelper, Reads, Commanded, Waiting
<1>4. /\ Printed \in Seq(Lines) /\ Held \in Seq(Lines) /\ lineq \in Seq(Lines)
      /\ Printed' \in Seq(Lines) /\ Held' \in Seq(Lines) /\ lineq' \in Seq(Lines)
  <2>1. helper # 0 => helper \in Helpers
    BY DEF ScanInv, Types, ScanTypeOK, Helpers
  <2>2. /\ helper' = helper /\ <<>> \in Seq(Lines)
        /\ \A h \in Helpers : stdout'[h] \in Seq(Lines) /\ reader'[h].line \in Seq(Lines)
    BY <1>1 DEF Moves, Reader
  <2>3. Printed' \in Seq(Lines) /\ Held' \in Seq(Lines)
    BY <2>1, <2>2 DEF Printed, Held
  <2>4. QED BY <2>3, AccountTypes DEF Moves
<1>5. ASSUME NEW S
      PROVE  /\ Count(Printed, S) \in Nat /\ Count(Held, S) \in Nat /\ Count(lineq, S) \in Nat
             /\ Count(Printed', S) \in Nat /\ Count(Held', S) \in Nat /\ Count(lineq', S) \in Nat
  BY <1>4, CountType
<1>6. OneOwed'
  <2>1. helper # 0 => Owed' = Owed
    <3>1. SUFFICES ASSUME helper # 0 PROVE Owed' = Owed
      OBVIOUS
    <3>2. Count(Printed', Answers) + Count(Held', Answers) + Count(lineq', Answers)
          = Count(Printed, Answers) + Count(Held, Answers) + Count(lineq, Answers)
      BY <3>1 DEF Moves
    <3> HIDE DEF Moves
    <3>3. /\ Count(Printed, Answers) \in Nat /\ Count(Held, Answers) \in Nat
          /\ Count(lineq, Answers) \in Nat /\ Count(Printed', Answers) \in Nat
          /\ Count(Held', Answers) \in Nat /\ Count(lineq', Answers) \in Nat
      BY <1>5
    <3>4. /\ Count(stdin, Verbs \ {"quit"}) \in Nat /\ Len(requests) \in Nat
          /\ Count(events, Completions) \in Nat
      BY AsItWas
    <3> DEFINE rest == Count(stdin, Verbs \ {"quit"}) + Len(requests) + Count(events, Completions)
    <3>5. /\ Owed = rest + Count(Printed, Answers) + Count(Held, Answers) + Count(lineq, Answers)
          /\ Owed' = rest' + Count(Printed', Answers) + Count(Held', Answers) + Count(lineq', Answers)
      BY DEF Owed
    <3>6. rest \in Nat /\ rest' = rest
      BY <1>1, <3>4
    <3> HIDE DEF rest
    <3>7. QED BY <3>2, <3>3, <3>5, <3>6
  <2>2. QED BY <1>1, <1>2, <2>1 DEF ScanInv, OneOwed, Types
<1>7. Ending'
  <2>1. helper # 0 => Good' = Good
    <3> DEFINE S == {Line("mgmt", "success")}
    <3>1. SUFFICES ASSUME helper # 0 PROVE Good' = Good
      OBVIOUS
    <3> HIDE DEF S
    <3>2. Count(Printed', S) + Count(Held', S) + Count(lineq', S)
          = Count(Printed, S) + Count(Held, S) + Count(lineq, S)
      BY <3>1 DEF Moves
    <3>3. /\ Count(Printed, S) \in Nat /\ Count(Held, S) \in Nat
          /\ Count(lineq, S) \in Nat /\ Count(Printed', S) \in Nat
          /\ Count(Held', S) \in Nat /\ Count(lineq', S) \in Nat
      BY <1>5
    <3>4. Count(events, {Completed("success")}) \in Nat
      BY AsItWas
    <3>5. QED BY <1>1, <3>2, <3>3, <3>4 DEF Good, S
  <2>2. pc = "stop" => helper # 0
    BY ManagingIs DEF ScanInv, OneHelper
  <2>3. QED BY <1>1, <2>1, <2>2 DEF ScanInv, Ending, Stopped, StopsScan
<1>8. Pure'
  <2>1. Passively' = Passively
    BY <1>1 DEF Passively
  <2>2. Passively => helper # 0
    BY DEF Passively, ScanInv, OneHelper
  <2>3. helper # 0 => Count(Printed', Foul) + Count(Held', Foul) + Count(lineq', Foul)
                      = Count(Printed, Foul) + Count(Held, Foul) + Count(lineq, Foul)
    BY DEF Moves
  <2>4. QED BY <1>1, <2>1, <2>2, <2>3 DEF ScanInv, Pure
<1>9. Listening'
  <2>1. StartedOnce' = StartedOnce
    BY <1>1 DEF StartedOnce
  <2>2. Listens(monitors, radio)' = Listens(monitors, radio)
    BY <1>1 DEF Listens
  <2>3. QED BY <2>1, <2>2 DEF ScanInv, Listening
<1>10. QED BY <1>2, <1>3, <1>6, <1>7, <1>8, <1>9 DEF ScanInv

LEMMA ReaderFacts ==
  ASSUME ScanInv, NEW h \in Helpers, h = started
  PROVE  /\ reader \in [Helpers -> Reader] /\ stdout \in [Helpers -> Seq(Lines)]
         /\ lineq \in Seq(Lines) /\ helper \in {0, h} /\ h # 0 /\ h \in Nat
         /\ reader[h].at \in {"read", "put"} => reader[h].from = h
         /\ IF reader[h].at = "put" THEN Len(reader[h].line) = 1 ELSE reader[h].line = <<>>
         /\ \A g \in Helpers :
              /\ g > started => stdout[g] = <<>>
              /\ reader[g].at \in {"read", "put"} => Reads(g, reader[g].from, started)
              /\ IF reader[g].at = "put" THEN Len(reader[g].line) = 1 ELSE reader[g].line = <<>>
  BY DEF ScanInv, Types, ScanTypeOK, OneHelper, Reads, Helpers

\* what the step of thread h leaves in its hand and in the pipe
Hands(h, at, from, line, rest) ==
  /\ at \in {"loop", "read", "put", "end"} /\ from \in Nat
  /\ line \in Seq(Lines) /\ rest \in Seq(Lines) /\ lineq' \in Seq(Lines)
  /\ reader' = [reader EXCEPT ![h] = [at |-> at, from |-> from, line |-> line]]
  /\ at \in {"read", "put"} => from = h
  /\ IF at = "put" THEN Len(line) = 1 ELSE line = <<>>
  /\ stdout' = [stdout EXCEPT ![h] = rest]
  /\ \A S : Count(rest, S) + Count(line, S) + Count(lineq', S)
           = Count(stdout[h], S) + Count(reader[h].line, S) + Count(lineq, S)

LEMMA Handing ==
  ASSUME ScanInv, NEW h \in Helpers, h = started, UNCHANGED helper,
         NEW at, NEW from, NEW line, NEW rest, Hands(h, at, from, line, rest)
  PROVE  Moves
<1>1. [at |-> at, from |-> from, line |-> line] \in Reader
  BY DEF Reader, Hands
<1>2. /\ reader \in [Helpers -> Reader] /\ stdout \in [Helpers -> Seq(Lines)]
      /\ helper \in {0, h} /\ h # 0
      /\ \A g \in Helpers :
           /\ g > started => stdout[g] = <<>>
           /\ reader[g].at \in {"read", "put"} => Reads(g, reader[g].from, started)
           /\ IF reader[g].at = "put" THEN Len(reader[g].line) = 1 ELSE reader[g].line = <<>>
  BY ReaderFacts
<1>3. /\ reader' \in [Helpers -> Reader] /\ stdout' \in [Helpers -> Seq(Lines)]
      /\ reader'[h] = [at |-> at, from |-> from, line |-> line] /\ stdout'[h] = rest
      /\ \A g \in Helpers : g # h => reader'[g] = reader[g] /\ stdout'[g] = stdout[g]
  BY <1>1, <1>2 DEF Hands
<1>4. helper # 0 => /\ Printed = stdout[h] /\ Held = reader[h].line
                    /\ Printed' = rest /\ Held' = line
  BY <1>2, <1>3 DEF Printed, Held
<1>5. helper # 0 =>
        \A S : Count(Printed', S) + Count(Held', S) + Count(lineq', S)
              = Count(Printed, S) + Count(Held, S) + Count(lineq, S)
  BY <1>4 DEF Hands
<1>6. ASSUME NEW g \in Helpers
      PROVE  /\ g > started => stdout'[g] = <<>>
             /\ reader'[g].at \in {"read", "put"} => Reads(g, reader'[g].from, started)
             /\ IF reader'[g].at = "put" THEN Len(reader'[g].line) = 1 ELSE reader'[g].line = <<>>
  <2>1. CASE g = h
    <3>1. g \in Nat /\ ~(g > started)
      BY <1>2, <2>1, ReaderFacts
    <3>2. QED BY <1>2, <1>3, <2>1, <3>1 DEF Hands, Reads
  <2>2. CASE g # h
    BY <1>2, <1>3, <2>2
  <2>3. QED BY <2>1, <2>2
<1>7. QED BY <1>3, <1>5, <1>6 DEF Moves, Hands

LEMMA OwnMoves ==
  ASSUME ScanInv, NEW h \in Helpers, ReadToQueue(h), h = started
  PROVE  Moves
<1>1. UNCHANGED helper
  BY DEF ReadToQueue
<1>2. /\ reader \in [Helpers -> Reader] /\ stdout \in [Helpers -> Seq(Lines)]
      /\ lineq \in Seq(Lines) /\ helper \in {0, h} /\ h \in Nat
      /\ reader[h].at \in {"read", "put"} => reader[h].from = h
      /\ IF reader[h].at = "put" THEN Len(reader[h].line) = 1 ELSE reader[h].line = <<>>
  BY <1>1, ReaderFacts
<1>3. ASSUME NEW at, NEW from, NEW line, NEW rest, Hands(h, at, from, line, rest)
      PROVE  Moves
  BY <1>1, <1>3, Handing
<1>4. /\ stdout[h] \in Seq(Lines) /\ reader[h] \in Reader /\ <<>> \in Seq(Lines)
      /\ stdout = [stdout EXCEPT ![h] = stdout[h]]
  BY <1>2
<1>5. ASSUME NEW at \in {"loop", "read", "end"}, NEW from \in Nat,
             reader' = [reader EXCEPT ![h] = [at |-> at, from |-> from, line |-> <<>>]],
             at = "read" => from = h, reader[h].line = <<>>, UNCHANGED <<stdout, lineq>>
      PROVE  Moves
  <2> DEFINE line == reader[h].line  rest == stdout[h]
  <2>1. Hands(h, at, from, line, rest)
    BY <1>2, <1>4, <1>5 DEF Hands
  <2> HIDE DEF line, rest
  <2>2. QED BY <1>3, <2>1
<1>6. CASE ReaderLoop(h)
  <2>1. UNCHANGED <<stdout, lineq>> /\ reader[h].line = <<>>
    BY <1>2, <1>6 DEF ReaderLoop
  <2>2. CASE helper = 0
    <3>1. reader' = [reader EXCEPT ![h] = [at |-> "end", from |-> 0, line |-> <<>>]]
      BY <1>6, <2>2 DEF ReaderLoop, Over
    <3>2. QED BY <1>5, <2>1, <3>1
  <2>3. CASE helper # 0
    <3>1. reader' = [reader EXCEPT ![h] = [at |-> "read", from |-> h, line |-> <<>>]]
      BY <1>2, <1>6, <2>3 DEF ReaderLoop
    <3>2. QED BY <1>2, <1>5, <2>1, <3>1
  <2>4. QED BY <2>2, <2>3
<1>7. CASE ReaderLine(h)
  <2>1. reader[h].at = "read" /\ reader[h].from = h /\ reader[h].line = <<>> /\ UNCHANGED lineq
    BY <1>2, <1>7 DEF ReaderLine
  <2>2. CASE stdout[h] = <<>>
    <3>1. reader' = [reader EXCEPT ![h] = [at |-> "end", from |-> 0, line |-> <<>>]] /\ UNCHANGED stdout
      BY <1>7, <2>1, <2>2 DEF ReaderLine, Over
    <3>2. QED BY <1>5, <2>1, <3>1
  <2>3. CASE stdout[h] # <<>>
    <3> DEFINE line == <<Head(stdout[h])>>  rest == Tail(stdout[h])
    <3>1. /\ reader' = [reader EXCEPT ![h] = [at |-> "put", from |-> h, line |-> line]]
          /\ stdout' = [stdout EXCEPT ![h] = rest]
      BY <1>7, <2>1, <2>3 DEF ReaderLine
    <3>2. line \in Seq(Lines) /\ rest \in Seq(Lines) /\ Len(line) = 1 /\ stdout[h] = line \o rest
      BY <1>4, <2>3
    <3> HIDE DEF line, rest
    <3>4. ASSUME NEW S
          PROVE  Count(rest, S) + Count(line, S) + Count(lineq', S)
                 = Count(stdout[h], S) + Count(reader[h].line, S) + Count(lineq, S)
      <4>1. Count(stdout[h], S) = Count(line, S) + Count(rest, S)
        BY <3>2, CountConcat
      <4>2. Count(reader[h].line, S) = 0
        BY <2>1, CountEmpty
      <4>3. Count(line, S) \in Nat /\ Count(rest, S) \in Nat /\ Count(lineq, S) \in Nat
        BY <1>2, <3>2, CountType
      <4>4. QED BY <2>1, <4>1, <4>2, <4>3
    <3>5. lineq' \in Seq(Lines)
      BY <1>2, <2>1
    <3> DEFINE at == "put"
    <3>6. Hands(h, at, h, line, rest)
      BY <1>2, <3>1, <3>2, <3>4, <3>5 DEF Hands
    <3> HIDE DEF at
    <3>7. QED BY <1>3, <3>6
  <2>4. QED BY <2>2, <2>3
<1>8. CASE ReaderPut(h)
  <2>1. /\ lineq' = lineq \o reader[h].line /\ UNCHANGED stdout
        /\ reader' = [reader EXCEPT ![h] = [at |-> "loop", from |-> 0, line |-> <<>>]]
    BY <1>8 DEF ReaderPut
  <2>2. reader[h].line \in Seq(Lines)
    BY <1>4 DEF Reader
  <2>3. lineq' \in Seq(Lines)
    BY <1>2, <2>1, <2>2
  <2>4. ASSUME NEW S
        PROVE  Count(stdout[h], S) + Count(<<>>, S) + Count(lineq', S)
               = Count(stdout[h], S) + Count(reader[h].line, S) + Count(lineq, S)
    <3>1. Count(lineq', S) = Count(lineq, S) + Count(reader[h].line, S)
      BY <1>2, <2>1, <2>2, CountConcat
    <3>2. /\ Count(stdout[h], S) \in Nat /\ Count(reader[h].line, S) \in Nat
          /\ Count(lineq, S) \in Nat
      BY <1>2, <1>4, <2>2, CountType
    <3>3. Count(<<>>, S) = 0
      BY CountEmpty
    <3>4. QED BY <3>1, <3>2, <3>3
  <2> DEFINE at == "loop"  from == 0  line == <<>>  rest == stdout[h]
  <2>5. Hands(h, at, from, line, rest)
    BY <1>4, <2>1, <2>3, <2>4 DEF Hands
  <2> HIDE DEF at, from, line, rest
  <2>6. QED BY <1>3, <2>5
<1>9. QED BY <1>6, <1>7, <1>8 DEF ReadToQueue

\* The thread of an earlier helper only ends.
LEMMA OldMoves ==
  ASSUME ScanInv, NEW h \in Helpers, ReadToQueue(h), h # started, ~Mixes(h)
  PROVE  Moves
<1>1. reader \in [Helpers -> Reader] /\ stdout \in [Helpers -> Seq(Lines)] /\ lineq \in Seq(Lines)
  BY DEF ScanInv, Types, ScanTypeOK
<1>2. reader'[h].at = "end" /\ UNCHANGED helper
  BY DEF Mixes, ReadToQueue
<1>3. reader' = [reader EXCEPT ![h] = Over] /\ UNCHANGED <<stdout, lineq>>
  <2>1. CASE ReaderLoop(h)
    <3>1. helper = 0 => reader' = [reader EXCEPT ![h] = Over]
      BY <2>1 DEF ReaderLoop
    <3>2. helper # 0 => reader'[h].at = "read"
      BY <1>1, <2>1 DEF ReaderLoop
    <3>3. QED BY <1>2, <2>1, <3>1, <3>2 DEF ReaderLoop
  <2>2. CASE ReaderLine(h)
    <3> DEFINE from == reader[h].from
    <3>1. stdout[from] # <<>> => reader'[h].at = "put"
      BY <1>1, <2>2 DEF ReaderLine
    <3>2. stdout[from] = <<>>
      BY <1>2, <3>1
    <3>3. QED BY <2>2, <3>2 DEF ReaderLine
  <2>3. CASE ReaderPut(h)
    <3>1. reader'[h].at = "loop"
      BY <1>1, <2>3 DEF ReaderPut
    <3>2. QED BY <1>2, <3>1
  <2>4. QED BY <2>1, <2>2, <2>3 DEF ReadToQueue
<1>4. Over \in Reader /\ Over.at = "end" /\ Over.line = <<>>
  BY DEF Over, Reader
<1>5. /\ reader' \in [Helpers -> Reader] /\ reader'[h] = Over
      /\ \A g \in Helpers : g # h => reader'[g] = reader[g]
  BY <1>1, <1>3, <1>4
<1>6. helper # 0 => Held' = Held /\ Printed' = Printed
  <2>1. helper # 0 => helper = started /\ helper \in Helpers
    BY DEF ScanInv, OneHelper, Types, ScanTypeOK, Helpers
  <2>2. QED BY <1>2, <1>3, <1>5, <2>1 DEF Held, Printed
<1>7. ASSUME NEW g \in Helpers
      PROVE  /\ g > started => stdout'[g] = <<>>
             /\ reader'[g].at \in {"read", "put"} => Reads(g, reader'[g].from, started)
             /\ IF reader'[g].at = "put" THEN Len(reader'[g].line) = 1 ELSE reader'[g].line = <<>>
  <2>1. CASE g = h
    BY <1>3, <1>4, <1>5, <2>1 DEF ScanInv, OneHelper
  <2>2. CASE g # h
    BY <1>3, <1>5, <2>2 DEF ScanInv, OneHelper
  <2>3. QED BY <2>1, <2>2
<1>8. helper # 0 => \A S : Count(Printed', S) + Count(Held', S) + Count(lineq', S)
                           = Count(Printed, S) + Count(Held, S) + Count(lineq, S)
  BY <1>3, <1>6
<1>9. QED BY <1>1, <1>3, <1>5, <1>7, <1>8 DEF Moves

LEMMA ReadMoves ==
  ASSUME ScanInv, NEW h \in Helpers, ReadToQueue(h), apart'
  PROVE  Moves
<1>1. h # started => ~Mixes(h)
  BY DEF ReadToQueue
<1>2. QED BY <1>1, OwnMoves, OldMoves

LEMMA ReadToQueueKeeps ==
  ASSUME ScanInv, NEW h \in Helpers, ReadToQueue(h), apart'
  PROVE  ScanInv'
  BY ReadMoves, Moving DEF ReadToQueue

-----------------------------------------------------------------------------
(* A scan that goes on: a second invariant, that rests on the first.        *)

\* lines of a kind on their way to the program
Coming(S) == Count(Printed, S) + Count(Held, S) + Count(lineq, S)

Refusals == {Line("err", "nomgmt")}
Discs == {Line("stat", "disc")}
News == {Line("mgmt", "success")}

\* Only a start() that was told "success" enables; an active scan then has the management
\* socket, which never refuses.
Enabling ==
  /\ pc \in {"le", "first", "ended", "gone", "again"} => ~enabled
  /\ mgmt_master /\ helper # 0 => Coming(Refusals) = 0
  /\ enabled /\ helper # 0 /\ pc # "quit" /\ ~(pc = "enter" /\ Starts(todo)) /\ mode = "scan"
       => mgmt_master

\* the program has been told, or is about to be told, that devices are looked for
Going ==
  /\ helper # 0
  /\ \/ enabled /\ pc \in {"idle", "enter", "process"} /\ ~(pc = "enter" /\ Starts(todo))
     \/ pc \in {"first", "again", "restart"} /\ Good > 0

In(e, evs) == \E k \in DOMAIN evs : evs[k] = e

\* what it is told of an active scan, and of a passive one, is so, or the event that makes it
\* so, or that ends it, is unread
Discovers(evs, conn, who, on) ==
  /\ conn = "scan" \/ In(Discovering("scan"), evs)
  /\ who # "none" \/ In(Discovering("disc"), evs)
  /\ who # "none" => on # "off"

Hears(conn, watches, on) ==
  /\ conn = "scan" /\ watches # <<>>
  /\ on # "off" \/ \E i \in DOMAIN watches : \E k \in DOMAIN watches[i] : EndsScan(watches[i][k])

Finds(evs, conn, who, watches, on) ==
  IF mode = "scan" THEN Discovers(evs, conn, who, on) ELSE Hears(conn, watches, on)

Scanning ==
  Going => /\ mode = "scan" => mgmt_master
           /\ Coming(Discs) = 0 => Finds(events, conn_state, discovery, monitors, radio)

GoingInv == Enabling /\ Scanning

\* the numbers above are natural numbers
Counted ==
  /\ Printed \in Seq(Lines) /\ Held \in Seq(Lines) /\ lineq \in Seq(Lines)
  /\ \A S : /\ Count(Printed, S) \in Nat /\ Count(Held, S) \in Nat /\ Count(lineq, S) \in Nat
            /\ Coming(S) \in Nat
  /\ Count(events, {Completed("success")}) \in Nat
  /\ Good = Count(events, {Completed("success")}) + Coming(News)

LEMMA Counts == ScanInv => Counted
<1> SUFFICES ASSUME ScanInv PROVE Counted
  OBVIOUS
<1>1. Printed \in Seq(Lines) /\ Held \in Seq(Lines) /\ lineq \in Seq(Lines)
  BY AccountTypes
<1>2. ASSUME NEW S
      PROVE  /\ Count(Printed, S) \in Nat /\ Count(Held, S) \in Nat /\ Count(lineq, S) \in Nat
             /\ Coming(S) \in Nat
  <2>1. Count(Printed, S) \in Nat /\ Count(Held, S) \in Nat /\ Count(lineq, S) \in Nat
    BY <1>1, CountType
  <2>2. QED BY <2>1 DEF Coming
<1>3. Count(events, {Completed("success")}) \in Nat
  BY AsItWas
<1>4. Good = Count(events, {Completed("success")}) + Coming(News)
  <2>1. Count(Printed, News) \in Nat /\ Count(Held, News) \in Nat /\ Count(lineq, News) \in Nat
    BY <1>2
  <2>2. QED BY <1>3, <2>1 DEF Good, Coming, News
<1>5. QED BY <1>1, <1>2, <1>3, <1>4 DEF Counted

LEMMA CountsNext == ScanInv' => Counted'
BY Counts, PTL

\* A command under way has no answer yet.
NoNews == pc \in Managing /\ (stdin # <<>> \/ requests # <<>>) => Good = 0

LEMMA Unanswered == ScanInv => NoNews
<1> SUFFICES ASSUME ScanInv, pc \in Managing, stdin # <<>> \/ requests # <<>> PROVE Good = 0
  BY DEF NoNews
<1>1. Owed = 1
  BY ManagingIs DEF ScanInv, OneOwed, OneHelper
<1>2. stdin # <<>> => Count(stdin, Verbs \ {"quit"}) > 0
  <2>1. stdin \in Seq({Awaited[pc]}) /\ {Awaited[pc]} \subseteq Verbs \ {"quit"}
    BY AwaitedIs DEF ScanInv, Types, Commanded, Verbs
  <2>2. Count(stdin, Verbs \ {"quit"}) = Len(stdin)
    BY <2>1, CountAll
  <2>3. QED BY <2>1, <2>2
<1>3. requests # <<>> => Len(requests) > 0
  BY AsItWas
<1>4. /\ Count(events, Completions) = 0 /\ Count(Printed, Answers) = 0
      /\ Count(Held, Answers) = 0 /\ Count(lineq, Answers) = 0
  BY <1>1, <1>2, <1>3, AccountTypes DEF Owed
<1>5. {Completed("success")} \subseteq Completions /\ News \subseteq Answers
  BY Codings DEF Codes, News
<1>6. Count(events, {Completed("success")}) <= 0
  BY <1>4, <1>5, AsItWas, CountMore
<1>7. Count(Printed, News) <= 0 /\ Count(Held, News) <= 0 /\ Count(lineq, News) <= 0
  BY <1>4, <1>5, AccountTypes, CountMore
<1>8. /\ Count(events, {Completed("success")}) \in Nat
      /\ Count(Printed, News) \in Nat /\ Count(Held, News) \in Nat /\ Count(lineq, News) \in Nat
  BY Counts DEF Counted
<1>9. QED BY <1>6, <1>7, <1>8 DEF Good, News

LEMMA UnansweredNext == ScanInv' => NoNews'
BY Unanswered, PTL

LEMMA Busy ==
  ASSUME ScanInv, running # 0, stdin # <<>> \/ requests # <<>>
  PROVE  ~Going
<1>1. helper # 0 /\ pc \in Managing \cup {"quit"}
  BY DEF ScanInv, OneHelper, Commanded
<1>2. pc \in Managing => Good = 0
  BY <1>1, Unanswered DEF NoNews
<1>3. QED BY <1>1, <1>2, ManagingIs DEF Going

-----------------------------------------------------------------------------
(* It goes on while the helper, the kernel and the air do something.        *)

\* the answer that the program waits for to go on has been given
Succeeds(lines) ==
  /\ pc \in {"first", "again", "restart"}
  /\ Count(events', {Completed("success")}) + Count(lines, News)
     > Count(events, {Completed("success")})

\* The helper prints lines that are true.
Gives(lines) ==
  /\ running # 0 /\ mgmt_master' = mgmt_master
  /\ lines \in Seq(Lines) /\ Say(lines)
  /\ mgmt_master => Count(lines, Refusals) = 0
  /\ Going \/ Succeeds(lines) =>
       /\ mode = "scan" => mgmt_master
       /\ Coming(Discs) + Count(lines, Discs) = 0 =>
            Finds(events', conn_state', discovery', monitors', radio')

LEMMA Giving ==
  ASSUME ScanInv, ScanInv', GoingInv, UNCHANGED scannerVars, NEW lines, Gives(lines)
  PROVE  GoingInv'
<1>1. /\ running \in Helpers /\ helper = running /\ helper # 0
      /\ UNCHANGED <<helper, started, reader, lineq, todo, pc, mode, late, scanned, starts, last, enabled>>
  BY DEF ScanInv, Types, ScanTypeOK, OneHelper, scannerVars, Helpers, Gives
<1>2. \A S : Count(stdout'[running], S) = Count(stdout[running], S) + Count(lines, S)
  BY <1>1, SayCounts DEF ScanInv, Gives
<1>3. /\ Held' = Held
      /\ \A S : Count(Printed', S) = Count(Printed, S) + Count(lines, S)
  BY <1>1, <1>2 DEF Held, Printed
<1>4. ASSUME NEW S
      PROVE  Coming(S)' = Coming(S) + Count(lines, S) /\ Count(lines, S) \in Nat
  <2>1. Count(lines, S) \in Nat
    BY CountType DEF Gives
  <2>2. Count(Printed, S) \in Nat /\ Count(Held, S) \in Nat /\ Count(lineq, S) \in Nat
    BY Counts DEF Counted
  <2>3. QED BY <1>1, <1>3, <2>1, <2>2 DEF Coming
<1>5. Enabling'
  <2>1. mgmt_master => Coming(Refusals)' = 0
    <3>1. mgmt_master => Coming(Refusals) = 0 /\ Count(lines, Refusals) = 0
      BY <1>1 DEF GoingInv, Enabling, Gives
    <3>2. QED BY <1>4, <3>1
  <2>2. QED BY <1>1, <2>1 DEF GoingInv, Enabling, Gives
<1>6. Scanning'
  <2>1. Going' => Going \/ Succeeds(lines)
    <3>1. Good' = Count(events', {Completed("success")}) + Coming(News) + Count(lines, News)
      <4>1. Good' = Count(events', {Completed("success")}) + Coming(News)'
        BY CountsNext DEF Counted
      <4>2. Coming(News)' = Coming(News) + Count(lines, News)
        BY <1>4
      <4>3. Count(events', {Completed("success")}) \in Nat /\ Coming(News) \in Nat
        BY Counts, CountsNext DEF Counted
      <4>4. QED BY <1>4, <4>1, <4>2, <4>3
    <3>2. Good = Count(events, {Completed("success")}) + Coming(News)
      BY Counts DEF Counted
    <3>3. /\ Count(events, {Completed("success")}) \in Nat /\ Coming(News) \in Nat
          /\ Count(events', {Completed("success")}) \in Nat /\ Count(lines, News) \in Nat
      BY <1>4, Counts, CountsNext DEF Counted
    <3>4. Good' > 0 /\ pc \in {"first", "again", "restart"} => Good > 0 \/ Succeeds(lines)
      BY <3>1, <3>2, <3>3 DEF Succeeds
    <3>5. QED BY <1>1, <3>4 DEF Going
  <2>2. Coming(Discs)' = Coming(Discs) + Count(lines, Discs)
    BY <1>4
  <2>3. Finds(events', conn_state', discovery', monitors', radio')
          => Finds(events, conn_state, discovery, monitors, radio)'
    BY <1>1 DEF Finds, Discovers, Hears
  <2>4. QED BY <1>1, <2>1, <2>2, <2>3 DEF Scanning, Gives
<1>7. QED BY <1>5, <1>6 DEF GoingInv

LEMMA LineKinds ==
  /\ \A c \in Codes : Line("mgmt", c) \notin Refusals \cup Discs /\ (c # "success" => Line("mgmt", c) \notin News)
  /\ Line("err", "nomgmt") \notin News \cup Discs
  /\ Line("stat", "scan") \notin News \cup Refusals \cup Discs
  /\ Line("stat", "disc") \notin News \cup Refusals /\ Line("stat", "disc") \in Discs
  /\ \A dev \in Device : Found(dev) \notin News \cup Refusals \cup Discs
  /\ \A e : e # Completed("success") => e \notin {Completed("success")}
BY DEF Refusals, Discs, News, Line, Found

LEMMA CmdMgmtGoes ==
  ASSUME ScanInv, ScanInv', GoingInv, UNCHANGED scannerVars, NEW verb, CmdMgmt(verb)
  PROVE  GoingInv'
<1>1. /\ UNCHANGED <<running, mgmt_master, events>>
      /\ running # 0 /\ stdin # <<>>
  BY DEF CmdMgmt, Read
<1>2. ~Going
  BY <1>1, Busy
<1>3. PICK lines \in Seq(Lines) :
        /\ Say(lines) /\ Count(lines, News) = 0
        /\ mgmt_master => Count(lines, Refusals) = 0
  <2>1. CASE mgmt_master
    <3>1. Say(<<>>)
      BY <1>1, <2>1, SayNothing DEF CmdMgmt, ScanInv, Types, ScanTypeOK, Helpers
    <3>2. QED BY <3>1, Kinds
  <2>2. CASE ~mgmt_master
    <3> DEFINE line == Line("err", "nomgmt")
    <3>1. Say(<<line>>) /\ line \in Lines /\ line \notin News
      BY <2>2, Codings, LineKinds DEF CmdMgmt
    <3> HIDE DEF line
    <3>2. QED BY <2>2, <3>1, Kinds
  <2>3. QED BY <2>1, <2>2
<1>4. ~Succeeds(lines)
  <2>1. Count(events, {Completed("success")}) \in Nat
    BY AsItWas
  <2>2. QED BY <1>1, <1>3, <2>1 DEF Succeeds
<1>5. Gives(lines)
  BY <1>1, <1>2, <1>3, <1>4 DEF Gives
<1>6. QED BY <1>5, Giving

\* the answer that is waited for is that of the command which is read
LEMMA TheCommand ==
  ASSUME ScanInv, NEW verb, Read(verb)
  PROVE  /\ pc \in Managing => verb = Awaited[pc]
         /\ pc \in {"first", "again", "restart"} => verb = mode
         /\ ~Going /\ running # 0 /\ Count(events, {Completed("success")}) \in Nat
<1>1. /\ running # 0 /\ stdin # <<>>
      /\ \A v \in Verbs : stdin \in Seq({v}) => verb = v
  BY ReadFacts
<1>2. pc \in Managing => verb = Awaited[pc]
  BY <1>1, AtHand
<1>3. Awaited["first"] = mode /\ Awaited["again"] = mode /\ Awaited["restart"] = mode
  BY AwaitedIs DEF ScanInv, Types
<1>4. QED BY <1>1, <1>2, <1>3, Busy, AsItWas, ManagingIs

LEMMA CmdPasvGoes ==
  ASSUME ScanInv, ScanInv', GoingInv, UNCHANGED scannerVars, NEW how \in Attempts, CmdPasv(how)
  PROVE  GoingInv'
<1> DEFINE verb == "pasv"
<1>1. Read(verb) /\ UNCHANGED <<running, mgmt_master, events>>
  BY DEF CmdPasv
<1> HIDE DEF verb
<1>2. /\ ~Going /\ running # 0 /\ Count(events, {Completed("success")}) \in Nat
      /\ pc \in {"first", "again", "restart"} => verb = mode
  BY <1>1, TheCommand
<1>3. pc \in {"first", "again", "restart"} => mode = "pasv"
  BY <1>2 DEF verb
<1>4. CASE how = "ok"
  <2> DEFINE line == Line("mgmt", "success")  next == Line("stat", "scan")
             lines == <<line, next>>
  <2>1. Say(lines) /\ conn_state' = "scan" /\ radio' = "us" /\ monitors' = Append(Others(how), <<>>)
    BY <1>4 DEF CmdPasv, Heard, Watching
  <2>2. line \in Lines /\ next \in Lines /\ line \notin Refusals /\ next \notin Refusals
    BY Codings, LineKinds DEF Codes
  <2> HIDE DEF line, next
  <2>3. lines \in Seq(Lines) /\ Count(lines, Refusals) = 0
    BY <2>2, Kinds
  <2>4. monitors' # <<>>
    BY <2>1, OthersType
  <2>5. Hears(conn_state', monitors', radio')
    BY <2>1, <2>4 DEF Hears
  <2>6. Succeeds(lines) => mode = "pasv"
    BY <1>3 DEF Succeeds
  <2> HIDE DEF lines
  <2>7. Gives(lines)
    BY <1>1, <1>2, <2>1, <2>3, <2>5, <2>6 DEF Gives, Finds
  <2>8. QED BY <2>7, Giving
<1>5. CASE how # "ok"
  <2> DEFINE line == Line("mgmt", "badstate")  lines == <<line>>
  <2>1. Say(lines)
    BY <1>5 DEF CmdPasv
  <2>2. line \in Lines /\ line \notin Refusals /\ line \notin News
    BY Codings, LineKinds DEF Codes
  <2> HIDE DEF line
  <2>3. lines \in Seq(Lines) /\ Count(lines, Refusals) = 0 /\ Count(lines, News) = 0
    BY <2>2, Kinds
  <2> HIDE DEF lines
  <2>4. ~Succeeds(lines)
    BY <1>1, <1>2, <2>3 DEF Succeeds
  <2>5. Gives(lines)
    BY <1>1, <1>2, <2>1, <2>3, <2>4 DEF Gives
  <2>6. QED BY <2>5, Giving
<1>6. QED BY <1>4, <1>5

LEMMA CmdPasvEndGoes ==
  ASSUME ScanInv, ScanInv', GoingInv, UNCHANGED scannerVars,
         NEW how \in {"nodev", "refused", "ok"}, CmdPasvEnd(how)
  PROVE  GoingInv'
<1> DEFINE verb == "pasvend"
<1>1. Read(verb) /\ UNCHANGED <<running, mgmt_master, events>>
  BY DEF CmdPasvEnd
<1> HIDE DEF verb
<1>2. /\ ~Going /\ running # 0
      /\ pc \in {"first", "again", "restart"} => verb = mode
  BY <1>1, TheCommand
<1>3. pc \notin {"first", "again", "restart"}
  BY <1>2 DEF verb, ScanInv, Types
<1> DEFINE line == Line("mgmt", IF how = "ok" THEN "success" ELSE "badstate")
           next == Line("stat", "disc")  lines == <<line, next>>
<1>4. Say(lines)
  BY DEF CmdPasvEnd
<1>5. line \in Lines /\ next \in Lines /\ line \notin Refusals /\ next \notin Refusals
  BY Codings, LineKinds DEF Codes
<1> HIDE DEF line, next
<1>6. lines \in Seq(Lines) /\ Count(lines, Refusals) = 0
  BY <1>5, Kinds
<1> HIDE DEF lines
<1>7. Gives(lines)
  BY <1>1, <1>2, <1>3, <1>4, <1>6 DEF Gives, Succeeds
<1>8. QED BY <1>7, Giving

LEMMA CmdQuitGoes ==
  ASSUME ScanInv, ScanInv', GoingInv, UNCHANGED scannerVars, CmdQuit
  PROVE  GoingInv'
<1> DEFINE verb == "quit"
<1>1. Read(verb) /\ UNCHANGED mgmt_master
  BY DEF CmdQuit
<1> HIDE DEF verb
<1>2. ~Going /\ running # 0
  BY <1>1, TheCommand
<1>3. pc = "quit"
  BY <1>1, ReadFacts DEF verb
<1>4. PICK lines \in Seq(Lines) : Say(lines) /\ Count(lines, Refusals) = 0
  <2> DEFINE line == Line("stat", "disc")
  <2>1. Say(<<>>) \/ Say(<<line>>)
    BY DEF CmdQuit
  <2>2. line \in Lines /\ line \notin Refusals
    BY Codings, LineKinds
  <2> HIDE DEF line
  <2>3. QED BY <2>1, <2>2, Kinds
<1>5. Gives(lines)
  BY <1>1, <1>2, <1>3, <1>4 DEF Gives, Succeeds
<1>6. QED BY <1>5, Giving

LEMMA TellIn ==
  ASSUME ScanInv, running # 0, NEW evs \in Seq(Event), Tell(evs)
  PROVE  /\ \A e : In(e, events) => In(e, events')
         /\ mgmt_master => \A k \in DOMAIN evs : In(evs[k], events')
<1>1. events \in Seq(Event)
  BY AsItWas
<1>2. CASE mgmt_master
  <2>1. events' = events \o evs /\ events' \in Seq(Event)
    BY <1>1, <1>2 DEF Tell
  <2>2. \A k \in DOMAIN events : k \in DOMAIN events' /\ events'[k] = events[k]
    BY <1>1, <2>1
  <2>3. ASSUME NEW k \in DOMAIN evs
        PROVE  In(evs[k], events')
    <3>1. Len(events) + k \in DOMAIN events' /\ events'[Len(events) + k] = evs[k]
      BY <1>1, <2>1
    <3>2. QED BY <3>1 DEF In
  <2>4. QED BY <2>2, <2>3 DEF In
<1>3. CASE ~mgmt_master
  BY <1>3 DEF Tell
<1>4. QED BY <1>2, <1>3

LEMMA KernelDoesGoes ==
  ASSUME ScanInv, ScanInv', GoingInv, UNCHANGED scannerVars, NEW ok \in BOOLEAN, KernelDoes(ok)
  PROVE  GoingInv'
<1> DEFINE r == Head(requests)  S == {Completed("success")}
<1>1. /\ running # 0 /\ requests # <<>> /\ mgmt_master
      /\ UNCHANGED <<stdin, stdout, running, mgmt_master, conn_state>>
  BY DEF KernelDoes, ScanInv, Commanded
<1>2. ~Going /\ Count(events, S) \in Nat
  BY <1>1, Busy, AsItWas
<1>3. Say(<<>>) /\ <<>> \in Seq(Lines) /\ Count(<<>>, Refusals) = 0 /\ Count(<<>>, News) = 0
  BY <1>1, SayNothing, Kinds DEF ScanInv, Types, ScanTypeOK, Helpers
<1>4. r \in {"le", "scan", "scanend"}
  BY <1>1, AsItWas
<1>5. pc \in {"first", "again", "restart"} => r = "scan" /\ mode = "scan"
  <2>1. SUFFICES ASSUME pc \in {"first", "again", "restart"} PROVE r = "scan" /\ mode = "scan"
    OBVIOUS
  <2>2. pc \in Managing /\ Awaited[pc] = mode /\ mode \in {"scan", "pasv"}
    BY <2>1, ManagingIs, AwaitedIs DEF ScanInv, Types
  <2>3. requests \in Seq({mode})
    BY <2>2 DEF ScanInv, Commanded
  <2>4. r = mode
    BY <1>1, <2>3
  <2>5. QED BY <1>4, <2>2, <2>4
<1>6. CASE ok /\ r = "scan" /\ discovery = "none"
  <2> DEFINE e == Completed("success")  f == Discovering("scan")  evs == <<e, f>>
  <2>1. Tell(evs) /\ discovery' = "us" /\ radio' = "us"
    BY <1>6 DEF KernelDoes, Switch
  <2>2. e \in Event /\ f \in Event
    BY Codings DEF Codes
  <2> HIDE DEF e, f
  <2>3. evs \in Seq(Event) /\ 2 \in DOMAIN evs /\ evs[2] = f
    BY <2>2
  <2> HIDE DEF evs
  <2>4. In(f, events')
    BY <1>1, <2>1, <2>3, TellIn
  <2>5. Discovers(events', conn_state', discovery', radio')
    BY <2>1, <2>4 DEF Discovers, f
  <2>6. Succeeds(<<>>) => mode = "scan"
    BY <1>5 DEF Succeeds
  <2>7. Gives(<<>>)
    BY <1>1, <1>2, <1>3, <2>5, <2>6 DEF Gives, Finds
  <2>8. QED BY <2>7, Giving
<1>7. CASE ~(ok /\ r = "scan" /\ discovery = "none")
  <2>1. ~Succeeds(<<>>)
    <3>1. SUFFICES ASSUME pc \in {"first", "again", "restart"}
                   PROVE  Count(events', S) = Count(events, S)
      BY <1>2, <1>3 DEF Succeeds
    <3>2. PICK c \in Codes \ {"success"} : Tell(<<Completed(c)>>)
      BY <1>5, <1>7, <3>1 DEF KernelDoes, Codes
    <3> DEFINE e == Completed(c)
    <3>3. e \in Event /\ e \notin S
      BY <3>2, Codings DEF Completed
    <3> HIDE DEF e, S
    <3>4. <<e>> \in Seq(Event) /\ Count(<<e>>, S) = 0 /\ Tell(<<e>>)
      BY <3>2, <3>3, EventKinds DEF e
    <3>5. QED BY <1>1, <3>4, TellCounts
  <2>2. Gives(<<>>)
    BY <1>1, <1>2, <1>3, <2>1 DEF Gives
  <2>3. QED BY <2>2, Giving
<1>8. QED BY <1>6, <1>7

\* Something happens that no command asks for.
LEMMA GoingOnGives ==
  ASSUME ScanInv, GoingInv, running # 0, mgmt_master' = mgmt_master,
         NEW lines \in Seq(Lines), Say(lines), Count(lines, Refusals) = 0,
         Count(events', {Completed("success")}) + Count(lines, News)
           = Count(events, {Completed("success")}),
         Going /\ (mode = "scan" => mgmt_master) /\ Count(lines, Discs) = 0
           /\ Finds(events, conn_state, discovery, monitors, radio)
         => Finds(events', conn_state', discovery', monitors', radio')
  PROVE  Gives(lines)
<1>1. ~Succeeds(lines)
  <2>1. Count(events, {Completed("success")}) \in Nat
    BY AsItWas
  <2>2. QED BY <2>1 DEF Succeeds
<1>2. Going => /\ mode = "scan" => mgmt_master
               /\ Coming(Discs) = 0 => Finds(events, conn_state, discovery, monitors, radio)
  BY DEF GoingInv, Scanning
<1>3. Coming(Discs) + Count(lines, Discs) = 0 => Coming(Discs) = 0 /\ Count(lines, Discs) = 0
  <2>1. Coming(Discs) \in Nat /\ Count(lines, Discs) \in Nat
    BY Counts, CountType DEF Counted
  <2>2. QED BY <2>1
<1>4. QED BY <1>1, <1>2, <1>3 DEF Gives

LEMMA MgmtEventGoes ==
  ASSUME ScanInv, ScanInv', GoingInv, UNCHANGED scannerVars, MgmtEvent
  PROVE  GoingInv'
<1> DEFINE e == Head(events)  S == {Completed("success")}
<1>1. /\ running # 0 /\ events # <<>> /\ events' = Tail(events)
      /\ UNCHANGED <<running, mgmt_master, monitors, discovery, radio>>
  BY DEF MgmtEvent
<1>2. /\ e \in Event /\ Count(events, S) = Count(events', S) + (IF e \in S THEN 1 ELSE 0)
      /\ Count(events', S) \in Nat
  <2>1. events \in Seq(Event)
    BY AsItWas
  <2>2. e \in Event /\ events' \in Seq(Event)
    BY <1>1, <2>1
  <2> HIDE DEF S
  <2>3. Count(events, S) = Count(events', S) + (IF e \in S THEN 1 ELSE 0)
    BY <1>1, <2>1, CountTail
  <2>4. QED BY <2>2, <2>3, CountType
<1>3. \A f : In(f, events) /\ f # e => In(f, events')
  <2>1. ASSUME NEW k \in DOMAIN events, events[k] # e
        PROVE  In(events[k], events')
    <3>1. k # 1 /\ k - 1 \in DOMAIN events' /\ events'[k - 1] = events[k]
      BY <1>1, <2>1, AsItWas
    <3>2. QED BY <3>1 DEF In
  <2>2. QED BY <2>1 DEF In
<1>4. SUFFICES
        ASSUME NEW lines \in Seq(Lines), Say(lines), Count(lines, Refusals) = 0,
               Count(lines, News) = (IF e \in S THEN 1 ELSE 0),
               Count(lines, Discs) = 0 =>
                 \/ conn_state' = conn_state /\ e.ev # "discovering"
                 \/ conn_state' = "scan" /\ e = Discovering("scan")
        PROVE  GoingInv'
  <2>1. CASE e.ev = "complete"
    <3> DEFINE line == Line("mgmt", e.tag)
    <3>1. Say(<<line>>) /\ conn_state' = conn_state
      BY <2>1 DEF MgmtEvent
    <3>2. e.tag \in Codes /\ e = Completed(e.tag) /\ line \in Lines /\ line \notin Refusals
      BY <1>2, <2>1, EventsAre, Codings, LineKinds
    <3>3. e \in S <=> line \in News
      BY <3>2 DEF Completed, Line, News
    <3> HIDE DEF line, S
    <3>4. /\ <<line>> \in Seq(Lines) /\ Count(<<line>>, Refusals) = 0
          /\ Count(<<line>>, News) = (IF line \in News THEN 1 ELSE 0)
      BY <3>2, Kinds
    <3>5. QED BY <1>4, <2>1, <3>1, <3>3, <3>4
  <2>2. CASE e.ev = "discovering"
    <3> DEFINE line == Line("stat", e.tag)
    <3>1. Say(<<line>>) /\ conn_state' = e.tag
      BY <2>2 DEF MgmtEvent
    <3>2. /\ e.tag \in {"disc", "scan"} /\ e = Discovering(e.tag)
          /\ line \in Lines /\ line \notin News \cup Refusals
          /\ e.tag = "disc" => line \in Discs
      BY <1>2, <2>2, EventsAre, Codings, LineKinds
    <3>3. e \notin S
      BY <2>2 DEF Completed
    <3> HIDE DEF line, S
    <3>4. /\ <<line>> \in Seq(Lines) /\ Count(<<line>>, Refusals) = 0
          /\ Count(<<line>>, News) = 0
          /\ Count(<<line>>, Discs) = 0 => e.tag = "scan"
      BY <3>2, Kinds
    <3> HIDE DEF e
    <3>5. QED BY <1>4, <3>1, <3>2, <3>3, <3>4
  <2>3. CASE e.ev = "found"
    <3> DEFINE line == Found(e.dev)
    <3>1. (Say(<<line>>) \/ Say(<<>>)) /\ conn_state' = conn_state
      BY <2>3 DEF MgmtEvent, Reports
    <3>2. line \in Lines /\ line \notin News \cup Refusals
      BY <1>2, <2>3, EventsAre, Codings, LineKinds
    <3>3. e \notin S
      BY <2>3 DEF Completed
    <3> HIDE DEF line, S
    <3>4. /\ <<line>> \in Seq(Lines) /\ Count(<<line>>, Refusals) = 0 /\ Count(<<line>>, News) = 0
          /\ <<>> \in Seq(Lines) /\ Count(<<>>, Refusals) = 0 /\ Count(<<>>, News) = 0
      BY <3>2, Kinds
    <3>5. QED BY <1>4, <2>3, <3>1, <3>3, <3>4
  <2>4. QED BY <1>2, <2>1, <2>2, <2>3, EventsAre
<1>5. ASSUME Count(lines, Discs) = 0, Finds(events, conn_state, discovery, monitors, radio)
      PROVE  Finds(events', conn_state', discovery', monitors', radio')
  <2>1. e # Discovering("disc") /\ (e = Discovering("scan") => conn_state' = "scan")
    BY <1>4, <1>5 DEF Discovering
  <2>2. conn_state' \in {conn_state, "scan"}
    BY <1>4, <1>5
  <2> HIDE DEF e
  <2>3. Discovers(events, conn_state, discovery, radio) =>
          Discovers(events', conn_state', discovery', radio')
    BY <1>1, <1>3, <2>1, <2>2 DEF Discovers
  <2>4. Hears(conn_state, monitors, radio) => Hears(conn_state', monitors', radio')
    BY <1>1, <2>2 DEF Hears
  <2>5. QED BY <1>5, <2>3, <2>4 DEF Finds
<1>6. Count(events', S) + Count(lines, News) = Count(events, S)
  BY <1>2, <1>4
<1>7. Gives(lines)
  BY <1>1, <1>4, <1>5, <1>6, GoingOnGives
<1>8. QED BY <1>7, Giving

LEMMA HciMonitorGoes ==
  ASSUME ScanInv, ScanInv', GoingInv, UNCHANGED scannerVars, NEW i \in DOMAIN monitors, HciMonitor(i)
  PROVE  GoingInv'
<1>1. /\ running # 0 /\ monitors[i] # <<>> /\ monitors[i] \in Seq(Packets)
      /\ UNCHANGED <<running, mgmt_master, events, discovery, radio>>
  BY WatchesType DEF HciMonitor
<1>2. /\ <<>> \in Seq(Lines) /\ Count(<<>>, Refusals) = 0 /\ Count(<<>>, News) = 0
      /\ Count(events, {Completed("success")}) \in Nat
  BY Kinds, AsItWas
<1>3. CASE EndsScan(Head(monitors[i]))
  <2>1. conn_state' = "disc"
    BY <1>3 DEF HciMonitor
  <2>2. PICK lines \in Seq(Lines) :
          /\ Say(lines) /\ Count(lines, Refusals) = 0 /\ Count(lines, News) = 0
          /\ conn_state = "scan" => Count(lines, Discs) = 1
    <3> DEFINE line == Line("stat", "disc")
    <3>1. Say(IF conn_state = "scan" THEN <<line>> ELSE <<>>)
      BY <1>3 DEF HciMonitor
    <3>2. line \in Lines /\ line \notin News \cup Refusals /\ line \in Discs
      BY Codings, LineKinds
    <3> HIDE DEF line
    <3>3. QED BY <1>2, <3>1, <3>2, Kinds
  <2>3. ASSUME Count(lines, Discs) = 0, Finds(events, conn_state, discovery, monitors, radio)
        PROVE  Finds(events', conn_state', discovery', monitors', radio')
    <3>1. conn_state # "scan"
      BY <2>2, <2>3
    <3>2. QED BY <1>1, <2>3, <3>1 DEF Finds, Discovers, Hears
  <2>4. Count(events', {Completed("success")}) + Count(lines, News)
        = Count(events, {Completed("success")})
    BY <1>1, <1>2, <2>2
  <2>5. Gives(lines)
    BY <1>1, <2>2, <2>3, <2>4, GoingOnGives
  <2>6. QED BY <2>5, Giving
<1>4. CASE ~EndsScan(Head(monitors[i]))
  <2> DEFINE packet == Head(monitors[i])
  <2>1. monitors' = [monitors EXCEPT ![i] = Tail(monitors[i])] /\ conn_state' = conn_state
    BY <1>4 DEF HciMonitor
  <2>2. PICK lines \in Seq(Lines) :
          Say(lines) /\ Count(lines, Refusals) = 0 /\ Count(lines, News) = 0
    <3> DEFINE line == Found(packet.dev)
    <3>1. Say(<<>>) \/ (packet.pkt = "report" /\ Say(<<line>>))
      BY <1>4 DEF HciMonitor, Reports
    <3>2. packet \in Packets
      BY <1>1
    <3>3. packet.pkt = "report" => packet.dev \in Device
      BY <3>2 DEF Packets, Packet, Report
    <3>4. packet.pkt = "report" => line \in Lines /\ line \notin News \cup Refusals
      BY <3>3, Codings, LineKinds
    <3> HIDE DEF line, packet
    <3>5. packet.pkt = "report" =>
            <<line>> \in Seq(Lines) /\ Count(<<line>>, Refusals) = 0 /\ Count(<<line>>, News) = 0
      BY <3>4, Kinds
    <3>6. QED BY <1>2, <3>1, <3>5
  <2>3. Hears(conn_state, monitors, radio) => Hears(conn_state', monitors', radio')
    <3> DEFINE SP == Seq(Packets)
    <3>1. monitors \in Seq(SP)
      BY AsItWas
    <3> HIDE DEF SP
    <3>2. /\ DOMAIN monitors' = DOMAIN monitors /\ monitors'[i] = Tail(monitors[i])
          /\ \A j \in DOMAIN monitors : j # i => monitors'[j] = monitors[j]
          /\ monitors' # <<>>
      BY <2>1, <3>1
    <3>3. ASSUME NEW j \in DOMAIN monitors, NEW k \in DOMAIN monitors[j], EndsScan(monitors[j][k])
          PROVE  \E m \in DOMAIN monitors'[j] : EndsScan(monitors'[j][m])
      <4>1. CASE j = i
        <5>1. monitors[i][1] = Head(monitors[i]) /\ k # 1
          BY <1>1, <1>4, <3>3, <4>1
        <5>2. k - 1 \in DOMAIN Tail(monitors[i]) /\ Tail(monitors[i])[k - 1] = monitors[i][k]
          BY <1>1, <3>3, <4>1, <5>1
        <5>3. QED BY <3>2, <3>3, <4>1, <5>2
      <4>2. CASE j # i
        BY <3>2, <3>3, <4>2
      <4>3. QED BY <4>1, <4>2
    <3>4. QED BY <1>1, <2>1, <3>2, <3>3 DEF Hears
  <2>4. Discovers(events, conn_state, discovery, radio) =>
          Discovers(events', conn_state', discovery', radio')
    BY <1>1, <2>1 DEF Discovers
  <2>5. Finds(events, conn_state, discovery, monitors, radio) =>
          Finds(events', conn_state', discovery', monitors', radio')
    BY <2>3, <2>4 DEF Finds
  <2>6. Count(events', {Completed("success")}) + Count(lines, News)
        = Count(events, {Completed("success")})
    BY <1>1, <1>2, <2>2
  <2>7. Gives(lines)
    BY <1>1, <2>2, <2>5, <2>6, GoingOnGives
  <2>8. QED BY <2>7, Giving
<1>5. QED BY <1>3, <1>4

\* what the air does to what is found
LEMMA AirFinds ==
  ASSUME ScanInv, running # 0, Air, mode = "scan" => mgmt_master,
         Finds(events, conn_state, discovery, monitors, radio)
  PROVE  Finds(events', conn_state', discovery', monitors', radio')
<1> DEFINE SP == Seq(Packets)
<1>1. monitors \in Seq(SP) /\ \A j \in DOMAIN monitors : monitors[j] \in Seq(Packets)
  BY AsItWas
<1> HIDE DEF SP
<1>2. ASSUME NEW packet, monitors' = Seen(packet), monitors # <<>>
      PROVE  /\ monitors' # <<>> /\ DOMAIN monitors' = DOMAIN monitors /\ 1 \in DOMAIN monitors
             /\ \A j \in DOMAIN monitors : monitors'[j] = Append(monitors[j], packet)
             /\ \A j \in DOMAIN monitors : /\ Len(monitors[j]) + 1 \in DOMAIN monitors'[j]
                                           /\ monitors'[j][Len(monitors[j]) + 1] = packet
                                           /\ \A k \in DOMAIN monitors[j] :
                                                /\ k \in DOMAIN monitors'[j]
                                                /\ monitors'[j][k] = monitors[j][k]
  <2>1. /\ monitors' # <<>> /\ DOMAIN monitors' = DOMAIN monitors /\ 1 \in DOMAIN monitors
        /\ \A j \in DOMAIN monitors : monitors'[j] = Append(monitors[j], packet)
    BY <1>1, <1>2 DEF Seen
  <2>2. ASSUME NEW j \in DOMAIN monitors
        PROVE  /\ Len(monitors[j]) + 1 \in DOMAIN monitors'[j]
               /\ monitors'[j][Len(monitors[j]) + 1] = packet
               /\ \A k \in DOMAIN monitors[j] :
                    k \in DOMAIN monitors'[j] /\ monitors'[j][k] = monitors[j][k]
    <3>1. monitors[j] \in Seq(Packets) /\ monitors'[j] = Append(monitors[j], packet)
      BY <1>1, <2>1
    <3>2. QED BY <3>1
  <2>3. QED BY <2>1, <2>2
<1>3. ASSUME NEW to, Switch(to), conn_state' = conn_state, Hears(conn_state, monitors, radio)
      PROVE  Hears(conn_state', monitors', radio')
  <2>1. CASE to = "off"
    <3> DEFINE packet == Packet("disable")
    <3>1. monitors' = Seen(packet) /\ monitors # <<>> /\ EndsScan(packet)
      BY <1>3, <2>1 DEF Switch, Hears, EndsScan, Packet
    <3> HIDE DEF packet
    <3>2. \E i \in DOMAIN monitors' : \E k \in DOMAIN monitors'[i] : EndsScan(monitors'[i][k])
      BY <1>2, <3>1
    <3>3. QED BY <1>2, <1>3, <3>1, <3>2 DEF Hears
  <2>2. CASE to # "off"
    <3> DEFINE packet == Packet("enable")
    <3>1. monitors' = Seen(packet) /\ monitors # <<>> /\ radio' # "off"
      BY <1>3, <2>2 DEF Switch, Hears
    <3> HIDE DEF packet
    <3>2. QED BY <1>2, <1>3, <3>1 DEF Hears
  <2>3. QED BY <2>1, <2>2
<1>4. ASSUME NEW e \in Event, Tell(<<e>>)
      PROVE  /\ \A f : In(f, events) => In(f, events')
             /\ mgmt_master => In(e, events')
  <2>1. <<e>> \in Seq(Event) /\ 1 \in DOMAIN <<e>> /\ <<e>>[1] = e
    OBVIOUS
  <2>2. QED BY <1>4, <2>1, TellIn
<1>5. CASE DiscoveryEnds
  <2> DEFINE to == "off"  e == Discovering("disc")
  <2>1. discovery' = "none" /\ radio' = "off" /\ Switch(to) /\ Tell(<<e>>) /\ conn_state' = conn_state
    BY <1>5 DEF DiscoveryEnds, Switch
  <2>2. e \in Event
    BY Codings
  <2> HIDE DEF to
  <2>3. mode = "scan" => Discovers(events', conn_state', discovery', radio')
    BY <1>4, <2>1, <2>2 DEF Finds, Discovers
  <2>4. QED BY <1>3, <2>1, <2>3 DEF Finds
<1>6. CASE OtherStarts
  <2> DEFINE to == "other"  e == Discovering("scan")
  <2>1. discovery' = "other" /\ radio' = "other" /\ Switch(to) /\ Tell(<<e>>) /\ conn_state' = conn_state
    BY <1>6 DEF OtherStarts, Switch
  <2>2. e \in Event
    BY Codings
  <2> HIDE DEF to
  <2>3. mode = "scan" => Discovers(events', conn_state', discovery', radio')
    BY <1>4, <2>1, <2>2 DEF Finds, Discovers
  <2>4. QED BY <1>3, <2>1, <2>3 DEF Finds
<1>7. CASE OtherDisables
  <2> DEFINE to == "off"
  <2>1. /\ discovery = "none" /\ Switch(to)
        /\ UNCHANGED <<conn_state, events, discovery>>
    BY <1>7 DEF OtherDisables
  <2> HIDE DEF to
  <2>2. mode = "scan" => Discovers(events', conn_state', discovery', radio')
    BY <2>1 DEF Finds, Discovers
  <2>3. QED BY <1>3, <2>1, <2>2 DEF Finds
<1>8. ASSUME NEW d \in Device, Advertises(d)
      PROVE  Finds(events', conn_state', discovery', monitors', radio')
  <2> DEFINE packet == Report(d)
  <2>1. /\ monitors' = Seen(packet) /\ UNCHANGED <<conn_state, discovery, radio>> /\ radio # "off"
        /\ Tell(<<>>) \/ Tell(<<DeviceFound(d)>>)
    BY <1>8 DEF Advertises
  <2> HIDE DEF packet
  <2>2. \A f : In(f, events) => In(f, events')
    <3>1. CASE Tell(<<>>)
      <4>1. <<>> \in Seq(Event)
        OBVIOUS
      <4>2. QED BY <3>1, <4>1, TellIn
    <3>2. CASE Tell(<<DeviceFound(d)>>)
      <4>1. DeviceFound(d) \in Event
        BY Codings
      <4>2. QED BY <1>4, <3>2, <4>1
    <3>3. QED BY <2>1, <3>1, <3>2
  <2>3. mode = "scan" => Discovers(events', conn_state', discovery', radio')
    BY <2>1, <2>2 DEF Finds, Discovers
  <2>4. mode # "scan" => Hears(conn_state', monitors', radio')
    BY <1>2, <2>1 DEF Finds, Hears
  <2>5. QED BY <2>3, <2>4 DEF Finds
<1>9. QED BY <1>5, <1>6, <1>7, <1>8 DEF Air

LEMMA AirGoes ==
  ASSUME ScanInv, ScanInv', GoingInv, UNCHANGED scannerVars, Air
  PROVE  GoingInv'
<1>1. UNCHANGED <<stdin, stdout, running, mgmt_master, conn_state, requests>>
  BY DEF Air, DiscoveryEnds, OtherStarts, OtherDisables, Advertises
<1>2. CASE running = 0
  <2>1. ~Going /\ (helper = 0 \/ pc = "quit")
    BY <1>2 DEF Going, ScanInv, OneHelper
  <2>2. /\ UNCHANGED <<helper, reader, lineq, todo, pc, mode, enabled>>
        /\ Printed' = Printed /\ Held' = Held
    BY <1>1 DEF scannerVars, Printed, Held
  <2>3. Coming(Refusals)' = Coming(Refusals)
    BY <2>2 DEF Coming
  <2>4. Enabling'
    BY <1>1, <2>2, <2>3 DEF GoingInv, Enabling
  <2>5. ~Going'
    BY <2>1, <2>2, ManagingIs DEF Going
  <2>6. QED BY <2>4, <2>5 DEF GoingInv, Scanning
<1>3. CASE running # 0
  <2> DEFINE S == {Completed("success")}
  <2>1. /\ Say(<<>>) /\ <<>> \in Seq(Lines)
        /\ Count(<<>>, Refusals) = 0 /\ Count(<<>>, News) = 0 /\ Count(events, S) \in Nat
    <3>1. running \in Helpers
      BY <1>3 DEF ScanInv, Types, ScanTypeOK, Helpers
    <3>2. Say(<<>>)
      BY <1>1, <3>1, SayNothing DEF ScanInv
    <3>3. QED BY <3>2, Kinds, AsItWas
  <2>2. Count(events', S) = Count(events, S)
    <3>1. ASSUME NEW e \in Event, Tell(<<e>>), e.ev # "complete"
          PROVE  Count(events', S) = Count(events, S)
      <4>1. e \notin S
        BY <3>1 DEF Completed
      <4> HIDE DEF S
      <4>2. <<e>> \in Seq(Event) /\ Count(<<e>>, S) = 0
        BY <4>1, EventKinds
      <4>3. QED BY <1>3, <3>1, <4>2, TellCounts
    <3>2. CASE DiscoveryEnds \/ OtherStarts
      BY <3>1, <3>2, Codings DEF DiscoveryEnds, OtherStarts, Discovering
    <3>3. CASE OtherDisables
      BY <3>3 DEF OtherDisables
    <3>4. ASSUME NEW d \in Device, Advertises(d)
          PROVE  Count(events', S) = Count(events, S)
      <4>1. CASE Tell(<<>>)
        <5> HIDE DEF S
        <5>1. <<>> \in Seq(Event) /\ Count(<<>>, S) = 0
          BY EventKinds
        <5>2. QED BY <1>3, <4>1, <5>1, TellCounts
      <4>2. CASE Tell(<<DeviceFound(d)>>)
        BY <3>1, <4>2, Codings DEF DeviceFound
      <4>3. QED BY <3>4, <4>1, <4>2 DEF Advertises
    <3>5. QED BY <3>2, <3>3, <3>4 DEF Air
  <2>3. (mode = "scan" => mgmt_master) /\ Finds(events, conn_state, discovery, monitors, radio)
          => Finds(events', conn_state', discovery', monitors', radio')
    BY <1>3, AirFinds
  <2>4. Count(events', S) + Count(<<>>, News) = Count(events, S)
    BY <2>1, <2>2
  <2>5. Gives(<<>>)
    BY <1>1, <1>3, <2>1, <2>3, <2>4, GoingOnGives
  <2>6. QED BY <2>5, Giving
<1>4. QED BY <1>2, <1>3

LEMMA HelperGoes ==
  ASSUME ScanInv, ScanInv', GoingInv, UNCHANGED scannerVars, Helping \/ Kernel
  PROVE  GoingInv'
<1>1. CASE Helping
  BY <1>1, CmdMgmtGoes, CmdPasvGoes, CmdPasvEndGoes, CmdQuitGoes, MgmtEventGoes, HciMonitorGoes
  DEF Helping, PromptRead
<1>2. CASE Kernel
  BY <1>2, KernelDoesGoes, AirGoes DEF Kernel
<1>3. QED BY <1>1, <1>2

-----------------------------------------------------------------------------
(* It goes on while the threads and the program do something.               *)

LEMMA ReadToQueueGoes ==
  ASSUME ScanInv, ScanInv', GoingInv, NEW h \in Helpers, ReadToQueue(h), apart'
  PROVE  GoingInv'
<1>1. /\ UNCHANGED <<helper, started, todo, pc, mode, late, scanned, starts, last, enabled>>
      /\ UNCHANGED <<stdin, running, mgmt_master, conn_state, requests, events, monitors, discovery, radio>>
  BY DEF ReadToQueue
<1>2. helper # 0 => \A S : Coming(S)' = Coming(S)
  BY ReadMoves DEF Moves, Coming
<1>3. helper # 0 => Good' = Good
  BY <1>1, <1>2, Counts, CountsNext DEF Counted
<1>4. Enabling'
  BY <1>1, <1>2 DEF GoingInv, Enabling
<1>5. Going' => Going
  BY <1>1, <1>3 DEF Going
<1>6. helper # 0 => Coming(Discs)' = Coming(Discs)
  BY <1>2
<1>7. Finds(events, conn_state, discovery, monitors, radio)
        => Finds(events, conn_state, discovery, monitors, radio)'
  BY <1>1 DEF Finds, Discovers, Hears
<1>8. Scanning'
  BY <1>1, <1>5, <1>6, <1>7 DEF GoingInv, Scanning, Going
<1>9. QED BY <1>4, <1>8 DEF GoingInv

\* The program takes at most a line, and scans on only as it did.
Follows ==
  /\ UNCHANGED <<helper, reader, stdout, mgmt_master, conn_state, events, monitors, discovery, radio>>
  /\ lineq' = lineq \/ (lineq # <<>> /\ lineq' = Tail(lineq))
  /\ pc' \in {"le", "first", "ended", "gone", "again"} => ~enabled'
  /\ enabled' /\ helper # 0 /\ pc' # "quit" /\ ~(pc' = "enter" /\ Starts(todo')) /\ mode' = "scan"
       => mgmt_master
  /\ Going' => Going /\ mode' = mode /\ (lineq' = lineq \/ Head(lineq) \notin Discs)

LEMMA Following ==
  ASSUME ScanInv, ScanInv', GoingInv, Follows
  PROVE  GoingInv'
<1>1. UNCHANGED <<helper, reader, stdout, mgmt_master, conn_state, events, monitors, discovery, radio>>
  BY DEF Follows
<1>2. Printed' = Printed /\ Held' = Held
  BY <1>1 DEF Printed, Held
<1>3. ASSUME NEW S
      PROVE  /\ Coming(S) \in Nat /\ Coming(S)' \in Nat /\ Coming(S)' <= Coming(S)
             /\ lineq' = lineq \/ Head(lineq) \notin S => Coming(S)' = Coming(S)
  <2>1. /\ Count(Printed, S) \in Nat /\ Count(Held, S) \in Nat /\ Count(lineq, S) \in Nat
        /\ Count(lineq', S) \in Nat /\ lineq \in Seq(Lines)
    BY Counts, CountsNext DEF Counted
  <2>2. /\ Count(lineq', S) <= Count(lineq, S)
        /\ lineq' = lineq \/ Head(lineq) \notin S => Count(lineq', S) = Count(lineq, S)
    <3>1. CASE lineq' = lineq
      BY <2>1, <3>1
    <3>2. CASE lineq # <<>> /\ lineq' = Tail(lineq)
      <4>1. Count(lineq, S) = Count(Tail(lineq), S) + (IF Head(lineq) \in S THEN 1 ELSE 0)
        BY <2>1, <3>2, CountTail
      <4>2. CASE Head(lineq) \in S
        <5>1. Count(lineq, S) = Count(lineq', S) + 1
          BY <3>2, <4>1, <4>2
        <5>2. lineq' # lineq
          BY <2>1, <5>1
        <5>3. QED BY <2>1, <4>2, <5>1, <5>2
      <4>3. CASE Head(lineq) \notin S
        <5>1. Count(lineq, S) = Count(lineq', S) + 0
          BY <3>2, <4>1, <4>3
        <5>2. QED BY <2>1, <5>1
      <4>4. QED BY <4>2, <4>3
    <3>3. QED BY <3>1, <3>2 DEF Follows
  <2>3. Coming(S) \in Nat /\ Coming(S)' \in Nat
    BY Counts, CountsNext DEF Counted
  <2>4. /\ Coming(S) = Count(Printed, S) + Count(Held, S) + Count(lineq, S)
        /\ Coming(S)' = Count(Printed, S) + Count(Held, S) + Count(lineq', S)
    BY <1>2 DEF Coming
  <2>5. QED BY <2>1, <2>2, <2>3, <2>4
<1>4. Enabling'
  <2>1. mgmt_master /\ helper # 0 => Coming(Refusals)' = 0
    <3>1. mgmt_master /\ helper # 0 => Coming(Refusals) = 0
      BY DEF GoingInv, Enabling
    <3>2. Coming(Refusals)' \in Nat /\ Coming(Refusals)' <= Coming(Refusals)
      BY <1>3
    <3>3. QED BY <3>1, <3>2
  <2>2. QED BY <1>1, <2>1 DEF Follows, Enabling
<1>5. Going' => Coming(Discs)' = Coming(Discs)
  BY <1>3 DEF Follows
<1>6. mode' = mode => (Finds(events, conn_state, discovery, monitors, radio)
                         => Finds(events, conn_state, discovery, monitors, radio)')
  BY <1>1 DEF Finds, Discovers, Hears
<1>7. Scanning'
  BY <1>1, <1>5, <1>6 DEF Follows, GoingInv, Scanning
<1>8. QED BY <1>4, <1>7 DEF GoingInv

LEMMA CallGoes ==
  ASSUME ScanInv, ScanInv', GoingInv, NEW call \in Calls, NEW m \in Modes, Call(call, m)
  PROVE  GoingInv'
<1>1. /\ pc = "idle" /\ todo' = call /\ pc' = "enter" /\ UNCHANGED helperVars
      /\ UNCHANGED <<helper, reader, lineq, enabled>>
      /\ ~Starts(call) => mode' = mode
  BY DEF Call
<1>2. Going' => Going /\ mode' = mode
  BY <1>1 DEF Going
<1>3. enabled' /\ helper # 0 /\ ~(pc' = "enter" /\ Starts(todo')) /\ mode' = "scan" => mgmt_master
  BY <1>1 DEF GoingInv, Enabling
<1>4. Follows
  BY <1>1, <1>2, <1>3 DEF Follows, helperVars
<1>5. QED BY <1>4, Following

\* what the program finds when it goes on from one of its methods
LEMMA Unhurried ==
  ASSUME GoingInv, helper # 0, pc \in {"enter", "process"}, ~(pc = "enter" /\ Starts(todo))
  PROVE  /\ enabled => Going
         /\ enabled /\ mode = "scan" => mgmt_master
BY DEF GoingInv, Enabling, Going

LEMMA ClearGoes ==
  ASSUME ScanInv, ScanInv', GoingInv, Clear
  PROVE  GoingInv'
<1>1. /\ pc = "enter" /\ Head(todo) = "clear" /\ Return /\ UNCHANGED helperVars
      /\ UNCHANGED <<helper, reader, lineq, mode, enabled>>
  BY DEF Clear, Entered
<1>2. /\ pc' \in {"idle", "enter"}
      /\ Starts(todo) => pc' = "enter" /\ Starts(todo')
  BY <1>1, Returns DEF ScanInv, Waiting, Fits
<1>3. Going' => Going
  BY <1>1, <1>2 DEF Going
<1>4. Follows
  BY <1>1, <1>2, <1>3, Unhurried DEF Follows, helperVars
<1>5. QED BY <1>4, Following

LEMMA NotAStart ==
  ASSUME ScanInv, pc = "enter", Head(todo) \in {"process", "stop"}
  PROVE  ~Starts(todo)
BY RestIs DEF ScanInv, Types, Waiting, Fits

LEMMA EnterProcessGoes ==
  ASSUME ScanInv, ScanInv', GoingInv, EnterProcess
  PROVE  GoingInv'
<1>1. /\ pc = "enter" /\ Head(todo) = "process" /\ UNCHANGED helperVars
      /\ UNCHANGED <<helper, reader, lineq, mode, enabled>>
      /\ IF helper = 0 THEN pc' = "idle" ELSE pc' = "process"
  BY DEF EnterProcess, Entered, Raise
<1>2. ~Starts(todo)
  BY <1>1, NotAStart
<1>3. Going' => Going
  BY <1>1, <1>2, Unhurried DEF Going
<1>4. Follows
  BY <1>1, <1>2, <1>3, Unhurried DEF Follows, helperVars
<1>5. QED BY <1>4, Following

LEMMA EnterStopGoes ==
  ASSUME ScanInv, ScanInv', GoingInv, EnterStop
  PROVE  GoingInv'
<1>1. /\ pc = "enter" /\ Head(todo) = "stop"
      /\ UNCHANGED <<helper, reader, lineq, mode, enabled>>
      /\ UNCHANGED <<stdout, running, mgmt_master, conn_state, requests, events, monitors, discovery, radio>>
      /\ IF helper = 0 THEN pc' = "idle" ELSE pc' = "stop"
  BY DEF EnterStop, Entered, Raise, Command
<1>2. ~Starts(todo)
  BY <1>1, NotAStart
<1>3. ~Going'
  BY <1>1 DEF Going
<1>4. Follows
  BY <1>1, <1>2, <1>3, Unhurried DEF Follows
<1>5. QED BY <1>4, Following

LEMMA EnterStartGoes ==
  ASSUME ScanInv, ScanInv', GoingInv, EnterStart
  PROVE  GoingInv'
<1>1. pc' = "le" /\ ~enabled'
  BY DEF EnterStart
<1>2. ~Going'
  BY <1>1 DEF Going
<1>3. CASE helper # 0
  <2>1. Follows
    BY <1>1, <1>2, <1>3 DEF EnterStart, Follows
  <2>2. QED BY <2>1, Following
<1>4. CASE helper = 0
  <2> DEFINE new == started + 1
  <2>1. new \in Helpers /\ new > started
    <3>1. helper' = new /\ helper' \in 0 .. MaxHelpers /\ helper' # 0
      BY <1>1, <1>4, ManagingIs DEF EnterStart, ScanInv, Types, ScanTypeOK, OneHelper
    <3>2. started \in Nat /\ MaxHelpers \in Nat
      BY ScanAssumption DEF ScanInv, Types
    <3>3. QED BY <3>1, <3>2 DEF Helpers
  <2>2. /\ helper' = new /\ lineq' = <<>> /\ UNCHANGED stdout
        /\ reader' = [reader EXCEPT ![new] = [at |-> "loop", from |-> 0, line |-> <<>>]]
    BY <1>4 DEF EnterStart, Start, NewQueue
  <2>3. stdout[new] = <<>> /\ reader \in [Helpers -> Reader]
    BY <2>1 DEF ScanInv, OneHelper, Types
  <2> HIDE DEF new
  <2>4. reader'[new].line = <<>>
    BY <2>1, <2>2, <2>3
  <2>5. Printed' = <<>> /\ Held' = <<>>
    BY <2>2, <2>3, <2>4 DEF Printed, Held
  <2>6. Coming(Refusals)' = 0
    BY <2>2, <2>5, CountEmpty DEF Coming
  <2>7. QED BY <1>1, <1>2, <2>6 DEF GoingInv, Enabling, Scanning
<1>5. QED BY <1>3, <1>4

LEMMA ClockGoes ==
  ASSUME ScanInv, ScanInv', GoingInv, Clock
  PROVE  GoingInv'
<1>1. /\ UNCHANGED <<helper, reader, lineq, mode, enabled>> /\ UNCHANGED helperVars
      /\ \/ pc = "process" /\ Return
         \/ pc = "restart" /\ UNCHANGED <<todo, pc>>
  BY DEF Clock
<1>2. pc' \in {"idle", "enter", "restart"}
  BY <1>1 DEF Return
<1>3. Going' => Going
  <2>1. Good' = Good
    BY <1>1 DEF Good, Printed, Held, helperVars
  <2>2. QED BY <1>1, <2>1 DEF Going, Return
<1>4. Follows
  BY <1>1, <1>2, <1>3 DEF GoingInv, Enabling, Follows, helperVars
<1>5. QED BY <1>4, Following

LEMMA WaitExitGoes ==
  ASSUME ScanInv, ScanInv', GoingInv, WaitExit
  PROVE  GoingInv'
<1>1. helper' = 0 /\ pc' \in {"idle", "enter"}
  BY DEF WaitExit, Return, Raise
<1>2. QED BY <1>1 DEF GoingInv, Enabling, Scanning, Going

LEMMA GoodRead ==
  ASSUME ScanInv, lineq # <<>>, Head(lineq) = Line("mgmt", "success")
  PROVE  Good > 0
<1> DEFINE line == Head(lineq)
<1>1. line \in News
  BY DEF News
<1> HIDE DEF line
<1>2. lineq \in Seq(Lines) /\ Tail(lineq) \in Seq(Lines)
  BY AccountTypes
<1>3. Count(lineq, News) = Count(Tail(lineq), News) + 1 /\ Count(Tail(lineq), News) \in Nat
  <2>1. Count(lineq, News) = Count(Tail(lineq), News) + (IF line \in News THEN 1 ELSE 0)
    BY <1>2, CountTail DEF line
  <2>2. Count(Tail(lineq), News) \in Nat
    BY <1>2, CountType
  <2>3. QED BY <1>1, <2>1, <2>2
<1>4. /\ Count(Printed, News) \in Nat /\ Count(Held, News) \in Nat
      /\ Count(events, {Completed("success")}) \in Nat
  BY Counts DEF Counted
<1>5. QED BY <1>3, <1>4 DEF Good, News

\* A program that scans on does not read that there is no management.
LEMMA NotRefused ==
  ASSUME ScanInv, GoingInv, lineq # <<>>, Head(lineq).rsp = "err", enabled,
         pc \in Managing \cup {"gone", "process"}
  PROVE  FALSE
<1> DEFINE line == Head(lineq)
<1>1. line \in Lines /\ lineq \in Seq(Lines) /\ Tail(lineq) \in Seq(Lines)
  BY AccountTypes
<1>2. line \in Answers /\ line \in Refusals /\ line \in Foul
  <2>1. line = Line("err", "nomgmt")
    BY <1>1 DEF Lines, Line
  <2>2. QED BY <2>1, Codings DEF Refusals, Foul, Line
<1> HIDE DEF line
<1>3. helper # 0
  BY ManagingIs DEF ScanInv, OneHelper
<1>4. pc \in Managing
  <2>1. SUFFICES ASSUME pc \notin Managing PROVE FALSE
    OBVIOUS
  <2>2. Count(lineq, Answers) = 0
    BY <1>3, <2>1, NothingOwed
  <2>3. Count(lineq, Answers) = Count(Tail(lineq), Answers) + (IF line \in Answers THEN 1 ELSE 0)
    BY <1>1, CountTail DEF line
  <2>4. Count(Tail(lineq), Answers) \in Nat
    BY <1>1, CountType
  <2>5. QED BY <1>2, <2>2, <2>3, <2>4
<1>5. pc # "le"
  BY DEF GoingInv, Enabling
<1>6. mode = "scan"
  BY <1>2, <1>4, <1>5, AtHandPure DEF line
<1>7. Coming(Refusals) = 0
  BY <1>3, <1>4, <1>6, ManagingIs DEF GoingInv, Enabling
<1>8. Count(lineq, Refusals) > 0
  <2>1. Count(lineq, Refusals) = Count(Tail(lineq), Refusals) + (IF line \in Refusals THEN 1 ELSE 0)
    BY <1>1, CountTail DEF line
  <2>2. Count(Tail(lineq), Refusals) \in Nat
    BY <1>1, CountType
  <2>3. QED BY <1>2, <2>1, <2>2
<1>9. Count(Printed, Refusals) \in Nat /\ Count(Held, Refusals) \in Nat /\ Count(lineq, Refusals) \in Nat
  BY Counts DEF Counted
<1>10. QED BY <1>7, <1>8, <1>9 DEF Coming

LEMMA TakeGoes ==
  ASSUME ScanInv, ScanInv', GoingInv, Take
  PROVE  GoingInv'
<1> DEFINE line == Head(lineq)
<1>1. /\ pc \in Managing \cup {"gone", "process"} /\ lineq # <<>> /\ lineq' = Tail(lineq)
      /\ UNCHANGED <<helper, reader, stdout, mgmt_master, conn_state, events, monitors, discovery, radio, mode>>
      /\ enabled' = (enabled \/ (pc \in {"first", "again"} /\ line = Line("mgmt", "success")))
      /\ line \in Lines /\ lineq \in Seq(Lines)
  BY AccountTypes DEF Take
<1>2. helper # 0 /\ pc \notin {"idle", "quit", "enter"} /\ Fits(pc, todo)
  BY <1>1, ManagingIs DEF ScanInv, OneHelper, Waiting
<1>3. pc \in {"le", "first", "ended", "gone", "again"} => ~enabled
  BY DEF GoingInv, Enabling
<1>4. line = Line("mgmt", "success") /\ pc \in {"first", "again", "restart"} => Going /\ line \notin Discs
  BY <1>1, <1>2, GoodRead DEF Going, Discs, Line
<1>5. enabled' /\ mode' = "scan" => mgmt_master
  <2>1. enabled /\ mode = "scan" => mgmt_master
    BY <1>2 DEF GoingInv, Enabling
  <2>2. Going /\ mode = "scan" => mgmt_master
    BY DEF GoingInv, Scanning
  <2>3. QED BY <1>1, <1>4, <2>1, <2>2
<1>6. pc = "process" /\ enabled => Going
  BY <1>2 DEF Going
<1> DEFINE Goal == /\ pc' \in {"le", "first", "ended", "gone", "again"} => ~enabled'
                   /\ Going' => Going /\ line \notin Discs
<1>7. SUFFICES Goal
  <2>1. Goal => Follows
    BY <1>1, <1>5 DEF Follows
  <2> HIDE DEF Goal
  <2>2. QED BY <2>1, Following
<1>8. ASSUME NEW at, at \in Managing, Command(at), at \in {"first", "ended", "again"} => ~enabled',
             at # "le"
      PROVE  Goal
  <2>1. pc' = at /\ stdin' # <<>>
    <3>1. stdin \in Seq(Verbs)
      BY AsItWas
    <3>2. QED BY <1>8, <3>1 DEF Command, WriteCmd
  <2>2. Managing' = Managing
    BY DEF Managing, Awaited
  <2>3. Good' = 0
    BY <1>8, <2>1, <2>2, UnansweredNext DEF NoNews
  <2>4. QED BY <1>8, <2>1, <2>3, ManagingIs DEF Going
<1>9. ASSUME pc' \in {"idle", "enter", "process"}, Going \/ ~enabled', line \notin Discs \/ ~enabled'
      PROVE  Goal
  BY <1>9 DEF Going
<1>10. Return => pc' \in {"idle", "enter"}
  BY DEF Return
<1>11. \A how : /\ Raise(how) => pc' = "idle"
                /\ StopThen(how) => Goal
  BY DEF Raise, StopThen, Going
<1>12. line # Line("mgmt", "success") => (enabled' => enabled)
  BY <1>1
<1>13. pc \in Managing \/ line \notin Answers
  <2>1. SUFFICES ASSUME pc \notin Managing, line \in Answers PROVE FALSE
    OBVIOUS
  <2>2. Count(lineq, Answers) = 0
    BY <1>2, <2>1, NothingOwed
  <2>3. Count(lineq, Answers) = Count(Tail(lineq), Answers) + (IF line \in Answers THEN 1 ELSE 0)
    BY <1>1, CountTail
  <2>4. Count(Tail(lineq), Answers) \in Nat
    <3>1. Tail(lineq) \in Seq(Lines)
      BY <1>1
    <3>2. QED BY <3>1, CountType
  <2>5. QED BY <2>1, <2>2, <2>3, <2>4
<1>14. CASE ~Wants(line)
  <2>1. Unwanted(line)
    BY <1>14 DEF Take
  <2>2. CASE line = Line("stat", "disc")
    <3> DEFINE how == "disc"
    <3>1. StopThen(how)
      BY <2>1, <2>2 DEF Unwanted, Line
    <3> HIDE DEF how, Goal
    <3>2. QED BY <1>11, <3>1
  <2>3. CASE line # Line("stat", "disc") /\ line.rsp = "err"
    <3>1. pc' = "idle"
      BY <1>11, <2>1, <2>3 DEF Unwanted
    <3>2. ~enabled'
      <4>1. line # Line("mgmt", "success")
        BY <2>3 DEF Line
      <4>2. QED BY <1>1, <1>12, <2>3, <4>1, NotRefused
    <3>3. QED BY <1>9, <3>1, <3>2
  <2>4. CASE line.rsp = "mgmt"
    BY <1>1, <1>13, <1>14, <2>4, AnswersAre DEF Wants
  <2>5. CASE line # Line("stat", "disc") /\ line.rsp \notin {"err", "mgmt"}
    <3>1. UNCHANGED <<todo, pc>>
      BY <2>1, <2>5 DEF Unwanted
    <3>2. line \notin News /\ line \notin Discs
      BY <2>5 DEF News, Discs, Line
    <3>3. enabled' => enabled
      BY <1>12, <3>2 DEF News
    <3>4. Good' = Good
      <4>1. Count(lineq, News) = Count(lineq', News)
        <5>1. Count(lineq, News) = Count(Tail(lineq), News) + (IF line \in News THEN 1 ELSE 0)
          BY <1>1, CountTail
        <5>2. Count(Tail(lineq), News) \in Nat
          <6>1. Tail(lineq) \in Seq(Lines)
            BY <1>1
          <6>2. QED BY <6>1, CountType
        <5>3. QED BY <1>1, <3>2, <5>1, <5>2
      <4>2. Printed' = Printed /\ Held' = Held
        BY <1>1 DEF Printed, Held
      <4>3. QED BY <1>1, <4>1, <4>2 DEF Good, News
    <3>5. Going' => Going
      BY <1>1, <3>1, <3>3, <3>4 DEF Going
    <3>6. QED BY <1>3, <3>1, <3>2, <3>3, <3>5
  <2>6. QED BY <2>2, <2>3, <2>4, <2>5
<1>15. CASE Wants(line) /\ pc \in Managing
  <2>1. Answer(line.tag) /\ pc \notin {"gone", "process"}
    BY <1>15, ManagingIs DEF Take
  <2>2. line = Line("mgmt", line.tag) /\ line.tag \in Codes
    BY <1>1, <1>15, <2>1, AnswersAre DEF Wants
  <2>3. line.tag # "success" => (enabled' => enabled)
    BY <1>12 DEF Line
  <2>4. CASE line.tag = "success"
    <3>1. Succeeded /\ line = Line("mgmt", "success")
      BY <2>1, <2>2, <2>4 DEF Answer
    <3>2. CASE pc = "le"
      <4>1. ~enabled'
        BY <1>1, <1>3, <3>2
      <4> DEFINE at == "first"
      <4>2. Command(at) /\ at \in Managing /\ at # "le"
        BY <3>1, <3>2, ManagingIs DEF Succeeded
      <4> HIDE DEF at, Goal
      <4>3. QED BY <1>8, <4>1, <4>2
    <3>3. CASE pc \in {"first", "again"}
      BY <1>4, <1>9, <1>10, <3>1, <3>3 DEF Succeeded
    <3>4. CASE pc = "ended"
      <4>1. pc' = "gone" /\ ~enabled'
        BY <1>1, <1>3, <3>1, <3>4 DEF Succeeded
      <4>2. QED BY <4>1 DEF Going
    <3>5. CASE pc = "restart"
      BY <1>4, <1>9, <1>10, <3>1, <3>5 DEF Succeeded
    <3>6. CASE pc = "stop"
      BY <1>11, <3>1, <3>6 DEF Succeeded
    <3>7. QED BY <1>15, <3>2, <3>3, <3>4, <3>5, <3>6, ManagingIs
  <2>5. CASE line.tag = "busy" /\ pc = "first"
    <3> DEFINE at == "ended"
    <3>1. Command(at) /\ at \in Managing /\ at # "le" /\ ~enabled'
      BY <1>3, <2>1, <2>3, <2>5, ManagingIs DEF Answer
    <3> HIDE DEF at, Goal
    <3>2. QED BY <1>8, <3>1
  <2>6. CASE line.tag # "success" /\ pc # "first"
    BY <1>11, <2>1, <2>6 DEF Answer
  <2>7. CASE line.tag \notin {"success", "busy"} /\ pc = "first"
    <3>1. Return /\ ~enabled'
      BY <1>3, <2>1, <2>3, <2>7 DEF Answer
    <3>2. QED BY <1>9, <1>10, <3>1
  <2>8. QED BY <2>4, <2>5, <2>6, <2>7
<1>16. CASE Wants(line) /\ pc = "gone"
  <2>1. (Command("again") \/ Raise("assert")) /\ ~enabled'
    BY <1>1, <1>3, <1>16, ManagingIs DEF Take
  <2>2. CASE Command("again")
    <3> DEFINE at == "again"
    <3>1. Command(at) /\ at \in Managing /\ at # "le"
      BY <2>2, ManagingIs
    <3> HIDE DEF at, Goal
    <3>2. QED BY <1>8, <2>1, <3>1
  <2>3. CASE Raise("assert")
    BY <1>9, <1>11, <2>1, <2>3
  <2>4. QED BY <2>1, <2>2, <2>3
<1>17. CASE Wants(line) /\ pc = "process"
  <2>1. Process(line) /\ (enabled' => enabled)
    BY <1>1, <1>17, ManagingIs DEF Take
  <2>2. CASE line.rsp = "stat" /\ line.tag = "disc"
    <3> DEFINE at == "restart"
    <3>1. Command(at) /\ at \in Managing /\ at \notin {"le", "first", "ended", "again"}
      BY <2>1, <2>2, ManagingIs DEF Process, Restart
    <3> HIDE DEF at, Goal
    <3>2. QED BY <1>8, <3>1
  <2>3. CASE ~(line.rsp = "stat" /\ line.tag = "disc")
    <3>1. pc' \in {"idle", "enter", "process"}
      BY <1>10, <1>11, <2>1, <2>3 DEF Process, NextRound
    <3>2. line \notin Discs
      BY <2>3 DEF Discs, Line
    <3>3. QED BY <1>6, <1>9, <1>17, <2>1, <3>1, <3>2
  <2>4. QED BY <2>2, <2>3
<1>18. QED BY <1>1, <1>14, <1>15, <1>16, <1>17

LEMMA InitGoingInv == ScannerInit => GoingInv
BY DEF ScannerInit, GoingInv, Enabling, Scanning, Going

LEMMA NextGoingInv ==
  ASSUME apart', ScanInv, ScanInv', GoingInv, [ScanNext]_scanVars
  PROVE  GoingInv'
<1>1. CASE Application
  BY <1>1, CallGoes DEF Application
<1>2. CASE Method
  BY <1>2, EnterStartGoes, EnterProcessGoes, EnterStopGoes, ClearGoes, TakeGoes, WaitExitGoes
  DEF Method
<1>3. CASE Clock
  BY <1>3, ClockGoes
<1>4. ASSUME NEW h \in Helpers, ReadToQueue(h)
      PROVE  GoingInv'
  BY <1>4, ReadToQueueGoes
<1>5. CASE (Helping \/ Kernel) /\ UNCHANGED scannerVars
  BY <1>5, HelperGoes
<1>6. CASE UNCHANGED scanVars
  <2>1. /\ UNCHANGED <<helper, reader, stdout, mgmt_master, conn_state, events, monitors, discovery, radio>>
        /\ UNCHANGED <<lineq, pc, todo, mode, enabled>>
    BY <1>6 DEF scanVars, scannerVars, helperVars
  <2>2. Going' => Going
    BY <2>1 DEF Going, Good, Printed, Held
  <2>3. Follows
    BY <2>1, <2>2 DEF GoingInv, Enabling, Follows
  <2>4. QED BY <2>3, Following
<1>7. QED BY <1>1, <1>2, <1>3, <1>4, <1>5, <1>6 DEF ScanNext

-----------------------------------------------------------------------------
(* The theorems.                                                            *)

LEMMA InitScanInv == ScannerInit => ScanInv
<1> SUFFICES ASSUME ScannerInit PROVE ScanInv
  OBVIOUS
<1> USE DEF ScannerInit, ScanHelperInit
<1>1. Types
  <2>1. Over \in Reader
    BY DEF Over, Reader
  <2>2. reader \in [Helpers -> Reader] /\ \A h \in Helpers : reader[h] = Over
    BY <2>1
  <2>3. \A h \in Helpers : reader[h].line \in Seq(Lines)
    BY <2>1, <2>2 DEF Reader
  <2>4. ScanTypeOK
    BY <2>3, ScanAssumption DEF ScanTypeOK
  <2>5. 0 \in 0 .. MaxHelpers
    BY ScanAssumption
  <2>6. /\ requests \in Seq({"le", "scan", "scanend"}) /\ events \in Seq(Event)
        /\ monitors \in Seq(Seq(Packets))
    OBVIOUS
  <2>7. /\ started \in 0 .. MaxHelpers /\ mode \in {"scan", "pasv"} /\ mgmt_master \in BOOLEAN
        /\ todo \in Rest /\ pc \in Managing \cup {"idle", "enter", "gone", "process", "quit"}
    BY <2>5 DEF Rest
  <2>8. starts \in Nat /\ started <= starts
    OBVIOUS
  <2> HIDE DEF ScannerInit, ScanHelperInit
  <2>9. QED BY <2>2, <2>4, <2>6, <2>7, <2>8 DEF Types
<1>2. OneHelper
  BY ManagingIs DEF OneHelper, Over
<1>3. Commanded /\ Waiting
  BY ManagingIs DEF Commanded, Waiting, Fits
<1>4. OneOwed
  BY <1>1 DEF OneOwed, Types
<1>5. Ending
  BY DEF Ending, StopsScan, NoCall
<1>6. Pure /\ Listening
  BY ManagingIs DEF Pure, Passively, Listening, StartedOnce
<1>7. QED BY <1>1, <1>2, <1>3, <1>4, <1>5, <1>6 DEF ScanInv

LEMMA NextScanInv ==
  ASSUME apart', ScanInv, [ScanNext]_scanVars
  PROVE  ScanInv'
<1>1. CASE Application
  BY <1>1, CallKeeps DEF Application
<1>2. CASE Method
  BY <1>2, EnterStartKeeps, EnterProcessKeeps, EnterStopKeeps, ClearKeeps, TakeKeeps, WaitExitKeeps
  DEF Method
<1>3. CASE Clock
  BY <1>3, ClockKeeps
<1>4. ASSUME NEW h \in Helpers, ReadToQueue(h)
      PROVE  ScanInv'
  BY <1>4, ReadToQueueKeeps
<1>5. CASE (Helping \/ Kernel) /\ UNCHANGED scannerVars
  BY <1>5, HelperSteps
<1>6. CASE UNCHANGED scanVars
  BY <1>6, Dropping DEF scanVars, scannerVars
<1>7. QED BY <1>1, <1>2, <1>3, <1>4, <1>5, <1>6 DEF ScanNext

LEMMA ApartBefore == [ScanNext]_scanVars /\ apart' => apart
<1> SUFFICES ASSUME [ScanNext]_scanVars, apart' PROVE apart
  OBVIOUS
<1>1. CASE Application
  BY <1>1 DEF Application, Call
<1>2. CASE Method
  <2>1. UNCHANGED apart
    BY <1>2 DEF Method, EnterStart, EnterProcess, EnterStop, Clear, Take, WaitExit
  <2>2. QED BY <2>1
<1>3. CASE Clock
  BY <1>3 DEF Clock
<1>4. ASSUME NEW h \in Helpers, ReadToQueue(h) PROVE apart
  BY <1>4 DEF ReadToQueue
<1>5. CASE UNCHANGED scannerVars
  BY <1>5 DEF scannerVars
<1>6. QED BY <1>1, <1>2, <1>3, <1>4, <1>5 DEF ScanNext, scanVars

LEMMA ScanInvAlways == ScanSpec => [](apart => ScanInv)
<1>1. (apart => ScanInv) /\ [ScanNext]_scanVars => (apart => ScanInv)'
  BY NextScanInv, ApartBefore
<1>2. ScannerInit => (apart => ScanInv)
  BY InitScanInv
<1>3. QED BY <1>1, <1>2, PTL DEF ScanSpec

\* The answers on their way to a Scanner are those of the command it waits for: none is left
\* over for the next command (_waitResp, _mgmtCmd), whatever mode it scans in and however a
\* scan ends, fails or is started again, as long as no thread of an earlier helper has taken
\* part in the lines of a later one.
THEOREM OneAnswerOwedAlways == ScanSpec => []OneAnswerOwed
<1>1. (apart => ScanInv) => OneAnswerOwed
  BY DEF ScanInv, OneAnswerOwed
<1>2. QED BY <1>1, ScanInvAlways, PTL

\* When stop() has returned, the radio no longer scans for this program and its helper has
\* exited, whatever ended the scan before and whoever else uses the radio.
THEOREM StopStopsAlways == ScanSpec => []StopStops
<1>1. (apart => ScanInv) => StopStops
  BY DEF ScanInv, Ending, StopsScan, Stopped, StopStops
<1>2. QED BY <1>1, ScanInvAlways, PTL

\* A watch that is the only one of a helper started once does not say that the scan has
\* ended (hci_monitor_cb) while the radio still receives for it: an end that process() reads,
\* and answers by starting the scan again, is real.
THEOREM EndIsRealAlways == ScanSpec => EndIsReal
<1> DEFINE Premature ==
      /\ apart
      /\ \E i \in DOMAIN monitors : HciMonitor(i)
      /\ pc = "process" /\ starts = started /\ Len(monitors) = 1
      /\ conn_state = "scan" /\ conn_state' = "disc"
<1>1. (apart => ScanInv) /\ [ScanNext]_scanVars => [Premature => radio # "us"]_scanVars
  <2>1. SUFFICES ASSUME ScanInv, Premature, radio = "us" PROVE FALSE
    OBVIOUS
  <2>2. PICK i \in DOMAIN monitors : HciMonitor(i)
    BY <2>1
  <2>3. i = 1 /\ Len(monitors) = 1 /\ monitors # <<>> /\ monitors[1] \in Seq(Packets)
    <3> DEFINE SP == Seq(Packets)
    <3>1. monitors \in Seq(SP) /\ Len(monitors) = 1
      BY <2>1, AsItWas
    <3> HIDE DEF SP
    <3>2. DOMAIN monitors = 1 .. 1 /\ monitors # <<>> /\ \A j \in 1 .. 1 : monitors[j] \in SP
      BY <3>1, SMTT(60)
    <3>3. i \in 1 .. 1 /\ 1 \in 1 .. 1 /\ i = 1
      BY <3>2
    <3>4. QED BY <3>1, <3>2, <3>3 DEF SP
  <2>4. EndsScan(Head(monitors[1])) /\ monitors[1] # <<>>
    BY <2>1, <2>2, <2>3 DEF HciMonitor
  <2>5. StartedOnce
    BY <2>1 DEF StartedOnce, ScanInv, OneHelper
  <2>6. \A k \in DOMAIN monitors[1] : ~EndsScan(monitors[1][k])
    BY <2>1, <2>3, <2>5, AtHand DEF Listens
  <2>7. 1 \in DOMAIN monitors[1] /\ monitors[1][1] = Head(monitors[1])
    BY <2>3, <2>4
  <2>8. QED BY <2>4, <2>6, <2>7
<1> HIDE DEF Premature
<1>2. ScanSpec => [][Premature => radio # "us"]_scanVars
  BY <1>1, ScanInvAlways, PTL DEF ScanSpec
<1>3. QED BY <1>2 DEF EndIsReal, Premature

\* While process() waits and nothing is left to read, devices are being looked for if start()
\* was told so: no end of a scan, by the kernel's time-out or by another program, is missed
\* (the restart in Scanner.process, scan_cb and hci_monitor_cb of the helper).
THEOREM KeepsScanningAlways == ScanSpec => []KeepsScanning
<1>1. (apart => ScanInv) /\ (apart => ScanInv)' /\ (apart => GoingInv) /\ [ScanNext]_scanVars
        => (apart => GoingInv)'
  BY NextGoingInv, ApartBefore
<1>2. (apart => ScanInv) /\ (apart => GoingInv) => KeepsScanning
  <2>1. SUFFICES ASSUME ScanInv, GoingInv, pc = "process", enabled, Quiet
                 PROVE  radio # "off" /\ conn_state = "scan"
    BY DEF KeepsScanning
  <2>2. helper # 0 /\ helper \in Helpers
    BY <2>1 DEF ScanInv, OneHelper, Types, ScanTypeOK, Helpers
  <2>3. Going
    BY <2>1, <2>2 DEF Going
  <2>4. Printed = <<>> /\ Held = <<>> /\ lineq = <<>>
    BY <2>1, <2>2 DEF Quiet, Printed, Held
  <2>5. Coming(Discs) = 0
    BY <2>4, CountEmpty DEF Coming
  <2>6. Finds(events, conn_state, discovery, monitors, radio)
    BY <2>1, <2>3, <2>5 DEF GoingInv, Scanning
  <2>7. /\ \A e : ~In(e, events)
        /\ ~\E i \in DOMAIN monitors : \E k \in DOMAIN monitors[i] : EndsScan(monitors[i][k])
    BY <2>1 DEF Quiet, In
  <2>8. QED BY <2>6, <2>7 DEF Finds, Discovers, Hears
<1>3. ScannerInit => (apart => GoingInv)
  BY InitGoingInv
<1>4. QED BY <1>1, <1>2, <1>3, ScanInvAlways, PTL DEF ScanSpec
=============================================================================
