# bluepy: a verification project

bluepy drives Bluetooth Low Energy peripherals from Python. A Python module
(`src/bluepy/btle.py`) starts one helper process per device
(`src/bluepy/bluepy-helper.c`, linked with parts of BlueZ 5.47) and talks to it
over two pipes. The helper holds the connection: an L2CAP socket, an ATT bearer
with queues of requests over it, and a socket of the kernel's management
interface. This directory holds TLA+ modules of those parts, TLC configurations
that check them on small instances, and proofs that TLAPS checks.

1. The system: its components, and what is hard in them
2. The modules
3. The runs, their bounds and the fairness assumed
4. The proofs
5. What the code does that one may not expect
6. What is not modelled, and what is left to do

## 1. The system

    application thread     reader thread            bluepy-helper (one GLib loop)
    ------------------     -------------            ----------------------------
    Peripheral methods                              prompt_read -> cmd_*
      _writeCmd  ---------------- stdin pipe ---->    gatt_* requests  --> ATT bearer --> peripheral
      _waitResp <-- _lineq <-- _readToQueue <-- stdout pipe -- resp_*  <-- callbacks  <--
      delegate.handleNotification (inside _waitResp's caller)          mgmt socket <--> kernel

| component | state | operations | calls and is called by | what makes it correct |
|---|---|---|---|---|
| Peripheral, BluepyHelper (`btle.py`) | `_helper`, `_lineq`, `_mtu`, `delegate`, what was found of services, characteristics, descriptors | connect, disconnect, getState, discovery, reads, writes, setMTU, setSecurityLevel, pair, OOB, waitForNotifications | writes commands, reads lines; calls the delegate from inside any call | a call returns the answer to its own command; it ends; after the device is gone the helper is stopped; `_mtu` is the helper's; what is remembered is of the device |
| Reader thread (`_readToQueue`) | none: reads `_helper` and `_lineq` of the object | one line from the pipe to the queue | runs against the application thread without a lock | every line of a process reaches that process's queue, once, in order |
| bluepy-helper | `conn_state`, `opt_dst`, `opt_mtu`, `iochannel`, `attrib`, `mgmt_master` | one handler per command, one callback per event | driven by stdin, sockets and timers, one dispatch at a time | state, socket and bearer agree; one answer per command; nothing of an earlier connection reaches a later one |
| GATT procedures (`attrib/gatt.c`, `attrib/att.c`) | one record per procedure | walks over handle ranges, long reads and writes | send requests, are called back with answers | a walk ends and misses nothing; a value is whole |
| ATT bearer (`attrib/gattrib.c`, `src/shared/att.c`) | three queues, pending requests, timers | send, receive, retry, cancel, time-out, disconnect | called by the procedures, calls them back | one request at a time, answers to the right one, every request ends |
| Lists and watches below them (`queue.c`, `io-glib.c`, `timeout-glib.c`) | linked lists, sources of the loop | add, remove, walk with callbacks, dispatch | used by all of the above | a callback that changes the list under the walk breaks nothing; what is handed over is destroyed once |
| L2CAP connection (`btio/btio.c`, `attrib/utils.c`) | sockets with options and watches | connect, listen, accept, set | `cmd_connect` / `connect_cb` | whoever waits is told once; unused sockets are closed |
| Management socket (`src/shared/mgmt.c`) | three queues of commands, registrations | send, reply, cancel, complete, events | `cmd_pair`, `cmd_scan` and the like | commands complete once, in order, with their own results |
| HCI library (`lib/hci.c`) | the filter of a raw socket | `hci_send_req` under every command; finding controllers | the passive scan | the filter is restored; the answer is to what was asked |
| Scanner, ScanEntry (`btle.py`), passive scan (helper) | `scanned`, helpers and their threads; HCI watches | start, process, stop, clear, scan | scan commands, `scan` lines | one answer owed at a time; a scan goes on until it is told to end, and then ends |
| Sensor libraries (`thingy52.py`, `sensortag.py`) | handles, masks, configurations | enable, disable, configure, notifications | sequences of calls of a Peripheral | the device does what was last asked |
| UUIDs (`lib/uuid.c`, `btle.py`) | none | conversions | everywhere | equal iff the same 128 bits |

### What is hard here

* **Order.** Lines come unasked for (notifications, the end of a link, a
  peer's MTU request) between a command and its answer, and nothing in a line
  says which command it answers: the client takes the next line of a type.
* **Time-outs.** A Python call that times out leaves its request under way.
  An ATT request that times out is destroyed without its callback; one that is
  sent again keeps the timer of its first transmission.
* **Re-entrancy.** The delegate runs inside the call that met the notification
  and may call the same object. Callbacks of the lists register and unregister
  in the list that is being walked; GLib destroys a replaced watch after its
  successor is in place.
* **Lifetimes.** A bearer is counted: a discovery or a read holds a reference,
  a write does not. A connection may end with requests pending, and the hang-up
  of its socket may be dispatched after the next connection began.
* **Shared state.** `conn_state` is also overwritten by every discovery on the
  host; the fd of a socket may be closed by two owners; one mask of bits
  switches three sensors.
* **Partial failure.** Procedures of many steps (long values, `enable()`,
  `configure`) may raise after any of them.
* **Death.** The helper may be killed, or abort in code that frees twice.

PROJECT.json lists each of these hazards at its line, with the properties that
cover it, or with the reason why none does: mostly that the code does go wrong
there, in a way section 5 describes and the properties leave out.

## 2. The modules

### A connection: Python, the helper, and both

| module | models | state and actions |
|---|---|---|
| `Wire` | the two pipes and the life of the process | `stdin`, `stdout`: lines as records; `eof`, `proc`; the constructors `Cmd`, `Stat`, `Err`, `Mgmt`, `Data` are the helper's `resp_*` |
| `Helper` | `bluepy-helper.c` and what it uses of gatt.c, att.c, gattrib.c, mgmt.c, btio.c | the globals under their own names; `link`, `peer`: the sockets; `over`, `ops`, `orphan`: the bearers; one action per command handler (`CmdConnect`, `CmdMtu`, ...) and per callback (`ConnectCbOk`, `ChannelWatcher`, `AttTimeout`, ...) |
| `HelperOpen` | `Helper` under any client: whoever holds the pipes writes any command at any time | `Send`, `Close`, `Spawn`; the helper's own properties |
| `Client` | the connection side of `btle.py`: the command methods, `_waitResp`, `_getResp`, `_startHelper`, `_stopHelper` | `stack` of calls with a program counter each; `helper_up`, `lineq`, `mtu`, `delegate`; one action per call and per step of `_waitResp` |
| `Session` | `Client` and `Helper` joined by `Wire` | `ClientStep`, `Helping`, `Killed`; the properties a program relies on; fairness |

* One action of `Helper` is one dispatch of the GLib loop: a handler or callback
  with everything it calls. Where GLib fixes an order it is a guard: stdin's
  hang-up is tested before its lines (`PromptRead`, `PromptEof`),
  `channel_watcher` comes before the bearer's handler of the same hang-up
  (`FlushBearer`), what was ready in a turn is dispatched before a socket opened
  in that turn connects (`ConnectCbOk`).
* Sockets are numbered as they are opened; bearer *n* is the one `connect_cb`
  makes for socket *n*, and `over[n]` the socket it really sits on, because the
  code makes it over the global `iochannel`.
* `ops[b]` holds the requests of bearer *b* that have not ended. `Unref` and
  `Settle` are the reference count: an `orphan` is a bearer that `attrib` no
  longer names and a procedure still holds.
* A Python call is a frame on `stack`. `pc = "poll"` and `pc = "get"` are the
  two steps of `_waitResp` between which the world moves; `"cb"` is a delegate
  running; `"stop"` and `"wait"` are the two steps of `_stopHelper`.
* A line has two fields that the text has not: `re`, the command it answers, and
  the device a result came from. The actions never read `re`; the properties do.
  `last` is a ghost in `Client`: how the call that ended last ended.
* Payloads, handles and UUIDs are left out here; an argument is well formed or
  not, but for `mtu`, which is its number. Peripherals send well-formed PDUs.
  The double free of `add_remote_oob_data` and the bearer freed inside its own
  handler are undefined behaviour: the process survives or aborts.

### Below the helper

| module | models | state and actions |
|---|---|---|
| `AttBearer` | `struct bt_att` under its GAttrib, the handlers the helper registers, and the peripheral at the other end | the three queues, `pending_req`, `pending_ind`, `timers`, the write watch; one action per dispatch (`WriteQueued`, `HandleRsp`, `RetryRequest`, `Timeout`, ...) or call (`Send`, `Cancel`, `Free`); PDUs carry the number of the request they answer |
| `MgmtQueue` | `struct mgmt`: request, reply and pending queues, the write watch, the kernel | one action per call (`Send`, `Reply`, `Cancel`, `CancelIndex`) and dispatch (`WriteRequest`, `RequestComplete`, ...) |
| `Transactions` | the abstract channel both implement: transactions wait their turn, one is under way, a retried one keeps its turn, one that ended never comes back | |
| `NotifyList` | the registrations of mgmt.c, att.c and gattrib.c, told of an event by a loop whose callbacks change the list | `queue`: a list as the set of its registrations, numbered in the order they are pushed; `walk`: the loop with the entry it saved; `due`: who must be told |
| `Queue`, `DataQueue` | queue.c entry by entry, with walks that call out; the sequence it promises | `next`, `data`, `head`, `tail` as in the code |
| `Glib` | watches and timers of io-glib.c and timeout-glib.c over the main loop | `source`, `watch`, `io_ref` |
| `BtIo` | btio.c: options, connect, listen, accept, watches | `sock`: records of sockets |
| `HciCommands`, `HciRequest` | the commands of lib/hci.c and `hci_send_req` | `filter`, `inbox`, `controller`; one action per step of its loop |
| `HciDevices`, `HciNames`, `Uuid` | finding controllers, names of bits, UUIDs | operators, checked by assumptions against reference definitions |
| `AttPdu` | the encoders and decoders of attrib/att.c | operators on sequences of octets |
| `Discovery`, `LongValue`, `Gatt` | the walks over attributes and the long values of gatt.c, PDU by PDU, against a peer that cuts its answers as it likes | `walk`, `asked`, `db`; `proc`, `stored` |

### Above the connection

| module | models | state and actions |
|---|---|---|
| `ScanHelper`, `Scanner` | active and passive scans of the helper with the kernel and the air; class Scanner, its helpers and their reader threads | `discovery`, `radio`, `monitors`; `pc`, `lineq`, `reader`, `scanned` |
| `Attributes` | what a Peripheral, Service and Characteristic remember of a device | `mem`; one action per call, which may raise |
| `Thingy52`, `ThingyClasses`, `SensorTag`, `Peripherals` | the two sensor libraries on top of `Attributes`, and the three ways a program uses a Peripheral | `object`, `value`, `asked`; `held`, `wanted` |

### Compositions for TLC

`Parts` (management socket, HCI socket, btio, bearer), `Layers` (NotifyList,
Queue, Glib) and `Libraries` (Gatt and Peripherals) put modules that share no
variables side by side, so that one run checks each with its own properties; a
behaviour moves one of them only. The `MC*` modules give constants their values;
`Layers` and `Scanner` need none, and their runs name them directly.

## 3. The runs

| run | instance | what it shows |
|---|---|---|
| `MCHelperLink` | two devices, two sockets, four commands of `conn`, `disc`, a read, a write, `mtu` | `TypeOK`; `Sound`: state, socket, bearer and orphans agree, and `opt_mtu` is this connection's; `OnlyOfTheConnection`: results come from the device named last, none after its end; `EndsOnRequest`; `NothingVanishes`: no request is dropped in silence |
| `MCHelperAll` | commands of every handler, malformed or not, with and without the management socket, discovery by another program (`char` and `desc` stand behind `svcs`, `pairable` and `scanend` behind `le` and `scan`: the same handler code) | `AnsweredOnce`; `StateReported`: the last "stat" line is the state |
| `MCSessionCore` | a Python program, two devices, four commands, OOB calls, a helper killed at any step | `OwnAnswer`, `ConnectedToTheRightOne`, `DisconnectedIsStopped` |
| `MCSessionNested` | the delegate calls its own Peripheral | `MtuAgrees`: `_mtu` is the helper's whenever every line was looked at; `DisconnectedIsStopped` for calls inside calls |
| `MCSessionLive` | time-outs of connect too, fairness; no setSecurityLevel, no OOB calls, no killed helper, with which a call may wait for ever (section 5) | `CallsReturn`: every call ends |
| `MCWrongDevice` | `connect()` with a time-out | violates `ConnectedToTheRightOne`: a finding (section 5) |
| `MCBearer` | two requests or indications, two PDUs of the peripheral (requests, answers nobody asked for) | `OpsAccountedFor`: each operation in one place, with the watch or timer that gets it further; `BearerOwnAnswer`; `PeerServed`; `RequestsInTurn`: implements `Transactions` |
| `MCParts` | three management commands; two HCI requests among events of others, another program's answers to the same command included; two sockets; two bearer operations; fairness | `MgmtOwnAnswer`, `CommandsInTurn` (implements `Transactions`), `FilterRestored`, `AnswerIsOurs`, `SocketsKept`, `ToldOnce`, `RequestsEnd` |
| `MCLayers` | three registrations and two events, three entries, four sources | `EachHearsOnce`, `DestroyedOnce`, `QueueIsSequence` (implements `DataQueue`) |
| `MCLibraries` | handles 1, 2 and 0xffff, UUIDs of 2 and 16 octets, values of 4 and 8 octets at MTUs of 7 and 9; two plain peripherals, a Thingy:52, three SensorTags | `FindsEverything`, `CallsBackOnce`, `ValuesWhole`, `ProceduresEnd`, `RemembersTheDevice`, `ThingyNotifiesAsAsked`, `ThingyConfigured` (a byte no call was about keeps the device's own value), `TagAsAsked` |
| `MCScan` | two starts, active or passive, two helpers with their threads, a behaviour being followed until the thread of the first takes part in the lines of the second (`apart`) | `OneAnswerOwed`, `KeepsScanning`, `StopStops`, `EndIsReal` |
| `MCScanLive` | one start, fairness | `ScanCallsReturn` |

Each property of a passing run has a mutant in PROJECT.json: a plausible bug in
one definition with which TLC finds the property violated.

### Bounds

* `MaxCmds` (3 to 4) commands: connect, request, disconnect and one more, or
  connect, time out, connect and one more. Every property is about at most two
  commands and a connection on each side of one disconnection.
* `MaxChan` (1 in a session, else 2) sockets per helper: two are enough for the
  hang-up or the orphan of one connection to meet the next. A session of
  `btle.py` opens a second socket only in a second process, except after a
  failed or timed out attempt.
* `MaxEvents` (0 to 2) notifications, MTU requests of the peer and scan events.
* `Addr` has two devices where a property can confuse them. It is a symmetry
  set in `MCHelperLink`, opcodes are one in `MCBearer`, address types in
  `MCScan`; none of these runs has a liveness property.
* `MaxOps`, `MaxPeer` = 2, and at most two PDUs on the air (`MCAir`): one
  request pending, one that waits or was cancelled, and what crosses them.
* `MaxRequest` = 3 management commands: pending, waiting, and one behind.
* `MaxNote`, `MaxEntry` = 3: the entry a walk is at, the one it saved, and
  another. `MaxSource` = 4: three watches and one that replaces another.
* `Handles`: the ends of the range, where walks go wrong, and one between.
  `Lengths` 4 and 8 at MTUs of 7 and 9: a value in one, two and three parts.
* `MaxAsked`, `MaxCuts`: settings asked for, and calls that raise. `Ends`: the
  `hndEnd` a program gives to `getDescriptors`, one that cuts the two
  descriptors of a characteristic after the first, beside the default.
* `Mixing` = FALSE: nothing is explored once `apart` is FALSE, since the
  properties of scans say nothing from there on. Both threads may be alive
  before that, and what they do then is explored.
* Deadlock is not checked where counters of calls run out or a helper has ended:
  there the system rightly stops. `MCLibraries` checks it.

The theorems of section 4 hold for every value of these bounds.

### Fairness

* `Session`: weak fairness of the library's own steps, of the reader thread, and
  of each of the helper's sources: both threads and the loop run for ever. A
  connection attempt ends (the kernel gives up), a request is answered or its
  thirty-second timer fires (`att.c`), a management command completes. While the
  helper is inside `prompt_read` with half a line (`Stuck`), nothing is
  dispatched and nothing is assumed. Nothing obliges the application to call,
  the peripheral to speak or the link to break.
* `Scanner`: the same of the methods, the clock of `process()`, each reader
  thread, the helper's sources and the kernel's requests.
* `Parts`: the main loop dispatches what stays ready (`Writer`, `Reader`,
  `DisconnectCb`, `Dispatched`), timers run out, the kernel answers a command of
  the management socket and ends an attempt to connect, `read` and `poll`
  return. Actions of different parts are never enabled together, so that `Fair`
  states the fairness of all parts in four conjuncts.
* `Libraries`: a peer that was asked answers or the link breaks (the bearer's
  timer), and the answer is received.

## 4. The proofs

All theorems hold for every value of the constants, under the assumptions named
in the modules (`WireAssumption`, `HelperAssumption`, `OpenAssumption`,
`ClientAssumption`, `SessionAssumption`, `BearerAssumption`, `MgmtAssumption`,
`ScanAssumption`, `ScannerAssumption`, `NotifyAssumption`, `LayersAssumption`,
`PartsAssumption`, `MtuAssumption`), which give constants their types, and
`LibrariesAssumption`, which says what attributes a peripheral may have.

### The helper under any client

`Helper_proofs` has the types of every handler and callback, whoever is the
client; `HelperOpen_proofs` the theorems.

| theorem | states |
|---|---|
| `TypeCorrect`, `SoundAlways` | `TypeOK`, `Sound` |
| `ConnectedHasBearerAlways`, `NoLostLinkAlways` | consequences of `Sound` |
| `EndsOnRequestAlways` | `EndsOnRequest` |
| `OnlyOfTheConnectionAlways`, `StateReportedAlways`, `AnsweredOnceAlways`, `NothingVanishesAlways` | the properties of what is printed |

* `Sound` is the first inductive invariant. "In the connected state no pointer
  is NULL" is not inductive: `connect_cb` makes the bearer over the global
  `iochannel`, which must be the socket that called back (`OneSocket`); the
  hang-up of an earlier socket must not be the current one's; a bearer that
  outlived its connection must sit on a closed socket (`OldBearers`). All
  clauses hold only if no process of the host runs discovery, which overwrites
  `conn_state`; the clauses say so.
* `Speaks` ties the requests left, the open bearer and the attempt under way to
  the history of the output: each is of the device the last "stat conn" line
  named, or will name.
* `Once`: the places where a command waits are disjoint, hold it once, hold
  nothing that was answered, and stdin's numbers are above all of them.
* `StateReported` is inductive with "no process has printed before the first".
* `NothingVanishes` is a property of a step; its proof goes through every
  handler that shortens a queue, from `Sound`.

### A Python program and its helper

| theorem | states | for |
|---|---|---|
| `SessionTypeCorrect` | types, with every frame of a call | all constants |
| `DisconnectedIsStoppedAlways` | `DisconnectedIsStopped` | all constants: any calls, time-outs, nesting, killing |
| `OwnAnswerAlways` | `OwnAnswer` | programs that are `Plain` |
| `ConnectedToTheRightOneAlways` | `ConnectedToTheRightOne` | programs that are `Plain` |
| `MtuAgreesAlways` | `MtuAgrees` | programs that do not call setMTU; any others, with time-outs, nesting, killing |

`Plain` is an assumption about the program, not the code: it gives no time-out
but to waitForNotifications, does not call from the delegate, and leaves out the
calls that return before their answer or leave one behind (setMTU,
setSecurityLevel, pair, unpair, setRemoteOOB). Section 5 says what happens
outside of it; `MCWrongDevice` is one such run. The helper may be killed at any
point, and the peripheral, the link and the kernel do what they like.

The invariant `OwnInv` (`Session_proofs`): of a call in progress, where
what it asked for is (`InHand`: one command in stdin, or one request with the
peripheral or the kernel, or one answer on its way in the two queues), and how
far an attempt to connect has got (`Stage`), as long as the call may still take
a line (`Alive`); which frames of calls there are (`Frames`); that a helper that
is gone has nothing left (`Reset`); and that the last call to end was right
(`Right`).

`MtuAgrees` says something only when nothing is on its way. Its invariant
`MtuInv` says what holds before: while the process runs, whoever has read the
lines that are pending, in the library's queue and in the pipe, knows `opt_mtu`
(`Tells`: the last "stat" line among them has the number, or there is none and
`_mtu` has it already); a process that does not run has `opt_mtu` 0, and the
library never believes to be without a helper that runs. Every handler that
changes `opt_mtu` prints it in the same step, but `cmd_mtu`: it stores the
number the user gave before it checks it or the peripheral agrees, and prints an
error, or nothing, so that after a setMTU the two may differ for good. The
theorem leaves setMTU out for that reason, like the run.

### The bearer and the management socket

| theorem | states |
|---|---|
| `BearerTypeCorrect` | types; each queue holds operations of its own kinds, numbers and transmissions are bounded |
| `OpsAccountedForAlways` | `OpsAccountedFor` |
| `BearerOwnAnswerAlways`, `PeerServedAlways` | `BearerOwnAnswer`, `PeerServed` |
| `RequestsInTurnAlways` | `RequestsInTurn`: refinement of `Transactions`, step by step |
| `MgmtTypeCorrect`, `MgmtWriterAwakeAlways`, `MgmtOwnAnswerAlways` | types, wakeup_writer is never forgotten, `MgmtOwnAnswer` |
| `CommandsInTurnAlways` | `CommandsInTurn`: refinement of `Transactions` |

* The bearer's types need counting: every answer the helper queues uses a number
  above those of the operations, one for each PDU of the peripheral (`Room`).
* `Accounts` (with `Balanced`) keeps the books of `OpsAccountedFor`: a number is
  in as many places before a step as after it, but for those that begin or end.
  `Closed`, `Awake` and `Timed` are the queues of a dead bearer, the write watch
  and the timers.
* `Matched`: one call or answer at most is out, of the pending request.
  `InHand`: a request of the peripheral is unread, or its answer queued or on
  the way, by the sum of the three counts. Both hold until the peripheral breaks
  the protocol (`strayed`).
* `MgmtInv` are types and what each queue holds; `Alone` that the kernel has the
  pending command and no other, until one is cancelled while pending
  (`crossed`).

### A program's HCI socket

| theorem | states | for |
|---|---|---|
| `FilterRestoredAlways` | `FilterRestored` | all constants |
| `AnswerIsOursAlways` | `AnswerIsOurs` | all constants |

In `Parts_proofs`. `FilterRestored` is inductive. hci_send_req knows its answer
by the opcode alone. So `AnswerIsOurs` says of every function without an event
of its own that success came from an answer to the command it gave, and names
the only ways in which it may be the answer to another call: `loose` holds the
opcodes of which an earlier call gave up on its answer (`GiveUp`: the time-out,
a failed read, ten other events), and those of which another program's answer
has come to the socket. Nothing is assumed of the other programs, who may give
the same commands, nor of the air, but that codes of events begin with 1.

The invariant `Own` is about what is under way. As long as an opcode is not
loose (`Strict`), a command of it in the controller, or an answer to it in the
socket, is of the call that waits, and there is one of them in all (`MineOnly`);
and what is in the controller was given (`Known`). It rests on a lemma over all
commands of `lib/hci.c`: none has the opcode 0 or awaits a Command Status, a
Command Complete or an LE meta event as such (`EventsOfCommands`). Of the
functions that do await an event nothing is stated: any event of that number
ends them (section 5).

### The sockets of btio.c

| theorem | states | for |
|---|---|---|
| `ToldOnceAlways` | `ToldOnce` | all constants |
| `SocketsKeptAlways` | `SocketsKept` | all constants |

In `Parts_proofs`, for any number of sockets and any lists of options. In
`bt_io_set` the source type of the list, BR/EDR if it names none, chooses how
the MTU is set, whatever the socket is: the helper's only call gives an LE
socket a security level alone. `SocketsKept` says which options take effect on
which socket (`Effective`), that those were set if all was reported set
(`OptionsKept`), and of each socket that it is open as long as somebody refers
to it and the program has not closed it, and no longer (`ClosedWhenUnused`).

* `SockInv` speaks of one socket at a time: who was told of an attempt to
  connect is not waited for any more, a watch keeps its socket open, and as many
  user data were freed as watches were added, less those that stand.
* Options are set one after the other, up to the first that fails. `Kept` says
  which of the first `k` steps are in effect, `Effect` what one step does; they
  hold for the list of a type whatever the options are (`AppliedKeeps`), and at
  its end give that what was accepted is what was asked for (`Faithful`).
* Of a list with the same option twice the last counts: that `ParseSetOpts`
  yields values of their types for lists of any length (`ParseTypes`) is shown
  with the shortest prefix for which it would not.

### Lists, queues and watches

| theorem | states |
|---|---|
| `EachHearsOnceAlways` | `EachHearsOnce`, for `NotifyList` and (`HearsOnceAlways`) for `Layers` |
| `QueuePromiseAlways`, `QueueIsSequenceAlways` | queue.c implements `DataQueue`: alone, and as `QueueIsSequence` of `Layers` |
| `EndsOnceAlways`, `WatchesEndOnceAlways` | the parts of `DestroyedOnce` about registrations and about watches |
| `DestroyedOnceAlways` | `DestroyedOnce` |

In `Layers_proofs`, for any number of registrations, events, entries, data and
sources, and for callbacks that do what `MayCall` and `Careful` allow.

* `EndsInv`: a registration is on the list of its topic, in the sweep that will
  destroy it, or gone, and never twice. `HeardInv`: what is due during a walk is
  numbered above the entry the walk is at, and the entry it saved is the least
  that is left on the list (`Ahead`, `InOrder`). A callback that registers is
  told of the next event only, since `due` was fixed when the walk began.
* `GlibInv` is about one source at a time (`GlibOk`): its reference count is the
  number of those who hold it, the callback that runs among them.
* `QueueInv` says that three lists exist, `L0` to `L2`: that of the queue, and
  those that up to two loops of `queue_remove_all` took away before they call
  out. Each is linked by `next` and ends (`Linked`), they share no entry, and
  what is allocated is in one of them (`Heap`). Of loops it says that a walk is
  the outermost, is at an entry of `L0` or at NULL unless the queue is empty,
  and that the references are those of the walk and of whoever made the queue
  (`LoopsOk`).
* `From` is a recursive function over `next`. That it computes the list an entry
  begins (`FromLinked`) is shown without induction over data: the shortest list
  for which the two differ has a tail that is shorter, for which they do not
  (`NatMin`: a set of numbers has a least one, from the well-foundedness of
  subsets of finite sets).
* Every action is an insertion or a removal at a place of `L0` (`Inserts`,
  `Removes`), a loop that goes on, begins or ends (`LoopsGoOn`, `LoopsBegin`,
  `LoopsEnd`), or both; `Moves` is what this does to the sequence of data.

### Walks, and what a Peripheral remembers

| theorem | states | for |
|---|---|---|
| `CallsBackOnceAlways` | `CallsBackOnce` | any attributes, handles and answers of the peer |
| `RemembersTheDeviceAlways` | `RemembersTheDevice` | devices whose attributes are `WellFormed` |

In `Libraries_proofs`.

* `WalkInv`: a walk of gatt.c has requests out or has called back, and only a
  walk over included services has more than one out. Each callback is one of
  three: `Done` ends the walk, `AskOn` replaces the request that was answered by
  the next, `Settled` takes away one of several and adds those it learned of.
* `LibrariesAssumption` says what the attribute protocol says of a device:
  handles have sixteen bits, a declaration of a characteristic is followed by
  its value, no value is without one, and no descriptor has the UUID of a
  declaration. Nothing is assumed of how many services, characteristics or
  descriptors there are, or of their UUIDs.
* `Characteristic.getDescriptors(hndEnd=...)` keeps the list it found, and
  returns it to later calls whatever `hndEnd` they give. So `RemembersTheDevice`
  says of a characteristic: nothing is remembered, or exactly what belongs to it
  up to the `hndEnd` of some call (`Given`: those the program gives, and the
  default 0xffff); exactly all of it, for a program that gives none.
* `MemInv`: the memory has its types, and is of the device (`MemOk`) for each
  device that may be the only one met so far. `Keeps` says the same of a step,
  and holds for every method: with the answers of one device, what is filled in
  is of that device. The steps of `enable()` in the two libraries are sequences
  of such methods (`Sound`), whose first memory is that before the call.
* The methods select from lists with `Chosen`, whose elements (`ChosenIs`) and
  order (`ChosenInOrder`) are shown with the shortest prefix for which they
  would be others. `EndIs`: the range of a service has no other in it, so that a
  declaration and its value are on one side of its end (`AllOfService`).
  `OwnDescsAre`: what precedes the next declaration in the list of all
  descriptors from a value on is what belongs to the characteristic, since the
  next value has its declaration before it.

### A Scanner

| theorem | states | for |
|---|---|---|
| `OneAnswerOwedAlways` | `OneAnswerOwed` | all constants |
| `StopStopsAlways` | `StopStops` | all constants |
| `EndIsRealAlways` | `EndIsReal` | all constants |
| `KeepsScanningAlways` | `KeepsScanning` | all constants |

In `Scanner_proofs`. `_startHelper` does not wait for the thread of an earlier
helper, and `_readToQueue` looks up `self._helper` and `self._lineq` again for
each line: a thread that is late may read its successor's pipe, or put a line of
its own into its successor's queue (section 5). The model has such threads, and
helpers are started while they live. The ghost `apart` becomes FALSE when one of
them first reads or puts a line in the time of a later helper (`Mixes`), and the
properties hold until then; a late thread that only finds its pipe at an end
does no harm. No theorem says that this is rare.

The invariant `ScanInv`, which holds while `apart` (`ApartBefore`: what is apart
after a step was so before it):

* `OneHelper`: the helper started last is the only one that runs, its thread
  reads its lines, and no other thread does (`Reads`).
* `Commanded`: what is in stdin and among the management requests is the command
  waited for.
* `OneOwed`, which is `OneAnswerOwed` while `apart`, counts, from the command
  through requests, events, pipe and the thread's hand to the queue; lemmas
  about `Count` carry it from step to step.
* `Ending`: a success on its way to `stop()` (`Good`) means that the radio is no
  longer ours, and nothing begins a scan until the helper has exited,
  nor after it (`StopsScan`).
* `Pure`: in a passive scan the helper answers itself, so that neither "busy"
  nor "nomgmt" comes, and `start()` never takes the way through "ended".
* `Listening`: after a single start (`StartedOnce`) the last watch is that of
  the scan at hand, and has no "disable" to read while the radio is ours. A
  start more and this fails: the old watch hears the new scan's own reset.

`Serves`, `Tells`, `Proceeds` and `Moves` are the four forms a step can have
(the helper obeys; it, the kernel or the air do something nobody asked for; the
program goes on; a thread hands a line on). Each is shown once to keep
`ScanInv`, and each action to have one of them.

`KeepsScanning` needs a second invariant, `GoingInv`, which is shown to be kept
by steps between states that have the first. It says what is on its way to the
program that has not stopped scanning (`Going`: `start()` was told "success", or
that word is under way):

* `Enabling`: `start()` alone sets `enabled`; an active scan that was enabled
  has the management socket, and then no "nomgmt" is on its way, so that no
  method of a scan that goes on is left by that error.
* `Scanning`: unless a "disc" is on its way to `process()`, which will restart
  the scan, what was said is so, or the event that makes it so, or that ends it,
  is unread. For an active scan (`Discovers`) that event is a "discovering" of
  the kernel, for a passive one (`Hears`) a "disable" that some watch has yet to
  read.

When all is quiet, nothing is on its way and nothing is unread, and what is left
of `Scanning` is `KeepsScanning`.

### What stays with TLC

* Liveness under fairness (`CallsReturn`, `ScanCallsReturn`, `RequestsEnd`,
  `ProceduresEnd`) and ENABLED: tlapm has no rules for them here.
* Properties that rest on what a recursive definition computes for every input:
  the encoders of `AttPdu`, and so `FindsEverything` and `ValuesWhole`.
  Induction over data needs theorems with an operator as parameter, which the
  provers cannot instantiate. `Queue`'s `From`, `BtIo`'s `ParseSetOpts` and
  `Attributes`' `Chosen` are exceptions: least elements suffice for them.
* The others without a theorem: not attempted yet.
* What the assumptions `Plain` and `~Discovering` leave out is checked, where it
  holds, by the runs, and else described below, as is what follows in a scan
  once its threads are not `apart`.

## 5. What the code does that one may not expect

### Shown by a run

`MCWrongDevice`: a `connect()` that times out raises without stopping the helper
(btle.py:458), which goes on connecting; the next `connect()` is ignored by it
(bluepy-helper.c:824) and returns with the first device.

### Found while modelling, and excluded by a constant, a premise or a bound

The hazards without a property in PROJECT.json are among these.

In a session:

* `disconnect()` on a helper that "secu" told of the disconnected state gets no
  line and waits for ever (bluepy-helper.c:616, btle.py:483).
* A notification during `getState()` raises `BTLEInternalError` (btle.py:395).
* A helper killed between `poll()` and `get()` leaves the call blocked
  (btle.py:355).
* `setRemoteOOB()` writes no newline and swallows the next command
  (btle.py:608).
* The orphan of an earlier connection may close the socket of the next attempt
  (bluepy-helper.c:623, 814).
* `OwnAnswer` fails for a write that timed out (its late confirmation ends the
  next write), for setMTU and setSecurityLevel (they take a "stat" nobody asked
  for and leave their error), for pair and unpair interrupted by a notification,
  for setRemoteOOB followed by getState, and for calls from a delegate.
* With another program discovering, `conn_state` may be "conn" with a NULL
  bearer, and a request is dropped in silence: hence `~Discovering`.
* After `BrokenPipeError` (`last.how = "pipe"`) the object never recovers:
  `_stopHelper` writes before it forgets the helper (btle.py:305).
  `DisconnectedIsStopped` says nothing of such a call.
* Lines that are in the pipe when stdin is closed are not executed: the loop
  tests the hang-up first (bluepy-helper.c:1988). To `NothingVanishes` the end
  of the process excuses it.
* A "stat" line nobody asked for answers whichever call waits for that type.

In scans: the thread of a stopped helper may put a line of its own into its
successor's queue, or read its successor's pipe (btle.py:296; `apart`);
`start()` goes on whatever answer it gets (btle.py:825); `scan()` may raise at
its end (btle.py:836).

In lib/hci.c: a remote name is awaited as event 7, and an LE meta event with the
number 7 (LE Data Length Change) is taken for it (hci.c:1236), as is the answer
to another program's command of the same opcode.

In GATT: the walk over characteristics wraps at handle 0xffff (gatt.c:653, 661);
a declaration at the end of the range is skipped; a long read cut short is
reported as a success (gatt.c:772), and one during which the MTU is raised loses
its end; a failed long write leaves its prepared parts; a link that is lost
during included discovery calls back success with a part of the list;
`dec_prep_write_resp` tests the opcode of the request (attrib/att.c:1177); the
last characteristic without descriptors makes `getDescriptors` raise
(gatt.c:1034); a write without response longer than the MTU allows is cut and
reported as a success; after `getServiceByUUID`, `services` returns the services
that call found and no other, against docs/peripheral.rst:62 (btle.py:505 to
525); and `getDescriptors(hndEnd=...)` leaves its shortened list to every later
call of the characteristic (btle.py:204).

In the bearer: a retried request keeps its first timer (att.c:640); a callback
of an operation that timed out is never called; one refused by a dead bearer
leaves an entry in `callbacks`; the helper asserts on every execute-write
request, and answers no malformed MTU request.

In the management socket and the lists: a cancelled command that is pending lets
a late completion match another; `mgmt_cancel_index` may leave the writer asleep
(mgmt.c:692; `stalled`); there is no time-out; `mgmt_unregister` inside a
callback leaks the registration (mgmt.c:756); a callback that frees the entry a
walk has saved breaks it (queue.c:219), which `Careful` assumes no callback
does.

In hci.c and btio.c: the time-out of `hci_send_req` counts down to 0, which
waits for ever (hci.c:1171); ten advertising reports make a command fail, as LE
meta events always pass its filter; an answer to a call that timed out answers
the next one of the same function (`loose`); the numbers of LE subevents are
compared with those of other events (hci.c:1234); `discover(FALSE)` passes an
uninitialised filter to `setsockopt`; a list of the LE type with OMTU or MODE
alone sets a receive MTU of 0 (btio.c:644); `bt_io_set` goes by the type of its
list, BR/EDR if it names none, and not of the socket (btio.c:641), so that an LE
socket gets no MTU from a list without one; a hang-up after a connection with no
SO_ERROR is told as a success.

In the sensor libraries: `set_x_notification` does nothing after an `enable()`
that failed inside (thingy52.py:149; `cut`); the delegate of the Thingy:52 knows
handles from globals, which the object enabled last has set, so that two objects
of different layouts disturb one another; `color_sens_calib` writes one byte
only; of two services with one UUID the last is kept; a SensorTag without a
firmware revision cannot be made.

## 6. What is not modelled, and what is left to do

Left out for good: `sdp.c`, `bluetooth.c`, the layouts of hci.h and mgmt.h,
crypto and signing (the helper has no key), logging, the scripts, the texts of
responses and the formulas of sensor readings, LEDs and speakers. Assumed: the
kernel answers a management command if the helper lives; delegates do not call
back in `Attributes`; a scanning helper is not killed.

To do, in this order: theorems for `ThingyNotifiesAsAsked`, `ThingyConfigured`
and `TagAsAsked`, from the `Sound` steps of `enable()`; an abstract connection
(disconnected, trying, connected to a device) that `HelperOpen` implements; what
a late reader thread does in a session, as `Scanner` has it for scans.
