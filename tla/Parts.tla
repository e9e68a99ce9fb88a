-------------------------------- MODULE Parts --------------------------------
(***************************************************************************)
(* Parts of BlueZ that share no state, side by side: a behaviour is one of  *)
(* the management socket, of a program's HCI socket, of the sockets of      *)
(* btio.c or of the bearer of a connection, and nothing else moves.  One    *)
(* small instance of each, so that TLC also checks what must happen at last. *)
(***************************************************************************)
EXTENDS MgmtQueue

CONSTANTS
  Called, Peer, Timeouts, Tries, Others, MaxRequests, MaxOthers, \* of HciRequest
  Lists, MaxOwn, MaxSock, MaxSets,                                 \* of BtIo
  Kinds, PeerPdus, MaxOps, MaxPeer                                 \* of AttBearer

VARIABLES
  part,
  filter, old_filter, pc, req, to, try, inbox, controller, result, loose, nothers,
  sock, modern, last, nsets,
  io, req_queue, ind_queue, write_queue, pending_req, pending_ind, bearer_writer,
  in_req, next_send_id, track_ids, timers, security, ended, tx, rx, owed, strayed, npeer

Hci == INSTANCE HciRequest WITH Commands <- Called
BtIo == INSTANCE BtIo
Bearer == INSTANCE AttBearer WITH writer_active <- bearer_writer, outcome <- ended
Devices == INSTANCE HciDevices
Uuid == INSTANCE Uuid
Names == INSTANCE HciNames

hciVars == <<filter, old_filter, pc, req, to, try, inbox, controller, result, loose, nothers>>
btioVars == <<sock, modern, last, nsets>>
bearer == <<io, req_queue, ind_queue, write_queue, pending_req, pending_ind, bearer_writer,
            in_req, next_send_id, track_ids, timers, security, ended, tx, rx, owed, strayed, npeer>>
partsVars == <<part, mgmtVars, hciVars, btioVars, bearer>>

\* a part that is not looked at begins in one state
PartsInit ==
  /\ part \in {"mgmt", "hci", "btio", "bearer"}
  /\ MgmtInit /\ Bearer!BearerInit
  /\ Hci!HciInit /\ (part # "hci" => filter.events = {})
  /\ BtIo!BtIoInit /\ (part # "btio" => modern)

OnlyMgmt == part = "mgmt" /\ UNCHANGED <<part, hciVars, btioVars, bearer>>
OnlyHci == part = "hci" /\ UNCHANGED <<part, mgmtVars, btioVars, bearer>>
OnlyBtIo == part = "btio" /\ UNCHANGED <<part, mgmtVars, hciVars, bearer>>
OnlyBearer == part = "bearer" /\ UNCHANGED <<part, mgmtVars, hciVars, btioVars>>

MgmtStep == OnlyMgmt /\ MgmtNext
HciStep == OnlyHci /\ Hci!HciNext
BtIoStep == OnlyBtIo /\ BtIo!BtIoNext
BearerStep == OnlyBearer /\ Bearer!BearerNext

PartsNext == MgmtStep \/ HciStep \/ BtIoStep \/ BearerStep

\* MgmtFairness and the others, each for its part: the actions of different
\* parts are never enabled together, so that a disjunction of them is as good
Fair(i) ==
  \/ OnlyMgmt /\ i = 4 /\ MgmtWriter
  \/ OnlyMgmt /\ \E answer \in asked : answer.id = i /\ RequestComplete(answer)
  \/ OnlyHci /\ i = 1 /\ Hci!Take
  \/ OnlyHci /\ i = 2 /\ Hci!TimesOut
  \/ OnlyBtIo /\ i \in DOMAIN sock /\ BtIo!Dispatched(i)
  \/ OnlyBtIo /\ i - 2 \in DOMAIN sock /\ BtIo!Resolves(i - 2)
  \/ OnlyBearer /\ \/ i = 1 /\ Bearer!Writer
                   \/ i = 2 /\ Bearer!Reader
                   \/ i = 3 /\ Bearer!DisconnectCb
                   \/ i = 4 /\ \E t \in timers : Bearer!Timeout(t)

\* (there are at most three commands and two sockets)
PartsSpec ==
  /\ PartsInit /\ [][PartsNext]_partsVars
  /\ \A i \in 1 .. 4 : WF_partsVars(Fair(i))

-----------------------------------------------------------------------------
ASSUME PartsAssumption ==
  /\ Hci!OpcodesDistinct /\ Hci!HciAssumption /\ BtIo!BtIoAssumption
  /\ Devices!DevicesAssumption /\ Uuid!UuidAssumption /\ Names!NamesAssumption

\* hci_send_req of lib/hci.c leaves the filter of the socket as it was
FilterRestored == Hci!FilterRestored
\* and returns the answer to what was asked.
AnswerIsOurs == Hci!AnswerIsOurs

\* btio.c tells of each attempt once,
ToldOnce == BtIo!ToldOnce
\* closes what nobody uses, and sets the options it was given.
SocketsKept == BtIo!ClosedWhenUnused /\ BtIo!OptionsKept

Unserved(i) ==
  \/ part = "mgmt" /\ Waits(i)
  \/ part = "hci" /\ i = 1 /\ Hci!Waits
  \/ part = "btio" /\ BtIo!Waits(i)
  \/ part = "bearer" /\ Bearer!Waits(i)

IsServed(i) ==
  \/ part = "mgmt" /\ Served(i)
  \/ part = "hci" /\ Hci!Served
  \/ part = "btio" /\ BtIo!Served(i)
  \/ part = "bearer" /\ Bearer!Served(i)

\* Whatever is asked of these parts ends: a management command (MgmtRequestsEnd),
\* hci_send_req with a time-out (HciRequestsEnd), an attempt to connect
\* (AttemptsEnd), an operation of a bearer (OperationsEnd).
RequestsEnd == \A i \in 1 .. 3 : Unserved(i) ~> IsServed(i)
=============================================================================
