----------------------------- MODULE Attributes -----------------------------
(***************************************************************************)
(* What a Peripheral of btle.py remembers of a device: the services found,  *)
(* and in each Service and Characteristic object what was found in it.  The *)
(* caches are filled on demand, by calls that may raise, and nothing ever   *)
(* empties them: not disconnect(), and not connect() to another device.     *)
(*                                                                          *)
(* One action is one call of the program.  A walk over the attributes       *)
(* (Discovery has its steps) is one request here, and the delegate calls    *)
(* nothing (Session has what happens if it does).                           *)
(***************************************************************************)
EXTENDS Naturals, Sequences, FiniteSets

CONSTANTS Devices,     \* the peripherals
          Database,    \* of each peripheral: its attributes by handle
          Ends,        \* what the program gives for hndEnd, where it gives one
          MaxServices  \* bound: Service objects that one Peripheral creates

VARIABLES
  conn,  \* the device the Peripheral is connected to, or "none"
  seen,  \* the devices it has been connected to
  mem    \* what it remembers

attrVars == <<conn, seen, mem>>

\* an attribute: kind is "service", "char", "value" or "desc"
Attr(kind, uuid) == [kind |-> kind, uuid |-> uuid]

\* the type that "desc" of the helper tells of it
Type(a) == CASE a.kind = "service" -> 10240 [] a.kind = "char" -> 10243 [] OTHER -> a.uuid

Db == Database[conn]

\* the elements of a list at these places, in order (no SelectSeq: a prover cannot
\* instantiate what takes an operator)
Chosen(list, places) ==
  LET upTo[n \in 0 .. Len(list)] ==
        IF n = 0 THEN <<>>
        ELSE IF n \in places THEN Append(upTo[n - 1], list[n]) ELSE upTo[n - 1]
  IN upTo[Len(list)]

HandlesWhere(db, first, last, kinds) ==
  Chosen([h \in DOMAIN db |-> h], {h \in DOMAIN db : h \in first .. last /\ db[h].kind \in kinds})

LastHandle == 65535

\* What a device has, by the attribute protocol: services first, each declaration
\* of a characteristic before its value, and nothing else with the UUID of a declaration.
WellFormed(db) ==
  /\ db \in Seq([kind : {"service", "char", "value", "desc"}, uuid : Nat])
  /\ db # <<>> /\ db[1].kind = "service" /\ Len(db) <= LastHandle
  /\ \A h \in DOMAIN db : db[h].kind = "char" => h + 1 \in DOMAIN db /\ db[h + 1].kind = "value"
  /\ \A h \in DOMAIN db : db[h].kind = "value" => h > 1 /\ db[h - 1].kind = "char"
  /\ \A h \in DOMAIN db : db[h].kind \in {"value", "desc"} => db[h].uuid \notin {10240, 10241, 10243}

-----------------------------------------------------------------------------
(* What the helper answers.                                                 *)

Starts(db) == {h \in DOMAIN db : db[h].kind = "service"}
EndOf(db, h) == LET later == {i \in Starts(db) : i > h} IN
  IF later = {} THEN Len(db) ELSE (CHOOSE i \in later : \A j \in later : i <= j) - 1

\* Service.__init__
Service(db, h) ==
  [uuid |-> db[h].uuid, hndStart |-> h, hndEnd |-> EndOf(db, h), chars |-> <<>>, descs |-> <<>>]

Services(db) ==
  LET hs == HandlesWhere(db, 1, Len(db), {"service"}) IN [i \in DOMAIN hs |-> Service(db, hs[i])]

\* Characteristic.__init__
Characteristic(db, h) == [uuid |-> db[h + 1].uuid, valHandle |-> h + 1, descs |-> <<>>]

CharsIn(db, first, last) ==
  LET hs == HandlesWhere(db, first, last, {"char"})
  IN [i \in DOMAIN hs |-> Characteristic(db, hs[i])]

\* Descriptor.__init__
DescsIn(db, first, last) ==
  LET hs == HandlesWhere(db, first, last, {"service", "char", "value", "desc"})
  IN [i \in DOMAIN hs |-> [uuid |-> Type(db[hs[i]]), handle |-> hs[i]]]

-----------------------------------------------------------------------------
(* The methods, as functions of the memory m: left is the number of         *)
(* requests that are answered before one raises, and a search that finds    *)
(* nothing raises.                                                          *)

NoMemory == [map |-> {}, mapped |-> FALSE, svcs |-> <<>>]

Got(m, left, val) == [mem |-> m, left |-> left, ok |-> TRUE, val |-> val]
Raised(m) == [mem |-> m, left |-> 0, ok |-> FALSE, val |-> 0]

\* discoverServices: new Service objects, whoever holds the old ones; of the
\* services with one UUID the dictionary keeps the last
DiscoverServices(m, db, left) ==
  LET n == Len(m.svcs)  found == Services(db)
      map == {i \in DOMAIN found : \A j \in DOMAIN found : found[j].uuid = found[i].uuid => j <= i}
  IN IF left = 0 THEN Raised(m)
     ELSE Got([map |-> {n + i : i \in map}, mapped |-> TRUE, svcs |-> m.svcs \o found], left - 1, map)

\* services, getServices
GetServices(m, db, left) ==
  IF m.mapped THEN Got(m, left, m.map) ELSE DiscoverServices(m, db, left)

GetServiceByUUID(m, db, left, uuid) ==
  LET known == {i \in m.map : m.svcs[i].uuid = uuid}
      all == Services(db)
      found == Chosen(all, {i \in DOMAIN all : all[i].uuid = uuid})
      n == Len(m.svcs) + 1 IN
    IF known # {} THEN Got(m, left, CHOOSE i \in known : TRUE)
    ELSE IF left = 0 \/ found = <<>> THEN Raised(m)
    ELSE Got([map |-> m.map \cup {n}, mapped |-> TRUE, svcs |-> Append(m.svcs, found[1])], left - 1, n)

\* Service.getCharacteristics, which asks again while it has none
GetCharacteristics(m, db, left, s) ==
  LET svc == m.svcs[s]  found == CharsIn(db, svc.hndStart, svc.hndEnd) IN
    IF svc.chars # <<>> \/ svc.hndEnd <= svc.hndStart THEN Got(m, left, svc.chars)
    ELSE IF left = 0 \/ found = <<>> THEN Raised(m)
    ELSE Got([m EXCEPT !.svcs[s].chars = found], left - 1, found)

\* Service.getDescriptors: with the values, without the declarations
ServiceDescriptors(m, db, left, s) ==
  LET svc == m.svcs[s]  found == DescsIn(db, svc.hndStart + 1, svc.hndEnd)
      kept == Chosen(found, {i \in DOMAIN found : found[i].uuid # 10243}) IN
    IF svc.descs # <<>> THEN Got(m, left, svc.descs)
    ELSE IF left = 0 \/ found = <<>> THEN Raised(m)
    ELSE Got([m EXCEPT !.svcs[s].descs = kept], left - 1, kept)

Declarations == {10240, 10241, 10243}

\* mutant: "continue" for "break"
OwnDescsMutant(found) == Chosen(found, {i \in DOMAIN found : found[i].uuid \notin Declarations})

\* what precedes the next declaration
OwnDescs(found) ==
  LET ends == {i \in DOMAIN found : found[i].uuid \in Declarations}
  IN Chosen(found, {n \in DOMAIN found : \A i \in ends : n < i})

\* Characteristic.getDescriptors: up to hndEnd, which is LastHandle by default.  It
\* empties the list before it asks, and what it keeps it returns whatever hndEnd
\* a later call has
CharDescriptors(m, db, left, s, c, hndEnd) ==
  LET ch == m.svcs[s].chars[c]  found == DescsIn(db, ch.valHandle + 1, hndEnd) IN
    IF ch.descs # <<>> THEN Got(m, left, ch.descs)
    ELSE IF left = 0 \/ found = <<>> THEN Raised(m)
    ELSE Got([m EXCEPT !.svcs[s].chars[c].descs = OwnDescs(found)], left - 1, OwnDescs(found))

-----------------------------------------------------------------------------
AttrInit == conn = "none" /\ seen = {} /\ mem = NoMemory

\* connect(): the caches are those of the object
Connect(d) == conn = "none" /\ conn' = d /\ seen' = seen \cup {d} /\ UNCHANGED mem

\* disconnect(), or the link is lost and the next call finds out
Disconnect == conn # "none" /\ conn' = "none" /\ UNCHANGED <<seen, mem>>

\* requests that can be answered: none without a connection
LeftToAnswer == IF conn = "none" THEN {0} ELSE {0, 1}
DbNow == IF conn = "none" THEN <<>> ELSE Db

ServiceUuids == UNION {{Database[d][h].uuid : h \in Starts(Database[d])} : d \in Devices}

\* one method called by the program: what it changes is the memory
Remember(result) == Len(result.mem.svcs) <= MaxServices /\ mem' = result.mem /\ UNCHANGED <<conn, seen>>

AskServices == \E left \in LeftToAnswer :
  \/ Remember(DiscoverServices(mem, DbNow, left))
  \/ Remember(GetServices(mem, DbNow, left))
  \/ \E u \in ServiceUuids : Remember(GetServiceByUUID(mem, DbNow, left, u))

Given == Ends \cup {LastHandle}

AskInside == \E left \in LeftToAnswer, s \in DOMAIN mem.svcs :
  \/ Remember(GetCharacteristics(mem, DbNow, left, s))
  \/ Remember(ServiceDescriptors(mem, DbNow, left, s))
  \/ \E c \in DOMAIN mem.svcs[s].chars, hndEnd \in Given :
       Remember(CharDescriptors(mem, DbNow, left, s, c, hndEnd))

AttrNext == (\E d \in Devices : Connect(d)) \/ Disconnect \/ AskServices \/ AskInside
AttrSpec == AttrInit /\ [][AttrNext]_attrVars

-----------------------------------------------------------------------------
OneDevice(d) == seen = {d}

\* The attributes that belong to the characteristic whose value is at h: those up
\* to the next declaration.
Belong(db, h) == LET ends == {j \in DOMAIN db : j > h /\ db[j].kind # "desc"}
  IN {i \in DOMAIN db : i > h /\ \A j \in ends : i < j}

\* As long as the object has met one device only, everything it remembers is of
\* that device: each service's range, all of its characteristics or none, and of
\* each characteristic its own descriptors or none, whatever calls raised.  Its own
\* are all that belong to it up to the hndEnd of some call, so exactly all of them
\* in a program that gives none.
RemembersTheDevice == \A d \in Devices : OneDevice(d) => \A i \in DOMAIN mem.svcs :
  LET db == Database[d]  s == mem.svcs[i] IN
    /\ s.hndStart \in Starts(db) /\ s.hndEnd = EndOf(db, s.hndStart) /\ s.uuid = db[s.hndStart].uuid
    /\ s.chars = <<>> \/ {c.valHandle : c \in {s.chars[k] : k \in DOMAIN s.chars}} =
                            {h \in s.hndStart .. s.hndEnd : db[h].kind = "value"}
    /\ \A k \in DOMAIN s.chars : s.chars[k].descs = <<>> \/
         \E e \in Given : {s.chars[k].descs[n].handle : n \in DOMAIN s.chars[k].descs} =
                           {h \in Belong(db, s.chars[k].valHandle) : h <= e}
    /\ s.descs = <<>> \/ {s.descs[n].handle : n \in DOMAIN s.descs} =
                            {h \in s.hndStart + 1 .. s.hndEnd : db[h].kind # "char"}
=============================================================================
