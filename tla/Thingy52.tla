------------------------------ MODULE Thingy52 ------------------------------
(***************************************************************************)
(* The sensor classes of thingy52.py (ThingyClasses) on top of a Peripheral *)
(* (Attributes).  The handles that the delegate compares with are globals   *)
(* of the Python module, so they outlive the objects.  The LED and the      *)
(* speaker are written without state of their own, and are left out.        *)
(***************************************************************************)
EXTENDS Attributes, ThingyClasses, TLC

CONSTANTS Thingies,  \* the devices that are a Thingy:52
          Settings,  \* bound: the sensors and fields that the program sets
          MaxAsked,  \* bound: settings asked for on one connection
          MaxCuts    \* bound: calls that raise

VARIABLES
  at,       \* the characteristic at which enable() is, or 0: no call runs
  class,    \* the class of thingy52.py that the program uses
  object,   \* its instance: service (0 is None), chars and cccds by name (absent is None)
  handles,  \* the module's globals, by name (absent is None)
  value,    \* what the device holds, by handle
  asked,    \* of each setting that a call was about on this connection, when enable() had
            \* found it: what the last call asked for, or {} if that call raised
  cut,      \* names whose getDescriptors raised inside enable()
  cuts      \* calls that raised

thingyVars == <<at, class, object, handles, value, asked, cut, cuts>>

Cccd == 10498
Off == <<0, 0>>
On == <<1, 0>>

\* mutant: the handle of the declaration
GetHandleMutant(ch) == ch.valHandle - 1

\* Characteristic.getHandle
GetHandle(ch) == ch.valHandle

-----------------------------------------------------------------------------
Class == Classes[class]
Members(seq) == {seq[i] : i \in DOMAIN seq}
Sensors == {c.name : c \in {m \in Members(Class.order) : m.notifies}}

NoObject == [service |-> 0, chars |-> <<>>, cccds |-> <<>>]

-----------------------------------------------------------------------------
(* enable(): first the service, then each characteristic in turn.  The call  *)
(* raises where a request is not answered.                                  *)

\* the state that one statement of enable() works on
Call(left) == [left |-> left, ok |-> TRUE, mem |-> mem, object |-> object, handles |-> handles, cut |-> cut]

\* "if self.environment_service is None"
FindService(k) ==
  LET r == GetServiceByUUID(k.mem, DbNow, k.left, Class.uuid) IN
    IF k.object.service # 0 THEN k
    ELSE [k EXCEPT !.ok = r.ok, !.mem = r.mem, !.object.service = IF r.ok THEN r.val ELSE 0]

First(list, uuid) == CHOOSE i \in DOMAIN list :
  list[i].uuid = uuid /\ \A j \in DOMAIN list : list[j].uuid = uuid => i <= j
Has(list, uuid) == \E i \in DOMAIN list : list[i].uuid = uuid

\* "self.temperature_cccd = ...": an empty list raises at [0]
FindCccd(k, name, s, c) ==
  LET d == CharDescriptors(k.mem, DbNow, k.left, s, c, LastHandle) IN
    IF d.ok /\ Has(d.val, Cccd)
    THEN [k EXCEPT !.mem = d.mem, !.object.cccds = (name :> d.val[First(d.val, Cccd)].handle) @@ @]
    ELSE [k EXCEPT !.mem = d.mem, !.ok = FALSE, !.cut = @ \cup {name}]

\* "if self.temperature_char is None": the characteristic, its handle, its descriptor
FindChar(k, c) ==
  LET s == k.object.service
      r == GetCharacteristics(k.mem, DbNow, k.left, s)
      i == First(r.val, c.uuid)
      h == GetHandle(r.val[i])
      found == [k EXCEPT !.mem = r.mem, !.left = r.left, !.object.chars = (c.name :> h) @@ @] IN
    IF c.name \in DOMAIN k.object.chars THEN k
    ELSE IF ~r.ok \/ ~Has(r.val, c.uuid) THEN [k EXCEPT !.mem = r.mem, !.ok = FALSE]
    ELSE IF c.notifies THEN FindCccd([found EXCEPT !.handles = (c.name :> h) @@ @], c.name, s, i)
    ELSE found

Raises(ok) == cuts' = (IF ok THEN cuts ELSE cuts + 1) /\ cuts' <= MaxCuts

\* the bound leaves room for the calls that cannot succeed
MayLose == cuts < MaxCuts

\* a statement done: the next one, or the call is over
Does(k, next) ==
  /\ mem' = k.mem /\ object' = k.object /\ handles' = k.handles /\ cut' = k.cut /\ Raises(k.ok)
  /\ at' = IF k.ok /\ next <= Len(Class.order) THEN next ELSE 0
  /\ UNCHANGED <<conn, seen, class, value, asked>>

Lefts == IF conn = "none" THEN {0} ELSE 0 .. 2
Enable == at = 0 /\ (conn # "none" \/ MayLose) /\ \E left \in Lefts : Does(FindService(Call(left)), 1)
EnableChar == at # 0 /\ \E left \in Lefts : Does(FindChar(Call(left), Class.order[at]), at + 1)

-----------------------------------------------------------------------------
(* Settings.  A write that raises may have reached the device or not.       *)

Ask(name, to) == asked' = (name :> {to}) @@ asked /\ Cardinality(DOMAIN asked') <= MaxAsked
Doubt(name) == asked' = (name :> {}) @@ asked /\ Cardinality(DOMAIN asked') <= MaxAsked
Give(h, v) == value' = (h :> v) @@ value
Others == at = 0 /\ UNCHANGED <<at, conn, seen, mem, class, object, handles, cut>>

\* a device takes a write of the length that the handle has
Accepts(h, v) == conn # "none" /\ h \in DOMAIN value /\ Len(value[h]) = Len(v)

\* write() with response, for the setting name
WriteTo(h, v, name, to) ==
  \/ Accepts(h, v) /\ Give(h, v) /\ Ask(name, to) /\ UNCHANGED cuts
  \/ /\ Doubt(name) /\ Raises(FALSE)
     /\ UNCHANGED value \/ (Accepts(h, v) /\ Give(h, v))

\* set_x_notification(state): without a descriptor it does nothing, and says nothing
SetNotification(x, state) ==
  /\ Others
  /\ IF x \in DOMAIN object.cccds THEN WriteTo(object.cccds[x], state, x, state)
     ELSE UNCHANGED <<value, cuts>> /\ IF x \in DOMAIN object.chars THEN Ask(x, state) ELSE UNCHANGED asked

\* disable(): every notification off, in turn, until one raises, of which the device
\* may have had the write
Disable ==
  LET known == SelectSeq(Class.order, LAMBDA c : c.name \in DOMAIN object.cccds)
      Names(first, last) == {known[i].name : i \in first .. last} IN
    /\ Others
    /\ \E done, had \in 0 .. (IF conn = "none" THEN 0 ELSE Len(known)) :
         /\ had \in {done, done + 1}
         /\ \A x \in Names(1, had) : Accepts(object.cccds[x], Off)
         /\ value' = [h \in {object.cccds[x] : x \in Names(1, had)} |-> Off] @@ value
         /\ asked' = [x \in DOMAIN asked |->
                         IF x \in Names(1, done) THEN {Off} ELSE IF x \in Names(1, had) THEN {} ELSE asked[x]]
         /\ Raises(done = Len(known))

\* mutant: the index counts bytes
WriteUint16Mutant(data, v, byte) == [data EXCEPT ![byte \div 2 + 1] = v % 256, ![byte \div 2 + 2] = v \div 256]

\* write_uint16, write_uint8 on the bytes read
WriteUint16(data, v, byte) == [data EXCEPT ![byte + 1] = v % 256, ![byte + 2] = v \div 256]
WriteUint8(data, v, byte) == [data EXCEPT ![byte + 1] = v]

\* what configure() makes of the bytes: of the three calibration values only the
\* last is written, for each starts again from the bytes read
Rewrite(data, f, v) ==
  CASE f.width = 1 -> WriteUint8(data, v, f.byte)
    [] f.width = 2 -> WriteUint16(data, v, f.byte)
    [] OTHER       -> WriteUint8(data, v, f.byte + 2)

\* one argument of configure(): read, change, write
Configure(f, v) ==
  /\ Others
  /\ IF "config" \notin DOMAIN object.chars THEN UNCHANGED <<value, asked, cuts>>
     ELSE LET h == object.chars["config"] IN
       IF conn # "none" /\ h \in DOMAIN value /\ Len(value[h]) = Class.config
       THEN WriteTo(h, Rewrite(value[h], f, v), f.name, v)
       ELSE Raises(FALSE) /\ UNCHANGED <<value, asked>>  \* the read raises

-----------------------------------------------------------------------------
(* Connections.  The device starts with its notifications off and with a    *)
(* configuration of its own.                                                *)

OwnByte == 255
ValueHandles(db, uuid) == {h \in DOMAIN db : db[h].kind = "value" /\ db[h].uuid = uuid}
ConfigHandles(db) == UNION {ValueHandles(db, c.uuid) : c \in {m \in Members(Class.order) : m.name = "config"}}
Fresh(db) == [h \in {i \in DOMAIN db : db[i].uuid = Cccd} |-> Off] @@
                   [h \in ConfigHandles(db) |-> [i \in 1 .. Class.config |-> OwnByte]]

ThingyInit ==
  /\ AttrInit /\ at = 0 /\ class \in DOMAIN Classes /\ object = NoObject /\ handles = <<>>
  /\ value = <<>> /\ asked = <<>> /\ cut = {} /\ cuts = 0

\* Thingy52(addr), or connect() of the object that was there; the globals stay
Reach(d) ==
  /\ at = 0 /\ conn = "none" /\ conn' = d /\ seen' = seen \cup {d}
  /\ \/ UNCHANGED <<mem, object, cut>>
     \/ mem' = NoMemory /\ object' = NoObject /\ cut' = {}
  /\ value' = Fresh(Database[d])
  /\ asked' = <<>> /\ UNCHANGED <<at, class, handles, cuts>>

\* disconnect(), or the link is lost, inside a call too
Leave == (at = 0 \/ MayLose) /\ Disconnect /\ value' = <<>> /\ asked' = <<>> /\ UNCHANGED <<at, class, object, handles, cut, cuts>>

ThingyNext ==
  \/ \E d \in Thingies : Reach(d)
  \/ Leave \/ Enable \/ EnableChar \/ Disable
  \/ \E x \in Sensors \cap Settings, state \in {On, Off} : SetNotification(x, state)
  \/ \E f \in Members(Class.fields), v \in {1, 258} : f.name \in Settings /\ (v = 258 <=> f.width = 2) /\ Configure(f, v)

ThingySpec == ThingyInit /\ [][ThingyNext]_<<attrVars, thingyVars>>

-----------------------------------------------------------------------------
\* MyDelegate.handleNotification: the first branch whose global has the handle
NameOf(h) == {x \in DOMAIN handles : handles[x] = h}

SensorHandle(db, x) == CHOOSE h \in DOMAIN db : db[h].kind = "value" /\
  \E c \in Members(Class.order) : c.name = x /\ c.uuid = db[h].uuid
CccdOf(db, x) == CHOOSE h \in Belong(db, SensorHandle(db, x)) : db[h].uuid = Cccd

\* While the process has met devices of one layout: what set_x_notification was last
\* told, and returned from, is what the device does, once enable() had found the
\* sensor and no getDescriptors inside it raised for that sensor; a sensor that no
\* call was about stays off; and the delegate takes a notification of a sensor that
\* is on for that sensor and for no other.
NotifiesAsAsked == \A d \in Thingies : conn = d /\ OneDevice(d) =>
  \A x \in Sensors :
    LET does == value[CccdOf(Database[d], x)] IN
      IF x \notin DOMAIN asked THEN does = Off
      ELSE x \in DOMAIN object.chars \ cut /\ asked[x] # {} =>
             does \in asked[x] /\ (does = On => NameOf(SensorHandle(Database[d], x)) = {x})

\* A field that configure() set keeps its value whatever other fields are set later,
\* and every byte keeps the device's own value if no call was about a field it is in.
\* Of color_sens_calib the first holds of the last byte only.  Nothing is said of a
\* field whose last call raised in its write.
Bytes(f) == f.byte + 1 .. f.byte + f.width
FieldHolds(data, f) ==
  CASE f.width = 1 -> data[f.byte + 1] \in asked[f.name]
    [] f.width = 2 -> data[f.byte + 1] + 256 * data[f.byte + 2] \in asked[f.name]
    [] OTHER       -> data[f.byte + 3] \in asked[f.name]
ConfiguredAsAsked == \A d \in Thingies : conn = d /\ OneDevice(d) =>
  \A h \in ConfigHandles(Database[d]) :
    LET told == {f \in Members(Class.fields) : f.name \in DOMAIN asked} IN
      /\ \A f \in told : asked[f.name] # {} => FieldHolds(value[h], f)
      /\ \A b \in DOMAIN value[h] : b \in UNION {Bytes(f) : f \in told} \/ value[h][b] = OwnByte
=============================================================================
