----------------------------- MODULE SensorTag ------------------------------
(***************************************************************************)
(* The sensors of sensortag.py on top of a Peripheral (Attributes).  Which  *)
(* classes a SensorTag has depends on the version that its constructor      *)
(* finds; in the CC2650 three sensors are switched by the bits of one       *)
(* control word, which the shared object keeps.  What read() computes from  *)
(* the bytes is left out.                                                   *)
(***************************************************************************)
EXTENDS Attributes, TLC

CONSTANTS Tags,  \* the devices that are a SensorTag
          Uses   \* bound: the sets of sensors that a program uses

VARIABLES
  use,         \* the sensors the program uses
  version,     \* of the SensorTag object, or "none": there is none
  at,          \* sensor and statement at which a call is
  parts,       \* of each sensor object: service, ctrl, data, descr and
               \* calUUID (0 is None)
  ctrlBits,    \* of the shared object
  calibrated,  \* the barometer has its coefficients
  held,        \* what the device holds, by handle
  wanted       \* sensor -> on or off: the last call for it on this connection, if it returned

tagVars == <<use, version, at, parts, ctrlBits, calibrated, held, wanted>>

-----------------------------------------------------------------------------
(* The classes.  switch is how enable() turns the sensor on; obj is the     *)
(* object that has the characteristics, when it is a shared one.            *)

\* a word that is written is the set of its bits, by number
GYRO_XYZ == {0, 1, 2}
ACCEL_XYZ == {3, 4, 5}
ACCEL_RANGE_4G == {8}
MAG_XYZ == {6}

Sensor(svc, ctrl, data, switch, on) == [svc |-> svc, ctrl |-> ctrl, data |-> data, switch |-> switch, on |-> on]

IRTemperatureSensor == Sensor(43520, 43522, 43521, "ctrl", {0})
AccelerometerSensor == Sensor(43536, 43538, 43537, "ctrl", {0})
HumiditySensor == Sensor(43552, 43554, 43553, "ctrl", {0})
MagnetometerSensor == Sensor(43568, 43570, 43569, "ctrl", {0})
BarometerSensor == Sensor(43584, 43586, 43585, "calibrate", {0})
BarometerSensorBMP280 == Sensor(43584, 43586, 43585, "ctrl", {0})
GyroscopeSensor == Sensor(43600, 43602, 43601, "ctrl", GYRO_XYZ)
OpticalSensorOPT3001 == Sensor(43632, 43634, 43633, "ctrl", {0})
KeypressSensor == Sensor(65504, 0, 65505, "descr", {0})
BatterySensor == Sensor(6159, 0, 10777, "none", {})
MovementSensorMPU9250(bits) == Sensor(43648, 43650, 43649, "bits", bits)

CalUUID == 43587
FirmwareRevision == 10790
Cccd == 10498

\* SensorTag.__init__
Sensors(v) == IF v = "v1"
  THEN [IRtemperature |-> IRTemperatureSensor, accelerometer |-> AccelerometerSensor,
        humidity |-> HumiditySensor, magnetometer |-> MagnetometerSensor, barometer |-> BarometerSensor,
        gyroscope |-> GyroscopeSensor, keypress |-> KeypressSensor]
  ELSE [IRtemperature |-> IRTemperatureSensor, humidity |-> HumiditySensor,
        barometer |-> BarometerSensorBMP280, keypress |-> KeypressSensor,
        lightmeter |-> OpticalSensorOPT3001, battery |-> BatterySensor,
        accelerometer |-> MovementSensorMPU9250(ACCEL_XYZ \cup ACCEL_RANGE_4G),
        magnetometer |-> MovementSensorMPU9250(MAG_XYZ), gyroscope |-> MovementSensorMPU9250(GYRO_XYZ)]

Mine(x) == Sensors(version)[x]
Object(x) == IF Mine(x).switch = "bits" THEN "_mpu9250" ELSE x

NoPart == [service |-> 0, ctrl |-> 0, data |-> 0, descr |-> 0, calUUID |-> 0]
NoParts == [o \in UNION {DOMAIN Sensors(v) : v \in {"v1", "CC2650"}} \cup {"_mpu9250"} |-> NoPart]

-----------------------------------------------------------------------------
(* enable(): one action per statement, at one request or none.              *)

NotCalled == <<"no", "call">>
At(step) == at # NotCalled /\ at[2] = step
X == at[1]
Part == parts[Object(X)]

Unwish(x) == [y \in DOMAIN wanted \ {x} |-> wanted[y]]
Go(step) == at' = <<X, step>> /\ UNCHANGED wanted
Return(on) == at' = NotCalled /\ wanted' = (X :> on) @@ wanted
Raise == at' = NotCalled /\ wanted' = Unwish(X)

SameTag == UNCHANGED <<conn, seen, use, version>>
NoMore == UNCHANGED <<ctrlBits, calibrated, held>>
Set(field, v) == parts' = [parts EXCEPT ![Object(X)][field] = v]

\* where enable() is after the characteristics are found
AfterData == CASE Mine(X).switch = "ctrl"      -> "write"
               [] Mine(X).switch = "bits"      -> "bits"
               [] Mine(X).switch = "calibrate" -> "calUUID"
               [] Mine(X).switch = "descr"     -> "descr"
               [] OTHER                        -> "done"

Has(x) == version # "none" /\ x \in use \cap DOMAIN Sensors(version)
Enable(x) == at = NotCalled /\ Has(x) /\ at' = <<x, "service">> /\ UNCHANGED wanted /\ UNCHANGED <<mem, parts>> /\ NoMore /\ SameTag

\* "if self.service is None"
FindService == At("service") /\ NoMore /\ SameTag /\
  IF Part.service # 0 THEN Go("ctrl") /\ UNCHANGED <<mem, parts>>
  ELSE \E left \in LeftToAnswer : LET r == GetServiceByUUID(mem, DbNow, left, Mine(X).svc) IN
    /\ mem' = r.mem
    /\ IF r.ok THEN Set("service", r.val) /\ Go("ctrl") ELSE UNCHANGED parts /\ Raise

\* "if self.ctrl is None", "if self.data is None": getCharacteristics(uuid)[0], where
\* None asks for all of them
FindChar(field, uuid, next) == At(field) /\ NoMore /\ SameTag /\
  IF field # "calUUID" /\ Part[field] # 0 THEN Go(next) /\ UNCHANGED <<mem, parts>>
  ELSE \E left \in LeftToAnswer : LET r == GetCharacteristics(mem, DbNow, left, Part.service)
                                   fits == {i \in DOMAIN r.val : uuid \in {0, r.val[i].uuid}} IN
    /\ mem' = r.mem
    /\ IF ~r.ok \/ fits = {} THEN UNCHANGED parts /\ Raise
       ELSE Set(field, r.val[CHOOSE i \in fits : \A j \in fits : i <= j].valHandle) /\ Go(next)

\* KeypressSensor.enable: a new lookup every time
FindDescr == At("descr") /\ NoMore /\ SameTag /\
  \E left \in LeftToAnswer : LET r == ServiceDescriptors(mem, DbNow, left, Part.service)
                             fits == {i \in DOMAIN r.val : r.val[i].uuid = Cccd} IN
    /\ mem' = r.mem
    /\ IF ~r.ok \/ fits = {} THEN UNCHANGED parts /\ Raise
       ELSE Set("descr", r.val[CHOOSE i \in fits : \A j \in fits : i <= j].handle) /\ Go("write")

\* write(), which the device may have had although it raises; what comes of it if not
Tells(h, v, then) ==
  \/ conn # "none" /\ h \in DOMAIN held /\ held' = (h :> v) @@ held /\ then
  \/ /\ Raise
     /\ UNCHANGED held \/ (conn # "none" /\ h \in DOMAIN held /\ held' = (h :> v) @@ held)

\* "self.ctrl.write(self.sensorOn,withResponse=True)"
SwitchOn == At("write") /\ SameTag /\ UNCHANGED <<mem, parts, ctrlBits, calibrated>> /\
  Tells(IF Mine(X).switch = "descr" THEN Part.descr ELSE Part.ctrl, Mine(X).on, Return(TRUE))

\* mutant: "=" for "|="
BitsOnMutant(bits, on) == on

\* MovementSensorMPU9250.enable: the bits change before the word is written
BitsOn(bits, on) == bits \cup on
SwitchBits == At("bits") /\ SameTag /\ UNCHANGED <<mem, parts, calibrated>> /\
  ctrlBits' = BitsOn(ctrlBits, Mine(X).on) /\ Tells(Part.ctrl, ctrlBits', Return(TRUE))

\* BarometerSensor.enable: 2 makes the device show its coefficients
AskCoefficients == At("ask") /\ SameTag /\ UNCHANGED <<mem, parts, ctrlBits, calibrated>> /\ Tells(Part.ctrl, {1}, Go("read"))
ReadCoefficients == At("read") /\ SameTag /\ UNCHANGED <<mem, parts, ctrlBits, held>> /\
  \/ conn # "none" /\ calibrated' = TRUE /\ Go("write")
  \/ UNCHANGED calibrated /\ Raise

\* a sensor that needs no switch
NoSwitch == At("done") /\ Return(TRUE) /\ UNCHANGED <<mem, parts>> /\ NoMore /\ SameTag

EnableStep ==
  \/ FindService
  \/ FindChar("ctrl", Mine(X).ctrl, "data")
  \/ FindChar("data", Mine(X).data, AfterData)
  \/ FindChar("calUUID", CalUUID, "ask")
  \/ FindDescr \/ SwitchOn \/ SwitchBits \/ AskCoefficients \/ ReadCoefficients \/ NoSwitch

-----------------------------------------------------------------------------
(* disable()                                                                *)

Disable(x) == at = NotCalled /\ Has(x) /\ at' = <<x, "off">> /\ UNCHANGED <<mem, parts, wanted>> /\ NoMore /\ SameTag

\* SensorBase.disable does nothing without a control characteristic; those of the
\* keypress and of the MPU9250 raise, the latter with its bits changed
SwitchOff == At("off") /\ SameTag /\ UNCHANGED <<mem, parts, calibrated>> /\
  CASE Mine(X).switch = "bits"  -> ctrlBits' = ctrlBits \ Mine(X).on /\ Tells(Part.ctrl, ctrlBits', Return(FALSE))
    [] Mine(X).switch = "descr" -> UNCHANGED ctrlBits /\ Tells(Part.descr, {}, Return(FALSE))
    [] OTHER -> UNCHANGED ctrlBits /\ IF Part.ctrl = 0 THEN at' = NotCalled /\ UNCHANGED <<held, wanted>>
                                      ELSE Tells(Part.ctrl, {}, Return(FALSE))

-----------------------------------------------------------------------------
(* Construction and connection.                                             *)

IsCtrl(db, h) == db[h].kind = "value" /\ \E v \in {"v1", "CC2650"} : \E x \in DOMAIN Sensors(v) :
  Sensors(v)[x].ctrl = db[h].uuid
Fresh(db) == [h \in {i \in DOMAIN db : db[i].uuid = Cccd \/ IsCtrl(db, i)} |-> {}]

\* the version that discoverServices tells
Detected(db) == IF \E h \in Starts(db) : db[h].uuid = 43632 THEN "CC2650" ELSE "v1"

\* SensorTag(addr, version): it finds the services unless it was told the version, and
\* looks for the firmware revision among all characteristics, which raises if there is
\* none.  If anything raises there is no object
NewTag(d, told) ==
  /\ version = "none" /\ conn = "none"
  /\ \E left \in 0 .. 3 :
       LET r == IF told = "auto" THEN DiscoverServices(NoMemory, Database[d], left) ELSE Got(NoMemory, left, 0)
           ok == r.ok /\ r.left >= 2 /\ \E h \in DOMAIN Database[d] : Database[d][h].uuid = FirmwareRevision
       IN IF ok THEN /\ version' = (IF told = "auto" THEN Detected(Database[d]) ELSE told)
                     /\ conn' = d /\ seen' = {d} /\ mem' = r.mem /\ held' = Fresh(Database[d])
          ELSE UNCHANGED <<version, attrVars, held>>
  /\ UNCHANGED <<use, at, parts, ctrlBits, calibrated, wanted>>

\* connect() of the object that was there
Reach(d) == at = NotCalled /\ version # "none" /\ Connect(d) /\ held' = Fresh(Database[d]) /\ wanted' = <<>>
  /\ UNCHANGED <<use, version, at, parts, ctrlBits, calibrated>>

\* disconnect(), or the link is lost, inside a call too; the device forgets what it was told
Leave == Disconnect /\ held' = <<>> /\ wanted' = <<>> /\ UNCHANGED <<use, version, at, parts, ctrlBits, calibrated>>

\* the last reference goes: the next tag is another object
Drop ==
  /\ at = NotCalled /\ version # "none" /\ version' = "none" /\ parts' = NoParts /\ ctrlBits' = {} /\ calibrated' = FALSE
  /\ conn' = "none" /\ seen' = {} /\ mem' = NoMemory /\ held' = <<>> /\ wanted' = <<>> /\ UNCHANGED <<use, at>>

TagInit ==
  /\ AttrInit /\ use \in Uses /\ version = "none" /\ at = NotCalled /\ parts = NoParts /\ ctrlBits = {} /\ calibrated = FALSE
  /\ held = <<>> /\ wanted = <<>>

TagNext ==
  \/ \E d \in Tags : Reach(d) \/ \E told \in {"auto", "v1", "CC2650"} : NewTag(d, told)
  \/ Leave \/ Drop
  \/ \E x \in use : Enable(x) \/ Disable(x)
  \/ EnableStep \/ SwitchOff

TagSpec == TagInit /\ [][TagNext]_<<attrVars, tagVars>>

-----------------------------------------------------------------------------
HandleOf(db, uuid) == CHOOSE h \in DOMAIN db : db[h].kind = "value" /\ db[h].uuid = uuid

\* the device has x on, or off
Switched(db, x, on) ==
  LET s == Mine(x)  v == held[HandleOf(db, s.ctrl)] IN
    CASE s.switch = "bits"  -> IF on THEN s.on \subseteq v ELSE s.on \cap v = {}
      [] s.switch = "descr" -> \E h \in Belong(db, HandleOf(db, s.data)) : held[h] = (IF on THEN {0} ELSE {})
      [] s.switch = "none"  -> TRUE
      [] OTHER              -> v = (IF on THEN s.on ELSE {})

\* While the object has met one device, outside a call for the sensor: it is on when the last enable() or
\* disable() for it returned and was an enable(), off when it was a disable(),
\* whatever calls for the other sensors did or raised, the sensors that share the
\* control word included; and a barometer that is on has been calibrated.
TagAsAsked == \A d \in Tags : conn = d /\ OneDevice(d) => \A x \in DOMAIN wanted \ {X} :
  /\ Switched(Database[d], x, wanted[x])
  /\ Mine(x).switch = "calibrate" /\ wanted[x] => calibrated
=============================================================================
