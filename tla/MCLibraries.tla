------------------------------ MODULE MCLibraries ------------------------------
(* Both ends for TLC.                                                         *)
(*                                                                            *)
(* The peripherals a program opens: two plain ones, one with two services of  *)
(* a UUID, one of them empty, and one with a characteristic that has two      *)
(* descriptors and another at the end that has none; a Thingy:52 with all its *)
(* services; three SensorTags, of each version and one without a firmware     *)
(* revision.  For the helper, attributes with a UUID of 2 octets and of 16.   *)
EXTENDS Libraries, SequencesExt

Table == INSTANCE ThingyClasses

MCDevices == {"a", "b"}
MCThingies == {"t"}
MCTags == {"v1", "v2", "v0"}

Sense(c) == <<Attr("char", 0), Attr("value", c.uuid)>> \o (IF c.notifies THEN <<Attr("desc", Cccd)>> ELSE <<>>)
ThingyService(k) == <<Attr("service", k.uuid)>> \o FlattenSeq([i \in DOMAIN k.order |-> Sense(k.order[i])])
AllOfThingy == <<Table!BatterySensor, Table!EnvironmentService, Table!UserInterfaceService,
                 Table!MotionService, Table!SoundService>>

TagService(svc) == <<Attr("service", svc), Attr("char", 0), Attr("value", svc + 1), Attr("desc", Cccd),
                     Attr("char", 0), Attr("value", svc + 2)>>
Calibration == <<Attr("char", 0), Attr("value", CalUUID)>>
Keys == <<Attr("service", 65504), Attr("char", 0), Attr("value", 65505), Attr("desc", Cccd)>>
Info == <<Attr("service", 6154), Attr("char", 0), Attr("value", FirmwareRevision)>>
Level == <<Attr("service", 6159), Attr("char", 0), Attr("value", 10777)>>

MCDatabase == [
  a |-> <<Attr("service", 1), Attr("char", 0), Attr("value", 3), Attr("desc", 10498), Attr("desc", 10497),
          Attr("char", 0), Attr("value", 4), Attr("service", 2), Attr("char", 0), Attr("value", 3)>>,
  b |-> <<Attr("service", 2), Attr("char", 0), Attr("value", 3), Attr("desc", 10498),
          Attr("service", 1), Attr("service", 1)>>,
  t |-> FlattenSeq([i \in DOMAIN AllOfThingy |-> ThingyService(AllOfThingy[i])]),
  v0 |-> TagService(43520) \o Keys,
  v1 |-> Info \o TagService(43520) \o TagService(43536) \o TagService(43584) \o Calibration \o TagService(43600) \o Keys,
  v2 |-> Info \o TagService(43520) \o TagService(43648) \o TagService(43632) \o Level \o Keys]

\* what one program sets or switches
MCSettings == {"temperature", "color", "temp_int", "press_int", "gas_mode_int", "color_sens_calib", "btn", "tap",
               "step_int", "wake_on_motion", "microphone", "speaker_mode", "microphone_mode"}
MCUses == {{"accelerometer", "magnetometer", "gyroscope"}, {"barometer", "IRtemperature"},
           {"keypress", "lightmeter"}, {"battery", "IRtemperature"}, {}}

Short == << 15, 24 >>
Long == << 1, 2, 3, 4, 5, 6, 7, 8, 9, 10, 11, 12, 13, 14, 15, 16 >>
MCUuids == {Short, Long}
===============================================================================
