--------------------------- MODULE ThingyClasses ----------------------------
(***************************************************************************)
(* The classes of thingy52.py as a table: the UUID of the service, the      *)
(* characteristics that enable() looks up, in its order, and which of them  *)
(* notify, the bytes of the configuration and what configure() rewrites.    *)
(***************************************************************************)

Char(name, uuid, notifies) == [name |-> name, uuid |-> uuid, notifies |-> notifies]
\* configure(): a value of width bytes from byte on
Field(name, width, byte) == [name |-> name, width |-> width, byte |-> byte]

BatterySensor == [uuid |-> 6159, order |-> <<Char("data", 10777, FALSE)>>, fields |-> <<>>, config |-> 0]

EnvironmentService == [uuid |-> 512, config |-> 12,
  order |-> <<Char("temperature", 513, TRUE), Char("pressure", 514, TRUE), Char("humidity", 515, TRUE),
              Char("gas", 516, TRUE), Char("color", 517, TRUE), Char("config", 518, FALSE)>>,
  fields |-> <<Field("temp_int", 2, 0), Field("press_int", 2, 2), Field("humid_int", 2, 4),
               Field("gas_mode_int", 1, 8), Field("color_int", 2, 6), Field("color_sens_calib", 3, 9)>>]

UserInterfaceService == [uuid |-> 768, fields |-> <<>>, config |-> 0,
  order |-> <<Char("led", 769, FALSE), Char("btn", 770, TRUE)>>]

MotionService == [uuid |-> 1024, config |-> 9,
  order |-> <<Char("config", 1025, FALSE), Char("tap", 1026, TRUE), Char("orient", 1027, TRUE),
              Char("quaternion", 1028, TRUE), Char("stepcnt", 1029, TRUE), Char("rawdata", 1030, TRUE),
              Char("euler", 1031, TRUE), Char("rotation", 1032, TRUE), Char("heading", 1033, TRUE),
              Char("gravity", 1034, TRUE)>>,
  fields |-> <<Field("step_int", 2, 0), Field("temp_comp_int", 2, 2), Field("magnet_comp_int", 2, 4),
               Field("motion_freq", 2, 6), Field("wake_on_motion", 1, 8)>>]

SoundService == [uuid |-> 1280, config |-> 2,
  order |-> <<Char("config", 1281, FALSE), Char("speaker_data", 1282, FALSE),
              Char("speaker_status", 1283, TRUE), Char("microphone", 1284, TRUE)>>,
  fields |-> <<Field("speaker_mode", 1, 0), Field("microphone_mode", 1, 1)>>]

\* Thingy52.__init__
Classes == [battery |-> BatterySensor, environment |-> EnvironmentService, ui |-> UserInterfaceService,
            motion |-> MotionService, sound |-> SoundService]
=============================================================================
