---------------------------- MODULE Peripherals -----------------------------
(***************************************************************************)
(* The three ways a program uses a Peripheral: with the calls of btle.py,   *)
(* through the classes of thingy52.py, or through those of sensortag.py.    *)
(* Which one is chosen at the start.                                        *)
(***************************************************************************)
EXTENDS SensorTag

CONSTANTS Thingies, Settings, MaxAsked, MaxCuts

VARIABLES library, place, class, object, handles, value, wished, cut, cuts

Thingy == INSTANCE Thingy52 WITH at <- place, asked <- wished

thingyVars == <<place, class, object, handles, value, wished, cut, cuts>>

PeripheralsInit ==
  /\ library \in {"btle", "thingy52", "sensortag"}
  /\ TagInit /\ Thingy!ThingyInit
  /\ library # "thingy52" => class = "battery"
  /\ library # "sensortag" => use = {}

PeripheralsNext ==
  \/ library = "btle" /\ AttrNext /\ UNCHANGED <<library, tagVars, thingyVars>>
  \/ library = "thingy52" /\ Thingy!ThingyNext /\ UNCHANGED <<library, tagVars>>
  \/ library = "sensortag" /\ TagNext /\ UNCHANGED <<library, thingyVars>>

PeripheralsSpec == PeripheralsInit /\ [][PeripheralsNext]_<<library, attrVars, tagVars, thingyVars>>

\* While the process has met devices of one layout, what a Thingy52 was last told and
\* returned from is what the device notifies of, and the delegate hears the right sensor,
ThingyNotifiesAsAsked == library = "thingy52" => Thingy!NotifiesAsAsked
\* and a field that configure() set keeps its value whatever is set later.
ThingyConfigured == library = "thingy52" => Thingy!ConfiguredAsAsked
=============================================================================
