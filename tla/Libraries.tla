------------------------------ MODULE Libraries ------------------------------
(***************************************************************************)
(* The two ends of the way to a peripheral's attributes: the procedures of  *)
(* gatt.c in the helper (Gatt), and what the classes of btle.py,            *)
(* thingy52.py and sensortag.py remember of what those found (Peripherals). *)
(* A behaviour is one of either; nothing else moves.                        *)
(***************************************************************************)
EXTENDS Gatt, Peripherals

ASSUME LibrariesAssumption == Ends \subseteq Nat /\
  \A d \in Devices \cup Thingies \cup Tags : d # "none" /\ WellFormed(Database[d])

VARIABLE side

peripheralVars == <<library, attrVars, tagVars, thingyVars>>
librariesVars == <<side, gattVars, peripheralVars>>

\* a side that is not looked at begins in one state
LibrariesInit ==
  /\ side \in {"helper", "python"}
  /\ GattInit /\ PeripheralsInit
  /\ side = "helper" => library = "btle"

HelperSide == side = "helper" /\ GattNext /\ UNCHANGED <<side, peripheralVars>>
PythonSide == side = "python" /\ PeripheralsNext /\ UNCHANGED <<side, gattVars>>

\* the fairness of GattFairSpec
LibrariesSpec ==
  /\ LibrariesInit /\ [][HelperSide \/ PythonSide]_librariesVars
  /\ WF_librariesVars(PeerTalks /\ UNCHANGED <<side, valueVars, peripheralVars>>)
  /\ WF_librariesVars(Receive /\ UNCHANGED <<side, discoveryVars, peripheralVars>>)
  /\ WF_librariesVars(PeerTakes /\ UNCHANGED <<side, discoveryVars, peripheralVars>>)

\* Every procedure of gatt.c ends: a walk over the attributes, and a read, a
\* write or an exchange of the MTU.
ProceduresEnd == WalkEndsOrWraps /\ ValueEnds
=============================================================================
