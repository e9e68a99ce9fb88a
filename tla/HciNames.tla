------------------------------ MODULE HciNames ------------------------------
(***************************************************************************)
(* The tables of lib/hci.c that name bits and numbers of HCI, and the       *)
(* functions that go from one to the other.  A number of bits is the set of *)
(* them; a text is the sequence of the names in it, which is how it reads   *)
(* between blanks, where hci.c prints it, or between commas, where hci.c    *)
(* reads it: how it breaks lines is left out.                               *)
(***************************************************************************)
EXTENDS Integers, Sequences, FiniteSets, TLC, SequencesExt

Name(map) == [i \in DOMAIN map |-> map[i][1]]
Row(name, bits) == <<name, bits>>

\* hci_bit2str: every row that shares a bit
HciBit2Str(map, val) == Name(SelectSeq(map, LAMBDA row : row[2] \cap val # {}))

\* hci_str2bit: the bits of every name that is found, and whether one was
HciStr2Bit(map, names) ==
  LET rows == {row \in ToSet(map) : row[1] \in ToSet(names)}
  IN  [set |-> rows # {}, val |-> UNION {row[2] : row \in rows}]

\* hci_uint2str: the first row of that value
HciUint2Str(map, val) ==
  LET rows == SelectSeq(map, LAMBDA row : row[2] = val)
  IN  IF rows = <<>> THEN "" ELSE rows[1][1]

\* hci_str2uint: the value of the last name that is found
HciStr2Uint(map, names) ==
  LET found == SelectSeq(names, LAMBDA n : n \in ToSet(Name(map)))
  IN  IF found = <<>> THEN [set |-> FALSE, val |-> 0]
      ELSE [set |-> TRUE, val |-> (CHOOSE row \in ToSet(map) : row[1] = Last(found))[2]]

-----------------------------------------------------------------------------
BusNames == <<"Virtual", "USB", "PCCARD", "UART", "RS232", "PCI", "SDIO", "SPI", "I2C", "SMD">>
HciBusToStr(bus) == IF bus + 1 \in DOMAIN BusNames THEN BusNames[bus + 1] ELSE "Unknown"
\* the bus in the low half, the type of the controller above it
HciDTypeToStr(type) == HciBusToStr(type % 16)
HciTypeToStr(type) == CASE type = 0 -> "Primary" [] type = 1 -> "AMP" [] OTHER -> "Unknown"

dev_flags_map ==
  <<Row("UP", {0}), Row("INIT", {1}), Row("RUNNING", {2}), Row("RAW", {8}), Row("PSCAN", {3}),
    Row("ISCAN", {4}), Row("INQUIRY", {7}), Row("AUTH", {5}), Row("ENCRYPT", {6})>>
HciDFlagsToStr(flags) == (IF 0 \in flags THEN <<>> ELSE <<"DOWN">>) \o HciBit2Str(dev_flags_map, flags)

pkt_type_map ==
  <<Row("DM1", {3}), Row("DM3", {10}), Row("DM5", {14}), Row("DH1", {4}), Row("DH3", {11}),
    Row("DH5", {15}), Row("HV1", {5}), Row("HV2", {6}), Row("HV3", {7}), Row("2-DH1", {1}),
    Row("2-DH3", {8}), Row("2-DH5", {12}), Row("3-DH1", {2}), Row("3-DH3", {9}), Row("3-DH5", {13})>>

sco_ptype_map ==
  <<Row("HV1", {0}), Row("HV2", {1}), Row("HV3", {2}), Row("EV3", {3}), Row("EV4", {4}),
    Row("EV5", {5}), Row("2-EV3", {6}), Row("2-EV5", {8}), Row("3-EV3", {7}), Row("3-EV5", {9})>>

link_policy_map ==
  <<Row("NONE", {}), Row("RSWITCH", {0}), Row("HOLD", {1}), Row("SNIFF", {2}), Row("PARK", {3})>>

link_mode_map ==
  <<Row("NONE", {}), Row("ACCEPT", {15}), Row("MASTER", {0}), Row("AUTH", {1}), Row("ENCRYPT", {2}),
    Row("TRUSTED", {3}), Row("RELIABLE", {4}), Row("SECURE", {5})>>
HciLmToStr(lm) == (IF 0 \in lm THEN <<>> ELSE <<"SLAVE">>) \o HciBit2Str(link_mode_map, lm)

ver_map ==
  <<Row("1.0b", 0), Row("1.1", 1), Row("1.2", 2), Row("2.0", 3), Row("2.1", 4), Row("3.0", 5),
    Row("4.0", 6), Row("4.1", 7), Row("4.2", 8), Row("5.0", 9)>>
pal_map == <<Row("3.0", 1)>>

-----------------------------------------------------------------------------
\* the commands a controller may support, in the order of the mask; a name is
\* its number, but for those that share one
Reserved == (26 .. 32) \cup {98, 99} \cup (108 .. 114)
  \cup {134, 135, 139, 148, 149, 150, 160, 161, 165, 166, 167, 187, 188, 193, 199, 203, 231}
commands_map == [i \in 1 .. 232 |-> Row(IF i - 1 \in Reserved THEN "Reserved" ELSE ToString(i - 1), i - 1)]
HciCmdToStr(cmd) == HciUint2Str(commands_map, cmd)

\* hci_commandstostr: what a mask of 64 octets names
HciCommandsToStr(supported) == Name(SelectSeq(commands_map, LAMBDA row : row[2] \in supported))

\* the features by octet and bit; a name is both
FeatureBits(octet) == IF octet = 2 THEN <<0, 1, 2, 3, 7>> ELSE <<0, 1, 2, 3, 4, 5, 6, 7>>
lmp_features_map == [octet \in 0 .. 7 |->
  [i \in DOMAIN FeatureBits(octet) |-> Row(<<octet, FeatureBits(octet)[i]>>, {FeatureBits(octet)[i]})]]
LmpFeaturesToStr(features) ==
  FlattenSeq([i \in 1 .. 8 |-> HciBit2Str(lmp_features_map[i - 1], features[i - 1])])

-----------------------------------------------------------------------------
AllBits(map) == UNION {row[2] : row \in ToSet(map)}

\* what is printed of any bits, once its blanks are commas, reads as those of
\* them that the table knows; no name is of two rows
ReadsBack(map) == \A val \in {{}, AllBits(map)} \cup {a \cup b : a, b \in {{bit} : bit \in 0 .. 16}} :
  /\ HciStr2Bit(map, HciBit2Str(map, val)).val = val \cap AllBits(map)
  /\ IsInjective(Name(map))

NamesAssumption ==
  /\ \A map \in {dev_flags_map, pkt_type_map, sco_ptype_map, link_policy_map, link_mode_map} :
       ReadsBack(map)
  \* a device that is up is not called down, nor a master a slave
  /\ \A flags \in SUBSET {0, 1, 8} : ({"UP", "DOWN"} \ ToSet(HciDFlagsToStr(flags))) \in {{"UP"}, {"DOWN"}}
  /\ \A lm \in SUBSET {0, 5, 15} : ({"MASTER", "SLAVE"} \ ToSet(HciLmToStr(lm))) \in {{"MASTER"}, {"SLAVE"}}
  \* a version is read as it was printed, and nothing is printed of an unknown one
  /\ \A v \in 0 .. 12 : LET s == HciUint2Str(ver_map, v) IN
       IF v <= 9 THEN HciStr2Uint(ver_map, <<s>>) = [set |-> TRUE, val |-> v] ELSE s = ""
  /\ \A v \in 0 .. 12 : HciUint2Str(pal_map, v) # "" => HciUint2Str(pal_map, v) = HciUint2Str(ver_map, v + 4)
  \* each bit of the mask has its own row: two commands look alike only if both
  \* are reserved, and all that is supported is named
  /\ \A i, j \in 0 .. 231 : i # j /\ HciCmdToStr(i) = HciCmdToStr(j) => {i, j} \subseteq Reserved
  /\ \A s \in {{}, {5}, {26, 27, 231}, 0 .. 511} : Len(HciCommandsToStr(s)) = Cardinality(s \cap (0 .. 231))
  \* a feature is named once, but for the three bits of the third octet
  /\ LET all == LmpFeaturesToStr([octet \in 0 .. 7 |-> 0 .. 7]) IN
       IsInjective(all) /\ Len(all) = 61
  /\ \A type \in 0 .. 255 : HciDTypeToStr(type) = HciDTypeToStr(type % 16)
=============================================================================
