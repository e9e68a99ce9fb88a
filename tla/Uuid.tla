------------------------------- MODULE Uuid --------------------------------
(***************************************************************************)
(* The UUIDs of lib/uuid.c: how the helper reads those it is given, prints  *)
(* those it found and puts them into PDUs.  A text is what bt_string_to_uuid *)
(* tells apart: hexadecimal digits, with "0x" before them, or in the five   *)
(* groups of a UUID of 128 bits.  Its value are the octets of the digits, the *)
(* most significant one first, as in bt_uuid_t.                             *)
(***************************************************************************)
EXTENDS Naturals, Sequences, SequencesExt

Unspecified == [type |-> 0, value |-> <<>>]

BluetoothBase == << 0, 0, 0, 0, 0, 0, 16, 0, 128, 0, 0, 128, 95, 155, 52, 251 >>

Text(form, value) == [form |-> form, value |-> value]

\* the number of characters
Length(text) ==
  CASE text.form = "digits"  -> 2 * Len(text.value)
    [] text.form = "0x"      -> 2 * Len(text.value) + 2
    [] text.form = "grouped" -> 36

-----------------------------------------------------------------------------
(* Between the sizes.                                                       *)

Uuid16(value) == [type |-> 16, value |-> value]
Uuid32(value) == [type |-> 32, value |-> value]
Uuid128(value) == [type |-> 128, value |-> value]

\* the base UUID with these octets put in behind the first few
Placed(value, offset) ==
  [i \in 1 .. 16 |-> IF i - offset \in DOMAIN value THEN value[i - offset] ELSE BluetoothBase[i]]

ToUuid128(uuid) ==
  CASE uuid.type = 16 -> Uuid128(Placed(uuid.value, 2))
    [] uuid.type = 32 -> Uuid128(Placed(uuid.value, 0))
    [] OTHER -> uuid

Same(a, b) == ToUuid128(a) = ToUuid128(b)

-----------------------------------------------------------------------------
(* Texts.                                                                   *)

\* the last n octets: what an integer of that size keeps of what strtol read
Low(value, n) ==
  SubSeq([i \in 1 .. n |-> 0] \o value, Len(value) + 1, Len(value) + n)

IsUuid128(text) == text.form = "grouped"
IsBaseUuid128(text) == IsUuid128(text) /\ text.value = Placed(SubSeq(text.value, 3, 4), 2)
IsUuid32(text) == Length(text) \in {8, 10}
IsUuid16(text) == Length(text) \in {4, 6}

\* what precedes the digits that strtol reads is left out
StringToUuid16(value) == Uuid16(Low(value, 2))
StringToUuid32(value) == Uuid32(Low(value, 4))

StringToUuid(text) ==
  CASE IsBaseUuid128(text) -> StringToUuid16(SubSeq(text.value, 3, 4))
    [] IsUuid128(text) /\ ~IsBaseUuid128(text) -> Uuid128(text.value)
    [] IsUuid32(text) -> StringToUuid32(text.value)
    [] IsUuid16(text) -> StringToUuid16(text.value)
    [] OTHER -> Unspecified

UuidToString(uuid) == Text("grouped", ToUuid128(uuid).value)

\* bt_uuid_strcmp
SameText(a, b) ==
  /\ StringToUuid(a) # Unspecified /\ StringToUuid(b) # Unspecified
  /\ Same(StringToUuid(a), StringToUuid(b))

-----------------------------------------------------------------------------
(* PDUs.                                                                    *)

\* bt_uuid_to_le, and put_uuid_le of attrib/gatt.c
ToLe(uuid) == IF uuid.type = 16 THEN Reverse(uuid.value) ELSE Reverse(ToUuid128(uuid).value)

-----------------------------------------------------------------------------
(* What the two ends of the helper rest on, for texts of every form and     *)
(* values that meet and miss the base UUID.                                 *)

Octets == {0, 255}
Shorts == {<<a, b>> : a, b \in Octets}
Groups ==
  {Placed(v, o) : v \in Shorts, o \in {0, 2, 14}} \cup {Placed(v \o w, 0) : v, w \in Shorts}
Texts ==
  {Text(form, v) : form \in {"digits", "0x"},
                   v \in {<<a>> : a \in Octets} \cup Shorts \cup {v \o w : v, w \in Shorts}
                         \cup {<<a>> \o v : a \in Octets, v \in Shorts}}
  \cup {Text("grouped", g) : g \in Groups}
Read == {StringToUuid(t) : t \in Texts} \ {Unspecified}

Pdus == INSTANCE AttPdu

UuidAssumption ==
  \* what was read is printed and read again as the same UUID; in the long form
  \* that btle.py gives, every short UUID is found
  /\ \A u \in Read : Same(StringToUuid(UuidToString(u)), u)
  /\ \A v \in Shorts : StringToUuid(Text("grouped", Placed(v, 2))) = Uuid16(v)
  \* the comparison of texts, of values and of what PDUs hold is one
  /\ \A t, u \in Texts :
       SameText(t, u) <=> StringToUuid(t) # Unspecified /\ UuidToString(StringToUuid(t)) = UuidToString(StringToUuid(u))
  /\ \A u, v \in Read : Same(u, v) <=> Pdus!SameUuid(ToLe(u), ToLe(v))
=============================================================================
