----------------------------- MODULE Discovery -----------------------------
(* The walks of attrib/gatt.c over a peer's attributes: primary services,   *)
(* all of them or those of a UUID; included services; characteristics;      *)
(* descriptors.  A walk asks for a range of handles, and from what it is    *)
(* told decides whether to ask for the rest.  Packets are those of AttPdu.  *)
(*                                                                          *)
(* One walk at a time, as btle.py asks for them.  Its requests reach the    *)
(* peer in order, each after the answer to the one before (AttBearer).  The *)
(* counts of references that keep a walk's record alive are the number of   *)
(* its requests outstanding, Len(asked), and need no variable.              *)
EXTENDS AttPdu, FiniteSets
Ext == INSTANCE SequencesExt

CONSTANTS
  Handles,      \* handles at which the peer may have an attribute of the kind asked for
  Uuids,        \* their UUIDs, of 2 or 16 octets
  Told,         \* handles that a peer that is wrong may speak of
  Mtu

VARIABLES
  db,           \* the peer's attributes of the kind the walk looks for
  walk,         \* struct discover_primary, included_discovery, discover_char, discover_desc
  asked,        \* its requests, in the order they were sent
  found,        \* what it has been told of so far
  result,       \* the calls of its callback
  honest,       \* whether the peer has told the truth during this walk
  lost          \* whether the link went down during it

discoveryVars == << db, walk, asked, found, result, honest, lost >>

Top == HandleSpace - 1         \* 0xffff
Primary == << 0, 40 >>         \* GATT_PRIM_SVC_UUID
Include == << 2, 40 >>         \* GATT_INCLUDE_UUID
Charac == << 3, 40 >>          \* GATT_CHARAC_UUID

AnyUuid == << >>               \* no UUID given
NoWalk == [op |-> "none"]

(* A service, an include, a characteristic or a descriptor. *)
Entry(handle, end, uuid) == [handle |-> handle, end |-> end, uuid |-> Uuid128(uuid)]

ByHandle(entries) == Ext!SetToSortSeq(entries, LAMBDA a, b : a.handle < b.handle)

-----------------------------------------------------------------------------
(* The peer. *)

(* What a peer can have: attributes at some handles; services whose groups  *)
(* do not overlap; declarations of characteristics, each before its value.  *)
Placed == UNION {[S -> Uuids] : S \in SUBSET Handles}

Attributes(at, endOf) ==
  {[handle |-> h, end |-> endOf[h], uuid |-> at[h]] : h \in DOMAIN at}

ServiceDbs ==
  UNION {{Attributes(at, endOf) :
            endOf \in {f \in [DOMAIN at -> Handles] :
                         \A h \in DOMAIN at : /\ f[h] >= h
                                             /\ \A g \in DOMAIN at : g > h => g > f[h]}} :
           at \in Placed}
CharDbs ==
  {Attributes(at, [h \in DOMAIN at |-> h + 1]) :
     at \in {p \in Placed : \A h \in DOMAIN p : h < Top /\ h + 1 \notin DOMAIN p}}
PlainDbs == {Attributes(at, [h \in DOMAIN at |-> h]) : at \in Placed}

Databases(op) ==
  CASE op \in {"all", "byUuid"} -> ServiceDbs
    [] op = "chars" -> CharDbs
    [] OTHER -> PlainDbs

Element(op, e) ==
  Le16(e.handle) \o
  CASE op = "all"      -> Le16(e.end) \o e.uuid
    [] op = "byUuid"   -> Le16(e.end)
    [] op = "included" -> Le16(e.handle) \o Le16(e.end) \o
                          (IF Len(e.uuid) = 2 THEN e.uuid ELSE << >>)
    [] op = "chars"    -> << 2 >> \o Le16(e.end) \o e.uuid
    [] op = "descs"    -> e.uuid

Answer(op, entries) ==
  LET elements == [i \in DOMAIN entries |-> Element(op, entries[i])]
      elen == Len(elements[1])
  IN  CASE op = "all"    -> EncReadByGrpResp(elements, elen, Mtu)
        [] op = "byUuid" -> EncFindByTypeResp(elements, Mtu)
        [] op = "descs"  ->
             EncFindInfoResp(IF elen = 4 THEN 1 ELSE 2, elements, elen, Mtu)
        [] OTHER         -> EncReadByTypeResp(elements, elen, Mtu)

(* What a request asks for, and the attributes there that answer it, *)
(* in order, as long as they are of one length.                      *)
Wanted(op, pdu) ==
  CASE op = "all"    -> DecReadByGrpReq(pdu)
    [] op = "byUuid" -> DecFindByTypeReq(pdu)
    [] op = "descs"  -> DecFindInfoReq(pdu)
    [] OTHER         -> DecReadByTypeReq(pdu)

Matching(op, pdu) ==
  LET w == Wanted(op, pdu)
      within == ByHandle({e \in db : /\ e.handle \in w.start..w.end
                                     /\ op = "byUuid" => SameUuid(e.uuid, w.value)})
      alike == {i \in DOMAIN within :
                  \A j \in 1..i : Len(Element(op, within[j])) = Len(Element(op, within[1]))}
  IN  SubSeq(within, 1, Cardinality(alike))

-----------------------------------------------------------------------------

(* The requests. *)
Find(op, start, end, uuid) ==
  [call |-> "find",
   pdu |-> CASE op = "all"      -> EncReadByGrpReq(start, end, Primary)
             [] op = "byUuid"   -> EncFindByTypeReq(start, end, Primary, uuid, Mtu)
             [] op = "included" -> EncReadByTypeReq(start, end, Include)
             [] op = "chars"    -> EncReadByTypeReq(start, end, Charac)
             [] op = "descs"    -> EncFindInfoReq(start, end)]

(* An included service with a long UUID is read to learn it. *)
Resolve(incl) == [call |-> "resolve", pdu |-> EncReadReq(incl.start), incl |-> incl]

(* Bound: the list is kept in the model up to one entry more than the peer *)
(* has, and one entry from a peer that is wrong.                           *)
Kept(list) == First(list, IF honest THEN Cardinality(db) + 1 ELSE 1)

(* A list that could be decoded, of elements of one of these lengths. *)
IsList(list, lengths) == IF list = None THEN FALSE ELSE list.len \in lengths

-----------------------------------------------------------------------------
(* gatt_discover_primary, gatt_find_included, gatt_discover_char and *)
(* gatt_discover_desc.                                               *)
Start(op, start, end, uuid) ==
  /\ walk = NoWalk
  /\ db' \in Databases(op)
  /\ walk' = [op |-> op, start |-> start, end |-> end, uuid |-> uuid, err |-> Success,
              from |-> start, round |-> 0]
  /\ asked' = << Find(op, start, end, uuid) >>
  /\ UNCHANGED << found, result, honest, lost >>

DoneMutant(err, list) ==
  /\ result' = Append(result, [err |-> err, found |-> found])
  /\ found' = list
  /\ asked' = Tail(asked)
  /\ walk' = walk

(* The callback is called, and the request that ended is destroyed. *)
Done(err, list) ==
  /\ result' = Append(result, [err |-> err, found |-> list])
  /\ found' = list
  /\ asked' = Tail(asked)
  /\ walk' = walk

AskOnMutant(start, list) ==
  /\ walk' = [walk EXCEPT !.start = start - 1, !.round = 1 - @]
  /\ found' = list
  /\ asked' = Append(Tail(asked), Find(walk.op, start - 1, walk.end, walk.uuid))
  /\ UNCHANGED result

(* The rest is asked for.  "round" tells a request from the one before it, *)
(* which may have been for the same range.                                 *)
AskOn(start, list) ==
  /\ walk' = [walk EXCEPT !.start = start, !.round = 1 - @]
  /\ found' = list
  /\ asked' = Append(Tail(asked), Find(walk.op, start, walk.end, walk.uuid))
  /\ UNCHANGED result

PrimaryAllCb(status, pdu) ==
  LET list == DecReadByGrpResp(pdu)
      service(data) == Entry(Word(data, 0), Word(data, 2), Tail0(data, 4))
      now == Kept(found \o [i \in DOMAIN list.data |-> service(list.data[i])])
      end == Word(list.data[Len(list.data)], 2)
  IN  \/ status # Success
         /\ Done(IF status = NotFound THEN Success ELSE status, found)
      \/ status = Success /\ list = None
         /\ Done(Io, found)
      \/ status = Success /\ list # None /\ ~ IsList(list, {6, 20})
         /\ Done(InvalidPdu, found)
      \/ /\ status = Success /\ IsList(list, {6, 20})
         /\ IF end < walk.start THEN Done(Unlikely, now)
            ELSE IF end = Top THEN Done(Success, now)
            ELSE AskOn(end + 1, now)

PrimaryByUuidCb(status, pdu) ==
  LET list == DecFindByTypeResp(pdu)
      service(range) == Entry(range.start, range.end, walk.uuid)
      now == Kept(found \o [i \in DOMAIN list.data |-> service(list.data[i])])
      end == list.data[Len(list.data)].end
  IN  \/ status # Success
         /\ Done(IF status = NotFound THEN Success ELSE status, found)
      \/ status = Success /\ list = None
         /\ Done(Success, found)
      \/ /\ status = Success /\ list # None
         /\ IF end = Top THEN Done(Success, now)
            ELSE IF end < walk.start THEN Done(Unlikely, now)
            ELSE AskOn(end + 1, now)

(* The list that is left when those with another UUID are passed over. *)
OfUuid(list) ==
  IF walk.uuid = AnyUuid THEN list ELSE SelectSeq(list, LAMBDA e : SameUuid(e.uuid, walk.uuid))

(* A value of another length than 7 is taken to hold a long UUID. *)
CharDiscoveredCb(status, pdu) ==
  LET list == DecReadByTypeResp(pdu)
      char(data) == Entry(Word(data, 0), Word(data, 3), Tail0(data, 5))
      now == Kept(found \o OfUuid([i \in DOMAIN list.data |-> char(list.data[i])]))
      last == Word(list.data[Len(list.data)], 0)
      start == (last + 1) % HandleSpace
  IN  \/ status = NotFound
         /\ Done(IF found # << >> THEN Success ELSE NotFound, found)
      \/ status \notin {Success, NotFound}
         /\ Done(status, found)
      \/ status = Success /\ list = None
         /\ Done(Io, found)
      \/ /\ status = Success /\ list # None
         /\ IF last < walk.start THEN Done(Unlikely, now)
            ELSE IF last # 0 /\ start < walk.end THEN AskOn(start, now)
            ELSE Done(Success, now)

(* The list up to the first descriptor with the UUID looked for: the loop  *)
(* stops there, and so does the walk.                                      *)
DescDiscoveredCb(status, pdu) ==
  LET list == DecFindInfoResp(pdu)
      desc(data) == Entry(Word(data, 0), Word(data, 0), Tail0(data, 2))
      told == [i \in DOMAIN list.data |-> desc(list.data[i])]
      wanted == {i \in DOMAIN told : walk.uuid # AnyUuid /\ SameUuid(told[i].uuid, walk.uuid)}
      seen == IF wanted = {} THEN told
              ELSE SubSeq(told, 1, CHOOSE i \in wanted : \A j \in wanted : i <= j)
      now == Kept(found \o OfUuid(seen))
      last == IF seen = << >> THEN Top ELSE seen[Len(seen)].handle
  IN  \/ status = NotFound
         /\ Done(IF found # << >> THEN Success ELSE NotFound, found)
      \/ status \notin {Success, NotFound}
         /\ Done(status, found)
      \/ status = Success /\ list = None
         /\ Done(Io, found)
      \/ /\ status = Success /\ list # None
         /\ IF last < walk.start THEN Done(Unlikely, now)
            ELSE IF last < walk.end /\ wanted = {} THEN AskOn(last + 1, now)
            ELSE Done(Success, now)

SettledMutant(start, others, list, err) ==
  /\ asked' = Tail(asked) \o others
  /\ found' = list
  /\ walk' = [walk EXCEPT !.start = start, !.err = err]
  /\ result' = IF others # << >> THEN result
               ELSE Append(result, [err |-> err, found |-> IF err = Success THEN list ELSE << >>])

(* A request of an included discovery ended, and sent others before it did. *)
(* isd_unref: with the last of them the callback is called.                 *)
Settled(start, others, list, err) ==
  LET left == Tail(asked) \o others
  IN  /\ asked' = left
      /\ found' = list
      /\ walk' = [walk EXCEPT !.start = start, !.err = err]
      /\ result' = IF left # << >> THEN result
                   ELSE Append(result, [err |-> err,
                                        found |-> IF err = Success THEN list ELSE << >>])

(* The first error stays. *)
Sticky(err) == IF walk.err = Success THEN err ELSE walk.err

FindIncludedCb(status, pdu) ==
  LET list == DecReadByTypeResp(pdu)
      incl(data) == [handle |-> Word(data, 0), start |-> Word(data, 2), end |-> Word(data, 4),
                     uuid |-> Tail0(data, 6)]
      told == [i \in DOMAIN list.data |-> incl(list.data[i])]
      short == list.len = 8
      resolves == IF short THEN << >> ELSE [i \in DOMAIN told |-> Resolve(told[i])]
      now == IF short
             THEN Kept(found \o [i \in DOMAIN told |->
                                  Entry(told[i].handle, told[i].end, told[i].uuid)])
             ELSE found
      last == told[Len(told)].handle
  IN  \/ status # Success
         /\ Settled(walk.start, << >>, found, Sticky(IF status = NotFound THEN Success ELSE status))
      \/ status = Success /\ ~ IsList(list, {6, 8})
         /\ Settled(walk.start, << >>, found, Sticky(Io))
      \/ /\ status = Success /\ IsList(list, {6, 8})
         /\ IF last < walk.start THEN Settled(walk.start, resolves, now, Unlikely)
            ELSE IF last < walk.end
                 THEN Settled(last + 1, Append(resolves,
                                Find("included", last + 1, walk.end, AnyUuid)), now, walk.err)
            ELSE Settled((last + 1) % HandleSpace, resolves, now, walk.err)

ResolveIncludedUuidCb(status, pdu) ==
  LET value == DecReadResp(pdu, Mtu)
      whole == IF value = None THEN FALSE ELSE Len(value.value) = 16
      incl == Head(asked).incl
  IN  \/ status # Success
         /\ Settled(walk.start, << >>, found, Sticky(status))
      \/ status = Success /\ ~ whole
         /\ Settled(walk.start, << >>, found, Sticky(Io))
      \/ /\ status = Success /\ whole
         /\ Settled(walk.start, << >>, Kept(Append(found, Entry(incl.handle, incl.end, value.value))),
                    walk.err)

-----------------------------------------------------------------------------
(* What comes back for the request the peer has. *)
Answered(status, pdu) ==
  CASE Head(asked).call = "resolve" -> ResolveIncludedUuidCb(status, pdu)
    [] OTHER ->
       CASE walk.op = "all"      -> PrimaryAllCb(status, pdu)
         [] walk.op = "byUuid"   -> PrimaryByUuidCb(status, pdu)
         [] walk.op = "included" -> FindIncludedCb(status, pdu)
         [] walk.op = "chars"    -> CharDiscoveredCb(status, pdu)
         [] walk.op = "descs"    -> DescDiscoveredCb(status, pdu)

(* The peer answers with some of what it has, at least one attribute. *)
PeerTells ==
  /\ asked # << >> /\ Head(asked).call = "find"
  /\ LET matching == Matching(walk.op, Head(asked).pdu)
     IN  IF matching = << >> THEN Answered(NotFound, << >>)
         ELSE \E n \in 1..Len(matching) :
                Answered(Success, Answer(walk.op, SubSeq(matching, 1, n)))
  /\ UNCHANGED << db, honest, lost >>

(* It reads out the declaration of an included service, its UUID. *)
PeerReads ==
  /\ asked # << >> /\ Head(asked).call = "resolve"
  /\ LET handle == DecReadReq(Head(asked).pdu).handle
         there == {e \in db : e.handle = handle}
     IN  IF there = {} THEN Answered(Refused, << >>)
         ELSE Answered(Success, EncReadResp((CHOOSE e \in there : TRUE).uuid, Mtu))
  /\ UNCHANGED << db, honest, lost >>

PeerRefuses ==
  /\ asked # << >>
  /\ Answered(Refused, << >>)
  /\ UNCHANGED << db, honest, lost >>

(* A peer that is wrong: attributes it does not have, or a packet that *)
(* breaks off.                                                         *)
PeerErrs ==
  /\ asked # << >>
  /\ \E h, e \in Told, u \in Uuids :
       \E pdu \in {Answer(walk.op, << [handle |-> h, end |-> e, uuid |-> u] >>)} :
         Answered(Success, pdu) \/ Answered(Success, First(pdu, Len(pdu) - 1))
  /\ honest' = FALSE
  /\ UNCHANGED << db, lost >>

(* The link went down: every request is destroyed with no answer, and that *)
(* of an included discovery calls back all the same.                       *)
LinkLost ==
  /\ asked # << >>
  /\ asked' = << >>
  /\ lost' = TRUE
  /\ result' = IF walk.op = "included"
               THEN Append(result, [err |-> walk.err,
                                    found |-> IF walk.err = Success THEN found ELSE << >>])
               ELSE result
  /\ UNCHANGED << db, walk, found, honest >>

(* The next walk begins afresh. *)
Forget ==
  /\ walk # NoWalk /\ asked = << >>
  /\ db' = {} /\ walk' = NoWalk /\ found' = << >> /\ result' = << >>
  /\ honest' = TRUE /\ lost' = FALSE
  /\ UNCHANGED asked

DiscoveryInit ==
  /\ db = {} /\ walk = NoWalk /\ asked = << >> /\ found = << >> /\ result = << >>
  /\ honest = TRUE /\ lost = FALSE

Walks ==
  \/ Start("all", 1, Top, AnyUuid)
  \/ \E u \in Uuids : Start("byUuid", 1, Top, u)
  \/ \E s, e \in Handles : s <= e /\ Start("included", s, e, AnyUuid)
  \/ \E s, e \in Handles, u \in Uuids \cup {AnyUuid}, op \in {"chars", "descs"} :
       s <= e /\ Start(op, s, e, u)

PeerTalks == LinkLost \/ PeerRefuses \/ PeerTells \/ PeerReads \/ PeerErrs

DiscoveryNext == Walks \/ PeerTalks \/ Forget

DiscoverySpec == DiscoveryInit /\ [][DiscoveryNext]_discoveryVars

(* A request ends: it is answered, it times out, or the link goes down. *)
DiscoveryFairSpec == DiscoverySpec /\ WF_discoveryVars(PeerTalks)

-----------------------------------------------------------------------------
DiscoveryTypeOK ==
  /\ walk # NoWalk => /\ walk.start \in 0..Top /\ walk.end \in 1..Top
                      /\ walk.err \in {Success, Refused, Unlikely, Io}
  /\ \A i \in DOMAIN asked :
       \/ asked[i].call = "resolve" /\ DecReadReq(asked[i].pdu) # None
       \/ asked[i].call = "find" /\ Wanted(walk.op, asked[i].pdu) # None
  /\ \A i \in DOMAIN found : found[i].handle \in 0..Top /\ Len(found[i].uuid) = 16

(* What a walk should find. *)
Reference ==
  LET wide(e) == [e EXCEPT !.uuid = Uuid128(@)]
      all == ByHandle({wide(e) : e \in {f \in db : f.handle \in walk.from..walk.end}})
  IN  CASE walk.op = "descs" /\ walk.uuid # AnyUuid /\ OfUuid(all) # << >> ->
             SubSeq(OfUuid(all), 1, 1)
        [] OTHER -> OfUuid(all)

(* A declaration at the last handle of the range: its value is outside, *)
(* and the walk of the characteristics need not see it.                 *)
CutShort == walk.op = "chars" /\ \E e \in db : e.handle = walk.end

(* A walk that reports no error found, from a peer that told the truth on a *)
(* link that stayed up, exactly what the peer has in the range, each once   *)
(* and in order, however the peer cut it into answers; and one that reports *)
(* "not found" had nothing to find.                                         *)
FindsEverything ==
  DiscoveryTypeOK /\ \A i \in DOMAIN result : honest /\ ~ lost /\ ~ CutShort =>
    CASE result[i].err = Success  -> result[i].found = Reference
      [] result[i].err = NotFound -> Reference = << >>
      [] OTHER                    -> result[i].err = Refused

(* A walk calls back once, when none of its requests is left; only one whose *)
(* link went down may say nothing.                                           *)
CallsBackOnce ==
  walk # NoWalk =>
    Len(result) \in (IF asked # << >> THEN {0} ELSE IF lost THEN {0, 1} ELSE {1})

(* Every walk comes to an end, whatever the peer answers; that of the    *)
(* characteristics unless the peer tells it of the last handle of all.   *)
WalkEndsOrWraps ==
  walk # NoWalk ~> (asked = << >> \/ (walk.op = "chars" /\ walk.start = 0))
=============================================================================
