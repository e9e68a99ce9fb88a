---------------------------- MODULE Layers_proofs ----------------------------
(***************************************************************************)
(* Theorems about what the connections are built from, for any number of    *)
(* registrations, entries and sources: what leaves a list is destroyed      *)
(* once, everyone registered is told of an event once, and queue.c is a     *)
(* sequence.                                                                *)
(***************************************************************************)
EXTENDS Layers, FiniteSetTheorems, SequenceTheorems, TLAPS

-----------------------------------------------------------------------------
(* Least numbers.                                                           *)

\* A set of naturals that is not empty has a least element.
LEMMA NatMin ==
  ASSUME NEW T \in SUBSET Nat, T # {}
  PROVE  \E x \in T : \A y \in T : x <= y
<1> DEFINE Down(n) == 0 .. n
           D == {Down(n) : n \in T}
           R == StrictSubsetOrdering(Nat)
<1>1. D \subseteq FiniteSubsetsOf(Nat) /\ D # {}
  <2>1. \A n \in T : Down(n) \in SUBSET Nat /\ IsFiniteSet(Down(n))
    BY FS_Interval
  <2> QED BY <2>1 DEF FiniteSubsetsOf
<1>2. IsWellFoundedOn(R, FiniteSubsetsOf(Nat))
  BY FS_StrictSubsetOrderingWellFounded
<1> HIDE DEF R
<1>3. PICK d \in D : \A y \in D : ~(<<y, d>> \in R)
  BY <1>1, <1>2, WFMin
<1>4. PICK x \in T : d = Down(x)
  OBVIOUS
<1>5. \A y \in T : x <= y
  <2> SUFFICES ASSUME NEW y \in T, ~(x <= y) PROVE FALSE
    OBVIOUS
  <2>1. y < x /\ x \in Nat /\ y \in Nat
    OBVIOUS
  <2>2. x \in Down(x) /\ x \notin Down(y) /\ Down(y) \subseteq Down(x)
    BY <2>1
  <2>3. <<Down(y), Down(x)>> \in R
    <3>1. Down(x) \subseteq Nat /\ Down(y) \subseteq Nat
      BY <2>1
    <3> QED BY <2>2, <3>1 DEF R, StrictSubsetOrdering
  <2> QED BY <2>3, <1>3, <1>4
<1> QED BY <1>5

LEMMA MinIsLeast ==
  ASSUME NEW T \in SUBSET Nat, T # {}
  PROVE  Min(T) \in T /\ \A y \in T : Min(T) <= y
BY NatMin DEF Min

\* The entry after these numbers is NULL, or the least of them.
LEMMA FirstOfThese ==
  ASSUME NEW T \in SUBSET Nat, 0 \notin T
  PROVE  /\ FirstOf(T) = 0 <=> T = {}
         /\ T # {} => FirstOf(T) \in T /\ \A y \in T : FirstOf(T) <= y
         /\ FirstOf(T) \in Nat
<1>1. CASE T = {}
  BY <1>1 DEF FirstOf
<1>2. CASE T # {}
  <2>1. FirstOf(T) = Min(T)
    BY <1>2 DEF FirstOf
  <2>2. Min(T) \in T /\ \A y \in T : Min(T) <= y
    BY <1>2, MinIsLeast
  <2>3. Min(T) # 0 /\ Min(T) \in Nat
    BY <2>2
  <2> QED BY <1>2, <2>1, <2>2, <2>3
<1> QED BY <1>1, <1>2

-----------------------------------------------------------------------------
(* The lists of registrations.                                              *)

Topic == {NoNote.topic} \cup UNION {Topics[l] : l \in Lists}
Note == [of : Lists \cup {"none"}, topic : Topic, removed : BOOLEAN, ended : Nat]
Event == {NoWalk.event} \cup UNION {Events[l] : l \in Lists}
Walk == [of : Lists \cup {"none"}, event : Event, at : Nat, next : Nat, calling : BOOLEAN,
         called : Seq(Nat)]

\* Types; a list holds what was made, and a registration in it is of that list.
NotifyTypeOK ==
  /\ made \in 0 .. MaxNote
  /\ queue \in [Lists -> SUBSET (1 .. made)]
  /\ note \in [Id -> Note]
  /\ callbacks \in SUBSET (1 .. made)
  /\ linked \in {"open", "gone", "freed"} /\ cleanup \in BOOLEAN
  /\ walk \in Walk
  /\ walk.calling => Walking
  /\ due \in SUBSET (1 .. made)

\* What is in a list was not destroyed, and a number not given out is fresh.
Listing ==
  /\ \A l \in Lists : \A i \in queue[l] : note[i].of = l
  /\ \A i \in Id : i > made => note[i] = NoNote
  /\ \A i \in callbacks : i \in queue["att"] \/ note[i].of = "none"

\* Marks are left in a list by a loop over it that will clean up.
Marks ==
  /\ \A i \in Id : note[i].removed => note[i].of = "mgmt"
  /\ walk.of # "mgmt" => ~cleanup
  /\ ~cleanup => \A i \in queue["mgmt"] : ~note[i].removed

EndsInv == NotifyTypeOK /\ Listing /\ Marks /\ EndsOnce

LEMMA NotifyTypes ==
  /\ Lists = {"mgmt", "att", "disconn"}
  /\ MaxNote \in Nat /\ MaxEvent \in Nat
  /\ Id = 1 .. MaxNote
BY NotifyAssumption DEF Lists, Id

LEMMA NotifyInitInv == NotifyInit => EndsInv
<1> SUFFICES ASSUME NotifyInit PROVE EndsInv
  OBVIOUS
<1> USE DEF NotifyInit
<1>1. NoNote \in Note /\ NoNote.of = "none" /\ ~NoNote.removed
  BY DEF NoNote, Note, Topic
<1>2. NoWalk \in Walk /\ NoWalk.of = "none" /\ ~NoWalk.calling
  BY DEF NoWalk, Walk, Event
<1>4. NotifyTypeOK
  <2>1. queue \in [Lists -> SUBSET (1 .. made)] /\ note \in [Id -> Note]
    BY <1>1
  <2>2. walk \in Walk /\ (walk.calling => Walking)
    BY <1>2 DEF Walking
  <2>3. made \in 0 .. MaxNote
    BY NotifyTypes
  <2>4. callbacks \in SUBSET (1 .. made) /\ due \in SUBSET (1 .. made)
    OBVIOUS
  <2>5. linked \in {"open", "gone", "freed"} /\ cleanup \in BOOLEAN
    OBVIOUS
  <2> QED BY <2>1, <2>2, <2>3, <2>4, <2>5 DEF NotifyTypeOK
<1>3. Listing /\ Marks /\ EndsOnce
  BY <1>1, <1>2, NotifyTypes DEF Listing, Marks, EndsOnce, Listed, Walking
<1> QED BY <1>3, <1>4 DEF EndsInv

\* A registration joins a list, or only its callback stays.
Joined(l, topic) ==
  /\ made < MaxNote /\ made' = made + 1
  /\ JoinsBearer(l, topic) \/ Joins(l, topic)
  /\ callbacks' \in {callbacks, callbacks \cup {made'}}
  /\ l = "att" => made' \in callbacks'
  /\ l # "att" => callbacks' = callbacks
  /\ UNCHANGED <<linked, cleanup, walk, due>>

LEMMA JoinedInv ==
  ASSUME EndsInv, NEW l \in Lists, NEW topic \in Topics[l], Joined(l, topic)
  PROVE  EndsInv'
<1> USE DEF EndsInv
<1>1. made' \in Id /\ made' \in 0 .. MaxNote /\ made' = made + 1 /\ made \in 0 .. MaxNote
  BY NotifyTypes DEF Joined, NotifyTypeOK
<1>2. CASE UNCHANGED <<queue, note>>
  <2>1. NotifyTypeOK'
    <3>1. queue' \in [Lists -> SUBSET (1 .. made')]
      BY <1>1, <1>2 DEF NotifyTypeOK
    <3>2. callbacks' \in SUBSET (1 .. made') /\ due' \in SUBSET (1 .. made')
      BY <1>1 DEF Joined, NotifyTypeOK
    <3> QED BY <1>1, <1>2, <3>1, <3>2 DEF NotifyTypeOK, Joined, Walking
  <2>2. note[made'] = NoNote
    BY <1>1 DEF Listing
  <2>3. Listing'
    BY <1>1, <1>2, <2>2 DEF Joined, Listing, NoNote
  <2>4. Marks' /\ EndsOnce'
    BY <1>1, <1>2 DEF Joined, Marks, EndsOnce, Listed, Walking
  <2> QED BY <2>1, <2>3, <2>4
<1>3. CASE Joins(l, topic)
  <2> DEFINE n == [NoNote EXCEPT !.of = l, !.topic = topic]
  <2>1. n \in Note /\ n.of = l /\ ~n.removed /\ n.ended = 0
    BY DEF NoNote, Note, Topic
  <2>2. /\ queue' = [queue EXCEPT ![l] = @ \cup {made'}]
        /\ note' = [note EXCEPT ![made'] = n]
    BY <1>3 DEF Joins
  <2> HIDE DEF n
  <2>3. \A k \in Lists : queue'[k] = IF k = l THEN queue[k] \cup {made'} ELSE queue[k]
    BY <2>2 DEF NotifyTypeOK
  <2>4. \A i \in Id : note'[i] = IF i = made' THEN n ELSE note[i]
    BY <2>2 DEF NotifyTypeOK
  <2>5. \A k \in Lists : made' \notin queue[k]
    BY <1>1 DEF NotifyTypeOK
  <2>6. NotifyTypeOK'
    <3>1. queue' \in [Lists -> SUBSET (1 .. made')]
      BY <1>1, <2>2, <2>3 DEF NotifyTypeOK
    <3>2. note' \in [Id -> Note]
      BY <1>1, <2>1, <2>2 DEF NotifyTypeOK
    <3>3. callbacks' \in SUBSET (1 .. made') /\ due' \in SUBSET (1 .. made')
      BY <1>1 DEF Joined, NotifyTypeOK
    <3> QED BY <1>1, <3>1, <3>2, <3>3 DEF NotifyTypeOK, Joined, Walking
  <2>7. \A k \in Lists : queue[k] \subseteq Id /\ queue'[k] \subseteq Id
    BY <1>1, <2>3, NotifyTypes DEF NotifyTypeOK
  <2>8. Listing'
    <3>1. ASSUME NEW k \in Lists, NEW i \in queue'[k] PROVE note'[i].of = k
      <4>1. CASE i = made'
        <5>1. k = l
          BY <4>1, <2>3, <2>5, <3>1
        <5>2. note'[i] = n
          BY <4>1, <1>1, <2>4
        <5> QED BY <5>1, <5>2, <2>1
      <4>2. CASE i # made'
        <5>1. i \in queue[k] /\ i \in Id
          BY <4>2, <2>3, <2>7
        <5>2. note'[i] = note[i]
          BY <4>2, <5>1, <2>4
        <5> QED BY <5>1, <5>2 DEF Listing
      <4> QED BY <4>1, <4>2
    <3>2. \A i \in Id : i > made' => note'[i] = NoNote
      BY <1>1, <2>4, NotifyTypes DEF Listing
    <3>3. \A i \in callbacks' : i \in queue'["att"] \/ note'[i].of = "none"
      <4>1. \A i \in callbacks : i # made' /\ i \in Id
        BY <1>1, NotifyTypes DEF NotifyTypeOK
      <4>2. made' \in callbacks' => l = "att"
        BY <4>1 DEF Joined
      <4> QED BY <4>1, <4>2, <2>3, <2>4, NotifyTypes DEF Listing, Joined
    <3> QED BY <3>1, <3>2, <3>3 DEF Listing
  <2>9. Marks'
    BY <2>1, <2>3, <2>4, <2>7, NotifyTypes DEF Marks, Joined
  <2>10. EndsOnce'
    <3>1. ASSUME NEW i \in Id, note'[i].of # "none"
          PROVE  note'[i].ended = IF i \in queue'[note'[i].of] \/ note'[i].removed THEN 0 ELSE 1
      <4>1. CASE i = made'
        BY <4>1, <2>1, <2>3, <2>4
      <4>2. CASE i # made'
        <5>1. note'[i] = note[i] /\ note[i].of \in Lists
          BY <3>1, <4>2, <2>4 DEF NotifyTypeOK, Note
        <5> QED BY <3>1, <4>2, <5>1, <2>3 DEF EndsOnce, Listed
      <4> QED BY <4>1, <4>2
    <3>2. queue'["att"] \subseteq callbacks'
      BY <2>3, NotifyTypes DEF EndsOnce, Listed, Joined
    <3>3. ~Walking' => ~cleanup' /\ \A i \in queue'["mgmt"] : ~note'[i].removed
      BY <2>1, <2>3, <2>4, <2>7, NotifyTypes DEF EndsOnce, Listed, Joined, Walking
    <3> QED BY <3>1, <3>2, <3>3 DEF EndsOnce, Listed
  <2> QED BY <2>6, <2>8, <2>9, <2>10
<1> QED BY <1>2, <1>3 DEF Joined, JoinsBearer

\* Registrations leave their lists and are destroyed.
LEMMA RemovedInv ==
  ASSUME EndsInv, NEW gone,
         \A i \in gone : i \in callbacks \/ \E l \in Lists : i \in queue[l],
         Unlinked(gone), Destroyed(gone),
         walk' = walk \/ walk' = NoWalk, UNCHANGED made,
         linked' \in {"open", "gone", "freed"}, due' \subseteq due,
         cleanup' \in BOOLEAN,
         cleanup' = cleanup \/ (~cleanup' /\ \A i \in queue["mgmt"] : note[i].removed => i \in gone),
         walk' = NoWalk => ~cleanup'
  PROVE  EndsInv'
<1> USE DEF EndsInv
<1>1. made \in 0 .. MaxNote /\ \A l \in Lists : queue[l] \subseteq 1 .. made /\ queue[l] \subseteq Id
  BY NotifyTypes DEF NotifyTypeOK
<1>2. \A l \in Lists : queue'[l] = queue[l] \ gone
  BY DEF Unlinked
<1>3. \A i \in Id : note'[i] = IF i \in gone THEN [note[i] EXCEPT !.removed = FALSE, !.ended = @ + 1]
                               ELSE note[i]
  BY DEF Destroyed
<1>4. \A i \in Id : /\ note[i] \in Note
                    /\ note'[i] \in Note /\ note'[i].of = note[i].of
                    /\ i \notin gone => note'[i] = note[i]
                    /\ i \in gone => ~note'[i].removed /\ note'[i].ended = note[i].ended + 1
  <2> SUFFICES ASSUME NEW i \in Id
               PROVE  /\ note[i] \in Note
                      /\ note'[i] \in Note /\ note'[i].of = note[i].of
                      /\ i \notin gone => note'[i] = note[i]
                      /\ i \in gone => ~note'[i].removed /\ note'[i].ended = note[i].ended + 1
    OBVIOUS
  <2>1. note[i] \in Note
    BY DEF NotifyTypeOK
  <2> DEFINE n == note[i]
  <2>2. note'[i] = IF i \in gone THEN [n EXCEPT !.removed = FALSE, !.ended = n.ended + 1] ELSE n
    BY <1>3
  <2>3. n \in Note
    BY <2>1
  <2> HIDE DEF n
  <2>4. /\ note'[i] \in Note /\ note'[i].of = n.of
        /\ i \notin gone => note'[i] = n
        /\ i \in gone => ~note'[i].removed /\ note'[i].ended = n.ended + 1
    <3>1. CASE i \in gone
      <4>1. note'[i] = [n EXCEPT !.removed = FALSE, !.ended = n.ended + 1]
        BY <2>2, <3>1
      <4>2. n.ended + 1 \in Nat
        BY <2>3 DEF Note
      <4> QED BY <3>1, <4>1, <4>2, <2>3 DEF Note
    <3>2. CASE i \notin gone
      BY <2>2, <2>3, <3>2
    <3> QED BY <3>1, <3>2
  <2> QED BY <2>1, <2>4 DEF n
<1>5. NoWalk \in Walk /\ NoWalk.of = "none" /\ ~NoWalk.calling
  BY DEF NoWalk, Walk, Event
<1>6. NotifyTypeOK'
  <2>1. queue' \in [Lists -> SUBSET (1 .. made)]
    BY <1>1, <1>2 DEF Unlinked
  <2>2. note' \in [Id -> Note]
    BY <1>4 DEF Destroyed
  <2>3. callbacks' \in SUBSET (1 .. made) /\ due' \in SUBSET (1 .. made)
    BY DEF Destroyed, NotifyTypeOK
  <2>4. walk' \in Walk /\ (walk'.calling => Walking')
    BY <1>5 DEF Walking, NotifyTypeOK
  <2>5. cleanup' \in BOOLEAN
    OBVIOUS
  <2> QED BY <1>1, <2>1, <2>2, <2>3, <2>4, <2>5 DEF NotifyTypeOK
<1>7. Listing'
  <2>1. ASSUME NEW l \in Lists, NEW i \in queue'[l] PROVE note'[i].of = l
    BY <2>1, <1>1, <1>2, <1>4 DEF Listing
  <2>2. ASSUME NEW i \in Id, i > made PROVE note'[i] = NoNote
    <3>1. i \notin gone
      BY <1>1, <2>2, NotifyTypes DEF NotifyTypeOK
    <3> QED BY <2>2, <3>1, <1>4 DEF Listing
  <2>3. ASSUME NEW i \in callbacks' PROVE i \in queue'["att"] \/ note'[i].of = "none"
    <3>1. i \in callbacks /\ i \notin gone /\ i \in Id
      <4>1. callbacks' = callbacks \ gone /\ callbacks \subseteq 1 .. made
        BY DEF Destroyed, NotifyTypeOK
      <4> QED BY <1>1, <2>3, <4>1, NotifyTypes
    <3> QED BY <3>1, <1>2, <1>4, NotifyTypes DEF Listing
  <2> QED BY <2>1, <2>2, <2>3 DEF Listing
<1>8. Marks'
  <2>1. ASSUME NEW i \in Id, note'[i].removed PROVE note'[i].of = "mgmt"
    BY <2>1, <1>4 DEF Marks
  <2>2. walk'.of # "mgmt" => ~cleanup'
    BY <1>5 DEF Marks
  <2>3. ASSUME ~cleanup', NEW i \in queue'["mgmt"] PROVE ~note'[i].removed
    BY <2>3, <1>1, <1>2, <1>4, NotifyTypes DEF Marks
  <2> QED BY <2>1, <2>2, <2>3 DEF Marks
<1>9. EndsOnce'
  <2>1. ASSUME NEW i \in Id, note'[i].of # "none"
        PROVE  note'[i].ended = IF i \in queue'[note'[i].of] \/ note'[i].removed THEN 0 ELSE 1
    <3>1. note'[i].of = note[i].of /\ note[i].of \in Lists /\ note[i].ended \in Nat
      BY <2>1, <1>4 DEF Note
    <3>2. note[i].ended = IF i \in queue[note[i].of] \/ note[i].removed THEN 0 ELSE 1
      BY <2>1, <3>1 DEF EndsOnce, Listed
    <3>3. CASE i \in gone
      <4>1. i \in queue[note[i].of]
        BY <2>1, <3>1, <3>3, NotifyTypes DEF Listing
      <4> QED BY <4>1, <3>1, <3>2, <3>3, <1>2, <1>4
    <3>4. CASE i \notin gone
      BY <3>1, <3>2, <3>4, <1>2, <1>4
    <3> QED BY <3>3, <3>4
  <2>2. queue'["att"] \subseteq callbacks'
    BY <1>2, NotifyTypes DEF EndsOnce, Listed, Destroyed
  <2>3. ~Walking' => ~cleanup' /\ \A i \in queue'["mgmt"] : ~note'[i].removed
    BY <1>8, <1>5 DEF Marks, Walking
  <2> QED BY <2>1, <2>2, <2>3 DEF EndsOnce, Listed
<1> QED BY <1>6, <1>7, <1>8, <1>9

\* Inside a loop over them, registrations of mgmt.c are marked instead.
LEMMA MarkedInv ==
  ASSUME EndsInv, NEW gone \in SUBSET queue["mgmt"],
         walk.of = "mgmt", Marked(gone), cleanup' = TRUE,
         queue' = queue \/ Unlinked(gone),
         UNCHANGED <<callbacks, made, linked, walk>>, due' \subseteq due
  PROVE  EndsInv'
<1> USE DEF EndsInv
<1>1. made \in 0 .. MaxNote /\ \A l \in Lists : queue[l] \subseteq 1 .. made /\ queue[l] \subseteq Id
  BY NotifyTypes DEF NotifyTypeOK
<1>2. \A l \in Lists : queue'[l] \subseteq queue[l] /\ queue[l] \subseteq queue'[l] \cup gone
  BY DEF Unlinked
<1>3. \A i \in Id : /\ note[i] \in Note /\ note'[i] \in Note
                    /\ note'[i].of = note[i].of /\ note'[i].ended = note[i].ended
                    /\ i \in gone => note'[i].removed
                    /\ i \notin gone => note'[i] = note[i]
  <2> SUFFICES ASSUME NEW i \in Id
               PROVE  /\ note[i] \in Note /\ note'[i] \in Note
                      /\ note'[i].of = note[i].of /\ note'[i].ended = note[i].ended
                      /\ i \in gone => note'[i].removed
                      /\ i \notin gone => note'[i] = note[i]
    OBVIOUS
  <2> DEFINE n == note[i]
  <2>1. n \in Note
    BY DEF NotifyTypeOK
  <2>2. note'[i] = [n EXCEPT !.removed = n.removed \/ i \in gone]
    BY DEF Marked
  <2> HIDE DEF n
  <2>3. CASE i \in gone
    <3>1. note'[i] = [n EXCEPT !.removed = TRUE]
      BY <2>2, <2>3
    <3>2. note'[i] \in Note /\ note'[i].of = n.of /\ note'[i].ended = n.ended /\ note'[i].removed
      BY <2>1, <3>1 DEF Note
    <3> QED BY <2>1, <2>3, <3>2 DEF n
  <2>4. CASE i \notin gone
    <3>1. note'[i] = [n EXCEPT !.removed = n.removed]
      <4>1. (n.removed \/ i \in gone) = n.removed
        BY <2>1, <2>4 DEF Note
      <4> QED BY <2>2, <4>1
    <3>2. note'[i] = n
      BY <2>1, <3>1 DEF Note
    <3> QED BY <2>1, <2>4, <3>2 DEF n
  <2> QED BY <2>3, <2>4
<1>4. gone \subseteq Id /\ \A i \in gone : note[i].of = "mgmt"
  BY <1>1, NotifyTypes DEF Listing
<1>5. NotifyTypeOK'
  <2>1. queue' \in [Lists -> SUBSET (1 .. made)]
    BY <1>1, <1>2 DEF Unlinked, NotifyTypeOK
  <2>2. note' \in [Id -> Note]
    BY <1>3 DEF Marked
  <2> QED BY <2>1, <2>2 DEF NotifyTypeOK, Walking
<1>6. Listing'
  <2>1. ASSUME NEW l \in Lists, NEW i \in queue'[l] PROVE note'[i].of = l
    BY <2>1, <1>1, <1>2, <1>3 DEF Listing
  <2>2. ASSUME NEW i \in Id, i > made PROVE note'[i] = NoNote
    <3>1. i \notin gone
      BY <1>1, <2>2, NotifyTypes DEF NotifyTypeOK
    <3> QED BY <2>2, <3>1, <1>3 DEF Listing
  <2>3. ASSUME NEW i \in callbacks PROVE i \in queue'["att"] \/ note'[i].of = "none"
    <3>1. i \in Id
      BY <1>1, NotifyTypes DEF NotifyTypeOK
    <3>2. i \in queue["att"] => i \notin gone
      BY <1>4, NotifyTypes DEF Listing
    <3> QED BY <3>1, <3>2, <1>2, <1>3, NotifyTypes DEF Listing
  <2> QED BY <2>1, <2>2, <2>3 DEF Listing
<1>7. Marks'
  BY <1>3, <1>4 DEF Marks
<1>8. EndsOnce'
  <2>1. ASSUME NEW i \in Id, note'[i].of # "none"
        PROVE  note'[i].ended = IF i \in queue'[note'[i].of] \/ note'[i].removed THEN 0 ELSE 1
    <3>1. note'[i].of = note[i].of /\ note[i].of \in Lists
      BY <2>1, <1>3 DEF Note
    <3>2. note[i].ended = IF i \in queue[note[i].of] \/ note[i].removed THEN 0 ELSE 1
      BY <2>1, <3>1 DEF EndsOnce, Listed
    <3>3. CASE i \in gone
      BY <3>1, <3>2, <3>3, <1>3, <1>4
    <3>4. CASE i \notin gone
      BY <3>1, <3>2, <3>4, <1>2, <1>3
    <3> QED BY <3>3, <3>4
  <2>2. queue'["att"] \subseteq callbacks'
    BY <1>2, NotifyTypes DEF EndsOnce, Listed
  <2> QED BY <2>1, <2>2 DEF EndsOnce, Listed, Walking
<1> QED BY <1>5, <1>6, <1>7, <1>8

\* The loop goes on, or begins over a list.
LEMMA WalksInv ==
  ASSUME EndsInv, UNCHANGED <<queue, note, callbacks, made, cleanup>>,
         walk' \in Walk, walk'.calling => walk'.of # "none", walk'.of = walk.of \/ walk.of = "none",
         walk'.of = "none" => walk.of = "none",
         linked' \in {"open", "gone", "freed"}, due' \in SUBSET (1 .. made)
  PROVE  EndsInv'
<1> USE DEF EndsInv
<1>1. NotifyTypeOK'
  BY DEF NotifyTypeOK, Walking
<1>2. Listing'
  BY DEF Listing
<1>3. Marks'
  BY DEF Marks
<1>4. EndsOnce'
  BY DEF EndsOnce, Listed, Walking
<1> QED BY <1>1, <1>2, <1>3, <1>4

\* What a list hears of is what it can be asked for.
LEMMA NotifyStepInv == EndsInv /\ [NotifyNext]_notifyVars => EndsInv'
<1> SUFFICES ASSUME EndsInv, [NotifyNext]_notifyVars PROVE EndsInv'
  OBVIOUS
<1>1. NotifyTypeOK /\ made \in Nat
  BY NotifyTypes DEF EndsInv, NotifyTypeOK
<1>2. CASE UNCHANGED notifyVars
  <2>1. UNCHANGED <<queue, note, callbacks, made, cleanup, walk, linked, due>>
    BY <1>2 DEF notifyVars
  <2> QED BY <1>1, <2>1, WalksInv DEF NotifyTypeOK, Walking
<1>3. ASSUME NEW topic \in Topics.mgmt, MgmtRegister(topic) PROVE EndsInv'
  <2>1. Topics.mgmt = Topics["mgmt"] /\ "mgmt" \in Lists
    BY NotifyTypes
  <2>2. Joined("mgmt", topic)
    BY <1>3 DEF MgmtRegister, Registers, Joined
  <2> QED BY <2>1, <2>2, JoinedInv
<1>4. ASSUME NEW topic \in Topics.att, GAttribRegister(topic) PROVE EndsInv'
  <2>1. Topics.att = Topics["att"] /\ "att" \in Lists
    BY NotifyTypes
  <2>2. Joined("att", topic)
    BY <1>4 DEF GAttribRegister, BtAttRegister, Registers, Joined
  <2> QED BY <2>1, <2>2, JoinedInv
<1>5. ASSUME NEW topic \in Topics.disconn, BtAttRegisterDisconnect(topic) PROVE EndsInv'
  <2>1. Topics.disconn = Topics["disconn"] /\ "disconn" \in Lists
    BY NotifyTypes
  <2>2. Joined("disconn", topic)
    BY <1>5 DEF BtAttRegisterDisconnect, Registers, Joined
  <2> QED BY <2>1, <2>2, JoinedInv
<1>6. ASSUME NEW l \in Lists, NEW gone \in SUBSET queue[l], Removed(l, gone), UNCHANGED cleanup,
             walk.of # "mgmt" \/ l # "mgmt"
      PROVE  EndsInv'
  <2>1. Unlinked(gone) /\ Destroyed(gone) /\ UNCHANGED <<made, linked, walk>> /\ due' \subseteq due
    BY <1>6 DEF Removed
  <2>2. walk' = NoWalk => ~cleanup'
    BY <1>6, <2>1 DEF NoWalk, EndsInv, Marks
  <2> QED BY <1>1, <1>6, <2>1, <2>2, RemovedInv DEF NotifyTypeOK
<1>7. ASSUME NEW i \in Id,
             MgmtUnregister(i) \/ BtAttUnregister(i) \/ BtAttUnregisterDisconnect(i)
      PROVE  EndsInv'
  BY <1>6, <1>7, NotifyTypes DEF MgmtUnregister, BtAttUnregister, BtAttUnregisterDisconnect, Listed
<1>8. ASSUME NEW i \in Listed("mgmt"), UnregisterInNotify(i) PROVE EndsInv'
  BY <1>8, MarkedInv DEF UnregisterInNotify, Listed
<1>9. ASSUME NEW index \in {"hci0", "none", "every"}, UnregisterIndex(index) PROVE EndsInv'
  <2> DEFINE all == index = "every" \/ (walk.of = "mgmt" /\ index = "none")
             gone == IF all THEN Listed("mgmt") ELSE OfIndex(index)
  <2>1. gone \subseteq queue["mgmt"]
    BY DEF Listed, OfIndex
  <2>2. IF walk.of = "mgmt"
        THEN /\ Marked(gone) /\ cleanup' = TRUE /\ due' = due \ gone
             /\ UNCHANGED <<queue, callbacks, made, linked, walk, nevents>>
        ELSE Removed("mgmt", gone) /\ UNCHANGED cleanup
    BY <1>9 DEF UnregisterIndex
  <2> HIDE DEF gone
  <2>3. CASE walk.of = "mgmt"
    BY <2>1, <2>2, <2>3, MarkedInv
  <2>4. CASE walk.of # "mgmt"
    BY <2>1, <2>2, <2>4, <1>6, NotifyTypes
  <2> QED BY <2>3, <2>4
<1>10. \A i \in AttEntries : \E l \in Lists : i \in queue[l]
  BY NotifyTypes DEF AttEntries, Listed
<1>11. \A i \in AttEntries : i \notin queue["mgmt"] \/ ~note[i].removed
  BY NotifyTypes DEF AttEntries, Listed, EndsInv, Listing
<1>12. CASE UnregisterAll
  <2>1. /\ Unlinked(AttEntries) /\ Destroyed(AttEntries)
        /\ UNCHANGED <<made, linked, walk, cleanup>> /\ due' \subseteq due
    BY <1>12 DEF UnregisterAll
  <2>2. walk' = NoWalk => ~cleanup'
    BY <2>1 DEF NoWalk, EndsInv, Marks
  <2> QED BY <1>1, <1>10, <2>1, <2>2, RemovedInv DEF NotifyTypeOK
<1>13. CASE Unref
  <2>1. /\ Unlinked(AttEntries) /\ Destroyed(AttEntries \cup callbacks)
        /\ UNCHANGED <<made, walk, cleanup>> /\ due' \subseteq due /\ linked' = "freed"
    BY <1>13 DEF Unref
  <2>2. walk' = NoWalk => ~cleanup'
    BY <2>1 DEF NoWalk, EndsInv, Marks
  <2>3. Unlinked(AttEntries \cup callbacks)
    <3>1. \A l \in Lists : queue[l] \ AttEntries = queue[l] \ (AttEntries \cup callbacks)
      <4> SUFFICES ASSUME NEW l \in Lists, NEW i \in queue[l], i \in callbacks PROVE i \in AttEntries
        OBVIOUS
      <4>1. i \in Id /\ note[i].of = l
        BY NotifyTypes DEF EndsInv, NotifyTypeOK, Listing
      <4>2. i \in queue["att"]
        BY <4>1, NotifyTypes DEF EndsInv, Listing
      <4> QED BY <4>2 DEF AttEntries, Listed
    <3> QED BY <2>1, <3>1 DEF Unlinked
  <2> QED BY <1>1, <1>10, <2>1, <2>2, <2>3, RemovedInv DEF NotifyTypeOK
<1>14. ASSUME NEW l \in Lists, NEW event \in Events[l], Starts(l, event) PROVE EndsInv'
  <2>1. walk' = [NoWalk EXCEPT !.of = l, !.event = event, !.next = First(l)]
    BY <1>14 DEF Starts
  <2>2. First(l) \in Nat
    <3>1. queue[l] \in SUBSET Nat /\ 0 \notin queue[l]
      BY <1>1 DEF NotifyTypeOK
    <3> QED BY <3>1, FirstOfThese DEF First
  <2>3. walk' \in Walk /\ walk'.of # "none"
    <3>1. event \in Event
      BY DEF Event
    <3>2. NoWalk \in Walk
      BY DEF NoWalk, Walk, Event
    <3>3. l # "none"
      BY NotifyTypes
    <3>4. walk'.of = l /\ walk' \in Walk
      BY <2>1, <2>2, <3>1, <3>2 DEF Walk
    <3> QED BY <3>3, <3>4
  <2>4. due' \in SUBSET (1 .. made)
    BY <1>1, <1>14 DEF Starts, Listed, NotifyTypeOK
  <2>5. linked' \in {"open", "gone", "freed"}
    BY <1>1, <1>14 DEF Starts, NotifyTypeOK
  <2> QED BY <2>3, <2>4, <2>5, <1>14, WalksInv DEF Starts, Walking
<1>15. CASE Turn
  <2>1. walk.of \in Lists /\ queue[walk.of] \in SUBSET Nat /\ 0 \notin queue[walk.of]
    BY <1>1, <1>15 DEF Turn, Walking, NotifyTypeOK, Walk
  <2>2. After(walk.of, walk.next) \in Nat
    <3> DEFINE T == {j \in queue[walk.of] : j > walk.next}
    <3>1. T \in SUBSET Nat /\ 0 \notin T
      BY <2>1
    <3> HIDE DEF T
    <3>2. FirstOf(T) \in Nat
      BY <3>1, FirstOfThese
    <3> QED BY <3>2 DEF After, T
  <2>3. walk' \in Walk /\ walk'.of = walk.of
    <3>1. walk \in Walk
      BY <1>1 DEF NotifyTypeOK
    <3>2. Append(walk.called, walk.next) \in Seq(Nat)
      BY <3>1 DEF Walk
    <3>3. Wants(walk.next) \in BOOLEAN
      BY DEF Wants
    <3> QED BY <1>15, <2>2, <3>1, <3>2, <3>3 DEF Turn, Walk
  <2> QED BY <1>1, <1>15, <2>1, <2>3, NotifyTypes, WalksInv DEF Turn, NotifyTypeOK
<1>16. CASE Returns
  <2>1. walk' \in Walk /\ walk'.of = walk.of /\ ~walk'.calling
    BY <1>1, <1>16 DEF Returns, NotifyTypeOK, Walk
  <2> QED BY <1>1, <1>16, <2>1, WalksInv DEF Returns, NotifyTypeOK
<1>17. CASE LoopEnds
  <2>1. /\ Unlinked(Swept) /\ Destroyed(Swept) /\ cleanup' = (cleanup /\ walk.of # "mgmt")
        /\ walk' = NoWalk /\ due' = {} /\ UNCHANGED <<made, linked>>
    BY <1>17 DEF LoopEnds
  <2>2. ~cleanup'
    BY <2>1 DEF EndsInv, Marks
  <2>3. \A i \in queue["mgmt"] : note[i].removed => i \in Swept
    <3> SUFFICES ASSUME NEW i \in queue["mgmt"], note[i].removed PROVE i \in Swept
      OBVIOUS
    <3>1. cleanup /\ walk.of = "mgmt"
      BY DEF EndsInv, Marks
    <3> QED BY <3>1 DEF Swept, Listed
  <2>4. \A i \in Swept : \E l \in Lists : i \in queue[l]
    BY <1>10, NotifyTypes DEF Swept, Listed
  <2> QED BY <1>1, <2>1, <2>2, <2>3, <2>4, RemovedInv DEF NotifyTypeOK
<1> QED
  BY <1>2, <1>3, <1>4, <1>5, <1>7, <1>8, <1>9, <1>12, <1>13, <1>14, <1>15, <1>16, <1>17
  DEF NotifyNext, Calls, Loop

\* What leaves a list of registrations is destroyed once, and no mark stays.
THEOREM EndsOnceAlways == NotifySpec => []EndsOnce
<1>1. EndsInv => EndsOnce
  BY DEF EndsInv
<1> QED BY <1>1, NotifyInitInv, NotifyStepInv, PTL DEF NotifySpec

-----------------------------------------------------------------------------
(* Who is told.  The loop has called everyone who is due before the entry   *)
(* it saved, in the order of the list; the entry it saved is in the list,   *)
(* or the list is empty.                                                    *)

Saved == walk.next = 0 \/ walk.next \in queue[walk.of] \/ queue[walk.of] = {}
Ahead == walk.next # 0 => walk.at < walk.next
InOrder ==
  /\ \A i, j \in DOMAIN walk.called : i < j => walk.called[i] < walk.called[j]
  /\ \A i \in DOMAIN walk.called : walk.called[i] <= walk.at
IsDue(d) ==
  /\ d \in queue[walk.of] /\ ~note[d].removed
  /\ Hears(walk.of, note[d].topic, walk.event)
  /\ d \in ToSet(walk.called) \/ (walk.next # 0 /\ walk.next <= d)
HeardInv == Walking => Saved /\ Ahead /\ InOrder /\ \A d \in due : IsDue(d)

\* Registering and unregistering leave the loop its place.
LEMMA KeepsPlace ==
  ASSUME HeardInv, UNCHANGED walk, due' \subseteq due,
         Walking => \/ walk.next \in queue[walk.of] => walk.next \in queue'[walk.of]
                    \/ queue'[walk.of] = {},
         Walking /\ queue[walk.of] = {} => queue'[walk.of] = {},
         Walking => \A d \in due' : d \in queue'[walk.of] /\ note'[d] = note[d]
  PROVE  HeardInv'
<1> SUFFICES ASSUME Walking PROVE (Saved /\ Ahead /\ InOrder /\ \A d \in due : IsDue(d))'
  BY DEF HeardInv, Walking
<1>1. Saved /\ Ahead /\ InOrder /\ \A d \in due : IsDue(d)
  BY DEF HeardInv
<1>2. Saved'
  BY <1>1 DEF Saved
<1>3. Ahead' /\ InOrder'
  BY <1>1 DEF Ahead, InOrder
<1>4. \A d \in due' : IsDue(d)'
  BY <1>1 DEF IsDue
<1> QED BY <1>2, <1>3, <1>4

LEMMA JoinsKeepsPlace ==
  ASSUME EndsInv, HeardInv, NEW l \in Lists, NEW topic, Joined(l, topic), MayJoin(l)
  PROVE  HeardInv'
<1>1. UNCHANGED walk /\ due' = due
  BY DEF Joined
<1>2. Walking => walk.of \in Lists
  BY DEF EndsInv, NotifyTypeOK, Walk, Walking
<1>3. made' \notin due /\ due \subseteq Id /\ made' \in Id
  BY NotifyTypes DEF EndsInv, NotifyTypeOK, Joined
<1>4. Walking => queue[walk.of] \subseteq queue'[walk.of] /\ (queue[walk.of] = {} => queue'[walk.of] = {})
  BY <1>2 DEF Joined, JoinsBearer, Joins, EndsInv, NotifyTypeOK, MayJoin
<1>5. \A d \in due : note'[d] = note[d]
  BY <1>3 DEF Joined, JoinsBearer, Joins, EndsInv, NotifyTypeOK
<1>6. Walking => \A d \in due : d \in queue[walk.of]
  BY DEF HeardInv, IsDue
<1> QED BY <1>1, <1>4, <1>5, <1>6, KeepsPlace

\* Whoever is unregistered with care is no longer due.
LEMMA LeavesKeepsPlace ==
  ASSUME EndsInv, HeardInv, NEW gone, UNCHANGED walk, due' = due \ gone,
         Unlinked(gone) \/ queue' = queue,
         Walking => queue' = queue \/ walk.next \notin gone \/ queue[walk.of] \subseteq gone,
         Destroyed(gone) \/ Marked(gone)
  PROVE  HeardInv'
<1>1. Walking => walk.of \in Lists
  BY DEF EndsInv, NotifyTypeOK, Walk, Walking
<1>2. due \subseteq Id
  BY NotifyTypes DEF EndsInv, NotifyTypeOK
<1>3. ASSUME NEW d \in due' PROVE note'[d] = note[d]
  <2>1. d \in Id /\ d \notin gone /\ note[d] \in Note
    BY <1>2 DEF EndsInv, NotifyTypeOK
  <2>2. CASE Destroyed(gone)
    BY <2>1, <2>2 DEF Destroyed
  <2>3. CASE Marked(gone)
    <3> DEFINE n == note[d]
    <3>1. note'[d] = [n EXCEPT !.removed = n.removed \/ d \in gone]
      BY <2>1, <2>3 DEF Marked
    <3>2. n \in Note
      BY <2>1
    <3> HIDE DEF n
    <3>3. (n.removed \/ d \in gone) = n.removed
      BY <2>1, <3>2 DEF Note
    <3>4. note'[d] = [n EXCEPT !.removed = n.removed]
      BY <3>1, <3>3
    <3>5. note'[d] = n
      BY <3>2, <3>4 DEF Note
    <3> QED BY <3>5 DEF n
  <2> QED BY <2>2, <2>3
<1>4. Walking => \A d \in due : d \in queue[walk.of]
  BY DEF HeardInv, IsDue
<1>5. Walking => \A d \in due' : d \in queue'[walk.of]
  BY <1>1, <1>4 DEF Unlinked
<1>6. Walking => \/ walk.next \in queue[walk.of] => walk.next \in queue'[walk.of]
                 \/ queue'[walk.of] = {}
  BY <1>1 DEF Unlinked
<1>7. Walking /\ queue[walk.of] = {} => queue'[walk.of] = {}
  BY <1>1 DEF Unlinked
<1> QED BY <1>3, <1>5, <1>6, <1>7, KeepsPlace

\* An event begins at the head of the list.
LEMMA StartsHeard ==
  ASSUME EndsInv, NEW l \in Lists, NEW event \in Events[l], Starts(l, event)
  PROVE  HeardInv'
<1>1. walk' = [NoWalk EXCEPT !.of = l, !.event = event, !.next = First(l)]
  BY DEF Starts
<1>2. walk'.of = l /\ walk'.event = event /\ walk'.next = First(l) /\ walk'.at = 0 /\ walk'.called = <<>>
  BY <1>1 DEF NoWalk
<1>3. queue[l] \in SUBSET Nat /\ 0 \notin queue[l] /\ queue[l] \subseteq Id
  BY NotifyTypes DEF EndsInv, NotifyTypeOK
<1>4. /\ First(l) = 0 <=> queue[l] = {}
      /\ queue[l] # {} => First(l) \in queue[l] /\ \A y \in queue[l] : First(l) <= y
      /\ First(l) \in Nat
  BY <1>3, FirstOfThese DEF First
<1>5. UNCHANGED <<queue, note>> /\ due' = {i \in queue[l] : Hears(l, note[i].topic, event)}
  BY DEF Starts, Listed
<1>6. Saved' /\ Ahead' /\ InOrder'
  BY <1>2, <1>4, <1>5 DEF Saved, Ahead, InOrder
<1>7. ASSUME NEW d \in due' PROVE IsDue(d)'
  <2>1. d \in queue[l] /\ Hears(l, note[d].topic, event)
    BY <1>5
  <2>2. ~note[d].removed
    <3>1. note[d].of = l
      BY <2>1 DEF EndsInv, Listing
    <3>2. ~Walking
      BY DEF Starts
    <3> QED BY <1>3, <2>1, <3>1, <3>2 DEF EndsInv, EndsOnce, Marks, Listed
  <2>3. walk'.next # 0 /\ walk'.next <= d
    BY <1>2, <1>4, <2>1
  <2> QED BY <1>2, <1>5, <2>1, <2>2, <2>3 DEF IsDue
<1> QED BY <1>6, <1>7 DEF HeardInv

\* A turn calls the saved entry, and saves the one after it.
LEMMA TurnHeard ==
  ASSUME EndsInv, HeardInv, Turn
  PROVE  HeardInv'
<1> DEFINE at == walk.next
           T == {j \in queue[walk.of] : j > at}
<1>1. walk \in Walk /\ walk.of \in Lists /\ UNCHANGED <<queue, note, due>>
  BY DEF EndsInv, NotifyTypeOK, Walk, Walking, Turn
<1>2. Saved /\ Ahead /\ InOrder /\ \A d \in due : IsDue(d)
  BY DEF HeardInv, Turn
<1>3. at # 0 /\ at \in queue[walk.of] /\ walk.at < at /\ at \in Nat /\ walk.at \in Nat
  BY <1>1, <1>2 DEF Saved, Ahead, Turn, Stops, Walk
<1>4. queue[walk.of] \in SUBSET Nat /\ 0 \notin queue[walk.of]
  BY <1>1 DEF EndsInv, NotifyTypeOK
<1>5. /\ walk'.next = 0 <=> T = {}
      /\ T # {} => walk'.next \in T /\ \A y \in T : walk'.next <= y
      /\ walk'.next \in Nat
  <2>1. T \in SUBSET Nat /\ 0 \notin T
    BY <1>4
  <2>2. walk'.next = FirstOf(T)
    BY <1>1 DEF Turn, After, Walk
  <2> HIDE DEF T
  <2> QED BY <2>1, <2>2, FirstOfThese
<1>6. /\ walk'.of = walk.of /\ walk'.event = walk.event /\ walk'.at = at
      /\ walk'.called = IF Wants(at) THEN Append(walk.called, at) ELSE walk.called
  BY <1>1 DEF Turn, Walk
<1>7. walk.called \in Seq(Nat)
  BY <1>1 DEF Walk
<1>8. Saved' /\ Ahead'
  BY <1>1, <1>3, <1>5, <1>6 DEF Saved, Ahead
<1>9. InOrder'
  <2>1. \A i \in DOMAIN walk.called : walk.called[i] \in Nat /\ walk.called[i] < at
    BY <1>2, <1>3, <1>7 DEF InOrder
  <2>2. CASE Wants(at)
    <3>1. walk'.called = Append(walk.called, at)
      BY <1>6, <2>2
    <3>2. /\ DOMAIN walk'.called = 1 .. Len(walk.called) + 1
          /\ \A i \in 1 .. Len(walk.called) : walk'.called[i] = walk.called[i]
          /\ walk'.called[Len(walk.called) + 1] = at
          /\ DOMAIN walk.called = 1 .. Len(walk.called) /\ Len(walk.called) \in Nat
      BY <1>3, <1>7, <3>1
    <3>3. \A i \in DOMAIN walk'.called : i \in DOMAIN walk.called \/ i = Len(walk.called) + 1
      BY <3>2
    <3>4. \A i \in DOMAIN walk'.called : walk'.called[i] <= at
      BY <1>3, <2>1, <3>2, <3>3
    <3>5. ASSUME NEW i \in DOMAIN walk'.called, NEW j \in DOMAIN walk'.called, i < j
          PROVE  walk'.called[i] < walk'.called[j]
      <4>1. i \in DOMAIN walk.called
        BY <3>2, <3>5
      <4>2. CASE j = Len(walk.called) + 1
        BY <2>1, <3>2, <4>1, <4>2
      <4>3. CASE j \in DOMAIN walk.called
        BY <1>2, <3>2, <3>5, <4>1, <4>3 DEF InOrder
      <4> QED BY <3>3, <4>2, <4>3
    <3> QED BY <1>6, <3>4, <3>5 DEF InOrder
  <2>3. CASE ~Wants(at)
    <3>1. walk'.called = walk.called
      BY <1>6, <2>3
    <3> QED BY <1>2, <1>3, <1>6, <2>1, <3>1 DEF InOrder
  <2> QED BY <2>2, <2>3
<1>10. ASSUME NEW d \in due' PROVE IsDue(d)'
  <2>1. IsDue(d) /\ d \in Nat
    BY <1>1, <1>2, <1>4 DEF IsDue
  <2>2. ToSet(walk.called) \subseteq ToSet(walk'.called)
    <3>1. CASE Wants(at)
      <4>1. walk'.called = Append(walk.called, at)
        BY <1>6, <3>1
      <4>2. \A i \in DOMAIN walk.called : i \in DOMAIN walk'.called /\ walk'.called[i] = walk.called[i]
        BY <1>3, <1>7, <4>1
      <4> QED BY <4>2 DEF ToSet
    <3>2. CASE ~Wants(at)
      BY <1>6, <3>2
    <3> QED BY <3>1, <3>2
  <2>3. d \in ToSet(walk'.called) \/ (walk'.next # 0 /\ walk'.next <= d)
    <3>1. CASE d \in ToSet(walk.called)
      BY <2>2, <3>1
    <3>2. CASE d = at
      <4>1. Wants(at)
        BY <2>1, <3>2 DEF IsDue, Wants
      <4>2. walk'.called = Append(walk.called, at)
        BY <1>6, <4>1
      <4>3. Len(walk.called) + 1 \in DOMAIN walk'.called /\ walk'.called[Len(walk.called) + 1] = at
        BY <1>3, <1>7, <4>2
      <4> QED BY <3>2, <4>3 DEF ToSet
    <3>3. CASE at < d
      <4>1. d \in T
        BY <2>1, <3>3 DEF IsDue
      <4> QED BY <1>5, <4>1
    <3> QED BY <1>3, <2>1, <3>1, <3>2, <3>3 DEF IsDue
  <2> QED BY <1>1, <1>6, <2>1, <2>3 DEF IsDue
<1> QED BY <1>8, <1>9, <1>10 DEF HeardInv

LEMMA NotifyInitHeard == NotifyInit => HeardInv
BY DEF NotifyInit, HeardInv, Walking, NoWalk

LEMMA NotifyStepHeard == EndsInv /\ HeardInv /\ [NotifyNext]_notifyVars => HeardInv'
<1> SUFFICES ASSUME EndsInv, HeardInv, [NotifyNext]_notifyVars PROVE HeardInv'
  OBVIOUS
<1>1. Walking => walk.of \in Lists
  BY DEF EndsInv, NotifyTypeOK, Walk, Walking
<1>2. CASE UNCHANGED notifyVars
  <2>1. UNCHANGED <<queue, note, walk, due>>
    BY <1>2 DEF notifyVars
  <2>2. Walking => \A d \in due : d \in queue[walk.of]
    BY DEF HeardInv, IsDue
  <2> QED BY <2>1, <2>2, KeepsPlace
<1>3. ASSUME NEW topic \in Topics.mgmt, MgmtRegister(topic) PROVE HeardInv'
  <2>1. Joined("mgmt", topic) /\ MayJoin("mgmt") /\ "mgmt" \in Lists
    BY <1>3, NotifyTypes DEF MgmtRegister, Registers, Joined
  <2> QED BY <2>1, JoinsKeepsPlace
<1>4. ASSUME NEW topic \in Topics.att, GAttribRegister(topic) PROVE HeardInv'
  <2>1. Joined("att", topic) /\ MayJoin("att") /\ "att" \in Lists
    BY <1>4, NotifyTypes DEF GAttribRegister, BtAttRegister, Registers, Joined
  <2> QED BY <2>1, JoinsKeepsPlace
<1>5. ASSUME NEW topic \in Topics.disconn, BtAttRegisterDisconnect(topic) PROVE HeardInv'
  <2>1. Joined("disconn", topic) /\ MayJoin("disconn") /\ "disconn" \in Lists
    BY <1>5, NotifyTypes DEF BtAttRegisterDisconnect, Registers, Joined
  <2> QED BY <2>1, JoinsKeepsPlace
<1>6. ASSUME NEW l \in Lists, NEW gone \in SUBSET queue[l], Removed(l, gone) PROVE HeardInv'
  <2>1. /\ Unlinked(gone) /\ Destroyed(gone) /\ UNCHANGED walk /\ due' = due \ gone
        /\ Careful(l, gone)
    BY <1>6 DEF Removed
  <2>2. Walking => walk.next \notin gone \/ queue[walk.of] \subseteq gone
    <3>1. CASE l = walk.of
      BY <2>1, <3>1 DEF Careful, Listed
    <3>2. CASE Walking /\ l # walk.of
      <4>1. \A i \in gone : note[i].of = l
        BY DEF EndsInv, Listing
      <4>2. Saved
        BY <3>2 DEF HeardInv
      <4>3. walk.next \in gone => walk.next \notin queue[walk.of] /\ walk.next # 0
        BY <1>1, <3>2, <4>1 DEF EndsInv, Listing, NotifyTypeOK
      <4> QED BY <4>2, <4>3 DEF Saved
    <3> QED BY <3>1, <3>2
  <2> QED BY <2>1, <2>2, LeavesKeepsPlace
<1>7. ASSUME NEW i \in Id,
             MgmtUnregister(i) \/ BtAttUnregister(i) \/ BtAttUnregisterDisconnect(i)
      PROVE  HeardInv'
  BY <1>6, <1>7, NotifyTypes DEF MgmtUnregister, BtAttUnregister, BtAttUnregisterDisconnect, Listed
<1>8. ASSUME NEW i \in Listed("mgmt"), UnregisterInNotify(i) PROVE HeardInv'
  <2>1. /\ Unlinked({i}) /\ Marked({i}) /\ UNCHANGED walk /\ due' = due \ {i}
        /\ walk.of = "mgmt" /\ Careful("mgmt", {i})
    BY <1>8 DEF UnregisterInNotify
  <2>2. walk.next \notin {i} \/ queue[walk.of] \subseteq {i}
    BY <2>1 DEF Careful, Listed
  <2> QED BY <2>1, <2>2, LeavesKeepsPlace
<1>9. ASSUME NEW index \in {"hci0", "none", "every"}, UnregisterIndex(index) PROVE HeardInv'
  <2> DEFINE all == index = "every" \/ (walk.of = "mgmt" /\ index = "none")
             gone == IF all THEN Listed("mgmt") ELSE OfIndex(index)
  <2>1. gone \subseteq queue["mgmt"]
    BY DEF Listed, OfIndex
  <2>2. IF walk.of = "mgmt"
        THEN /\ Marked(gone) /\ cleanup' = TRUE /\ due' = due \ gone
             /\ UNCHANGED <<queue, callbacks, made, linked, walk, nevents>>
        ELSE Removed("mgmt", gone) /\ UNCHANGED cleanup
    BY <1>9 DEF UnregisterIndex
  <2> HIDE DEF gone
  <2>3. CASE walk.of = "mgmt"
    <3>1. Marked(gone) /\ due' = due \ gone /\ UNCHANGED <<queue, walk>>
      BY <2>2, <2>3
    <3> QED BY <3>1, LeavesKeepsPlace, <2>3 DEF Unlinked
  <2>4. CASE walk.of # "mgmt"
    BY <2>1, <2>2, <2>4, <1>6, NotifyTypes
  <2> QED BY <2>3, <2>4
<1>10. CASE UnregisterAll
  <2>1. /\ Unlinked(AttEntries) /\ Destroyed(AttEntries) /\ UNCHANGED walk /\ due' = due \ AttEntries
    BY <1>10 DEF UnregisterAll
  <2>2. Walking => walk.next \notin AttEntries \/ queue[walk.of] \subseteq AttEntries
    <3>1. CASE walk.of \in {"att", "disconn"}
      BY <3>1 DEF AttEntries, Listed
    <3>2. CASE Walking /\ walk.of = "mgmt"
      <4>1. Saved
        BY <3>2 DEF HeardInv
      <4>2. walk.next \in AttEntries => walk.next \notin queue[walk.of] /\ walk.next # 0
        BY <3>2, NotifyTypes DEF AttEntries, Listed, EndsInv, Listing, NotifyTypeOK
      <4> QED BY <4>1, <4>2 DEF Saved
    <3> QED BY <1>1, <3>1, <3>2, NotifyTypes
  <2> QED BY <2>1, <2>2, LeavesKeepsPlace
<1>11. CASE Unref \/ LoopEnds
  <2>1. ~Walking'
    BY <1>11 DEF Unref, LoopEnds, Walking, NoWalk
  <2> QED BY <2>1 DEF HeardInv
<1>12. CASE Returns
  <2>1. /\ walk'.of = walk.of /\ walk'.event = walk.event /\ walk'.at = walk.at
        /\ walk'.next = walk.next /\ walk'.called = walk.called
    BY <1>12 DEF Returns, EndsInv, NotifyTypeOK, Walk
  <2>2. UNCHANGED <<queue, note, due>>
    BY <1>12 DEF Returns
  <2> QED BY <2>1, <2>2 DEF HeardInv, Walking, Saved, Ahead, InOrder, IsDue
<1> QED
  BY <1>2, <1>3, <1>4, <1>5, <1>7, <1>8, <1>9, <1>10, <1>11, <1>12, StartsHeard, TurnHeard
  DEF NotifyNext, Calls, Loop

\* What is heard of in a step of the loop.
Told ==
  /\ Len(walk'.called) > Len(walk.called) =>
       walk'.at \in Listed(walk.of) /\ ~note[walk'.at].removed
  /\ Walking /\ walk' = NoWalk =>
       due \subseteq ToSet(walk.called) /\ IsInjective(walk.called)

LEMMA NotifyStepTold == EndsInv /\ HeardInv /\ [NotifyNext]_notifyVars => [Told]_notifyVars
<1> SUFFICES ASSUME EndsInv, HeardInv, NotifyNext PROVE Told
  OBVIOUS
<1>1. walk \in Walk /\ walk.called \in Seq(Nat)
  BY DEF EndsInv, NotifyTypeOK, Walk
<1>2. CASE walk' = walk \/ (walk.of # "none" /\ walk'.of = walk.of /\ walk'.called = walk.called)
  BY <1>1, <1>2 DEF Told, Walking, NoWalk
<1>3. ASSUME NEW l \in Lists, NEW event \in Events[l], Starts(l, event) PROVE Told
  <2>1. walk'.called = <<>> /\ ~Walking
    BY <1>3 DEF Starts, NoWalk
  <2> QED BY <1>1, <2>1 DEF Told
<1>4. CASE Turn
  <2>1. Walking /\ Saved /\ walk.next # 0 /\ queue[walk.of] # {} /\ UNCHANGED <<queue, note>>
    BY <1>4 DEF Turn, HeardInv, Stops
  <2>2. /\ walk'.at = walk.next /\ walk'.of = walk.of
        /\ walk'.called = IF Wants(walk.next) THEN Append(walk.called, walk.next) ELSE walk.called
    BY <1>1, <1>4 DEF Turn, Walk
  <2>3. Len(walk'.called) > Len(walk.called) => Wants(walk.next)
    BY <1>1, <2>2
  <2>4. walk' # NoWalk
    BY <2>1, <2>2 DEF Walking, NoWalk
  <2> QED BY <2>1, <2>2, <2>3, <2>4 DEF Told, Saved, Wants, Listed
<1>5. CASE LoopEnds
  <2>1. walk'.called = <<>> /\ Walking /\ Stops
    BY <1>5 DEF LoopEnds, NoWalk
  <2>2. InOrder /\ \A d \in due : IsDue(d)
    BY <2>1 DEF HeardInv
  <2>3. due \subseteq ToSet(walk.called)
    BY <2>1, <2>2 DEF IsDue, Stops
  <2>4. IsInjective(walk.called)
    <3> SUFFICES ASSUME NEW a \in DOMAIN walk.called, NEW b \in DOMAIN walk.called,
                        walk.called[a] = walk.called[b]
                 PROVE  a = b
      BY DEF IsInjective
    <3>1. a \in Nat /\ b \in Nat /\ walk.called[a] \in Nat
      BY <1>1
    <3> QED BY <2>2, <3>1 DEF InOrder
  <2> QED BY <1>1, <2>1, <2>3, <2>4 DEF Told
<1>6. CASE Returns
  <2>1. walk.of # "none" /\ walk'.of = walk.of /\ walk'.called = walk.called
    BY <1>1, <1>6 DEF Returns, EndsInv, NotifyTypeOK, Walk, Walking
  <2> QED BY <1>2, <2>1
<1>7. CASE Calls
  <2>1. walk' = walk
    BY <1>7 DEF Calls, MgmtRegister, GAttribRegister, BtAttRegister, Registers,
       BtAttRegisterDisconnect, MgmtUnregister, BtAttUnregister, BtAttUnregisterDisconnect,
       Removed, UnregisterInNotify, UnregisterIndex, UnregisterAll, Unref
  <2> QED BY <1>2, <2>1
<1> QED BY <1>3, <1>4, <1>5, <1>6, <1>7 DEF NotifyNext, Loop

\* A callback is called while its registration is in the list, once for an
\* event, and everyone is called who stays registered.
THEOREM EachHearsOnceAlways == NotifySpec => EachHearsOnce
<1>1. NotifyInit => EndsInv /\ HeardInv
  BY NotifyInitInv, NotifyInitHeard
<1>2. EndsInv /\ HeardInv /\ [NotifyNext]_notifyVars => (EndsInv /\ HeardInv)' /\ [Told]_notifyVars
  BY NotifyStepInv, NotifyStepHeard, NotifyStepTold
<1>3. NotifySpec => [][Told]_notifyVars
  BY <1>1, <1>2, PTL DEF NotifySpec
<1> QED BY <1>3 DEF EachHearsOnce, Told

-----------------------------------------------------------------------------
(* The handlers of an io, as sources of the main loop: the invariant as a    *)
(* predicate of a state, so that a handler that is replaced is one that is   *)
(* removed and one that is added.                                            *)

SourceRec == [of : Glib!Watches \cup {"timeout", "none"}, attached : BOOLEAN, ended : Nat]
MadeIn(src) == {i \in Glib!Source : src[i].of # "none"}
HeldIn(src) == {i \in Glib!Source : src[i].of \in Glib!Watches /\ src[i].ended = 0}

GlibOk(src, slots, refs, own, run) ==
  /\ src \in [Glib!Source -> SourceRec] /\ slots \in [Glib!Watches -> 0 .. MaxSource]
  /\ refs \in Int /\ own \in BOOLEAN /\ run \in 0 .. MaxSource
  /\ \E n \in 0 .. MaxSource : MadeIn(src) = 1 .. n
  /\ run # 0 => src[run].of # "none"
  /\ \A w \in Glib!Watches : slots[w] # 0 => src[slots[w]].of = w /\ src[slots[w]].attached
  /\ ~own => \A w \in Glib!Watches : slots[w] = 0
  /\ \A i \in Glib!Source : src[i].of # "none" =>
       /\ src[i].of \in Glib!Watches => (src[i].attached <=> slots[src[i].of] = i)
       /\ src[i].ended = IF src[i].attached \/ run = i THEN 0 ELSE 1
  /\ refs = (IF own THEN 1 ELSE 0) + Cardinality(HeldIn(src))

GlibInv == GlibOk(source, watch, io_ref, owned, running)

LEMMA GlibNames ==
  /\ MaxSource \in Nat
  /\ Glib!Source = 1 .. MaxSource
  /\ Glib!Watches = {"read", "write", "disconnect"}
  /\ Glib!NoSource = [of |-> "none", attached |-> FALSE, ended |-> 0]
BY LayersAssumption DEF Glib!Source, Glib!Watches, Glib!NoSource, Glib!GlibAssumption

\* The Cardinality that the instance of Glib counts with is that of here.
LEMMA GlibCounts == \A S : Glib!Cardinality(S) = Cardinality(S)
BY DEF Glib!Cardinality, Cardinality

LEMMA HeldFinite == ASSUME NEW src PROVE IsFiniteSet(HeldIn(src))
<1>1. IsFiniteSet(Glib!Source)
  BY GlibNames, FS_Interval
<1>2. HeldIn(src) \subseteq Glib!Source
  BY DEF HeldIn
<1> QED BY <1>1, <1>2, FS_Subset

LEMMA GlibInitInv == Glib!GlibInit => GlibInv
<1> SUFFICES ASSUME Glib!GlibInit PROVE GlibInv
  OBVIOUS
<1>1. /\ source = [i \in Glib!Source |-> Glib!NoSource] /\ watch = [w \in Glib!Watches |-> 0]
      /\ io_ref = 1 /\ owned = TRUE /\ running = 0
  BY DEF Glib!GlibInit
<1>2. Glib!NoSource \in SourceRec /\ Glib!NoSource.of = "none"
  BY GlibNames DEF SourceRec
<1>3. MadeIn(source) = {} /\ HeldIn(source) = {}
  BY <1>1, <1>2, GlibNames DEF MadeIn, HeldIn
<1>4. Cardinality(HeldIn(source)) = 0 /\ MadeIn(source) = 1 .. 0
  BY <1>3, FS_EmptySet
<1>5. source \in [Glib!Source -> SourceRec] /\ watch \in [Glib!Watches -> 0 .. MaxSource]
  BY <1>1, <1>2, GlibNames
<1>6. \E n \in 0 .. MaxSource : MadeIn(source) = 1 .. n
  BY <1>4, GlibNames
<1>7. \A i \in Glib!Source : source[i].of = "none"
  BY <1>1, <1>2
<1>8. running \in 0 .. MaxSource /\ \A w \in Glib!Watches : watch[w] = 0
  BY <1>1, GlibNames
<1>9. io_ref = (IF owned THEN 1 ELSE 0) + Cardinality(HeldIn(source)) /\ io_ref \in Int
  BY <1>1, <1>4
<1> QED BY <1>1, <1>5, <1>6, <1>7, <1>8, <1>9 DEF GlibInv, GlibOk

\* Sources that are attached are removed, and those that go at once: all but
\* the one that runs.
Detaches(src, slots, run, gone, src2, slots2, dead) ==
  /\ gone \in SUBSET Glib!Source
  /\ \A i \in gone : src[i].of # "none" /\ src[i].attached
  /\ src2 \in [Glib!Source -> SourceRec]
  /\ \A i \in Glib!Source :
       /\ src2[i].of = src[i].of
       /\ src2[i].attached <=> src[i].attached /\ i \notin gone
       /\ src2[i].ended = IF i \in gone /\ i # run THEN src[i].ended + 1 ELSE src[i].ended
  /\ slots2 \in [Glib!Watches -> 0 .. MaxSource]
  /\ \A w \in Glib!Watches : slots2[w] = IF slots[w] \in gone THEN 0 ELSE slots[w]
  /\ dead = {i \in gone : i # run /\ src[i].of \in Glib!Watches}

LEMMA GlibDetachedOk ==
  ASSUME NEW src, NEW slots, NEW refs, NEW own, NEW run, GlibOk(src, slots, refs, own, run),
         NEW gone, NEW src2, NEW slots2, NEW dead,
         Detaches(src, slots, run, gone, src2, slots2, dead)
  PROVE  GlibOk(src2, slots2, refs - Cardinality(dead), own, run)
<1> USE DEF Detaches
<1>1. dead \subseteq HeldIn(src) /\ HeldIn(src2) = HeldIn(src) \ dead
  <2>1. \A i \in Glib!Source : src[i].ended \in Nat
    BY DEF GlibOk, SourceRec
  <2>2. \A i \in gone : src[i].ended = 0
    BY DEF GlibOk
  <2>3. dead \subseteq HeldIn(src)
    BY <2>2 DEF HeldIn
  <2>4. ASSUME NEW i \in Glib!Source PROVE i \in HeldIn(src2) <=> i \in HeldIn(src) \ dead
    <3>1. CASE i \in dead
      BY <3>1, <2>1, <2>2 DEF HeldIn
    <3>2. CASE i \notin dead
      BY <3>2, <2>1 DEF HeldIn
    <3> QED BY <3>1, <3>2
  <2> QED BY <2>3, <2>4 DEF HeldIn
<1>2. Cardinality(HeldIn(src2)) = Cardinality(HeldIn(src)) - Cardinality(dead)
      /\ Cardinality(dead) \in Nat /\ Cardinality(HeldIn(src)) \in Nat
  <2>1. IsFiniteSet(HeldIn(src)) /\ IsFiniteSet(dead)
    BY <1>1, HeldFinite, FS_Subset
  <2>2. HeldIn(src) \cap dead = dead
    BY <1>1
  <2>3. Cardinality(HeldIn(src) \ dead) = Cardinality(HeldIn(src)) - Cardinality(dead)
    <3>1. Cardinality(HeldIn(src) \ dead) = Cardinality(HeldIn(src)) - Cardinality(HeldIn(src) \cap dead)
      BY <2>1, FS_Difference
    <3> QED BY <2>2, <3>1
  <2>4. Cardinality(HeldIn(src)) \in Nat /\ Cardinality(dead) \in Nat
    BY <2>1, FS_CardinalityType
  <2> QED BY <1>1, <2>3, <2>4
<1>3. MadeIn(src2) = MadeIn(src)
  BY DEF MadeIn
<1>4. \A w \in Glib!Watches : slots2[w] # 0 =>
        slots2[w] \in Glib!Source /\ src2[slots2[w]].of = w /\ src2[slots2[w]].attached
  BY GlibNames DEF GlibOk
<1>5. ASSUME NEW i \in Glib!Source, src2[i].of # "none"
      PROVE  /\ src2[i].of \in Glib!Watches => (src2[i].attached <=> slots2[src2[i].of] = i)
             /\ src2[i].ended = IF src2[i].attached \/ run = i THEN 0 ELSE 1
  <2>1. /\ src[i].of # "none" /\ src[i].of = src2[i].of
        /\ src[i].of \in Glib!Watches => (src[i].attached <=> slots[src[i].of] = i)
        /\ src[i].ended = IF src[i].attached \/ run = i THEN 0 ELSE 1
        /\ src[i].ended \in Nat
    BY <1>5 DEF GlibOk, SourceRec
  <2>2. src2[i].ended = IF src2[i].attached \/ run = i THEN 0 ELSE 1
    <3>1. CASE i \in gone
      BY <2>1, <3>1
    <3>2. CASE i \notin gone
      BY <2>1, <3>2
    <3> QED BY <3>1, <3>2
  <2>3. ASSUME src2[i].of \in Glib!Watches PROVE src2[i].attached <=> slots2[src2[i].of] = i
    <3>1. slots2[src[i].of] = IF slots[src[i].of] \in gone THEN 0 ELSE slots[src[i].of]
      BY <2>1, <2>3
    <3>2. i # 0
      BY GlibNames
    <3> QED BY <2>1, <2>3, <3>1, <3>2
  <2> QED BY <2>2, <2>3
<1>6. refs - Cardinality(dead) = (IF own THEN 1 ELSE 0) + Cardinality(HeldIn(src2))
      /\ refs - Cardinality(dead) \in Int
  BY <1>2 DEF GlibOk
<1> QED
  <2>1. run # 0 => src2[run].of # "none"
    BY GlibNames DEF GlibOk
  <2>2. ~own => \A w \in Glib!Watches : slots2[w] = 0
    BY DEF GlibOk
  <2>3. own \in BOOLEAN /\ run \in 0 .. MaxSource /\ \E n \in 0 .. MaxSource : MadeIn(src2) = 1 .. n
    BY <1>3 DEF GlibOk
  <2> QED BY <1>4, <1>5, <1>6, <2>1, <2>2, <2>3 DEF GlibOk

\* A source is added; a watch into an empty slot of an io that is there.
LEMMA GlibAddedOk ==
  ASSUME NEW src, NEW slots, NEW refs, NEW own, NEW run, GlibOk(src, slots, refs, own, run),
         NEW i \in Glib!Source, i = Cardinality(MadeIn(src)) + 1,
         NEW of \in Glib!Watches \cup {"timeout"},
         of \in Glib!Watches => own /\ slots[of] = 0
  PROVE  GlibOk([src EXCEPT ![i] = [of |-> of, attached |-> TRUE, ended |-> 0]],
                IF of \in Glib!Watches THEN [slots EXCEPT ![of] = i] ELSE slots,
                IF of \in Glib!Watches THEN refs + 1 ELSE refs, own, run)
<1> DEFINE new == [of |-> of, attached |-> TRUE, ended |-> 0]
           src2 == [src EXCEPT ![i] = new]
           slots2 == IF of \in Glib!Watches THEN [slots EXCEPT ![of] = i] ELSE slots
           refs2 == IF of \in Glib!Watches THEN refs + 1 ELSE refs
<1>1. new \in SourceRec /\ new.of = of /\ new.attached = TRUE /\ new.ended = 0 /\ of # "none"
  BY GlibNames DEF SourceRec
<1> HIDE DEF new
<1>2. /\ src2 \in [Glib!Source -> SourceRec]
      /\ \A j \in Glib!Source : src2[j] = IF j = i THEN new ELSE src[j]
  BY <1>1 DEF GlibOk
<1>3. PICK n \in 0 .. MaxSource : MadeIn(src) = 1 .. n
  BY DEF GlibOk
<1>4. i = n + 1 /\ n \in Nat /\ MaxSource \in Nat
  <2>1. n \in Nat
    BY GlibNames, <1>3
  <2>2. Cardinality(1 .. n) = n
    BY <2>1, FS_Interval
  <2> QED BY <1>3, <2>1, <2>2, GlibNames
<1>5. src[i].of = "none"
  BY <1>3, <1>4 DEF MadeIn
<1>6. MadeIn(src2) = 1 .. n + 1 /\ n + 1 \in 0 .. MaxSource
  <2>1. MadeIn(src2) = MadeIn(src) \cup {i}
    BY <1>1, <1>2 DEF MadeIn
  <2>2. n + 1 \in 0 .. MaxSource
    BY <1>4, GlibNames
  <2>3. (1 .. n) \cup {n + 1} = 1 .. n + 1
    BY <1>4
  <2>4. MadeIn(src2) = (1 .. n) \cup {n + 1}
    BY <1>3, <1>4, <2>1
  <2> QED BY <2>2, <2>3, <2>4
<1> HIDE DEF src2
<1>7. /\ slots2 \in [Glib!Watches -> 0 .. MaxSource]
      /\ \A w \in Glib!Watches : slots2[w] = IF w = of THEN i ELSE slots[w]
  BY GlibNames DEF GlibOk
<1> HIDE DEF slots2
<1>8. \A w \in Glib!Watches : slots[w] # 0 => slots[w] \in Glib!Source /\ slots[w] # i
  BY <1>5, GlibNames DEF GlibOk
<1>9. \A w \in Glib!Watches : slots2[w] # 0 => src2[slots2[w]].of = w /\ src2[slots2[w]].attached
  BY <1>1, <1>2, <1>7, <1>8 DEF GlibOk
<1>10. ASSUME NEW j \in Glib!Source, src2[j].of # "none"
       PROVE  /\ src2[j].of \in Glib!Watches => (src2[j].attached <=> slots2[src2[j].of] = j)
              /\ src2[j].ended = IF src2[j].attached \/ run = j THEN 0 ELSE 1
  <2>1. CASE j = i
    BY <2>1, <1>1, <1>2, <1>7
  <2>2. CASE j # i
    <3>1. src2[j] = src[j]
      BY <2>2, <1>2
    <3>2. src[j].of = of /\ of \in Glib!Watches => ~src[j].attached
      BY <1>10, <3>1, GlibNames DEF GlibOk
    <3> QED BY <1>7, <1>10, <2>2, <3>1, <3>2 DEF GlibOk
  <2> QED BY <2>1, <2>2
<1>11. refs2 = (IF own THEN 1 ELSE 0) + Cardinality(HeldIn(src2)) /\ refs2 \in Int
  <2>1. i \notin HeldIn(src)
    BY <1>5, GlibNames DEF HeldIn
  <2>2. HeldIn(src2) = IF of \in Glib!Watches THEN HeldIn(src) \cup {i} ELSE HeldIn(src)
    BY <1>1, <1>2, <1>5, GlibNames DEF HeldIn
  <2>3. Cardinality(HeldIn(src)) \in Nat /\ Cardinality(HeldIn(src) \cup {i}) = Cardinality(HeldIn(src)) + 1
    <3>1. IsFiniteSet(HeldIn(src))
      BY HeldFinite
    <3>2. Cardinality(HeldIn(src) \cup {i}) = Cardinality(HeldIn(src)) + 1
      BY <2>1, <3>1, FS_AddElement
    <3> QED BY <3>1, <3>2, FS_CardinalityType
  <2>4. refs = (IF own THEN 1 ELSE 0) + Cardinality(HeldIn(src)) /\ refs \in Int
    BY DEF GlibOk
  <2>5. CASE of \in Glib!Watches
    <3>1. refs2 = refs + 1 /\ HeldIn(src2) = HeldIn(src) \cup {i}
      BY <2>2, <2>5
    <3> QED BY <2>3, <2>4, <3>1
  <2>6. CASE of \notin Glib!Watches
    <3>1. refs2 = refs /\ HeldIn(src2) = HeldIn(src)
      BY <2>2, <2>6
    <3> QED BY <2>3, <2>4, <3>1
  <2> QED BY <2>5, <2>6
<1> HIDE DEF refs2
<1>12. run # 0 => src2[run].of # "none"
  BY <1>1, <1>2, GlibNames DEF GlibOk
<1>13. ~own => \A w \in Glib!Watches : slots2[w] = 0
  BY <1>7 DEF GlibOk
<1>14. GlibOk(src2, slots2, refs2, own, run)
  BY <1>2, <1>6, <1>7, <1>9, <1>10, <1>11, <1>12, <1>13 DEF GlibOk
<1> QED BY <1>14 DEF src2, slots2, refs2, new

\* What a source holds goes, when no callback runs or its own has returned.
LEMMA GlibEndsOk ==
  ASSUME NEW src, NEW slots, NEW refs, NEW own, NEW run, GlibOk(src, slots, refs, own, run),
         NEW i \in Glib!Source, src[i].of # "none",
         (run = 0 /\ src[i].attached) \/ run = i,
         NEW src2 \in [Glib!Source -> SourceRec],
         \A j \in Glib!Source : j # i => src2[j] = src[j],
         src2[i].of = src[i].of, ~src2[i].attached, src2[i].ended = src[i].ended + 1
  PROVE  GlibOk(src2, Glib!Cleared(i, slots),
                IF src[i].of \in Glib!Watches THEN refs - 1 ELSE refs, own, 0)
<1> DEFINE slots2 == Glib!Cleared(i, slots)
           refs2 == IF src[i].of \in Glib!Watches THEN refs - 1 ELSE refs
<1>1. src[i].ended = 0 /\ i # 0
  BY GlibNames DEF GlibOk
<1>2. /\ slots2 \in [Glib!Watches -> 0 .. MaxSource]
      /\ \A w \in Glib!Watches : slots2[w] = IF slots[w] = i THEN 0 ELSE slots[w]
  BY GlibNames DEF GlibOk, Glib!Cleared
<1> HIDE DEF slots2
<1>3. MadeIn(src2) = MadeIn(src)
  BY DEF MadeIn
<1>4. \A w \in Glib!Watches : slots2[w] # 0 => src2[slots2[w]].of = w /\ src2[slots2[w]].attached
  BY <1>2, GlibNames DEF GlibOk
<1>5. ASSUME NEW j \in Glib!Source, src2[j].of # "none"
      PROVE  /\ src2[j].of \in Glib!Watches => (src2[j].attached <=> slots2[src2[j].of] = j)
             /\ src2[j].ended = IF src2[j].attached \/ 0 = j THEN 0 ELSE 1
  <2>1. j # 0
    BY GlibNames
  <2>2. CASE j = i
    BY <1>1, <1>2, <2>1, <2>2
  <2>3. CASE j # i
    <3>1. (src2[j] = src[j] /\ j # run) \/ (src2[j] = src[j] /\ run = 0)
      BY <2>3
    <3> QED BY <1>2, <1>5, <2>1, <2>3, <3>1 DEF GlibOk
  <2> QED BY <2>2, <2>3
<1>6. refs2 = (IF own THEN 1 ELSE 0) + Cardinality(HeldIn(src2)) /\ refs2 \in Int
  <2>1. i \notin HeldIn(src2)
    BY <1>1 DEF HeldIn
  <2>2. HeldIn(src2) = HeldIn(src) \ {i}
    BY <2>1 DEF HeldIn
  <2>3. IsFiniteSet(HeldIn(src)) /\ Cardinality(HeldIn(src)) \in Nat
    BY HeldFinite, FS_CardinalityType
  <2>4. refs = (IF own THEN 1 ELSE 0) + Cardinality(HeldIn(src)) /\ refs \in Int
    BY DEF GlibOk
  <2>5. CASE src[i].of \in Glib!Watches
    <3>1. i \in HeldIn(src)
      BY <1>1, <2>5 DEF HeldIn
    <3>2. Cardinality(HeldIn(src2)) = Cardinality(HeldIn(src)) - 1
      BY <2>2, <2>3, <3>1, FS_RemoveElement
    <3>3. refs2 = refs - 1
      BY <2>5
    <3> QED BY <2>3, <2>4, <3>2, <3>3
  <2>6. CASE src[i].of \notin Glib!Watches
    <3>1. HeldIn(src2) = HeldIn(src) /\ refs2 = refs
      BY <2>2, <2>6 DEF HeldIn
    <3> QED BY <2>4, <3>1
  <2> QED BY <2>5, <2>6
<1> HIDE DEF refs2
<1>7. ~own => \A w \in Glib!Watches : slots2[w] = 0
  BY <1>2 DEF GlibOk
<1>8. 0 \in 0 .. MaxSource /\ own \in BOOLEAN /\ \E n \in 0 .. MaxSource : MadeIn(src2) = 1 .. n
  BY <1>3, GlibNames DEF GlibOk
<1>9. GlibOk(src2, slots2, refs2, own, 0)
  BY <1>2, <1>4, <1>5, <1>6, <1>7, <1>8 DEF GlibOk
<1> QED BY <1>9 DEF slots2, refs2

\* The next source is made after those that were made.
LEMMA NextSource ==
  ASSUME NEW src, NEW slots, NEW refs, NEW own, NEW run, GlibOk(src, slots, refs, own, run),
         MadeIn(src) # Glib!Source
  PROVE  Cardinality(MadeIn(src)) + 1 \in Glib!Source
<1>1. PICK n \in 0 .. MaxSource : MadeIn(src) = 1 .. n
  BY DEF GlibOk
<1>2. n \in Nat /\ MaxSource \in Nat /\ n <= MaxSource
  BY GlibNames
<1>3. Cardinality(1 .. n) = n
  BY <1>2, FS_Interval
<1>4. n # MaxSource
  BY <1>1, GlibNames
<1> QED BY <1>1, <1>2, <1>3, <1>4, GlibNames

\* g_source_remove of these.
LEMMA DetachedIs ==
  ASSUME NEW gone, source \in [Glib!Source -> SourceRec]
  PROVE  /\ Glib!Detached(gone) \in [Glib!Source -> SourceRec]
         /\ \A i \in Glib!Source :
              /\ Glib!Detached(gone)[i].of = source[i].of
              /\ Glib!Detached(gone)[i].attached <=> source[i].attached /\ i \notin gone
              /\ Glib!Detached(gone)[i].ended
                   = IF i \in gone /\ i # running THEN source[i].ended + 1 ELSE source[i].ended
<1> DEFINE d == Glib!Detached(gone)
<1>1. \A i \in Glib!Source :
        d[i] = [source[i] EXCEPT !.attached = source[i].attached /\ i \notin gone,
                                 !.ended = source[i].ended + (IF i \in Glib!Destroys(gone) THEN 1 ELSE 0)]
  BY DEF Glib!Detached
<1>2. ASSUME NEW i \in Glib!Source
      PROVE  /\ d[i] \in SourceRec /\ d[i].of = source[i].of
             /\ d[i].attached <=> source[i].attached /\ i \notin gone
             /\ d[i].ended = IF i \in gone /\ i # running THEN source[i].ended + 1 ELSE source[i].ended
  <2> DEFINE n == source[i]
             a == n.attached /\ i \notin gone
             k == n.ended + (IF i \in Glib!Destroys(gone) THEN 1 ELSE 0)
  <2>1. n \in SourceRec
    OBVIOUS
  <2>2. d[i] = [n EXCEPT !.attached = a, !.ended = k]
    BY <1>1
  <2>3. a \in BOOLEAN /\ k \in Nat
    BY <2>1 DEF SourceRec
  <2>4. k = IF i \in gone /\ i # running THEN n.ended + 1 ELSE n.ended
    <3>1. i # 0 /\ n.ended \in Nat
      BY <2>1, GlibNames DEF SourceRec
    <3> QED BY <3>1 DEF Glib!Destroys
  <2> HIDE DEF n, k, d
  <2>5. d[i] \in SourceRec /\ d[i].of = n.of /\ d[i].ended = k /\ (d[i].attached <=> a)
    <3>1. CASE a
      <4>1. d[i] = [n EXCEPT !.attached = TRUE, !.ended = k]
        BY <2>2, <2>3, <3>1
      <4> HIDE DEF a
      <4> QED BY <2>1, <2>3, <3>1, <4>1 DEF SourceRec
    <3>2. CASE ~a
      <4>1. d[i] = [n EXCEPT !.attached = FALSE, !.ended = k]
        BY <2>2, <2>3, <3>2
      <4> HIDE DEF a
      <4> QED BY <2>1, <2>3, <3>2, <4>1 DEF SourceRec
    <3> QED BY <3>1, <3>2
  <2> QED BY <2>4, <2>5 DEF n
<1>3. d \in [Glib!Source -> SourceRec]
  BY <1>2 DEF Glib!Detached
<1> QED BY <1>2, <1>3

\* io_set_handler takes the old watch of the slot away, io_destroy all of them.
InSlots(W) == {watch[w] : w \in W}
WithoutSlots(W) == [w \in Glib!Watches |-> IF w \in W THEN 0 ELSE watch[w]]

LEMMA SlotsDetached ==
  ASSUME GlibInv, NEW W \in SUBSET Glib!Watches,
         NEW gone, gone = InSlots(W), NEW slots, slots = WithoutSlots(W)
  PROVE  /\ GlibOk(Glib!Detached(gone), slots, io_ref - Cardinality(Glib!Destroys(gone)),
                   owned, running)
         /\ Cardinality(Glib!Destroys(gone)) \in Nat
         /\ MadeIn(Glib!Detached(gone)) = MadeIn(source)
<1> USE DEF InSlots, WithoutSlots
<1> DEFINE real == gone \ {0}
           src == Glib!Detached(gone)
<1>1. source \in [Glib!Source -> SourceRec] /\ watch \in [Glib!Watches -> 0 .. MaxSource]
  BY DEF GlibInv, GlibOk
<1>2. real \in SUBSET Glib!Source
  BY <1>1, GlibNames
<1>3. \A i \in real : source[i].of \in Glib!Watches /\ source[i].attached
  BY DEF GlibInv, GlibOk
<1>4. /\ src \in [Glib!Source -> SourceRec]
      /\ \A i \in Glib!Source :
           /\ src[i].of = source[i].of
           /\ src[i].attached <=> source[i].attached /\ i \notin real
           /\ src[i].ended = IF i \in real /\ i # running THEN source[i].ended + 1 ELSE source[i].ended
  <2>1. \A i \in Glib!Source : i \in gone <=> i \in real
    BY GlibNames
  <2> HIDE DEF real
  <2> QED BY <1>1, <2>1, DetachedIs
<1>5. /\ slots \in [Glib!Watches -> 0 .. MaxSource]
      /\ \A w \in Glib!Watches : slots[w] = IF watch[w] \in real THEN 0 ELSE watch[w]
  <2>1. ASSUME NEW w \in Glib!Watches, NEW v \in W, watch[w] = watch[v], watch[v] # 0 PROVE w = v
    BY <2>1 DEF GlibInv, GlibOk
  <2> QED BY <1>1, <2>1, GlibNames
<1>6. Glib!Destroys(gone) = {i \in real : i # running /\ source[i].of \in Glib!Watches}
  BY <1>3 DEF Glib!Destroys
<1>7. Cardinality(Glib!Destroys(gone)) \in Nat
  <2>1. IsFiniteSet(Glib!Source)
    BY GlibNames, FS_Interval
  <2>2. IsFiniteSet(Glib!Destroys(gone))
    BY <1>2, <1>6, <2>1, FS_Subset
  <2> QED BY <2>2, FS_CardinalityType
<1>8. MadeIn(src) = MadeIn(source)
  BY <1>4 DEF MadeIn
<1>9. \A i \in real : source[i].of # "none" /\ source[i].attached
  BY <1>3, GlibNames
<1> HIDE DEF src, real
<1>10. GlibOk(source, watch, io_ref, owned, running)
  BY DEF GlibInv
<1>11. GlibOk(src, slots, io_ref - Cardinality(Glib!Destroys(gone)), owned, running)
  <2>1. Detaches(source, watch, running, real, src, slots, Glib!Destroys(gone))
    BY <1>2, <1>4, <1>5, <1>6, <1>9 DEF Detaches
  <2> QED BY <1>10, <2>1, GlibDetachedOk
<1> QED BY <1>7, <1>8, <1>11 DEF src

\* Each call and each turn of the main loop.
LEMMA GlibStepInv == GlibInv /\ [Glib!GlibNext]_glibVars => GlibInv'
<1> SUFFICES ASSUME GlibInv, [Glib!GlibNext]_glibVars PROVE GlibInv'
  OBVIOUS
<1>1. /\ source \in [Glib!Source -> SourceRec] /\ watch \in [Glib!Watches -> 0 .. MaxSource]
      /\ io_ref \in Int /\ running \in 0 .. MaxSource
  BY DEF GlibInv, GlibOk
<1>2. Glib!Made = MadeIn(source)
  BY DEF Glib!Made, MadeIn
<1>3. CASE UNCHANGED glibVars
  BY <1>3 DEF glibVars, GlibInv
<1>4. ASSUME NEW w \in Glib!Watches, NEW callback \in BOOLEAN, Glib!SetHandler(w, callback)
      PROVE  GlibInv'
  <2> DEFINE gone == {watch[w]}
             old == Glib!Destroys(gone)
             now == Glib!Detached(gone)
             slots == [watch EXCEPT ![w] = 0]
             i == Cardinality(Glib!Made) + 1
  <2>1. gone = InSlots({w}) /\ slots = WithoutSlots({w}) /\ {w} \in SUBSET Glib!Watches
    BY <1>1 DEF InSlots, WithoutSlots
  <2>2. GlibOk(now, slots, io_ref - Cardinality(old), owned, running)
        /\ Cardinality(old) \in Nat /\ MadeIn(now) = MadeIn(source)
    <3> HIDE DEF slots, gone
    <3> QED BY <2>1, SlotsDetached
  <2>3. owned /\ UNCHANGED <<owned, running>>
    BY <1>4 DEF Glib!SetHandler
  <2>4. CASE callback
    <3>1. Glib!Made # Glib!Source
      BY <1>4, <2>4 DEF Glib!SetHandler
    <3>2. i \in Glib!Source /\ i = Cardinality(MadeIn(now)) + 1
      BY <1>2, <2>2, <3>1, NextSource
    <3>3. /\ source' = [now EXCEPT ![i] = [of |-> w, attached |-> TRUE, ended |-> 0]]
          /\ watch' = [watch EXCEPT ![w] = i]
          /\ io_ref' = io_ref + 1 - Cardinality(old)
      BY <1>4, <2>4, GlibCounts DEF Glib!SetHandler
    <3>4. slots[w] = 0 /\ [slots EXCEPT ![w] = i] = [watch EXCEPT ![w] = i]
      BY <1>1
    <3> HIDE DEF slots, i, old, now
    <3>5. GlibOk([now EXCEPT ![i] = [of |-> w, attached |-> TRUE, ended |-> 0]],
                 IF w \in Glib!Watches THEN [slots EXCEPT ![w] = i] ELSE slots,
                 IF w \in Glib!Watches THEN io_ref - Cardinality(old) + 1 ELSE io_ref - Cardinality(old),
                 owned, running)
      BY <2>2, <2>3, <3>2, <3>4, GlibAddedOk
    <3>6. GlibOk([now EXCEPT ![i] = [of |-> w, attached |-> TRUE, ended |-> 0]],
                 [slots EXCEPT ![w] = i], io_ref - Cardinality(old) + 1, owned, running)
      BY <3>5
    <3>7. io_ref' = io_ref - Cardinality(old) + 1
      BY <1>1, <2>2, <3>3
    <3> QED BY <2>3, <3>3, <3>4, <3>6, <3>7 DEF GlibInv
  <2>5. CASE ~callback
    <3>1. source' = now /\ watch' = slots /\ io_ref' = io_ref - Cardinality(old)
      BY <1>4, <2>5, GlibCounts DEF Glib!SetHandler
    <3> QED BY <2>2, <2>3, <3>1 DEF GlibInv
  <2> QED BY <2>4, <2>5
<1>5. CASE Glib!Destroy
  <2> DEFINE gone == {watch[w] : w \in Glib!Watches}
             none == [w \in Glib!Watches |-> 0]
             refs == io_ref - Cardinality(Glib!Destroys(gone))
  <2>1. gone = InSlots(Glib!Watches) /\ none = WithoutSlots(Glib!Watches)
    BY DEF InSlots, WithoutSlots
  <2>2. GlibOk(Glib!Detached(gone), none, refs, owned, running)
    <3> HIDE DEF none, gone
    <3> QED BY <2>1, SlotsDetached
  <2>3. /\ source' = Glib!Detached(gone) /\ watch' = none /\ io_ref' = refs - 1
        /\ owned /\ owned' = FALSE /\ running' = running
    BY <1>5, GlibCounts DEF Glib!Destroy
  <2> HIDE DEF gone, refs
  <2>4. GlibOk(source', watch', refs, owned, running)
    BY <2>2, <2>3
  <2>5. refs = 1 + Cardinality(HeldIn(source')) /\ refs \in Int
    BY <2>3, <2>4 DEF GlibOk
  <2>6. Cardinality(HeldIn(source')) \in Nat
    BY HeldFinite, FS_CardinalityType
  <2>7. io_ref' = 0 + Cardinality(HeldIn(source')) /\ io_ref' \in Int
    BY <2>3, <2>5, <2>6
  <2>8. \A w \in Glib!Watches : watch'[w] = 0
    BY <2>3
  <2>9. GlibOk(source', watch', io_ref', owned', running')
    BY <2>3, <2>4, <2>7, <2>8 DEF GlibOk
  <2> QED BY <2>9 DEF GlibInv
<1>6. CASE Glib!TimeoutAdd
  <2> DEFINE i == Cardinality(Glib!Made) + 1
  <2>1. /\ source' = [source EXCEPT ![i] = [of |-> "timeout", attached |-> TRUE, ended |-> 0]]
        /\ Glib!Made # Glib!Source /\ UNCHANGED <<watch, io_ref, owned, running>>
    BY <1>6, GlibCounts DEF Glib!TimeoutAdd
  <2>2. i \in Glib!Source /\ i = Cardinality(MadeIn(source)) + 1
    BY <1>2, <2>1, NextSource DEF GlibInv
  <2> DEFINE of == "timeout"
  <2>3. of \in Glib!Watches \cup {"timeout"} /\ of \notin Glib!Watches
    BY GlibNames
  <2> HIDE DEF i, of
  <2>4. GlibOk([source EXCEPT ![i] = [of |-> of, attached |-> TRUE, ended |-> 0]],
               IF of \in Glib!Watches THEN [watch EXCEPT ![of] = i] ELSE watch,
               IF of \in Glib!Watches THEN io_ref + 1 ELSE io_ref, owned, running)
    BY <2>2, <2>3, GlibAddedOk DEF GlibInv
  <2>5. GlibOk([source EXCEPT ![i] = [of |-> of, attached |-> TRUE, ended |-> 0]],
               watch, io_ref, owned, running)
    BY <2>3, <2>4
  <2> QED BY <2>1, <2>5 DEF GlibInv, of
<1>7. ASSUME NEW i \in Glib!Made, Glib!TimeoutRemove(i) PROVE GlibInv'
  <2>1. /\ i \in Glib!Source /\ source[i].of = "timeout" /\ source[i].attached
        /\ source' = Glib!Detached({i}) /\ UNCHANGED <<watch, io_ref, owned, running>>
    BY <1>7 DEF Glib!TimeoutRemove, Glib!Made
  <2>2. \A w \in Glib!Watches : watch[w] = IF watch[w] \in {i} THEN 0 ELSE watch[w]
    BY <2>1, GlibNames DEF GlibInv, GlibOk
  <2>3. {} = {j \in {i} : j # running /\ source[j].of \in Glib!Watches}
    BY <2>1, GlibNames
  <2>4. {i} \in SUBSET Glib!Source /\ \A j \in {i} : source[j].of # "none" /\ source[j].attached
    BY <2>1
  <2> DEFINE src == Glib!Detached({i})
  <2>5. /\ src \in [Glib!Source -> SourceRec]
        /\ \A j \in Glib!Source :
              /\ src[j].of = source[j].of
              /\ src[j].attached <=> source[j].attached /\ j \notin {i}
              /\ src[j].ended = IF j \in {i} /\ j # running THEN source[j].ended + 1 ELSE source[j].ended
    BY <1>1, DetachedIs
  <2> HIDE DEF src
  <2>6. GlibOk(src, watch, io_ref - Cardinality({}), owned, running)
    <3>1. GlibOk(source, watch, io_ref, owned, running)
      BY DEF GlibInv
    <3>2. Detaches(source, watch, running, {i}, src, watch, {})
      BY <1>1, <2>2, <2>3, <2>4, <2>5 DEF Detaches
    <3> QED BY <3>1, <3>2, GlibDetachedOk
  <2>7. io_ref - Cardinality({}) = io_ref
    BY <1>1, FS_EmptySet
  <2> QED BY <2>1, <2>6, <2>7 DEF GlibInv, src
<1>8. ASSUME NEW i \in Glib!Made, Glib!Dispatch(i) PROVE GlibInv'
  <2>1. /\ i \in Glib!Source /\ i \in 0 .. MaxSource /\ source[i].of # "none"
        /\ source[i].attached /\ running = 0 /\ running' = i
        /\ UNCHANGED <<source, watch, io_ref, owned>>
    BY <1>8, GlibNames DEF Glib!Dispatch, Glib!Made
  <2>2. \A j \in Glib!Source : source[j].of # "none" =>
          source[j].ended = IF source[j].attached \/ i = j THEN 0 ELSE 1
    BY <2>1, GlibNames DEF GlibInv, GlibOk
  <2>3. GlibOk(source, watch, io_ref, owned, i)
    BY <2>1, <2>2 DEF GlibInv, GlibOk
  <2> QED BY <2>1, <2>3 DEF GlibInv
<1>9. ASSUME NEW i \in Glib!Source, Glib!Ends(i), source[i].of # "none", running' = 0,
             (running = 0 /\ source[i].attached) \/ running = i
      PROVE  GlibInv'
  <2> DEFINE n == source[i]
             m == [n EXCEPT !.attached = FALSE, !.ended = n.ended + 1]
  <2>1. /\ source' = [source EXCEPT ![i] = m] /\ watch' = Glib!Cleared(i, watch)
        /\ io_ref' = IF n.of \in Glib!Watches THEN io_ref - 1 ELSE io_ref
        /\ owned' = owned
    BY <1>9 DEF Glib!Ends
  <2>2. n \in SourceRec
    BY <1>1
  <2>3. m \in SourceRec /\ m.of = n.of /\ ~m.attached /\ m.ended = n.ended + 1
    <3> HIDE DEF n
    <3>1. n.ended + 1 \in Nat
      BY <2>2 DEF SourceRec
    <3> QED BY <2>2, <3>1 DEF SourceRec
  <2> HIDE DEF m
  <2>4. /\ source' \in [Glib!Source -> SourceRec] /\ source'[i] = m
        /\ \A j \in Glib!Source : j # i => source'[j] = source[j]
    BY <1>1, <2>1, <2>3
  <2>5. GlibOk(source', Glib!Cleared(i, watch),
               IF source[i].of \in Glib!Watches THEN io_ref - 1 ELSE io_ref, owned, 0)
    BY <1>9, <2>3, <2>4, GlibEndsOk DEF GlibInv
  <2> QED BY <1>9, <2>1, <2>5 DEF GlibInv
<1>10. ASSUME NEW i \in Glib!Made, Glib!Fails(i) PROVE GlibInv'
  BY <1>9, <1>10 DEF Glib!Fails, Glib!Made
<1>11. ASSUME NEW again \in BOOLEAN, Glib!Return(again) PROVE GlibInv'
  <2>1. running # 0 /\ running' = 0 /\ running \in Glib!Source /\ source[running].of # "none"
    BY <1>1, <1>11, GlibNames DEF Glib!Return, GlibInv, GlibOk
  <2>2. CASE again /\ source[running].attached
    <3>1. UNCHANGED <<source, watch, io_ref, owned>>
      BY <1>11, <2>2 DEF Glib!Return
    <3>2. \A j \in Glib!Source : source[j].of # "none" =>
            source[j].ended = IF source[j].attached \/ 0 = j THEN 0 ELSE 1
      BY <2>2, GlibNames DEF GlibInv, GlibOk
    <3>3. GlibOk(source, watch, io_ref, owned, 0)
      BY <2>1, <3>2, GlibNames DEF GlibInv, GlibOk
    <3> QED BY <2>1, <3>1, <3>3 DEF GlibInv
  <2>3. CASE ~(again /\ source[running].attached)
    <3>1. Glib!Ends(running)
      BY <1>11, <2>3 DEF Glib!Return
    <3> QED BY <1>9, <2>1, <3>1
  <2> QED BY <2>2, <2>3
<1> QED
  BY <1>3, <1>4, <1>5, <1>6, <1>7, <1>8, <1>10, <1>11 DEF Glib!GlibNext

\* What the run checks of the main loop follows.
LEMMA GlibInvEnds == GlibInv => Glib!WatchesEndOnce
<1>1. {i \in Glib!Source : Glib!Held(i)} = HeldIn(source)
  BY DEF Glib!Held, HeldIn
<1> QED BY <1>1, GlibCounts DEF GlibInv, GlibOk, Glib!WatchesEndOnce, Glib!Made

\* A watch or timer is destroyed once, and the io lives as long as one refers
\* to it.
THEOREM WatchesEndOnceAlways == Glib!GlibSpec => []Glib!WatchesEndOnce
<1>1. GlibInv /\ [Glib!GlibNext]_(Glib!glibVars) => GlibInv'
  BY GlibStepInv DEF Glib!glibVars, glibVars
<1> QED BY <1>1, GlibInitInv, GlibInvEnds, PTL DEF Glib!GlibSpec

-----------------------------------------------------------------------------
(* Linked lists.  A list of entries is linked by nxt when each entry is      *)
(* followed by its next; what From computes is then that list.               *)

LEMMA InsertIs ==
  ASSUME NEW T, NEW s \in Seq(T), NEW k \in 1 .. Len(s) + 1, NEW e \in T
  PROVE  /\ InsertAt(s, k, e) \in Seq(T) /\ Len(InsertAt(s, k, e)) = Len(s) + 1
         /\ \A i \in 1 .. Len(s) + 1 :
              InsertAt(s, k, e)[i] = IF i < k THEN s[i] ELSE IF i = k THEN e ELSE s[i - 1]
<1> DEFINE a == SubSeq(s, 1, k - 1)
           b == SubSeq(s, k, Len(s))
<1>1. a \in Seq(T) /\ Len(a) = k - 1 /\ \A i \in 1 .. k - 1 : a[i] = s[i]
  OBVIOUS
<1>2. b \in Seq(T) /\ Len(b) = Len(s) - k + 1 /\ \A i \in 1 .. Len(s) - k + 1 : b[i] = s[k + i - 1]
  OBVIOUS
<1>3. InsertAt(s, k, e) = (a \o <<e>>) \o b
  BY DEF InsertAt
<1> HIDE DEF a, b
<1> DEFINE c == a \o <<e>>
<1>4. c \in Seq(T) /\ Len(c) = k /\ \A i \in 1 .. k : c[i] = IF i < k THEN s[i] ELSE e
  BY <1>1
<1> HIDE DEF c
<1>5. InsertAt(s, k, e) = c \o b
  BY <1>3 DEF c
<1>6. /\ c \o b \in Seq(T) /\ Len(c \o b) = Len(s) + 1
      /\ \A i \in 1 .. Len(s) + 1 : (c \o b)[i] = IF i <= k THEN c[i] ELSE b[i - k]
  <2>1. k \in Nat /\ Len(s) \in Nat /\ k + (Len(s) - k + 1) = Len(s) + 1
    OBVIOUS
  <2>2. c \o b \in Seq(T) /\ Len(c \o b) = Len(c) + Len(b)
        /\ \A i \in 1 .. Len(c) + Len(b) : (c \o b)[i] = IF i <= Len(c) THEN c[i] ELSE b[i - Len(c)]
    BY <1>2, <1>4, ConcatProperties
  <2>3. Len(c) + Len(b) = Len(s) + 1 /\ Len(c) = k
    BY <1>2, <1>4, <2>1
  <2> QED BY <2>2, <2>3
<1>7. ASSUME NEW i \in 1 .. Len(s) + 1
      PROVE  (c \o b)[i] = IF i < k THEN s[i] ELSE IF i = k THEN e ELSE s[i - 1]
  <2>1. CASE i <= k
    <3>1. i \in 1 .. k /\ (c \o b)[i] = c[i]
      BY <1>6, <2>1
    <3> QED BY <1>4, <2>1, <3>1
  <2>2. CASE i > k
    <3>1. (c \o b)[i] = b[i - k]
      BY <1>6, <2>2
    <3>2. i - k \in 1 .. Len(s) - k + 1 /\ k + (i - k) - 1 = i - 1
      BY <2>2
    <3>3. b[i - k] = s[k + (i - k) - 1]
      BY <1>2, <3>2
    <3> QED BY <2>2, <3>1, <3>2, <3>3
  <2>3. i <= k \/ i > k
    OBVIOUS
  <2> QED BY <2>1, <2>2, <2>3, Zenon
<1> QED BY <1>5, <1>6, <1>7

LEMMA RemoveIs ==
  ASSUME NEW T, NEW s \in Seq(T), NEW k \in 1 .. Len(s)
  PROVE  /\ RemoveAt(s, k) \in Seq(T) /\ Len(RemoveAt(s, k)) = Len(s) - 1
         /\ \A i \in 1 .. Len(s) - 1 : RemoveAt(s, k)[i] = IF i < k THEN s[i] ELSE s[i + 1]
<1> DEFINE a == SubSeq(s, 1, k - 1)
           b == SubSeq(s, k + 1, Len(s))
<1>1. a \in Seq(T) /\ Len(a) = k - 1 /\ \A i \in 1 .. k - 1 : a[i] = s[i]
  OBVIOUS
<1>2. b \in Seq(T) /\ Len(b) = Len(s) - k /\ \A i \in 1 .. Len(s) - k : b[i] = s[k + i]
  OBVIOUS
<1>3. RemoveAt(s, k) = a \o b
  BY DEF RemoveAt
<1> HIDE DEF a, b
<1>4. a \o b \in Seq(T) /\ Len(a \o b) = Len(s) - 1
  <2>1. a \o b \in Seq(T) /\ Len(a \o b) = Len(a) + Len(b)
    <3>1. a \in Seq(T) /\ b \in Seq(T)
      BY <1>1, <1>2
    <3>2. QED BY <3>1, ConcatProperties
  <2>2. Len(a) + Len(b) = Len(s) - 1
    BY <1>1, <1>2
  <2>3. QED BY <2>1, <2>2
<1>5. ASSUME NEW i \in 1 .. Len(s) - 1
      PROVE  (a \o b)[i] = IF i < k THEN s[i] ELSE s[i + 1]
  <2>1. (a \o b)[i] = IF i <= Len(a) THEN a[i] ELSE b[i - Len(a)]
    BY <1>1, <1>2, <1>5
  <2>2. CASE i < k
    BY <1>1, <2>1, <2>2
  <2>3. CASE ~(i < k)
    <3>1. i - (k - 1) \in 1 .. Len(s) - k /\ k + (i - (k - 1)) = i + 1 /\ ~(i <= k - 1)
      BY <1>5, <2>3
    <3>2. b[i - (k - 1)] = s[i + 1]
      BY <1>2, <3>1
    <3>3. QED BY <1>1, <2>1, <2>3, <3>1, <3>2
  <2>4. QED BY <2>2, <2>3, Zenon
<1>6. QED BY <1>3, <1>4, <1>5

LEMMA QueueNames ==
  /\ MaxEntry \in Nat /\ None \notin Data
  /\ Queue!Entry = 1 .. MaxEntry /\ Queue!Null = 0
BY LayersAssumption DEF Queue!QueueAssumption, Queue!Entry, Queue!Null

Linked(nxt, l) ==
  /\ l \in Seq(Queue!Entry)
  /\ \A i \in DOMAIN l : nxt[l[i]] = IF i < Len(l) THEN l[i + 1] ELSE 0
Start(l) == IF l = <<>> THEN 0 ELSE l[1]

\* One entry has one list.
LEMMA LinkedUnique ==
  ASSUME NEW nxt, NEW l, NEW m, Linked(nxt, l), Linked(nxt, m), Start(l) = Start(m)
  PROVE  l = m
<1>1. /\ l \in Seq(Queue!Entry) /\ m \in Seq(Queue!Entry)
      /\ \A i \in DOMAIN l : l[i] \in Queue!Entry /\ l[i] # 0
      /\ \A i \in DOMAIN m : m[i] \in Queue!Entry /\ m[i] # 0
  BY QueueNames DEF Linked
<1> DEFINE T == {k \in Nat : k \in DOMAIN l /\ k \in DOMAIN m /\ l[k] # m[k]}
<1>2. T = {}
  <2> SUFFICES ASSUME T # {} PROVE FALSE
    OBVIOUS
  <2>1. PICK k \in T : \A j \in T : k <= j
    BY NatMin
  <2>2. k \in DOMAIN l /\ k \in DOMAIN m /\ l[k] # m[k] /\ k \in Nat /\ k >= 1
    BY <1>1, <2>1
  <2>3. k # 1
    BY <1>1, <2>2 DEF Start
  <2>4. k - 1 \in DOMAIN l /\ k - 1 \in DOMAIN m /\ k - 1 \notin T /\ k - 1 < Len(l) /\ k - 1 < Len(m)
    BY <1>1, <2>1, <2>2, <2>3
  <2>5. l[k - 1] = m[k - 1]
    BY <2>2, <2>3, <2>4
  <2>6. nxt[l[k - 1]] = l[k] /\ nxt[m[k - 1]] = m[k]
    BY <2>2, <2>4 DEF Linked
  <2> QED BY <2>2, <2>5, <2>6
<1>3. ASSUME NEW a, NEW b, a \in {l, m}, b \in {l, m}, Start(a) = Start(b), Linked(nxt, a), Linked(nxt, b),
             \A k \in DOMAIN a : k \in DOMAIN b => a[k] = b[k], Len(a) < Len(b)
      PROVE  FALSE
  <2>1. a \in Seq(Queue!Entry) /\ b \in Seq(Queue!Entry)
        /\ \A i \in DOMAIN b : b[i] # 0
    BY <1>1, <1>3
  <2>2. a # <<>>
    BY <1>3, <2>1 DEF Start
  <2>3. Len(a) \in DOMAIN a /\ Len(a) \in DOMAIN b /\ Len(a) + 1 \in DOMAIN b
    BY <1>3, <2>1, <2>2
  <2>4. nxt[a[Len(a)]] = 0 /\ nxt[b[Len(a)]] = b[Len(a) + 1]
    BY <1>3, <2>1, <2>3 DEF Linked
  <2> QED BY <1>3, <2>1, <2>3, <2>4
<1>4. \A k \in DOMAIN l : k \in DOMAIN m => l[k] = m[k]
  BY <1>1, <1>2
<1>5. Len(l) = Len(m)
  <2>1. ~(Len(l) < Len(m))
    BY <1>3, <1>4
  <2>2. ~(Len(m) < Len(l))
    BY <1>3, <1>4
  <2> QED BY <1>1, <2>1, <2>2
<1> QED BY <1>1, <1>4, <1>5

\* The rest of a list, from one of its entries.
LEMMA LinkedRest ==
  ASSUME NEW nxt, NEW l, Linked(nxt, l), NEW k \in DOMAIN l
  PROVE  /\ Linked(nxt, SubSeq(l, k, Len(l))) /\ Start(SubSeq(l, k, Len(l))) = l[k]
         /\ Len(SubSeq(l, k, Len(l))) = Len(l) - k + 1
<1> DEFINE r == SubSeq(l, k, Len(l))
<1>1. l \in Seq(Queue!Entry) /\ k \in 1 .. Len(l)
  BY DEF Linked
<1>2. r \in Seq(Queue!Entry) /\ Len(r) = Len(l) - k + 1 /\ \A i \in 1 .. Len(l) - k + 1 : r[i] = l[k + i - 1]
  BY <1>1
<1> HIDE DEF r
<1>3. ASSUME NEW i \in DOMAIN r PROVE nxt[r[i]] = IF i < Len(r) THEN r[i + 1] ELSE 0
  <2>1. i \in 1 .. Len(l) - k + 1 /\ k + i - 1 \in DOMAIN l
    BY <1>1, <1>2
  <2>2. nxt[l[k + i - 1]] = IF k + i - 1 < Len(l) THEN l[k + i - 1 + 1] ELSE 0
    BY <2>1 DEF Linked
  <2>3. r[i] = l[k + i - 1] /\ i \in Int /\ k \in Int /\ Len(l) \in Int
    BY <1>1, <1>2, <2>1
  <2>4. CASE i < Len(r)
    <3>1. i + 1 \in 1 .. Len(l) - k + 1 /\ k + (i + 1) - 1 = k + i - 1 + 1
      BY <1>2, <2>1, <2>3, <2>4, SMTT(30)
    <3>2. r[i + 1] = l[k + i - 1 + 1]
      BY <1>2, <3>1
    <3> QED BY <1>2, <2>2, <2>3, <2>4, <3>2
  <2>5. CASE ~(i < Len(r))
    <3>1. i \in Int /\ Len(r) \in Int /\ i >= Len(r)
      BY <1>2, <2>3, <2>5
    <3>2. ~(k + i - 1 < Len(l))
      BY <1>2, <2>3, <3>1
    <3>3. nxt[l[k + i - 1]] = 0
      BY <2>2, <3>2
    <3> QED BY <2>3, <2>5, <3>3
  <2> QED BY <2>4, <2>5
<1>4. r # <<>> /\ r[1] = l[k]
  BY <1>1, <1>2
<1>5. Linked(nxt, r) /\ Start(r) = l[k] /\ Len(r) = Len(l) - k + 1
  BY <1>2, <1>3, <1>4 DEF Linked, Start
<1> QED BY <1>5 DEF r

LEMMA LinkedInjective ==
  ASSUME NEW nxt, NEW l, Linked(nxt, l), NEW i \in DOMAIN l, NEW j \in DOMAIN l, l[i] = l[j]
  PROVE  i = j
<1> DEFINE a == SubSeq(l, i, Len(l))
           b == SubSeq(l, j, Len(l))
<1>1. /\ Linked(nxt, a) /\ Start(a) = l[i] /\ Len(a) = Len(l) - i + 1
      /\ Linked(nxt, b) /\ Start(b) = l[j] /\ Len(b) = Len(l) - j + 1
  BY LinkedRest
<1> HIDE DEF a, b
<1>2. a = b
  BY <1>1, LinkedUnique
<1>3. l \in Seq(Queue!Entry) /\ i \in Nat /\ j \in Nat
  BY DEF Linked
<1> QED BY <1>1, <1>2, <1>3

\* A list is its first entry and the list of the next.
LEMMA LinkedTail ==
  ASSUME NEW nxt, NEW l, Linked(nxt, l), l # <<>>
  PROVE  /\ Linked(nxt, Tail(l)) /\ Start(Tail(l)) = nxt[l[1]]
         /\ l = <<l[1]>> \o Tail(l) /\ Len(Tail(l)) = Len(l) - 1
<1>1. l \in Seq(Queue!Entry)
  BY DEF Linked
<1>2. Tail(l) \in Seq(Queue!Entry) /\ Len(Tail(l)) = Len(l) - 1
      /\ \A i \in 1 .. Len(l) - 1 : Tail(l)[i] = l[i + 1]
  BY <1>1
<1>3. ASSUME NEW i \in DOMAIN Tail(l)
      PROVE  nxt[Tail(l)[i]] = IF i < Len(Tail(l)) THEN Tail(l)[i + 1] ELSE 0
  <2>1. i \in 1 .. Len(l) - 1 /\ i + 1 \in DOMAIN l
    BY <1>1, <1>2
  <2>2. nxt[l[i + 1]] = IF i + 1 < Len(l) THEN l[i + 1 + 1] ELSE 0
    BY <2>1 DEF Linked
  <2> QED BY <1>1, <1>2, <2>1, <2>2
<1>4. Start(Tail(l)) = nxt[l[1]]
  <2>1. 1 \in DOMAIN l /\ Len(l) \in Nat
    BY <1>1
  <2>2. nxt[l[1]] = IF 1 < Len(l) THEN l[2] ELSE 0
    BY <2>1 DEF Linked
  <2>3. CASE 1 < Len(l)
    <3>1. Tail(l)[1] = l[2] /\ Tail(l) # <<>>
      <4>1. 1 \in 1 .. Len(l) - 1 /\ Len(Tail(l)) # 0
        BY <1>2, <2>1, <2>3
      <4> QED BY <1>2, <4>1
    <3> QED BY <2>2, <2>3, <3>1 DEF Start
  <2>4. CASE ~(1 < Len(l))
    <3>1. Len(Tail(l)) = 0
      BY <1>1, <1>2, <2>1, <2>4
    <3>2. Tail(l) = <<>>
      <4> DEFINE t == Tail(l)
      <4>1. t \in Seq(Queue!Entry) /\ Len(t) = 0
        BY <1>2, <3>1
      <4> HIDE DEF t
      <4>2. t = <<>>
        BY <4>1
      <4> QED BY <4>2 DEF t
    <3> QED BY <2>2, <2>4, <3>2 DEF Start
  <2> QED BY <2>3, <2>4
<1>5. l = <<l[1]>> \o Tail(l)
  BY <1>1, <1>2
<1> QED BY <1>2, <1>3, <1>4, <1>5 DEF Linked

FromIn(nxt, start) ==
  LET chain[e \in Queue!Entry \cup {Queue!Null}] ==
        IF e = Queue!Null THEN <<>> ELSE <<e>> \o chain[nxt[e]]
  IN  chain[start]

\* From follows the entries of the list, when every entry has one.
LEMMA FromLinked ==
  ASSUME NEW nxt, \A e \in Queue!Entry \cup {0} : \E m : Linked(nxt, m) /\ Start(m) = e,
         NEW l, Linked(nxt, l)
  PROVE  FromIn(nxt, Start(l)) = l
<1> DEFINE S == Queue!Entry \cup {Queue!Null}
           Is(g) == g = [e \in S |-> IF e = Queue!Null THEN <<>> ELSE <<e>> \o g[nxt[e]]]
           f == [e \in S |-> CHOOSE m : Linked(nxt, m) /\ Start(m) = e]
           chain == CHOOSE g : Is(g)
<1>1. S = Queue!Entry \cup {0} /\ Queue!Null = 0 /\ 0 \notin Queue!Entry
  BY QueueNames
<1>2. \A e \in S : Linked(nxt, f[e]) /\ Start(f[e]) = e
  BY <1>1
<1> HIDE DEF f
<1>3. ASSUME NEW e \in S, e # 0 PROVE nxt[e] \in S /\ f[e] = <<e>> \o f[nxt[e]]
  <2>1. Linked(nxt, f[e]) /\ Start(f[e]) = e /\ f[e] # <<>>
    BY <1>2, <1>3 DEF Start
  <2>2. f[e][1] = e
    BY <2>1 DEF Start
  <2> DEFINE t == Tail(f[e])
  <2>3. Linked(nxt, t) /\ Start(t) = nxt[e] /\ f[e] = <<e>> \o t
    BY <2>1, <2>2, LinkedTail
  <2> HIDE DEF t
  <2>4. nxt[e] \in S
    <3>1. t \in Seq(Queue!Entry)
      BY <2>3 DEF Linked
    <3>2. Start(t) \in Queue!Entry \cup {0}
      BY <3>1 DEF Start
    <3> QED BY <1>1, <2>3, <3>2
  <2>5. t = f[nxt[e]]
    BY <1>2, <2>3, <2>4, LinkedUnique
  <2> QED BY <2>3, <2>4, <2>5
<1>4. f[0] = <<>>
  <2>1. Linked(nxt, f[0]) /\ Start(f[0]) = 0
    BY <1>1, <1>2
  <2>2. f[0] \in Seq(Queue!Entry)
    BY <2>1 DEF Linked
  <2> QED BY <1>1, <2>1, <2>2 DEF Start
<1>5. Is(f)
  <2>1. \A e \in S : f[e] = IF e = Queue!Null THEN <<>> ELSE <<e>> \o f[nxt[e]]
    BY <1>1, <1>3, <1>4
  <2>2. f = [e \in S |-> f[e]]
    BY DEF f
  <2> QED BY <2>1, <2>2
<1>6. Is(chain)
  BY <1>5
<1> HIDE DEF chain
<1>7. \A e \in S : chain[e] = IF e = 0 THEN <<>> ELSE <<e>> \o chain[nxt[e]]
  BY <1>1, <1>6
<1> HIDE DEF Is
<1> DEFINE Wrong == {n \in Nat : \E m : Linked(nxt, m) /\ Len(m) = n /\ chain[Start(m)] # m}
<1>8. Wrong = {}
  <2> SUFFICES ASSUME Wrong # {} PROVE FALSE
    OBVIOUS
  <2>1. PICK n \in Wrong : \A k \in Wrong : n <= k
    BY NatMin
  <2>2. PICK m : Linked(nxt, m) /\ Len(m) = n /\ chain[Start(m)] # m
    BY <2>1
  <2>3. m \in Seq(Queue!Entry)
    BY <2>2 DEF Linked
  <2>4. m # <<>>
    BY <1>1, <1>7, <2>2 DEF Start
  <2> DEFINE t == Tail(m)
  <2>5. Linked(nxt, t) /\ Start(t) = nxt[m[1]] /\ m = <<m[1]>> \o t /\ Len(t) = Len(m) - 1
    BY <2>2, <2>4, LinkedTail
  <2> HIDE DEF t
  <2>6. Len(m) - 1 \in Nat
    BY <2>3, <2>4
  <2>7. Len(t) \notin Wrong
    BY <2>1, <2>2, <2>5, <2>6
  <2>8. chain[nxt[m[1]]] = t
    BY <2>5, <2>6, <2>7
  <2>9. Start(m) = m[1] /\ m[1] \in Queue!Entry
    BY <2>3, <2>4 DEF Start
  <2> QED BY <1>1, <1>7, <2>2, <2>5, <2>8, <2>9
<1>9. Len(l) \in Nat
  BY DEF Linked
<1>10. chain[Start(l)] = l
  BY <1>8, <1>9
<1>11. FromIn(nxt, Start(l)) = chain[Start(l)]
  BY DEF FromIn, chain, Is
<1> QED BY <1>10, <1>11

\* The entries that are allocated are in three lists: that of the queue, and
\* those that loops of queue_remove_all or queue_destroy took away.
Heap(nxt, lv, L0, L1, L2) ==
  /\ nxt \in [Queue!Entry -> Queue!Entry \cup {0}]
  /\ Linked(nxt, L0) /\ Linked(nxt, L1) /\ Linked(nxt, L2)
  /\ lv = ToSet(L0) \cup ToSet(L1) \cup ToSet(L2)
  /\ ToSet(L0) \cap ToSet(L1) = {} /\ ToSet(L0) \cap ToSet(L2) = {}
  /\ ToSet(L1) \cap ToSet(L2) = {}
  /\ \A e \in Queue!Entry \ lv : nxt[e] = 0

LEMMA HeapSwaps ==
  ASSUME NEW nxt, NEW lv, NEW L0, NEW L1, NEW L2, Heap(nxt, lv, L0, L1, L2)
  PROVE  Heap(nxt, lv, L1, L0, L2) /\ Heap(nxt, lv, L0, L2, L1)
BY DEF Heap

LEMMA EmptyLinked == ASSUME NEW nxt PROVE Linked(nxt, <<>>) /\ ToSet(<<>>) = {} /\ Start(<<>>) = 0
BY DEF Linked, ToSet, Start

LEMMA HeapFrom ==
  ASSUME NEW nxt, NEW lv, NEW L0, NEW L1, NEW L2, Heap(nxt, lv, L0, L1, L2)
  PROVE  \A l \in {L0, L1, L2} : FromIn(nxt, Start(l)) = l
<1>1. ASSUME NEW e \in Queue!Entry \cup {0} PROVE \E m : Linked(nxt, m) /\ Start(m) = e
  <2>1. CASE e = 0
    BY <2>1, EmptyLinked
  <2>2. CASE e \in Queue!Entry \ lv
    <3>1. Linked(nxt, <<e>>) /\ Start(<<e>>) = e
      BY <2>2 DEF Heap, Linked, Start
    <3> QED BY <3>1
  <2>3. CASE e \in lv
    <3>1. PICK l \in {L0, L1, L2} : e \in ToSet(l)
      BY <2>3 DEF Heap
    <3>2. Linked(nxt, l)
      BY DEF Heap
    <3>3. PICK k \in DOMAIN l : l[k] = e
      BY <3>1 DEF ToSet
    <3> QED BY <3>2, <3>3, LinkedRest
  <2> QED BY <1>1, <2>1, <2>2, <2>3
<1>2. \A l \in {L0, L1, L2} : Linked(nxt, l)
  BY DEF Heap
<1> QED BY <1>1, <1>2, FromLinked

\* A list whose entries keep their next is linked as before.
LEMMA LinkedKept ==
  ASSUME NEW nxt, NEW nxt2, NEW l, Linked(nxt, l), \A e \in ToSet(l) : nxt2[e] = nxt[e]
  PROVE  Linked(nxt2, l)
BY DEF Linked, ToSet

\* An unused entry is linked in at a place of the list of the queue.
Inserts(nxt, nxt2, l, k, e) ==
  /\ nxt2 \in [Queue!Entry -> Queue!Entry \cup {0}]
  /\ nxt2[e] = IF k <= Len(l) THEN l[k] ELSE 0
  /\ k > 1 => nxt2[l[k - 1]] = e
  /\ \A x \in Queue!Entry : x # e /\ (k > 1 => x # l[k - 1]) => nxt2[x] = nxt[x]

LEMMA HeapInsert ==
  ASSUME NEW nxt, NEW nxt2, NEW lv, NEW L0, NEW L1, NEW L2, Heap(nxt, lv, L0, L1, L2),
         NEW e \in Queue!Entry \ lv, NEW k \in 1 .. Len(L0) + 1, Inserts(nxt, nxt2, L0, k, e)
  PROVE  Heap(nxt2, lv \cup {e}, InsertAt(L0, k, e), L1, L2)
<1> DEFINE n == Len(L0)
           l == InsertAt(L0, k, e)
<1>1. L0 \in Seq(Queue!Entry) /\ n \in Nat /\ DOMAIN L0 = 1 .. n /\ k \in Nat
      /\ \A i \in 1 .. n : L0[i] \in Queue!Entry
  BY DEF Heap, Linked
<1>2. /\ l \in Seq(Queue!Entry) /\ Len(l) = n + 1 /\ DOMAIN l = 1 .. n + 1
      /\ \A i \in 1 .. n + 1 : l[i] = IF i < k THEN L0[i] ELSE IF i = k THEN e ELSE L0[i - 1]
  BY <1>1, InsertIs, SMTT(30)
<1> HIDE DEF l
<1>3. ToSet(l) = ToSet(L0) \cup {e}
  <2>1. ASSUME NEW i \in 1 .. n + 1 PROVE l[i] \in ToSet(L0) \cup {e}
    <3>1. i < k => i \in 1 .. n
      BY <1>1
    <3>2. i > k => i - 1 \in 1 .. n
      BY <1>1
    <3>3. CASE i < k
      BY <1>1, <1>2, <3>1, <3>3 DEF ToSet
    <3>4. CASE i = k
      BY <1>1, <1>2, <3>4
    <3>5. CASE i > k
      <4>1. l[i] = L0[i - 1]
        BY <1>1, <1>2, <3>5
      <4> QED BY <1>1, <3>2, <3>5, <4>1 DEF ToSet
    <3>6. i < k \/ i = k \/ i > k
      BY <1>1
    <3> QED BY <3>3, <3>4, <3>5, <3>6, Zenon
  <2>2. e \in ToSet(l)
    BY <1>1, <1>2 DEF ToSet
  <2>3. ASSUME NEW i \in 1 .. n PROVE L0[i] \in ToSet(l)
    <3>1. CASE i < k
      <4>1. l[i] = L0[i] /\ i \in 1 .. n + 1
        BY <1>1, <1>2, <3>1
      <4> QED BY <1>2, <4>1 DEF ToSet
    <3>2. CASE i >= k
      <4>1. i + 1 \in 1 .. n + 1 /\ l[i + 1] = L0[i]
        BY <1>1, <1>2, <3>2
      <4> QED BY <1>2, <4>1 DEF ToSet
    <3> QED BY <1>1, <3>1, <3>2
  <2> QED BY <1>1, <1>2, <2>1, <2>2, <2>3 DEF ToSet
<1>4. \A i \in 1 .. n : L0[i] # e
  BY <1>1 DEF Heap, ToSet
<1>5. ASSUME NEW i \in 1 .. n, i # k - 1 PROVE nxt2[L0[i]] = IF i < n THEN L0[i + 1] ELSE 0
  <2>1. nxt[L0[i]] = IF i < n THEN L0[i + 1] ELSE 0
    BY <1>1 DEF Heap, Linked
  <2>2. k > 1 => L0[i] # L0[k - 1]
    <3>1. ASSUME k > 1 PROVE k - 1 \in DOMAIN L0
      BY <1>1, <3>1
    <3> QED BY <1>1, <1>5, <3>1, LinkedInjective DEF Heap
  <2>3. nxt2[L0[i]] = nxt[L0[i]]
    BY <1>1, <1>4, <2>2 DEF Inserts
  <2> QED BY <2>1, <2>3
<1>6. ASSUME NEW i \in DOMAIN l PROVE nxt2[l[i]] = IF i < Len(l) THEN l[i + 1] ELSE 0
  <2>1. i \in 1 .. n + 1 /\ i \in Int
    BY <1>2
  <2>2. CASE i = k
    <3>1. l[i] = e
      BY <1>1, <1>2, <2>2
    <3>2. CASE k <= n
      <4>1. k + 1 \in 1 .. n + 1 /\ l[k + 1] = L0[k]
        BY <1>1, <1>2, <3>2
      <4> QED BY <1>1, <1>2, <2>2, <3>1, <3>2, <4>1 DEF Inserts
    <3>3. CASE k = n + 1
      BY <1>1, <1>2, <2>2, <3>1, <3>3 DEF Inserts
    <3> QED BY <1>1, <3>2, <3>3
  <2>3. CASE i = k - 1
    <3>1. l[i] = L0[k - 1] /\ l[i + 1] = e /\ k > 1 /\ i < n + 1
      BY <1>1, <1>2, <2>1, <2>3
    <3> QED BY <1>2, <3>1 DEF Inserts
  <2>4. CASE i < k - 1
    <3>1. i \in 1 .. n /\ i < n /\ l[i] = L0[i] /\ l[i + 1] = L0[i + 1] /\ i # k - 1 /\ i < n + 1
      BY <1>1, <1>2, <2>1, <2>4
    <3> QED BY <1>2, <1>5, <3>1
  <2>5. CASE i > k
    <3>1. i - 1 \in 1 .. n /\ l[i] = L0[i - 1] /\ i - 1 # k - 1
      BY <1>1, <1>2, <2>1, <2>5
    <3>2. nxt2[L0[i - 1]] = IF i - 1 < n THEN L0[i - 1 + 1] ELSE 0
      BY <1>5, <3>1
    <3>3. CASE i < n + 1
      <4>1. i + 1 \in 1 .. n + 1 /\ l[i + 1] = L0[i] /\ i - 1 + 1 = i /\ i - 1 < n
        BY <1>1, <1>2, <2>1, <2>5, <3>3
      <4> QED BY <1>2, <3>1, <3>2, <3>3, <4>1
    <3>4. CASE i = n + 1
      BY <1>1, <1>2, <3>1, <3>2, <3>4
    <3> QED BY <1>1, <2>1, <3>3, <3>4
  <2> QED BY <1>1, <2>1, <2>2, <2>3, <2>4, <2>5
<1>7. Linked(nxt2, l)
  BY <1>2, <1>6 DEF Linked
<1>8. ASSUME NEW m \in {L1, L2} PROVE Linked(nxt2, m)
  <2>1. Linked(nxt, m) /\ ToSet(m) \subseteq Queue!Entry
    BY DEF Heap, Linked, ToSet
  <2>2. e \notin ToSet(m) /\ ToSet(m) \cap ToSet(L0) = {}
    BY DEF Heap
  <2>3. k > 1 => L0[k - 1] \in ToSet(L0)
    <3>1. k > 1 => k - 1 \in DOMAIN L0
      BY <1>1
    <3> QED BY <3>1 DEF ToSet
  <2>4. \A x \in ToSet(m) : nxt2[x] = nxt[x]
    BY <2>1, <2>2, <2>3 DEF Inserts
  <2> QED BY <2>1, <2>4, LinkedKept
<1>9. ASSUME NEW x \in Queue!Entry \ (lv \cup {e}) PROVE nxt2[x] = 0
  <2>1. k > 1 => L0[k - 1] \in lv
    <3>1. k > 1 => k - 1 \in DOMAIN L0
      BY <1>1
    <3> QED BY <3>1 DEF ToSet, Heap
  <2>2. nxt2[x] = nxt[x]
    BY <2>1 DEF Inserts
  <2> QED BY <2>2 DEF Heap
<1>10. Heap(nxt2, lv \cup {e}, l, L1, L2)
  BY <1>3, <1>7, <1>8, <1>9 DEF Heap, Inserts
<1> QED BY <1>10 DEF l

\* An entry is unlinked from the list of the queue.
Removes(nxt, nxt2, l, k) ==
  /\ nxt2 \in [Queue!Entry -> Queue!Entry \cup {0}]
  /\ nxt2[l[k]] = 0
  /\ k > 1 => nxt2[l[k - 1]] = nxt[l[k]]
  /\ \A x \in Queue!Entry : x # l[k] /\ (k > 1 => x # l[k - 1]) => nxt2[x] = nxt[x]

LEMMA HeapRemove ==
  ASSUME NEW nxt, NEW nxt2, NEW lv, NEW L0, NEW L1, NEW L2, Heap(nxt, lv, L0, L1, L2),
         NEW k \in 1 .. Len(L0), Removes(nxt, nxt2, L0, k)
  PROVE  Heap(nxt2, lv \ {L0[k]}, RemoveAt(L0, k), L1, L2)
<1> DEFINE n == Len(L0)
           l == RemoveAt(L0, k)
           e == L0[k]
<1>1. L0 \in Seq(Queue!Entry) /\ n \in Nat /\ DOMAIN L0 = 1 .. n /\ k \in Nat
      /\ \A i \in 1 .. n : L0[i] \in Queue!Entry
  BY DEF Heap, Linked
<1>2. /\ l \in Seq(Queue!Entry) /\ Len(l) = n - 1 /\ DOMAIN l = 1 .. n - 1
      /\ \A i \in 1 .. n - 1 : l[i] = IF i < k THEN L0[i] ELSE L0[i + 1]
  <2>1. /\ l \in Seq(Queue!Entry) /\ Len(l) = n - 1
        /\ \A i \in 1 .. n - 1 : l[i] = IF i < k THEN L0[i] ELSE L0[i + 1]
    BY <1>1, RemoveIs
  <2> HIDE DEF l
  <2> QED BY <2>1
<1> HIDE DEF l
<1>3. \A i, j \in 1 .. n : L0[i] = L0[j] => i = j
  BY <1>1, LinkedInjective DEF Heap
<1>4. ToSet(l) = ToSet(L0) \ {e}
  <2>1. ASSUME NEW i \in 1 .. n - 1 PROVE l[i] \in ToSet(L0) \ {e}
    <3>1. CASE i < k
      <4>1. i \in 1 .. n /\ l[i] = L0[i] /\ i # k
        BY <1>1, <1>2, <3>1
      <4> QED BY <1>1, <1>3, <4>1 DEF ToSet
    <3>2. CASE i >= k
      <4>1. i + 1 \in 1 .. n /\ l[i] = L0[i + 1] /\ i + 1 # k
        BY <1>1, <1>2, <3>2
      <4> QED BY <1>1, <1>3, <4>1 DEF ToSet
    <3> QED BY <1>1, <3>1, <3>2
  <2>2. ASSUME NEW i \in 1 .. n, i # k PROVE L0[i] \in ToSet(l)
    <3>1. CASE i < k
      <4>1. i \in 1 .. n - 1 /\ l[i] = L0[i]
        BY <1>1, <1>2, <3>1
      <4> QED BY <1>2, <4>1 DEF ToSet
    <3>2. CASE i > k
      <4>1. i - 1 \in 1 .. n - 1 /\ l[i - 1] = L0[i - 1 + 1] /\ i - 1 + 1 = i
        BY <1>1, <1>2, <3>2
      <4> QED BY <1>2, <4>1 DEF ToSet
    <3> QED BY <1>1, <2>2, <3>1, <3>2
  <2> QED BY <1>1, <1>2, <2>1, <2>2 DEF ToSet
<1>5. \A i \in 1 .. n : nxt[L0[i]] = IF i < n THEN L0[i + 1] ELSE 0
  BY <1>1 DEF Heap, Linked
<1>6. ASSUME NEW i \in 1 .. n, i # k, i # k - 1 PROVE nxt2[L0[i]] = IF i < n THEN L0[i + 1] ELSE 0
  <2>1. L0[i] # L0[k] /\ (k > 1 => L0[i] # L0[k - 1])
    <3>1. k > 1 => k - 1 \in 1 .. n
      BY <1>1
    <3> QED BY <1>3, <1>6, <3>1
  <2>2. nxt2[L0[i]] = nxt[L0[i]]
    BY <1>1, <2>1 DEF Removes
  <2> QED BY <1>5, <2>2
<1>7. ASSUME NEW i \in DOMAIN l PROVE nxt2[l[i]] = IF i < Len(l) THEN l[i + 1] ELSE 0
  <2>1. i \in 1 .. n - 1 /\ i \in Int
    BY <1>2
  <2>2. CASE i = k - 1
    <3>1. l[i] = L0[k - 1] /\ k > 1 /\ nxt2[l[i]] = nxt[L0[k]]
      BY <1>1, <1>2, <2>1, <2>2 DEF Removes
    <3>2. CASE k < n
      <4>1. i < n - 1 /\ i + 1 = k /\ k \in 1 .. n - 1 /\ l[k] = L0[k + 1]
        BY <1>1, <1>2, <2>1, <2>2, <3>2
      <4> QED BY <1>2, <1>5, <3>1, <3>2, <4>1
    <3>3. CASE k = n
      <4>1. ~(i < n - 1)
        BY <1>1, <2>1, <2>2, <3>3
      <4> QED BY <1>1, <1>2, <1>5, <3>1, <3>3, <4>1
    <3>4. k < n \/ k = n
      <4>1. k \in Int /\ n \in Int /\ k <= n
        OBVIOUS
      <4> HIDE DEF n
      <4> QED BY <4>1
    <3> QED BY <3>2, <3>3, <3>4, Zenon
  <2>3. CASE i < k - 1
    <3>1. i \in 1 .. n /\ i < n /\ i < n - 1 /\ l[i] = L0[i] /\ l[i + 1] = L0[i + 1] /\ i # k /\ i # k - 1
      BY <1>1, <1>2, <2>1, <2>3
    <3> QED BY <1>2, <1>6, <3>1
  <2>4. CASE i >= k
    <3>1. i + 1 \in 1 .. n /\ l[i] = L0[i + 1] /\ i + 1 # k /\ i + 1 # k - 1
      BY <1>1, <1>2, <2>1, <2>4
    <3>2. nxt2[L0[i + 1]] = IF i + 1 < n THEN L0[i + 1 + 1] ELSE 0
      BY <1>6, <3>1
    <3>3. CASE i < n - 1
      <4>1. i + 1 \in 1 .. n - 1 /\ l[i + 1] = L0[i + 1 + 1] /\ i + 1 < n
        BY <1>1, <1>2, <2>1, <2>4, <3>3
      <4> QED BY <1>2, <3>1, <3>2, <3>3, <4>1
    <3>4. CASE i = n - 1
      <4>1. ~(i + 1 < n) /\ ~(i < n - 1)
        BY <1>1, <2>1, <3>4
      <4> QED BY <1>2, <3>1, <3>2, <4>1
    <3> QED BY <1>1, <2>1, <3>3, <3>4
  <2> QED BY <1>1, <2>1, <2>2, <2>3, <2>4
<1>8. Linked(nxt2, l)
  BY <1>2, <1>7 DEF Linked
<1>9. e \in ToSet(L0) /\ (k > 1 => L0[k - 1] \in ToSet(L0))
  <2>1. k > 1 => k - 1 \in DOMAIN L0
    BY <1>1
  <2> QED BY <1>1, <2>1 DEF ToSet
<1>10. ASSUME NEW m \in {L1, L2} PROVE Linked(nxt2, m)
  <2>1. Linked(nxt, m) /\ ToSet(m) \subseteq Queue!Entry
    BY DEF Heap, Linked, ToSet
  <2>2. ToSet(m) \cap ToSet(L0) = {}
    BY DEF Heap
  <2>3. \A x \in ToSet(m) : nxt2[x] = nxt[x]
    BY <1>9, <2>1, <2>2 DEF Removes
  <2> QED BY <2>1, <2>3, LinkedKept
<1>11. ASSUME NEW x \in Queue!Entry \ (lv \ {e}) PROVE nxt2[x] = 0
  <2>1. CASE x = e
    BY <2>1 DEF Removes
  <2>2. CASE x # e
    <3>1. x \notin ToSet(L0) /\ nxt[x] = 0
      BY <2>2 DEF Heap
    <3> QED BY <1>9, <2>2, <3>1 DEF Removes
  <2> QED BY <2>1, <2>2
<1>12. lv \ {e} = ToSet(l) \cup ToSet(L1) \cup ToSet(L2)
  BY <1>4, <1>9 DEF Heap
<1>13. Heap(nxt2, lv \ {e}, l, L1, L2)
  BY <1>4, <1>8, <1>10, <1>11, <1>12 DEF Heap, Removes
<1> QED BY <1>13 DEF l

\* The data of a list.
QData(l, dt) == [i \in DOMAIN l |-> dt[l[i]]]

LEMMA QDataIs ==
  ASSUME NEW l \in Seq(Queue!Entry), NEW dt \in [Queue!Entry -> Data \cup {None}]
  PROVE  /\ QData(l, dt) \in Seq(Data \cup {None}) /\ Len(QData(l, dt)) = Len(l)
         /\ \A i \in 1 .. Len(l) : QData(l, dt)[i] = dt[l[i]]
<1>1. DOMAIN l = 1 .. Len(l) /\ Len(l) \in Nat /\ \A i \in 1 .. Len(l) : l[i] \in Queue!Entry
  OBVIOUS
<1>2. QData(l, dt) = [i \in 1 .. Len(l) |-> dt[l[i]]]
  BY <1>1 DEF QData
<1>3. \A i \in 1 .. Len(l) : dt[l[i]] \in Data \cup {None}
  BY <1>1
<1> QED BY <1>1, <1>2, <1>3

LEMMA InsertData ==
  ASSUME NEW l \in Seq(Queue!Entry), NEW e \in Queue!Entry, NEW k \in 1 .. Len(l) + 1,
         NEW dt \in [Queue!Entry -> Data \cup {None}], NEW dt2 \in [Queue!Entry -> Data \cup {None}],
         \A x \in ToSet(l) : dt2[x] = dt[x]
  PROVE  QData(InsertAt(l, k, e), dt2) = InsertAt(QData(l, dt), k, dt2[e])
<1> DEFINE T == Data \cup {None}
           m == InsertAt(l, k, e)
           q == QData(l, dt)
           a == QData(m, dt2)
           b == InsertAt(q, k, dt2[e])
           n == Len(l)
<1>1. n \in Nat /\ k \in Int /\ \A i \in 1 .. n : dt2[l[i]] = dt[l[i]]
  BY DEF ToSet
<1>2. /\ m \in Seq(Queue!Entry) /\ Len(m) = n + 1
      /\ \A i \in 1 .. n + 1 : m[i] = IF i < k THEN l[i] ELSE IF i = k THEN e ELSE l[i - 1]
  BY InsertIs
<1>3. q \in Seq(T) /\ Len(q) = n /\ \A i \in 1 .. n : q[i] = dt[l[i]]
  BY QDataIs
<1> HIDE DEF m, q
<1>4. a \in Seq(T) /\ Len(a) = n + 1 /\ \A i \in 1 .. n + 1 : a[i] = dt2[m[i]]
  BY <1>2, QDataIs
<1>5. dt2[e] \in T
  OBVIOUS
<1>6. /\ b \in Seq(T) /\ Len(b) = n + 1
      /\ \A i \in 1 .. n + 1 : b[i] = IF i < k THEN q[i] ELSE IF i = k THEN dt2[e] ELSE q[i - 1]
  <2>1. k \in 1 .. Len(q) + 1
    BY <1>3
  <2>2. /\ b \in Seq(T) /\ Len(b) = Len(q) + 1
        /\ \A i \in 1 .. Len(q) + 1 : b[i] = IF i < k THEN q[i] ELSE IF i = k THEN dt2[e] ELSE q[i - 1]
    BY <1>3, <1>5, <2>1, InsertIs
  <2> QED BY <1>3, <2>2
<1> HIDE DEF a, b
<1>7. ASSUME NEW i \in 1 .. n + 1 PROVE a[i] = b[i]
  <2>1. i < k => i \in 1 .. n
    BY <1>1
  <2>2. i > k => i - 1 \in 1 .. n
    BY <1>1
  <2>3. CASE i < k
    <3>1. m[i] = l[i] /\ b[i] = q[i] /\ i \in 1 .. n
      BY <1>1, <1>2, <1>6, <2>1, <2>3
    <3> QED BY <1>1, <1>3, <1>4, <3>1
  <2>4. CASE i = k
    BY <1>1, <1>2, <1>4, <1>6, <2>4
  <2>5. CASE i > k
    <3>1. m[i] = l[i - 1] /\ b[i] = q[i - 1] /\ i - 1 \in 1 .. n
      BY <1>1, <1>2, <1>6, <2>2, <2>5
    <3> QED BY <1>1, <1>3, <1>4, <3>1
  <2>6. i < k \/ i = k \/ i > k
    BY <1>1
  <2> QED BY <2>3, <2>4, <2>5, <2>6, Zenon
<1>8. a = b
  BY <1>4, <1>6, <1>7, SeqEqual
<1> QED BY <1>8 DEF a, b, m, q

LEMMA RemoveData ==
  ASSUME NEW l \in Seq(Queue!Entry), NEW k \in 1 .. Len(l),
         NEW dt \in [Queue!Entry -> Data \cup {None}], NEW dt2 \in [Queue!Entry -> Data \cup {None}],
         \A i \in 1 .. Len(l) : i # k => dt2[l[i]] = dt[l[i]]
  PROVE  QData(RemoveAt(l, k), dt2) = RemoveAt(QData(l, dt), k)
<1> DEFINE T == Data \cup {None}
           m == RemoveAt(l, k)
           q == QData(l, dt)
           a == QData(m, dt2)
           b == RemoveAt(q, k)
           n == Len(l)
<1>1. n \in Nat /\ k \in Int
  OBVIOUS
<1>2. /\ m \in Seq(Queue!Entry) /\ Len(m) = n - 1
      /\ \A i \in 1 .. n - 1 : m[i] = IF i < k THEN l[i] ELSE l[i + 1]
  BY RemoveIs
<1>3. q \in Seq(T) /\ Len(q) = n /\ \A i \in 1 .. n : q[i] = dt[l[i]]
  BY QDataIs
<1> HIDE DEF m, q
<1>4. a \in Seq(T) /\ Len(a) = n - 1 /\ \A i \in 1 .. n - 1 : a[i] = dt2[m[i]]
  <2>1. a \in Seq(T) /\ Len(a) = Len(m) /\ \A i \in 1 .. Len(m) : a[i] = dt2[m[i]]
    BY <1>2, QDataIs
  <2> QED BY <1>2, <2>1
<1>5. /\ b \in Seq(T) /\ Len(b) = n - 1
      /\ \A i \in 1 .. n - 1 : b[i] = IF i < k THEN q[i] ELSE q[i + 1]
  BY <1>3, RemoveIs
<1> HIDE DEF a, b
<1>6. ASSUME NEW i \in 1 .. n - 1 PROVE a[i] = b[i]
  <2>1. CASE i < k
    <3>1. i \in 1 .. n /\ i # k /\ m[i] = l[i] /\ b[i] = q[i]
      BY <1>1, <1>2, <1>5, <2>1
    <3> QED BY <1>3, <1>4, <3>1
  <2>2. CASE i >= k
    <3>1. i + 1 \in 1 .. n /\ i + 1 # k /\ m[i] = l[i + 1] /\ b[i] = q[i + 1]
      BY <1>1, <1>2, <1>5, <2>2
    <3> QED BY <1>3, <1>4, <3>1
  <2>3. i < k \/ i >= k
    BY <1>1
  <2> QED BY <2>1, <2>2, <2>3, Zenon
<1>7. a = b
  BY <1>4, <1>5, <1>6, SeqEqual
<1> QED BY <1>7 DEF a, b, m, q

-----------------------------------------------------------------------------
(* The loops that call out.  At most one walk, below the others; a queue     *)
(* that is being destroyed stays empty; and the references are those of the  *)
(* walk and, until it is destroyed, that of whoever made the queue.          *)

LoopRec == [of : {"foreach", "remove_if", "remove_all", "destroy"}, match : SUBSET Data,
            at : Queue!Entry \cup {0}, out : BOOLEAN]
Walked(lps) == IF \E i \in DOMAIN lps : lps[i].of = "foreach" THEN 1 ELSE 0
Root(lps, i) ==
  IF i \in DOMAIN lps /\ lps[i].of \in {"remove_all", "destroy"} THEN lps[i].at ELSE 0

LoopsOk(lps, hd, refs, l) ==
  /\ lps \in Seq(LoopRec) /\ Len(lps) <= 2
  /\ \A i \in DOMAIN lps : lps[i].of = "foreach" =>
       i = Len(lps) /\ (hd = 0 \/ lps[i].at = 0 \/ lps[i].at \in ToSet(l))
  /\ \A i \in DOMAIN lps : lps[i].of = "destroy" =>
       hd = 0 /\ \A j \in DOMAIN lps : j > i => lps[j].of = "foreach"
  /\ \/ refs = Walked(lps) + 1
     \/ refs = Walked(lps) /\ hd = 0 /\ \A i \in DOMAIN lps : lps[i].of = "foreach"

\* A loop that is no walk begins over those that have called out.
LEMMA LoopsBegin ==
  ASSUME NEW lps, NEW hd, NEW refs, NEW l, LoopsOk(lps, hd, refs, l), Len(lps) < 2,
         refs = Walked(lps) + 1, NEW new \in LoopRec, new.of # "foreach",
         NEW hd2, NEW l2, hd2 = 0 \/ (hd2 = hd /\ l2 = l),
         new.of = "destroy" => hd2 = 0 /\ \A i \in DOMAIN lps : lps[i].of = "foreach"
  PROVE  /\ LoopsOk(<<new>> \o lps, hd2, refs, l2)
         /\ Root(<<new>> \o lps, 1) = IF new.of \in {"remove_all", "destroy"} THEN new.at ELSE 0
         /\ Root(<<new>> \o lps, 2) = Root(lps, 1)
         /\ Root(lps, 2) = 0
<1> DEFINE n == Len(lps)
           m == <<new>> \o lps
<1>1. lps \in Seq(LoopRec) /\ n \in Nat /\ n < 2 /\ DOMAIN lps = 1 .. n
  BY DEF LoopsOk
<1>2. /\ m \in Seq(LoopRec) /\ Len(m) = n + 1 /\ DOMAIN m = 1 .. n + 1
      /\ m[1] = new /\ \A i \in 1 .. n : m[i + 1] = lps[i]
  <2>1. <<new>> \in Seq(LoopRec) /\ Len(<<new>>) = 1 /\ <<new>>[1] = new
    OBVIOUS
  <2>2. /\ m \in Seq(LoopRec) /\ Len(m) = Len(<<new>>) + n
        /\ \A i \in 1 .. Len(<<new>>) + n :
             m[i] = IF i <= Len(<<new>>) THEN <<new>>[i] ELSE lps[i - Len(<<new>>)]
    BY <1>1, <2>1, ConcatProperties
  <2> HIDE DEF m
  <2>3. m[1] = new
    BY <1>1, <2>1, <2>2
  <2>4. ASSUME NEW i \in 1 .. n PROVE m[i + 1] = lps[i]
    <3>1. i + 1 \in 1 .. 1 + n /\ ~(i + 1 <= 1) /\ i + 1 - 1 = i
      BY <1>1
    <3> QED BY <2>1, <2>2, <3>1
  <2>5. Len(m) = n + 1 /\ DOMAIN m = 1 .. Len(m)
    BY <1>1, <2>1, <2>2
  <2> QED BY <2>2, <2>3, <2>4, <2>5
<1> HIDE DEF m
<1>3. \A i \in 1 .. n + 1 : i = 1 \/ (i - 1 \in 1 .. n /\ m[i] = lps[i - 1])
  <2> SUFFICES ASSUME NEW i \in 1 .. n + 1, i # 1 PROVE i - 1 \in 1 .. n /\ m[i] = lps[i - 1]
    OBVIOUS
  <2>1. i - 1 \in 1 .. n /\ i - 1 + 1 = i
    BY <1>1
  <2> QED BY <1>2, <2>1
<1>4. Walked(m) = Walked(lps)
  <2>1. (\E i \in 1 .. n + 1 : m[i].of = "foreach") <=> (\E i \in 1 .. n : lps[i].of = "foreach")
    <3>1. ASSUME NEW i \in 1 .. n PROVE i + 1 \in 1 .. n + 1
      BY <1>1
    <3> QED BY <1>2, <1>3, <3>1
  <2> QED BY <1>1, <1>2, <2>1 DEF Walked
<1>5. ASSUME NEW i \in DOMAIN m, m[i].of = "foreach"
      PROVE  i = Len(m) /\ (hd2 = 0 \/ m[i].at = 0 \/ m[i].at \in ToSet(l2))
  <2>1. i - 1 \in 1 .. n /\ m[i] = lps[i - 1] /\ i \in Int
    BY <1>2, <1>3, <1>5
  <2>2. i - 1 = n /\ (hd = 0 \/ lps[i - 1].at = 0 \/ lps[i - 1].at \in ToSet(l))
    BY <1>1, <1>5, <2>1 DEF LoopsOk
  <2> QED BY <1>1, <1>2, <2>1, <2>2
<1>6. ASSUME NEW i \in DOMAIN m, m[i].of = "destroy"
      PROVE  hd2 = 0 /\ \A j \in DOMAIN m : j > i => m[j].of = "foreach"
  <2>1. CASE i = 1
    <3>1. \A j \in DOMAIN m : j > i => j - 1 \in 1 .. n /\ m[j] = lps[j - 1]
      BY <1>1, <1>2, <1>3, <2>1
    <3> QED BY <1>1, <1>2, <1>6, <2>1, <3>1
  <2>2. CASE i # 1
    <3>1. i - 1 \in 1 .. n /\ m[i] = lps[i - 1] /\ i \in Int
      BY <1>2, <1>3, <2>2
    <3>2. hd = 0 /\ \A j \in 1 .. n : j > i - 1 => lps[j].of = "foreach"
      BY <1>1, <1>6, <3>1 DEF LoopsOk
    <3>3. ASSUME NEW j \in DOMAIN m, j > i PROVE m[j].of = "foreach"
      <4>1. j # 1 /\ j \in Int
        BY <1>1, <1>2, <3>1, <3>3
      <4>2. j - 1 \in 1 .. n /\ m[j] = lps[j - 1] /\ j - 1 > i - 1
        BY <1>2, <1>3, <3>1, <3>3, <4>1
      <4> QED BY <3>2, <4>2
    <3> QED BY <3>2, <3>3
  <2> QED BY <2>1, <2>2
<1>7. LoopsOk(m, hd2, refs, l2)
  BY <1>1, <1>2, <1>4, <1>5, <1>6 DEF LoopsOk
<1>8. Root(m, 1) = IF new.of \in {"remove_all", "destroy"} THEN new.at ELSE 0
  BY <1>1, <1>2 DEF Root
<1>9. Root(m, 2) = Root(lps, 1)
  <2>1. CASE n = 0
    BY <1>1, <1>2, <2>1 DEF Root
  <2>2. CASE n = 1
    <3>1. m[2] = lps[1] /\ 2 \in DOMAIN m /\ 1 \in DOMAIN lps
      <4>1. 1 \in 1 .. n /\ 1 + 1 = 2
        BY <2>2
      <4> QED BY <1>1, <1>2, <2>2, <4>1
    <3> QED BY <3>1 DEF Root
  <2> QED BY <1>1, <2>1, <2>2
<1>10. Root(lps, 2) = 0
  BY <1>1 DEF Root
<1> QED BY <1>7, <1>8, <1>9, <1>10 DEF m

\* It returns; the last one, of queue_destroy, with the reference of whoever
\* made the queue.
LEMMA LoopsEnd ==
  ASSUME NEW lps, NEW hd, NEW refs, NEW l, LoopsOk(lps, hd, refs, l),
         lps # <<>>, lps[1].of # "foreach"
  PROVE  /\ LoopsOk(Tail(lps), hd, IF lps[1].of = "destroy" THEN refs - 1 ELSE refs, l)
         /\ Root(Tail(lps), 1) = Root(lps, 2) /\ Root(Tail(lps), 2) = 0
<1> DEFINE n == Len(lps)
           m == Tail(lps)
           refs2 == IF lps[1].of = "destroy" THEN refs - 1 ELSE refs
<1>1. lps \in Seq(LoopRec) /\ n \in 1 .. 2 /\ DOMAIN lps = 1 .. n
  <2>1. lps \in Seq(LoopRec) /\ n <= 2
    BY DEF LoopsOk
  <2>2. n \in Nat \ {0} /\ DOMAIN lps = 1 .. n
    BY <2>1, EmptySeq, LenProperties
  <2> QED BY <2>1, <2>2
<1>2. /\ m \in Seq(LoopRec) /\ Len(m) = n - 1 /\ DOMAIN m = 1 .. n - 1
      /\ \A i \in 1 .. n - 1 : m[i] = lps[i + 1]
  BY <1>1
<1> HIDE DEF m
<1>3. \A i \in 1 .. n - 1 : i + 1 \in 1 .. n
  BY <1>1
<1>4. Walked(m) = Walked(lps)
  <2>1. (\E i \in 1 .. n - 1 : m[i].of = "foreach") <=> (\E i \in 1 .. n : lps[i].of = "foreach")
    <3>1. ASSUME NEW i \in 1 .. n, lps[i].of = "foreach" PROVE \E j \in 1 .. n - 1 : m[j].of = "foreach"
      <4>1. i # 1
        BY <3>1
      <4>2. i - 1 \in 1 .. n - 1 /\ i - 1 + 1 = i
        BY <1>1, <4>1
      <4> QED BY <1>2, <3>1, <4>2
    <3> QED BY <1>2, <1>3, <3>1
  <2> QED BY <1>1, <1>2, <2>1 DEF Walked
<1>5. Walked(lps) \in Nat /\ refs = Walked(lps) + 1
  <2>1. 1 \in DOMAIN lps
    BY <1>1
  <2> QED BY <2>1 DEF LoopsOk, Walked
<1>6. ASSUME NEW i \in DOMAIN m, m[i].of = "foreach"
      PROVE  i = Len(m) /\ (hd = 0 \/ m[i].at = 0 \/ m[i].at \in ToSet(l))
  <2>1. m[i] = lps[i + 1] /\ i + 1 \in DOMAIN lps /\ i \in Int
    BY <1>1, <1>2, <1>3
  <2>2. i + 1 = n /\ (hd = 0 \/ lps[i + 1].at = 0 \/ lps[i + 1].at \in ToSet(l))
    BY <1>6, <2>1 DEF LoopsOk
  <2> QED BY <1>1, <1>2, <2>1, <2>2
<1>7. ASSUME NEW i \in DOMAIN m, m[i].of = "destroy"
      PROVE  hd = 0 /\ \A j \in DOMAIN m : j > i => m[j].of = "foreach"
  <2>1. m[i] = lps[i + 1] /\ i + 1 \in DOMAIN lps /\ i \in Int
    BY <1>1, <1>2, <1>3
  <2>2. hd = 0 /\ \A j \in DOMAIN lps : j > i + 1 => lps[j].of = "foreach"
    BY <1>7, <2>1 DEF LoopsOk
  <2>3. ASSUME NEW j \in DOMAIN m, j > i PROVE m[j].of = "foreach"
    <3>1. m[j] = lps[j + 1] /\ j + 1 \in DOMAIN lps /\ j + 1 > i + 1
      BY <1>1, <1>2, <1>3, <2>1, <2>3
    <3> QED BY <2>2, <3>1
  <2> QED BY <2>2, <2>3
<1>8. refs2 = Walked(m) + 1 \/ (refs2 = Walked(m) /\ hd = 0 /\ \A i \in DOMAIN m : m[i].of = "foreach")
  <2>1. CASE lps[1].of = "destroy"
    <3>1. hd = 0 /\ \A j \in DOMAIN lps : j > 1 => lps[j].of = "foreach"
      BY <1>1, <2>1 DEF LoopsOk
    <3>2. \A i \in DOMAIN m : m[i].of = "foreach"
      <4>1. \A i \in 1 .. n - 1 : i + 1 > 1
        BY <1>1
      <4> QED BY <1>1, <1>2, <1>3, <3>1, <4>1
    <3> QED BY <1>4, <1>5, <2>1, <3>1, <3>2
  <2>2. CASE lps[1].of # "destroy"
    BY <1>4, <1>5, <2>2
  <2> QED BY <2>1, <2>2
<1>9. LoopsOk(m, hd, refs2, l)
  BY <1>1, <1>2, <1>6, <1>7, <1>8 DEF LoopsOk
<1>10. Root(m, 1) = Root(lps, 2) /\ Root(m, 2) = 0
  <2>1. CASE n = 1
    BY <1>1, <1>2, <2>1 DEF Root
  <2>2. CASE n = 2
    <3>1. 1 \in DOMAIN m /\ m[1] = lps[2] /\ 2 \in DOMAIN lps /\ 2 \notin DOMAIN m
      <4>1. 1 \in 1 .. n - 1 /\ 1 + 1 = 2 /\ 2 \notin 1 .. n - 1 /\ 2 \in 1 .. n
        BY <2>2
      <4> QED BY <1>1, <1>2, <4>1
    <3> QED BY <3>1 DEF Root
  <2> QED BY <1>1, <2>1, <2>2
<1> QED BY <1>9, <1>10 DEF m

\* The innermost loop goes on, and the list of the queue changes under them.
LEMMA LoopsGoOn ==
  ASSUME NEW lps, NEW hd, NEW refs, NEW l, LoopsOk(lps, hd, refs, l),
         lps # <<>>, lps[1].of # "foreach", NEW r \in LoopRec, r.of = lps[1].of
  PROVE  /\ LoopsOk([lps EXCEPT ![1] = r], hd, refs, l)
         /\ Root([lps EXCEPT ![1] = r], 1) = IF r.of \in {"remove_all", "destroy"} THEN r.at ELSE 0
         /\ Root([lps EXCEPT ![1] = r], 2) = Root(lps, 2)
<1> DEFINE m == [lps EXCEPT ![1] = r]
<1>1. lps \in Seq(LoopRec) /\ 1 \in DOMAIN lps
  <2>1. lps \in Seq(LoopRec)
    BY DEF LoopsOk
  <2> QED BY <2>1, EmptySeq, LenProperties
<1>2. m \in Seq(LoopRec) /\ DOMAIN m = DOMAIN lps /\ Len(m) = Len(lps)
      /\ m[1] = r /\ \A i \in DOMAIN lps : i # 1 => m[i] = lps[i]
  BY <1>1, ExceptSeq
<1> HIDE DEF m
<1>3. \A i \in DOMAIN lps : m[i].of = lps[i].of
  BY <1>2
<1>4. Walked(m) = Walked(lps)
  BY <1>2, <1>3 DEF Walked
<1>5. LoopsOk(m, hd, refs, l)
  <2>1. \A i \in DOMAIN m : m[i].of = "foreach" =>
          i = Len(m) /\ (hd = 0 \/ m[i].at = 0 \/ m[i].at \in ToSet(l))
    BY <1>2, <1>3 DEF LoopsOk
  <2>2. \A i \in DOMAIN m : m[i].of = "destroy" =>
          hd = 0 /\ \A j \in DOMAIN m : j > i => m[j].of = "foreach"
    BY <1>2, <1>3 DEF LoopsOk
  <2> QED BY <1>2, <1>3, <1>4, <2>1, <2>2 DEF LoopsOk
<1> QED BY <1>1, <1>2, <1>5 DEF m, Root

LEMMA LoopsList ==
  ASSUME NEW lps, NEW hd, NEW refs, NEW l, LoopsOk(lps, hd, refs, l), refs = Walked(lps) + 1,
         NEW hd2, NEW l2, hd = 0 => hd2 = 0 \/ \A i \in DOMAIN lps : lps[i].of # "destroy",
         \A i \in DOMAIN lps : lps[i].of = "foreach" =>
           hd2 = 0 \/ lps[i].at = 0 \/ lps[i].at \in ToSet(l2)
  PROVE  LoopsOk(lps, hd2, refs, l2)
BY DEF LoopsOk

-----------------------------------------------------------------------------
(* The queue.                                                               *)

LastOf(l) == IF l = <<>> THEN 0 ELSE l[Len(l)]

ListsOk(L0, L1, L2) ==
  /\ Heap(next, live, L0, L1, L2)
  /\ head = Start(L0) /\ tail = LastOf(L0) /\ entries = Len(L0)
  /\ data \in [Queue!Entry -> Data \cup {None}]
  /\ \A e \in live : data[e] \in Data

QueueOk(L0, L1, L2) ==
  /\ ListsOk(L0, L1, L2)
  /\ LoopsOk(loops, head, ref_count, L0)
  /\ Root(loops, 1) = Start(L1) /\ Root(loops, 2) = Start(L2)

QueueInv == \E L0, L1, L2 : QueueOk(L0, L1, L2)

LEMMA QueueInitInv == Queue!QueueInit => QueueInv /\ Queue!DataOf(Queue!List) = <<>>
<1> SUFFICES ASSUME Queue!QueueInit PROVE QueueInv /\ Queue!DataOf(Queue!List) = <<>>
  OBVIOUS
<1>1. /\ head = 0 /\ tail = 0 /\ entries = 0 /\ ref_count = 1
      /\ next = [e \in Queue!Entry |-> 0] /\ data = [e \in Queue!Entry |-> None]
      /\ live = {} /\ loops = <<>>
  BY QueueNames DEF Queue!QueueInit
<1>2. Heap(next, live, <<>>, <<>>, <<>>)
  <2>1. next \in [Queue!Entry -> Queue!Entry \cup {0}] /\ \A e \in Queue!Entry : next[e] = 0
    BY <1>1
  <2>2. Linked(next, <<>>) /\ ToSet(<<>>) = {}
    BY EmptyLinked
  <2> QED BY <1>1, <2>1, <2>2 DEF Heap
<1>3. ListsOk(<<>>, <<>>, <<>>)
  BY <1>1, <1>2 DEF ListsOk, Start, LastOf
<1>4. LoopsOk(loops, head, ref_count, <<>>)
  <2>1. loops \in Seq(LoopRec) /\ Len(loops) = 0 /\ DOMAIN loops = {}
    BY <1>1
  <2>2. Walked(loops) = 0
    BY <2>1 DEF Walked
  <2> QED BY <1>1, <2>1, <2>2 DEF LoopsOk
<1>5. Root(loops, 1) = 0 /\ Root(loops, 2) = 0
  BY <1>1 DEF Root
<1>6. QueueOk(<<>>, <<>>, <<>>)
  BY <1>3, <1>4, <1>5, EmptyLinked DEF QueueOk
<1>7. Queue!List = <<>>
  <2>1. Queue!List = FromIn(next, Start(<<>>))
    BY <1>1, EmptyLinked DEF Queue!List, Queue!From, FromIn
  <2> QED BY <1>2, <2>1, HeapFrom
<1>8. Queue!DataOf(<<>>) = <<>>
  BY DEF Queue!DataOf
<1> QED BY <1>6, <1>7, <1>8 DEF QueueInv

LEMMA QueueSets == \A S : Queue!ToSet(S) = ToSet(S) /\ Queue!Cardinality(S) = Cardinality(S)
BY DEF Queue!ToSet, ToSet, Queue!Cardinality, Cardinality

\* What From computes of the queue, and what its loops hold.
LEMMA QueueIs ==
  ASSUME NEW L0, NEW L1, NEW L2, QueueOk(L0, L1, L2)
  PROVE  /\ Queue!List = L0 /\ Queue!From(head) = L0
         /\ Queue!From(Root(loops, 1)) = L1 /\ Queue!From(Root(loops, 2)) = L2
         /\ Queue!DataOf(Queue!List) = QData(L0, data)
<1>1. Heap(next, live, L0, L1, L2) /\ head = Start(L0)
      /\ Root(loops, 1) = Start(L1) /\ Root(loops, 2) = Start(L2)
  BY DEF QueueOk, ListsOk
<1>2. FromIn(next, Start(L0)) = L0 /\ FromIn(next, Start(L1)) = L1 /\ FromIn(next, Start(L2)) = L2
  BY <1>1, HeapFrom
<1>3. \A x : Queue!From(x) = FromIn(next, x)
  BY DEF Queue!From, FromIn
<1>4. Queue!List = L0
  BY <1>1, <1>2, <1>3 DEF Queue!List
<1> QED BY <1>1, <1>2, <1>3, <1>4 DEF Queue!DataOf, QData

LEMMA WalksCounted ==
  ASSUME NEW hd, NEW refs, NEW l, LoopsOk(loops, hd, refs, l)
  PROVE  Queue!Cardinality(Queue!Walks) = Walked(loops)
<1>1. Queue!Walks = {i \in DOMAIN loops : loops[i].of = "foreach"}
  BY DEF Queue!Walks
<1>2. CASE Queue!Walks = {}
  BY <1>1, <1>2, QueueSets, FS_EmptySet DEF Walked
<1>3. CASE Queue!Walks # {}
  <2>1. Queue!Walks = {Len(loops)}
    BY <1>1, <1>3 DEF LoopsOk
  <2>2. Cardinality({Len(loops)}) = 1
    BY FS_Singleton
  <2> QED BY <1>1, <1>3, <2>1, <2>2, QueueSets DEF Walked
<1> QED BY <1>2, <1>3

\* Who may call has a reference besides those of the walks.
LEMMA CallersRef ==
  ASSUME NEW hd, NEW refs, NEW l, LoopsOk(loops, hd, ref_count, l)
  PROVE  Queue!MayCall => ref_count = Walked(loops) + 1
<1>1. Queue!Cardinality(Queue!Walks) = Walked(loops)
  BY WalksCounted
<1>2. Walked(loops) \in Nat
  BY DEF Walked
<1> QED BY <1>1, <1>2 DEF Queue!MayCall, LoopsOk

\* What a struct queue promises of its ends.
LEMMA QueueEnds == QueueInv => Queue!Sequence!Ends
<1> SUFFICES ASSUME NEW L0, NEW L1, NEW L2, QueueOk(L0, L1, L2) PROVE Queue!Sequence!Ends
  BY DEF QueueInv
<1> DEFINE q == QData(L0, data)
<1>1. Queue!DataOf(Queue!List) = q
  BY QueueIs
<1>2. L0 \in Seq(Queue!Entry) /\ data \in [Queue!Entry -> Data \cup {None}]
      /\ head = Start(L0) /\ tail = LastOf(L0) /\ entries = Len(L0)
  BY DEF QueueOk, ListsOk, Heap, Linked
<1>3. /\ q \in Seq(Data \cup {None}) /\ Len(q) = Len(L0)
      /\ \A i \in 1 .. Len(L0) : q[i] = data[L0[i]]
  BY <1>2, QDataIs
<1> HIDE DEF q
<1>4. CASE L0 = <<>>
  <2>1. Len(q) = 0
    BY <1>3, <1>4
  <2>2. q = <<>> /\ head = 0 /\ tail = 0 /\ entries = 0
    BY <1>2, <1>3, <1>4, <2>1 DEF Start, LastOf
  <2> QED BY <1>1, <2>1, <2>2, QueueNames DEF Queue!Sequence!Ends
<1>5. CASE L0 # <<>>
  <2>1. Len(L0) \in Nat \ {0}
    BY <1>2, <1>5, EmptySeq
  <2>2. 1 \in 1 .. Len(L0) /\ Len(L0) \in 1 .. Len(L0)
    BY <2>1
  <2>3. head = L0[1] /\ tail = L0[Len(L0)] /\ head \in Queue!Entry /\ tail \in Queue!Entry
    BY <1>2, <1>5, <2>2, ElementOfSeq DEF Start, LastOf
  <2>4. head # 0 /\ tail # 0 /\ q # <<>>
    <3>1. q # <<>>
      BY <1>3, <2>1
    <3> QED BY <2>3, <3>1, QueueNames
  <2>5. q[1] = data[head] /\ q[Len(q)] = data[tail] /\ entries = Len(q)
    BY <1>2, <1>3, <2>2, <2>3
  <2> QED BY <1>1, <2>4, <2>5, QueueNames DEF Queue!Sequence!Ends
<1> QED BY <1>4, <1>5

\* What the runs check of the loops follows.
LEMMA QueueInvKeeps == QueueInv => Queue!QueueKeepsEntries
<1> SUFFICES ASSUME NEW L0, NEW L1, NEW L2, QueueOk(L0, L1, L2) PROVE Queue!QueueKeepsEntries
  BY DEF QueueInv
<1>1. LoopsOk(loops, head, ref_count, L0) /\ loops \in Seq(LoopRec) /\ Len(loops) <= 2
  BY DEF QueueOk, LoopsOk
<1>2. /\ Heap(next, live, L0, L1, L2)
      /\ live = ToSet(L0) \cup ToSet(L1) \cup ToSet(L2)
  BY DEF QueueOk, ListsOk, Heap
<1>3. ASSUME Queue!Calling, Queue!Loop.of = "foreach", ~Queue!Stops PROVE Queue!Loop.at \in live
  <2>1. loops # <<>> /\ loops[1].of = "foreach" /\ loops[1].at # 0 /\ head # 0
    BY <1>3, QueueNames DEF Queue!Calling, Queue!Loop, Queue!Stops
  <2>2. 1 \in DOMAIN loops
    BY <1>1, <2>1, EmptySeq, LenProperties
  <2>3. loops[1].at \in ToSet(L0)
    BY <1>1, <2>1, <2>2 DEF LoopsOk
  <2> QED BY <1>2, <2>3 DEF Queue!Loop
<1> DEFINE kinds == {"remove_all", "destroy"}
           held == {j \in DOMAIN loops : loops[j].of \in kinds}
           taken == UNION {Queue!ToSet(Queue!From(loops[i].at)) : i \in held}
<1>4. live = Queue!ToSet(Queue!List) \cup taken
  <2>1. Queue!List = L0 /\ Queue!From(Root(loops, 1)) = L1 /\ Queue!From(Root(loops, 2)) = L2
    BY QueueIs
  <2>2. DOMAIN loops \subseteq {1, 2}
    BY <1>1
  <2>3. \A i \in held : loops[i].at = Root(loops, i) /\ i \in {1, 2}
    BY <2>2 DEF Root
  <2>4. \A i \in {1, 2} \ held : Root(loops, i) = 0
    BY DEF Root
  <2>5. \A l \in {L1, L2} : Start(l) = 0 => ToSet(l) = {}
    <3>1. ASSUME NEW l \in {L1, L2}, Start(l) = 0 PROVE ToSet(l) = {}
      <4>1. l \in Seq(Queue!Entry)
        BY <1>2 DEF Heap, Linked
      <4>2. l = <<>>
        <5>1. SUFFICES ASSUME l # <<>> PROVE FALSE
          OBVIOUS
        <5>2. 1 \in 1 .. Len(l)
          BY <4>1, <5>1, EmptySeq
        <5>3. l[1] \in Queue!Entry /\ l[1] = 0
          BY <3>1, <4>1, <5>1, <5>2, ElementOfSeq DEF Start
        <5> QED BY <5>3, QueueNames
      <4> QED BY <4>2, EmptyLinked
    <3> QED BY <3>1
  <2>6. Root(loops, 1) = Start(L1) /\ Root(loops, 2) = Start(L2)
    BY DEF QueueOk
  <2>7. \A i \in held : Queue!ToSet(Queue!From(loops[i].at)) = IF i = 1 THEN ToSet(L1) ELSE ToSet(L2)
    BY <2>1, <2>3, QueueSets
  <2>8. ToSet(L1) # {} => 1 \in held
    BY <2>4, <2>5, <2>6
  <2>9. ToSet(L2) # {} => 2 \in held
    BY <2>4, <2>5, <2>6
  <2>10. taken = ToSet(L1) \cup ToSet(L2)
    <3>1. taken \subseteq ToSet(L1) \cup ToSet(L2)
      BY <2>7
    <3>2. ToSet(L1) \subseteq taken
      BY <2>7, <2>8
    <3>3. ToSet(L2) \subseteq taken
      BY <2>7, <2>9
    <3> QED BY <3>1, <3>2, <3>3
  <2> HIDE DEF taken
  <2> QED BY <1>2, <2>1, <2>10, QueueSets
<1>5. ASSUME ref_count = 0 PROVE live = {}
  <2>1. Walked(loops) \in Nat
    BY DEF Walked
  <2>2. Walked(loops) = 0 /\ head = 0 /\ \A i \in DOMAIN loops : loops[i].of = "foreach"
    BY <1>1, <1>5, <2>1 DEF LoopsOk
  <2>3. DOMAIN loops = {}
    BY <2>2, SMTT(30) DEF Walked
  <2>4. Root(loops, 1) = 0 /\ Root(loops, 2) = 0
    BY <2>3 DEF Root
  <2>5. \A l \in {L0, L1, L2} : Start(l) = 0 /\ l \in Seq(Queue!Entry)
    BY <1>2, <2>2, <2>4 DEF QueueOk, ListsOk, Heap, Linked
  <2>6. ASSUME NEW l \in {L0, L1, L2} PROVE l = <<>>
    <3>1. SUFFICES ASSUME l # <<>> PROVE FALSE
      OBVIOUS
    <3>2. 1 \in 1 .. Len(l)
      BY <2>5, <3>1, EmptySeq
    <3>3. l[1] \in Queue!Entry /\ l[1] = 0
      BY <2>5, <3>1, <3>2, ElementOfSeq DEF Start
    <3> QED BY <3>3, QueueNames
  <2> QED BY <1>2, <2>6, EmptyLinked
<1> QED BY <1>3, <1>4, <1>5 DEF Queue!QueueKeepsEntries

\* What a call does to the sequence.
Moves(q, q2) ==
  \/ q2 = q \/ q2 = <<>>
  \/ \E d \in Data : \E k \in 1 .. Len(q) + 1 : q2 = InsertAt(q, k, d)
  \/ \E k \in DOMAIN q : q2 = RemoveAt(q, k)

LEMMA HeapSets ==
  ASSUME NEW nxt, NEW lv, NEW L0, NEW L1, NEW L2, Heap(nxt, lv, L0, L1, L2)
  PROVE  /\ lv \subseteq Queue!Entry
         /\ \A l \in {L0, L1, L2} : l \in Seq(Queue!Entry) /\ ToSet(l) \subseteq lv
<1>1. \A l \in {L0, L1, L2} : l \in Seq(Queue!Entry) /\ ToSet(l) \subseteq lv
  BY DEF Heap, Linked
<1>2. ASSUME NEW l \in Seq(Queue!Entry) PROVE ToSet(l) \subseteq Queue!Entry
  BY DEF ToSet
<1>3. lv = ToSet(L0) \cup ToSet(L1) \cup ToSet(L2)
  BY DEF Heap
<1> QED BY <1>1, <1>2, <1>3

LEMMA InsertedList ==
  ASSUME NEW L0 \in Seq(Queue!Entry), NEW e \in Queue!Entry, NEW k \in 1 .. Len(L0) + 1, NEW l,
         l = InsertAt(L0, k, e)
  PROVE  /\ l \in Seq(Queue!Entry) /\ Len(l) = Len(L0) + 1
         /\ Start(l) = IF k = 1 THEN e ELSE Start(L0)
         /\ LastOf(l) = IF k = Len(L0) + 1 THEN e ELSE LastOf(L0)
         /\ ToSet(L0) \subseteq ToSet(l)
<1> DEFINE n == Len(L0)
<1>1. n \in Nat /\ k \in Nat /\ k >= 1 /\ k <= n + 1 /\ DOMAIN L0 = 1 .. n
  OBVIOUS
<1>2. /\ l \in Seq(Queue!Entry) /\ Len(l) = n + 1
      /\ \A i \in 1 .. n + 1 : l[i] = IF i < k THEN L0[i] ELSE IF i = k THEN e ELSE L0[i - 1]
  BY InsertIs, SMTT(30)
<1>3. DOMAIN l = 1 .. n + 1
  BY <1>2
<1> HIDE DEF n
<1>4. Len(l) # 0 /\ l # <<>> /\ 1 \in 1 .. n + 1 /\ n + 1 \in 1 .. n + 1
  BY <1>1, <1>2
<1>5. L0 = <<>> \/ n \in Nat \ {0}
  BY <1>1, EmptySeq DEF n
<1>6. Start(l) = (IF k = 1 THEN e ELSE Start(L0)) /\ LastOf(l) = (IF k = n + 1 THEN e ELSE LastOf(L0))
  <2>4. CASE L0 = <<>>
    <3>1. n = 0 /\ k = 1
      BY <1>1, <2>4 DEF n
    <3> QED BY <1>2, <1>4, <3>1 DEF Start, LastOf
  <2>5. CASE n \in Nat \ {0}
    <3>1. L0 # <<>>
      BY <2>5 DEF n
    <3>2. Start(L0) = L0[1] /\ LastOf(L0) = L0[n]
      BY <3>1 DEF Start, LastOf, n
    <3>3. l[1] = IF k = 1 THEN e ELSE L0[1]
      <4>1. 1 < k \/ k = 1
        BY <1>1
      <4> QED BY <1>2, <1>4, <4>1
    <3>4. l[n + 1] = IF k = n + 1 THEN e ELSE L0[n]
      <4>1. ASSUME NEW i \in 1 .. n + 1, i = n + 1 PROVE l[i] = IF k = n + 1 THEN e ELSE L0[n]
        <5>1. ~(i < k) /\ (i = k <=> k = n + 1) /\ i - 1 = n
          BY <1>1, <4>1
        <5>2. l[i] = IF i < k THEN L0[i] ELSE IF i = k THEN e ELSE L0[i - 1]
          BY <1>2
        <5> QED BY <5>1, <5>2
      <4> QED BY <1>4, <4>1
    <3> QED BY <1>2, <1>4, <3>2, <3>3, <3>4 DEF Start, LastOf
  <2> QED BY <1>5, <2>4, <2>5
<1>7. ToSet(L0) \subseteq ToSet(l)
  <2>1. ASSUME NEW i \in 1 .. n PROVE L0[i] \in ToSet(l)
    <3>1. CASE i < k
      <4>1. i \in 1 .. n + 1
        BY <1>1
      <4> QED BY <1>2, <1>3, <3>1, <4>1 DEF ToSet
    <3>2. CASE i >= k
      <4>1. i + 1 \in 1 .. n + 1 /\ ~(i + 1 < k) /\ i + 1 # k /\ i + 1 - 1 = i
        BY <1>1, <3>2
      <4>2. l[i + 1] = L0[i]
        BY <1>2, <4>1
      <4> QED BY <1>3, <4>1, <4>2 DEF ToSet
    <3>3. i < k \/ i >= k
      BY <1>1
    <3> QED BY <3>1, <3>2, <3>3
  <2> QED BY <1>1, <2>1 DEF ToSet
<1> QED BY <1>2, <1>6, <1>7 DEF n

LEMMA InsertedData ==
  ASSUME NEW L0 \in Seq(Queue!Entry), NEW e \in Queue!Entry, NEW k \in 1 .. Len(L0) + 1,
         NEW dt \in [Queue!Entry -> Data \cup {None}], NEW dt2 \in [Queue!Entry -> Data \cup {None}],
         dt2[e] \in Data, \A x \in ToSet(L0) : dt2[x] = dt[x]
  PROVE  Moves(QData(L0, dt), QData(InsertAt(L0, k, e), dt2))
<1>1. QData(InsertAt(L0, k, e), dt2) = InsertAt(QData(L0, dt), k, dt2[e])
  BY InsertData
<1>2. Len(QData(L0, dt)) = Len(L0)
  BY QDataIs
<1>3. k \in 1 .. Len(QData(L0, dt)) + 1
  BY <1>2
<1> QED BY <1>1, <1>3, Zenon DEF Moves

\* An entry is put in at a place of the list.
LEMMA QueueInsert ==
  ASSUME NEW L0, NEW L1, NEW L2, QueueOk(L0, L1, L2), Queue!MayAdd,
         NEW e \in Queue!Unused, NEW d \in Data, NEW k \in 1 .. Len(L0) + 1,
         live' = live \cup {e}, data' = [data EXCEPT ![e] = d],
         Inserts(next, next', L0, k, e), entries' = entries + 1,
         ref_count' = ref_count, loops' = loops,
         head' = IF k = 1 THEN e ELSE head, tail' = IF k = Len(L0) + 1 THEN e ELSE tail
  PROVE  /\ QueueOk(InsertAt(L0, k, e), L1, L2)'
         /\ Moves(QData(L0, data), QData(InsertAt(L0, k, e), data'))
<1> DEFINE l == InsertAt(L0, k, e)
<1>1. /\ Heap(next, live, L0, L1, L2) /\ L0 \in Seq(Queue!Entry)
      /\ ToSet(L0) \subseteq live /\ live \subseteq Queue!Entry
      /\ head = Start(L0) /\ tail = LastOf(L0) /\ entries = Len(L0)
      /\ data \in [Queue!Entry -> Data \cup {None}] /\ \A x \in live : data[x] \in Data
  <2>1. /\ Heap(next, live, L0, L1, L2)
        /\ head = Start(L0) /\ tail = LastOf(L0) /\ entries = Len(L0)
        /\ data \in [Queue!Entry -> Data \cup {None}] /\ \A x \in live : data[x] \in Data
    BY DEF QueueOk, ListsOk
  <2> QED BY <2>1, HeapSets
<1>2. e \in Queue!Entry \ live
  BY DEF Queue!Unused
<1>3. /\ l \in Seq(Queue!Entry) /\ Len(l) = Len(L0) + 1
      /\ Start(l) = IF k = 1 THEN e ELSE Start(L0)
      /\ LastOf(l) = IF k = Len(L0) + 1 THEN e ELSE LastOf(L0)
      /\ ToSet(L0) \subseteq ToSet(l)
  BY <1>1, <1>2, InsertedList, Zenon
<1>4. /\ data' \in [Queue!Entry -> Data \cup {None}]
      /\ \A x \in live \cup {e} : data'[x] \in Data
      /\ Moves(QData(L0, data), QData(l, data'))
  <2>1. data' \in [Queue!Entry -> Data \cup {None}] /\ data'[e] = d
        /\ \A x \in Queue!Entry : x # e => data'[x] = data[x]
    BY <1>1, <1>2
  <2>2. /\ L0 \in Seq(Queue!Entry) /\ e \in Queue!Entry /\ k \in 1 .. Len(L0) + 1
        /\ data \in [Queue!Entry -> Data \cup {None}] /\ data' \in [Queue!Entry -> Data \cup {None}]
    BY <1>1, <1>2, <2>1
  <2>3. data'[e] \in Data /\ \A x \in ToSet(L0) : data'[x] = data[x]
    BY <1>1, <1>2, <2>1
  <2>4. Moves(QData(L0, data), QData(InsertAt(L0, k, e), data'))
    BY <2>2, <2>3, InsertedData, Zenon
  <2>5. \A x \in live \cup {e} : data'[x] \in Data
    BY <1>1, <1>2, <2>1
  <2> QED BY <2>1, <2>4, <2>5
<1>5. Heap(next', live', l, L1, L2)
  <2>1. Heap(next', live \cup {e}, l, L1, L2)
    BY <1>1, <1>2, HeapInsert
  <2> QED BY <2>1
<1> HIDE DEF l
<1>6. LoopsOk(loops, head', ref_count, l)
  <2>1. LoopsOk(loops, head, ref_count, L0)
    BY DEF QueueOk
  <2>2. ref_count = Walked(loops) + 1
    BY <2>1, CallersRef DEF Queue!MayAdd
  <2>3. \A i \in DOMAIN loops : loops[i].of # "destroy"
    BY DEF Queue!MayAdd
  <2>4. \A i \in DOMAIN loops : loops[i].of = "foreach" => loops[i].at \in ToSet(L0) \cup {0}
    BY QueueIs, QueueSets, QueueNames DEF Queue!MayAdd
  <2> QED BY <1>3, <2>1, <2>2, <2>3, <2>4, LoopsList
<1>7. ListsOk(l, L1, L2)'
  BY <1>1, <1>3, <1>4, <1>5 DEF ListsOk
<1>8. QueueOk(l, L1, L2)'
  <2>1. Root(loops', 1) = Start(L1) /\ Root(loops', 2) = Start(L2)
    BY DEF QueueOk
  <2>2. LoopsOk(loops', head', ref_count', l)
    BY <1>6
  <2> QED BY <1>7, <2>1, <2>2 DEF QueueOk
<1> QED BY <1>4, <1>8 DEF l

LEMMA RemovedList ==
  ASSUME NEW nxt, NEW L0, Linked(nxt, L0), NEW k \in 1 .. Len(L0), NEW l, l = RemoveAt(L0, k)
  PROVE  /\ l \in Seq(Queue!Entry) /\ Len(l) = Len(L0) - 1
         /\ Start(l) = IF k = 1 THEN nxt[L0[k]] ELSE Start(L0)
         /\ LastOf(l) = IF nxt[L0[k]] # 0 THEN LastOf(L0) ELSE IF k = 1 THEN 0 ELSE L0[k - 1]
         /\ ToSet(L0) \ {L0[k]} \subseteq ToSet(l)
<1> DEFINE n == Len(L0)
<1>1. /\ n \in Nat /\ k \in Nat /\ k >= 1 /\ k <= n /\ DOMAIN L0 = 1 .. n /\ L0 \in Seq(Queue!Entry)
      /\ \A i \in 1 .. n : nxt[L0[i]] = IF i < n THEN L0[i + 1] ELSE 0
  <2>1. L0 \in Seq(Queue!Entry)
    BY DEF Linked
  <2> QED BY <2>1 DEF Linked
<1>2. /\ l \in Seq(Queue!Entry) /\ Len(l) = n - 1
      /\ \A i \in 1 .. n - 1 : l[i] = IF i < k THEN L0[i] ELSE L0[i + 1]
  BY <1>1, RemoveIs
<1>3. DOMAIN l = 1 .. n - 1
  BY <1>2
<1>4. \A i \in 1 .. n : L0[i] # 0
  BY <1>1, QueueNames
<1>5. L0 # <<>> /\ Start(L0) = L0[1] /\ LastOf(L0) = L0[n]
  BY <1>1 DEF Start, LastOf
<1> HIDE DEF n
<1>6. CASE n = 1
  <2>1. k = 1 /\ nxt[L0[k]] = 0
    BY <1>1, <1>6
  <2>2. l = <<>>
    <3>1. Len(l) = 0
      BY <1>2, <1>6
    <3> QED BY <1>2, <3>1, EmptySeq
  <2>3. Start(l) = 0 /\ LastOf(l) = 0
    BY <2>2 DEF Start, LastOf
  <2>4. ToSet(L0) \ {L0[k]} = {}
    BY <1>1, <1>6, <2>1 DEF ToSet
  <2> QED BY <1>2, <2>1, <2>3, <2>4 DEF n
<1>7. CASE n > 1
  <2>1. l # <<>> /\ 1 \in 1 .. n - 1 /\ n - 1 \in 1 .. n - 1
    <3>1. Len(l) # 0
      BY <1>1, <1>2, <1>7
    <3> QED BY <1>1, <1>7, <3>1
  <2>2. Start(l) = l[1] /\ LastOf(l) = l[n - 1]
    BY <1>2, <2>1 DEF Start, LastOf
  <2>3. l[1] = IF k = 1 THEN nxt[L0[k]] ELSE L0[1]
    <3>1. CASE k = 1
      <4>1. l[1] = L0[1 + 1] /\ nxt[L0[k]] = L0[k + 1]
        BY <1>1, <1>2, <1>7, <2>1, <3>1
      <4> QED BY <3>1, <4>1
    <3>2. CASE k > 1
      BY <1>1, <1>2, <2>1, <3>2
    <3> QED BY <1>1, <3>1, <3>2
  <2>4. l[n - 1] = IF nxt[L0[k]] # 0 THEN L0[n] ELSE IF k = 1 THEN 0 ELSE L0[k - 1]
    <3>1. CASE k < n
      <4>1. nxt[L0[k]] # 0
        <5>1. k + 1 \in 1 .. n /\ nxt[L0[k]] = L0[k + 1]
          BY <1>1, <3>1
        <5> QED BY <1>4, <5>1
      <4>2. l[n - 1] = L0[n]
        <5>1. ~(n - 1 < k) /\ n - 1 + 1 = n
          BY <1>1, <3>1
        <5>2. l[n - 1] = IF n - 1 < k THEN L0[n - 1] ELSE L0[n - 1 + 1]
          BY <1>2, <2>1, Zenon
        <5> QED BY <5>1, <5>2
      <4> QED BY <4>1, <4>2
    <3>2. CASE k = n
      <4>1. nxt[L0[k]] = 0
        BY <1>1, <3>2
      <4>2. l[n - 1] = L0[k - 1]
        BY <1>1, <1>2, <2>1, <3>2
      <4>3. k # 1
        BY <1>7, <3>2
      <4> QED BY <4>1, <4>2, <4>3
    <3>3. k < n \/ k = n
      BY <1>1
    <3> QED BY <3>1, <3>2, <3>3
  <2>5. ASSUME NEW i \in 1 .. n, i # k PROVE L0[i] \in ToSet(l)
    <3>1. CASE i < k
      <4>1. i \in 1 .. n - 1
        BY <1>1, <3>1
      <4> QED BY <1>2, <1>3, <3>1, <4>1 DEF ToSet
    <3>2. CASE i > k
      <4>1. i - 1 \in 1 .. n - 1 /\ ~(i - 1 < k) /\ i - 1 + 1 = i
        BY <1>1, <3>2
      <4>2. l[i - 1] = L0[i]
        BY <1>2, <4>1
      <4> QED BY <1>3, <4>1, <4>2 DEF ToSet
    <3>3. i < k \/ i > k
      BY <1>1, <2>5
    <3> QED BY <3>1, <3>2, <3>3
  <2>6. ToSet(L0) \ {L0[k]} \subseteq ToSet(l)
    BY <1>1, <2>5 DEF ToSet
  <2> QED BY <1>2, <1>5, <2>2, <2>3, <2>4, <2>6 DEF n
<1> QED BY <1>1, <1>6, <1>7

LEMMA RemovedData ==
  ASSUME NEW nxt, NEW L0, Linked(nxt, L0), NEW k \in 1 .. Len(L0),
         NEW dt \in [Queue!Entry -> Data \cup {None}], NEW dt2 \in [Queue!Entry -> Data \cup {None}],
         \A x \in Queue!Entry : x # L0[k] => dt2[x] = dt[x]
  PROVE  Moves(QData(L0, dt), QData(RemoveAt(L0, k), dt2))
<1>1. L0 \in Seq(Queue!Entry) /\ \A i, j \in 1 .. Len(L0) : L0[i] = L0[j] => i = j
  <2>1. L0 \in Seq(Queue!Entry)
    BY DEF Linked
  <2>2. DOMAIN L0 = 1 .. Len(L0)
    BY <2>1
  <2> QED BY <2>1, <2>2, LinkedInjective
<1>2. \A i \in 1 .. Len(L0) : L0[i] \in Queue!Entry
  BY <1>1
<1>3. \A i \in 1 .. Len(L0) : i # k => dt2[L0[i]] = dt[L0[i]]
  BY <1>1, <1>2
<1>4. QData(RemoveAt(L0, k), dt2) = RemoveAt(QData(L0, dt), k)
  BY <1>1, <1>3, RemoveData
<1>5. QData(L0, dt) \in Seq(Data \cup {None}) /\ Len(QData(L0, dt)) = Len(L0)
  BY <1>1, QDataIs
<1>6. k \in DOMAIN QData(L0, dt)
  BY <1>5
<1> QED BY <1>4, <1>6, Zenon DEF Moves

LEMMA ListsRemoved ==
  ASSUME NEW L0, NEW L1, NEW L2, ListsOk(L0, L1, L2), NEW k \in 1 .. Len(L0)
  PROVE  /\ RemoveAt(L0, k) \in Seq(Queue!Entry) /\ Len(RemoveAt(L0, k)) = Len(L0) - 1
         /\ Start(RemoveAt(L0, k)) = IF k = 1 THEN next[L0[k]] ELSE Start(L0)
         /\ LastOf(RemoveAt(L0, k)) =
              IF next[L0[k]] # 0 THEN LastOf(L0) ELSE IF k = 1 THEN 0 ELSE L0[k - 1]
<1>1. Linked(next, L0)
  BY DEF ListsOk, Heap
<1> DEFINE l == RemoveAt(L0, k)
<1>2. l = RemoveAt(L0, k)
  OBVIOUS
<1> HIDE DEF l
<1>3. /\ l \in Seq(Queue!Entry) /\ Len(l) = Len(L0) - 1
      /\ Start(l) = IF k = 1 THEN next[L0[k]] ELSE Start(L0)
      /\ LastOf(l) = IF next[L0[k]] # 0 THEN LastOf(L0) ELSE IF k = 1 THEN 0 ELSE L0[k - 1]
  <2>1. l \in Seq(Queue!Entry) /\ Len(l) = Len(L0) - 1
    BY <1>1, <1>2, RemovedList
  <2>2. Start(l) = IF k = 1 THEN next[L0[k]] ELSE Start(L0)
    BY <1>1, <1>2, RemovedList
  <2>3. LastOf(l) = IF next[L0[k]] # 0 THEN LastOf(L0) ELSE IF k = 1 THEN 0 ELSE L0[k - 1]
    BY <1>1, <1>2, RemovedList
  <2> QED BY <2>1, <2>2, <2>3, Zenon
<1> QED BY <1>3 DEF l

\* An entry is taken out of the list of the queue, and freed.
LEMMA QueueRemove ==
  ASSUME NEW L0, NEW L1, NEW L2, ListsOk(L0, L1, L2), NEW k \in 1 .. Len(L0),
         Removes(next, next', L0, k), Queue!Freed({L0[k]}), entries' = entries - 1,
         head' = (IF k = 1 THEN next[L0[k]] ELSE head),
         tail' = IF next[L0[k]] # 0 THEN tail ELSE IF k = 1 THEN 0 ELSE L0[k - 1]
  PROVE  ListsOk(RemoveAt(L0, k), L1, L2)' /\ Moves(QData(L0, data), QData(RemoveAt(L0, k), data'))
<1> DEFINE l == RemoveAt(L0, k)
<1>1. /\ Heap(next, live, L0, L1, L2) /\ Linked(next, L0)
      /\ head = Start(L0) /\ tail = LastOf(L0) /\ entries = Len(L0)
      /\ data \in [Queue!Entry -> Data \cup {None}] /\ \A x \in live : data[x] \in Data
  BY DEF ListsOk, Heap
<1>2. live \subseteq Queue!Entry
  BY <1>1, HeapSets
<1>3. /\ l \in Seq(Queue!Entry) /\ Len(l) = Len(L0) - 1
      /\ Start(l) = IF k = 1 THEN next[L0[k]] ELSE Start(L0)
      /\ LastOf(l) = IF next[L0[k]] # 0 THEN LastOf(L0) ELSE IF k = 1 THEN 0 ELSE L0[k - 1]
  BY ListsRemoved
<1>4. /\ live' = live \ {L0[k]} /\ data' \in [Queue!Entry -> Data \cup {None}]
      /\ \A x \in Queue!Entry : x # L0[k] => data'[x] = data[x]
  BY <1>1 DEF Queue!Freed
<1>5. Heap(next', live', l, L1, L2)
  <2>1. Heap(next', live \ {L0[k]}, l, L1, L2)
    BY <1>1, HeapRemove
  <2> QED BY <1>4, <2>1
<1>6. Moves(QData(L0, data), QData(l, data'))
  BY <1>1, <1>4, RemovedData, Zenon
<1>7. \A x \in live' : data'[x] \in Data
  BY <1>1, <1>2, <1>4
<1> HIDE DEF l
<1>8. ListsOk(l, L1, L2)'
  BY <1>1, <1>3, <1>4, <1>5, <1>7 DEF ListsOk
<1> QED BY <1>6, <1>8 DEF l

\* No walk is left at it, or nothing is left.
LEMMA LoopsRemove ==
  ASSUME NEW L0, NEW L1, NEW L2, QueueOk(L0, L1, L2), ref_count = Walked(loops) + 1,
         NEW k \in 1 .. Len(L0), Queue!Careful({L0[k]})
  PROVE  LoopsOk(loops, IF k = 1 THEN next[L0[k]] ELSE head, ref_count, RemoveAt(L0, k))
<1> DEFINE l == RemoveAt(L0, k)
           hd == IF k = 1 THEN next[L0[k]] ELSE head
<1>1. /\ Linked(next, L0) /\ head = Start(L0) /\ LoopsOk(loops, head, ref_count, L0)
      /\ Queue!List = L0
  BY QueueIs DEF QueueOk, ListsOk, Heap
<1>2. l \in Seq(Queue!Entry) /\ Len(l) = Len(L0) - 1 /\ Start(l) = hd /\ ToSet(L0) \ {L0[k]} \subseteq ToSet(l)
  BY <1>1, RemovedList
<1>3. L0 \in Seq(Queue!Entry) /\ Len(L0) \in Nat /\ DOMAIN L0 = 1 .. Len(L0)
  BY <1>1 DEF Linked
<1> HIDE DEF l, hd
<1>4. head # 0
  <2>1. 1 \in 1 .. Len(L0) /\ L0 # <<>>
    BY <1>3
  <2>2. head = L0[1] /\ L0[1] \in Queue!Entry
    BY <1>1, <1>3, <2>1, ElementOfSeq DEF Start
  <2> QED BY <2>2, QueueNames
<1>5. ASSUME NEW i \in DOMAIN loops, loops[i].of = "foreach"
      PROVE  hd = 0 \/ loops[i].at = 0 \/ loops[i].at \in ToSet(l)
  <2>1. loops[i].at = 0 \/ loops[i].at \in ToSet(L0)
    BY <1>1, <1>4, <1>5 DEF LoopsOk
  <2>2. CASE loops[i].at # L0[k]
    BY <1>2, <2>1, <2>2
  <2>3. CASE ToSet(L0) \subseteq {L0[k]}
    <3>1. \A j \in 1 .. Len(L0) : L0[j] = L0[k]
      BY <1>3, <2>3 DEF ToSet
    <3>2. \A j \in 1 .. Len(L0) : j = k
      BY <1>1, <1>3, <3>1, LinkedInjective
    <3>3. 1 = k /\ Len(L0) = k
      <4>1. 1 \in 1 .. Len(L0) /\ Len(L0) \in 1 .. Len(L0)
        BY <1>3
      <4> QED BY <3>2, <4>1
    <3>4. l = <<>>
      BY <1>2, <3>3, EmptySeq
    <3> QED BY <1>2, <3>4, EmptyLinked
  <2>4. loops[i].at # L0[k] \/ ToSet(L0) \subseteq {L0[k]}
    <3>1. i \in Queue!Walks
      BY <1>5 DEF Queue!Walks
    <3>2. Queue!ToSet(Queue!List) = ToSet(L0)
      BY <1>1, QueueSets
    <3> QED BY <3>1, <3>2 DEF Queue!Careful
  <2> QED BY <2>2, <2>3, <2>4
<1>6. LoopsOk(loops, hd, ref_count, l)
  BY <1>1, <1>4, <1>5, LoopsList
<1> QED BY <1>6 DEF l, hd

LEMMA ListsFacts ==
  ASSUME NEW L0, NEW L1, NEW L2, ListsOk(L0, L1, L2)
  PROVE  /\ L0 \in Seq(Queue!Entry) /\ Len(L0) \in Nat /\ DOMAIN L0 = 1 .. Len(L0)
         /\ (head = 0 <=> Len(L0) = 0) /\ (tail = 0 <=> Len(L0) = 0)
         /\ Len(L0) # 0 => head = L0[1] /\ tail = L0[Len(L0)]
         /\ \A i \in 1 .. Len(L0) :
              /\ L0[i] \in Queue!Entry /\ L0[i] # 0 /\ L0[i] \in live
              /\ next[L0[i]] = IF i < Len(L0) THEN L0[i + 1] ELSE 0
         /\ next \in [Queue!Entry -> Queue!Entry \cup {0}]
         /\ data \in [Queue!Entry -> Data \cup {None}]
         /\ live \subseteq Queue!Entry
<1>1. /\ Linked(next, L0) /\ ToSet(L0) \subseteq live /\ live \subseteq Queue!Entry
      /\ next \in [Queue!Entry -> Queue!Entry \cup {0}]
      /\ data \in [Queue!Entry -> Data \cup {None}]
      /\ head = Start(L0) /\ tail = LastOf(L0)
  <2>1. /\ Heap(next, live, L0, L1, L2) /\ head = Start(L0) /\ tail = LastOf(L0)
        /\ data \in [Queue!Entry -> Data \cup {None}]
    BY DEF ListsOk
  <2>2. ToSet(L0) \subseteq live /\ live \subseteq Queue!Entry
    BY <2>1, HeapSets
  <2>3. Linked(next, L0) /\ next \in [Queue!Entry -> Queue!Entry \cup {0}]
    BY <2>1 DEF Heap
  <2> QED BY <2>1, <2>2, <2>3
<1>2. L0 \in Seq(Queue!Entry)
  BY <1>1 DEF Linked
<1>3. Len(L0) \in Nat /\ DOMAIN L0 = 1 .. Len(L0)
  BY <1>2
<1>4. ASSUME NEW i \in 1 .. Len(L0)
      PROVE  /\ L0[i] \in Queue!Entry /\ L0[i] # 0 /\ L0[i] \in live
             /\ next[L0[i]] = IF i < Len(L0) THEN L0[i + 1] ELSE 0
  <2>1. L0[i] \in Queue!Entry
    BY <1>2, ElementOfSeq
  <2>2. L0[i] \in ToSet(L0)
    BY <1>3 DEF ToSet
  <2>3. next[L0[i]] = IF i < Len(L0) THEN L0[i + 1] ELSE 0
    BY <1>1, <1>3 DEF Linked
  <2>4. L0[i] # 0
    BY <2>1, QueueNames
  <2> QED BY <1>1, <2>1, <2>2, <2>3, <2>4
<1>5. CASE Len(L0) = 0
  <2>1. L0 = <<>>
    BY <1>2, <1>5, EmptySeq
  <2>2. head = 0 /\ tail = 0
    BY <1>1, <2>1 DEF Start, LastOf
  <2> QED BY <1>1, <1>2, <1>3, <1>4, <1>5, <2>2
<1>6. CASE Len(L0) # 0
  <2>1. L0 # <<>>
    BY <1>6
  <2>2. head = L0[1] /\ tail = L0[Len(L0)]
    BY <1>1, <2>1 DEF Start, LastOf
  <2>3. 1 \in 1 .. Len(L0) /\ Len(L0) \in 1 .. Len(L0)
    BY <1>3, <1>6
  <2>4. head # 0 /\ tail # 0
    BY <1>4, <2>2, <2>3
  <2> QED BY <1>1, <1>2, <1>3, <1>4, <1>6, <2>2, <2>4
<1> QED BY <1>5, <1>6

QueueMoves(L0) ==
  \E l0, l1, l2 : QueueOk(l0, l1, l2)' /\ Moves(QData(L0, data), QData(l0, data'))

LEMMA PushTailMoves ==
  ASSUME NEW L0, NEW L1, NEW L2, QueueOk(L0, L1, L2), NEW d \in Data, Queue!PushTail(d)
  PROVE  QueueMoves(L0)
<1>1. PICK e \in Queue!Unused :
        /\ Queue!NewEntry(e, d, [x \in Queue!Entry |->
             IF x = e THEN Queue!Null ELSE IF x = tail THEN e ELSE next[x]])
        /\ tail' = e /\ head' = IF head = Queue!Null THEN e ELSE head
  BY DEF Queue!PushTail
<1>2. ListsOk(L0, L1, L2)
  BY DEF QueueOk
<1> DEFINE n == Len(L0)
<1>3. /\ n \in Nat
      /\ (head = 0 <=> n = 0) /\ (tail = 0 <=> n = 0)
      /\ n # 0 => tail = L0[n] /\ tail \in live
      /\ next \in [Queue!Entry -> Queue!Entry \cup {0}] /\ live \subseteq Queue!Entry
  <2>1. n # 0 => n \in 1 .. n
    BY <1>2, ListsFacts
  <2> QED BY <1>2, <2>1, ListsFacts
<1>4. e \in Queue!Entry /\ e \notin live /\ e # 0
  BY <1>3, QueueNames DEF Queue!Unused
<1>5. next' = [x \in Queue!Entry |-> IF x = e THEN 0 ELSE IF x = tail THEN e ELSE next[x]]
  BY <1>1, <1>4, QueueNames DEF Queue!NewEntry
<1> HIDE DEF n
<1>6. /\ next' \in [Queue!Entry -> Queue!Entry \cup {0}]
      /\ next'[e] = 0 /\ (n # 0 => next'[L0[n]] = e)
      /\ \A x \in Queue!Entry : x # e /\ x # tail => next'[x] = next[x]
  BY <1>3, <1>4, <1>5
<1>7. n + 1 \in 1 .. n + 1 /\ ~(n + 1 <= n) /\ (n + 1 > 1 <=> n # 0) /\ n + 1 - 1 = n
      /\ (n + 1 = 1 <=> n = 0)
  BY <1>3
<1>8. Inserts(next, next', L0, n + 1, e)
  <2>1. \A x \in Queue!Entry : x # 0
    BY QueueNames
  <2> QED BY <1>3, <1>6, <1>7, <2>1 DEF Inserts, n
<1>9. head' = (IF n + 1 = 1 THEN e ELSE head) /\ tail' = IF n + 1 = n + 1 THEN e ELSE tail
  BY <1>1, <1>3, <1>7, QueueNames
<1>10. /\ live' = live \cup {e} /\ data' = [data EXCEPT ![e] = d] /\ entries' = entries + 1
       /\ ref_count' = ref_count /\ loops' = loops /\ Queue!MayAdd
  BY <1>1 DEF Queue!NewEntry, Queue!PushTail
<1>11. /\ QueueOk(InsertAt(L0, n + 1, e), L1, L2)'
       /\ Moves(QData(L0, data), QData(InsertAt(L0, n + 1, e), data'))
  BY <1>7, <1>8, <1>9, <1>10, QueueInsert DEF n
<1> QED BY <1>11 DEF QueueMoves

LEMMA PushHeadMoves ==
  ASSUME NEW L0, NEW L1, NEW L2, QueueOk(L0, L1, L2), NEW d \in Data, Queue!PushHead(d)
  PROVE  QueueMoves(L0)
<1>1. PICK e \in Queue!Unused :
        /\ Queue!NewEntry(e, d, [next EXCEPT ![e] = head])
        /\ head' = e /\ tail' = IF tail = Queue!Null THEN e ELSE tail
  BY DEF Queue!PushHead
<1>2. ListsOk(L0, L1, L2)
  BY DEF QueueOk
<1> DEFINE n == Len(L0)
<1>3. /\ n \in Nat
      /\ (head = 0 <=> n = 0) /\ (tail = 0 <=> n = 0)
      /\ n # 0 => head = L0[1] /\ head \in Queue!Entry
      /\ next \in [Queue!Entry -> Queue!Entry \cup {0}] /\ live \subseteq Queue!Entry
  <2>1. n # 0 => 1 \in 1 .. n
    BY <1>2, ListsFacts
  <2> QED BY <1>2, <2>1, ListsFacts
<1>4. e \in Queue!Entry /\ e \notin live
  BY DEF Queue!Unused
<1> HIDE DEF n
<1>5. next' = [next EXCEPT ![e] = head]
  BY <1>1, <1>3, <1>4, QueueNames DEF Queue!NewEntry
<1>6. /\ next' \in [Queue!Entry -> Queue!Entry \cup {0}] /\ next'[e] = head
      /\ \A x \in Queue!Entry : x # e => next'[x] = next[x]
  BY <1>3, <1>4, <1>5
<1>7. 1 \in 1 .. n + 1 /\ (1 <= n <=> n # 0) /\ ~(1 > 1) /\ (1 = n + 1 <=> n = 0)
  BY <1>3
<1>8. Inserts(next, next', L0, 1, e)
  BY <1>3, <1>6, <1>7 DEF Inserts, n
<1>9. head' = (IF 1 = 1 THEN e ELSE head) /\ tail' = IF 1 = n + 1 THEN e ELSE tail
  BY <1>1, <1>3, <1>7, QueueNames
<1>10. /\ live' = live \cup {e} /\ data' = [data EXCEPT ![e] = d] /\ entries' = entries + 1
       /\ ref_count' = ref_count /\ loops' = loops /\ Queue!MayAdd
  BY <1>1 DEF Queue!NewEntry, Queue!PushHead
<1>11. /\ QueueOk(InsertAt(L0, 1, e), L1, L2)'
       /\ Moves(QData(L0, data), QData(InsertAt(L0, 1, e), data'))
  BY <1>7, <1>8, <1>9, <1>10, QueueInsert DEF n
<1> QED BY <1>11 DEF QueueMoves

LEMMA PushAfterMoves ==
  ASSUME NEW L0, NEW L1, NEW L2, QueueOk(L0, L1, L2), NEW d \in Data, NEW other \in Data,
         Queue!PushAfter(d, other)
  PROVE  QueueMoves(L0)
<1>1. Queue!List = L0 /\ ListsOk(L0, L1, L2)
  BY QueueIs DEF QueueOk
<1>2. PICK i \in DOMAIN L0 : \E e \in Queue!Unused :
        /\ Queue!NewEntry(e, d, [next EXCEPT ![e] = next[L0[i]], ![L0[i]] = e])
        /\ tail' = IF next[L0[i]] = Queue!Null THEN e ELSE tail
  BY <1>1 DEF Queue!PushAfter
<1>3. PICK e \in Queue!Unused :
        /\ Queue!NewEntry(e, d, [next EXCEPT ![e] = next[L0[i]], ![L0[i]] = e])
        /\ tail' = IF next[L0[i]] = Queue!Null THEN e ELSE tail
  BY <1>2
<1> DEFINE n == Len(L0)
<1>4. /\ n \in Nat /\ i \in 1 .. n
      /\ L0[i] \in Queue!Entry /\ L0[i] \in live
      /\ next[L0[i]] = (IF i < n THEN L0[i + 1] ELSE 0)
      /\ i < n => L0[i + 1] # 0
      /\ next \in [Queue!Entry -> Queue!Entry \cup {0}] /\ live \subseteq Queue!Entry
  <2>1. n \in Nat /\ i \in 1 .. n
    BY <1>1, ListsFacts
  <2>2. i < n => i + 1 \in 1 .. n
    BY <2>1
  <2> QED BY <1>1, <2>1, <2>2, ListsFacts
<1>5. e \in Queue!Entry /\ e \notin live
  BY DEF Queue!Unused
<1> HIDE DEF n
<1>6. /\ next' \in [Queue!Entry -> Queue!Entry \cup {0}]
      /\ next'[e] = next[L0[i]] /\ next'[L0[i]] = e
      /\ \A x \in Queue!Entry : x # e /\ x # L0[i] => next'[x] = next[x]
  <2>1. next' = [next EXCEPT ![e] = next[L0[i]], ![L0[i]] = e]
    BY <1>3, <1>4, <1>5 DEF Queue!NewEntry
  <2>2. e # L0[i] /\ next[L0[i]] \in Queue!Entry \cup {0}
    BY <1>4, <1>5
  <2> QED BY <1>4, <1>5, <2>1, <2>2
<1>7. /\ i + 1 \in 1 .. n + 1 /\ (i + 1 <= n <=> i < n) /\ i + 1 > 1 /\ i + 1 # 1
      /\ i + 1 - 1 = i /\ (i + 1 = n + 1 <=> ~(i < n))
  BY <1>4
<1>8. Inserts(next, next', L0, i + 1, e)
  BY <1>4, <1>6, <1>7 DEF Inserts, n
<1>9. head' = (IF i + 1 = 1 THEN e ELSE head) /\ tail' = IF i + 1 = n + 1 THEN e ELSE tail
  <2>1. head' = head
    BY DEF Queue!PushAfter
  <2>2. next[L0[i]] = 0 <=> i + 1 = n + 1
    BY <1>4, <1>7
  <2> QED BY <1>3, <1>7, <2>1, <2>2, QueueNames
<1>10. /\ live' = live \cup {e} /\ data' = [data EXCEPT ![e] = d] /\ entries' = entries + 1
       /\ ref_count' = ref_count /\ loops' = loops /\ Queue!MayAdd
  BY <1>3 DEF Queue!NewEntry, Queue!PushAfter
<1>11. /\ QueueOk(InsertAt(L0, i + 1, e), L1, L2)'
       /\ Moves(QData(L0, data), QData(InsertAt(L0, i + 1, e), data'))
  BY <1>7, <1>8, <1>9, <1>10, QueueInsert DEF n
<1> QED BY <1>11 DEF QueueMoves

LEMMA FirstMatch ==
  ASSUME NEW L0, NEW L1, NEW L2, QueueOk(L0, L1, L2), NEW match, Queue!FirstOf(match) # 0
  PROVE  Queue!FirstOf(match) \in 1 .. Len(L0)
<1>1. Queue!List = L0 /\ DOMAIN L0 = 1 .. Len(L0) /\ Len(L0) \in Nat
  BY QueueIs, ListsFacts DEF QueueOk
<1> DEFINE hits == {i \in DOMAIN L0 : data[L0[i]] \in match}
<1>2. Queue!FirstOf(match) = IF hits = {} THEN 0 ELSE CHOOSE i \in hits : \A j \in hits : i <= j
  BY <1>1 DEF Queue!FirstOf
<1>3. hits # {} /\ hits \subseteq Nat
  BY <1>1, <1>2
<1> HIDE DEF hits
<1>4. \E i \in hits : \A j \in hits : i <= j
  BY <1>3, NatMin
<1>5. (CHOOSE i \in hits : \A j \in hits : i <= j) \in hits
  BY <1>4
<1> QED BY <1>1, <1>2, <1>3, <1>5 DEF hits

LEMMA UnlinkIs ==
  ASSUME NEW L0, NEW L1, NEW L2, QueueOk(L0, L1, L2), NEW k \in 1 .. Len(L0), Queue!Unlink(k)
  PROVE  ListsOk(RemoveAt(L0, k), L1, L2)' /\ Moves(QData(L0, data), QData(RemoveAt(L0, k), data'))
         /\ head' = IF k = 1 THEN next[L0[k]] ELSE head
<1>1. Queue!List = L0 /\ ListsOk(L0, L1, L2)
  BY QueueIs DEF QueueOk
<1> DEFINE n == Len(L0)
<1>2. /\ n \in Nat /\ k \in Nat
      /\ \A i \in 1 .. n : L0[i] \in Queue!Entry /\ next[L0[i]] \in Queue!Entry \cup {0}
      /\ next \in [Queue!Entry -> Queue!Entry \cup {0}]
  BY <1>1, ListsFacts
<1>3. k > 1 => k - 1 \in 1 .. n /\ L0[k - 1] # L0[k]
  <2>1. SUFFICES ASSUME k > 1 PROVE k - 1 \in 1 .. n /\ L0[k - 1] # L0[k]
    OBVIOUS
  <2>2. k - 1 \in 1 .. n /\ k \in 1 .. n /\ k - 1 # k
    BY <1>2, <2>1
  <2>3. Linked(next, L0) /\ DOMAIN L0 = 1 .. n
    BY <1>1, ListsFacts DEF ListsOk, Heap
  <2> QED BY <2>2, <2>3, LinkedInjective
<1>4. next' = IF k = 1 THEN [next EXCEPT ![L0[k]] = 0]
              ELSE [next EXCEPT ![L0[k]] = 0, ![L0[k - 1]] = next[L0[k]]]
  BY <1>1, QueueNames DEF Queue!Unlink
<1> HIDE DEF n
<1>5. Removes(next, next', L0, k)
  <2>1. CASE k = 1
    <3>1. next' \in [Queue!Entry -> Queue!Entry \cup {0}] /\ next'[L0[k]] = 0
          /\ \A x \in Queue!Entry : x # L0[k] => next'[x] = next[x]
      BY <1>2, <1>4, <2>1 DEF n
    <3> QED BY <2>1, <3>1 DEF Removes
  <2>2. CASE k > 1
    <3>1. L0[k] \in Queue!Entry /\ L0[k - 1] \in Queue!Entry /\ next[L0[k]] \in Queue!Entry \cup {0}
      BY <1>2, <1>3, <2>2 DEF n
    <3>2. next' = [next EXCEPT ![L0[k]] = 0, ![L0[k - 1]] = next[L0[k]]]
      BY <1>4, <2>2
    <3>3. /\ next' \in [Queue!Entry -> Queue!Entry \cup {0}] /\ next'[L0[k]] = 0
          /\ next'[L0[k - 1]] = next[L0[k]]
          /\ \A x \in Queue!Entry : x # L0[k] /\ x # L0[k - 1] => next'[x] = next[x]
      BY <1>2, <1>3, <2>2, <3>1, <3>2
    <3> QED BY <2>2, <3>3 DEF Removes
  <2> QED BY <1>2, <2>1, <2>2 DEF n
<1>6. /\ Queue!Freed({L0[k]}) /\ entries' = entries - 1
      /\ head' = (IF k = 1 THEN next[L0[k]] ELSE head)
      /\ tail' = IF next[L0[k]] # 0 THEN tail ELSE IF k = 1 THEN 0 ELSE L0[k - 1]
  BY <1>1, QueueNames DEF Queue!Unlink, Queue!TailWithout
<1> QED BY <1>1, <1>5, <1>6, QueueRemove

LEMMA PopHeadMoves ==
  ASSUME NEW L0, NEW L1, NEW L2, QueueOk(L0, L1, L2), Queue!PopHead
  PROVE  QueueMoves(L0)
<1>1. ListsOk(L0, L1, L2) /\ LoopsOk(loops, head, ref_count, L0)
      /\ Root(loops, 1) = Start(L1) /\ Root(loops, 2) = Start(L2)
  BY DEF QueueOk
<1>2. head # 0 /\ Queue!MayCall /\ Queue!Careful({head}) /\ ref_count' = ref_count /\ loops' = loops
      /\ next' = [next EXCEPT ![head] = 0] /\ Queue!Freed({head}) /\ entries' = entries - 1
  BY QueueNames DEF Queue!PopHead, Queue!MayRemove
<1>3. /\ 1 \in 1 .. Len(L0) /\ head = L0[1] /\ L0[1] \in Queue!Entry
      /\ next \in [Queue!Entry -> Queue!Entry \cup {0}]
  <2>1. Len(L0) # 0 /\ Len(L0) \in Nat /\ head = L0[1]
        /\ next \in [Queue!Entry -> Queue!Entry \cup {0}]
    BY <1>1, <1>2, ListsFacts
  <2>2. 1 \in 1 .. Len(L0)
    BY <2>1
  <2> QED BY <1>1, <2>1, <2>2, ListsFacts
<1>4. Removes(next, next', L0, 1)
  <2>1. next' \in [Queue!Entry -> Queue!Entry \cup {0}] /\ next'[L0[1]] = 0
        /\ \A x \in Queue!Entry : x # L0[1] => next'[x] = next[x]
    BY <1>2, <1>3
  <2> QED BY <2>1 DEF Removes
<1>5. /\ head' = (IF 1 = 1 THEN next[L0[1]] ELSE head)
      /\ tail' = IF next[L0[1]] # 0 THEN tail ELSE IF 1 = 1 THEN 0 ELSE L0[1 - 1]
  <2>1. head' = next[head] /\ tail' = IF next[head] # 0 THEN tail ELSE 0
    BY QueueNames DEF Queue!PopHead
  <2> QED BY <1>3, <2>1
<1>6. ListsOk(RemoveAt(L0, 1), L1, L2)' /\ Moves(QData(L0, data), QData(RemoveAt(L0, 1), data'))
  BY <1>1, <1>2, <1>3, <1>4, <1>5, QueueRemove
<1>7. LoopsOk(loops, head', ref_count, RemoveAt(L0, 1))
  <2>1. ref_count = Walked(loops) + 1
    BY <1>1, <1>2, CallersRef
  <2>2. LoopsOk(loops, IF 1 = 1 THEN next[L0[1]] ELSE head, ref_count, RemoveAt(L0, 1))
    BY <1>2, <1>3, <2>1, LoopsRemove
  <2> QED BY <1>5, <2>2
<1>8. QueueOk(RemoveAt(L0, 1), L1, L2)'
  BY <1>1, <1>2, <1>6, <1>7 DEF QueueOk
<1> QED BY <1>6, <1>8 DEF QueueMoves

LEMMA RemoveIfMoves ==
  ASSUME NEW L0, NEW L1, NEW L2, QueueOk(L0, L1, L2), NEW match, Queue!RemoveIf(match)
  PROVE  QueueMoves(L0)
<1>0. PICK k : k = Queue!FirstOf(match)
  OBVIOUS
<1>1. /\ k # 0 /\ Queue!MayCall /\ Queue!Careful({Queue!List[k]}) /\ Queue!Unlink(k)
      /\ ref_count' = ref_count /\ loops' = loops
  BY <1>0 DEF Queue!RemoveIf, Queue!MayRemove
<1>2. k \in 1 .. Len(L0)
  BY <1>0, <1>1, FirstMatch
<1>3. Queue!List = L0 /\ LoopsOk(loops, head, ref_count, L0)
      /\ Root(loops, 1) = Start(L1) /\ Root(loops, 2) = Start(L2)
  BY QueueIs DEF QueueOk
<1>4. ListsOk(RemoveAt(L0, k), L1, L2)' /\ Moves(QData(L0, data), QData(RemoveAt(L0, k), data'))
      /\ head' = IF k = 1 THEN next[L0[k]] ELSE head
  BY <1>1, <1>2, UnlinkIs
<1>5. LoopsOk(loops, head', ref_count, RemoveAt(L0, k))
  <2>1. ref_count = Walked(loops) + 1
    BY <1>1, <1>3, CallersRef
  <2>2. LoopsOk(loops, IF k = 1 THEN next[L0[k]] ELSE head, ref_count, RemoveAt(L0, k))
    BY <1>1, <1>2, <1>3, <2>1, LoopsRemove
  <2> QED BY <1>4, <2>2
<1>6. QueueOk(RemoveAt(L0, k), L1, L2)'
  BY <1>1, <1>3, <1>4, <1>5 DEF QueueOk
<1> QED BY <1>4, <1>6 DEF QueueMoves

LEMMA StartsNowhere ==
  ASSUME NEW l \in Seq(Queue!Entry), Start(l) = 0
  PROVE  l = <<>>
<1>1. SUFFICES ASSUME l # <<>> PROVE FALSE
  OBVIOUS
<1>2. 1 \in 1 .. Len(l)
  BY <1>1, EmptySeq
<1>3. l[1] \in Queue!Entry /\ l[1] = 0
  BY <1>1, <1>2, ElementOfSeq DEF Start
<1> QED BY <1>3, QueueNames

\* The loop that runs.
LEMMA LoopIs ==
  ASSUME NEW hd, NEW refs, NEW l, LoopsOk(loops, hd, refs, l), loops # <<>>
  PROVE  /\ 1 \in DOMAIN loops /\ Queue!Loop = loops[1] /\ loops[1] \in LoopRec
         /\ loops[1].at \in Queue!Entry \cup {0}
         /\ loops[1].of \in {"foreach", "remove_if", "remove_all", "destroy"}
<1>1. loops \in Seq(LoopRec)
  BY DEF LoopsOk
<1>2. 1 \in 1 .. Len(loops) /\ DOMAIN loops = 1 .. Len(loops)
  BY <1>1, EmptySeq
<1>3. loops[1] \in LoopRec
  BY <1>1, <1>2, ElementOfSeq
<1> QED BY <1>2, <1>3 DEF Queue!Loop, LoopRec

\* A loop over the queue begins, and takes its entries away or leaves them.
LEMMA RemoveAllIfMoves ==
  ASSUME NEW L0, NEW L1, NEW L2, QueueOk(L0, L1, L2), NEW match \in SUBSET Data,
         Queue!RemoveAllIf(match)
  PROVE  QueueMoves(L0)
<1> DEFINE new == [of |-> "remove_if", match |-> match, at |-> 0, out |-> FALSE]
<1>1. /\ Queue!MayCall /\ Len(loops) < 2 /\ loops' = <<new>> \o loops
      /\ head' = head /\ tail' = tail /\ entries' = entries /\ ref_count' = ref_count
      /\ next' = next /\ data' = data /\ live' = live
  BY QueueNames DEF Queue!RemoveAllIf, Queue!Begins
<1>2. /\ ListsOk(L0, L1, L2) /\ LoopsOk(loops, head, ref_count, L0)
      /\ Root(loops, 1) = Start(L1) /\ Root(loops, 2) = Start(L2)
  BY DEF QueueOk
<1>3. new \in LoopRec /\ new.of # "foreach" /\ new.of \notin {"remove_all", "destroy"}
  BY DEF LoopRec
<1>4. ref_count = Walked(loops) + 1
  BY <1>1, <1>2, CallersRef
<1> HIDE DEF new
<1>5. /\ LoopsOk(<<new>> \o loops, head, ref_count, L0)
      /\ Root(<<new>> \o loops, 1) = 0
      /\ Root(<<new>> \o loops, 2) = Root(loops, 1)
      /\ Root(loops, 2) = 0
  BY <1>1, <1>2, <1>3, <1>4, LoopsBegin
<1>6. L2 = <<>>
  <2>1. L2 \in Seq(Queue!Entry)
    BY <1>2, HeapSets DEF ListsOk
  <2> QED BY <1>2, <1>5, <2>1, StartsNowhere
<1>7. ListsOk(L0, <<>>, L1)
  BY <1>2, <1>6, HeapSwaps DEF ListsOk
<1>8. ListsOk(L0, <<>>, L1)'
  BY <1>1, <1>7 DEF ListsOk
<1>9. QueueOk(L0, <<>>, L1)'
  BY <1>1, <1>2, <1>5, <1>8, EmptyLinked DEF QueueOk
<1>10. Moves(QData(L0, data), QData(L0, data'))
  BY <1>1 DEF Moves
<1> QED BY <1>9, <1>10 DEF QueueMoves

LEMMA RemoveAllMoves ==
  ASSUME NEW L0, NEW L1, NEW L2, QueueOk(L0, L1, L2), NEW destroys \in BOOLEAN,
         Queue!RemoveAll(destroys)
  PROVE  QueueMoves(L0)
<1>0. PICK new : new = [of |-> IF destroys THEN "destroy" ELSE "remove_all", match |-> {},
                        at |-> head, out |-> FALSE]
  OBVIOUS
<1>1. /\ Queue!MayCall /\ Len(loops) < 2 /\ loops' = <<new>> \o loops
      /\ destroys => DOMAIN loops = Queue!Walks
      /\ head' = 0 /\ tail' = 0 /\ entries' = 0 /\ ref_count' = ref_count
      /\ next' = next /\ data' = data /\ live' = live
  BY <1>0, QueueNames DEF Queue!RemoveAll, Queue!Begins
<1>2. /\ ListsOk(L0, L1, L2) /\ LoopsOk(loops, head, ref_count, L0)
      /\ Root(loops, 1) = Start(L1) /\ Root(loops, 2) = Start(L2) /\ head = Start(L0)
      /\ Heap(next, live, L0, L1, L2)
  BY DEF QueueOk, ListsOk
<1>3. head \in Queue!Entry \cup {0}
  <2>1. Len(L0) = 0 \/ 1 \in 1 .. Len(L0)
    BY <1>2, ListsFacts
  <2> QED BY <1>2, <2>1, ListsFacts
<1>4. /\ new \in LoopRec /\ new.of # "foreach" /\ new.of \in {"remove_all", "destroy"}
      /\ new.at = head /\ (new.of = "destroy" => destroys)
  BY <1>0, <1>3 DEF LoopRec
<1>5. new.of = "destroy" => \A i \in DOMAIN loops : loops[i].of = "foreach"
  BY <1>1, <1>4 DEF Queue!Walks
<1>6. ref_count = Walked(loops) + 1
  BY <1>1, <1>2, CallersRef
<1>7. LoopsOk(<<new>> \o loops, 0, ref_count, <<>>)
  BY <1>1, <1>2, <1>4, <1>5, <1>6, LoopsBegin
<1>8. /\ Root(<<new>> \o loops, 1) = head
      /\ Root(<<new>> \o loops, 2) = Root(loops, 1)
      /\ Root(loops, 2) = 0
  <2>1. /\ Root(<<new>> \o loops, 1) = IF new.of \in {"remove_all", "destroy"} THEN new.at ELSE 0
        /\ Root(<<new>> \o loops, 2) = Root(loops, 1)
        /\ Root(loops, 2) = 0
    BY <1>1, <1>2, <1>4, <1>5, <1>6, LoopsBegin
  <2> QED BY <1>4, <2>1
<1>9. L2 = <<>>
  <2>1. L2 \in Seq(Queue!Entry)
    BY <1>2, HeapSets
  <2> QED BY <1>2, <1>8, <2>1, StartsNowhere
<1>10. Heap(next, live, <<>>, L0, L1)
  <2>1. Heap(next, live, L0, <<>>, L1)
    BY <1>2, <1>9, HeapSwaps
  <2> QED BY <2>1, HeapSwaps
<1>11. ListsOk(<<>>, L0, L1)'
  <2>1. head' = Start(<<>>) /\ tail' = LastOf(<<>>) /\ entries' = Len(<<>>)
    BY <1>1 DEF Start, LastOf
  <2>2. data' \in [Queue!Entry -> Data \cup {None}] /\ \A e \in live' : data'[e] \in Data
    BY <1>1, <1>2 DEF ListsOk
  <2> QED BY <1>1, <1>10, <2>1, <2>2 DEF ListsOk
<1>12. QueueOk(<<>>, L0, L1)'
  BY <1>1, <1>2, <1>7, <1>8, <1>11 DEF QueueOk
<1>13. Moves(QData(L0, data), QData(<<>>, data'))
  <2>1. QData(<<>>, data') = <<>>
    BY DEF QData
  <2> QED BY <2>1 DEF Moves
<1> QED BY <1>12, <1>13 DEF QueueMoves

\* It goes on by an entry, or returns.
LEMMA RemoveNextMoves ==
  ASSUME NEW L0, NEW L1, NEW L2, QueueOk(L0, L1, L2), Queue!RemoveNext
  PROVE  QueueMoves(L0)
<1>1. /\ ListsOk(L0, L1, L2) /\ LoopsOk(loops, head, ref_count, L0)
      /\ Root(loops, 1) = Start(L1) /\ Root(loops, 2) = Start(L2)
      /\ Heap(next, live, L0, L1, L2)
  BY DEF QueueOk, ListsOk
<1>2. /\ loops # <<>> /\ Queue!Loop.of = "remove_if" /\ ref_count' = ref_count
  BY DEF Queue!RemoveNext, Queue!Calling
<1>3. /\ 1 \in DOMAIN loops /\ Queue!Loop = loops[1] /\ loops[1] \in LoopRec
      /\ loops[1].of = "remove_if"
  BY <1>1, <1>2, LoopIs
<1>4. Root(loops, 1) = 0
  BY <1>3 DEF Root
<1>5. ref_count = Walked(loops) + 1
  BY <1>1, <1>3 DEF LoopsOk
<1>6. PICK k : k = Queue!FirstOf(Queue!Loop.match)
  OBVIOUS
<1>7. CASE k # 0
  <2>1. /\ Queue!Careful({Queue!List[k]}) /\ Queue!Unlink(k)
        /\ loops' = [loops EXCEPT ![1].out = TRUE]
    BY <1>6, <1>7 DEF Queue!RemoveNext
  <2>2. k \in 1 .. Len(L0) /\ Queue!List = L0
    BY <1>6, <1>7, FirstMatch, QueueIs
  <2>3. ListsOk(RemoveAt(L0, k), L1, L2)' /\ Moves(QData(L0, data), QData(RemoveAt(L0, k), data'))
        /\ head' = IF k = 1 THEN next[L0[k]] ELSE head
    BY <2>1, <2>2, UnlinkIs
  <2>4. LoopsOk(loops, head', ref_count, RemoveAt(L0, k))
    <3>1. LoopsOk(loops, IF k = 1 THEN next[L0[k]] ELSE head, ref_count, RemoveAt(L0, k))
      BY <1>5, <2>1, <2>2, LoopsRemove
    <3> QED BY <2>3, <3>1
  <2>5. PICK r : r = [loops[1] EXCEPT !.out = TRUE]
    OBVIOUS
  <2>6. loops' = [loops EXCEPT ![1] = r] /\ r \in LoopRec /\ r.of = "remove_if"
    BY <1>3, <2>1, <2>5 DEF LoopRec
  <2>7. /\ LoopsOk([loops EXCEPT ![1] = r], head', ref_count, RemoveAt(L0, k))
        /\ Root([loops EXCEPT ![1] = r], 1) = 0
        /\ Root([loops EXCEPT ![1] = r], 2) = Root(loops, 2)
    BY <1>2, <1>3, <2>4, <2>6, LoopsGoOn
  <2>8. /\ LoopsOk(loops', head', ref_count', RemoveAt(L0, k))
        /\ Root(loops', 1) = Start(L1) /\ Root(loops', 2) = Start(L2)
    BY <1>1, <1>2, <1>4, <2>6, <2>7
  <2>9. QueueOk(RemoveAt(L0, k), L1, L2)'
    BY <2>3, <2>8 DEF QueueOk
  <2> QED BY <2>3, <2>9 DEF QueueMoves
<1>8. CASE k = 0
  <2>1. /\ loops' = Tail(loops) /\ head' = head /\ tail' = tail /\ entries' = entries
        /\ next' = next /\ data' = data /\ live' = live
    BY <1>6, <1>8 DEF Queue!RemoveNext, Queue!Returns
  <2>2. /\ LoopsOk(Tail(loops), head, ref_count, L0)
        /\ Root(Tail(loops), 1) = Root(loops, 2) /\ Root(Tail(loops), 2) = 0
    BY <1>1, <1>2, <1>3, LoopsEnd
  <2>3. L1 = <<>>
    <3>1. L1 \in Seq(Queue!Entry)
      BY <1>1, HeapSets
    <3> QED BY <1>1, <1>4, <3>1, StartsNowhere
  <2>4. ListsOk(L0, L2, <<>>)
    BY <1>1, <2>3, HeapSwaps DEF ListsOk
  <2>5. ListsOk(L0, L2, <<>>)'
    BY <2>1, <2>4 DEF ListsOk
  <2>6. QueueOk(L0, L2, <<>>)'
    BY <1>1, <1>2, <2>1, <2>2, <2>5, EmptyLinked DEF QueueOk
  <2>7. Moves(QData(L0, data), QData(L0, data'))
    BY <2>1 DEF Moves
  <2> QED BY <2>6, <2>7 DEF QueueMoves
<1> QED BY <1>7, <1>8

LEMMA FreeNextMoves ==
  ASSUME NEW L0, NEW L1, NEW L2, QueueOk(L0, L1, L2), Queue!FreeNext
  PROVE  QueueMoves(L0)
<1>1. /\ ListsOk(L0, L1, L2) /\ LoopsOk(loops, head, ref_count, L0)
      /\ Root(loops, 1) = Start(L1) /\ Root(loops, 2) = Start(L2)
      /\ Heap(next, live, L0, L1, L2)
  BY DEF QueueOk, ListsOk
<1>2. /\ loops # <<>> /\ Queue!Loop.of \in {"remove_all", "destroy"}
      /\ head' = head /\ tail' = tail /\ entries' = entries
  BY DEF Queue!FreeNext, Queue!Calling
<1>3. /\ 1 \in DOMAIN loops /\ Queue!Loop = loops[1] /\ loops[1] \in LoopRec
      /\ loops[1].of \in {"remove_all", "destroy"} /\ loops[1].of # "foreach"
      /\ loops[1].at \in Queue!Entry \cup {0}
  BY <1>1, <1>2, LoopIs
<1>4. PICK at : at = loops[1].at
  OBVIOUS
<1>5. Root(loops, 1) = at /\ Start(L1) = at
  BY <1>1, <1>3, <1>4 DEF Root
<1>6. L0 \in Seq(Queue!Entry) /\ L1 \in Seq(Queue!Entry) /\ ToSet(L0) \subseteq live
      /\ ToSet(L1) \subseteq live /\ live \subseteq Queue!Entry
  BY <1>1, HeapSets
<1>7. CASE at # 0
  <2>1. /\ loops' = [loops EXCEPT ![1].at = next[@], ![1].out = TRUE]
        /\ Queue!Freed({at}) /\ next' = [next EXCEPT ![at] = 0] /\ ref_count' = ref_count
    BY <1>3, <1>4, <1>7, QueueNames DEF Queue!FreeNext
  <2>2. 1 \in 1 .. Len(L1) /\ at = L1[1] /\ at \in Queue!Entry /\ at \in ToSet(L1)
    <3>1. L1 # <<>>
      BY <1>5, <1>7, EmptyLinked
    <3>2. 1 \in 1 .. Len(L1) /\ at = L1[1] /\ DOMAIN L1 = 1 .. Len(L1)
      BY <1>5, <1>6, <3>1, EmptySeq DEF Start
    <3> QED BY <1>6, <3>2, ElementOfSeq DEF ToSet
  <2>3. /\ next \in [Queue!Entry -> Queue!Entry \cup {0}] /\ Linked(next, L1)
        /\ ToSet(L0) \cap ToSet(L1) = {}
    BY <1>1 DEF Heap
  <2>4. Removes(next, next', L1, 1)
    <3>1. next' \in [Queue!Entry -> Queue!Entry \cup {0}] /\ next'[L1[1]] = 0
          /\ \A x \in Queue!Entry : x # L1[1] => next'[x] = next[x]
      BY <2>1, <2>2, <2>3
    <3> QED BY <3>1 DEF Removes
  <2>5. Heap(next', live', L0, RemoveAt(L1, 1), L2)
    <3>1. Heap(next, live, L1, L0, L2)
      BY <1>1, HeapSwaps
    <3>2. Heap(next', live \ {L1[1]}, RemoveAt(L1, 1), L0, L2)
      BY <2>2, <2>4, <3>1, HeapRemove
    <3>3. live' = live \ {L1[1]}
      BY <2>1, <2>2 DEF Queue!Freed
    <3> QED BY <3>2, <3>3, HeapSwaps
  <2>6. Start(RemoveAt(L1, 1)) = next[at]
    <3>1. PICK m : m = RemoveAt(L1, 1)
      OBVIOUS
    <3>2. Start(m) = IF 1 = 1 THEN next[L1[1]] ELSE Start(L1)
      BY <2>2, <2>3, <3>1, RemovedList
    <3> QED BY <2>2, <3>1, <3>2
  <2>7. /\ data' \in [Queue!Entry -> Data \cup {None}] /\ \A e \in live' : data'[e] \in Data
        /\ \A e \in Queue!Entry : e # at => data'[e] = data[e]
    <3>1. data \in [Queue!Entry -> Data \cup {None}] /\ \A e \in live : data[e] \in Data
      BY <1>1 DEF ListsOk
    <3>2. data' = [e \in Queue!Entry |-> IF e = at THEN None ELSE data[e]] /\ live' = live \ {at}
      BY <2>1 DEF Queue!Freed
    <3> QED BY <1>6, <3>1, <3>2
  <2>8. ListsOk(L0, RemoveAt(L1, 1), L2)'
    BY <1>1, <1>2, <2>5, <2>7 DEF ListsOk
  <2>9. PICK r : r = [loops[1] EXCEPT !.at = next[at], !.out = TRUE]
    OBVIOUS
  <2>10. /\ loops' = [loops EXCEPT ![1] = r] /\ r \in LoopRec /\ r.of = loops[1].of
         /\ r.at = next[at]
    <3>1. next[at] \in Queue!Entry \cup {0}
      BY <2>2, <2>3
    <3>2. r \in LoopRec /\ r.of = loops[1].of /\ r.at = next[at]
      BY <1>3, <2>9, <3>1 DEF LoopRec
    <3>3. loops' = [loops EXCEPT ![1] = r]
      BY <1>3, <1>4, <2>1, <2>9 DEF LoopRec
    <3> QED BY <3>2, <3>3
  <2>11. /\ LoopsOk([loops EXCEPT ![1] = r], head, ref_count, L0)
         /\ Root([loops EXCEPT ![1] = r], 1) = IF r.of \in {"remove_all", "destroy"} THEN r.at ELSE 0
         /\ Root([loops EXCEPT ![1] = r], 2) = Root(loops, 2)
    BY <1>1, <1>2, <1>3, <2>10, LoopsGoOn
  <2>12. /\ LoopsOk(loops', head', ref_count', L0)
         /\ Root(loops', 1) = Start(RemoveAt(L1, 1)) /\ Root(loops', 2) = Start(L2)
    BY <1>1, <1>2, <1>3, <2>1, <2>6, <2>10, <2>11
  <2>13. QueueOk(L0, RemoveAt(L1, 1), L2)'
    BY <2>8, <2>12 DEF QueueOk
  <2>14. QData(L0, data') = QData(L0, data)
    <3>1. at \notin ToSet(L0)
      BY <2>2, <2>3
    <3>2. \A i \in DOMAIN L0 : L0[i] \in ToSet(L0)
      BY DEF ToSet
    <3>3. \A i \in DOMAIN L0 : data'[L0[i]] = data[L0[i]]
      BY <1>6, <2>7, <3>1, <3>2
    <3> QED BY <3>3 DEF QData
  <2> QED BY <2>13, <2>14 DEF QueueMoves, Moves
<1>8. CASE at = 0
  <2>1. /\ loops' = Tail(loops) /\ next' = next /\ data' = data /\ live' = live
        /\ ref_count' = IF loops[1].of = "destroy" THEN ref_count - 1 ELSE ref_count
    BY <1>3, <1>4, <1>8, QueueNames DEF Queue!FreeNext, Queue!Returns
  <2>2. /\ LoopsOk(Tail(loops), head, IF loops[1].of = "destroy" THEN ref_count - 1 ELSE ref_count, L0)
        /\ Root(Tail(loops), 1) = Root(loops, 2) /\ Root(Tail(loops), 2) = 0
    BY <1>1, <1>2, <1>3, LoopsEnd
  <2>3. L1 = <<>>
    BY <1>5, <1>6, <1>8, StartsNowhere
  <2>4. ListsOk(L0, L2, <<>>)
    BY <1>1, <2>3, HeapSwaps DEF ListsOk
  <2>5. ListsOk(L0, L2, <<>>)'
    BY <1>2, <2>1, <2>4 DEF ListsOk
  <2>6. QueueOk(L0, L2, <<>>)'
    BY <1>1, <1>2, <2>1, <2>2, <2>5, EmptyLinked DEF QueueOk
  <2>7. Moves(QData(L0, data), QData(L0, data'))
    BY <2>1 DEF Moves
  <2> QED BY <2>6, <2>7 DEF QueueMoves
<1> QED BY <1>7, <1>8

\* The walk, which is the only one.
LEMMA OneWalk ==
  ASSUME NEW r \in LoopRec, r.of = "foreach", NEW lps, lps = <<r>>
  PROVE  /\ lps \in Seq(LoopRec) /\ Len(lps) = 1 /\ DOMAIN lps = {1} /\ lps[1] = r
         /\ Walked(lps) = 1 /\ Root(lps, 1) = 0 /\ Root(lps, 2) = 0
<1>1. lps \in Seq(LoopRec) /\ Len(lps) = 1 /\ DOMAIN lps = {1} /\ lps[1] = r
  OBVIOUS
<1> QED BY <1>1 DEF Walked, Root

LEMMA NoLoop == Walked(<<>>) = 0 /\ Root(<<>>, 1) = 0 /\ Root(<<>>, 2) = 0
BY DEF Walked, Root

LEMMA ForeachMoves ==
  ASSUME NEW L0, NEW L1, NEW L2, QueueOk(L0, L1, L2), Queue!Foreach
  PROVE  QueueMoves(L0)
<1>1. /\ ListsOk(L0, L1, L2) /\ LoopsOk(loops, head, ref_count, L0)
      /\ Root(loops, 1) = Start(L1) /\ Root(loops, 2) = Start(L2)
  BY DEF QueueOk
<1>2. PICK r : r = [of |-> "foreach", match |-> {}, at |-> head, out |-> FALSE]
  OBVIOUS
<1>3. /\ Queue!MayCall /\ loops = <<>> /\ head # 0 /\ loops' = <<r>> \o loops
      /\ ref_count' = ref_count + 1
      /\ head' = head /\ tail' = tail /\ entries' = entries
      /\ next' = next /\ data' = data /\ live' = live
  BY <1>2, QueueNames DEF Queue!Foreach, Queue!Calling, Queue!Begins
<1>4. head \in Queue!Entry /\ head \in ToSet(L0)
  <2>1. 1 \in 1 .. Len(L0) /\ head = L0[1] /\ DOMAIN L0 = 1 .. Len(L0)
    <3>1. Len(L0) \in Nat /\ Len(L0) # 0 /\ head = L0[1] /\ DOMAIN L0 = 1 .. Len(L0)
      BY <1>1, <1>3, ListsFacts
    <3> QED BY <3>1
  <2>2. L0[1] \in Queue!Entry
    BY <1>1, <2>1, ListsFacts
  <2> QED BY <2>1, <2>2 DEF ToSet
<1>5. r \in LoopRec /\ r.of = "foreach" /\ r.at = head
  BY <1>2, <1>4 DEF LoopRec
<1>6. loops' = <<r>>
  BY <1>3
<1>7. /\ loops' \in Seq(LoopRec) /\ Len(loops') = 1 /\ DOMAIN loops' = {1} /\ loops'[1] = r
      /\ Walked(loops') = 1 /\ Root(loops', 1) = 0 /\ Root(loops', 2) = 0
  BY <1>5, <1>6, OneWalk
<1>8. ref_count' = Walked(loops') + 1 /\ Root(loops, 1) = 0 /\ Root(loops, 2) = 0
  <2>1. ref_count = Walked(loops) + 1
    BY <1>1, <1>3, CallersRef
  <2> QED BY <1>3, <1>7, <2>1, NoLoop
<1>9. LoopsOk(loops', head', ref_count', L0)
  BY <1>3, <1>4, <1>5, <1>7, <1>8 DEF LoopsOk
<1>10. ListsOk(L0, L1, L2)'
  BY <1>1, <1>3 DEF ListsOk
<1>11. QueueOk(L0, L1, L2)'
  BY <1>1, <1>7, <1>8, <1>9, <1>10 DEF QueueOk
<1>12. Moves(QData(L0, data), QData(L0, data'))
  BY <1>3 DEF Moves
<1> QED BY <1>11, <1>12 DEF QueueMoves

LEMMA ForeachNextMoves ==
  ASSUME NEW L0, NEW L1, NEW L2, QueueOk(L0, L1, L2), Queue!ForeachNext
  PROVE  QueueMoves(L0)
<1>1. /\ ListsOk(L0, L1, L2) /\ LoopsOk(loops, head, ref_count, L0)
      /\ Root(loops, 1) = Start(L1) /\ Root(loops, 2) = Start(L2)
  BY DEF QueueOk
<1>2. /\ loops # <<>> /\ Queue!Loop.of = "foreach"
      /\ head' = head /\ tail' = tail /\ entries' = entries
      /\ next' = next /\ data' = data /\ live' = live
  BY DEF Queue!ForeachNext, Queue!Calling
<1>3. /\ 1 \in DOMAIN loops /\ Queue!Loop = loops[1] /\ loops[1] \in LoopRec
      /\ loops[1].of = "foreach"
  BY <1>1, <1>2, LoopIs
<1>4. PICK old : old = loops[1]
  OBVIOUS
<1>5. loops = <<old>> /\ old \in LoopRec /\ old.of = "foreach"
  <2>1. loops \in Seq(LoopRec) /\ Len(loops) = 1
    BY <1>1, <1>3 DEF LoopsOk
  <2> QED BY <1>3, <1>4, <2>1
<1>6. /\ DOMAIN loops = {1} /\ Walked(loops) = 1 /\ Root(loops, 1) = 0 /\ Root(loops, 2) = 0
  BY <1>5, OneWalk
<1>7. ListsOk(L0, L1, L2)'
  BY <1>1, <1>2 DEF ListsOk
<1>8. Moves(QData(L0, data), QData(L0, data'))
  BY <1>2 DEF Moves
<1>9. CASE Queue!Stops
  <2>1. loops' = Tail(loops) /\ ref_count' = ref_count - 1
    BY <1>9 DEF Queue!ForeachNext, Queue!Returns
  <2>2. loops' = <<>>
    BY <1>5, <2>1
  <2>3. Walked(loops') = 0 /\ Root(loops', 1) = 0 /\ Root(loops', 2) = 0
    BY <2>2, NoLoop
  <2>4. loops' \in Seq(LoopRec) /\ Len(loops') = 0 /\ DOMAIN loops' = {}
    BY <2>2
  <2>5. \/ ref_count' = Walked(loops') + 1
        \/ ref_count' = Walked(loops') /\ head = 0
    BY <1>1, <1>6, <2>1, <2>3 DEF LoopsOk
  <2>6. LoopsOk(loops', head', ref_count', L0)
    BY <1>2, <2>4, <2>5 DEF LoopsOk
  <2>7. QueueOk(L0, L1, L2)'
    BY <1>1, <1>6, <1>7, <2>3, <2>6 DEF QueueOk
  <2> QED BY <1>8, <2>7 DEF QueueMoves
<1>10. CASE ~Queue!Stops
  <2>1. /\ loops' = [loops EXCEPT ![1].at = next[@], ![1].out = TRUE] /\ ref_count' = ref_count
        /\ old.at # 0 /\ head # 0
    BY <1>3, <1>4, <1>10, QueueNames DEF Queue!ForeachNext, Queue!Stops
  <2>2. old.at \in ToSet(L0)
    BY <1>1, <1>3, <1>4, <2>1 DEF LoopsOk
  <2>3. next[old.at] \in Queue!Entry \cup {0} /\ (next[old.at] # 0 => next[old.at] \in ToSet(L0))
    <3>1. DOMAIN L0 = 1 .. Len(L0) /\ Len(L0) \in Nat
      BY <1>1, ListsFacts
    <3>2. PICK i \in 1 .. Len(L0) : L0[i] = old.at
      BY <2>2, <3>1 DEF ToSet
    <3>3. next[L0[i]] = IF i < Len(L0) THEN L0[i + 1] ELSE 0
      BY <1>1, ListsFacts
    <3>4. i < Len(L0) => i + 1 \in 1 .. Len(L0) /\ i + 1 \in DOMAIN L0
      BY <3>1
    <3>5. i < Len(L0) => L0[i + 1] \in ToSet(L0) /\ L0[i + 1] \in Queue!Entry
      BY <1>1, <3>4, ListsFacts DEF ToSet
    <3> QED BY <3>2, <3>3, <3>5
  <2>4. PICK r : r = [old EXCEPT !.at = next[old.at], !.out = TRUE]
    OBVIOUS
  <2>5. r \in LoopRec /\ r.of = "foreach" /\ r.at = next[old.at]
    BY <1>5, <2>3, <2>4 DEF LoopRec
  <2>6. loops' = <<r>>
    BY <1>5, <2>1, <2>4 DEF LoopRec
  <2>7. /\ loops' \in Seq(LoopRec) /\ Len(loops') = 1 /\ DOMAIN loops' = {1} /\ loops'[1] = r
        /\ Walked(loops') = 1 /\ Root(loops', 1) = 0 /\ Root(loops', 2) = 0
    BY <2>5, <2>6, OneWalk
  <2>8. ref_count = Walked(loops') + 1
    BY <1>1, <1>6, <2>1, <2>7 DEF LoopsOk
  <2>9. LoopsOk(loops', head', ref_count', L0)
    <3>1. head' = 0 \/ loops'[1].at = 0 \/ loops'[1].at \in ToSet(L0)
      BY <2>3, <2>5, <2>7
    <3>2. \A i \in DOMAIN loops' : i = 1 /\ loops'[i].of = "foreach"
      BY <2>5, <2>7
    <3>3. \A i \in DOMAIN loops' : loops'[i].of = "foreach" =>
            i = Len(loops') /\ (head' = 0 \/ loops'[i].at = 0 \/ loops'[i].at \in ToSet(L0))
      BY <2>7, <3>1, <3>2
    <3>4. ref_count' = Walked(loops') + 1
      BY <2>1, <2>8
    <3> QED BY <2>7, <3>2, <3>3, <3>4 DEF LoopsOk
  <2>10. QueueOk(L0, L1, L2)'
    BY <1>1, <1>6, <1>7, <2>7, <2>9 DEF QueueOk
  <2> QED BY <1>8, <2>10 DEF QueueMoves
<1> QED BY <1>9, <1>10

LEMMA QueueStepMoves ==
  ASSUME NEW L0, NEW L1, NEW L2, QueueOk(L0, L1, L2), [Queue!QueueNext]_queueVars
  PROVE  QueueMoves(L0)
<1>1. CASE UNCHANGED queueVars
  <2>1. QueueOk(L0, L1, L2)'
    BY <1>1 DEF QueueOk, ListsOk, queueVars
  <2>2. Moves(QData(L0, data), QData(L0, data'))
    BY <1>1 DEF Moves, queueVars
  <2> QED BY <2>1, <2>2 DEF QueueMoves
<1>2. ASSUME NEW d \in Data, Queue!PushTail(d) PROVE QueueMoves(L0)
  BY <1>2, PushTailMoves
<1>3. ASSUME NEW d \in Data, Queue!PushHead(d) PROVE QueueMoves(L0)
  BY <1>3, PushHeadMoves
<1>4. ASSUME NEW d \in Data, NEW other \in Data, Queue!PushAfter(d, other) PROVE QueueMoves(L0)
  BY <1>4, PushAfterMoves
<1>5. ASSUME NEW match \in SUBSET Data, Queue!RemoveIf(match) PROVE QueueMoves(L0)
  BY <1>5, RemoveIfMoves
<1>6. ASSUME NEW match \in SUBSET Data, Queue!RemoveAllIf(match) PROVE QueueMoves(L0)
  BY <1>6, RemoveAllIfMoves
<1>7. CASE Queue!PopHead
  BY <1>7, PopHeadMoves
<1>8. CASE Queue!RemoveNext
  BY <1>8, RemoveNextMoves
<1>9. CASE Queue!FreeNext
  BY <1>9, FreeNextMoves
<1>10. CASE Queue!Foreach
  BY <1>10, ForeachMoves
<1>11. CASE Queue!ForeachNext
  BY <1>11, ForeachNextMoves
<1>12. ASSUME NEW destroys \in BOOLEAN, Queue!RemoveAll(destroys) PROVE QueueMoves(L0)
  BY <1>12, RemoveAllMoves
<1> QED BY <1>1, <1>2, <1>3, <1>4, <1>5, <1>6, <1>7, <1>8, <1>9, <1>10, <1>11, <1>12, Zenon
        DEF Queue!QueueNext

LEMMA QueueStepInv == QueueInv /\ [Queue!QueueNext]_queueVars => QueueInv'
<1> SUFFICES ASSUME NEW L0, NEW L1, NEW L2, QueueOk(L0, L1, L2), [Queue!QueueNext]_queueVars
             PROVE  QueueInv'
  BY DEF QueueInv
<1>1. QueueMoves(L0)
  BY QueueStepMoves
<1> QED BY <1>1 DEF QueueMoves, QueueInv

-----------------------------------------------------------------------------
(* What its callers see is a sequence.                                      *)

DataIs == \A L0, L1, L2 : QueueOk(L0, L1, L2) => Queue!DataOf(Queue!List) = QData(L0, data)
LEMMA QueueIsData == DataIs
BY QueueIs DEF DataIs

LEMMA SequenceIs == \A S, k, d : Queue!Sequence!InsertAt(S, k, d) = InsertAt(S, k, d)
                              /\ Queue!Sequence!RemoveAt(S, k) = RemoveAt(S, k)
BY DEF Queue!Sequence!InsertAt, InsertAt, Queue!Sequence!RemoveAt, RemoveAt

LEMMA QueueStepSequence ==
  QueueInv /\ QueueInv' /\ [Queue!QueueNext]_queueVars =>
    [Queue!Sequence!QueueNext /\ Queue!Sequence!Ends']_<<Queue!DataOf(Queue!List),
       IF head = Queue!Null THEN None ELSE data[head],
       IF tail = Queue!Null THEN None ELSE data[tail], entries>>
<1> DEFINE q == Queue!DataOf(Queue!List)
           first == IF head = Queue!Null THEN None ELSE data[head]
           last == IF tail = Queue!Null THEN None ELSE data[tail]
<1> SUFFICES ASSUME QueueInv, QueueInv', [Queue!QueueNext]_queueVars
             PROVE  [Queue!Sequence!QueueNext /\ Queue!Sequence!Ends']_<<q, first, last, entries>>
  OBVIOUS
<1>1. Queue!Sequence!Ends
  BY QueueEnds
<1>2. (QueueInv => Queue!Sequence!Ends)'
  BY QueueEnds, PTL
<1>3. Queue!Sequence!Ends'
  BY <1>2
<1>4. DataIs /\ DataIs'
  BY QueueIsData, PTL
<1>5. PICK L0, L1, L2 : QueueOk(L0, L1, L2)
  BY DEF QueueInv
<1>6. PICK l0, l1, l2 : QueueOk(l0, l1, l2)' /\ Moves(QData(L0, data), QData(l0, data'))
  BY <1>5, QueueStepMoves DEF QueueMoves
<1>7. q = QData(L0, data) /\ q' = QData(l0, data')
  BY <1>5, <1>6, <1>4, Zenon DEF DataIs
<1>8. /\ first = (IF q = <<>> THEN None ELSE q[1]) /\ last = (IF q = <<>> THEN None ELSE q[Len(q)])
      /\ entries = Len(q)
  BY <1>1 DEF Queue!Sequence!Ends
<1>9. /\ first' = (IF q' = <<>> THEN None ELSE q'[1]) /\ last' = (IF q' = <<>> THEN None ELSE q'[Len(q')])
      /\ entries' = Len(q')
  BY <1>3 DEF Queue!Sequence!Ends
<1>10. Moves(q, q')
  BY <1>6, <1>7
<1> HIDE DEF q, first, last
<1>11. CASE q' = q
  BY <1>8, <1>9, <1>11
<1>12. CASE q' = <<>>
  BY <1>3, <1>12 DEF Queue!Sequence!QueueNext, Queue!Sequence!Clear, q
<1>13. ASSUME NEW d \in Data, NEW k \in 1 .. Len(q) + 1, q' = InsertAt(q, k, d)
       PROVE  Queue!Sequence!QueueNext
  <2>1. Queue!Sequence!Add(d)
    BY <1>13, SequenceIs DEF Queue!Sequence!Add, q
  <2> QED BY <2>1 DEF Queue!Sequence!QueueNext
<1>14. ASSUME NEW k \in DOMAIN q, q' = RemoveAt(q, k)
       PROVE  Queue!Sequence!QueueNext
  <2>1. Queue!Sequence!Drop
    BY <1>14, SequenceIs DEF Queue!Sequence!Drop, q
  <2> QED BY <2>1 DEF Queue!Sequence!QueueNext
<1> QED BY <1>3, <1>10, <1>11, <1>12, <1>13, <1>14, Zenon DEF Moves

\* queue.c is a sequence to its callers: what the head, the tail and the count
\* of the queue say is so, and each call puts in one entry, takes one out or
\* empties it, whatever the loops that call out let happen in between.
THEOREM QueuePromiseAlways == Queue!QueueSpec => []QueueInv /\ Queue!Sequence!Promise
<1>1. Queue!QueueInit => QueueInv /\ Queue!DataOf(Queue!List) = <<>>
  BY QueueInitInv
<1>2. QueueInv => Queue!Sequence!Ends
  BY QueueEnds
<1>3. QueueInv /\ [Queue!QueueNext]_Queue!queueVars => QueueInv'
  BY QueueStepInv DEF Queue!queueVars, queueVars
<1>4. QueueInv /\ QueueInv' /\ [Queue!QueueNext]_Queue!queueVars =>
        [Queue!Sequence!QueueNext /\ Queue!Sequence!Ends']_<<Queue!DataOf(Queue!List),
           IF head = Queue!Null THEN None ELSE data[head],
           IF tail = Queue!Null THEN None ELSE data[tail], entries>>
  BY QueueStepSequence DEF Queue!queueVars, queueVars
<1> QED BY <1>1, <1>2, <1>3, <1>4, PTL DEF Queue!QueueSpec, Queue!Sequence!Promise, Queue!Null

-----------------------------------------------------------------------------
(* The layers together.                                                     *)

LEMMA LayersSteps ==
  [NotifyStep \/ QueueStep \/ GlibStep]_layerVars =>
    /\ [NotifyNext]_notifyVars /\ [Queue!QueueNext]_Queue!queueVars
    /\ [Glib!GlibNext]_Glib!glibVars
<1> SUFFICES ASSUME [NotifyStep \/ QueueStep \/ GlibStep]_layerVars
             PROVE  /\ [NotifyNext]_notifyVars /\ [Queue!QueueNext]_Queue!queueVars
                    /\ [Glib!GlibNext]_Glib!glibVars
  OBVIOUS
<1>1. Queue!queueVars = queueVars /\ Glib!glibVars = glibVars
      /\ Queue!queueVars' = queueVars' /\ Glib!glibVars' = glibVars'
  BY DEF Queue!queueVars, queueVars, Glib!glibVars, glibVars
<1>2. CASE NotifyStep
  BY <1>1, <1>2, Zenon DEF NotifyStep
<1>3. CASE QueueStep
  BY <1>1, <1>3, Zenon DEF QueueStep
<1>4. CASE GlibStep
  BY <1>1, <1>4, Zenon DEF GlibStep
<1>5. CASE UNCHANGED layerVars
  BY <1>1, <1>5 DEF layerVars
<1> QED BY <1>2, <1>3, <1>4, <1>5

LEMMA LayersParts == LayersSpec => NotifySpec /\ Queue!QueueSpec /\ Glib!GlibSpec
<1>1. LayersInit => NotifyInit /\ Queue!QueueInit /\ Glib!GlibInit
  BY DEF LayersInit
<1> QED BY <1>1, LayersSteps, PTL DEF LayersSpec, NotifySpec, Queue!QueueSpec, Glib!GlibSpec

\* No registration, watch or queued entry is destroyed twice or lost: the
\* three layers that the connections are built from, with any data and sizes.
THEOREM DestroyedOnceAlways == LayersSpec => []DestroyedOnce
<1>1. QueueInv => Queue!QueueKeepsEntries
  BY QueueInvKeeps
<1>2. EndsOnce /\ Glib!WatchesEndOnce /\ Queue!QueueKeepsEntries => DestroyedOnce
  BY DEF DestroyedOnce
<1> QED BY <1>1, <1>2, LayersParts, EndsOnceAlways, WatchesEndOnceAlways, QueuePromiseAlways, PTL

\* Whoever calls queue.c sees a sequence (Sequence!Promise of Queue).
THEOREM QueueIsSequenceAlways == LayersSpec => QueueIsSequence
<1>1. QueueIsSequence <=> Queue!Sequence!Promise
  BY DEF QueueIsSequence, Queue!QueueIsSequence
<1> QED BY <1>1, LayersParts, QueuePromiseAlways, PTL

\* What comes in is told to each registration once, in order (EachHearsOnce of
\* NotifyList), beside the other layers.
THEOREM HearsOnceAlways == LayersSpec => EachHearsOnce
BY LayersParts, EachHearsOnceAlways, PTL
=============================================================================
