------------------------------ MODULE NotifyList ------------------------------
(***************************************************************************)
(* Who is told of what comes in unasked: the notify_list of a management    *)
(* socket (mgmt.c), the notify_list and the disconn_list of an ATT bearer   *)
(* (att.c) and the callbacks that gattrib.c keeps beside the former.  The   *)
(* loop that tells of an event saves the next entry of the list and calls;  *)
(* a callback may register and unregister, and so change the list under the *)
(* loop.  Each of the three lists has its own rule for that: mgmt.c marks   *)
(* entries and removes them after the loop, att.c stops when the list is    *)
(* empty, and so does queue_foreach, which walks the third.                 *)
(*                                                                          *)
(* A saved entry that a callback frees is beyond all three rules: Careful   *)
(* is what the callbacks must keep to.  The "Not Supported" that an         *)
(* ATT request gets when nobody is registered is in AttBearer.              *)
(*                                                                          *)
(* Every list is pushed at its tail alone, and registrations are numbered   *)
(* as they are made: a list is the set of them, in the order of numbers.    *)
(***************************************************************************)
EXTENDS Naturals, Sequences, FiniteSets, SequencesExt

CONSTANTS MaxNote,    \* bound: registrations
          MaxEvent    \* bound: events

ASSUME NotifyAssumption == MaxNote \in Nat /\ MaxEvent \in Nat

Lists == {"mgmt", "att", "disconn"}
Id == 1 .. MaxNote

\* events and controllers of mgmt.c ("none" is MGMT_INDEX_NONE); opcodes of
\* att.c ("reqs" is BT_ATT_ALL_REQUESTS) and handles of gattrib.c ("all" is
\* GATTRIB_ALL_HANDLES)
Topics ==
  [mgmt |-> {<<"found", "hci0">>, <<"found", "none">>},
   att |-> {<<"NOT", "h1">>, <<"reqs", "all">>},
   disconn |-> {<<"hangup", "all">>}]
Events ==
  [mgmt |-> {<<"found", "hci0">>, <<"found", "hci1">>},
   att |-> {<<"NOT", "h1">>, <<"NOT", "h2">>, <<"REQ", "h1">>},
   disconn |-> {<<"hangup", "all">>}]

VARIABLES
  queue,     \* the three lists: the registrations in each
  note,      \* the registrations: in which list, for what, marked `removed`,
             \* and how often they were destroyed
  callbacks, \* attrib->callbacks
  made,      \* registrations made
  linked,    \* att->io is there; "freed" when the attrib is gone
  cleanup,   \* mgmt->need_notify_cleanup
  walk,      \* the loop: over which list, with which event, its entry and the
             \* one it saved, whether a callback runs, who was called
  due,       \* those that were registered for the event and still are
  nevents

notifyVars == <<queue, note, callbacks, made, linked, cleanup, walk, due, nevents>>

NoNote == [of |-> "none", topic |-> <<"none", "none">>, removed |-> FALSE, ended |-> 0]
NoWalk == [of |-> "none", event |-> <<"none", "none">>, at |-> 0, next |-> 0,
           calling |-> FALSE, called |-> <<>>]

NotifyInit ==
  /\ queue = [l \in Lists |-> {}] /\ note = [i \in Id |-> NoNote]
  /\ callbacks = {} /\ made = 0 /\ linked = "open" /\ cleanup = FALSE
  /\ walk = NoWalk /\ due = {} /\ nevents = 0

Walking == walk.of # "none"
\* whoever calls does so from the main loop or from a callback
MayCall == linked # "freed" /\ (Walking => walk.calling)

Listed(l) == queue[l]

-----------------------------------------------------------------------------
(* Registering.                                                             *)

\* What the callbacks must keep to: they do not free the entry the loop has
\* saved, unless they empty the list and leave it empty.
Careful(l, gone) ==
  l = walk.of => walk.next \notin gone \/ Listed(l) \subseteq gone
MayJoin(l) == l = walk.of => queue[l] # {}

Registers(l) == MayCall /\ made < MaxNote /\ MayJoin(l) /\ made' = made + 1

Joins(l, topic) ==
  /\ queue' = [queue EXCEPT ![l] = @ \cup {made'}]
  /\ note' = [note EXCEPT ![made'] = [NoNote EXCEPT !.of = l, !.topic = topic]]

\* a bearer without its socket refuses
JoinsBearer(l, topic) ==
  IF linked = "open" THEN Joins(l, topic) ELSE UNCHANGED <<queue, note>>

MgmtRegister(topic) ==
  /\ Registers("mgmt") /\ Joins("mgmt", topic)
  /\ UNCHANGED <<callbacks, linked, cleanup, walk, due, nevents>>

\* bt_att_register
BtAttRegister(topic) == Registers("att") /\ JoinsBearer("att", topic)

\* the callback of gattrib.c stays behind when the bearer refuses
GAttribRegister(topic) ==
  /\ BtAttRegister(topic)
  /\ callbacks' = callbacks \cup {made'}
  /\ UNCHANGED <<linked, cleanup, walk, due, nevents>>

BtAttRegisterDisconnect(topic) ==
  /\ Registers("disconn") /\ JoinsBearer("disconn", topic)
  /\ UNCHANGED <<callbacks, linked, cleanup, walk, due, nevents>>

\* destroy_notify, destroy_att_notify and attrib_callbacks_remove,
\* destroy_att_disconn
Destroyed(gone) ==
  /\ note' = [i \in Id |->
       IF i \in gone THEN [note[i] EXCEPT !.removed = FALSE, !.ended = @ + 1] ELSE note[i]]
  /\ callbacks' = callbacks \ gone

Unlinked(gone) == queue' = [l \in Lists |-> queue[l] \ gone]

Removed(l, gone) ==
  /\ Careful(l, gone)
  /\ Unlinked(gone) /\ Destroyed(gone)
  /\ due' = due \ gone
  /\ UNCHANGED <<made, linked, walk, nevents>>

Marked(gone) == note' = [i \in Id |-> [note[i] EXCEPT !.removed = @ \/ i \in gone]]

\* mgmt_unregister outside of the loop
MgmtUnregister(i) ==
  /\ MayCall /\ i \in Listed("mgmt") /\ walk.of # "mgmt"
  /\ Removed("mgmt", {i})
  /\ UNCHANGED cleanup

\* bt_att_unregister of g_attrib_unregister
BtAttUnregister(i) ==
  /\ MayCall /\ i \in Listed("att")
  /\ Removed("att", {i})
  /\ UNCHANGED cleanup

BtAttUnregisterDisconnect(i) ==
  /\ MayCall /\ i \in Listed("disconn")
  /\ Removed("disconn", {i})
  /\ UNCHANGED cleanup

\* mgmt_unregister inside the loop: the entry leaves the list at once, the
\* registration is left to a clean-up that will not find it
UnregisterInNotify(i) ==
  /\ MayCall /\ walk.of = "mgmt" /\ i \in Listed("mgmt")
  /\ Careful("mgmt", {i})
  /\ Unlinked({i}) /\ Marked({i}) /\ cleanup' = TRUE
  /\ due' = due \ {i}
  /\ UNCHANGED <<callbacks, made, linked, walk, nevents>>

OfIndex(index) == {i \in Listed("mgmt") : note[i].topic[2] = index}

\* mgmt_unregister_index, and mgmt_unregister_all where index is "every"
\* (inside the loop "none" is every controller)
UnregisterIndex(index) ==
  /\ MayCall
  /\ LET all == index = "every" \/ (walk.of = "mgmt" /\ index = "none")
         gone == IF all THEN Listed("mgmt") ELSE OfIndex(index)
     IN IF walk.of = "mgmt"
        THEN /\ Marked(gone) /\ cleanup' = TRUE /\ due' = due \ gone
             /\ UNCHANGED <<queue, callbacks, made, linked, walk, nevents>>
        ELSE /\ Removed("mgmt", gone)
             /\ UNCHANGED cleanup

\* bt_att_unregister_all, of g_attrib_unregister_all too: both lists
AttEntries == Listed("att") \cup Listed("disconn")
UnregisterAll ==
  /\ MayCall
  /\ Unlinked(AttEntries) /\ Destroyed(AttEntries)
  /\ due' = due \ AttEntries
  /\ UNCHANGED <<made, linked, cleanup, walk, nevents>>

\* the last g_attrib_unref: bt_att_free, then the callbacks that are left
Unref ==
  /\ MayCall /\ ~Walking /\ linked' = "freed"
  /\ Unlinked(AttEntries) /\ Destroyed(AttEntries \cup callbacks)
  /\ UNCHANGED <<made, cleanup, walk, due, nevents>>

-----------------------------------------------------------------------------
(* The loops.                                                               *)

\* opcode_match
OpcodeMatch(asked, opcode) == asked = opcode \/ (asked = "reqs" /\ opcode = "REQ")

\* notify_handler compares the event and the controller,
HearsMgmt(topic, event) == topic[1] = event[1] /\ topic[2] \in {event[2], "none"}
\* attrib_callback_notify the handle,
HearsAtt(topic, event) == OpcodeMatch(topic[1], event[1]) /\ topic[2] \in {event[2], "all"}

\* and disconn_handler nothing
Hears(l, topic, event) ==
  CASE l = "mgmt" -> HearsMgmt(topic, event)
    [] l = "att" -> HearsAtt(topic, event)
    [] l = "disconn" -> TRUE

Wants(i) == ~note[i].removed /\ Hears(walk.of, note[i].topic, walk.event)

\* the first of these registrations, NULL if there are none
FirstOf(these) == IF these = {} THEN 0 ELSE Min(these)
First(l) == FirstOf(queue[l])

\* process_notify, handle_notify, disconnect_cb (which drops att->io first)
Starts(l, event) ==
  /\ ~Walking /\ nevents < MaxEvent
  /\ linked # "freed" /\ (l # "mgmt" => linked = "open")
  /\ nevents' = nevents + 1
  /\ linked' = IF l = "disconn" THEN "gone" ELSE linked
  /\ walk' = [NoWalk EXCEPT !.of = l, !.event = event, !.next = First(l)]
  /\ due' = {i \in Listed(l) : Hears(l, note[i].topic, event)}
  /\ UNCHANGED <<queue, note, callbacks, made, cleanup>>

\* mutant: handle_notify stops when its own entry is gone
StopsMutant == walk.next = 0 \/ walk.at \notin (Listed(walk.of) \cup {0})

\* the end of the list, or an empty one
Stops == walk.next = 0 \/ queue[walk.of] = {}

After(l, i) == FirstOf({j \in queue[l] : j > i})

\* one turn of the loop: entry->next is saved, and the callback is called
Turn ==
  /\ Walking /\ ~walk.calling /\ ~Stops
  /\ walk' = [walk EXCEPT
       !.at = walk.next, !.next = After(walk.of, walk.next),
       !.calling = Wants(walk.next),
       !.called = IF Wants(walk.next) THEN Append(@, walk.next) ELSE @]
  /\ UNCHANGED <<queue, note, callbacks, made, linked, cleanup, due, nevents>>

Returns ==
  /\ walk.calling
  /\ walk' = [walk EXCEPT !.calling = FALSE]
  /\ UNCHANGED <<queue, note, callbacks, made, linked, cleanup, due, nevents>>

\* mutant: what was marked is not cleaned up
SweptMutant == {}

\* the clean-up after process_notify, bt_att_unregister_all after disconnect_cb
Swept ==
  CASE walk.of = "mgmt" /\ cleanup -> {i \in Listed("mgmt") : note[i].removed}
    [] walk.of = "disconn" -> AttEntries
    [] OTHER -> {}

LoopEnds ==
  /\ Walking /\ ~walk.calling /\ Stops
  /\ Unlinked(Swept) /\ Destroyed(Swept)
  /\ cleanup' = (cleanup /\ walk.of # "mgmt")
  /\ walk' = NoWalk /\ due' = {}
  /\ UNCHANGED <<made, linked, nevents>>

Calls ==
  \/ \E topic \in Topics.mgmt : MgmtRegister(topic)
  \/ \E topic \in Topics.att : GAttribRegister(topic)
  \/ \E topic \in Topics.disconn : BtAttRegisterDisconnect(topic)
  \/ \E i \in Id : MgmtUnregister(i) \/ BtAttUnregister(i) \/ BtAttUnregisterDisconnect(i)
  \/ \E i \in Listed("mgmt") : UnregisterInNotify(i)
  \/ \E index \in {"hci0", "none", "every"} : UnregisterIndex(index)
  \/ UnregisterAll \/ Unref

Loop == Turn \/ Returns \/ LoopEnds

NotifyNext ==
  \/ Calls \/ Loop
  \/ \E l \in Lists : \E event \in Events[l] : Starts(l, event)

NotifySpec == NotifyInit /\ [][NotifyNext]_notifyVars

-----------------------------------------------------------------------------
\* Whatever the callbacks register and unregister, a callback is called only
\* while its registration is in the list and not marked (`removed` of mgmt.c
\* and the empty lists of att.c and queue.c are for that), never twice for an
\* event; and when the loop ends everyone was called who was registered for
\* the event when it began and stayed so.
EachHearsOnce ==
  [][/\ Len(walk'.called) > Len(walk.called) =>
          walk'.at \in Listed(walk.of) /\ ~note[walk'.at].removed
     /\ Walking /\ walk' = NoWalk =>
          due \subseteq ToSet(walk.called) /\ IsInjective(walk.called)]_notifyVars

\* What a registration holds is destroyed when it leaves its list, once; only
\* what mgmt_unregister took out of the list inside a loop never is.  Between
\* loops no marked registration is left, and gattrib.c has a callback of each
\* registration on its bearer.
EndsOnce ==
  /\ \A i \in Id : note[i].of # "none" =>
       note[i].ended = IF i \in Listed(note[i].of) \/ note[i].removed THEN 0 ELSE 1
  /\ Listed("att") \subseteq callbacks
  /\ ~Walking => ~cleanup /\ \A i \in Listed("mgmt") : ~note[i].removed
=============================================================================
