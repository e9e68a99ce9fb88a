------------------------------- MODULE Glib --------------------------------
(***************************************************************************)
(* io-glib.c and timeout-glib.c over the main loop of GLib: the handlers of *)
(* an io and the timers are sources of the loop.  A handler may be replaced *)
(* and the io destroyed while a callback runs; GLib then keeps what a       *)
(* source holds until its callback has returned, so that watch_destroy may  *)
(* come after the next handler is set.                                      *)
(***************************************************************************)
EXTENDS Naturals, FiniteSets

CONSTANT MaxSource \* bound: sources

GlibAssumption == MaxSource \in Nat

Watches == {"read", "write", "disconnect"}
Source == 1 .. MaxSource

VARIABLES
  source,   \* the sources of the loop: what for, attached, and how often what
            \* they hold was destroyed
  watch,    \* io->read_watch, write_watch and disconnect_watch, 0 for none
  io_ref,   \* io->ref_count
  owned,    \* io_destroy was not called
  running   \* the source whose callback runs, 0 for none

glibVars == <<source, watch, io_ref, owned, running>>

NoSource == [of |-> "none", attached |-> FALSE, ended |-> 0]

\* io_new
GlibInit ==
  /\ source = [i \in Source |-> NoSource] /\ watch = [w \in Watches |-> 0]
  /\ io_ref = 1 /\ owned = TRUE /\ running = 0

Made == {i \in Source : source[i].of # "none"}
Held(i) == source[i].of \in Watches /\ source[i].ended = 0

\* watch_destroy: the slot of the io is cleared if the watch is still in it
Cleared(i, slots) == [w \in Watches |-> IF slots[w] = i THEN 0 ELSE slots[w]]

\* g_source_remove of these: what they hold goes at once, but not what the
\* running one holds
Destroys(gone) == {i \in gone \ {running} : i # 0}
Detached(gone) ==
  [i \in Source |-> [source[i] EXCEPT
     !.attached = @ /\ i \notin gone, !.ended = @ + (IF i \in Destroys(gone) THEN 1 ELSE 0)]]

-----------------------------------------------------------------------------
\* watch_new of io_set_handler, with the reference to the io that a watch holds
SetHandler(w, callback) ==
  /\ owned /\ (callback => Made # Source)
  /\ LET old == Destroys({watch[w]})
         i == Cardinality(Made) + 1
         now == Detached({watch[w]})
     IN  IF callback
         THEN /\ source' = [now EXCEPT ![i] = [of |-> w, attached |-> TRUE, ended |-> 0]]
              /\ watch' = [watch EXCEPT ![w] = i]
              /\ io_ref' = io_ref + 1 - Cardinality(old)
         ELSE /\ source' = now
              /\ watch' = [watch EXCEPT ![w] = 0]
              /\ io_ref' = io_ref - Cardinality(old)
  /\ UNCHANGED <<owned, running>>

\* io_destroy
Destroy ==
  /\ owned /\ owned' = FALSE
  /\ LET gone == {watch[w] : w \in Watches} IN
       /\ source' = Detached(gone)
       /\ io_ref' = io_ref - Cardinality(Destroys(gone)) - 1
  /\ watch' = [w \in Watches |-> 0]
  /\ UNCHANGED running

\* timeout_add
TimeoutAdd ==
  /\ Made # Source
  /\ source' = [source EXCEPT ![Cardinality(Made) + 1] = [of |-> "timeout", attached |-> TRUE, ended |-> 0]]
  /\ UNCHANGED <<watch, io_ref, owned, running>>

\* timeout_remove: a number that is no longer attached is not found
TimeoutRemove(i) ==
  /\ source[i].of = "timeout" /\ source[i].attached
  /\ source' = Detached({i})
  /\ UNCHANGED <<watch, io_ref, owned, running>>

-----------------------------------------------------------------------------
\* watch_callback and timeout_callback
Dispatch(i) ==
  /\ running = 0 /\ source[i].attached
  /\ running' = i
  /\ UNCHANGED <<source, watch, io_ref, owned>>

\* what a source holds goes: watch_destroy, timeout_destroy
Ends(i) ==
  /\ source' = [source EXCEPT ![i].attached = FALSE, ![i].ended = @ + 1]
  /\ watch' = Cleared(i, watch)
  /\ io_ref' = IF source[i].of \in Watches THEN io_ref - 1 ELSE io_ref
  /\ UNCHANGED <<owned>>

\* an error ends a read or write watch without its callback
Fails(i) ==
  /\ running = 0 /\ source[i].attached /\ source[i].of \in {"read", "write"}
  /\ Ends(i)
  /\ UNCHANGED running

\* the callback returns; its source stays if it is to and was not removed
Return(again) ==
  /\ running # 0 /\ running' = 0
  /\ IF again /\ source[running].attached
     THEN UNCHANGED <<source, watch, io_ref, owned>>
     ELSE Ends(running)

GlibNext ==
  \/ \E w \in Watches, callback \in BOOLEAN : SetHandler(w, callback)
  \/ Destroy \/ TimeoutAdd
  \/ \E i \in Made : TimeoutRemove(i) \/ Dispatch(i) \/ Fails(i)
  \/ \E again \in BOOLEAN : Return(again)

GlibSpec == GlibInit /\ [][GlibNext]_glibVars

-----------------------------------------------------------------------------
\* Handlers are set, replaced and removed, in callbacks too, and the io is
\* destroyed: each watch that the loop still serves is the one its io knows
\* (watch_destroy must not take the slot of the watch that replaced it), what
\* a source holds is destroyed once, when its source is gone and its callback
\* does not run, and the io lives as long as a watch refers to it.
WatchesEndOnce ==
  /\ \A i \in Made :
       /\ source[i].of \in Watches => (source[i].attached <=> watch[source[i].of] = i)
       /\ source[i].ended = IF source[i].attached \/ running = i THEN 0 ELSE 1
  /\ io_ref = (IF owned THEN 1 ELSE 0) + Cardinality({i \in Source : Held(i)})
=============================================================================
