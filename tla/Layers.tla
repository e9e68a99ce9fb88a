------------------------------- MODULE Layers -------------------------------
(***************************************************************************)
(* What the connections of the helper are built from, side by side: the      *)
(* lists of who is told what comes in, the linked lists that hold them, and *)
(* the handlers of an io in the main loop.  A behaviour is one of these,    *)
(* and nothing else moves.                                                  *)
(***************************************************************************)
EXTENDS NotifyList

CONSTANTS
  Data, None, MaxEntry, \* of Queue
  MaxSource             \* of Glib

VARIABLES
  layer,
  head, tail, entries, ref_count, next, data, live, loops,
  source, watch, io_ref, owned, running

Queue == INSTANCE Queue
Glib == INSTANCE Glib

queueVars == <<head, tail, entries, ref_count, next, data, live, loops>>
glibVars == <<source, watch, io_ref, owned, running>>
layerVars == <<layer, notifyVars, queueVars, glibVars>>

\* a layer that is not looked at begins in one state
LayersInit ==
  /\ layer \in {"notify", "queue", "glib"}
  /\ NotifyInit /\ Queue!QueueInit /\ Glib!GlibInit

NotifyStep == layer = "notify" /\ NotifyNext /\ UNCHANGED <<layer, queueVars, glibVars>>
QueueStep == layer = "queue" /\ Queue!QueueNext /\ UNCHANGED <<layer, notifyVars, glibVars>>
GlibStep == layer = "glib" /\ Glib!GlibNext /\ UNCHANGED <<layer, notifyVars, queueVars>>

LayersSpec == LayersInit /\ [][NotifyStep \/ QueueStep \/ GlibStep]_layerVars

-----------------------------------------------------------------------------
ASSUME LayersAssumption == Queue!QueueAssumption /\ Glib!GlibAssumption

\* A registration is destroyed once, when it leaves its list (EndsOnce of
\* NotifyList), so is a handler or timer of the main loop, and queue.c frees
\* what it allocated when no loop holds it any more.
DestroyedOnce == EndsOnce /\ Glib!WatchesEndOnce /\ Queue!QueueKeepsEntries

\* queue.c is a sequence to its callers (DataQueue).
QueueIsSequence == Queue!QueueIsSequence
=============================================================================
