------------------------------- MODULE Queue -------------------------------
(***************************************************************************)
(* The linked list of queue.c, entry by entry, which holds the requests and *)
(* the registrations of att.c, mgmt.c and gattrib.c.  queue_foreach and     *)
(* queue_remove_all call out in the middle of the list, and whoever they    *)
(* call may change the queue, or destroy it: a walk holds a reference.      *)
(***************************************************************************)
EXTENDS Naturals, Sequences, FiniteSets, SequencesExt

CONSTANTS Data, None, \* what is put into a queue; NULL
          MaxEntry    \* bound: entries that exist at a time

QueueAssumption == None \notin Data /\ MaxEntry \in Nat

Entry == 1 .. MaxEntry
Null == 0

VARIABLES
  head, tail, entries, ref_count, \* of struct queue
  next, data,                     \* of each struct queue_entry
  live,                           \* the entries that are allocated
  loops                           \* the loops that call out, the innermost first

queueVars == <<head, tail, entries, ref_count, next, data, live, loops>>

\* queue_new
QueueInit ==
  /\ head = Null /\ tail = Null /\ entries = 0 /\ ref_count = 1
  /\ next = [e \in Entry |-> Null] /\ data = [e \in Entry |-> None]
  /\ live = {} /\ loops = <<>>

\* the list from an entry on
From(start) ==
  LET chain[e \in Entry \cup {Null}] == IF e = Null THEN <<>> ELSE <<e>> \o chain[next[e]]
  IN  chain[start]
List == From(head)
DataOf(list) == [i \in DOMAIN list |-> data[list[i]]]

\* where a loop stopped, if one called out
Calling == loops # <<>>
Loop == loops[1]
\* whoever has the queue, and not only a walk: a program, or what a loop calls
Walks == {i \in DOMAIN loops : loops[i].of = "foreach"}
MayCall == ref_count > Cardinality(Walks) /\ (Calling => Loop.out)

-----------------------------------------------------------------------------
(* Adding.                                                                  *)

Unused == Entry \ live
\* What callers must keep to when they add: not to a queue that is being
\* destroyed, and not to one whose walk was left at an entry that is freed.
MayAdd == MayCall /\ \A i \in DOMAIN loops :
  loops[i].of # "destroy" /\ (loops[i].of = "foreach" => loops[i].at \in ToSet(List) \cup {Null})

\* queue_entry_new
NewEntry(e, d, after) ==
  /\ live' = live \cup {e}
  /\ data' = [data EXCEPT ![e] = d]
  /\ next' = [after EXCEPT ![e] = @]
  /\ entries' = entries + 1
  /\ UNCHANGED <<ref_count, loops>>

PushTail(d) ==
  /\ MayAdd
  /\ \E e \in Unused :
       /\ NewEntry(e, d, [x \in Entry |-> IF x = e THEN Null ELSE IF x = tail THEN e ELSE next[x]])
       /\ tail' = e
       /\ head' = IF head = Null THEN e ELSE head

PushHead(d) ==
  /\ MayAdd
  /\ \E e \in Unused :
       /\ NewEntry(e, d, [next EXCEPT ![e] = head])
       /\ head' = e
       /\ tail' = IF tail = Null THEN e ELSE tail

\* after the first entry with that data; nothing happens without one
PushAfter(d, other) ==
  /\ MayAdd
  /\ \E i \in DOMAIN List :
       /\ data[List[i]] = other /\ \A j \in 1 .. i - 1 : data[List[j]] # other
       /\ \E e \in Unused :
            /\ NewEntry(e, d, [next EXCEPT ![e] = next[List[i]], ![List[i]] = e])
            /\ tail' = IF next[List[i]] = Null THEN e ELSE tail
  /\ UNCHANGED head

-----------------------------------------------------------------------------
(* Removing.                                                                *)

Freed(gone) ==
  /\ live' = live \ gone
  /\ data' = [e \in Entry |-> IF e \in gone THEN None ELSE data[e]]

\* What a function of queue_foreach must keep to: it frees the entry that the
\* loop has saved only if it leaves the queue empty.
Careful(gone) ==
  \A i \in Walks : loops[i].at \notin gone \/ ToSet(List) \subseteq gone
MayRemove(gone) == MayCall /\ Careful(gone)

PopHead ==
  /\ head # Null /\ MayRemove({head})
  /\ IF next[head] = Null THEN head' = Null /\ tail' = Null
     ELSE head' = next[head] /\ UNCHANGED tail
  /\ Freed({head})
  /\ next' = [next EXCEPT ![head] = Null]
  /\ entries' = entries - 1
  /\ UNCHANGED <<ref_count, loops>>

\* the first of the list with data that match, 0 if there is none
FirstOf(match) ==
  LET list == List
      hits == {i \in DOMAIN list : data[list[i]] \in match}
  IN  IF hits = {} THEN 0 ELSE CHOOSE i \in hits : \A j \in hits : i <= j

\* mutant: the tail stays when the last entry goes
TailWithoutMutant(i) == tail

\* the tail without the i-th entry of the list
TailWithout(i) ==
  IF next[List[i]] # Null THEN tail ELSE IF i = 1 THEN Null ELSE List[i - 1]

\* the turn of queue_remove and queue_remove_if that finds the entry
Unlink(i) ==
  LET list == List
      e == list[i]
  IN
  /\ next' = IF i = 1 THEN [next EXCEPT ![e] = Null]
             ELSE [next EXCEPT ![e] = Null, ![list[i - 1]] = next[e]]
  /\ head' = IF i = 1 THEN next[e] ELSE head
  /\ tail' = TailWithout(i)
  /\ Freed({e})
  /\ entries' = entries - 1

\* queue_remove, and queue_remove_if with what matches
RemoveIf(match) ==
  /\ FirstOf(match) # 0 /\ MayRemove({List[FirstOf(match)]})
  /\ Unlink(FirstOf(match))
  /\ UNCHANGED <<ref_count, loops>>

-----------------------------------------------------------------------------
(* Loops that call out.                                                     *)

Begins(loop) == loops' = <<loop>> \o loops
Returns == loops' = Tail(loops)

\* queue_remove_all with a function: the first that matches is removed and its
\* destructor is called, until none is left
RemoveAllIf(match) ==
  /\ MayCall /\ Len(loops) < 2 /\ head # Null
  /\ Begins([of |-> "remove_if", match |-> match, at |-> Null, out |-> FALSE])
  /\ UNCHANGED <<head, tail, entries, ref_count, next, data, live>>

RemoveNext ==
  /\ Calling /\ Loop.of = "remove_if"
  /\ IF FirstOf(Loop.match) # 0
     THEN /\ Careful({List[FirstOf(Loop.match)]})
          /\ Unlink(FirstOf(Loop.match))
          /\ loops' = [loops EXCEPT ![1].out = TRUE]
     ELSE Returns /\ UNCHANGED <<head, tail, entries, next, data, live>>
  /\ UNCHANGED ref_count

\* queue_remove_all without one: the queue is empty before the destructors are
\* called; queue_destroy, which ends in queue_unref
RemoveAll(destroys) ==
  /\ MayCall /\ Len(loops) < 2
  /\ destroys => DOMAIN loops = Walks
  /\ head' = Null /\ tail' = Null /\ entries' = 0
  /\ Begins([of |-> IF destroys THEN "destroy" ELSE "remove_all", match |-> {}, at |-> head, out |-> FALSE])
  /\ UNCHANGED <<ref_count, next, data, live>>

FreeNext ==
  /\ Calling /\ Loop.of \in {"remove_all", "destroy"}
  /\ IF Loop.at # Null
     THEN /\ loops' = [loops EXCEPT ![1].at = next[@], ![1].out = TRUE]
          /\ Freed({Loop.at})
          /\ next' = [next EXCEPT ![Loop.at] = Null]
          /\ UNCHANGED ref_count
     ELSE /\ Returns
          /\ ref_count' = IF Loop.of = "destroy" THEN ref_count - 1 ELSE ref_count
          /\ UNCHANGED <<live, data, next>>
  /\ UNCHANGED <<head, tail, entries>>

\* queue_foreach
Foreach ==
  /\ MayCall /\ ~Calling /\ head # Null
  /\ Begins([of |-> "foreach", match |-> {}, at |-> head, out |-> FALSE])
  /\ ref_count' = ref_count + 1
  /\ UNCHANGED <<head, tail, entries, next, data, live>>

\* the condition of its loop
Stops == Loop.at = Null \/ head = Null \/ ref_count <= 1

\* the next entry is saved, and the function is called
ForeachNext ==
  /\ Calling /\ Loop.of = "foreach"
  /\ IF Stops
     THEN Returns /\ ref_count' = ref_count - 1
     ELSE /\ loops' = [loops EXCEPT ![1].at = next[@], ![1].out = TRUE]
          /\ UNCHANGED ref_count
  /\ UNCHANGED <<head, tail, entries, next, data, live>>

QueueNext ==
  \/ \E d \in Data : PushTail(d) \/ PushHead(d) \/ \E other \in Data : PushAfter(d, other)
  \/ \E match \in SUBSET Data : RemoveIf(match) \/ RemoveAllIf(match)
  \/ PopHead \/ RemoveNext \/ FreeNext \/ Foreach \/ ForeachNext
  \/ \E destroys \in BOOLEAN : RemoveAll(destroys)

QueueSpec == QueueInit /\ [][QueueNext]_queueVars

-----------------------------------------------------------------------------
Sequence == INSTANCE DataQueue
  WITH q <- DataOf(List), first <- IF head = Null THEN None ELSE data[head],
       last <- IF tail = Null THEN None ELSE data[tail], length <- entries

\* Whatever is pushed, popped and removed, by a program or by what a loop of
\* queue.c calls, the linked entries are a sequence: what the head, the tail
\* and the count say of it is so, and each call puts in one, takes out one or
\* empties it.
QueueIsSequence == Sequence!Promise

\* No walk holds an entry that was freed, what was allocated is in the list or
\* will be freed by a loop, and the queue itself goes when nobody has it.
QueueKeepsEntries ==
  /\ Calling /\ Loop.of = "foreach" /\ ~Stops => Loop.at \in live
  /\ live = ToSet(List) \cup UNION {ToSet(From(loops[i].at)) : i \in
        {j \in DOMAIN loops : loops[j].of \in {"remove_all", "destroy"}}}
  /\ ref_count = 0 => live = {}
=============================================================================
