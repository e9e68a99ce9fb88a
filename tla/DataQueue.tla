----------------------------- MODULE DataQueue -----------------------------
(***************************************************************************)
(* What a struct queue promises: a sequence of data, whose ends and length  *)
(* its callers see.                                                         *)
(***************************************************************************)
EXTENDS Naturals, Sequences, SequencesExt

CONSTANTS Data, None

VARIABLES q,                   \* what is in the queue
          first, last, length  \* queue_peek_head, queue_peek_tail, queue_length

Ends == /\ first = (IF q = <<>> THEN None ELSE q[1])
        /\ last = (IF q = <<>> THEN None ELSE q[Len(q)])
        /\ length = Len(q)

Add(d) == \E k \in 1 .. Len(q) + 1 : q' = InsertAt(q, k, d)
Drop == \E k \in DOMAIN q : q' = RemoveAt(q, k)
Clear == q' = <<>>

QueueNext == (\E d \in Data : Add(d)) \/ Drop \/ Clear

Promise == q = <<>> /\ Ends /\ [][QueueNext /\ Ends']_<<q, first, last, length>>
=============================================================================
