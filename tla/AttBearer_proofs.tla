-------------------------- MODULE AttBearer_proofs --------------------------
(***************************************************************************)
(* Theorems about AttBearer, for any number of operations, opcodes and PDUs *)
(* of the peripheral: the types, the accounts of every operation, that a    *)
(* callback gets the answer to its own request, that a peripheral is        *)
(* answered, and that the requests are a channel of transactions.           *)
(***************************************************************************)
EXTENDS AttBearer, FiniteSetTheorems, FunctionTheorems, SequenceTheorems, TLAPS

-----------------------------------------------------------------------------
(* Queues of operations, as the sets of what is in them.                    *)

LEMMA OpsEmpty == Ops(<<>>) = {} /\ Unique(<<>>)
  BY DEF Ops, Unique

\* What Append does.
LEMMA OpsAppend ==
  ASSUME NEW S, NEW q \in Seq(S), NEW e \in S
  PROVE  /\ Append(q, e) \in Seq(S) /\ Append(q, e) # <<>>
         /\ Ops(Append(q, e)) = Ops(q) \cup {e}
         /\ Unique(q) /\ (\A a \in Ops(q) : a.id # e.id) => Unique(Append(q, e))
<1> DEFINE t == Append(q, e)
<1>1. /\ t \in Seq(S) /\ Len(q) \in Nat /\ DOMAIN q = 1 .. Len(q)
      /\ DOMAIN t = 1 .. (Len(q) + 1) /\ t # <<>>
      /\ \A k \in 1 .. Len(q) : t[k] = q[k]
      /\ t[Len(q) + 1] = e
  OBVIOUS
<1> HIDE DEF t
<1>2. Ops(t) = Ops(q) \cup {e}
  <2>1. ASSUME NEW a \in Ops(t) PROVE a \in Ops(q) \cup {e}
    <3>1. PICK k \in DOMAIN t : a = t[k]
      BY DEF Ops
    <3>2. CASE k \in 1 .. Len(q)
      BY <1>1, <3>1, <3>2 DEF Ops
    <3>3. CASE k = Len(q) + 1
      BY <1>1, <3>1, <3>3
    <3> QED BY <1>1, <3>2, <3>3
  <2>2. ASSUME NEW a \in Ops(q) PROVE a \in Ops(t)
    <3>1. PICK k \in DOMAIN q : a = q[k]
      BY DEF Ops
    <3> QED BY <1>1, <3>1 DEF Ops
  <2>3. e \in Ops(t)
    BY <1>1 DEF Ops
  <2> QED BY <2>1, <2>2, <2>3
<1>3. ASSUME Unique(q), \A a \in Ops(q) : a.id # e.id
      PROVE  Unique(t)
  <2>1. \A k \in 1 .. Len(q) : q[k] \in Ops(q)
    BY <1>1 DEF Ops
  <2>2. SUFFICES ASSUME NEW j \in DOMAIN t, NEW k \in DOMAIN t, t[j].id = t[k].id
                 PROVE  j = k
    BY DEF Unique
  <2>3. CASE j \in 1 .. Len(q) /\ k \in 1 .. Len(q)
    BY <1>1, <1>3, <2>2, <2>3 DEF Unique
  <2>4. CASE j \in 1 .. Len(q) /\ k = Len(q) + 1
    BY <1>1, <1>3, <2>1, <2>2, <2>4
  <2>5. CASE j = Len(q) + 1 /\ k \in 1 .. Len(q)
    BY <1>1, <1>3, <2>1, <2>2, <2>5
  <2>6. CASE j = Len(q) + 1 /\ k = Len(q) + 1
    BY <2>6
  <2> QED BY <1>1, <2>3, <2>4, <2>5, <2>6
<1> QED BY <1>1, <1>2, <1>3 DEF t

\* What taking the head leaves.
LEMMA OpsTail ==
  ASSUME NEW S, NEW q \in Seq(S), q # <<>>
  PROVE  /\ Tail(q) \in Seq(S) /\ Head(q) \in S /\ Head(q) \in Ops(q)
         /\ Ops(q) = {Head(q)} \cup Ops(Tail(q))
         /\ Unique(q) => /\ Unique(Tail(q))
                         /\ \A a \in Ops(Tail(q)) : a.id # Head(q).id
<1> DEFINE t == Tail(q)
<1>1. /\ t \in Seq(S) /\ Len(q) \in Nat \ {0} /\ DOMAIN q = 1 .. Len(q)
      /\ DOMAIN t = 1 .. (Len(q) - 1)
      /\ \A k \in 1 .. (Len(q) - 1) : t[k] = q[k + 1]
      /\ Head(q) = q[1] /\ Head(q) \in S
  OBVIOUS
<1> HIDE DEF t
<1>2. Head(q) \in Ops(q)
  BY <1>1 DEF Ops
<1>3. Ops(q) = {Head(q)} \cup Ops(t)
  <2>1. ASSUME NEW a \in Ops(q) PROVE a \in {Head(q)} \cup Ops(t)
    <3>1. PICK k \in DOMAIN q : a = q[k]
      BY DEF Ops
    <3>2. CASE k = 1
      BY <1>1, <3>1, <3>2
    <3>3. CASE k # 1
      <4>1. k - 1 \in DOMAIN t /\ t[k - 1] = a
        BY <1>1, <3>1, <3>3
      <4> QED BY <4>1 DEF Ops
    <3> QED BY <3>2, <3>3
  <2>2. ASSUME NEW a \in Ops(t) PROVE a \in Ops(q)
    <3>1. PICK k \in DOMAIN t : a = t[k]
      BY DEF Ops
    <3>2. k + 1 \in DOMAIN q /\ q[k + 1] = a
      BY <1>1, <3>1
    <3> QED BY <3>2 DEF Ops
  <2> QED BY <1>2, <2>1, <2>2
<1>4. ASSUME Unique(q) PROVE Unique(t) /\ \A a \in Ops(t) : a.id # Head(q).id
  <2>1. Unique(t)
    <3>1. SUFFICES ASSUME NEW j \in DOMAIN t, NEW k \in DOMAIN t, t[j].id = t[k].id
                   PROVE  j = k
      BY DEF Unique
    <3>2. j + 1 \in DOMAIN q /\ k + 1 \in DOMAIN q /\ q[j + 1].id = q[k + 1].id
      BY <1>1, <3>1
    <3>3. j + 1 = k + 1
      BY <1>4, <3>2 DEF Unique
    <3> QED BY <1>1, <3>3
  <2>2. ASSUME NEW a \in Ops(t), a.id = Head(q).id PROVE FALSE
    <3>1. PICK k \in DOMAIN t : a = t[k]
      BY DEF Ops
    <3>2. k + 1 \in DOMAIN q /\ 1 \in DOMAIN q /\ q[k + 1].id = q[1].id
      BY <1>1, <2>2, <3>1
    <3>3. k + 1 = 1
      BY <1>4, <3>2 DEF Unique
    <3> QED BY <1>1, <3>3
  <2> QED BY <2>1, <2>2
<1> QED BY <1>1, <1>2, <1>3, <1>4 DEF t

\* What putting an operation back at the head does.
LEMMA OpsCons ==
  ASSUME NEW S, NEW q \in Seq(S), NEW e \in S
  PROVE  /\ <<e>> \o q \in Seq(S) /\ <<e>> \o q # <<>>
         /\ Ops(<<e>> \o q) = Ops(q) \cup {e}
         /\ Unique(q) /\ (\A a \in Ops(q) : a.id # e.id) => Unique(<<e>> \o q)
<1> DEFINE t == <<e>> \o q
<1>1. /\ t \in Seq(S) /\ t # <<>> /\ Head(t) = e /\ Tail(t) = q
  BY HeadTailProperties
<1>2. Ops(t) = {e} \cup Ops(q)
  BY <1>1, OpsTail
<1>3. /\ Len(q) \in Nat /\ DOMAIN q = 1 .. Len(q)
      /\ DOMAIN t = 1 .. (Len(q) + 1)
      /\ \A k \in 2 .. (Len(q) + 1) : t[k] = q[k - 1]
      /\ t[1] = e
  OBVIOUS
<1> HIDE DEF t
<1>4. ASSUME Unique(q), \A a \in Ops(q) : a.id # e.id
      PROVE  Unique(t)
  <2>1. \A k \in 1 .. Len(q) : q[k] \in Ops(q)
    BY <1>3 DEF Ops
  <2>2. SUFFICES ASSUME NEW j \in DOMAIN t, NEW k \in DOMAIN t, t[j].id = t[k].id
                 PROVE  j = k
    BY DEF Unique
  <2>3. CASE j # 1 /\ k # 1
    <3>1. j - 1 \in DOMAIN q /\ k - 1 \in DOMAIN q /\ q[j - 1].id = q[k - 1].id
      BY <1>3, <2>2, <2>3
    <3>2. j - 1 = k - 1
      BY <1>4, <3>1 DEF Unique
    <3> QED BY <1>3, <3>2
  <2>4. CASE j # 1 /\ k = 1
    <3>1. j - 1 \in 1 .. Len(q) /\ t[j] = q[j - 1]
      BY <1>3, <2>4
    <3> QED BY <1>3, <1>4, <2>1, <2>2, <2>4, <3>1
  <2>5. CASE j = 1 /\ k # 1
    <3>1. k - 1 \in 1 .. Len(q) /\ t[k] = q[k - 1]
      BY <1>3, <2>5
    <3> QED BY <1>3, <1>4, <2>1, <2>2, <2>5, <3>1
  <2> QED BY <2>3, <2>4, <2>5
<1> QED BY <1>1, <1>2, <1>4 DEF t

\* What leaving operations out leaves.
LEMMA OpsWithout ==
  ASSUME NEW S, NEW q \in Seq(S), NEW gone, NEW t \in Without(q, gone)
  PROVE  /\ t \in Seq(S) /\ (q = <<>> => t = <<>>)
         /\ Ops(t) = {a \in Ops(q) : a.id \notin gone}
         /\ Unique(q) => Unique(t)
<1> DEFINE rest == {k \in DOMAIN q : q[k].id \notin gone}
<1>0. PICK n \in 0 .. Len(q) : \E f \in [1 .. n -> rest] :
        /\ \A i, j \in DOMAIN f : i < j => f[i] < f[j]
        /\ \A k \in rest : \E i \in DOMAIN f : f[i] = k
        /\ t = [i \in DOMAIN f |-> q[f[i]]]
  BY ZenonT(60) DEF Without
<1>1. PICK f \in [1 .. n -> rest] :
        /\ \A i, j \in DOMAIN f : i < j => f[i] < f[j]
        /\ \A k \in rest : \E i \in DOMAIN f : f[i] = k
        /\ t = [i \in DOMAIN f |-> q[f[i]]]
  BY <1>0
<1>2. n \in Nat /\ DOMAIN f = 1 .. n /\ rest \subseteq DOMAIN q /\ DOMAIN t = 1 .. n
        /\ DOMAIN q \subseteq Nat
  BY <1>1
<1>3. \A i \in 1 .. n : f[i] \in rest /\ t[i] = q[f[i]] /\ q[f[i]] \in S
  BY <1>1, <1>2
<1>4. t \in Seq(S)
  <2>1. t = [i \in 1 .. n |-> q[f[i]]]
    BY <1>1, <1>2
  <2> QED BY <1>2, <1>3, <2>1
<1>5. q = <<>> => t = <<>>
  <2>1. SUFFICES ASSUME q = <<>> PROVE t = <<>>
    OBVIOUS
  <2>2. n = 0
    BY <1>1, <2>1
  <2> QED BY <1>2, <1>4, <2>2
<1>6. Ops(t) = {a \in Ops(q) : a.id \notin gone}
  <2>1. ASSUME NEW a \in Ops(t) PROVE a \in Ops(q) /\ a.id \notin gone
    <3>1. PICK i \in 1 .. n : a = t[i]
      BY <1>2 DEF Ops
    <3> QED BY <1>2, <1>3, <3>1 DEF Ops
  <2>2. ASSUME NEW a \in Ops(q), a.id \notin gone PROVE a \in Ops(t)
    <3>1. PICK k \in DOMAIN q : a = q[k]
      BY DEF Ops
    <3>2. k \in rest
      BY <2>2, <3>1
    <3>3. PICK i \in DOMAIN f : f[i] = k
      BY <1>1, <3>2
    <3> QED BY <1>2, <1>3, <3>1, <3>3 DEF Ops
  <2> QED BY <2>1, <2>2
<1>7. ASSUME Unique(q) PROVE Unique(t)
  <2>1. SUFFICES ASSUME NEW i \in 1 .. n, NEW j \in 1 .. n, t[i].id = t[j].id
                 PROVE  i = j
    BY <1>2 DEF Unique
  <2>2. f[i] = f[j]
    BY <1>2, <1>3, <1>7, <2>1 DEF Unique
  <2>3. f[i] \in Nat /\ ~(f[i] < f[i])
    BY <1>2, <1>3
  <2>4. ~(i < j) /\ ~(j < i)
    BY <1>1, <1>2, <2>2, <2>3
  <2> QED BY <2>4
<1> QED BY <1>4, <1>5, <1>6, <1>7

-----------------------------------------------------------------------------
(* PDUs of some types on the air, counted.                                  *)

\* positions of the PDUs of those types
At(air, types) == {k \in DOMAIN air : air[k].type \in types}

LEMMA AtFinite ==
  ASSUME NEW S, NEW air \in Seq(S), NEW types
  PROVE  /\ IsFiniteSet(At(air, types))
         /\ Cardinality(At(air, types)) \in Nat
<1>1. IsFiniteSet(1 .. Len(air)) /\ At(air, types) \in SUBSET (1 .. Len(air))
  BY FS_Interval DEF At
<1>2. IsFiniteSet(At(air, types))
  BY <1>1, FS_Subset
<1> QED BY <1>2, FS_CardinalityType

LEMMA AtEmpty ==
  ASSUME NEW types
  PROVE  At(<<>>, types) = {} /\ Cardinality(At(<<>>, types)) = 0
  BY FS_EmptySet DEF At

LEMMA AtAppend ==
  ASSUME NEW S, NEW air \in Seq(S), NEW p \in S, NEW types
  PROVE  /\ At(Append(air, p), types) =
              At(air, types) \cup (IF p.type \in types THEN {Len(air) + 1} ELSE {})
         /\ Cardinality(At(Append(air, p), types)) =
              Cardinality(At(air, types)) + (IF p.type \in types THEN 1 ELSE 0)
<1> DEFINE t == Append(air, p)
<1>1. /\ Len(air) \in Nat /\ DOMAIN air = 1 .. Len(air) /\ DOMAIN t = 1 .. (Len(air) + 1)
      /\ \A k \in 1 .. Len(air) : t[k] = air[k]
      /\ t[Len(air) + 1] = p
  OBVIOUS
<1> HIDE DEF t
<1>2. CASE p.type \in types
  <2>1. At(t, types) = At(air, types) \cup {Len(air) + 1}
    BY <1>1, <1>2 DEF At
  <2>2. Len(air) + 1 \notin At(air, types)
    BY <1>1 DEF At
  <2> QED BY <1>2, <2>1, <2>2, AtFinite, FS_AddElement DEF t
<1>3. CASE p.type \notin types
  <2>1. At(t, types) = At(air, types)
    BY <1>1, <1>3 DEF At
  <2>2. Cardinality(At(air, types)) \in Nat
    BY AtFinite
  <2> QED BY <1>3, <2>1, <2>2 DEF t
<1> QED BY <1>2, <1>3

LEMMA AtTail ==
  ASSUME NEW S, NEW air \in Seq(S), air # <<>>, NEW types
  PROVE  /\ At(Tail(air), types) = {k \in 1 .. (Len(air) - 1) : k + 1 \in At(air, types)}
         /\ 1 \in At(air, types) <=> Head(air).type \in types
         /\ Cardinality(At(Tail(air), types)) =
              Cardinality(At(air, types)) - (IF Head(air).type \in types THEN 1 ELSE 0)
<1> DEFINE t == Tail(air)
           up == [k \in At(t, types) |-> k + 1]
<1>1. /\ Len(air) \in Nat \ {0} /\ DOMAIN air = 1 .. Len(air) /\ DOMAIN t = 1 .. (Len(air) - 1)
      /\ \A k \in 1 .. (Len(air) - 1) : t[k] = air[k + 1]
      /\ Head(air) = air[1] /\ t \in Seq(S)
  OBVIOUS
<1> HIDE DEF t
<1>2. At(t, types) = {k \in 1 .. (Len(air) - 1) : k + 1 \in At(air, types)}
  BY <1>1 DEF At
<1>3. 1 \in At(air, types) <=> Head(air).type \in types
  BY <1>1 DEF At
<1>4. up \in Bijection(At(t, types), At(air, types) \ {1})
  <2>1. up \in [At(t, types) -> At(air, types) \ {1}]
    BY <1>1, <1>2
  <2>2. \A j, k \in At(t, types) : up[j] = up[k] => j = k
    BY <1>1, <1>2
  <2>3. ASSUME NEW k \in At(air, types) \ {1} PROVE \E j \in At(t, types) : up[j] = k
    <3>1. k - 1 \in 1 .. (Len(air) - 1) /\ (k - 1) + 1 = k
      BY <1>1 DEF At
    <3>2. k - 1 \in At(t, types)
      BY <1>2, <3>1
    <3> QED BY <3>1, <3>2
  <2> HIDE DEF up
  <2> QED BY <2>1, <2>2, <2>3, Fun_IsBij
<1>5. IsFiniteSet(At(t, types)) /\ IsFiniteSet(At(air, types))
        /\ Cardinality(At(air, types)) \in Nat
  BY <1>1, AtFinite
<1>6. Cardinality(At(air, types) \ {1}) = Cardinality(At(t, types))
  <2>1. ExistsBijection(At(t, types), At(air, types) \ {1})
    BY <1>4 DEF ExistsBijection
  <2> QED BY <1>5, <2>1, FS_Bijection
<1>7. Cardinality(At(air, types) \ {1}) =
        IF 1 \in At(air, types) THEN Cardinality(At(air, types)) - 1 ELSE Cardinality(At(air, types))
  BY <1>5, FS_RemoveElement
<1>8. Cardinality(At(t, types)) =
        Cardinality(At(air, types)) - (IF Head(air).type \in types THEN 1 ELSE 0)
  BY <1>3, <1>5, <1>6, <1>7
<1> QED BY <1>2, <1>3, <1>8 DEF t

-----------------------------------------------------------------------------
(* Types.                                                                   *)

Results == {"none", "live", "written", "answered", "mixed", "failed", "dropped"}

\* the PDUs that bring about an answer of a handler
Answerable == {"REQ", "MTU_REQ", "IND", "UNKNOWN"}

\* Each queue holds operations of its own types, and an operation was transmitted
\* no more often than the link was made more secure.
Sorted ==
  /\ \A op \in Ops(req_queue) : op.type = "REQ" /\ op.try < security
  /\ \A op \in Ops(ind_queue) : op.type = "IND" /\ op.try = 0
  /\ \A op \in Ops(write_queue) : op.type \in {"CMD", "RSP", "CONF"} /\ op.try = 0
  /\ pending_req # NoOp => pending_req.type = "REQ" /\ pending_req.try \in 1 .. security
  /\ pending_ind # NoOp => pending_ind.type = "IND" /\ pending_ind.try = 1

\* Each number above MaxOps went to the answer to one PDU of the peripheral.
Room ==
  /\ Cardinality(At(rx, Answerable)) <= npeer
  /\ next_send_id <= MaxOps + 1 + (npeer - Cardinality(At(rx, Answerable)))

TypeInv == BearerTypeOK /\ Sorted /\ Room

LEMMA RepliesDomain ==
  /\ DOMAIN Replies = Answerable
  /\ \A type \in Answerable : Replies[type] \in {"RSP", "CONF"}
  BY DEF Replies, Answerable

LEMMA NoOpFacts ==
  /\ NoOp.id = 0 /\ NoOp.type = "none" /\ NoOp.try = 0
  /\ NoOp \notin SendOp /\ \A op \in SendOp : op # NoOp /\ op.id # 0 /\ op.id \in Id
  /\ 0 \notin Id /\ Id \subseteq Nat
  BY BearerAssumption DEF NoOp, SendOp, Id, OpType, AboveKinds

LEMMA BearerInitType == BearerInit => TypeInv
<1> SUFFICES ASSUME BearerInit PROVE TypeInv
  OBVIOUS
<1>1. <<>> \in Seq(SendOp) /\ <<>> \in Seq(Pdu)
  OBVIOUS
<1>2. outcome \in [Id -> Results]
  BY DEF BearerInit, Results
<1>3. 1 \in 1 .. (MaxOps + MaxPeer + 1) /\ 0 \in 0 .. MaxPeer
  BY BearerAssumption
<1>a. BearerTypeOK
  BY <1>1, <1>2, <1>3 DEF BearerInit, BearerTypeOK, Results, LOW, MEDIUM, HIGH
<1>4. Sorted
  BY OpsEmpty DEF BearerInit, Sorted
<1>5. Room
  BY AtEmpty, BearerAssumption DEF BearerInit, Room
<1> QED BY <1>a, <1>4, <1>5 DEF TypeInv

\* The numbers that are left.
LEMMA RoomLeft ==
  ASSUME TypeInv
  PROVE  /\ Cardinality(At(rx, Answerable)) \in Nat
         /\ next_send_id <= MaxOps => next_send_id \in Id /\ next_send_id + 1 \in 1 .. (MaxOps + MaxPeer + 1)
         /\ Cardinality(At(rx, Answerable)) > 0 =>
              next_send_id \in Id /\ next_send_id + 1 \in 1 .. (MaxOps + MaxPeer + 1)
<1>1. Cardinality(At(rx, Answerable)) \in Nat
  BY AtFinite DEF TypeInv, BearerTypeOK
<1> QED BY <1>1, BearerAssumption DEF TypeInv, BearerTypeOK, Room, Id

LEMMA NewOpType ==
  ASSUME next_send_id \in Id, NEW type \in OpType, NEW opcode \in Opcode \cup {"none"}
  PROVE  /\ NewOp(type, opcode) \in SendOp
         /\ NewOp(type, opcode).id = next_send_id /\ NewOp(type, opcode).type = type
         /\ NewOp(type, opcode).try = 0
  BY DEF NewOp, SendOp

\* What bt_att_send leaves in the queues.
LEMMA EnqueueType ==
  ASSUME TypeInv, NEW new, new = NoOp \/ (new \in SendOp /\ new.try = 0), Enqueue(new)
  PROVE  /\ req_queue' \in Seq(SendOp) /\ ind_queue' \in Seq(SendOp) /\ write_queue' \in Seq(SendOp)
         /\ \A op \in Ops(req_queue') : op.type = "REQ" /\ op.try < security
         /\ \A op \in Ops(ind_queue') : op.type = "IND" /\ op.try = 0
         /\ \A op \in Ops(write_queue') : op.type \in {"CMD", "RSP", "CONF"} /\ op.try = 0
<1> USE DEF TypeInv, BearerTypeOK, Sorted
<1>1. CASE new = NoOp
  BY <1>1, NoOpFacts DEF Enqueue
<1>2. CASE new \in SendOp /\ new.try = 0
  <2>1. new # NoOp /\ 0 < security
    BY <1>2, NoOpFacts DEF LOW, MEDIUM, HIGH
  <2>2. new.type \in {"REQ", "IND", "CMD", "RSP", "CONF"}
    BY <1>2 DEF SendOp, OpType, AboveKinds
  <2>3. CASE new.type = "REQ"
    <3>1. req_queue' = Append(req_queue, new) /\ UNCHANGED <<ind_queue, write_queue>>
      BY <2>3 DEF Enqueue, HasCallback
    <3> QED BY <1>2, <2>1, <2>3, <3>1, OpsAppend
  <2>4. CASE new.type = "IND"
    <3>1. ind_queue' = Append(ind_queue, new) /\ UNCHANGED <<req_queue, write_queue>>
      BY <2>4 DEF Enqueue, HasCallback
    <3> QED BY <1>2, <2>1, <2>4, <3>1, OpsAppend
  <2>5. CASE new.type \in {"CMD", "RSP", "CONF"}
    <3>1. write_queue' = Append(write_queue, new) /\ UNCHANGED <<req_queue, ind_queue>>
      BY <2>1, <2>5 DEF Enqueue, HasCallback
    <3> QED BY <1>2, <2>1, <2>5, <3>1, OpsAppend
  <2> QED BY <2>2, <2>3, <2>4, <2>5
<1> QED BY <1>1, <1>2

LEMMA EndedType ==
  ASSUME outcome \in [Id -> Results], NEW ended, NEW how \in Results, NEW new, Ended(ended, how, new)
  PROVE  outcome' \in [Id -> Results]
<1>1. \A i \in Id : (IF i \in ended THEN how ELSE IF i = new.id THEN "live" ELSE outcome[i]) \in Results
  BY DEF Results
<1> QED BY <1>1 DEF Ended

LEMMA WakeupType ==
  ASSUME writer_active \in BOOLEAN, WakeupWriter
  PROVE  writer_active' \in BOOLEAN
  BY ZenonT(30) DEF WakeupWriter

LEMMA SendType ==
  ASSUME TypeInv, NEW type \in Kinds, NEW opcode \in Opcode \cup {"none"}, Send(type, opcode)
  PROVE  TypeInv'
<1> DEFINE new == NewOp(type, opcode)
<1>1. type \in OpType /\ next_send_id \in Id /\ next_send_id + 1 \in 1 .. (MaxOps + MaxPeer + 1)
  BY RoomLeft, BearerAssumption DEF Send, OpType
<1>2. new \in SendOp /\ new.id = next_send_id /\ new.try = 0 /\ new # NoOp
  BY <1>1, NewOpType, NoOpFacts
<1>3. Enqueue(new) /\ Ended({}, "live", new)
        /\ track_ids' = IF HasCallback(new) THEN track_ids \cup {new.id} ELSE track_ids
  BY DEF Send
<1> HIDE DEF new
<1>4. outcome' \in [Id -> Results]
  BY <1>3, EndedType DEF TypeInv, BearerTypeOK, Results
<1>5. next_send_id' = next_send_id + 1 /\ track_ids' \subseteq Id
  BY <1>1, <1>2, <1>3 DEF Enqueue, TypeInv, BearerTypeOK
<1>6. BearerTypeOK'
  BY <1>1, <1>2, <1>3, <1>4, <1>5, EnqueueType, WakeupType DEF TypeInv, BearerTypeOK, Send, Results, pending, remote
<1>7. Sorted'
  BY <1>2, <1>3, EnqueueType DEF TypeInv, Sorted, Send, pending
<1>8. Room'
  BY <1>5, RoomLeft, BearerAssumption DEF TypeInv, BearerTypeOK, Room, Send, remote
<1> QED BY <1>6, <1>7, <1>8 DEF TypeInv

\* What pick_next_send_op finds.
LEMMA PickFinds ==
  /\ Pick \in {"write", "req", "ind", "nothing"}
  /\ Pick = "write" => write_queue # <<>>
  /\ Pick = "req" => req_queue # <<>> /\ pending_req = NoOp
  /\ Pick = "ind" => ind_queue # <<>> /\ pending_ind = NoOp
  /\ Pick # "nothing" <=> Sendable(req_queue, ind_queue, write_queue, pending_req, pending_ind)
<1>1. CASE write_queue # <<>>
  BY <1>1 DEF Pick, Sendable
<1>2. CASE write_queue = <<>> /\ RequestMaySend
  BY <1>2 DEF Pick, Sendable, RequestMaySend
<1>3. CASE write_queue = <<>> /\ ~RequestMaySend /\ ind_queue # <<>> /\ pending_ind = NoOp
  BY <1>3 DEF Pick, Sendable, RequestMaySend
<1>4. CASE write_queue = <<>> /\ ~RequestMaySend /\ ~(ind_queue # <<>> /\ pending_ind = NoOp)
  BY <1>4 DEF Pick, Sendable, RequestMaySend
<1> QED BY <1>1, <1>2, <1>3, <1>4

\* The operation that the writer takes.
LEMMA PickedType ==
  ASSUME TypeInv
  PROVE  /\ Pick = "write" => /\ Picked("write") = Head(write_queue)
                              /\ Head(write_queue) \in SendOp \cap Ops(write_queue)
         /\ Pick = "req" => /\ Picked("req") \in SendOp /\ Head(req_queue) \in SendOp \cap Ops(req_queue)
                            /\ Picked("req") = [Head(req_queue) EXCEPT !.try = @ + 1]
                            /\ Picked("req").id = Head(req_queue).id
                            /\ Picked("req").type = "REQ"
                            /\ Picked("req").try \in 1 .. security
         /\ Pick = "ind" => /\ Picked("ind") \in SendOp /\ Head(ind_queue) \in SendOp \cap Ops(ind_queue)
                            /\ Picked("ind").id = Head(ind_queue).id
                            /\ Picked("ind").type = "IND"
                            /\ Picked("ind").try = 1
<1>1. ASSUME Pick = "write" PROVE Picked("write") = Head(write_queue) /\ Head(write_queue) \in SendOp \cap Ops(write_queue)
  BY <1>1, PickFinds, OpsTail DEF Picked, TypeInv, BearerTypeOK
<1>2. ASSUME Pick = "req"
      PROVE  /\ Picked("req") \in SendOp /\ Head(req_queue) \in SendOp \cap Ops(req_queue)
             /\ Picked("req") = [Head(req_queue) EXCEPT !.try = @ + 1]
             /\ Picked("req").id = Head(req_queue).id
             /\ Picked("req").type = "REQ"
             /\ Picked("req").try \in 1 .. security
  <2>1. Head(req_queue) \in SendOp \cap Ops(req_queue)
    BY <1>2, PickFinds, OpsTail DEF TypeInv, BearerTypeOK
  <2>2. Head(req_queue).type = "REQ" /\ Head(req_queue).try < security
    BY <2>1 DEF TypeInv, Sorted
  <2>3. security \in 1 .. 3
    BY DEF TypeInv, BearerTypeOK, LOW, MEDIUM, HIGH
  <2>4. Head(req_queue).try + 1 \in 0 .. 3 /\ Head(req_queue).try + 1 \in 1 .. security
    BY <2>1, <2>2, <2>3 DEF SendOp
  <2>5. Picked("req") = [Head(req_queue) EXCEPT !.try = @ + 1]
    BY DEF Picked
  <2> QED BY <2>1, <2>2, <2>4, <2>5 DEF SendOp
<1>3. ASSUME Pick = "ind"
      PROVE  /\ Picked("ind") \in SendOp /\ Head(ind_queue) \in SendOp \cap Ops(ind_queue)
             /\ Picked("ind").id = Head(ind_queue).id
             /\ Picked("ind").type = "IND"
             /\ Picked("ind").try = 1
  <2>1. Head(ind_queue) \in SendOp \cap Ops(ind_queue)
    BY <1>3, PickFinds, OpsTail DEF TypeInv, BearerTypeOK
  <2>2. Head(ind_queue).type = "IND" /\ Head(ind_queue).try = 0
    BY <2>1 DEF TypeInv, Sorted
  <2>3. Picked("ind") = [Head(ind_queue) EXCEPT !.try = @ + 1]
    BY DEF Picked
  <2> QED BY <2>1, <2>2, <2>3 DEF SendOp
<1> QED BY <1>1, <1>2, <1>3

\* What the writer leaves in the queues.
LEMMA PopType ==
  ASSUME TypeInv, NEW which, which = Pick, which # "nothing", Pop(which)
  PROVE  /\ req_queue' \in Seq(SendOp) /\ ind_queue' \in Seq(SendOp) /\ write_queue' \in Seq(SendOp)
         /\ Ops(req_queue') \subseteq Ops(req_queue)
         /\ Ops(ind_queue') \subseteq Ops(ind_queue)
         /\ Ops(write_queue') \subseteq Ops(write_queue)
<1>1. CASE which = "write"
  BY <1>1, PickFinds, OpsTail DEF Pop, TypeInv, BearerTypeOK
<1>2. CASE which = "req"
  BY <1>2, PickFinds, OpsTail DEF Pop, TypeInv, BearerTypeOK
<1>3. CASE which = "ind"
  BY <1>3, PickFinds, OpsTail DEF Pop, TypeInv, BearerTypeOK
<1> QED BY <1>1, <1>2, <1>3, PickFinds

LEMMA AirType ==
  ASSUME NEW op \in SendOp
  PROVE  Air(op.type, op.opcode, "none", op.id) \in Pdu
  BY DEF Air, SendOp, Pdu, Id

LEMMA WriteQueuedType ==
  ASSUME TypeInv, WriteQueued
  PROVE  TypeInv'
<1> DEFINE op == Picked("write")
<1>1. Pick = "write" /\ Pop("write") /\ op \in SendOp
  BY PickedType DEF WriteQueued
<1>2. tx' = Append(tx, Air(op.type, op.opcode, "none", op.id)) /\ Ended({op.id}, "written", NoOp)
        /\ in_req' = (in_req /\ op.type # "RSP")
  BY DEF WriteQueued
<1> HIDE DEF op
<1>3. tx' \in Seq(Pdu) /\ outcome' \in [Id -> Results] /\ in_req' \in BOOLEAN
  <2>1. tx' \in Seq(Pdu)
    BY <1>1, <1>2, AirType DEF TypeInv, BearerTypeOK
  <2>2. outcome \in [Id -> Results] /\ "written" \in Results
    BY DEF TypeInv, BearerTypeOK, Results
  <2>3. outcome' \in [Id -> Results]
    BY <1>2, <2>2, EndedType
  <2>4. in_req' \in BOOLEAN
    BY <1>2
  <2> QED BY <2>1, <2>3, <2>4
<1>4. BearerTypeOK'
  BY <1>1, <1>3, PopType DEF TypeInv, BearerTypeOK, WriteQueued, Results, pending, remote, ids
<1>5. Sorted'
  BY <1>1, PopType DEF TypeInv, Sorted, WriteQueued, pending
<1>6. Room'
  BY DEF TypeInv, Room, WriteQueued, remote, ids
<1> QED BY <1>4, <1>5, <1>6 DEF TypeInv

LEMMA WriteAwaitedType ==
  ASSUME TypeInv, NEW which \in {"req", "ind"}, WriteAwaited(which)
  PROVE  TypeInv'
<1> DEFINE op == Picked(which)
<1>1. Pick = which /\ Pop(which) /\ op \in SendOp /\ op.try \in 1 .. 3
  <2>1. security \in 1 .. 3
    BY DEF TypeInv, BearerTypeOK, LOW, MEDIUM, HIGH
  <2> QED BY <2>1, PickedType DEF WriteAwaited
<1>2. /\ tx' = Append(tx, Air(op.type, op.opcode, "none", op.id))
      /\ pending_req' = IF which = "req" THEN op ELSE pending_req
      /\ pending_ind' = IF which = "ind" THEN op ELSE pending_ind
      /\ timers' = timers \cup {<<op.id, op.try>>}
  BY DEF WriteAwaited, Armed
<1>3. /\ which = "req" => op.type = "REQ" /\ op.try \in 1 .. security
      /\ which = "ind" => op.type = "IND" /\ op.try = 1
  BY <1>1, PickedType
<1> HIDE DEF op
<1>4. tx' \in Seq(Pdu) /\ timers' \subseteq Id \X (1 .. 3)
  BY <1>1, <1>2, AirType DEF TypeInv, BearerTypeOK, SendOp
<1>5. pending_req' \in SendOp \cup {NoOp} /\ pending_ind' \in SendOp \cup {NoOp}
  BY <1>1, <1>2 DEF TypeInv, BearerTypeOK
<1>6. BearerTypeOK'
  BY <1>1, <1>4, <1>5, PopType DEF TypeInv, BearerTypeOK, WriteAwaited, remote, ids
<1>7. Sorted'
  <2>1. pending_req' # NoOp => pending_req'.type = "REQ" /\ pending_req'.try \in 1 .. security
    BY <1>2, <1>3 DEF TypeInv, Sorted
  <2>2. pending_ind' # NoOp => pending_ind'.type = "IND" /\ pending_ind'.try = 1
    BY <1>2, <1>3 DEF TypeInv, Sorted
  <2> QED BY <1>1, <2>1, <2>2, PopType DEF TypeInv, Sorted, WriteAwaited
<1>8. Room'
  BY DEF TypeInv, Room, WriteAwaited, remote, ids
<1> QED BY <1>6, <1>7, <1>8 DEF TypeInv

LEMMA WriterStopsType ==
  ASSUME TypeInv, WriterStops
  PROVE  TypeInv'
<1> USE DEF WriterStops, queues, pending, remote, ids
<1>1. BearerTypeOK'
  BY DEF TypeInv, BearerTypeOK
<1>2. Sorted' /\ Room'
  BY DEF TypeInv, Sorted, Room
<1> QED BY <1>1, <1>2 DEF TypeInv

LEMMA WriteFailsType ==
  ASSUME TypeInv, WriteFails
  PROVE  TypeInv'
<1> DEFINE op == Picked(Pick)
           how == IF HasCallback(op) THEN "failed" ELSE "dropped"
<1>1. Pick # "nothing" /\ Pop(Pick) /\ track_ids' = track_ids \ {op.id}
        /\ Ended({op.id} \cap Live, how, NoOp)
  BY DEF WriteFails
<1>2. how \in Results
  BY DEF Results
<1> HIDE DEF op, how
<1>3. outcome' \in [Id -> Results]
  BY <1>1, <1>2, EndedType DEF TypeInv, BearerTypeOK, Results
<1>4. BearerTypeOK'
  BY <1>1, <1>3, PopType DEF TypeInv, BearerTypeOK, WriteFails, Results, pending, remote
<1>5. Sorted'
  BY <1>1, PopType DEF TypeInv, Sorted, WriteFails, pending
<1>6. Room'
  BY DEF TypeInv, Room, WriteFails, remote
<1> QED BY <1>4, <1>5, <1>6 DEF TypeInv

\* What leaves everything as it was but the state of the socket and what is on
\* the air.
LEMMA LinkType ==
  ASSUME TypeInv,
         io' \in {"open", "lost", "shut", "null", "freed", "aborted"},
         tx' \in Seq(Pdu), rx' = rx \/ rx' = <<>>,
         UNCHANGED <<queues, pending, writer_active, in_req, ids, timers, security, outcome, remote>>
  PROVE  TypeInv'
<1> USE DEF queues, pending, remote, ids
<1>1. rx' \in Seq(Pdu)
  <2>1. rx \in Seq(Pdu) /\ <<>> \in Seq(Pdu)
    BY DEF TypeInv, BearerTypeOK
  <2> QED BY <2>1
<1>2. BearerTypeOK'
  BY <1>1 DEF TypeInv, BearerTypeOK
<1>3. Sorted'
  BY DEF TypeInv, Sorted
<1>4. Cardinality(At(rx, Answerable))' \in Nat /\ Cardinality(At(rx, Answerable))' <= Cardinality(At(rx, Answerable))
  BY RoomLeft, AtEmpty
<1>5. Room'
  BY <1>4, RoomLeft, BearerAssumption DEF TypeInv, BearerTypeOK, Room
<1> QED BY <1>2, <1>3, <1>5 DEF TypeInv

LEMMA ShutType ==
  ASSUME TypeInv, UnexpectedRsp \/ UnexpectedConf \/ SecondRequest \/ HandleExecWrite \/ LinkLoss
  PROVE  TypeInv'
<1>1. CASE UnexpectedRsp
  BY <1>1, LinkType DEF UnexpectedRsp, Shutdown
<1>2. CASE UnexpectedConf
  BY <1>2, LinkType DEF UnexpectedConf, Shutdown
<1>3. CASE SecondRequest
  BY <1>3, LinkType DEF SecondRequest, Shutdown
<1>4. CASE LinkLoss
  BY <1>4, LinkType DEF LinkLoss
<1>5. CASE HandleExecWrite
  <2> USE DEF queues, pending, remote, ids
  <2>1. /\ io' = "aborted" /\ rx # <<>> /\ rx' = Tail(rx) /\ Head(rx).type = "EXEC_REQ"
        /\ UNCHANGED <<tx, queues, pending, writer_active, in_req, ids, timers, security, outcome, remote>>
    BY <1>5 DEF HandleExecWrite, Arrives, CanRead
  <2>2. rx' \in Seq(Pdu)
    BY <2>1 DEF TypeInv, BearerTypeOK
  <2>3. BearerTypeOK'
    BY <2>1, <2>2 DEF TypeInv, BearerTypeOK
  <2>4. Sorted'
    BY <2>1 DEF TypeInv, Sorted
  <2>5. Cardinality(At(rx', Answerable)) = Cardinality(At(rx, Answerable))
    <3>1. "EXEC_REQ" \notin Answerable
      BY DEF Answerable
    <3>2. Cardinality(At(rx, Answerable)) \in Nat
      BY RoomLeft
    <3> QED BY <2>1, <3>1, <3>2, AtTail DEF TypeInv, BearerTypeOK
  <2>6. Room'
    BY <2>1, <2>5 DEF TypeInv, Room
  <2> QED BY <2>3, <2>4, <2>6 DEF TypeInv
<1> QED BY <1>1, <1>2, <1>3, <1>4, <1>5

\* What reading a PDU leaves of what was received.
LEMMA ArrivesRoom ==
  ASSUME TypeInv, NEW types, Arrives(types)
  PROVE  /\ rx # <<>> /\ Head(rx) \in Pdu /\ Head(rx).type \in types
         /\ rx' = Tail(rx) /\ rx' \in Seq(Pdu)
         /\ Cardinality(At(rx', Answerable)) =
              Cardinality(At(rx, Answerable)) - (IF Head(rx).type \in Answerable THEN 1 ELSE 0)
         /\ Cardinality(At(rx, Answerable)) \in Nat /\ Cardinality(At(rx', Answerable)) \in Nat
<1>1. rx # <<>> /\ Head(rx).type \in types /\ rx' = Tail(rx) /\ rx \in Seq(Pdu)
  BY DEF Arrives, CanRead, TypeInv, BearerTypeOK
<1>2. Head(rx) \in Pdu /\ rx' \in Seq(Pdu)
  BY <1>1
<1> QED BY <1>1, <1>2, AtTail, AtFinite

LEMMA RetryType ==
  ASSUME TypeInv, RetryRequest
  PROVE  TypeInv'
<1> DEFINE op == pending_req
<1>1. /\ op \in SendOp /\ op.type = "REQ" /\ op.try \in 1 .. security
      /\ security' = Raised(Head(rx).ecode) /\ security' > security
      /\ req_queue' = <<op>> \o req_queue /\ pending_req' = NoOp
      /\ UNCHANGED <<ind_queue, write_queue, pending_ind, io, in_req, next_send_id, track_ids, timers,
                     outcome, tx, owed, strayed, npeer>>
      /\ WakeupWriter /\ Arrives({"ERR"})
  BY DEF RetryRequest, TypeInv, BearerTypeOK, Sorted, Retried, ids, remote
<1> HIDE DEF op
<1>2. security' \in {LOW, MEDIUM, HIGH} /\ security \in 1 .. 3 /\ security' \in 1 .. 3
  BY <1>1 DEF Raised, TypeInv, BearerTypeOK, LOW, MEDIUM, HIGH
<1>3. req_queue' \in Seq(SendOp) /\ Ops(req_queue') = Ops(req_queue) \cup {op}
  BY <1>1, OpsCons DEF TypeInv, BearerTypeOK
<1>4. rx' \in Seq(Pdu)
  BY <1>1, ArrivesRoom
<1>5. BearerTypeOK'
  BY <1>1, <1>2, <1>3, <1>4, WakeupType DEF TypeInv, BearerTypeOK
<1>6. Sorted'
  <2>1. \A a \in Ops(req_queue') : a.type = "REQ" /\ a.try < security'
    <3>1. ASSUME NEW a \in Ops(req_queue) PROVE a.type = "REQ" /\ a.try < security'
      <4>1. a.type = "REQ" /\ a.try < security /\ a \in SendOp
        BY DEF TypeInv, BearerTypeOK, Sorted, Ops
      <4>2. a.try \in Nat
        BY <4>1 DEF SendOp
      <4> QED BY <1>1, <1>2, <4>1, <4>2
    <3>2. op.type = "REQ" /\ op.try < security'
      BY <1>1, <1>2
    <3> QED BY <1>3, <3>1, <3>2
  <2> QED BY <1>1, <2>1 DEF TypeInv, Sorted
<1>7. Room'
  <2>1. "ERR" \notin Answerable
    BY DEF Answerable
  <2>2. Cardinality(At(rx', Answerable)) = Cardinality(At(rx, Answerable))
    BY <1>1, <2>1, ArrivesRoom
  <2> QED BY <1>1, <2>2 DEF TypeInv, Room
<1> QED BY <1>5, <1>6, <1>7 DEF TypeInv

LEMMA ResultOfType ==
  ASSUME NEW op, NEW pdu
  PROVE  ResultOf(op, pdu) \in Results /\ ResultOf(op, pdu) \in {"failed", "mixed", "answered"}
  BY DEF ResultOf, Results

\* The request that a callback sends.
LEMMA FollowUp ==
  ASSUME TypeInv, NEW next \in Opcode \cup {"none"}, next # "none" => next_send_id <= MaxOps,
         NEW new, new = IF next = "none" THEN NoOp ELSE NewOp("REQ", next)
  PROVE  /\ next = "none" => new = NoOp /\ Under(new) = {}
         /\ next # "none" => /\ new \in SendOp /\ new.id = next_send_id /\ new.try = 0 /\ new.type = "REQ"
                             /\ new # NoOp /\ Under(new) = {next_send_id} /\ next_send_id \in Id
         /\ Under(new) \subseteq Id
<1>1. CASE next = "none"
  BY <1>1 DEF Under
<1>2. CASE next # "none"
  <2>1. next_send_id \in Id /\ "REQ" \in OpType
    BY <1>2, RoomLeft DEF OpType, AboveKinds
  <2>2. new \in SendOp /\ new.id = next_send_id /\ new.try = 0 /\ new.type = "REQ"
    BY <1>2, <2>1, NewOpType
  <2> QED BY <1>2, <2>1, <2>2, NoOpFacts DEF Under
<1> QED BY <1>1, <1>2

LEMMA HandleRspType ==
  ASSUME TypeInv, NEW next \in Opcode \cup {"none"}, HandleRsp(next)
  PROVE  TypeInv'
<1> DEFINE pdu == Head(rx)
           op == pending_req
           new == IF next = "none" THEN NoOp ELSE NewOp("REQ", next)
           ended == IF op.id \in Live THEN {op.id} ELSE {}
           how == ResultOf(op, pdu)
<1>1. /\ next # "none" => next_send_id <= MaxOps
      /\ Enqueue(new) /\ Ended(ended, how, new)
      /\ track_ids' = (track_ids \ {op.id}) \cup Under(new)
      /\ timers' = timers \ TimerOf(op)
      /\ pending_req' = NoOp /\ UNCHANGED pending_ind
      /\ WakeupWriter /\ Arrives({"RSP", "ERR"})
      /\ UNCHANGED <<io, in_req, security, tx, owed, strayed, npeer>>
  BY DEF HandleRsp, remote
<1>2. how \in Results
  BY ResultOfType
<1>3. /\ next = "none" => new = NoOp /\ Under(new) = {}
      /\ next # "none" => new \in SendOp /\ new.id = next_send_id /\ new.try = 0 /\ new # NoOp
      /\ Under(new) \subseteq Id
  BY <1>1, FollowUp
<1> HIDE DEF pdu, op, new, ended, how
<1>4. outcome' \in [Id -> Results]
  BY <1>1, <1>2, EndedType DEF TypeInv, BearerTypeOK, Results
<1>5. /\ next = "none" => next_send_id' = next_send_id
      /\ next # "none" => next_send_id' = next_send_id + 1
      /\ next_send_id' \in 1 .. (MaxOps + MaxPeer + 1)
  BY <1>1, <1>3, RoomLeft DEF Enqueue, TypeInv, BearerTypeOK
<1>6. rx' \in Seq(Pdu) /\ Cardinality(At(rx', Answerable)) = Cardinality(At(rx, Answerable))
  <2>1. Head(rx).type \in {"RSP", "ERR"} /\ rx' \in Seq(Pdu)
          /\ Cardinality(At(rx', Answerable)) =
               Cardinality(At(rx, Answerable)) - (IF Head(rx).type \in Answerable THEN 1 ELSE 0)
          /\ Cardinality(At(rx, Answerable)) \in Nat
    BY <1>1, ArrivesRoom
  <2>2. Head(rx).type \notin Answerable
    BY <2>1 DEF Answerable
  <2> QED BY <2>1, <2>2
<1>7. track_ids' \subseteq Id /\ timers' \subseteq Id \X (1 .. 3)
  BY <1>1, <1>3 DEF TypeInv, BearerTypeOK
<1>8. BearerTypeOK'
  <2>1. req_queue' \in Seq(SendOp) /\ ind_queue' \in Seq(SendOp) /\ write_queue' \in Seq(SendOp)
    BY <1>1, <1>3, EnqueueType
  <2>2. writer_active' \in BOOLEAN
    BY <1>1, WakeupType DEF TypeInv, BearerTypeOK
  <2> QED BY <1>1, <1>4, <1>5, <1>6, <1>7, <2>1, <2>2 DEF TypeInv, BearerTypeOK, Results
<1>9. Sorted'
  BY <1>1, <1>3, EnqueueType DEF TypeInv, Sorted
<1>10. Room'
  BY <1>1, <1>5, <1>6, RoomLeft, BearerAssumption DEF TypeInv, BearerTypeOK, Room
<1> QED BY <1>8, <1>9, <1>10 DEF TypeInv

LEMMA HandleConfType ==
  ASSUME TypeInv, HandleConf
  PROVE  TypeInv'
<1> DEFINE ended == {pending_ind.id} \cap Live
           gone == TimerOf(pending_ind)
<1>1. /\ Ended(ended, "answered", NoOp)
      /\ track_ids' = track_ids \ {pending_ind.id}
      /\ timers' = timers \ gone
      /\ pending_ind' = NoOp
      /\ UNCHANGED <<req_queue, ind_queue, write_queue, pending_req, next_send_id>>
      /\ WakeupWriter /\ Arrives({"CONF"})
      /\ UNCHANGED <<io, in_req, security, tx, owed, strayed, npeer>>
  BY DEF HandleConf, remote, queues
<1>2. "answered" \in Results /\ "CONF" \notin Answerable
  BY DEF Results, Answerable
<1> HIDE DEF ended, gone
<1>3. outcome' \in [Id -> Results]
  BY <1>1, <1>2, EndedType DEF TypeInv, BearerTypeOK, Results
<1>4. rx' \in Seq(Pdu) /\ Cardinality(At(rx', Answerable)) = Cardinality(At(rx, Answerable))
  BY <1>1, <1>2, ArrivesRoom
<1>5. BearerTypeOK'
  <2>1. writer_active' \in BOOLEAN
    BY <1>1, WakeupType DEF TypeInv, BearerTypeOK
  <2> QED BY <1>1, <1>3, <1>4, <2>1 DEF TypeInv, BearerTypeOK, Results
<1>6. Sorted'
  BY <1>1 DEF TypeInv, Sorted
<1>7. Room'
  BY <1>1, <1>4 DEF TypeInv, Room
<1> QED BY <1>5, <1>6, <1>7 DEF TypeInv

\* The answer of a handler.
LEMMA ReplyType ==
  ASSUME NEW type, type \in Answerable => next_send_id \in Id
  PROVE  /\ type \notin Answerable => Reply(type) = NoOp
         /\ type \in Answerable => /\ Reply(type) \in SendOp /\ Reply(type).id = next_send_id
                                   /\ Reply(type).type \in {"RSP", "CONF"}
                                   /\ Reply(type).type = Replies[type]
                                   /\ Reply(type).try = 0 /\ Reply(type) # NoOp
<1>1. type \notin Answerable => Reply(type) = NoOp
  BY RepliesDomain DEF Reply
<1>2. ASSUME type \in Answerable
      PROVE  /\ Reply(type) \in SendOp /\ Reply(type).id = next_send_id
             /\ Reply(type).type \in {"RSP", "CONF"} /\ Reply(type).type = Replies[type]
             /\ Reply(type).try = 0 /\ Reply(type) # NoOp
  <2>1. Reply(type) = NewOp(Replies[type], "none") /\ Replies[type] \in {"RSP", "CONF"}
    BY <1>2, RepliesDomain DEF Reply
  <2>2. Replies[type] \in OpType
    BY <2>1 DEF OpType
  <2> QED BY <1>2, <2>1, <2>2, NewOpType, NoOpFacts
<1> QED BY <1>1, <1>2

LEMMA HandlePduType ==
  ASSUME TypeInv, HandlePdu
  PROVE  TypeInv'
<1> DEFINE type == Head(rx).type
           asks == type \in Asking
           new == Reply(type)
           read == {"REQ", "MTU_REQ", "BAD_MTU_REQ", "CMD", "NOT", "IND", "UNKNOWN"}
<1>1. /\ in_req' = (in_req \/ asks)
      /\ Enqueue(new) /\ Ended({}, "live", new)
      /\ UNCHANGED <<pending_req, pending_ind, track_ids>>
      /\ WakeupWriter /\ Arrives(read)
      /\ UNCHANGED <<io, timers, security, tx, owed, strayed, npeer>>
  BY DEF HandlePdu, remote, pending
<1> HIDE DEF asks, read
<1>2. /\ rx' \in Seq(Pdu)
      /\ Cardinality(At(rx', Answerable)) = Cardinality(At(rx, Answerable)) - (IF type \in Answerable THEN 1 ELSE 0)
      /\ Cardinality(At(rx, Answerable)) \in Nat /\ Cardinality(At(rx', Answerable)) \in Nat
  BY <1>1, ArrivesRoom
<1>3. type \in Answerable =>
        next_send_id \in Id /\ next_send_id + 1 \in 1 .. (MaxOps + MaxPeer + 1)
  BY <1>2, RoomLeft
<1>4. /\ type \notin Answerable => new = NoOp
      /\ type \in Answerable => new \in SendOp /\ new.try = 0 /\ new # NoOp
  BY <1>3, ReplyType
<1> HIDE DEF type, new
<1>5. outcome' \in [Id -> Results]
  <2>1. "live" \in Results /\ outcome \in [Id -> Results]
    BY DEF TypeInv, BearerTypeOK, Results
  <2> QED BY <1>1, <2>1, EndedType
<1>6. /\ type \in Answerable => next_send_id' = next_send_id + 1
      /\ type \notin Answerable => next_send_id' = next_send_id
      /\ next_send_id' \in 1 .. (MaxOps + MaxPeer + 1)
  BY <1>1, <1>3, <1>4 DEF Enqueue, TypeInv, BearerTypeOK
<1>7. BearerTypeOK'
  <2>1. req_queue' \in Seq(SendOp) /\ ind_queue' \in Seq(SendOp) /\ write_queue' \in Seq(SendOp)
    BY <1>1, <1>4, EnqueueType
  <2>2. writer_active' \in BOOLEAN
    BY <1>1, WakeupType DEF TypeInv, BearerTypeOK
  <2>3. in_req' \in BOOLEAN
    BY <1>1
  <2> QED BY <1>1, <1>2, <1>5, <1>6, <2>1, <2>2, <2>3 DEF TypeInv, BearerTypeOK, Results
<1>8. Sorted'
  BY <1>1, <1>4, EnqueueType DEF TypeInv, Sorted
<1>9. Room'
  <2>1. npeer \in Nat /\ npeer' = npeer /\ MaxOps \in Nat /\ next_send_id \in Nat
    BY <1>1, BearerAssumption DEF TypeInv, BearerTypeOK
  <2>2. Cardinality(At(rx, Answerable)) <= npeer
          /\ next_send_id <= MaxOps + 1 + (npeer - Cardinality(At(rx, Answerable)))
    BY DEF TypeInv, Room
  <2>3. CASE type \in Answerable
    BY <1>2, <1>6, <2>1, <2>2, <2>3 DEF Room
  <2>4. CASE type \notin Answerable
    BY <1>2, <1>6, <2>1, <2>2, <2>4 DEF Room
  <2> QED BY <2>3, <2>4
<1> QED BY <1>7, <1>8, <1>9 DEF TypeInv

LEMMA TimeoutType ==
  ASSUME TypeInv, NEW t \in timers, Timeout(t)
  PROVE  TypeInv'
<1> DEFINE req == pending_req.id = t[1]
           ind == ~req /\ pending_ind.id = t[1]
           ends == req \/ ind
           ended == IF ends THEN {t[1]} \cap Live ELSE {}
<1>1. /\ timers' = timers \ {t}
      /\ IF ends THEN io' = "shut" /\ tx' = <<>> /\ rx' = <<>> ELSE UNCHANGED <<io, tx, rx>>
      /\ pending_req' = pending_req \/ pending_req' = NoOp
      /\ pending_ind' = pending_ind \/ pending_ind' = NoOp
      /\ Ended(ended, "dropped", NoOp)
      /\ track_ids' \subseteq track_ids
      /\ UNCHANGED <<req_queue, ind_queue, write_queue, writer_active, in_req, next_send_id, security,
                     owed, strayed, npeer>>
  BY DEF Timeout, TimedOut, Shutdown, queues, remote
<1> HIDE DEF req, ind, ended
<1>2. outcome' \in [Id -> Results]
  <2>1. "dropped" \in Results /\ outcome \in [Id -> Results]
    BY DEF TypeInv, BearerTypeOK, Results
  <2> QED BY <1>1, <2>1, EndedType
<1>3. /\ io' \in {"open", "lost", "shut", "null", "freed", "aborted"}
      /\ tx' \in Seq(Pdu) /\ rx' \in Seq(Pdu)
      /\ rx' = rx \/ rx' = <<>>
  <2>1. <<>> \in Seq(Pdu)
    OBVIOUS
  <2>2. CASE ends
    BY <1>1, <2>1, <2>2
  <2>3. CASE ~ends
    BY <1>1, <2>3 DEF TypeInv, BearerTypeOK
  <2> QED BY <2>2, <2>3
<1>4. BearerTypeOK'
  BY <1>1, <1>2, <1>3 DEF TypeInv, BearerTypeOK, Results
<1>5. Sorted'
  BY <1>1 DEF TypeInv, Sorted
<1>6. Cardinality(At(rx, Answerable))' \in Nat /\ Cardinality(At(rx, Answerable))' <= Cardinality(At(rx, Answerable))
  BY <1>3, RoomLeft, AtEmpty
<1>7. Room'
  BY <1>1, <1>6, RoomLeft, BearerAssumption DEF TypeInv, BearerTypeOK, Room
<1> QED BY <1>4, <1>5, <1>7 DEF TypeInv

\* What closing the bearer leaves.
LEMMA NothingHeldType ==
  ASSUME TypeInv, NEW how \in Results, NothingHeld, AllEnd(how),
         io' \in {"null", "freed"},
         UNCHANGED <<in_req, next_send_id, security, remote>>
  PROVE  TypeInv'
<1>1. outcome' \in [Id -> Results]
  <2>1. "dropped" \in Results /\ outcome \in [Id -> Results]
    BY DEF TypeInv, BearerTypeOK, Results
  <2>2. \A i \in Id : (IF i \notin Live THEN outcome[i] ELSE IF i \in track_ids THEN how ELSE "dropped")
          \in Results
    BY <2>1
  <2> QED BY <2>2 DEF AllEnd
<1>2. <<>> \in Seq(SendOp) /\ <<>> \in Seq(Pdu)
  OBVIOUS
<1>3. BearerTypeOK'
  BY <1>1, <1>2 DEF TypeInv, BearerTypeOK, NothingHeld, Results, remote
<1>4. Sorted'
  BY OpsEmpty DEF NothingHeld, Sorted
<1>5. Room'
  BY AtEmpty, RoomLeft, BearerAssumption DEF TypeInv, BearerTypeOK, Room, NothingHeld, remote
<1> QED BY <1>3, <1>4, <1>5 DEF TypeInv

LEMMA CloseType ==
  ASSUME TypeInv, DisconnectCb \/ Free
  PROVE  TypeInv'
<1>1. "failed" \in Results /\ "dropped" \in Results
  BY DEF Results
<1>2. CASE DisconnectCb
  BY <1>1, <1>2, NothingHeldType DEF DisconnectCb
<1>3. CASE Free
  BY <1>1, <1>3, NothingHeldType DEF Free
<1> QED BY <1>2, <1>3

LEMMA CancelledType ==
  ASSUME TypeInv, NEW gone, Cancelled(gone)
  PROVE  TypeInv'
<1>1. /\ track_ids' = track_ids \ gone
      /\ Ended(gone, "dropped", NoOp)
      /\ req_queue' \in Without(req_queue, gone) /\ ind_queue' \in Without(ind_queue, gone)
      /\ UNCHANGED <<write_queue, pending_req, pending_ind, io, in_req, next_send_id, timers, security,
                     tx, rx, owed, strayed, npeer>>
      /\ writer_active' = writer_active \/ WakeupWriter
  BY DEF Cancelled, pending, remote
<1>2. outcome' \in [Id -> Results]
  <2>1. "dropped" \in Results /\ outcome \in [Id -> Results]
    BY DEF TypeInv, BearerTypeOK, Results
  <2> QED BY <1>1, <2>1, EndedType
<1>3. /\ req_queue' \in Seq(SendOp) /\ Ops(req_queue') \subseteq Ops(req_queue)
      /\ ind_queue' \in Seq(SendOp) /\ Ops(ind_queue') \subseteq Ops(ind_queue)
  BY <1>1, OpsWithout DEF TypeInv, BearerTypeOK
<1>4. writer_active' \in BOOLEAN
  <2>1. writer_active \in BOOLEAN
    BY DEF TypeInv, BearerTypeOK
  <2> QED BY <1>1, <2>1, WakeupType
<1>5. BearerTypeOK'
  BY <1>1, <1>2, <1>3, <1>4 DEF TypeInv, BearerTypeOK, Results
<1>6. Sorted'
  BY <1>1, <1>3 DEF TypeInv, Sorted
<1>7. Room'
  BY <1>1 DEF TypeInv, Room
<1> QED BY <1>5, <1>6, <1>7 DEF TypeInv

\* What the peripheral changes.
LEMMA PeerType ==
  ASSUME TypeInv, tx' \in Seq(Pdu), NEW p \in Pdu, rx' = rx \/ rx' = Append(rx, p),
         p.type \notin Answerable, UNCHANGED <<Local, strayed, npeer>>, owed' \in BOOLEAN
  PROVE  TypeInv'
<1>1. /\ rx \in Seq(Pdu)
      /\ UNCHANGED <<io, req_queue, ind_queue, write_queue, pending_req, pending_ind, writer_active, in_req,
                     next_send_id, track_ids, timers, security, outcome, strayed, npeer>>
  BY DEF TypeInv, BearerTypeOK, Local, queues, pending, ids
<1>2. rx' \in Seq(Pdu) /\ Cardinality(At(rx', Answerable)) = Cardinality(At(rx, Answerable))
  <2>1. Cardinality(At(rx, Answerable)) \in Nat
    BY RoomLeft
  <2>2. CASE rx' = rx
    BY <1>1, <2>2
  <2>3. CASE rx' = Append(rx, p)
    BY <1>1, <2>1, <2>3, AtAppend
  <2> QED BY <2>2, <2>3
<1>3. BearerTypeOK'
  BY <1>1, <1>2 DEF TypeInv, BearerTypeOK
<1>4. Sorted'
  BY <1>1 DEF TypeInv, Sorted
<1>5. Room'
  BY <1>1, <1>2 DEF TypeInv, Room
<1> QED BY <1>3, <1>4, <1>5 DEF TypeInv

LEMMA ReceivedType ==
  ASSUME TypeInv, NEW types, Received(types)
  PROVE  /\ Head(tx) \in Pdu /\ Head(tx).type \in types
         /\ Head(tx).opcode \in Opcode \cup {"none"} /\ Head(tx).re \in Nat
         /\ tx' = Tail(tx) /\ tx' \in Seq(Pdu) /\ tx # <<>> /\ io = "open"
<1>1. tx \in Seq(Pdu) /\ tx # <<>> /\ Head(tx).type \in types /\ tx' = Tail(tx) /\ io = "open"
  BY DEF Received, TypeInv, BearerTypeOK
<1>2. Head(tx) \in Pdu /\ tx' \in Seq(Pdu)
  BY <1>1
<1> QED BY <1>1, <1>2 DEF Pdu

LEMMA PeerAnswersType ==
  ASSUME TypeInv, PeerAnswers
  PROVE  TypeInv'
<1> DEFINE req == Head(tx)
<1>1. /\ req.opcode \in Opcode \cup {"none"} /\ req.re \in Nat /\ tx' \in Seq(Pdu)
  BY ReceivedType DEF PeerAnswers
<1>2. /\ \/ rx' = Append(rx, Air("RSP", req.opcode, "none", req.re))
         \/ \E e \in {"encryption", "authentication", "other"} :
              rx' = Append(rx, Air("ERR", req.opcode, e, req.re))
         \/ rx' = rx
      /\ UNCHANGED <<Local, strayed, npeer>> /\ owed' = owed
  BY DEF PeerAnswers, remote
<1> HIDE DEF req
<1>3. PICK type \in {"RSP", "ERR"}, e \in {"none", "encryption", "authentication", "other"} :
        rx' = rx \/ rx' = Append(rx, Air(type, req.opcode, e, req.re))
  BY <1>2
<1> DEFINE p == Air(type, req.opcode, e, req.re)
<1>4. p \in Pdu /\ p.type = type
  BY <1>1, <1>3 DEF Air, Pdu, OpType
<1>5. type \notin Answerable
  BY <1>3 DEF Answerable
<1>6. owed' \in BOOLEAN
  BY <1>2 DEF TypeInv, BearerTypeOK
<1> HIDE DEF p
<1>7. rx' = rx \/ rx' = Append(rx, p)
  BY <1>3 DEF p
<1> QED BY <1>1, <1>2, <1>4, <1>5, <1>6, <1>7, PeerType

LEMMA PeerTakesType ==
  ASSUME TypeInv, PeerTakes
  PROVE  TypeInv'
<1> DEFINE p == Air("CONF", "none", "none", 0)
           taken == Head(tx).type # "RSP"
<1>1. tx' \in Seq(Pdu)
  BY ReceivedType DEF PeerTakes
<1>2. rx' = rx \/ rx' = Append(rx, p)
  BY DEF PeerTakes
<1>3. owed' = (owed /\ taken) /\ UNCHANGED <<Local, strayed, npeer>>
  BY DEF PeerTakes
<1>4. p \in Pdu /\ p.type = "CONF"
  BY DEF Air, Pdu, OpType
<1>5. "CONF" \notin Answerable
  BY DEF Answerable
<1> HIDE DEF p, taken
<1>6. owed' \in BOOLEAN
  BY <1>3
<1> QED BY <1>1, <1>2, <1>3, <1>4, <1>5, <1>6, PeerType

LEMMA PeerSendsType ==
  ASSUME TypeInv, NEW type \in PeerPdus, PeerSends(type)
  PROVE  TypeInv'
<1> DEFINE asks == type \in Asking
           breaks == type \in {"RSP", "CONF", "BAD_MTU_REQ", "UNKNOWN"} \/ (owed /\ type \in Asking)
<1>1. /\ npeer < MaxPeer /\ npeer' = npeer + 1
      /\ \E opcode \in Opcode \cup {"none"} : rx' = Append(rx, Air(type, opcode, "none", 0))
      /\ owed' = (owed \/ asks) /\ strayed' = (strayed \/ breaks)
      /\ UNCHANGED <<io, req_queue, ind_queue, write_queue, pending_req, pending_ind, writer_active, in_req,
                     next_send_id, track_ids, timers, security, outcome, tx>>
  BY DEF PeerSends, Local, queues, pending, ids
<1> HIDE DEF asks, breaks
<1>2. PICK opcode \in Opcode \cup {"none"} : rx' = Append(rx, Air(type, opcode, "none", 0))
  BY <1>1
<1> DEFINE p == Air(type, opcode, "none", 0)
<1>3. p \in Pdu /\ rx \in Seq(Pdu)
  BY BearerAssumption DEF Air, Pdu, TypeInv, BearerTypeOK
<1> HIDE DEF p
<1>4. rx' = Append(rx, p)
  BY <1>2 DEF p
<1>5. rx' \in Seq(Pdu)
  BY <1>3, <1>4
<1>6. npeer \in Nat /\ npeer' \in 0 .. MaxPeer
  BY <1>1, BearerAssumption DEF TypeInv, BearerTypeOK
<1>7. owed' \in BOOLEAN /\ strayed' \in BOOLEAN
  BY <1>1
<1>8. BearerTypeOK'
  BY <1>1, <1>5, <1>6, <1>7 DEF TypeInv, BearerTypeOK
<1>9. Sorted'
  BY <1>1 DEF TypeInv, Sorted
<1>10. Room'
  <2>1. Cardinality(At(rx', Answerable)) =
          Cardinality(At(rx, Answerable)) + (IF p.type \in Answerable THEN 1 ELSE 0)
    BY <1>3, <1>4, AtAppend
  <2>2. Cardinality(At(rx, Answerable)) \in Nat
    BY RoomLeft
  <2> QED BY <1>1, <1>6, <2>1, <2>2, BearerAssumption DEF TypeInv, BearerTypeOK, Room
<1> QED BY <1>8, <1>9, <1>10 DEF TypeInv

LEMMA StutterType ==
  ASSUME TypeInv, UNCHANGED bearer
  PROVE  TypeInv'
<1> USE DEF bearer, queues, pending, ids, remote
<1>1. BearerTypeOK'
  BY DEF TypeInv, BearerTypeOK
<1>2. Sorted' /\ Room'
  BY DEF TypeInv, Sorted, Room
<1> QED BY <1>1, <1>2 DEF TypeInv

LEMMA NextType ==
  ASSUME TypeInv, [BearerNext]_bearer
  PROVE  TypeInv'
<1>1. CASE Writer
  BY <1>1, WriteQueuedType, WriteAwaitedType, WriterStopsType, WriteFailsType DEF Writer
<1>2. CASE Reader
  BY <1>2, ShutType, RetryType, HandleRspType, HandleConfType, HandlePduType DEF Reader
<1>3. CASE \E t \in timers : Timeout(t)
  BY <1>3, TimeoutType
<1>4. CASE DisconnectCb \/ Free
  BY <1>4, CloseType
<1>5. CASE LinkLoss
  BY <1>5, ShutType
<1>6. CASE \E opcode \in Opcode : Send("REQ", opcode)
  BY <1>6, SendType DEF Send
<1>7. CASE \E type \in Kinds \ {"REQ"} : Send(type, "none")
  BY <1>7, SendType
<1>8. CASE (\E id \in track_ids : Cancel(id)) \/ CancelAll
  BY <1>8, CancelledType DEF Cancel, CancelAll
<1>9. CASE Peripheral
  BY <1>9, PeerAnswersType, PeerTakesType, PeerSendsType DEF Peripheral
<1>10. CASE UNCHANGED bearer
  BY <1>10, StutterType
<1> QED BY <1>1, <1>2, <1>3, <1>4, <1>5, <1>6, <1>7, <1>8, <1>9, <1>10 DEF BearerNext, Above

\* The variables of a bearer keep their types: no operation gets a number above
\* the bound, none is transmitted more than three times, and each queue holds
\* operations of its own kinds.
THEOREM BearerTypeCorrect == BearerSpec => []TypeInv
<1>1. TypeInv /\ [BearerNext]_bearer => TypeInv'
  BY NextType
<1> QED BY <1>1, BearerInitType, PTL DEF BearerSpec

-----------------------------------------------------------------------------
(* Every operation in its one place.                                        *)

Nums(queue) == {a.id : a \in Ops(queue)}

\* the books, over the numbers in the five places
Balanced(r, i, w, p, q, live, tracked, next) ==
  /\ r \cap i = {} /\ r \cap w = {} /\ r \cap p = {} /\ r \cap q = {} /\ i \cap w = {}
  /\ i \cap p = {} /\ i \cap q = {} /\ w \cap p = {} /\ w \cap q = {} /\ p \cap q = {}
  /\ live \subseteq r \cup i \cup w \cup p \cup q
  /\ i \subseteq live /\ w \subseteq live
  /\ tracked = live \cap (r \cup i \cup p \cup q)
  /\ \A k \in r \cup i \cup w \cup p \cup q : k < next

Accounts ==
  /\ Unique(req_queue) /\ Unique(ind_queue) /\ Unique(write_queue)
  /\ \A a \in Ops(req_queue) : a.try = 0 => a.id \in Live
  /\ Balanced(Nums(req_queue), Nums(ind_queue), Nums(write_queue), Under(pending_req), Under(pending_ind),
              Live, track_ids, next_send_id)

LEMMA NumsOps ==
  ASSUME NEW q, NEW i
  PROVE  i \in Nums(q) <=> \E a \in Ops(q) : a.id = i
  BY DEF Nums

LEMMA NumsEmpty == Nums(<<>>) = {}
  BY OpsEmpty DEF Nums

LEMMA NumsAppend ==
  ASSUME NEW S, NEW q \in Seq(S), NEW e \in S
  PROVE  /\ Nums(Append(q, e)) = Nums(q) \cup {e.id}
         /\ Unique(q) /\ e.id \notin Nums(q) => Unique(Append(q, e))
<1>1. Ops(Append(q, e)) = Ops(q) \cup {e}
  BY OpsAppend
<1>2. e.id \notin Nums(q) => \A a \in Ops(q) : a.id # e.id
  BY DEF Nums
<1> QED BY <1>1, <1>2, OpsAppend DEF Nums

LEMMA NumsCons ==
  ASSUME NEW S, NEW q \in Seq(S), NEW e \in S
  PROVE  /\ Nums(<<e>> \o q) = Nums(q) \cup {e.id}
         /\ Unique(q) /\ e.id \notin Nums(q) => Unique(<<e>> \o q)
<1>1. Ops(<<e>> \o q) = Ops(q) \cup {e}
  BY OpsCons
<1>2. e.id \notin Nums(q) => \A a \in Ops(q) : a.id # e.id
  BY DEF Nums
<1> QED BY <1>1, <1>2, OpsCons DEF Nums

LEMMA NumsTail ==
  ASSUME NEW S, NEW q \in Seq(S), q # <<>>, Unique(q)
  PROVE  /\ Unique(Tail(q)) /\ Head(q).id \in Nums(q)
         /\ Nums(Tail(q)) = Nums(q) \ {Head(q).id}
<1>1. /\ Head(q) \in Ops(q) /\ Ops(q) = {Head(q)} \cup Ops(Tail(q))
      /\ Unique(Tail(q)) /\ \A a \in Ops(Tail(q)) : a.id # Head(q).id
  BY OpsTail
<1> QED BY <1>1 DEF Nums

LEMMA NumsWithout ==
  ASSUME NEW S, NEW q \in Seq(S), NEW gone, NEW t \in Without(q, gone)
  PROVE  /\ Nums(t) = Nums(q) \ gone
         /\ Unique(q) => Unique(t)
<1>1. Ops(t) = {a \in Ops(q) : a.id \notin gone} /\ (Unique(q) => Unique(t))
  BY OpsWithout
<1> QED BY <1>1 DEF Nums

\* Which operations are live after some ended and one began.
LEMMA LiveAfter ==
  ASSUME TypeInv, NEW ended, NEW how, how # "live" \/ ended = {},
         NEW new, new = NoOp \/ (new.id \in Id /\ new # NoOp /\ new.id \notin ended),
         Ended(ended, how, new)
  PROVE  Live' = (Live \ ended) \cup Under(new)
<1>1. \A i \in Id : outcome'[i] = IF i \in ended THEN how ELSE IF i = new.id THEN "live" ELSE outcome[i]
  BY DEF Ended
<1>2. CASE new = NoOp
  <2>1. \A i \in Id : i # new.id
    BY <1>2, NoOpFacts
  <2> QED BY <1>1, <1>2, <2>1 DEF Live, Under
<1>3. CASE new.id \in Id /\ new # NoOp /\ new.id \notin ended
  BY <1>1, <1>3 DEF Live, Under
<1> QED BY <1>2, <1>3

\* Where bt_att_send puts a new operation.
LEMMA EnqueueNums ==
  ASSUME TypeInv, Accounts, NEW new, new \in SendOp, new.id = next_send_id, Enqueue(new)
  PROVE  /\ Unique(req_queue') /\ Unique(ind_queue') /\ Unique(write_queue')
         /\ Nums(req_queue') = Nums(req_queue) \cup (IF new.type = "REQ" THEN {new.id} ELSE {})
         /\ Nums(ind_queue') = Nums(ind_queue) \cup (IF new.type = "IND" THEN {new.id} ELSE {})
         /\ Nums(write_queue') = Nums(write_queue) \cup (IF ~HasCallback(new) THEN {new.id} ELSE {})
         /\ Ops(req_queue') \subseteq Ops(req_queue) \cup {new}
         /\ next_send_id' = next_send_id + 1
<1>1. new # NoOp
  BY NoOpFacts
<1>2. new.id \notin Nums(req_queue) \cup Nums(ind_queue) \cup Nums(write_queue)
  <2>1. \A k \in Nums(req_queue) \cup Nums(ind_queue) \cup Nums(write_queue) : k < next_send_id
    BY DEF Accounts, Balanced
  <2>2. next_send_id \in Nat /\ ~(next_send_id < next_send_id)
    BY DEF TypeInv, BearerTypeOK
  <2> QED BY <2>1, <2>2
<1>3. req_queue \in Seq(SendOp) /\ ind_queue \in Seq(SendOp) /\ write_queue \in Seq(SendOp)
        /\ Unique(req_queue) /\ Unique(ind_queue) /\ Unique(write_queue)
  BY DEF TypeInv, BearerTypeOK, Accounts
<1>4. next_send_id' = next_send_id + 1
  BY <1>1 DEF Enqueue
<1>5. CASE new.type = "REQ"
  <2>1. req_queue' = Append(req_queue, new) /\ UNCHANGED <<ind_queue, write_queue>> /\ HasCallback(new)
    BY <1>5 DEF Enqueue, HasCallback
  <2> QED BY <1>2, <1>3, <1>4, <1>5, <2>1, NumsAppend, OpsAppend
<1>6. CASE new.type = "IND"
  <2>1. ind_queue' = Append(ind_queue, new) /\ UNCHANGED <<req_queue, write_queue>> /\ HasCallback(new)
    BY <1>6 DEF Enqueue, HasCallback
  <2> QED BY <1>2, <1>3, <1>4, <1>6, <2>1, NumsAppend
<1>7. CASE new.type \notin {"REQ", "IND"}
  <2>1. write_queue' = Append(write_queue, new) /\ UNCHANGED <<req_queue, ind_queue>> /\ ~HasCallback(new)
    BY <1>1, <1>7 DEF Enqueue, HasCallback
  <2> QED BY <1>2, <1>3, <1>4, <1>7, <2>1, NumsAppend
<1> QED BY <1>5, <1>6, <1>7

LEMMA NextFresh ==
  ASSUME TypeInv, Accounts
  PROVE  /\ next_send_id \notin Nums(req_queue) \cup Nums(ind_queue) \cup Nums(write_queue)
                                  \cup Under(pending_req) \cup Under(pending_ind)
         /\ next_send_id \notin Live
<1>1. next_send_id \in Nat /\ ~(next_send_id < next_send_id)
  BY DEF TypeInv, BearerTypeOK
<1> QED BY <1>1 DEF Accounts, Balanced

\* Numbers that were below next_send_id are below its successor.
LEMMA StillBelow ==
  ASSUME TypeInv, Accounts, next_send_id' = next_send_id + 1
  PROVE  /\ \A k \in Nums(req_queue) \cup Nums(ind_queue) \cup Nums(write_queue)
                       \cup Under(pending_req) \cup Under(pending_ind) : k < next_send_id'
         /\ next_send_id < next_send_id'
<1>1. next_send_id \in Nat
  BY DEF TypeInv, BearerTypeOK
<1>2. \A op \in SendOp : op.id \in Nat
  BY NoOpFacts
<1>3. \A k \in Nums(req_queue) \cup Nums(ind_queue) \cup Nums(write_queue)
                 \cup Under(pending_req) \cup Under(pending_ind) : k \in Nat /\ k < next_send_id
  <2>1. \A op \in Ops(req_queue) \cup Ops(ind_queue) \cup Ops(write_queue) : op.id \in Nat
    BY <1>2 DEF TypeInv, BearerTypeOK, Ops
  <2>2. \A k \in Under(pending_req) \cup Under(pending_ind) : k \in Nat
    BY <1>2 DEF TypeInv, BearerTypeOK, Under
  <2>3. \A k \in Nums(req_queue) \cup Nums(ind_queue) \cup Nums(write_queue) : k \in Nat
    BY <2>1 DEF Nums
  <2> QED BY <2>2, <2>3 DEF Accounts, Balanced
<1> QED BY <1>1, <1>3

LEMMA SendAccounts ==
  ASSUME TypeInv, Accounts, NEW type \in Kinds, NEW opcode \in Opcode \cup {"none"}, Send(type, opcode)
  PROVE  Accounts'
<1> DEFINE new == NewOp(type, opcode)
<1>1. type \in OpType /\ next_send_id \in Id
  BY RoomLeft, BearerAssumption DEF Send, OpType
<1>2. new \in SendOp /\ new.id = next_send_id /\ new.try = 0 /\ new # NoOp
  BY <1>1, NewOpType, NoOpFacts
<1>3. /\ Enqueue(new) /\ Ended({}, "live", new)
      /\ track_ids' = (IF HasCallback(new) THEN track_ids \cup {new.id} ELSE track_ids)
      /\ UNCHANGED <<pending_req, pending_ind>>
  BY DEF Send, pending
<1> HIDE DEF new
<1>4. Live' = Live \cup {next_send_id}
  <2>1. Under(new) = {next_send_id}
    BY <1>2 DEF Under
  <2>2. Live' = (Live \ {}) \cup Under(new)
    BY <1>1, <1>2, <1>3, LiveAfter
  <2> QED BY <2>1, <2>2
<1>5. \A a \in Ops(req_queue') : a.try = 0 => a.id \in Live'
  BY <1>2, <1>3, <1>4, EnqueueNums DEF Accounts
<1>6. Under(pending_req') = Under(pending_req) /\ Under(pending_ind') = Under(pending_ind)
  BY <1>3
<1> DEFINE r == Nums(req_queue)
           i == Nums(ind_queue)
           w == Nums(write_queue)
           p == Under(pending_req)
           q == Under(pending_ind)
<1>7. Balanced(Nums(req_queue'), Nums(ind_queue'), Nums(write_queue'), p, q, Live', track_ids', next_send_id')
  <2>1. Balanced(r, i, w, p, q, Live, track_ids, next_send_id)
    BY DEF Accounts
  <2>2. /\ Nums(req_queue') = r \cup (IF new.type = "REQ" THEN {next_send_id} ELSE {})
        /\ Nums(ind_queue') = i \cup (IF new.type = "IND" THEN {next_send_id} ELSE {})
        /\ Nums(write_queue') = w \cup (IF ~HasCallback(new) THEN {next_send_id} ELSE {})
    BY <1>2, <1>3, EnqueueNums
  <2>3. next_send_id \notin r \cup i \cup w \cup p \cup q /\ next_send_id \notin Live
    BY NextFresh
  <2>4. \A k \in r \cup i \cup w \cup p \cup q \cup {next_send_id} : k < next_send_id'
    BY <1>2, <1>3, EnqueueNums, StillBelow
  <2>5. HasCallback(new) <=> new.type \in {"REQ", "IND"}
    BY DEF HasCallback
  <2> HIDE DEF r, i, w, p, q
  <2>6. CASE new.type = "REQ"
    <3>1. /\ Nums(req_queue') = r \cup {next_send_id} /\ Nums(ind_queue') = i /\ Nums(write_queue') = w
          /\ track_ids' = track_ids \cup {next_send_id}
      BY <1>2, <1>3, <2>2, <2>5, <2>6
    <3> QED BY <1>4, <2>1, <2>3, <2>4, <3>1 DEF Balanced
  <2>7. CASE new.type = "IND"
    <3>1. /\ Nums(req_queue') = r /\ Nums(ind_queue') = i \cup {next_send_id} /\ Nums(write_queue') = w
          /\ track_ids' = track_ids \cup {next_send_id}
      BY <1>2, <1>3, <2>2, <2>5, <2>7
    <3> QED BY <1>4, <2>1, <2>3, <2>4, <3>1 DEF Balanced
  <2>8. CASE new.type \notin {"REQ", "IND"}
    <3>1. /\ Nums(req_queue') = r /\ Nums(ind_queue') = i /\ Nums(write_queue') = w \cup {next_send_id}
          /\ track_ids' = track_ids
      BY <1>2, <1>3, <2>2, <2>5, <2>8
    <3> QED BY <1>4, <2>1, <2>3, <2>4, <3>1 DEF Balanced
  <2> QED BY <2>6, <2>7, <2>8
<1> QED BY <1>2, <1>3, <1>5, <1>6, <1>7, EnqueueNums DEF Accounts

\* The writer takes the head of a queue.
LEMMA PopNums ==
  ASSUME TypeInv, Accounts, NEW which, which = Pick, which # "nothing", Pop(which)
  PROVE  /\ Unique(req_queue') /\ Unique(ind_queue') /\ Unique(write_queue')
         /\ Ops(req_queue') \subseteq Ops(req_queue)
         /\ Picked(which).id \in CASE which = "write" -> Nums(write_queue)
                                   [] which = "req" -> Nums(req_queue)
                                   [] which = "ind" -> Nums(ind_queue)
         /\ Nums(req_queue') = Nums(req_queue) \ (IF which = "req" THEN {Picked(which).id} ELSE {})
         /\ Nums(ind_queue') = Nums(ind_queue) \ (IF which = "ind" THEN {Picked(which).id} ELSE {})
         /\ Nums(write_queue') = Nums(write_queue) \ (IF which = "write" THEN {Picked(which).id} ELSE {})
<1>1. req_queue \in Seq(SendOp) /\ ind_queue \in Seq(SendOp) /\ write_queue \in Seq(SendOp)
        /\ Unique(req_queue) /\ Unique(ind_queue) /\ Unique(write_queue)
  BY DEF TypeInv, BearerTypeOK, Accounts
<1>2. CASE which = "write"
  <2>1. write_queue # <<>> /\ Picked(which).id = Head(write_queue).id
    BY <1>2, PickFinds, PickedType
  <2>2. write_queue' = Tail(write_queue) /\ UNCHANGED <<req_queue, ind_queue>>
    BY <1>2 DEF Pop
  <2> QED BY <1>1, <1>2, <2>1, <2>2, NumsTail
<1>3. CASE which = "req"
  <2>1. req_queue # <<>> /\ Picked(which).id = Head(req_queue).id
    BY <1>3, PickFinds, PickedType
  <2>2. req_queue' = Tail(req_queue) /\ UNCHANGED <<write_queue, ind_queue>>
    BY <1>3 DEF Pop
  <2> QED BY <1>1, <1>3, <2>1, <2>2, NumsTail, OpsTail
<1>4. CASE which = "ind"
  <2>1. ind_queue # <<>> /\ Picked(which).id = Head(ind_queue).id
    BY <1>4, PickFinds, PickedType
  <2>2. ind_queue' = Tail(ind_queue) /\ UNCHANGED <<write_queue, req_queue>>
    BY <1>4 DEF Pop
  <2> QED BY <1>1, <1>4, <2>1, <2>2, NumsTail
<1> QED BY <1>2, <1>3, <1>4, PickFinds

\* An operation that the writer took off its queue has ended.
LEMMA TakenAccounts ==
  ASSUME TypeInv, Accounts, NEW which, which = Pick, which # "nothing", Pop(which),
         NEW ended, ended = {Picked(which).id} \cap Live, NEW how, how # "live",
         \/ Ended({Picked(which).id}, how, NoOp) \/ Ended(ended, how, NoOp),
         track_ids' = track_ids \ {Picked(which).id},
         UNCHANGED <<pending_req, pending_ind, next_send_id>>
  PROVE  Accounts'
<1> DEFINE r == Nums(req_queue)
           i == Nums(ind_queue)
           w == Nums(write_queue)
           p == Under(pending_req)
           q == Under(pending_ind)
           n == Picked(which).id
<1>1. Live' = Live \ {n}
  <2>1. Live' = (Live \ {n}) \cup Under(NoOp) \/ Live' = (Live \ ended) \cup Under(NoOp)
    BY LiveAfter
  <2> QED BY <2>1 DEF Under
<1>2. Balanced(r, i, w, p, q, Live, track_ids, next_send_id)
  BY DEF Accounts
<1>3. n \in (CASE which = "write" -> w [] which = "req" -> r [] which = "ind" -> i)
        /\ which \in {"write", "req", "ind"}
        /\ track_ids' = track_ids \ {n}
  BY PopNums, PickFinds
<1>4. /\ Nums(req_queue') = r \ (IF which = "req" THEN {n} ELSE {})
      /\ Nums(ind_queue') = i \ (IF which = "ind" THEN {n} ELSE {})
      /\ Nums(write_queue') = w \ (IF which = "write" THEN {n} ELSE {})
      /\ Under(pending_req') = p /\ Under(pending_ind') = q
  BY PopNums
<1>5. \A a \in Ops(req_queue') : a.try = 0 => a.id \in Live'
  <2>1. Ops(req_queue') \subseteq Ops(req_queue) /\ \A a \in Ops(req_queue') : a.id # n
    <3>1. \A a \in Ops(req_queue') : a.id \in Nums(req_queue')
      BY DEF Nums
    <3>2. n \notin Nums(req_queue')
      <4> HIDE DEF r, i, w, p, q, n
      <4>1. CASE which = "req"
        BY <1>4, <4>1
      <4>2. CASE which = "write"
        BY <1>2, <1>3, <1>4, <4>2 DEF Balanced
      <4>3. CASE which = "ind"
        BY <1>2, <1>3, <1>4, <4>3 DEF Balanced
      <4> QED BY <1>3, <4>1, <4>2, <4>3
    <3> QED BY <3>1, <3>2, PopNums
  <2> QED BY <1>1, <2>1 DEF Accounts
<1>6. Balanced(Nums(req_queue'), Nums(ind_queue'), Nums(write_queue'), p, q, Live', track_ids', next_send_id)
  <2> HIDE DEF r, i, w, p, q, n
  <2>1. CASE which = "write"
    <3>1. n \in w /\ Nums(req_queue') = r /\ Nums(ind_queue') = i /\ Nums(write_queue') = w \ {n}
      BY <1>3, <1>4, <2>1
    <3> QED BY <1>1, <1>2, <1>3, <3>1 DEF Balanced
  <2>2. CASE which = "req"
    <3>1. n \in r /\ Nums(req_queue') = r \ {n} /\ Nums(ind_queue') = i /\ Nums(write_queue') = w
      BY <1>3, <1>4, <2>2
    <3> QED BY <1>1, <1>2, <1>3, <3>1 DEF Balanced
  <2>3. CASE which = "ind"
    <3>1. n \in i /\ Nums(req_queue') = r /\ Nums(ind_queue') = i \ {n} /\ Nums(write_queue') = w
      BY <1>3, <1>4, <2>3
    <3> QED BY <1>1, <1>2, <1>3, <3>1 DEF Balanced
  <2> QED BY <1>3, <2>1, <2>2, <2>3
<1> QED BY <1>4, <1>5, <1>6, PopNums DEF Accounts

LEMMA WriteQueuedAccounts ==
  ASSUME TypeInv, Accounts, WriteQueued
  PROVE  Accounts'
<1>1. /\ Pick = "write" /\ Pop("write") /\ Ended({Picked("write").id}, "written", NoOp)
      /\ UNCHANGED <<pending_req, pending_ind, next_send_id, track_ids>>
  BY DEF WriteQueued, pending, ids
<1>2. track_ids' = track_ids \ {Picked("write").id}
  BY <1>1, PopNums DEF Accounts, Balanced
<1> QED BY <1>1, <1>2, TakenAccounts

LEMMA WriteFailsAccounts ==
  ASSUME TypeInv, Accounts, WriteFails
  PROVE  Accounts'
<1> DEFINE how == IF HasCallback(Picked(Pick)) THEN "failed" ELSE "dropped"
           ended == {Picked(Pick).id} \cap Live
<1>1. /\ Pick # "nothing" /\ Pop(Pick) /\ Ended(ended, how, NoOp)
      /\ track_ids' = track_ids \ {Picked(Pick).id}
      /\ UNCHANGED <<pending_req, pending_ind, next_send_id>>
  BY DEF WriteFails, pending
<1>2. how # "live"
  OBVIOUS
<1> QED BY <1>1, <1>2, TakenAccounts

LEMMA WriteAwaitedAccounts ==
  ASSUME TypeInv, Accounts, NEW which \in {"req", "ind"}, WriteAwaited(which)
  PROVE  Accounts'
<1> DEFINE r == Nums(req_queue)
           i == Nums(ind_queue)
           w == Nums(write_queue)
           p == Under(pending_req)
           q == Under(pending_ind)
           n == Picked(which).id
<1>1. /\ Pick = which /\ Pop(which)
      /\ pending_req' = (IF which = "req" THEN Picked(which) ELSE pending_req)
      /\ pending_ind' = (IF which = "ind" THEN Picked(which) ELSE pending_ind)
      /\ UNCHANGED <<next_send_id, track_ids, outcome>>
  BY DEF WriteAwaited, ids
<1>2. Live' = Live
  BY <1>1 DEF Live
<1>3. Balanced(r, i, w, p, q, Live, track_ids, next_send_id)
  BY DEF Accounts
<1>4. Ops(req_queue') \subseteq Ops(req_queue)
  BY <1>1, PopNums
<1>5. Picked(which) # NoOp
  BY <1>1, PickedType, NoOpFacts
<1>6. CASE which = "req"
  <2>1. /\ n \in r /\ Nums(req_queue') = r \ {n} /\ Nums(ind_queue') = i /\ Nums(write_queue') = w
    BY <1>1, <1>6, PopNums
  <2>2. p = {} /\ Under(pending_req') = {n} /\ Under(pending_ind') = q
    BY <1>1, <1>5, <1>6, PickFinds DEF Under
  <2> HIDE DEF r, i, w, p, q, n
  <2>3. Balanced(Nums(req_queue'), Nums(ind_queue'), Nums(write_queue'), Under(pending_req'), Under(pending_ind'),
                 Live, track_ids, next_send_id)
    BY <1>3, <2>1, <2>2 DEF Balanced
  <2> QED BY <1>1, <1>2, <1>4, <2>3, PopNums DEF Accounts
<1>7. CASE which = "ind"
  <2>1. /\ n \in i /\ Nums(req_queue') = r /\ Nums(ind_queue') = i \ {n} /\ Nums(write_queue') = w
    BY <1>1, <1>7, PopNums
  <2>2. q = {} /\ Under(pending_ind') = {n} /\ Under(pending_req') = p
    BY <1>1, <1>5, <1>7, PickFinds DEF Under
  <2> HIDE DEF r, i, w, p, q, n
  <2>3. Balanced(Nums(req_queue'), Nums(ind_queue'), Nums(write_queue'), Under(pending_req'), Under(pending_ind'),
                 Live, track_ids, next_send_id)
    BY <1>3, <2>1, <2>2 DEF Balanced
  <2> QED BY <1>1, <1>2, <1>4, <2>3, PopNums DEF Accounts
<1> QED BY <1>6, <1>7

\* What leaves queues, pending operations, numbers and outcomes alone.
LEMMA SameAccounts ==
  ASSUME Accounts, UNCHANGED <<queues, pending, ids, outcome>>
  PROVE  Accounts'
<1>1. Live' = Live
  BY DEF Live
<1> QED BY <1>1 DEF Accounts, queues, pending, ids

LEMMA RetryAccounts ==
  ASSUME TypeInv, Accounts, RetryRequest
  PROVE  Accounts'
<1> DEFINE op == pending_req
<1>1. /\ op # NoOp /\ op \in SendOp /\ op.try > 0
      /\ req_queue' = <<op>> \o req_queue /\ pending_req' = NoOp
      /\ UNCHANGED <<ind_queue, write_queue, pending_ind, next_send_id, track_ids, outcome>>
  BY DEF RetryRequest, Retried, ids, TypeInv, BearerTypeOK, Sorted, LOW, MEDIUM, HIGH
<1>2. Live' = Live
  BY <1>1 DEF Live
<1>3. /\ op.id \notin Nums(req_queue)
      /\ Under(pending_req) = {op.id} /\ Under(pending_req') = {}
  BY <1>1 DEF Accounts, Balanced, Under
<1> HIDE DEF op
<1>4. /\ Nums(req_queue') = Nums(req_queue) \cup {op.id} /\ Unique(req_queue')
      /\ Ops(req_queue') = Ops(req_queue) \cup {op}
  BY <1>1, <1>3, NumsCons, OpsCons DEF TypeInv, BearerTypeOK, Accounts
<1>5. \A a \in Ops(req_queue') : a.try = 0 => a.id \in Live'
  BY <1>1, <1>2, <1>4 DEF Accounts
<1>6. Balanced(Nums(req_queue'), Nums(ind_queue), Nums(write_queue), {}, Under(pending_ind), Live, track_ids,
               next_send_id)
  <2> DEFINE r == Nums(req_queue)
             i == Nums(ind_queue)
             w == Nums(write_queue)
             q == Under(pending_ind)
  <2>1. Balanced(r, i, w, {op.id}, q, Live, track_ids, next_send_id) /\ Nums(req_queue') = r \cup {op.id}
    BY <1>3, <1>4 DEF Accounts
  <2> HIDE DEF r, i, w, q
  <2>2. Balanced(Nums(req_queue'), i, w, {}, q, Live, track_ids, next_send_id)
    BY <2>1 DEF Balanced
  <2> QED BY <2>2 DEF r, i, w, q
<1> QED BY <1>1, <1>2, <1>3, <1>4, <1>5, <1>6 DEF Accounts

\* A pending request has ended; its callback may have sent another.
LEMMA HandleRspAccounts ==
  ASSUME TypeInv, Accounts, NEW next \in Opcode \cup {"none"}, HandleRsp(next)
  PROVE  Accounts'
<1> DEFINE op == pending_req
           new == IF next = "none" THEN NoOp ELSE NewOp("REQ", next)
           ended == IF op.id \in Live THEN {op.id} ELSE {}
           how == ResultOf(op, Head(rx))
           r == Nums(req_queue)
           i == Nums(ind_queue)
           w == Nums(write_queue)
           q == Under(pending_ind)
<1>1. /\ op # NoOp
      /\ next # "none" => next_send_id <= MaxOps
      /\ Enqueue(new) /\ Ended(ended, how, new)
      /\ track_ids' = (track_ids \ {op.id}) \cup Under(new)
      /\ pending_req' = NoOp /\ UNCHANGED pending_ind
  BY DEF HandleRsp
<1>2. how # "live"
  BY ResultOfType
<1>3. /\ next = "none" => new = NoOp /\ Under(new) = {}
      /\ next # "none" => /\ new \in SendOp /\ new.id = next_send_id /\ new.try = 0 /\ new.type = "REQ"
                          /\ new # NoOp /\ Under(new) = {next_send_id} /\ next_send_id \in Id
  BY <1>1, FollowUp
<1>4. /\ Under(pending_req) = {op.id} /\ Under(pending_req') = {} /\ Under(pending_ind') = q
      /\ Balanced(r, i, w, {op.id}, q, Live, track_ids, next_send_id)
  BY <1>1 DEF Under, Accounts
<1>5. next_send_id # op.id /\ next_send_id \notin r \cup i \cup w \cup q
  BY <1>4, NextFresh
<1>6. op.id \notin r
  BY <1>4 DEF Balanced
<1> HIDE DEF op, new, how
<1>7. Live' = (Live \ {op.id}) \cup Under(new)
  <2>1. new = NoOp \/ (new.id \in Id /\ new # NoOp /\ new.id \notin ended)
    BY <1>3, <1>5
  <2>2. Live' = (Live \ ended) \cup Under(new)
    BY <1>1, <1>2, <2>1, LiveAfter
  <2> QED BY <2>2
<1>8. CASE next = "none"
  <2>1. UNCHANGED <<req_queue, ind_queue, write_queue, next_send_id>>
    BY <1>1, <1>3, <1>8 DEF Enqueue, NoOp, HasCallback
  <2>2. \A a \in Ops(req_queue') : a.try = 0 => a.id \in Live'
    <3>1. \A a \in Ops(req_queue) : a.id # op.id
      BY <1>6 DEF Nums
    <3> QED BY <1>7, <2>1, <3>1 DEF Accounts
  <2>3. Balanced(r, i, w, {}, q, Live', track_ids', next_send_id)
    <3> HIDE DEF r, i, w, q
    <3> QED BY <1>1, <1>3, <1>4, <1>7, <1>8 DEF Balanced
  <2> QED BY <1>4, <2>1, <2>2, <2>3 DEF Accounts
<1>9. CASE next # "none"
  <2>1. /\ Unique(req_queue') /\ Unique(ind_queue') /\ Unique(write_queue')
        /\ Nums(req_queue') = r \cup {next_send_id} /\ Nums(ind_queue') = i /\ Nums(write_queue') = w
        /\ Ops(req_queue') \subseteq Ops(req_queue) \cup {new}
        /\ next_send_id' = next_send_id + 1
    <3>1. new \in SendOp /\ new.id = next_send_id /\ new.type = "REQ" /\ Enqueue(new)
      BY <1>1, <1>3, <1>9
    <3>2. HasCallback(new) /\ new.type # "IND"
      BY <3>1 DEF HasCallback
    <3> QED BY <3>1, <3>2, EnqueueNums
  <2>2. \A a \in Ops(req_queue') : a.try = 0 => a.id \in Live'
    <3>1. \A a \in Ops(req_queue) : a.id # op.id
      BY <1>6 DEF Nums
    <3>2. \A a \in Ops(req_queue) : a.try = 0 => a.id \in Live
      BY DEF Accounts
    <3>3. new.id \in Live'
      BY <1>3, <1>7, <1>9
    <3> QED BY <1>7, <2>1, <3>1, <3>2, <3>3
  <2>3. \A k \in r \cup i \cup w \cup q \cup {next_send_id} : k < next_send_id'
    BY <2>1, StillBelow
  <2>4. next_send_id \notin Live
    BY NextFresh
  <2>5. Balanced(r \cup {next_send_id}, i, w, {}, q, Live', track_ids', next_send_id')
    <3> HIDE DEF r, i, w, q
    <3> QED BY <1>1, <1>3, <1>4, <1>5, <1>7, <1>9, <2>3, <2>4 DEF Balanced
  <2> QED BY <1>4, <2>1, <2>2, <2>5 DEF Accounts
<1> QED BY <1>8, <1>9

\* A pending operation has ended, and nothing began.
LEMMA EndsAccounts ==
  ASSUME TypeInv, Accounts, NEW n, NEW ended, ended = {n} \cap Live, NEW how, how # "live", Ended(ended, how, NoOp),
         track_ids' = track_ids \ {n},
         \/ Under(pending_req) = {n} /\ pending_req' = NoOp /\ UNCHANGED pending_ind
         \/ Under(pending_ind) = {n} /\ pending_ind' = NoOp /\ UNCHANGED pending_req,
         UNCHANGED <<req_queue, ind_queue, write_queue, next_send_id>>
  PROVE  Accounts'
<1> DEFINE r == Nums(req_queue)
           i == Nums(ind_queue)
           w == Nums(write_queue)
           p == Under(pending_req)
           q == Under(pending_ind)
<1>1. Live' = Live \ {n}
  <2>1. Live' = (Live \ ended) \cup Under(NoOp)
    BY LiveAfter
  <2> QED BY <2>1 DEF Under
<1>2. Balanced(r, i, w, p, q, Live, track_ids, next_send_id)
  BY DEF Accounts
<1>3. \/ p = {n} /\ Under(pending_req') = {} /\ Under(pending_ind') = q
      \/ q = {n} /\ Under(pending_ind') = {} /\ Under(pending_req') = p
  BY DEF Under
<1>4. \A a \in Ops(req_queue') : a.try = 0 => a.id \in Live'
  <2>1. n \notin r
    <3> HIDE DEF r, i, w, p, q
    <3> QED BY <1>2, <1>3 DEF Balanced
  <2>2. \A a \in Ops(req_queue) : a.id # n
    BY <2>1 DEF Nums
  <2> QED BY <1>1, <2>2 DEF Accounts
<1>5. Balanced(r, i, w, Under(pending_req'), Under(pending_ind'), Live', track_ids', next_send_id)
  <2> HIDE DEF r, i, w, p, q
  <2> QED BY <1>1, <1>2, <1>3 DEF Balanced
<1> QED BY <1>4, <1>5 DEF Accounts

LEMMA HandleConfAccounts ==
  ASSUME TypeInv, Accounts, HandleConf
  PROVE  Accounts'
<1> DEFINE ended == {pending_ind.id} \cap Live
<1>1. /\ pending_ind # NoOp /\ Ended(ended, "answered", NoOp)
      /\ track_ids' = track_ids \ {pending_ind.id} /\ pending_ind' = NoOp
      /\ UNCHANGED <<req_queue, ind_queue, write_queue, pending_req, next_send_id>>
  BY DEF HandleConf, queues
<1>2. Under(pending_ind) = {pending_ind.id}
  BY <1>1 DEF Under
<1> QED BY <1>1, <1>2, EndsAccounts

LEMMA TimeoutAccounts ==
  ASSUME TypeInv, Accounts, NEW t \in timers, Timeout(t)
  PROVE  Accounts'
<1> DEFINE n == t[1]
           req == pending_req.id = n
           ind == ~req /\ pending_ind.id = n
           ends == req \/ ind
           ended == IF ends THEN {n} \cap Live ELSE {}
<1>1. /\ pending_req' = (IF req THEN NoOp ELSE pending_req)
      /\ pending_ind' = (IF ind THEN NoOp ELSE pending_ind)
      /\ Ended(ended, "dropped", NoOp)
      /\ track_ids' = (IF ends THEN track_ids \ {n} ELSE track_ids)
      /\ UNCHANGED <<req_queue, ind_queue, write_queue, next_send_id>>
  BY DEF Timeout, queues
<1>2. n \in Id /\ n # NoOp.id
  BY NoOpFacts DEF TypeInv, BearerTypeOK
<1>3. CASE req
  <2>1. Under(pending_req) = {n} /\ pending_req' = NoOp /\ UNCHANGED pending_ind
    BY <1>1, <1>2, <1>3 DEF Under
  <2>2. ended = {n} \cap Live /\ track_ids' = track_ids \ {n}
    BY <1>1, <1>3
  <2> HIDE DEF n, ended
  <2> QED BY <1>1, <2>1, <2>2, EndsAccounts
<1>4. CASE ind
  <2>1. Under(pending_ind) = {n} /\ pending_ind' = NoOp /\ UNCHANGED pending_req
    BY <1>1, <1>2, <1>4 DEF Under
  <2>2. ended = {n} \cap Live /\ track_ids' = track_ids \ {n}
    BY <1>1, <1>4
  <2> HIDE DEF n, ended
  <2> QED BY <1>1, <2>1, <2>2, EndsAccounts
<1>5. CASE ~ends
  <2>1. UNCHANGED <<pending_req, pending_ind, track_ids>> /\ Ended({}, "dropped", NoOp)
    BY <1>1, <1>5
  <2>2. Live' = Live
    <3>1. Live' = (Live \ {}) \cup Under(NoOp)
      BY <2>1, LiveAfter
    <3> QED BY <3>1 DEF Under
  <2> QED BY <1>1, <2>1, <2>2 DEF Accounts
<1> QED BY <1>3, <1>4, <1>5

LEMMA HandlePduAccounts ==
  ASSUME TypeInv, Accounts, HandlePdu
  PROVE  Accounts'
<1> DEFINE type == Head(rx).type
           new == Reply(type)
           r == Nums(req_queue)
           i == Nums(ind_queue)
           w == Nums(write_queue)
           p == Under(pending_req)
           q == Under(pending_ind)
           read == {"REQ", "MTU_REQ", "BAD_MTU_REQ", "CMD", "NOT", "IND", "UNKNOWN"}
<1>1. /\ Enqueue(new) /\ Ended({}, "live", new) /\ Arrives(read)
      /\ UNCHANGED <<pending_req, pending_ind, track_ids>>
  BY DEF HandlePdu, pending
<1>2. type \in Answerable => next_send_id \in Id
  BY <1>1, ArrivesRoom, RoomLeft
<1>3. /\ type \notin Answerable => new = NoOp
      /\ type \in Answerable => /\ new \in SendOp /\ new.id = next_send_id /\ new.try = 0 /\ new # NoOp
                                /\ new.type \in {"RSP", "CONF"}
  BY <1>2, ReplyType
<1> HIDE DEF type, new
<1>4. Live' = Live \cup Under(new)
  <2>1. Live' = (Live \ {}) \cup Under(new)
    BY <1>1, <1>2, <1>3, LiveAfter
  <2> QED BY <2>1
<1>5. CASE type \notin Answerable
  <2>1. UNCHANGED <<req_queue, ind_queue, write_queue, next_send_id>>
    BY <1>1, <1>3, <1>5 DEF Enqueue, NoOp, HasCallback
  <2>2. Live' = Live
    BY <1>3, <1>4, <1>5 DEF Under
  <2> QED BY <1>1, <2>1, <2>2 DEF Accounts
<1>6. CASE type \in Answerable
  <2>1. /\ Unique(req_queue') /\ Unique(ind_queue') /\ Unique(write_queue')
        /\ Nums(req_queue') = r /\ Nums(ind_queue') = i /\ Nums(write_queue') = w \cup {next_send_id}
        /\ next_send_id' = next_send_id + 1
    BY <1>1, <1>3, <1>6, EnqueueNums DEF HasCallback
  <2>2. req_queue' = req_queue
    BY <1>1, <1>3, <1>6 DEF Enqueue
  <2>3. Under(new) = {next_send_id}
    BY <1>3, <1>6 DEF Under
  <2>4. \A a \in Ops(req_queue') : a.try = 0 => a.id \in Live'
    BY <1>4, <2>2 DEF Accounts
  <2>5. \A k \in r \cup i \cup w \cup p \cup q \cup {next_send_id} : k < next_send_id'
    BY <2>1, StillBelow
  <2>6. next_send_id \notin Live /\ next_send_id \notin r \cup i \cup w \cup p \cup q
    BY NextFresh
  <2>7. Balanced(r, i, w, p, q, Live, track_ids, next_send_id)
    BY DEF Accounts
  <2>8. Under(pending_req') = p /\ Under(pending_ind') = q /\ track_ids' = track_ids
    BY <1>1
  <2>9. Balanced(r, i, w \cup {next_send_id}, p, q, Live', track_ids', next_send_id')
    <3> HIDE DEF r, i, w, p, q
    <3> QED BY <1>4, <2>3, <2>5, <2>6, <2>7, <2>8 DEF Balanced
  <2> QED BY <2>1, <2>4, <2>8, <2>9 DEF Accounts
<1> QED BY <1>5, <1>6

LEMMA CloseAccounts ==
  ASSUME DisconnectCb \/ Free
  PROVE  Accounts'
<1>1. /\ req_queue' = <<>> /\ ind_queue' = <<>> /\ write_queue' = <<>>
      /\ pending_req' = NoOp /\ pending_ind' = NoOp /\ track_ids' = {}
      /\ AllEnd("failed") \/ AllEnd("dropped")
  BY DEF DisconnectCb, Free, NothingHeld
<1>2. Live' = {}
  <2>1. ASSUME NEW i \in Id PROVE outcome'[i] # "live"
    BY <1>1 DEF AllEnd, Live
  <2> QED BY <2>1 DEF Live
<1>3. Nums(req_queue') = {} /\ Nums(ind_queue') = {} /\ Nums(write_queue') = {}
        /\ Under(pending_req') = {} /\ Under(pending_ind') = {}
  BY <1>1, NumsEmpty DEF Under
<1>4. Balanced({}, {}, {}, {}, {}, {}, {}, next_send_id')
  BY DEF Balanced
<1>5. Unique(req_queue') /\ Unique(ind_queue') /\ Unique(write_queue') /\ Ops(req_queue') = {}
  BY <1>1, OpsEmpty
<1> QED BY <1>1, <1>2, <1>3, <1>4, <1>5 DEF Accounts

LEMMA CancelledAccounts ==
  ASSUME TypeInv, Accounts, NEW gone \in SUBSET track_ids, Cancelled(gone)
  PROVE  Accounts'
<1> DEFINE r == Nums(req_queue)
           i == Nums(ind_queue)
           w == Nums(write_queue)
           p == Under(pending_req)
           q == Under(pending_ind)
<1>1. /\ track_ids' = track_ids \ gone
      /\ Ended(gone, "dropped", NoOp)
      /\ req_queue' \in Without(req_queue, gone) /\ ind_queue' \in Without(ind_queue, gone)
      /\ UNCHANGED <<write_queue, pending_req, pending_ind, next_send_id>>
  BY DEF Cancelled, pending
<1>2. Live' = Live \ gone
  <2>1. Live' = (Live \ gone) \cup Under(NoOp)
    BY <1>1, LiveAfter
  <2> QED BY <2>1 DEF Under
<1>3. /\ Nums(req_queue') = r \ gone /\ Unique(req_queue')
      /\ Nums(ind_queue') = i \ gone /\ Unique(ind_queue')
      /\ Ops(req_queue') = {a \in Ops(req_queue) : a.id \notin gone}
  BY <1>1, NumsWithout, OpsWithout DEF TypeInv, BearerTypeOK, Accounts
<1>4. \A a \in Ops(req_queue') : a.try = 0 => a.id \in Live'
  BY <1>2, <1>3 DEF Accounts
<1>5. Balanced(r, i, w, p, q, Live, track_ids, next_send_id)
  BY DEF Accounts
<1>6. Balanced(r \ gone, i \ gone, w, p, q, Live', track_ids', next_send_id)
  <2> HIDE DEF r, i, w, p, q
  <2> QED BY <1>1, <1>2, <1>5 DEF Balanced
<1> QED BY <1>1, <1>3, <1>4, <1>6 DEF Accounts

LEMMA NextAccounts ==
  ASSUME TypeInv, Accounts, [BearerNext]_bearer
  PROVE  Accounts'
<1>1. CASE Writer
  <2>1. CASE WriterStops
    BY <2>1, SameAccounts DEF WriterStops
  <2> QED BY <1>1, <2>1, WriteQueuedAccounts, WriteAwaitedAccounts, WriteFailsAccounts DEF Writer
<1>2. CASE UnexpectedRsp \/ UnexpectedConf \/ SecondRequest \/ HandleExecWrite \/ LinkLoss \/ UNCHANGED bearer
  BY <1>2, SameAccounts DEF UnexpectedRsp, UnexpectedConf, SecondRequest, HandleExecWrite, LinkLoss, bearer
<1>3. CASE Reader
  BY <1>2, <1>3, RetryAccounts, HandleRspAccounts, HandleConfAccounts, HandlePduAccounts DEF Reader
<1>4. CASE \E t \in timers : Timeout(t)
  BY <1>4, TimeoutAccounts
<1>5. CASE DisconnectCb \/ Free
  BY <1>5, CloseAccounts
<1>6. CASE \E opcode \in Opcode : Send("REQ", opcode)
  BY <1>6, SendAccounts DEF Send
<1>7. CASE \E type \in Kinds \ {"REQ"} : Send(type, "none")
  BY <1>7, SendAccounts
<1>8. CASE \E id \in track_ids : Cancel(id)
  <2>1. PICK id \in track_ids : Cancelled({id})
    BY <1>8 DEF Cancel
  <2> QED BY <2>1, CancelledAccounts
<1>9. CASE CancelAll
  BY <1>9, CancelledAccounts DEF CancelAll
<1>10. CASE Peripheral
  BY <1>10, SameAccounts DEF Peripheral, PeerAnswers, PeerTakes, PeerSends, Local
<1> QED BY <1>1, <1>2, <1>3, <1>4, <1>5, <1>6, <1>7, <1>8, <1>9, <1>10 DEF BearerNext, Above

-----------------------------------------------------------------------------
(* The write watch and the timers.                                          *)

CanSend == Sendable(req_queue, ind_queue, write_queue, pending_req, pending_ind)

Awake == io = "open" /\ CanSend => writer_active

Timed == Attached =>
  /\ pending_req # NoOp => <<pending_req.id, pending_req.try>> \in timers
  /\ pending_ind # NoOp => <<pending_ind.id, pending_ind.try>> \in timers

\* disconnect_cb left nothing pending
Closed == io = "null" => pending_req = NoOp /\ pending_ind = NoOp

LEMMA NextClosed ==
  ASSUME Closed, [BearerNext]_bearer
  PROVE  Closed'
<1>1. CASE Writer
  <2>1. io' = io /\ (io # "open" => UNCHANGED pending)
    BY <1>1 DEF Writer, WriteQueued, WriteAwaited, WriterStops, WriteFails
  <2> QED BY <2>1 DEF Closed, pending
<1>2. CASE Reader \/ LinkLoss
  <2>1. io' # "null"
    BY <1>2 DEF Reader, UnexpectedRsp, RetryRequest, HandleRsp, HandleConf, UnexpectedConf, SecondRequest,
                HandlePdu, HandleExecWrite, LinkLoss, Arrives, CanRead, Shutdown
  <2> QED BY <2>1 DEF Closed
<1>3. CASE \E t \in timers : Timeout(t)
  <2>1. /\ io' = io \/ io' = "shut"
        /\ pending_req' = pending_req \/ pending_req' = NoOp
        /\ pending_ind' = pending_ind \/ pending_ind' = NoOp
    BY <1>3 DEF Timeout, TimedOut, Shutdown
  <2> QED BY <2>1 DEF Closed
<1>4. CASE DisconnectCb \/ Free
  BY <1>4 DEF DisconnectCb, Free, NothingHeld, Closed
<1>5. CASE Peripheral \/ UNCHANGED bearer \/ (\E id \in track_ids : Cancel(id)) \/ CancelAll
             \/ (\E opcode \in Opcode : Send("REQ", opcode)) \/ (\E type \in Kinds \ {"REQ"} : Send(type, "none"))
  <2>1. UNCHANGED <<io, pending>>
    BY <1>5 DEF Peripheral, PeerAnswers, PeerTakes, PeerSends, Local, bearer, Send, Cancel, CancelAll, Cancelled
  <2> QED BY <2>1 DEF Closed, pending
<1> QED BY <1>1, <1>2, <1>3, <1>4, <1>5 DEF BearerNext, Above

LEMMA WokenAwake ==
  ASSUME WakeupWriter, io' = io
  PROVE  Awake'
<1>1. SUFFICES ASSUME io' = "open", CanSend' PROVE writer_active'
  BY DEF Awake
<1>2. Attached /\ Sendable(req_queue', ind_queue', write_queue', pending_req', pending_ind')
  BY <1>1 DEF Attached, CanSend
<1> QED BY <1>2, Zenon DEF WakeupWriter

\* Nothing became sendable, and the watch was left alone.
LEMMA SameAwake ==
  ASSUME Awake, io' = "open" => io = "open" /\ (CanSend' => CanSend), UNCHANGED writer_active
  PROVE  Awake'
  BY DEF Awake

LEMMA NextAwake ==
  ASSUME TypeInv, Awake, [BearerNext]_bearer
  PROVE  Awake'
<1>1. CASE WriteQueued \/ (\E which \in {"req", "ind"} : WriteAwaited(which)) \/ WriteFails
  <2>1. writer_active /\ UNCHANGED writer_active
    BY <1>1 DEF WriteQueued, WriteAwaited, WriteFails
  <2> QED BY <2>1 DEF Awake
<1>2. CASE WriterStops
  <2>1. UNCHANGED <<io, queues, pending>> /\ (io = "open" => Pick = "nothing")
    BY <1>2 DEF WriterStops
  <2>2. UNCHANGED CanSend /\ (Pick = "nothing" => ~CanSend)
    BY <2>1, PickFinds DEF CanSend, Sendable, queues, pending
  <2> QED BY <2>1, <2>2 DEF Awake
<1>3. CASE UnexpectedRsp \/ UnexpectedConf \/ SecondRequest \/ HandleExecWrite \/ LinkLoss
  <2>1. io' # "open"
    BY <1>3 DEF UnexpectedRsp, UnexpectedConf, SecondRequest, HandleExecWrite, LinkLoss, Shutdown
  <2> QED BY <2>1 DEF Awake
<1>4. CASE RetryRequest \/ (\E next \in Opcode \cup {"none"} : HandleRsp(next)) \/ HandleConf \/ HandlePdu
  <2>1. WakeupWriter /\ UNCHANGED io
    BY <1>4 DEF RetryRequest, HandleRsp, HandleConf, HandlePdu
  <2> QED BY <2>1, WokenAwake
<1>5. CASE \E t \in timers : Timeout(t)
  <2>1. PICK t \in timers : Timeout(t)
    BY <1>5
  <2>2. UNCHANGED <<queues, writer_active>>
    BY <2>1 DEF Timeout
  <2>3. CASE pending_req.id = t[1] \/ pending_ind.id = t[1]
    <3>1. io' = "shut"
      BY <2>1, <2>3 DEF Timeout, TimedOut, Shutdown
    <3> QED BY <3>1 DEF Awake
  <2>4. CASE pending_req.id # t[1] /\ pending_ind.id # t[1]
    <3>1. UNCHANGED <<io, pending_req, pending_ind>>
      BY <2>1, <2>4 DEF Timeout, TimedOut
    <3>2. UNCHANGED CanSend
      BY <2>2, <3>1 DEF CanSend, Sendable, queues
    <3> QED BY <2>2, <3>1, <3>2, SameAwake
  <2> QED BY <2>3, <2>4
<1>6. CASE DisconnectCb \/ Free
  BY <1>6 DEF DisconnectCb, Free, Awake
<1>7. CASE (\E opcode \in Opcode : Send("REQ", opcode)) \/ (\E type \in Kinds \ {"REQ"} : Send(type, "none"))
  <2>1. WakeupWriter /\ UNCHANGED io
    BY <1>7 DEF Send
  <2> QED BY <2>1, WokenAwake
<1>8. CASE (\E id \in track_ids : Cancel(id)) \/ CancelAll
  <2>1. PICK gone : Cancelled(gone)
    BY <1>8 DEF Cancel, CancelAll
  <2>2. /\ req_queue' \in Without(req_queue, gone) /\ ind_queue' \in Without(ind_queue, gone)
        /\ UNCHANGED <<write_queue, pending, io>> /\ (WakeupWriter \/ UNCHANGED writer_active)
    BY <2>1 DEF Cancelled
  <2>3. /\ req_queue = <<>> => req_queue' = <<>>
        /\ ind_queue = <<>> => ind_queue' = <<>>
    BY <2>2, OpsWithout DEF TypeInv, BearerTypeOK
  <2>4. CanSend' => CanSend
    BY <2>2, <2>3 DEF CanSend, Sendable, pending
  <2> QED BY <2>2, <2>4, WokenAwake, SameAwake
<1>9. CASE Peripheral \/ UNCHANGED bearer
  <2>1. UNCHANGED <<io, queues, pending, writer_active>>
    BY <1>9 DEF Peripheral, PeerAnswers, PeerTakes, PeerSends, Local, bearer
  <2>2. UNCHANGED CanSend
    BY <2>1 DEF CanSend, Sendable, queues, pending
  <2> QED BY <2>1, <2>2, SameAwake
<1> QED BY <1>1, <1>2, <1>3, <1>4, <1>5, <1>6, <1>7, <1>8, <1>9 DEF BearerNext, Above, Writer, Reader

\* The two pending operations have numbers of their own.
LEMMA PendingDiffer ==
  ASSUME Accounts, pending_req # NoOp, pending_ind # NoOp
  PROVE  pending_req.id # pending_ind.id
  BY DEF Accounts, Balanced, Under

LEMMA NextTimed ==
  ASSUME TypeInv, Accounts, Closed, Timed, [BearerNext]_bearer
  PROVE  Timed'
<1>1. CASE \E which \in {"req", "ind"} : WriteAwaited(which)
  <2>1. PICK which \in {"req", "ind"} : WriteAwaited(which)
    BY <1>1
  <2> DEFINE op == Picked(which)
  <2>2. /\ pending_req' = (IF which = "req" THEN op ELSE pending_req)
        /\ pending_ind' = (IF which = "ind" THEN op ELSE pending_ind)
        /\ timers' = timers \cup {<<op.id, op.try>>} /\ io' = io /\ io = "open"
    BY <2>1 DEF WriteAwaited, Armed
  <2> HIDE DEF op
  <2>3. CASE which = "req"
    BY <2>2, <2>3 DEF Timed, Attached
  <2>4. CASE which = "ind"
    BY <2>2, <2>4 DEF Timed, Attached
  <2> QED BY <2>3, <2>4
<1>2. CASE WriteQueued \/ WriterStops \/ WriteFails \/ UnexpectedRsp \/ UnexpectedConf \/ SecondRequest
             \/ HandleExecWrite \/ LinkLoss \/ HandlePdu \/ Peripheral \/ UNCHANGED bearer
             \/ (\E opcode \in Opcode : Send("REQ", opcode)) \/ (\E type \in Kinds \ {"REQ"} : Send(type, "none"))
             \/ (\E id \in track_ids : Cancel(id)) \/ CancelAll
  <2>1. UNCHANGED <<pending_req, pending_ind, timers>> /\ (Attached' => Attached)
    BY <1>2 DEF WriteQueued, WriterStops, WriteFails, UnexpectedRsp, UnexpectedConf, SecondRequest, Shutdown,
                HandleExecWrite, Arrives, CanRead, LinkLoss, HandlePdu, Peripheral, PeerAnswers, PeerTakes, PeerSends, Local,
                Send, Cancel, CancelAll, Cancelled, bearer, pending, Attached
  <2> QED BY <2>1 DEF Timed
<1>3. CASE RetryRequest
  BY <1>3 DEF RetryRequest, Timed, Attached
<1>4. CASE (\E next \in Opcode \cup {"none"} : HandleRsp(next))
  <2>1. /\ pending_req # NoOp /\ pending_req' = NoOp
        /\ UNCHANGED <<pending_ind, io>> /\ timers' = timers \ {<<pending_req.id, pending_req.try>>}
    BY <1>4 DEF HandleRsp, TimerOf
  <2>2. pending_ind # NoOp => <<pending_ind.id, pending_ind.try>> # <<pending_req.id, pending_req.try>>
    BY <2>1, PendingDiffer
  <2> QED BY <2>1, <2>2 DEF Timed, Attached
<1>5. CASE HandleConf
  <2>1. /\ pending_ind # NoOp /\ pending_ind' = NoOp
        /\ UNCHANGED <<pending_req, io>> /\ timers' = timers \ {<<pending_ind.id, pending_ind.try>>}
    BY <1>5 DEF HandleConf, TimerOf
  <2>2. pending_req # NoOp => <<pending_req.id, pending_req.try>> # <<pending_ind.id, pending_ind.try>>
    BY <2>1, PendingDiffer
  <2> QED BY <2>1, <2>2 DEF Timed, Attached
<1>6. CASE \E t \in timers : Timeout(t)
  <2>1. PICK t \in timers : Timeout(t)
    BY <1>6
  <2>2. /\ timers' = timers \ {t}
        /\ pending_req' = (IF pending_req.id = t[1] THEN NoOp ELSE pending_req)
        /\ pending_ind' = (IF pending_req.id # t[1] /\ pending_ind.id = t[1] THEN NoOp ELSE pending_ind)
        /\ Attached \/ io = "null"
    BY <2>1 DEF Timeout
  <2>a. pending_req.id = t[1] \/ pending_ind.id = t[1] \/ io' = io
    BY <2>1 DEF Timeout, TimedOut
  <2>3. t[1] # NoOp.id
    BY NoOpFacts DEF TypeInv, BearerTypeOK
  <2>4. CASE Attached
    <3>1. ASSUME pending_req' # NoOp PROVE <<pending_req'.id, pending_req'.try>> \in timers'
      BY <2>2, <2>4, <3>1 DEF Timed
    <3>2. ASSUME pending_ind' # NoOp PROVE <<pending_ind'.id, pending_ind'.try>> \in timers'
      <4>1. pending_ind' = pending_ind /\ pending_ind # NoOp
        BY <2>2, <3>2
      <4>2. pending_ind.id # t[1]
        BY <2>2, <2>3, <3>2, <4>1, PendingDiffer
      <4> QED BY <2>2, <2>4, <4>1, <4>2 DEF Timed
    <3> QED BY <3>1, <3>2 DEF Timed
  <2>5. CASE io = "null"
    <3>1. io' = "null"
      BY <2>2, <2>3, <2>a, <2>5 DEF Closed
    <3> QED BY <3>1 DEF Timed, Attached
  <2> QED BY <2>2, <2>4, <2>5
<1>7. CASE DisconnectCb \/ Free
  BY <1>7 DEF DisconnectCb, Free, Timed, Attached
<1> QED BY <1>1, <1>2, <1>3, <1>4, <1>5, <1>6, <1>7 DEF BearerNext, Above, Writer, Reader

-----------------------------------------------------------------------------
(* The operations of a bearer are accounted for.                            *)

LEMMA PlacesNums ==
  /\ Places[1] = Ops(req_queue) /\ Places[2] = Ops(ind_queue) /\ Places[3] = Ops(write_queue)
  /\ Places[4] = {pending_req} \ {NoOp} /\ Places[5] = {pending_ind} \ {NoOp}
  /\ DOMAIN Places = 1 .. 5
  /\ Nums(req_queue) = {a.id : a \in Places[1]} /\ Nums(ind_queue) = {a.id : a \in Places[2]}
  /\ Nums(write_queue) = {a.id : a \in Places[3]}
  /\ Under(pending_req) = {a.id : a \in Places[4]} /\ Under(pending_ind) = {a.id : a \in Places[5]}
<1>1. /\ Places[1] = Ops(req_queue) /\ Places[2] = Ops(ind_queue) /\ Places[3] = Ops(write_queue)
      /\ Places[4] = {pending_req} \ {NoOp} /\ Places[5] = {pending_ind} \ {NoOp}
      /\ DOMAIN Places = 1 .. 5
  BY DEF Places
<1>2. \A op : Under(op) = {a.id : a \in {op} \ {NoOp}}
  <2>1. SUFFICES ASSUME NEW op PROVE Under(op) = {a.id : a \in {op} \ {NoOp}}
    OBVIOUS
  <2>2. CASE op = NoOp
    BY <2>2 DEF Under
  <2>3. CASE op # NoOp
    BY <2>3 DEF Under
  <2> QED BY <2>2, <2>3
<1> QED BY <1>1, <1>2 DEF Nums

LEMMA AccountsPlaces ==
  ASSUME TypeInv, Accounts
  PROVE  EveryOpInOnePlace
<1> DEFINE N(k) == {a.id : a \in Places[k]}
<1>1. DOMAIN Places = 1 .. 5
        /\ Balanced(N(1), N(2), N(3), N(4), N(5), Live, track_ids, next_send_id)
  BY PlacesNums DEF Accounts
<1>2. ASSUME NEW j \in DOMAIN Places, NEW k \in DOMAIN Places, NEW a \in Places[j], NEW b \in Places[k], a.id = b.id
      PROVE  j = k
  <2>1. a.id \in N(j) /\ a.id \in N(k)
    BY <1>2
  <2>2. j \in 1 .. 5 /\ k \in 1 .. 5
    BY <1>1
  <2> HIDE DEF N
  <2> QED BY <1>1, <2>1, <2>2 DEF Balanced
<1>3. ASSUME NEW i \in Live PROVE \E k \in DOMAIN Places : \E a \in Places[k] : a.id = i
  <2>1. \E k \in 1 .. 5 : i \in N(k)
    <3> HIDE DEF N
    <3> QED BY <1>1 DEF Balanced
  <2> QED BY <1>1, <2>1
<1>4. ASSUME NEW k \in 1 .. 3, NEW op \in Places[k], op.id \notin Live PROVE op.try > 0
  <2>1. CASE k = 1
    <3>1. op \in Ops(req_queue)
      BY <2>1, PlacesNums
    <3>2. op \in SendOp
      BY <3>1 DEF TypeInv, BearerTypeOK, Ops
    <3>3. op.try # 0
      BY <1>4, <3>1 DEF Accounts
    <3> QED BY <3>2, <3>3 DEF SendOp
  <2>2. CASE k \in {2, 3}
    <3>1. op.id \in N(2) \cup N(3)
      BY <2>2
    <3>2. op.id \in Live
      <4> HIDE DEF N
      <4> QED BY <1>1, <3>1 DEF Balanced
    <3> QED BY <1>4, <3>2
  <2> QED BY <2>1, <2>2
<1>5. track_ids = {i \in Live : \E k \in {1, 2, 4, 5} : \E a \in Places[k] : a.id = i}
  <2>1. track_ids = {i \in Live : \E k \in {1, 2, 4, 5} : i \in N(k)}
    <3> HIDE DEF N
    <3> QED BY <1>1 DEF Balanced
  <2> QED BY <2>1
<1> QED BY <1>2, <1>3, <1>4, <1>5 DEF EveryOpInOnePlace, Accounts

LEMMA BearerInitAccounts == BearerInit => Accounts /\ Closed /\ Awake /\ Timed
<1> SUFFICES ASSUME BearerInit PROVE Accounts /\ Closed /\ Awake /\ Timed
  OBVIOUS
<1>1. Live = {} /\ Under(pending_req) = {} /\ Under(pending_ind) = {}
  BY DEF BearerInit, Live, Under
<1>2. Balanced({}, {}, {}, {}, {}, {}, {}, next_send_id)
  BY DEF Balanced
<1>3. Accounts
  BY <1>1, <1>2, NumsEmpty, OpsEmpty DEF BearerInit, Accounts
<1> QED BY <1>3 DEF BearerInit, Closed, Awake, Timed, CanSend, Sendable

Accounted == TypeInv /\ Accounts /\ Closed /\ Awake /\ Timed

LEMMA AccountedAlways == BearerSpec => []Accounted
<1>1. BearerInit => Accounted
  BY BearerInitType, BearerInitAccounts DEF Accounted
<1>2. Accounted /\ [BearerNext]_bearer => Accounted'
  BY NextType, NextAccounts, NextClosed, NextAwake, NextTimed DEF Accounted
<1> QED BY <1>1, <1>2, PTL DEF BearerSpec

\* Every operation of a bearer that has not ended is in exactly one of the
\* queues and pending slots of bt_att, nothing else is there but requests that
\* were cancelled on the air, gattrib can cancel just those that expect an
\* answer, the write watch is installed whenever something can be written, and
\* what is pending has its timer (shared/att.c, attrib/gattrib.c).
THEOREM OpsAccountedForAlways == BearerSpec => []OpsAccountedFor
<1>1. Accounted => OpsAccountedFor
  <2>1. SUFFICES ASSUME Accounted PROVE OpsAccountedFor
    OBVIOUS
  <2>2. BearerTypeOK /\ EveryOpInOnePlace
    BY <2>1, AccountsPlaces DEF Accounted, TypeInv
  <2>3. WriterAwake
    BY <2>1, PickFinds DEF Accounted, Awake, CanSend, WriterAwake
  <2>4. PendingIsTimed
    BY <2>1 DEF Accounted, Timed, PendingIsTimed
  <2> QED BY <2>2, <2>3, <2>4 DEF OpsAccountedFor
<1> QED BY <1>1, AccountedAlways, PTL

-----------------------------------------------------------------------------
(* Whose answer a callback gets.                                            *)

\* requests under way to the peripheral, and answers under way from it
Calls == Cardinality(At(tx, {"REQ"}))
Answers == Cardinality(At(rx, {"RSP", "ERR"}))

\* One call at most is out, of the pending request.
OneCall ==
  /\ Calls + Answers <= IF pending_req = NoOp THEN 0 ELSE 1
  /\ \A m \in Ops(tx) : m.type = "REQ" => m.re = pending_req.id
  /\ \A m \in Ops(rx) : m.type \in {"RSP", "ERR"} => m.re = pending_req.id

NotMixed == \A i \in Id : outcome[i] # "mixed"

Matched == ~strayed => OneCall /\ NotMixed

LEMMA AtNone ==
  ASSUME NEW S, NEW air \in Seq(S), NEW types, Cardinality(At(air, types)) = 0
  PROVE  \A m \in Ops(air) : m.type \notin types
<1>1. At(air, types) = {}
  BY AtFinite, FS_EmptySet
<1> QED BY <1>1 DEF At, Ops

LEMMA CountTypes ==
  ASSUME TypeInv
  PROVE  Calls \in Nat /\ Answers \in Nat
  BY AtFinite DEF TypeInv, BearerTypeOK, Calls, Answers

LEMMA StrayedGrows ==
  ASSUME [BearerNext]_bearer, strayed
  PROVE  strayed'
<1>1. CASE Peripheral
  BY <1>1 DEF Peripheral, PeerAnswers, PeerTakes, PeerSends, remote
<1>2. CASE UNCHANGED bearer
  BY <1>2 DEF bearer, remote
<1>3. CASE Writer \/ Reader \/ DisconnectCb \/ LinkLoss \/ Above \/ \E t \in timers : Timeout(t)
  <2>1. UNCHANGED remote
    BY <1>3 DEF Writer, WriteQueued, WriteAwaited, WriterStops, WriteFails, Reader, UnexpectedRsp, RetryRequest,
        HandleRsp, HandleConf, UnexpectedConf, SecondRequest, HandlePdu, HandleExecWrite, DisconnectCb, LinkLoss,
        Above, Send, Cancel, CancelAll, Cancelled, Free, Timeout
  <2> QED BY <2>1 DEF remote
<1> QED BY <1>1, <1>2, <1>3 DEF BearerNext

\* Outcomes that are not "mixed" stay so.
LEMMA EndedNotMixed ==
  ASSUME NotMixed, NEW ended, NEW how, how # "mixed", NEW new, Ended(ended, how, new)
  PROVE  NotMixed'
  BY DEF Ended, NotMixed

\* Nothing on the air, or less than before.
LEMMA LessOneCall ==
  ASSUME TypeInv, OneCall, tx' = tx \/ tx' = <<>>, rx' = rx \/ rx' = <<>>,
         UNCHANGED pending_req \/ (tx' = <<>> /\ rx' = <<>>)
  PROVE  OneCall'
<1>1. /\ Calls' = Calls \/ Calls' = 0
      /\ Answers' = Answers \/ Answers' = 0
      /\ tx' = <<>> => Calls' = 0
      /\ rx' = <<>> => Answers' = 0
  BY AtEmpty DEF Calls, Answers
<1>2. Calls' + Answers' <= IF pending_req' = NoOp THEN 0 ELSE 1
  <2>1. CASE UNCHANGED pending_req
    BY <1>1, <2>1, CountTypes DEF OneCall
  <2>2. CASE tx' = <<>> /\ rx' = <<>>
    BY <1>1, <2>2
  <2> QED BY <2>1, <2>2
<1>3. Ops(<<>>) = {}
  BY OpsEmpty
<1> QED BY <1>2, <1>3 DEF OneCall

\* What is read is neither an answer nor gone with one.
LEMMA ReadOneCall ==
  ASSUME TypeInv, OneCall, rx # <<>>, rx' = Tail(rx), tx' = tx, Head(rx).type \notin {"RSP", "ERR"},
         UNCHANGED pending_req
  PROVE  OneCall'
<1>1. rx \in Seq(Pdu)
  BY DEF TypeInv, BearerTypeOK
<1>2. Calls' = Calls /\ Answers' = Answers
  BY <1>1, AtTail, CountTypes DEF Calls, Answers
<1>3. Ops(rx') \subseteq Ops(rx)
  BY <1>1, OpsTail
<1> QED BY <1>2, <1>3 DEF OneCall

\* The answer is read, and with it the call is over.
LEMMA AnswerRead ==
  ASSUME TypeInv, OneCall, rx # <<>>, Head(rx).type \in {"RSP", "ERR"}, rx' = Tail(rx), tx' = tx
  PROVE  /\ pending_req # NoOp /\ Head(rx).re = pending_req.id
         /\ \A m \in Ops(tx') : m.type # "REQ"
         /\ \A m \in Ops(rx') : m.type \notin {"RSP", "ERR"}
         /\ Calls' = 0 /\ Answers' = 0
<1>1. rx \in Seq(Pdu) /\ rx' \in Seq(Pdu) /\ tx \in Seq(Pdu)
  BY DEF TypeInv, BearerTypeOK
<1>2. Calls' = Calls /\ Answers' = Answers - 1 /\ Calls \in Nat /\ Answers \in Nat /\ Answers' \in Nat
  <2>1. Answers' \in Nat
    BY <1>1, AtFinite DEF Answers
  <2> QED BY <1>1, <2>1, AtTail, CountTypes DEF Calls, Answers
<1>3. pending_req # NoOp /\ Calls' = 0 /\ Answers' = 0
  BY <1>2 DEF OneCall
<1>4. Head(rx) \in Ops(rx)
  BY <1>1, OpsTail
<1>5. \A m \in Ops(tx') : m.type \notin {"REQ"}
  BY <1>1, <1>3, AtNone DEF Calls
<1>6. \A m \in Ops(rx') : m.type \notin {"RSP", "ERR"}
  BY <1>1, <1>3, AtNone DEF Answers
<1> QED BY <1>3, <1>4, <1>5, <1>6 DEF OneCall

LEMMA QuietOneCall ==
  ASSUME Calls = 0, Answers = 0, \A m \in Ops(tx) : m.type # "REQ",
         \A m \in Ops(rx) : m.type \notin {"RSP", "ERR"}
  PROVE  OneCall
  BY DEF OneCall

LEMMA WriteQueuedMatched ==
  ASSUME TypeInv, OneCall, NotMixed, WriteQueued
  PROVE  OneCall' /\ NotMixed'
<1> DEFINE op == Picked("write")
           m == Air(op.type, op.opcode, "none", op.id)
<1>1. /\ tx' = Append(tx, m) /\ rx' = rx /\ pending_req' = pending_req
      /\ Ended({op.id}, "written", NoOp) /\ Pick = "write"
  BY DEF WriteQueued, pending
<1>2. m \in Pdu /\ m.type # "REQ" /\ tx \in Seq(Pdu)
  <2>1. op \in SendOp /\ op \in Ops(write_queue)
    BY <1>1, PickedType
  <2>2. op.type \in {"CMD", "RSP", "CONF"}
    BY <2>1 DEF TypeInv, Sorted
  <2>3. m \in Pdu /\ m.type = op.type
    BY <2>1, AirType DEF Air
  <2> QED BY <2>2, <2>3 DEF TypeInv, BearerTypeOK
<1> HIDE DEF op, m
<1>3. Calls' = Calls /\ Answers' = Answers
  BY <1>1, <1>2, AtAppend, CountTypes DEF Calls, Answers
<1>4. Ops(tx') = Ops(tx) \cup {m}
  BY <1>1, <1>2, OpsAppend
<1>5. OneCall'
  BY <1>1, <1>2, <1>3, <1>4 DEF OneCall
<1> QED BY <1>1, <1>5, EndedNotMixed

LEMMA WriteAwaitedMatched ==
  ASSUME TypeInv, OneCall, NotMixed, NEW which \in {"req", "ind"}, WriteAwaited(which)
  PROVE  OneCall' /\ NotMixed'
<1> DEFINE op == Picked(which)
           m == Air(op.type, op.opcode, "none", op.id)
<1>1. /\ tx' = Append(tx, m) /\ rx' = rx /\ outcome' = outcome
      /\ pending_req' = (IF which = "req" THEN op ELSE pending_req) /\ Pick = which
  BY DEF WriteAwaited
<1>2. op \in SendOp /\ (which = "req" => op.type = "REQ") /\ (which = "ind" => op.type = "IND")
  BY <1>1, PickedType
<1>3. m \in Pdu /\ m.type = op.type /\ m.re = op.id /\ tx \in Seq(Pdu) /\ rx \in Seq(Pdu)
  BY <1>2, AirType DEF Air, TypeInv, BearerTypeOK
<1>4. which = "req" => pending_req = NoOp
  BY <1>1, PickFinds
<1>5. op # NoOp
  BY <1>2, NoOpFacts
<1> HIDE DEF op, m
<1>6. Ops(tx') = Ops(tx) \cup {m} /\ Ops(rx') = Ops(rx) /\ Answers' = Answers
  BY <1>1, <1>3, OpsAppend DEF Answers
<1>7. NotMixed'
  BY <1>1 DEF NotMixed
<1>8. CASE which = "req"
  <2>1. Calls = 0 /\ Answers = 0
    BY <1>4, <1>8, CountTypes DEF OneCall
  <2>2. Calls' = 1
    BY <1>1, <1>2, <1>3, <1>8, <2>1, AtAppend DEF Calls
  <2>3. \A n \in Ops(tx) : n.type \notin {"REQ"}
    BY <1>3, <2>1, AtNone DEF Calls
  <2>4. \A n \in Ops(rx) : n.type \notin {"RSP", "ERR"}
    BY <1>3, <2>1, AtNone DEF Answers
  <2>5. pending_req' = op /\ m.re = pending_req'.id
    BY <1>1, <1>3, <1>8
  <2>6. OneCall'
    BY <1>5, <1>6, <2>1, <2>2, <2>3, <2>4, <2>5 DEF OneCall
  <2> QED BY <1>7, <2>6
<1>9. CASE which = "ind"
  <2>1. m.type \notin {"REQ"} /\ pending_req' = pending_req
    BY <1>1, <1>2, <1>3, <1>9
  <2>2. Calls' = Calls
    BY <1>1, <1>3, <2>1, AtAppend, CountTypes DEF Calls
  <2>3. OneCall'
    BY <1>6, <2>1, <2>2 DEF OneCall
  <2> QED BY <1>7, <2>3
<1> QED BY <1>8, <1>9

LEMMA AnswersMatched ==
  ASSUME TypeInv, OneCall, NotMixed, RetryRequest \/ \E next \in Opcode \cup {"none"} : HandleRsp(next)
  PROVE  OneCall' /\ NotMixed'
<1>1. /\ rx # <<>> /\ Head(rx).type \in {"RSP", "ERR"} /\ rx' = Tail(rx) /\ tx' = tx
  BY DEF RetryRequest, HandleRsp, Arrives, CanRead
<1>2. OneCall'
  BY <1>1, AnswerRead, QuietOneCall DEF OneCall
<1>3. CASE RetryRequest
  BY <1>2, <1>3 DEF RetryRequest, NotMixed
<1>4. CASE \E next \in Opcode \cup {"none"} : HandleRsp(next)
  <2>1. PICK next \in Opcode \cup {"none"} : HandleRsp(next)
    BY <1>4
  <2> DEFINE op == pending_req
             new == IF next = "none" THEN NoOp ELSE NewOp("REQ", next)
             ended == IF op.id \in Live THEN {op.id} ELSE {}
             how == ResultOf(op, Head(rx))
  <2>2. Ended(ended, how, new)
    BY <2>1 DEF HandleRsp
  <2>3. how # "mixed"
    <3>1. Head(rx).re = op.id
      BY <1>1, AnswerRead
    <3> QED BY <3>1 DEF ResultOf
  <2> HIDE DEF op, new, ended, how
  <2> QED BY <1>2, <2>2, <2>3, EndedNotMixed
<1> QED BY <1>3, <1>4

LEMMA PeerMatched ==
  ASSUME TypeInv, OneCall, NotMixed, Peripheral, ~strayed'
  PROVE  OneCall' /\ NotMixed'
<1> USE DEF Local, queues, pending
<1>1. tx \in Seq(Pdu) /\ rx \in Seq(Pdu)
  BY DEF TypeInv, BearerTypeOK
<1>2. CASE PeerAnswers
  <2>1. tx # <<>> /\ Head(tx).type = "REQ" /\ tx' = Tail(tx) /\ UNCHANGED <<pending_req, outcome>>
    BY <1>2 DEF PeerAnswers, Received
  <2>2. Calls' = Calls - 1 /\ Ops(tx) = {Head(tx)} \cup Ops(tx')
    BY <1>1, <2>1, AtTail, OpsTail DEF Calls
  <2>3. Head(tx).re = pending_req.id
    BY <2>1, <2>2 DEF OneCall
  <2>4. CASE rx' = rx
    BY <2>1, <2>2, <2>4, CountTypes DEF OneCall, NotMixed, Answers
  <2>5. CASE rx' # rx
    <3>1. \E type \in {"RSP", "ERR"}, e \in {"none", "encryption", "authentication", "other"} :
            rx' = Append(rx, Air(type, Head(tx).opcode, e, Head(tx).re))
      BY <1>2, <2>5 DEF PeerAnswers
    <3>2. PICK type \in {"RSP", "ERR"}, e \in {"none", "encryption", "authentication", "other"} :
            rx' = Append(rx, Air(type, Head(tx).opcode, e, Head(tx).re))
      BY <3>1
    <3> DEFINE m == Air(type, Head(tx).opcode, e, Head(tx).re)
    <3>3. Head(tx) \in Pdu
      BY <1>1, <2>1
    <3>4. m \in Pdu /\ m.type \in {"RSP", "ERR"} /\ m.re = Head(tx).re
      BY <3>2, <3>3 DEF Air, Pdu, OpType
    <3> HIDE DEF m
    <3>5. rx' = Append(rx, m)
      BY <3>2 DEF m
    <3>6. Answers' = Answers + 1 /\ Ops(rx') = Ops(rx) \cup {m}
      BY <1>1, <3>4, <3>5, AtAppend, OpsAppend DEF Answers
    <3> QED BY <2>1, <2>2, <2>3, <3>4, <3>6, CountTypes DEF OneCall, NotMixed
  <2> QED BY <2>4, <2>5
<1>3. CASE PeerTakes
  <2>1. tx # <<>> /\ Head(tx).type \in {"CMD", "CONF", "RSP", "IND"} /\ tx' = Tail(tx) /\ UNCHANGED <<pending_req, outcome>>
    BY <1>3 DEF PeerTakes, Received
  <2>2. Calls' = Calls /\ Ops(tx') \subseteq Ops(tx)
    BY <1>1, <2>1, AtTail, OpsTail, CountTypes DEF Calls
  <2> DEFINE m == Air("CONF", "none", "none", 0)
  <2>3. m \in Pdu /\ m.type = "CONF"
    BY DEF Air, Pdu, OpType
  <2>4. rx' = rx \/ rx' = Append(rx, m)
    BY <1>3 DEF PeerTakes
  <2> HIDE DEF m
  <2>5. Answers' = Answers /\ Ops(rx') \subseteq Ops(rx) \cup {m}
    <3>1. CASE rx' = rx
      BY <3>1 DEF Answers
    <3>2. CASE rx' = Append(rx, m)
      BY <1>1, <2>3, <3>2, AtAppend, OpsAppend, CountTypes DEF Answers
    <3> QED BY <2>4, <3>1, <3>2
  <2> QED BY <2>1, <2>2, <2>3, <2>5 DEF OneCall, NotMixed
<1>4. CASE \E type \in PeerPdus : PeerSends(type)
  <2>1. PICK type \in PeerPdus : PeerSends(type)
    BY <1>4
  <2>2. type \in PeerPduType \ {"RSP"}
    BY <2>1, BearerAssumption DEF PeerSends
  <2>3. PICK opcode \in Opcode \cup {"none"} : rx' = Append(rx, Air(type, opcode, "none", 0))
    BY <2>1 DEF PeerSends
  <2> DEFINE m == Air(type, opcode, "none", 0)
  <2>4. m \in Pdu /\ m.type = type /\ type \notin {"RSP", "ERR"}
    BY <2>2 DEF Air, Pdu, PeerPduType, Asking
  <2> HIDE DEF m
  <2>5. rx' = Append(rx, m) /\ UNCHANGED <<tx, pending_req, outcome>>
    BY <2>1, <2>3 DEF m, PeerSends
  <2>6. Answers' = Answers /\ Ops(rx') = Ops(rx) \cup {m} /\ Calls' = Calls
    BY <1>1, <2>4, <2>5, AtAppend, OpsAppend, CountTypes DEF Answers, Calls
  <2> QED BY <2>4, <2>5, <2>6 DEF OneCall, NotMixed
<1> QED BY <1>2, <1>3, <1>4 DEF Peripheral

LEMMA NextMatched ==
  ASSUME TypeInv, Matched, [BearerNext]_bearer
  PROVE  Matched'
<1>1. SUFFICES ASSUME ~strayed', OneCall, NotMixed PROVE OneCall' /\ NotMixed'
  BY StrayedGrows DEF Matched
<1>2. CASE WriteQueued \/ \E which \in {"req", "ind"} : WriteAwaited(which)
  BY <1>1, <1>2, WriteQueuedMatched, WriteAwaitedMatched
<1>3. CASE WriteFails
  <2> DEFINE ended == {Picked(Pick).id} \cap Live
             how == IF HasCallback(Picked(Pick)) THEN "failed" ELSE "dropped"
  <2>1. UNCHANGED <<tx, rx, pending_req>> /\ Ended(ended, how, NoOp) /\ how # "mixed"
    BY <1>3 DEF WriteFails, pending
  <2> HIDE DEF ended, how
  <2> QED BY <1>1, <2>1, LessOneCall, EndedNotMixed
<1>4. CASE WriterStops \/ UnexpectedRsp \/ UnexpectedConf \/ SecondRequest \/ LinkLoss \/ UNCHANGED bearer
  <2>1. UNCHANGED <<pending_req, outcome>> /\ (tx' = tx \/ tx' = <<>>) /\ (rx' = rx \/ rx' = <<>>)
    BY <1>4 DEF WriterStops, UnexpectedRsp, UnexpectedConf, SecondRequest, LinkLoss, Shutdown, bearer, pending
  <2>2. NotMixed'
    BY <1>1, <2>1 DEF NotMixed
  <2> QED BY <1>1, <2>1, <2>2, LessOneCall
<1>5. CASE RetryRequest \/ \E next \in Opcode \cup {"none"} : HandleRsp(next)
  BY <1>1, <1>5, AnswersMatched
<1>6. CASE HandleConf \/ HandlePdu \/ HandleExecWrite
  <2>1. /\ rx # <<>> /\ rx' = Tail(rx) /\ tx' = tx /\ pending_req' = pending_req
        /\ Head(rx).type \in {"CONF", "REQ", "MTU_REQ", "BAD_MTU_REQ", "CMD", "NOT", "IND", "UNKNOWN", "EXEC_REQ"}
    BY <1>6 DEF HandleConf, HandlePdu, HandleExecWrite, Arrives, CanRead, pending
  <2>2. OneCall'
    BY <1>1, <2>1, ReadOneCall
  <2>3. NotMixed'
    <3>1. CASE HandleConf
      <4> DEFINE ended == {pending_ind.id} \cap Live
      <4>1. Ended(ended, "answered", NoOp)
        BY <3>1 DEF HandleConf
      <4> QED BY <1>1, <4>1, EndedNotMixed
    <3>2. CASE HandlePdu
      <4>1. Ended({}, "live", Reply(Head(rx).type))
        BY <3>2 DEF HandlePdu
      <4> QED BY <1>1, <4>1, EndedNotMixed
    <3>3. CASE HandleExecWrite
      BY <1>1, <3>3 DEF HandleExecWrite, NotMixed
    <3> QED BY <1>6, <3>1, <3>2, <3>3
  <2> QED BY <2>2, <2>3
<1>7. CASE \E t \in timers : Timeout(t)
  <2>1. PICK t \in timers : Timeout(t)
    BY <1>7
  <2> DEFINE ends == pending_req.id = t[1] \/ (pending_req.id # t[1] /\ pending_ind.id = t[1])
             ended == IF ends THEN {t[1]} \cap Live ELSE {}
  <2>2. /\ Ended(ended, "dropped", NoOp)
        /\ IF ends THEN tx' = <<>> /\ rx' = <<>> ELSE UNCHANGED <<tx, rx, pending_req>>
    BY <2>1 DEF Timeout, TimedOut, Shutdown
  <2> HIDE DEF ends, ended
  <2> QED BY <1>1, <2>2, LessOneCall, EndedNotMixed
<1>8. CASE DisconnectCb \/ Free
  <2>1. tx' = <<>> /\ rx' = <<>> /\ (AllEnd("failed") \/ AllEnd("dropped"))
    BY <1>8 DEF DisconnectCb, Free, NothingHeld
  <2>2. NotMixed'
    BY <1>1, <2>1 DEF AllEnd, NotMixed
  <2> QED BY <1>1, <2>1, <2>2, LessOneCall
<1>9. CASE (\E opcode \in Opcode : Send("REQ", opcode)) \/ (\E type \in Kinds \ {"REQ"} : Send(type, "none"))
  <2>1. PICK type, opcode : Send(type, opcode)
    BY <1>9
  <2>2. UNCHANGED <<tx, rx, pending_req>> /\ Ended({}, "live", NewOp(type, opcode))
    BY <2>1 DEF Send, pending
  <2> QED BY <1>1, <2>2, LessOneCall, EndedNotMixed
<1>10. CASE (\E id \in track_ids : Cancel(id)) \/ CancelAll
  <2>1. PICK gone : Cancelled(gone)
    BY <1>10 DEF Cancel, CancelAll
  <2>2. UNCHANGED <<tx, rx, pending_req>> /\ Ended(gone, "dropped", NoOp)
    BY <2>1 DEF Cancelled, pending
  <2> QED BY <1>1, <2>2, LessOneCall, EndedNotMixed
<1>11. CASE Peripheral
  BY <1>1, <1>11, PeerMatched
<1> QED BY <1>2, <1>3, <1>4, <1>5, <1>6, <1>7, <1>8, <1>9, <1>10, <1>11 DEF BearerNext, Above, Writer, Reader

\* The callback of a request gets the answer to that request or none, as long
\* as the peripheral sends no answer nobody asked for: through requests sent
\* again, cancelled ones, time-outs and links that break (handle_rsp).
THEOREM BearerOwnAnswerAlways == BearerSpec => []BearerOwnAnswer
<1>1. BearerInit => Matched
  BY AtEmpty, OpsEmpty DEF BearerInit, Matched, OneCall, NotMixed, Calls, Answers
<1>2. TypeInv /\ Matched /\ [BearerNext]_bearer => Matched'
  BY NextMatched
<1>3. Matched => BearerOwnAnswer
  BY DEF Matched, NotMixed, BearerOwnAnswer
<1> QED BY <1>1, <1>2, <1>3, BearerTypeCorrect, PTL DEF BearerSpec

-----------------------------------------------------------------------------
(* The requests of the peripheral.                                          *)

\* not read yet; answer queued; answer on the way
Unread == Cardinality(At(rx, Asking))
Queued == Cardinality(At(write_queue, {"RSP"}))
OnTheWay == Cardinality(At(tx, {"RSP"}))

\* what only a peripheral that strayed sends
Malformed == {"BAD_MTU_REQ", "UNKNOWN"}

OnePlace ==
  /\ Unread + Queued + OnTheWay = IF owed THEN 1 ELSE 0
  /\ \A m \in Ops(rx) : m.type \notin Malformed

InHand == ~strayed /\ io = "open" => OnePlace

LEMMA ServedTypes ==
  ASSUME TypeInv
  PROVE  Unread \in Nat /\ Queued \in Nat /\ OnTheWay \in Nat
  BY AtFinite DEF TypeInv, BearerTypeOK, Unread, Queued, OnTheWay

LEMMA SameServed ==
  ASSUME OnePlace, UNCHANGED <<tx, rx, write_queue, owed>>
  PROVE  OnePlace'
  BY DEF OnePlace, Unread, Queued, OnTheWay

\* The link never opens again.
LEMMA StaysShut ==
  ASSUME [BearerNext]_bearer, io # "open"
  PROVE  io' # "open"
<1>1. CASE UNCHANGED bearer
  BY <1>1 DEF bearer
<1>2. CASE Peripheral
  BY <1>2 DEF Peripheral, PeerAnswers, PeerTakes, PeerSends, Local
<1>3. CASE Writer \/ Reader \/ DisconnectCb \/ LinkLoss \/ Above \/ \E t \in timers : Timeout(t)
  BY <1>3 DEF Writer, WriteQueued, WriteAwaited, WriterStops, WriteFails, Reader, UnexpectedRsp, RetryRequest,
        HandleRsp, HandleConf, UnexpectedConf, SecondRequest, HandlePdu, HandleExecWrite, DisconnectCb, LinkLoss,
        Above, Send, Cancel, CancelAll, Cancelled, Free, Timeout, TimedOut, Shutdown
<1> QED BY <1>1, <1>2, <1>3 DEF BearerNext

\* Neither a request nor its answer was read or written.
LEMMA NoRequestServed ==
  ASSUME TypeInv, OnePlace, Arrives({"RSP", "ERR", "CONF", "CMD", "NOT", "IND"}),
         UNCHANGED <<tx, owed>>,
         write_queue' = write_queue \/
           (\E op \in SendOp : op.type # "RSP" /\ write_queue' = Append(write_queue, op))
  PROVE  OnePlace'
<1> DEFINE read == {"RSP", "ERR", "CONF", "CMD", "NOT", "IND"}
<1>1. rx # <<>> /\ rx' = Tail(rx) /\ Head(rx).type \in read
  BY DEF Arrives, CanRead
<1>2. Head(rx).type \notin Asking
  BY <1>1 DEF Asking
<1>3. rx \in Seq(Pdu) /\ write_queue \in Seq(SendOp)
  BY DEF TypeInv, BearerTypeOK
<1>4. Unread' = Unread /\ Ops(rx') \subseteq Ops(rx) /\ OnTheWay' = OnTheWay
  BY <1>1, <1>2, <1>3, AtTail, OpsTail, ServedTypes DEF Unread, OnTheWay
<1>5. Queued' = Queued
  <2>1. CASE write_queue' = write_queue
    BY <2>1 DEF Queued
  <2>2. CASE \E op \in SendOp : op.type # "RSP" /\ write_queue' = Append(write_queue, op)
    BY <1>3, <2>2, AtAppend, ServedTypes DEF Queued
  <2> QED BY <2>1, <2>2
<1> QED BY <1>4, <1>5 DEF OnePlace

LEMMA HandlePduServed ==
  ASSUME TypeInv, OnePlace, HandlePdu
  PROVE  OnePlace'
<1> DEFINE type == Head(rx).type
           new == Reply(type)
           read == {"REQ", "MTU_REQ", "BAD_MTU_REQ", "CMD", "NOT", "IND", "UNKNOWN"}
<1>1. Arrives(read) /\ Enqueue(new) /\ UNCHANGED <<tx, owed>>
  BY DEF HandlePdu, remote
<1>2. /\ rx # <<>> /\ rx' = Tail(rx) /\ type \in read /\ rx \in Seq(Pdu) /\ write_queue \in Seq(SendOp)
      /\ Head(rx) \in Ops(rx)
  BY <1>1, OpsTail DEF Arrives, CanRead, TypeInv, BearerTypeOK
<1>3. type \notin Malformed
  BY <1>2 DEF OnePlace
<1>4. type \in Answerable => next_send_id \in Id
  BY <1>1, ArrivesRoom, RoomLeft
<1>5. /\ type \notin Answerable => new = NoOp
      /\ type \in Answerable => new \in SendOp /\ new.type = Replies[type] /\ new # NoOp /\ new.type \in {"RSP", "CONF"}
  BY <1>4, ReplyType
<1>6. CASE type \in {"REQ", "MTU_REQ"}
  <2>1. type \in Answerable /\ Replies[type] = "RSP" /\ type \in Asking
    BY <1>6 DEF Answerable, Replies, Asking
  <2>2. new \in SendOp /\ new.type = "RSP" /\ new # NoOp
    BY <1>5, <2>1
  <2> HIDE DEF new
  <2>3. write_queue' = Append(write_queue, new)
    BY <1>1, <2>2 DEF Enqueue, HasCallback
  <2>4. Queued' = Queued + 1
    BY <1>2, <2>2, <2>3, AtAppend, ServedTypes DEF Queued
  <2>5. Unread' = Unread - 1 /\ Ops(rx') \subseteq Ops(rx) /\ OnTheWay' = OnTheWay
    BY <1>1, <1>2, <2>1, AtTail, OpsTail, ServedTypes DEF Unread, OnTheWay
  <2> QED BY <1>1, <2>4, <2>5, ServedTypes DEF OnePlace
<1>7. CASE type \in {"CMD", "NOT", "IND"}
  <2>1. write_queue' = write_queue \/ \E op \in SendOp : op.type # "RSP" /\ write_queue' = Append(write_queue, op)
    <3>1. CASE type = "IND"
      <4>1. type \in Answerable /\ Replies[type] = "CONF"
        BY <3>1 DEF Answerable, Replies
      <4>2. new \in SendOp /\ new.type = "CONF" /\ new # NoOp
        BY <1>5, <4>1
      <4> HIDE DEF new
      <4>3. write_queue' = Append(write_queue, new)
        BY <1>1, <4>2 DEF Enqueue, HasCallback
      <4> QED BY <4>2, <4>3
    <3>2. CASE type # "IND"
      <4>1. type \notin Answerable
        BY <1>7, <3>2 DEF Answerable
      <4>2. new = NoOp
        BY <1>5, <4>1
      <4> HIDE DEF new
      <4> QED BY <1>1, <4>2 DEF Enqueue
    <3> QED BY <3>1, <3>2
  <2>2. Arrives({"RSP", "ERR", "CONF", "CMD", "NOT", "IND"})
    BY <1>1, <1>7 DEF Arrives
  <2> QED BY <1>1, <2>1, <2>2, NoRequestServed
<1> QED BY <1>2, <1>3, <1>6, <1>7 DEF Malformed

LEMMA WriterServed ==
  ASSUME TypeInv, OnePlace, WriteQueued \/ \E which \in {"req", "ind"} : WriteAwaited(which)
  PROVE  OnePlace'
<1>1. tx \in Seq(Pdu) /\ write_queue \in Seq(SendOp)
  BY DEF TypeInv, BearerTypeOK
<1>2. CASE WriteQueued
  <2> DEFINE op == Picked("write")
             m == Air(op.type, op.opcode, "none", op.id)
  <2>1. /\ tx' = Append(tx, m) /\ UNCHANGED <<rx, owed>> /\ write_queue' = Tail(write_queue) /\ Pick = "write"
    BY <1>2 DEF WriteQueued, Pop, remote
  <2>2. write_queue # <<>> /\ op = Head(write_queue) /\ op \in SendOp
    BY <2>1, PickFinds, PickedType
  <2>3. m \in Pdu /\ m.type = op.type
    BY <2>2, AirType DEF Air
  <2> HIDE DEF op, m
  <2>4. OnTheWay' = OnTheWay + (IF op.type \in {"RSP"} THEN 1 ELSE 0)
    BY <1>1, <2>1, <2>3, AtAppend DEF OnTheWay
  <2>5. Queued' = Queued - (IF op.type \in {"RSP"} THEN 1 ELSE 0)
    BY <1>1, <2>1, <2>2, AtTail DEF Queued
  <2>6. Unread' = Unread
    BY <2>1 DEF Unread
  <2> QED BY <2>1, <2>4, <2>5, <2>6, ServedTypes DEF OnePlace
<1>3. ASSUME NEW which \in {"req", "ind"}, WriteAwaited(which)
      PROVE  OnePlace'
  <2> DEFINE op == Picked(which)
             m == Air(op.type, op.opcode, "none", op.id)
  <2>1. /\ tx' = Append(tx, m) /\ UNCHANGED <<rx, owed, write_queue>> /\ Pick = which
    BY <1>3 DEF WriteAwaited, Pop, remote
  <2>2. op \in SendOp /\ op.type \in {"REQ", "IND"}
    BY <2>1, PickedType
  <2>3. m \in Pdu /\ m.type = op.type
    BY <2>2, AirType DEF Air
  <2> HIDE DEF op, m
  <2>4. OnTheWay' = OnTheWay
    BY <1>1, <2>1, <2>2, <2>3, AtAppend, ServedTypes DEF OnTheWay
  <2> QED BY <2>1, <2>4 DEF OnePlace, Unread, Queued
<1> QED BY <1>2, <1>3

LEMMA PeerServes ==
  ASSUME TypeInv, OnePlace, Peripheral, ~strayed'
  PROVE  OnePlace'
<1> USE DEF Local, queues, pending
<1>1. tx \in Seq(Pdu) /\ rx \in Seq(Pdu)
  BY DEF TypeInv, BearerTypeOK
<1>2. CASE PeerAnswers \/ PeerTakes
  <2>1. /\ tx # <<>> /\ tx' = Tail(tx) /\ write_queue' = write_queue
    BY <1>2 DEF PeerAnswers, PeerTakes, Received
  <2> DEFINE kept == Head(tx).type # "RSP"
  <2>a. owed' = (owed /\ kept)
    <3>1. CASE PeerTakes
      BY <3>1 DEF PeerTakes
    <3>2. CASE PeerAnswers
      <4>1. kept /\ owed' = owed /\ owed \in BOOLEAN
        BY <3>2 DEF PeerAnswers, Received, remote, TypeInv, BearerTypeOK
      <4> HIDE DEF kept
      <4> QED BY <4>1
    <3> QED BY <1>2, <3>1, <3>2
  <2>2. OnTheWay' = OnTheWay - (IF Head(tx).type \in {"RSP"} THEN 1 ELSE 0) /\ Queued' = Queued
    BY <1>1, <2>1, AtTail DEF OnTheWay, Queued
  <2>3. Unread' = Unread /\ \A m \in Ops(rx') : m.type \notin Malformed
    <3>1. rx' = rx \/ \E m \in Pdu : m.type \in {"RSP", "ERR", "CONF"} /\ rx' = Append(rx, m)
      <4>1. Head(tx) \in Pdu
        BY <1>1, <2>1
      <4>2. \A type \in {"RSP", "ERR", "CONF"}, e \in {"none", "encryption", "authentication", "other"} :
              Air(type, Head(tx).opcode, e, Head(tx).re) \in Pdu /\ Air(type, Head(tx).opcode, e, Head(tx).re).type = type
        BY <4>1 DEF Air, Pdu, OpType
      <4>3. Air("CONF", "none", "none", 0) \in Pdu /\ Air("CONF", "none", "none", 0).type = "CONF"
        BY DEF Air, Pdu, OpType
      <4>4. CASE PeerAnswers
        BY <4>2, <4>4 DEF PeerAnswers
      <4>5. CASE PeerTakes
        BY <4>3, <4>5 DEF PeerTakes
      <4> QED BY <1>2, <4>4, <4>5
    <3>2. CASE rx' = rx
      BY <3>2 DEF Unread, OnePlace
    <3>3. ASSUME NEW m \in Pdu, m.type \in {"RSP", "ERR", "CONF"}, rx' = Append(rx, m)
          PROVE  Unread' = Unread /\ \A n \in Ops(rx') : n.type \notin Malformed
      <4>1. m.type \notin Asking /\ m.type \notin Malformed
        BY <3>3 DEF Asking, Malformed
      <4> QED BY <1>1, <3>3, <4>1, AtAppend, OpsAppend, ServedTypes DEF Unread, OnePlace
    <3> QED BY <3>1, <3>2, <3>3
  <2>4. CASE Head(tx).type = "RSP"
    <3>1. ~owed'
      <4>1. ~kept
        BY <2>4
      <4> HIDE DEF kept
      <4> QED BY <2>a, <4>1
    <3>2. OnTheWay' = OnTheWay - 1 /\ Unread' = Unread /\ Queued' = Queued
      BY <2>2, <2>3, <2>4
    <3>3. OnTheWay' \in Nat
      <4>1. tx' \in Seq(Pdu)
        BY <1>1, <2>1
      <4> QED BY <4>1, AtFinite DEF OnTheWay
    <3>4. OnTheWay = 1 /\ Unread = 0 /\ Queued = 0
      BY <3>2, <3>3, ServedTypes DEF OnePlace
    <3>5. OnTheWay' = 0 /\ Unread' = 0 /\ Queued' = 0
      BY <3>2, <3>4
    <3> QED BY <2>3, <3>1, <3>5 DEF OnePlace
  <2>5. CASE Head(tx).type # "RSP"
    <3>1. owed' <=> owed
      <4>1. kept
        BY <2>5
      <4> HIDE DEF kept
      <4> QED BY <2>a, <4>1
    <3>2. Unread' + Queued' + OnTheWay' = Unread + Queued + OnTheWay
      BY <2>2, <2>3, <2>5, ServedTypes
    <3> QED BY <2>3, <3>1, <3>2 DEF OnePlace
  <2> QED BY <2>4, <2>5
<1>3. CASE \E type \in PeerPdus : PeerSends(type)
  <2>1. PICK type \in PeerPdus : PeerSends(type)
    BY <1>3
  <2>2. PICK opcode \in Opcode \cup {"none"} : rx' = Append(rx, Air(type, opcode, "none", 0))
    BY <2>1 DEF PeerSends
  <2> DEFINE m == Air(type, opcode, "none", 0)
             asks == type \in Asking
  <2>3. m \in Pdu /\ m.type = type
    BY <2>1, BearerAssumption DEF Air, Pdu
  <2>4. rx' = Append(rx, m) /\ UNCHANGED <<tx, write_queue>> /\ owed' = (owed \/ asks)
    BY <2>1, <2>2 DEF PeerSends
  <2>5. type \notin Malformed /\ (asks => ~owed)
    BY <2>1 DEF PeerSends, Malformed
  <2> HIDE DEF m
  <2>6. /\ Unread' = Unread + (IF asks THEN 1 ELSE 0) /\ Ops(rx') = Ops(rx) \cup {m}
        /\ OnTheWay' = OnTheWay /\ Queued' = Queued
    BY <1>1, <2>3, <2>4, AtAppend, OpsAppend DEF Unread, OnTheWay, Queued
  <2> HIDE DEF asks
  <2>7. CASE asks
    <3>1. owed' /\ ~owed
      BY <2>4, <2>5, <2>7
    <3>2. Unread' + Queued' + OnTheWay' = 1
      BY <2>6, <2>7, <3>1, ServedTypes DEF OnePlace
    <3> QED BY <2>3, <2>5, <2>6, <3>1, <3>2 DEF OnePlace
  <2>8. CASE ~asks
    <3>1. owed' <=> owed
      BY <2>4, <2>8
    <3>2. Unread' + Queued' + OnTheWay' = Unread + Queued + OnTheWay
      BY <2>6, <2>8, ServedTypes
    <3> QED BY <2>3, <2>5, <2>6, <3>1, <3>2 DEF OnePlace
  <2> QED BY <2>7, <2>8
<1> QED BY <1>2, <1>3 DEF Peripheral

LEMMA NextInHand ==
  ASSUME TypeInv, InHand, [BearerNext]_bearer
  PROVE  InHand'
<1>1. SUFFICES ASSUME ~strayed', io' = "open", io = "open", OnePlace PROVE OnePlace'
  BY StrayedGrows, StaysShut DEF InHand
<1>2. CASE WriteQueued \/ \E which \in {"req", "ind"} : WriteAwaited(which)
  BY <1>1, <1>2, WriterServed
<1>3. CASE WriterStops \/ (\E id \in track_ids : Cancel(id)) \/ CancelAll \/ UNCHANGED bearer
  BY <1>1, <1>3, SameServed DEF WriterStops, Cancel, CancelAll, Cancelled, bearer, queues, remote
<1>4. CASE WriteFails \/ UnexpectedRsp \/ UnexpectedConf \/ SecondRequest \/ HandleExecWrite \/ DisconnectCb
             \/ LinkLoss \/ Free
  BY <1>1, <1>4 DEF WriteFails, UnexpectedRsp, UnexpectedConf, SecondRequest, HandleExecWrite, DisconnectCb,
                    LinkLoss, Free, Shutdown
<1>5. CASE RetryRequest \/ HandleConf \/ \E next \in Opcode \cup {"none"} : HandleRsp(next)
  <2>1. Arrives({"RSP", "ERR", "CONF", "CMD", "NOT", "IND"}) /\ UNCHANGED <<tx, owed>>
    BY <1>5 DEF RetryRequest, HandleConf, HandleRsp, Arrives, remote
  <2>2. write_queue' = write_queue
    <3>1. CASE RetryRequest \/ HandleConf
      BY <3>1 DEF RetryRequest, HandleConf, queues
    <3>2. CASE \E next \in Opcode \cup {"none"} : HandleRsp(next)
      <4>1. PICK next \in Opcode \cup {"none"} : HandleRsp(next)
        BY <3>2
      <4>2. Enqueue(IF next = "none" THEN NoOp ELSE NewOp("REQ", next))
        BY <4>1 DEF HandleRsp
      <4>3. CASE next = "none"
        BY <4>2, <4>3 DEF Enqueue
      <4>4. CASE next # "none"
        BY <4>2, <4>4 DEF Enqueue, NewOp, HasCallback
      <4> QED BY <4>3, <4>4
    <3> QED BY <1>5, <3>1, <3>2
  <2> QED BY <1>1, <2>1, <2>2, NoRequestServed
<1>6. CASE HandlePdu
  BY <1>1, <1>6, HandlePduServed
<1>7. CASE \E t \in timers : Timeout(t)
  BY <1>1, <1>7, SameServed DEF Timeout, TimedOut, Shutdown, queues, remote
<1>8. ASSUME NEW type \in Kinds, NEW opcode \in Opcode \cup {"none"}, Send(type, opcode)
      PROVE  OnePlace'
  <2> DEFINE op == NewOp(type, opcode)
  <2>1. Enqueue(op) /\ UNCHANGED <<tx, rx, owed>> /\ next_send_id \in Id
    BY <1>8, RoomLeft DEF Send, remote
  <2>2. type \in OpType /\ type # "RSP"
    BY BearerAssumption DEF OpType, AboveKinds
  <2>3. op \in SendOp /\ op.type # "RSP" /\ op # NoOp
    BY <2>1, <2>2, NewOpType, NoOpFacts
  <2>4. write_queue' = write_queue \/ write_queue' = Append(write_queue, op)
    BY <2>1 DEF Enqueue
  <2> HIDE DEF op
  <2>5. Queued' = Queued
    <3>1. write_queue \in Seq(SendOp)
      BY DEF TypeInv, BearerTypeOK
    <3>2. CASE write_queue' = write_queue
      BY <3>2 DEF Queued
    <3>3. CASE write_queue' = Append(write_queue, op)
      BY <2>3, <3>1, <3>3, AtAppend, ServedTypes DEF Queued
    <3> QED BY <2>4, <3>2, <3>3
  <2> QED BY <1>1, <2>1, <2>5 DEF OnePlace, Unread, OnTheWay
<1>9. CASE (\E opcode \in Opcode : Send("REQ", opcode)) \/ (\E type \in Kinds \ {"REQ"} : Send(type, "none"))
  <2>1. \E type \in Kinds, opcode \in Opcode \cup {"none"} : Send(type, opcode)
    BY <1>9 DEF Send
  <2> QED BY <1>8, <2>1
<1>10. CASE Peripheral
  BY <1>1, <1>10, PeerServes
<1> QED BY <1>2, <1>3, <1>4, <1>5, <1>6, <1>7, <1>9, <1>10 DEF BearerNext, Above, Writer, Reader

\* One at most of what is counted, and the one it is.
LEMMA AtMostOne ==
  ASSUME NEW S, NEW air \in Seq(S), NEW types
  PROVE  /\ Cardinality(At(air, types)) <= 1 => \A j, k \in At(air, types) : j = k
         /\ Cardinality(At(air, types)) = 0 <=> At(air, types) = {}
<1>1. IsFiniteSet(At(air, types)) /\ Cardinality(At(air, types)) \in Nat
  BY AtFinite
<1>2. Cardinality(At(air, types)) = 0 <=> At(air, types) = {}
  BY <1>1, FS_EmptySet
<1>3. ASSUME Cardinality(At(air, types)) <= 1, NEW j \in At(air, types), NEW k \in At(air, types)
      PROVE  j = k
  <2>1. IsFiniteSet(At(air, types) \ {j})
          /\ Cardinality(At(air, types) \ {j}) = Cardinality(At(air, types)) - 1
    BY <1>1, FS_RemoveElement
  <2>2. Cardinality(At(air, types) \ {j}) \in Nat
    BY <2>1, FS_CardinalityType
  <2>3. Cardinality(At(air, types) \ {j}) = 0
    BY <1>1, <1>3, <2>1, <2>2
  <2>4. At(air, types) \ {j} = {}
    BY <2>1, <2>3, FS_EmptySet
  <2> QED BY <2>4
<1> QED BY <1>2, <1>3

\* A request of a peripheral that keeps to the protocol is in one place, and in
\* none once it was answered: the handlers of the helper lose none and answer
\* none twice (handle_notify and the handlers whose names begin with gatts).
THEOREM PeerServedAlways == BearerSpec => []PeerServed
<1>1. BearerInit => InHand
  BY AtEmpty, OpsEmpty DEF BearerInit, InHand, OnePlace, Unread, Queued, OnTheWay
<1>2. TypeInv /\ InHand /\ [BearerNext]_bearer => InHand'
  BY NextInHand
<1>3. TypeInv /\ InHand => PeerServed
  <2>1. SUFFICES ASSUME TypeInv, OnePlace
                 PROVE  (\A p, q \in Answering : p = q) /\ (Answering # {}) = owed
    BY DEF InHand, PeerServed
  <2> DEFINE R == At(rx, Asking)
             W == At(write_queue, {"RSP"})
             T == At(tx, {"RSP"})
  <2>2. Answering = {<<"rx", k>> : k \in R} \cup {<<"write_queue", k>> : k \in W} \cup {<<"tx", k>> : k \in T}
    BY DEF Answering, At
  <2>3. rx \in Seq(Pdu) /\ tx \in Seq(Pdu) /\ write_queue \in Seq(SendOp) /\ owed \in BOOLEAN
    BY <2>1 DEF TypeInv, BearerTypeOK
  <2>4. /\ Unread <= 1 => \A j, k \in R : j = k
        /\ Unread = 0 <=> R = {}
        /\ Queued <= 1 => \A j, k \in W : j = k
        /\ Queued = 0 <=> W = {}
        /\ OnTheWay <= 1 => \A j, k \in T : j = k
        /\ OnTheWay = 0 <=> T = {}
    BY <2>3, AtMostOne DEF Unread, Queued, OnTheWay
  <2>5. \/ owed /\ Unread = 1 /\ Queued = 0 /\ OnTheWay = 0
        \/ owed /\ Unread = 0 /\ Queued = 1 /\ OnTheWay = 0
        \/ owed /\ Unread = 0 /\ Queued = 0 /\ OnTheWay = 1
        \/ ~owed /\ Unread = 0 /\ Queued = 0 /\ OnTheWay = 0
    BY <2>1, ServedTypes DEF OnePlace
  <2> HIDE DEF R, W, T
  <2>6. \/ owed /\ R # {} /\ (\A j, k \in R : j = k) /\ W = {} /\ T = {}
        \/ owed /\ R = {} /\ W # {} /\ (\A j, k \in W : j = k) /\ T = {}
        \/ owed /\ R = {} /\ W = {} /\ T # {} /\ (\A j, k \in T : j = k)
        \/ ~owed /\ R = {} /\ W = {} /\ T = {}
    BY <2>4, <2>5
  <2>7. \A p, q \in Answering : p = q
    BY <2>2, <2>6
  <2>8. (Answering # {}) <=> owed
    BY <2>2, <2>6
  <2> QED BY <2>3, <2>7, <2>8
<1> QED BY <1>1, <1>2, <1>3, BearerTypeCorrect, PTL DEF BearerSpec

-----------------------------------------------------------------------------
(* The requests implement the channel of transactions.                      *)

\* The numbers of a queue are as many, in its order.
LEMMA NumbersType ==
  ASSUME NEW s \in Seq(SendOp)
  PROVE  /\ Numbers(s) \in Seq(Id) /\ Len(Numbers(s)) = Len(s) /\ Len(s) \in Nat
         /\ \A k \in 1 .. Len(s) : Numbers(s)[k] = s[k].id
<1>1. Len(s) \in Nat /\ DOMAIN s = 1 .. Len(s) /\ \A k \in 1 .. Len(s) : s[k] \in SendOp
  OBVIOUS
<1>2. Numbers(s) = [k \in 1 .. Len(s) |-> s[k].id]
  BY <1>1 DEF Numbers
<1>3. \A k \in 1 .. Len(s) : s[k].id \in Id
  BY <1>1 DEF SendOp
<1>4. Numbers(s) \in [1 .. Len(s) -> Id]
  BY <1>2, <1>3
<1>5. Numbers(s) \in Seq(Id)
  BY <1>1, <1>4
<1>6. Len(Numbers(s)) = Len(s)
  BY <1>1, <1>4, <1>5
<1> QED BY <1>1, <1>2, <1>5, <1>6

LEMMA NumbersAppend ==
  ASSUME NEW s \in Seq(SendOp), NEW e \in SendOp
  PROVE  Numbers(Append(s, e)) = Append(Numbers(s), e.id)
<1>1. Append(s, e) \in Seq(SendOp) /\ Len(Append(s, e)) = Len(s) + 1 /\ Len(s) \in Nat
        /\ Append(s, e)[Len(s) + 1] = e
        /\ \A k \in 1 .. Len(s) : Append(s, e)[k] = s[k]
  BY AppendProperties
<1>2. e.id \in Id
  BY DEF SendOp
<1>3. Numbers(s) \in Seq(Id) /\ Len(Numbers(s)) = Len(s)
        /\ \A k \in 1 .. Len(s) : Numbers(s)[k] = s[k].id
  BY NumbersType
<1>4. Append(Numbers(s), e.id) \in Seq(Id) /\ Len(Append(Numbers(s), e.id)) = Len(s) + 1
        /\ Append(Numbers(s), e.id)[Len(s) + 1] = e.id
        /\ \A k \in 1 .. Len(s) : Append(Numbers(s), e.id)[k] = s[k].id
  BY <1>2, <1>3, AppendProperties
<1>5. Numbers(Append(s, e)) \in Seq(Id) /\ Len(Numbers(Append(s, e))) = Len(s) + 1
        /\ \A k \in 1 .. (Len(s) + 1) : Numbers(Append(s, e))[k] = Append(s, e)[k].id
  BY <1>1, NumbersType
<1>6. \A k \in 1 .. (Len(s) + 1) : Numbers(Append(s, e))[k] = Append(Numbers(s), e.id)[k]
  <2>1. ASSUME NEW k \in 1 .. Len(s)
        PROVE  Numbers(Append(s, e))[k] = Append(Numbers(s), e.id)[k]
    BY <1>1, <1>4, <1>5
  <2> QED BY <1>1, <1>4, <1>5, <2>1
<1> QED BY <1>4, <1>5, <1>6, SeqEqual

LEMMA NumbersTail ==
  ASSUME NEW s \in Seq(SendOp), s # <<>>
  PROVE  /\ Numbers(s) # <<>>
         /\ Head(Numbers(s)) = Head(s).id
         /\ Numbers(Tail(s)) = Tail(Numbers(s))
<1>1. Tail(s) \in Seq(SendOp) /\ Len(Tail(s)) = Len(s) - 1
        /\ \A k \in 1 .. Len(Tail(s)) : Tail(s)[k] = s[k + 1]
  BY HeadTailProperties
<1>2. Len(s) \in Nat \ {0} /\ Head(s) = s[1]
  OBVIOUS
<1>3. Numbers(s) \in Seq(Id) /\ Len(Numbers(s)) = Len(s)
        /\ \A k \in 1 .. Len(s) : Numbers(s)[k] = s[k].id
  BY NumbersType
<1>4. Numbers(s) # <<>> /\ Head(Numbers(s)) = Numbers(s)[1]
  BY <1>2, <1>3
<1>5. Tail(Numbers(s)) \in Seq(Id) /\ Len(Tail(Numbers(s))) = Len(s) - 1
        /\ \A k \in 1 .. (Len(s) - 1) : Tail(Numbers(s))[k] = Numbers(s)[k + 1]
  BY <1>3, <1>4, HeadTailProperties
<1>6. Numbers(Tail(s)) \in Seq(Id) /\ Len(Numbers(Tail(s))) = Len(s) - 1
        /\ \A k \in 1 .. (Len(s) - 1) : Numbers(Tail(s))[k] = Tail(s)[k].id
  BY <1>1, NumbersType
<1>7. \A k \in 1 .. (Len(s) - 1) : Numbers(Tail(s))[k] = Tail(Numbers(s))[k]
  BY <1>1, <1>2, <1>3, <1>5, <1>6
<1>8. Numbers(Tail(s)) = Tail(Numbers(s))
  BY <1>5, <1>6, <1>7, SeqEqual
<1> QED BY <1>2, <1>3, <1>4, <1>8

LEMMA NumbersCons ==
  ASSUME NEW s \in Seq(SendOp), NEW e \in SendOp
  PROVE  Numbers(<<e>> \o s) = <<e.id>> \o Numbers(s)
<1> DEFINE t == <<e>> \o s
           u == <<e.id>> \o Numbers(s)
<1>1. t \in Seq(SendOp) /\ Len(t) = Len(s) + 1 /\ Len(s) \in Nat /\ t[1] = e
        /\ \A k \in 1 .. Len(s) : t[k + 1] = s[k]
  OBVIOUS
<1>2. e.id \in Id
  BY DEF SendOp
<1>3. Numbers(s) \in Seq(Id) /\ Len(Numbers(s)) = Len(s)
        /\ \A k \in 1 .. Len(s) : Numbers(s)[k] = s[k].id
  BY NumbersType
<1>4. u \in Seq(Id) /\ Len(u) = Len(s) + 1 /\ u[1] = e.id
        /\ \A k \in 1 .. Len(s) : u[k + 1] = s[k].id
  BY <1>2, <1>3
<1>5. Numbers(t) \in Seq(Id) /\ Len(Numbers(t)) = Len(s) + 1
        /\ \A k \in 1 .. (Len(s) + 1) : Numbers(t)[k] = t[k].id
  BY <1>1, NumbersType
<1> HIDE DEF t, u
<1>6. \A k \in 1 .. (Len(s) + 1) : Numbers(t)[k] = u[k]
  <2>1. ASSUME NEW k \in 2 .. (Len(s) + 1) PROVE Numbers(t)[k] = u[k]
    <3>1. k - 1 \in 1 .. Len(s) /\ (k - 1) + 1 = k
      BY <1>1
    <3>2. t[k] = s[k - 1] /\ u[k] = s[k - 1].id
      BY <1>1, <1>4, <3>1
    <3> QED BY <1>1, <1>5, <3>2
  <2>2. Numbers(t)[1] = u[1]
    BY <1>1, <1>4, <1>5
  <2> QED BY <1>1, <2>1, <2>2
<1> QED BY <1>4, <1>5, <1>6, SeqEqual DEF t, u

LEMMA NumbersNone == Numbers(<<>>) = <<>>
<1>1. <<>> \in Seq(SendOp)
  OBVIOUS
<1>2. Numbers(<<>>) \in Seq(Id) /\ Len(Numbers(<<>>)) = 0
  BY <1>1, NumbersType
<1> QED BY <1>2

\* Leaving operations out thins the queue.
LEMMA WithoutThins ==
  ASSUME NEW q \in Seq(SendOp), NEW gone, NEW t \in Without(q, gone)
  PROVE  Requests!Thinned(Numbers(q), Numbers(t))
<1> DEFINE rest == {k \in DOMAIN q : q[k].id \notin gone}
<1>0. PICK n \in 0 .. Len(q) : \E f \in [1 .. n -> rest] :
        /\ \A i, j \in DOMAIN f : i < j => f[i] < f[j]
        /\ t = [i \in DOMAIN f |-> q[f[i]]]
  BY ZenonT(60) DEF Without
<1>1. PICK f \in [1 .. n -> rest] :
        /\ \A i, j \in DOMAIN f : i < j => f[i] < f[j]
        /\ t = [i \in DOMAIN f |-> q[f[i]]]
  BY <1>0
<1>2. DOMAIN f = 1 .. n /\ DOMAIN t = 1 .. n /\ DOMAIN Numbers(t) = 1 .. n /\ DOMAIN Numbers(q) = DOMAIN q
        /\ rest \subseteq DOMAIN q
  BY <1>1 DEF Numbers
<1>3. f \in [DOMAIN Numbers(t) -> DOMAIN Numbers(q)]
  BY <1>2
<1>4. \A i \in 1 .. n : Numbers(t)[i] = Numbers(q)[f[i]]
  <2>1. SUFFICES ASSUME NEW i \in 1 .. n PROVE Numbers(t)[i] = Numbers(q)[f[i]]
    OBVIOUS
  <2>2. f[i] \in DOMAIN q /\ t[i] = q[f[i]]
    BY <1>1, <1>2
  <2> QED BY <1>2, <2>2 DEF Numbers
<1> QED BY <1>1, <1>2, <1>3, <1>4 DEF Requests!Thinned

LEMMA TailThins ==
  ASSUME NEW q \in Seq(SendOp), q # <<>>
  PROVE  Requests!Thinned(Numbers(q), Numbers(Tail(q)))
<1> DEFINE t == Tail(q)
           f == [i \in DOMAIN t |-> i + 1]
<1>1. /\ Len(q) \in Nat \ {0} /\ DOMAIN q = 1 .. Len(q) /\ DOMAIN t = 1 .. (Len(q) - 1)
      /\ \A i \in DOMAIN t : t[i] = q[i + 1]
  OBVIOUS
<1> HIDE DEF t
<1>2. DOMAIN Numbers(t) = DOMAIN t /\ DOMAIN Numbers(q) = DOMAIN q
  BY DEF Numbers
<1>3. f \in [DOMAIN Numbers(t) -> DOMAIN Numbers(q)]
  BY <1>1, <1>2
<1>4. \A i, j \in DOMAIN Numbers(t) : i < j => f[i] < f[j]
  BY <1>1, <1>2
<1>5. \A i \in DOMAIN Numbers(t) : Numbers(t)[i] = Numbers(q)[f[i]]
  BY <1>1, <1>2 DEF Numbers
<1> HIDE DEF f
<1> QED BY <1>3, <1>4, <1>5 DEF t, Requests!Thinned

LEMMA NothingThins ==
  ASSUME NEW s
  PROVE  Requests!Thinned(s, <<>>)
<1>1. DOMAIN <<>> = {}
  OBVIOUS
<1> DEFINE f == [i \in {} |-> s]
<1>2. f \in [DOMAIN <<>> -> DOMAIN s]
  BY <1>1
<1> QED BY <1>1, <1>2 DEF Requests!Thinned

LEMMA SameThins ==
  ASSUME NEW q \in Seq(SendOp)
  PROVE  Requests!Thinned(Numbers(q), Numbers(q))
<1> DEFINE f == [i \in DOMAIN q |-> i]
<1>1. DOMAIN Numbers(q) = DOMAIN q /\ f \in [DOMAIN q -> DOMAIN q]
  BY DEF Numbers
<1>2. \A i, j \in DOMAIN q : i < j => f[i] < f[j]
  OBVIOUS
<1>3. \A i \in DOMAIN q : Numbers(q)[i] = Numbers(q)[f[i]]
  OBVIOUS
<1> HIDE DEF f
<1> QED BY <1>1, <1>2, <1>3 DEF Requests!Thinned

ReqWaiting == Numbers(req_queue)
ReqFlying == Under(pending_req)
Issued == next_send_id - 1

ChannelStep == Requests!ChannelNext \/ UNCHANGED <<ReqWaiting, ReqFlying, Issued>>

\* Requests leave before their turn.
LEMMA WithdrawStep ==
  ASSUME Requests!Thinned(ReqWaiting, ReqWaiting'), ReqFlying' \subseteq ReqFlying, UNCHANGED next_send_id
  PROVE  ChannelStep
<1>1. Requests!Withdraw
  BY DEF Requests!Withdraw, ReqWaiting, ReqFlying
<1> QED BY <1>1 DEF ChannelStep, Requests!ChannelNext

LEMMA IdleStep ==
  ASSUME UNCHANGED <<req_queue, pending_req, next_send_id>>
  PROVE  ChannelStep
  BY DEF ChannelStep, ReqWaiting, ReqFlying, Issued

LEMMA IssuedNext ==
  ASSUME TypeInv, next_send_id' = next_send_id + 1
  PROVE  /\ Issued' \in Nat /\ Issued' >= Issued
         /\ next_send_id \in (Issued + 1) .. Issued'
  BY DEF TypeInv, BearerTypeOK, Issued

LEMMA PassStep ==
  ASSUME TypeInv, UNCHANGED <<req_queue, pending_req>>, next_send_id' = next_send_id + 1
  PROVE  ChannelStep
<1>1. Issued' \in Nat /\ Issued' >= Issued
  BY IssuedNext
<1>2. Requests!Pass
  BY <1>1 DEF Requests!Pass, Requests!Numbered, Issued
<1> QED BY <1>2 DEF ChannelStep, Requests!ChannelNext

LEMMA WriteAwaitedStep ==
  ASSUME TypeInv, NEW which \in {"req", "ind"}, WriteAwaited(which)
  PROVE  ChannelStep
<1> DEFINE op == Picked(which)
<1>1. /\ Pick = which /\ Pop(which) /\ next_send_id' = next_send_id
      /\ pending_req' = (IF which = "req" THEN op ELSE pending_req)
  BY DEF WriteAwaited, ids
<1>2. CASE which = "ind"
  BY <1>1, <1>2, IdleStep DEF Pop
<1>3. CASE which = "req"
  <2>1. /\ req_queue \in Seq(SendOp) /\ req_queue # <<>> /\ pending_req = NoOp
        /\ req_queue' = Tail(req_queue) /\ pending_req' = op
    BY <1>1, <1>3, PickFinds DEF Pop, TypeInv, BearerTypeOK
  <2>2. op.id = Head(req_queue).id /\ op # NoOp
    BY <1>1, <1>3, PickedType, NoOpFacts
  <2>3. ReqWaiting # <<>> /\ Head(ReqWaiting) = op.id /\ ReqWaiting' = Tail(ReqWaiting)
    BY <2>1, <2>2, NumbersTail DEF ReqWaiting
  <2>4. ReqFlying = {} /\ ReqFlying' = {op.id}
    BY <2>1, <2>2 DEF ReqFlying, Under
  <2> HIDE DEF op
  <2>5. Requests!Start
    BY <1>1, <2>3, <2>4 DEF Requests!Start, ReqWaiting, ReqFlying
  <2> QED BY <2>5 DEF ChannelStep, Requests!ChannelNext
<1> QED BY <1>2, <1>3

LEMMA WriteFailsStep ==
  ASSUME TypeInv, WriteFails
  PROVE  ChannelStep
<1>1. Pick # "nothing" /\ Pop(Pick) /\ UNCHANGED <<pending_req, next_send_id>>
  BY DEF WriteFails, pending
<1>2. CASE Pick = "req"
  <2>1. req_queue \in Seq(SendOp) /\ req_queue # <<>> /\ req_queue' = Tail(req_queue)
    BY <1>1, <1>2, PickFinds DEF Pop, TypeInv, BearerTypeOK
  <2>2. Requests!Thinned(ReqWaiting, ReqWaiting')
    BY <2>1, TailThins DEF ReqWaiting
  <2>3. ReqFlying' = ReqFlying
    BY <1>1 DEF ReqFlying
  <2> QED BY <1>1, <2>2, <2>3, WithdrawStep
<1>3. CASE Pick # "req"
  BY <1>1, <1>3, IdleStep DEF Pop
<1> QED BY <1>2, <1>3

LEMMA RetryStep ==
  ASSUME TypeInv, RetryRequest
  PROVE  ChannelStep
<1> DEFINE op == pending_req
<1>1. /\ op \in SendOp /\ op # NoOp /\ req_queue \in Seq(SendOp)
      /\ req_queue' = <<op>> \o req_queue /\ pending_req' = NoOp /\ next_send_id' = next_send_id
  BY DEF RetryRequest, Retried, ids, TypeInv, BearerTypeOK
<1>2. ReqFlying = {op.id} /\ ReqFlying' = {}
  BY <1>1 DEF ReqFlying, Under
<1>3. ReqWaiting' = <<op.id>> \o ReqWaiting
  BY <1>1, NumbersCons DEF ReqWaiting
<1> HIDE DEF op
<1>4. Requests!Again
  BY <1>1, <1>2, <1>3 DEF Requests!Again, ReqWaiting, ReqFlying
<1> QED BY <1>4 DEF ChannelStep, Requests!ChannelNext

LEMMA HandleRspStep ==
  ASSUME TypeInv, NEW next \in Opcode \cup {"none"}, HandleRsp(next)
  PROVE  ChannelStep
<1> DEFINE new == IF next = "none" THEN NoOp ELSE NewOp("REQ", next)
<1>1. /\ pending_req # NoOp /\ pending_req' = NoOp /\ Enqueue(new)
      /\ next # "none" => next_send_id <= MaxOps
  BY DEF HandleRsp
<1>2. ReqFlying # {} /\ ReqFlying' = {}
  BY <1>1 DEF ReqFlying, Under
<1>3. CASE next = "none"
  <2>1. UNCHANGED <<req_queue, next_send_id>>
    BY <1>1, <1>3 DEF Enqueue, NoOp
  <2>2. Issued' \in Nat /\ Issued' >= Issued
    BY <2>1 DEF Issued, TypeInv, BearerTypeOK
  <2>3. ReqWaiting' = ReqWaiting
    BY <2>1 DEF ReqWaiting
  <2>4. Requests!Finish
    BY <1>2, <2>2, <2>3 DEF Requests!Finish, Requests!Numbered, ReqWaiting, ReqFlying, Issued
  <2> QED BY <2>4 DEF ChannelStep, Requests!ChannelNext
<1>4. CASE next # "none"
  <2>1. new \in SendOp /\ new.id = next_send_id /\ new.type = "REQ" /\ new # NoOp
    BY <1>1, <1>4, FollowUp
  <2> HIDE DEF new
  <2>2. req_queue' = Append(req_queue, new) /\ next_send_id' = next_send_id + 1
    BY <1>1, <2>1 DEF Enqueue
  <2>3. ReqWaiting' = Append(ReqWaiting, next_send_id)
    BY <2>1, <2>2, NumbersAppend DEF ReqWaiting, TypeInv, BearerTypeOK
  <2>4. Issued' \in Nat /\ Issued' >= Issued /\ next_send_id \in (Issued + 1) .. Issued'
    BY <2>2, IssuedNext
  <2>5. Requests!Finish
    BY <1>2, <2>3, <2>4 DEF Requests!Finish, Requests!Numbered, Requests!Submitted, ReqWaiting, ReqFlying, Issued
  <2> QED BY <2>5 DEF ChannelStep, Requests!ChannelNext
<1> QED BY <1>3, <1>4

LEMMA SendStep ==
  ASSUME TypeInv, NEW type \in Kinds, NEW opcode \in Opcode \cup {"none"}, Send(type, opcode)
  PROVE  ChannelStep
<1> DEFINE new == NewOp(type, opcode)
<1>1. Enqueue(new) /\ pending_req' = pending_req /\ next_send_id \in Id /\ type \in OpType
  BY RoomLeft, BearerAssumption DEF Send, pending, OpType
<1>2. new \in SendOp /\ new.id = next_send_id /\ new.type = type /\ new # NoOp
  BY <1>1, NewOpType, NoOpFacts
<1> HIDE DEF new
<1>3. next_send_id' = next_send_id + 1
  BY <1>1, <1>2 DEF Enqueue
<1>4. CASE type # "REQ"
  BY <1>1, <1>2, <1>3, <1>4, PassStep DEF Enqueue
<1>5. CASE type = "REQ"
  <2>1. ReqWaiting' = Append(ReqWaiting, next_send_id)
    BY <1>1, <1>2, <1>5, NumbersAppend DEF ReqWaiting, Enqueue, TypeInv, BearerTypeOK
  <2>2. Issued' \in Nat /\ Issued' >= Issued /\ next_send_id \in (Issued + 1) .. Issued'
    BY <1>3, IssuedNext
  <2>3. ReqFlying' = ReqFlying
    BY <1>1 DEF ReqFlying
  <2>4. Requests!Submit
    BY <2>1, <2>2, <2>3 DEF Requests!Submit, Requests!Numbered, Requests!Submitted, ReqWaiting, ReqFlying, Issued
  <2> QED BY <2>4 DEF ChannelStep, Requests!ChannelNext
<1> QED BY <1>4, <1>5

LEMMA HandlePduStep ==
  ASSUME TypeInv, HandlePdu
  PROVE  ChannelStep
<1> DEFINE type == Head(rx).type
           new == Reply(type)
           read == {"REQ", "MTU_REQ", "BAD_MTU_REQ", "CMD", "NOT", "IND", "UNKNOWN"}
<1>1. Enqueue(new) /\ pending_req' = pending_req /\ Arrives(read)
  BY DEF HandlePdu, pending
<1>2. type \in Answerable => next_send_id \in Id
  BY <1>1, ArrivesRoom, RoomLeft
<1>3. new = NoOp \/ (new # NoOp /\ new.type \in {"RSP", "CONF"})
  BY <1>2, ReplyType
<1> HIDE DEF new
<1>4. CASE new = NoOp
  <2>1. UNCHANGED <<req_queue, next_send_id>>
    BY <1>1, <1>4 DEF Enqueue, NoOp
  <2> QED BY <1>1, <2>1, IdleStep
<1>5. CASE new # NoOp /\ new.type \in {"RSP", "CONF"}
  <2>1. req_queue' = req_queue /\ next_send_id' = next_send_id + 1
    BY <1>1, <1>5 DEF Enqueue
  <2> QED BY <1>1, <2>1, PassStep
<1> QED BY <1>3, <1>4, <1>5

LEMMA CloseStep ==
  ASSUME DisconnectCb \/ Free
  PROVE  ChannelStep
<1>1. req_queue' = <<>> /\ pending_req' = NoOp /\ next_send_id' = next_send_id
  BY DEF DisconnectCb, Free, NothingHeld
<1>2. ReqWaiting' = <<>> /\ ReqFlying' = {}
  BY <1>1, NumbersNone DEF ReqWaiting, ReqFlying, Under
<1> QED BY <1>1, <1>2, NothingThins, WithdrawStep

LEMMA TimeoutStep ==
  ASSUME TypeInv, NEW t \in timers, Timeout(t)
  PROVE  ChannelStep
<1>1. UNCHANGED <<req_queue, next_send_id>> /\ (pending_req' = pending_req \/ pending_req' = NoOp)
  BY DEF Timeout, queues
<1>2. ReqFlying' \subseteq ReqFlying
  BY <1>1 DEF ReqFlying, Under
<1>3. Requests!Thinned(ReqWaiting, ReqWaiting')
  BY <1>1, SameThins DEF ReqWaiting, TypeInv, BearerTypeOK
<1> QED BY <1>1, <1>2, <1>3, WithdrawStep

LEMMA CancelledStep ==
  ASSUME TypeInv, NEW gone, Cancelled(gone)
  PROVE  ChannelStep
<1>1. req_queue' \in Without(req_queue, gone) /\ UNCHANGED <<pending_req, next_send_id>>
  BY DEF Cancelled, pending
<1>2. Requests!Thinned(ReqWaiting, ReqWaiting')
  BY <1>1, WithoutThins DEF ReqWaiting, TypeInv, BearerTypeOK
<1>3. ReqFlying' = ReqFlying
  BY <1>1 DEF ReqFlying
<1> QED BY <1>1, <1>2, <1>3, WithdrawStep

LEMMA BearerStep ==
  ASSUME TypeInv, [BearerNext]_bearer
  PROVE  ChannelStep
<1>1. CASE WriteQueued \/ WriterStops \/ UnexpectedRsp \/ UnexpectedConf \/ SecondRequest \/ HandleExecWrite
             \/ HandleConf \/ LinkLoss \/ Peripheral \/ UNCHANGED bearer
  <2>1. UNCHANGED <<req_queue, pending_req, next_send_id>>
    BY <1>1 DEF WriteQueued, Pop, WriterStops, UnexpectedRsp, UnexpectedConf, SecondRequest, HandleExecWrite,
        HandleConf, LinkLoss, Peripheral, PeerAnswers, PeerTakes, PeerSends, Local, bearer, queues, pending, ids
  <2> QED BY <2>1, IdleStep
<1>2. CASE (\E which \in {"req", "ind"} : WriteAwaited(which)) \/ WriteFails
  BY <1>2, WriteAwaitedStep, WriteFailsStep
<1>3. CASE RetryRequest \/ HandlePdu \/ \E next \in Opcode \cup {"none"} : HandleRsp(next)
  BY <1>3, RetryStep, HandlePduStep, HandleRspStep
<1>4. CASE (\E t \in timers : Timeout(t)) \/ DisconnectCb \/ Free
  BY <1>4, TimeoutStep, CloseStep
<1>5. CASE (\E id \in track_ids : Cancel(id)) \/ CancelAll
  BY <1>5, CancelledStep DEF Cancel, CancelAll
<1>6. CASE (\E opcode \in Opcode : Send("REQ", opcode)) \/ (\E type \in Kinds \ {"REQ"} : Send(type, "none"))
  <2>1. \E type \in Kinds, opcode \in Opcode \cup {"none"} : Send(type, opcode)
    BY <1>6 DEF Send
  <2> QED BY <2>1, SendStep
<1> QED BY <1>1, <1>2, <1>3, <1>4, <1>5, <1>6 DEF BearerNext, Above, Writer, Reader

\* The requests of a bearer implement the channel of transactions: sent in
\* turn, one under way at a time, tried again at the head of the line, and
\* never back once they ended (bt_att_send, pick_next_send_op, handle_rsp,
\* handle_error_rsp, timeout_cb, bt_att_cancel).
THEOREM RequestsInTurnAlways == BearerSpec => RequestsInTurn
<1>1. BearerInit => Requests!ChannelInit
  <2> SUFFICES ASSUME BearerInit PROVE Requests!ChannelInit
    OBVIOUS
  <2>1. Under(pending_req) = {} /\ Numbers(req_queue) = <<>>
    BY NumbersNone DEF BearerInit, Under
  <2> QED BY <2>1 DEF BearerInit, Requests!ChannelInit
<1>2. TypeInv /\ [BearerNext]_bearer => [Requests!ChannelNext]_(Requests!channel)
  <2> SUFFICES ASSUME TypeInv, [BearerNext]_bearer
               PROVE  Requests!ChannelNext \/ UNCHANGED Requests!channel
    OBVIOUS
  <2>1. ChannelStep
    BY BearerStep
  <2> QED BY <2>1 DEF ChannelStep, Requests!channel, ReqWaiting, ReqFlying, Issued
<1> QED BY <1>1, <1>2, BearerTypeCorrect, PTL DEF BearerSpec, RequestsInTurn, Requests!ChannelSpec
=============================================================================
