--------------------------- MODULE Libraries_proofs ---------------------------
(***************************************************************************)
(* Proofs about the walks of gatt.c, for any peer, and about what the       *)
(* classes of btle.py remember of a device, for any devices.                *)
(***************************************************************************)
EXTENDS Libraries, FiniteSetTheorems, SequenceTheorems, TLAPS

-----------------------------------------------------------------------------
(* The walks of gatt.c.                                                     *)

One(q) == \E x : q = << x >>

WalkOps == {"all", "byUuid", "included", "chars", "descs"}

\* A walk has requests out or has called back, and only a walk over included
\* services has more than one request out.
WalkInv ==
  /\ walk = NoWalk => asked = << >> /\ result = << >> /\ ~ lost
  /\ walk # NoWalk =>
       /\ "op" \in DOMAIN walk /\ walk.op \in WalkOps
       /\ walk.op # "included" => asked = << >> \/ One(asked)
       /\ asked # << >> => result = << >>
       /\ asked = << >> => One(result) \/ (lost /\ result = << >>)

LEMMA OneFacts ==
  /\ \A x : /\ Append(<< >>, x) = << x >> /\ << x >> # << >> /\ Len(<< x >>) = 1
            /\ Tail(<< x >>) = << >>
  /\ Len(<< >>) = 0 /\ << >> \o << >> = << >>
<1>1. \A x : << x >> \in Seq({x})
  OBVIOUS
<1>2. \A x : Append(<< >>, x) = << x >> /\ << x >> # << >> /\ Len(<< x >>) = 1
  OBVIOUS
<1>3. ASSUME NEW x PROVE Tail(<< x >>) = << >>
  <2>1. Tail(<< x >>) \in Seq({x}) /\ Len(Tail(<< x >>)) = 0
    BY <1>1
  <2> QED BY <2>1, EmptySeq
<1>4. Len(<< >>) = 0 /\ << >> \o << >> = << >>
  OBVIOUS
<1> QED BY <1>2, <1>3, <1>4

LEMMA WalkInit == LibrariesInit => WalkInv
BY DEF LibrariesInit, GattInit, DiscoveryInit, WalkInv

\* The three ways a request ends.
LEMMA DoneInv ==
  ASSUME WalkInv, walk # NoWalk, walk.op # "included", asked # << >>, NEW err, NEW list, Done(err, list),
         lost' = lost
  PROVE  WalkInv'
<1>1. One(asked) /\ result = << >>
  BY DEF WalkInv
<1>2. asked' = << >>
  BY <1>1, OneFacts DEF Done, One
<1>3. One(result') /\ walk' = walk
  BY <1>1, OneFacts DEF Done, One
<1> QED BY <1>2, <1>3, OneFacts DEF WalkInv

LEMMA OpKept ==
  ASSUME NEW w, "op" \in DOMAIN w, w.op \in WalkOps, NEW w2,
         \/ \E a, b : w2 = [w EXCEPT !.start = a, !.round = b]
         \/ \E a, b : w2 = [w EXCEPT !.start = a, !.err = b]
  PROVE  "op" \in DOMAIN w2 /\ w2.op = w.op /\ w2 # NoWalk
<1>1. "op" \in DOMAIN w2 /\ w2.op = w.op
  OBVIOUS
<1>2. NoWalk.op \notin WalkOps
  BY DEF NoWalk, WalkOps
<1> QED BY <1>1, <1>2

LEMMA AskOnInv ==
  ASSUME WalkInv, walk # NoWalk, walk.op # "included", asked # << >>, NEW start, NEW list,
         AskOn(start, list), lost' = lost
  PROVE  WalkInv'
<1>1. One(asked) /\ result = << >>
  BY DEF WalkInv
<1>2. PICK x : asked' = Append(Tail(asked), x)
  BY Zenon DEF AskOn
<1>3. asked' = << x >>
  BY <1>1, <1>2, OneFacts DEF One
<1>4. "op" \in DOMAIN walk' /\ walk'.op = walk.op /\ walk' # NoWalk
  BY OpKept, Zenon DEF AskOn, WalkInv
<1>5. walk.op \in WalkOps /\ result' = << >>
  BY <1>1 DEF WalkInv, AskOn
<1> QED BY <1>3, <1>4, <1>5, OneFacts DEF WalkInv, One

LEMMA SettledInv ==
  ASSUME WalkInv, walk # NoWalk, asked # << >>, NEW start, NEW others, NEW list, NEW err,
         Settled(start, others, list, err), walk.op # "included" => others = << >>, lost' = lost
  PROVE  WalkInv'
<1>1. walk.op # "included" => asked' = << >>
  BY OneFacts, Zenon DEF WalkInv, Settled, One
<1>2. /\ asked' # << >> => result' = << >>
      /\ asked' = << >> => One(result')
  BY OneFacts, Zenon DEF WalkInv, Settled, One
<1>3. "op" \in DOMAIN walk' /\ walk'.op = walk.op /\ walk' # NoWalk
  BY OpKept, Zenon DEF Settled, WalkInv
<1>4. walk.op \in WalkOps
  BY DEF WalkInv
<1> QED BY <1>1, <1>2, <1>3, <1>4, Zenon DEF WalkInv

-----------------------------------------------------------------------------
\* What a callback of each kind of walk does.
GoesOn == \E a, b : Done(a, b) \/ AskOn(a, b)
Settles == \E a, b, c, d : Settled(a, b, c, d) /\ (walk.op # "included" => b = << >>)

LEMMA PrimaryGoesOn ==
  ASSUME NEW status, NEW pdu, PrimaryAllCb(status, pdu) \/ PrimaryByUuidCb(status, pdu)
  PROVE  GoesOn
<1>1. CASE PrimaryAllCb(status, pdu)
  BY <1>1, Zenon DEF PrimaryAllCb, GoesOn
<1>2. CASE PrimaryByUuidCb(status, pdu)
  BY <1>2, Zenon DEF PrimaryByUuidCb, GoesOn
<1> QED BY <1>1, <1>2

LEMMA CharGoesOn ==
  ASSUME NEW status, NEW pdu, CharDiscoveredCb(status, pdu) \/ DescDiscoveredCb(status, pdu)
  PROVE  GoesOn
<1>1. CASE CharDiscoveredCb(status, pdu)
  BY <1>1, Zenon DEF CharDiscoveredCb, GoesOn
<1>2. CASE DescDiscoveredCb(status, pdu)
  BY <1>2, Zenon DEF DescDiscoveredCb, GoesOn
<1> QED BY <1>1, <1>2

LEMMA IncludedSettles ==
  ASSUME NEW status, NEW pdu,
         ResolveIncludedUuidCb(status, pdu) \/ (walk.op = "included" /\ FindIncludedCb(status, pdu))
  PROVE  Settles
<1>1. CASE ResolveIncludedUuidCb(status, pdu)
  BY <1>1, Zenon DEF ResolveIncludedUuidCb, Settles
<1>2. CASE walk.op = "included" /\ FindIncludedCb(status, pdu)
  BY <1>2, Zenon DEF FindIncludedCb, Settles
<1> QED BY <1>1, <1>2

LEMMA AnsweredInv ==
  ASSUME WalkInv, walk # NoWalk, asked # << >>, NEW status, NEW pdu, Answered(status, pdu), lost' = lost
  PROVE  WalkInv'
<1>1. walk.op \in WalkOps
  BY DEF WalkInv
<1>2. CASE Head(asked).call = "resolve"
  <2>1. Settles
    BY <1>2, IncludedSettles DEF Answered
  <2> QED BY <2>1, SettledInv DEF Settles
<1>3. CASE Head(asked).call # "resolve" /\ walk.op = "included"
  <2>1. FindIncludedCb(status, pdu)
    BY <1>3 DEF Answered
  <2>2. Settles
    BY <1>3, <2>1, IncludedSettles
  <2> QED BY <2>2, SettledInv DEF Settles
<1>4. CASE Head(asked).call # "resolve" /\ walk.op # "included"
  <2>1. \/ PrimaryAllCb(status, pdu) \/ PrimaryByUuidCb(status, pdu)
        \/ CharDiscoveredCb(status, pdu) \/ DescDiscoveredCb(status, pdu)
    BY <1>1, <1>4 DEF Answered, WalkOps
  <2>2. GoesOn
    BY <2>1, PrimaryGoesOn, CharGoesOn
  <2> QED BY <1>4, <2>2, DoneInv, AskOnInv DEF GoesOn
<1> QED BY <1>2, <1>3, <1>4

LEMMA WalkStepInv == WalkInv /\ DiscoveryNext => WalkInv'
<1> SUFFICES ASSUME WalkInv, DiscoveryNext PROVE WalkInv'
  OBVIOUS
<1>1. asked # << >> => walk # NoWalk
  BY DEF WalkInv
<1>2. CASE PeerTells
  <2>1. \E status, pdu : Answered(status, pdu)
    BY <1>2, Zenon DEF PeerTells
  <2> QED BY <1>1, <1>2, <2>1, AnsweredInv DEF PeerTells
<1>3. CASE PeerReads
  <2>1. \E status, pdu : Answered(status, pdu)
    BY <1>3, Zenon DEF PeerReads
  <2> QED BY <1>1, <1>3, <2>1, AnsweredInv DEF PeerReads
<1>4. CASE PeerRefuses
  BY <1>1, <1>4, AnsweredInv DEF PeerRefuses
<1>5. CASE PeerErrs
  <2>1. \E status, pdu : Answered(status, pdu)
    BY <1>5, Zenon DEF PeerErrs
  <2> QED BY <1>1, <1>5, <2>1, AnsweredInv DEF PeerErrs
<1>6. CASE LinkLost
  <2>1. asked' = << >> /\ lost' /\ walk' = walk /\ walk # NoWalk /\ asked # << >>
    BY <1>1, <1>6 DEF LinkLost
  <2>2. result' = << >> \/ One(result')
    BY <1>1, <1>6, OneFacts, Zenon DEF LinkLost, WalkInv, One
  <2> QED BY <2>1, <2>2 DEF WalkInv
<1>7. CASE Forget
  BY <1>7 DEF Forget, WalkInv
<1>8. CASE Walks
  <2>0. \A op : op \in {"all", "byUuid", "included", "chars", "descs"} => op \in WalkOps
    BY DEF WalkOps
  <2>1. PICK op, start, end, uuid : op \in WalkOps /\ Start(op, start, end, uuid)
    <3>1. CASE Start("all", 1, Top, AnyUuid)
      BY <2>0, <3>1
    <3>2. CASE \E u \in Uuids : Start("byUuid", 1, Top, u)
      BY <2>0, <3>2
    <3>3. CASE \E s, e \in Handles : s <= e /\ Start("included", s, e, AnyUuid)
      BY <2>0, <3>3
    <3>4. CASE \E s, e \in Handles, u \in Uuids \cup {AnyUuid}, op \in {"chars", "descs"} :
                 s <= e /\ Start(op, s, e, u)
      BY <2>0, <3>4
    <3> QED BY <1>8, <3>1, <3>2, <3>3, <3>4 DEF Walks
  <2>2. asked = << >> /\ result = << >> /\ result' = result
    BY <2>1 DEF Start, WalkInv
  <2>3. One(asked') /\ asked' # << >>
    BY <2>1, OneFacts, Zenon DEF Start, One
  <2>4. "op" \in DOMAIN walk' /\ walk'.op \in WalkOps
    BY <2>1 DEF Start
  <2>5. walk' # NoWalk
    BY <2>4 DEF NoWalk, WalkOps
  <2> QED BY <2>2, <2>3, <2>4, <2>5 DEF WalkInv
<1> QED BY <1>2, <1>3, <1>4, <1>5, <1>6, <1>7, <1>8 DEF DiscoveryNext, PeerTalks

LEMMA LibrariesWalk == WalkInv /\ [HelperSide \/ PythonSide]_librariesVars => WalkInv'
<1> SUFFICES ASSUME WalkInv, [HelperSide \/ PythonSide]_librariesVars PROVE WalkInv'
  OBVIOUS
<1>1. CASE DiscoveryNext
  BY <1>1, WalkStepInv
<1>2. CASE UNCHANGED discoveryVars
  BY <1>2 DEF discoveryVars, WalkInv
<1> QED BY <1>1, <1>2 DEF HelperSide, PythonSide, GattNext, WalkStep, ValueStep, librariesVars, gattVars

\* A walk of gatt.c calls back once, when none of its requests is left, whatever
\* the peer answers; only one whose link went down may say nothing.
THEOREM CallsBackOnceAlways == LibrariesSpec => []CallsBackOnce
<1>1. WalkInv => CallsBackOnce
  BY OneFacts DEF WalkInv, CallsBackOnce, One
<1> QED BY <1>1, WalkInit, LibrariesWalk, PTL DEF LibrariesSpec

-----------------------------------------------------------------------------
(* Numbers and lists.                                                       *)

\* A set of naturals that is not empty has a least element.
LEMMA LeastNat ==
  ASSUME NEW T \in SUBSET Nat, T # {}
  PROVE  \E x \in T : \A y \in T : x <= y
<1> DEFINE R == OpToRel(<, Nat)
<1>1. \A y, x \in Nat : y < x => <<y, x>> \in R
  BY DEF OpToRel
<1>2. IsWellFoundedOn(R, Nat)
  BY NatLessThanWellFounded, Zenon
<1> HIDE DEF R
<1>3. PICK x \in T : \A y \in T : ~(<<y, x>> \in R)
  BY <1>2, WFMin
<1>4. \A y \in T : ~(y < x)
  BY <1>1, <1>3
<1> QED BY <1>4

\* what Chosen has of the first elements of a list
Next1(list, places, prev, k) == IF k \in places THEN Append(prev, list[k]) ELSE prev
Chooses(list, places, f) ==
  f = [k \in 0 .. Len(list) |-> IF k = 0 THEN << >> ELSE Next1(list, places, f[k - 1], k)]

LEMMA ChoosesExists ==
  ASSUME NEW list, NEW places, Len(list) \in Nat
  PROVE  \E f : Chooses(list, places, f)
<1> DEFINE Upto(n, f) == f = [k \in 0 .. n |-> IF k = 0 THEN << >> ELSE Next1(list, places, f[k - 1], k)]
           T == {n \in Nat : ~ \E f : Upto(n, f)}
<1>1. T = {}
  <2> SUFFICES ASSUME T # {} PROVE FALSE
    OBVIOUS
  <2>1. PICK n \in T : \A j \in T : n <= j
    BY LeastNat
  <2>2. n # 0
    <3> DEFINE f == [k \in 0 .. 0 |-> << >>]
    <3>1. Upto(0, f)
      OBVIOUS
    <3>2. QED BY <2>1, <3>1
  <2>3. n - 1 \in Nat /\ n - 1 \notin T
    <3> HIDE DEF Upto
    <3>1. T \in SUBSET Nat
      OBVIOUS
    <3> HIDE DEF T
    <3>2. n \in Nat /\ ~(n <= n - 1)
      BY <2>1, <2>2, <3>1
    <3>3. QED BY <2>1, <2>2, <3>2
  <2>4. PICK f : Upto(n - 1, f)
    BY <2>3
  <2> DEFINE g == [k \in 0 .. n |-> IF k = n THEN Next1(list, places, f[n - 1], n) ELSE f[k]]
  <2>5. \A k \in 0 .. n : g[k] = IF k = 0 THEN << >> ELSE Next1(list, places, g[k - 1], k)
    <3> SUFFICES ASSUME NEW k \in 0 .. n
                 PROVE g[k] = IF k = 0 THEN << >> ELSE Next1(list, places, g[k - 1], k)
      OBVIOUS
    <3>1. CASE k = n
      <4>1. g[k] = Next1(list, places, f[n - 1], n)
        BY <3>1
      <4>2. g[k - 1] = f[n - 1]
        BY <2>2, <2>3, <3>1
      <4>3. Next1(list, places, g[k - 1], k) = Next1(list, places, f[n - 1], n)
        BY <3>1, <4>2
      <4>4. QED BY <2>2, <3>1, <4>1, <4>3
    <3>2. CASE k # n
      <4>1. k \in 0 .. (n - 1) /\ g[k] = f[k]
        BY <2>3, <3>2
      <4>2. f[k] = IF k = 0 THEN << >> ELSE Next1(list, places, f[k - 1], k)
        BY <2>4, <4>1
      <4>3. k # 0 => g[k - 1] = f[k - 1]
        BY <2>3, <4>1
      <4>4. k # 0 => Next1(list, places, g[k - 1], k) = Next1(list, places, f[k - 1], k)
        BY <4>3
      <4>5. QED BY <4>1, <4>2, <4>4
    <3>3. QED BY <3>1, <3>2
  <2>6. Upto(n, g)
    <3>1. g = [k \in 0 .. n |-> g[k]]
      OBVIOUS
    <3> HIDE DEF g
    <3>2. QED BY <2>5, <3>1
  <2>7. QED BY <2>1, <2>6
<1>2. QED BY <1>1 DEF Chooses

\* t has the elements of the first n of s at these places, and no others.
HasThose(s, places, n, t) ==
  /\ \A k \in DOMAIN t : \E i \in 1 .. n : i \in places /\ t[k] = s[i]
  /\ \A i \in 1 .. n : i \in places => \E k \in DOMAIN t : t[k] = s[i]

LEMMA HasMore ==
  ASSUME NEW S, NEW s \in Seq(S), NEW places, NEW n \in Nat, n + 1 <= Len(s),
         NEW t \in Seq(S), HasThose(s, places, n, t)
  PROVE  /\ n + 1 \in places => Append(t, s[n + 1]) \in Seq(S) /\ HasThose(s, places, n + 1, Append(t, s[n + 1]))
         /\ n + 1 \notin places => HasThose(s, places, n + 1, t)
<1> DEFINE x == s[n + 1]  u == Append(t, x)
<1>1. x \in S
  OBVIOUS
<1> HIDE DEF x
<1>2. /\ u \in Seq(S) /\ DOMAIN u = 1 .. (Len(t) + 1) /\ DOMAIN t = 1 .. Len(t) /\ Len(t) \in Nat
      /\ u[Len(t) + 1] = x /\ \A k \in 1 .. Len(t) : u[k] = t[k]
  BY <1>1
<1> HIDE DEF u
<1>3. \A i \in 1 .. (n + 1) : i \in 1 .. n \/ i = n + 1
  OBVIOUS
<1>4. \A i \in 1 .. n : i \in 1 .. (n + 1)
  OBVIOUS
<1>5. ASSUME n + 1 \in places PROVE HasThose(s, places, n + 1, u)
  <2>1. ASSUME NEW k \in DOMAIN u PROVE \E i \in 1 .. (n + 1) : i \in places /\ u[k] = s[i]
    <3>1. CASE k = Len(t) + 1
      BY <1>2, <1>5, <3>1 DEF x
    <3>2. CASE k # Len(t) + 1
      <4>1. k \in DOMAIN t /\ u[k] = t[k]
        BY <1>2, <2>1, <3>2
      <4> QED BY <1>4, <4>1 DEF HasThose
    <3> QED BY <3>1, <3>2
  <2>2. ASSUME NEW i \in 1 .. (n + 1), i \in places PROVE \E k \in DOMAIN u : u[k] = s[i]
    <3>1. CASE i = n + 1
      <4>1. Len(t) + 1 \in DOMAIN u
        BY <1>2
      <4> QED BY <1>2, <3>1, <4>1 DEF x
    <3>2. CASE i \in 1 .. n
      <4>1. PICK k \in DOMAIN t : t[k] = s[i]
        BY <2>2, <3>2 DEF HasThose
      <4>2. k \in DOMAIN u /\ u[k] = t[k]
        BY <1>2
      <4> QED BY <4>1, <4>2
    <3> QED BY <1>3, <3>1, <3>2
  <2> QED BY <2>1, <2>2 DEF HasThose
<1>6. ASSUME n + 1 \notin places PROVE HasThose(s, places, n + 1, t)
  <2>1. \A i \in 1 .. (n + 1) : i \in places => i \in 1 .. n
    BY <1>3, <1>6
  <2> QED BY <1>4, <2>1 DEF HasThose
<1> QED BY <1>2, <1>5, <1>6 DEF u, x

\* Chosen is a list of the elements at these places.
LEMMA ChosenIs ==
  ASSUME NEW S, NEW s \in Seq(S), NEW places
  PROVE  Chosen(s, places) \in Seq(S) /\ HasThose(s, places, Len(s), Chosen(s, places))
<1>1. Len(s) \in Nat
  OBVIOUS
<1> DEFINE f == CHOOSE f : Chooses(s, places, f)
<1>2. Chosen(s, places) = f[Len(s)]
  BY DEF Chosen, Chooses, Next1
<1>3. Chooses(s, places, f)
  BY <1>1, ChoosesExists
<1> HIDE DEF f
<1> DEFINE Right(n) == f[n] \in Seq(S) /\ HasThose(s, places, n, f[n])
           T == {n \in 0 .. Len(s) : ~ Right(n)}
<1>4. T = {}
  <2> SUFFICES ASSUME T # {} PROVE FALSE
    OBVIOUS
  <2>1. PICK n \in T : \A j \in T : n <= j
    <3>1. T \in SUBSET Nat
      BY <1>1
    <3> HIDE DEF T
    <3>2. QED BY <3>1, LeastNat
  <2>2. f[n] = IF n = 0 THEN << >> ELSE Next1(s, places, f[n - 1], n)
    BY <1>3 DEF Chooses
  <2>3. n # 0
    <3>1. HasThose(s, places, 0, << >>) /\ << >> \in Seq(S)
      BY DEF HasThose
    <3> QED BY <2>1, <2>2, <3>1
  <2>4. n - 1 \in Nat /\ n - 1 \in 0 .. Len(s) /\ n - 1 \notin T /\ (n - 1) + 1 = n /\ n <= Len(s)
    BY <1>1, <2>1, <2>3
  <2>5. Right(n - 1)
    BY <2>4
  <2>6. f[n] = IF n \in places THEN Append(f[n - 1], s[n]) ELSE f[n - 1]
    BY <2>2, <2>3 DEF Next1
  <2>7. Right(n)
    <3> DEFINE m == n - 1
    <3>1. m \in Nat /\ m + 1 = n /\ m + 1 <= Len(s) /\ f[m] \in Seq(S) /\ HasThose(s, places, m, f[m])
      BY <2>4, <2>5
    <3>2. f[n] = IF m + 1 \in places THEN Append(f[m], s[m + 1]) ELSE f[m]
      BY <2>6, <3>1
    <3> HIDE DEF m
    <3>3. f[n] \in Seq(S) /\ HasThose(s, places, m + 1, f[n])
      BY <3>1, <3>2, HasMore
    <3>4. QED BY <3>1, <3>3
  <2> QED BY <2>1, <2>7
<1>5. Right(Len(s))
  BY <1>1, <1>4
<1> QED BY <1>2, <1>5

-----------------------------------------------------------------------------
(* What the helper tells of a well-formed device.                           *)

Kinds == {"service", "char", "value", "desc"}
AttrType == [kind : Kinds, uuid : Nat]
DescType == [uuid : Nat, handle : Nat]
CharType == [uuid : Nat, valHandle : Nat, descs : Seq(DescType)]
SvcType == [uuid : Nat, hndStart : Nat, hndEnd : Nat, chars : Seq(CharType), descs : Seq(DescType)]

LEMMA DeviceFacts ==
  ASSUME NEW dv, WellFormed(dv)
  PROVE  /\ Len(dv) \in Nat /\ DOMAIN dv = 1 .. Len(dv)
         /\ \A h \in DOMAIN dv : h \in Nat /\ dv[h].kind \in Kinds /\ dv[h].uuid \in Nat
         /\ \A h \in DOMAIN dv : dv[h].kind = "char" => h + 1 \in DOMAIN dv /\ dv[h + 1].kind = "value"
         /\ \A h \in DOMAIN dv : dv[h].kind = "value" => h - 1 \in DOMAIN dv /\ dv[h - 1].kind = "char"
         /\ \A h \in DOMAIN dv : dv[h].kind \in {"value", "desc"} => dv[h].uuid \notin {10240, 10241, 10243}
<1>1. dv \in Seq(AttrType)
  BY DEF WellFormed, AttrType, Kinds
<1>2. Len(dv) \in Nat /\ DOMAIN dv = 1 .. Len(dv) /\ \A h \in DOMAIN dv : dv[h] \in AttrType
  BY <1>1
<1>3. \A h \in DOMAIN dv : dv[h].kind \in Kinds /\ dv[h].uuid \in Nat
  BY <1>2 DEF AttrType
<1>4. \A h \in DOMAIN dv : h \in Nat
  BY <1>2
<1>5. \A h \in DOMAIN dv : dv[h].kind = "char" => h + 1 \in DOMAIN dv /\ dv[h + 1].kind = "value"
  BY DEF WellFormed
<1>6. \A h \in DOMAIN dv : dv[h].kind \in {"value", "desc"} => dv[h].uuid \notin {10240, 10241, 10243}
  BY DEF WellFormed
<1>7. \A h \in DOMAIN dv : dv[h].kind = "value" => h > 1 /\ dv[h - 1].kind = "char"
  BY DEF WellFormed
<1>8. \A h \in DOMAIN dv : h > 1 => h - 1 \in DOMAIN dv
  BY <1>2
<1>9. \A h \in DOMAIN dv : dv[h].kind = "value" => h - 1 \in DOMAIN dv /\ dv[h - 1].kind = "char"
  BY <1>7, <1>8
<1> QED BY <1>2, <1>3, <1>4, <1>5, <1>6, <1>9

\* the values of a list
Values(s) == {s[i] : i \in DOMAIN s}

LEMMA ChosenValues ==
  ASSUME NEW S, NEW s \in Seq(S), NEW places
  PROVE  Chosen(s, places) \in Seq(S) /\ Values(Chosen(s, places)) = {s[i] : i \in {k \in DOMAIN s : k \in places}}
<1>1. Chosen(s, places) \in Seq(S) /\ HasThose(s, places, Len(s), Chosen(s, places))
  BY ChosenIs
<1>2. DOMAIN s = 1 .. Len(s)
  OBVIOUS
<1> DEFINE t == Chosen(s, places)
<1>3. ASSUME NEW k \in DOMAIN t PROVE \E i \in DOMAIN s : i \in places /\ t[k] = s[i]
  BY <1>1, <1>2, Zenon DEF HasThose
<1>4. ASSUME NEW i \in DOMAIN s, i \in places PROVE \E k \in DOMAIN t : t[k] = s[i]
  BY <1>1, <1>2, <1>4, Zenon DEF HasThose
<1> HIDE DEF t
<1>5. Values(t) = {s[i] : i \in {k \in DOMAIN s : k \in places}}
  <2>1. ASSUME NEW x \in Values(t) PROVE x \in {s[i] : i \in {k \in DOMAIN s : k \in places}}
    BY <1>3, Zenon DEF Values
  <2>2. ASSUME NEW i \in DOMAIN s, i \in places PROVE s[i] \in Values(t)
    BY <1>4, <2>2, Zenon DEF Values
  <2> QED BY <2>1, <2>2, Zenon
<1> QED BY <1>1, <1>5 DEF t

LEMMA HandlesIs ==
  ASSUME NEW dv, WellFormed(dv), NEW first, NEW last, NEW kinds
  PROVE  /\ HandlesWhere(dv, first, last, kinds) \in Seq(Nat)
         /\ Values(HandlesWhere(dv, first, last, kinds)) =
              {h \in DOMAIN dv : h \in first .. last /\ dv[h].kind \in kinds}
<1> DEFINE all == [h \in DOMAIN dv |-> h]
           places == {h \in DOMAIN dv : h \in first .. last /\ dv[h].kind \in kinds}
<1>1. Len(dv) \in Nat /\ DOMAIN dv = 1 .. Len(dv) /\ \A h \in DOMAIN dv : h \in Nat
  BY DeviceFacts
<1>2. all \in Seq(Nat) /\ DOMAIN all = DOMAIN dv /\ \A h \in DOMAIN dv : all[h] = h
  BY <1>1
<1>3. HandlesWhere(dv, first, last, kinds) = Chosen(all, places)
  BY Zenon DEF HandlesWhere
<1>4. places \subseteq DOMAIN dv
  OBVIOUS
<1>5. SUFFICES Chosen(all, places) \in Seq(Nat) /\ Values(Chosen(all, places)) = places
  BY <1>3
<1> HIDE DEF all, places
<1>6. /\ Chosen(all, places) \in Seq(Nat)
      /\ Values(Chosen(all, places)) = {all[i] : i \in {k \in DOMAIN all : k \in places}}
  BY <1>2, ChosenValues
<1>7. {all[i] : i \in {k \in DOMAIN all : k \in places}} = places
  BY <1>2, <1>4, Zenon
<1> QED BY <1>6, <1>7

\* a list made of a list of handles
MapOf(hs, g) == [i \in DOMAIN hs |-> g[hs[i]]]

LEMMA MadeOf ==
  ASSUME NEW hs \in Seq(Nat), NEW g, NEW T, \A h \in Values(hs) : g[h] \in T
  PROVE  MapOf(hs, g) \in Seq(T) /\ Values(MapOf(hs, g)) = {g[h] : h \in Values(hs)}
<1> DEFINE f == [i \in DOMAIN hs |-> g[hs[i]]]
<1>1. DOMAIN hs = 1 .. Len(hs) /\ Len(hs) \in Nat
  OBVIOUS
<1>2. DOMAIN f = DOMAIN hs /\ \A i \in DOMAIN hs : f[i] = g[hs[i]]
  OBVIOUS
<1>3. f = [i \in 1 .. Len(hs) |-> f[i]]
  BY <1>1
<1>4. SUFFICES f \in Seq(T) /\ Values(f) = {g[h] : h \in Values(hs)}
  BY <1>2 DEF MapOf
<1> HIDE DEF f
<1>5. \A i \in DOMAIN hs : f[i] \in T
  BY <1>2 DEF Values
<1>6. f \in Seq(T)
  BY <1>1, <1>3, <1>5
<1>7. ASSUME NEW x \in Values(f) PROVE x \in {g[h] : h \in Values(hs)}
  <2>1. PICK i \in DOMAIN hs : x = g[hs[i]]
    BY <1>2, <1>7, Zenon DEF Values
  <2>2. hs[i] \in Values(hs)
    BY DEF Values
  <2> QED BY <2>1, <2>2, Zenon
<1>8. ASSUME NEW h \in Values(hs) PROVE g[h] \in Values(f)
  <2>1. PICK i \in DOMAIN hs : h = hs[i]
    BY <1>8, Zenon DEF Values
  <2>2. i \in DOMAIN f /\ f[i] = g[h]
    BY <1>2, <2>1, Zenon
  <2> QED BY <2>2, Zenon DEF Values
<1> QED BY <1>6, <1>7, <1>8, Zenon

LEMMA TypeOfAttr ==
  ASSUME NEW dv, WellFormed(dv), NEW h \in DOMAIN dv
  PROVE  /\ Type(dv[h]) \in Nat
         /\ Type(dv[h]) = 10243 <=> dv[h].kind = "char"
         /\ Type(dv[h]) \in Declarations <=> dv[h].kind \in {"service", "char"}
<1>1. dv[h].kind \in Kinds /\ dv[h].uuid \in Nat
  BY DeviceFacts
<1>2. dv[h].kind \in {"value", "desc"} => dv[h].uuid \notin {10240, 10241, 10243}
  BY DeviceFacts
<1>3. CASE dv[h].kind = "service"
  BY <1>3 DEF Type, Declarations
<1>4. CASE dv[h].kind = "char"
  BY <1>4 DEF Type, Declarations
<1>5. CASE dv[h].kind \in {"value", "desc"}
  <2>1. Type(dv[h]) = dv[h].uuid
    BY <1>5 DEF Type
  <2> QED BY <1>1, <1>2, <1>5, <2>1 DEF Declarations
<1> QED BY <1>1, <1>3, <1>4, <1>5 DEF Kinds

\* A service ends before the next one, or where the attributes end.
LEMMA EndIs ==
  ASSUME NEW dv, WellFormed(dv), NEW h \in Starts(dv)
  PROVE  /\ EndOf(dv, h) \in Nat /\ h <= EndOf(dv, h) /\ EndOf(dv, h) <= Len(dv)
         /\ \A i \in DOMAIN dv : h < i /\ i <= EndOf(dv, h) => dv[i].kind # "service"
         /\ EndOf(dv, h) + 1 \in DOMAIN dv => dv[EndOf(dv, h) + 1].kind = "service"
<1> DEFINE later == {i \in Starts(dv) : i > h}
<1>1. Len(dv) \in Nat /\ DOMAIN dv = 1 .. Len(dv) /\ h \in DOMAIN dv /\ h \in Nat
  BY DeviceFacts DEF Starts
<1>2. \A i \in DOMAIN dv : i \in Nat /\ i <= Len(dv)
  BY <1>1
<1>3. CASE later = {}
  <2>1. EndOf(dv, h) = Len(dv)
    BY <1>3 DEF EndOf
  <2>2. \A i \in DOMAIN dv : h < i => dv[i].kind # "service"
    BY <1>3 DEF Starts
  <2>3. Len(dv) + 1 \notin DOMAIN dv
    BY <1>1
  <2> QED BY <1>1, <1>2, <2>1, <2>2, <2>3
<1>4. CASE later # {}
  <2> DEFINE e == CHOOSE i \in later : \A j \in later : i <= j
  <2>1. EndOf(dv, h) = e - 1
    BY <1>4 DEF EndOf
  <2>2. later \in SUBSET Nat
    BY <1>2 DEF Starts
  <2>3. \E i \in later : \A j \in later : i <= j
    <3> HIDE DEF later
    <3> QED BY <1>4, <2>2, LeastNat
  <2>4. e \in later /\ \A j \in later : e <= j
    BY <2>3, Zenon
  <2> HIDE DEF e
  <2>5. e \in DOMAIN dv /\ dv[e].kind = "service" /\ e > h /\ e \in Nat /\ e <= Len(dv)
    BY <1>2, <2>4 DEF Starts
  <2>6. \A i \in DOMAIN dv : h < i /\ i < e => dv[i].kind # "service"
    BY <1>2, <2>4, <2>5 DEF Starts
  <2>7. (e - 1) + 1 = e /\ e - 1 \in Nat /\ h <= e - 1 /\ e - 1 <= Len(dv) /\ \A i \in Nat : i <= e - 1 => i < e
    BY <1>1, <2>5
  <2> QED BY <1>2, <2>1, <2>5, <2>6, <2>7
<1> QED BY <1>3, <1>4

LEMMA CharsInIs ==
  ASSUME NEW dv, WellFormed(dv), NEW first, NEW last
  PROVE  /\ CharsIn(dv, first, last) \in Seq(CharType)
         /\ Values(CharsIn(dv, first, last)) =
              {Characteristic(dv, h) : h \in {i \in DOMAIN dv : i \in first .. last /\ dv[i].kind = "char"}}
<1> DEFINE hs == HandlesWhere(dv, first, last, {"char"})
           g == [h \in Values(hs) |-> Characteristic(dv, h)]
<1>1. hs \in Seq(Nat) /\ Values(hs) = {i \in DOMAIN dv : i \in first .. last /\ dv[i].kind \in {"char"}}
  BY HandlesIs
<1>2. ASSUME NEW h \in Values(hs) PROVE g[h] = Characteristic(dv, h) /\ Characteristic(dv, h) \in CharType
  <2>1. h \in DOMAIN dv /\ dv[h].kind = "char"
    BY <1>1, <1>2
  <2>2. h + 1 \in Nat /\ dv[h + 1].uuid \in Nat
    BY <2>1, DeviceFacts
  <2>3. << >> \in Seq(DescType)
    OBVIOUS
  <2> HIDE DEF hs
  <2> QED BY <2>2, <2>3 DEF Characteristic, CharType
<1>3. CharsIn(dv, first, last) = [i \in DOMAIN hs |-> Characteristic(dv, hs[i])]
  BY Zenon DEF CharsIn
<1>4. \A i \in DOMAIN hs : hs[i] \in Values(hs)
  BY DEF Values
<1> HIDE DEF hs
<1>5. \A i \in DOMAIN hs : g[hs[i]] = Characteristic(dv, hs[i])
  BY <1>2, <1>4
<1>6. \A h \in Values(hs) : g[h] \in CharType
  BY <1>2
<1>7. {g[h] : h \in Values(hs)} = {Characteristic(dv, h) : h \in Values(hs)}
  BY <1>2, Zenon
<1> HIDE DEF g
<1>8. CharsIn(dv, first, last) = MapOf(hs, g)
  BY <1>3, <1>5, Zenon DEF MapOf
<1>9. /\ CharsIn(dv, first, last) \in Seq(CharType)
      /\ Values(CharsIn(dv, first, last)) = {g[h] : h \in Values(hs)}
  <2>1. hs \in Seq(Nat) /\ \A h \in Values(hs) : g[h] \in CharType
    BY <1>1, <1>6
  <2>2. MapOf(hs, g) \in Seq(CharType) /\ Values(MapOf(hs, g)) = {g[h] : h \in Values(hs)}
    BY ONLY <2>1, MadeOf
  <2> QED BY <1>8, <2>2
<1>10. Values(hs) = {i \in DOMAIN dv : i \in first .. last /\ dv[i].kind = "char"}
  BY <1>1
<1> QED BY <1>7, <1>9, <1>10

LEMMA DescsInIs ==
  ASSUME NEW dv, WellFormed(dv), NEW first, NEW last
  PROVE  /\ DescsIn(dv, first, last) \in Seq(DescType)
         /\ Values(DescsIn(dv, first, last)) =
              {[uuid |-> Type(dv[h]), handle |-> h] : h \in {i \in DOMAIN dv : i \in first .. last}}
<1> DEFINE hs == HandlesWhere(dv, first, last, {"service", "char", "value", "desc"})
           D(h) == [uuid |-> Type(dv[h]), handle |-> h]
           g == [h \in Values(hs) |-> D(h)]
<1>1. /\ hs \in Seq(Nat)
      /\ Values(hs) = {i \in DOMAIN dv : i \in first .. last /\ dv[i].kind \in {"service", "char", "value", "desc"}}
  BY HandlesIs
<1>2. ASSUME NEW h \in Values(hs) PROVE g[h] = D(h) /\ D(h) \in DescType
  <2>1. h \in DOMAIN dv
    BY <1>1, <1>2
  <2>2. h \in Nat /\ Type(dv[h]) \in Nat
    BY <2>1, DeviceFacts, TypeOfAttr
  <2> HIDE DEF hs
  <2> QED BY <2>2 DEF DescType
<1>3. DescsIn(dv, first, last) = [i \in DOMAIN hs |-> D(hs[i])]
  BY Zenon DEF DescsIn
<1>4. \A i \in DOMAIN hs : hs[i] \in Values(hs)
  BY DEF Values
<1> HIDE DEF hs, D
<1>5. \A i \in DOMAIN hs : g[hs[i]] = D(hs[i])
  BY <1>2, <1>4
<1>6. \A h \in Values(hs) : g[h] \in DescType
  BY <1>2
<1>7. {g[h] : h \in Values(hs)} = {D(h) : h \in Values(hs)}
  BY <1>2, Zenon
<1> HIDE DEF g
<1>8. DescsIn(dv, first, last) = MapOf(hs, g)
  BY <1>3, <1>5, Zenon DEF MapOf
<1>9. /\ DescsIn(dv, first, last) \in Seq(DescType)
      /\ Values(DescsIn(dv, first, last)) = {g[h] : h \in Values(hs)}
  <2>1. hs \in Seq(Nat) /\ \A h \in Values(hs) : g[h] \in DescType
    BY <1>1, <1>6
  <2>2. MapOf(hs, g) \in Seq(DescType) /\ Values(MapOf(hs, g)) = {g[h] : h \in Values(hs)}
    BY ONLY <2>1, MadeOf
  <2> QED BY <1>8, <2>2
<1>10. Values(hs) = {i \in DOMAIN dv : i \in first .. last}
  <2>1. \A i \in DOMAIN dv : dv[i].kind \in {"service", "char", "value", "desc"}
    BY DeviceFacts DEF Kinds
  <2> QED BY <1>1, <2>1
<1>11. Values(DescsIn(dv, first, last)) = {D(h) : h \in {i \in DOMAIN dv : i \in first .. last}}
  BY <1>7, <1>9, <1>10
<1> QED BY <1>9, <1>11 DEF D

LEMMA ServicesIs ==
  ASSUME NEW dv, WellFormed(dv)
  PROVE  Services(dv) \in Seq(SvcType) /\ Values(Services(dv)) = {Service(dv, h) : h \in Starts(dv)}
<1> DEFINE hs == HandlesWhere(dv, 1, Len(dv), {"service"})
           g == [h \in Values(hs) |-> Service(dv, h)]
<1>1. hs \in Seq(Nat) /\ Values(hs) = {i \in DOMAIN dv : i \in 1 .. Len(dv) /\ dv[i].kind \in {"service"}}
  BY HandlesIs
<1>2. Values(hs) = Starts(dv)
  BY <1>1, DeviceFacts DEF Starts
<1>3. ASSUME NEW h \in Values(hs) PROVE g[h] = Service(dv, h) /\ Service(dv, h) \in SvcType
  <2>1. h \in Starts(dv)
    BY <1>2, <1>3
  <2>2. h \in Nat /\ dv[h].uuid \in Nat
    BY <2>1, DeviceFacts DEF Starts
  <2>3. EndOf(dv, h) \in Nat
    BY <2>1, EndIs
  <2>4. << >> \in Seq(CharType) /\ << >> \in Seq(DescType)
    OBVIOUS
  <2> HIDE DEF hs
  <2> QED BY <2>2, <2>3, <2>4 DEF Service, SvcType
<1>4. Services(dv) = [i \in DOMAIN hs |-> Service(dv, hs[i])]
  BY Zenon DEF Services
<1>5. \A i \in DOMAIN hs : hs[i] \in Values(hs)
  BY DEF Values
<1> HIDE DEF hs
<1>6. \A i \in DOMAIN hs : g[hs[i]] = Service(dv, hs[i])
  BY <1>3, <1>5
<1>7. \A h \in Values(hs) : g[h] \in SvcType
  BY <1>3
<1>8. {g[h] : h \in Values(hs)} = {Service(dv, h) : h \in Values(hs)}
  BY <1>3, Zenon
<1> HIDE DEF g
<1>9. Services(dv) = MapOf(hs, g)
  BY <1>4, <1>6, Zenon DEF MapOf
<1>10. /\ Services(dv) \in Seq(SvcType)
       /\ Values(Services(dv)) = {g[h] : h \in Values(hs)}
  <2>1. hs \in Seq(Nat) /\ \A h \in Values(hs) : g[h] \in SvcType
    BY <1>1, <1>7
  <2>2. MapOf(hs, g) \in Seq(SvcType) /\ Values(MapOf(hs, g)) = {g[h] : h \in Values(hs)}
    BY ONLY <2>1, MadeOf
  <2> QED BY <1>9, <2>2
<1> QED BY <1>2, <1>8, <1>10

-----------------------------------------------------------------------------
(* What a Peripheral remembers, and the methods that change it.             *)

\* What is remembered is of the device with the attributes dv.
DescsAre(dv, descs, places) ==
  /\ {d.handle : d \in Values(descs)} = places
  /\ \A d \in Values(descs) : d.uuid = Type(dv[d.handle])
UpTo(dv, v, e) == {h \in Belong(dv, v) : h <= e}
CharOk(dv, c) ==
  /\ c.valHandle \in DOMAIN dv /\ dv[c.valHandle].kind = "value" /\ c.uuid = dv[c.valHandle].uuid
  /\ c.descs = << >> \/ \E e \in Given : DescsAre(dv, c.descs, UpTo(dv, c.valHandle, e))
ValuesIn(dv, first, last) == {h \in first .. last : dv[h].kind = "value"}
InService(dv, first, last) == {h \in first + 1 .. last : dv[h].kind # "char"}
SvcOk(dv, s) ==
  /\ s.hndStart \in Starts(dv) /\ s.hndEnd = EndOf(dv, s.hndStart) /\ s.uuid = dv[s.hndStart].uuid
  /\ s.chars = << >> \/ {c.valHandle : c \in Values(s.chars)} = ValuesIn(dv, s.hndStart, s.hndEnd)
  /\ \A c \in Values(s.chars) : CharOk(dv, c)
  /\ s.descs = << >> \/ DescsAre(dv, s.descs, InService(dv, s.hndStart, s.hndEnd))

Memory(m) ==
  /\ m \in [map : SUBSET Nat, mapped : BOOLEAN, svcs : Seq(SvcType)]
  /\ m.map \subseteq DOMAIN m.svcs
MemOk(dv, m) == \A i \in DOMAIN m.svcs : SvcOk(dv, m.svcs[i])
Keeps(dv, m, m2) == Memory(m2) /\ (MemOk(dv, m) => MemOk(dv, m2))

LEMMA NothingRemembered == Memory(NoMemory) /\ \A dv : MemOk(dv, NoMemory)
<1>1. << >> \in Seq(SvcType) /\ DOMAIN << >> = {}
  OBVIOUS
<1> QED BY <1>1 DEF NoMemory, Memory, MemOk

LEMMA KeepsSame ==
  ASSUME NEW m, Memory(m), NEW dv
  PROVE  Keeps(dv, m, m)
BY DEF Keeps

\* A list to which other services are added.
LEMMA MoreServices ==
  ASSUME NEW m, Memory(m), NEW dv, NEW more \in Seq(SvcType), \A i \in DOMAIN more : SvcOk(dv, more[i]),
         NEW m2, m2.svcs = m.svcs \o more,
         m2 \in [map : SUBSET Nat, mapped : BOOLEAN, svcs : Seq(SvcType)],
         \A i \in m2.map : i \in m.map \/ i \in Len(m.svcs) + 1 .. Len(m.svcs) + Len(more)
  PROVE  Keeps(dv, m, m2)
<1> DEFINE a == m.svcs  b == m2.svcs
<1>1. a \in Seq(SvcType) /\ m.map \subseteq DOMAIN a
  BY DEF Memory
<1>2. b = a \o more
  OBVIOUS
<1>3. \A i \in m2.map : i \in m.map \/ i \in Len(a) + 1 .. Len(a) + Len(more)
  OBVIOUS
<1> HIDE DEF a, b
<1>4. /\ Len(a) \in Nat /\ Len(more) \in Nat /\ DOMAIN a = 1 .. Len(a)
      /\ DOMAIN b = 1 .. Len(a) + Len(more) /\ DOMAIN more = 1 .. Len(more)
      /\ \A i \in 1 .. Len(a) : b[i] = a[i]
      /\ \A i \in 1 .. Len(more) : b[Len(a) + i] = more[i]
  BY <1>1, <1>2
<1>5. m2.map \subseteq DOMAIN b
  BY <1>1, <1>3, <1>4
<1>6. ASSUME NEW i \in DOMAIN b PROVE i \in DOMAIN a \/ (i - Len(a) \in DOMAIN more /\ b[i] = more[i - Len(a)])
  <2>1. CASE i <= Len(a)
    BY <1>4, <2>1
  <2>2. CASE ~(i <= Len(a))
    <3>1. i - Len(a) \in 1 .. Len(more) /\ Len(a) + (i - Len(a)) = i
      BY <1>4, <2>2
    <3> QED BY <1>4, <3>1
  <2> QED BY <2>1, <2>2
<1>7. ASSUME \A i \in DOMAIN a : SvcOk(dv, a[i]), NEW i \in DOMAIN b PROVE SvcOk(dv, b[i])
  <2>1. CASE i \in DOMAIN a
    BY <1>4, <1>7, <2>1
  <2>2. CASE i - Len(a) \in DOMAIN more /\ b[i] = more[i - Len(a)]
    BY <2>2
  <2> QED BY <1>6, <2>1, <2>2
<1> QED BY <1>5, <1>7 DEF Keeps, Memory, MemOk, a, b

\* A service with something filled in.
Fills(m, m2, s, svc) ==
  /\ m2 \in [map : SUBSET Nat, mapped : BOOLEAN, svcs : Seq(SvcType)]
  /\ m2.map = m.map /\ DOMAIN m2.svcs = DOMAIN m.svcs
  /\ \A i \in DOMAIN m.svcs : m2.svcs[i] = IF i = s THEN svc ELSE m.svcs[i]

LEMMA FillsKeeps ==
  ASSUME NEW m, Memory(m), NEW dv, NEW m2, NEW s, NEW svc, Fills(m, m2, s, svc),
         s \in DOMAIN m.svcs => (SvcOk(dv, m.svcs[s]) => SvcOk(dv, svc))
  PROVE  Keeps(dv, m, m2)
BY DEF Keeps, Memory, MemOk, Fills

LEMMA FillChars ==
  ASSUME NEW m, Memory(m), NEW s, NEW list \in Seq(CharType)
  PROVE  Fills(m, [m EXCEPT !.svcs[s].chars = list], s, [m.svcs[s] EXCEPT !.chars = list])
<1> DEFINE a == m.svcs  b == [a EXCEPT ![s].chars = list]
<1>1. m \in [map : SUBSET Nat, mapped : BOOLEAN, svcs : Seq(SvcType)]
  BY DEF Memory
<1>2. a \in Seq(SvcType)
  BY <1>1
<1>3. [m EXCEPT !.svcs[s].chars = list] = [m EXCEPT !.svcs = b]
  BY <1>1
<1> HIDE DEF a
<1>4. DOMAIN a = 1 .. Len(a) /\ Len(a) \in Nat /\ \A i \in DOMAIN a : a[i] \in SvcType
  BY <1>2
<1>5. DOMAIN b = DOMAIN a /\ \A i \in DOMAIN a : b[i] = IF i = s THEN [a[s] EXCEPT !.chars = list] ELSE a[i]
  OBVIOUS
<1>6. \A x \in SvcType : [x EXCEPT !.chars = list] \in SvcType
  BY DEF SvcType
<1>7. b = [i \in 1 .. Len(a) |-> b[i]] 
  BY <1>4
<1> HIDE DEF b
<1>8. \A i \in 1 .. Len(a) : b[i] \in SvcType
  BY <1>4, <1>5, <1>6
<1>9. b \in Seq(SvcType)
  BY <1>4, <1>7, <1>8
<1>10. LET m2 == [m EXCEPT !.svcs = b] IN
         m2 \in [map : SUBSET Nat, mapped : BOOLEAN, svcs : Seq(SvcType)] /\ m2.map = m.map /\ m2.svcs = b
  BY <1>1, <1>9
<1> QED BY <1>3, <1>5, <1>10 DEF Fills, a

LEMMA FillDescs ==
  ASSUME NEW m, Memory(m), NEW s, NEW list \in Seq(DescType)
  PROVE  Fills(m, [m EXCEPT !.svcs[s].descs = list], s, [m.svcs[s] EXCEPT !.descs = list])
<1> DEFINE a == m.svcs  b == [a EXCEPT ![s].descs = list]
<1>1. m \in [map : SUBSET Nat, mapped : BOOLEAN, svcs : Seq(SvcType)]
  BY DEF Memory
<1>2. a \in Seq(SvcType)
  BY <1>1
<1>3. [m EXCEPT !.svcs[s].descs = list] = [m EXCEPT !.svcs = b]
  BY <1>1
<1> HIDE DEF a
<1>4. DOMAIN a = 1 .. Len(a) /\ Len(a) \in Nat /\ \A i \in DOMAIN a : a[i] \in SvcType
  BY <1>2
<1>5. DOMAIN b = DOMAIN a /\ \A i \in DOMAIN a : b[i] = IF i = s THEN [a[s] EXCEPT !.descs = list] ELSE a[i]
  OBVIOUS
<1>6. \A x \in SvcType : [x EXCEPT !.descs = list] \in SvcType
  BY DEF SvcType
<1>7. b = [i \in 1 .. Len(a) |-> b[i]]
  BY <1>4
<1> HIDE DEF b
<1>8. \A i \in 1 .. Len(a) : b[i] \in SvcType
  BY <1>4, <1>5, <1>6
<1>9. b \in Seq(SvcType)
  BY <1>4, <1>7, <1>8
<1>10. LET m2 == [m EXCEPT !.svcs = b] IN
         m2 \in [map : SUBSET Nat, mapped : BOOLEAN, svcs : Seq(SvcType)] /\ m2.map = m.map /\ m2.svcs = b
  BY <1>1, <1>9
<1> QED BY <1>3, <1>5, <1>10 DEF Fills, a

\* The same for one of the characteristics of a service.
LEMMA CharsWith ==
  ASSUME NEW a \in Seq(CharType), NEW c, NEW list \in Seq(DescType)
  PROVE  /\ [a EXCEPT ![c].descs = list] \in Seq(CharType)
         /\ DOMAIN [a EXCEPT ![c].descs = list] = DOMAIN a
         /\ \A k \in DOMAIN a : [a EXCEPT ![c].descs = list][k] =
              IF k = c THEN [a[c] EXCEPT !.descs = list] ELSE a[k]
<1> DEFINE b == [a EXCEPT ![c].descs = list]
<1>1. DOMAIN a = 1 .. Len(a) /\ Len(a) \in Nat /\ \A i \in DOMAIN a : a[i] \in CharType
  OBVIOUS
<1>2. DOMAIN b = DOMAIN a /\ \A i \in DOMAIN a : b[i] = IF i = c THEN [a[c] EXCEPT !.descs = list] ELSE a[i]
  OBVIOUS
<1>3. \A x \in CharType : [x EXCEPT !.descs = list] \in CharType
  BY DEF CharType
<1>4. b = [i \in 1 .. Len(a) |-> b[i]]
  BY <1>1
<1> HIDE DEF b
<1>5. \A i \in 1 .. Len(a) : b[i] \in CharType
  BY <1>1, <1>2, <1>3
<1>6. b \in Seq(CharType)
  BY <1>1, <1>4, <1>5
<1> QED BY <1>2, <1>6 DEF b

LEMMA FillCharDescs ==
  ASSUME NEW m, Memory(m), NEW s, NEW c, NEW list \in Seq(DescType)
  PROVE  Fills(m, [m EXCEPT !.svcs[s].chars[c].descs = list], s,
               [m.svcs[s] EXCEPT !.chars = [m.svcs[s].chars EXCEPT ![c].descs = list]])
<1> DEFINE chars == [m.svcs[s].chars EXCEPT ![c].descs = list]
<1>1. m \in [map : SUBSET Nat, mapped : BOOLEAN, svcs : Seq(SvcType)]
  BY DEF Memory
<1>2. [m EXCEPT !.svcs[s].chars[c].descs = list] = [m EXCEPT !.svcs[s].chars = chars]
  BY <1>1
<1>3. CASE s \in DOMAIN m.svcs
  <2>1. m.svcs[s].chars \in Seq(CharType)
    <3>1. m.svcs[s] \in SvcType
      BY <1>1, <1>3
    <3> QED BY <3>1 DEF SvcType
  <2>2. chars \in Seq(CharType)
    BY <2>1, CharsWith
  <2> HIDE DEF chars
  <2>3. Fills(m, [m EXCEPT !.svcs[s].chars = chars], s, [m.svcs[s] EXCEPT !.chars = chars])
    BY <2>2, FillChars
  <2> QED BY <1>2, <2>3 DEF chars
<1>4. CASE s \notin DOMAIN m.svcs
  <2> DEFINE a == m.svcs  b == [a EXCEPT ![s].chars = chars]
  <2>1. [m EXCEPT !.svcs[s].chars = chars] = [m EXCEPT !.svcs = b]
    BY <1>1
  <2>2. b = a
    <3>1. a = [i \in DOMAIN a |-> a[i]]
      <4>1. a \in Seq(SvcType)
        BY <1>1
      <4> HIDE DEF a
      <4> QED BY <4>1
    <3> HIDE DEF a, chars
    <3> QED BY <1>4, <3>1 DEF a
  <2>3. [m EXCEPT !.svcs = a] = m
    BY <1>1
  <2> HIDE DEF chars
  <2>4. [m EXCEPT !.svcs[s].chars = chars] = m
    BY <2>1, <2>2, <2>3
  <2>5. Fills(m, m, s, [m.svcs[s] EXCEPT !.chars = chars])
    BY <1>1, <1>4 DEF Fills
  <2> QED BY <1>2, <2>4, <2>5 DEF chars
<1> QED BY <1>3, <1>4

\* The method's last memory, and that it asks nothing when nothing is answered.
LEMMA NotAnswered ==
  ASSUME NEW m, NEW dv
  PROVE  /\ DiscoverServices(m, dv, 0).mem = m /\ GetServices(m, dv, 0).mem = m
         /\ \A u : GetServiceByUUID(m, dv, 0, u).mem = m
         /\ \A s : GetCharacteristics(m, dv, 0, s).mem = m /\ GetCharacteristics(m, dv, 0, s).left = 0
         /\ \A s : ServiceDescriptors(m, dv, 0, s).mem = m
         /\ \A s, c, e : CharDescriptors(m, dv, 0, s, c, e).mem = m
<1>1. \A v, n : Got(m, n, v).mem = m /\ Got(m, n, v).left = n
  BY DEF Got
<1>2. Raised(m).mem = m /\ Raised(m).left = 0
  BY DEF Raised
<1>3. DiscoverServices(m, dv, 0).mem = m
  BY <1>2 DEF DiscoverServices
<1>4. GetServices(m, dv, 0).mem = m
  BY <1>1, <1>3 DEF GetServices
<1>5. \A u : GetServiceByUUID(m, dv, 0, u).mem = m
  BY <1>1, <1>2, Zenon DEF GetServiceByUUID
<1>6. \A s : GetCharacteristics(m, dv, 0, s).mem = m /\ GetCharacteristics(m, dv, 0, s).left = 0
  BY <1>1, <1>2, Zenon DEF GetCharacteristics
<1>7. \A s : ServiceDescriptors(m, dv, 0, s).mem = m
  BY <1>1, <1>2, Zenon DEF ServiceDescriptors
<1>8. \A s, c, e : CharDescriptors(m, dv, 0, s, c, e).mem = m
  BY <1>1, <1>2, Zenon DEF CharDescriptors
<1> QED BY <1>3, <1>4, <1>5, <1>6, <1>7, <1>8

LEMMA NewServiceOk ==
  ASSUME NEW dv, WellFormed(dv), NEW h \in Starts(dv)
  PROVE  SvcOk(dv, Service(dv, h))
<1>1. Values(<< >>) = {}
  BY DEF Values
<1> QED BY <1>1 DEF SvcOk, Service

LEMMA FoundServices ==
  ASSUME NEW dv, WellFormed(dv)
  PROVE  /\ Services(dv) \in Seq(SvcType)
         /\ \A i \in DOMAIN Services(dv) : SvcOk(dv, Services(dv)[i])
<1>1. Services(dv) \in Seq(SvcType) /\ Values(Services(dv)) = {Service(dv, h) : h \in Starts(dv)}
  BY ServicesIs
<1>2. ASSUME NEW i \in DOMAIN Services(dv) PROVE SvcOk(dv, Services(dv)[i])
  <2>1. Services(dv)[i] \in Values(Services(dv))
    BY <1>2 DEF Values
  <2>2. PICK h \in Starts(dv) : Services(dv)[i] = Service(dv, h)
    BY <1>1, <2>1, Zenon
  <2> QED BY <2>2, NewServiceOk
<1> QED BY <1>1, <1>2

LEMMA DiscoverKeeps ==
  ASSUME NEW m, Memory(m), NEW dv, WellFormed(dv), NEW left
  PROVE  Keeps(dv, m, DiscoverServices(m, dv, left).mem)
<1> DEFINE n == Len(m.svcs)  all == Services(dv)
           map == {i \in DOMAIN all : \A j \in DOMAIN all : all[j].uuid = all[i].uuid => j <= i}
           m2 == [map |-> {n + i : i \in map}, mapped |-> TRUE, svcs |-> m.svcs \o all]
<1>1. DiscoverServices(m, dv, left).mem = m \/ DiscoverServices(m, dv, left).mem = m2
  BY Zenon DEF DiscoverServices, Got, Raised
<1>2. all \in Seq(SvcType) /\ \A i \in DOMAIN all : SvcOk(dv, all[i])
  BY FoundServices
<1>3. map \subseteq DOMAIN all
  OBVIOUS
<1>4. m.svcs \in Seq(SvcType) /\ n \in Nat
  BY DEF Memory
<1> HIDE DEF all, map, n
<1>5. Len(all) \in Nat /\ DOMAIN all = 1 .. Len(all)
  BY <1>2
<1>6. m2.svcs = m.svcs \o all /\ m.svcs \o all \in Seq(SvcType)
  BY <1>2, <1>4
<1>7. {n + i : i \in map} \subseteq n + 1 .. n + Len(all) /\ {n + i : i \in map} \in SUBSET Nat
  BY <1>3, <1>4, <1>5
<1>8. m2 \in [map : SUBSET Nat, mapped : BOOLEAN, svcs : Seq(SvcType)]
  BY <1>6, <1>7
<1>9. \A i \in m2.map : i \in m.map \/ i \in Len(m.svcs) + 1 .. Len(m.svcs) + Len(all)
  BY <1>7 DEF n
<1> HIDE DEF m2
<1>10. Keeps(dv, m, m2)
  BY <1>2, <1>6, <1>8, <1>9, MoreServices
<1> QED BY <1>1, <1>10, KeepsSame

LEMMA GetServicesKeeps ==
  ASSUME NEW m, Memory(m), NEW dv, WellFormed(dv), NEW left
  PROVE  Keeps(dv, m, GetServices(m, dv, left).mem)
<1>1. GetServices(m, dv, left).mem = m \/ GetServices(m, dv, left) = DiscoverServices(m, dv, left)
  BY Zenon DEF GetServices, Got
<1> QED BY <1>1, DiscoverKeeps, KeepsSame

LEMMA ByUuidKeeps ==
  ASSUME NEW m, Memory(m), NEW dv, WellFormed(dv), NEW left, NEW uuid
  PROVE  Keeps(dv, m, GetServiceByUUID(m, dv, left, uuid).mem)
<1> DEFINE all == Services(dv)  those == Chosen(all, {i \in DOMAIN all : all[i].uuid = uuid})
           n == Len(m.svcs) + 1
           m2 == [map |-> m.map \cup {n}, mapped |-> TRUE, svcs |-> Append(m.svcs, those[1])]
           r == GetServiceByUUID(m, dv, left, uuid)
<1>1. r.mem = m \/ (those # << >> /\ r.mem = m2)
  BY Zenon DEF GetServiceByUUID, Got, Raised
<1>2. all \in Seq(SvcType) /\ \A i \in DOMAIN all : SvcOk(dv, all[i])
  BY FoundServices
<1> HIDE DEF all
<1>3. /\ those \in Seq(SvcType)
      /\ Values(those) = {all[i] : i \in {k \in DOMAIN all : k \in {i \in DOMAIN all : all[i].uuid = uuid}}}
  BY <1>2, ChosenValues
<1> HIDE DEF those, r
<1>4. CASE r.mem = m
  BY <1>4, KeepsSame DEF r
<1>5. CASE those # << >> /\ r.mem = m2
  <2>1. 1 \in DOMAIN those /\ those[1] \in SvcType
    BY <1>3, <1>5
  <2>2. SvcOk(dv, those[1])
    <3>1. those[1] \in Values(those)
      BY <2>1 DEF Values
    <3>2. \E i \in DOMAIN all : those[1] = all[i]
      BY <1>3, <3>1, Zenon
    <3> QED BY <1>2, <3>2
  <2> DEFINE x == those[1]
  <2>3. x \in SvcType /\ SvcOk(dv, x)
    BY <2>1, <2>2
  <2> HIDE DEF x
  <2>4. m.svcs \in Seq(SvcType) /\ Len(m.svcs) \in Nat /\ m.map \in SUBSET Nat
    BY DEF Memory
  <2>5. << x >> \in Seq(SvcType) /\ Len(<< x >>) = 1 /\ \A i \in DOMAIN << x >> : SvcOk(dv, << x >>[i])
    BY <2>3
  <2>6. Append(m.svcs, x) = m.svcs \o << x >> /\ Append(m.svcs, x) \in Seq(SvcType)
    BY <2>3, <2>4
  <2>7. m2.svcs = m.svcs \o << x >> /\ m2.map = m.map \cup {n}
    BY <2>6 DEF x
  <2>8. m2 \in [map : SUBSET Nat, mapped : BOOLEAN, svcs : Seq(SvcType)]
    BY <2>4, <2>6 DEF x
  <2>9. \A i \in m2.map : i \in m.map \/ i \in Len(m.svcs) + 1 .. Len(m.svcs) + Len(<< x >>)
    BY <2>4, <2>5, <2>7
  <2> HIDE DEF m2
  <2>10. Keeps(dv, m, m2)
    BY <2>5, <2>7, <2>8, <2>9, MoreServices
  <2> QED BY <1>5, <2>10 DEF r
<1> QED BY <1>1, <1>4, <1>5

\* The characteristics declared in a service are those whose values are in it.
LEMMA AllOfService ==
  ASSUME NEW dv, WellFormed(dv), NEW first \in Starts(dv), NEW last, last = EndOf(dv, first)
  PROVE  /\ {c.valHandle : c \in Values(CharsIn(dv, first, last))} = ValuesIn(dv, first, last)
         /\ \A c \in Values(CharsIn(dv, first, last)) : CharOk(dv, c)
<1> DEFINE H == {i \in DOMAIN dv : i \in first .. last /\ dv[i].kind = "char"}
           F == CharsIn(dv, first, last)
<1>1. Values(F) = {Characteristic(dv, h) : h \in H}
  BY CharsInIs
<1>2. \A h : Characteristic(dv, h).valHandle = h + 1 /\ Characteristic(dv, h).descs = << >>
                /\ Characteristic(dv, h).uuid = dv[h + 1].uuid
  BY DEF Characteristic
<1>3. \A h \in H : h + 1 \in DOMAIN dv /\ dv[h + 1].kind = "value"
  BY DeviceFacts
<1>4. \A h \in H : CharOk(dv, Characteristic(dv, h))
  BY <1>2, <1>3 DEF CharOk
<1>5. first \in Nat /\ last \in Nat /\ last <= Len(dv) /\ DOMAIN dv = 1 .. Len(dv) /\ Len(dv) \in Nat
      /\ first >= 1 /\ first \in DOMAIN dv /\ dv[first].kind = "service"
  BY EndIs, DeviceFacts DEF Starts
<1>6. ASSUME NEW h \in H PROVE h + 1 \in ValuesIn(dv, first, last)
  <2>1. h \in Nat /\ h >= first /\ h <= last /\ h + 1 \in DOMAIN dv /\ dv[h + 1].kind = "value"
    BY <1>3, <1>5, <1>6
  <2>2. h # last
    <3>1. last + 1 \in DOMAIN dv => dv[last + 1].kind = "service"
      BY EndIs
    <3> QED BY <2>1, <3>1
  <2>3. h + 1 \in first .. last
    BY <1>5, <2>1, <2>2
  <2> QED BY <2>1, <2>3 DEF ValuesIn
<1>7. ASSUME NEW v \in ValuesIn(dv, first, last) PROVE \E h \in H : v = h + 1
  <2>1. v \in first .. last /\ v \in DOMAIN dv /\ dv[v].kind = "value"
    BY <1>5, <1>7 DEF ValuesIn
  <2>2. v - 1 \in DOMAIN dv /\ dv[v - 1].kind = "char"
    BY <2>1, DeviceFacts
  <2>3. v # first
    BY <1>5, <2>1
  <2>4. v - 1 \in first .. last /\ v = (v - 1) + 1
    BY <1>5, <2>1, <2>3
  <2>5. v - 1 \in H
    BY <2>2, <2>4
  <2> QED BY <2>4, <2>5
<1> HIDE DEF H, F
<1>8. {c.valHandle : c \in Values(F)} = ValuesIn(dv, first, last)
  <2>1. ASSUME NEW c \in Values(F) PROVE c.valHandle \in ValuesIn(dv, first, last)
    <3>1. PICK h \in H : c = Characteristic(dv, h)
      BY <1>1, <2>1
    <3> QED BY <1>2, <1>6, <3>1
  <2>2. ASSUME NEW v \in ValuesIn(dv, first, last) PROVE \E c \in Values(F) : v = c.valHandle
    <3>1. PICK h \in H : v = h + 1
      BY <1>7, <2>2
    <3>2. Characteristic(dv, h) \in Values(F)
      BY <1>1
    <3> QED BY <1>2, <3>1, <3>2
  <2> QED BY <2>1, <2>2, Zenon
<1>9. \A c \in Values(F) : CharOk(dv, c)
  BY <1>1, <1>4, Zenon
<1> QED BY <1>8, <1>9 DEF F

LEMMA CharsKeep ==
  ASSUME NEW m, Memory(m), NEW dv, WellFormed(dv), NEW left, NEW s
  PROVE  Keeps(dv, m, GetCharacteristics(m, dv, left, s).mem)
<1> DEFINE svc == m.svcs[s]  list == CharsIn(dv, svc.hndStart, svc.hndEnd)
           m2 == [m EXCEPT !.svcs[s].chars = list]
           r == GetCharacteristics(m, dv, left, s)
<1>1. r.mem = m \/ r.mem = m2
  BY Zenon DEF GetCharacteristics, Got, Raised
<1>2. list \in Seq(CharType)
  BY CharsInIs
<1>3. Fills(m, m2, s, [svc EXCEPT !.chars = list])
  <2> HIDE DEF list
  <2> QED BY <1>2, FillChars
<1>4. ASSUME s \in DOMAIN m.svcs, SvcOk(dv, svc) PROVE SvcOk(dv, [svc EXCEPT !.chars = list])
  <2>1. svc \in SvcType
    BY <1>4 DEF Memory
  <2>2. /\ {c.valHandle : c \in Values(list)} = ValuesIn(dv, svc.hndStart, svc.hndEnd)
        /\ \A c \in Values(list) : CharOk(dv, c)
    BY <1>4, AllOfService DEF SvcOk
  <2> HIDE DEF list
  <2> DEFINE new == [svc EXCEPT !.chars = list]
  <2>3. /\ new.hndStart = svc.hndStart /\ new.hndEnd = svc.hndEnd /\ new.uuid = svc.uuid
        /\ new.chars = list /\ new.descs = svc.descs
    BY <2>1 DEF SvcType
  <2> HIDE DEF new
  <2>4. SvcOk(dv, new)
    BY <1>4, <2>2, <2>3, Zenon DEF SvcOk
  <2> QED BY <2>4 DEF new
<1> HIDE DEF m2, r
<1>5. Keeps(dv, m, m2)
  BY <1>3, <1>4, FillsKeeps
<1> QED BY <1>1, <1>5, KeepsSame DEF r

LEMMA ServiceDescsKeep ==
  ASSUME NEW m, Memory(m), NEW dv, WellFormed(dv), NEW left, NEW s
  PROVE  Keeps(dv, m, ServiceDescriptors(m, dv, left, s).mem)
<1> DEFINE svc == m.svcs[s]  all == DescsIn(dv, svc.hndStart + 1, svc.hndEnd)
           list == Chosen(all, {i \in DOMAIN all : all[i].uuid # 10243})
           m2 == [m EXCEPT !.svcs[s].descs = list]
           r == ServiceDescriptors(m, dv, left, s)
<1>1. r.mem = m \/ r.mem = m2
  <2>1. r = IF svc.descs # << >> THEN Got(m, left, svc.descs)
            ELSE IF left = 0 \/ all = << >> THEN Raised(m) ELSE Got(m2, left - 1, list)
    BY DEF ServiceDescriptors
  <2> HIDE DEF r, m2, list, all
  <2> QED BY <2>1, Zenon DEF Got, Raised
<1>2. /\ all \in Seq(DescType)
      /\ Values(all) = {[uuid |-> Type(dv[h]), handle |-> h] :
                          h \in {i \in DOMAIN dv : i \in svc.hndStart + 1 .. svc.hndEnd}}
  BY DescsInIs
<1> HIDE DEF all
<1>3. /\ list \in Seq(DescType)
      /\ Values(list) = {all[i] : i \in {k \in DOMAIN all : k \in {i \in DOMAIN all : all[i].uuid # 10243}}}
  BY <1>2, ChosenValues
<1> HIDE DEF list
<1>4. \A d : d \in Values(list) <=> d \in Values(all) /\ d.uuid # 10243
  <2>1. ASSUME NEW d \in Values(list) PROVE d \in Values(all) /\ d.uuid # 10243
    <3>1. PICK i \in DOMAIN all : d = all[i] /\ all[i].uuid # 10243
      BY <1>3, <2>1
    <3> QED BY <3>1 DEF Values
  <2>2. ASSUME NEW d \in Values(all), d.uuid # 10243 PROVE d \in Values(list)
    <3>1. PICK i \in DOMAIN all : d = all[i]
      BY <2>2 DEF Values
    <3> QED BY <1>3, <2>2, <3>1
  <2> QED BY <2>1, <2>2
<1>5. Fills(m, m2, s, [svc EXCEPT !.descs = list])
  BY <1>3, FillDescs
<1>6. ASSUME s \in DOMAIN m.svcs, SvcOk(dv, svc) PROVE SvcOk(dv, [svc EXCEPT !.descs = list])
  <2>1. svc \in SvcType
    BY <1>6 DEF Memory
  <2>2. /\ svc.hndStart \in Nat /\ svc.hndEnd \in Nat /\ svc.hndEnd <= Len(dv) /\ Len(dv) \in Nat
        /\ DOMAIN dv = 1 .. Len(dv) /\ svc.hndStart >= 1
    BY <1>6, EndIs, DeviceFacts DEF SvcOk, Starts
  <2>3. svc.hndStart + 1 .. svc.hndEnd \subseteq DOMAIN dv
    BY <2>2
  <2> DEFINE D(h) == [uuid |-> Type(dv[h]), handle |-> h]
             P == InService(dv, svc.hndStart, svc.hndEnd)
  <2>4. \A d : d \in Values(all) <=> \E h \in svc.hndStart + 1 .. svc.hndEnd : d = D(h)
    BY <1>2, <2>3, Zenon
  <2>5. \A h \in svc.hndStart + 1 .. svc.hndEnd : h \in P <=> D(h).uuid # 10243
    BY <2>3, TypeOfAttr DEF InService
  <2>6. \A h \in P : h \in svc.hndStart + 1 .. svc.hndEnd
    BY DEF InService
  <2>7. \A h : D(h).uuid = Type(dv[h]) /\ D(h).handle = h
    OBVIOUS
  <2> HIDE DEF D, P
  <2>8. \A d : d \in Values(list) <=> \E h \in P : d = D(h)
    <3>1. ASSUME NEW d \in Values(list) PROVE \E h \in P : d = D(h)
      <4>1. d \in Values(all) /\ d.uuid # 10243
        BY <1>4, <3>1
      <4>2. PICK h \in svc.hndStart + 1 .. svc.hndEnd : d = D(h)
        BY <2>4, <4>1
      <4> QED BY <2>5, <4>1, <4>2
    <3>2. ASSUME NEW h \in P PROVE D(h) \in Values(list)
      BY <1>4, <2>4, <2>5, <2>6, <3>2
    <3> QED BY <3>1, <3>2
  <2>9. DescsAre(dv, list, P)
    <3>1. ASSUME NEW d \in Values(list) PROVE d.handle \in P /\ d.uuid = Type(dv[d.handle])
      BY <2>7, <2>8, <3>1
    <3>2. ASSUME NEW h \in P PROVE \E d \in Values(list) : d.handle = h
      BY <2>7, <2>8, <3>2
    <3> QED BY <3>1, <3>2, Zenon DEF DescsAre
  <2> DEFINE new == [svc EXCEPT !.descs = list]
  <2>10. /\ new.hndStart = svc.hndStart /\ new.hndEnd = svc.hndEnd /\ new.uuid = svc.uuid
         /\ new.chars = svc.chars /\ new.descs = list
    BY <2>1 DEF SvcType
  <2> HIDE DEF new
  <2>11. SvcOk(dv, new)
    BY <1>6, <2>9, <2>10, Zenon DEF SvcOk, P
  <2> QED BY <2>11 DEF new
<1> HIDE DEF m2, r
<1>7. Keeps(dv, m, m2)
  BY <1>5, <1>6, FillsKeeps
<1> QED BY <1>1, <1>7, KeepsSame DEF r

\* Of a list of numbers in order, the chosen ones are in order.
InOrder(t, n) ==
  /\ \A k \in DOMAIN t : t[k] \in Nat /\ t[k] <= n
  /\ \A j, k \in DOMAIN t : j < k => t[j] < t[k]

LEMMA OneMoreInOrder ==
  ASSUME NEW t \in Seq(Nat), NEW n \in Nat, InOrder(t, n)
  PROVE  InOrder(t, n + 1) /\ InOrder(Append(t, n + 1), n + 1)
<1> DEFINE u == Append(t, n + 1)
<1>1. /\ DOMAIN t = 1 .. Len(t) /\ Len(t) \in Nat /\ DOMAIN u = 1 .. (Len(t) + 1)
      /\ u[Len(t) + 1] = n + 1 /\ \A k \in DOMAIN t : u[k] = t[k]
  OBVIOUS
<1> HIDE DEF u
<1>2. \A k \in DOMAIN t : t[k] \in Nat /\ t[k] <= n
  BY DEF InOrder
<1>3. \A k \in DOMAIN u : k \in DOMAIN t \/ k = Len(t) + 1
  BY <1>1
<1>4. \A k \in DOMAIN u : u[k] \in Nat /\ u[k] <= n + 1
  BY <1>1, <1>2, <1>3
<1>5. ASSUME NEW j \in DOMAIN u, NEW k \in DOMAIN u, j < k PROVE u[j] < u[k]
  <2>1. j \in DOMAIN t
    BY <1>1, <1>3, <1>5
  <2>2. CASE k \in DOMAIN t
    BY <1>1, <1>5, <2>1, <2>2 DEF InOrder
  <2>3. CASE k = Len(t) + 1
    BY <1>1, <1>2, <2>1, <2>3
  <2> QED BY <1>3, <2>2, <2>3
<1>6. InOrder(u, n + 1)
  BY <1>4, <1>5 DEF InOrder
<1>7. InOrder(t, n + 1)
  <2>1. \A k \in DOMAIN t : t[k] <= n + 1
    BY <1>2
  <2> QED BY <1>2, <2>1 DEF InOrder
<1> QED BY <1>6, <1>7 DEF u

LEMMA ChosenInOrder ==
  ASSUME NEW N \in Nat, NEW places
  PROVE  InOrder(Chosen([h \in 1 .. N |-> h], places), N)
<1> DEFINE s == [h \in 1 .. N |-> h]
<1>1. Len(s) = N /\ \A h \in 1 .. N : s[h] = h
  OBVIOUS
<1> SUFFICES InOrder(Chosen(s, places), N)
  OBVIOUS
<1> HIDE DEF s
<1> DEFINE f == CHOOSE f : Chooses(s, places, f)
<1>2. Chosen(s, places) = f[N]
  BY <1>1 DEF Chosen, Chooses, Next1
<1>3. Chooses(s, places, f)
  BY <1>1, ChoosesExists
<1> HIDE DEF f
<1> DEFINE Right(n) == f[n] \in Seq(Nat) /\ InOrder(f[n], n)
           T == {n \in 0 .. N : ~ Right(n)}
<1>4. T = {}
  <2> SUFFICES ASSUME T # {} PROVE FALSE
    OBVIOUS
  <2>1. PICK n \in T : \A j \in T : n <= j
    <3>1. T \in SUBSET Nat
      OBVIOUS
    <3> HIDE DEF T
    <3> QED BY <3>1, LeastNat
  <2>2. f[n] = IF n = 0 THEN << >> ELSE Next1(s, places, f[n - 1], n)
    BY <1>1, <1>3, <2>1 DEF Chooses
  <2>3. n # 0
    <3>1. InOrder(<< >>, 0) /\ << >> \in Seq(Nat)
      BY DEF InOrder
    <3> QED BY <2>1, <2>2, <3>1
  <2> DEFINE m == n - 1
  <2>4. m \in Nat /\ m \in 0 .. N /\ m \notin T /\ m + 1 = n /\ n \in 1 .. N
    BY <2>1, <2>3
  <2>5. f[m] \in Seq(Nat) /\ InOrder(f[m], m)
    BY <2>4
  <2>6. f[n] = IF n \in places THEN Append(f[m], n) ELSE f[m]
    BY <1>1, <2>2, <2>3, <2>4 DEF Next1
  <2> HIDE DEF m, T
  <2>7. InOrder(f[m], m + 1) /\ InOrder(Append(f[m], m + 1), m + 1)
    BY <2>4, <2>5, OneMoreInOrder
  <2>8. Append(f[m], m + 1) \in Seq(Nat)
    BY <2>4, <2>5
  <2>9. Right(n)
    BY <2>4, <2>5, <2>6, <2>7, <2>8
  <2> QED BY <2>1, <2>9 DEF T
<1>5. Right(N)
  BY <1>4
<1> QED BY <1>2, <1>5

\* The list of descriptors is in the order of the handles.
LEMMA DescsInOrder ==
  ASSUME NEW dv, WellFormed(dv), NEW first, NEW last,
         NEW i \in DOMAIN DescsIn(dv, first, last), NEW j \in DOMAIN DescsIn(dv, first, last), i < j
  PROVE  DescsIn(dv, first, last)[i].handle < DescsIn(dv, first, last)[j].handle
<1> DEFINE hs == HandlesWhere(dv, first, last, {"service", "char", "value", "desc"})
           P == {h \in DOMAIN dv : h \in first .. last /\ dv[h].kind \in {"service", "char", "value", "desc"}}
<1>1. hs = Chosen([h \in DOMAIN dv |-> h], P)
  BY Zenon DEF HandlesWhere
<1>2. DOMAIN dv = 1 .. Len(dv) /\ Len(dv) \in Nat
  BY DeviceFacts
<1> HIDE DEF P
<1>3. InOrder(hs, Len(dv))
  BY <1>1, <1>2, ChosenInOrder
<1>4. DescsIn(dv, first, last) = [k \in DOMAIN hs |-> [uuid |-> Type(dv[hs[k]]), handle |-> hs[k]]]
  BY Zenon DEF DescsIn
<1> HIDE DEF hs
<1>5. \A k \in DOMAIN hs : DescsIn(dv, first, last)[k].handle = hs[k]
  BY <1>4
<1>6. i \in DOMAIN hs /\ j \in DOMAIN hs
  BY <1>4
<1> QED BY <1>3, <1>5, <1>6 DEF InOrder

\* Up to the next declaration, from a value to the end given, are the descriptors that
\* belong to its characteristic and are not behind that end.
LEMMA OwnDescsAre ==
  ASSUME NEW dv, WellFormed(dv), NEW v \in DOMAIN dv, dv[v].kind = "value", NEW e \in Nat
  PROVE  /\ OwnDescs(DescsIn(dv, v + 1, e)) \in Seq(DescType)
         /\ DescsAre(dv, OwnDescs(DescsIn(dv, v + 1, e)), UpTo(dv, v, e))
<1> DEFINE those == DescsIn(dv, v + 1, e)
           D(h) == [uuid |-> Type(dv[h]), handle |-> h]
           E == {h \in DOMAIN dv : h > v /\ h <= e}
           ends == {i \in DOMAIN those : those[i].uuid \in Declarations}
           P == {n \in DOMAIN those : \A i \in ends : n < i}
           list == OwnDescs(those)
<1>1. DOMAIN dv = 1 .. Len(dv) /\ Len(dv) \in Nat /\ v \in Nat /\ \A h \in DOMAIN dv : h \in Nat
  BY DeviceFacts
<1>2. /\ those \in Seq(DescType)
      /\ Values(those) = {D(h) : h \in {i \in DOMAIN dv : i \in v + 1 .. e}}
  BY DescsInIs
<1>3. {i \in DOMAIN dv : i \in v + 1 .. e} = E
  BY <1>1
<1>4. \A i, j \in DOMAIN those : i < j => those[i].handle < those[j].handle
  BY DescsInOrder
<1>5. DOMAIN those = 1 .. Len(those) /\ Len(those) \in Nat
  BY <1>2
<1>6. \A h : D(h).uuid = Type(dv[h]) /\ D(h).handle = h
  OBVIOUS
<1>7. list = Chosen(those, P)
  BY Zenon DEF OwnDescs
<1> HIDE DEF those, D, E
<1>8. ASSUME NEW i \in DOMAIN those
      PROVE  those[i].handle \in E /\ those[i] = D(those[i].handle) /\ those[i].uuid = Type(dv[those[i].handle])
  <2>1. those[i] \in Values(those)
    BY DEF Values
  <2>2. PICK h \in E : those[i] = D(h)
    BY <1>2, <1>3, <2>1
  <2> QED BY <1>6, <2>2
<1>9. ASSUME NEW h \in E PROVE \E i \in DOMAIN those : those[i].handle = h
  <2>1. D(h) \in Values(those)
    BY <1>2, <1>3
  <2>2. PICK i \in DOMAIN those : D(h) = those[i]
    BY <2>1, Zenon DEF Values
  <2> QED BY <1>6, <2>2
<1>10. \A h \in E : h \in DOMAIN dv /\ h \in Nat /\ h > v /\ h <= e
  BY <1>1 DEF E
<1>11. ASSUME NEW n \in DOMAIN those, NEW i \in DOMAIN those PROVE n < i <=> those[n].handle < those[i].handle
  <2>1. those[n].handle \in Nat /\ those[i].handle \in Nat /\ n \in Nat /\ i \in Nat
    BY <1>5, <1>8, <1>10
  <2>2. n = i => those[n].handle = those[i].handle
    OBVIOUS
  <2>3. (n < i => those[n].handle < those[i].handle) /\ (i < n => those[i].handle < those[n].handle)
    BY <1>4
  <2> QED BY <2>1, <2>2, <2>3
<1>12. \A h \in E : Type(dv[h]) \in Declarations <=> dv[h].kind \in {"service", "char"}
  BY <1>10, TypeOfAttr
<1>13. ASSUME NEW n \in P, NEW j \in E, dv[j].kind \in {"service", "char"} PROVE those[n].handle < j
  <2>1. PICK i \in DOMAIN those : those[i].handle = j
    BY <1>9
  <2>2. i \in ends
    BY <1>8, <1>12, <1>13, <2>1
  <2> QED BY <1>11, <2>1, <2>2
<1>14. ASSUME NEW n \in P PROVE those[n].handle \in UpTo(dv, v, e)
  <2> DEFINE h == those[n].handle
  <2>1. h \in E /\ h \in DOMAIN dv /\ h \in Nat /\ h > v /\ h <= e
    BY <1>8, <1>10
  <2> HIDE DEF h
  <2>2. ASSUME NEW j \in DOMAIN dv, j > v, dv[j].kind # "desc" PROVE h < j
    <3>1. j \in Nat /\ (j <= e => j \in E)
      BY <1>1, <2>2 DEF E
    <3>2. CASE dv[j].kind \in {"service", "char"}
      <4>1. j \in E => h < j
        BY <1>13, <3>2 DEF h
      <4> QED BY <2>1, <3>1, <4>1
    <3>3. CASE dv[j].kind = "value"
      <4>1. j - 1 \in DOMAIN dv /\ dv[j - 1].kind = "char"
        BY <3>3, DeviceFacts
      <4>2. j - 1 # v
        BY <4>1
      <4>3. j - 1 > v
        BY <1>1, <2>2, <3>1, <4>2
      <4>4. j - 1 <= e => j - 1 \in E
        BY <4>1, <4>3 DEF E
      <4>5. j - 1 \in E => h < j - 1
        BY <1>13, <4>1 DEF h
      <4> QED BY <2>1, <3>1, <4>4, <4>5
    <3>4. dv[j].kind \in Kinds
      BY DeviceFacts
    <3> QED BY <2>2, <3>2, <3>3, <3>4 DEF Kinds
  <2>3. h \in UpTo(dv, v, e)
    BY <2>1, <2>2 DEF Belong, UpTo
  <2> QED BY <2>3 DEF h
<1>15. ASSUME NEW n \in DOMAIN those, those[n].handle \in Belong(dv, v) PROVE n \in P
  <2>1. ASSUME NEW i \in ends PROVE n < i
    <3>1. i \in DOMAIN those /\ those[i].uuid \in Declarations
      OBVIOUS
    <3> DEFINE j == those[i].handle
    <3>2. j \in E /\ Type(dv[j]) \in Declarations
      BY <1>8, <3>1
    <3>3. j \in DOMAIN dv /\ j > v /\ dv[j].kind # "desc"
      BY <1>10, <1>12, <3>2
    <3> HIDE DEF j
    <3>4. those[n].handle < j
      BY <1>15, <3>3 DEF Belong
    <3> QED BY <1>11, <3>1, <3>4 DEF j
  <2> QED BY <2>1
<1> HIDE DEF P, ends
<1>16. list \in Seq(DescType) /\ Values(list) = {those[i] : i \in {k \in DOMAIN those : k \in P}}
  BY <1>2, <1>7, ChosenValues
<1> HIDE DEF list
<1>17. ASSUME NEW d \in Values(list) PROVE d.handle \in UpTo(dv, v, e) /\ d.uuid = Type(dv[d.handle])
  <2>1. PICK n \in DOMAIN those : n \in P /\ d = those[n]
    BY <1>16, <1>17
  <2> QED BY <1>8, <1>14, <2>1
<1>18. ASSUME NEW h \in UpTo(dv, v, e) PROVE \E d \in Values(list) : d.handle = h
  <2>1. h \in E
    BY <1>18 DEF Belong, UpTo, E
  <2>2. PICK n \in DOMAIN those : those[n].handle = h
    BY <1>9, <2>1
  <2>3. n \in P
    BY <1>15, <1>18, <2>2 DEF UpTo
  <2>4. those[n] \in Values(list)
    BY <1>16, <2>3
  <2> QED BY <2>2, <2>4
<1>19. DescsAre(dv, list, UpTo(dv, v, e))
  BY <1>17, <1>18, Zenon DEF DescsAre
<1> QED BY <1>16, <1>19 DEF list, those

LEMMA CharDescsKeep ==
  ASSUME NEW m, Memory(m), NEW dv, WellFormed(dv), NEW left, NEW s, NEW c, NEW e \in Given
  PROVE  Keeps(dv, m, CharDescriptors(m, dv, left, s, c, e).mem)
<1> DEFINE svc == m.svcs[s]  ch == svc.chars[c]
           list == OwnDescs(DescsIn(dv, ch.valHandle + 1, e))
           chars == [svc.chars EXCEPT ![c].descs = list]
           m2 == [m EXCEPT !.svcs[s].chars[c].descs = list]
           r == CharDescriptors(m, dv, left, s, c, e)
<1>1. r.mem = m \/ r.mem = m2
  <2>1. r = IF ch.descs # << >> THEN Got(m, left, ch.descs)
            ELSE IF left = 0 \/ DescsIn(dv, ch.valHandle + 1, e) = << >> THEN Raised(m)
            ELSE Got(m2, left - 1, list)
    BY DEF CharDescriptors
  <2> HIDE DEF r, m2, list
  <2> QED BY <2>1, Zenon DEF Got, Raised
<1>2. list \in Seq(DescType)
  <2> DEFINE those == DescsIn(dv, ch.valHandle + 1, e)
             P == {n \in DOMAIN those : \A i \in {k \in DOMAIN those : those[k].uuid \in Declarations} : n < i}
  <2>1. those \in Seq(DescType)
    BY DescsInIs
  <2>2. list = Chosen(those, P)
    BY Zenon DEF OwnDescs
  <2> HIDE DEF list, those, P
  <2> QED BY <2>1, <2>2, ChosenValues
<1>3. ASSUME ch.valHandle \in DOMAIN dv, dv[ch.valHandle].kind = "value"
      PROVE  DescsAre(dv, list, UpTo(dv, ch.valHandle, e))
  <2>1. e \in Nat
    BY LibrariesAssumption DEF Given, LastHandle
  <2> QED BY <1>3, <2>1, OwnDescsAre
<1> HIDE DEF list
<1>4. Fills(m, m2, s, [svc EXCEPT !.chars = chars])
  BY <1>2, FillCharDescs
<1>5. ASSUME s \in DOMAIN m.svcs, SvcOk(dv, svc) PROVE SvcOk(dv, [svc EXCEPT !.chars = chars])
  <2>1. svc \in SvcType
    BY <1>5 DEF Memory
  <2> DEFINE a == svc.chars
  <2>2. a \in Seq(CharType)
    BY <2>1 DEF SvcType
  <2> HIDE DEF a
  <2> DEFINE b == [a EXCEPT ![c].descs = list]
  <2>3. /\ b \in Seq(CharType) /\ DOMAIN b = DOMAIN a
        /\ \A k \in DOMAIN a : b[k] = IF k = c THEN [a[c] EXCEPT !.descs = list] ELSE a[k]
    BY <1>2, <2>2, CharsWith
  <2>4. \A k \in DOMAIN a : a[k] \in CharType
    BY <2>2
  <2> HIDE DEF b
  <2>5. \A k \in DOMAIN a : /\ b[k].valHandle = a[k].valHandle /\ b[k].uuid = a[k].uuid
                            /\ b[k].descs = IF k = c THEN list ELSE a[k].descs
    BY <2>3, <2>4 DEF CharType
  <2>6. \A k \in DOMAIN a : CharOk(dv, a[k])
    BY <1>5 DEF SvcOk, Values, a
  <2>7. ASSUME NEW k \in DOMAIN a PROVE CharOk(dv, b[k])
    <3>1. CASE k = c
      <4>1. a[c].valHandle \in DOMAIN dv /\ dv[a[c].valHandle].kind = "value"
        BY <2>6, <3>1 DEF CharOk
      <4>2. DescsAre(dv, list, UpTo(dv, a[c].valHandle, e))
        BY <1>3, <4>1 DEF a
      <4> QED BY <2>5, <2>6, <3>1, <4>2 DEF CharOk
    <3>2. CASE k # c
      BY <2>3, <2>6, <3>2
    <3> QED BY <3>1, <3>2
  <2>8. \A x \in Values(b) : CharOk(dv, x)
    BY <2>3, <2>7 DEF Values
  <2>9. {x.valHandle : x \in Values(b)} = {x.valHandle : x \in Values(a)}
    <3>1. ASSUME NEW k \in DOMAIN a PROVE b[k] \in Values(b) /\ a[k] \in Values(a)
      BY <2>3 DEF Values
    <3>2. \A x \in Values(b) : \E k \in DOMAIN a : x = b[k]
      BY <2>3 DEF Values
    <3>3. \A x \in Values(a) : \E k \in DOMAIN a : x = a[k]
      BY DEF Values
    <3> QED BY <2>5, <3>1, <3>2, <3>3
  <2>10. a = << >> => b = << >>
    <3>1. a = << >> => Len(b) = 0
      BY <2>2, <2>3
    <3> QED BY <2>3, <3>1, EmptySeq
  <2> DEFINE new == [svc EXCEPT !.chars = b]
  <2>11. /\ new.hndStart = svc.hndStart /\ new.hndEnd = svc.hndEnd /\ new.uuid = svc.uuid
         /\ new.chars = b /\ new.descs = svc.descs
    BY <2>1 DEF SvcType
  <2> HIDE DEF new
  <2>12. SvcOk(dv, new)
    <3>1. b = << >> \/ {x.valHandle : x \in Values(b)} = ValuesIn(dv, svc.hndStart, svc.hndEnd)
      BY <1>5, <2>9, <2>10 DEF SvcOk, a
    <3> QED BY <1>5, <2>8, <2>11, <3>1, Zenon DEF SvcOk
  <2> QED BY <2>12 DEF new, b, a
<1> HIDE DEF m2, r
<1>6. Keeps(dv, m, m2)
  BY <1>4, <1>5, FillsKeeps
<1> QED BY <1>1, <1>6, KeepsSame DEF r

-----------------------------------------------------------------------------
(* The classes of thingy52.py call the same methods.                        *)

LEMMA ThingyMethods ==
  ASSUME NEW m, NEW dv, NEW left
  PROVE  /\ \A u : Thingy!GetServiceByUUID(m, dv, left, u) = GetServiceByUUID(m, dv, left, u)
         /\ \A s : Thingy!GetCharacteristics(m, dv, left, s) = GetCharacteristics(m, dv, left, s)
         /\ \A s, c, e : Thingy!CharDescriptors(m, dv, left, s, c, e) = CharDescriptors(m, dv, left, s, c, e)
         /\ Thingy!DbNow = DbNow
<1>1. ASSUME NEW u PROVE Thingy!GetServiceByUUID(m, dv, left, u) = GetServiceByUUID(m, dv, left, u)
  BY Zenon DEF Thingy!GetServiceByUUID, GetServiceByUUID, Thingy!Services, Services, Thingy!Service, Service,
     Thingy!HandlesWhere, HandlesWhere, Thingy!Chosen, Chosen, Thingy!EndOf, EndOf, Thingy!Starts, Starts,
     Thingy!Got, Got, Thingy!Raised, Raised
<1>2. ASSUME NEW s PROVE Thingy!GetCharacteristics(m, dv, left, s) = GetCharacteristics(m, dv, left, s)
  BY Zenon DEF Thingy!GetCharacteristics, GetCharacteristics, Thingy!CharsIn, CharsIn,
     Thingy!Characteristic, Characteristic, Thingy!HandlesWhere, HandlesWhere, Thingy!Chosen, Chosen,
     Thingy!Got, Got, Thingy!Raised, Raised
<1>3. ASSUME NEW s, NEW c, NEW e
      PROVE  Thingy!CharDescriptors(m, dv, left, s, c, e) = CharDescriptors(m, dv, left, s, c, e)
  <2>1. \A a : Thingy!Type(a) = Type(a)
    BY DEF Thingy!Type, Type
  <2>2. \A x, y, k : Thingy!HandlesWhere(dv, x, y, k) = HandlesWhere(dv, x, y, k)
    BY Zenon DEF Thingy!HandlesWhere, HandlesWhere, Thingy!Chosen, Chosen
  <2>3. \A x, y : Thingy!DescsIn(dv, x, y) = DescsIn(dv, x, y)
    BY <2>1, <2>2 DEF Thingy!DescsIn, DescsIn
  <2>4. Thingy!Declarations = Declarations
    BY DEF Thingy!Declarations, Declarations
  <2>5. \A x, y : Thingy!Chosen(x, y) = Chosen(x, y)
    BY Zenon DEF Thingy!Chosen, Chosen
  <2>6. \A x : Thingy!OwnDescs(x) = OwnDescs(x)
    BY <2>4, <2>5, Zenon DEF Thingy!OwnDescs, OwnDescs
  <2>7. /\ \A v, n : Thingy!Got(m, n, v) = Got(m, n, v) /\ Thingy!Raised(m) = Raised(m)
        /\ \A v, n : Thingy!Got([m EXCEPT !.svcs[s].chars[c].descs = v], n, v) =
                      Got([m EXCEPT !.svcs[s].chars[c].descs = v], n, v)
    BY Zenon DEF Thingy!Got, Got, Thingy!Raised, Raised
  <2> QED BY <2>3, <2>6, <2>7, Zenon DEF Thingy!CharDescriptors, CharDescriptors
<1>4. Thingy!DbNow = DbNow
  BY Zenon DEF Thingy!DbNow, DbNow, Thingy!Db, Db
<1> QED BY <1>1, <1>2, <1>3, <1>4

-----------------------------------------------------------------------------
(* What is remembered is of the one device met, through every call.         *)

AnyDevice == Devices \cup Thingies \cup Tags

MemInv ==
  /\ conn # "none" => conn \in seen /\ conn \in AnyDevice
  /\ Memory(mem)
  /\ \A d \in AnyDevice : seen \subseteq {d} => MemOk(Database[d], mem)

LEMMA Remembered == MemInv => RemembersTheDevice
<1> SUFFICES ASSUME MemInv, NEW d \in Devices, OneDevice(d), NEW i \in DOMAIN mem.svcs
             PROVE LET dv == Database[d]  s == mem.svcs[i] IN
    /\ s.hndStart \in Starts(dv) /\ s.hndEnd = EndOf(dv, s.hndStart) /\ s.uuid = dv[s.hndStart].uuid
    /\ s.chars = <<>> \/ {c.valHandle : c \in {s.chars[k] : k \in DOMAIN s.chars}} =
                            {h \in s.hndStart .. s.hndEnd : dv[h].kind = "value"}
    /\ \A k \in DOMAIN s.chars : s.chars[k].descs = <<>> \/
         \E e \in Given : {s.chars[k].descs[n].handle : n \in DOMAIN s.chars[k].descs} =
                           {h \in Belong(dv, s.chars[k].valHandle) : h <= e}
    /\ s.descs = <<>> \/ {s.descs[n].handle : n \in DOMAIN s.descs} =
                            {h \in s.hndStart + 1 .. s.hndEnd : dv[h].kind # "char"}
  BY Zenon DEF RemembersTheDevice
<1> DEFINE dv == Database[d]  s == mem.svcs[i]
<1>1. SvcOk(dv, s)
  BY DEF MemInv, MemOk, OneDevice, AnyDevice
<1> HIDE DEF dv, s
<1>2. \A list : {list[n].handle : n \in DOMAIN list} = {x.handle : x \in Values(list)}
  <2> TAKE list
  <2>1. \A n \in DOMAIN list : list[n] \in Values(list)
    BY DEF Values
  <2>2. \A x \in Values(list) : \E n \in DOMAIN list : x = list[n]
    BY DEF Values
  <2> QED BY <2>1, <2>2
<1>3. s.chars = <<>> \/ {c.valHandle : c \in {s.chars[k] : k \in DOMAIN s.chars}} =
                            {h \in s.hndStart .. s.hndEnd : dv[h].kind = "value"}
  BY <1>1, Zenon DEF SvcOk, Values, ValuesIn
<1>4. ASSUME NEW k \in DOMAIN s.chars
      PROVE  s.chars[k].descs = <<>> \/
         \E e \in Given : {s.chars[k].descs[n].handle : n \in DOMAIN s.chars[k].descs} =
                           {h \in Belong(dv, s.chars[k].valHandle) : h <= e}
  <2>1. s.chars[k] \in Values(s.chars)
    BY DEF Values
  <2>2. CharOk(dv, s.chars[k])
    BY <1>1, <2>1 DEF SvcOk
  <2> QED BY <1>2, <2>2, Zenon DEF CharOk, DescsAre, UpTo
<1>5. s.descs = <<>> \/ {s.descs[n].handle : n \in DOMAIN s.descs} = InService(dv, s.hndStart, s.hndEnd)
  BY <1>1, <1>2, Zenon DEF SvcOk, DescsAre
<1>6. InService(dv, s.hndStart, s.hndEnd) = {h \in s.hndStart + 1 .. s.hndEnd : dv[h].kind # "char"}
  BY DEF InService
<1>7. s.hndStart \in Starts(dv) /\ s.hndEnd = EndOf(dv, s.hndStart) /\ s.uuid = dv[s.hndStart].uuid
  BY <1>1, Zenon DEF SvcOk
<1> QED BY <1>3, <1>4, <1>5, <1>6, <1>7, Zenon DEF dv, s

\* The memory after some calls on the connection there is.
Sound(m) == m = mem \/ (conn # "none" /\ Keeps(Database[conn], mem, m))

LEMMA ConnDevice ==
  ASSUME MemInv, conn # "none"
  PROVE  WellFormed(Database[conn]) /\ DbNow = Database[conn] /\ conn \in AnyDevice
<1>1. conn \in AnyDevice
  BY DEF MemInv
<1> QED BY <1>1, LibrariesAssumption DEF AnyDevice, DbNow, Db

LEMMA SoundMore ==
  ASSUME MemInv, NEW m, Sound(m), NEW m2, m2 = m \/ (conn # "none" /\ Keeps(Database[conn], m, m2))
  PROVE  Sound(m2)
<1>1. CASE m2 = m
  BY <1>1
<1>2. CASE conn # "none" /\ Keeps(Database[conn], m, m2)
  <2>1. Keeps(Database[conn], mem, m)
    BY KeepsSame DEF Sound, MemInv
  <2> QED BY <1>2, <2>1 DEF Sound, Keeps
<1> QED BY <1>1, <1>2

\* Every method keeps it, with the answers that the connection allows.
LEMMA MethodsKeep ==
  ASSUME MemInv, NEW m, Sound(m), NEW left, conn = "none" => left = 0
  PROVE  /\ Sound(DiscoverServices(m, DbNow, left).mem) /\ Sound(GetServices(m, DbNow, left).mem)
         /\ \A u : Sound(GetServiceByUUID(m, DbNow, left, u).mem)
         /\ \A s : Sound(GetCharacteristics(m, DbNow, left, s).mem)
         /\ \A s : Sound(ServiceDescriptors(m, DbNow, left, s).mem)
         /\ \A s, c : \A e \in Given : Sound(CharDescriptors(m, DbNow, left, s, c, e).mem)
<1>1. CASE conn = "none"
  BY <1>1, NotAnswered
<1>2. CASE conn # "none"
  <2>1. WellFormed(Database[conn]) /\ DbNow = Database[conn]
    BY <1>2, ConnDevice
  <2>2. Memory(m)
    BY DEF Sound, Keeps, MemInv
  <2>3. \A m2 : Keeps(Database[conn], m, m2) => Sound(m2)
    BY <1>2, SoundMore
  <2> QED BY <2>1, <2>2, <2>3, DiscoverKeeps, GetServicesKeeps, ByUuidKeeps, CharsKeep, ServiceDescsKeep, CharDescsKeep
<1> QED BY <1>1, <1>2

LEMMA SoundInv ==
  ASSUME MemInv, NEW m, Sound(m), mem' = m, conn' = conn, seen' = seen
  PROVE  MemInv'
<1>1. CASE m = mem
  BY <1>1 DEF MemInv
<1>2. CASE conn # "none" /\ Keeps(Database[conn], mem, m)
  <2>1. ASSUME NEW d \in AnyDevice, seen \subseteq {d} PROVE MemOk(Database[d], m)
    <3>1. d = conn
      BY <1>2, <2>1 DEF MemInv
    <3>2. MemOk(Database[d], mem)
      BY <2>1 DEF MemInv
    <3> QED BY <1>2, <3>1, <3>2 DEF Keeps
  <2>2. Memory(m)
    BY <1>2 DEF Keeps
  <2> QED BY <2>1, <2>2 DEF MemInv
<1> QED BY <1>1, <1>2 DEF Sound

LEMMA MeetInv ==
  ASSUME MemInv, NEW d \in AnyDevice, conn' = d, seen' = seen \cup {d}, mem' = mem \/ mem' = NoMemory
  PROVE  MemInv'
<1>1. Memory(mem') /\ (mem' = NoMemory => \A dv : MemOk(dv, mem'))
  BY NothingRemembered DEF MemInv
<1>2. ASSUME NEW e \in AnyDevice, seen' \subseteq {e} PROVE MemOk(Database[e], mem')
  BY <1>1, <1>2 DEF MemInv
<1> QED BY <1>1, <1>2 DEF MemInv

LEMMA DisconnectInv == MemInv /\ Disconnect => MemInv'
BY DEF MemInv, Disconnect

\* The calls of btle.py.
LEMMA AttrStep == MemInv /\ AttrNext => MemInv'
<1> SUFFICES ASSUME MemInv, AttrNext PROVE MemInv'
  OBVIOUS
<1>1. Sound(mem)
  BY DEF Sound
<1>2. ASSUME NEW d \in Devices, Connect(d) PROVE MemInv'
  BY <1>2, MeetInv DEF Connect, AnyDevice
<1>3. CASE Disconnect
  BY <1>3, DisconnectInv
<1>4. CASE AskServices
  <2>1. PICK left \in LeftToAnswer :
          \/ Remember(DiscoverServices(mem, DbNow, left))
          \/ Remember(GetServices(mem, DbNow, left))
          \/ \E u \in ServiceUuids : Remember(GetServiceByUUID(mem, DbNow, left, u))
    BY <1>4, Zenon DEF AskServices
  <2>2. conn = "none" => left = 0
    BY DEF LeftToAnswer
  <2>3. \E r : Sound(r.mem) /\ Remember(r)
    BY <1>1, <2>1, <2>2, MethodsKeep
  <2> QED BY <2>3, SoundInv DEF Remember
<1>5. CASE AskInside
  <2>1. PICK left \in LeftToAnswer, s \in DOMAIN mem.svcs :
          \/ Remember(GetCharacteristics(mem, DbNow, left, s))
          \/ Remember(ServiceDescriptors(mem, DbNow, left, s))
          \/ \E c \in DOMAIN mem.svcs[s].chars, e \in Given : Remember(CharDescriptors(mem, DbNow, left, s, c, e))
    BY <1>5, Zenon DEF AskInside
  <2>2. conn = "none" => left = 0
    BY DEF LeftToAnswer
  <2>3. \E r : Sound(r.mem) /\ Remember(r)
    BY <1>1, <2>1, <2>2, MethodsKeep
  <2> QED BY <2>3, SoundInv DEF Remember
<1> QED BY <1>2, <1>3, <1>4, <1>5 DEF AttrNext

\* The sensors of sensortag.py.
LEMMA TagFinds ==
  ASSUME MemInv, SameTag, NEW left \in LeftToAnswer,
         \/ \E u : mem' = GetServiceByUUID(mem, DbNow, left, u).mem
         \/ \E s : mem' = GetCharacteristics(mem, DbNow, left, s).mem
         \/ \E s : mem' = ServiceDescriptors(mem, DbNow, left, s).mem
  PROVE  MemInv'
<1>1. Sound(mem) /\ (conn = "none" => left = 0)
  BY DEF Sound, LeftToAnswer
<1>2. Sound(mem')
  BY <1>1, MethodsKeep
<1> QED BY <1>2, SoundInv DEF SameTag

LEMMA SameMem ==
  ASSUME MemInv, mem' = mem, conn' = conn, seen' = seen
  PROVE  MemInv'
BY DEF MemInv

LEMMA FindCharInv ==
  ASSUME MemInv, NEW field, NEW uuid, NEW next, FindChar(field, uuid, next)
  PROVE  MemInv'
<1>1. SameTag
  BY DEF FindChar
<1>2. mem' = mem \/ \E left \in LeftToAnswer : mem' = GetCharacteristics(mem, DbNow, left, Part.service).mem
  BY Zenon DEF FindChar
<1> QED BY <1>1, <1>2, TagFinds, SameMem DEF SameTag

LEMMA EnableStepInv ==
  ASSUME MemInv, EnableStep
  PROVE  MemInv'
<1>1. CASE FindService
  <2>1. SameTag
    BY <1>1 DEF FindService
  <2>2. mem' = mem \/ \E left \in LeftToAnswer : mem' = GetServiceByUUID(mem, DbNow, left, Mine(X).svc).mem
    BY <1>1, Zenon DEF FindService
  <2> QED BY <2>1, <2>2, TagFinds, SameMem DEF SameTag
<1>2. CASE FindDescr
  <2>1. SameTag
    BY <1>2 DEF FindDescr
  <2>2. \E left \in LeftToAnswer : mem' = ServiceDescriptors(mem, DbNow, left, Part.service).mem
    BY <1>2, Zenon DEF FindDescr
  <2> QED BY <2>1, <2>2, TagFinds
<1>3. CASE SwitchOn \/ SwitchBits \/ AskCoefficients \/ ReadCoefficients \/ NoSwitch
  <2>1. SameTag /\ mem' = mem
    BY <1>3 DEF SwitchOn, SwitchBits, AskCoefficients, ReadCoefficients, NoSwitch
  <2> QED BY <2>1, SameMem DEF SameTag
<1> QED BY <1>1, <1>2, <1>3, FindCharInv DEF EnableStep

LEMMA NewTagInv ==
  ASSUME MemInv, NEW d \in Tags, NEW told, NewTag(d, told)
  PROVE  MemInv'
<1>1. PICK left \in 0 .. 3 :
        \/ UNCHANGED attrVars
        \/ /\ conn' = d /\ seen' = {d}
           /\ mem' = NoMemory \/ mem' = DiscoverServices(NoMemory, Database[d], left).mem
  BY Zenon DEF NewTag, Got
<1>2. d \in AnyDevice /\ WellFormed(Database[d])
  BY LibrariesAssumption DEF AnyDevice
<1>3. CASE UNCHANGED attrVars
  BY <1>3, SameMem DEF attrVars
<1>4. CASE /\ conn' = d /\ seen' = {d}
           /\ mem' = NoMemory \/ mem' = DiscoverServices(NoMemory, Database[d], left).mem
  <2>1. Keeps(Database[d], NoMemory, mem')
    BY <1>2, <1>4, NothingRemembered, DiscoverKeeps, KeepsSame
  <2>2. Memory(mem') /\ MemOk(Database[d], mem')
    BY <2>1, NothingRemembered DEF Keeps
  <2> QED BY <1>2, <1>4, <2>2 DEF MemInv
<1> QED BY <1>1, <1>3, <1>4

LEMMA TagStep == MemInv /\ TagNext => MemInv'
<1> SUFFICES ASSUME MemInv, TagNext PROVE MemInv'
  OBVIOUS
<1>1. ASSUME NEW d \in Tags, Reach(d) PROVE MemInv'
  BY <1>1, MeetInv DEF Reach, Connect, AnyDevice
<1>2. ASSUME NEW d \in Tags, NEW told, NewTag(d, told) PROVE MemInv'
  BY <1>2, NewTagInv
<1>3. CASE Leave
  BY <1>3, DisconnectInv DEF Leave
<1>4. CASE Drop
  BY <1>4, NothingRemembered DEF Drop, MemInv
<1>5. ASSUME NEW x, Enable(x) \/ Disable(x) PROVE MemInv'
  BY <1>5, SameMem DEF Enable, Disable, SameTag
<1>6. CASE EnableStep
  BY <1>6, EnableStepInv
<1>7. CASE SwitchOff
  <2>1. SameTag /\ mem' = mem
    BY <1>7 DEF SwitchOff
  <2> QED BY <2>1, SameMem DEF SameTag
<1> QED BY <1>1, <1>2, <1>3, <1>4, <1>5, <1>6, <1>7 DEF TagNext

\* The classes of thingy52.py: what enable() does to the memory.
LEMMA ThingyFindService ==
  ASSUME MemInv, NEW left, conn = "none" => left = 0
  PROVE  Sound(Thingy!FindService(Thingy!Call(left)).mem)
<1> DEFINE k == Thingy!Call(left)
           r == GetServiceByUUID(k.mem, DbNow, k.left, Thingy!Class.uuid)
<1>1. k.mem = mem /\ k.left = left /\ "mem" \in DOMAIN k /\ "ok" \in DOMAIN k /\ "object" \in DOMAIN k
  BY DEF Thingy!Call
<1> HIDE DEF k
<1>2. Sound(k.mem) /\ Sound(r.mem)
  <2>1. Sound(k.mem) /\ (conn = "none" => k.left = 0)
    BY <1>1 DEF Sound
  <2> QED BY <2>1, MethodsKeep
<1>3. Thingy!FindService(k) = IF k.object.service # 0 THEN k
        ELSE [k EXCEPT !.ok = r.ok, !.mem = r.mem, !.object.service = IF r.ok THEN r.val ELSE 0]
  <2>1. r = Thingy!GetServiceByUUID(k.mem, Thingy!DbNow, k.left, Thingy!Class.uuid)
    BY ThingyMethods
  <2> HIDE DEF r
  <2> QED BY <2>1, Zenon DEF Thingy!FindService
<1> HIDE DEF r
<1>4. \A o : [k EXCEPT !.ok = r.ok, !.mem = r.mem, !.object.service = o].mem = r.mem
  BY <1>1
<1> QED BY <1>2, <1>3, <1>4 DEF k

LEMMA ThingyFindCccd ==
  ASSUME MemInv, NEW k, "mem" \in DOMAIN k, Sound(k.mem), conn = "none" => k.left = 0,
         NEW name, NEW s, NEW c
  PROVE  Sound(Thingy!FindCccd(k, name, s, c).mem)
<1> DEFINE d == CharDescriptors(k.mem, DbNow, k.left, s, c, LastHandle)
<1>1. Sound(d.mem)
  <2>1. LastHandle \in Given
    BY DEF Given
  <2> QED BY <2>1, MethodsKeep
<1>2. d = Thingy!CharDescriptors(k.mem, Thingy!DbNow, k.left, s, c, Thingy!LastHandle)
  <2>1. Thingy!LastHandle = LastHandle
    BY DEF Thingy!LastHandle, LastHandle
  <2> QED BY <2>1, ThingyMethods
<1>3. Thingy!FindCccd(k, name, s, c).mem = d.mem
  <2>1. \/ \E x : Thingy!FindCccd(k, name, s, c) = [k EXCEPT !.mem = d.mem, !.object.cccds = x]
        \/ \E x : Thingy!FindCccd(k, name, s, c) = [k EXCEPT !.mem = d.mem, !.ok = FALSE, !.cut = x]
    BY <1>2, Zenon DEF Thingy!FindCccd
  <2> HIDE DEF d
  <2> QED BY <2>1
<1> QED BY <1>1, <1>3

LEMMA NoneLeft ==
  ASSUME NEW m, NEW dv, NEW s
  PROVE  GetCharacteristics(m, dv, 0, s).left = 0
<1>1. \A v, n : Got(m, n, v).left = n
  BY DEF Got
<1>2. Raised(m).left = 0
  BY DEF Raised
<1> QED BY <1>1, <1>2, Zenon DEF GetCharacteristics

LEMMA ThingyFindChar ==
  ASSUME MemInv, NEW left, conn = "none" => left = 0, NEW c
  PROVE  Sound(Thingy!FindChar(Thingy!Call(left), c).mem)
<1> DEFINE k == Thingy!Call(left)  s == k.object.service
           r == GetCharacteristics(k.mem, DbNow, k.left, s)
           f == Thingy!FindChar(k, c)
<1>1. k.mem = mem /\ k.left = left /\ {"mem", "left", "ok", "object", "handles"} \subseteq DOMAIN k
  BY DEF Thingy!Call
<1> HIDE DEF k
<1>2. Sound(k.mem) /\ Sound(r.mem)
  <2>1. Sound(k.mem) /\ (conn = "none" => k.left = 0)
    BY <1>1 DEF Sound
  <2> QED BY <2>1, MethodsKeep
<1>3. conn = "none" => r.left = 0
  <2>1. GetCharacteristics(k.mem, DbNow, 0, s).left = 0
    BY ONLY NoneLeft
  <2>2. conn = "none" => k.left = 0
    BY <1>1
  <2> QED BY <2>1, <2>2
<1>4. r = Thingy!GetCharacteristics(k.mem, Thingy!DbNow, k.left, s)
  BY ThingyMethods
<1> HIDE DEF r
<1>5. \/ f = k
      \/ f = [k EXCEPT !.mem = r.mem, !.ok = FALSE]
      \/ \E x : f = [k EXCEPT !.mem = r.mem, !.left = r.left, !.object.chars = x]
      \/ \E x, y, i : f = Thingy!FindCccd([[k EXCEPT !.mem = r.mem, !.left = r.left, !.object.chars = x]
                                             EXCEPT !.handles = y], c.name, s, i)
  BY <1>4, Zenon DEF Thingy!FindChar
<1>6. CASE f = k \/ f = [k EXCEPT !.mem = r.mem, !.ok = FALSE]
  BY <1>1, <1>2, <1>6 DEF k
<1>7. CASE \E x : f = [k EXCEPT !.mem = r.mem, !.left = r.left, !.object.chars = x]
  BY <1>1, <1>2, <1>7 DEF k
<1>8. ASSUME NEW x, NEW y, NEW i,
             f = Thingy!FindCccd([[k EXCEPT !.mem = r.mem, !.left = r.left, !.object.chars = x]
                                     EXCEPT !.handles = y], c.name, s, i)
      PROVE  Sound(f.mem)
  <2> DEFINE k2 == [[k EXCEPT !.mem = r.mem, !.left = r.left, !.object.chars = x] EXCEPT !.handles = y]
  <2>1. k2.mem = r.mem /\ k2.left = r.left /\ "mem" \in DOMAIN k2
    BY <1>1
  <2>2. f = Thingy!FindCccd(k2, c.name, s, i)
    BY <1>8
  <2> HIDE DEF k2, f
  <2> QED BY <1>2, <1>3, <2>1, <2>2, ThingyFindCccd
<1> QED BY <1>5, <1>6, <1>7, <1>8 DEF k

LEMMA ThingyStep == MemInv /\ Thingy!ThingyNext => MemInv'
<1> SUFFICES ASSUME MemInv, Thingy!ThingyNext PROVE MemInv'
  OBVIOUS
<1>1. ASSUME NEW d \in Thingies, Thingy!Reach(d) PROVE MemInv'
  <2>1. conn' = d /\ seen' = seen \cup {d} /\ (mem' = mem \/ mem' = NoMemory) /\ d \in AnyDevice
    BY <1>1 DEF Thingy!Reach, Thingy!NoMemory, NoMemory, AnyDevice
  <2> QED BY <2>1, MeetInv
<1>2. CASE Thingy!Leave
  BY <1>2, DisconnectInv DEF Thingy!Leave, Thingy!Disconnect, Disconnect
<1>3. \A left \in Thingy!Lefts : conn = "none" => left = 0
  BY DEF Thingy!Lefts
<1>4. CASE Thingy!Enable
  <2>1. PICK left \in Thingy!Lefts : Thingy!Does(Thingy!FindService(Thingy!Call(left)), 1)
    BY <1>4, Zenon DEF Thingy!Enable
  <2>2. Sound(Thingy!FindService(Thingy!Call(left)).mem)
    BY <1>3, ThingyFindService
  <2>3. mem' = Thingy!FindService(Thingy!Call(left)).mem /\ conn' = conn /\ seen' = seen
    BY <2>1 DEF Thingy!Does
  <2> QED BY <2>2, <2>3, SoundInv
<1>5. CASE Thingy!EnableChar
  <2>1. PICK left \in Thingy!Lefts : Thingy!Does(Thingy!FindChar(Thingy!Call(left), Thingy!Class.order[place]), place + 1)
    BY <1>5, Zenon DEF Thingy!EnableChar
  <2>2. Sound(Thingy!FindChar(Thingy!Call(left), Thingy!Class.order[place]).mem)
    BY <1>3, ThingyFindChar
  <2>3. mem' = Thingy!FindChar(Thingy!Call(left), Thingy!Class.order[place]).mem /\ conn' = conn /\ seen' = seen
    BY <2>1 DEF Thingy!Does
  <2> QED BY <2>2, <2>3, SoundInv
<1>6. CASE Thingy!Disable
  BY <1>6, SameMem DEF Thingy!Disable, Thingy!Others
<1>7. ASSUME NEW x, NEW state, Thingy!SetNotification(x, state) PROVE MemInv'
  BY <1>7, SameMem DEF Thingy!SetNotification, Thingy!Others
<1>8. ASSUME NEW x, NEW v, Thingy!Configure(x, v) PROVE MemInv'
  BY <1>8, SameMem DEF Thingy!Configure, Thingy!Others
<1> QED BY <1>1, <1>2, <1>4, <1>5, <1>6, <1>7, <1>8 DEF Thingy!ThingyNext

LEMMA LibrariesMem == MemInv /\ [HelperSide \/ PythonSide]_librariesVars => MemInv'
<1> SUFFICES ASSUME MemInv, [HelperSide \/ PythonSide]_librariesVars PROVE MemInv'
  OBVIOUS
<1>1. CASE AttrNext
  BY <1>1, AttrStep
<1>2. CASE Thingy!ThingyNext
  BY <1>2, ThingyStep
<1>3. CASE TagNext
  BY <1>3, TagStep
<1>4. CASE UNCHANGED attrVars
  BY <1>4, SameMem DEF attrVars
<1> QED BY <1>1, <1>2, <1>3, <1>4 DEF HelperSide, PythonSide, PeripheralsNext, librariesVars, peripheralVars

LEMMA MemInit == LibrariesInit => MemInv
BY NothingRemembered DEF LibrariesInit, PeripheralsInit, TagInit, AttrInit, MemInv

\* As long as the Python object has met one device only, whatever it remembers is of
\* that device: each service's range, all of its characteristics or none, and of each
\* the descriptors that are its own or none, whatever calls raised half way, of btle.py
\* and of the classes that thingy52.py and sensortag.py build on it.
THEOREM RemembersTheDeviceAlways == LibrariesSpec => []RemembersTheDevice
<1> QED BY MemInit, LibrariesMem, Remembered, PTL DEF LibrariesSpec
=============================================================================
