---------------------------- MODULE Transactions ----------------------------
(***************************************************************************)
(* What a channel of numbered transactions promises its user, whoever       *)
(* implements it: a transaction waits its turn, at most one is under way,   *)
(* the oldest goes first, one that is tried again keeps its turn, and one   *)
(* that has ended never comes back.                                         *)
(*                                                                          *)
(* Numbers grow and are shared with other users, so that "issued" also      *)
(* moves without a transaction of this channel.                             *)
(***************************************************************************)
EXTENDS Naturals, Sequences

VARIABLES waiting,  \* numbers that wait, oldest first
          flying,   \* the number under way, if any
          issued    \* the last number given to anybody

channel == <<waiting, flying, issued>>

ChannelTypeOK ==
  /\ waiting \in Seq(Nat)
  /\ flying \in SUBSET Nat
  /\ issued \in Nat

ChannelInit == waiting = <<>> /\ flying = {} /\ issued = 0

Numbered == issued' \in Nat /\ issued' >= issued

\* a new one, with a number nobody had before
Submitted == \E i \in (issued + 1) .. issued' : waiting' = Append(waiting, i)

Submit == Numbered /\ Submitted /\ UNCHANGED flying

\* the number went to another user
Pass == Numbered /\ UNCHANGED <<waiting, flying>>

Start ==
  /\ waiting # <<>> /\ flying = {}
  /\ flying' = {Head(waiting)} /\ waiting' = Tail(waiting)
  /\ UNCHANGED issued

\* it goes back to the head of the line
Again ==
  /\ flying # {}
  /\ flying' = {}
  /\ \E i \in flying : waiting' = <<i>> \o waiting
  /\ UNCHANGED issued

\* whoever is told of the end may submit the next one at once
Finish ==
  /\ flying # {} /\ flying' = {}
  /\ Numbered
  /\ UNCHANGED waiting \/ Submitted

\* t is s with some of its elements left out
Thinned(s, t) ==
  \E f \in [DOMAIN t -> DOMAIN s] :
    /\ \A i, j \in DOMAIN t : i < j => f[i] < f[j]
    /\ \A i \in DOMAIN t : t[i] = s[f[i]]

\* some are taken back or end before their turn, all of them if the channel closes
Withdraw ==
  /\ Thinned(waiting, waiting')
  /\ flying' \subseteq flying
  /\ UNCHANGED issued

ChannelNext == Submit \/ Pass \/ Start \/ Again \/ Finish \/ Withdraw

ChannelSpec == ChannelInit /\ [][ChannelNext]_channel
=============================================================================
