-------------------------------- MODULE Gatt --------------------------------
(* The procedures of attrib/gatt.c that bluepy-helper.c uses, one at a time: *)
(* a walk over the peer's attributes, or a value read or written.  Values    *)
(* come after the walks that found them, and a new connection begins with    *)
(* walks again.                                                              *)
EXTENDS Discovery, LongValue

gattVars == << discoveryVars, valueVars >>

NoValueYet ==
  /\ count = 0 /\ proc = Idle /\ peerAsked = 0 /\ toPeer = << >> /\ toUs = << >>
  /\ stored = [h \in Attrs |-> << >>]

GattInit == DiscoveryInit /\ ValueInit

WalkStep == NoValueYet /\ DiscoveryNext /\ UNCHANGED valueVars
ValueStep == walk = NoWalk /\ ValueNext /\ UNCHANGED discoveryVars

GattNext == WalkStep \/ ValueStep

(* Packets arrive, and a request ends: the peer answers it, its time-out    *)
(* passes, or the link goes down.                                           *)
GattFairSpec ==
  /\ GattInit /\ [][GattNext]_gattVars
  /\ WF_gattVars(PeerTalks /\ UNCHANGED valueVars)
  /\ WF_gattVars(Receive /\ UNCHANGED discoveryVars)
  /\ WF_gattVars(PeerTakes /\ UNCHANGED discoveryVars)
=============================================================================
