------------------------------- MODULE MCScan -------------------------------
(***************************************************************************)
(* Scanner for TLC: the names of the address types do not matter.           *)
(***************************************************************************)
EXTENDS Scanner, TLC

AddrTypeSymmetry == Permutations(AddrType)
=============================================================================
