------------------------------ MODULE MCHelper ------------------------------
(* The helper under any client, for TLC.  The addresses are interchangeable: *)
(* no action and no property compares them but for equality.                 *)
EXTENDS HelperOpen, TLC

AddrSymmetry == Permutations(Addr)
=============================================================================
