------------------------------ MODULE MCBearer ------------------------------
(* The bearer of one connection, for TLC.                                    *)
EXTENDS AttBearer, TLC

OpcodeSymmetry == Permutations(Opcode)

\* bound: PDUs on the air
MCAir == Len(tx) + Len(rx) <= 2
=============================================================================
