----------------------------- MODULE MCAPacket ------------------------------
(* APacket with few buffers and variables, which are interchangeable.      *)
EXTENDS APacket, TLC

CONSTANTS b1, b2, b3, o1, o2

Symmetry == Permutations(Buffers) \cup Permutations(Locals)
=============================================================================
