---------------------------- MODULE MCAdbStream -----------------------------
(* AdbStream on small instances; the payloads and the threads are model    *)
(* values.                                                                 *)
EXTENDS AdbStream, TLC

(* Payloads are only compared, and so are the threads: the runs without    *)
(* liveness may permute them.                                              *)
Symmetry == Permutations(Payload) \cup Permutations(Writers) \cup Permutations(Readers)
=============================================================================
