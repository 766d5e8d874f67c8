----------------------------- MODULE MCAdbOpen ------------------------------
(* AdbOpen on small instances; the threads are model values.               *)
EXTENDS AdbOpen, TLC
=============================================================================
