------------------------------ MODULE MCUsbSend -----------------------------
(* UsbSend on a small instance: packets with and without payload that two  *)
(* transports send.                                                        *)
EXTENDS UsbSend

CONSTANTS p1, p2, p3, t1, t2

OnTwo == [p \in Packets |-> IF p = p1 THEN t1 ELSE t2]
=============================================================================
