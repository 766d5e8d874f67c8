---------------------------- MODULE MCUsbReceive ----------------------------
(* UsbReceive on small instances.  A USB packet takes two messages and the *)
(* payload buffer two USB packets: payloads are shorter than a packet, as  *)
(* long as one, longer, or fill the buffer.                                *)
EXTENDS UsbReceive

=============================================================================
