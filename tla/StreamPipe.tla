----------------------------- MODULE StreamPipe -----------------------------
(***************************************************************************)
(* What one direction of an adb stream promises its user: payloads come    *)
(* out in the order in which they were accepted, each at most once, and    *)
(* none that was not accepted.  AdbStream implements it for the payloads   *)
(* written to an AdbOStream (src/include/streams/AdbOStream.hpp).          *)
(***************************************************************************)
EXTENDS Sequences, Naturals

CONSTANT Payload

VARIABLES accepted,   \* the payloads the stream took, oldest first
          delivered   \* the payloads that came out, oldest first

pipeVars == <<accepted, delivered>>

Init == /\ accepted = <<>>
        /\ delivered = <<>>

(* The stream takes a payload.                                             *)
Accept == \E p \in Payload : /\ accepted' = Append(accepted, p)
                             /\ UNCHANGED delivered

(* The oldest payload that is still inside comes out.                      *)
Deliver == /\ Len(delivered) < Len(accepted)
           /\ delivered' = Append(delivered, accepted[Len(delivered) + 1])
           /\ UNCHANGED accepted

Next == Accept \/ Deliver

Spec == Init /\ [][Next]_pipeVars
=============================================================================
