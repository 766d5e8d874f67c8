----------------------------- MODULE StreamLife -----------------------------
(***************************************************************************)
(* What AdbDevice::open() promises of each stream: it returns once; it     *)
(* says refused only after the device has closed the stream, and returns   *)
(* the id of the device's side only after the device has accepted; a       *)
(* stream that was returned is open, and gets closed only by the           *)
(* application or after the device has closed it.  A call that woke up for *)
(* no reason may return a stream without such an id.                       *)
(***************************************************************************)
CONSTANTS Ids, RemoteOf(_), Unanswered

VARIABLES answer,      \* of the device: "none", "accepted", "refused", "ended"
          result,      \* of open(): "none", "refused", "opened"
          remote,      \* the remote id of the stream that was returned
          hasty,       \* streams whose open() woke up for no reason
          shut,        \* streams that were returned, and closed
          left         \* streams that the application has closed

vars == <<answer, result, remote, hasty, shut, left>>

Init == /\ answer = [id \in Ids |-> "none"]
        /\ result = [id \in Ids |-> "none"] /\ remote = [id \in Ids |-> Unanswered]
        /\ hasty = {} /\ shut = {} /\ left = {}

Answer(id) ==
    /\ \/ answer[id] = "none" /\ \E a \in {"accepted", "refused"} : answer' = [answer EXCEPT ![id] = a]
       \/ answer[id] = "accepted" /\ answer' = [answer EXCEPT ![id] = "ended"]
    /\ UNCHANGED <<result, remote, hasty, shut, left>>

WakeEarly(id) == /\ result[id] = "none" /\ hasty' = hasty \cup {id}
                 /\ UNCHANGED <<answer, result, remote, shut, left>>

Refuse(id) == /\ result[id] = "none" /\ answer[id] \in {"refused", "ended"}
              /\ result' = [result EXCEPT ![id] = "refused"]
              /\ UNCHANGED <<answer, remote, hasty, shut, left>>

Return(id) ==
    /\ result[id] = "none"
    /\ result' = [result EXCEPT ![id] = "opened"]
    /\ \/ answer[id] \in {"accepted", "ended"} /\ remote' = [remote EXCEPT ![id] = RemoteOf(id)]
       \/ id \in hasty /\ UNCHANGED remote
    /\ UNCHANGED <<answer, hasty, shut, left>>

Shut(id) == /\ result[id] = "opened"
            /\ \/ answer[id] \in {"refused", "ended"} /\ UNCHANGED left
               \/ left' = left \cup {id}
            /\ shut' = shut \cup {id}
            /\ UNCHANGED <<answer, result, remote, hasty>>

Next == \E id \in Ids : Answer(id) \/ WakeEarly(id) \/ Refuse(id) \/ Return(id) \/ Shut(id)

Spec == Init /\ [][Next]_vars
=============================================================================
