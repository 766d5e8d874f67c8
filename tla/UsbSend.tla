------------------------------- MODULE UsbSend ------------------------------
(***************************************************************************)
(* The sending half of UsbTransport (src/src/UsbTransport.cpp): send(),    *)
(* which submits the message of a packet and then its payload, and the two *)
(* callbacks, which libusb's event thread runs when a transfer ends.       *)
(*                                                                         *)
(* A packet stands for the call of send() that takes it, on a thread of    *)
(* its own.  Such a call holds mSendMutex of its transport throughout, and *)
(* so does a callback, which holds the lock of its transfer before.  A     *)
(* step is what a thread does between two points where another one, or the *)
(* endpoint, can act.                                                      *)
(*                                                                         *)
(* External (libusb, ObjLibusb).  A transfer that was submitted ends once, *)
(* those of an endpoint in order unless cancelled, and its callback runs   *)
(* after that, under the lock of the transfer; submission and transfer     *)
(* may fail.                                                               *)
(***************************************************************************)
EXTENDS Sequences, Naturals, FiniteSets, SequencesExt

CONSTANTS Packets,        \* the packets to send
          WithPayload,    \* those with a payload
          Transports,     \* instances of UsbTransport
          TransportOf,    \* the transport of each packet
          SubmitFails,    \* kinds of transfer whose submission may fail
          Statuses        \* how a transfer may end, besides by cancel()

Kinds == {"message", "payload"}
AllStatuses == {"COMPLETED", "ERROR", "NO_DEVICE", "CANCELLED"}
Nobody == "nobody"
Event == "event"

ASSUME SendAssumption == /\ WithPayload \subseteq Packets
                         /\ TransportOf \in [Packets -> Transports]
                         /\ SubmitFails \subseteq Kinds
                         /\ Statuses \subseteq AllStatuses
                         /\ {Nobody, Event} \cap Packets = {}

VARIABLES
    transferId,           \* the static counter of send(), one for all transports
    mSendMutex,           \* who holds the mutex of a transport
    mSendTransfers,       \* packets with an entry in the map of their transport
    packId,               \* the key of the entry
    errorCode,            \* its error code
    callbackData,         \* the heap object that both callbacks get
    callbackId,           \* the transferId in it
    messageLock,          \* who holds the lock of the message transfer
    call,                 \* where send() is
    endpoint, done,       \* transfers in flight; ended, with the callback to come
    event,                \* the callback in progress, <<>> if none
    results,              \* history: what the listener was told of the packet
    wire,                 \* history: transfers submitted, by transport
    completed,            \* history: transfers that ended COMPLETED
    dangling              \* history: a callback used callbackData after its deletion

pool == <<mSendTransfers, packId, errorCode, callbackData, callbackId>>
usb  == <<endpoint, done, wire, completed>>
vars == <<transferId, mSendMutex, pool, messageLock, call, event, results, usb, dangling>>

ErrorCodes == {"OK", "CANCELLED", "TRANSPORT_DISCONNECTED", "UNDERLYING_ERROR"}
Transfers == [packet : Packets, kind : Kinds]
Transfer(p, k) == [packet |-> p, kind |-> k]
Ended(x, s) == [packet |-> x.packet, kind |-> x.kind, status |-> s]
EndedTransfers == [packet : Packets, kind : Kinds, status : AllStatuses]

TypeOK ==
    /\ transferId \in Nat
    /\ mSendMutex \in [Transports -> Packets \cup {Event, Nobody}]
    /\ mSendTransfers \subseteq Packets
    /\ packId \in [Packets -> Nat] /\ callbackId \in [Packets -> Nat]
    /\ errorCode \in [Packets -> ErrorCodes]
    /\ callbackData \in [Packets -> {"none", "live", "deleted"}]
    /\ messageLock \in [Packets -> {Event, Nobody}]
    /\ call \in [Packets -> {"none", "called", "emplaced", "submitted", "cancelling", "returned"}]
    /\ endpoint \in [Transports -> Seq(Transfers)] /\ done \in Seq(EndedTransfers)
    /\ event \in EndedTransfers \cup {<<>>}
    /\ results \in [Packets -> Seq(ErrorCodes \cup {"TRANSPORT_ERROR"})]
    /\ wire \in [Transports -> Seq(Transfers)] /\ completed \subseteq Transfers
    /\ dangling \subseteq Packets

Init ==
    /\ transferId = 0
    /\ mSendMutex = [t \in Transports |-> Nobody]
    /\ mSendTransfers = {}
    /\ packId = [p \in Packets |-> 0] /\ callbackId = [p \in Packets |-> 0]
    /\ errorCode = [p \in Packets |-> "OK"]
    /\ callbackData = [p \in Packets |-> "none"]
    /\ messageLock = [p \in Packets |-> Nobody]
    /\ call = [p \in Packets |-> "none"]
    /\ endpoint = [t \in Transports |-> <<>>] /\ done = <<>> /\ event = <<>>
    /\ results = [p \in Packets |-> <<>>]
    /\ wire = [t \in Transports |-> <<>>] /\ completed = {}
    /\ dangling = {}

-----------------------------------------------------------------------------
(* finishSendTransfer for a packet that has its entry: the callback data   *)
(* is deleted, the listener told the error code, the entry erased.         *)
finishSendTransferKept(p, code) ==
    /\ callbackData' = [callbackData EXCEPT ![p] = "deleted"]
    /\ results' = [results EXCEPT ![p] = Append(@, code)]
    /\ UNCHANGED mSendTransfers
finishSendTransfer(p, code) ==
    /\ callbackData' = [callbackData EXCEPT ![p] = "deleted"]
    /\ results' = [results EXCEPT ![p] = Append(@, code)]
    /\ mSendTransfers' = mSendTransfers \ {p}

(* ... and for one that has none.                                          *)
finishUnknownTransfer(p) ==
    /\ callbackData' = [callbackData EXCEPT ![p] = "deleted"]
    /\ results' = [results EXCEPT ![p] = Append(@, "TRANSPORT_ERROR")]
    /\ UNCHANGED mSendTransfers

Submit(p, k) ==
    LET t == TransportOf[p]
    IN  /\ endpoint' = [endpoint EXCEPT ![t] = Append(@, Transfer(p, k))]
        /\ wire' = [wire EXCEPT ![t] = Append(@, Transfer(p, k))]
        /\ UNCHANGED <<done, completed>>

(* cancel() takes a transfer that is in flight from the endpoint.          *)
Cancel(x) ==
    LET t == TransportOf[x.packet]
    IN  /\ \/ \E i \in DOMAIN endpoint[t] :
                  /\ endpoint[t][i] = x
                  /\ endpoint' = [endpoint EXCEPT ![t] = RemoveAt(@, i)]
                  /\ done' = Append(done, Ended(x, "CANCELLED"))
           \/ ~Contains(endpoint[t], x) /\ UNCHANGED <<endpoint, done>>
        /\ UNCHANGED <<wire, completed>>

Leave(p) == /\ call' = [call EXCEPT ![p] = "returned"]
            /\ mSendMutex' = [mSendMutex EXCEPT ![TransportOf[p]] = Nobody]

-----------------------------------------------------------------------------
(* send().                                                                 *)

(* A thread calls it, ...                                                  *)
SendCalled(p) ==
    /\ call[p] = "none"
    /\ call' = [call EXCEPT ![p] = "called"]
    /\ UNCHANGED <<transferId, mSendMutex, pool, messageLock, event, results, usb, dangling>>

(* ... gets the mutex, and makes an entry under a new id: ++transferId.    *)
(* The ids of one map differ, since no increment is lost here; the branch  *)
(* for an id that has an entry already is never taken and left out.        *)
SendEmplaces(p) ==
    /\ call[p] = "called"
    /\ mSendMutex[TransportOf[p]] = Nobody
    /\ mSendMutex' = [mSendMutex EXCEPT ![TransportOf[p]] = p]
    /\ transferId' = transferId + 1
    /\ packId' = [packId EXCEPT ![p] = transferId + 1]
    /\ mSendTransfers' = mSendTransfers \cup {p}
    /\ call' = [call EXCEPT ![p] = "emplaced"]
    /\ UNCHANGED <<errorCode, callbackData, callbackId, messageLock, event, results, usb, dangling>>

(* The callback data, with the id that the counter holds by now, and the   *)
(* message transfer.  A submission that fails finishes the packet.         *)
AfterMessageLocked(p) ==
    /\ call' = [call EXCEPT ![p] = IF p \in WithPayload THEN "submitted" ELSE "returned"]
    /\ UNCHANGED mSendMutex
AfterMessageUnlocked(p) ==
    /\ call' = [call EXCEPT ![p] = IF p \in WithPayload THEN "submitted" ELSE "returned"]
    /\ mSendMutex' = [mSendMutex EXCEPT ![TransportOf[p]] = Nobody]
AfterMessage(p) == IF p \in WithPayload
                   THEN call' = [call EXCEPT ![p] = "submitted"] /\ UNCHANGED mSendMutex
                   ELSE Leave(p)

SendSubmitsMessage(p) ==
    /\ call[p] = "emplaced"
    /\ callbackId' = [callbackId EXCEPT ![p] = transferId]
    /\ \/ /\ callbackData' = [callbackData EXCEPT ![p] = "live"]
          /\ Submit(p, "message")
          /\ AfterMessage(p)
          /\ UNCHANGED <<mSendTransfers, results>>
       \/ /\ "message" \in SubmitFails
          /\ finishSendTransfer(p, errorCode[p])
          /\ Leave(p)
          /\ UNCHANGED usb
    /\ UNCHANGED <<transferId, packId, errorCode, messageLock, event, dangling>>

SendSubmitsPayload(p) ==
    /\ call[p] = "submitted"
    /\ \/ Submit(p, "payload") /\ Leave(p)
       \/ /\ "payload" \in SubmitFails
          /\ call' = [call EXCEPT ![p] = "cancelling"]
          /\ UNCHANGED <<mSendMutex, usb>>
    /\ UNCHANGED <<transferId, pool, messageLock, event, results, dangling>>

(* The payload was not submitted: with the lock of the message transfer,   *)
(* that one is cancelled, and the packet is finished at once.              *)
SendCancels(p) ==
    /\ call[p] = "cancelling"
    /\ messageLock[p] = Nobody
    /\ Cancel(Transfer(p, "message"))
    /\ finishSendTransfer(p, errorCode[p])
    /\ Leave(p)
    /\ UNCHANGED <<transferId, packId, errorCode, callbackId, messageLock, event, dangling>>

-----------------------------------------------------------------------------
(* The event thread.                                                       *)

transferStatusToErrorCodeRaw(s) == s
transferStatusToErrorCode(s) == CASE s = "COMPLETED" -> "OK"
                                  [] s = "CANCELLED" -> "CANCELLED"
                                  [] s = "NO_DEVICE" -> "TRANSPORT_DISCONNECTED"
                                  [] OTHER           -> "UNDERLYING_ERROR"

(* A callback begins, with the lock of its transfer, and reads the         *)
(* callback data.  What follows if they were deleted is undefined: here it *)
(* finds in them what they held, or the program stops.                     *)
CallbackBegins ==
    /\ event = <<>> /\ done # <<>>
    /\ event' = Head(done) /\ done' = Tail(done)
    /\ LET x == Head(done)
       IN  /\ messageLock' = IF x.kind = "message"
                             THEN [messageLock EXCEPT ![x.packet] = Event] ELSE messageLock
           /\ dangling' = IF callbackData[x.packet] = "live" THEN dangling
                          ELSE dangling \cup {x.packet}
    /\ UNCHANGED <<transferId, mSendMutex, pool, call, results, endpoint, wire, completed>>

(* The rest of a callback runs with mSendMutex, and releases both.         *)
InCallback(p, k) ==
    /\ event # <<>> /\ event.packet = p /\ event.kind = k
    /\ mSendMutex[TransportOf[p]] = Nobody
    /\ event' = <<>>
    /\ messageLock' = IF k = "message" THEN [messageLock EXCEPT ![p] = Nobody] ELSE messageLock

Found(p) == p \in mSendTransfers /\ callbackId[p] = packId[p]
HasPayloadTransferNever(p) == FALSE
HasPayloadTransfer(p) == p \in WithPayload     \* payloadTransfer != nullptr

staticSendMessageCallback(p) ==
    /\ InCallback(p, "message")
    /\ LET code == transferStatusToErrorCode(event.status)
       IN  \/ /\ ~Found(p)
              /\ finishUnknownTransfer(p)
              /\ UNCHANGED <<errorCode, usb>>
           \/ /\ Found(p)
              /\ errorCode' = [errorCode EXCEPT ![p] = code]
              /\ \/ /\ ~HasPayloadTransfer(p)
                    /\ finishSendTransfer(p, code)
                    /\ UNCHANGED usb
                 \/ /\ HasPayloadTransfer(p) /\ code # "OK"
                    /\ Cancel(Transfer(p, "payload"))
                    /\ UNCHANGED <<callbackData, results, mSendTransfers>>
                 \/ /\ HasPayloadTransfer(p) /\ code = "OK"
                    /\ UNCHANGED <<callbackData, results, mSendTransfers, usb>>
    /\ UNCHANGED <<transferId, mSendMutex, packId, callbackId, call, dangling>>

(* The payload's code replaces the message's unless it is CANCELLED on top *)
(* of an error.                                                            *)
FinalCode(p, code) == IF code # "CANCELLED" \/ errorCode[p] = "OK" THEN code ELSE errorCode[p]

staticSendPayloadCallback(p) ==
    /\ InCallback(p, "payload")
    /\ LET code == FinalCode(p, transferStatusToErrorCode(event.status))
       IN  \/ /\ ~Found(p)
              /\ finishUnknownTransfer(p)
              /\ UNCHANGED errorCode
           \/ /\ Found(p)
              /\ errorCode' = [errorCode EXCEPT ![p] = code]
              /\ finishSendTransfer(p, code)
    /\ UNCHANGED <<transferId, mSendMutex, packId, callbackId, call, usb, dangling>>

-----------------------------------------------------------------------------
(* The endpoint (external): the first transfer in flight ends.             *)
TransferEnds(t) ==
    /\ endpoint[t] # <<>>
    /\ endpoint' = [endpoint EXCEPT ![t] = Tail(@)]
    /\ \E s \in Statuses :
           /\ done' = Append(done, Ended(Head(endpoint[t]), s))
           /\ completed' = IF s = "COMPLETED" THEN completed \cup {Head(endpoint[t])}
                           ELSE completed
    /\ UNCHANGED <<transferId, mSendMutex, pool, messageLock, call, event, results, wire, dangling>>

-----------------------------------------------------------------------------
SendStep(p) == SendEmplaces(p) \/ SendSubmitsMessage(p) \/ SendSubmitsPayload(p) \/ SendCancels(p)
Callback == \/ CallbackBegins
            \/ \E p \in Packets : staticSendMessageCallback(p) \/ staticSendPayloadCallback(p)

Next == \/ \E p \in Packets : SendCalled(p) \/ SendStep(p)
        \/ Callback
        \/ \E t \in Transports : TransferEnds(t)

Spec == Init /\ [][Next]_vars

(* Threads run, and get a mutex that stays free; every transfer ends.      *)
LiveSpec == /\ Spec
            /\ \A p \in Packets : WF_vars(SendStep(p))
            /\ WF_vars(Callback)
            /\ \A t \in Transports : WF_vars(TransferEnds(t))

-----------------------------------------------------------------------------
(* Properties.                                                             *)

(* Two things break the code's bookkeeping, and the properties say of each *)
(* packet that nothing else does.  Its payload could not be submitted, so  *)
(* that send() finished it with its message under way (205-213); or        *)
(* another transport's send() counted on between its ++transferId and the  *)
(* next use of it (154, 176), so that its callback data name another id.   *)
PayloadRefused(p) == /\ p \in WithPayload /\ call[p] = "returned"
                     /\ Contains(wire[TransportOf[p]], Transfer(p, "message"))
                     /\ ~Contains(wire[TransportOf[p]], Transfer(p, "payload"))
ForeignId(p) == callbackData[p] # "none" /\ callbackId[p] # packId[p]

(* A send() that wants the lock of its message, whose callback has begun   *)
(* and wants the mutex of that send().                                     *)
CircularWait == \E p \in Packets : call[p] = "cancelling" /\ messageLock[p] = Event

(* The device can tell packets apart: on the endpoint each message that    *)
(* announces a payload is followed by that payload and by nothing else,    *)
(* whatever the threads that send are.  The last one may still be to come. *)
Framed ==
    \A t \in Transports : \A i \in DOMAIN wire[t] :
        LET x == wire[t][i]
        IN  /\ x.kind = "payload" => i > 1 /\ wire[t][i - 1] = Transfer(x.packet, "message")
            /\ x.kind = "message" /\ x.packet \in WithPayload /\ i < Len(wire[t])
               /\ ~PayloadRefused(x.packet) => wire[t][i + 1] = Transfer(x.packet, "payload")

(* The callback data live until the last callback that gets them: none     *)
(* reads them after they were deleted, but in the two cases above.         *)
CallbackDataLive == \A p \in dangling : PayloadRefused(p) \/ ForeignId(p)

(* The listener hears of a packet once, and then its entry is gone and its *)
(* callback data freed: nothing leaks, nothing is freed early.             *)
ToldOnce ==
    \A p \in Packets \ dangling : ~ForeignId(p) =>
        /\ Len(results[p]) <= 1
        /\ call[p] \notin {"none", "called"} =>
               (results[p] # <<>> <=> p \notin mSendTransfers)
        /\ callbackData[p] = "deleted" <=> results[p] # <<>>

(* Once every send() has returned and every transfer has had its callback, *)
(* no callback data are left, whatever failed on the way, nor an entry,    *)
(* but for those that another transport's send() gave a foreign id.        *)
NothingLeft ==
    /\ \A p \in Packets : call[p] \in {"none", "returned"}
    /\ \A t \in Transports : endpoint[t] = <<>>
    /\ done = <<>> /\ event = <<>>
    => /\ \A p \in Packets : callbackData[p] # "live"
       /\ \A p \in mSendTransfers : ForeignId(p)

(* A packet that was sent is reported as OK.                               *)
SentMeansOk ==
    \A p \in Packets : results[p] # <<>> /\ ~ForeignId(p)
                       /\ Transfer(p, "message") \in completed
                       /\ (p \in WithPayload => Transfer(p, "payload") \in completed)
                       => results[p] = <<"OK">>

(* send() returns, whoever else sends and whatever fails, and the listener *)
(* hears of its packet, unless the locks are taken in opposite orders.     *)
SendReturns ==
    \A p \in Packets : call[p] = "called" ~>
        (call[p] = "returned" /\ results[p] # <<>>) \/ CircularWait
=============================================================================
