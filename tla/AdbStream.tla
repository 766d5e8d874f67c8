----------------------------- MODULE AdbStream ------------------------------
(***************************************************************************)
(* One open stream of an AdbDevice: AdbStreamBase and the AdbIStream and   *)
(* AdbOStream handles that share it (src/src/streams, src/include/streams).*)
(*                                                                         *)
(* Threads.  Writers call operator<<, Readers call operator>>, and the     *)
(* event thread of the transport runs processReady, processWrite and       *)
(* processClose, one packet at a time.  A step is one section executed     *)
(* under a mutex (mOutgoingMutex, mIncomingMutex) or one access to         *)
(* mIsOpen/mDevice made outside of it: the check that the stream is open   *)
(* and the section that relies on it are different steps.                  *)
(*                                                                         *)
(* A definition that is defined just before another, under its name with a *)
(* suffix, and used nowhere is a wrong version of it, on which the         *)
(* properties were tried (PROJECT.json lists them as mutants).             *)
(*                                                                         *)
(* External.  toDevice and toHost are the two directions of the USB bulk   *)
(* pair, restricted to this stream and in order; the device acknowledges   *)
(* each WRTE with one OKAY and writes only after its last WRTE was         *)
(* acknowledged.                                                           *)
(***************************************************************************)
EXTENDS Sequences, Naturals, FiniteSets

CONSTANTS Payload,          \* what a WRTE packet may carry
          NoPayload,        \* no payload
          Writers,          \* threads that write to the AdbOStream
          Readers,          \* threads that read from the AdbIStream
          MaxWrites,        \* bound: calls of operator<< that pass the check
          MaxDeviceWrites   \* bound: WRTE packets of the device

ASSUME StreamAssumption ==
    /\ NoPayload \notin Payload
    /\ MaxWrites \in Nat /\ MaxDeviceWrites \in Nat

VARIABLES
    mIsOpen, deviceExpired,           \* mIsOpen; mDevice.expired()
    mReadyToSend, mOutgoingQueue,     \* under mOutgoingMutex
    mIncomingQueue,                   \* under mIncomingMutex
    sending,     \* sending[w]: payload of a send() that holds the device, before the mutex
    reader,      \* reader[r]: where thread r is in getPayload()
    event,       \* where the event thread is in a packet handler
    toDevice,    \* payloads of the WRTE packets on the way to the device
    toHost,      \* packets on the way to the host
    unacked,     \* WRTE packets the device took and has not acknowledged
    deviceReady, deviceClosed,        \* the device may write; it sent its CLSE
    written, arrived,                 \* histories: sent or queued by send(); taken by the device
    deviceWritten, consumed           \* histories: sent by the device; returned by getPayload()

outgoing == <<mReadyToSend, mOutgoingQueue, sending, written>>
incoming == <<mIncomingQueue, reader, consumed>>
device   == <<unacked, deviceReady, deviceClosed, arrived, deviceWritten>>
vars == <<mIsOpen, deviceExpired, outgoing, incoming, event, toDevice, toHost, device>>

HostPacket == [cmd : {"OKAY", "CLSE"}, payload : {NoPayload}]
              \cup [cmd : {"WRTE"}, payload : Payload]
Packet(c, p) == [cmd |-> c, payload |-> p]

ReaderStates == {"idle", "waiting", "notified", "empty"}
EventStates  == {"idle", "readyToSend", "received", "notify", "sendReady"}

TypeOK ==
    /\ mIsOpen \in BOOLEAN /\ deviceExpired \in BOOLEAN
    /\ mReadyToSend \in BOOLEAN
    /\ mOutgoingQueue \in Seq(Payload) /\ mIncomingQueue \in Seq(Payload)
    /\ sending \in [Writers -> Payload \cup {NoPayload}]
    /\ reader \in [Readers -> ReaderStates]
    /\ event \in EventStates
    /\ toDevice \in Seq(Payload) /\ toHost \in Seq(HostPacket)
    /\ unacked \in Nat /\ deviceReady \in BOOLEAN /\ deviceClosed \in BOOLEAN
    /\ written \in Seq(Payload) /\ arrived \in Seq(Payload)
    /\ deviceWritten \in Seq(Payload) /\ consumed \in Seq(Payload)

(* AdbStreamBase::isOpen; lockDeviceIfOpen yields a device in these states.*)
isOpen == mIsOpen /\ ~deviceExpired

-----------------------------------------------------------------------------
(* A fresh stream.  No constructor initialises mReadyToSend: it holds what *)
(* the memory held.                                                        *)
Init ==
    /\ mIsOpen = TRUE /\ deviceExpired = FALSE
    /\ mReadyToSend \in BOOLEAN
    /\ mOutgoingQueue = <<>> /\ mIncomingQueue = <<>>
    /\ sending = [w \in Writers |-> NoPayload]
    /\ reader = [r \in Readers |-> "idle"]
    /\ event = "idle"
    /\ toDevice = <<>> /\ toHost = <<>>
    /\ unacked = 0 /\ deviceReady = TRUE /\ deviceClosed = FALSE
    /\ written = <<>> /\ arrived = <<>> /\ deviceWritten = <<>> /\ consumed = <<>>

-----------------------------------------------------------------------------
(* Writing: operator<< calls send().                                       *)

(* send() got the device from lockDeviceIfOpen; it wants the mutex next.   *)
(* A call on a closed stream drops the payload and changes nothing.        *)
Send(w, p) ==
    /\ sending[w] = NoPayload /\ Len(written) < MaxWrites
    /\ isOpen
    /\ sending' = [sending EXCEPT ![w] = p]
    /\ UNCHANGED <<mIsOpen, deviceExpired, mReadyToSend, mOutgoingQueue, written,
                   incoming, event, toDevice, toHost, device>>

CanSendNowUnflagged == mOutgoingQueue = <<>>
CanSendNow == mReadyToSend /\ mOutgoingQueue = <<>>
EnqueuedInFront(q, p) == <<p>> \o q
EnqueuedMovedFrom(q, p) == Append(q, NoPayload)
Enqueued(q, p) == Append(q, p)

(* The section of send() under mOutgoingMutex.                             *)
SendLocked(w) ==
    /\ sending[w] # NoPayload
    /\ \/ /\ CanSendNow
          /\ mReadyToSend' = FALSE
          /\ toDevice' = Append(toDevice, sending[w])
          /\ UNCHANGED mOutgoingQueue
       \/ /\ ~CanSendNow
          /\ mOutgoingQueue' = Enqueued(mOutgoingQueue, sending[w])
          /\ UNCHANGED <<mReadyToSend, toDevice>>
    /\ written' = Append(written, sending[w])
    /\ sending' = [sending EXCEPT ![w] = NoPayload]
    /\ UNCHANGED <<mIsOpen, deviceExpired, incoming, event, toHost, device>>

(* AdbOStream::close.                                                      *)
OStreamClose ==
    /\ mIsOpen
    /\ mIsOpen' = FALSE
    /\ UNCHANGED <<deviceExpired, outgoing, incoming, event, toDevice, toHost, device>>

-----------------------------------------------------------------------------
(* The event thread: packetListener with a packet for this stream.         *)

First(c) == toHost # <<>> /\ Head(toHost).cmd = c
Takes(c) == First(c) /\ toHost' = Tail(toHost)
Listening == event = "idle" /\ ~deviceExpired

(* processReady: readyToSend() gets the device, or returns if closed.      *)
ProcessReady ==
    /\ Listening /\ Takes("OKAY")
    /\ event' = IF isOpen THEN "readyToSend" ELSE "idle"
    /\ UNCHANGED <<mIsOpen, deviceExpired, outgoing, incoming, toDevice, device>>

ReadyAfterOkayUnset(q) == FALSE
ReadyAfterOkay(q) == q = <<>>                                \* the new mReadyToSend
QueueAfterOkayUnpopped(q) == q
QueueAfterOkay(q) == IF q = <<>> THEN <<>> ELSE Tail(q)      \* the new mOutgoingQueue

(* The section of readyToSend() under mOutgoingMutex.                      *)
ReadyToSendLocked ==
    /\ event = "readyToSend"
    /\ event' = "idle"
    /\ mReadyToSend' = ReadyAfterOkay(mOutgoingQueue)
    /\ mOutgoingQueue' = QueueAfterOkay(mOutgoingQueue)
    /\ toDevice' = IF mOutgoingQueue = <<>> THEN toDevice
                   ELSE Append(toDevice, Head(mOutgoingQueue))
    /\ UNCHANGED <<mIsOpen, deviceExpired, sending, written, incoming, toHost, device>>

ReceivedThenIfFirst == IF mIncomingQueue = <<>> THEN "notify" ELSE "sendReady"
ReceivedThen == "notify"

(* processWrite: received() looks whether the stream is open.  A closed    *)
(* stream drops the payload, and the packet is acknowledged all the same.  *)
ProcessWrite ==
    /\ Listening /\ First("WRTE")
    /\ \/ isOpen /\ event' = "received" /\ UNCHANGED toHost
       \/ ~isOpen /\ event' = "sendReady" /\ toHost' = Tail(toHost)
    /\ UNCHANGED <<mIsOpen, deviceExpired, outgoing, incoming, toDevice, device>>

(* The section of received() under mIncomingMutex, open or not by now.     *)
ReceivedLocked ==
    /\ event = "received" /\ Takes("WRTE")
    /\ mIncomingQueue' = Append(mIncomingQueue, Head(toHost).payload)
    /\ event' = ReceivedThen
    /\ UNCHANGED <<mIsOpen, deviceExpired, outgoing, reader, consumed, toDevice, device>>

Woken(states) == \E r \in Readers : /\ reader[r] = "waiting"
                                    /\ states = [reader EXCEPT ![r] = "notified"]

(* mReceived.notify_one(), after the mutex is released.                    *)
Notify ==
    /\ event = "notify"
    /\ event' = "sendReady"
    /\ \/ Woken(reader')
       \/ /\ \A r \in Readers : reader[r] # "waiting"
          /\ UNCHANGED reader
    /\ UNCHANGED <<mIsOpen, deviceExpired, outgoing, mIncomingQueue, consumed,
                   toDevice, toHost, device>>

(* sendReady: the device may write again.                                  *)
SendReady ==
    /\ event = "sendReady"
    /\ event' = "idle"
    /\ deviceReady' = TRUE
    /\ UNCHANGED <<mIsOpen, deviceExpired, outgoing, incoming, toDevice, toHost,
                   unacked, deviceClosed, arrived, deviceWritten>>

(* processClose of an active stream: close() and nothing else.             *)
ProcessClose ==
    /\ Listening /\ Takes("CLSE")
    /\ mIsOpen' = FALSE
    /\ UNCHANGED <<deviceExpired, outgoing, incoming, event, toDevice, device>>

-----------------------------------------------------------------------------
(* Reading: operator>> calls getPayload().                                 *)

CallsGetPayload(r) == reader[r] \in {"idle", "empty"}
AfterPopKept(q) == q
AfterPop(q) == Tail(q)

Pop(r) ==
    /\ consumed' = Append(consumed, Head(mIncomingQueue))
    /\ mIncomingQueue' = AfterPop(mIncomingQueue)
    /\ reader' = [reader EXCEPT ![r] = "idle"]

GetPayloadPop(r) ==
    /\ CallsGetPayload(r)
    /\ isOpen /\ mIncomingQueue # <<>>
    /\ Pop(r)
    /\ UNCHANGED <<mIsOpen, deviceExpired, outgoing, event, toDevice, toHost, device>>

GetPayloadWait(r) ==
    /\ CallsGetPayload(r)
    /\ isOpen /\ mIncomingQueue = <<>>
    /\ reader' = [reader EXCEPT ![r] = "waiting"]
    /\ UNCHANGED <<mIsOpen, deviceExpired, outgoing, mIncomingQueue, consumed,
                   event, toDevice, toHost, device>>

(* A closed stream answers APayload{0} without a look at the queue.        *)
GetPayloadClosed(r) ==
    /\ CallsGetPayload(r)
    /\ ~isOpen
    /\ reader' = [reader EXCEPT ![r] = "empty"]
    /\ UNCHANGED <<mIsOpen, deviceExpired, outgoing, mIncomingQueue, consumed,
                   event, toDevice, toHost, device>>

(* A notified reader evaluates the predicate of the wait: only the queue.  *)
Wake(r) ==
    /\ reader[r] = "notified"
    /\ \/ mIncomingQueue # <<>> /\ Pop(r)
       \/ /\ mIncomingQueue = <<>>
          /\ reader' = [reader EXCEPT ![r] = "waiting"]
          /\ UNCHANGED <<mIncomingQueue, consumed>>
    /\ UNCHANGED <<mIsOpen, deviceExpired, outgoing, event, toDevice, toHost, device>>

(* A condition variable may wake a thread on its own.                      *)
SpuriousWake ==
    /\ Woken(reader')
    /\ UNCHANGED <<mIsOpen, deviceExpired, outgoing, mIncomingQueue, consumed,
                   event, toDevice, toHost, device>>

-----------------------------------------------------------------------------
(* The application drops its last AdbDevice handle while no handler runs.  *)
(* A send() that got the device keeps it alive.                            *)
DeviceExpires ==
    /\ ~deviceExpired /\ event = "idle"
    /\ \A w \in Writers : sending[w] = NoPayload
    /\ deviceExpired' = TRUE
    /\ UNCHANGED <<mIsOpen, outgoing, incoming, event, toDevice, toHost, device>>

(* The device (external).                                                  *)
DeviceReceives ==
    /\ toDevice # <<>>
    /\ toDevice' = Tail(toDevice)
    /\ arrived' = Append(arrived, Head(toDevice))
    /\ unacked' = unacked + 1
    /\ UNCHANGED <<mIsOpen, deviceExpired, outgoing, incoming, event, toHost,
                   deviceReady, deviceClosed, deviceWritten>>

DeviceAcks ==
    /\ unacked > 0 /\ ~deviceClosed
    /\ unacked' = unacked - 1
    /\ toHost' = Append(toHost, Packet("OKAY", NoPayload))
    /\ UNCHANGED <<mIsOpen, deviceExpired, outgoing, incoming, event, toDevice,
                   deviceReady, deviceClosed, arrived, deviceWritten>>

DeviceWrites(p) ==
    /\ deviceReady /\ ~deviceClosed /\ Len(deviceWritten) < MaxDeviceWrites
    /\ deviceReady' = FALSE
    /\ deviceWritten' = Append(deviceWritten, p)
    /\ toHost' = Append(toHost, Packet("WRTE", p))
    /\ UNCHANGED <<mIsOpen, deviceExpired, outgoing, incoming, event, toDevice,
                   unacked, deviceClosed, arrived>>

DeviceCloses ==
    /\ ~deviceClosed
    /\ deviceClosed' = TRUE
    /\ toHost' = Append(toHost, Packet("CLSE", NoPayload))
    /\ UNCHANGED <<mIsOpen, deviceExpired, outgoing, incoming, event, toDevice,
                   unacked, deviceReady, arrived, deviceWritten>>

-----------------------------------------------------------------------------
WriterStep == \E w \in Writers : SendLocked(w) \/ \E p \in Payload : Send(w, p)
ReaderStep == \E r \in Readers : \/ GetPayloadPop(r) \/ GetPayloadWait(r)
                                 \/ GetPayloadClosed(r) \/ Wake(r)
EventStep  == \/ ProcessReady \/ ReadyToSendLocked
              \/ ProcessWrite \/ ReceivedLocked \/ Notify \/ SendReady \/ ProcessClose
DeviceStep == \/ DeviceReceives \/ DeviceAcks \/ DeviceCloses
              \/ \E p \in Payload : DeviceWrites(p)

Next == \/ WriterStep \/ ReaderStep \/ EventStep \/ DeviceStep
        \/ OStreamClose \/ SpuriousWake \/ DeviceExpires

Spec == Init /\ [][Next]_vars

(* A thread that can run eventually does, the transport delivers, and the  *)
(* device acknowledges what it took.  No thread has to call the stream,    *)
(* the device need not write or close.                                     *)
Fairness == /\ WF_vars(EventStep)
            /\ \A w \in Writers : WF_vars(SendLocked(w))
            /\ \A r \in Readers : WF_vars(Wake(r))
            /\ WF_vars(DeviceReceives) /\ WF_vars(DeviceAcks)

LiveSpec == Spec /\ Fairness

-----------------------------------------------------------------------------
(* Properties.                                                             *)

(* Flow control: at most one WRTE of the stream is sent and not yet        *)
(* acknowledged, whatever the order of send() and readyToSend() is, and an *)
(* OKAY on its way answers a packet that is no longer outstanding.         *)
OkayInFlight == \E i \in DOMAIN toHost : toHost[i].cmd = "OKAY"
WindowOne == /\ Len(toDevice) + unacked <= 1
             /\ OkayInFlight => toDevice = <<>> /\ unacked = 0

(* The credit to send one WRTE is in one place at a time: mReadyToSend,    *)
(* the event thread, an OKAY, the WRTE itself, or the device.  This is the *)
(* inductive form of WindowOne.                                            *)
OneOkay == \A i, j \in DOMAIN toHost : toHost[i].cmd = "OKAY" /\ toHost[j].cmd = "OKAY" => i = j
NothingOut == toDevice = <<>> /\ unacked = 0
CreditInv ==
    /\ Len(toDevice) + unacked <= 1
    /\ OneOkay
    /\ OkayInFlight => NothingOut /\ ~mReadyToSend /\ event # "readyToSend"
    /\ event = "readyToSend" => NothingOut /\ ~mReadyToSend
    /\ mReadyToSend => NothingOut /\ mOutgoingQueue = <<>>

(* Every payload that send() took is, in the order of the calls, with the  *)
(* device, on its way or in mOutgoingQueue: none lost, doubled, overtaken. *)
Order == arrived \o toDevice \o mOutgoingQueue = written

(* While the stream is open a payload never sits in mOutgoingQueue with no *)
(* OKAY to come that would send it: the credit is with the device, on its  *)
(* way, or in the hands of the event thread.  The one exception is what    *)
(* the code leaves to chance: mReadyToSend was FALSE in the fresh stream,  *)
(* and then no payload is ever sent.                                       *)
CreditInMotion == toDevice # <<>> \/ unacked > 0 \/ OkayInFlight \/ event = "readyToSend"
NeverHadCredit == ~mReadyToSend /\ toDevice = <<>> /\ arrived = <<>>
NeverStalled == isOpen /\ mOutgoingQueue # <<>> => CreditInMotion \/ NeverHadCredit

(* What the readers returned, and then what is queued for them, is what    *)
(* the device wrote, from its first payload on: nothing is reordered,      *)
(* doubled or skipped, with any number of readers.                         *)
InOrder == LET got == consumed \o mIncomingQueue
           IN  /\ Len(got) <= Len(deviceWritten)
               /\ got = SubSeq(deviceWritten, 1, Len(got))

(* No lost wakeup: while a reader waits, each queued payload has a woken   *)
(* reader, or a notify_one about to come.                                  *)
Threads(s) == {r \in Readers : reader[r] = s}
WakeupsCover ==
    Threads("waiting") # {} =>
        Len(mIncomingQueue) <= Cardinality(Threads("notified"))
                               + IF event = "notify" THEN 1 ELSE 0

(* Every payload taken by send() reaches the device, or the stream closes, *)
(* unless the fresh stream held FALSE in mReadyToSend: then none does.     *)
TakenReachesDevice ==
    \A n \in 1..(MaxWrites + Cardinality(Writers)) :
        Len(written) >= n ~> Len(arrived) >= n \/ ~isOpen \/ NeverHadCredit

(* The stream is a pipe from send() to the device.                         *)
Pipe == INSTANCE StreamPipe WITH accepted <- written, delivered <- arrived
PipeSpec == Pipe!Spec
=============================================================================
