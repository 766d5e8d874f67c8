----------------------------- MODULE UsbReceive ------------------------------
(***************************************************************************)
(* The receiving half of UsbTransport (src/src/UsbTransport.cpp) and the   *)
(* listener that AdbBase puts on it (src/src/AdbBase.cpp): receive() reads *)
(* a message, its callback reads the payload that the message announces,   *)
(* and the listener hands the packet on and calls receive() again.         *)
(*                                                                         *)
(* All of it but the first receive() runs on libusb's event thread, under  *)
(* mReceiveMutex, so a callback is one step.  mIsReceiving is never set:   *)
(* receive() always goes on.                                               *)
(*                                                                         *)
(* External (libusb, USB, adbd).  The device writes each message and each  *)
(* payload as a bulk transfer of its own.  On the wire a transfer is       *)
(* packets of PacketSize and then a shorter one; when its size is a        *)
(* multiple of PacketSize the shorter one is empty, if the device sends it *)
(* at all.  A transfer of the host ends with a packet shorter than         *)
(* PacketSize or when its buffer is full, and fails with one that does not *)
(* fit.  Sizes are in units of a message.                                  *)
(***************************************************************************)
EXTENDS Sequences, Naturals, SequencesExt

CONSTANTS PayloadSizes,      \* payloads the device may write, 0 for none
          PacketSize,        \* wMaxPacketSize of the endpoint
          MaxPayloadSize,    \* mMaxPayloadSize
          EmptyAfter,        \* sizes after which the device sends the empty packet
          Fails,             \* how a transfer may fail: "ERROR", "NO_DEVICE"
          SubmitFails,       \* kinds of transfer whose submission may fail
          MaxPackets         \* bound: packets the device writes

MessageSize == 1
Kinds == {"message", "payload"}

ASSUME ReceiveAssumption ==
    /\ MaxPayloadSize \in Nat /\ PayloadSizes \subseteq 0..MaxPayloadSize
    /\ PacketSize \in Nat /\ PacketSize > MessageSize
    /\ MaxPackets \in Nat
    /\ Fails \subseteq {"ERROR", "NO_DEVICE"} /\ SubmitFails \subseteq Kinds

VARIABLES
    mMessage,          \* the message buffer: which packet's message, 0 at first
    mPayload,          \* the payload buffer: the USB packets in it
    errorCode,         \* of the last transfer that had its callback
    transfer,          \* the transfer in flight
    ended,             \* the transfer that ended, with its callback to come
    mPacketListener,   \* it is set
    started,           \* AdbBase::setup() has run
    wire,              \* USB packets on their way
    disconnected,
    written,           \* history: payload sizes of the packets the device wrote
    heard,             \* history: what the packet listener got
    dropped,           \* history: packets that came before there was a listener
    failed,            \* history: a transfer failed, or a payload transfer was not submitted
    unsubmitted        \* history: a message transfer was not submitted

pack == <<mMessage, mPayload, errorCode>>
history == <<heard, dropped, failed, unsubmitted>>
vars == <<pack, transfer, ended, mPacketListener, started, wire, disconnected,
          written, history>>

Garbage == MaxPackets + 1
UsbPackets == [of : 1..MaxPackets, part : Kinds, size : 0..PacketSize]
None == [kind |-> "none", status |-> "none"]
ErrorCodes == {"OK", "TRANSPORT_DISCONNECTED", "UNDERLYING_ERROR"}
Statuses == {"COMPLETED", "OVERFLOW", "ERROR", "NO_DEVICE"}

TypeOK ==
    /\ mMessage \in 0..Garbage /\ mPayload \in Seq(UsbPackets) /\ errorCode \in ErrorCodes
    /\ transfer \in Kinds \cup {"none"}
    /\ ended \in [kind : Kinds, status : Statuses] \cup {None}
    /\ mPacketListener \in BOOLEAN /\ started \in BOOLEAN /\ disconnected \in BOOLEAN
    /\ wire \in Seq(UsbPackets)
    /\ written \in Seq(PayloadSizes)
    /\ heard \in Seq([message : 0..Garbage, payload : Seq(UsbPackets), size : 0..MaxPayloadSize])
    /\ dropped \in Nat /\ failed \in BOOLEAN /\ unsubmitted \in BOOLEAN

Init ==
    /\ mMessage = 0 /\ mPayload = <<>> /\ errorCode = "OK"
    /\ transfer = "none" /\ ended = None
    /\ mPacketListener = FALSE /\ started = FALSE
    /\ wire = <<>> /\ disconnected = FALSE
    /\ written = <<>> /\ heard = <<>> /\ dropped = 0
    /\ failed = FALSE /\ unsubmitted = FALSE

SizeOf(usbPackets) == FoldSeq(LAMBDA u, sum : u.size + sum, 0, usbPackets)

-----------------------------------------------------------------------------
(* The payload buffer is emptied, the message buffer stays as it is.  The  *)
(* payload transfer gets the whole buffer, whatever the message will say.  *)
prepareToReceive == mPayload' = <<>>
Room == MaxPayloadSize - SizeOf(mPayload)

(* receive(): the message transfer is submitted, and nobody looks whether  *)
(* that went well.                                                         *)
Receive ==
    /\ prepareToReceive
    /\ \/ transfer' = "message" /\ ~disconnected /\ UNCHANGED unsubmitted
       \/ /\ disconnected \/ "message" \in SubmitFails
          /\ transfer' = "none" /\ unsubmitted' = TRUE

(* The AdbBase constructor: setup() sets the listeners of the transport    *)
(* and calls receive().                                                    *)
Setup ==
    /\ ~started
    /\ started' = TRUE
    /\ Receive
    /\ UNCHANGED <<mMessage, errorCode, ended, mPacketListener, wire, disconnected, written,
                   heard, dropped, failed>>

(* setPacketListener, by the constructor of AdbDevice after that.          *)
SetPacketListener ==
    /\ started /\ ~mPacketListener
    /\ mPacketListener' = TRUE
    /\ UNCHANGED <<pack, transfer, ended, started, wire, disconnected, written, history>>

(* AdbBase's receive listener: the packet goes to the packet listener, if  *)
(* there is one and no error, and the next receive() follows in any case.  *)
AfterListenerIfOk(code) ==
    IF code = "OK" THEN Receive ELSE transfer' = "none" /\ UNCHANGED <<mPayload, unsubmitted>>
AfterListener(code) == Receive
DataSizeOfBuffer == MaxPayloadSize
DataSize == SizeOf(mPayload)             \* setDataSize(getActualLength())

Hears(code) == code = "OK" /\ mPacketListener

finishReceiveTransfer(code) ==
    /\ errorCode' = code
    /\ IF Hears(code)
       THEN heard' = Append(heard, [message |-> mMessage, payload |-> mPayload, size |-> DataSize])
       ELSE UNCHANGED heard
    /\ dropped' = IF code = "OK" /\ ~mPacketListener THEN dropped + 1 ELSE dropped
    /\ AfterListener(code)

-----------------------------------------------------------------------------
(* The event thread.                                                       *)

transferStatusToErrorCodeRaw(s) == s
transferStatusToErrorCode(s) == CASE s = "COMPLETED" -> "OK"
                                  [] s = "NO_DEVICE" -> "TRANSPORT_DISCONNECTED"
                                  [] OTHER           -> "UNDERLYING_ERROR"

(* dataLength # 0, for what is in the message buffer: undefined if that is *)
(* not a message.                                                          *)
AnnouncesAlways(m) == {TRUE}
Announces(m) == CASE m = 0       -> {FALSE}
                  [] m = Garbage -> BOOLEAN
                  [] OTHER       -> {written[m] # 0}

CallbackOf(kind) == ended.kind = kind /\ ended' = None

staticReceiveMessageCallback ==
    /\ CallbackOf("message")
    /\ LET code == transferStatusToErrorCode(ended.status)
       IN  \/ /\ code = "OK" /\ TRUE \in Announces(mMessage)
              /\ \/ /\ ~disconnected
                    /\ transfer' = "payload" /\ errorCode' = code
                    /\ UNCHANGED <<mPayload, history>>
                 \/ /\ disconnected \/ "payload" \in SubmitFails
                    /\ finishReceiveTransfer("UNDERLYING_ERROR")
                    /\ failed' = TRUE
           \/ /\ code # "OK" \/ FALSE \in Announces(mMessage)
              /\ finishReceiveTransfer(code)
              /\ UNCHANGED failed
    /\ UNCHANGED <<mMessage, mPacketListener, started, wire, disconnected, written>>

staticReceivePayloadCallback ==
    /\ CallbackOf("payload")
    /\ finishReceiveTransfer(transferStatusToErrorCode(ended.status))
    /\ UNCHANGED <<mMessage, mPacketListener, started, wire, disconnected, written, failed>>

-----------------------------------------------------------------------------
(* The endpoint (external).                                                *)

Ends(kind, status) == transfer' = "none" /\ ended' = [kind |-> kind, status |-> status]

(* An empty packet leaves the message buffer as it was.                    *)
MessageTransferEnds ==
    /\ transfer = "message" /\ wire # <<>>
    /\ wire' = Tail(wire)
    /\ LET u == Head(wire)
       IN  /\ Ends("message", IF u.size <= MessageSize THEN "COMPLETED" ELSE "OVERFLOW")
           /\ mMessage' = IF u.size = 0 THEN mMessage
                          ELSE IF u.part = "message" THEN u.of ELSE Garbage
    /\ UNCHANGED <<mPayload, errorCode, mPacketListener, started, disconnected, written, history>>

PayloadTransferTakes ==
    /\ transfer = "payload" /\ wire # <<>>
    /\ wire' = Tail(wire)
    /\ LET u == Head(wire)
       IN  \/ /\ u.size > Room
              /\ Ends("payload", "OVERFLOW")
              /\ UNCHANGED mPayload
           \/ /\ u.size <= Room
              /\ mPayload' = Append(mPayload, u)
              /\ IF u.size < PacketSize \/ u.size = Room THEN Ends("payload", "COMPLETED")
                 ELSE UNCHANGED <<transfer, ended>>
    /\ UNCHANGED <<mMessage, errorCode, mPacketListener, started, disconnected, written, history>>

TransferFails ==
    /\ transfer # "none"
    /\ \E s \in Fails : /\ Ends(transfer, s)
                        /\ disconnected' = (s = "NO_DEVICE")
                        /\ wire' = IF s = "NO_DEVICE" THEN <<>> ELSE wire
    /\ failed' = TRUE
    /\ UNCHANGED <<pack, mPacketListener, started, written, heard, dropped, unsubmitted>>

(* The device writes a packet.                                             *)
OnTheWire(n, kind, size) ==
    LET Usb(k) == [of |-> n, part |-> kind, size |-> k]
        rest   == size % PacketSize
    IN  [i \in 1..(size \div PacketSize) |-> Usb(PacketSize)]
        \o IF rest > 0 THEN <<Usb(rest)>> ELSE IF size \in EmptyAfter THEN <<Usb(0)>> ELSE <<>>

DeviceWrites(size) ==
    /\ ~disconnected /\ Len(written) < MaxPackets
    /\ written' = Append(written, size)
    /\ LET n == Len(written')
       IN  wire' = wire \o OnTheWire(n, "message", MessageSize)
                        \o IF size = 0 THEN <<>> ELSE OnTheWire(n, "payload", size)
    /\ UNCHANGED <<pack, transfer, ended, mPacketListener, started, disconnected, history>>

-----------------------------------------------------------------------------
EventStep == staticReceiveMessageCallback \/ staticReceivePayloadCallback
Endpoint == MessageTransferEnds \/ PayloadTransferTakes

Next == \/ Setup \/ SetPacketListener \/ EventStep \/ Endpoint \/ TransferFails
        \/ \E size \in PayloadSizes : DeviceWrites(size)

Spec == Init /\ [][Next]_vars

(* The constructors return, the event thread runs, and what is on the wire *)
(* arrives.                                                                *)
LiveSpec == Spec /\ WF_vars(Setup \/ SetPacketListener) /\ WF_vars(EventStep)
                 /\ WF_vars(Endpoint)

-----------------------------------------------------------------------------
(* Properties.                                                             *)

(* The packet listener gets the packets that the device wrote, in order,   *)
(* none twice, none left out once there is a listener, each with its own   *)
(* payload and all of it, up to the first failure.                         *)
HeardIsWritten ==
    ~failed =>
        \A i \in DOMAIN heard :
            /\ heard[i].message = dropped + i
            /\ \A u \in ToSet(heard[i].payload) : u.of = heard[i].message /\ u.part = "payload"
            /\ heard[i].size = written[heard[i].message]

(* dataLength is the length of the payload of the packet that is heard.    *)
DataLengthIsLength ==
    \A i \in DOMAIN heard : heard[i].message \in DOMAIN written =>
                                heard[i].size = written[heard[i].message]

(* The reading ends with the first message transfer that is not submitted, *)
(* which receive() does not notice, and with nothing else: after every     *)
(* other failure, and without a listener, a transfer is in flight or has   *)
(* its callback to come.                                                   *)
KeepsReceiving == started => (transfer = "none" /\ ended = None <=> unsubmitted)

(* Every packet that the device writes is heard, if nothing fails.         *)
WrittenIsHeard ==
    \A n \in 1..MaxPackets :
        Len(written) >= n ~> Len(heard) + dropped >= n \/ failed \/ unsubmitted
=============================================================================
