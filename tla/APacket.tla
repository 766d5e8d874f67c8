------------------------------ MODULE APacket -------------------------------
(***************************************************************************)
(* Packets and the memory of their payloads: APayload, an object with a    *)
(* buffer on the heap (src/src/APayload.cpp), APacket, a message with an   *)
(* optional APayload (src/src/APacket.cpp), what AdbBase makes of them     *)
(* when it sends and when it checks (src/src/AdbBase.cpp), and the packet  *)
(* that UsbTransport reads into (src/src/UsbTransport.cpp).                *)
(*                                                                         *)
(* An object is a variable of the caller (Locals), the payload of a packet *)
(* that is built or on its way out ("sending"), or that of the packet that *)
(* is read into ("receiving").  The heap is explicit, so that copies,      *)
(* moves, leaks and uninitialised bytes are told apart.  Buffers are few   *)
(* and sizes small: NBuffers objects of at most MaxSize bytes; when none   *)
(* is left, malloc fails and the assertion after it ends the program.      *)
(***************************************************************************)
EXTENDS Sequences, Naturals, FiniteSets, SequencesExt

CONSTANTS Locals,         \* variables of type APayload
          Buffers,        \* addresses that malloc may return
          NoBuffer,       \* nullptr
          MaxSize,        \* sizes a caller asks for
          Byte,           \* values of a byte
          Modulus,        \* checksums are uint32_t: 2^32
          Versions,       \* protocol versions
          SkipChecksum,   \* A_VERSION_SKIP_CHECKSUM
          Shrinks         \* TRUE: a caller may shrink a buffer below its data

ASSUME PacketAssumption ==
    /\ NoBuffer \notin Buffers
    /\ MaxSize \in Nat /\ Modulus \in Nat \ {0}
    /\ Byte \subseteq 0..Modulus - 1 /\ 0 \in Byte
    /\ Versions \subseteq Nat /\ SkipChecksum \in Nat
    /\ Shrinks \in BOOLEAN
    /\ Locals \cap {"sending", "receiving"} = {}

Packets == {"sending", "receiving"}
Objects == Locals \cup Packets

VARIABLES
    live,        \* buffers that are allocated
    heap,        \* their contents
    payload,     \* the fields of each object
    engaged,     \* objects that exist: constructed, or the optional has a value
    message,     \* dataLength and dataCheck of the packet "sending"
    busy,        \* packets that a transfer works on
    sentAs       \* how AdbBase sent the packet on its way, <<>> if it is none of AdbBase

memory == <<live, heap, payload, engaged>>
vars == <<memory, message, busy, sentAs>>

APayload == [buffer : Buffers \cup {NoBuffer}, bufferSize : Nat, dataSize : Nat]
AMessage == [dataLength : Nat, dataCheck : 0..Modulus - 1]
Emptied == [buffer |-> NoBuffer, bufferSize |-> 0, dataSize |-> 0]
NewMessage == [dataLength |-> 0, dataCheck |-> 0]
Kinds == {"CNXN", "AUTH", "OPEN", "WRTE", "OKAY"}     \* OKAY: and what else has no payload

TypeOK ==
    /\ live \subseteq Buffers
    /\ heap \in [Buffers -> Seq(Byte)]
    /\ payload \in [Objects -> APayload]
    /\ engaged \subseteq Objects
    /\ message \in AMessage
    /\ busy \subseteq Packets
    /\ sentAs \in [kind : Kinds, version : Versions] \cup {<<>>}

Init ==
    /\ live = {} /\ heap = [b \in Buffers |-> <<>>]
    /\ payload = [o \in Objects |-> Emptied]
    /\ engaged = {}
    /\ message = NewMessage
    /\ busy = {} /\ sentAs = <<>>

Strings(n) == [1..n -> Byte]
Data(o) == SubSeq(heap[payload[o].buffer], 1, payload[o].dataSize)
Bytes(o) == IF payload[o].buffer = NoBuffer THEN <<>> ELSE Data(o)
ChecksumUnbounded(bytes) == FoldSeq(LAMBDA b, sum : sum + b, 0, bytes)
Checksum(bytes) == FoldSeq(LAMBDA b, sum : (sum + b) % Modulus, 0, bytes)

-----------------------------------------------------------------------------
(* APayload.                                                               *)

(* malloc, with the bytes it finds or that are stored at once.             *)
Allocate(o, bytes, size) ==
    \E b \in Buffers \ live :
        /\ live' = live \cup {b}
        /\ heap' = [heap EXCEPT ![b] = bytes]
        /\ payload' = [payload EXCEPT ![o] = [buffer |-> b, bufferSize |-> Len(bytes),
                                              dataSize |-> size]]

Without(b) == [c \in Buffers |-> IF c = b THEN <<>> ELSE heap[c]]

(* The buffer of o grows or shrinks to these bytes, in its place or in     *)
(* another: realloc, and what is stored next.                              *)
Reallocate(o, bytes, size) ==
    LET old == payload[o].buffer
    IN  \E b \in (Buffers \ live) \cup ({old} \ {NoBuffer}) :
            /\ live' = (live \ {old}) \cup {b}
            /\ heap' = [Without(old) EXCEPT ![b] = bytes]
            /\ payload' = [payload EXCEPT ![o] = [buffer |-> b, bufferSize |-> Len(bytes),
                                                  dataSize |-> size]]

Construct(o, n) ==
    /\ o \notin engaged
    /\ engaged' = engaged \cup {o}
    /\ \E bytes \in Strings(n) : Allocate(o, bytes, 0)
    /\ UNCHANGED <<message, busy, sentAs>>

(* APayload(view): the text and a zero, which counts as data.              *)
ConstructFromView(o, text) ==
    /\ o \notin engaged
    /\ engaged' = engaged \cup {o}
    /\ Allocate(o, Append(text, 0), Len(text) + 1)
    /\ UNCHANGED <<message, busy, sentAs>>

(* A copy has a buffer of the same size with the same data; the rest of it *)
(* is not initialised.                                                     *)
CopyOf(s) == {Bytes(s) \o rest : rest \in Strings(payload[s].bufferSize - payload[s].dataSize)}

CopyConstruct(o, s) ==
    /\ s \in engaged /\ o \notin engaged
    /\ engaged' = engaged \cup {o}
    /\ \E bytes \in CopyOf(s) : Allocate(o, bytes, payload[s].dataSize)
    /\ UNCHANGED <<message, busy, sentAs>>

MovedShared(o, s) == [payload EXCEPT ![o] = payload[s]]
Moved(o, s) == [payload EXCEPT ![o] = payload[s], ![s] = Emptied]

MovedInto(o, s) ==
    /\ s \in engaged /\ o \notin engaged
    /\ engaged' = engaged \cup {o}
    /\ payload' = Moved(o, s)
    /\ UNCHANGED <<live, heap>>
MoveConstruct(o, s) == MovedInto(o, s) /\ UNCHANGED <<message, busy, sentAs>>

(* The buffer that o had is not freed.                                     *)
MoveAssign(o, s) ==
    /\ s \in engaged /\ o \in engaged /\ o # s
    /\ payload' = Moved(o, s)
    /\ UNCHANGED <<live, heap, engaged, message, busy, sentAs>>

(* The buffer of o is brought to the size of that of s first.  A size of   *)
(* zero makes realloc return nullptr, and the assertion end the program.   *)
CopyAssign(o, s) ==
    /\ s \in engaged /\ o \in engaged /\ o # s
    /\ payload[s].bufferSize > 0
    /\ \E bytes \in CopyOf(s) :
           IF payload[s].bufferSize = payload[o].bufferSize
           THEN /\ heap' = [heap EXCEPT ![payload[o].buffer] = bytes]
                /\ payload' = [payload EXCEPT ![o].dataSize = payload[s].dataSize]
                /\ UNCHANGED live
           ELSE Reallocate(o, bytes, payload[s].dataSize)
    /\ UNCHANGED <<engaged, message, busy, sentAs>>

FreeNothing(o) ==
    /\ payload' = [payload EXCEPT ![o] = Emptied]
    /\ UNCHANGED <<live, heap>>
Free(o) ==
    /\ live' = live \ {payload[o].buffer}
    /\ heap' = Without(payload[o].buffer)
    /\ payload' = [payload EXCEPT ![o] = Emptied]

Destroy(o) ==
    /\ o \in engaged \cap Locals
    /\ engaged' = engaged \ {o}
    /\ Free(o)
    /\ UNCHANGED <<message, busy, sentAs>>

(* The bytes of a buffer that realloc brings to n: those it had, and what  *)
(* it finds behind them.                                                   *)
Resized(o, n) ==
    LET old == IF payload[o].buffer = NoBuffer THEN <<>> ELSE heap[payload[o].buffer]
    IN  IF n <= Len(old) THEN {SubSeq(old, 1, n)}
                         ELSE {old \o rest : rest \in Strings(n - Len(old))}

(* Growing makes the whole buffer data, shrinking leaves the data size.    *)
SizeAfter(o, n) == IF n > payload[o].dataSize THEN n ELSE payload[o].dataSize

resizeBuffer(o, n) ==
    /\ o \in engaged \cap Locals
    /\ n # payload[o].bufferSize /\ n > 0
    /\ Shrinks \/ n >= payload[o].dataSize
    /\ \E bytes \in Resized(o, n) : Reallocate(o, bytes, SizeAfter(o, n))
    /\ UNCHANGED <<engaged, message, busy, sentAs>>

setDataSize(o, n) ==
    /\ o \in engaged \cap Locals /\ n <= payload[o].bufferSize
    /\ payload' = [payload EXCEPT ![o].dataSize = n]
    /\ UNCHANGED <<live, heap, engaged, message, busy, sentAs>>

(* payload[i] = byte                                                       *)
Store(o, i, byte) ==
    /\ o \in engaged \cap Locals /\ i \in 1..payload[o].dataSize
    /\ heap' = [heap EXCEPT ![payload[o].buffer][i] = byte]
    /\ UNCHANGED <<live, payload, engaged, message, busy, sentAs>>

-----------------------------------------------------------------------------
(* APacket: what a caller does with one before it is sent.                 *)

movePayloadIn(s) ==
    /\ "sending" \notin busy /\ s \in Locals
    /\ MoveConstruct("sending", s) \/ MoveAssign("sending", s)

copyPayloadIn(s) ==
    /\ "sending" \notin busy /\ s \in Locals \cup {"receiving"}
    /\ CopyConstruct("sending", s) \/ CopyAssign("sending", s)

(* The optional is left without a value.                                   *)
movePayloadOut(o) ==
    /\ "sending" \notin busy /\ "sending" \in engaged /\ o \in Locals \ engaged
    /\ payload' = Moved(o, "sending")
    /\ engaged' = (engaged \ {"sending"}) \cup {o}
    /\ UNCHANGED <<live, heap, message, busy, sentAs>>

CheckOf(p) == IF p \in engaged THEN Checksum(Bytes(p)) ELSE 0

computeChecksum ==
    /\ "sending" \notin busy
    /\ message' = [message EXCEPT !.dataCheck = CheckOf("sending")]
    /\ UNCHANGED <<memory, busy, sentAs>>

updateMessageDataLength ==
    /\ "sending" \in engaged \ busy
    /\ message' = [message EXCEPT !.dataLength = payload["sending"].dataSize]
    /\ UNCHANGED <<memory, busy, sentAs>>

(* transport.send(std::move(packet)).                                      *)
SendBuilt ==
    /\ "sending" \in engaged \ busy
    /\ busy' = busy \cup {"sending"}
    /\ UNCHANGED <<memory, message, sentAs>>

-----------------------------------------------------------------------------
(* AdbBase: sendConnect, sendAuth, sendOpen and sendWrite move a payload   *)
(* into a packet of their own, set the length and, for some versions, the  *)
(* checksum.  sendReady, sendClose and sendTls have no payload.            *)
HasChecksum(kind, version) == \/ kind \in {"CNXN", "AUTH"}
                              \/ kind = "OPEN" /\ version <= SkipChecksum
                              \/ kind = "WRTE" /\ version < SkipChecksum

MessageForNothing(kind, version, bytes) ==
    [dataLength |-> 0,
     dataCheck  |-> IF HasChecksum(kind, version) THEN Checksum(bytes) ELSE 0]
MessageFor(kind, version, bytes) ==
    [dataLength |-> Len(bytes),
     dataCheck  |-> IF HasChecksum(kind, version) THEN Checksum(bytes) ELSE 0]

SendPayload(kind, version, s) ==
    /\ "sending" \notin busy \cup engaged /\ s \in Locals /\ kind # "OKAY"
    /\ MovedInto("sending", s)
    /\ message' = MessageFor(kind, version, Bytes(s))
    /\ busy' = busy \cup {"sending"}
    /\ sentAs' = [kind |-> kind, version |-> version]

SendBare(version) ==
    /\ "sending" \notin busy \cup engaged
    /\ message' = NewMessage
    /\ busy' = busy \cup {"sending"}
    /\ sentAs' = [kind |-> "OKAY", version |-> version]
    /\ UNCHANGED memory

(* The entry of the packet in mSendTransfers is erased.                    *)
SendFinished ==
    /\ "sending" \in busy
    /\ busy' = busy \ {"sending"}
    /\ message' = NewMessage /\ sentAs' = <<>>
    /\ engaged' = engaged \ {"sending"}
    /\ Free("sending")

(* checkPacketValidity, for a packet with a payload object or without.     *)
checkPacketValidityUnsummed(m, hasPayload, bytes, version) ==
    IF hasPayload THEN Len(bytes) = m.dataLength
    ELSE m.dataCheck = 0 /\ m.dataLength = 0
checkPacketValidity(m, hasPayload, bytes, version) ==
    IF hasPayload
    THEN /\ Len(bytes) = m.dataLength
         /\ version < SkipChecksum => Checksum(bytes) = m.dataCheck
    ELSE m.dataCheck = 0 /\ m.dataLength = 0

-----------------------------------------------------------------------------
(* UsbTransport at the other end.  Before it reads it brings the payload   *)
(* of its packet to the size agreed on, and empties it.                    *)
prepareToReceive(max) ==
    /\ "receiving" \notin busy
    /\ busy' = busy \cup {"receiving"}
    /\ engaged' = engaged \cup {"receiving"}
    /\ \/ /\ "receiving" \notin engaged
          /\ \E bytes \in Strings(max) : Allocate("receiving", bytes, 0)
       \/ /\ "receiving" \in engaged /\ max # payload["receiving"].bufferSize
          /\ \E bytes \in Resized("receiving", max) : Reallocate("receiving", bytes, 0)
       \/ /\ "receiving" \in engaged /\ max = payload["receiving"].bufferSize
          /\ payload' = [payload EXCEPT !["receiving"].dataSize = 0]
          /\ UNCHANGED <<live, heap>>
    /\ UNCHANGED <<message, sentAs>>

(* The transfers end, well or not: any bytes are in the buffer, and what   *)
(* the transfer of the payload says it has read, if there was one, is the  *)
(* data.  What is read in which order is the concern of UsbReceive.        *)
Received ==
    /\ "receiving" \in busy
    /\ busy' = busy \ {"receiving"}
    /\ LET r == payload["receiving"]
       IN  /\ \E bytes \in Strings(r.bufferSize) : heap' = [heap EXCEPT ![r.buffer] = bytes]
           /\ \E n \in 0..r.bufferSize : payload' = [payload EXCEPT !["receiving"].dataSize = n]
    /\ UNCHANGED <<live, engaged, message, sentAs>>

-----------------------------------------------------------------------------
OfLocal(o) ==
    \/ \E n \in 1..MaxSize : Construct(o, n) \/ resizeBuffer(o, n)
    \/ \E n \in 0..MaxSize - 1 : \E text \in Strings(n) : ConstructFromView(o, text)
    \/ \E s \in Locals : \/ CopyConstruct(o, s) \/ MoveConstruct(o, s)
                          \/ CopyAssign(o, s) \/ MoveAssign(o, s)
    \/ CopyConstruct(o, "receiving") \/ CopyAssign(o, "receiving")
    \/ Destroy(o)
    \/ \E n \in 0..MaxSize : setDataSize(o, n)
    \/ \E i \in 1..MaxSize, byte \in Byte : Store(o, i, byte)

OfPacket ==
    \/ \E s \in Objects : movePayloadIn(s) \/ copyPayloadIn(s)
    \/ \E o \in Locals : movePayloadOut(o)
    \/ computeChecksum \/ updateMessageDataLength \/ SendBuilt

OfAdbBase ==
    \E version \in Versions :
        \/ SendBare(version)
        \/ \E kind \in Kinds, s \in Locals : SendPayload(kind, version, s)

OfTransport == \/ SendFinished \/ Received
               \/ \E max \in 1..MaxSize : prepareToReceive(max)

Next == (\E o \in Locals : OfLocal(o)) \/ OfPacket \/ OfAdbBase \/ OfTransport

Spec == Init /\ [][Next]_vars

-----------------------------------------------------------------------------
(* Properties.                                                             *)

(* What the assertion of setDataSize() demands holds of every object at    *)
(* all times, so that no copy, checksum or transfer leaves its buffer.     *)
DataFits == \A o \in Objects : payload[o].dataSize <= payload[o].bufferSize

(* A buffer that an object points to is allocated, as large as the object  *)
(* says, and belongs to no other: no free of free, no write into a copy,   *)
(* no buffer that outlives its size.  And the data fit.                    *)
Ownership ==
    /\ \A o \in Objects : LET r == payload[o]
                          IN  IF r.buffer = NoBuffer THEN r.bufferSize = 0
                              ELSE /\ o \in engaged /\ r.buffer \in live
                                   /\ Len(heap[r.buffer]) = r.bufferSize
    /\ \A o, s \in Objects : o # s /\ payload[o].buffer = payload[s].buffer
                                 => payload[o].buffer = NoBuffer
    /\ DataFits

(* A buffer that is allocated stays reachable until it is freed, unless a  *)
(* payload is moved over one that has a buffer.                            *)
Lost == live \ {payload[o].buffer : o \in Objects}
LostByMoveOnly == [][Lost' \subseteq Lost \/ \E o, s \in Objects : MoveAssign(o, s)]_vars

(* Every packet that AdbBase sends passes the check of a peer that speaks  *)
(* the same version or a newer one; CNXN and AUTH, which come before the   *)
(* versions are agreed on, that of any peer.  The peer may hold a payload  *)
(* of size zero for a packet that has none.                                *)
SentIsValid ==
    sentAs # <<>> => \A version \in Versions :
        version >= sentAs.version \/ sentAs.kind \in {"CNXN", "AUTH"}
        => \A hasPayload \in {TRUE, "sending" \in engaged} :
               checkPacketValidity(message, hasPayload, Bytes("sending"), version)

(* With checksums, one byte that changes on the way is noticed.            *)
ChangeIsNoticed ==
    sentAs # <<>> /\ sentAs.version < SkipChecksum =>
        \A i \in DOMAIN Bytes("sending") : \A byte \in Byte \ {Bytes("sending")[i]} :
            ~checkPacketValidity(message, TRUE, [Bytes("sending") EXCEPT ![i] = byte],
                                 sentAs.version)
=============================================================================
