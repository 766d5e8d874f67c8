-------------------------- MODULE AdbStreamProofs ---------------------------
(***************************************************************************)
(* Proofs about AdbStream, for every set of payloads, writers and readers  *)
(* and every bound.                                                        *)
(*                                                                         *)
(*   Typing        Spec => []TypeOK                                        *)
(*   Credit        Spec => []CreditInv        one credit, in one place     *)
(*   Window        Spec => []WindowOne        from CreditInv               *)
(*   SendOrder     Spec => []Order            from CreditInv               *)
(*   Implements    Spec => PipeSpec           from Order                   *)
(*   NoStall       Spec => []NeverStalled     from CreditInv               *)
(*   ReceivedInOrder  Spec => []InOrder       from BackInv                 *)
(*   NoLostWakeup  Spec => []WakeupsCover     from WakeInv                 *)
(***************************************************************************)
EXTENDS AdbStream, SequenceTheorems, FiniteSetTheorems, TLAPS

(* The helpers on which steps are built, and the payloads of a packet.     *)
USE DEF Packet, Enqueued, AfterPop, ReadyAfterOkay, QueueAfterOkay, ReceivedThen

-----------------------------------------------------------------------------
(* The variables keep their types.                                         *)
THEOREM Typing == Spec => []TypeOK
<1>1. Init => TypeOK
  <2> SUFFICES ASSUME Init PROVE TypeOK
    OBVIOUS
  <2>1. mReadyToSend \in BOOLEAN
    BY Zenon DEF Init
  <2>2. sending \in [Writers -> Payload \cup {NoPayload}] /\ reader \in [Readers -> ReaderStates]
    BY DEF Init, ReaderStates
  <2>3. /\ mOutgoingQueue \in Seq(Payload) /\ mIncomingQueue \in Seq(Payload)
        /\ toDevice \in Seq(Payload) /\ toHost \in Seq(HostPacket)
        /\ written \in Seq(Payload) /\ arrived \in Seq(Payload)
        /\ deviceWritten \in Seq(Payload) /\ consumed \in Seq(Payload)
    BY EmptySeq DEF Init
  <2>4. mIsOpen \in BOOLEAN /\ deviceExpired \in BOOLEAN /\ deviceReady \in BOOLEAN
        /\ deviceClosed \in BOOLEAN /\ unacked \in Nat /\ event \in EventStates
    BY DEF Init, EventStates
  <2> QED
    BY <2>1, <2>2, <2>3, <2>4, Zenon DEF TypeOK
<1>2. TypeOK /\ [Next]_vars => TypeOK'
  <2> SUFFICES ASSUME TypeOK, [Next]_vars PROVE TypeOK'
    OBVIOUS
  <2> USE DEF TypeOK, ReaderStates, EventStates
  <2>1. ASSUME NEW w \in Writers, NEW p \in Payload, Send(w, p) PROVE TypeOK'
    BY <2>1 DEF Send, incoming, device
  <2>2. ASSUME NEW w \in Writers, SendLocked(w) PROVE TypeOK'
    <3>1. sending[w] \in Payload
      BY <2>2 DEF SendLocked
    <3>2. mReadyToSend' \in BOOLEAN
      BY <2>2, Zenon DEF SendLocked
    <3>3. toDevice' \in Seq(Payload) /\ mOutgoingQueue' \in Seq(Payload)
      <4>1. CASE toDevice' = Append(toDevice, sending[w]) /\ UNCHANGED mOutgoingQueue
        BY <3>1, <4>1
      <4>2. CASE mOutgoingQueue' = Append(mOutgoingQueue, sending[w]) /\ UNCHANGED toDevice
        BY <3>1, <4>2
      <4> QED
        BY <2>2, <4>1, <4>2, Zenon DEF SendLocked
    <3> QED
      BY <2>2, <3>1, <3>2, <3>3 DEF SendLocked, incoming, device
  <2>3. CASE OStreamClose
    BY <2>3 DEF OStreamClose, outgoing, incoming, device
  <2>4. CASE ProcessReady
    BY <2>4 DEF ProcessReady, Takes, First, EventStates, outgoing, incoming, device
  <2>5. CASE ReadyToSendLocked
    BY <2>5 DEF ReadyToSendLocked, incoming, device
  <2>6. CASE ProcessWrite
    <3>1. /\ toHost' = toHost \/ (toHost # <<>> /\ toHost' = Tail(toHost))
          /\ event' \in EventStates
          /\ UNCHANGED <<mIsOpen, deviceExpired, outgoing, incoming, toDevice, device>>
      BY <2>6 DEF ProcessWrite, First, EventStates
    <3>2. toHost' \in Seq(HostPacket)
      BY <3>1, HeadTailProperties
    <3> QED
      BY <3>1, <3>2 DEF outgoing, incoming, device
  <2>20. CASE ReceivedLocked
    <3>1. toHost # <<>> /\ Head(toHost) \in HostPacket /\ Head(toHost).cmd = "WRTE"
      BY <2>20 DEF ReceivedLocked, Takes, First
    <3>2. Head(toHost).payload \in Payload
      BY <3>1 DEF HostPacket
    <3> QED
      BY <2>20, <3>1, <3>2 DEF ReceivedLocked, Takes, outgoing, device
  <2>7. CASE Notify
    BY <2>7 DEF Notify, Woken, outgoing, device
  <2>8. CASE SendReady
    BY <2>8 DEF SendReady, outgoing, incoming
  <2>9. CASE ProcessClose
    <3>1. toHost' \in Seq(HostPacket)
      BY <2>9 DEF ProcessClose, Takes, First
    <3> QED
      BY <2>9, <3>1 DEF ProcessClose, outgoing, incoming, device
  <2>10. ASSUME NEW r \in Readers, GetPayloadPop(r) PROVE TypeOK'
    BY <2>10 DEF GetPayloadPop, Pop, outgoing, device
  <2>11. ASSUME NEW r \in Readers, GetPayloadWait(r) \/ GetPayloadClosed(r) PROVE TypeOK'
    BY <2>11 DEF GetPayloadWait, GetPayloadClosed, outgoing, device
  <2>12. ASSUME NEW r \in Readers, Wake(r) PROVE TypeOK'
    <3>1. CASE mIncomingQueue # <<>> /\ Pop(r)
      BY <2>12, <3>1 DEF Wake, Pop, outgoing, device
    <3>2. CASE UNCHANGED <<mIncomingQueue, consumed>>
      BY <2>12, <3>2 DEF Wake, Pop, outgoing, device
    <3> QED
      BY <2>12, <3>1, <3>2 DEF Wake
  <2>13. CASE SpuriousWake
    BY <2>13 DEF SpuriousWake, Woken, outgoing, device
  <2>14. CASE DeviceExpires
    BY <2>14 DEF DeviceExpires, outgoing, incoming, device
  <2>15. CASE DeviceReceives
    BY <2>15 DEF DeviceReceives, outgoing, incoming
  <2>16. CASE DeviceAcks
    <3>1. Packet("OKAY", NoPayload) \in HostPacket
      BY DEF HostPacket
    <3> QED
      BY <2>16, <3>1 DEF DeviceAcks, outgoing, incoming
  <2>17. CASE DeviceCloses
    <3>1. Packet("CLSE", NoPayload) \in HostPacket
      BY DEF HostPacket
    <3> QED
      BY <2>17, <3>1 DEF DeviceCloses, outgoing, incoming
  <2>18. ASSUME NEW p \in Payload, DeviceWrites(p) PROVE TypeOK'
    <3>1. Packet("WRTE", p) \in HostPacket
      BY DEF HostPacket
    <3> QED
      BY <2>18, <3>1, AppendProperties DEF DeviceWrites, outgoing, incoming
  <2>19. CASE UNCHANGED vars
    BY <2>19 DEF vars, outgoing, incoming, device
  <2> QED
    BY <2>1, <2>2, <2>3, <2>4, <2>5, <2>6, <2>20, <2>7, <2>8, <2>9, <2>10, <2>11, <2>12,
       <2>13, <2>14, <2>15, <2>16, <2>17, <2>18, <2>19
       DEF Next, WriterStep, ReaderStep, EventStep, DeviceStep
<1> QED
  BY <1>1, <1>2, PTL DEF Spec

-----------------------------------------------------------------------------
(* The event thread takes the first packet: the OKAYs left were there, and *)
(* none is left when it took one.                                          *)
LEMMA TakingPacket ==
    ASSUME TypeOK, CreditInv, NEW c, Takes(c)
    PROVE  /\ OneOkay'
           /\ OkayInFlight' => OkayInFlight
           /\ c = "OKAY" => OkayInFlight /\ ~OkayInFlight'
<1>1. /\ toHost \in Seq(HostPacket) /\ toHost # <<>>
      /\ toHost' = Tail(toHost) /\ Head(toHost).cmd = c
  BY DEF TypeOK, Takes, First
<1>2. \A i \in DOMAIN toHost' : i + 1 \in DOMAIN toHost /\ toHost'[i] = toHost[i + 1]
  BY <1>1, HeadTailProperties, LenProperties
<1>3. 1 \in DOMAIN toHost /\ toHost[1] = Head(toHost)
  BY <1>1
<1>4. DOMAIN toHost' \subseteq Nat \ {0}
  BY <1>1
<1>5. OneOkay
  BY DEF CreditInv
<1> QED
  BY <1>1, <1>2, <1>3, <1>4, <1>5 DEF OneOkay, OkayInFlight

(* The device sends a packet: only an OKAY adds to the OKAYs on their way. *)
LEMMA SendingPacket ==
    ASSUME TypeOK, CreditInv, NEW q \in HostPacket, toHost' = Append(toHost, q)
    PROVE  /\ q.cmd # "OKAY" => OneOkay' /\ (OkayInFlight' => OkayInFlight)
           /\ ~OkayInFlight => OneOkay'
<1>1. \A i \in DOMAIN toHost' :
          \/ i \in DOMAIN toHost /\ toHost'[i] = toHost[i]
          \/ i = Len(toHost) + 1 /\ toHost'[i] = q
  <2>1. toHost \in Seq(HostPacket)
    BY DEF TypeOK
  <2>2. DOMAIN toHost = 1..Len(toHost) /\ DOMAIN toHost' = 1..(Len(toHost) + 1)
    BY <2>1, AppendProperties, LenProperties
  <2>3. /\ \A i \in 1..Len(toHost) : toHost'[i] = toHost[i]
        /\ toHost'[Len(toHost) + 1] = q
    BY <2>1, AppendProperties
  <2>4. Len(toHost) \in Nat
    BY <2>1
  <2>5. ASSUME NEW i \in DOMAIN toHost'
        PROVE  \/ i \in DOMAIN toHost /\ toHost'[i] = toHost[i]
               \/ i = Len(toHost) + 1 /\ toHost'[i] = q
    <3>1. i \in 1..Len(toHost) \/ i = Len(toHost) + 1
      BY <2>2, <2>4
    <3>2. CASE i \in 1..Len(toHost)
      BY <2>2, <2>3, <3>2, Zenon
    <3> QED
      BY <2>3, <3>1, <3>2, Zenon
  <2> QED
    BY <2>5, Zenon
<1>2. OneOkay
  BY DEF CreditInv
<1> QED
  BY <1>1, <1>2 DEF OneOkay, OkayInFlight

(* There is one credit, and it is in one place.                            *)
THEOREM Credit == Spec => []CreditInv
<1>1. Init => CreditInv
  BY DEF Init, CreditInv, OneOkay, OkayInFlight, NothingOut
<1>2. TypeOK /\ TypeOK' /\ CreditInv /\ [Next]_vars => CreditInv'
  <2> SUFFICES ASSUME TypeOK, TypeOK', CreditInv, [Next]_vars PROVE CreditInv'
    OBVIOUS
  <2>1. ASSUME NEW w \in Writers, NEW p \in Payload, Send(w, p) PROVE CreditInv'
    BY <2>1 DEF Send, device, CreditInv, OneOkay, OkayInFlight, NothingOut
  <2>2. ASSUME NEW w \in Writers, SendLocked(w) PROVE CreditInv'
    <3>1. CASE CanSendNow
      <4>1. /\ mReadyToSend /\ ~mReadyToSend'
            /\ toDevice' = Append(toDevice, sending[w])
            /\ UNCHANGED <<mOutgoingQueue, toHost, unacked, event>>
        BY <2>2, <3>1, Zenon DEF SendLocked, CanSendNow, device
      <4>2. Len(toDevice') = 1 /\ unacked = 0
        BY <4>1 DEF CreditInv, NothingOut, TypeOK
      <4> QED
        BY <4>1, <4>2 DEF CreditInv, OneOkay, OkayInFlight, NothingOut
    <3>2. CASE ~CanSendNow
      <4>1. ~mReadyToSend /\ UNCHANGED <<mReadyToSend, toDevice, toHost, unacked, event>>
        BY <2>2, <3>2, Zenon DEF SendLocked, CanSendNow, CreditInv, device
      <4> QED
        BY <4>1 DEF CreditInv, OneOkay, OkayInFlight, NothingOut
    <3> QED
      BY <3>1, <3>2
  <2>3. CASE ProcessReady
    <3>1. Takes("OKAY") /\ UNCHANGED <<mReadyToSend, mOutgoingQueue, toDevice, unacked>>
      BY <2>3 DEF ProcessReady, outgoing, device
    <3>2. OneOkay' /\ OkayInFlight /\ ~OkayInFlight'
      BY <3>1, TakingPacket
    <3> QED
      BY <3>1, <3>2 DEF CreditInv, NothingOut
  <2>4. CASE ReadyToSendLocked
    <3>1. UNCHANGED <<toHost, unacked>> /\ event = "readyToSend" /\ event' = "idle"
      BY <2>4 DEF ReadyToSendLocked, device
    <3>2. toDevice = <<>> /\ unacked = 0 /\ ~OkayInFlight
      BY <3>1 DEF CreditInv, NothingOut
    <3>3. OneOkay' /\ ~OkayInFlight'
      BY <3>1, <3>2 DEF CreditInv, OneOkay, OkayInFlight
    <3>4. CASE mOutgoingQueue = <<>>
      BY <2>4, <3>1, <3>2, <3>3, <3>4 DEF ReadyToSendLocked, CreditInv, NothingOut
    <3>5. CASE mOutgoingQueue # <<>>
      <4>1. ~mReadyToSend' /\ toDevice' = Append(toDevice, Head(mOutgoingQueue))
        BY <2>4, <3>5 DEF ReadyToSendLocked
      <4>2. Len(toDevice') = 1
        BY <3>2, <3>5, <4>1 DEF TypeOK
      <4> QED
        BY <3>1, <3>2, <3>3, <4>1, <4>2 DEF CreditInv
    <3> QED
      BY <3>4, <3>5
  <2>5. ASSUME NEW c, Takes(c), event' # "readyToSend",
               UNCHANGED <<mReadyToSend, mOutgoingQueue, toDevice, unacked>>
        PROVE  CreditInv'
    BY <2>5, TakingPacket DEF CreditInv, NothingOut
  <2>6. ASSUME event' \in {event, "idle", "received", "notify", "sendReady"},
               UNCHANGED <<mReadyToSend, mOutgoingQueue, toDevice, toHost, unacked>>
        PROVE  CreditInv'
    BY <2>6 DEF CreditInv, OneOkay, OkayInFlight, NothingOut
  <2>7. CASE ProcessWrite \/ ReceivedLocked
    <3>1. /\ event' \in {"received", "notify", "sendReady"}
          /\ Takes("WRTE") \/ UNCHANGED toHost
          /\ UNCHANGED <<mReadyToSend, mOutgoingQueue, toDevice, unacked>>
      BY <2>7 DEF ProcessWrite, ReceivedLocked, Takes, outgoing, device
    <3> QED
      BY <2>5, <2>6, <3>1
  <2>8. CASE ProcessClose
    <3>1. event' # "readyToSend" /\ Takes("CLSE")
      BY <2>8 DEF ProcessClose, Listening
    <3> QED
      BY <2>5, <2>8, <3>1 DEF ProcessClose, outgoing, device
  <2>9. CASE Notify \/ SendReady \/ OStreamClose \/ SpuriousWake \/ DeviceExpires
    BY <2>6, <2>9 DEF Notify, SendReady, OStreamClose, SpuriousWake, DeviceExpires,
                      outgoing, device
  <2>10. ASSUME NEW r \in Readers,
                GetPayloadPop(r) \/ GetPayloadWait(r) \/ GetPayloadClosed(r) \/ Wake(r)
         PROVE  CreditInv'
    BY <2>6, <2>10 DEF GetPayloadPop, GetPayloadWait, GetPayloadClosed, Wake, outgoing, device
  <2>11. CASE DeviceReceives
    <3>1. /\ toDevice # <<>> /\ toDevice' = Tail(toDevice) /\ unacked' = unacked + 1
          /\ UNCHANGED <<mReadyToSend, mOutgoingQueue, toHost, event>>
      BY <2>11 DEF DeviceReceives, outgoing
    <3>2. Len(toDevice) = 1 /\ unacked = 0
      <4>1. Len(toDevice) \in Nat /\ Len(toDevice) # 0
        BY <3>1, EmptySeq DEF TypeOK
      <4>2. unacked \in Nat /\ Len(toDevice) + unacked <= 1
        BY DEF TypeOK, CreditInv
      <4>3. \A m, n \in Nat : m # 0 /\ m + n <= 1 => m = 1 /\ n = 0
        OBVIOUS
      <4> QED
        BY <4>1, <4>2, <4>3, Zenon
    <3>3. Len(toDevice') = 0
      BY <3>1, <3>2 DEF TypeOK
    <3>4. ~OkayInFlight /\ event # "readyToSend" /\ ~mReadyToSend
      BY <3>1 DEF CreditInv, NothingOut
    <3> QED
      BY <3>1, <3>2, <3>3, <3>4 DEF CreditInv, OneOkay, OkayInFlight
  <2>12. CASE DeviceAcks
    <3>1. /\ unacked > 0 /\ unacked' = unacked - 1
          /\ toHost' = Append(toHost, Packet("OKAY", NoPayload))
          /\ UNCHANGED <<mReadyToSend, mOutgoingQueue, toDevice, event>>
      BY <2>12 DEF DeviceAcks, outgoing
    <3>2. ~OkayInFlight /\ event # "readyToSend" /\ ~mReadyToSend
      BY <3>1 DEF CreditInv, NothingOut, TypeOK
    <3>3. toDevice = <<>> /\ unacked' = 0
      BY <3>1 DEF CreditInv, TypeOK
    <3>4. OneOkay'
      BY <3>1, <3>2, SendingPacket DEF HostPacket
    <3>5. NothingOut' /\ Len(toDevice') + unacked' <= 1
      <4>1. toDevice' = <<>> /\ unacked' = 0
        BY <3>1, <3>3
      <4>2. Len(toDevice') = 0
        BY <4>1, EmptySeq
      <4> QED
        BY <4>1, <4>2 DEF NothingOut
    <3> QED
      BY <3>1, <3>2, <3>4, <3>5 DEF CreditInv
  <2>13. ASSUME NEW q \in HostPacket, q.cmd # "OKAY", toHost' = Append(toHost, q),
                UNCHANGED <<mReadyToSend, mOutgoingQueue, toDevice, unacked, event>>
         PROVE  CreditInv'
    BY <2>13, SendingPacket DEF CreditInv, NothingOut
  <2>14. CASE DeviceCloses
    <3>1. Packet("CLSE", NoPayload) \in HostPacket
      BY DEF HostPacket
    <3> QED
      BY <2>13, <2>14, <3>1 DEF DeviceCloses, outgoing
  <2>15. ASSUME NEW p \in Payload, DeviceWrites(p) PROVE CreditInv'
    <3>1. Packet("WRTE", p) \in HostPacket
      BY DEF HostPacket
    <3> QED
      BY <2>13, <2>15, <3>1 DEF DeviceWrites, outgoing
  <2>16. CASE UNCHANGED vars
    BY <2>6, <2>16 DEF vars, outgoing, device
  <2> QED
    BY <2>1, <2>2, <2>3, <2>4, <2>7, <2>8, <2>9, <2>10, <2>11, <2>12, <2>14, <2>15, <2>16
       DEF Next, WriterStep, ReaderStep, EventStep, DeviceStep
<1> QED
  BY <1>1, <1>2, Typing, PTL DEF Spec

(* At most one unacknowledged WRTE, and no OKAY beside it.                 *)
THEOREM Window == Spec => []WindowOne
<1>1. CreditInv => WindowOne
  BY DEF CreditInv, WindowOne, NothingOut
<1> QED
  BY <1>1, Credit, PTL

-----------------------------------------------------------------------------
(* Moving the first payload of b to the end of a keeps a \o b.             *)
LEMMA MoveHead ==
    ASSUME NEW S, NEW a \in Seq(S), NEW b \in Seq(S), b # <<>>
    PROVE  Append(a, Head(b)) \o Tail(b) = a \o b
<1>1. Head(b) \in S /\ Tail(b) \in Seq(S) /\ <<Head(b)>> \in Seq(S)
  BY HeadTailProperties
<1>2. b = <<Head(b)>> \o Tail(b)
  BY <1>1, SubSeqRecursiveFirst, SubSeqFull, TailIsSubSeq, EmptySeq, LenProperties
<1>3. Append(a, Head(b)) = a \o <<Head(b)>>
  BY <1>1, AppendIsConcat
<1>4. (a \o <<Head(b)>>) \o Tail(b) = a \o (<<Head(b)>> \o Tail(b))
  BY <1>1, ConcatAssociative
<1> QED
  BY <1>2, <1>3, <1>4, Zenon

(* A payload appended at the end of the last part is last in the whole.    *)
LEMMA AppendLast ==
    ASSUME NEW S, NEW a \in Seq(S), NEW b \in Seq(S), NEW x \in S
    PROVE  a \o Append(b, x) = Append(a \o b, x)
<1>1. <<x>> \in Seq(S) /\ a \o b \in Seq(S)
  BY ConcatProperties
<1>2. Append(b, x) = b \o <<x>> /\ Append(a \o b, x) = (a \o b) \o <<x>>
  BY <1>1, AppendIsConcat
<1> QED
  BY <1>1, <1>2, ConcatAssociative

(* A step neither loses, doubles nor reorders a payload taken by send().   *)
LEMMA OrderStep == TypeOK /\ CreditInv /\ Order /\ [Next]_vars => Order'
<1> SUFFICES ASSUME TypeOK, CreditInv, Order, [Next]_vars PROVE Order'
  OBVIOUS
<1>t. /\ arrived \in Seq(Payload) /\ toDevice \in Seq(Payload)
      /\ mOutgoingQueue \in Seq(Payload) /\ written \in Seq(Payload)
      /\ arrived \o toDevice \in Seq(Payload)
  BY ConcatProperties DEF TypeOK
<1>1. ASSUME UNCHANGED <<arrived, toDevice, mOutgoingQueue, written>> PROVE Order'
  BY <1>1 DEF Order
<1>2. ASSUME NEW w \in Writers, SendLocked(w) PROVE Order'
  <2>1. sending[w] \in Payload
    BY <1>2 DEF SendLocked, TypeOK
  <2>2. written' = Append(written, sending[w]) /\ arrived' = arrived
    BY <1>2 DEF SendLocked, device
  <2>3. CASE CanSendNow
    <3>1. /\ mOutgoingQueue = <<>> /\ mOutgoingQueue' = <<>>
          /\ toDevice' = Append(toDevice, sending[w])
      BY <1>2, <2>3, Zenon DEF SendLocked, CanSendNow
    <3>2. arrived \o toDevice = written
      BY <1>t, <3>1, ConcatEmptySeq DEF Order
    <3>3. arrived \o toDevice' = written'
      BY <1>t, <2>1, <2>2, <3>1, <3>2, AppendLast
    <3>4. written' \in Seq(Payload)
      BY <1>t, <2>1, <2>2, AppendProperties
    <3> QED
      BY <2>2, <3>1, <3>3, <3>4, ConcatEmptySeq DEF Order
  <2>4. CASE ~CanSendNow
    <3>1. toDevice' = toDevice /\ mOutgoingQueue' = Append(mOutgoingQueue, sending[w])
      BY <1>2, <2>4, Zenon DEF SendLocked, Enqueued
    <3>2. (arrived \o toDevice) \o Append(mOutgoingQueue, sending[w])
            = Append((arrived \o toDevice) \o mOutgoingQueue, sending[w])
      BY <1>t, <2>1, AppendLast
    <3> QED
      BY <2>2, <3>1, <3>2 DEF Order
  <2> QED
    BY <2>3, <2>4
<1>3. CASE ReadyToSendLocked
  <2>1. UNCHANGED <<arrived, written>>
    BY <1>3 DEF ReadyToSendLocked, device
  <2>2. CASE mOutgoingQueue = <<>>
    BY <1>1, <1>3, <2>1, <2>2 DEF ReadyToSendLocked
  <2>3. CASE mOutgoingQueue # <<>>
    <3>1. /\ toDevice = <<>> /\ toDevice' = Append(toDevice, Head(mOutgoingQueue))
          /\ mOutgoingQueue' = Tail(mOutgoingQueue)
      BY <1>3, <2>3 DEF ReadyToSendLocked, CreditInv, NothingOut
    <3>2. Head(mOutgoingQueue) \in Payload /\ Tail(mOutgoingQueue) \in Seq(Payload)
      BY <1>t, <2>3, HeadTailProperties
    <3>3. arrived \o Append(toDevice, Head(mOutgoingQueue))
            = Append(arrived \o toDevice, Head(mOutgoingQueue))
      BY <1>t, <3>2, AppendLast
    <3>4. arrived \o toDevice = arrived
      BY <1>t, <3>1, ConcatEmptySeq
    <3>5. Append(arrived, Head(mOutgoingQueue)) \o Tail(mOutgoingQueue)
            = arrived \o mOutgoingQueue
      BY <1>t, <2>3, MoveHead
    <3> QED
      BY <2>1, <3>1, <3>3, <3>4, <3>5 DEF Order
  <2> QED
    BY <2>2, <2>3
<1>4. CASE DeviceReceives
  <2>1. /\ toDevice # <<>> /\ toDevice' = Tail(toDevice)
        /\ arrived' = Append(arrived, Head(toDevice))
        /\ UNCHANGED <<mOutgoingQueue, written>>
    BY <1>4 DEF DeviceReceives, outgoing
  <2> QED
    BY <1>t, <2>1, MoveHead DEF Order
<1>5. ASSUME NEW w \in Writers, NEW p \in Payload, Send(w, p) PROVE Order'
  BY <1>1, <1>5 DEF Send, device
<1>6. CASE \/ ProcessReady \/ ProcessWrite \/ ReceivedLocked \/ Notify \/ SendReady
           \/ ProcessClose
  BY <1>1, <1>6 DEF ProcessReady, ProcessWrite, ReceivedLocked, Notify, SendReady, ProcessClose,
                    outgoing, device
<1>7. ASSUME NEW r \in Readers,
             GetPayloadPop(r) \/ GetPayloadWait(r) \/ GetPayloadClosed(r) \/ Wake(r)
      PROVE  Order'
  BY <1>1, <1>7 DEF GetPayloadPop, GetPayloadWait, GetPayloadClosed, Wake, outgoing, device
<1>8. CASE OStreamClose \/ SpuriousWake \/ DeviceExpires
  BY <1>1, <1>8 DEF OStreamClose, SpuriousWake, DeviceExpires, outgoing, device
<1>9. CASE DeviceAcks \/ DeviceCloses \/ \E p \in Payload : DeviceWrites(p)
  BY <1>1, <1>9 DEF DeviceAcks, DeviceCloses, DeviceWrites, outgoing
<1>10. CASE UNCHANGED vars
  BY <1>1, <1>10 DEF vars, outgoing, device
<1> QED
  BY <1>2, <1>3, <1>4, <1>5, <1>6, <1>7, <1>8, <1>9, <1>10
     DEF Next, WriterStep, ReaderStep, EventStep, DeviceStep

(* Every payload that send() took is with the device, on its way or in     *)
(* mOutgoingQueue, in the order of the calls.                              *)
THEOREM SendOrder == Spec => []Order
<1>1. Init => Order
  <2>1. <<>> \o <<>> = <<>>
    BY EmptySeq, ConcatEmptySeq
  <2> QED
    BY <2>1 DEF Init, Order
<1> QED
  BY <1>1, OrderStep, Typing, Credit, PTL DEF Spec

-----------------------------------------------------------------------------
(* A step of the stream is a step of the pipe or leaves it as it is.       *)
LEMMA PipeStep == TypeOK /\ Order /\ [Next]_vars => [Pipe!Next]_(Pipe!pipeVars)
<1> SUFFICES ASSUME TypeOK, Order, [Next]_vars
             PROVE  Pipe!Next \/ UNCHANGED <<written, arrived>>
  BY DEF Pipe!pipeVars
<1>1. ASSUME NEW w \in Writers, SendLocked(w) PROVE Pipe!Next
  <2>1. sending[w] \in Payload
    BY <1>1 DEF SendLocked, TypeOK
  <2>2. written' = Append(written, sending[w]) /\ UNCHANGED arrived
    BY <1>1 DEF SendLocked, device
  <2> QED
    BY <2>1, <2>2 DEF Pipe!Next, Pipe!Accept
<1>2. CASE DeviceReceives
  <2>1. /\ toDevice # <<>> /\ arrived' = Append(arrived, Head(toDevice))
        /\ UNCHANGED written
    BY <1>2 DEF DeviceReceives, outgoing
  <2> DEFINE sent == arrived \o toDevice
  <2>2. /\ arrived \in Seq(Payload) /\ toDevice \in Seq(Payload)
        /\ mOutgoingQueue \in Seq(Payload) /\ sent \in Seq(Payload)
    BY ConcatProperties DEF TypeOK
  <2>3. /\ Len(arrived) \in Nat /\ Len(mOutgoingQueue) \in Nat
        /\ Len(toDevice) \in Nat /\ Len(toDevice) # 0
    BY <2>1, <2>2, EmptySeq, LenProperties
  <2>4. /\ Len(sent) = Len(arrived) + Len(toDevice)
        /\ sent[Len(arrived) + 1] = toDevice[1]
    <3>1. Len(arrived) + 1 \in 1..(Len(arrived) + Len(toDevice))
      BY <2>3
    <3>2. ~(Len(arrived) + 1 <= Len(arrived)) /\ (Len(arrived) + 1) - Len(arrived) = 1
      BY <2>3
    <3> QED
      BY <2>2, <3>1, <3>2, ConcatProperties
  <2>5. /\ Len(written) = Len(sent) + Len(mOutgoingQueue)
        /\ written[Len(arrived) + 1] = sent[Len(arrived) + 1]
    <3>1. written = sent \o mOutgoingQueue
      BY DEF Order
    <3>2. /\ Len(arrived) + 1 \in 1..(Len(sent) + Len(mOutgoingQueue))
          /\ Len(arrived) + 1 <= Len(sent)
      BY <2>3, <2>4
    <3> HIDE DEF sent
    <3> QED
      BY <2>2, <3>1, <3>2, ConcatProperties
  <2>6. toDevice[1] = Head(toDevice)
    BY <2>1, <2>2
  <2>7. Len(arrived) < Len(written)
    BY <2>3, <2>4, <2>5
  <2> QED
    BY <2>1, <2>4, <2>5, <2>6, <2>7 DEF Pipe!Next, Pipe!Deliver
<1>3. ASSUME NEW w \in Writers, NEW p \in Payload, Send(w, p)
      PROVE  UNCHANGED <<written, arrived>>
  BY <1>3 DEF Send, device
<1>4. CASE \/ ProcessReady \/ ReadyToSendLocked \/ ProcessWrite \/ ReceivedLocked \/ Notify
           \/ SendReady \/ ProcessClose \/ OStreamClose \/ SpuriousWake \/ DeviceExpires
  BY <1>4 DEF ProcessReady, ReadyToSendLocked, ProcessWrite, ReceivedLocked, Notify, SendReady,
              ProcessClose, OStreamClose, SpuriousWake, DeviceExpires, outgoing, device
<1>5. ASSUME NEW r \in Readers,
             GetPayloadPop(r) \/ GetPayloadWait(r) \/ GetPayloadClosed(r) \/ Wake(r)
      PROVE  UNCHANGED <<written, arrived>>
  BY <1>5 DEF GetPayloadPop, GetPayloadWait, GetPayloadClosed, Wake, outgoing, device
<1>6. CASE DeviceAcks \/ DeviceCloses \/ \E p \in Payload : DeviceWrites(p)
  BY <1>6 DEF DeviceAcks, DeviceCloses, DeviceWrites, outgoing
<1>7. CASE UNCHANGED vars
  BY <1>7 DEF vars, outgoing, device
<1> QED
  BY <1>1, <1>2, <1>3, <1>4, <1>5, <1>6, <1>7
     DEF Next, WriterStep, ReaderStep, EventStep, DeviceStep

(* The stream implements the pipe from send() to the device.               *)
THEOREM Implements == Spec => PipeSpec
<1>1. Init => Pipe!Init
  BY DEF Init, Pipe!Init
<1> QED
  BY <1>1, PipeStep, Typing, SendOrder, PTL DEF Spec, PipeSpec, Pipe!Spec

-----------------------------------------------------------------------------
(* Where the credit of an open stream is, if it ever had one.              *)
CreditSomewhere == mReadyToSend \/ CreditInMotion \/ NeverHadCredit
CreditLives == isOpen => CreditSomewhere

(* A step of an open stream passes the credit on.                          *)
LEMMA CreditStep == TypeOK /\ CreditInv /\ CreditLives /\ [Next]_vars => CreditLives'
<1> SUFFICES ASSUME TypeOK, CreditInv, CreditLives, [Next]_vars, isOpen'
             PROVE  CreditSomewhere'
  BY DEF CreditLives
<1>1. ASSUME isOpen, UNCHANGED <<mReadyToSend, toDevice, unacked, arrived>>,
             OkayInFlight => OkayInFlight',
             event = "readyToSend" => event' = "readyToSend"
      PROVE  CreditSomewhere'
  BY <1>1 DEF CreditLives, CreditSomewhere, CreditInMotion, NeverHadCredit
<1>2. ASSUME UNCHANGED toHost PROVE OkayInFlight => OkayInFlight'
  BY <1>2 DEF OkayInFlight
<1>3. ASSUME NEW q \in HostPacket, toHost' = Append(toHost, q)
      PROVE  /\ OkayInFlight => OkayInFlight'
             /\ q.cmd = "OKAY" => OkayInFlight'
  <2>1. toHost \in Seq(HostPacket) /\ Len(toHost) \in Nat
    BY DEF TypeOK
  <2>2. DOMAIN toHost = 1..Len(toHost) /\ DOMAIN toHost' = 1..(Len(toHost) + 1)
    BY <1>3, <2>1, AppendProperties, LenProperties
  <2>3. /\ \A i \in 1..Len(toHost) : toHost'[i] = toHost[i]
        /\ toHost'[Len(toHost) + 1] = q
    BY <1>3, <2>1, AppendProperties
  <2>4. Len(toHost) + 1 \in 1..(Len(toHost) + 1)
    BY <2>1
  <2>5. \A i \in 1..Len(toHost) : i \in 1..(Len(toHost) + 1)
    BY <2>1
  <2> QED
    BY <2>2, <2>3, <2>4, <2>5 DEF OkayInFlight
<1>4. ASSUME NEW c, c # "OKAY", Takes(c) PROVE OkayInFlight => OkayInFlight'
  <2>1. /\ toHost \in Seq(HostPacket) /\ toHost # <<>>
        /\ toHost' = Tail(toHost) /\ Head(toHost).cmd # "OKAY"
    BY <1>4 DEF TypeOK, Takes, First
  <2>2. SUFFICES ASSUME NEW i \in DOMAIN toHost, toHost[i].cmd = "OKAY" PROVE OkayInFlight'
    BY DEF OkayInFlight
  <2>3. i # 1
    BY <2>1, <2>2
  <2>4. i - 1 \in 1..(Len(toHost) - 1) /\ (i - 1) + 1 = i
    BY <2>1, <2>2, <2>3, LenProperties
  <2>5. DOMAIN toHost' = 1..(Len(toHost) - 1) /\ toHost'[i - 1] = toHost[i]
    BY <2>1, <2>4, HeadTailProperties, LenProperties
  <2> QED
    BY <2>2, <2>4, <2>5 DEF OkayInFlight
<1>5. ASSUME UNCHANGED <<mIsOpen, deviceExpired>> PROVE isOpen
  BY <1>5 DEF isOpen
<1>6. ASSUME NEW w \in Writers, NEW p \in Payload, Send(w, p)
      PROVE  CreditSomewhere'
  BY <1>1, <1>2, <1>5, <1>6 DEF Send, device
<1>7. ASSUME NEW w \in Writers, SendLocked(w) PROVE CreditSomewhere'
  <2>1. CASE CanSendNow
    <3>1. sending[w] \in Payload /\ toDevice \in Seq(Payload)
      BY <1>7 DEF SendLocked, TypeOK
    <3>2. toDevice' = Append(toDevice, sending[w])
      BY <1>7, <2>1, Zenon DEF SendLocked
    <3> QED
      BY <3>1, <3>2, AppendProperties DEF CreditSomewhere, CreditInMotion
  <2>2. CASE ~CanSendNow
    <3>1. UNCHANGED <<mReadyToSend, toDevice, unacked, arrived, toHost, event, mIsOpen, deviceExpired>>
      BY <1>7, <2>2, Zenon DEF SendLocked, device
    <3> QED
      BY <1>1, <1>2, <1>5, <3>1
  <2> QED
    BY <2>1, <2>2
<1>8. CASE ProcessReady
  <2>1. isOpen
    BY <1>5, <1>8 DEF ProcessReady
  <2> QED
    BY <1>8, <2>1 DEF ProcessReady, CreditSomewhere, CreditInMotion
<1>9. CASE ReadyToSendLocked
  <2>1. CASE mOutgoingQueue = <<>>
    BY <1>9, <2>1 DEF ReadyToSendLocked, CreditSomewhere
  <2>2. CASE mOutgoingQueue # <<>>
    <3>1. Head(mOutgoingQueue) \in Payload /\ toDevice \in Seq(Payload)
      BY <2>2 DEF TypeOK
    <3>2. toDevice' = Append(toDevice, Head(mOutgoingQueue))
      BY <1>9, <2>2 DEF ReadyToSendLocked
    <3> QED
      BY <3>1, <3>2, AppendProperties DEF CreditSomewhere, CreditInMotion
  <2> QED
    BY <2>1, <2>2
<1>10. CASE ProcessWrite \/ ReceivedLocked
  <2>1. Takes("WRTE") \/ UNCHANGED toHost
    BY <1>10 DEF ProcessWrite, ReceivedLocked, Takes
  <2>2. OkayInFlight => OkayInFlight'
    BY <1>2, <1>4, <2>1
  <2>3. event # "readyToSend"
    BY <1>10 DEF ProcessWrite, ReceivedLocked, Listening
  <2> QED
    BY <1>1, <1>5, <1>10, <2>2, <2>3 DEF ProcessWrite, ReceivedLocked, outgoing, device
<1>11. CASE Notify \/ SendReady \/ SpuriousWake
  BY <1>1, <1>2, <1>5, <1>11 DEF Notify, SendReady, SpuriousWake, outgoing, device
<1>12. CASE ProcessClose \/ OStreamClose \/ DeviceExpires
  BY <1>12 DEF ProcessClose, OStreamClose, DeviceExpires, isOpen
<1>13. ASSUME NEW r \in Readers,
             GetPayloadPop(r) \/ GetPayloadWait(r) \/ GetPayloadClosed(r) \/ Wake(r)
      PROVE  CreditSomewhere'
  BY <1>1, <1>2, <1>5, <1>13
     DEF GetPayloadPop, GetPayloadWait, GetPayloadClosed, Wake, outgoing, device
<1>14. CASE DeviceReceives
  <2>1. unacked' > 0
    BY <1>14 DEF DeviceReceives, TypeOK
  <2> QED
    BY <2>1 DEF CreditSomewhere, CreditInMotion
<1>15. CASE DeviceAcks
  BY <1>3, <1>15 DEF DeviceAcks, HostPacket, CreditSomewhere, CreditInMotion
<1>16. CASE DeviceCloses
  BY <1>1, <1>3, <1>5, <1>16 DEF DeviceCloses, HostPacket, outgoing
<1>17. ASSUME NEW p \in Payload, DeviceWrites(p) PROVE CreditSomewhere'
  BY <1>1, <1>3, <1>5, <1>17 DEF DeviceWrites, HostPacket, outgoing
<1>18. CASE UNCHANGED vars
  BY <1>1, <1>2, <1>5, <1>18 DEF vars, outgoing, device
<1> QED
  BY <1>6, <1>7, <1>8, <1>9, <1>10, <1>11, <1>12, <1>13, <1>14, <1>15, <1>16, <1>17, <1>18
     DEF Next, WriterStep, ReaderStep, EventStep, DeviceStep

(* A payload queued in an open stream waits for an OKAY that is to come,   *)
(* or for nothing if mReadyToSend was FALSE in the fresh stream: then no   *)
(* payload was sent at all.                                                *)
THEOREM NoStall == Spec => []NeverStalled
<1>1. Init => CreditLives
  BY DEF Init, CreditLives, CreditSomewhere, NeverHadCredit
<1>2. CreditInv /\ CreditLives => NeverStalled
  BY DEF CreditInv, CreditLives, CreditSomewhere, NeverStalled
<1> QED
  BY <1>1, <1>2, CreditStep, Typing, Credit, PTL DEF Spec

-----------------------------------------------------------------------------
(* A sequence that starts with t starts with t when it grows.              *)
LEMMA FirstPart ==
    ASSUME NEW S, NEW s \in Seq(S), NEW x \in S, NEW n \in Nat, n <= Len(s)
    PROVE  SubSeq(Append(s, x), 1, n) = SubSeq(s, 1, n)
<1>1. CASE n = 0
  BY <1>1, SubSeqEmpty
<1>2. CASE n # 0
  <2>1. <<x>> \in Seq(S) /\ Append(s, x) = s \o <<x>>
    BY AppendIsConcat
  <2>2. Len(s) \in Nat
    BY LenProperties
  <2>3. 1 \in 1..Len(s) /\ n \in 1..Len(s)
    BY <1>2, <2>2
  <2>4. SubSeq(s \o <<x>>, 1, n) = SubSeq(s, 1, n)
    BY <2>1, <2>3, SubSeqOfConcat1
  <2> QED
    BY <2>1, <2>4
<1> QED
  BY <1>1, <1>2

(* What the readers got and what is queued for them; a WRTE on its way.    *)
Got == consumed \o mIncomingQueue
IsWrite(i) == toHost[i].cmd = "WRTE"
WriteInFlight == \E i \in DOMAIN toHost : IsWrite(i)
OneWrite == \A i, j \in DOMAIN toHost : IsWrite(i) /\ IsWrite(j) => i = j
Answering == event \in {"notify", "sendReady"}
Receiving == isOpen \/ event = "received"

(* The device's permission to write is in one place: deviceReady, its WRTE *)
(* or the event thread that will acknowledge it.  While the stream is open *)
(* the payload of the WRTE on its way is all that the stream has not got.  *)
(* This is the inductive form of InOrder.                                  *)
BackInv ==
    /\ OneWrite
    /\ WriteInFlight => ~deviceReady /\ ~Answering
    /\ Answering => ~deviceReady
    /\ Receiving /\ ~WriteInFlight => Got = deviceWritten
    /\ Receiving => \A i \in DOMAIN toHost :
                        IsWrite(i) => Append(Got, toHost[i].payload) = deviceWritten
    /\ InOrder

(* Places in a sequence of packets after its first was taken.              *)
LEMMA PlacesOfTail ==
    ASSUME NEW S, NEW s \in Seq(S), s # <<>>
    PROVE  /\ 1 \in DOMAIN s /\ s[1] = Head(s)
           /\ \A i \in DOMAIN Tail(s) : i \in Nat /\ i # 0 /\ i + 1 \in DOMAIN s /\ Tail(s)[i] = s[i + 1]
           /\ \A i \in DOMAIN s : i # 1 => /\ i \in Nat /\ i - 1 \in DOMAIN Tail(s)
                                           /\ Tail(s)[i - 1] = s[i]
<1>1. Len(s) \in Nat \ {0} /\ DOMAIN s = 1..Len(s)
  BY EmptySeq, LenProperties
<1>2. /\ Tail(s) \in Seq(S) /\ Len(Tail(s)) = Len(s) - 1
      /\ \A i \in 1..Len(Tail(s)) : Tail(s)[i] = s[i + 1]
  BY HeadTailProperties
<1>3. DOMAIN Tail(s) = 1..(Len(s) - 1)
  BY <1>2, LenProperties
<1>4. 1 \in DOMAIN s /\ s[1] = Head(s)
  BY <1>1
<1>5. \A i \in DOMAIN Tail(s) : i \in Nat /\ i # 0 /\ i + 1 \in DOMAIN s /\ Tail(s)[i] = s[i + 1]
  BY <1>1, <1>2, <1>3
<1>6. ASSUME NEW i \in DOMAIN s, i # 1
      PROVE  i \in Nat /\ i - 1 \in DOMAIN Tail(s) /\ Tail(s)[i - 1] = s[i]
  <2>1. i \in Nat /\ i - 1 \in 1..(Len(s) - 1) /\ (i - 1) + 1 = i
    BY <1>1, <1>6
  <2> QED
    BY <1>2, <1>3, <2>1
<1> QED
  BY <1>4, <1>5, <1>6

(* Places in a sequence of packets to which one was added.                 *)
LEMMA PlacesOfAppend ==
    ASSUME NEW S, NEW s \in Seq(S), NEW q \in S
    PROVE  /\ Len(s) + 1 \in DOMAIN Append(s, q) /\ Append(s, q)[Len(s) + 1] = q
           /\ \A i \in DOMAIN s : i \in DOMAIN Append(s, q) /\ Append(s, q)[i] = s[i]
           /\ \A i \in DOMAIN Append(s, q) : i \in DOMAIN s \/ i = Len(s) + 1
<1>1. Len(s) \in Nat /\ DOMAIN s = 1..Len(s)
  BY LenProperties
<1>2. /\ Append(s, q) \in Seq(S) /\ Len(Append(s, q)) = Len(s) + 1
      /\ \A i \in 1..Len(s) : Append(s, q)[i] = s[i]
      /\ Append(s, q)[Len(s) + 1] = q
  BY AppendProperties
<1>3. DOMAIN Append(s, q) = 1..(Len(s) + 1)
  BY <1>2, LenProperties
<1>4. Len(s) + 1 \in 1..(Len(s) + 1)
  BY <1>1
<1>5. \A i \in 1..Len(s) : i \in 1..(Len(s) + 1)
  BY <1>1
<1>6. \A i \in 1..(Len(s) + 1) : i \in 1..Len(s) \/ i = Len(s) + 1
  BY <1>1
<1> QED
  BY <1>1, <1>2, <1>3, <1>4, <1>5, <1>6, Zenon

(* What was got, in terms of Got.                                          *)
LEMMA InOrderIs ==
    /\ InOrder <=> Len(Got) <= Len(deviceWritten) /\ Got = SubSeq(deviceWritten, 1, Len(Got))
    /\ InOrder' <=> Len(Got') <= Len(deviceWritten') /\ Got' = SubSeq(deviceWritten', 1, Len(Got'))
  BY DEF InOrder, Got

(* The event thread takes the first packet.                                *)
LEMMA TakingWrite ==
    ASSUME TypeOK, BackInv, NEW c, Takes(c)
    PROVE  /\ OneWrite'
           /\ \A i \in DOMAIN toHost' : \E j \in DOMAIN toHost : toHost'[i] = toHost[j]
           /\ c = "WRTE" => ~WriteInFlight' /\ IsWrite(1) /\ 1 \in DOMAIN toHost
           /\ c # "WRTE" /\ WriteInFlight => WriteInFlight'
<1>1. /\ toHost \in Seq(HostPacket) /\ toHost # <<>>
      /\ toHost' = Tail(toHost) /\ Head(toHost).cmd = c
  BY DEF TypeOK, Takes, First
<1>2. \A i \in DOMAIN toHost' : /\ i \in Nat /\ i # 0 /\ i + 1 \in DOMAIN toHost
                                /\ toHost'[i] = toHost[i + 1]
  BY <1>1, PlacesOfTail
<1>3. 1 \in DOMAIN toHost /\ toHost[1].cmd = c
  BY <1>1, PlacesOfTail
<1>4. \A i \in DOMAIN toHost : i # 1 => i - 1 \in DOMAIN toHost' /\ toHost'[i - 1] = toHost[i]
  BY <1>1, PlacesOfTail
<1>5. OneWrite
  BY DEF BackInv
<1>6. OneWrite'
  BY <1>2, <1>5 DEF OneWrite, IsWrite
<1>7. c = "WRTE" => ~WriteInFlight' /\ IsWrite(1)
  BY <1>2, <1>3, <1>5 DEF OneWrite, IsWrite, WriteInFlight
<1>8. ASSUME c # "WRTE", WriteInFlight PROVE WriteInFlight'
  <2>1. PICK i \in DOMAIN toHost : IsWrite(i)
    BY <1>8 DEF WriteInFlight
  <2>2. i # 1
    BY <1>3, <1>8, <2>1 DEF IsWrite
  <2> QED
    BY <1>4, <2>1, <2>2 DEF WriteInFlight, IsWrite
<1> QED
  BY <1>2, <1>3, <1>6, <1>7, <1>8, Zenon

(* The device sends a packet that is no WRTE: the WRTEs stay as they are.  *)
LEMMA SendingOther ==
    ASSUME TypeOK, BackInv, NEW q \in HostPacket, q.cmd # "WRTE", toHost' = Append(toHost, q)
    PROVE  /\ OneWrite'
           /\ WriteInFlight' <=> WriteInFlight
           /\ \A i \in DOMAIN toHost' : IsWrite(i)' => i \in DOMAIN toHost /\ toHost'[i] = toHost[i]
<1>1. toHost \in Seq(HostPacket)
  BY DEF TypeOK
<1>2. /\ toHost'[Len(toHost) + 1] = q
      /\ \A i \in DOMAIN toHost : i \in DOMAIN toHost' /\ toHost'[i] = toHost[i]
      /\ \A i \in DOMAIN toHost' : i \in DOMAIN toHost \/ i = Len(toHost) + 1
  BY <1>1, PlacesOfAppend
<1>3. \A i \in DOMAIN toHost' : IsWrite(i)' => i \in DOMAIN toHost /\ toHost'[i] = toHost[i]
  BY <1>2 DEF IsWrite
<1> QED
  BY <1>2, <1>3 DEF OneWrite, WriteInFlight, IsWrite, BackInv

(* A step that moves no packet and leaves Got as it is.                    *)
LEMMA BackKept ==
    ASSUME BackInv, UNCHANGED <<toHost, deviceReady, deviceWritten>>, Got' = Got,
           isOpen' => isOpen, Receiving' => Receiving, Answering' => Answering
    PROVE  BackInv'
<1>1. OneWrite' /\ (WriteInFlight' <=> WriteInFlight) /\ \A i : IsWrite(i)' <=> IsWrite(i)
  BY DEF BackInv, OneWrite, WriteInFlight, IsWrite
<1>2. InOrder'
  BY InOrderIs DEF BackInv
<1> QED
  BY <1>1, <1>2 DEF BackInv

(* A packet that is no WRTE was taken.                                     *)
LEMMA BackTaken ==
    ASSUME TypeOK, BackInv, NEW c, c # "WRTE", Takes(c),
           UNCHANGED <<deviceReady, deviceWritten>>, Got' = Got,
           isOpen' => isOpen, Receiving' => isOpen, ~Answering'
    PROVE  BackInv'
<1>1. /\ OneWrite'
      /\ \A i \in DOMAIN toHost' : \E j \in DOMAIN toHost : toHost'[i] = toHost[j]
      /\ WriteInFlight => WriteInFlight'
  BY TakingWrite
<1>2. WriteInFlight' => WriteInFlight
  BY <1>1 DEF WriteInFlight, IsWrite
<1>3. InOrder'
  BY InOrderIs DEF BackInv
<1>4. ASSUME Receiving', NEW i \in DOMAIN toHost', IsWrite(i)'
      PROVE  Append(Got', toHost'[i].payload) = deviceWritten'
  <2>1. PICK j \in DOMAIN toHost : toHost'[i] = toHost[j]
    BY <1>1
  <2>2. Receiving /\ IsWrite(j)
    BY <1>4, <2>1 DEF IsWrite, Receiving
  <2> QED
    BY <2>1, <2>2 DEF BackInv
<1> QED
  BY <1>1, <1>2, <1>3, <1>4 DEF BackInv, Receiving

(* A packet that is no WRTE was sent.                                      *)
LEMMA BackSent ==
    ASSUME TypeOK, BackInv, NEW q \in HostPacket, q.cmd # "WRTE", toHost' = Append(toHost, q),
           UNCHANGED <<deviceReady, deviceWritten, event, mIsOpen, deviceExpired>>, Got' = Got
    PROVE  BackInv'
<1>1. /\ OneWrite' /\ (WriteInFlight' <=> WriteInFlight)
      /\ \A i \in DOMAIN toHost' : IsWrite(i)' => i \in DOMAIN toHost /\ toHost'[i] = toHost[i]
  BY SendingOther
<1>2. InOrder'
  BY InOrderIs DEF BackInv
<1>3. (isOpen' <=> isOpen) /\ (Answering' <=> Answering) /\ (Receiving' <=> Receiving)
  BY DEF isOpen, Answering, Receiving
<1>4. ASSUME Receiving', NEW i \in DOMAIN toHost', IsWrite(i)'
      PROVE  Append(Got', toHost'[i].payload) = deviceWritten'
  <2>1. Receiving /\ i \in DOMAIN toHost /\ toHost'[i] = toHost[i] /\ IsWrite(i)
    BY <1>1, <1>3, <1>4 DEF IsWrite
  <2> QED
    BY <2>1 DEF BackInv
<1> QED
  BY <1>1, <1>2, <1>3, <1>4 DEF BackInv

(* A payload moved from the front of the queue to the end of what was got. *)
LEMMA PopKeepsGot == ASSUME TypeOK, NEW r, mIncomingQueue # <<>>, Pop(r) PROVE Got' = Got
  BY MoveHead DEF TypeOK, Pop, Got

(* A step keeps BackInv: what the readers get is what the device wrote.    *)
LEMMA BackStep == TypeOK /\ TypeOK' /\ BackInv /\ [Next]_vars => BackInv'
<1> SUFFICES ASSUME TypeOK, TypeOK', BackInv, [Next]_vars PROVE BackInv'
  OBVIOUS
<1>t. /\ toHost \in Seq(HostPacket) /\ consumed \in Seq(Payload)
      /\ mIncomingQueue \in Seq(Payload) /\ deviceWritten \in Seq(Payload)
      /\ Got \in Seq(Payload)
  BY ConcatProperties DEF TypeOK, Got
<1>o. (UNCHANGED <<mIsOpen, deviceExpired>>) => (isOpen' <=> isOpen)
  BY DEF isOpen
<1>g. (UNCHANGED <<consumed, mIncomingQueue>>) => Got' = Got
  BY DEF Got
<1>1. ASSUME NEW w \in Writers, NEW p \in Payload, Send(w, p) PROVE BackInv'
  BY <1>o, <1>g, <1>1, BackKept DEF Send, incoming, device, Answering, Receiving
<1>2. ASSUME NEW w \in Writers, SendLocked(w) PROVE BackInv'
  BY <1>o, <1>g, <1>2, BackKept DEF SendLocked, incoming, device, Answering, Receiving
<1>3. CASE OStreamClose \/ DeviceExpires
  BY <1>g, <1>3, BackKept DEF OStreamClose, DeviceExpires, isOpen, incoming, device, Answering, Receiving
<1>4. CASE ProcessReady
  BY <1>o, <1>g, <1>4, BackTaken DEF ProcessReady, incoming, device, Answering, Receiving, Listening
<1>5. CASE ReadyToSendLocked
  BY <1>o, <1>g, <1>5, BackKept DEF ReadyToSendLocked, incoming, device, Answering, Receiving
<1>6. CASE ProcessWrite
  <2>1. /\ First("WRTE") /\ ~Answering
        /\ UNCHANGED <<deviceReady, deviceWritten, consumed, mIncomingQueue, mIsOpen, deviceExpired>>
    BY <1>6 DEF ProcessWrite, Listening, Answering, device, incoming
  <2>2. Got' = Got /\ (isOpen' <=> isOpen)
    BY <1>o, <1>g, <2>1
  <2>3. CASE isOpen /\ event' = "received" /\ UNCHANGED toHost
    BY <2>1, <2>2, <2>3, BackKept DEF Answering, Receiving
  <2>4. CASE ~isOpen /\ event' = "sendReady" /\ toHost' = Tail(toHost)
    <3>1. OneWrite' /\ ~WriteInFlight' /\ IsWrite(1) /\ 1 \in DOMAIN toHost
      BY <2>1, <2>4, TakingWrite DEF Takes
    <3>2. ~deviceReady' /\ \A i \in DOMAIN toHost' : ~IsWrite(i)'
      BY <2>1, <3>1 DEF BackInv, WriteInFlight
    <3>3. InOrder'
      BY <2>1, <2>2, InOrderIs DEF BackInv
    <3> QED
      BY <2>2, <2>4, <3>1, <3>2, <3>3 DEF BackInv, Receiving
  <2> QED
    BY <1>6, <2>3, <2>4 DEF ProcessWrite
<1>19. CASE ReceivedLocked
  <2>1. /\ Takes("WRTE") /\ Receiving
        /\ UNCHANGED <<deviceReady, deviceWritten, consumed>>
    BY <1>19 DEF ReceivedLocked, Receiving, device
  <2>2. OneWrite' /\ ~WriteInFlight' /\ IsWrite(1) /\ 1 \in DOMAIN toHost
    BY <2>1, TakingWrite
  <2>3. ~deviceReady' /\ \A i \in DOMAIN toHost' : ~IsWrite(i)'
    BY <2>1, <2>2 DEF BackInv, WriteInFlight
  <2>4. /\ toHost[1] = Head(toHost) /\ Head(toHost) \in HostPacket
        /\ Head(toHost).cmd = "WRTE"
    BY <1>t, <2>1, PlacesOfTail, HeadTailProperties DEF Takes, First
  <2>5. Head(toHost).payload \in Payload
    BY <2>4 DEF HostPacket
  <2>6. mIncomingQueue' = Append(mIncomingQueue, Head(toHost).payload)
    BY <1>19, Zenon DEF ReceivedLocked
  <2>7. Got' = Append(Got, Head(toHost).payload)
    BY <1>t, <2>1, <2>5, <2>6, AppendLast, SMTT(30) DEF Got
  <2>8. Got' = deviceWritten'
    BY <2>1, <2>2, <2>4, <2>7 DEF BackInv
  <2>9. InOrder'
    <3>1. Len(deviceWritten) \in Nat /\ SubSeq(deviceWritten, 1, Len(deviceWritten)) = deviceWritten
      BY <1>t, SubSeqFull, LenProperties
    <3> QED
      BY <2>1, <2>8, <3>1, InOrderIs
  <2> QED
    BY <2>2, <2>3, <2>8, <2>9 DEF BackInv
<1>7. CASE Notify
  BY <1>o, <1>g, <1>7, BackKept DEF Notify, device, Answering, Receiving
<1>8. CASE SendReady
  <2>1. /\ Answering /\ ~Answering' /\ deviceReady' /\ event' = "idle"
        /\ UNCHANGED <<mIsOpen, deviceExpired, consumed, mIncomingQueue, toHost, deviceWritten>>
    BY <1>8 DEF SendReady, Answering, incoming
  <2>2. ~WriteInFlight /\ ~WriteInFlight' /\ \A i \in DOMAIN toHost' : ~IsWrite(i)'
    BY <2>1 DEF BackInv, WriteInFlight, IsWrite
  <2>3. Got' = Got /\ (isOpen' <=> isOpen)
    BY <1>o, <1>g, <2>1
  <2>4. InOrder' /\ OneWrite'
    BY <2>1, <2>3, InOrderIs DEF BackInv, OneWrite, IsWrite
  <2>5. Receiving' => Got' = deviceWritten'
    BY <2>1, <2>2, <2>3 DEF BackInv, Receiving
  <2> QED
    BY <2>1, <2>2, <2>4, <2>5 DEF BackInv
<1>9. CASE ProcessClose
  BY <1>g, <1>9, BackTaken DEF ProcessClose, isOpen, incoming, device, Answering, Receiving, Listening
<1>10. ASSUME NEW r \in Readers, GetPayloadPop(r) PROVE BackInv'
  BY <1>o, <1>10, BackKept, PopKeepsGot DEF GetPayloadPop, device, Answering, Receiving
<1>11. ASSUME NEW r \in Readers, GetPayloadWait(r) \/ GetPayloadClosed(r) PROVE BackInv'
  BY <1>o, <1>g, <1>11, BackKept DEF GetPayloadWait, GetPayloadClosed, device, Answering, Receiving
<1>12. ASSUME NEW r \in Readers, Wake(r) PROVE BackInv'
  <2>1. Got' = Got
    <3>1. CASE mIncomingQueue # <<>> /\ Pop(r)
      BY <3>1, PopKeepsGot
    <3>2. CASE UNCHANGED <<mIncomingQueue, consumed>>
      BY <1>g, <3>2
    <3> QED
      BY <1>12, <3>1, <3>2 DEF Wake
  <2> QED
    BY <1>o, <1>12, <2>1, BackKept DEF Wake, device, Answering, Receiving
<1>13. CASE SpuriousWake
  BY <1>o, <1>g, <1>13, BackKept DEF SpuriousWake, device, Answering, Receiving
<1>14. CASE DeviceReceives
  BY <1>o, <1>g, <1>14, BackKept DEF DeviceReceives, incoming, Answering, Receiving
<1>15. CASE DeviceAcks
  <2>1. Packet("OKAY", NoPayload) \in HostPacket
    BY DEF HostPacket
  <2> QED
    BY <1>g, <1>15, <2>1, BackSent DEF DeviceAcks, incoming
<1>16. CASE DeviceCloses
  <2>1. Packet("CLSE", NoPayload) \in HostPacket
    BY DEF HostPacket
  <2> QED
    BY <1>g, <1>16, <2>1, BackSent DEF DeviceCloses, incoming
<1>17. ASSUME NEW p \in Payload, DeviceWrites(p) PROVE BackInv'
  <2>1. /\ deviceReady /\ ~deviceReady'
        /\ toHost' = Append(toHost, Packet("WRTE", p))
        /\ deviceWritten' = Append(deviceWritten, p)
        /\ UNCHANGED <<mIsOpen, deviceExpired, consumed, mIncomingQueue, event>>
    BY <1>17 DEF DeviceWrites, incoming
  <2>2. Got' = Got /\ (isOpen' <=> isOpen) /\ (Answering' <=> Answering)
        /\ (Receiving' <=> Receiving)
    BY <1>o, <1>g, <2>1 DEF Answering, Receiving
  <2>3. ~WriteInFlight /\ ~Answering /\ \A i \in DOMAIN toHost : ~IsWrite(i)
    BY <2>1 DEF BackInv, WriteInFlight
  <2>4. Packet("WRTE", p) \in HostPacket
    BY DEF HostPacket
  <2>5. /\ Len(toHost) + 1 \in DOMAIN toHost' /\ toHost'[Len(toHost) + 1] = Packet("WRTE", p)
        /\ \A i \in DOMAIN toHost : i \in DOMAIN toHost' /\ toHost'[i] = toHost[i]
        /\ \A i \in DOMAIN toHost' : i \in DOMAIN toHost \/ i = Len(toHost) + 1
    BY <1>t, <2>1, <2>4, PlacesOfAppend
  <2>6. \A i \in DOMAIN toHost' : IsWrite(i)' => i = Len(toHost) + 1
    BY <2>3, <2>5 DEF IsWrite
  <2>7. OneWrite' /\ WriteInFlight'
    BY <2>5, <2>6 DEF OneWrite, WriteInFlight, IsWrite
  <2>8. ASSUME Receiving', NEW i \in DOMAIN toHost', IsWrite(i)'
        PROVE  Append(Got', toHost'[i].payload) = deviceWritten'
    <3>1. Got = deviceWritten
      BY <2>2, <2>3, <2>8 DEF BackInv, Receiving
    <3>2. toHost'[i].payload = p
      BY <2>5, <2>6, <2>8
    <3> QED
      BY <2>1, <2>2, <3>1, <3>2
  <2>9. InOrder'
    <3>1. Len(Got) <= Len(deviceWritten) /\ Got = SubSeq(deviceWritten, 1, Len(Got))
      BY InOrderIs DEF BackInv
    <3>2. Len(Got) \in Nat /\ Len(deviceWritten) \in Nat
      BY <1>t, LenProperties
    <3>3. SubSeq(deviceWritten', 1, Len(Got)) = SubSeq(deviceWritten, 1, Len(Got))
      BY <1>t, <2>1, <3>1, <3>2, FirstPart
    <3>4. Len(deviceWritten') = Len(deviceWritten) + 1
      BY <1>t, <2>1, AppendProperties
    <3>5. Len(Got) <= Len(deviceWritten')
      BY <3>1, <3>2, <3>4
    <3> QED
      BY <2>2, <3>1, <3>3, <3>5, InOrderIs
  <2> QED
    BY <2>1, <2>2, <2>3, <2>7, <2>8, <2>9 DEF BackInv
<1>18. CASE UNCHANGED vars
  BY <1>o, <1>g, <1>18, BackKept DEF vars, incoming, device, Answering, Receiving
<1> QED
  BY <1>1, <1>2, <1>3, <1>4, <1>5, <1>6, <1>7, <1>8, <1>9, <1>10, <1>11, <1>12,
     <1>13, <1>14, <1>15, <1>16, <1>17, <1>18, <1>19
     DEF Next, WriterStep, ReaderStep, EventStep, DeviceStep

(* What the readers returned and what is queued for them is, from its      *)
(* first payload on, what the device wrote.                                *)
THEOREM ReceivedInOrder == Spec => []InOrder
<1>1. Init => BackInv
  <2> SUFFICES ASSUME Init PROVE BackInv
    OBVIOUS
  <2>1. Got = <<>> /\ deviceWritten = <<>> /\ Len(<<>>) = 0
    BY EmptySeq, ConcatEmptySeq DEF Init, Got
  <2>2. SubSeq(deviceWritten, 1, 0) = <<>>
    BY SubSeqEmpty
  <2>3. InOrder
    BY <2>1, <2>2, InOrderIs
  <2>4. \A i \in DOMAIN toHost : FALSE
    BY DEF Init
  <2> QED
    BY <2>1, <2>3, <2>4 DEF Init, BackInv, OneWrite, WriteInFlight, Answering, Receiving
<1>2. BackInv => InOrder
  BY DEF BackInv
<1> QED
  BY <1>1, <1>2, BackStep, Typing, PTL DEF Spec

-----------------------------------------------------------------------------
(* The wakeups to come: the readers that were notified, and the event      *)
(* thread about to call notify_one.                                        *)
AboutToNotify == IF event = "notify" THEN 1 ELSE 0

(* WakeupsCover counts the notified readers: the inductive form adds that  *)
(* they are finitely many, which holds of any set of Readers.              *)
WakeInv ==
    /\ IsFiniteSet(Threads("notified"))
    /\ WakeupsCover

(* The two parts of WakeupsCover, in this state and in the next.           *)
LEMMA WakeupsCoverIs ==
    /\ WakeupsCover <=> (Threads("waiting") # {} =>
           Len(mIncomingQueue) <= Cardinality(Threads("notified")) + AboutToNotify)
    /\ WakeupsCover' <=> (Threads("waiting")' # {} =>
           Len(mIncomingQueue') <= Cardinality(Threads("notified")') + AboutToNotify')
  BY DEF WakeupsCover, AboutToNotify

(* A step that notifies no reader, queues no payload and takes no reader   *)
(* from "notified".                                                        *)
LEMMA WakeKept ==
    ASSUME WakeInv, mIncomingQueue' = mIncomingQueue,
           Threads("notified")' = Threads("notified"),
           Threads("waiting")' \subseteq Threads("waiting"),
           event = "notify" => event' = "notify"
    PROVE  TypeOK => WakeInv'
<1> SUFFICES ASSUME TypeOK PROVE WakeInv'
  OBVIOUS
<1>1. IsFiniteSet(Threads("notified")) /\ Cardinality(Threads("notified")) \in Nat
  BY FS_CardinalityType DEF WakeInv
<1>2. Len(mIncomingQueue) \in Nat /\ AboutToNotify \in Nat /\ AboutToNotify' \in Nat
      /\ AboutToNotify <= AboutToNotify'
  BY LenProperties DEF TypeOK, AboutToNotify
<1> QED
  BY <1>1, <1>2, WakeupsCoverIs DEF WakeInv

(* A step after which the queue is empty, or no reader waits.              *)
LEMMA WakeTrivial ==
    ASSUME IsFiniteSet(Threads("notified")'),
           mIncomingQueue' = <<>> \/ Threads("waiting")' = {}
    PROVE  WakeInv'
<1>1. Cardinality(Threads("notified")') \in Nat
  BY FS_CardinalityType
<1>2. AboutToNotify' \in Nat /\ Len(<<>>) = 0
  BY EmptySeq DEF AboutToNotify
<1> QED
  BY <1>1, <1>2, WakeupsCoverIs DEF WakeInv

(* A reader changes its state: the notified and the waiting ones.          *)
LEMMA ReaderMoves ==
    ASSUME TypeOK, NEW r \in Readers, NEW s \in ReaderStates, reader' = [reader EXCEPT ![r] = s]
    PROVE  \A t : Threads(t)' = IF t = s THEN Threads(t) \cup {r} ELSE Threads(t) \ {r}
  BY DEF TypeOK, Threads

(* notify_one or a spurious wakeup: one waiting reader is notified.        *)
LEMMA OneWoken ==
    ASSUME TypeOK, WakeInv, Woken(reader')
    PROVE  /\ IsFiniteSet(Threads("notified")')
           /\ Cardinality(Threads("notified")') = Cardinality(Threads("notified")) + 1
           /\ Threads("waiting") # {}
<1>1. PICK r \in Readers : reader[r] = "waiting" /\ reader' = [reader EXCEPT ![r] = "notified"]
  BY DEF Woken
<1>2. Threads("notified")' = Threads("notified") \cup {r}
  BY <1>1, ReaderMoves DEF ReaderStates
<1>3. r \notin Threads("notified") /\ r \in Threads("waiting")
  BY <1>1 DEF Threads
<1> QED
  BY <1>2, <1>3, FS_AddElement DEF WakeInv

(* A step keeps the wakeups of the waiting readers.                        *)
LEMMA WakeStep == TypeOK /\ WakeInv /\ [Next]_vars => WakeInv'
<1> SUFFICES ASSUME TypeOK, WakeInv, [Next]_vars PROVE WakeInv'
  OBVIOUS
<1>t. /\ mIncomingQueue \in Seq(Payload) /\ Len(mIncomingQueue) \in Nat
      /\ IsFiniteSet(Threads("notified")) /\ Cardinality(Threads("notified")) \in Nat
      /\ AboutToNotify \in Nat
  BY FS_CardinalityType, LenProperties DEF TypeOK, WakeInv, AboutToNotify
<1>s. (UNCHANGED reader) => \A t : Threads(t)' = Threads(t)
  BY DEF Threads
<1>1. ASSUME UNCHANGED <<mIncomingQueue, reader>>, event = "notify" => event' = "notify"
      PROVE  WakeInv'
  BY <1>s, <1>1, WakeKept
<1>2. ASSUME NEW w \in Writers, SendLocked(w) \/ \E p \in Payload : Send(w, p) PROVE WakeInv'
  BY <1>1, <1>2 DEF Send, SendLocked, incoming
<1>3. CASE ProcessReady \/ ReadyToSendLocked \/ SendReady \/ ProcessClose
  BY <1>1, <1>3 DEF ProcessReady, ReadyToSendLocked, SendReady, ProcessClose, Listening, incoming
<1>4. CASE ProcessWrite
  BY <1>1, <1>4 DEF ProcessWrite, Listening, incoming
<1>20. CASE ReceivedLocked
  <2>1. /\ event = "received" /\ event' = "notify" /\ UNCHANGED reader
        /\ mIncomingQueue' = Append(mIncomingQueue, Head(toHost).payload)
    BY <1>20 DEF ReceivedLocked
  <2>2. Head(toHost) \in HostPacket /\ Head(toHost).cmd = "WRTE"
    BY <1>20, HeadTailProperties DEF ReceivedLocked, Takes, First, TypeOK
  <2>3. Len(mIncomingQueue') = Len(mIncomingQueue) + 1
    BY <1>t, <2>1, <2>2, AppendProperties DEF HostPacket
  <2>4. AboutToNotify = 0 /\ AboutToNotify' = 1
    BY <2>1 DEF AboutToNotify
  <2>5. Threads("waiting")' = Threads("waiting") /\ Threads("notified")' = Threads("notified")
    BY <1>s, <2>1
  <2> QED
    BY <1>t, <2>3, <2>4, <2>5, WakeupsCoverIs DEF WakeInv
<1>5. CASE Notify
  <2>1. event = "notify" /\ event' = "sendReady" /\ UNCHANGED mIncomingQueue
    BY <1>5 DEF Notify
  <2>2. CASE Woken(reader')
    <3>1. /\ IsFiniteSet(Threads("notified")') /\ Threads("waiting") # {}
          /\ Cardinality(Threads("notified")') = Cardinality(Threads("notified")) + 1
      BY <2>2, OneWoken
    <3>2. AboutToNotify = 1 /\ AboutToNotify' = 0
      BY <2>1 DEF AboutToNotify
    <3> QED
      BY <1>t, <2>1, <3>1, <3>2, WakeupsCoverIs DEF WakeInv
  <2>3. CASE UNCHANGED reader /\ \A r \in Readers : reader[r] # "waiting"
    <3>1. Threads("waiting")' = {} /\ Threads("notified")' = Threads("notified")
      BY <1>s, <2>3 DEF Threads
    <3> QED
      BY <1>t, <3>1, WakeTrivial
  <2> QED
    BY <1>5, <2>2, <2>3 DEF Notify
<1>6. ASSUME NEW r \in Readers, GetPayloadPop(r) PROVE WakeInv'
  <2>1. /\ reader[r] \in {"idle", "empty"} /\ mIncomingQueue # <<>>
        /\ reader' = [reader EXCEPT ![r] = "idle"]
        /\ mIncomingQueue' = Tail(mIncomingQueue) /\ UNCHANGED event
    BY <1>6 DEF GetPayloadPop, CallsGetPayload, Pop
  <2>2. Threads("notified")' = Threads("notified") /\ Threads("waiting")' = Threads("waiting")
    <3>1. \A t : t # "idle" => Threads(t)' = Threads(t) \ {r}
      BY <2>1, ReaderMoves DEF ReaderStates
    <3>2. r \notin Threads("notified") /\ r \notin Threads("waiting")
      BY <2>1 DEF Threads
    <3> QED
      BY <3>1, <3>2
  <2>3. Len(mIncomingQueue') = Len(mIncomingQueue) - 1
    BY <1>t, <2>1, HeadTailProperties
  <2>4. AboutToNotify' = AboutToNotify
    BY <2>1 DEF AboutToNotify
  <2> QED
    BY <1>t, <2>2, <2>3, <2>4, WakeupsCoverIs DEF WakeInv
<1>7. ASSUME NEW r \in Readers, GetPayloadWait(r) PROVE WakeInv'
  <2>1. /\ reader[r] \in {"idle", "empty"} /\ mIncomingQueue' = <<>>
        /\ reader' = [reader EXCEPT ![r] = "waiting"]
    BY <1>7 DEF GetPayloadWait, CallsGetPayload
  <2>2. Threads("notified")' = Threads("notified")
    BY <2>1, ReaderMoves DEF ReaderStates, Threads
  <2> QED
    BY <1>t, <2>1, <2>2, WakeTrivial
<1>8. ASSUME NEW r \in Readers, GetPayloadClosed(r) PROVE WakeInv'
  <2>1. /\ reader[r] \in {"idle", "empty"} /\ UNCHANGED <<mIncomingQueue, event>>
        /\ reader' = [reader EXCEPT ![r] = "empty"]
    BY <1>8 DEF GetPayloadClosed, CallsGetPayload
  <2>2. Threads("notified")' = Threads("notified") /\ Threads("waiting")' = Threads("waiting")
    BY <2>1, ReaderMoves DEF ReaderStates, Threads
  <2> QED
    BY <2>1, <2>2, WakeKept
<1>9. ASSUME NEW r \in Readers, Wake(r) PROVE WakeInv'
  <2>1. r \in Threads("notified") /\ UNCHANGED event
    BY <1>9 DEF Wake, Threads
  <2>2. CASE mIncomingQueue # <<>> /\ Pop(r)
    <3>1. /\ reader' = [reader EXCEPT ![r] = "idle"]
          /\ mIncomingQueue' = Tail(mIncomingQueue)
      BY <2>2 DEF Pop
    <3>2. \A t : t # "idle" => Threads(t)' = Threads(t) \ {r}
      BY <3>1, ReaderMoves DEF ReaderStates
    <3>3. /\ IsFiniteSet(Threads("notified")')
          /\ Cardinality(Threads("notified")') = Cardinality(Threads("notified")) - 1
      BY <1>t, <2>1, <3>2, FS_RemoveElement
    <3>4. Len(mIncomingQueue') = Len(mIncomingQueue) - 1
      BY <1>t, <2>2, <3>1, HeadTailProperties
    <3>5. AboutToNotify' = AboutToNotify
      BY <2>1 DEF AboutToNotify
    <3>6. Threads("waiting")' # {} => Threads("waiting") # {}
      BY <3>2
    <3> QED
      BY <1>t, <3>3, <3>4, <3>5, <3>6, WakeupsCoverIs DEF WakeInv
  <2>3. CASE mIncomingQueue = <<>> /\ reader' = [reader EXCEPT ![r] = "waiting"]
             /\ UNCHANGED <<mIncomingQueue, consumed>>
    <3>1. Threads("notified")' = Threads("notified") \ {r}
      BY <2>3, ReaderMoves DEF ReaderStates
    <3>2. IsFiniteSet(Threads("notified")')
      BY <1>t, <2>1, <3>1, FS_RemoveElement
    <3> QED
      BY <2>3, <3>2, WakeTrivial
  <2> QED
    BY <1>9, <2>2, <2>3 DEF Wake
<1>10. CASE SpuriousWake
  <2>1. /\ IsFiniteSet(Threads("notified")') /\ Threads("waiting") # {}
        /\ Cardinality(Threads("notified")') = Cardinality(Threads("notified")) + 1
    BY <1>10, OneWoken DEF SpuriousWake
  <2>2. UNCHANGED mIncomingQueue /\ AboutToNotify' = AboutToNotify
    BY <1>10 DEF SpuriousWake, AboutToNotify
  <2> QED
    BY <1>t, <2>1, <2>2, WakeupsCoverIs DEF WakeInv
<1>11. CASE OStreamClose \/ DeviceExpires
  BY <1>1, <1>11 DEF OStreamClose, DeviceExpires, incoming
<1>12. CASE DeviceReceives \/ DeviceAcks \/ DeviceCloses \/ \E p \in Payload : DeviceWrites(p)
  BY <1>1, <1>12 DEF DeviceReceives, DeviceAcks, DeviceCloses, DeviceWrites, incoming
<1>13. CASE UNCHANGED vars
  BY <1>1, <1>13 DEF vars, incoming
<1> QED
  BY <1>2, <1>3, <1>4, <1>5, <1>6, <1>7, <1>8, <1>9, <1>10, <1>11, <1>12, <1>13, <1>20
     DEF Next, WriterStep, ReaderStep, EventStep, DeviceStep

(* While a reader waits, each queued payload has a woken reader or a       *)
(* notify_one about to come, with any number of readers.                   *)
THEOREM NoLostWakeup == Spec => []WakeupsCover
<1>1. Init => WakeInv
  <2> SUFFICES ASSUME Init PROVE WakeInv
    OBVIOUS
  <2>1. Threads("notified") = {} /\ Threads("waiting") = {}
    BY DEF Init, Threads
  <2> QED
    BY <2>1, FS_EmptySet DEF WakeInv, WakeupsCover
<1>2. WakeInv => WakeupsCover
  BY DEF WakeInv
<1> QED
  BY <1>1, <1>2, WakeStep, Typing, PTL DEF Spec
=============================================================================
