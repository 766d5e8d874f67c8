-------------------------- MODULE UsbReceiveProofs --------------------------
(***************************************************************************)
(* Proofs about UsbReceive, for any sizes, failures and number of packets. *)
(***************************************************************************)
EXTENDS UsbReceive, DataProofs, SequenceTheorems

-----------------------------------------------------------------------------
(* The size of a sequence of USB packets.  SizeOf is a fold, which adds    *)
(* the sizes in some order.                                                *)
SizeStep(s) == [i \in DOMAIN s |-> [v \in Nat |-> s[i].size + v]]
SizeBody(s, g, t) ==
    IF t = {} THEN 0 ELSE LET x == CHOOSE x \in t : TRUE IN s[x].size + g[t \ {x}]

(* The sizes are natural numbers, which may be added in any order.         *)
LEMMA SizeStepType ==
    ASSUME NEW s \in Seq(UsbPackets)
    PROVE  /\ IsFiniteSet(DOMAIN s) /\ \A i \in DOMAIN s : s[i] \in UsbPackets /\ s[i].size \in Nat
           /\ SizeStep(s) \in [DOMAIN s -> [Nat -> Nat]]
           /\ Commutes(SizeStep(s), DOMAIN s, Nat)
<1>1. DOMAIN s = 1..Len(s) /\ Len(s) \in Nat /\ \A i \in DOMAIN s : s[i] \in UsbPackets
  BY ElementOfSeq, LenProperties
<1>2. IsFiniteSet(DOMAIN s)
  BY <1>1, FS_Interval
<1>3. \A i \in DOMAIN s : s[i].size \in Nat
  BY <1>1, ReceiveAssumption DEF UsbPackets, ReceiveAssumption
<1>4. SizeStep(s) \in [DOMAIN s -> [Nat -> Nat]]
  BY <1>3 DEF SizeStep
<1>5. Commutes(SizeStep(s), DOMAIN s, Nat)
  <2> SUFFICES ASSUME NEW c \in DOMAIN s, NEW d \in DOMAIN s, NEW v \in Nat
               PROVE  SizeStep(s)[c][SizeStep(s)[d][v]] = SizeStep(s)[d][SizeStep(s)[c][v]]
    BY DEF Commutes
  <2>1. \A i \in DOMAIN s, w \in Nat : SizeStep(s)[i][w] = s[i].size + w
    BY DEF SizeStep
  <2>2. s[c].size \in Nat /\ s[d].size \in Nat
    BY <1>3
  <2>3. SizeStep(s)[c][SizeStep(s)[d][v]] = s[c].size + (s[d].size + v)
    <3>1. s[d].size + v \in Nat
      BY <2>2
    <3>2. SizeStep(s)[d][v] = s[d].size + v
      BY <2>1
    <3> QED
      BY <2>1, <3>1, <3>2
  <2>4. SizeStep(s)[d][SizeStep(s)[c][v]] = s[d].size + (s[c].size + v)
    <3>1. s[c].size + v \in Nat
      BY <2>2
    <3>2. SizeStep(s)[c][v] = s[c].size + v
      BY <2>1
    <3> QED
      BY <2>1, <3>1, <3>2
  <2> QED
    BY <2>2, <2>3, <2>4
<1> QED
  BY <1>1, <1>2, <1>3, <1>4, <1>5

(* The fold of SizeOf is the one of these steps.                           *)
LEMMA SizeIsFold ==
    ASSUME NEW s \in Seq(UsbPackets)
    PROVE  \E g : /\ IsFold(g, SizeStep(s), 0, DOMAIN s)
                  /\ g \in [SUBSET DOMAIN s -> Nat]
                  /\ SizeOf(s) = g[DOMAIN s]
<1> DEFINE D == DOMAIN s
           h == CHOOSE f : f = [t \in SUBSET D |-> SizeBody(s, f, t)]
<1>1. IsFiniteSet(D) /\ SizeStep(s) \in [D -> [Nat -> Nat]]
  BY SizeStepType
<1>2. PICK g : IsFold(g, SizeStep(s), 0, D)
  BY <1>1, FoldExists
<1>3. g \in [SUBSET D -> Nat]
  <2>1. TypedFold(g, SizeStep(s), 0, D, Nat)
    BY <1>1, <1>2 DEF TypedFold
  <2> HIDE DEF D
  <2> QED
    BY <2>1, FoldType
<1>4. \A i \in D, w \in Nat : SizeStep(s)[i][w] = s[i].size + w
  BY DEF SizeStep
<1>5. g[{}] = 0 /\ \A t \in SUBSET D : t # {} => g[t] = SizeStep(s)[Taken(t)][g[t \ {Taken(t)}]]
  <2> HIDE DEF D
  <2> QED
    BY <1>2, FoldAt
<1>6. ASSUME NEW t \in SUBSET D PROVE g[t] = SizeBody(s, g, t)
  <2>1. CASE t = {}
    BY <1>5, <2>1 DEF SizeBody
  <2>2. CASE t # {}
    <3>1. Taken(t) \in D /\ g[t \ {Taken(t)}] \in Nat
      BY <1>3, <2>2, TakenIsIn
    <3>2. g[t] = s[Taken(t)].size + g[t \ {Taken(t)}]
      BY <1>4, <1>5, <2>2, <3>1
    <3> QED
      BY <2>2, <3>2 DEF SizeBody, Taken
  <2> QED
    BY <2>1, <2>2
<1>7. g = [t \in SUBSET D |-> SizeBody(s, g, t)]
  BY <1>3, <1>6
<1>8. h = [t \in SUBSET D |-> SizeBody(s, h, t)]
  BY <1>7
<1>9. SizeOf(s) = h[D]
  BY DEF SizeOf, FoldSeq, FoldFunction, FoldFunctionOnSet, MapThenFoldSet, SizeBody
<1> HIDE DEF h
<1>10. h[{}] = 0
  BY <1>8 DEF SizeBody
<1>11. ASSUME NEW t \in SUBSET D, t # {}, h[t \ {Taken(t)}] \in Nat
       PROVE  h[t] = SizeStep(s)[Taken(t)][h[t \ {Taken(t)}]]
  <2>1. h[t] = s[Taken(t)].size + h[t \ {Taken(t)}]
    BY <1>8, <1>11 DEF SizeBody, Taken
  <2>2. Taken(t) \in D
    BY <1>11, TakenIsIn
  <2> QED
    BY <1>4, <1>11, <2>1, <2>2
<1> HIDE DEF D
<1>12. \A t \in SUBSET D : h[t] = g[t]
  <2> DEFINE V == Nat
  <2>1. \A t \in SUBSET D : t # {} /\ h[t \ {Taken(t)}] \in V =>
                                h[t] = SizeStep(s)[Taken(t)][h[t \ {Taken(t)}]]
    BY <1>11
  <2>2. Follows(h, SizeStep(s), 0, D, V)
    BY <1>10, <2>1 DEF Follows
  <2>3. TypedFold(g, SizeStep(s), 0, D, V)
    BY <1>1, <1>2 DEF TypedFold
  <2> HIDE DEF V
  <2> QED
    BY <2>2, <2>3, FoldsAgree
<1> QED
  BY <1>2, <1>3, <1>9, <1>12 DEF D

(* Sizes are natural numbers.                                              *)
LEMMA SizeType ==
    ASSUME NEW s \in Seq(UsbPackets)
    PROVE  SizeOf(s) \in Nat
<1>1. PICK g : g \in [SUBSET DOMAIN s -> Nat] /\ SizeOf(s) = g[DOMAIN s]
  BY SizeIsFold
<1> QED
  BY <1>1

(* Nothing has no size.                                                    *)
LEMMA SizeEmpty == SizeOf(<<>>) = 0
<1>1. <<>> \in Seq(UsbPackets) /\ DOMAIN <<>> = {}
  OBVIOUS
<1>2. PICK g : IsFold(g, SizeStep(<<>>), 0, {}) /\ SizeOf(<<>>) = g[{}]
  BY <1>1, SizeIsFold
<1> QED
  BY <1>2, FoldAt

(* A packet at the end adds its size.                                      *)
LEMMA SizeAppend ==
    ASSUME NEW s \in Seq(UsbPackets), NEW u \in UsbPackets
    PROVE  SizeOf(Append(s, u)) = SizeOf(s) + u.size
<1> DEFINE D == DOMAIN s
           n == Len(s) + 1
           r == Append(s, u)
           E == DOMAIN r
<1>1. /\ r \in Seq(UsbPackets) /\ E = D \cup {n} /\ n \notin D /\ r[n] = u
      /\ \A i \in D : r[i] = s[i]
  BY AppendProperties, LenProperties
<1>2. /\ IsFiniteSet(D) /\ SizeStep(s) \in [D -> [Nat -> Nat]]
      /\ \A i \in D, v \in Nat : SizeStep(s)[i][v] = s[i].size + v
  BY SizeStepType DEF SizeStep
<1> HIDE DEF r
<1>3. /\ IsFiniteSet(E) /\ SizeStep(r) \in [E -> [Nat -> Nat]] /\ Commutes(SizeStep(r), E, Nat)
      /\ \A i \in E, v \in Nat : SizeStep(r)[i][v] = r[i].size + v
  BY <1>1, SizeStepType DEF SizeStep
<1>4. PICK g : /\ IsFold(g, SizeStep(s), 0, D) /\ g \in [SUBSET D -> Nat] /\ SizeOf(s) = g[D]
  BY SizeIsFold
<1>5. PICK h : /\ IsFold(h, SizeStep(r), 0, E) /\ h \in [SUBSET E -> Nat] /\ SizeOf(r) = h[E]
  BY <1>1, SizeIsFold
<1> HIDE DEF D, E, n
<1>6. h[E] = SizeStep(r)[n][h[E \ {n}]]
  <2>1. TypedFold(h, SizeStep(r), 0, E, Nat) /\ Commutes(SizeStep(r), E, Nat)
    BY <1>3, <1>5 DEF TypedFold
  <2>2. n \in E
    BY <1>1
  <2> QED
    BY <2>1, <2>2, FoldAny
<1>7. h[{}] = 0 /\ \A t \in SUBSET E : t # {} => h[t] = SizeStep(r)[Taken(t)][h[t \ {Taken(t)}]]
  BY <1>5, FoldAt
<1>8. ASSUME NEW t \in SUBSET D, t # {}
      PROVE  h[t] = SizeStep(s)[Taken(t)][h[t \ {Taken(t)}]]
  <2>1. t \in SUBSET E /\ Taken(t) \in D /\ Taken(t) \in E
    BY <1>1, <1>8, TakenIsIn
  <2>2. h[t \ {Taken(t)}] \in Nat
    BY <1>5, <2>1
  <2>3. h[t] = r[Taken(t)].size + h[t \ {Taken(t)}]
    BY <1>3, <1>7, <1>8, <2>1, <2>2
  <2>4. r[Taken(t)] = s[Taken(t)]
    BY <1>1, <2>1
  <2>5. SizeStep(s)[Taken(t)][h[t \ {Taken(t)}]] = s[Taken(t)].size + h[t \ {Taken(t)}]
    BY <1>2, <2>1, <2>2
  <2> QED
    BY <2>3, <2>4, <2>5
<1>9. h[D] = g[D]
  <2> DEFINE V == Nat
  <2>1. \A t \in SUBSET D : t # {} /\ h[t \ {Taken(t)}] \in V =>
                                h[t] = SizeStep(s)[Taken(t)][h[t \ {Taken(t)}]]
    BY <1>8
  <2>2. Follows(h, SizeStep(s), 0, D, V)
    BY <1>7, <2>1 DEF Follows
  <2>3. TypedFold(g, SizeStep(s), 0, D, V)
    BY <1>2, <1>4 DEF TypedFold
  <2> HIDE DEF V
  <2>4. \A t \in SUBSET D : h[t] = g[t]
    BY <2>2, <2>3, FoldsAgree
  <2> QED
    BY <2>4
<1>10. E \ {n} = D /\ h[D] \in Nat /\ n \in E
  BY <1>1, <1>5
<1>11. h[E] = u.size + h[D]
  <2>1. n \in E /\ h[D] \in Nat /\ h[E] = SizeStep(r)[n][h[D]]
    BY <1>6, <1>10
  <2>2. SizeStep(r)[n][h[D]] = r[n].size + h[D]
    BY <1>3, <2>1
  <2> QED
    BY <1>1, <2>1, <2>2
<1>12. u.size \in Nat
  BY ReceiveAssumption DEF UsbPackets, ReceiveAssumption
<1> QED
  BY <1>4, <1>5, <1>9, <1>10, <1>11, <1>12 DEF r

-----------------------------------------------------------------------------
(* Typing, with what bounds it: the payload fits into its buffer, and the  *)
(* device writes no more packets than it may.                              *)
TypeInv == TypeOK /\ SizeOf(mPayload) <= MaxPayloadSize /\ Len(written) <= MaxPackets

(* The end of a size on the wire: how many full USB packets, and the rest. *)
LEMMA Division ==
    ASSUME NEW size \in Nat
    PROVE  /\ size \div PacketSize \in Nat /\ size % PacketSize \in Nat
           /\ size % PacketSize < PacketSize
           /\ size % PacketSize = size - PacketSize * (size \div PacketSize)
<1>1. PacketSize \in Nat /\ PacketSize > 0
  BY ReceiveAssumption DEF ReceiveAssumption, MessageSize
<1>2. size \div PacketSize \in Int /\ size % PacketSize \in 0..(PacketSize - 1)
  BY <1>1
<1>3. size % PacketSize = size - PacketSize * (size \div PacketSize)
  BY <1>1, SMTT(60)
<1>4. size \div PacketSize >= 0
  BY <1>1
<1> QED
  BY <1>1, <1>2, <1>3, <1>4

(* What the device writes is USB packets.                                  *)
LEMMA OnTheWireType ==
    ASSUME NEW n \in 1..MaxPackets, NEW kind \in Kinds, NEW size \in Nat
    PROVE  OnTheWire(n, kind, size) \in Seq(UsbPackets)
<1> DEFINE Usb(k) == [of |-> n, part |-> kind, size |-> k]
           q == size \div PacketSize
           rest == size % PacketSize
           full == [i \in 1..q |-> Usb(PacketSize)]
           last == IF rest > 0 THEN <<Usb(rest)>> ELSE IF size \in EmptyAfter THEN <<Usb(0)>> ELSE <<>>
<1>1. q \in Nat /\ rest \in 0..PacketSize /\ PacketSize \in 0..PacketSize /\ 0 \in 0..PacketSize
  BY Division, ReceiveAssumption DEF ReceiveAssumption
<1>2. \A k \in 0..PacketSize : Usb(k) \in UsbPackets
  BY DEF UsbPackets
<1>3. OnTheWire(n, kind, size) = full \o last
  BY DEF OnTheWire
<1> HIDE DEF Usb, q, rest
<1>4. full \in Seq(UsbPackets)
  BY <1>1, <1>2, IsASeq
<1>5. last \in Seq(UsbPackets)
  <2>1. Usb(rest) \in UsbPackets /\ Usb(0) \in UsbPackets
    BY <1>1, <1>2
  <2>2. <<Usb(rest)>> \in Seq(UsbPackets) /\ <<Usb(0)>> \in Seq(UsbPackets)
    BY <2>1
  <2>3. <<>> \in Seq(UsbPackets)
    OBVIOUS
  <2> QED
    BY <2>2, <2>3
<1> HIDE DEF full, last
<1> QED
  BY <1>3, <1>4, <1>5, ConcatProperties

(* receive() empties the buffer.                                           *)
LEMMA ReceiveType ==
    ASSUME TypeInv, Receive
    PROVE  /\ transfer' \in Kinds \cup {"none"} /\ mPayload' \in Seq(UsbPackets)
           /\ SizeOf(mPayload') <= MaxPayloadSize /\ unsubmitted' \in BOOLEAN
<1>1. mPayload' = <<>> /\ transfer' \in {"message", "none"} /\ unsubmitted' \in {unsubmitted, TRUE}
  BY DEF Receive, prepareToReceive
<1>4. unsubmitted' \in BOOLEAN
  BY <1>1 DEF TypeInv, TypeOK
<1>2. SizeOf(mPayload') = 0
  BY <1>1, SizeEmpty
<1>3. <<>> \in Seq(UsbPackets)
  OBVIOUS
<1> QED
  BY <1>1, <1>2, <1>3, <1>4, ReceiveAssumption DEF ReceiveAssumption, Kinds

(* finishReceiveTransfer keeps the types: what is heard fits too.          *)
LEMMA FinishType ==
    ASSUME TypeInv, NEW code \in ErrorCodes, finishReceiveTransfer(code)
    PROVE  /\ transfer' \in Kinds \cup {"none"} /\ mPayload' \in Seq(UsbPackets)
           /\ SizeOf(mPayload') <= MaxPayloadSize
           /\ errorCode' \in ErrorCodes /\ dropped' \in Nat /\ unsubmitted' \in BOOLEAN
           /\ heard' \in Seq([message : 0..Garbage, payload : Seq(UsbPackets),
                              size : 0..MaxPayloadSize])
<1>1. Receive
  BY DEF finishReceiveTransfer, AfterListener
<1>2. errorCode' \in ErrorCodes /\ dropped' \in Nat
  BY DEF finishReceiveTransfer, TypeInv, TypeOK
<1>3. heard' \in Seq([message : 0..Garbage, payload : Seq(UsbPackets), size : 0..MaxPayloadSize])
  <2> DEFINE Heard == [message : 0..Garbage, payload : Seq(UsbPackets), size : 0..MaxPayloadSize]
             x == [message |-> mMessage, payload |-> mPayload, size |-> DataSize]
  <2>1. DataSize \in 0..MaxPayloadSize
    BY SizeType, ReceiveAssumption DEF ReceiveAssumption, DataSize, TypeInv, TypeOK
  <2>2. x \in Heard /\ heard \in Seq(Heard)
    BY <2>1 DEF TypeInv, TypeOK
  <2>3. heard' = Append(heard, x) \/ heard' = heard
    BY DEF finishReceiveTransfer
  <2> HIDE DEF x, Heard
  <2>4. heard' \in Seq(Heard)
    BY <2>2, <2>3, AppendProperties
  <2> QED
    BY <2>4 DEF Heard
<1> QED
  BY <1>1, <1>2, <1>3, ReceiveType

(* Every status is translated.                                             *)
LEMMA CodeType == \A s : transferStatusToErrorCode(s) \in ErrorCodes
BY DEF transferStatusToErrorCode, ErrorCodes

(* The types at first, and after each step.                                *)
LEMMA TypeInit == Init => TypeInv
<1> SUFFICES ASSUME Init PROVE TypeInv
  OBVIOUS
<1>1. SizeOf(mPayload) <= MaxPayloadSize
  BY SizeEmpty, ReceiveAssumption DEF Init, ReceiveAssumption
<1>2. Len(written) <= MaxPackets
  BY ReceiveAssumption DEF Init, ReceiveAssumption
<1>3. 0 \in 0..Garbage
  BY ReceiveAssumption DEF ReceiveAssumption, Garbage
<1>4. \A S : <<>> \in Seq(S)
  OBVIOUS
<1>5. TypeOK
  BY <1>3, <1>4, Zenon DEF Init, TypeOK, ErrorCodes, Kinds
<1> QED
  BY <1>1, <1>2, <1>5 DEF TypeInv

(* One step per action.                                                    *)
LEMMA TypeStep == TypeInv /\ [Next]_vars => TypeInv'
<1> SUFFICES ASSUME TypeInv, [Next]_vars PROVE TypeInv'
  OBVIOUS
<1> USE DEF TypeInv
<1>1. ASSUME Setup PROVE TypeInv'
  BY <1>1, ReceiveType DEF Setup, TypeOK, history
<1>2. ASSUME SetPacketListener PROVE TypeInv'
  BY <1>2 DEF SetPacketListener, TypeOK, pack, history
<1>3. ASSUME staticReceiveMessageCallback PROVE TypeInv'
  <2> DEFINE code == transferStatusToErrorCode(ended.status)
  <2>1. code \in ErrorCodes /\ "UNDERLYING_ERROR" \in ErrorCodes
    BY CodeType DEF ErrorCodes
  <2>2. ended' = None
    BY <1>3 DEF staticReceiveMessageCallback, CallbackOf
  <2>3. CASE finishReceiveTransfer(code) /\ UNCHANGED failed
    <3> HIDE DEF code
    <3> QED
      BY <1>3, <2>1, <2>2, <2>3, FinishType DEF staticReceiveMessageCallback, TypeOK
  <2>4. CASE finishReceiveTransfer("UNDERLYING_ERROR") /\ failed' = TRUE
    BY <1>3, <2>1, <2>2, <2>4, FinishType DEF staticReceiveMessageCallback, TypeOK
  <2>5. CASE transfer' = "payload" /\ errorCode' = code /\ UNCHANGED <<mPayload, history>>
    <3> HIDE DEF code
    <3> QED
      BY <1>3, <2>1, <2>2, <2>5 DEF staticReceiveMessageCallback, TypeOK, history, Kinds
  <2> QED
    BY <1>3, <2>3, <2>4, <2>5 DEF staticReceiveMessageCallback
<1>4. ASSUME staticReceivePayloadCallback PROVE TypeInv'
  <2> DEFINE code == transferStatusToErrorCode(ended.status)
  <2>1. code \in ErrorCodes /\ finishReceiveTransfer(code)
    BY <1>4, CodeType DEF staticReceivePayloadCallback
  <2>2. ended' = None
    BY <1>4 DEF staticReceivePayloadCallback, CallbackOf
  <2> HIDE DEF code
  <2> QED
    BY <1>4, <2>1, <2>2, FinishType DEF staticReceivePayloadCallback, TypeOK
<1>5. ASSUME MessageTransferEnds PROVE TypeInv'
  <2>1. /\ Head(wire) \in UsbPackets /\ wire' \in Seq(UsbPackets)
    BY <1>5, HeadTailProperties DEF MessageTransferEnds, TypeOK
  <2>2. mMessage' \in 0..Garbage
    <3>1. Head(wire).of \in 0..Garbage /\ Garbage \in 0..Garbage
      BY <2>1, ReceiveAssumption DEF ReceiveAssumption, UsbPackets, Garbage
    <3> QED
      BY <1>5, <3>1 DEF MessageTransferEnds, TypeOK
  <2>3. transfer' = "none" /\ ended' \in [kind : Kinds, status : Statuses]
    BY <1>5 DEF MessageTransferEnds, Ends, Kinds, Statuses
  <2> QED
    BY <1>5, <2>1, <2>2, <2>3 DEF MessageTransferEnds, TypeOK, history
<1>6. ASSUME PayloadTransferTakes PROVE TypeInv'
  <2>1. Head(wire) \in UsbPackets /\ wire' \in Seq(UsbPackets)
    BY <1>6, HeadTailProperties DEF PayloadTransferTakes, TypeOK
  <2>2. Head(wire).size \in Nat /\ SizeOf(mPayload) \in Nat /\ MaxPayloadSize \in Nat
    <3>1. SizeOf(mPayload) \in Nat
      BY SizeType DEF TypeOK
    <3>2. Head(wire).size \in Nat
      BY <2>1, ReceiveAssumption DEF ReceiveAssumption, UsbPackets
    <3> QED
      BY <3>1, <3>2, ReceiveAssumption DEF ReceiveAssumption
  <2>3. mPayload' \in Seq(UsbPackets) /\ SizeOf(mPayload') <= MaxPayloadSize
    <3>1. CASE UNCHANGED mPayload
      BY <3>1 DEF TypeOK
    <3>2. CASE Head(wire).size <= Room /\ mPayload' = Append(mPayload, Head(wire))
      <4>1. SizeOf(mPayload') = SizeOf(mPayload) + Head(wire).size
        BY <2>1, <3>2, SizeAppend DEF TypeOK
      <4>2. SizeOf(mPayload') <= MaxPayloadSize
        BY <2>2, <3>2, <4>1 DEF Room
      <4>3. mPayload' \in Seq(UsbPackets)
        BY <2>1, <3>2, AppendProperties DEF TypeOK
      <4> QED
        BY <4>2, <4>3
    <3> QED
      BY <1>6, <3>1, <3>2 DEF PayloadTransferTakes
  <2>4. \/ transfer' = "none" /\ ended' \in [kind : Kinds, status : Statuses]
        \/ UNCHANGED <<transfer, ended>>
    BY <1>6 DEF PayloadTransferTakes, Ends, Kinds, Statuses
  <2> QED
    BY <1>6, <2>1, <2>3, <2>4 DEF PayloadTransferTakes, TypeOK, history
<1>7. ASSUME TransferFails PROVE TypeInv'
  <2>1. PICK s \in Fails : Ends(transfer, s) /\ disconnected' = (s = "NO_DEVICE")
                           /\ wire' = IF s = "NO_DEVICE" THEN <<>> ELSE wire
    BY <1>7 DEF TransferFails
  <2>2. transfer \in Kinds /\ s \in Statuses
    BY <1>7, ReceiveAssumption DEF ReceiveAssumption, TransferFails, TypeOK, Statuses
  <2>3. transfer' = "none" /\ ended' \in [kind : Kinds, status : Statuses]
    BY <2>1, <2>2 DEF Ends
  <2>4. wire' \in Seq(UsbPackets)
    BY <2>1 DEF TypeOK
  <2> QED
    BY <1>7, <2>1, <2>3, <2>4 DEF TransferFails, TypeOK, pack
<1>8. ASSUME NEW size \in PayloadSizes, DeviceWrites(size) PROVE TypeInv'
  <2> DEFINE n == Len(written')
             message == OnTheWire(n, "message", MessageSize)
             payload == IF size = 0 THEN <<>> ELSE OnTheWire(n, "payload", size)
  <2>1. written \in Seq(PayloadSizes) /\ written' = Append(written, size)
        /\ Len(written) < MaxPackets
    BY <1>8 DEF DeviceWrites, TypeOK
  <2>2. written' \in Seq(PayloadSizes) /\ n = Len(written) + 1 /\ Len(written) \in Nat
    BY <2>1, AppendProperties, LenProperties
  <2>3. n \in 1..MaxPackets
    BY <2>1, <2>2, ReceiveAssumption DEF ReceiveAssumption
  <2>4. size \in Nat /\ MessageSize \in Nat
    BY ReceiveAssumption DEF ReceiveAssumption, MessageSize
  <2>5. wire' = (wire \o message) \o payload
    BY <1>8 DEF DeviceWrites
  <2> HIDE DEF n
  <2>6. message \in Seq(UsbPackets) /\ payload \in Seq(UsbPackets)
    BY <2>3, <2>4, OnTheWireType DEF Kinds
  <2> HIDE DEF message, payload
  <2>7. wire' \in Seq(UsbPackets)
    BY <2>5, <2>6, ConcatProperties DEF TypeOK
  <2>8. Len(written') <= MaxPackets
    BY <2>3, ReceiveAssumption DEF n, ReceiveAssumption
  <2> QED
    BY <1>8, <2>2, <2>7, <2>8 DEF DeviceWrites, TypeOK, pack, history
<1>9. CASE UNCHANGED vars
  BY <1>9 DEF vars, TypeOK, pack, history
<1> QED
  BY <1>1, <1>2, <1>3, <1>4, <1>5, <1>6, <1>7, <1>8, <1>9 DEF Next, EventStep, Endpoint

(* The buffers hold packets of the wire, the callbacks get the end of a    *)
(* transfer, and a packet is never larger than the payload buffer.         *)
THEOREM Typing == Spec => []TypeOK
<1>1. TypeInv => TypeOK
  BY DEF TypeInv
<1> QED
  BY <1>1, TypeInit, TypeStep, PTL DEF Spec

-----------------------------------------------------------------------------
(* KeepsReceiving.  Whoever takes the end of a transfer submits another    *)
(* one or fails to, and before setup() there is nothing to take.           *)
KeepsInv == IF started THEN transfer = "none" /\ ended = None <=> unsubmitted
            ELSE transfer = "none" /\ ended = None /\ ~unsubmitted

(* receive() is called when nothing is in flight any more.                 *)
LEMMA ReceiveGoesOn ==
    ASSUME KeepsInv, started', ended' = None, Receive,
           ~started \/ transfer # "none" \/ ended # None
    PROVE  KeepsInv'
<1>1. ~unsubmitted
  BY DEF KeepsInv
<1>2. \/ transfer' = "message" /\ unsubmitted' = unsubmitted
      \/ transfer' = "none" /\ unsubmitted' = TRUE
  BY DEF Receive
<1> QED
  BY <1>1, <1>2 DEF KeepsInv

(* One step per action: each end of a transfer has its next transfer.      *)
LEMMA KeepsStep == KeepsInv /\ [Next]_vars => KeepsInv'
<1> SUFFICES ASSUME KeepsInv, [Next]_vars PROVE KeepsInv'
  OBVIOUS
<1>s. started \/ (transfer = "none" /\ ended = None /\ ~unsubmitted)
  BY DEF KeepsInv
<1>1. ASSUME Setup PROVE KeepsInv'
  BY <1>s, <1>1, ReceiveGoesOn DEF Setup
<1>2. ASSUME SetPacketListener PROVE KeepsInv'
  BY <1>2 DEF SetPacketListener, KeepsInv, history
<1>3. ASSUME staticReceiveMessageCallback PROVE KeepsInv'
  <2>1. ended # None /\ ended' = None /\ started /\ started'
    BY <1>s, <1>3 DEF staticReceiveMessageCallback, CallbackOf, None
  <2>2. CASE transfer' = "payload" /\ UNCHANGED unsubmitted
    BY <2>1, <2>2 DEF KeepsInv
  <2>3. CASE \E code : finishReceiveTransfer(code)
    BY <2>1, <2>3, ReceiveGoesOn DEF finishReceiveTransfer, AfterListener
  <2> QED
    BY <1>3, <2>2, <2>3 DEF staticReceiveMessageCallback, history
<1>4. ASSUME staticReceivePayloadCallback PROVE KeepsInv'
  <2>1. ended # None /\ ended' = None /\ started /\ started'
    BY <1>s, <1>4 DEF staticReceivePayloadCallback, CallbackOf, None
  <2> QED
    BY <1>4, <2>1, ReceiveGoesOn DEF staticReceivePayloadCallback, finishReceiveTransfer, AfterListener
<1>5. ASSUME MessageTransferEnds PROVE KeepsInv'
  BY <1>5 DEF MessageTransferEnds, Ends, None, KeepsInv, history
<1>6. ASSUME PayloadTransferTakes PROVE KeepsInv'
  <2>1. transfer = "payload" /\ UNCHANGED <<started, unsubmitted>>
    BY <1>6 DEF PayloadTransferTakes, history
  <2>2. CASE \E status : Ends("payload", status)
    BY <2>1, <2>2 DEF Ends, None, KeepsInv
  <2>3. CASE UNCHANGED <<transfer, ended>>
    BY <2>1, <2>3 DEF KeepsInv
  <2> QED
    BY <1>6, <2>2, <2>3 DEF PayloadTransferTakes
<1>7. ASSUME TransferFails PROVE KeepsInv'
  <2>1. PICK t \in Fails : ended' = [kind |-> transfer, status |-> t]
    BY <1>7 DEF TransferFails, Ends
  <2>2. ended' # None
    BY <1>7, <2>1 DEF TransferFails, None
  <2> QED
    BY <1>7, <2>2 DEF TransferFails, KeepsInv
<1>8. ASSUME NEW size \in PayloadSizes, DeviceWrites(size) PROVE KeepsInv'
  BY <1>8 DEF DeviceWrites, KeepsInv, history
<1>9. CASE UNCHANGED vars
  BY <1>9 DEF vars, KeepsInv, history
<1> QED
  BY <1>1, <1>2, <1>3, <1>4, <1>5, <1>6, <1>7, <1>8, <1>9 DEF Next, EventStep, Endpoint

(* The transport reads until a message transfer is not submitted, whatever *)
(* else fails: nobody looks whether receive() went well.                   *)
THEOREM ReadingGoesOn == Spec => []KeepsReceiving
<1>1. Init => KeepsInv
  BY DEF Init, KeepsInv
<1>2. KeepsInv => KeepsReceiving
  BY DEF KeepsInv, KeepsReceiving
<1> QED
  BY <1>1, <1>2, KeepsStep, PTL DEF Spec

-----------------------------------------------------------------------------
(* HeardIsWritten.  It is about payloads whose end the host can see.  Such *)
(* a payload, if it is a multiple of the USB packet, either fills the      *)
(* buffer, and nothing follows it, or an empty packet follows it.          *)
PayloadsEnd == \A size \in PayloadSizes \ {0} :
                   size % PacketSize = 0 => (size \in EmptyAfter <=> size < MaxPayloadSize)

(* Packet n on the wire: the message, and the pieces of the payload.  The  *)
(* last piece is a full one if the payload is bare.                        *)
Message(n) == [of |-> n, part |-> "message", size |-> MessageSize]
Bare(size) == size % PacketSize = 0 /\ size \notin EmptyAfter
Pieces(size) ==
    IF size = 0 THEN 0 ELSE size \div PacketSize + (IF Bare(size) THEN 0 ELSE 1)
PieceSize(size, j) == IF j <= size \div PacketSize THEN PacketSize ELSE size % PacketSize
Count(wr, n) == Pieces(wr[n])
Piece(wr, n, j) == [of |-> n, part |-> "payload", size |-> PieceSize(wr[n], j)]

(* The wire w holds the last pieces of packet m - 1, so many as rest says, *)
(* and then the packets from m on: packet n behind the first at[n] pieces. *)
Placed(w, wr, m, rest, at) ==
    /\ at[m] = rest /\ at[Len(wr) + 1] = Len(w)
    /\ \A i \in 1..rest : w[i] = Piece(wr, m - 1, Count(wr, m - 1) - rest + i)
    /\ \A n \in m..Len(wr) : /\ at[n + 1] = at[n] + 1 + Count(wr, n)
                             /\ w[at[n] + 1] = Message(n)
                             /\ \A j \in 1..Count(wr, n) : w[at[n] + 1 + j] = Piece(wr, n, j)
Laid(w, wr, m, rest) ==
    \E at \in [m..(Len(wr) + 1) -> 0..Len(w)] : Placed(w, wr, m, rest, at)

(* The packets that are done with, and the one that is being read.         *)
Done == dropped + Len(heard)
Reading == /\ mMessage = Done + 1 /\ mMessage \in DOMAIN written
           /\ \A u \in ToSet(mPayload) : u.of = mMessage /\ u.part = "payload"

Between == /\ transfer \in {"message", "none"} /\ ended = None
           /\ transfer = "message" => mPayload = <<>>
           /\ Laid(wire, written, Done + 1, 0)
MessageRead == /\ transfer = "none" /\ ended = [kind |-> "message", status |-> "COMPLETED"]
               /\ mPayload = <<>> /\ Reading
               /\ Laid(wire, written, Done + 2, Count(written, Done + 1))
ReadingPayload == /\ transfer = "payload" /\ ended = None /\ Reading
                  /\ \E rest \in 1..Count(written, Done + 1) :
                        /\ Laid(wire, written, Done + 2, rest)
                        /\ SizeOf(mPayload) = PacketSize * (Count(written, Done + 1) - rest)
PayloadRead == /\ transfer = "none" /\ ended = [kind |-> "payload", status |-> "COMPLETED"]
               /\ Reading /\ SizeOf(mPayload) = written[mMessage]
               /\ Laid(wire, written, Done + 2, 0)

HeardRight ==
    \A i \in DOMAIN heard :
        /\ heard[i].message = dropped + i
        /\ \A u \in ToSet(heard[i].payload) : u.of = heard[i].message /\ u.part = "payload"
        /\ heard[i].message \in DOMAIN written
        /\ heard[i].size = written[heard[i].message]

(* What is right until something fails: all that was heard, and that the   *)
(* wire holds the rest.                                                    *)
InOrder ==
    /\ HeardRight /\ ~disconnected /\ Done <= Len(written)
    /\ Between \/ MessageRead \/ ReadingPayload \/ PayloadRead

(* Nothing is heard before there is a listener, nothing is read before     *)
(* setup().                                                                *)
ReadInv ==
    /\ mPacketListener \/ heard = <<>>
    /\ started \/ (transfer = "none" /\ ended = None)
    /\ ~failed => InOrder

(* How the device writes a packet: the message as one piece, the payload   *)
(* as its full pieces and one that is shorter.                             *)
LEMMA MessageOnTheWire ==
    ASSUME NEW n \in 1..MaxPackets
    PROVE  OnTheWire(n, "message", MessageSize) = <<Message(n)>>
<1>1. PacketSize \in Nat /\ MessageSize \in Nat /\ MessageSize < PacketSize /\ MessageSize > 0
  BY ReceiveAssumption DEF ReceiveAssumption, MessageSize
<1>2. MessageSize % PacketSize = MessageSize /\ MessageSize \div PacketSize = 0
  BY <1>1
<1> DEFINE Usb(k) == [of |-> n, part |-> "message", size |-> k]
           full == [i \in 1..0 |-> Usb(PacketSize)]
<1>3. OnTheWire(n, "message", MessageSize) = full \o <<Usb(MessageSize)>>
  BY <1>1, <1>2 DEF OnTheWire
<1>4. full = <<>>
  OBVIOUS
<1>5. <<>> \o <<Usb(MessageSize)>> = <<Usb(MessageSize)>>
  OBVIOUS
<1> QED
  BY <1>3, <1>4, <1>5 DEF Message

(* How many pieces a payload has.                                          *)
LEMMA PiecesType ==
    ASSUME NEW size \in Nat
    PROVE  /\ Pieces(size) \in Nat /\ (size # 0 => Pieces(size) # 0)
           /\ size # 0 => IF Bare(size) THEN Pieces(size) = size \div PacketSize
                          ELSE Pieces(size) = size \div PacketSize + 1
<1> DEFINE q == size \div PacketSize
           r == size % PacketSize
<1>1. q \in Nat /\ r \in Nat /\ PacketSize \in Nat /\ r = size - PacketSize * q
  BY Division, ReceiveAssumption DEF ReceiveAssumption
<1>2. Pieces(size) = IF size = 0 THEN 0 ELSE q + (IF Bare(size) THEN 0 ELSE 1)
  BY DEF Pieces
<1>3. Bare(size) => r = 0
  BY DEF Bare
<1> HIDE DEF q, r
<1>4. q = 0 => PacketSize * q = 0
  BY <1>1
<1>5. size # 0 /\ Bare(size) => q # 0
  BY <1>1, <1>3, <1>4
<1>6. Pieces(size) \in Nat /\ (size # 0 => Pieces(size) # 0)
  BY <1>1, <1>2, <1>5
<1>7. size # 0 => IF Bare(size) THEN Pieces(size) = q ELSE Pieces(size) = q + 1
  BY <1>1, <1>2
<1> QED
  BY <1>6, <1>7 DEF q

(* ... and how it is written: full pieces, then the rest, which may be     *)
(* empty or left out.                                                      *)
LEMMA PayloadOnTheWire ==
    ASSUME NEW n \in 1..MaxPackets, NEW size \in Nat, size # 0
    PROVE  LET y == OnTheWire(n, "payload", size)
           IN  /\ y \in Seq(UsbPackets) /\ Len(y) = Pieces(size)
               /\ \A j \in 1..Pieces(size) :
                     y[j] = [of |-> n, part |-> "payload", size |-> PieceSize(size, j)]
<1> DEFINE Usb(k) == [of |-> n, part |-> "payload", size |-> k]
           y == OnTheWire(n, "payload", size)
           q == size \div PacketSize
           r == size % PacketSize
           full == [i \in 1..q |-> Usb(PacketSize)]
<1>1. q \in Nat /\ r \in Nat /\ r <= PacketSize /\ PacketSize \in Nat
  BY Division, ReceiveAssumption DEF ReceiveAssumption
<1>2. IF Bare(size) THEN y = full \o <<>> ELSE y = full \o <<Usb(r)>>
  <2>1. CASE r > 0
    <3>1. r # 0
      <4> HIDE DEF r
      <4> QED
        BY <1>1, <2>1
    <3> QED
      BY <2>1, <3>1 DEF OnTheWire, Bare
  <2>2. CASE ~(r > 0)
    <3>1. r = 0
      <4> HIDE DEF r
      <4> QED
        BY <1>1, <2>2
    <3> QED
      BY <2>2, <3>1 DEF OnTheWire, Bare
  <2> QED
    BY <2>1, <2>2
<1>3. Usb(PacketSize) \in UsbPackets /\ Usb(r) \in UsbPackets
  <2> HIDE DEF r
  <2> QED
    BY <1>1 DEF UsbPackets, Kinds
<1>s. /\ \A j : PieceSize(size, j) = IF j <= q THEN PacketSize ELSE r
      /\ IF Bare(size) THEN Pieces(size) = q ELSE Pieces(size) = q + 1
  BY PiecesType DEF PieceSize
<1> HIDE DEF q, r, y, Usb
<1>4. full \in Seq(UsbPackets) /\ Len(full) = q /\ \A i \in 1..q : full[i] = Usb(PacketSize)
  BY <1>1, <1>3, IsASeq
<1>5. <<Usb(r)>> \in Seq(UsbPackets) /\ Len(<<Usb(r)>>) = 1 /\ <<Usb(r)>>[1] = Usb(r)
  BY <1>3
<1> HIDE DEF full
<1>6. CASE Bare(size)
  <2>1. y = full /\ Pieces(size) = q
    BY <1>2, <1>4, <1>6, <1>s, ConcatEmptySeq
  <2>2. \A j \in 1..q : PieceSize(size, j) = PacketSize
    BY <1>1, <1>s
  <2> QED
    BY <1>4, <2>1, <2>2 DEF y, Usb
<1>7. CASE ~Bare(size)
  <2>1. Pieces(size) = q + 1 /\ y = full \o <<Usb(r)>>
    BY <1>2, <1>7, <1>s
  <2>2. /\ y \in Seq(UsbPackets) /\ Len(y) = q + 1
        /\ \A j \in 1..(q + 1) : y[j] = IF j <= q THEN full[j] ELSE <<Usb(r)>>[j - q]
    BY <1>4, <1>5, <2>1, ConcatProperties
  <2>3. ASSUME NEW j \in 1..(q + 1)
        PROVE  y[j] = Usb(PieceSize(size, j))
    <3>1. CASE j <= q
      BY <1>1, <1>4, <1>s, <2>2, <3>1
    <3>2. CASE ~(j <= q)
      <4>1. j - q = 1
        BY <1>1, <3>2
      <4> QED
        BY <1>5, <1>s, <2>2, <3>2, <4>1
    <3> QED
      BY <3>1, <3>2
  <2> QED
    BY <2>1, <2>2, <2>3 DEF y, Usb
<1> QED
  BY <1>6, <1>7

-----------------------------------------------------------------------------
(* The wire, piece by piece.                                               *)
LEMMA CountType ==
    ASSUME NEW wr \in Seq(PayloadSizes), NEW n \in 1..Len(wr)
    PROVE  /\ Count(wr, n) \in Nat /\ wr[n] \in PayloadSizes /\ wr[n] \in Nat
           /\ wr[n] # 0 => Count(wr, n) # 0
<1>1. wr[n] \in PayloadSizes
  BY ElementOfSeq
<1>2. wr[n] \in Nat
  <2>1. PayloadSizes \subseteq Nat
    BY ReceiveAssumption DEF ReceiveAssumption
  <2> QED
    BY <1>1, <2>1
<1> QED
  BY <1>1, <1>2, PiecesType DEF Count

(* Where the pieces of a packet are, ...                                   *)
LEMMA Within ==
    ASSUME NEW l \in Nat, NEW a \in Nat, NEW b \in 0..l, NEW c \in Nat, b = a + 1 + c
    PROVE  a + 1 \in 1..l /\ \A j \in 1..c : a + 1 + j \in 1..l
OBVIOUS

(* At first there is nothing.                                              *)
LEMMA LaidStart == Laid(<<>>, <<>>, 1, 0)
<1> DEFINE at == [n \in 1..1 |-> 0]
<1>1. Len(<<>>) = 0 /\ 0 + 1 = 1 /\ 1..0 = {} /\ at[1] = 0
  OBVIOUS
<1>2. at \in [1..(Len(<<>>) + 1) -> 0..Len(<<>>)]
  BY <1>1
<1> HIDE DEF at
<1>3. Placed(<<>>, <<>>, 1, 0, at)
  BY <1>1 DEF Placed
<1> QED
  BY <1>2, <1>3 DEF Laid

(* The device writes packet n.                                             *)
LEMMA LaidWrites ==
    ASSUME NEW w \in Seq(UsbPackets), NEW wr \in Seq(PayloadSizes),
           NEW size \in PayloadSizes, Len(wr) + 1 \in 1..MaxPackets,
           NEW m \in 1..(Len(wr) + 1), NEW rest \in Nat, rest > 0 => m > 1, Laid(w, wr, m, rest)
    PROVE  LET n == Len(wr) + 1
               x == w \o OnTheWire(n, "message", MessageSize)
                      \o IF size = 0 THEN <<>> ELSE OnTheWire(n, "payload", size)
           IN  Laid(x, Append(wr, size), m, rest)
<1> DEFINE n == Len(wr) + 1
           c == Pieces(size)
           b == IF size = 0 THEN <<>> ELSE OnTheWire(n, "payload", size)
           v == w \o <<Message(n)>>
           x == v \o b
           wr2 == Append(wr, size)
<1>1. size \in Nat /\ c \in Nat
  <2>1. size \in Nat
    BY ReceiveAssumption DEF ReceiveAssumption
  <2> QED
    BY <2>1, PiecesType
<1>2. Len(wr) \in Nat /\ Len(w) \in Nat
  BY LenProperties
<1>3. /\ wr2 \in Seq(PayloadSizes) /\ Len(wr2) = n /\ wr2[n] = size
      /\ \A i \in 1..Len(wr) : wr2[i] = wr[i]
  BY AppendProperties
<1>4. /\ b \in Seq(UsbPackets) /\ Len(b) = c
      /\ \A j \in 1..c : b[j] = [of |-> n, part |-> "payload", size |-> PieceSize(size, j)]
  <2>1. CASE size = 0
    BY <2>1 DEF Pieces
  <2>2. CASE size # 0
    BY <1>1, <2>2, PayloadOnTheWire
  <2> QED
    BY <2>1, <2>2
<1>5. x = w \o OnTheWire(n, "message", MessageSize)
            \o IF size = 0 THEN <<>> ELSE OnTheWire(n, "payload", size)
  BY MessageOnTheWire
<1> HIDE DEF b, c
<1>6. Message(n) \in UsbPackets
  BY ReceiveAssumption DEF ReceiveAssumption, Message, UsbPackets, Kinds, MessageSize
<1>7. /\ v \in Seq(UsbPackets) /\ Len(v) = Len(w) + 1 /\ v[Len(w) + 1] = Message(n)
      /\ \A i \in 1..Len(w) : v[i] = w[i]
  <2> HIDE DEF n
  <2>1. <<Message(n)>> \in Seq(UsbPackets) /\ Len(<<Message(n)>>) = 1
        /\ <<Message(n)>>[1] = Message(n)
    BY <1>6
  <2>2. /\ v \in Seq(UsbPackets) /\ Len(v) = Len(w) + 1
        /\ \A i \in 1..(Len(w) + 1) : v[i] = IF i <= Len(w) THEN w[i]
                                             ELSE <<Message(n)>>[i - Len(w)]
    BY <2>1, ConcatProperties
  <2>3. Len(w) + 1 \in 1..(Len(w) + 1) /\ ~(Len(w) + 1 <= Len(w)) /\ (Len(w) + 1) - Len(w) = 1
    BY <1>2
  <2>4. \A i \in 1..Len(w) : i \in 1..(Len(w) + 1) /\ i <= Len(w)
    BY <1>2
  <2> HIDE DEF v
  <2> QED
    BY <2>1, <2>2, <2>3, <2>4
<1> HIDE DEF v
<1>8. /\ x \in Seq(UsbPackets) /\ Len(x) = Len(w) + 1 + c
      /\ \A i \in 1..(Len(w) + 1) : x[i] = v[i]
      /\ \A j \in 1..c : x[Len(w) + 1 + j] = b[j]
  <2>1. /\ x \in Seq(UsbPackets) /\ Len(x) = Len(v) + Len(b)
        /\ \A i \in 1..(Len(v) + Len(b)) : x[i] = IF i <= Len(v) THEN v[i] ELSE b[i - Len(v)]
    BY <1>4, <1>7, ConcatProperties
  <2>2. Len(x) = Len(w) + 1 + c
    BY <1>4, <1>7, <2>1
  <2>3. \A i \in 1..(Len(w) + 1) : i \in 1..(Len(v) + Len(b)) /\ i <= Len(v)
    BY <1>1, <1>2, <1>4, <1>7
  <2>4. \A j \in 1..c : /\ Len(w) + 1 + j \in 1..(Len(v) + Len(b)) /\ ~(Len(w) + 1 + j <= Len(v))
                        /\ (Len(w) + 1 + j) - Len(v) = j
    BY <1>1, <1>2, <1>4, <1>7
  <2> HIDE DEF x
  <2> QED
    BY <2>1, <2>2, <2>3, <2>4
<1> HIDE DEF x, wr2
<1>9. /\ \A i \in 1..Len(wr) : Count(wr2, i) = Count(wr, i)
      /\ Count(wr2, n) = c
      /\ \A i \in 1..Len(wr) : \A j : Piece(wr2, i, j) = Piece(wr, i, j)
      /\ \A j : Piece(wr2, n, j) = [of |-> n, part |-> "payload", size |-> PieceSize(size, j)]
  <2>1. \A i \in 1..Len(wr) : Count(wr2, i) = Count(wr, i)
    BY <1>3 DEF Count
  <2>2. Count(wr2, n) = c
    BY <1>3 DEF Count, c
  <2> HIDE DEF n
  <2> QED
    BY <1>3, <2>1, <2>2 DEF Piece
<1>10. PICK at \in [m..(Len(wr) + 1) -> 0..Len(w)] : Placed(w, wr, m, rest, at)
  BY DEF Laid
<1> DEFINE to == [i \in m..(n + 1) |-> IF i <= n THEN at[i] ELSE Len(x)]
<1>11. /\ at[m] = rest /\ at[n] = Len(w) /\ rest <= Len(w)
       /\ \A i \in 1..rest : w[i] = Piece(wr, m - 1, Count(wr, m - 1) - rest + i)
       /\ \A i \in m..Len(wr) : /\ at[i] \in 0..Len(w) /\ at[i + 1] \in 0..Len(w)
                                /\ at[i + 1] = at[i] + 1 + Count(wr, i)
                                /\ w[at[i] + 1] = Message(i)
                                /\ \A j \in 1..Count(wr, i) : w[at[i] + 1 + j] = Piece(wr, i, j)
  <2>1. m \in m..(Len(wr) + 1) /\ \A i \in m..Len(wr) : i \in m..(Len(wr) + 1)
                                                        /\ i + 1 \in m..(Len(wr) + 1)
    BY <1>2
  <2>2. at[m] \in 0..Len(w) /\ \A i \in m..Len(wr) : at[i] \in 0..Len(w) /\ at[i + 1] \in 0..Len(w)
    BY <2>1
  <2> QED
    BY <1>2, <1>10, <2>2 DEF Placed
<1>12. to \in [m..(n + 1) -> 0..Len(x)]
  <2>1. \A i \in m..(n + 1) : i <= n => at[i] \in 0..Len(w)
    BY <1>2
  <2>2. 0..Len(w) \subseteq 0..Len(x) /\ Len(x) \in 0..Len(x)
    BY <1>1, <1>2, <1>8
  <2> QED
    BY <2>1, <2>2
<1>13. to[n + 1] = Len(x) /\ \A i \in m..n : to[i] = at[i]
  BY <1>2
<1> HIDE DEF to
<1>14. \A i \in 1..rest : x[i] = Piece(wr2, m - 1, Count(wr2, m - 1) - rest + i)
  <2> SUFFICES ASSUME NEW i \in 1..rest
               PROVE  x[i] = Piece(wr2, m - 1, Count(wr2, m - 1) - rest + i)
    OBVIOUS
  <2>1. m - 1 \in 1..Len(wr) /\ i \in 1..Len(w) /\ i \in 1..(Len(w) + 1)
    BY <1>2, <1>11
  <2>2. x[i] = w[i]
    BY <1>7, <1>8, <2>1
  <2> QED
    BY <1>9, <1>11, <2>1, <2>2
<1>15. ASSUME NEW i \in m..n
       PROVE  /\ to[i + 1] = to[i] + 1 + Count(wr2, i)
              /\ x[to[i] + 1] = Message(i)
              /\ \A j \in 1..Count(wr2, i) : x[to[i] + 1 + j] = Piece(wr2, i, j)
  <2>1. CASE i = n
    <3>1. to[i] = Len(w) /\ to[i + 1] = Len(x) /\ Count(wr2, i) = c
      BY <1>2, <1>9, <1>11, <1>13, <2>1
    <3>2. x[Len(w) + 1] = Message(n)
      <4>1. Len(w) + 1 \in 1..(Len(w) + 1)
        BY <1>2
      <4> HIDE DEF n
      <4> QED
        BY <1>7, <1>8, <4>1
    <3>3. \A j \in 1..c : x[Len(w) + 1 + j] = Piece(wr2, n, j)
      BY <1>4, <1>8, <1>9
    <3> HIDE DEF n
    <3> QED
      BY <1>8, <2>1, <3>1, <3>2, <3>3
  <2>2. CASE i # n
    <3>1. i \in m..Len(wr) /\ i \in 1..Len(wr) /\ i + 1 \in m..n
      BY <1>2, <2>2
    <3>2. to[i] = at[i] /\ to[i + 1] = at[i + 1]
      BY <1>13, <3>1
    <3>3. Count(wr, i) \in Nat
      BY <3>1, CountType
    <3>4. /\ at[i] \in Nat /\ at[i + 1] \in 0..Len(w) /\ at[i + 1] = at[i] + 1 + Count(wr, i)
          /\ w[at[i] + 1] = Message(i)
          /\ \A j \in 1..Count(wr, i) : w[at[i] + 1 + j] = Piece(wr, i, j)
      BY <1>11, <3>1
    <3>5. Count(wr2, i) = Count(wr, i) /\ \A j : Piece(wr2, i, j) = Piece(wr, i, j)
      BY <1>9, <3>1
    <3>6. \A k \in 1..Len(w) : x[k] = w[k]
      BY <1>2, <1>7, <1>8
    <3>7. at[i] + 1 \in 1..Len(w) /\ \A j \in 1..Count(wr, i) : at[i] + 1 + j \in 1..Len(w)
      BY <1>2, <3>3, <3>4, Within
    <3> QED
      BY <3>2, <3>4, <3>5, <3>6, <3>7
  <2> QED
    BY <2>1, <2>2
<1>16. Placed(x, wr2, m, rest, to)
  <2>1. to[m] = rest
    BY <1>2, <1>11, <1>13
  <2> QED
    BY <1>3, <1>13, <1>14, <1>15, <2>1 DEF Placed
<1>17. to \in [m..(Len(wr2) + 1) -> 0..Len(x)]
  BY <1>3, <1>12
<1> QED
  BY <1>5, <1>16, <1>17 DEF Laid, wr2

(* The next message is at the front, if all of the payload before it has   *)
(* been read.                                                              *)
LEMMA LaidMessage ==
    ASSUME NEW w \in Seq(UsbPackets), w # <<>>, NEW wr \in Seq(PayloadSizes),
           NEW m \in 1..(Len(wr) + 1), Laid(w, wr, m, 0)
    PROVE  /\ m \in 1..Len(wr) /\ Head(w) = Message(m)
           /\ Laid(Tail(w), wr, m + 1, Count(wr, m))
<1>1. Len(wr) \in Nat /\ Len(w) \in Nat /\ Len(w) # 0
  BY LenProperties, EmptySeq
<1>2. PICK at \in [m..(Len(wr) + 1) -> 0..Len(w)] : Placed(w, wr, m, 0, at)
  BY DEF Laid
<1>3. at[m] = 0 /\ at[Len(wr) + 1] = Len(w)
  BY <1>2 DEF Placed
<1>4. m \in 1..Len(wr) /\ m \in m..Len(wr)
  BY <1>1, <1>3
<1> DEFINE v == Tail(w)
           to == [n \in (m + 1)..(Len(wr) + 1) |-> at[n] - 1]
<1>5. v \in Seq(UsbPackets) /\ Len(v) = Len(w) - 1 /\ Head(w) = w[1]
      /\ \A i \in 1..(Len(w) - 1) : v[i] = w[i + 1]
  BY HeadTailProperties, LenProperties
<1>6. \A n \in m..Len(wr) : /\ Count(wr, n) \in Nat /\ at[n] \in Nat /\ at[n + 1] \in 0..Len(w)
                            /\ at[n + 1] = at[n] + 1 + Count(wr, n)
                            /\ w[at[n] + 1] = Message(n)
                            /\ \A j \in 1..Count(wr, n) : w[at[n] + 1 + j] = Piece(wr, n, j)
  <2> SUFFICES ASSUME NEW n \in m..Len(wr)
               PROVE  /\ Count(wr, n) \in Nat /\ at[n] \in Nat /\ at[n + 1] \in 0..Len(w)
                      /\ at[n + 1] = at[n] + 1 + Count(wr, n)
                      /\ w[at[n] + 1] = Message(n)
                      /\ \A j \in 1..Count(wr, n) : w[at[n] + 1 + j] = Piece(wr, n, j)
    OBVIOUS
  <2>1. n \in 1..Len(wr) /\ n \in m..(Len(wr) + 1) /\ n + 1 \in m..(Len(wr) + 1)
    BY <1>1
  <2>2. at[n] \in 0..Len(w) /\ at[n + 1] \in 0..Len(w) /\ Count(wr, n) \in Nat
    BY <2>1, CountType
  <2> QED
    BY <1>1, <1>2, <2>2 DEF Placed
<1> HIDE DEF v
<1>7. Head(w) = Message(m)
  <2>1. w[at[m] + 1] = Message(m)
    BY <1>4, <1>6
  <2> QED
    BY <1>3, <1>5, <2>1
<1>8. to \in [(m + 1)..(Len(wr) + 1) -> 0..Len(v)]
  <2> SUFFICES ASSUME NEW n \in (m + 1)..(Len(wr) + 1) PROVE at[n] - 1 \in 0..Len(v)
    OBVIOUS
  <2>1. n - 1 \in m..Len(wr) /\ (n - 1) + 1 = n
    BY <1>1
  <2>2. /\ Count(wr, n - 1) \in Nat /\ at[n - 1] \in Nat /\ at[n] \in 0..Len(w)
        /\ at[n] = at[n - 1] + 1 + Count(wr, n - 1)
    BY <1>6, <2>1
  <2> QED
    BY <1>1, <1>5, <2>2, SMTT(30)
<1>9. \A n \in (m + 1)..(Len(wr) + 1) : to[n] = at[n] - 1
  OBVIOUS
<1> HIDE DEF to
<1>10. at[m + 1] = 1 + Count(wr, m) /\ at[m + 1] \in 0..Len(w) /\ Count(wr, m) \in Nat
  BY <1>3, <1>4, <1>6
<1>11. to[m + 1] = Count(wr, m) /\ to[Len(wr) + 1] = Len(v)
  <2>1. m + 1 \in (m + 1)..(Len(wr) + 1) /\ Len(wr) + 1 \in (m + 1)..(Len(wr) + 1)
    BY <1>1, <1>4
  <2> QED
    <3>1. to[m + 1] = at[m + 1] - 1 /\ to[Len(wr) + 1] = at[Len(wr) + 1] - 1
      BY <1>9, <2>1
    <3>2. to[m + 1] = Count(wr, m)
      BY <1>10, <3>1
    <3> QED
      BY <1>3, <1>5, <3>1, <3>2
<1>12. \A i \in 1..Count(wr, m) :
           v[i] = Piece(wr, (m + 1) - 1, Count(wr, (m + 1) - 1) - Count(wr, m) + i)
  <2> SUFFICES ASSUME NEW i \in 1..Count(wr, m) PROVE v[i] = Piece(wr, m, i)
    <3>1. (m + 1) - 1 = m /\ \A i \in 1..Count(wr, m) : Count(wr, m) - Count(wr, m) + i = i
      BY <1>10
    <3> QED
      BY <3>1
  <2>1. i \in 1..(Len(w) - 1) /\ at[m] + 1 + i = i + 1
    BY <1>1, <1>3, <1>10
  <2>2. w[at[m] + 1 + i] = Piece(wr, m, i)
    BY <1>4, <1>6
  <2> QED
    BY <1>5, <2>1, <2>2
<1>13. ASSUME NEW n \in (m + 1)..Len(wr)
       PROVE  /\ to[n + 1] = to[n] + 1 + Count(wr, n)
              /\ v[to[n] + 1] = Message(n)
              /\ \A j \in 1..Count(wr, n) : v[to[n] + 1 + j] = Piece(wr, n, j)
  <2>1. /\ n \in m..Len(wr) /\ n \in (m + 1)..(Len(wr) + 1) /\ n + 1 \in (m + 1)..(Len(wr) + 1)
        /\ n - 1 \in m..Len(wr) /\ (n - 1) + 1 = n
    BY <1>1
  <2>2. at[n] \in Nat /\ at[n] # 0
    <3>1. Count(wr, n - 1) \in Nat /\ at[n - 1] \in Nat /\ at[n] = at[n - 1] + 1 + Count(wr, n - 1)
      BY <1>6, <2>1
    <3> QED
      BY <3>1
  <2>3. to[n] = at[n] - 1 /\ to[n + 1] = at[n + 1] - 1
    BY <1>9, <2>1
  <2>4. Count(wr, n) \in Nat /\ at[n + 1] \in 0..Len(w) /\ at[n + 1] = at[n] + 1 + Count(wr, n)
    BY <1>6, <2>1
  <2>5. /\ w[at[n] + 1] = Message(n)
        /\ \A j \in 1..Count(wr, n) : w[at[n] + 1 + j] = Piece(wr, n, j)
    BY <1>6, <2>1
  <2>6. /\ to[n] + 1 \in 1..(Len(w) - 1) /\ (to[n] + 1) + 1 = at[n] + 1
        /\ \A j \in 1..Count(wr, n) : /\ to[n] + 1 + j \in 1..(Len(w) - 1)
                                       /\ (to[n] + 1 + j) + 1 = at[n] + 1 + j
        /\ at[n + 1] - 1 = to[n] + 1 + Count(wr, n)
    <3>1. ASSUME NEW t, t = at[n] - 1, NEW a, a = at[n],
                 NEW b, b = at[n + 1], NEW k, k = Count(wr, n)
          PROVE  /\ t + 1 \in 1..(Len(w) - 1) /\ (t + 1) + 1 = a + 1
                 /\ \A j \in 1..k : t + 1 + j \in 1..(Len(w) - 1) /\ (t + 1 + j) + 1 = a + 1 + j
                 /\ b - 1 = t + 1 + k
      <4>1. a \in Nat /\ a # 0 /\ b \in 0..Len(w) /\ k \in Nat /\ b = a + 1 + k /\ t = a - 1
        BY <2>2, <2>4, <3>1
      <4> QED
        BY <1>1, <4>1
    <3> QED
      BY <2>3, <3>1
  <2>7. to[n + 1] = to[n] + 1 + Count(wr, n)
    BY <2>3, <2>6
  <2>8. v[to[n] + 1] = Message(n)
    BY <1>5, <2>5, <2>6
  <2>9. ASSUME NEW j \in 1..Count(wr, n) PROVE v[to[n] + 1 + j] = Piece(wr, n, j)
    <3>1. w[(to[n] + 1 + j) + 1] = Piece(wr, n, j)
      BY <2>5, <2>6
    <3> QED
      BY <1>5, <2>6, <3>1
  <2> QED
    BY <2>7, <2>8, <2>9
<1>14. Placed(v, wr, m + 1, Count(wr, m), to)
  BY <1>11, <1>12, <1>13 DEF Placed
<1> QED
  BY <1>4, <1>7, <1>8, <1>14 DEF Laid, v

(* The next piece of the payload of packet m - 1 is at the front.          *)
LEMMA LaidPiece ==
    ASSUME NEW w \in Seq(UsbPackets), NEW wr \in Seq(PayloadSizes),
           NEW m \in 2..(Len(wr) + 1), NEW rest \in 1..Count(wr, m - 1), Laid(w, wr, m, rest)
    PROVE  /\ Head(w) = Piece(wr, m - 1, Count(wr, m - 1) - rest + 1)
           /\ Laid(Tail(w), wr, m, rest - 1)
<1> DEFINE c == Count(wr, m - 1)
<1>1. Len(wr) \in Nat /\ Len(w) \in Nat
  BY LenProperties
<1>2. PICK at \in [m..(Len(wr) + 1) -> 0..Len(w)] : Placed(w, wr, m, rest, at)
  BY DEF Laid
<1>3. /\ at[m] = rest /\ at[Len(wr) + 1] = Len(w)
      /\ \A i \in 1..rest : w[i] = Piece(wr, m - 1, c - rest + i)
  BY <1>2 DEF Placed
<1>4. c \in Nat /\ rest \in Nat /\ rest > 0
  <2>1. m - 1 \in 1..Len(wr)
    BY <1>1
  <2>2. c \in Nat
    BY <2>1, CountType
  <2> HIDE DEF c
  <2>3. rest \in 1..c
    BY DEF c
  <2> QED
    BY <2>2, <2>3
<1> HIDE DEF c
<1>5. rest <= Len(w) /\ Len(w) # 0 /\ w # <<>>
  <2>1. m \in m..(Len(wr) + 1)
    BY <1>1
  <2>2. at[m] \in 0..Len(w)
    BY <2>1
  <2>3. rest <= Len(w) /\ Len(w) # 0
    BY <1>1, <1>3, <1>4, <2>2
  <2> QED
    BY <2>3
<1> DEFINE v == Tail(w)
           to == [n \in m..(Len(wr) + 1) |-> at[n] - 1]
<1>6. v \in Seq(UsbPackets) /\ Len(v) = Len(w) - 1 /\ Head(w) = w[1]
      /\ \A i \in 1..(Len(w) - 1) : v[i] = w[i + 1]
  BY <1>5, HeadTailProperties, LenProperties
<1> HIDE DEF v
<1>7. \A n \in m..Len(wr) : /\ Count(wr, n) \in Nat /\ at[n] \in Nat /\ at[n + 1] \in 0..Len(w)
                            /\ at[n + 1] = at[n] + 1 + Count(wr, n)
                            /\ w[at[n] + 1] = Message(n)
                            /\ \A j \in 1..Count(wr, n) : w[at[n] + 1 + j] = Piece(wr, n, j)
  <2> SUFFICES ASSUME NEW n \in m..Len(wr)
               PROVE  /\ Count(wr, n) \in Nat /\ at[n] \in Nat /\ at[n + 1] \in 0..Len(w)
                      /\ at[n + 1] = at[n] + 1 + Count(wr, n)
                      /\ w[at[n] + 1] = Message(n)
                      /\ \A j \in 1..Count(wr, n) : w[at[n] + 1 + j] = Piece(wr, n, j)
    OBVIOUS
  <2>1. n \in 1..Len(wr) /\ n \in m..(Len(wr) + 1) /\ n + 1 \in m..(Len(wr) + 1)
    BY <1>1
  <2>2. at[n] \in 0..Len(w) /\ at[n + 1] \in 0..Len(w) /\ Count(wr, n) \in Nat
    BY <2>1, CountType
  <2> QED
    BY <1>1, <1>2, <2>2 DEF Placed
<1>8. \A n \in m..(Len(wr) + 1) : at[n] \in 1..Len(w)
  <2> SUFFICES ASSUME NEW n \in m..(Len(wr) + 1) PROVE at[n] \in 1..Len(w)
    OBVIOUS
  <2>1. CASE n = m
    BY <1>1, <1>3, <1>4, <1>5, <2>1
  <2>2. CASE n # m
    <3>1. n - 1 \in m..Len(wr) /\ (n - 1) + 1 = n
      BY <1>1, <2>2
    <3>2. /\ Count(wr, n - 1) \in Nat /\ at[n - 1] \in Nat /\ at[n] \in 0..Len(w)
          /\ at[n] = at[n - 1] + 1 + Count(wr, n - 1)
      BY <1>7, <3>1
    <3> QED
      BY <1>1, <3>2
  <2> QED
    BY <2>1, <2>2
<1>9. to \in [m..(Len(wr) + 1) -> 0..Len(v)]
  <2> SUFFICES ASSUME NEW n \in m..(Len(wr) + 1) PROVE at[n] - 1 \in 0..Len(v)
    OBVIOUS
  <2>1. at[n] \in 1..Len(w)
    BY <1>8
  <2> QED
    BY <1>1, <1>6, <2>1
<1>10. \A n \in m..(Len(wr) + 1) : to[n] = at[n] - 1
  OBVIOUS
<1> HIDE DEF to
<1>11. to[m] = rest - 1 /\ to[Len(wr) + 1] = Len(v)
  <2>1. m \in m..(Len(wr) + 1) /\ Len(wr) + 1 \in m..(Len(wr) + 1)
    BY <1>1
  <2> QED
    BY <1>3, <1>6, <1>10, <2>1
<1>12. \A i \in 1..(rest - 1) : v[i] = Piece(wr, m - 1, c - (rest - 1) + i)
  <2> SUFFICES ASSUME NEW i \in 1..(rest - 1) PROVE v[i] = Piece(wr, m - 1, c - (rest - 1) + i)
    OBVIOUS
  <2>1. i + 1 \in 1..rest /\ i \in 1..(Len(w) - 1) /\ c - rest + (i + 1) = c - (rest - 1) + i
    BY <1>1, <1>4, <1>5
  <2>2. w[i + 1] = Piece(wr, m - 1, c - rest + (i + 1))
    BY <1>3, <2>1
  <2> QED
    BY <1>6, <2>1, <2>2
<1>13. ASSUME NEW n \in m..Len(wr)
       PROVE  /\ to[n + 1] = to[n] + 1 + Count(wr, n)
              /\ v[to[n] + 1] = Message(n)
              /\ \A j \in 1..Count(wr, n) : v[to[n] + 1 + j] = Piece(wr, n, j)
  <2>1. n \in m..(Len(wr) + 1) /\ n + 1 \in m..(Len(wr) + 1)
    BY <1>1
  <2>2. at[n] \in Nat /\ at[n] # 0
    BY <1>1, <1>8, <2>1
  <2>3. to[n] = at[n] - 1 /\ to[n + 1] = at[n + 1] - 1
    BY <1>10, <2>1
  <2>4. Count(wr, n) \in Nat /\ at[n + 1] \in 0..Len(w) /\ at[n + 1] = at[n] + 1 + Count(wr, n)
    BY <1>7
  <2>5. /\ w[at[n] + 1] = Message(n)
        /\ \A j \in 1..Count(wr, n) : w[at[n] + 1 + j] = Piece(wr, n, j)
    BY <1>7
  <2>6. /\ to[n] + 1 \in 1..(Len(w) - 1) /\ (to[n] + 1) + 1 = at[n] + 1
        /\ \A j \in 1..Count(wr, n) : /\ to[n] + 1 + j \in 1..(Len(w) - 1)
                                       /\ (to[n] + 1 + j) + 1 = at[n] + 1 + j
        /\ at[n + 1] - 1 = to[n] + 1 + Count(wr, n)
    <3>1. ASSUME NEW t, t = at[n] - 1, NEW a, a = at[n],
                 NEW b, b = at[n + 1], NEW k, k = Count(wr, n)
          PROVE  /\ t + 1 \in 1..(Len(w) - 1) /\ (t + 1) + 1 = a + 1
                 /\ \A j \in 1..k : t + 1 + j \in 1..(Len(w) - 1) /\ (t + 1 + j) + 1 = a + 1 + j
                 /\ b - 1 = t + 1 + k
      <4>1. a \in Nat /\ a # 0 /\ b \in 0..Len(w) /\ k \in Nat /\ b = a + 1 + k /\ t = a - 1
        BY <2>2, <2>4, <3>1
      <4> QED
        BY <1>1, <4>1
    <3> QED
      BY <2>3, <3>1
  <2>7. to[n + 1] = to[n] + 1 + Count(wr, n)
    BY <2>3, <2>6
  <2>8. v[to[n] + 1] = Message(n)
    BY <1>6, <2>5, <2>6
  <2>9. ASSUME NEW j \in 1..Count(wr, n) PROVE v[to[n] + 1 + j] = Piece(wr, n, j)
    <3>1. w[(to[n] + 1 + j) + 1] = Piece(wr, n, j)
      BY <2>5, <2>6
    <3> QED
      BY <1>6, <2>6, <3>1
  <2> QED
    BY <2>7, <2>8, <2>9
<1>14. Placed(v, wr, m, rest - 1, to)
  BY <1>11, <1>12, <1>13 DEF Placed, c
<1>15. Head(w) = Piece(wr, m - 1, c - rest + 1)
  BY <1>3, <1>4, <1>6
<1> QED
  BY <1>9, <1>14, <1>15 DEF Laid, v, c

-----------------------------------------------------------------------------
(* The payload transfer takes every piece, waits for more after a full one *)
(* and ends with the last, which is shorter.                               *)
LEMMA PieceFits ==
    ASSUME PayloadsEnd, NEW size \in PayloadSizes, size # 0,
           NEW c, c = Pieces(size), NEW rest \in 1..c,
           NEW sum, sum = PacketSize * (c - rest),
           NEW piece, piece = PieceSize(size, c - rest + 1)
    PROVE  /\ rest = 1 => /\ sum + piece = size /\ piece <= MaxPayloadSize - sum
                          /\ piece < PacketSize \/ piece = MaxPayloadSize - sum
           /\ rest # 1 => /\ piece = PacketSize /\ PacketSize < MaxPayloadSize - sum
                          /\ sum + PacketSize = PacketSize * (c - (rest - 1))
<1> DEFINE q == size \div PacketSize
           r == size % PacketSize
           k == c - rest
<1>1. size \in Nat /\ MaxPayloadSize \in Nat /\ size <= MaxPayloadSize /\ PacketSize \in Nat
  BY ReceiveAssumption DEF ReceiveAssumption
<1>2. q \in Nat /\ r \in Nat /\ r < PacketSize /\ r = size - PacketSize * q
  BY <1>1, Division
<1>3. /\ Bare(size) => r = 0 /\ size = MaxPayloadSize
      /\ ~Bare(size) /\ r = 0 => size < MaxPayloadSize
  BY <1>1 DEF PayloadsEnd, Bare
<1>4. IF Bare(size) THEN c = q ELSE c = q + 1
  BY <1>1, PiecesType
<1>5. piece = IF k + 1 <= q THEN PacketSize ELSE r
  BY DEF PieceSize
<1> HIDE DEF q, r
<1>6. k \in Nat /\ c \in Nat /\ k = c - rest /\ c - (rest - 1) = k + 1
  BY <1>2, <1>4
<1> DEFINE p == PacketSize * q
           s == PacketSize * k
<1>7. p \in Nat /\ s \in Nat /\ sum = s /\ r = size - p
  BY <1>1, <1>2, <1>6
<1>8. ASSUME rest = 1
      PROVE  /\ sum + piece = size /\ piece <= MaxPayloadSize - sum
             /\ piece < PacketSize \/ piece = MaxPayloadSize - sum
  <2>1. CASE Bare(size)
    <3>1. k + 1 = q /\ k + 1 <= q
      BY <1>2, <1>4, <1>6, <1>8, <2>1
    <3>2. p = s + PacketSize
      BY <1>1, <1>2, <1>6, <3>1
    <3>3. piece = PacketSize
      BY <1>5, <3>1
    <3> HIDE DEF p, s
    <3> QED
      BY <1>1, <1>3, <1>7, <2>1, <3>2, <3>3
  <2>2. CASE ~Bare(size)
    <3>1. k = q /\ ~(k + 1 <= q)
      BY <1>2, <1>4, <1>6, <1>8, <2>2
    <3>2. p = s /\ piece = r
      BY <1>5, <3>1
    <3> HIDE DEF p, s
    <3> QED
      BY <1>1, <1>2, <1>7, <3>2
  <2> QED
    BY <2>1, <2>2
<1>9. ASSUME rest # 1
      PROVE  /\ piece = PacketSize /\ PacketSize < MaxPayloadSize - sum
             /\ sum + PacketSize = PacketSize * (k + 1)
  <2>1. PacketSize * (k + 1) = s + PacketSize
    BY <1>1, <1>6
  <2>2. k + 1 <= q /\ (Bare(size) => q - k - 2 \in Nat) /\ q - k - 1 \in Nat
    BY <1>2, <1>4, <1>6, <1>9
  <2>3. piece = PacketSize
    BY <1>5, <2>2
  <2>4. PacketSize * (q - k - 1) = p - s - PacketSize /\ PacketSize * (q - k - 1) \in Nat
    BY <1>1, <1>2, <1>6, <2>2
  <2>5. Bare(size) => /\ PacketSize * (q - k - 2) = p - s - PacketSize - PacketSize
                      /\ PacketSize * (q - k - 2) \in Nat
    BY <1>1, <1>2, <1>6, <2>2
  <2>6. PacketSize > 0
    BY <1>1, <1>2
  <2> HIDE DEF p, s
  <2>7. p - s - PacketSize >= 0 /\ (Bare(size) => p - s - PacketSize - PacketSize >= 0)
    BY <2>4, <2>5
  <2>8. PacketSize < MaxPayloadSize - sum
    BY <1>1, <1>2, <1>3, <1>7, <2>6, <2>7
  <2> QED
    BY <1>7, <2>1, <2>3, <2>8
<1>10. rest # 1 => /\ piece = PacketSize /\ PacketSize < MaxPayloadSize - sum
                   /\ sum + PacketSize = PacketSize * (c - (rest - 1))
  <2> HIDE DEF k
  <2>1. PacketSize * (c - (rest - 1)) = PacketSize * (k + 1)
    BY <1>6
  <2> QED
    BY <1>9, <2>1
<1> QED
  BY <1>8, <1>10

(* A packet is done with: the listener gets it, if there is one, and the   *)
(* next receive() follows.                                                 *)
LEMMA FinishInOrder ==
    ASSUME TypeInv, ReadInv, ~failed, Reading,
           SizeOf(mPayload) = written[mMessage], Laid(wire, written, Done + 2, 0),
           finishReceiveTransfer("OK"), ended' = None,
           UNCHANGED <<mPacketListener, started, wire, disconnected, written>>
    PROVE  InOrder'
<1>1. /\ Len(heard) \in Nat /\ dropped \in Nat /\ DOMAIN heard = 1..Len(heard)
      /\ DOMAIN written = 1..Len(written) /\ Len(written) \in Nat /\ Done \in Nat
  BY LenProperties DEF TypeInv, TypeOK, Done
<1>2. HeardRight /\ ~disconnected
  BY DEF ReadInv, InOrder
<1>3. mMessage = Done + 1 /\ mMessage \in 1..Len(written)
  BY <1>1 DEF Reading
<1>4. HeardRight' /\ Done' = Done + 1
  <2>1. CASE mPacketListener
    <3> DEFINE x == [message |-> mMessage, payload |-> mPayload, size |-> DataSize]
    <3>1. heard' = Append(heard, x) /\ dropped' = dropped
      BY <2>1 DEF finishReceiveTransfer, Hears
    <3>2. /\ x.message = dropped + (Len(heard) + 1)
          /\ \A u \in ToSet(x.payload) : u.of = x.message /\ u.part = "payload"
          /\ x.message \in DOMAIN written /\ x.size = written[x.message]
      BY <1>1 DEF Reading, Done, DataSize
    <3> HIDE DEF x
    <3>3. /\ Len(heard') = Len(heard) + 1 /\ DOMAIN heard' = 1..(Len(heard) + 1)
          /\ heard'[Len(heard) + 1] = x /\ \A i \in 1..Len(heard) : heard'[i] = heard[i]
      BY <3>1, AppendProperties DEF TypeInv, TypeOK
    <3>4. HeardRight'
      <4> SUFFICES ASSUME NEW i \in 1..(Len(heard) + 1)
                   PROVE  /\ heard'[i].message = dropped' + i
                          /\ \A u \in ToSet(heard'[i].payload) :
                                u.of = heard'[i].message /\ u.part = "payload"
                          /\ heard'[i].message \in DOMAIN written'
                          /\ heard'[i].size = written'[heard'[i].message]
        BY <3>3 DEF HeardRight
      <4>1. CASE i = Len(heard) + 1
        BY <3>1, <3>2, <3>3, <4>1
      <4>2. CASE i # Len(heard) + 1
        <5>1. i \in 1..Len(heard) /\ i \in DOMAIN heard
          BY <1>1, <4>2
        <5>2. heard'[i] = heard[i]
          BY <3>3, <5>1
        <5> QED
          BY <1>2, <3>1, <5>1, <5>2 DEF HeardRight
      <4> QED
        BY <4>1, <4>2
    <3>5. Done' = Done + 1
      BY <1>1, <3>1, <3>3 DEF Done
    <3> QED
      BY <3>4, <3>5
  <2>2. CASE ~mPacketListener
    <3>1. heard = <<>> /\ heard' = heard /\ dropped' = dropped + 1
      BY <2>2 DEF finishReceiveTransfer, Hears, ReadInv
    <3>2. HeardRight'
      <4>1. DOMAIN heard' = {}
        BY <3>1
      <4> QED
        BY <4>1 DEF HeardRight
    <3>3. Done' = Done + 1
      BY <1>1, <3>1 DEF Done
    <3> QED
      BY <3>2, <3>3
  <2> QED
    BY <2>1, <2>2
<1>5. mPayload' = <<>> /\ transfer' \in {"message", "none"}
  BY DEF finishReceiveTransfer, AfterListener, Receive, prepareToReceive
<1>6. Done' + 1 = Done + 2 /\ Done' <= Len(written')
  BY <1>1, <1>3, <1>4
<1>7. Between'
  BY <1>5, <1>6 DEF Between
<1> QED
  BY <1>2, <1>4, <1>6, <1>7 DEF InOrder

(* What is heard stays right, and so does the rest, while packets are      *)
(* written.                                                                *)
LEMMA WritesInOrder ==
    ASSUME TypeInv, InOrder, NEW size \in PayloadSizes, DeviceWrites(size)
    PROVE  InOrder'
<1> DEFINE n == Len(written) + 1
           x == wire \o OnTheWire(n, "message", MessageSize)
                     \o IF size = 0 THEN <<>> ELSE OnTheWire(n, "payload", size)
<1>1. /\ written \in Seq(PayloadSizes) /\ wire \in Seq(UsbPackets) /\ Len(written) \in Nat
      /\ DOMAIN written = 1..Len(written) /\ Done \in Nat /\ Done <= Len(written)
  BY LenProperties DEF TypeInv, TypeOK, Done, InOrder
<1>2. written' = Append(written, size) /\ Len(written) < MaxPackets
  BY DEF DeviceWrites
<1>3. /\ Len(written') = n /\ DOMAIN written' = 1..n
      /\ \A i \in 1..Len(written) : i \in DOMAIN written' /\ written'[i] = written[i]
  <2>1. /\ Len(written') = n /\ DOMAIN written' = 1..n
        /\ \A i \in 1..Len(written) : written'[i] = written[i]
    BY <1>1, <1>2, AppendProperties
  <2>2. \A i \in 1..Len(written) : i \in 1..n
    BY <1>1
  <2> QED
    BY <2>1, <2>2
<1>4. wire' = x
  BY <1>3 DEF DeviceWrites
<1>5. /\ UNCHANGED <<pack, transfer, ended, disconnected, history>>
  BY DEF DeviceWrites
<1>6. Done' = Done
  BY <1>5 DEF Done, history
<1>7. ASSUME NEW m \in 1..(Len(written) + 1), NEW rest \in Nat, rest > 0 => m > 1,
             Laid(wire, written, m, rest)
      PROVE  Laid(wire', written', m, rest)
  <2>1. Len(written) + 1 \in 1..MaxPackets
    BY <1>1, <1>2, ReceiveAssumption DEF ReceiveAssumption
  <2>2. Laid(x, Append(written, size), m, rest)
    BY <1>1, <1>7, <2>1, LaidWrites
  <2> QED
    BY <1>2, <1>4, <2>2
<1>8. HeardRight'
  <2> SUFFICES ASSUME NEW i \in DOMAIN heard
               PROVE  /\ heard[i].message = dropped + i
                      /\ \A u \in ToSet(heard[i].payload) :
                            u.of = heard[i].message /\ u.part = "payload"
                      /\ heard[i].message \in DOMAIN written'
                      /\ heard[i].size = written'[heard[i].message]
    BY <1>5 DEF HeardRight, history
  <2>1. /\ heard[i].message = dropped + i
        /\ \A u \in ToSet(heard[i].payload) : u.of = heard[i].message /\ u.part = "payload"
        /\ heard[i].message \in DOMAIN written
        /\ heard[i].size = written[heard[i].message]
    BY DEF InOrder, HeardRight
  <2> QED
    BY <1>1, <1>3, <2>1
<1>9. ASSUME Reading PROVE /\ Reading' /\ Done + 1 \in 1..Len(written) /\ Done + 1 = mMessage
                           /\ Count(written', Done + 1) = Count(written, Done + 1)
                           /\ Count(written, Done + 1) \in Nat
                           /\ written'[mMessage] = written[mMessage]
  <2>1. mMessage = Done + 1 /\ mMessage \in 1..Len(written) /\ mMessage' = mMessage
    BY <1>1, <1>5, <1>9 DEF Reading, pack
  <2>2. mMessage' \in DOMAIN written' /\ written'[mMessage] = written[mMessage]
    BY <1>3, <2>1
  <2>3. Reading'
    BY <1>5, <1>6, <1>9, <2>1, <2>2 DEF Reading, pack
  <2>4. Count(written', Done + 1) = Count(written, Done + 1)
    BY <2>1, <2>2 DEF Count
  <2>5. Count(written, Done + 1) \in Nat
    BY <1>1, <2>1, CountType
  <2> QED
    BY <2>1, <2>2, <2>3, <2>4, <2>5
<1>10. (Between \/ MessageRead \/ ReadingPayload \/ PayloadRead)'
  <2>1. CASE Between
    <3>1. Laid(wire', written', Done + 1, 0)
      BY <1>1, <1>7, <2>1 DEF Between
    <3>2. Between'
      BY <1>5, <1>6, <2>1, <3>1 DEF Between, pack
    <3> QED
      BY <3>2
  <2>2. CASE MessageRead
    <3>1. Reading
      BY <2>2 DEF MessageRead
    <3>2. Done + 2 \in 1..(Len(written) + 1) /\ Done + 2 > 1
      BY <1>1, <1>9, <3>1
    <3>3. Laid(wire', written', Done + 2, Count(written', Done + 1))
      BY <1>7, <1>9, <2>2, <3>1, <3>2 DEF MessageRead
    <3>4. MessageRead'
      BY <1>5, <1>6, <1>9, <2>2, <3>1, <3>3 DEF MessageRead, pack
    <3> QED
      BY <3>4
  <2>3. CASE ReadingPayload
    <3>1. Reading
      BY <2>3 DEF ReadingPayload
    <3>2. Done + 2 \in 1..(Len(written) + 1) /\ Done + 2 > 1
      BY <1>1, <1>9, <3>1
    <3>3. PICK rest \in 1..Count(written, Done + 1) :
              /\ Laid(wire, written, Done + 2, rest)
              /\ SizeOf(mPayload) = PacketSize * (Count(written, Done + 1) - rest)
      BY <2>3 DEF ReadingPayload
    <3>4. rest \in Nat
      BY <1>9, <3>1
    <3>5. Laid(wire', written', Done + 2, rest)
      BY <1>7, <3>2, <3>3, <3>4
    <3>6. ReadingPayload'
      BY <1>5, <1>6, <1>9, <2>3, <3>1, <3>3, <3>5 DEF ReadingPayload, pack
    <3> QED
      BY <3>6
  <2>4. CASE PayloadRead
    <3>1. Reading
      BY <2>4 DEF PayloadRead
    <3>2. Done + 2 \in 1..(Len(written) + 1) /\ Done + 2 > 1
      BY <1>1, <1>9, <3>1
    <3>3. Laid(wire', written', Done + 2, 0)
      BY <1>7, <2>4, <3>2 DEF PayloadRead
    <3>4. PayloadRead'
      BY <1>5, <1>6, <1>9, <2>4, <3>1, <3>3 DEF PayloadRead, pack
    <3> QED
      BY <3>4
  <2> QED
    BY <2>1, <2>2, <2>3, <2>4 DEF InOrder
<1>11. Done' <= Len(written') /\ ~disconnected'
  <2>1. Done <= n
    BY <1>1
  <2> QED
    BY <1>3, <1>5, <1>6, <2>1 DEF InOrder
<1> QED
  BY <1>8, <1>10, <1>11 DEF InOrder

-----------------------------------------------------------------------------
(* Each step of the reading keeps the order.                               *)
LEMMA MessageEndInOrder ==
    ASSUME TypeInv, InOrder, MessageTransferEnds
    PROVE  InOrder'
<1>1. /\ written \in Seq(PayloadSizes) /\ wire \in Seq(UsbPackets) /\ Len(written) \in Nat
      /\ DOMAIN written = 1..Len(written) /\ Done \in Nat /\ Done <= Len(written)
  BY LenProperties DEF TypeInv, TypeOK, Done, InOrder
<1>2. /\ transfer = "message" /\ wire # <<>> /\ wire' = Tail(wire)
      /\ UNCHANGED <<mPayload, errorCode, mPacketListener, started, disconnected, written, history>>
  BY DEF MessageTransferEnds
<1>3. Between
  BY <1>2 DEF InOrder, MessageRead, ReadingPayload, PayloadRead
<1>4. Done + 1 \in 1..(Len(written) + 1)
  BY <1>1
<1>5. /\ Done + 1 \in 1..Len(written) /\ Head(wire) = Message(Done + 1)
      /\ Laid(Tail(wire), written, (Done + 1) + 1, Count(written, Done + 1))
  BY <1>1, <1>2, <1>3, <1>4, LaidMessage DEF Between
<1>6. /\ Head(wire).of = Done + 1 /\ Head(wire).part = "message" /\ Head(wire).size = MessageSize
      /\ MessageSize # 0 /\ MessageSize <= MessageSize
  BY <1>5 DEF Message, MessageSize
<1>7. /\ transfer' = "none" /\ ended' = [kind |-> "message", status |-> "COMPLETED"]
      /\ mMessage' = Done + 1
  BY <1>6 DEF MessageTransferEnds, Ends
<1>8. mPayload' = <<>> /\ Done' = Done
  BY <1>2, <1>3 DEF Between, history, Done
<1>9. Reading'
  <2>1. ToSet(<<>>) = {}
    BY DEF ToSet
  <2> QED
    BY <1>1, <1>2, <1>5, <1>7, <1>8, <2>1 DEF Reading
<1>10. (Done + 1) + 1 = Done + 2
  BY <1>1
<1>11. MessageRead'
  BY <1>2, <1>5, <1>7, <1>8, <1>9, <1>10 DEF MessageRead
<1>12. HeardRight' /\ ~disconnected' /\ Done' <= Len(written')
  BY <1>2, <1>8 DEF InOrder, HeardRight, history
<1> QED
  BY <1>11, <1>12 DEF InOrder

(* A piece of the payload: the transfer goes on, or ends with all of it.   *)
LEMMA PayloadTakenInOrder ==
    ASSUME PayloadsEnd, TypeInv, InOrder, PayloadTransferTakes
    PROVE  InOrder'
<1>1. /\ written \in Seq(PayloadSizes) /\ wire \in Seq(UsbPackets) /\ Len(written) \in Nat
      /\ mPayload \in Seq(UsbPackets)
      /\ DOMAIN written = 1..Len(written) /\ Done \in Nat /\ Done <= Len(written)
  BY LenProperties DEF TypeInv, TypeOK, Done, InOrder
<1>2. /\ transfer = "payload" /\ wire # <<>> /\ wire' = Tail(wire)
      /\ UNCHANGED <<mMessage, errorCode, mPacketListener, started, disconnected, written, history>>
  BY DEF PayloadTransferTakes
<1>3. ReadingPayload
  BY <1>2 DEF InOrder, MessageRead, Between, PayloadRead
<1>4. Reading /\ mMessage = Done + 1 /\ mMessage \in 1..Len(written) /\ ended = None
  BY <1>1, <1>3 DEF ReadingPayload, Reading
<1> DEFINE c == Count(written, Done + 1)
           u == Head(wire)
           size == written[mMessage]
<1>5. PICK rest \in 1..c : /\ Laid(wire, written, Done + 2, rest)
                           /\ SizeOf(mPayload) = PacketSize * (c - rest)
  BY <1>3 DEF ReadingPayload
<1>6. Done + 2 \in 2..(Len(written) + 1) /\ (Done + 2) - 1 = Done + 1 /\ c \in Nat
      /\ size \in PayloadSizes
  BY <1>1, <1>4, CountType
<1>7. u = Piece(written, Done + 1, c - rest + 1) /\ Laid(wire', written, Done + 2, rest - 1)
  BY <1>1, <1>2, <1>5, <1>6, LaidPiece
<1>8. size # 0 /\ c = Pieces(size)
  BY <1>4, <1>5, <1>6 DEF Count, Pieces
<1> HIDE DEF c
<1>9. u.of = Done + 1 /\ u.part = "payload" /\ u.size = PieceSize(size, c - rest + 1)
  BY <1>4, <1>7 DEF Piece
<1>10. u \in UsbPackets
  BY <1>1, <1>2, HeadTailProperties
<1> HIDE DEF u, size
<1>11. /\ rest = 1 => /\ SizeOf(mPayload) + u.size = size
                      /\ u.size <= MaxPayloadSize - SizeOf(mPayload)
                      /\ u.size < PacketSize \/ u.size = MaxPayloadSize - SizeOf(mPayload)
       /\ rest # 1 => /\ u.size = PacketSize /\ PacketSize < MaxPayloadSize - SizeOf(mPayload)
                      /\ SizeOf(mPayload) + PacketSize = PacketSize * (c - (rest - 1))
  BY <1>5, <1>6, <1>8, <1>9, PieceFits
<1>12. SizeOf(mPayload) \in Nat /\ PacketSize \in Nat /\ MaxPayloadSize \in Nat /\ u.size \in Nat
  <2>1. u.size \in 0..PacketSize
    BY <1>10 DEF UsbPackets
  <2>2. PacketSize \in Nat /\ MaxPayloadSize \in Nat
    BY ReceiveAssumption DEF ReceiveAssumption
  <2> QED
    BY <1>1, <2>1, <2>2, SizeType
<1>13. u.size \in Nat /\ u.size <= Room /\ ~(u.size > Room)
  BY <1>11, <1>12 DEF Room
<1>14. /\ mPayload' = Append(mPayload, u)
       /\ IF u.size < PacketSize \/ u.size = Room THEN Ends("payload", "COMPLETED")
          ELSE UNCHANGED <<transfer, ended>>
  BY <1>13 DEF PayloadTransferTakes, u
<1>15. SizeOf(mPayload') = SizeOf(mPayload) + u.size
  BY <1>1, <1>10, <1>14, SizeAppend
<1>16. Done' = Done
  BY <1>2 DEF history, Done
<1>17. Reading'
  <2>1. ToSet(mPayload') = ToSet(mPayload) \cup {u}
    <3>1. /\ Len(mPayload') = Len(mPayload) + 1 /\ DOMAIN mPayload' = 1..(Len(mPayload) + 1)
          /\ mPayload'[Len(mPayload) + 1] = u
          /\ \A i \in 1..Len(mPayload) : mPayload'[i] = mPayload[i]
          /\ DOMAIN mPayload = 1..Len(mPayload) /\ Len(mPayload) \in Nat
      BY <1>1, <1>10, <1>14, AppendProperties, LenProperties
    <3>2. 1..(Len(mPayload) + 1) = 1..Len(mPayload) \cup {Len(mPayload) + 1}
      BY <3>1
    <3> QED
      BY <3>1, <3>2 DEF ToSet
  <2>2. \A v \in ToSet(mPayload') : v.of = mMessage' /\ v.part = "payload"
    BY <1>2, <1>4, <1>9, <2>1 DEF Reading
  <2> QED
    BY <1>1, <1>2, <1>4, <1>16, <2>2 DEF Reading
<1>18. HeardRight' /\ ~disconnected' /\ Done' <= Len(written')
  BY <1>2, <1>16 DEF InOrder, HeardRight, history
<1>19. CASE rest = 1
  <2>1. (u.size < PacketSize \/ u.size = Room) /\ SizeOf(mPayload') = size
    BY <1>11, <1>15, <1>19 DEF Room
  <2>2. transfer' = "none" /\ ended' = [kind |-> "payload", status |-> "COMPLETED"]
    BY <1>14, <2>1 DEF Ends
  <2>3. rest - 1 = 0 /\ size = written'[mMessage']
    BY <1>2, <1>19 DEF size
  <2>4. Laid(wire', written', Done' + 2, 0)
    BY <1>2, <1>7, <1>16, <2>3
  <2>5. PayloadRead'
    BY <1>17, <2>1, <2>2, <2>3, <2>4 DEF PayloadRead
  <2> QED
    BY <1>18, <2>5 DEF InOrder
<1>20. CASE rest # 1
  <2>1. u.size = PacketSize /\ ~(u.size < PacketSize) /\ u.size # Room
    BY <1>11, <1>12, <1>20 DEF Room
  <2>2. transfer' = "payload" /\ ended' = None
    BY <1>2, <1>4, <1>14, <2>1
  <2>3. rest - 1 \in 1..c
    BY <1>5, <1>6, <1>20
  <2>4. SizeOf(mPayload') = PacketSize * (c - (rest - 1))
    BY <1>11, <1>15, <1>20, <2>1
  <2>5. Laid(wire', written', Done' + 2, rest - 1) /\ Count(written', Done' + 1) = c
    BY <1>2, <1>7, <1>16 DEF c
  <2>6. ReadingPayload'
    BY <1>17, <2>2, <2>3, <2>4, <2>5 DEF ReadingPayload
  <2> QED
    BY <1>18, <2>6 DEF InOrder
<1> QED
  BY <1>19, <1>20

(* The callback of a message reads its payload, if it has one.             *)
LEMMA MessageCallbackInOrder ==
    ASSUME TypeInv, ReadInv, ~failed, staticReceiveMessageCallback, ~failed'
    PROVE  InOrder'
<1>1. /\ written \in Seq(PayloadSizes) /\ Len(written) \in Nat /\ Len(written) <= MaxPackets
      /\ DOMAIN written = 1..Len(written) /\ Done \in Nat /\ InOrder
  BY LenProperties DEF TypeInv, TypeOK, Done, ReadInv
<1>2. ended.kind = "message" /\ ended' = None
      /\ UNCHANGED <<mMessage, mPacketListener, started, wire, disconnected, written>>
  BY DEF staticReceiveMessageCallback, CallbackOf
<1>3. MessageRead
  BY <1>1, <1>2 DEF InOrder, Between, ReadingPayload, PayloadRead, None
<1>4. /\ Reading /\ mMessage = Done + 1 /\ mMessage \in 1..Len(written) /\ mPayload = <<>>
      /\ Laid(wire, written, Done + 2, Count(written, Done + 1))
      /\ transferStatusToErrorCode(ended.status) = "OK"
  BY <1>1, <1>3 DEF MessageRead, Reading, transferStatusToErrorCode
<1>5. Announces(mMessage) = {written[mMessage] # 0}
  <2>1. mMessage # 0 /\ mMessage # Garbage
    BY <1>1, <1>4, ReceiveAssumption DEF ReceiveAssumption, Garbage
  <2> QED
    BY <2>1 DEF Announces
<1>6. SizeOf(mPayload) = 0
  BY <1>4, SizeEmpty
<1>7. CASE /\ written[mMessage] # 0 /\ transfer' = "payload"
           /\ UNCHANGED <<mPayload, history>>
  <2> DEFINE c == Count(written, Done + 1)
  <2>1. Done' = Done
    BY <1>7 DEF Done, history
  <2>2. Reading'
    BY <1>2, <1>4, <1>7, <2>1 DEF Reading
  <2>3. c \in Nat /\ c # 0
    BY <1>1, <1>4, <1>7, CountType
  <2> HIDE DEF c
  <2>4. c \in 1..c /\ SizeOf(mPayload') = PacketSize * (c - c)
    <3>1. PacketSize * (c - c) = 0
      BY <2>3, ReceiveAssumption DEF ReceiveAssumption
    <3> QED
      BY <1>6, <1>7, <2>3, <3>1
  <2>5. Laid(wire', written', Done' + 2, c) /\ Count(written', Done' + 1) = c
    BY <1>2, <1>4, <2>1 DEF c
  <2>6. ReadingPayload'
    BY <1>2, <1>7, <2>2, <2>4, <2>5 DEF ReadingPayload
  <2>7. HeardRight' /\ ~disconnected' /\ Done' <= Len(written')
    BY <1>1, <1>2, <1>7, <2>1 DEF InOrder, HeardRight, history
  <2> QED
    BY <2>6, <2>7 DEF InOrder
<1>8. CASE written[mMessage] = 0 /\ finishReceiveTransfer("OK")
  <2>1. SizeOf(mPayload) = written[mMessage] /\ Count(written, Done + 1) = 0
    BY <1>4, <1>6, <1>8 DEF Count, Pieces
  <2>2. Laid(wire, written, Done + 2, 0)
    BY <1>4, <2>1
  <2> QED
    BY <1>2, <1>4, <1>8, <2>1, <2>2, FinishInOrder
<1>9. failed' # TRUE
  OBVIOUS
<1> QED
  BY <1>4, <1>5, <1>7, <1>8, <1>9 DEF staticReceiveMessageCallback

(* The callback of a payload hands the packet on.                          *)
LEMMA PayloadCallbackInOrder ==
    ASSUME TypeInv, ReadInv, ~failed, staticReceivePayloadCallback
    PROVE  InOrder'
<1>1. ended.kind = "payload" /\ ended' = None
      /\ UNCHANGED <<mMessage, mPacketListener, started, wire, disconnected, written>>
  BY DEF staticReceivePayloadCallback, CallbackOf
<1>2. PayloadRead
  BY <1>1 DEF ReadInv, InOrder, Between, ReadingPayload, MessageRead, None
<1>3. transferStatusToErrorCode(ended.status) = "OK"
  BY <1>2 DEF PayloadRead, transferStatusToErrorCode
<1>4. finishReceiveTransfer("OK")
  BY <1>3 DEF staticReceivePayloadCallback
<1> QED
  BY <1>1, <1>2, <1>4, FinishInOrder DEF PayloadRead

-----------------------------------------------------------------------------
(* The invariant at first, ...                                             *)
LEMMA ReadInit == Init => ReadInv
<1> SUFFICES ASSUME Init PROVE ReadInv
  OBVIOUS
<1>1. DOMAIN heard = {} /\ Len(heard) = 0 /\ Len(written) = 0 /\ Done = 0
  BY DEF Init, Done
<1>2. Laid(wire, written, Done + 1, 0)
  <2>1. wire = <<>> /\ written = <<>> /\ Done + 1 = 1
    BY <1>1 DEF Init
  <2> QED
    BY <2>1, LaidStart
<1>3. Between
  BY <1>2 DEF Init, Between
<1>4. HeardRight
  BY <1>1 DEF HeardRight
<1> QED
  BY <1>1, <1>3, <1>4 DEF Init, ReadInv, InOrder

(* Only a listener hears.                                                  *)
LEMMA FinishListens ==
    ASSUME NEW code, finishReceiveTransfer(code), mPacketListener \/ heard = <<>>
    PROVE  mPacketListener \/ heard' = <<>>
BY DEF finishReceiveTransfer, Hears

(* ... and after each step.                                                *)
LEMMA ReadStep ==
    ASSUME PayloadsEnd
    PROVE  TypeInv /\ ReadInv /\ [Next]_vars => ReadInv'
<1> SUFFICES ASSUME TypeInv, ReadInv, [Next]_vars PROVE ReadInv'
  OBVIOUS
<1>1. mPacketListener \/ heard = <<>>
  BY DEF ReadInv
<1>2. started \/ (transfer = "none" /\ ended = None)
  BY DEF ReadInv
<1>3. ~failed => InOrder
  BY DEF ReadInv
<1>4. ASSUME Setup PROVE ReadInv'
  <2>1. /\ mPayload' = <<>> /\ transfer' \in {"message", "none"} /\ started' /\ ended = None
        /\ transfer = "none"
        /\ UNCHANGED <<mMessage, errorCode, ended, mPacketListener, wire, disconnected, written,
                       heard, dropped, failed>>
    BY <1>2, <1>4 DEF Setup, Receive, prepareToReceive
  <2>2. ASSUME ~failed' PROVE InOrder'
    <3>1. InOrder
      BY <1>3, <2>1, <2>2 DEF history
    <3>2. Between
      BY <2>1, <3>1 DEF InOrder, MessageRead, ReadingPayload, PayloadRead, None
    <3>3. Done' = Done
      BY <2>1 DEF Done, history
    <3>4. Between'
      BY <2>1, <3>2, <3>3 DEF Between
    <3>5. HeardRight' /\ ~disconnected' /\ Done' <= Len(written')
      BY <2>1, <3>1, <3>3 DEF InOrder, HeardRight, history
    <3> QED
      BY <3>4, <3>5 DEF InOrder
  <2> QED
    BY <1>1, <2>1, <2>2 DEF ReadInv, history
<1>5. ASSUME SetPacketListener PROVE ReadInv'
  <2>1. UNCHANGED <<pack, transfer, ended, started, wire, disconnected, written, history>>
        /\ mPacketListener'
    BY <1>5 DEF SetPacketListener
  <2>2. InOrder => InOrder'
    BY <2>1 DEF InOrder, HeardRight, Done, Between, MessageRead, ReadingPayload, PayloadRead,
                Reading, pack, history
  <2> QED
    BY <1>2, <1>3, <2>1, <2>2 DEF ReadInv, history
<1>6. ASSUME staticReceiveMessageCallback PROVE ReadInv'
  <2>1. mPacketListener' \/ heard' = <<>>
    BY <1>1, <1>6, FinishListens DEF staticReceiveMessageCallback, history
  <2>2. started'
    <3>1. ended # None
      BY <1>6 DEF staticReceiveMessageCallback, CallbackOf, None
    <3> QED
      BY <1>2, <1>6, <3>1 DEF staticReceiveMessageCallback
  <2>3. ASSUME ~failed' PROVE ~failed
    BY <1>6, <2>3 DEF staticReceiveMessageCallback, history
  <2>4. ASSUME ~failed' PROVE InOrder'
    BY <1>6, <2>3, <2>4, MessageCallbackInOrder
  <2> QED
    BY <2>1, <2>2, <2>4 DEF ReadInv
<1>7. ASSUME staticReceivePayloadCallback PROVE ReadInv'
  <2>1. mPacketListener' \/ heard' = <<>>
    BY <1>1, <1>7, FinishListens DEF staticReceivePayloadCallback
  <2>2. started'
    <3>1. ended # None
      BY <1>7 DEF staticReceivePayloadCallback, CallbackOf, None
    <3> QED
      BY <1>2, <1>7, <3>1 DEF staticReceivePayloadCallback
  <2>3. ASSUME ~failed' PROVE InOrder'
    <3>1. ~failed
      BY <1>7, <2>3 DEF staticReceivePayloadCallback
    <3> QED
      BY <1>7, <3>1, PayloadCallbackInOrder
  <2> QED
    BY <2>1, <2>2, <2>3 DEF ReadInv
<1>8. ASSUME MessageTransferEnds PROVE ReadInv'
  <2>1. transfer # "none" /\ UNCHANGED <<mPacketListener, started, history>>
    BY <1>8 DEF MessageTransferEnds
  <2>2. ~failed => InOrder'
    BY <1>3, <1>8, MessageEndInOrder
  <2> QED
    BY <1>1, <1>2, <2>1, <2>2 DEF ReadInv, history
<1>9. ASSUME PayloadTransferTakes PROVE ReadInv'
  <2>1. transfer # "none" /\ UNCHANGED <<mPacketListener, started, history>>
    BY <1>9 DEF PayloadTransferTakes
  <2>2. ~failed => InOrder'
    BY <1>3, <1>9, PayloadTakenInOrder
  <2> QED
    BY <1>1, <1>2, <2>1, <2>2 DEF ReadInv, history
<1>10. ASSUME TransferFails PROVE ReadInv'
  <2>1. failed' /\ transfer # "none" /\ UNCHANGED <<mPacketListener, started, heard>>
    BY <1>10 DEF TransferFails
  <2> QED
    BY <1>1, <1>2, <2>1 DEF ReadInv
<1>11. ASSUME NEW size \in PayloadSizes, DeviceWrites(size) PROVE ReadInv'
  <2>1. UNCHANGED <<transfer, ended, mPacketListener, started, history>>
    BY <1>11 DEF DeviceWrites
  <2>2. ~failed => InOrder'
    BY <1>3, <1>11, WritesInOrder
  <2> QED
    BY <1>1, <1>2, <2>1, <2>2 DEF ReadInv, history
<1>12. CASE UNCHANGED vars
  <2>1. UNCHANGED <<pack, transfer, ended, mPacketListener, started, wire, disconnected, written,
                    history>>
    BY <1>12 DEF vars
  <2>2. InOrder => InOrder'
    BY <2>1 DEF InOrder, HeardRight, Done, Between, MessageRead, ReadingPayload, PayloadRead,
                Reading, pack, history
  <2> QED
    BY <1>1, <1>2, <1>3, <2>1, <2>2 DEF ReadInv, history
<1> QED
  BY <1>4, <1>5, <1>6, <1>7, <1>8, <1>9, <1>10, <1>11, <1>12 DEF Next, EventStep, Endpoint

(* The packet listener gets what the device wrote, in order, each packet   *)
(* with its own payload and all of it, up to the first failure: if the     *)
(* host can see where a payload ends.                                      *)
THEOREM HeardAsWritten ==
    ASSUME PayloadsEnd
    PROVE  Spec => []HeardIsWritten
<1>1. ReadInv => HeardIsWritten
  <2> SUFFICES ASSUME ReadInv, ~failed PROVE HeardIsWritten
    BY DEF HeardIsWritten
  <2> QED
    BY DEF ReadInv, InOrder, HeardRight, HeardIsWritten
<1>2. TypeInv /\ ReadInv /\ [Next]_vars => ReadInv'
  BY ReadStep
<1> QED
  BY <1>1, <1>2, ReadInit, TypeInit, TypeStep, PTL DEF Spec
=============================================================================
