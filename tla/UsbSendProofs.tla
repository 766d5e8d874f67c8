---------------------------- MODULE UsbSendProofs ---------------------------
(***************************************************************************)
(* Proofs about UsbSend, for any packets, transports and failures.         *)
(***************************************************************************)
EXTENDS UsbSend, SequenceTheorems, TLAPS

-----------------------------------------------------------------------------
(* Sequences: what is in them, that nothing is in them twice, and that x   *)
(* is not behind y.                                                        *)
Unique(s) == \A i, j \in 1..Len(s) : s[i] = s[j] => i = j
Before(s, x, y) == \A i, j \in 1..Len(s) : s[i] = x /\ s[j] = y => i < j

(* One element more at the end.                                            *)
LEMMA AppendElements ==
    ASSUME NEW S, NEW s \in Seq(S), NEW x \in S
    PROVE  LET a == Append(s, x)
           IN  /\ \A y : Contains(a, y) <=> Contains(s, y) \/ y = x
               /\ Unique(s) /\ ~Contains(s, x) => Unique(a)
               /\ \A y, z : Before(s, y, z) /\ (x = y => z # x /\ ~Contains(s, z)) => Before(a, y, z)
<1> DEFINE a == Append(s, x)
           n == Len(s)
<1>1. /\ n \in Nat /\ Len(a) = n + 1 /\ a[n + 1] = x
      /\ \A i \in 1..n : a[i] = s[i]
  BY AppendProperties, LenProperties
<1> HIDE DEF a, n
<1>2. \A i \in 1..(n + 1) : i \in 1..n \/ i = n + 1
  BY <1>1
<1>3. \A i \in 1..n : i \in 1..(n + 1) /\ i < n + 1
  BY <1>1
<1>4. n + 1 \in 1..(n + 1)
  BY <1>1
<1>5. \A y : Contains(a, y) <=> Contains(s, y) \/ y = x
  BY <1>1, <1>2, <1>3, <1>4 DEF Contains, n
<1>6. Unique(s) /\ ~Contains(s, x) => Unique(a)
  BY <1>1, <1>2, <1>3 DEF Unique, Contains, n
<1>7. ASSUME NEW y, NEW z, Before(s, y, z), x = y => z # x /\ ~Contains(s, z)
      PROVE  Before(a, y, z)
  BY <1>1, <1>2, <1>3, <1>7 DEF Before, Contains, n
<1> QED
  BY <1>5, <1>6, <1>7 DEF a

(* The first element taken.                                                *)
LEMMA TailElements ==
    ASSUME NEW S, NEW s \in Seq(S), s # <<>>
    PROVE  /\ Contains(s, Head(s))
           /\ Unique(s) => /\ Unique(Tail(s))
                           /\ \A y : Contains(Tail(s), y) <=> Contains(s, y) /\ y # Head(s)
           /\ \A y, z : Before(s, y, z) => /\ Before(Tail(s), y, z)
                                           /\ Head(s) = z => ~Contains(s, y)
<1> DEFINE t == Tail(s)
           n == Len(s)
           h == Head(s)
<1>1. /\ n \in Nat \ {0} /\ Len(t) = n - 1 /\ h = s[1]
      /\ \A i \in 1..(n - 1) : t[i] = s[i + 1]
  BY HeadTailProperties, EmptySeq, LenProperties
<1> HIDE DEF t, n, h
<1>2. /\ \A i \in 1..(n - 1) : i + 1 \in 1..n /\ i + 1 # 1
      /\ \A i, j \in 1..(n - 1) : (i + 1 = j + 1 => i = j) /\ (i + 1 < j + 1 => i < j)
  BY <1>1
<1>3. \A i \in 1..n : i = 1 \/ (i - 1 \in 1..(n - 1) /\ (i - 1) + 1 = i)
  BY <1>1
<1>4. 1 \in 1..n /\ \A i \in 1..n : ~(i < 1)
  BY <1>1
<1>5. Contains(s, h)
  BY <1>1, <1>4 DEF Contains, n
<1>6. ASSUME Unique(s) PROVE Unique(t) /\ \A y : Contains(t, y) <=> Contains(s, y) /\ y # h
  <2>1. Unique(t)
    BY <1>1, <1>2, <1>6 DEF Unique, n
  <2>2. ASSUME NEW y, Contains(t, y) PROVE Contains(s, y) /\ y # h
    BY <1>1, <1>2, <1>4, <1>6, <2>2 DEF Unique, Contains, n
  <2>3. ASSUME NEW y, Contains(s, y), y # h PROVE Contains(t, y)
    <3>1. PICK i \in 1..n : s[i] = y
      BY <2>3 DEF Contains, n
    <3>2. i - 1 \in 1..(n - 1) /\ (i - 1) + 1 = i
      BY <1>1, <1>3, <2>3, <3>1
    <3>3. t[i - 1] = y
      BY <1>1, <3>1, <3>2
    <3> QED
      BY <1>1, <3>2, <3>3 DEF Contains
  <2> QED
    BY <2>1, <2>2, <2>3
<1>7. ASSUME NEW y, NEW z, Before(s, y, z) PROVE Before(t, y, z) /\ (h = z => ~Contains(s, y))
  BY <1>1, <1>2, <1>4, <1>7 DEF Before, Contains, n
<1> QED
  BY <1>5, <1>6, <1>7 DEF t, h

(* An element taken from anywhere.                                         *)
LEMMA RemoveElements ==
    ASSUME NEW S, NEW s \in Seq(S), NEW k \in 1..Len(s)
    PROVE  LET r == RemoveAt(s, k)
           IN  /\ r \in Seq(S)
               /\ Unique(s) => /\ Unique(r)
                               /\ \A y : Contains(r, y) <=> Contains(s, y) /\ y # s[k]
               /\ \A y, z : Before(s, y, z) => Before(r, y, z)
<1> DEFINE r == RemoveAt(s, k)
           n == Len(s)
           a == SubSeq(s, 1, k - 1)
           b == SubSeq(s, k + 1, n)
<1>1. n \in Nat /\ k \in Int /\ 1 <= k /\ k <= n /\ \A i \in 1..n : s[i] \in S
  BY LenProperties, ElementOfSeq
<1>2. a \in Seq(S) /\ Len(a) = k - 1 /\ \A i \in 1..(k - 1) : a[i] = s[i]
  BY <1>1, SubSeqProperties
<1>3. b \in Seq(S) /\ Len(b) = n - k /\ \A i \in 1..(n - k) : b[i] = s[k + i]
  <2>1. \A i \in (k + 1)..n : s[i] \in S
    BY <1>1
  <2>2. /\ b \in Seq(S) /\ Len(b) = IF k + 1 <= n THEN n - (k + 1) + 1 ELSE 0
        /\ \A i \in 1..(n - (k + 1) + 1) : b[i] = s[(k + 1) + i - 1]
    BY <1>1, <2>1, SubSeqProperties
  <2> QED
    BY <1>1, <2>2
<1>4. r = a \o b
  BY DEF RemoveAt
<1>5. /\ r \in Seq(S) /\ Len(r) = n - 1
      /\ \A i \in 1..(n - 1) : r[i] = IF i < k THEN s[i] ELSE s[i + 1]
  <2> HIDE DEF a, b, r, n
  <2>1. /\ r \in Seq(S) /\ Len(r) = (k - 1) + (n - k)
        /\ \A i \in 1..((k - 1) + (n - k)) : r[i] = IF i <= k - 1 THEN a[i] ELSE b[i - (k - 1)]
    BY <1>2, <1>3, <1>4, ConcatProperties
  <2>2. ASSUME NEW i \in 1..(n - 1) PROVE r[i] = IF i < k THEN s[i] ELSE s[i + 1]
    <3>1. CASE i < k
      BY <1>1, <1>2, <2>1, <3>1
    <3>2. CASE ~(i < k)
      <4>1. r[i] = b[i - (k - 1)] /\ i - (k - 1) \in 1..(n - k) /\ k + (i - (k - 1)) = i + 1
        BY <1>1, <2>1, <3>2
      <4> QED
        BY <1>3, <3>2, <4>1
    <3> QED
      BY <3>1, <3>2
  <2> QED
    BY <1>1, <2>1, <2>2
<1> HIDE DEF a, b, r, n
<1> DEFINE from(i) == IF i < k THEN i ELSE i + 1
<1>6. /\ \A i \in 1..(n - 1) : from(i) \in 1..n /\ from(i) # k /\ r[i] = s[from(i)]
      /\ \A i, j \in 1..(n - 1) : (from(i) = from(j) => i = j) /\ (from(i) < from(j) => i < j)
  BY <1>1, <1>5
<1>7. \A i \in 1..n : i # k => \E j \in 1..(n - 1) : from(j) = i
  <2> SUFFICES ASSUME NEW i \in 1..n, i # k PROVE \E j \in 1..(n - 1) : from(j) = i
    OBVIOUS
  <2>1. CASE i < k
    BY <1>1, <2>1
  <2>2. CASE ~(i < k)
    <3>1. i - 1 \in 1..(n - 1) /\ from(i - 1) = i
      BY <1>1, <2>2
    <3> QED
      BY <3>1
  <2> QED
    BY <2>1, <2>2
<1> HIDE DEF from
<1>8. ASSUME Unique(s) PROVE Unique(r) /\ \A y : Contains(r, y) <=> Contains(s, y) /\ y # s[k]
  <2>1. Unique(r)
    <3>1. ASSUME NEW i \in 1..(n - 1), NEW j \in 1..(n - 1), r[i] = r[j] PROVE i = j
      <4>1. from(i) = from(j)
        BY <1>6, <1>8, <3>1 DEF Unique, n
      <4> QED
        BY <1>6, <4>1
    <3> QED
      BY <1>5, <3>1 DEF Unique
  <2>2. ASSUME NEW y, Contains(r, y) PROVE Contains(s, y) /\ y # s[k]
    <3>1. PICK i \in 1..(n - 1) : r[i] = y
      BY <1>5, <2>2 DEF Contains
    <3>2. from(i) \in 1..n /\ from(i) # k /\ s[from(i)] = y
      BY <1>6, <3>1
    <3> QED
      BY <1>8, <3>2 DEF Unique, Contains, n
  <2>3. ASSUME NEW y, Contains(s, y), y # s[k] PROVE Contains(r, y)
    <3>1. PICK i \in 1..n : s[i] = y
      BY <2>3 DEF Contains, n
    <3>2. PICK j \in 1..(n - 1) : from(j) = i
      BY <1>7, <2>3, <3>1
    <3> QED
      BY <1>5, <1>6, <3>1, <3>2 DEF Contains
  <2> QED
    BY <2>1, <2>2, <2>3
<1>9. ASSUME NEW y, NEW z, Before(s, y, z) PROVE Before(r, y, z)
  <2>1. ASSUME NEW i \in 1..(n - 1), NEW j \in 1..(n - 1), r[i] = y, r[j] = z PROVE i < j
    <3>1. from(i) < from(j)
      BY <1>6, <1>9, <2>1 DEF Before, n
    <3> QED
      BY <1>6, <3>1
  <2> QED
    BY <1>5, <2>1 DEF Before
<1> QED
  BY <1>5, <1>8, <1>9 DEF r

-----------------------------------------------------------------------------
(* The constants, as the proofs use them.                                  *)
LEMMA Given ==
    /\ \A p \in Packets : TransportOf[p] \in Transports /\ p # Nobody /\ p # Event
    /\ WithPayload \subseteq Packets /\ Statuses \subseteq AllStatuses
  BY SendAssumption DEF SendAssumption

(* Transfers, ended ones, and the error codes that they give.              *)
LEMMA TransferTypes ==
    /\ \A p \in Packets : \A k \in Kinds : Transfer(p, k) \in Transfers
    /\ \A x \in Transfers : \A s \in AllStatuses : Ended(x, s) \in EndedTransfers
    /\ \A s \in AllStatuses : transferStatusToErrorCode(s) \in ErrorCodes
    /\ \A e \in EndedTransfers : e.packet \in Packets /\ e.kind \in Kinds /\ e.status \in AllStatuses
    /\ \A x \in Transfers : x.packet \in Packets /\ x.kind \in Kinds
  BY DEF Transfers, EndedTransfers, Transfer, Ended, AllStatuses, ErrorCodes, transferStatusToErrorCode

(* What the parts of the actions do to the types of their variables.       *)
LEMMA FinishTypes ==
    ASSUME TypeOK, NEW p \in Packets, NEW code \in ErrorCodes
    PROVE  finishSendTransfer(p, code) \/ finishUnknownTransfer(p) =>
               /\ callbackData' \in [Packets -> {"none", "live", "deleted"}]
               /\ results' \in [Packets -> Seq(ErrorCodes \cup {"TRANSPORT_ERROR"})]
               /\ mSendTransfers' \subseteq Packets
<1>1. \A c \in ErrorCodes \cup {"TRANSPORT_ERROR"} :
          [results EXCEPT ![p] = Append(@, c)] \in [Packets -> Seq(ErrorCodes \cup {"TRANSPORT_ERROR"})]
  BY AppendProperties DEF TypeOK
<1>2. [callbackData EXCEPT ![p] = "deleted"] \in [Packets -> {"none", "live", "deleted"}]
  BY DEF TypeOK
<1>3. mSendTransfers \subseteq Packets
  BY DEF TypeOK
<1>4. ASSUME finishSendTransfer(p, code)
      PROVE  /\ callbackData' = [callbackData EXCEPT ![p] = "deleted"]
             /\ results' = [results EXCEPT ![p] = Append(@, code)]
             /\ mSendTransfers' \subseteq mSendTransfers
  BY <1>4 DEF finishSendTransfer
<1>5. ASSUME finishUnknownTransfer(p)
      PROVE  /\ callbackData' = [callbackData EXCEPT ![p] = "deleted"]
             /\ results' = [results EXCEPT ![p] = Append(@, "TRANSPORT_ERROR")]
             /\ mSendTransfers' = mSendTransfers
  BY <1>5 DEF finishUnknownTransfer
<1>6. code \in ErrorCodes \cup {"TRANSPORT_ERROR"} /\ "TRANSPORT_ERROR" \in ErrorCodes \cup {"TRANSPORT_ERROR"}
  OBVIOUS
<1> QED
  BY <1>1, <1>2, <1>3, <1>4, <1>5, <1>6

(* The types of usb.                                                       *)
UsbTypes ==
    /\ endpoint' \in [Transports -> Seq(Transfers)] /\ done' \in Seq(EndedTransfers)
    /\ wire' \in [Transports -> Seq(Transfers)] /\ completed' \subseteq Transfers

(* What a submission does to the types of usb, ...                         *)
LEMMA SubmitTypes ==
    ASSUME TypeOK, NEW p \in Packets, NEW k \in Kinds, Submit(p, k)
    PROVE  UsbTypes
<1>1. TransportOf[p] \in Transports /\ Transfer(p, k) \in Transfers
  BY Given, TransferTypes
<1> QED
  BY <1>1, AppendProperties DEF TypeOK, Submit, UsbTypes

(* ... and cancel().                                                       *)
LEMMA CancelTypes ==
    ASSUME TypeOK, NEW x \in Transfers, Cancel(x)
    PROVE  UsbTypes
<1> DEFINE t == TransportOf[x.packet]
<1>1. t \in Transports /\ Ended(x, "CANCELLED") \in EndedTransfers
  BY Given, TransferTypes DEF AllStatuses
<1>2. wire' = wire /\ completed' = completed
  BY DEF Cancel
<1>3. CASE UNCHANGED <<endpoint, done>>
  BY <1>2, <1>3 DEF TypeOK, UsbTypes
<1>4. ASSUME NEW i \in DOMAIN endpoint[t],
             endpoint' = [endpoint EXCEPT ![t] = RemoveAt(@, i)],
             done' = Append(done, Ended(x, "CANCELLED"))
      PROVE  UsbTypes
  <2>1. endpoint[t] \in Seq(Transfers) /\ i \in 1..Len(endpoint[t])
    BY <1>1, <1>4 DEF TypeOK
  <2>2. RemoveAt(endpoint[t], i) \in Seq(Transfers)
    BY <2>1, RemoveElements
  <2> QED
    BY <1>1, <1>2, <1>4, <2>2, AppendProperties DEF TypeOK, UsbTypes
<1> QED
  BY <1>3, <1>4 DEF Cancel

(* The variables keep their types.                                         *)
THEOREM Typing == Spec => []TypeOK
<1>1. Init => TypeOK
  BY EmptySeq DEF Init, TypeOK, ErrorCodes
<1>2. TypeOK /\ [Next]_vars => TypeOK'
  <2> SUFFICES ASSUME TypeOK, [Next]_vars PROVE TypeOK'
    OBVIOUS
  <2>k. "message" \in Kinds /\ "payload" \in Kinds
    BY DEF Kinds
  <2>l. ASSUME NEW p \in Packets, Leave(p)
        PROVE  /\ call' \in [Packets -> {"none", "called", "emplaced", "submitted", "cancelling", "returned"}]
               /\ mSendMutex' \in [Transports -> Packets \cup {Event, Nobody}]
    BY <2>l DEF Leave, TypeOK
  <2>u. (UNCHANGED usb) => UsbTypes
    BY DEF usb, TypeOK, UsbTypes
  <2>1. ASSUME NEW p \in Packets, SendCalled(p) PROVE TypeOK'
    BY <2>1 DEF SendCalled, TypeOK, pool, usb
  <2>2. ASSUME NEW p \in Packets, SendEmplaces(p) PROVE TypeOK'
    <3>1. transferId' \in Nat /\ packId' \in [Packets -> Nat]
      BY <2>2 DEF SendEmplaces, TypeOK
    <3>2. /\ mSendMutex' \in [Transports -> Packets \cup {Event, Nobody}]
          /\ mSendTransfers' \subseteq Packets
          /\ call' \in [Packets -> {"none", "called", "emplaced", "submitted", "cancelling", "returned"}]
      BY <2>2 DEF SendEmplaces, TypeOK
    <3> QED
      BY <2>2, <3>1, <3>2 DEF SendEmplaces, TypeOK, usb
  <2>3. ASSUME NEW p \in Packets, SendSubmitsMessage(p) PROVE TypeOK'
    <3>1. errorCode[p] \in ErrorCodes
      BY DEF TypeOK
    <3>2. UsbTypes
      BY <2>3, <2>k, <2>u, SubmitTypes DEF SendSubmitsMessage
    <3>3. /\ callbackData' \in [Packets -> {"none", "live", "deleted"}]
          /\ results' \in [Packets -> Seq(ErrorCodes \cup {"TRANSPORT_ERROR"})]
          /\ mSendTransfers' \subseteq Packets
      BY <2>3, <3>1, FinishTypes DEF SendSubmitsMessage, TypeOK
    <3>4. /\ call' \in [Packets -> {"none", "called", "emplaced", "submitted", "cancelling", "returned"}]
          /\ mSendMutex' \in [Transports -> Packets \cup {Event, Nobody}]
      BY <2>3, <2>l DEF SendSubmitsMessage, AfterMessage, TypeOK
    <3> QED
      BY <2>3, <3>2, <3>3, <3>4 DEF SendSubmitsMessage, TypeOK, UsbTypes
  <2>4. ASSUME NEW p \in Packets, SendSubmitsPayload(p) PROVE TypeOK'
    <3>1. UsbTypes
      BY <2>4, <2>k, <2>u, SubmitTypes DEF SendSubmitsPayload
    <3>2. /\ call' \in [Packets -> {"none", "called", "emplaced", "submitted", "cancelling", "returned"}]
          /\ mSendMutex' \in [Transports -> Packets \cup {Event, Nobody}]
      BY <2>4, <2>l DEF SendSubmitsPayload, TypeOK
    <3> QED
      BY <2>4, <3>1, <3>2 DEF SendSubmitsPayload, TypeOK, UsbTypes, pool
  <2>5. ASSUME NEW p \in Packets, SendCancels(p) PROVE TypeOK'
    <3>1. errorCode[p] \in ErrorCodes /\ Transfer(p, "message") \in Transfers
      BY <2>k, TransferTypes DEF TypeOK
    <3>2. UsbTypes
      BY <2>5, <3>1, CancelTypes DEF SendCancels
    <3> QED
      BY <2>5, <2>l, <3>1, <3>2, FinishTypes DEF SendCancels, TypeOK, UsbTypes
  <2>6. CASE CallbackBegins
    <3>1. /\ done # <<>> /\ Head(done) \in EndedTransfers /\ Tail(done) \in Seq(EndedTransfers)
      BY <2>6, HeadTailProperties DEF CallbackBegins, TypeOK
    <3>2. Head(done).packet \in Packets
      BY <3>1, TransferTypes
    <3>3. messageLock' \in [Packets -> {Event, Nobody}] /\ dangling' \subseteq Packets
      BY <2>6, <3>2 DEF CallbackBegins, TypeOK
    <3> QED
      BY <2>6, <3>1, <3>3 DEF CallbackBegins, TypeOK, pool
  <2>c. ASSUME NEW p \in Packets, NEW k \in Kinds, InCallback(p, k)
        PROVE  /\ event \in EndedTransfers /\ event.packet = p
               /\ event' \in EndedTransfers \cup {<<>>}
               /\ messageLock' \in [Packets -> {Event, Nobody}]
               /\ transferStatusToErrorCode(event.status) \in ErrorCodes
    BY <2>c, TransferTypes DEF InCallback, TypeOK
  <2>7. ASSUME NEW p \in Packets, staticSendMessageCallback(p) PROVE TypeOK'
    <3> DEFINE code == transferStatusToErrorCode(event.status)
    <3>1. /\ event' \in EndedTransfers \cup {<<>>} /\ messageLock' \in [Packets -> {Event, Nobody}]
          /\ code \in ErrorCodes
      BY <2>7, <2>c, <2>k DEF staticSendMessageCallback
    <3> HIDE DEF code
    <3>2. Transfer(p, "payload") \in Transfers
      BY <2>k, TransferTypes
    <3>3. UsbTypes
      BY <2>7, <2>u, <3>2, CancelTypes DEF staticSendMessageCallback, code
    <3>4. /\ callbackData' \in [Packets -> {"none", "live", "deleted"}]
          /\ results' \in [Packets -> Seq(ErrorCodes \cup {"TRANSPORT_ERROR"})]
          /\ mSendTransfers' \subseteq Packets
      BY <2>7, <3>1, FinishTypes DEF staticSendMessageCallback, code, TypeOK
    <3>5. errorCode' \in [Packets -> ErrorCodes]
      BY <2>7, <3>1 DEF staticSendMessageCallback, code, TypeOK
    <3> QED
      BY <2>7, <3>1, <3>3, <3>4, <3>5 DEF staticSendMessageCallback, TypeOK, UsbTypes
  <2>8. ASSUME NEW p \in Packets, staticSendPayloadCallback(p) PROVE TypeOK'
    <3> DEFINE code == FinalCode(p, transferStatusToErrorCode(event.status))
    <3>1. /\ event' \in EndedTransfers \cup {<<>>} /\ messageLock' \in [Packets -> {Event, Nobody}]
          /\ transferStatusToErrorCode(event.status) \in ErrorCodes
      BY <2>8, <2>c, <2>k DEF staticSendPayloadCallback
    <3>2. code \in ErrorCodes
      BY <3>1 DEF FinalCode, TypeOK
    <3> HIDE DEF code
    <3>3. UsbTypes
      BY <2>8, <2>u DEF staticSendPayloadCallback
    <3>4. /\ callbackData' \in [Packets -> {"none", "live", "deleted"}]
          /\ results' \in [Packets -> Seq(ErrorCodes \cup {"TRANSPORT_ERROR"})]
          /\ mSendTransfers' \subseteq Packets
      BY <2>8, <3>2, FinishTypes DEF staticSendPayloadCallback, code, TypeOK
    <3>5. errorCode' \in [Packets -> ErrorCodes]
      BY <2>8, <3>2 DEF staticSendPayloadCallback, code, TypeOK
    <3> QED
      BY <2>8, <3>1, <3>3, <3>4, <3>5 DEF staticSendPayloadCallback, TypeOK, UsbTypes
  <2>9. ASSUME NEW t \in Transports, TransferEnds(t) PROVE TypeOK'
    <3>1. endpoint[t] \in Seq(Transfers) /\ endpoint[t] # <<>>
      BY <2>9 DEF TransferEnds, TypeOK
    <3>2. Head(endpoint[t]) \in Transfers /\ Tail(endpoint[t]) \in Seq(Transfers)
      BY <3>1, HeadTailProperties
    <3>3. \A s \in Statuses : Append(done, Ended(Head(endpoint[t]), s)) \in Seq(EndedTransfers)
      BY <3>2, Given, TransferTypes, AppendProperties DEF TypeOK
    <3>4. UsbTypes
      BY <2>9, <3>2, <3>3 DEF TransferEnds, TypeOK, UsbTypes
    <3> QED
      BY <2>9, <3>4 DEF TransferEnds, TypeOK, UsbTypes, pool
  <2>10. CASE UNCHANGED vars
    BY <2>10 DEF vars, pool, usb, TypeOK
  <2> QED
    BY <2>1, <2>2, <2>3, <2>4, <2>5, <2>6, <2>7, <2>8, <2>9, <2>10
       DEF Next, SendStep, Callback
<1> QED
  BY <1>1, <1>2, PTL DEF Spec

-----------------------------------------------------------------------------
(* The transfers of a packet, and the one whose callback the listener      *)
(* waits for.                                                              *)
Msg(p) == Transfer(p, "message")
Pay(p) == Transfer(p, "payload")
Final(p) == IF p \in WithPayload THEN Pay(p) ELSE Msg(p)

(* Where a transfer is: submitted, in flight, ended, in its callback.      *)
Of(e) == Transfer(e.packet, e.kind)
OfAll(d) == [i \in DOMAIN d |-> Of(d[i])]
Finished == OfAll(done)
Submitted(x) == Contains(wire[TransportOf[x.packet]], x)
OnEndpoint(x) == Contains(endpoint[TransportOf[x.packet]], x)
InDone(x) == Contains(Finished, x)
InEvent(x) == event # <<>> /\ Of(event) = x
Pending(x) == OnEndpoint(x) \/ InDone(x) \/ InEvent(x)

(* Transfers are told apart by their packet and kind.                      *)
LEMMA TransferIs ==
    /\ \A p, q, k, l : Transfer(p, k) = Transfer(q, l) <=> p = q /\ k = l
    /\ \A p, k : Transfer(p, k).packet = p /\ Transfer(p, k).kind = k
    /\ \A x \in Transfers : x = Transfer(x.packet, x.kind)
    /\ \A x \in Transfers : \A s : Of(Ended(x, s)) = x /\ Ended(x, s).status = s
    /\ \A p \in Packets : Msg(p) \in Transfers /\ Pay(p) \in Transfers
    /\ \A e \in EndedTransfers : Of(e) \in Transfers /\ e # <<>>
  BY DEF Transfer, Transfers, Of, Ended, Msg, Pay, Kinds, EndedTransfers

(* A submission adds the transfer to the wire and to the endpoint.         *)
LEMMA Submission ==
    ASSUME TypeOK, NEW p \in Packets, NEW k \in Kinds, Submit(p, k)
    PROVE  LET x == Transfer(p, k)
               t == TransportOf[p]
           IN  /\ \A y \in Transfers : /\ Submitted(y)' <=> Submitted(y) \/ y = x
                                       /\ OnEndpoint(y)' <=> OnEndpoint(y) \/ y = x
               /\ t \in Transports /\ wire'[t] = Append(wire[t], x)
               /\ \A u \in Transports : u # t => wire'[u] = wire[u] /\ endpoint'[u] = endpoint[u]
               /\ endpoint'[t] = Append(endpoint[t], x)
               /\ UNCHANGED <<done, completed>>
<1> DEFINE x == Transfer(p, k)
           t == TransportOf[p]
<1>1. t \in Transports /\ x \in Transfers /\ x.packet = p
  BY Given, TransferTypes, TransferIs
<1>2. /\ wire'[t] = Append(wire[t], x) /\ endpoint'[t] = Append(endpoint[t], x)
      /\ \A u \in Transports : u # t => wire'[u] = wire[u] /\ endpoint'[u] = endpoint[u]
      /\ UNCHANGED <<done, completed>>
  BY <1>1 DEF Submit, TypeOK
<1>3. wire[t] \in Seq(Transfers) /\ endpoint[t] \in Seq(Transfers)
  BY <1>1 DEF TypeOK
<1>4. \A y : /\ Contains(wire'[t], y) <=> Contains(wire[t], y) \/ y = x
             /\ Contains(endpoint'[t], y) <=> Contains(endpoint[t], y) \/ y = x
  BY <1>1, <1>2, <1>3, AppendElements
<1>5. ASSUME NEW y \in Transfers
      PROVE  /\ Submitted(y)' <=> Submitted(y) \/ y = x
             /\ OnEndpoint(y)' <=> OnEndpoint(y) \/ y = x
  <2>1. TransportOf[y.packet] \in Transports
    BY Given, TransferTypes
  <2>2. CASE TransportOf[y.packet] = t
    BY <1>4, <2>2 DEF Submitted, OnEndpoint
  <2>3. CASE TransportOf[y.packet] # t
    BY <1>1, <1>2, <2>1, <2>3 DEF Submitted, OnEndpoint
  <2> QED
    BY <2>2, <2>3
<1> QED
  BY <1>1, <1>2, <1>5

-----------------------------------------------------------------------------
(* The mutex of a transport is with the send() that is in it, the lock of  *)
(* a message transfer with its callback.                                   *)
InSend == {"emplaced", "submitted", "cancelling"}
LockInv ==
    \A p \in Packets : /\ mSendMutex[TransportOf[p]] = p <=> call[p] \in InSend
                       /\ messageLock[p] = Event <=> InEvent(Msg(p))

(* A callback holds no lock but those of its own transfer.                 *)
LEMMA LockStep == TypeOK /\ LockInv /\ [Next]_vars => LockInv'
<1> SUFFICES ASSUME TypeOK, LockInv, [Next]_vars, NEW q \in Packets
             PROVE  /\ (mSendMutex[TransportOf[q]] = q <=> call[q] \in InSend)'
                    /\ (messageLock[q] = Event <=> InEvent(Msg(q)))'
  BY DEF LockInv
<1>t. /\ mSendMutex[TransportOf[q]] = q <=> call[q] \in InSend
      /\ messageLock[q] = Event <=> InEvent(Msg(q))
  BY DEF LockInv
<1>e. (UNCHANGED <<event, messageLock>>) => (messageLock[q] = Event <=> InEvent(Msg(q)))'
  BY <1>t DEF InEvent
<1>m. (UNCHANGED <<call, mSendMutex>>) => (mSendMutex[TransportOf[q]] = q <=> call[q] \in InSend)'
  BY <1>t
<1>s. ASSUME NEW p \in Packets, call[p] \in InSend, NEW s \in InSend,
             call' = [call EXCEPT ![p] = s], UNCHANGED mSendMutex
      PROVE  (mSendMutex[TransportOf[q]] = q <=> call[q] \in InSend)'
  BY <1>t, <1>s DEF TypeOK
<1>l. ASSUME NEW p \in Packets, call[p] \in InSend, Leave(p)
      PROVE  (mSendMutex[TransportOf[q]] = q <=> call[q] \in InSend)'
  <2>1. mSendMutex[TransportOf[p]] = p
    BY <1>l DEF LockInv
  <2> QED
    BY <1>t, <1>l, <2>1, Given DEF TypeOK, Leave, InSend
<1>1. ASSUME NEW p \in Packets, SendCalled(p)
      PROVE  (mSendMutex[TransportOf[q]] = q <=> call[q] \in InSend)'
  BY <1>t, <1>1 DEF SendCalled, TypeOK, InSend
<1>2. ASSUME NEW p \in Packets, SendEmplaces(p)
      PROVE  (mSendMutex[TransportOf[q]] = q <=> call[q] \in InSend)'
  BY <1>t, <1>2, Given DEF SendEmplaces, TypeOK, InSend
<1>3. ASSUME NEW p \in Packets, SendSubmitsMessage(p)
      PROVE  (mSendMutex[TransportOf[q]] = q <=> call[q] \in InSend)'
  BY <1>l, <1>s, <1>3 DEF SendSubmitsMessage, AfterMessage, InSend
<1>4. ASSUME NEW p \in Packets, SendSubmitsPayload(p)
      PROVE  (mSendMutex[TransportOf[q]] = q <=> call[q] \in InSend)'
  BY <1>l, <1>s, <1>4 DEF SendSubmitsPayload, InSend
<1>5. ASSUME NEW p \in Packets, SendCancels(p)
      PROVE  (mSendMutex[TransportOf[q]] = q <=> call[q] \in InSend)'
  BY <1>l, <1>5 DEF SendCancels, InSend
<1>6. ASSUME NEW p \in Packets, SendCalled(p) \/ SendStep(p)
      PROVE  UNCHANGED <<event, messageLock>>
  BY <1>6 DEF SendCalled, SendStep, SendEmplaces, SendSubmitsMessage, SendSubmitsPayload, SendCancels
<1>7. CASE CallbackBegins
  <2>1. done # <<>> /\ Head(done) \in EndedTransfers
    BY <1>7, HeadTailProperties DEF CallbackBegins, TypeOK
  <2>2. event' = Head(done) /\ event' # <<>> /\ ~InEvent(Msg(q))
    BY <1>7, <2>1, TransferIs DEF CallbackBegins, InEvent
  <2>3. InEvent(Msg(q))' <=> Head(done).packet = q /\ Head(done).kind = "message"
    BY <2>2, TransferIs DEF InEvent, Of, Msg
  <2>4. Head(done).packet \in Packets /\ messageLock[q] # Event
    BY <1>t, <2>1, <2>2, TransferTypes
  <2>5. (messageLock[q] = Event)' <=> Head(done).packet = q /\ Head(done).kind = "message"
    BY <1>7, <2>4 DEF CallbackBegins, TypeOK
  <2> QED
    BY <1>m, <1>7, <2>3, <2>5 DEF CallbackBegins
<1>8. ASSUME NEW p \in Packets, NEW k \in Kinds, InCallback(p, k)
      PROVE  (messageLock[q] = Event <=> InEvent(Msg(q)))'
  <2>1. /\ event # <<>> /\ event.packet = p /\ event.kind = k /\ event' = <<>>
        /\ messageLock' = IF k = "message" THEN [messageLock EXCEPT ![p] = Nobody] ELSE messageLock
    BY <1>8 DEF InCallback
  <2>2. InEvent(Msg(q)) <=> q = p /\ k = "message"
    BY <2>1, TransferIs DEF InEvent, Of, Msg
  <2>3. ~InEvent(Msg(q))' /\ Nobody # Event
    BY <2>1 DEF InEvent, Nobody, Event
  <2> QED
    BY <1>t, <2>1, <2>2, <2>3 DEF TypeOK
<1>9. ASSUME NEW p \in Packets, staticSendMessageCallback(p) \/ staticSendPayloadCallback(p)
      PROVE  UNCHANGED <<call, mSendMutex>> /\ (InCallback(p, "message") \/ InCallback(p, "payload"))
  BY <1>9 DEF staticSendMessageCallback, staticSendPayloadCallback
<1>10. ASSUME NEW t \in Transports, TransferEnds(t)
       PROVE  UNCHANGED <<call, mSendMutex, event, messageLock>>
  BY <1>10 DEF TransferEnds
<1>11. CASE UNCHANGED vars
  BY <1>e, <1>m, <1>11 DEF vars
<1>12. ASSUME NEW p \in Packets, SendCalled(p) \/ SendStep(p)
       PROVE  /\ (mSendMutex[TransportOf[q]] = q <=> call[q] \in InSend)'
              /\ (messageLock[q] = Event <=> InEvent(Msg(q)))'
  BY <1>e, <1>1, <1>2, <1>3, <1>4, <1>5, <1>6, <1>12 DEF SendStep
<1>13. ASSUME NEW p \in Packets, staticSendMessageCallback(p) \/ staticSendPayloadCallback(p)
       PROVE  /\ (mSendMutex[TransportOf[q]] = q <=> call[q] \in InSend)'
              /\ (messageLock[q] = Event <=> InEvent(Msg(q)))'
  BY <1>m, <1>8, <1>9, <1>13 DEF Kinds
<1> QED
  BY <1>e, <1>m, <1>7, <1>10, <1>11, <1>12, <1>13 DEF Next, Callback

-----------------------------------------------------------------------------
(* What is on the wire of a transport, by the state of send().             *)
BetweenSubmissions(p) == call[p] \in {"submitted", "cancelling"}
Sending == {p \in Packets : BetweenSubmissions(p)}
Refusals == {p \in Packets : PayloadRefused(p)}
LastOf(s) == s[Len(s)]

WireKinds ==
    \A t \in Transports : \A i \in 1..Len(wire[t]) :
        /\ TransportOf[wire[t][i].packet] = t
        /\ wire[t][i].kind = "payload" => wire[t][i].packet \in WithPayload
WireLast ==
    \A t \in Transports : wire[t] # <<>> =>
        LET x == LastOf(wire[t])
        IN  x.kind = "message" /\ x.packet \in WithPayload => x.packet \in Sending \cup Refusals
WireCalls ==
    \A p \in Packets :
        /\ Submitted(Msg(p)) => BetweenSubmissions(p) \/ call[p] = "returned"
        /\ Submitted(Pay(p)) => call[p] = "returned" /\ Submitted(Msg(p)) /\ p \in WithPayload
        /\ BetweenSubmissions(p) => /\ p \in WithPayload
                                    /\ wire[TransportOf[p]] # <<>>
                                    /\ LastOf(wire[TransportOf[p]]) = Msg(p)

(* While send() is between its submissions its message is the last         *)
(* transfer on the wire, and a message that is last without its payload    *)
(* is that of such a send(), or of one whose payload was refused.  This is *)
(* the inductive form of Framed.                                           *)
WireInv == WireKinds /\ WireLast /\ WireCalls /\ Framed

(* A payload was refused: its message is on the wire, its send() returned. *)
LEMMA RefusedIs ==
    \A p \in Packets : /\ PayloadRefused(p) <=> /\ p \in WithPayload /\ call[p] = "returned"
                                                /\ Submitted(Msg(p)) /\ ~Submitted(Pay(p))
                       /\ PayloadRefused(p)' <=> /\ p \in WithPayload /\ call'[p] = "returned"
                                                 /\ Submitted(Msg(p))' /\ ~Submitted(Pay(p))'
  BY TransferIs DEF PayloadRefused, Submitted, Msg, Pay

(* The last transfer of a sequence is in it.                               *)
LEMMA LastIsIn == ASSUME NEW S, NEW s \in Seq(S), s # <<>> PROVE Contains(s, LastOf(s)) /\ LastOf(s) \in S
<1>1. Len(s) \in Nat \ {0}
  BY EmptySeq
<1>2. Len(s) \in 1..Len(s)
  BY <1>1
<1> QED
  BY <1>2, ElementOfSeq DEF Contains, LastOf

(* While send() is between its submissions, or when it has submitted, its  *)
(* message is on the wire.                                                 *)
LEMMA BetweenIsSubmitted ==
    ASSUME TypeOK, WireInv, NEW p \in Packets, BetweenSubmissions(p)
    PROVE  Submitted(Msg(p)) /\ ~Submitted(Pay(p)) /\ p \in WithPayload
<1>1. /\ p \in WithPayload /\ wire[TransportOf[p]] # <<>>
      /\ LastOf(wire[TransportOf[p]]) = Msg(p)
  BY DEF WireInv, WireCalls
<1>2. wire[TransportOf[p]] \in Seq(Transfers)
  BY Given DEF TypeOK
<1>3. Submitted(Msg(p))
  BY <1>1, <1>2, LastIsIn, TransferIs DEF Submitted, Msg
<1>4. call[p] # "returned"
  BY DEF BetweenSubmissions
<1> QED
  BY <1>1, <1>3, <1>4 DEF WireInv, WireCalls

(* send() goes on without a submission.                                    *)
LEMMA WireKept ==
    ASSUME TypeOK, WireInv, NEW p \in Packets, NEW s, call' = [call EXCEPT ![p] = s], UNCHANGED wire,
           \/ ~BetweenSubmissions(p) /\ call[p] # "returned" /\ s \in {"called", "emplaced", "returned"}
           \/ BetweenSubmissions(p) /\ s \in {"cancelling", "returned"}
    PROVE  WireInv'
<1>1. \A x : Submitted(x)' <=> Submitted(x)
  BY DEF Submitted
<1>2. \A q \in Packets : q # p => call'[q] = call[q] /\ (BetweenSubmissions(q)' <=> BetweenSubmissions(q))
  BY DEF TypeOK, BetweenSubmissions
<1>3. call'[p] = s /\ call[p] # "returned"
  BY DEF TypeOK, BetweenSubmissions
<1>4. \A q \in Packets : PayloadRefused(q) => PayloadRefused(q)'
  BY <1>1, <1>2, <1>3, RefusedIs
<1>5. WireKinds'
  BY DEF WireInv, WireKinds
<1>6. Framed'
  <2>1. \A t \in Transports : \A i \in DOMAIN wire[t] : wire[t][i].packet \in Packets
    BY TransferTypes DEF TypeOK
  <2>2. \A t \in Transports : \A i \in DOMAIN wire[t] :
            ~PayloadRefused(wire[t][i].packet)' => ~PayloadRefused(wire[t][i].packet)
    BY <1>4, <2>1
  <2>3. Framed
    BY DEF WireInv
  <2> QED
    BY <2>2, <2>3, Zenon DEF Framed
<1>7. WireCalls'
  <2> SUFFICES ASSUME NEW q \in Packets
               PROVE  /\ Submitted(Msg(q))' => BetweenSubmissions(q)' \/ call'[q] = "returned"
                      /\ Submitted(Pay(q))' => /\ call'[q] = "returned" /\ Submitted(Msg(q))'
                                               /\ q \in WithPayload
                      /\ BetweenSubmissions(q)' => /\ q \in WithPayload
                                                   /\ wire'[TransportOf[q]] # <<>>
                                                   /\ LastOf(wire'[TransportOf[q]]) = Msg(q)
    BY DEF WireCalls
  <2>1. CASE q # p
    BY <1>1, <1>2, <2>1 DEF WireInv, WireCalls
  <2>2. CASE q = p /\ BetweenSubmissions(p)
    <3>1. BetweenSubmissions(p)' \/ s = "returned"
      BY <1>3, <2>2 DEF BetweenSubmissions
    <3> QED
      BY <1>1, <1>3, <2>2, <3>1, BetweenIsSubmitted DEF WireInv, WireCalls
  <2>3. CASE q = p /\ ~BetweenSubmissions(p)
    <3>1. ~Submitted(Msg(p)) /\ ~Submitted(Pay(p))
      BY <1>3, <2>3 DEF WireInv, WireCalls
    <3>2. ~BetweenSubmissions(p)'
      BY <1>3, <2>3 DEF BetweenSubmissions
    <3> QED
      BY <1>1, <2>3, <3>1, <3>2
  <2> QED
    BY <2>1, <2>2, <2>3
<1>8. WireLast'
  <2>1. \A q \in Sending : q \in Sending' \cup Refusals'
    <3> SUFFICES ASSUME NEW q \in Packets, BetweenSubmissions(q)
                 PROVE  BetweenSubmissions(q)' \/ PayloadRefused(q)'
      BY DEF Sending, Refusals
    <3>1. CASE q # p
      BY <1>2, <3>1
    <3>2. CASE q = p /\ s = "cancelling"
      BY <1>3, <3>2 DEF BetweenSubmissions
    <3>3. CASE q = p /\ s = "returned"
      BY <1>1, <1>3, <3>3, BetweenIsSubmitted, RefusedIs
    <3> QED
      BY <3>1, <3>2, <3>3
  <2>2. Refusals \subseteq Refusals'
    BY <1>4 DEF Refusals
  <2> QED
    BY <2>1, <2>2 DEF WireInv, WireLast
<1> QED
  BY <1>5, <1>6, <1>7, <1>8 DEF WireInv

(* A step that changes neither the wire nor the state of a send().         *)
LEMMA WireSame == WireInv /\ UNCHANGED <<wire, call>> => WireInv'
  BY DEF WireInv, WireKinds, WireLast, WireCalls, Framed, Sending, Refusals, BetweenSubmissions,
         Submitted, PayloadRefused

(* A wire on which each announced payload follows its message, but for the *)
(* packets R.                                                              *)
FramedBy(s, R) ==
    \A i \in 1..Len(s) :
        /\ s[i].kind = "payload" => i > 1 /\ s[i - 1] = Msg(s[i].packet)
        /\ s[i].kind = "message" /\ s[i].packet \in WithPayload \ R /\ i < Len(s)
               => s[i + 1] = Pay(s[i].packet)

FramedApart == \A t \in Transports : FramedBy(wire[t], Refusals)

(* So says Framed, packet by packet.                                       *)
LEMMA FramedIs == TypeOK => (Framed <=> FramedApart)
<1> SUFFICES ASSUME TypeOK PROVE Framed <=> FramedApart
  OBVIOUS
<1>1. ASSUME NEW t \in Transports, NEW i \in DOMAIN wire[t]
      PROVE  wire[t][i].packet \in Refusals <=> PayloadRefused(wire[t][i].packet)
  <2>1. wire[t][i].packet \in Packets
    BY TransferTypes DEF TypeOK
  <2> QED
    BY <2>1, Zenon DEF Refusals
<1>2. \A t \in Transports : DOMAIN wire[t] = 1..Len(wire[t])
  BY LenProperties DEF TypeOK
<1> QED
  BY <1>1, <1>2 DEF Framed, FramedApart, FramedBy, Msg, Pay

(* Such a wire with one transfer more.                                     *)
LEMMA FrameGrows ==
    ASSUME NEW s \in Seq(Transfers), NEW R, NEW Q, FramedBy(s, R), R \subseteq Q, NEW x \in Transfers,
           x.kind = "payload" => s # <<>> /\ LastOf(s) = Msg(x.packet),
           s # <<>> /\ LastOf(s).kind = "message" /\ LastOf(s).packet \in WithPayload \ Q
               => x = Pay(LastOf(s).packet)
    PROVE  FramedBy(s, Q) /\ FramedBy(Append(s, x), Q)
<1> DEFINE r == Append(s, x)
           n == Len(s)
<1>1. n \in Nat /\ Len(r) = n + 1 /\ r[n + 1] = x /\ \A i \in 1..n : r[i] = s[i]
  BY AppendProperties
<1>2. FramedBy(s, Q)
  BY DEF FramedBy
<1>3. n > 0 <=> s # <<>>
  BY <1>1, EmptySeq
<1> HIDE DEF r
<1>4. ASSUME NEW i \in 1..(n + 1)
      PROVE  /\ r[i].kind = "payload" => i > 1 /\ r[i - 1] = Msg(r[i].packet)
             /\ r[i].kind = "message" /\ r[i].packet \in WithPayload \ Q /\ i < n + 1
                    => r[i + 1] = Pay(r[i].packet)
  <2>1. CASE i = n + 1
    <3>1. n > 0 => n \in 1..n
      BY <1>1
    <3> QED
      BY <1>1, <1>3, <2>1, <3>1 DEF LastOf
  <2>2. CASE i \in 1..n
    <3>1. r[i] = s[i] /\ (i > 1 => r[i - 1] = s[i - 1]) /\ (i < n => r[i + 1] = s[i + 1])
      <4>1. (i > 1 => i - 1 \in 1..n) /\ (i < n => i + 1 \in 1..n)
        BY <1>1, <2>2
      <4> QED
        BY <1>1, <2>2, <4>1
    <3>2. /\ s[i].kind = "payload" => i > 1 /\ s[i - 1] = Msg(s[i].packet)
          /\ s[i].kind = "message" /\ s[i].packet \in WithPayload \ Q /\ i < n
                 => s[i + 1] = Pay(s[i].packet)
      BY <1>2, <2>2 DEF FramedBy
    <3>3. i = n => s[i] = LastOf(s) /\ s # <<>> /\ r[i + 1] = x
      BY <1>1, <1>3, <2>2 DEF LastOf
    <3>4. i < n \/ i = n
      BY <1>1, <2>2
    <3> QED
      BY <3>1, <3>2, <3>3, <3>4
  <2> QED
    BY <1>1, <2>1, <2>2
<1> QED
  BY <1>1, <1>2, <1>4 DEF FramedBy, r

(* send() submits a transfer: the packets that this is not about, ...      *)
LEMMA WireGrows ==
    ASSUME TypeOK, WireInv, NEW p \in Packets, NEW k \in Kinds, Submit(p, k),
           NEW s, call' = [call EXCEPT ![p] = s], call[p] # "returned"
    PROVE  /\ \A q \in Packets : q # p => /\ call'[q] = call[q]
                                          /\ Submitted(Msg(q))' <=> Submitted(Msg(q))
                                          /\ Submitted(Pay(q))' <=> Submitted(Pay(q))
                                          /\ q \in Sending' <=> q \in Sending
                                          /\ BetweenSubmissions(q)' <=> BetweenSubmissions(q)
           /\ call'[p] = s /\ Refusals \subseteq Refusals' /\ p \notin Refusals
<1>1. \A y \in Transfers : Submitted(y)' <=> Submitted(y) \/ y = Transfer(p, k)
  BY Submission
<1>2. \A q \in Packets : q # p => /\ Submitted(Msg(q))' <=> Submitted(Msg(q))
                                  /\ Submitted(Pay(q))' <=> Submitted(Pay(q))
  BY <1>1, TransferIs DEF Msg, Pay
<1>3. call'[p] = s /\ \A q \in Packets : q # p => call'[q] = call[q]
  BY DEF TypeOK
<1>4. \A q \in Packets : q # p => (BetweenSubmissions(q)' <=> BetweenSubmissions(q))
  BY <1>3 DEF BetweenSubmissions
<1>5. Refusals \subseteq Refusals' /\ p \notin Refusals
  BY <1>2, <1>3, RefusedIs DEF Refusals
<1> QED
  BY <1>2, <1>3, <1>4, <1>5 DEF Sending

(* ... and the wire, by the packet's place in WireCalls.                   *)
LEMMA WireSubmits ==
    ASSUME TypeOK, TypeOK', WireInv, NEW p \in Packets, NEW k \in Kinds, Submit(p, k),
           NEW s, call' = [call EXCEPT ![p] = s], call[p] # "returned",
           LET t == TransportOf[p]
               x == Transfer(p, k)
           IN  /\ k = "payload" => p \in WithPayload /\ wire[t] # <<>> /\ LastOf(wire[t]) = Msg(p)
               /\ k = "message" => /\ \A q \in Sending : TransportOf[q] # t
                                   /\ p \in WithPayload => p \in Sending'
    PROVE  WireKinds' /\ WireLast' /\ Framed' /\ wire'[TransportOf[p]] # <<>>
           /\ LastOf(wire'[TransportOf[p]]) = Transfer(p, k)
<1> DEFINE t == TransportOf[p]
           w == wire[t]
           n == Len(w)
           x == Transfer(p, k)
<1>1. /\ t \in Transports /\ wire'[t] = Append(w, x)
      /\ \A u \in Transports : u # t => wire'[u] = wire[u]
  BY Submission
<1>2. w \in Seq(Transfers) /\ n \in Nat /\ x \in Transfers /\ x.packet = p /\ x.kind = k
  BY <1>1, TransferIs, TransferTypes DEF TypeOK
<1>3. /\ wire'[t] # <<>> /\ Len(wire'[t]) = n + 1 /\ wire'[t][n + 1] = x
      /\ \A i \in 1..n : wire'[t][i] = w[i]
  BY <1>1, <1>2, AppendProperties
<1>4. LastOf(wire'[t]) = x
  BY <1>3 DEF LastOf
<1>5. /\ \A q \in Packets : q # p => (q \in Sending' <=> q \in Sending)
      /\ Refusals \subseteq Refusals' /\ p \notin Refusals
  BY WireGrows
<1>6. \A i \in 1..(n + 1) : i \in 1..n \/ i = n + 1
  BY <1>2
<1>7. WireKinds'
  <2> SUFFICES ASSUME NEW u \in Transports, NEW i \in 1..Len(wire'[u])
               PROVE  /\ TransportOf[wire'[u][i].packet] = u
                      /\ wire'[u][i].kind = "payload" => wire'[u][i].packet \in WithPayload
    BY DEF WireKinds
  <2>1. WireKinds
    BY DEF WireInv
  <2>2. CASE u # t
    BY <1>1, <2>1, <2>2 DEF WireKinds
  <2>3. CASE u = t /\ i \in 1..n
    BY <1>3, <1>1, <2>1, <2>3, SMTT(30) DEF WireKinds
  <2>4. CASE u = t /\ i = n + 1
    BY <1>2, <1>3, <2>4
  <2> QED
    BY <1>3, <1>6, <2>2, <2>3, <2>4
<1>8. \A u \in Transports : wire[u] # <<>> /\ LastOf(wire[u]).kind = "message"
                            /\ LastOf(wire[u]).packet \in WithPayload
          => LastOf(wire[u]).packet \in Sending \cup Refusals
  BY DEF WireInv, WireLast
<1>l. \A u \in Transports : wire[u] # <<>> =>
          LastOf(wire[u]) \in Transfers /\ TransportOf[LastOf(wire[u]).packet] = u
  <2> SUFFICES ASSUME NEW u \in Transports, wire[u] # <<>>
               PROVE  LastOf(wire[u]) \in Transfers /\ TransportOf[LastOf(wire[u]).packet] = u
    OBVIOUS
  <2>1. wire[u] \in Seq(Transfers)
    BY DEF TypeOK
  <2>2. Len(wire[u]) \in 1..Len(wire[u])
    BY <2>1, EmptySeq
  <2> QED
    BY <2>1, <2>2, ElementOfSeq DEF WireInv, WireKinds, LastOf
<1>9. WireLast'
  <2> SUFFICES ASSUME NEW u \in Transports, wire'[u] # <<>>,
                      LastOf(wire'[u]).kind = "message", LastOf(wire'[u]).packet \in WithPayload
               PROVE  LastOf(wire'[u]).packet \in Sending' \cup Refusals'
    BY DEF WireLast
  <2>1. CASE u = t
    BY <1>2, <1>4, <2>1
  <2>2. CASE u # t
    <3>1. wire'[u] = wire[u]
      BY <1>1, <2>2
    <3>2. LastOf(wire[u]).packet # p
      BY <1>l, <2>2, <3>1
    <3>3. LastOf(wire[u]).packet \in Packets
      BY <1>l, <3>1, TransferTypes
    <3> QED
      BY <1>5, <1>8, <3>1, <3>2, <3>3
  <2> QED
    BY <2>1, <2>2
<1>10. Framed'
  <2>1. \A u \in Transports : FramedBy(wire[u], Refusals)
    BY FramedIs DEF WireInv, FramedApart
  <2>2. w # <<>> /\ LastOf(w).kind = "message" /\ LastOf(w).packet \in WithPayload \ Refusals'
            => x = Pay(LastOf(w).packet)
    <3>1. CASE k = "payload"
      BY <1>2, <3>1, TransferIs DEF Msg, Pay
    <3>2. CASE k = "message"
      BY <1>1, <1>5, <1>8, <1>l, <3>2
    <3> QED
      BY <3>1, <3>2 DEF Kinds
  <2>3. FramedBy(wire'[t], Refusals')
    BY <1>1, <1>2, <1>5, <2>1, <2>2, FrameGrows
  <2>4. ASSUME NEW u \in Transports, u # t PROVE FramedBy(wire'[u], Refusals')
    <3>1. wire'[u] = wire[u] /\ FramedBy(wire[u], Refusals)
      BY <1>1, <2>1, <2>4
    <3> QED
      BY <1>5, <3>1 DEF FramedBy
  <2>5. (TypeOK => (Framed <=> FramedApart))'
    BY FramedIs, PTL
  <2> QED
    BY <2>3, <2>4, <2>5 DEF FramedApart
<1> QED
  BY <1>3, <1>4, <1>7, <1>9, <1>10

(* send() submits the message: the last transfer on the wire awaits no     *)
(* payload, because its send() would hold the mutex.                       *)
LEMMA WireMessage ==
    ASSUME TypeOK, TypeOK', LockInv, WireInv, NEW p \in Packets, Submit(p, "message"),
           call[p] = "emplaced", NEW s, call' = [call EXCEPT ![p] = s],
           IF p \in WithPayload THEN s = "submitted" ELSE s = "returned"
    PROVE  WireInv'
<1> DEFINE t == TransportOf[p]
<1>1. "message" \in Kinds /\ "message" # "payload" /\ call[p] # "returned"
  BY DEF Kinds
<1>2. call'[p] = s /\ (p \in WithPayload => p \in Sending') /\ (p \in Sending' => p \in WithPayload)
  BY DEF Sending, BetweenSubmissions, TypeOK
<1>3. \A q \in Sending : TransportOf[q] # t
  BY DEF LockInv, InSend, Sending, BetweenSubmissions
<1>4. /\ WireKinds' /\ WireLast' /\ Framed' /\ wire'[t] # <<>>
      /\ LastOf(wire'[t]) = Msg(p)
  BY <1>1, <1>2, <1>3, WireSubmits DEF Msg
<1>5. \A q \in Packets : q # p => /\ call'[q] = call[q]
                                  /\ Submitted(Msg(q))' <=> Submitted(Msg(q))
                                  /\ Submitted(Pay(q))' <=> Submitted(Pay(q))
                                  /\ BetweenSubmissions(q)' <=> BetweenSubmissions(q)
  BY <1>1, WireGrows
<1>6. /\ t \in Transports /\ Submitted(Msg(p))' /\ (Submitted(Pay(p))' => Submitted(Pay(p)))
      /\ \A u \in Transports : u # t => wire'[u] = wire[u]
  BY <1>1, Submission, TransferIs DEF Msg, Pay
<1>7. WireCalls
  BY DEF WireInv
<1>8. ~Submitted(Pay(p))
  BY <1>1, <1>7 DEF WireCalls
<1>9. ASSUME NEW q \in Packets
      PROVE  /\ Submitted(Msg(q))' => BetweenSubmissions(q)' \/ call'[q] = "returned"
             /\ Submitted(Pay(q))' => call'[q] = "returned" /\ Submitted(Msg(q))' /\ q \in WithPayload
             /\ BetweenSubmissions(q)' => /\ q \in WithPayload
                                          /\ wire'[TransportOf[q]] # <<>>
                                          /\ LastOf(wire'[TransportOf[q]]) = Msg(q)
  <2>1. CASE q = p
    <3>1. BetweenSubmissions(p)' \/ call'[p] = "returned"
      BY <1>2 DEF BetweenSubmissions
    <3>2. BetweenSubmissions(p)' => p \in WithPayload
      BY <1>2 DEF BetweenSubmissions
    <3> QED
      BY <1>4, <1>6, <1>8, <2>1, <3>1, <3>2
  <2>2. CASE q # p
    <3>1. BetweenSubmissions(q) => TransportOf[q] # t
      BY <1>3 DEF Sending
    <3>2. TransportOf[q] \in Transports
      BY Given
    <3> QED
      BY <1>5, <1>6, <1>7, <2>2, <3>1, <3>2 DEF WireCalls
  <2> QED
    BY <2>1, <2>2
<1> QED
  BY <1>4, <1>9 DEF WireInv, WireCalls

(* send() submits the payload, right after its message.                    *)
LEMMA WirePayload ==
    ASSUME TypeOK, TypeOK', LockInv, WireInv, NEW p \in Packets, Submit(p, "payload"),
           call[p] = "submitted", call' = [call EXCEPT ![p] = "returned"]
    PROVE  WireInv'
<1> DEFINE t == TransportOf[p]
<1>1. "payload" \in Kinds /\ "payload" # "message" /\ call[p] # "returned" /\ BetweenSubmissions(p)
  BY DEF Kinds, BetweenSubmissions
<1>2. p \in WithPayload /\ wire[t] # <<>> /\ LastOf(wire[t]) = Msg(p) /\ Submitted(Msg(p))
  BY <1>1, BetweenIsSubmitted DEF WireInv, WireCalls
<1>3. /\ WireKinds' /\ WireLast' /\ Framed' /\ wire'[t] # <<>>
  BY <1>1, <1>2, WireSubmits
<1>4. \A q \in Packets : q # p => /\ call'[q] = call[q]
                                  /\ Submitted(Msg(q))' <=> Submitted(Msg(q))
                                  /\ Submitted(Pay(q))' <=> Submitted(Pay(q))
                                  /\ BetweenSubmissions(q)' <=> BetweenSubmissions(q)
  BY <1>1, WireGrows
<1>5. /\ t \in Transports /\ (Submitted(Msg(p)) => Submitted(Msg(p))')
      /\ \A u \in Transports : u # t => wire'[u] = wire[u]
  BY <1>1, Submission, TransferIs DEF Msg
<1>6. call'[p] = "returned" /\ ~BetweenSubmissions(p)'
  BY DEF TypeOK, BetweenSubmissions
<1>7. WireCalls
  BY DEF WireInv
<1>8. ASSUME NEW q \in Packets
      PROVE  /\ Submitted(Msg(q))' => BetweenSubmissions(q)' \/ call'[q] = "returned"
             /\ Submitted(Pay(q))' => call'[q] = "returned" /\ Submitted(Msg(q))' /\ q \in WithPayload
             /\ BetweenSubmissions(q)' => /\ q \in WithPayload
                                          /\ wire'[TransportOf[q]] # <<>>
                                          /\ LastOf(wire'[TransportOf[q]]) = Msg(q)
  <2>1. CASE q = p
    BY <1>2, <1>5, <1>6, <2>1
  <2>2. CASE q # p
    <3>1. BetweenSubmissions(q) => TransportOf[q] # t
      <4>1. BetweenSubmissions(q) => mSendMutex[TransportOf[q]] = q
        BY DEF LockInv, InSend, BetweenSubmissions
      <4>2. mSendMutex[t] = p
        BY DEF LockInv, InSend
      <4> QED
        BY <2>2, <4>1, <4>2
    <3>2. TransportOf[q] \in Transports
      BY Given
    <3> QED
      BY <1>4, <1>5, <1>7, <2>2, <3>1, <3>2 DEF WireCalls
  <2> QED
    BY <2>1, <2>2
<1> QED
  BY <1>3, <1>8 DEF WireInv, WireCalls

(* Every step keeps what is said of the wire.                              *)
LEMMA WireStep == TypeOK /\ TypeOK' /\ LockInv /\ WireInv /\ [Next]_vars => WireInv'
<1> SUFFICES ASSUME TypeOK, TypeOK', LockInv, WireInv, [Next]_vars PROVE WireInv'
  OBVIOUS
<1>1. ASSUME NEW p \in Packets, SendCalled(p) PROVE WireInv'
  BY <1>1, WireKept DEF SendCalled, usb, BetweenSubmissions
<1>2. ASSUME NEW p \in Packets, SendEmplaces(p) PROVE WireInv'
  BY <1>2, WireKept DEF SendEmplaces, usb, BetweenSubmissions
<1>3. ASSUME NEW p \in Packets, SendSubmitsMessage(p) PROVE WireInv'
  <2>1. call[p] = "emplaced" /\ ~BetweenSubmissions(p)
    BY <1>3 DEF SendSubmitsMessage, BetweenSubmissions
  <2>2. CASE Submit(p, "message") /\ AfterMessage(p)
    BY <2>1, <2>2, WireMessage DEF AfterMessage, Leave
  <2>3. CASE Leave(p) /\ UNCHANGED usb
    BY <2>1, <2>3, WireKept DEF Leave, usb
  <2> QED
    BY <1>3, <2>2, <2>3 DEF SendSubmitsMessage
<1>4. ASSUME NEW p \in Packets, SendSubmitsPayload(p) PROVE WireInv'
  <2>1. call[p] = "submitted" /\ BetweenSubmissions(p)
    BY <1>4 DEF SendSubmitsPayload, BetweenSubmissions
  <2>2. CASE Submit(p, "payload") /\ Leave(p)
    BY <2>1, <2>2, WirePayload DEF Leave
  <2>3. CASE call' = [call EXCEPT ![p] = "cancelling"] /\ UNCHANGED usb
    BY <2>1, <2>3, WireKept DEF usb
  <2> QED
    BY <1>4, <2>2, <2>3 DEF SendSubmitsPayload
<1>5. ASSUME NEW p \in Packets, SendCancels(p) PROVE WireInv'
  BY <1>5, WireKept DEF SendCancels, Leave, Cancel, BetweenSubmissions
<1>6. CASE CallbackBegins
  BY <1>6, WireSame DEF CallbackBegins
<1>7. ASSUME NEW p \in Packets, staticSendMessageCallback(p) \/ staticSendPayloadCallback(p)
      PROVE  WireInv'
  <2>1. UNCHANGED <<wire, call>>
    BY <1>7 DEF staticSendMessageCallback, staticSendPayloadCallback, usb, Cancel
  <2> QED
    BY <2>1, WireSame
<1>8. ASSUME NEW t \in Transports, TransferEnds(t) PROVE WireInv'
  BY <1>8, WireSame DEF TransferEnds
<1>9. CASE UNCHANGED vars
  BY <1>9, WireSame DEF vars, usb
<1> QED
  BY <1>1, <1>2, <1>3, <1>4, <1>5, <1>6, <1>7, <1>8, <1>9 DEF Next, SendStep, Callback

(* Before the first step nothing is submitted and no lock is held.         *)
LEMMA FirstSend == Init => LockInv /\ WireInv
<1> SUFFICES ASSUME Init PROVE LockInv /\ WireInv
  OBVIOUS
<1>1. \A p \in Packets : /\ mSendMutex[TransportOf[p]] # p /\ call[p] = "none"
                         /\ messageLock[p] # Event /\ ~InEvent(Msg(p)) /\ ~BetweenSubmissions(p)
  BY Given DEF Init, InEvent, Nobody, Event, BetweenSubmissions
<1>2. LockInv
  BY <1>1 DEF LockInv, InSend
<1>3. \A t \in Transports : wire[t] = <<>> /\ DOMAIN wire[t] = {} /\ Len(wire[t]) = 0
  BY EmptySeq DEF Init
<1>4. \A x \in Transfers : ~Submitted(x)
  BY <1>3, Given, TransferTypes DEF Submitted, Contains
<1>5. WireKinds /\ WireLast /\ Framed
  BY <1>3 DEF WireKinds, WireLast, Framed
<1>6. WireCalls
  BY <1>1, <1>4, TransferIs DEF WireCalls
<1> QED
  BY <1>2, <1>5, <1>6 DEF WireInv

(* The device can tell packets apart: on the wire each message that        *)
(* announces a payload is followed by that payload, whatever the threads   *)
(* that send() and however callbacks run among them (UsbTransport.cpp:     *)
(* 150-215), but for a packet whose payload could not be submitted.        *)
THEOREM PacketsStayWhole == Spec => []Framed
<1>1. TypeOK /\ TypeOK' /\ LockInv /\ WireInv /\ [Next]_vars => LockInv' /\ WireInv'
  BY LockStep, WireStep
<1>2. WireInv => Framed
  BY DEF WireInv
<1> QED
  BY <1>1, <1>2, FirstSend, Typing, PTL DEF Spec

-----------------------------------------------------------------------------
(* Where the transfers of a packet are.                                    *)
Orderly(s) == Unique(s) /\ \A p \in Packets : Before(s, Msg(p), Pay(p))

(* A transfer that was submitted is in one place, once: on the endpoint,   *)
(* among those that ended, or in its callback; and a message is never      *)
(* behind its payload.                                                     *)
InOnePlace ==
    \A x \in Transfers : /\ OnEndpoint(x) => ~InDone(x) /\ ~InEvent(x)
                         /\ InDone(x) => ~InEvent(x)
                         /\ Pending(x) => Submitted(x)
MessageFirst ==
    \A p \in Packets : /\ OnEndpoint(Msg(p)) => ~InDone(Pay(p)) /\ ~InEvent(Pay(p))
                       /\ InDone(Msg(p)) => ~InEvent(Pay(p))
EndpointOrder ==
    \A t \in Transports : /\ Orderly(endpoint[t])
                          /\ \A x : Contains(endpoint[t], x) => TransportOf[x.packet] = t
FlightInv == EndpointOrder /\ Orderly(Finished) /\ InOnePlace /\ MessageFirst

(* The transfers that ended, when one more ends or the first has its       *)
(* callback.                                                               *)
LEMMA OfAllGrows ==
    ASSUME NEW d \in Seq(EndedTransfers), NEW e \in EndedTransfers
    PROVE  OfAll(d) \in Seq(Transfers) /\ OfAll(Append(d, e)) = Append(OfAll(d), Of(e))
<1>1. /\ Len(d) \in Nat /\ DOMAIN d = 1..Len(d) /\ DOMAIN Append(d, e) = 1..(Len(d) + 1)
      /\ \A i \in 1..Len(d) : Append(d, e)[i] = d[i] /\ d[i] \in EndedTransfers
      /\ Append(d, e)[Len(d) + 1] = e
  BY AppendProperties, LenProperties, ElementOfSeq
<1>2. \A x \in EndedTransfers : Of(x) \in Transfers
  BY TransferIs
<1>3. OfAll(d) \in Seq(Transfers) /\ Len(OfAll(d)) = Len(d) /\ \A i \in 1..Len(d) : OfAll(d)[i] = Of(d[i])
  BY <1>1, <1>2, IsASeq DEF OfAll
<1>4. OfAll(Append(d, e)) \in Seq(Transfers) /\ Len(OfAll(Append(d, e))) = Len(d) + 1
      /\ \A i \in 1..(Len(d) + 1) : OfAll(Append(d, e))[i] = Of(Append(d, e)[i])
  <2>1. Append(d, e) \in Seq(EndedTransfers) /\ Len(Append(d, e)) = Len(d) + 1
    BY AppendProperties
  <2>2. \A i \in 1..(Len(d) + 1) : Append(d, e)[i] \in EndedTransfers
    BY <2>1, ElementOfSeq
  <2> QED
    BY <1>1, <1>2, <2>2, IsASeq DEF OfAll
<1>5. /\ Append(OfAll(d), Of(e)) \in Seq(Transfers) /\ Len(Append(OfAll(d), Of(e))) = Len(d) + 1
      /\ \A i \in 1..Len(d) : Append(OfAll(d), Of(e))[i] = OfAll(d)[i]
      /\ Append(OfAll(d), Of(e))[Len(d) + 1] = Of(e)
  BY <1>2, <1>3, AppendProperties
<1>6. \A i \in 1..(Len(d) + 1) : OfAll(Append(d, e))[i] = Append(OfAll(d), Of(e))[i]
  <2>1. \A i \in 1..(Len(d) + 1) : i \in 1..Len(d) \/ i = Len(d) + 1
    BY <1>1
  <2> QED
    BY <1>1, <1>3, <1>4, <1>5, <2>1
<1> QED
  BY <1>3, <1>4, <1>5, <1>6, SeqEqual

(* ... and when the first of them has its callback.                        *)
LEMMA OfAllShrinks ==
    ASSUME NEW d \in Seq(EndedTransfers), d # <<>>
    PROVE  /\ OfAll(d) \in Seq(Transfers) /\ OfAll(d) # <<>> /\ Head(OfAll(d)) = Of(Head(d))
           /\ OfAll(Tail(d)) = Tail(OfAll(d))
<1> DEFINE n == Len(d)
<1>1. /\ n \in Nat \ {0} /\ DOMAIN d = 1..n /\ 1 \in 1..n /\ n - 1 \in Nat
      /\ \A i \in 1..n : d[i] \in EndedTransfers
      /\ \A i \in 1..(n - 1) : i + 1 \in 1..n
  BY LenProperties, ElementOfSeq, EmptySeq
<1>2. /\ Head(d) = d[1] /\ Len(Tail(d)) = n - 1 /\ DOMAIN Tail(d) = 1..(n - 1)
      /\ \A i \in 1..(n - 1) : Tail(d)[i] = d[i + 1]
  BY HeadTailProperties, LenProperties
<1> HIDE DEF n
<1>3. OfAll(d) \in Seq(Transfers) /\ Len(OfAll(d)) = n /\ \A i \in 1..n : OfAll(d)[i] = Of(d[i])
  BY <1>1, TransferIs, IsASeq DEF OfAll
<1>4. /\ OfAll(Tail(d)) \in Seq(Transfers) /\ Len(OfAll(Tail(d))) = n - 1
      /\ \A i \in 1..(n - 1) : OfAll(Tail(d))[i] = Of(d[i + 1])
  <2>1. \A i \in 1..(n - 1) : Tail(d)[i] \in EndedTransfers
    BY <1>1, <1>2
  <2> QED
    BY <1>1, <1>2, <2>1, TransferIs, IsASeq DEF OfAll
<1>5. OfAll(d) # <<>> /\ Head(OfAll(d)) = Of(Head(d))
  BY <1>1, <1>2, <1>3, EmptySeq, HeadTailProperties
<1>6. /\ Tail(OfAll(d)) \in Seq(Transfers) /\ Len(Tail(OfAll(d))) = n - 1
      /\ \A i \in 1..(n - 1) : Tail(OfAll(d))[i] = OfAll(d)[i + 1]
  BY <1>3, <1>5, HeadTailProperties
<1>7. \A i \in 1..(n - 1) : OfAll(Tail(d))[i] = Tail(OfAll(d))[i]
  BY <1>1, <1>3, <1>4, <1>6
<1> QED
  BY <1>3, <1>4, <1>5, <1>6, <1>7, SeqEqual

(* Transfers in order stay so when one is taken, or added that is not      *)
(* there and whose payload is not either.                                  *)
LEMMA OrderlyAppend ==
    ASSUME NEW s \in Seq(Transfers), NEW x \in Transfers, Orderly(s), ~Contains(s, x),
           \A p \in Packets : x = Msg(p) => ~Contains(s, Pay(p))
    PROVE  Orderly(Append(s, x))
<1>1. \A p \in Packets : Msg(p) # Pay(p)
  BY TransferIs DEF Msg, Pay
<1> QED
  BY <1>1, AppendElements DEF Orderly

(* ... when the first is taken, ...                                        *)
LEMMA OrderlyTail ==
    ASSUME NEW s \in Seq(Transfers), s # <<>>, Orderly(s)
    PROVE  /\ Orderly(Tail(s)) /\ Contains(s, Head(s))
           /\ \A y : Contains(Tail(s), y) <=> Contains(s, y) /\ y # Head(s)
           /\ \A p \in Packets : Head(s) = Pay(p) => ~Contains(s, Msg(p))
  BY TailElements DEF Orderly

(* ... and when one is taken from anywhere.                                *)
LEMMA OrderlyRemove ==
    ASSUME NEW s \in Seq(Transfers), NEW k \in 1..Len(s), Orderly(s)
    PROVE  /\ Orderly(RemoveAt(s, k))
           /\ \A y : Contains(RemoveAt(s, k), y) <=> Contains(s, y) /\ y # s[k]
  BY RemoveElements DEF Orderly

(* A step of the transfers: whether the callback goes on or ends in it.    *)
EventKept == event' = event \/ event' = <<>>
(* What is in its callback after such a step.                              *)
LEMMA EventStep == EventKept => \A y : InEvent(y)' <=> InEvent(y) /\ event' # <<>>
  BY DEF EventKept, InEvent

(* A transfer is submitted.                                                *)
LEMMA FlightSubmits ==
    ASSUME TypeOK, FlightInv, NEW p \in Packets, NEW k \in Kinds, Submit(p, k), UNCHANGED event,
           ~Submitted(Transfer(p, k)), k = "message" => ~Submitted(Pay(p))
    PROVE  /\ FlightInv'
           /\ \A y \in Transfers : Pending(y)' <=> Pending(y) \/ y = Transfer(p, k)
<1> DEFINE x == Transfer(p, k)
           t == TransportOf[p]
<1>1. x \in Transfers /\ x.packet = p /\ x.kind = k
  BY TransferTypes, TransferIs
<1>2. /\ \A y \in Transfers : /\ Submitted(y)' <=> Submitted(y) \/ y = x
                              /\ OnEndpoint(y)' <=> OnEndpoint(y) \/ y = x
      /\ t \in Transports /\ endpoint'[t] = Append(endpoint[t], x)
      /\ \A u \in Transports : u # t => endpoint'[u] = endpoint[u]
      /\ done' = done
  BY Submission
<1>3. \A y : (InDone(y)' <=> InDone(y)) /\ (InEvent(y)' <=> InEvent(y))
  BY <1>2 DEF InDone, InEvent, Finished
<1>4. ~OnEndpoint(x) /\ ~InDone(x) /\ ~InEvent(x)
  BY <1>1 DEF FlightInv, InOnePlace, Pending
<1>5. \A q \in Packets : x = Msg(q) =>
          q = p /\ ~OnEndpoint(Pay(p)) /\ ~InDone(Pay(p)) /\ ~InEvent(Pay(p))
  BY TransferIs DEF FlightInv, InOnePlace, Pending, Msg
<1>6. EndpointOrder'
  <2>1. endpoint[t] \in Seq(Transfers) /\ Orderly(endpoint[t])
    BY <1>2 DEF TypeOK, FlightInv, EndpointOrder
  <2>2. ~Contains(endpoint[t], x) /\ \A q \in Packets : x = Msg(q) => ~Contains(endpoint[t], Pay(q))
    BY <1>1, <1>4, <1>5, TransferIs DEF OnEndpoint, Pay
  <2>3. Orderly(endpoint'[t])
    BY <1>1, <1>2, <2>1, <2>2, OrderlyAppend
  <2>4. \A y : Contains(endpoint'[t], y) <=> Contains(endpoint[t], y) \/ y = x
    BY <1>1, <1>2, <2>1, AppendElements
  <2>5. EndpointOrder
    BY DEF FlightInv
  <2>6. ASSUME NEW u \in Transports
        PROVE  Orderly(endpoint'[u]) /\ \A y : Contains(endpoint'[u], y) => TransportOf[y.packet] = u
    <3>1. CASE u = t
      BY <1>1, <2>3, <2>4, <2>5, <3>1 DEF EndpointOrder
    <3>2. CASE u # t
      BY <1>2, <2>5, <3>2 DEF EndpointOrder
    <3> QED
      BY <3>1, <3>2
  <2> QED
    BY <2>6 DEF EndpointOrder
<1>7. Orderly(Finished)'
  BY <1>2 DEF FlightInv, Finished
<1>8. \A y \in Transfers : Pending(y)' <=> Pending(y) \/ y = x
  BY <1>2, <1>3 DEF Pending
<1>9. InOnePlace'
  BY <1>2, <1>3, <1>4, <1>8 DEF FlightInv, InOnePlace
<1>10. MessageFirst'
  <2>1. \A q \in Packets : OnEndpoint(Msg(q))' <=> OnEndpoint(Msg(q)) \/ Msg(q) = x
    BY <1>2, TransferIs
  <2> QED
    BY <1>3, <1>5, <2>1 DEF FlightInv, MessageFirst
<1> QED
  BY <1>6, <1>7, <1>8, <1>9, <1>10 DEF FlightInv

(* A transfer ends: the first of its endpoint, or one that is cancelled.   *)
LEMMA FlightMoves ==
    ASSUME TypeOK, FlightInv, NEW t \in Transports, NEW i \in 1..Len(endpoint[t]),
           NEW s \in AllStatuses, NEW e \in Seq(Transfers),
           Orderly(e), \A y : Contains(e, y) <=> Contains(endpoint[t], y) /\ y # endpoint[t][i],
           endpoint' = [endpoint EXCEPT ![t] = e], done' = Append(done, Ended(endpoint[t][i], s)),
           UNCHANGED wire, EventKept,
           \A p \in Packets : endpoint[t][i] = Pay(p) => ~OnEndpoint(Msg(p))
    PROVE  /\ FlightInv'
           /\ \A y \in Transfers :
                  /\ OnEndpoint(y)' <=> OnEndpoint(y) /\ y # endpoint[t][i]
                  /\ Pending(y)' <=> Pending(y) /\ (InEvent(y) => event' # <<>>)
           /\ endpoint[t][i] \in Transfers /\ OnEndpoint(endpoint[t][i])
<1> DEFINE x == endpoint[t][i]
<1>1. /\ x \in Transfers /\ Contains(endpoint[t], x) /\ endpoint[t] \in Seq(Transfers)
      /\ Ended(x, s) \in EndedTransfers /\ Of(Ended(x, s)) = x
  BY ElementOfSeq, TransferTypes, TransferIs DEF TypeOK, Contains
<1>2. TransportOf[x.packet] = t /\ OnEndpoint(x)
  BY <1>1 DEF FlightInv, EndpointOrder, OnEndpoint
<1>3. endpoint'[t] = e /\ \A u \in Transports : u # t => endpoint'[u] = endpoint[u]
  BY DEF TypeOK
<1> HIDE DEF x
<1>4. \A y \in Transfers : OnEndpoint(y)' <=> OnEndpoint(y) /\ y # x
  <2> SUFFICES ASSUME NEW y \in Transfers PROVE OnEndpoint(y)' <=> OnEndpoint(y) /\ y # x
    OBVIOUS
  <2>1. TransportOf[y.packet] \in Transports
    BY Given, TransferTypes
  <2>2. CASE TransportOf[y.packet] = t
    BY <1>3, <2>2 DEF OnEndpoint, x
  <2>3. CASE TransportOf[y.packet] # t
    BY <1>2, <1>3, <2>1, <2>3 DEF OnEndpoint
  <2> QED
    BY <2>2, <2>3
<1>5. Finished \in Seq(Transfers) /\ Finished' = Append(Finished, x)
  BY <1>1, OfAllGrows DEF Finished, TypeOK, x
<1>6. \A y : InDone(y)' <=> InDone(y) \/ y = x
  BY <1>1, <1>5, AppendElements DEF InDone
<1>7. \A y : InEvent(y)' <=> InEvent(y) /\ event' # <<>>
  BY EventStep
<1>8. \A y \in Transfers : Submitted(y)' <=> Submitted(y)
  BY DEF Submitted
<1>9. ~InDone(x) /\ ~InEvent(x)
  BY <1>1, <1>2 DEF FlightInv, InOnePlace
<1>10. EndpointOrder'
  <2>1. EndpointOrder
    BY DEF FlightInv
  <2>2. ASSUME NEW u \in Transports
        PROVE  Orderly(endpoint'[u]) /\ \A y : Contains(endpoint'[u], y) => TransportOf[y.packet] = u
    <3>1. CASE u = t
      BY <1>3, <2>1, <3>1 DEF EndpointOrder
    <3>2. CASE u # t
      BY <1>3, <2>1, <3>2 DEF EndpointOrder
    <3> QED
      BY <3>1, <3>2
  <2> QED
    BY <2>2 DEF EndpointOrder
<1>11. Orderly(Finished')
  <2>1. \A p \in Packets : x = Msg(p) => ~Contains(Finished, Pay(p))
    BY <1>2 DEF FlightInv, MessageFirst, InDone
  <2>2. Orderly(Finished) /\ ~Contains(Finished, x)
    BY <1>9 DEF FlightInv, InDone
  <2> QED
    BY <1>1, <1>5, <2>1, <2>2, OrderlyAppend
<1>12. \A y \in Transfers : Pending(y)' <=> Pending(y) /\ (InEvent(y) => event' # <<>>)
  BY <1>2, <1>4, <1>6, <1>7, <1>9 DEF FlightInv, InOnePlace, Pending
<1>13. InOnePlace'
  BY <1>2, <1>4, <1>6, <1>7, <1>8, <1>9, <1>12 DEF FlightInv, InOnePlace
<1>14. MessageFirst'
  <2> SUFFICES ASSUME NEW p \in Packets
               PROVE  /\ OnEndpoint(Msg(p))' => ~InDone(Pay(p))' /\ ~InEvent(Pay(p))'
                      /\ InDone(Msg(p))' => ~InEvent(Pay(p))'
    BY DEF MessageFirst
  <2>1. Msg(p) \in Transfers /\ Pay(p) \in Transfers
    BY TransferIs
  <2>2. x = Pay(p) => ~OnEndpoint(Msg(p))
    BY DEF x
  <2> QED
    BY <1>2, <1>4, <1>6, <1>7, <2>1, <2>2 DEF FlightInv, MessageFirst
<1> QED
  BY <1>1, <1>2, <1>4, <1>10, <1>11, <1>12, <1>13, <1>14 DEF FlightInv, Finished, x

(* A callback begins.                                                      *)
LEMMA FlightBegins ==
    ASSUME TypeOK, FlightInv, CallbackBegins
    PROVE  FlightInv' /\ \A y \in Transfers : /\ Pending(y)' <=> Pending(y)
                                              /\ OnEndpoint(y)' <=> OnEndpoint(y)
                                              /\ InEvent(y)' <=> y = Of(Head(done))
<1> DEFINE x == Of(Head(done))
<1>1. /\ event = <<>> /\ done # <<>> /\ event' = Head(done) /\ done' = Tail(done)
      /\ UNCHANGED <<endpoint, wire>>
  BY DEF CallbackBegins
<1>2. Head(done) \in EndedTransfers /\ x \in Transfers /\ event' # <<>>
  BY <1>1, TransferIs, HeadTailProperties DEF TypeOK
<1>3. Finished \in Seq(Transfers) /\ Finished # <<>> /\ Head(Finished) = x /\ Finished' = Tail(Finished)
  BY <1>1, OfAllShrinks DEF TypeOK, Finished
<1>4. /\ Orderly(Finished') /\ InDone(x)
      /\ \A y : InDone(y)' <=> InDone(y) /\ y # x
      /\ \A p \in Packets : x = Pay(p) => ~InDone(Msg(p))
  BY <1>3, OrderlyTail DEF FlightInv, InDone
<1> HIDE DEF x
<1>5. \A y : ~InEvent(y) /\ (InEvent(y)' <=> y = x)
  BY <1>1, <1>2 DEF InEvent, x
<1>6. \A y : (OnEndpoint(y)' <=> OnEndpoint(y)) /\ (Submitted(y)' <=> Submitted(y))
  BY <1>1 DEF OnEndpoint, Submitted
<1>7. EndpointOrder'
  BY <1>1 DEF FlightInv, EndpointOrder
<1>8. \A y \in Transfers : Pending(y)' <=> Pending(y)
  BY <1>4, <1>5, <1>6 DEF Pending
<1>9. InOnePlace'
  BY <1>4, <1>5, <1>6, <1>8 DEF FlightInv, InOnePlace
<1>10. MessageFirst'
  <2> SUFFICES ASSUME NEW p \in Packets
               PROVE  /\ OnEndpoint(Msg(p))' => ~InDone(Pay(p))' /\ ~InEvent(Pay(p))'
                      /\ InDone(Msg(p))' => ~InEvent(Pay(p))'
    BY DEF MessageFirst
  <2>1. OnEndpoint(Msg(p)) => ~InDone(Pay(p))
    BY DEF FlightInv, MessageFirst
  <2> QED
    BY <1>4, <1>5, <1>6, <2>1
<1> QED
  BY <1>4, <1>5, <1>6, <1>7, <1>8, <1>9, <1>10 DEF FlightInv, Finished, x

(* The transfers stay where they are, or a callback ends.                  *)
LEMMA FlightSame ==
    ASSUME FlightInv, UNCHANGED <<endpoint, done, wire>>, EventKept
    PROVE  FlightInv' /\ \A y : /\ Pending(y)' <=> Pending(y) /\ (InEvent(y) => event' # <<>> \/ OnEndpoint(y) \/ InDone(y))
                                /\ OnEndpoint(y)' <=> OnEndpoint(y)
                                /\ Submitted(y)' <=> Submitted(y)
<1>1. \A y : InEvent(y)' <=> InEvent(y) /\ event' # <<>>
  BY EventStep
<1>2. \A y : /\ OnEndpoint(y)' <=> OnEndpoint(y)
             /\ Submitted(y)' <=> Submitted(y)
             /\ InDone(y)' <=> InDone(y)
  BY DEF OnEndpoint, Submitted, InDone, Finished
<1>3. EndpointOrder' /\ Orderly(Finished)'
  BY DEF FlightInv, EndpointOrder, Finished
<1>4. \A y : Pending(y)' <=> Pending(y) /\ (InEvent(y) => event' # <<>> \/ OnEndpoint(y) \/ InDone(y))
  BY <1>1, <1>2 DEF Pending
<1>5. InOnePlace'
  BY <1>1, <1>2, <1>4 DEF FlightInv, InOnePlace
<1>6. MessageFirst'
  BY <1>1, <1>2 DEF FlightInv, MessageFirst
<1> QED
  BY <1>2, <1>3, <1>4, <1>5, <1>6 DEF FlightInv

(* Part of a transfer's life: what was pending is, but for a callback that *)
(* ends.                                                                   *)
PendingKept == \A y \in Transfers : /\ Pending(y)' <=> Pending(y) /\ (InEvent(y) => event' # <<>>)
                                    /\ OnEndpoint(y)' => OnEndpoint(y)

(* A step that leaves the transfers where they are.                        *)
LEMMA FlightRests ==
    ASSUME FlightInv, UNCHANGED <<endpoint, done, wire>>, EventKept
    PROVE  FlightInv' /\ PendingKept
  BY FlightSame DEF PendingKept, FlightInv, InOnePlace

(* cancel() finds the transfer in flight, or not.                          *)
LEMMA FlightCancels ==
    ASSUME TypeOK, FlightInv, NEW x \in Transfers, Cancel(x), EventKept,
           \A p \in Packets : x = Pay(p) => ~OnEndpoint(Msg(p))
    PROVE  FlightInv' /\ PendingKept
<1> DEFINE t == TransportOf[x.packet]
<1>1. t \in Transports /\ wire' = wire /\ "CANCELLED" \in AllStatuses
  BY Given, TransferTypes DEF Cancel, AllStatuses
<1>2. CASE UNCHANGED <<endpoint, done>>
  BY <1>1, <1>2, FlightRests
<1>3. ASSUME NEW i \in DOMAIN endpoint[t], endpoint[t][i] = x,
             endpoint' = [endpoint EXCEPT ![t] = RemoveAt(@, i)],
             done' = Append(done, Ended(x, "CANCELLED"))
      PROVE  FlightInv' /\ PendingKept
  <2> DEFINE e == RemoveAt(endpoint[t], i)
  <2>1. endpoint[t] \in Seq(Transfers) /\ i \in 1..Len(endpoint[t])
    BY <1>1, <1>3 DEF TypeOK
  <2>2. e \in Seq(Transfers)
    BY <2>1, RemoveElements
  <2>3. Orderly(endpoint[t])
    BY <1>1 DEF FlightInv, EndpointOrder
  <2>4. Orderly(e) /\ \A y : Contains(e, y) <=> Contains(endpoint[t], y) /\ y # endpoint[t][i]
    BY <2>1, <2>3, OrderlyRemove
  <2>5. endpoint' = [endpoint EXCEPT ![t] = e]
    BY <1>3
  <2> HIDE DEF e, t
  <2>6. /\ FlightInv'
        /\ \A y \in Transfers : /\ OnEndpoint(y)' <=> OnEndpoint(y) /\ y # endpoint[t][i]
                                /\ Pending(y)' <=> Pending(y) /\ (InEvent(y) => event' # <<>>)
    BY <1>1, <1>3, <2>1, <2>2, <2>4, <2>5, FlightMoves
  <2> QED
    BY <2>6 DEF PendingKept
<1> QED
  BY <1>2, <1>3 DEF Cancel

(* The first transfer of an endpoint ends.                                 *)
LEMMA FlightEnds ==
    ASSUME TypeOK, FlightInv, NEW t \in Transports, TransferEnds(t), NEW x, x = Head(endpoint[t])
    PROVE  /\ FlightInv' /\ PendingKept
           /\ x \in Transfers /\ OnEndpoint(x) /\ ~OnEndpoint(x)'
<1> DEFINE e == Tail(endpoint[t])
<1>1. PICK s \in Statuses : done' = Append(done, Ended(x, s))
  BY DEF TransferEnds
<1>2. /\ endpoint' = [endpoint EXCEPT ![t] = e] /\ endpoint[t] # <<>>
      /\ wire' = wire /\ event' = event /\ s \in AllStatuses
  BY Given DEF TransferEnds
<1>3. endpoint[t] \in Seq(Transfers) /\ e \in Seq(Transfers) /\ x = endpoint[t][1] /\ 1 \in 1..Len(endpoint[t])
  BY <1>2, HeadTailProperties, EmptySeq DEF TypeOK
<1>4. /\ Orderly(e) /\ Contains(endpoint[t], x)
      /\ \A y : Contains(e, y) <=> Contains(endpoint[t], y) /\ y # x
      /\ \A p \in Packets : x = Pay(p) => ~Contains(endpoint[t], Msg(p))
  BY <1>2, <1>3, OrderlyTail DEF FlightInv, EndpointOrder
<1>5. ASSUME NEW p \in Packets, x = Pay(p) PROVE ~OnEndpoint(Msg(p))
  <2>1. TransportOf[p] = t
    BY <1>4, <1>5, TransferIs DEF FlightInv, EndpointOrder, Pay
  <2> QED
    BY <1>4, <1>5, <2>1, TransferIs DEF OnEndpoint, Msg
<1> HIDE DEF e
<1>6. EventKept
  BY <1>2 DEF EventKept
<1>7. /\ FlightInv'
      /\ \A y \in Transfers : /\ OnEndpoint(y)' <=> OnEndpoint(y) /\ y # endpoint[t][1]
                              /\ Pending(y)' <=> Pending(y) /\ (InEvent(y) => event' # <<>>)
      /\ endpoint[t][1] \in Transfers /\ OnEndpoint(endpoint[t][1])
  BY <1>1, <1>2, <1>3, <1>4, <1>5, <1>6, FlightMoves
<1>8. x \in Transfers
  BY <1>3, <1>7
<1>9. OnEndpoint(x)
  BY <1>4, <1>8 DEF FlightInv, EndpointOrder, OnEndpoint
<1>10. PendingKept
  BY <1>7 DEF PendingKept
<1> QED
  BY <1>3, <1>7, <1>8, <1>9, <1>10

(* The two submissions of send(): the transfer is new. The message ...     *)
LEMMA MessageIsNew ==
    ASSUME TypeOK, WireInv, FlightInv, NEW p \in Packets, call[p] = "emplaced",
           Submit(p, "message"), UNCHANGED event
    PROVE  /\ FlightInv' /\ ~Submitted(Msg(p)) /\ ~Submitted(Pay(p))
           /\ \A y \in Transfers : Pending(y)' <=> Pending(y) \/ y = Msg(p)
<1>1. ~Submitted(Msg(p)) /\ ~Submitted(Pay(p)) /\ "message" \in Kinds
  BY DEF WireInv, WireCalls, BetweenSubmissions, Kinds
<1> QED
  BY <1>1, FlightSubmits DEF Msg

(* ... and the payload.                                                    *)
LEMMA PayloadIsNew ==
    ASSUME TypeOK, WireInv, FlightInv, NEW p \in Packets, call[p] = "submitted",
           Submit(p, "payload"), UNCHANGED event
    PROVE  /\ FlightInv' /\ ~Submitted(Pay(p)) /\ Submitted(Msg(p)) /\ p \in WithPayload
           /\ \A y \in Transfers : Pending(y)' <=> Pending(y) \/ y = Pay(p)
<1>1. Submitted(Msg(p)) /\ ~Submitted(Pay(p)) /\ p \in WithPayload
  BY BetweenIsSubmitted DEF BetweenSubmissions
<1>2. "payload" \in Kinds /\ "payload" # "message"
  BY DEF Kinds
<1> QED
  BY <1>1, <1>2, FlightSubmits DEF Pay

(* send() cancels its message.                                             *)
LEMMA SendCancelsFlight ==
    ASSUME TypeOK, FlightInv, NEW p \in Packets, SendCancels(p)
    PROVE  FlightInv' /\ PendingKept /\ event' = event
<1>1. Cancel(Msg(p)) /\ event' = event /\ EventKept
  BY DEF SendCancels, Msg, EventKept
<1>2. Msg(p) \in Transfers /\ \A q \in Packets : Msg(p) # Pay(q)
  BY TransferIs DEF Msg, Pay
<1> QED
  BY <1>1, <1>2, FlightCancels

(* A callback ends, the message's perhaps after it cancelled the payload.  *)
LEMMA CallbackFlight ==
    ASSUME TypeOK, FlightInv, NEW p \in Packets, NEW x,
           \/ staticSendMessageCallback(p) /\ x = Msg(p)
           \/ staticSendPayloadCallback(p) /\ x = Pay(p)
    PROVE  /\ FlightInv' /\ PendingKept /\ InEvent(x) /\ x \in Transfers /\ event' = <<>>
           /\ wire' = wire /\ \A y \in Transfers : Pending(y)' <=> Pending(y) /\ y # x
<1>1. event # <<>> /\ event' = <<>> /\ event.packet = p /\ x = Transfer(event.packet, event.kind)
  BY DEF staticSendMessageCallback, staticSendPayloadCallback, InCallback, Msg, Pay
<1>2. EventKept /\ \A y : InEvent(y) <=> y = x
  BY <1>1 DEF EventKept, InEvent, Of
<1>3. x \in Transfers /\ Pay(p) \in Transfers
  BY TransferIs
<1>4. CASE staticSendMessageCallback(p) /\ x = Msg(p) /\ ~(UNCHANGED usb)
  <2>1. Cancel(Pay(p))
    BY <1>4 DEF staticSendMessageCallback, Pay
  <2>2. \A q \in Packets : Pay(p) = Pay(q) => ~OnEndpoint(Msg(q))
    BY <1>2, <1>4, TransferIs DEF FlightInv, InOnePlace, Pay
  <2>3. wire' = wire
    BY <2>1 DEF Cancel
  <2>4. FlightInv' /\ PendingKept
    BY <1>2, <1>3, <2>1, <2>2, FlightCancels
  <2> QED
    BY <1>1, <1>2, <1>3, <2>3, <2>4 DEF PendingKept
<1>5. CASE UNCHANGED usb
  <2>1. FlightInv' /\ PendingKept
    BY <1>2, <1>5, FlightRests DEF usb
  <2> QED
    BY <1>1, <1>2, <1>3, <1>5, <2>1 DEF PendingKept, usb
<1> QED
  BY <1>4, <1>5 DEF staticSendPayloadCallback

(* Every step keeps each transfer in one place, in order.                  *)
LEMMA FlightStep == TypeOK /\ WireInv /\ FlightInv /\ [Next]_vars => FlightInv'
<1> SUFFICES ASSUME TypeOK, WireInv, FlightInv, [Next]_vars PROVE FlightInv'
  OBVIOUS
<1>r. (UNCHANGED <<endpoint, done, wire, event>>) => FlightInv'
  BY FlightRests DEF EventKept
<1>1. ASSUME NEW p \in Packets, SendCalled(p) \/ SendEmplaces(p) PROVE FlightInv'
  BY <1>1, <1>r DEF SendCalled, SendEmplaces, usb
<1>2. ASSUME NEW p \in Packets, SendSubmitsMessage(p) PROVE FlightInv'
  BY <1>2, <1>r, MessageIsNew DEF SendSubmitsMessage, usb
<1>3. ASSUME NEW p \in Packets, SendSubmitsPayload(p) PROVE FlightInv'
  BY <1>3, <1>r, PayloadIsNew DEF SendSubmitsPayload, usb
<1>4. CASE UNCHANGED vars
  BY <1>4, <1>r DEF vars, usb
<1>5. ASSUME NEW t \in Transports, TransferEnds(t) PROVE FlightInv'
  BY <1>5, FlightEnds
<1> QED
  BY <1>1, <1>2, <1>3, <1>4, <1>5, SendCancelsFlight, CallbackFlight, FlightBegins
     DEF Next, SendStep, Callback

-----------------------------------------------------------------------------
(* The status that a callback sees is that with which its transfer ended.  *)
StatusInv ==
    /\ \A x \in completed : Submitted(x) /\ ~OnEndpoint(x)
    /\ \A e \in EndedTransfers : Contains(done, e) /\ Of(e) \in completed => e.status = "COMPLETED"
    /\ event # <<>> /\ Of(event) \in completed => event.status = "COMPLETED"

(* What ended without COMPLETED, or only moved on.                         *)
LEMMA StatusKept ==
    ASSUME TypeOK, StatusInv, completed' = completed, EventKept,
           \A x \in Transfers : (Submitted(x) => Submitted(x)') /\ (OnEndpoint(x)' => OnEndpoint(x) \/ ~Submitted(x)),
           \A e \in EndedTransfers : Contains(done', e) => Contains(done, e) \/ OnEndpoint(Of(e))
    PROVE  StatusInv'
<1>1. \A x \in completed : Submitted(x)' /\ ~OnEndpoint(x)'
  BY DEF StatusInv, TypeOK
<1>2. \A e \in EndedTransfers : Contains(done', e) /\ Of(e) \in completed => e.status = "COMPLETED"
  BY DEF StatusInv
<1>3. event' # <<>> /\ Of(event') \in completed => event'.status = "COMPLETED"
  BY DEF StatusInv, EventKept
<1> QED
  BY <1>1, <1>2, <1>3 DEF StatusInv

(* An ended transfer is among those that ended.                            *)
LEMMA DoneIs == TypeOK => \A e : Contains(done, e) => InDone(Of(e))
  <1> SUFFICES ASSUME TypeOK, NEW e, Contains(done, e) PROVE InDone(Of(e))
    OBVIOUS
  <1>1. PICK i \in 1..Len(done) : done[i] = e
    BY DEF Contains
  <1>2. DOMAIN done = 1..Len(done) /\ Finished \in Seq(Transfers) /\ Len(Finished) = Len(done)
    <2>1. \A j \in 1..Len(done) : done[j] \in EndedTransfers
      BY ElementOfSeq DEF TypeOK
    <2>2. Len(done) \in Nat /\ DOMAIN done = 1..Len(done)
      BY LenProperties DEF TypeOK
    <2>3. \A j \in 1..Len(done) : Of(done[j]) \in Transfers
      BY <2>1, TransferIs
    <2> QED
      BY <2>2, <2>3, IsASeq DEF Finished, OfAll
  <1>3. Finished[i] = Of(e)
    BY <1>1, <1>2 DEF Finished, OfAll
  <1> QED
    BY <1>1, <1>2, <1>3 DEF InDone, Contains

(* Every step keeps the statuses.                                          *)
LEMMA StatusStep == TypeOK /\ WireInv /\ FlightInv /\ StatusInv /\ [Next]_vars => StatusInv'
<1> SUFFICES ASSUME TypeOK, WireInv, FlightInv, StatusInv, [Next]_vars PROVE StatusInv'
  OBVIOUS
<1>r. ASSUME UNCHANGED <<endpoint, done, wire, completed>>, EventKept PROVE StatusInv'
  BY <1>r, StatusKept DEF Submitted, OnEndpoint
<1>s. ASSUME NEW p \in Packets, NEW k \in Kinds, Submit(p, k), UNCHANGED event, ~Submitted(Transfer(p, k))
      PROVE  StatusInv'
  <2>1. /\ done' = done /\ completed' = completed
        /\ \A y \in Transfers : /\ Submitted(y)' <=> Submitted(y) \/ y = Transfer(p, k)
                                /\ OnEndpoint(y)' <=> OnEndpoint(y) \/ y = Transfer(p, k)
    BY <1>s, Submission
  <2> QED
    BY <1>s, <2>1, StatusKept DEF EventKept
<1>c. ASSUME NEW x \in Transfers, Cancel(x), EventKept, PendingKept PROVE StatusInv'
  <2>1. /\ completed' = completed /\ \A y \in Transfers : Submitted(y)' <=> Submitted(y)
    BY <1>c DEF Cancel, Submitted
  <2>2. \A y \in Transfers : OnEndpoint(y)' => OnEndpoint(y)
    BY <1>c DEF PendingKept
  <2>3. ASSUME NEW i \in DOMAIN endpoint[TransportOf[x.packet]],
               endpoint[TransportOf[x.packet]][i] = x, done' = Append(done, Ended(x, "CANCELLED"))
        PROVE  \A e \in EndedTransfers : Contains(done', e) => Contains(done, e) \/ OnEndpoint(Of(e))
    <3>1. TransportOf[x.packet] \in Transports /\ Ended(x, "CANCELLED") \in EndedTransfers
          /\ Of(Ended(x, "CANCELLED")) = x
      BY Given, TransferTypes, TransferIs DEF AllStatuses
    <3>2. OnEndpoint(x)
      BY <2>3, <3>1 DEF OnEndpoint, Contains, TypeOK
    <3>3. \A e : Contains(done', e) <=> Contains(done, e) \/ e = Ended(x, "CANCELLED")
      BY <2>3, <3>1, AppendElements DEF TypeOK
    <3> QED
      BY <3>1, <3>2, <3>3
  <2>4. \A e \in EndedTransfers : Contains(done', e) => Contains(done, e) \/ OnEndpoint(Of(e))
    BY <1>c, <2>3 DEF Cancel
  <2> QED
    BY <1>c, <2>1, <2>2, <2>4, StatusKept
<1>1. ASSUME NEW p \in Packets, SendCalled(p) \/ SendEmplaces(p) PROVE StatusInv'
  BY <1>1, <1>r DEF SendCalled, SendEmplaces, usb, EventKept
<1>2. ASSUME NEW p \in Packets, SendSubmitsMessage(p) PROVE StatusInv'
  BY <1>2, <1>r, <1>s, MessageIsNew DEF SendSubmitsMessage, usb, Msg, EventKept, Kinds
<1>3. ASSUME NEW p \in Packets, SendSubmitsPayload(p) PROVE StatusInv'
  BY <1>3, <1>r, <1>s, PayloadIsNew DEF SendSubmitsPayload, usb, Pay, EventKept, Kinds
<1>4. ASSUME NEW p \in Packets, SendCancels(p) PROVE StatusInv'
  BY <1>4, <1>c, SendCancelsFlight, TransferIs DEF SendCancels, Msg, EventKept
<1>5. ASSUME NEW p \in Packets, staticSendMessageCallback(p) PROVE StatusInv'
  <2>1. PendingKept /\ EventKept
    BY <1>5, CallbackFlight DEF EventKept
  <2>2. Cancel(Pay(p)) \/ UNCHANGED usb
    BY <1>5 DEF staticSendMessageCallback, Pay
  <2> QED
    BY <1>c, <1>r, <2>1, <2>2, TransferIs DEF usb
<1>6. ASSUME NEW p \in Packets, staticSendPayloadCallback(p) PROVE StatusInv'
  BY <1>6, <1>r DEF staticSendPayloadCallback, InCallback, usb, EventKept
<1>7. CASE CallbackBegins
  <2>1. /\ done # <<>> /\ event' = Head(done) /\ done' = Tail(done)
        /\ UNCHANGED <<endpoint, wire, completed>>
    BY <1>7 DEF CallbackBegins
  <2>2. done \in Seq(EndedTransfers) /\ Head(done) \in EndedTransfers
    BY <2>1, HeadTailProperties DEF TypeOK
  <2>3. Contains(done, Head(done)) /\ \A e : Contains(done', e) => Contains(done, e)
    <3>1. /\ Len(done) \in Nat \ {0} /\ Len(Tail(done)) = Len(done) - 1
          /\ \A i \in 1..(Len(done) - 1) : Tail(done)[i] = done[i + 1]
      BY <2>1, <2>2, HeadTailProperties, EmptySeq
    <3>2. Head(done) = done[1] /\ 1 \in 1..Len(done)
      BY <3>1
    <3>3. \A i \in 1..(Len(done) - 1) : i + 1 \in 1..Len(done)
      BY <3>1
    <3> QED
      BY <2>1, <3>1, <3>2, <3>3 DEF Contains
  <2>4. \A x : (Submitted(x)' <=> Submitted(x)) /\ (OnEndpoint(x)' <=> OnEndpoint(x))
    BY <2>1 DEF Submitted, OnEndpoint
  <2>5. Of(event') \in completed' => event'.status = "COMPLETED"
    BY <2>1, <2>2, <2>3 DEF StatusInv
  <2>6. \A e \in EndedTransfers : Contains(done', e) /\ Of(e) \in completed' => e.status = "COMPLETED"
    BY <2>1, <2>3 DEF StatusInv
  <2> QED
    BY <2>1, <2>4, <2>5, <2>6 DEF StatusInv
<1>8. ASSUME NEW t \in Transports, TransferEnds(t) PROVE StatusInv'
  <2>1. PICK x : x = Head(endpoint[t])
    OBVIOUS
  <2>2. PICK s \in Statuses : /\ done' = Append(done, Ended(x, s))
                              /\ completed' = IF s = "COMPLETED" THEN completed \cup {x} ELSE completed
    BY <1>8, <2>1 DEF TransferEnds
  <2>3. PendingKept /\ x \in Transfers /\ OnEndpoint(x) /\ ~OnEndpoint(x)' /\ wire' = wire /\ event' = event
    BY <1>8, <2>1, FlightEnds DEF TransferEnds
  <2>4. Ended(x, s) \in EndedTransfers /\ Of(Ended(x, s)) = x /\ Ended(x, s).status = s
    BY <2>3, Given, TransferTypes, TransferIs
  <2>5. \A e : Contains(done', e) <=> Contains(done, e) \/ e = Ended(x, s)
    BY <2>2, <2>4, AppendElements DEF TypeOK
  <2>6. x \notin completed /\ ~InDone(x) /\ ~InEvent(x) /\ Submitted(x)
    BY <2>3 DEF StatusInv, FlightInv, InOnePlace, Pending
  <2>7. \A e : Contains(done, e) => Of(e) # x
    BY <2>6, DoneIs
  <2>8. \A y : Submitted(y)' <=> Submitted(y)
    BY <2>3 DEF Submitted
  <2>9. \A y \in completed' : Submitted(y)' /\ ~OnEndpoint(y)'
    BY <2>2, <2>3, <2>6, <2>8 DEF StatusInv, PendingKept, TypeOK
  <2>10. \A e \in EndedTransfers : Contains(done', e) /\ Of(e) \in completed' => e.status = "COMPLETED"
    BY <2>2, <2>4, <2>5, <2>6, <2>7 DEF StatusInv
  <2>11. event' # <<>> /\ Of(event') \in completed' => event'.status = "COMPLETED"
    BY <2>2, <2>3, <2>6 DEF StatusInv, InEvent
  <2> QED
    BY <2>9, <2>10, <2>11 DEF StatusInv
<1>9. CASE UNCHANGED vars
  BY <1>9, <1>r DEF vars, usb, EventKept
<1> QED
  BY <1>1, <1>2, <1>3, <1>4, <1>5, <1>6, <1>7, <1>8, <1>9 DEF Next, SendStep, Callback

-----------------------------------------------------------------------------
(* What a packet has, by where its send() is and what became of its        *)
(* transfers.                                                              *)
Untouched(p) == results[p] = <<>> /\ p \notin dangling
Fresh(p) == Untouched(p) /\ callbackData[p] = "none"
InUse(p) == Untouched(p) /\ callbackData[p] = "live" /\ p \in mSendTransfers
Told(p) == callbackData[p] = "deleted" /\ p \notin mSendTransfers /\ Len(results[p]) = 1
Gone(p) == callbackData[p] = "deleted" /\ p \notin mSendTransfers
Refused(p) == call[p] = "returned" /\ ~Submitted(Msg(p))
Unfinished(p) == call[p] = "returned" /\ Submitted(Msg(p)) /\ ~PayloadRefused(p)
LifeOf(p) ==
    /\ call[p] \in {"none", "called"} => Fresh(p) /\ p \notin mSendTransfers
    /\ call[p] = "emplaced" => Fresh(p) /\ p \in mSendTransfers
    /\ BetweenSubmissions(p) => InUse(p) /\ Pending(Msg(p))
    /\ Refused(p) => Told(p) /\ p \notin dangling
    /\ PayloadRefused(p) => /\ Gone(p)
                            /\ p \notin dangling => Told(p)
                            /\ InEvent(Msg(p)) => p \in dangling
    /\ Unfinished(p) /\ ~ForeignId(p) =>
           /\ p \notin dangling
           /\ Pending(Msg(p)) => Pending(Final(p))
           /\ IF Pending(Final(p)) THEN InUse(p) ELSE Told(p)
           /\ ~Pending(Final(p)) /\ Final(p) \in completed => results[p] = <<"OK">>
    /\ Unfinished(p) /\ ForeignId(p) => (callbackData[p] = "live" => Pending(Msg(p)))
LifeInv == \A p \in Packets : LifeOf(p)

(* A step that leaves a packet and its transfers as they are, but that one *)
(* may end or get its callback.                                            *)
LEMMA LifeSame ==
    ASSUME NEW q \in Packets, LifeOf(q),
           call'[q] = call[q], callbackData'[q] = callbackData[q], results'[q] = results[q],
           callbackId'[q] = callbackId[q], packId'[q] = packId[q],
           q \in mSendTransfers' <=> q \in mSendTransfers, q \in dangling' <=> q \in dangling,
           Submitted(Msg(q))' <=> Submitted(Msg(q)), Submitted(Pay(q))' <=> Submitted(Pay(q)),
           Pending(Msg(q))' <=> Pending(Msg(q)), Pending(Pay(q))' <=> Pending(Pay(q)),
           InEvent(Msg(q))' => InEvent(Msg(q)) \/ ~PayloadRefused(q) \/ q \in dangling,
           Final(q) \in completed' => Final(q) \in completed \/ Pending(Final(q))
    PROVE  LifeOf(q)'
<1>1. PayloadRefused(q)' <=> PayloadRefused(q)
  BY RefusedIs
<1>2. Pending(Final(q))' <=> Pending(Final(q))
  BY DEF Final
<1>3. ForeignId(q)' <=> ForeignId(q)
  BY DEF ForeignId
<1>4. /\ (Untouched(q)' <=> Untouched(q)) /\ (Fresh(q)' <=> Fresh(q)) /\ (InUse(q)' <=> InUse(q))
      /\ (Told(q)' <=> Told(q)) /\ (Gone(q)' <=> Gone(q))
  BY DEF Untouched, Fresh, InUse, Told, Gone
<1>5. /\ (Refused(q)' <=> Refused(q)) /\ (Unfinished(q)' <=> Unfinished(q))
      /\ (BetweenSubmissions(q)' <=> BetweenSubmissions(q))
  BY <1>1 DEF Refused, Unfinished, BetweenSubmissions
<1>6. /\ (call[q] \in {"none", "called"} => Fresh(q) /\ q \notin mSendTransfers)'
      /\ (call[q] = "emplaced" => Fresh(q) /\ q \in mSendTransfers)'
      /\ (BetweenSubmissions(q) => InUse(q) /\ Pending(Msg(q)))'
      /\ (Refused(q) => Told(q) /\ q \notin dangling)'
  BY <1>4, <1>5 DEF LifeOf
<1>7. (PayloadRefused(q) => /\ Gone(q)
                            /\ q \notin dangling => Told(q)
                            /\ InEvent(Msg(q)) => q \in dangling)'
  BY <1>1, <1>4 DEF LifeOf
<1>8. (Unfinished(q) /\ ~ForeignId(q) =>
           /\ q \notin dangling
           /\ Pending(Msg(q)) => Pending(Final(q))
           /\ IF Pending(Final(q)) THEN InUse(q) ELSE Told(q)
           /\ ~Pending(Final(q)) /\ Final(q) \in completed => results[q] = <<"OK">>)'
  BY <1>2, <1>3, <1>4, <1>5 DEF LifeOf
<1>9. (Unfinished(q) /\ ForeignId(q) => (callbackData[q] = "live" => Pending(Msg(q))))'
  BY <1>3, <1>5 DEF LifeOf
<1> QED
  BY <1>6, <1>7, <1>8, <1>9 DEF LifeOf

(* send() has returned: what is left of LifeOf.                            *)
LEMMA LifeAfter ==
    ASSUME NEW q \in Packets, call'[q] = "returned",
           (Refused(q) => Told(q) /\ q \notin dangling)',
           (PayloadRefused(q) => /\ Gone(q)
                                 /\ q \notin dangling => Told(q)
                                 /\ InEvent(Msg(q)) => q \in dangling)',
           (Unfinished(q) /\ ~ForeignId(q) =>
               /\ q \notin dangling
               /\ Pending(Msg(q)) => Pending(Final(q))
               /\ IF Pending(Final(q)) THEN InUse(q) ELSE Told(q)
               /\ ~Pending(Final(q)) /\ Final(q) \in completed => results[q] = <<"OK">>)',
           (Unfinished(q) /\ ForeignId(q) => (callbackData[q] = "live" => Pending(Msg(q))))'
    PROVE  LifeOf(q)'
<1>1. ~BetweenSubmissions(q)'
  BY DEF BetweenSubmissions
<1> QED
  BY <1>1 DEF LifeOf

(* The steps of one packet leave the others alone.                         *)
Mine(q) == /\ call'[q] = call[q] /\ callbackData'[q] = callbackData[q] /\ results'[q] = results[q]
           /\ callbackId'[q] = callbackId[q] /\ packId'[q] = packId[q]
           /\ (q \in mSendTransfers' <=> q \in mSendTransfers) /\ dangling' = dangling
(* A step of p, and a packet q that is not p.                              *)
LEMMA LifeOthers ==
    ASSUME TypeOK, LockInv, WireInv, FlightInv, NEW p \in Packets, NEW q \in Packets, q # p, LifeOf(q),
           SendCalled(p) \/ SendStep(p) \/ staticSendMessageCallback(p) \/ staticSendPayloadCallback(p)
    PROVE  LifeOf(q)'
<1>t. /\ Msg(p) \in Transfers /\ Pay(p) \in Transfers /\ Msg(q) \in Transfers /\ Pay(q) \in Transfers
      /\ Msg(q) # Msg(p) /\ Pay(q) # Pay(p) /\ Msg(q) # Pay(p) /\ Pay(q) # Msg(p)
  BY TransferIs DEF Msg, Pay
<1>f. \A code : finishSendTransfer(p, code) \/ finishUnknownTransfer(p)
          => /\ callbackData'[q] = callbackData[q] /\ results'[q] = results[q]
             /\ q \in mSendTransfers' <=> q \in mSendTransfers
  BY DEF finishSendTransfer, finishUnknownTransfer, TypeOK
<1>l. Leave(p) => call'[q] = call[q]
  BY DEF Leave, TypeOK
<1>k. ASSUME Mine(q), completed' = completed, InEvent(Msg(q))' => InEvent(Msg(q)),
             Submitted(Msg(q))' <=> Submitted(Msg(q)), Submitted(Pay(q))' <=> Submitted(Pay(q)),
             Pending(Msg(q))' <=> Pending(Msg(q)), Pending(Pay(q))' <=> Pending(Pay(q))
      PROVE  LifeOf(q)'
  BY <1>k, LifeSame DEF Mine
<1>u. ASSUME Mine(q), UNCHANGED usb, event' = event PROVE LifeOf(q)'
  BY <1>u, <1>k DEF usb, Submitted, Pending, OnEndpoint, InDone, InEvent, Finished
<1>1. CASE SendCalled(p)
  BY <1>1, <1>u DEF SendCalled, Mine, pool, TypeOK
<1>2. CASE SendEmplaces(p)
  BY <1>2, <1>u DEF SendEmplaces, Mine, TypeOK
<1>3. CASE SendSubmitsMessage(p)
  <2>1. Mine(q) /\ event' = event
    BY <1>3, <1>f, <1>l DEF SendSubmitsMessage, AfterMessage, Mine, TypeOK
  <2>2. CASE Submit(p, "message") /\ call[p] = "emplaced"
    <3>1. /\ completed' = completed
          /\ \A y \in Transfers : Submitted(y)' <=> Submitted(y) \/ y = Msg(p)
      BY <2>2, Submission DEF Kinds, Msg
    <3>2. \A y \in Transfers : Pending(y)' <=> Pending(y) \/ y = Msg(p)
      BY <2>1, <2>2, MessageIsNew
    <3> QED
      BY <1>k, <1>t, <2>1, <3>1, <3>2 DEF InEvent
  <2> QED
    BY <1>3, <1>u, <2>1, <2>2 DEF SendSubmitsMessage
<1>4. CASE SendSubmitsPayload(p)
  <2>1. Mine(q) /\ event' = event
    BY <1>4, <1>l DEF SendSubmitsPayload, Mine, TypeOK, pool
  <2>2. CASE Submit(p, "payload") /\ call[p] = "submitted"
    <3>1. /\ completed' = completed
          /\ \A y \in Transfers : Submitted(y)' <=> Submitted(y) \/ y = Pay(p)
      BY <2>2, Submission DEF Kinds, Pay
    <3>2. \A y \in Transfers : Pending(y)' <=> Pending(y) \/ y = Pay(p)
      BY <2>1, <2>2, PayloadIsNew
    <3> QED
      BY <1>k, <1>t, <2>1, <3>1, <3>2 DEF InEvent
  <2> QED
    BY <1>4, <1>u, <2>1, <2>2 DEF SendSubmitsPayload
<1>5. CASE SendCancels(p)
  <2>1. Mine(q) /\ event' = event
    BY <1>5, <1>f, <1>l DEF SendCancels, Mine
  <2>2. completed' = completed /\ \A y : Submitted(y)' <=> Submitted(y)
    BY <1>5 DEF SendCancels, Cancel, Submitted
  <2>3. PendingKept
    BY <1>5, SendCancelsFlight
  <2> QED
    BY <1>k, <1>t, <2>1, <2>2, <2>3 DEF PendingKept, InEvent
<1>6. ASSUME NEW x \in {Msg(p), Pay(p)},
             \/ staticSendMessageCallback(p) /\ x = Msg(p)
             \/ staticSendPayloadCallback(p) /\ x = Pay(p)
      PROVE  LifeOf(q)'
  <2>1. Mine(q) /\ completed' = completed
    BY <1>6, <1>f DEF staticSendMessageCallback, staticSendPayloadCallback, Mine, Cancel, usb
  <2>2. event' = <<>> /\ wire' = wire /\ \A y \in Transfers : Pending(y)' <=> Pending(y) /\ y # x
    BY <1>6, CallbackFlight
  <2>3. ~InEvent(Msg(q))' /\ \A y : Submitted(y)' <=> Submitted(y)
    BY <2>2 DEF InEvent, Submitted
  <2> QED
    BY <1>k, <1>t, <2>1, <2>2, <2>3
<1> QED
  BY <1>1, <1>2, <1>3, <1>4, <1>5, <1>6 DEF SendStep

(* The steps of send().                                                    *)
LEMMA LifeSends ==
    ASSUME TypeOK, LockInv, WireInv, FlightInv, NEW p \in Packets, LifeOf(p), SendCalled(p) \/ SendStep(p)
    PROVE  LifeOf(p)'
<1>t. Msg(p) \in Transfers /\ Pay(p) \in Transfers /\ Msg(p) # Pay(p)
  BY TransferIs DEF Msg, Pay
<1>1. CASE SendCalled(p)
  <2>1. /\ call'[p] = "called" /\ Fresh(p) /\ p \notin mSendTransfers
        /\ UNCHANGED <<results, dangling, callbackData, mSendTransfers>>
    BY <1>1 DEF SendCalled, pool, TypeOK, LifeOf
  <2> QED
    BY <2>1, RefusedIs DEF LifeOf, Fresh, Untouched, BetweenSubmissions, Refused, Unfinished
<1>2. CASE SendEmplaces(p)
  <2>1. /\ call'[p] = "emplaced" /\ Fresh(p) /\ p \in mSendTransfers'
        /\ UNCHANGED <<results, dangling, callbackData>>
    BY <1>2 DEF SendEmplaces, TypeOK, LifeOf
  <2> QED
    BY <2>1, RefusedIs DEF LifeOf, Fresh, Untouched, BetweenSubmissions, Refused, Unfinished
<1>3. CASE SendSubmitsMessage(p)
  <2>1. /\ call[p] = "emplaced" /\ Fresh(p) /\ p \in mSendTransfers /\ dangling' = dangling
        /\ event' = event
    BY <1>3 DEF SendSubmitsMessage, LifeOf
  <2>2. CASE /\ callbackData' = [callbackData EXCEPT ![p] = "live"]
             /\ Submit(p, "message") /\ AfterMessage(p)
             /\ UNCHANGED <<mSendTransfers, results>>
    <3>1. Submitted(Msg(p))' /\ Pending(Msg(p))'
      <4>1. Submitted(Msg(p))'
        BY <1>t, <2>2, Submission DEF Kinds, Msg
      <4>2. Pending(Msg(p))'
        BY <1>t, <2>1, <2>2, MessageIsNew
      <4> QED
        BY <4>1, <4>2
    <3>2. InUse(p)'
      BY <2>1, <2>2 DEF InUse, Fresh, Untouched, TypeOK
    <3>3. CASE p \in WithPayload
      <4>1. call'[p] = "submitted"
        BY <2>2, <3>3 DEF AfterMessage, TypeOK
      <4> QED
        BY <3>1, <3>2, <4>1, RefusedIs DEF LifeOf, Refused, Unfinished
    <3>4. CASE p \notin WithPayload
      <4>1. call'[p] = "returned" /\ Final(p) = Msg(p)
        BY <2>2, <3>4 DEF AfterMessage, Leave, TypeOK, Final
      <4>2. ~PayloadRefused(p)' /\ ~Refused(p)'
        BY <3>1, <3>4, RefusedIs DEF Refused
      <4>3. p \notin dangling'
        BY <3>2 DEF InUse, Untouched
      <4>4. Pending(Final(p))'
        BY <3>1, <4>1
      <4> QED
        BY <3>1, <3>2, <4>1, <4>2, <4>3, <4>4, LifeAfter
    <3> QED
      BY <3>3, <3>4
  <2>3. CASE finishSendTransfer(p, errorCode[p]) /\ Leave(p) /\ UNCHANGED usb
    <3>1. Told(p)' /\ p \notin dangling' /\ call'[p] = "returned"
      <4>1. results'[p] = Append(<<>>, errorCode[p])
        BY <2>1, <2>3 DEF finishSendTransfer, TypeOK, Fresh, Untouched
      <4>2. Len(Append(<<>>, errorCode[p])) = 1
        OBVIOUS
      <4> QED
        BY <2>1, <2>3, <4>1, <4>2 DEF finishSendTransfer, Leave, TypeOK, Told, Fresh, Untouched
    <3>2. ~Submitted(Msg(p))'
      <4>1. ~Submitted(Msg(p))
        BY <2>1 DEF WireInv, WireCalls, BetweenSubmissions
      <4> QED
        BY <2>3, <4>1 DEF usb, Submitted
    <3>3. ~PayloadRefused(p)' /\ ~Unfinished(p)'
      BY <3>2, RefusedIs DEF Unfinished
    <3> QED
      BY <3>1, <3>3, LifeAfter
  <2> QED
    BY <1>3, <2>2, <2>3 DEF SendSubmitsMessage
<1>4. CASE SendSubmitsPayload(p)
  <2>1. /\ call[p] = "submitted" /\ BetweenSubmissions(p) /\ InUse(p) /\ Pending(Msg(p))
        /\ UNCHANGED <<pool, results, dangling, event>>
    BY <1>4 DEF SendSubmitsPayload, LifeOf, BetweenSubmissions
  <2>2. InUse(p)'
    BY <2>1 DEF InUse, Untouched, pool
  <2>3. CASE Submit(p, "payload") /\ Leave(p)
    <3>1. Submitted(Msg(p))' /\ Submitted(Pay(p))' /\ p \in WithPayload
      <4>1. \A y \in Transfers : Submitted(y)' <=> Submitted(y) \/ y = Pay(p)
        BY <2>3, Submission DEF Kinds, Pay
      <4> QED
        BY <1>t, <2>1, <4>1, BetweenIsSubmitted
    <3>2. Pending(Pay(p))'
      BY <1>t, <2>1, <2>3, PayloadIsNew
    <3>3. call'[p] = "returned" /\ Final(p) = Pay(p)
      BY <2>3, <3>1 DEF Leave, TypeOK, Final
    <3>4. ~PayloadRefused(p)' /\ ~Refused(p)'
      BY <3>1, RefusedIs DEF Refused
    <3>5. p \notin dangling' /\ Pending(Final(p))'
      BY <2>2, <3>2, <3>3 DEF InUse, Untouched
    <3>6. (ForeignId(p) /\ callbackData[p] = "live" => Pending(Msg(p)))'
      BY <1>t, <2>1, <2>3, PayloadIsNew
    <3> QED
      BY <2>2, <3>3, <3>4, <3>5, <3>6, LifeAfter
  <2>4. CASE call' = [call EXCEPT ![p] = "cancelling"] /\ UNCHANGED usb
    <3>1. call'[p] = "cancelling"
      BY <2>4 DEF TypeOK
    <3>2. Pending(Msg(p))'
      BY <2>1, <2>4 DEF Pending, OnEndpoint, InDone, InEvent, Finished, usb
    <3> QED
      BY <2>2, <3>1, <3>2, RefusedIs DEF LifeOf, Refused, Unfinished
  <2> QED
    BY <1>4, <2>3, <2>4 DEF SendSubmitsPayload
<1>5. CASE SendCancels(p)
  <2>1. /\ call[p] = "cancelling" /\ BetweenSubmissions(p) /\ InUse(p)
        /\ messageLock[p] # Event /\ UNCHANGED <<dangling, event>> /\ wire' = wire
    BY <1>5, Given DEF SendCancels, LifeOf, BetweenSubmissions, Cancel, Nobody, Event
  <2>2. call'[p] = "returned" /\ Told(p)' /\ p \notin dangling'
    <3>1. results'[p] = Append(<<>>, errorCode[p])
      BY <1>5, <2>1 DEF SendCancels, finishSendTransfer, TypeOK, InUse, Untouched
    <3>2. Len(Append(<<>>, errorCode[p])) = 1
      OBVIOUS
    <3> QED
      BY <1>5, <2>1, <3>1, <3>2 DEF SendCancels, finishSendTransfer, Leave, TypeOK, Told, InUse, Untouched
  <2>3. Submitted(Msg(p))' /\ ~Submitted(Pay(p))' /\ p \in WithPayload
    BY <2>1, BetweenIsSubmitted DEF Submitted
  <2>4. PayloadRefused(p)' /\ ~Unfinished(p)' /\ ~Refused(p)'
    BY <2>2, <2>3, RefusedIs DEF Unfinished, Refused
  <2>5. ~InEvent(Msg(p))'
    BY <2>1 DEF LockInv, InEvent
  <2>6. Gone(p)'
    BY <2>2 DEF Gone, Told
  <2> QED
    BY <2>2, <2>4, <2>5, <2>6, LifeAfter
<1> QED
  BY <1>1, <1>2, <1>3, <1>4, <1>5 DEF SendStep

(* A callback runs once send() has returned: it needs the mutex.           *)
LEMMA ReturnedByThen ==
    ASSUME TypeOK, LockInv, WireInv, NEW p \in Packets, NEW k \in Kinds, InCallback(p, k),
           Submitted(Transfer(p, k))
    PROVE  call[p] = "returned" /\ Submitted(Msg(p)) /\ (k = "payload" => p \in WithPayload /\ Submitted(Pay(p)))
<1>1. call[p] \notin InSend
  BY Given DEF LockInv, InCallback
<1>2. ~BetweenSubmissions(p)
  BY <1>1 DEF InSend, BetweenSubmissions
<1> QED
  BY <1>2 DEF WireInv, WireCalls, Msg, Pay, Kinds

(* The message's callback, of its own packet.                              *)
LEMMA LifeMessage ==
    ASSUME TypeOK, LockInv, WireInv, FlightInv, StatusInv, NEW p \in Packets, LifeOf(p),
           staticSendMessageCallback(p)
    PROVE  LifeOf(p)'
<1> DEFINE code == transferStatusToErrorCode(event.status)
<1>1. /\ InEvent(Msg(p)) /\ event' = <<>> /\ wire' = wire
      /\ Msg(p) \in Transfers /\ Pay(p) \in Transfers /\ Msg(p) # Pay(p)
      /\ \A y \in Transfers : Pending(y)' <=> Pending(y) /\ y # Msg(p)
  BY CallbackFlight, TransferIs DEF Msg, Pay
<1>2. Pending(Msg(p)) /\ Submitted(Msg(p))
  BY <1>1 DEF Pending, FlightInv, InOnePlace
<1>3. call[p] = "returned" /\ call' = call
  BY <1>2, ReturnedByThen DEF staticSendMessageCallback, Msg, Kinds
<1>4. /\ UNCHANGED <<packId, callbackId, dangling>> /\ completed' = completed
      /\ \A y : Submitted(y)' <=> Submitted(y)
  BY <1>1 DEF staticSendMessageCallback, Cancel, usb, Submitted
<1>5. PayloadRefused(p)' <=> PayloadRefused(p)
  BY <1>3, <1>4, RefusedIs
<1>6. ~Refused(p)'
  BY <1>2, <1>4 DEF Refused
<1>7. ~InEvent(Msg(p))' /\ ~Pending(Msg(p))'
  BY <1>1 DEF InEvent
<1>8. CASE PayloadRefused(p)
  <2>1. Gone(p) /\ p \in dangling
    BY <1>1, <1>8 DEF LifeOf
  <2>2. ~Found(p)
    BY <2>1 DEF Found, Gone
  <2>3. Gone(p)' /\ p \in dangling'
    BY <1>4, <2>1, <2>2 DEF staticSendMessageCallback, finishUnknownTransfer, Gone, TypeOK
  <2>4. ~Unfinished(p)'
    BY <1>5, <1>8 DEF Unfinished
  <2> QED
    BY <1>3, <1>6, <1>7, <2>3, <2>4, LifeAfter
<1>9. CASE ~PayloadRefused(p) /\ ForeignId(p)
  <2>1. ~Found(p)
    BY <1>9 DEF Found, ForeignId
  <2>2. callbackData'[p] = "deleted" /\ ForeignId(p)'
    BY <1>4, <1>9, <2>1 DEF staticSendMessageCallback, finishUnknownTransfer, ForeignId, TypeOK
  <2>3. callbackData'[p] # "live"
    BY <2>2
  <2> QED
    BY <1>3, <1>5, <1>6, <1>9, <2>2, <2>3, LifeAfter
<1>10. CASE ~PayloadRefused(p) /\ ~ForeignId(p)
  <2>1. InUse(p)
    BY <1>2, <1>3, <1>10 DEF LifeOf, Unfinished
  <2>2. Found(p)
    BY <1>10, <2>1 DEF Found, ForeignId, InUse
  <2>3. p \notin dangling'
    BY <1>4, <2>1 DEF InUse, Untouched
  <2>4. CASE p \notin WithPayload
    <3>1. finishSendTransfer(p, code)
      BY <2>2, <2>4 DEF staticSendMessageCallback, HasPayloadTransfer
    <3>2. Final(p) = Msg(p)
      BY <2>4 DEF Final
    <3>3. results'[p] = <<code>> /\ Len(results'[p]) = 1
      <4>1. results'[p] = Append(<<>>, code)
        BY <2>1, <3>1 DEF finishSendTransfer, TypeOK, InUse, Untouched
      <4> QED
        BY <4>1
    <3>4. Told(p)'
      BY <3>1, <3>3 DEF finishSendTransfer, Told, TypeOK
    <3>5. Msg(p) \in completed => code = "OK"
      <4>1. event # <<>> /\ Of(event) = Msg(p)
        BY <1>1 DEF InEvent
      <4> QED
        BY <4>1 DEF StatusInv, transferStatusToErrorCode
    <3>6. Final(p) \in completed' => results'[p] = <<"OK">>
      BY <1>4, <3>2, <3>3, <3>5
    <3>7. ~Pending(Final(p))' /\ callbackData'[p] # "live"
      BY <1>7, <3>2, <3>4 DEF Told
    <3> QED
      BY <1>3, <1>5, <1>6, <1>7, <1>10, <2>3, <3>4, <3>6, <3>7, LifeAfter
  <2>5. CASE p \in WithPayload
    <3>1. UNCHANGED <<callbackData, results, mSendTransfers>> /\ Final(p) = Pay(p)
      BY <2>2, <2>5 DEF staticSendMessageCallback, HasPayloadTransfer, Final
    <3>2. InUse(p)'
      BY <1>4, <2>1, <3>1 DEF InUse, Untouched
    <3>3. Pending(Pay(p))
      BY <1>2, <1>3, <1>10, <3>1 DEF LifeOf, Unfinished
    <3>4. Pending(Final(p))'
      BY <1>1, <3>1, <3>3
    <3>5. ~ForeignId(p)'
      BY <1>4, <1>10, <3>1 DEF ForeignId
    <3> QED
      BY <1>3, <1>5, <1>6, <1>10, <2>3, <3>2, <3>4, <3>5, LifeAfter
  <2> QED
    BY <2>4, <2>5
<1> QED
  BY <1>8, <1>9, <1>10

(* The payload's callback: the message's was before.                       *)
LEMMA LifePayload ==
    ASSUME TypeOK, LockInv, WireInv, FlightInv, StatusInv, NEW p \in Packets, LifeOf(p),
           staticSendPayloadCallback(p)
    PROVE  LifeOf(p)'
<1> DEFINE code == FinalCode(p, transferStatusToErrorCode(event.status))
<1>1. /\ InEvent(Pay(p)) /\ event' = <<>> /\ wire' = wire
      /\ Msg(p) \in Transfers /\ Pay(p) \in Transfers /\ Msg(p) # Pay(p)
      /\ \A y \in Transfers : Pending(y)' <=> Pending(y) /\ y # Pay(p)
  BY CallbackFlight, TransferIs DEF Msg, Pay
<1>2. Pending(Pay(p)) /\ Submitted(Pay(p))
  BY <1>1 DEF Pending, FlightInv, InOnePlace
<1>3. call[p] = "returned" /\ Submitted(Msg(p)) /\ p \in WithPayload
  BY <1>2, ReturnedByThen DEF staticSendPayloadCallback, Pay, Kinds
<1>4. /\ UNCHANGED <<packId, callbackId, dangling, call>> /\ completed' = completed
      /\ \A y : Submitted(y)' <=> Submitted(y)
  BY <1>1 DEF staticSendPayloadCallback, usb, Submitted
<1>5. ~PayloadRefused(p) /\ ~PayloadRefused(p)' /\ ~Refused(p)' /\ Final(p) = Pay(p)
  BY <1>2, <1>3, <1>4, RefusedIs DEF Refused, Final
<1>6. ~Pending(Msg(p))' /\ ~Pending(Pay(p))'
  <2>1. ~OnEndpoint(Msg(p)) /\ ~InDone(Msg(p)) /\ ~InEvent(Msg(p))
    BY <1>1 DEF FlightInv, MessageFirst, InEvent
  <2> QED
    BY <1>1, <2>1 DEF Pending
<1>7. CASE ForeignId(p)
  <2>1. ~Found(p)
    BY <1>7 DEF Found, ForeignId
  <2>2. callbackData'[p] = "deleted" /\ ForeignId(p)'
    BY <1>4, <1>7, <2>1 DEF staticSendPayloadCallback, finishUnknownTransfer, ForeignId, TypeOK
  <2>3. callbackData'[p] # "live"
    BY <2>2
  <2> QED
    BY <1>3, <1>4, <1>5, <2>2, <2>3, LifeAfter
<1>8. CASE ~ForeignId(p)
  <2>1. InUse(p)
    BY <1>2, <1>3, <1>5, <1>8 DEF LifeOf, Unfinished
  <2>2. Found(p)
    BY <1>8, <2>1 DEF Found, ForeignId, InUse
  <2>3. finishSendTransfer(p, code)
    BY <2>2 DEF staticSendPayloadCallback
  <2>4. results'[p] = <<code>> /\ Len(results'[p]) = 1
    <3>1. results'[p] = Append(<<>>, code)
      BY <2>1, <2>3 DEF finishSendTransfer, TypeOK, InUse, Untouched
    <3> QED
      BY <3>1
  <2>5. Told(p)' /\ p \notin dangling'
    BY <1>4, <2>1, <2>3, <2>4 DEF finishSendTransfer, Told, TypeOK, InUse, Untouched
  <2>6. Pay(p) \in completed => code = "OK"
    <3>1. event # <<>> /\ Of(event) = Pay(p)
      BY <1>1 DEF InEvent
    <3> QED
      BY <3>1 DEF StatusInv, transferStatusToErrorCode, FinalCode
  <2>7. ~ForeignId(p)'
    BY <1>4, <1>8, <2>1 DEF ForeignId, InUse
  <2> QED
    BY <1>3, <1>4, <1>5, <1>6, <2>4, <2>5, <2>6, <2>7, LifeAfter
<1> QED
  BY <1>7, <1>8

(* A callback begins: the data it reads are live, but in the two cases.    *)
LEMMA LifeBegins ==
    ASSUME TypeOK, WireInv, FlightInv, NEW q \in Packets, LifeOf(q), CallbackBegins
    PROVE  LifeOf(q)'
<1>1. PICK x : x = Of(Head(done))
  OBVIOUS
<1>2. /\ done # <<>> /\ UNCHANGED <<call, pool, results, completed, wire>>
      /\ dangling' = IF callbackData[x.packet] = "live" THEN dangling ELSE dangling \cup {x.packet}
  BY <1>1, TransferIs DEF CallbackBegins, Of
<1>3. x \in Transfers /\ InDone(x)
  <2>1. Head(done) \in EndedTransfers
    BY <1>2, HeadTailProperties DEF TypeOK
  <2>2. Finished \in Seq(Transfers) /\ Finished # <<>> /\ Head(Finished) = x
    BY <1>1, <1>2, OfAllShrinks DEF TypeOK, Finished
  <2> QED
    BY <1>1, <2>1, <2>2, TransferIs, TailElements DEF InDone
<1>4. Pending(x) /\ Submitted(x)
  BY <1>3 DEF Pending, FlightInv, InOnePlace
<1>5. \A y \in Transfers : (Pending(y)' <=> Pending(y)) /\ (InEvent(y)' <=> y = x)
  BY <1>1, FlightBegins
<1>6. \A y : Submitted(y)' <=> Submitted(y)
  BY <1>2 DEF Submitted
<1>7. Msg(q) \in Transfers /\ Pay(q) \in Transfers
  BY TransferIs
<1>8. ASSUME q \in dangling' <=> q \in dangling,
             InEvent(Msg(q))' => InEvent(Msg(q)) \/ ~PayloadRefused(q) \/ q \in dangling
      PROVE  LifeOf(q)'
  BY <1>2, <1>5, <1>6, <1>7, <1>8, LifeSame DEF pool
<1>9. CASE x.packet # q
  <2>1. ~InEvent(Msg(q))'
    BY <1>5, <1>7, <1>9, TransferIs DEF Msg
  <2> QED
    BY <1>2, <1>8, <1>9, <2>1
<1>10. CASE x.packet = q
  <2>1. x = Msg(q) \/ x = Pay(q)
    BY <1>3, <1>10, TransferIs, TransferTypes DEF Msg, Pay, Kinds
  <2>2. Submitted(Msg(q)) /\ (x = Pay(q) => q \in WithPayload /\ Submitted(Pay(q)))
    BY <1>4, <2>1 DEF WireInv, WireCalls
  <2>3. BetweenSubmissions(q) \/ call[q] = "returned"
    BY <2>2 DEF WireInv, WireCalls
  <2>4. CASE BetweenSubmissions(q)
    <3>1. callbackData[q] = "live" /\ ~PayloadRefused(q)
      BY <2>4, RefusedIs DEF LifeOf, InUse, BetweenSubmissions
    <3> QED
      BY <1>2, <1>8, <1>10, <3>1
  <2>5. CASE PayloadRefused(q)
    <3>1. Gone(q) /\ q \in dangling' /\ call'[q] = "returned"
      BY <1>2, <1>10, <2>5, RefusedIs DEF LifeOf, Gone
    <3>2. Gone(q)'
      BY <1>2, <3>1 DEF Gone, pool
    <3>3. PayloadRefused(q)' /\ Submitted(Msg(q))'
      BY <1>2, <1>6, <2>2, <2>5, RefusedIs
    <3>4. ~Unfinished(q)' /\ ~Refused(q)'
      BY <3>3 DEF Unfinished, Refused
    <3> QED
      BY <3>1, <3>2, <3>4, LifeAfter
  <2>6. CASE call[q] = "returned" /\ ~PayloadRefused(q) /\ ~ForeignId(q)
    <3>1. Pending(Final(q))
      BY <1>4, <2>1, <2>2, <2>6 DEF LifeOf, Unfinished, Final
    <3>2. callbackData[q] = "live"
      BY <2>2, <2>6, <3>1 DEF LifeOf, Unfinished, InUse
    <3> QED
      BY <1>2, <1>8, <1>10, <2>6, <3>2
  <2>7. CASE call[q] = "returned" /\ ~PayloadRefused(q) /\ ForeignId(q)
    <3>1. callbackData[q] = "live" => Pending(Msg(q))
      BY <2>2, <2>7 DEF LifeOf, Unfinished
    <3>2. (callbackData[q] = "live" => Pending(Msg(q)))'
      BY <1>2, <1>5, <1>7, <3>1 DEF pool
    <3>3. ~PayloadRefused(q)' /\ ForeignId(q)' /\ ~Refused(q)' /\ call'[q] = "returned"
      BY <1>2, <1>6, <2>2, <2>7, RefusedIs DEF ForeignId, pool, Refused
    <3> QED
      BY <3>2, <3>3, LifeAfter
  <2> QED
    BY <2>3, <2>4, <2>5, <2>6, <2>7
<1> QED
  BY <1>9, <1>10

(* Every step keeps what is said of each packet.                           *)
LEMMA LifeStep ==
    TypeOK /\ LockInv /\ WireInv /\ FlightInv /\ StatusInv /\ LifeInv /\ [Next]_vars => LifeInv'
<1> SUFFICES ASSUME TypeOK, LockInv, WireInv, FlightInv, StatusInv, LifeInv, [Next]_vars,
                    NEW q \in Packets
             PROVE  LifeOf(q)'
  BY DEF LifeInv
<1>q. LifeOf(q)
  BY DEF LifeInv
<1>1. ASSUME NEW p \in Packets, SendCalled(p) \/ SendStep(p) PROVE LifeOf(q)'
  BY <1>q, <1>1, LifeOthers, LifeSends
<1>2. ASSUME NEW p \in Packets, staticSendMessageCallback(p) PROVE LifeOf(q)'
  BY <1>q, <1>2, LifeOthers, LifeMessage
<1>3. ASSUME NEW p \in Packets, staticSendPayloadCallback(p) PROVE LifeOf(q)'
  BY <1>q, <1>3, LifeOthers, LifePayload
<1>4. CASE CallbackBegins
  BY <1>q, <1>4, LifeBegins
<1>5. ASSUME NEW t \in Transports, TransferEnds(t) PROVE LifeOf(q)'
  <2>1. PICK x : x = Head(endpoint[t])
    OBVIOUS
  <2>2. PendingKept /\ x \in Transfers /\ OnEndpoint(x)
    BY <1>5, <2>1, FlightEnds
  <2>3. /\ UNCHANGED <<call, pool, results, dangling, event>> /\ wire' = wire
        /\ completed' \subseteq completed \cup {x}
    BY <1>5, <2>1 DEF TransferEnds
  <2>4. /\ \A y : (Submitted(y)' <=> Submitted(y)) /\ (InEvent(y)' <=> InEvent(y))
        /\ \A y \in Transfers : Pending(y)' <=> Pending(y)
    BY <2>2, <2>3 DEF Submitted, InEvent, PendingKept
  <2>5. Msg(q) \in Transfers /\ Pay(q) \in Transfers
    BY TransferIs
  <2>6. Final(q) \in completed' => Final(q) \in completed \/ Pending(Final(q))
    BY <2>2, <2>3 DEF Pending
  <2> QED
    BY <1>q, <2>3, <2>4, <2>5, <2>6, LifeSame DEF pool
<1>6. CASE UNCHANGED vars
  BY <1>q, <1>6, LifeSame
     DEF vars, usb, pool, Submitted, Pending, OnEndpoint, InDone, InEvent, Finished
<1> QED
  BY <1>1, <1>2, <1>3, <1>4, <1>5, <1>6 DEF Next, Callback

-----------------------------------------------------------------------------
(* The inductive invariant.                                                *)
SendInv == TypeOK /\ LockInv /\ WireInv /\ FlightInv /\ StatusInv /\ LifeInv

(* Before the first step nothing is in flight.                             *)
LEMMA FirstFlight == Init => FlightInv /\ StatusInv /\ LifeInv
<1> SUFFICES ASSUME Init PROVE FlightInv /\ StatusInv /\ LifeInv
  OBVIOUS
<1>1. /\ \A t \in Transports : endpoint[t] = <<>> /\ wire[t] = <<>>
      /\ done = <<>> /\ event = <<>> /\ completed = {}
  BY DEF Init
<1>2. Len(<<>>) = 0 /\ OfAll(<<>>) = <<>>
  BY DEF OfAll
<1>3. Orderly(<<>>) /\ \A x : ~Contains(<<>>, x)
  BY <1>2 DEF Orderly, Unique, Before, Contains
<1>4. \A x \in Transfers : ~OnEndpoint(x) /\ ~InDone(x) /\ ~InEvent(x) /\ ~Pending(x)
  BY <1>1, <1>2, <1>3, Given, TransferTypes DEF OnEndpoint, InDone, InEvent, Finished, Pending
<1>5. FlightInv
  BY <1>1, <1>2, <1>3, <1>4, TransferIs
     DEF FlightInv, EndpointOrder, InOnePlace, MessageFirst, Finished
<1>6. StatusInv
  BY <1>1, <1>3 DEF StatusInv
<1>7. LifeInv
  <2> SUFFICES ASSUME NEW p \in Packets PROVE LifeOf(p)
    BY DEF LifeInv
  <2>1. call[p] = "none" /\ Fresh(p) /\ p \notin mSendTransfers
    BY DEF Init, Fresh, Untouched
  <2> QED
    BY <2>1, RefusedIs DEF LifeOf, BetweenSubmissions, Refused, Unfinished
<1> QED
  BY <1>5, <1>6, <1>7

(* It holds throughout.                                                    *)
LEMMA SendInvHolds == Spec => []SendInv
<1>1. Init => LockInv /\ WireInv /\ FlightInv /\ StatusInv /\ LifeInv
  BY FirstSend, FirstFlight
<1>2. /\ TypeOK /\ TypeOK' /\ LockInv /\ WireInv /\ FlightInv /\ StatusInv /\ LifeInv /\ [Next]_vars
      => LockInv' /\ WireInv' /\ FlightInv' /\ StatusInv' /\ LifeInv'
  BY LockStep, WireStep, FlightStep, StatusStep, LifeStep
<1> QED
  BY <1>1, <1>2, Typing, PTL DEF Spec, SendInv

(* The callback data live until the last callback that reads them          *)
(* (UsbTransport.cpp:228-278), however callbacks run among the sends of    *)
(* other threads and whatever fails, unless the payload was refused or     *)
(* another transport's send() took the packet's id.                        *)
THEOREM CallbackDataLives == Spec => []CallbackDataLive
<1>1. SendInv => CallbackDataLive
  <2> SUFFICES ASSUME SendInv, NEW p \in dangling PROVE PayloadRefused(p) \/ ForeignId(p)
    BY DEF CallbackDataLive
  <2>1. p \in Packets /\ LifeOf(p) /\ WireCalls
    BY DEF SendInv, TypeOK, LifeInv, WireInv
  <2>2. call[p] \in {"none", "called", "emplaced", "submitted", "cancelling", "returned"}
    BY <2>1 DEF SendInv, TypeOK
  <2> QED
    BY <2>1, <2>2 DEF LifeOf, BetweenSubmissions, Refused, Unfinished, Fresh, InUse, Untouched
<1> QED
  BY <1>1, SendInvHolds, PTL

(* The listener hears of a packet once, and then its entry and its         *)
(* callback data are gone (UsbTransport.cpp:390-400).                      *)
THEOREM ListenerToldOnce == Spec => []ToldOnce
<1>1. SendInv => ToldOnce
  <2> SUFFICES ASSUME SendInv, NEW p \in Packets \ dangling, ~ForeignId(p)
               PROVE  /\ Len(results[p]) <= 1
                      /\ call[p] \notin {"none", "called"} =>
                             (results[p] # <<>> <=> p \notin mSendTransfers)
                      /\ callbackData[p] = "deleted" <=> results[p] # <<>>
    BY DEF ToldOnce
  <2>1. LifeOf(p) /\ results[p] \in Seq(ErrorCodes \cup {"TRANSPORT_ERROR"})
    BY DEF SendInv, TypeOK, LifeInv
  <2>2. call[p] \in {"none", "called", "emplaced", "submitted", "cancelling", "returned"}
    BY DEF SendInv, TypeOK
  <2>3. results[p] = <<>> <=> Len(results[p]) = 0
    BY <2>1, EmptySeq
  <2>4. Fresh(p) => callbackData[p] # "deleted" /\ results[p] = <<>>
    BY DEF Fresh, Untouched
  <2>5. InUse(p) => callbackData[p] # "deleted" /\ results[p] = <<>> /\ p \in mSendTransfers
    BY DEF InUse, Untouched
  <2>6. Told(p) => /\ callbackData[p] = "deleted" /\ results[p] # <<>> /\ Len(results[p]) = 1
                   /\ p \notin mSendTransfers
    BY <2>3 DEF Told
  <2>7. CASE call[p] \in {"none", "called", "emplaced"}
    BY <2>1, <2>3, <2>4, <2>7 DEF LifeOf
  <2>8. CASE call[p] \in {"submitted", "cancelling"}
    BY <2>1, <2>3, <2>5, <2>8 DEF LifeOf, BetweenSubmissions
  <2>9. CASE call[p] = "returned"
    <3>1. InUse(p) \/ Told(p)
      BY <2>1, <2>9 DEF LifeOf, Refused, Unfinished
    <3>2. CASE InUse(p)
      BY <2>3, <2>5, <3>2
    <3>3. CASE Told(p)
      <4>1. Len(results[p]) = 1
        BY <3>3, Zenon DEF Told
      <4>2. Len(results[p]) <= 1
        BY <4>1
      <4> QED
        BY <2>6, <3>3, <4>2
    <3> QED
      BY <3>1, <3>2, <3>3
  <2> QED
    BY <2>2, <2>7, <2>8, <2>9
<1> QED
  BY <1>1, SendInvHolds, PTL

(* When every send() has returned and every transfer had its callback, no  *)
(* callback data and no entry of a packet are left, whatever failed        *)
(* (UsbTransport.cpp:150-278, 390-400), but for those of a foreign id.     *)
THEOREM NothingIsLeft == Spec => []NothingLeft
<1>1. SendInv => NothingLeft
  <2> SUFFICES ASSUME SendInv, \A p \in Packets : call[p] \in {"none", "returned"},
                      \A t \in Transports : endpoint[t] = <<>>, done = <<>>, event = <<>>
               PROVE  \A p \in Packets : callbackData[p] # "live" /\ (p \in mSendTransfers => ForeignId(p))
    <3>1. SendInv => mSendTransfers \subseteq Packets
      BY DEF SendInv, TypeOK
    <3> QED
      BY <3>1 DEF NothingLeft
  <2> SUFFICES ASSUME NEW p \in Packets
               PROVE  callbackData[p] # "live" /\ (p \in mSendTransfers => ForeignId(p))
    OBVIOUS
  <2>1. LifeOf(p)
    BY DEF SendInv, LifeInv
  <2>2. ~Pending(Msg(p)) /\ ~Pending(Final(p))
    <3>1. Len(<<>>) = 0 /\ OfAll(<<>>) = <<>>
      BY DEF OfAll
    <3>2. Msg(p).packet = p /\ Final(p).packet = p /\ TransportOf[p] \in Transports
      BY TransferIs, Given DEF Msg, Pay, Final
    <3> QED
      BY <3>1, <3>2 DEF Pending, OnEndpoint, InDone, InEvent, Finished, Contains
  <2> QED
    BY <2>1, <2>2 DEF LifeOf, Fresh, Refused, Unfinished, Told, Gone
<1> QED
  BY <1>1, SendInvHolds, PTL

(* A packet whose transfers both completed is reported as OK, whichever    *)
(* callbacks ran in between (UsbTransport.cpp:228-278), but one with a     *)
(* foreign id.                                                             *)
THEOREM SentIsOk == Spec => []SentMeansOk
<1>1. SendInv => SentMeansOk
  <2> SUFFICES ASSUME SendInv, NEW p \in Packets, results[p] # <<>>, ~ForeignId(p),
                      Msg(p) \in completed, p \in WithPayload => Pay(p) \in completed
               PROVE  results[p] = <<"OK">>
    BY DEF SentMeansOk, Msg, Pay
  <2>1. LifeOf(p) /\ WireCalls
    BY DEF SendInv, LifeInv, WireInv
  <2>2. Submitted(Msg(p)) /\ (p \in WithPayload => Submitted(Pay(p))) /\ Final(p) \in completed
    BY DEF SendInv, StatusInv, Final
  <2>3. ~PayloadRefused(p)
    BY <2>2, RefusedIs
  <2>4. call[p] = "returned"
    BY <2>1, <2>2 DEF WireCalls, LifeOf, InUse, Untouched
  <2> QED
    BY <2>1, <2>2, <2>3, <2>4 DEF LifeOf, Unfinished, InUse, Untouched
<1> QED
  BY <1>1, SendInvHolds, PTL
=============================================================================
