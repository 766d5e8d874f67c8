--------------------------- MODULE AdbOpenProofs ----------------------------
(***************************************************************************)
(* Proofs about AdbOpen, for any number of threads, of calls of open() and *)
(* of packets.                                                             *)
(*                                                                         *)
(*   Typing        Spec => []TypeOK                                        *)
(*   Awaiting      Spec => []AwaitingMatches                               *)
(*   Lives         Spec => LifeSpec                                        *)
(*   Findable      Spec => []OpenIsFindable                                *)
(*                                                                         *)
(* Lives rests on OpenInv: the calls and the entries of mAwaitingStreams   *)
(* (CallsInv), what the packets on their way mean (WireInv), what an entry *)
(* tells of the device (EntryInv), which streams have an outcome and whom  *)
(* the application can close (OutcomeInv), why a thread woke up (WokenInv),*)
(* who holds the mutex (MutexInv), and what a call has seen before it      *)
(* returns (GrantedInv).                                                   *)
(***************************************************************************)
EXTENDS AdbOpen, SequenceTheorems, TLAPS

ToHost == Packets({"OKAY", "WRTE", "CLSE"})
ToDevice == Packets({"OPEN", "OKAY", "CLSE"})

(* MaxOpens is a number, and with it the ids of both sides.                *)
LEMMA IdFacts ==
    /\ MaxOpens \in Nat /\ MaxWrites \in Nat
    /\ NoStream \notin Ids
    /\ \A id \in Ids : id \in Nat /\ RemoteOf(id) \in 1..MaxOpens
  BY OpenAssumption DEF OpenAssumption, NoStream, Ids, RemoteOf

(* Every call in progress has an entry of its own, with an id that was     *)
(* given out.                                                              *)
CallsInv ==
    /\ AwaitingMatches
    /\ \A o \in Openers : /\ opener[o] = "idle" <=> opening[o] = NoStream
                          /\ opening[o] <= mLastLocalId

(* The handlers that have locked a stream.                                 *)
EventInv == event \notin {"idle", "missed"} => eventRef \in Ids

-----------------------------------------------------------------------------
(* What a call of open() finds: its entry.                                 *)
LEMMA CallFacts ==
    ASSUME TypeOK, CallsInv, NEW o \in Openers, opener[o] # "idle"
    PROVE  /\ opening[o] \in Ids /\ opening[o] \in DOMAIN mAwaitingStreams
           /\ mAwaitingStreams[opening[o]] \in [remoteId : 0..MaxOpens, rejected : BOOLEAN]
  BY DEF TypeOK, CallsInv, AwaitingMatches

(* Taking a packet, and adding one.                                        *)
LEMMA Channel ==
    ASSUME NEW S, NEW seq \in Seq(S)
    PROVE  /\ seq # <<>> => Head(seq) \in S /\ Tail(seq) \in Seq(S)
           /\ \A e \in S : Append(seq, e) \in Seq(S)
  BY HeadTailProperties, AppendProperties

(* Packets of the device and of the host have their types.                 *)
LEMMA PacketTypes ==
    ASSUME NEW id \in Ids
    PROVE  /\ Packet("OPEN", id, 0) \in ToDevice
           /\ \A c \in {"OKAY", "CLSE"}, r \in 0..MaxOpens : Packet(c, id, r) \in ToDevice
           /\ \A c \in {"OKAY", "WRTE", "CLSE"} : Packet(c, id, RemoteOf(id)) \in ToHost
           /\ Packet("CLSE", id, 0) \in ToHost
  BY IdFacts DEF Packet, ToDevice, ToHost, Packets

(* The variables keep their types.                                         *)
LEMMA TypeStep == TypeOK /\ CallsInv /\ EventInv /\ [Next]_vars => TypeOK'
<1> SUFFICES ASSUME TypeOK, CallsInv, EventInv, [Next]_vars PROVE TypeOK'
  OBVIOUS
<1>1. toHost \in Seq(ToHost) /\ toDevice \in Seq(ToDevice)
  BY DEF TypeOK, ToHost, ToDevice
<1>2. ASSUME NEW o \in Openers, OpenSends(o) PROVE TypeOK'
  <2>1. mLastLocalId' \in Ids
    BY <1>2, IdFacts DEF OpenSends, TypeOK, Ids
  <2>2. toDevice' \in Seq(ToDevice)
    BY <1>1, <1>2, <2>1, PacketTypes, Channel DEF OpenSends
  <2>3. /\ DOMAIN mAwaitingStreams' \subseteq Ids
        /\ \A id \in DOMAIN mAwaitingStreams' :
               mAwaitingStreams'[id] \in [remoteId : 0..MaxOpens, rejected : BOOLEAN]
    BY <1>2, <2>1, IdFacts DEF OpenSends, TypeOK
  <2>4. opener' \in [Openers -> Places]
        /\ opening' \in [Openers -> Ids \cup {NoStream}]
    BY <1>2, <2>1 DEF OpenSends, TypeOK, Places
  <2>5. mLastLocalId' \in 0..MaxOpens
    BY <2>1, IdFacts DEF Ids
  <2> QED
    BY <1>2, <2>2, <2>3, <2>4, <2>5
       DEF OpenSends, TypeOK, ToDevice, stream, closing, eventVars, device
<1>3. ASSUME NEW o \in Openers, OpenWaits(o) \/ SpuriousWake(o) PROVE TypeOK'
  <2>1. SpuriousWake(o) => opening[o] \in Ids
    BY CallFacts DEF SpuriousWake
  <2> QED
    BY <1>3, <2>1 DEF OpenWaits, SpuriousWake, TypeOK, Places, table, stream, closing, eventVars, device
<1>4. ASSUME NEW o \in Openers, OpenWakes(o) PROVE TypeOK'
  <2>1. /\ opening[o] \in Ids
        /\ mAwaitingStreams[opening[o]] \in [remoteId : 0..MaxOpens, rejected : BOOLEAN]
    BY <1>4, CallFacts DEF OpenWakes
  <2>2. opener' \in [Openers -> Places]
    BY <1>4, SMTT(30) DEF OpenWakes, TypeOK, Places
  <2>3. /\ remoteId' \in [Ids -> 0..MaxOpens] /\ open' \in [Ids -> BOOLEAN]
        /\ handles' \in [Ids -> SUBSET HandleKinds]
    <3>1. mAwaitingStreams[opening[o]].remoteId \in 0..MaxOpens
      BY <2>1
    <3> QED
      BY <1>4, <2>1, <3>1 DEF OpenWakes, TypeOK, stream
  <2> QED
    BY <1>4, <2>2, <2>3 DEF OpenWakes, TypeOK, table, closing, eventVars, device
<1>5. ASSUME NEW o \in Openers, OpenEnters(o) PROVE TypeOK'
  <2>1. opening[o] \in Ids
    BY <1>5, CallFacts DEF OpenEnters
  <2> QED
    BY <1>5, <2>1 DEF OpenEnters, TypeOK, Places, stream, closing, eventVars, device
<1>6. ASSUME NEW o \in Openers, OpenFinishes(o) PROVE TypeOK'
  <2>1. /\ DOMAIN mAwaitingStreams' \subseteq Ids
        /\ \A id \in DOMAIN mAwaitingStreams' :
               mAwaitingStreams'[id] \in [remoteId : 0..MaxOpens, rejected : BOOLEAN]
    BY <1>6 DEF OpenFinishes, TypeOK, Without, Restrict
  <2>2. /\ opener' \in [Openers -> Places] /\ opening' \in [Openers -> Ids \cup {NoStream}]
        /\ outcome' \in [Ids -> {"none", "opened", "refused"}]
    BY <1>6 DEF OpenFinishes, TypeOK, Places
  <2>3. handles' \in [Ids -> SUBSET HandleKinds]
    BY <1>6, ZenonT(30) DEF OpenFinishes, TypeOK
  <2> QED
    BY <1>6, <2>1, <2>2, <2>3 DEF OpenFinishes, TypeOK, closing, eventVars, device
<1>7. ASSUME NEW id \in Ids, CloseStream(id) \/ CloseStreamErases(id) PROVE TypeOK'
  BY <1>7 DEF CloseStream, CloseStreamErases, TypeOK, threads, stream, closing, eventVars, device
<1>8. ASSUME NEW id \in Ids, \/ \E h \in HandleKinds : DropHandle(id, h)
                             \/ OStreamClose(id) \/ CloseStreamMarks(id)
      PROVE  TypeOK'
  <2>1. CASE \E h \in HandleKinds : DropHandle(id, h)
    BY <2>1 DEF DropHandle, TypeOK, table, threads, closing, eventVars, device
  <2>2. CASE OStreamClose(id) \/ CloseStreamMarks(id)
    BY <2>2 DEF OStreamClose, CloseStreamMarks, TypeOK, table, threads, eventVars, device
  <2> QED
    BY <1>8, <2>1, <2>2
<1>9. ASSUME NEW id \in Ids, CloseStreamSends(id) PROVE TypeOK'
  <2>1. Packet("CLSE", id, remoteId[id]) \in ToDevice
    BY PacketTypes DEF TypeOK
  <2>2. toDevice' \in Seq(ToDevice)
    BY <1>1, <1>9, <2>1, Channel DEF CloseStreamSends
  <2> QED
    BY <1>9, <2>2 DEF CloseStreamSends, TypeOK, ToDevice, table, threads, stream, eventVars, device
<1>10. ASSUME NEW id \in Ids, ProcessReady(id) PROVE TypeOK'
  <2>1. toHost' \in Seq(ToHost)
    BY <1>1, <1>10, Channel DEF ProcessReady, Arrives
  <2> QED
    BY <1>10, <2>1 DEF ProcessReady, TypeOK, ToHost, table, threads, stream, closing, eventVars, device
<1>11. ASSUME NEW id \in Ids, ReadyLooksAgain(id) PROVE TypeOK'
  <2>1. toHost' \in Seq(ToHost) /\ Head(toHost) \in ToHost
    BY <1>1, <1>11, Channel DEF ReadyLooksAgain
  <2>2. Answered(Head(toHost)) \in 0..MaxOpens
    BY <2>1 DEF Answered, ToHost, Packets
  <2>3. /\ DOMAIN mAwaitingStreams' \subseteq Ids
        /\ \A i \in DOMAIN mAwaitingStreams' :
               mAwaitingStreams'[i] \in [remoteId : 0..MaxOpens, rejected : BOOLEAN]
    BY <1>11, <2>2, ZenonT(30) DEF ReadyLooksAgain, TypeOK
  <2>4. opener' \in [Openers -> Places]
    BY <1>11 DEF ReadyLooksAgain, NotifyOpen, TypeOK, Places
  <2> QED
    BY <1>11, <2>1, <2>3, <2>4 DEF ReadyLooksAgain, TypeOK, ToHost, stream, closing, device
<1>12. ASSUME NEW id \in Ids, ProcessWrite(id) PROVE TypeOK'
  <2>1. toHost' \in Seq(ToHost)
    BY <1>1, <1>12, Channel DEF ProcessWrite, Takes, Arrives
  <2> QED
    BY <1>12, <2>1 DEF ProcessWrite, TypeOK, ToHost, table, threads, stream, closing, eventVars, device
<1>13. ASSUME NEW id \in Ids, ProcessClose(id) PROVE TypeOK'
  <2>1. toHost' \in Seq(ToHost)
    BY <1>1, <1>13, Channel DEF ProcessClose, Takes, Arrives
  <2>2. /\ DOMAIN mAwaitingStreams' \subseteq Ids
        /\ \A i \in DOMAIN mAwaitingStreams' :
               mAwaitingStreams'[i] \in [remoteId : 0..MaxOpens, rejected : BOOLEAN]
    <3>1. [remoteId |-> 0, rejected |-> TRUE] \in [remoteId : 0..MaxOpens, rejected : BOOLEAN]
      BY IdFacts
    <3> QED
      BY <1>13, <3>1 DEF ProcessClose, AfterReject, TypeOK
  <2>3. opener' \in [Openers -> Places]
    BY <1>13 DEF ProcessClose, NotifyOpen, TypeOK, Places
  <2> QED
    BY <1>13, <2>1, <2>2, <2>3 DEF ProcessClose, TypeOK, ToHost, stream, closing, eventVars, device
<1>14. CASE WriteAcknowledged
  <2>1. Packet("OKAY", eventRef, remoteId[eventRef]) \in ToDevice
    BY <1>14, PacketTypes DEF WriteAcknowledged, EventInv, TypeOK
  <2>2. toDevice' \in Seq(ToDevice)
    BY <1>1, <1>14, <2>1 DEF WriteAcknowledged, Acks
  <2> QED
    BY <1>14, <2>2 DEF WriteAcknowledged, TypeOK, ToDevice, table, threads, stream, closing, device
<1>15. CASE HandlerReturns \/ CloseMarks \/ CloseReturns
  BY <1>15 DEF HandlerReturns, CloseMarks, CloseReturns, TypeOK, table, threads, stream, closing, device
<1>16. CASE DeviceReads
  <2>1. toDevice' \in Seq(ToDevice) /\ Head(toDevice).id \in Ids
    <3>1. Head(toDevice) \in ToDevice /\ toDevice' \in Seq(ToDevice)
      BY <1>1, <1>16, Channel DEF DeviceReads
    <3> QED
      BY <3>1 DEF ToDevice, Packets
  <2>2. toHost' \in Seq(ToHost)
    <3> DEFINE id == Head(toDevice).id
    <3>1. /\ Append(toHost, Packet("OKAY", id, RemoteOf(id))) \in Seq(ToHost)
          /\ Append(toHost, Packet("CLSE", id, 0)) \in Seq(ToHost)
      BY <1>1, <2>1, PacketTypes, Channel
    <3> QED
      BY <1>1, <1>16, <3>1 DEF DeviceReads
  <2>3. peer' \in [Ids -> {"none", "open", "closed"}] /\ peerReady' \in [Ids -> BOOLEAN]
    BY <1>16 DEF DeviceReads, TypeOK
  <2> QED
    BY <1>16, <2>1, <2>2, <2>3
       DEF DeviceReads, TypeOK, ToDevice, ToHost, table, threads, stream, closing, eventVars
<1>17. ASSUME NEW id \in Ids, DeviceWrites(id) \/ DeviceCloses(id) PROVE TypeOK'
  <2>1. toHost' \in Seq(ToHost)
    <3>1. \A c \in {"WRTE", "CLSE"} : Append(toHost, Packet(c, id, RemoteOf(id))) \in Seq(ToHost)
      BY <1>1, PacketTypes, Channel
    <3> QED
      BY <1>17, <3>1 DEF DeviceWrites, DeviceCloses
  <2>2. /\ peer' \in [Ids -> {"none", "open", "closed"}] /\ peerReady' \in [Ids -> BOOLEAN]
        /\ peerWrites' \in [Ids -> 0..MaxWrites]
    <3>1. CASE DeviceWrites(id)
      <4>1. peerWrites[id] + 1 \in 0..MaxWrites
        BY <3>1, IdFacts DEF DeviceWrites, TypeOK
      <4> QED
        BY <3>1, <4>1 DEF DeviceWrites, TypeOK
    <3>2. CASE DeviceCloses(id)
      BY <3>2 DEF DeviceCloses, TypeOK
    <3> QED
      BY <1>17, <3>1, <3>2
  <2> QED
    BY <1>17, <2>1, <2>2
       DEF DeviceWrites, DeviceCloses, TypeOK, ToHost, table, threads, stream, closing, eventVars
<1>18. CASE UNCHANGED vars
  BY <1>18 DEF vars, TypeOK, table, threads, stream, closing, eventVars, device
<1> QED
  BY <1>2, <1>3, <1>4, <1>7, <1>8, <1>10, <1>12, <1>13, <1>14, <1>15, <1>16, <1>17, <1>18,
     <1>5, <1>6, <1>9, <1>11 DEF Next, OpenStep, CloseStep, EventStep

-----------------------------------------------------------------------------
(* What the application and the ends of streams do.                        *)
StreamEnds(id) == \/ CloseStep(id) \/ CloseStreamSends(id) \/ OStreamClose(id)
                  \/ \E h \in HandleKinds : DropHandle(id, h)

(* They only change what the streams and mActiveStreams are about, and may *)
(* send a CLSE.                                                            *)
LEMMA EndsKeep ==
    ASSUME NEW id \in Ids, StreamEnds(id)
    PROVE  /\ UNCHANGED <<mStreamsMutex, mLastLocalId, mAwaitingStreams, threads, remoteId,
                          eventVars, toHost, device, spurious>>
           /\ \/ toDevice' = toDevice
              \/ /\ toDevice' = Append(toDevice, Packet("CLSE", id, remoteId[id]))
                 /\ UNCHANGED stream
  BY DEF StreamEnds, CloseStep, CloseStream, CloseStreamMarks, CloseStreamErases, CloseStreamSends,
         OStreamClose, DropHandle, table, threads, stream, eventVars

(* Most steps add no call and no entry.                                    *)
CallsKept ==
    /\ DOMAIN mAwaitingStreams' = DOMAIN mAwaitingStreams
    /\ opening' = opening /\ mLastLocalId' = mLastLocalId
    /\ \A o \in Openers : opener'[o] = "idle" <=> opener[o] = "idle"

(* The steps of one thread on its own call, and the handlers.              *)
CallStarts(o) ==
    /\ opener[o] = "idle" /\ mLastLocalId' = mLastLocalId + 1
    /\ DOMAIN mAwaitingStreams' = DOMAIN mAwaitingStreams \cup {mLastLocalId'}
    /\ opener' = [opener EXCEPT ![o] = "sent"]
    /\ opening' = [opening EXCEPT ![o] = mLastLocalId']
CallEnds(o) ==
    /\ opener[o] \in {"refused", "entered"} /\ mLastLocalId' = mLastLocalId
    /\ DOMAIN mAwaitingStreams' = DOMAIN mAwaitingStreams \ {opening[o]}
    /\ opener' = [opener EXCEPT ![o] = "idle"]
    /\ opening' = [opening EXCEPT ![o] = NoStream]

(* A step starts a call, ends one, or leaves the calls as they are.        *)
LEMMA CallSteps ==
    ASSUME TypeOK, CallsInv, [Next]_vars
    PROVE  CallsKept \/ \E o \in Openers : CallStarts(o) \/ CallEnds(o)
<1>1. ASSUME NEW o \in Openers, OpenSends(o) PROVE CallStarts(o)
  BY <1>1 DEF OpenSends, CallStarts
<1>2. ASSUME NEW o \in Openers, OpenFinishes(o) PROVE CallEnds(o)
  BY <1>2 DEF OpenFinishes, CallEnds, Without, Restrict
<1>3. ASSUME NEW o \in Openers, OpenWaits(o) \/ SpuriousWake(o) \/ OpenWakes(o) \/ OpenEnters(o)
      PROVE  CallsKept
  BY <1>3 DEF OpenWaits, SpuriousWake, OpenWakes, OpenEnters, CallsKept, TypeOK, table
<1>4. ASSUME NEW id \in Ids, ReadyLooksAgain(id) PROVE CallsKept
  BY <1>4 DEF ReadyLooksAgain, NotifyOpen, CallsKept
<1>5. ASSUME NEW id \in Ids, ProcessClose(id) PROVE CallsKept
  BY <1>5 DEF ProcessClose, AfterReject, NotifyOpen, CallsKept
<1>6. CASE \/ UNCHANGED vars
           \/ \E id \in Ids : \/ StreamEnds(id) \/ ProcessReady(id)
                              \/ ProcessWrite(id) \/ DeviceWrites(id) \/ DeviceCloses(id)
           \/ WriteAcknowledged \/ HandlerReturns \/ CloseMarks \/ CloseReturns \/ DeviceReads
  BY <1>6, EndsKeep DEF ProcessReady, ProcessWrite, DeviceWrites, DeviceCloses, WriteAcknowledged,
              HandlerReturns, CloseMarks, CloseReturns, DeviceReads, CallsKept, vars, table, threads
<1> QED
  BY <1>1, <1>2, <1>3, <1>4, <1>5, <1>6 DEF Next, OpenStep, CloseStep, EventStep, StreamEnds

(* The calls and the entries stay in step.                                 *)
LEMMA CallsStep == TypeOK /\ CallsInv /\ [Next]_vars => CallsInv'
<1> SUFFICES ASSUME TypeOK, CallsInv, [Next]_vars PROVE CallsInv'
  OBVIOUS
<1>1. CASE CallsKept
  BY <1>1 DEF CallsKept, CallsInv, AwaitingMatches
<1>2. ASSUME NEW o \in Openers, CallStarts(o) PROVE CallsInv'
  <2>1. mLastLocalId \in Nat /\ mLastLocalId' = mLastLocalId + 1 /\ mLastLocalId' # NoStream
    BY <1>2, IdFacts DEF CallStarts, TypeOK, NoStream
  <2>2. \A p \in Openers : opening[p] \in Nat /\ opening[p] <= mLastLocalId
    BY IdFacts DEF CallsInv, TypeOK, NoStream
  <2>3. opening[o] = NoStream
    BY <1>2 DEF CallStarts, CallsInv
  <2>4. \A p \in Openers : /\ opening'[p] = IF p = o THEN mLastLocalId' ELSE opening[p]
                           /\ opener'[p] = IF p = o THEN "sent" ELSE opener[p]
    BY <1>2 DEF CallStarts, TypeOK
  <2>5. {opening'[p] : p \in Openers} \ {NoStream}
            = ({opening[p] : p \in Openers} \ {NoStream}) \cup {mLastLocalId'}
    BY <2>1, <2>3, <2>4
  <2>6. AwaitingMatches'
    <3>1. DOMAIN mAwaitingStreams' = {opening'[p] : p \in Openers} \ {NoStream}
      BY <1>2, <2>5 DEF CallStarts, CallsInv, AwaitingMatches
    <3>2. ASSUME NEW p \in Openers, NEW q \in Openers, opening'[p] = opening'[q], opening'[p] # NoStream
          PROVE  p = q
      BY <2>1, <2>2, <2>4, <3>2 DEF CallsInv, AwaitingMatches
    <3> QED
      BY <3>1, <3>2 DEF AwaitingMatches
  <2>7. \A p \in Openers : /\ opener'[p] = "idle" <=> opening'[p] = NoStream
                           /\ opening'[p] <= mLastLocalId'
    BY <2>1, <2>2, <2>4 DEF CallsInv
  <2> QED
    BY <2>6, <2>7 DEF CallsInv
<1>3. ASSUME NEW o \in Openers, CallEnds(o) PROVE CallsInv'
  <2>1. opening[o] # NoStream
    BY <1>3 DEF CallEnds, CallsInv
  <2>2. \A p \in Openers : /\ opening'[p] = IF p = o THEN NoStream ELSE opening[p]
                           /\ opener'[p] = IF p = o THEN "idle" ELSE opener[p]
    BY <1>3 DEF CallEnds, TypeOK
  <2>3. \A p \in Openers \ {o} : opening[p] # opening[o]
    BY <2>1 DEF CallsInv, AwaitingMatches
  <2>4. {opening'[p] : p \in Openers} \ {NoStream}
            = ({opening[p] : p \in Openers} \ {NoStream}) \ {opening[o]}
    BY <2>2, <2>3
  <2>5. AwaitingMatches'
    <3>1. DOMAIN mAwaitingStreams' = {opening'[p] : p \in Openers} \ {NoStream}
      BY <1>3, <2>4 DEF CallEnds, CallsInv, AwaitingMatches
    <3>2. ASSUME NEW p \in Openers, NEW q \in Openers, opening'[p] = opening'[q], opening'[p] # NoStream
          PROVE  p = q
      BY <2>2, <3>2 DEF CallsInv, AwaitingMatches
    <3> QED
      BY <3>1, <3>2 DEF AwaitingMatches
  <2>6. mLastLocalId' = mLastLocalId /\ NoStream <= mLastLocalId
    BY <1>3, IdFacts DEF CallEnds, TypeOK, NoStream
  <2> QED
    BY <2>2, <2>5, <2>6 DEF CallsInv
<1> QED
  BY <1>1, <1>2, <1>3, CallSteps

(* A handler locks a stream that has an id.                                *)
LEMMA EventStepKeeps == TypeOK /\ EventInv /\ [Next]_vars => EventInv'
<1> SUFFICES ASSUME TypeOK, EventInv, [Next]_vars PROVE EventInv'
  OBVIOUS
<1>1. ASSUME UNCHANGED eventVars PROVE EventInv'
  BY <1>1 DEF eventVars, EventInv
<1>2. ASSUME NEW id \in Ids, \/ ProcessReady(id) \/ ReadyLooksAgain(id)
                             \/ ProcessWrite(id) \/ ProcessClose(id)
      PROVE  EventInv'
  BY <1>1, <1>2 DEF ProcessReady, ReadyLooksAgain, ProcessWrite, ProcessClose, EventInv
<1>3. CASE WriteAcknowledged \/ HandlerReturns \/ CloseMarks \/ CloseReturns
  BY <1>3 DEF WriteAcknowledged, HandlerReturns, CloseMarks, CloseReturns, EventInv
<1>4. ASSUME NEW o \in Openers, OpenSends(o) \/ OpenStep(o) \/ SpuriousWake(o) PROVE EventInv'
  BY <1>1, <1>4 DEF OpenSends, OpenStep, OpenWaits, OpenWakes, OpenEnters, OpenFinishes, SpuriousWake
<1>5. ASSUME NEW id \in Ids, StreamEnds(id) \/ DeviceWrites(id) \/ DeviceCloses(id)
      PROVE  EventInv'
  BY <1>1, <1>5, EndsKeep DEF DeviceWrites, DeviceCloses
<1>6. CASE DeviceReads \/ UNCHANGED vars
  BY <1>1, <1>6 DEF DeviceReads, vars
<1> QED
  BY <1>2, <1>3, <1>4, <1>5, <1>6 DEF Next, EventStep, StreamEnds

(* At first there is no call and no stream.                                *)
LEMMA InitCalls == Init => TypeOK /\ CallsInv /\ EventInv
<1> SUFFICES ASSUME Init PROVE TypeOK /\ CallsInv /\ EventInv
  OBVIOUS
<1>1. DOMAIN mAwaitingStreams = {}
  BY DEF Init
<1>2. TypeOK
  BY <1>1, IdFacts DEF Init, TypeOK, NoStream, Places
<1>3. CallsInv
  BY <1>1 DEF Init, CallsInv, AwaitingMatches, NoStream
<1>4. EventInv
  BY DEF Init, EventInv
<1> QED
  BY <1>2, <1>3, <1>4

(* These three are inductive on their own.                                 *)
LEMMA AlwaysCalls == Spec => [](TypeOK /\ CallsInv /\ EventInv)
  BY InitCalls, TypeStep, CallsStep, EventStepKeeps, PTL DEF Spec

(* The tables, the handles and the packets keep their types, for any       *)
(* number of threads and calls.                                            *)
THEOREM Typing == Spec => []TypeOK
  BY AlwaysCalls, PTL

(* For any number of threads that open streams, each call has an entry of  *)
(* its own in mAwaitingStreams while it waits, and no entry is left over:  *)
(* what open() refers to over the wait (AdbDevice.cpp:261) stays there.    *)
THEOREM Awaiting == Spec => []AwaitingMatches
<1>1. CallsInv => AwaitingMatches
  BY DEF CallsInv
<1> QED
  BY <1>1, AlwaysCalls, PTL

-----------------------------------------------------------------------------
(* What the packets on their way and the handlers mean.                    *)
HostHears(p) ==
    /\ p.cmd = "OKAY" => p.remote = RemoteOf(p.id) /\ Accepted(p.id)
    /\ p.cmd = "WRTE" => peerWrites[p.id] > 0
    /\ p.cmd = "CLSE" => peer[p.id] = "closed"

DeviceHears(p) ==
    /\ p.cmd = "OPEN" => peer[p.id] = "none" /\ p.id <= mLastLocalId
    /\ p.cmd = "OKAY" => peerWrites[p.id] > 0

ToHostInv == \A p \in Range(toHost) : HostHears(p)
ToDeviceInv == \A p \in Range(toDevice) : DeviceHears(p)
OpensOnce ==
    \A i, j \in DOMAIN toDevice :
        toDevice[i].cmd = "OPEN" /\ toDevice[j].cmd = "OPEN" /\ toDevice[i].id = toDevice[j].id
        => i = j

(* A stream that the device accepted is one it may write to, or wrote to.  *)
PeerInv ==
    \A id \in Ids : /\ peer[id] = "none" => ~Accepted(id)
                    /\ peer[id] = "open" => Accepted(id)
                    /\ id > mLastLocalId => peer[id] = "none"

HandlerInv == /\ event = "write" => peerWrites[eventRef] > 0
              /\ event \in {"close", "closing"} => peer[eventRef] = "closed"

WireInv == ToHostInv /\ ToDeviceInv /\ OpensOnce /\ PeerInv /\ HandlerInv

(* What the device has said it does not take back.                         *)
Grows ==
    \A id \in Ids : /\ Accepted(id) => Accepted(id)'
                    /\ peerWrites[id] > 0 => peerWrites'[id] > 0
                    /\ peer[id] = "closed" => peer'[id] = "closed"

(* Where the packets are after one is taken, ...                           *)
LEMMA TailPlaces ==
    ASSUME NEW S, NEW seq \in Seq(S), seq # <<>>
    PROVE  /\ 1 \in DOMAIN seq /\ Head(seq) = seq[1]
           /\ \A i \in DOMAIN Tail(seq) : i \in Nat \ {0} /\ i + 1 \in DOMAIN seq /\ Tail(seq)[i] = seq[i + 1]
  BY HeadTailProperties, LenProperties

(* ... and after one is added.                                             *)
LEMMA AppendPlaces ==
    ASSUME NEW S, NEW seq \in Seq(S), NEW e \in S
    PROVE  \A i \in DOMAIN Append(seq, e) :
               \/ i \in DOMAIN seq /\ Append(seq, e)[i] = seq[i]
               \/ i = Len(seq) + 1 /\ i \notin DOMAIN seq /\ Append(seq, e)[i] = e
  BY AppendProperties, LenProperties

(* Which packets they are.                                                 *)
LEMMA Contents ==
    ASSUME NEW S, NEW seq \in Seq(S)
    PROVE  /\ Range(seq) \subseteq S
           /\ seq # <<>> => Head(seq) \in Range(seq) /\ Range(Tail(seq)) \subseteq Range(seq)
           /\ \A e \in S : Range(Append(seq, e)) \subseteq Range(seq) \cup {e}
<1>1. Range(seq) \subseteq S
  BY LenProperties, ElementOfSeq DEF Range
<1>2. ASSUME seq # <<>> PROVE Head(seq) \in Range(seq) /\ Range(Tail(seq)) \subseteq Range(seq)
  BY <1>2, TailPlaces DEF Range
<1>3. ASSUME NEW e \in S PROVE Range(Append(seq, e)) \subseteq Range(seq) \cup {e}
  BY <1>3, AppendPlaces DEF Range
<1> QED
  BY <1>1, <1>2, <1>3

(* The packets to the host keep their meaning.                             *)
LEMMA ToHostKept ==
    ASSUME TypeOK, ToHostInv, Grows,
           \/ toHost' = toHost
           \/ toHost # <<>> /\ toHost' = Tail(toHost)
           \/ \E p \in ToHost : HostHears(p)' /\ toHost' = Append(toHost, p)
    PROVE  ToHostInv'
<1>1. toHost \in Seq(ToHost)
  BY DEF TypeOK, ToHost
<1>2. ASSUME NEW p \in Range(toHost) PROVE HostHears(p)'
  <2>1. p \in ToHost /\ HostHears(p)
    BY <1>1, Contents DEF ToHostInv
  <2>2. p.id \in Ids
    BY <2>1 DEF ToHost, Packets
  <2> QED
    BY <2>1, <2>2 DEF HostHears, Grows
<1>3. CASE toHost' = toHost \/ (toHost # <<>> /\ toHost' = Tail(toHost))
  <2>1. Range(toHost)' \subseteq Range(toHost)
    BY <1>1, <1>3, Contents
  <2> QED
    BY <1>2, <2>1 DEF ToHostInv
<1>4. ASSUME NEW q \in ToHost, HostHears(q)', toHost' = Append(toHost, q) PROVE ToHostInv'
  <2>1. Range(toHost)' \subseteq Range(toHost) \cup {q}
    BY <1>1, <1>4, Contents
  <2> QED
    BY <1>2, <1>4, <2>1 DEF ToHostInv
<1> QED
  BY <1>3, <1>4

(* So do the packets to the device: one OPEN for each id, not answered.    *)
LEMMA ToDeviceKept ==
    ASSUME TypeOK, ToDeviceInv, OpensOnce, Grows, mLastLocalId' \in Nat, mLastLocalId <= mLastLocalId',
           \A p \in Range(toDevice) : p \in Range(toDevice)' /\ p.cmd = "OPEN" => peer'[p.id] = "none",
           \/ toDevice' = toDevice
           \/ toDevice # <<>> /\ toDevice' = Tail(toDevice)
           \/ \E p \in ToDevice : /\ DeviceHears(p)' /\ toDevice' = Append(toDevice, p)
                                  /\ p.cmd = "OPEN" => p.id = mLastLocalId + 1
    PROVE  ToDeviceInv' /\ OpensOnce'
<1>1. toDevice \in Seq(ToDevice) /\ mLastLocalId \in Nat
  BY IdFacts DEF TypeOK, ToDevice
<1>2. ASSUME NEW p \in Range(toDevice), p \in Range(toDevice)' PROVE DeviceHears(p)'
  <2>1. p \in ToDevice /\ DeviceHears(p)
    BY <1>1, Contents DEF ToDeviceInv
  <2>2. p.id \in Ids /\ p.id \in Nat
    BY <2>1, IdFacts DEF ToDevice, Packets
  <2> QED
    BY <1>1, <1>2, <2>1, <2>2 DEF DeviceHears, Grows
<1>3. CASE toDevice' = toDevice
  BY <1>2, <1>3 DEF ToDeviceInv, OpensOnce
<1>4. CASE toDevice # <<>> /\ toDevice' = Tail(toDevice)
  <2>1. Range(toDevice)' \subseteq Range(toDevice)
    BY <1>1, <1>4, Contents
  <2>2. \A i \in DOMAIN toDevice' : /\ i \in Nat /\ i + 1 \in DOMAIN toDevice
                                    /\ toDevice'[i] = toDevice[i + 1]
    BY <1>1, <1>4, TailPlaces
  <2>3. ASSUME NEW i \in DOMAIN toDevice', NEW j \in DOMAIN toDevice', toDevice'[i].cmd = "OPEN",
               toDevice'[j].cmd = "OPEN", toDevice'[i].id = toDevice'[j].id
        PROVE  i = j
    <3>1. i + 1 = j + 1
      BY <2>2, <2>3 DEF OpensOnce
    <3> QED
      BY <2>2, <3>1
  <2> QED
    BY <1>2, <2>1, <2>3 DEF ToDeviceInv, OpensOnce
<1>5. ASSUME NEW p \in ToDevice, DeviceHears(p)', toDevice' = Append(toDevice, p),
             p.cmd = "OPEN" => p.id = mLastLocalId + 1
      PROVE  ToDeviceInv' /\ OpensOnce'
  <2>1. Range(toDevice)' \subseteq Range(toDevice) \cup {p}
    BY <1>1, <1>5, Contents
  <2>2. \A i \in DOMAIN toDevice' :
            \/ i \in DOMAIN toDevice /\ toDevice'[i] = toDevice[i]
            \/ i = Len(toDevice) + 1 /\ i \notin DOMAIN toDevice /\ toDevice'[i] = p
    BY <1>1, <1>5, AppendPlaces
  <2>3. ASSUME NEW i \in DOMAIN toDevice, toDevice[i].cmd = "OPEN"
        PROVE  toDevice[i].id \in Nat /\ toDevice[i].id <= mLastLocalId
    <3>1. toDevice[i] \in Range(toDevice)
      BY DEF Range
    <3>2. toDevice[i] \in ToDevice /\ DeviceHears(toDevice[i])
      BY <1>1, <3>1, Contents DEF ToDeviceInv
    <3> QED
      BY <2>3, <3>2, IdFacts DEF DeviceHears, ToDevice, Packets
  <2>4. ASSUME NEW i \in DOMAIN toDevice', NEW j \in DOMAIN toDevice', toDevice'[i].cmd = "OPEN",
               toDevice'[j].cmd = "OPEN", toDevice'[i].id = toDevice'[j].id
        PROVE  i = j
    BY <1>1, <1>5, <2>2, <2>3, <2>4 DEF OpensOnce
  <2> QED
    BY <1>2, <1>5, <2>1, <2>4 DEF ToDeviceInv, OpensOnce
<1> QED
  BY <1>3, <1>4, <1>5

(* A CLSE that the device reads closes its side of the stream, or nothing. *)
LEMMA ReadsClose ==
    ASSUME DeviceReads, Head(toDevice).cmd = "CLSE"
    PROVE  /\ peerReady' = peerReady
           /\ \/ peer' = peer
              \/ /\ peer[Head(toDevice).id] = "open"
                 /\ peer' = [peer EXCEPT ![Head(toDevice).id] = "closed"]
  BY DEF DeviceReads

(* The side of each stream stays as it was, or goes from open to closed.   *)
LEMMA ReadsOneClose ==
    ASSUME TypeOK, DeviceReads, Head(toDevice).cmd = "CLSE"
    PROVE  \A i \in Ids : peer'[i] = peer[i] \/ (peer[i] = "open" /\ peer'[i] = "closed")
<1>1. peer \in [Ids -> {"none", "open", "closed"}]
  BY DEF TypeOK
<1> QED
  BY <1>1, ReadsClose

(* A step keeps what the device said, ...                                  *)
LEMMA DeviceStep == TypeOK /\ WireInv /\ [Next]_vars => Grows
<1> SUFFICES ASSUME TypeOK, WireInv, [Next]_vars PROVE Grows
  OBVIOUS
<1>1. ASSUME UNCHANGED device PROVE Grows
  BY <1>1 DEF device, Grows, Accepted
<1>2. CASE DeviceReads
  <2>1. toDevice \in Seq(ToDevice) /\ toDevice # <<>>
    BY <1>2 DEF TypeOK, ToDevice, DeviceReads
  <2>2. Head(toDevice).cmd = "OPEN" => peer[Head(toDevice).id] = "none"
    BY <2>1, Contents DEF WireInv, ToDeviceInv, DeviceHears
  <2> QED
    BY <1>2, <2>2 DEF DeviceReads, Grows, Accepted, TypeOK
<1>3. ASSUME NEW id \in Ids, DeviceWrites(id) PROVE Grows
  BY <1>3, IdFacts DEF DeviceWrites, Grows, Accepted, TypeOK
<1>4. ASSUME NEW id \in Ids, DeviceCloses(id) PROVE Grows
  BY <1>4 DEF DeviceCloses, Grows, Accepted, TypeOK
<1>5. ASSUME NEW o \in Openers, OpenSends(o) \/ OpenStep(o) \/ SpuriousWake(o) PROVE Grows
  BY <1>1, <1>5 DEF OpenSends, OpenStep, OpenWaits, OpenWakes, OpenEnters, OpenFinishes, SpuriousWake
<1>6. ASSUME NEW id \in Ids, \/ StreamEnds(id) \/ ProcessReady(id) \/ ReadyLooksAgain(id)
                             \/ ProcessWrite(id) \/ ProcessClose(id)
      PROVE  Grows
  BY <1>1, <1>6, EndsKeep DEF ProcessReady, ReadyLooksAgain, ProcessWrite, ProcessClose
<1>7. CASE \/ WriteAcknowledged \/ HandlerReturns \/ CloseMarks \/ CloseReturns \/ UNCHANGED vars
  BY <1>1, <1>7 DEF WriteAcknowledged, HandlerReturns, CloseMarks, CloseReturns, vars
<1> QED
  BY <1>2, <1>3, <1>4, <1>5, <1>6, <1>7 DEF Next, EventStep, StreamEnds

(* ... and the packets keep their meaning, whoever sends and takes them.   *)
LEMMA WireStep == TypeOK /\ TypeOK' /\ CallsInv /\ EventInv /\ WireInv /\ [Next]_vars => WireInv'
<1> SUFFICES ASSUME TypeOK, TypeOK', CallsInv, EventInv, WireInv, [Next]_vars PROVE WireInv'
  OBVIOUS
<1> USE DEF WireInv
<1>1. Grows
  BY DeviceStep
<1>2. toHost \in Seq(ToHost) /\ toDevice \in Seq(ToDevice)
  BY DEF TypeOK, ToHost, ToDevice
<1>3. mLastLocalId \in Nat /\ mLastLocalId' \in Nat
  BY IdFacts DEF TypeOK
<1>4. \A p \in Range(toDevice) : p \in ToDevice /\ DeviceHears(p)
  BY <1>2, Contents DEF ToDeviceInv
<1>5. ASSUME UNCHANGED <<toHost, toDevice, device, eventVars, mLastLocalId>> PROVE WireInv'
  <2>1. PeerInv' /\ HandlerInv'
    BY <1>5 DEF PeerInv, HandlerInv, Accepted, device, eventVars
  <2>2. ToHostInv'
    BY <1>1, <1>5, ToHostKept
  <2>3. ToDeviceInv' /\ OpensOnce'
    BY <1>1, <1>3, <1>4, <1>5, ToDeviceKept DEF device, DeviceHears
  <2> QED
    BY <2>1, <2>2, <2>3
<1>6. ASSUME NEW o \in Openers, OpenSends(o) PROVE WireInv'
  <2>1. /\ mLastLocalId' = mLastLocalId + 1 /\ mLastLocalId' \in Ids
        /\ UNCHANGED <<toHost, device, eventVars>>
    BY <1>3, <1>6, IdFacts DEF OpenSends, TypeOK, Ids
  <2>2. PeerInv' /\ HandlerInv'
    BY <1>3, <2>1, IdFacts DEF PeerInv, HandlerInv, Accepted, device, eventVars
  <2>3. ToHostInv'
    BY <1>1, <2>1, ToHostKept
  <2>4. ToDeviceInv' /\ OpensOnce'
    <3> DEFINE p == Packet("OPEN", mLastLocalId', 0)
    <3>1. PICK q \in ToDevice : q = p
      BY <2>1, PacketTypes
    <3>2. q.cmd = "OPEN" /\ q.id = mLastLocalId + 1
      BY <2>1, <3>1 DEF Packet
    <3>3. peer'[q.id] = "none" /\ q.id <= mLastLocalId'
      BY <1>3, <2>1, <3>2, IdFacts DEF PeerInv, device
    <3>4. DeviceHears(q)' /\ toDevice' = Append(toDevice, q)
      BY <1>6, <3>1, <3>2, <3>3 DEF OpenSends, DeviceHears
    <3>5. \A r \in Range(toDevice) : r.cmd = "OPEN" => peer'[r.id] = "none"
      BY <1>4, <2>1 DEF device, DeviceHears
    <3> QED
      BY <1>1, <1>3, <2>1, <3>2, <3>4, <3>5, ToDeviceKept
  <2> QED
    BY <2>2, <2>3, <2>4
<1>7. ASSUME NEW id \in Ids, \/ ProcessReady(id) \/ ReadyLooksAgain(id)
                             \/ ProcessWrite(id) \/ ProcessClose(id)
      PROVE  WireInv'
  <2>1. /\ UNCHANGED <<toDevice, device, mLastLocalId>>
        /\ toHost # <<>> /\ Head(toHost).id = id
        /\ toHost' = toHost \/ toHost' = Tail(toHost)
    BY <1>7 DEF ProcessReady, ReadyLooksAgain, ProcessWrite, ProcessClose, Takes, Arrives, table
  <2>2. HostHears(Head(toHost))
    BY <1>2, <2>1, Contents DEF ToHostInv
  <2>3. HandlerInv'
    <3>1. CASE ProcessReady(id) \/ ReadyLooksAgain(id)
      BY <3>1 DEF ProcessReady, ReadyLooksAgain, HandlerInv, eventVars, device
    <3>2. CASE ProcessWrite(id)
      BY <2>1, <2>2, <3>2 DEF ProcessWrite, Takes, Arrives, HostHears, HandlerInv, eventVars, device
    <3>3. CASE ProcessClose(id)
      BY <2>1, <2>2, <3>3 DEF ProcessClose, Takes, Arrives, HostHears, HandlerInv, eventVars, device
    <3> QED
      BY <1>7, <3>1, <3>2, <3>3
  <2>4. PeerInv'
    BY <2>1 DEF PeerInv, Accepted, device
  <2>5. ToHostInv'
    BY <1>1, <2>1, ToHostKept
  <2>6. ToDeviceInv' /\ OpensOnce'
    BY <1>1, <1>3, <1>4, <2>1, ToDeviceKept DEF device, DeviceHears
  <2> QED
    BY <2>3, <2>4, <2>5, <2>6
<1>8. CASE WriteAcknowledged
  <2>1. /\ UNCHANGED <<toHost, device, eventRef, mLastLocalId>> /\ event' = "ready"
        /\ eventRef \in Ids /\ peerWrites[eventRef] > 0
    BY <1>8 DEF WriteAcknowledged, EventInv, HandlerInv, table
  <2>2. PeerInv' /\ HandlerInv'
    BY <2>1 DEF PeerInv, HandlerInv, Accepted, device
  <2>3. ToHostInv'
    BY <1>1, <2>1, ToHostKept
  <2>4. ToDeviceInv' /\ OpensOnce'
    <3>1. PICK q \in ToDevice : q = Packet("OKAY", eventRef, remoteId[eventRef])
      BY <2>1, PacketTypes DEF TypeOK
    <3>2. q.cmd = "OKAY" /\ DeviceHears(q)'
      BY <2>1, <3>1 DEF Packet, DeviceHears, device
    <3>3. toDevice' = Append(toDevice, q)
      BY <1>2, <1>8, <3>1, AppendIsConcat DEF WriteAcknowledged, Acks
    <3> QED
      BY <1>1, <1>3, <1>4, <2>1, <3>2, <3>3, ToDeviceKept DEF device, DeviceHears
  <2> QED
    BY <2>2, <2>3, <2>4
<1>9. CASE HandlerReturns \/ CloseMarks \/ CloseReturns
  <2>1. UNCHANGED <<toHost, toDevice, device, mLastLocalId>>
    BY <1>9 DEF HandlerReturns, CloseMarks, CloseReturns, table
  <2>2. PeerInv' /\ HandlerInv'
    BY <1>9, <2>1 DEF HandlerReturns, CloseMarks, CloseReturns, PeerInv, HandlerInv, Accepted, device
  <2>3. ToHostInv'
    BY <1>1, <2>1, ToHostKept
  <2>4. ToDeviceInv' /\ OpensOnce'
    BY <1>1, <1>3, <1>4, <2>1, ToDeviceKept DEF device, DeviceHears
  <2> QED
    BY <2>2, <2>3, <2>4
<1>10. CASE DeviceReads
  <2>1. /\ UNCHANGED <<eventVars, peerWrites, mLastLocalId>>
        /\ toDevice # <<>> /\ toDevice' = Tail(toDevice)
    BY <1>10 DEF DeviceReads, table
  <2>2. Head(toDevice) \in ToDevice /\ DeviceHears(Head(toDevice))
    BY <1>2, <1>4, <2>1, Contents
  <2> PICK id \in Ids : id = Head(toDevice).id
    BY <2>2 DEF ToDevice, Packets
  <2>3. HandlerInv'
    BY <1>1, <2>1 DEF HandlerInv, EventInv, Grows, eventVars
  <2>4. PeerInv'
    <3>1. CASE Head(toDevice).cmd = "OPEN"
      <4>1. /\ peer[id] = "none" /\ id \in Nat /\ id <= mLastLocalId
            /\ \A i \in Ids \ {id} : peer'[i] = peer[i] /\ (Accepted(i)' <=> Accepted(i))
        <5>1. peer[id] = "none" /\ id \in Nat /\ id <= mLastLocalId
          BY <2>2, <3>1, IdFacts DEF DeviceHears
        <5>2. \A i \in Ids \ {id} : peer'[i] = peer[i] /\ peerReady'[i] = peerReady[i]
          BY <1>10, <3>1 DEF DeviceReads, TypeOK
        <5> QED
          BY <2>1, <5>1, <5>2 DEF Accepted
      <4>2. peer'[id] = "closed" \/ (peer'[id] = "open" /\ Accepted(id)')
        BY <1>10, <2>2, <3>1 DEF DeviceReads, Accepted, TypeOK
      <4> QED
        BY <1>3, <2>1, <4>1, <4>2 DEF PeerInv
    <3>2. CASE Head(toDevice).cmd = "OKAY"
      <4>1. peerWrites[id] > 0 /\ peer' = peer /\ Accepted(id)
        BY <1>10, <2>2, <3>2 DEF DeviceReads, DeviceHears, Accepted
      <4>2. \A i \in Ids : Accepted(i)' <=> Accepted(i)
        <5>1. \A i \in Ids \ {id} : peerReady'[i] = peerReady[i]
          BY <1>10, <3>2 DEF DeviceReads, TypeOK
        <5> QED
          BY <2>1, <4>1, <5>1 DEF Accepted
      <4> QED
        BY <2>1, <4>1, <4>2 DEF PeerInv
    <3>3. CASE Head(toDevice).cmd = "CLSE"
      <4>1. /\ peerReady' = peerReady
            /\ \A i \in Ids : peer'[i] = peer[i] \/ (peer[i] = "open" /\ peer'[i] = "closed")
        BY <1>10, <3>3, ReadsClose, ReadsOneClose
      <4>2. \A i \in Ids : Accepted(i)' <=> Accepted(i)
        BY <2>1, <4>1 DEF Accepted
      <4> QED
        BY <2>1, <4>1, <4>2 DEF PeerInv
    <3> QED
      BY <2>2, <3>1, <3>2, <3>3 DEF ToDevice, Packets
  <2>5. ToHostInv'
    <3>1. CASE toHost' = toHost
      BY <1>1, <3>1, ToHostKept
    <3>2. CASE /\ toHost' = Append(toHost, Packet("OKAY", id, RemoteOf(id)))
               /\ peerReady' = [peerReady EXCEPT ![id] = TRUE]
      <4>1. PICK q \in ToHost : q = Packet("OKAY", id, RemoteOf(id))
        BY <2>2, PacketTypes
      <4>2. HostHears(q)'
        BY <2>2, <3>2, <4>1 DEF HostHears, Packet, Accepted, TypeOK
      <4> QED
        BY <1>1, <3>2, <4>1, <4>2, ToHostKept
    <3>3. CASE /\ toHost' = Append(toHost, Packet("CLSE", id, 0))
               /\ peer' = [peer EXCEPT ![id] = "closed"]
      <4>1. PICK q \in ToHost : q = Packet("CLSE", id, 0)
        BY <2>2, PacketTypes
      <4>2. HostHears(q)'
        BY <2>2, <3>3, <4>1 DEF HostHears, Packet, TypeOK
      <4> QED
        BY <1>1, <3>3, <4>1, <4>2, ToHostKept
    <3> QED
      BY <1>10, <3>1, <3>2, <3>3 DEF DeviceReads
  <2>6. ToDeviceInv' /\ OpensOnce'
    <3>1. CASE Head(toDevice).cmd = "OKAY"
      <4>1. peer' = peer
        BY <1>10, <3>1 DEF DeviceReads
      <4> QED
        BY <1>1, <1>3, <1>4, <2>1, <4>1, ToDeviceKept DEF DeviceHears
    <3>2. CASE Head(toDevice).cmd = "OPEN"
      <4>1. \A i \in Ids \ {id} : peer'[i] = peer[i]
        BY <1>10, <3>2 DEF DeviceReads, TypeOK
      <4>2. ASSUME NEW p \in Range(toDevice), p \in Range(toDevice)', p.cmd = "OPEN" PROVE p.id # id
        <5>1. PICK i \in DOMAIN Tail(toDevice) : p = Tail(toDevice)[i]
          BY <2>1, <4>2 DEF Range
        <5>2. i \in Nat \ {0} /\ i + 1 \in DOMAIN toDevice /\ p = toDevice[i + 1]
          BY <1>2, <2>1, <5>1, TailPlaces
        <5>3. 1 \in DOMAIN toDevice /\ Head(toDevice) = toDevice[1] /\ i + 1 # 1
          BY <1>2, <2>1, <5>2, TailPlaces
        <5> QED
          BY <3>2, <4>2, <5>2, <5>3 DEF OpensOnce
      <4>3. \A p \in Range(toDevice) : p \in Range(toDevice)' /\ p.cmd = "OPEN" => peer'[p.id] = "none"
        BY <1>4, <4>1, <4>2 DEF DeviceHears, ToDevice, Packets
      <4> QED
        BY <1>1, <1>3, <2>1, <4>3, ToDeviceKept
    <3>3. CASE Head(toDevice).cmd = "CLSE"
      <4>1. \A i \in Ids : peer[i] = "none" => peer'[i] = "none"
        BY <1>10, <3>3, ReadsOneClose
      <4>2. \A p \in Range(toDevice) : p.cmd = "OPEN" => peer'[p.id] = "none"
        BY <1>4, <4>1 DEF DeviceHears, ToDevice, Packets
      <4> QED
        BY <1>1, <1>3, <2>1, <4>2, ToDeviceKept
    <3> QED
      BY <2>2, <3>1, <3>2, <3>3 DEF ToDevice, Packets
  <2> QED
    BY <2>3, <2>4, <2>5, <2>6
<1>11. ASSUME NEW id \in Ids, DeviceWrites(id) \/ DeviceCloses(id) PROVE WireInv'
  <2>1. /\ UNCHANGED <<eventVars, toDevice, mLastLocalId>> /\ peer[id] = "open"
        /\ \A i \in Ids : peer'[i] = IF i = id /\ DeviceCloses(id) THEN "closed" ELSE peer[i]
    BY <1>11, SMTT(30) DEF DeviceWrites, DeviceCloses, TypeOK, table
  <2>2. HandlerInv'
    BY <1>1, <2>1 DEF HandlerInv, EventInv, Grows, eventVars
  <2>3. \A i \in Ids : Accepted(i)' <=> Accepted(i)
    <3>1. peerWrites[id] \in Nat /\ MaxWrites \in Nat
      BY IdFacts DEF TypeOK
    <3>2. CASE DeviceWrites(id)
      <4>1. /\ peerReady[id] /\ peerWrites'[id] > 0
            /\ \A i \in Ids \ {id} : peerReady'[i] = peerReady[i] /\ peerWrites'[i] = peerWrites[i]
        BY <3>1, <3>2 DEF DeviceWrites, TypeOK
      <4> QED
        BY <4>1 DEF Accepted
    <3>3. CASE DeviceCloses(id)
      BY <3>3 DEF DeviceCloses, Accepted
    <3> QED
      BY <1>11, <3>2, <3>3
  <2>4. PeerInv'
    BY <2>1, <2>3 DEF PeerInv
  <2>5. ToHostInv'
    <3>1. CASE DeviceWrites(id)
      <4>1. PICK q \in ToHost : q = Packet("WRTE", id, RemoteOf(id))
        BY PacketTypes
      <4>2. HostHears(q)'
        BY <3>1, <4>1, IdFacts DEF DeviceWrites, HostHears, Packet, TypeOK
      <4>3. toHost' = Append(toHost, q)
        BY <3>1, <4>1 DEF DeviceWrites
      <4> QED
        BY <1>1, <4>2, <4>3, ToHostKept
    <3>2. CASE DeviceCloses(id)
      <4>1. PICK q \in ToHost : q = Packet("CLSE", id, RemoteOf(id))
        BY PacketTypes
      <4>2. HostHears(q)'
        BY <3>2, <4>1 DEF DeviceCloses, HostHears, Packet, TypeOK
      <4>3. toHost' = Append(toHost, q)
        BY <3>2, <4>1 DEF DeviceCloses
      <4> QED
        BY <1>1, <4>2, <4>3, ToHostKept
    <3> QED
      BY <1>11, <3>1, <3>2
  <2>6. ToDeviceInv' /\ OpensOnce'
    <3>1. \A p \in Range(toDevice) : p.cmd = "OPEN" => peer'[p.id] = "none"
      BY <1>4, <2>1 DEF DeviceHears, ToDevice, Packets
    <3> QED
      BY <1>1, <1>3, <2>1, <3>1, ToDeviceKept
  <2> QED
    BY <2>2, <2>4, <2>5, <2>6
<1>12. CASE UNCHANGED vars \/ \E o \in Openers : OpenStep(o) \/ SpuriousWake(o)
  <2>1. UNCHANGED <<toHost, toDevice, device, eventVars, mLastLocalId>>
    BY <1>12 DEF OpenStep, OpenWaits, OpenWakes, OpenEnters, OpenFinishes, SpuriousWake, vars, table
  <2> QED
    BY <1>5, <2>1
<1>13. ASSUME NEW id \in Ids, StreamEnds(id) PROVE WireInv'
  <2>1. UNCHANGED <<toHost, device, eventVars, mLastLocalId>>
    BY <1>13, EndsKeep
  <2>2. CASE toDevice' = toDevice
    BY <1>5, <2>1, <2>2
  <2>3. CASE toDevice' = Append(toDevice, Packet("CLSE", id, remoteId[id]))
    <3>1. PICK q \in ToDevice : q = Packet("CLSE", id, remoteId[id])
      BY PacketTypes DEF TypeOK
    <3>2. q.cmd = "CLSE" /\ DeviceHears(q)' /\ toDevice' = Append(toDevice, q)
      BY <2>3, <3>1 DEF Packet, DeviceHears
    <3>3. ToDeviceInv' /\ OpensOnce'
      BY <1>1, <1>3, <1>4, <2>1, <3>2, ToDeviceKept DEF device, DeviceHears
    <3>4. ToHostInv'
      BY <1>1, <2>1, ToHostKept
    <3>5. PeerInv' /\ HandlerInv'
      BY <2>1 DEF PeerInv, HandlerInv, Accepted, device, eventVars
    <3> QED
      BY <3>3, <3>4, <3>5
  <2> QED
    BY <1>13, <2>2, <2>3, EndsKeep
<1> QED
  BY <1>6, <1>7, <1>8, <1>9, <1>10, <1>11, <1>12, <1>13 DEF Next, EventStep, StreamEnds

-----------------------------------------------------------------------------
(* What an entry of mAwaitingStreams tells, and why a thread woke up.      *)
EntryTells(id) ==
    /\ outcome[id] = "none"
    /\ mAwaitingStreams[id].rejected => peer[id] = "closed"
    /\ mAwaitingStreams[id].remoteId # 0
           => mAwaitingStreams[id].remoteId = RemoteOf(id) /\ Accepted(id)

EntryInv == \A id \in DOMAIN mAwaitingStreams : EntryTells(id)

OutcomeInv ==
    \A id \in Ids : /\ outcome[id] # "none" => id <= mLastLocalId
                    /\ handles[id] # {} \/ closer[id] # "none" => outcome[id] = "opened"

WokenInv ==
    \A o \in Openers :
        opener[o] = "notified" => \/ mAwaitingStreams[opening[o]].rejected
                                  \/ mAwaitingStreams[opening[o]].remoteId # 0
                                  \/ opening[o] \in spurious

(* Who holds mStreamsMutex.                                                *)
MutexInv ==
    /\ \A o \in Openers : opener[o] \in {"sent", "refused", "created", "entered"} => mStreamsMutex = o
    /\ event \in {"close", "closing"} => mStreamsMutex = EventThread

(* What a call has seen when it was woken and has the mutex again.         *)
Granted(id) == \/ remoteId[id] = RemoteOf(id) /\ Accepted(id)
               \/ remoteId[id] = 0 /\ id \in spurious

Seen(o) == /\ opener[o] = "refused" => mAwaitingStreams[opening[o]].rejected
           /\ HasStream(o) => open[opening[o]] /\ Granted(opening[o])

GrantedInv == \A o \in Openers : Seen(o)

(* What a step leaves alone, of an entry and of the others.                *)
LEMMA EntriesStay ==
    ASSUME TypeOK, EntryInv, Grows, NEW id \in DOMAIN mAwaitingStreams,
           id \in DOMAIN mAwaitingStreams', mAwaitingStreams'[id] = mAwaitingStreams[id],
           outcome'[id] = outcome[id]
    PROVE  EntryTells(id)'
<1>1. id \in Ids
  BY DEF TypeOK
<1> QED
  BY <1>1 DEF EntryInv, EntryTells, Grows

(* The entries tell what the device has said.                              *)
LEMMA EntryStep ==
    TypeOK /\ CallsInv /\ WireInv /\ EntryInv /\ OutcomeInv /\ [Next]_vars => EntryInv'
<1> SUFFICES ASSUME TypeOK, CallsInv, WireInv, EntryInv, OutcomeInv, [Next]_vars PROVE EntryInv'
  OBVIOUS
<1>1. Grows
  BY DeviceStep
<1>2. DOMAIN mAwaitingStreams \subseteq Ids
  BY DEF TypeOK
<1>3. ASSUME UNCHANGED <<mAwaitingStreams, outcome>> PROVE EntryInv'
  BY <1>1, <1>3, EntriesStay DEF EntryInv
<1>4. ASSUME NEW o \in Openers, OpenSends(o) PROVE EntryInv'
  <2>1. /\ mLastLocalId \in Nat /\ mLastLocalId' = mLastLocalId + 1 /\ mLastLocalId' \in Ids
        /\ outcome' = outcome
        /\ DOMAIN mAwaitingStreams' = DOMAIN mAwaitingStreams \cup {mLastLocalId'}
        /\ mAwaitingStreams'[mLastLocalId'] = [remoteId |-> 0, rejected |-> FALSE]
        /\ \A id \in DOMAIN mAwaitingStreams \ {mLastLocalId'} :
               mAwaitingStreams'[id] = mAwaitingStreams[id]
    BY <1>4, IdFacts DEF OpenSends, TypeOK, Ids
  <2>2. outcome[mLastLocalId'] = "none"
    BY <2>1, IdFacts DEF OutcomeInv
  <2>3. ASSUME NEW id \in DOMAIN mAwaitingStreams \ {mLastLocalId'}
        PROVE  EntryTells(id)'
    BY <1>1, <2>1, EntriesStay
  <2> QED
    BY <2>1, <2>2, <2>3 DEF EntryInv, EntryTells
<1>5. ASSUME NEW o \in Openers, OpenFinishes(o) PROVE EntryInv'
  <2>1. /\ DOMAIN mAwaitingStreams' = DOMAIN mAwaitingStreams \ {opening[o]}
        /\ \A id \in DOMAIN mAwaitingStreams' : mAwaitingStreams'[id] = mAwaitingStreams[id]
    BY <1>5 DEF OpenFinishes, Without, Restrict
  <2>2. \A id \in Ids \ {opening[o]} : outcome'[id] = outcome[id]
    BY <1>5 DEF OpenFinishes, TypeOK
  <2>3. ASSUME NEW id \in DOMAIN mAwaitingStreams'
        PROVE  EntryTells(id)'
    BY <1>1, <1>2, <2>1, <2>2, <2>3, EntriesStay
  <2> QED
    BY <2>3 DEF EntryInv
<1>6. ASSUME NEW i \in Ids, ReadyLooksAgain(i) PROVE EntryInv'
  <2>1. CASE mAwaitingStreams' = mAwaitingStreams
    BY <1>3, <1>6, <2>1 DEF ReadyLooksAgain
  <2>2. CASE /\ i \in DOMAIN mAwaitingStreams
             /\ mAwaitingStreams' = [mAwaitingStreams EXCEPT ![i].remoteId = Answered(Head(toHost))]
    <3>1. /\ outcome' = outcome /\ peer' = peer /\ toHost # <<>>
          /\ Head(toHost).cmd = "OKAY" /\ Head(toHost).id = i
      BY <1>6 DEF ReadyLooksAgain, device
    <3>2. HostHears(Head(toHost))
      BY <3>1, Contents DEF WireInv, ToHostInv, TypeOK
    <3>3. Answered(Head(toHost)) = RemoteOf(i) /\ Accepted(i)
      BY <3>1, <3>2 DEF HostHears, Answered
    <3>4. /\ DOMAIN mAwaitingStreams' = DOMAIN mAwaitingStreams
          /\ mAwaitingStreams'[i].remoteId = RemoteOf(i)
          /\ mAwaitingStreams'[i].rejected = mAwaitingStreams[i].rejected
          /\ \A id \in DOMAIN mAwaitingStreams \ {i} : mAwaitingStreams'[id] = mAwaitingStreams[id]
      BY <2>2, <3>3 DEF TypeOK
    <3>5. Accepted(i)'
      BY <1>1, <3>3 DEF Grows
    <3>6. ASSUME NEW id \in DOMAIN mAwaitingStreams \ {i}
          PROVE  EntryTells(id)'
      BY <1>1, <3>1, <3>4, EntriesStay
    <3> QED
      BY <2>2, <3>1, <3>4, <3>5, <3>6 DEF EntryInv, EntryTells
  <2> QED
    BY <1>6, <2>1, <2>2 DEF ReadyLooksAgain
<1>7. ASSUME NEW i \in Ids, ProcessClose(i) PROVE EntryInv'
  <2>1. CASE mAwaitingStreams' = mAwaitingStreams
    BY <1>3, <1>7, <2>1 DEF ProcessClose
  <2>2. CASE i \in DOMAIN mAwaitingStreams /\ mAwaitingStreams' = AfterReject(mAwaitingStreams, i)
    <3>1. /\ outcome' = outcome /\ peer' = peer /\ toHost # <<>>
          /\ Head(toHost).cmd = "CLSE" /\ Head(toHost).id = i
      BY <1>7 DEF ProcessClose, Takes, Arrives, device
    <3>2. peer'[i] = "closed"
      BY <3>1, Contents DEF WireInv, ToHostInv, HostHears, TypeOK
    <3>3. /\ DOMAIN mAwaitingStreams' = DOMAIN mAwaitingStreams
          /\ mAwaitingStreams'[i] = [remoteId |-> 0, rejected |-> TRUE]
          /\ \A id \in DOMAIN mAwaitingStreams \ {i} : mAwaitingStreams'[id] = mAwaitingStreams[id]
      BY <2>2 DEF AfterReject
    <3>4. ASSUME NEW id \in DOMAIN mAwaitingStreams \ {i}
          PROVE  EntryTells(id)'
      BY <1>1, <3>1, <3>3, EntriesStay
    <3> QED
      BY <2>2, <3>1, <3>2, <3>3, <3>4 DEF EntryInv, EntryTells
  <2> QED
    BY <1>7, <2>1, <2>2 DEF ProcessClose
<1>8. CASE \/ UNCHANGED vars
           \/ \E o \in Openers : OpenWaits(o) \/ SpuriousWake(o) \/ OpenWakes(o) \/ OpenEnters(o)
           \/ \E id \in Ids : \/ StreamEnds(id) \/ ProcessReady(id) \/ ProcessWrite(id)
                              \/ DeviceWrites(id) \/ DeviceCloses(id)
           \/ WriteAcknowledged \/ HandlerReturns \/ CloseMarks \/ CloseReturns \/ DeviceReads
  <2>1. UNCHANGED <<mAwaitingStreams, outcome>>
    BY <1>8, EndsKeep DEF OpenWaits, SpuriousWake, OpenWakes, OpenEnters, ProcessReady, ProcessWrite,
                          DeviceWrites, DeviceCloses, WriteAcknowledged, HandlerReturns, CloseMarks,
                          CloseReturns, DeviceReads, vars, table, threads
  <2> QED
    BY <1>3, <2>1
<1> QED
  BY <1>4, <1>5, <1>6, <1>7, <1>8 DEF Next, OpenStep, EventStep, StreamEnds

(* An id that was not given out has no outcome, and only a stream that was *)
(* returned has handles or is being closed.                                *)
LEMMA OutcomeStep == TypeOK /\ CallsInv /\ EntryInv /\ OutcomeInv /\ [Next]_vars => OutcomeInv'
<1> SUFFICES ASSUME TypeOK, CallsInv, EntryInv, OutcomeInv, [Next]_vars PROVE OutcomeInv'
  OBVIOUS
<1>1. ASSUME UNCHANGED <<outcome, mLastLocalId, handles, closer>> PROVE OutcomeInv'
  BY <1>1 DEF OutcomeInv
<1>2. ASSUME NEW o \in Openers, OpenSends(o) PROVE OutcomeInv'
  <2>1. /\ mLastLocalId \in Nat /\ mLastLocalId' = mLastLocalId + 1
        /\ UNCHANGED <<outcome, handles, closer>>
    BY <1>2, IdFacts DEF OpenSends, TypeOK, stream, closing
  <2> QED
    BY <2>1, IdFacts DEF OutcomeInv
<1>3. ASSUME NEW o \in Openers, OpenFinishes(o) PROVE OutcomeInv'
  <2> PICK id \in Ids : id = opening[o] /\ outcome[id] = "none"
    BY <1>3, CallFacts DEF OpenFinishes, EntryInv, EntryTells
  <2>1. /\ mLastLocalId' = mLastLocalId /\ closer' = closer /\ id <= mLastLocalId
        /\ handles[id] = {} /\ closer[id] = "none"
    BY <1>3 DEF OpenFinishes, CallsInv, OutcomeInv, closing
  <2>2. /\ \A i \in Ids \ {id} : outcome'[i] = outcome[i] /\ handles'[i] = handles[i]
        /\ handles'[id] = {} \/ outcome'[id] = "opened"
    BY <1>3, <2>1 DEF OpenFinishes, TypeOK
  <2> QED
    BY <2>1, <2>2 DEF OutcomeInv
<1>4. ASSUME NEW id \in Ids, StreamEnds(id) PROVE OutcomeInv'
  <2>1. outcome' = outcome /\ mLastLocalId' = mLastLocalId
    BY <1>4, EndsKeep DEF threads
  <2>2. /\ \A i \in Ids \ {id} : handles'[i] = handles[i] /\ closer'[i] = closer[i]
        /\ \/ outcome[id] = "opened"
           \/ handles'[id] = handles[id] /\ closer'[id] = closer[id]
    BY <1>4 DEF StreamEnds, CloseStep, CloseStream, CloseStreamMarks, CloseStreamErases,
                CloseStreamSends, OStreamClose, DropHandle, OutcomeInv, TypeOK, stream, closing
  <2> QED
    BY <2>1, <2>2 DEF OutcomeInv
<1>5. CASE \/ UNCHANGED vars
           \/ \E o \in Openers : OpenWaits(o) \/ SpuriousWake(o) \/ OpenWakes(o) \/ OpenEnters(o)
           \/ WriteAcknowledged \/ HandlerReturns \/ CloseMarks \/ CloseReturns \/ DeviceReads
  BY <1>1, <1>5 DEF OpenWaits, SpuriousWake, OpenWakes, OpenEnters, WriteAcknowledged, HandlerReturns,
                    CloseMarks, CloseReturns, DeviceReads, vars, table, threads, stream, closing
<1>6. ASSUME NEW id \in Ids, \/ ProcessReady(id) \/ ReadyLooksAgain(id) \/ ProcessWrite(id)
                             \/ ProcessClose(id) \/ DeviceWrites(id) \/ DeviceCloses(id)
      PROVE  OutcomeInv'
  BY <1>1, <1>6 DEF ProcessReady, ReadyLooksAgain, ProcessWrite, ProcessClose, DeviceWrites,
                    DeviceCloses, table, threads, stream, closing
<1> QED
  BY <1>2, <1>3, <1>4, <1>5, <1>6 DEF Next, OpenStep, EventStep, StreamEnds

(* A thread that was notified finds an answer, unless it woke up early.    *)
LEMMA WokenStep == TypeOK /\ CallsInv /\ WireInv /\ WokenInv /\ [Next]_vars => WokenInv'
<1> SUFFICES ASSUME TypeOK, CallsInv, WireInv, WokenInv, [Next]_vars PROVE WokenInv'
  OBVIOUS
<1>1. ASSUME UNCHANGED <<opener, opening, mAwaitingStreams, spurious>> PROVE WokenInv'
  BY <1>1 DEF WokenInv
<1>2. \A o \in Openers : opener[o] # "idle" => /\ opening[o] \in Ids
                                               /\ opening[o] \in DOMAIN mAwaitingStreams
  BY CallFacts
<1>3. ASSUME NEW o \in Openers, OpenSends(o) PROVE WokenInv'
  <2>1. mLastLocalId \in Nat /\ mLastLocalId' = mLastLocalId + 1
    BY <1>3, IdFacts DEF OpenSends, TypeOK
  <2>2. ASSUME NEW p \in Openers, opener'[p] = "notified"
        PROVE  /\ opener[p] = "notified" /\ opening'[p] = opening[p]
               /\ mAwaitingStreams'[opening[p]] = mAwaitingStreams[opening[p]]
    <3>1. p # o /\ opener[p] = "notified" /\ opening'[p] = opening[p]
      BY <1>3, <2>2 DEF OpenSends, TypeOK
    <3>2. opening[p] \in DOMAIN mAwaitingStreams /\ opening[p] # mLastLocalId'
      <4>1. opening[p] \in DOMAIN mAwaitingStreams /\ opening[p] \in Ids
        BY <1>2, <3>1
      <4>2. opening[p] \in Nat /\ opening[p] <= mLastLocalId
        BY <4>1, IdFacts DEF CallsInv
      <4> QED
        BY <2>1, <4>1, <4>2
    <3> QED
      BY <1>3, <3>1, <3>2 DEF OpenSends
  <2>3. spurious' = spurious
    BY <1>3 DEF OpenSends
  <2> QED
    BY <2>2, <2>3 DEF WokenInv
<1>4. ASSUME NEW o \in Openers, OpenWaits(o) \/ OpenWakes(o) \/ OpenEnters(o) PROVE WokenInv'
  BY <1>4 DEF OpenWaits, OpenWakes, OpenEnters, WokenInv, TypeOK, table
<1>5. ASSUME NEW o \in Openers, SpuriousWake(o) PROVE WokenInv'
  <2>1. /\ opening' = opening /\ mAwaitingStreams' = mAwaitingStreams
        /\ spurious' = spurious \cup {opening[o]}
        /\ \A p \in Openers \ {o} : opener'[p] = opener[p]
    BY <1>5 DEF SpuriousWake, TypeOK, table
  <2> QED
    BY <2>1 DEF WokenInv
<1>6. ASSUME NEW o \in Openers, OpenFinishes(o) PROVE WokenInv'
  <2>1. ASSUME NEW p \in Openers, opener'[p] = "notified"
        PROVE  /\ opener[p] = "notified" /\ opening'[p] = opening[p]
               /\ mAwaitingStreams'[opening[p]] = mAwaitingStreams[opening[p]]
    <3>1. p # o /\ opener[p] = "notified" /\ opening'[p] = opening[p]
      BY <1>6, <2>1 DEF OpenFinishes, TypeOK
    <3>2. opening[p] \in DOMAIN mAwaitingStreams /\ opening[p] # NoStream /\ opening[p] # opening[o]
      BY <1>2, <3>1, IdFacts DEF CallsInv, AwaitingMatches
    <3> QED
      BY <1>6, <3>1, <3>2 DEF OpenFinishes, Without, Restrict
  <2>2. spurious' = spurious
    BY <1>6 DEF OpenFinishes
  <2> QED
    BY <2>1, <2>2 DEF WokenInv
<1>7. ASSUME NEW i \in Ids, ReadyLooksAgain(i) \/ ProcessClose(i) PROVE WokenInv'
  <2>1. opening' = opening /\ spurious' = spurious
    BY <1>7 DEF ReadyLooksAgain, ProcessClose
  <2>2. CASE UNCHANGED <<mAwaitingStreams, opener>>
    BY <1>1, <2>1, <2>2
  <2>3. CASE i \in DOMAIN mAwaitingStreams /\ NotifyOpen(i) /\ ~UNCHANGED <<mAwaitingStreams, opener>>
    <3>1. mAwaitingStreams'[i].rejected \/ mAwaitingStreams'[i].remoteId # 0
      <4>1. CASE ProcessClose(i)
        BY <2>3, <4>1 DEF ProcessClose, AfterReject
      <4>2. CASE ReadyLooksAgain(i)
        <5>1. /\ mAwaitingStreams' = [mAwaitingStreams EXCEPT ![i].remoteId = Answered(Head(toHost))]
              /\ toHost # <<>> /\ Head(toHost).cmd = "OKAY" /\ Head(toHost).id = i
          BY <2>3, <4>2 DEF ReadyLooksAgain
        <5>2. HostHears(Head(toHost))
          BY <5>1, Contents DEF WireInv, ToHostInv, TypeOK
        <5>3. Answered(Head(toHost)) = RemoteOf(i) /\ RemoteOf(i) # 0
          BY <5>1, <5>2, IdFacts DEF HostHears, Answered
        <5> QED
          BY <2>3, <5>1, <5>3 DEF TypeOK
      <4> QED
        BY <1>7, <4>1, <4>2
    <3>2. \A id \in DOMAIN mAwaitingStreams \ {i} : mAwaitingStreams'[id] = mAwaitingStreams[id]
      BY <1>7, <2>3 DEF ReadyLooksAgain, ProcessClose, AfterReject
    <3>3. ASSUME NEW p \in Openers, opener'[p] = "notified", opening[p] # i
          PROVE  /\ opener[p] = "notified"
                 /\ mAwaitingStreams'[opening[p]] = mAwaitingStreams[opening[p]]
      <4>1. opener[p] = "notified"
        BY <2>3, <3>3 DEF NotifyOpen
      <4> QED
        BY <1>2, <3>2, <3>3, <4>1
    <3> QED
      BY <2>1, <3>1, <3>3 DEF WokenInv
  <2> QED
    BY <1>7, <2>2, <2>3 DEF ReadyLooksAgain, ProcessClose
<1>8. CASE \/ UNCHANGED vars
           \/ \E id \in Ids : \/ StreamEnds(id) \/ ProcessReady(id) \/ ProcessWrite(id)
                              \/ DeviceWrites(id) \/ DeviceCloses(id)
           \/ WriteAcknowledged \/ HandlerReturns \/ CloseMarks \/ CloseReturns \/ DeviceReads
  <2>1. UNCHANGED <<opener, opening, mAwaitingStreams, spurious>>
    BY <1>8, EndsKeep DEF ProcessReady, ProcessWrite, DeviceWrites, DeviceCloses, WriteAcknowledged,
                          HandlerReturns, CloseMarks, CloseReturns, DeviceReads, vars, table, threads
  <2> QED
    BY <1>1, <2>1
<1> QED
  BY <1>3, <1>4, <1>5, <1>6, <1>7, <1>8 DEF Next, OpenStep, EventStep, StreamEnds

(* The mutex is free when a thread takes it, and one thread has it.        *)
LEMMA MutexStep == TypeOK /\ MutexInv /\ [Next]_vars => MutexInv'
<1> SUFFICES ASSUME TypeOK, MutexInv, [Next]_vars PROVE MutexInv'
  OBVIOUS
<1>1. ASSUME UNCHANGED <<mStreamsMutex, opener, event>> PROVE MutexInv'
  BY <1>1 DEF MutexInv
<1>2. ASSUME NEW o \in Openers, OpenSends(o) \/ OpenWakes(o) PROVE MutexInv'
  BY <1>2, OpenAssumption
     DEF OpenAssumption, OpenSends, OpenWakes, MutexInv, TypeOK, eventVars, Nobody, EventThread
<1>3. ASSUME NEW o \in Openers, OpenWaits(o) \/ OpenFinishes(o) PROVE MutexInv'
  <2>1. /\ mStreamsMutex = o /\ o # EventThread /\ event' = event
        /\ opener'[o] \in {"waiting", "idle"} /\ \A p \in Openers \ {o} : opener'[p] = opener[p]
    BY <1>3, OpenAssumption
       DEF OpenAssumption, OpenWaits, OpenFinishes, MutexInv, TypeOK, eventVars, EventThread
  <2> QED
    BY <2>1 DEF MutexInv
<1>4. ASSUME NEW o \in Openers, OpenEnters(o) \/ SpuriousWake(o) PROVE MutexInv'
  BY <1>4 DEF OpenEnters, SpuriousWake, MutexInv, TypeOK, eventVars
<1>5. ASSUME NEW id \in Ids, ProcessReady(id) \/ ReadyLooksAgain(id) \/ ProcessWrite(id)
      PROVE  MutexInv'
  BY <1>5 DEF ProcessReady, ReadyLooksAgain, ProcessWrite, NotifyOpen, MutexInv, TypeOK, Places,
              threads, eventVars, Arrives, Takes
<1>6. ASSUME NEW id \in Ids, ProcessClose(id) PROVE MutexInv'
  BY <1>6, OpenAssumption, ZenonT(30)
     DEF OpenAssumption, ProcessClose, NotifyOpen, MutexInv, TypeOK, eventVars, Takes, Arrives,
         Nobody, EventThread
<1>7. CASE WriteAcknowledged \/ HandlerReturns \/ CloseMarks \/ DeviceReads \/ UNCHANGED vars
  BY <1>7 DEF WriteAcknowledged, HandlerReturns, CloseMarks, DeviceReads, MutexInv, vars, threads, eventVars
<1>8. CASE CloseReturns
  BY <1>8, OpenAssumption
     DEF OpenAssumption, CloseReturns, MutexInv, threads, Nobody, EventThread
<1>9. ASSUME NEW id \in Ids, StreamEnds(id) \/ DeviceWrites(id) \/ DeviceCloses(id) PROVE MutexInv'
  BY <1>1, <1>9, EndsKeep DEF DeviceWrites, DeviceCloses, threads, eventVars
<1> QED
  BY <1>2, <1>3, <1>4, <1>5, <1>6, <1>7, <1>8, <1>9 DEF Next, OpenStep, EventStep, StreamEnds

(* What a call has seen stays so until it returns: nobody closes a stream  *)
(* that was not returned, and a rejected entry stays rejected.             *)
LEMMA GrantedStep ==
    /\ TypeOK /\ CallsInv /\ EventInv /\ WireInv /\ EntryInv /\ OutcomeInv
    /\ WokenInv /\ MutexInv /\ GrantedInv /\ [Next]_vars
    => GrantedInv'
<1> SUFFICES ASSUME TypeOK, CallsInv, EventInv, WireInv, EntryInv, OutcomeInv, WokenInv, MutexInv,
                    GrantedInv, [Next]_vars
             PROVE  GrantedInv'
  OBVIOUS
<1>1. Grows
  BY DeviceStep
<1>2. \A o \in Openers : opener[o] # "idle" => /\ opening[o] \in Ids
                                               /\ opening[o] \in DOMAIN mAwaitingStreams
                                               /\ EntryTells(opening[o])
  BY CallFacts DEF EntryInv
<1>3. spurious \subseteq spurious'
  BY EndsKeep DEF Next, OpenStep, OpenSends, OpenWaits, OpenWakes, OpenEnters, OpenFinishes, SpuriousWake,
         StreamEnds, EventStep, ProcessReady, ReadyLooksAgain, ProcessWrite, ProcessClose,
         WriteAcknowledged, HandlerReturns, CloseMarks, CloseReturns, DeviceReads, DeviceWrites,
         DeviceCloses, vars
<1>4. ASSUME NEW o \in Openers, opener'[o] = opener[o], opening'[o] = opening[o],
             opener[o] = "refused" => mAwaitingStreams'[opening[o]].rejected,
             HasStream(o) => /\ open'[opening[o]] = open[opening[o]]
                             /\ remoteId'[opening[o]] = remoteId[opening[o]]
      PROVE  Seen(o)'
  <2>1. ASSUME HasStream(o)' PROVE HasStream(o) /\ opening[o] \in Ids /\ Granted(opening[o]) /\ open[opening[o]]
    BY <1>2, <1>4, <2>1 DEF HasStream, GrantedInv, Seen
  <2>2. ASSUME HasStream(o)' PROVE Granted(opening[o])'
    BY <1>1, <1>3, <1>4, <2>1, <2>2 DEF Granted, Grows
  <2> QED
    BY <1>4, <2>1, <2>2 DEF Seen
<1>5. ASSUME UNCHANGED <<opener, opening, mAwaitingStreams, open, remoteId>> PROVE GrantedInv'
  BY <1>4, <1>5 DEF GrantedInv, Seen
<1>6. ASSUME NEW o \in Openers, OpenSends(o) PROVE GrantedInv'
  <2>1. /\ mLastLocalId \in Nat /\ mLastLocalId' = mLastLocalId + 1
        /\ opener'[o] = "sent" /\ UNCHANGED <<open, remoteId>>
    BY <1>6, IdFacts DEF OpenSends, TypeOK, stream
  <2>2. ASSUME NEW p \in Openers \ {o}
        PROVE  /\ opener'[p] = opener[p] /\ opening'[p] = opening[p]
               /\ opener[p] # "idle" => mAwaitingStreams'[opening[p]] = mAwaitingStreams[opening[p]]
    <3>1. opener'[p] = opener[p] /\ opening'[p] = opening[p]
      BY <1>6 DEF OpenSends, TypeOK
    <3>2. ASSUME opener[p] # "idle" PROVE mAwaitingStreams'[opening[p]] = mAwaitingStreams[opening[p]]
      <4>1. opening[p] \in DOMAIN mAwaitingStreams /\ opening[p] \in Nat /\ opening[p] <= mLastLocalId
        BY <1>2, <3>2, IdFacts DEF CallsInv
      <4> QED
        BY <1>6, <2>1, <4>1 DEF OpenSends
    <3> QED
      BY <3>1, <3>2
  <2>3. ASSUME NEW p \in Openers
        PROVE  Seen(p)'
    <3>1. CASE p = o
      BY <2>1, <3>1 DEF HasStream, Seen
    <3>2. CASE p # o
      <4>1. opener[p] = "refused" => mAwaitingStreams'[opening[p]].rejected
        BY <2>2, <3>2 DEF GrantedInv, Seen
      <4> QED
        BY <1>4, <2>1, <2>2, <3>2, <4>1
    <3> QED
      BY <3>1, <3>2
  <2> QED
    BY <2>3 DEF GrantedInv
<1>7. ASSUME NEW o \in Openers, OpenWaits(o) \/ SpuriousWake(o) \/ OpenEnters(o) PROVE GrantedInv'
  <2>1. /\ UNCHANGED <<opening, mAwaitingStreams, open, remoteId>>
        /\ opener'[o] # "refused" /\ (HasStream(o)' => HasStream(o))
        /\ \A p \in Openers \ {o} : opener'[p] = opener[p]
    BY <1>7 DEF OpenWaits, SpuriousWake, OpenEnters, HasStream, TypeOK, table, stream
  <2>2. ASSUME NEW p \in Openers \ {o} PROVE Seen(p)'
    BY <1>4, <2>1, <2>2 DEF GrantedInv, Seen
  <2>3. ASSUME HasStream(o)' PROVE open'[opening[o]] /\ Granted(opening[o])'
    <3>1. HasStream(o) /\ opening[o] \in Ids /\ Granted(opening[o]) /\ open[opening[o]]
      BY <1>2, <2>1, <2>3 DEF HasStream, GrantedInv, Seen
    <3> QED
      BY <1>1, <1>3, <2>1, <3>1 DEF Granted, Grows
  <2>4. Seen(o)'
    BY <2>1, <2>3 DEF Seen
  <2> QED
    BY <2>2, <2>4 DEF GrantedInv
<1>8. ASSUME NEW o \in Openers, OpenWakes(o) PROVE GrantedInv'
  <2> PICK id \in Ids : id = opening[o] /\ id \in DOMAIN mAwaitingStreams /\ EntryTells(id)
    BY <1>2, <1>8 DEF OpenWakes
  <2>1. /\ UNCHANGED <<opening, mAwaitingStreams, spurious, device>>
        /\ \A p \in Openers \ {o} : opener'[p] = opener[p]
        /\ \A i \in Ids \ {id} : open'[i] = open[i] /\ remoteId'[i] = remoteId[i]
    BY <1>8 DEF OpenWakes, TypeOK, table, stream
  <2>2. ASSUME NEW p \in Openers \ {o}
        PROVE  Seen(p)'
    <3>1. opener[p] # "idle" => opening[p] \in Ids \ {id}
      BY <1>2, <1>8 DEF OpenWakes, CallsInv, AwaitingMatches, NoStream
    <3> QED
      BY <1>4, <2>1, <3>1 DEF GrantedInv, Seen, HasStream
  <2>3. CASE mAwaitingStreams[id].rejected /\ opener' = [opener EXCEPT ![o] = "refused"]
    <3>1. opener'[o] = "refused" /\ mAwaitingStreams'[opening'[o]].rejected
      BY <2>1, <2>3 DEF TypeOK
    <3> QED
      BY <2>2, <3>1 DEF GrantedInv, Seen, HasStream
  <2>4. CASE /\ ~mAwaitingStreams[id].rejected
             /\ opener' = [opener EXCEPT ![o] = "created"]
             /\ remoteId' = [remoteId EXCEPT ![id] = mAwaitingStreams[id].remoteId]
             /\ open' = [open EXCEPT ![id] = TRUE]
    <3>1. opener'[o] = "created" /\ open'[id] /\ remoteId'[id] = mAwaitingStreams[id].remoteId
      BY <2>4 DEF TypeOK
    <3>2. mAwaitingStreams[id].remoteId = 0 => id \in spurious
      BY <1>8, <2>4 DEF OpenWakes, WokenInv
    <3>3. Granted(id)'
      BY <1>1, <1>3, <3>1, <3>2 DEF EntryTells, Granted, Grows
    <3> QED
      BY <2>1, <2>2, <3>1, <3>3 DEF GrantedInv, Seen
  <2> QED
    BY <1>8, <2>3, <2>4 DEF OpenWakes
<1>9. ASSUME NEW o \in Openers, OpenFinishes(o) PROVE GrantedInv'
  <2>1. /\ opener'[o] = "idle" /\ UNCHANGED <<open, remoteId>>
        /\ \A p \in Openers \ {o} : opener'[p] = opener[p] /\ opening'[p] = opening[p]
    BY <1>9 DEF OpenFinishes, TypeOK
  <2>2. ASSUME NEW p \in Openers \ {o}, opener[p] # "idle"
        PROVE  mAwaitingStreams'[opening[p]] = mAwaitingStreams[opening[p]]
    <3>1. opening[p] \in DOMAIN mAwaitingStreams /\ opening[p] # opening[o]
      BY <1>2, <1>9, <2>2, IdFacts DEF OpenFinishes, CallsInv, AwaitingMatches
    <3> QED
      BY <1>9, <3>1 DEF OpenFinishes, Without, Restrict
  <2>3. ASSUME NEW p \in Openers \ {o}
        PROVE  Seen(p)'
    <3>1. opener[p] = "refused" => mAwaitingStreams'[opening[p]].rejected
      BY <2>2 DEF GrantedInv, Seen
    <3> QED
      BY <1>4, <2>1, <3>1
  <2> QED
    BY <2>1, <2>3 DEF GrantedInv, Seen, HasStream
<1>10. ASSUME NEW i \in Ids, ReadyLooksAgain(i) \/ ProcessClose(i) PROVE GrantedInv'
  <2>1. UNCHANGED <<opening, open, remoteId>>
    BY <1>10 DEF ReadyLooksAgain, ProcessClose, stream
  <2>2. \A p \in Openers : \/ opener'[p] = opener[p]
                            \/ (opener'[p] = "notified" /\ opener[p] = "waiting")
    BY <1>10 DEF ReadyLooksAgain, ProcessClose, NotifyOpen
  <2>3. ASSUME NEW id \in DOMAIN mAwaitingStreams, mAwaitingStreams[id].rejected
        PROVE  mAwaitingStreams'[id].rejected
    <3>1. CASE mAwaitingStreams' = mAwaitingStreams
      BY <2>3, <3>1
    <3>2. CASE mAwaitingStreams' = AfterReject(mAwaitingStreams, i)
      BY <2>3, <3>2 DEF AfterReject
    <3>3. CASE mAwaitingStreams' = [mAwaitingStreams EXCEPT ![i].remoteId = Answered(Head(toHost))]
      BY <2>3, <3>3 DEF TypeOK
    <3> QED
      BY <1>10, <3>1, <3>2, <3>3 DEF ReadyLooksAgain, ProcessClose
  <2>4. ASSUME NEW p \in Openers
        PROVE  Seen(p)'
    <3>1. CASE opener'[p] = opener[p]
      <4>1. opener[p] = "refused" => mAwaitingStreams'[opening[p]].rejected
        BY <1>2, <2>3 DEF GrantedInv, Seen
      <4> QED
        BY <1>4, <2>1, <3>1, <4>1
    <3>2. CASE opener'[p] = "notified"
      BY <3>2 DEF HasStream, Seen
    <3> QED
      BY <2>2, <3>1, <3>2
  <2> QED
    BY <2>4 DEF GrantedInv
<1>11. CASE CloseMarks
  <2>1. /\ UNCHANGED <<opener, opening, mAwaitingStreams, remoteId>>
        /\ \A o \in Openers : ~HasStream(o)
    BY <1>11, OpenAssumption
       DEF OpenAssumption, CloseMarks, MutexInv, HasStream, table, threads, EventThread
  <2> QED
    BY <1>4, <2>1 DEF GrantedInv, Seen, HasStream
<1>12. ASSUME NEW id \in Ids, StreamEnds(id) PROVE GrantedInv'
  <2>1. UNCHANGED <<opener, opening, mAwaitingStreams, remoteId>>
    BY <1>12, EndsKeep DEF threads
  <2>2. /\ \A i \in Ids \ {id} : open'[i] = open[i]
        /\ open'[id] = open[id] \/ outcome[id] = "opened"
    BY <1>12 DEF StreamEnds, CloseStep, CloseStream, CloseStreamMarks, CloseStreamErases,
                 CloseStreamSends, OStreamClose, DropHandle, OutcomeInv, TypeOK, stream
  <2>3. ASSUME NEW o \in Openers, HasStream(o) PROVE open'[opening[o]] = open[opening[o]]
    BY <1>2, <2>2, <2>3 DEF HasStream, EntryTells
  <2> QED
    BY <1>4, <2>1, <2>3 DEF GrantedInv, Seen
<1>13. CASE \/ UNCHANGED vars \/ WriteAcknowledged \/ HandlerReturns \/ CloseReturns \/ DeviceReads
            \/ \E id \in Ids : \/ ProcessReady(id) \/ ProcessWrite(id)
                               \/ DeviceWrites(id) \/ DeviceCloses(id)
  BY <1>5, <1>13 DEF ProcessReady, ProcessWrite, DeviceWrites, DeviceCloses, WriteAcknowledged,
                     HandlerReturns, CloseReturns, DeviceReads, vars, table, threads, stream
<1> QED
  BY <1>6, <1>7, <1>8, <1>9, <1>10, <1>11, <1>12, <1>13 DEF Next, OpenStep, EventStep, StreamEnds
-----------------------------------------------------------------------------
(* A stream lives as StreamLife says.                                      *)
OpenInv == /\ TypeOK /\ CallsInv /\ EventInv /\ WireInv
           /\ EntryInv /\ OutcomeInv /\ WokenInv /\ MutexInv /\ GrantedInv

(* At first nothing is on its way, and nobody waits.                       *)
LEMMA InitOpen == Init => OpenInv
<1> SUFFICES ASSUME Init PROVE OpenInv
  OBVIOUS
<1>1. DOMAIN toHost = {} /\ DOMAIN toDevice = {} /\ DOMAIN mAwaitingStreams = {}
  BY DEF Init
<1>2. ToHostInv /\ ToDeviceInv /\ OpensOnce
  BY <1>1 DEF ToHostInv, ToDeviceInv, OpensOnce, Range
<1>3. PeerInv /\ HandlerInv
  BY DEF Init, PeerInv, HandlerInv, Accepted
<1>4. EntryInv /\ OutcomeInv /\ WokenInv /\ MutexInv /\ GrantedInv
  BY <1>1 DEF Init, EntryInv, OutcomeInv, WokenInv, MutexInv, GrantedInv, Seen, HasStream
<1> QED
  BY <1>2, <1>3, <1>4, InitCalls DEF OpenInv, WireInv

(* The invariant is inductive.                                             *)
LEMMA OpenStepKeeps == OpenInv /\ [Next]_vars => OpenInv'
  BY TypeStep, CallsStep, EventStepKeeps, WireStep, EntryStep, OutcomeStep, WokenStep, MutexStep,
     GrantedStep DEF OpenInv

(* The streams at first.                                                   *)
LEMMA LifeInit == Init => Life!Init
<1> SUFFICES ASSUME Init PROVE Life!Init
  OBVIOUS
<1> QED
  BY DEF Init, Life!Init

(* What StreamLife sees of AdbOpen.                                        *)
AnswerTo(id) ==
    CASE peer[id] = "none"                     -> "none"
      [] peer[id] = "open"                     -> "accepted"
      [] peer[id] = "closed" /\ Accepted(id)  -> "ended"
      [] peer[id] = "closed" /\ ~Accepted(id) -> "refused"
answers == [id \in Ids |-> AnswerTo(id)]
returned == [id \in Ids |-> IF outcome[id] = "opened" THEN remoteId[id] ELSE 0]
shutStreams == {id \in Ids : outcome[id] = "opened" /\ ~open[id]}

(* The device's answer, by its side of the stream.                         *)
LEMMA AnswerCases ==
    ASSUME TypeOK, NEW id \in Ids
    PROVE  /\ peer[id] = "none" => answers[id] = "none"
           /\ peer[id] = "open" => answers[id] = "accepted"
           /\ peer[id] = "closed" /\ Accepted(id) => answers[id] = "ended"
           /\ peer[id] = "closed" /\ ~Accepted(id) => answers[id] = "refused"
  BY DEF TypeOK, answers, AnswerTo

(* A closed stream was refused or has ended, an accepted one cannot be     *)
(* refused any more.                                                       *)
LEMMA AnswerFacts ==
    ASSUME TypeOK, PeerInv, NEW id \in Ids
    PROVE  /\ peer[id] = "closed" => answers[id] \in {"refused", "ended"}
           /\ Accepted(id) => answers[id] \in {"accepted", "ended"}
<1>1. peer[id] \in {"none", "open", "closed"}
  BY DEF TypeOK
<1> QED
  BY <1>1, AnswerCases DEF PeerInv

(* A step that the device has no part in.                                  *)
LEMMA AnswersStay == ASSUME UNCHANGED device PROVE answers' = answers
  BY DEF device, answers, AnswerTo, Accepted

(* A step of the device on one stream.                                     *)
LEMMA AnswerChanges ==
    ASSUME TypeOK, NEW id \in Ids, NEW a, answers'[id] = a,
           \A i \in Ids \ {id} : peer'[i] = peer[i] /\ (Accepted(i)' <=> Accepted(i))
    PROVE  answers' = [answers EXCEPT ![id] = a]
<1>1. ASSUME NEW i \in Ids \ {id} PROVE answers'[i] = answers[i]
  <2>1. peer'[i] = peer[i] /\ (Accepted(i)' <=> Accepted(i))
    OBVIOUS
  <2>2. CASE peer[i] \in {"none", "open"}
    BY <2>1, <2>2 DEF answers, AnswerTo
  <2>3. CASE peer[i] = "closed" /\ Accepted(i)
    BY <2>1, <2>3 DEF answers, AnswerTo
  <2>4. CASE peer[i] = "closed" /\ ~Accepted(i)
    BY <2>1, <2>4 DEF answers, AnswerTo
  <2> QED
    BY <2>2, <2>3, <2>4 DEF TypeOK
<1>2. /\ DOMAIN answers = Ids /\ answers = [i \in Ids |-> answers[i]]
      /\ DOMAIN answers' = Ids /\ answers' = [i \in Ids |-> answers'[i]]
  BY DEF answers
<1> QED
  BY <1>1, <1>2

(* The steps of StreamLife: open() says refused, ...                       *)
LEMMA LifeRefuse ==
    ASSUME NEW id \in Ids, outcome[id] = "none", answers[id] \in {"refused", "ended"},
           outcome' = [outcome EXCEPT ![id] = "refused"],
           UNCHANGED <<answers, returned, spurious, shutStreams, left>>
    PROVE  Life!Next
  BY DEF Life!Next, Life!Refuse, answers, AnswerTo, returned, shutStreams

(* ... returns the stream, with the id of its other side or early, ...     *)
LEMMA LifeReturn ==
    ASSUME NEW id \in Ids, outcome[id] = "none", outcome' = [outcome EXCEPT ![id] = "opened"],
           \/ /\ answers[id] \in {"accepted", "ended"}
              /\ returned' = [returned EXCEPT ![id] = RemoteOf(id)]
           \/ id \in spurious /\ UNCHANGED returned,
           UNCHANGED <<answers, spurious, shutStreams, left>>
    PROVE  Life!Next
  BY DEF Life!Next, Life!Return, answers, AnswerTo, returned, shutStreams

(* ... a stream the application has is closed, by itself or by the event   *)
(* thread, ...                                                             *)
LEMMA LifeShut ==
    ASSUME NEW id \in Ids, outcome[id] = "opened",
           \/ answers[id] \in {"refused", "ended"} /\ UNCHANGED left
           \/ left' = left \cup {id},
           shutStreams' = shutStreams \cup {id}, UNCHANGED <<answers, outcome, returned, spurious>>
    PROVE  Life!Next
  BY DEF Life!Next, Life!Shut, answers, AnswerTo, returned, shutStreams

(* ... a thread wakes up for no reason, ...                                *)
LEMMA LifeWake ==
    ASSUME NEW id \in Ids, outcome[id] = "none", spurious' = spurious \cup {id},
           UNCHANGED <<answers, outcome, returned, shutStreams, left>>
    PROVE  Life!Next
  BY DEF Life!Next, Life!WakeEarly, answers, AnswerTo, returned, shutStreams

(* ... the device answers or closes, ...                                   *)
LEMMA LifeAnswer ==
    ASSUME NEW id \in Ids,
           \/ /\ answers[id] = "none"
              /\ \E a \in {"accepted", "refused"} : answers' = [answers EXCEPT ![id] = a]
           \/ answers[id] = "accepted" /\ answers' = [answers EXCEPT ![id] = "ended"],
           UNCHANGED <<outcome, returned, spurious, shutStreams, left>>
    PROVE  Life!Next
  BY DEF Life!Next, Life!Answer, answers, AnswerTo, returned, shutStreams

(* ... or nothing is seen.                                                 *)
LEMMA LifeStutter ==
    ASSUME UNCHANGED <<answers, outcome, returned, spurious, shutStreams, left>>
    PROVE  UNCHANGED Life!vars
  BY DEF Life!vars, answers, AnswerTo, returned, shutStreams

(* A stream that was returned is closed, and the others are left alone.    *)
LEMMA ShutOne ==
    ASSUME TypeOK, NEW id \in Ids, open' = [open EXCEPT ![id] = FALSE],
           UNCHANGED <<outcome, remoteId>>
    PROVE  /\ returned' = returned
           /\ outcome[id] = "opened" => shutStreams' = shutStreams \cup {id}
           /\ outcome[id] # "opened" => shutStreams' = shutStreams
  BY DEF returned, shutStreams, TypeOK

(* A call of open() returns what it has seen.                              *)
LEMMA LifeFinishes ==
    ASSUME OpenInv, NEW o \in Openers, OpenFinishes(o)
    PROVE  Life!Next
<1> USE DEF OpenInv, WireInv
<1> PICK id \in Ids : id = opening[o]
  BY CallFacts DEF OpenFinishes
<1>1. EntryTells(id) /\ outcome[id] = "none"
  BY CallFacts DEF OpenFinishes, EntryInv, EntryTells
<1>2. /\ answers' = answers /\ spurious' = spurious /\ left' = left
      /\ remoteId' = remoteId /\ open' = open
  BY AnswersStay DEF OpenFinishes, closing
<1>3. CASE opener[o] = "refused" /\ outcome' = [outcome EXCEPT ![id] = "refused"]
  <2>1. answers[id] \in {"refused", "ended"}
    BY <1>1, <1>3, AnswerFacts DEF GrantedInv, Seen, EntryTells
  <2>2. shutStreams' = shutStreams /\ returned' = returned
    BY <1>1, <1>2, <1>3 DEF shutStreams, returned, TypeOK
  <2> QED
    BY <1>1, <1>2, <1>3, <2>1, <2>2, LifeRefuse
<1>4. CASE opener[o] = "entered" /\ outcome' = [outcome EXCEPT ![id] = "opened"]
  <2>1. open[id] /\ Granted(id)
    BY <1>4 DEF GrantedInv, Seen, HasStream
  <2>2. shutStreams' = shutStreams
    BY <1>1, <1>2, <1>4, <2>1 DEF shutStreams, TypeOK
  <2>3. returned[id] = 0 /\ returned' = [returned EXCEPT ![id] = remoteId[id]]
    BY <1>1, <1>2, <1>4 DEF returned, TypeOK
  <2>4. CASE remoteId[id] = RemoteOf(id) /\ Accepted(id)
    <3>1. answers[id] \in {"accepted", "ended"}
      BY <2>4, AnswerFacts
    <3> QED
      BY <1>1, <1>2, <1>4, <2>2, <2>3, <2>4, <3>1, LifeReturn
  <2>5. CASE remoteId[id] = 0 /\ id \in spurious
    <3>1. returned' = returned
      BY <2>3, <2>5 DEF returned
    <3> QED
      BY <1>1, <1>2, <1>4, <2>2, <2>5, <3>1, LifeReturn
  <2> QED
    BY <2>1, <2>4, <2>5 DEF Granted
<1> QED
  BY <1>3, <1>4 DEF OpenFinishes

(* The device reads a packet.                                              *)
LEMMA LifeReads == OpenInv /\ DeviceReads => Life!Next \/ UNCHANGED Life!vars
<1> SUFFICES ASSUME OpenInv, DeviceReads PROVE Life!Next \/ UNCHANGED Life!vars
  OBVIOUS
<1> USE DEF OpenInv, WireInv
<1>1. toDevice # <<>> /\ Head(toDevice) \in ToDevice /\ DeviceHears(Head(toDevice))
  BY Contents DEF DeviceReads, TypeOK, ToDeviceInv, ToDevice
<1>2. PICK id \in Ids : id = Head(toDevice).id
  BY <1>1 DEF ToDevice, Packets
<1>3. /\ UNCHANGED <<outcome, returned, spurious, shutStreams, left>>
      /\ peerWrites' = peerWrites
  BY DEF DeviceReads, threads, stream, closing, returned, shutStreams
<1>4. CASE Head(toDevice).cmd = "OPEN"
  <2>1. peer[id] = "none" /\ ~Accepted(id) /\ answers[id] = "none"
    BY <1>1, <1>2, <1>4, AnswerCases DEF DeviceHears, PeerInv
  <2>2. \A i \in Ids \ {id} : peer'[i] = peer[i] /\ peerReady'[i] = peerReady[i]
    BY <1>2, <1>4 DEF DeviceReads, TypeOK
  <2>3. \/ peer'[id] = "open"
        \/ peer'[id] = "closed" /\ peerReady'[id] = peerReady[id]
    BY <1>2, <1>4 DEF DeviceReads, TypeOK
  <2>4. \A i \in Ids \ {id} : peer'[i] = peer[i] /\ (Accepted(i)' <=> Accepted(i))
    BY <1>3, <2>2 DEF Accepted
  <2>5. \E a \in {"accepted", "refused"} : answers' = [answers EXCEPT ![id] = a]
    <3>1. CASE peer'[id] = "open"
      <4>1. answers'[id] = "accepted"
        BY <3>1 DEF answers, AnswerTo
      <4> QED
        BY <2>4, <4>1, AnswerChanges
    <3>2. CASE peer'[id] = "closed" /\ peerReady'[id] = peerReady[id]
      <4>1. ~Accepted(id)'
        BY <1>3, <2>1, <3>2 DEF Accepted
      <4>2. answers'[id] = "refused"
        BY <3>2, <4>1 DEF answers, AnswerTo
      <4> QED
        BY <2>4, <4>2, AnswerChanges
    <3> QED
      BY <2>3, <3>1, <3>2
  <2> QED
    BY <1>3, <2>1, <2>5, LifeAnswer
<1>5. CASE Head(toDevice).cmd = "OKAY"
  <2>1. peerWrites[id] > 0 /\ peer' = peer
    BY <1>1, <1>2, <1>5 DEF DeviceReads, DeviceHears
  <2>2. \A i \in Ids \ {id} : peerReady'[i] = peerReady[i]
    BY <1>2, <1>5 DEF DeviceReads, TypeOK
  <2>3. \A i \in Ids : Accepted(i)' <=> Accepted(i)
    BY <1>3, <2>1, <2>2 DEF Accepted
  <2>4. answers' = answers
    BY <2>1, <2>3 DEF answers, AnswerTo
  <2> QED
    BY <1>3, <2>4, LifeStutter
<1>6. CASE Head(toDevice).cmd = "CLSE"
  <2>1. peerReady' = peerReady
    BY <1>6 DEF DeviceReads
  <2>2. \A i \in Ids : Accepted(i)' <=> Accepted(i)
    BY <1>3, <2>1 DEF Accepted
  <2>3. CASE peer' = peer
    <3>1. answers' = answers
      BY <2>2, <2>3 DEF answers, AnswerTo
    <3> QED
      BY <1>3, <3>1, LifeStutter
  <2>4. CASE peer[id] = "open" /\ peer' = [peer EXCEPT ![id] = "closed"]
    <3>1. answers[id] = "accepted" /\ Accepted(id)
      BY <2>4, AnswerCases DEF PeerInv
    <3>2. peer'[id] = "closed" /\ \A i \in Ids \ {id} : peer'[i] = peer[i]
      BY <2>4 DEF TypeOK
    <3>3. answers'[id] = "ended"
      BY <2>2, <3>1, <3>2 DEF answers, AnswerTo
    <3>4. answers' = [answers EXCEPT ![id] = "ended"]
      BY <2>2, <3>2, <3>3, AnswerChanges
    <3> QED
      BY <1>3, <3>1, <3>4, LifeAnswer
  <2> QED
    BY <1>2, <1>6, <2>3, <2>4 DEF DeviceReads
<1> QED
  BY <1>1, <1>4, <1>5, <1>6 DEF ToDevice, Packets

(* The end of a stream: the application closes it, or nothing is seen.     *)
LEMMA LifeEnds ==
    ASSUME OpenInv, NEW id \in Ids, StreamEnds(id)
    PROVE  Life!Next \/ UNCHANGED Life!vars
<1> USE DEF OpenInv
<1>1. UNCHANGED <<answers, outcome, remoteId, spurious>>
  BY EndsKeep, AnswersStay DEF threads
<1>2. CASE OStreamClose(id) \/ CloseStreamMarks(id)
  <2>1. open' = [open EXCEPT ![id] = FALSE] /\ left' = left \cup {id}
    BY <1>2 DEF OStreamClose, CloseStreamMarks
  <2>2. outcome[id] = "opened"
    BY <1>2 DEF OStreamClose, CloseStreamMarks, OutcomeInv
  <2> QED
    BY <1>1, <2>1, <2>2, ShutOne, LifeShut
<1>3. CASE open' = open /\ left' = left
  <2>1. returned' = returned /\ shutStreams' = shutStreams
    BY <1>1, <1>3 DEF returned, shutStreams
  <2> QED
    BY <1>1, <1>3, <2>1, LifeStutter
<1> QED
  BY <1>2, <1>3 DEF StreamEnds, CloseStep, CloseStream, CloseStreamErases, CloseStreamSends,
                    DropHandle, stream, closing

(* Each step of AdbOpen is a step of the life of one stream, or shows      *)
(* nothing of it.                                                          *)
LEMMA LifeStep == OpenInv /\ OpenInv' /\ [Next]_vars => [Life!Next]_(Life!vars)
<1> SUFFICES ASSUME OpenInv, OpenInv', [Next]_vars PROVE Life!Next \/ UNCHANGED Life!vars
  OBVIOUS
<1> USE DEF OpenInv, WireInv
<1>1. ASSUME UNCHANGED <<device, outcome, remoteId, open, spurious, left>> PROVE UNCHANGED Life!vars
  BY <1>1, AnswersStay, LifeStutter DEF shutStreams, returned
<1>2. ASSUME NEW o \in Openers, SpuriousWake(o) PROVE Life!Next
  <2>1. PICK id \in Ids : id = opening[o] /\ EntryTells(id)
    BY <1>2, CallFacts DEF SpuriousWake, EntryInv
  <2>2. /\ outcome[id] = "none" /\ spurious' = spurious \cup {id} /\ answers' = answers
        /\ UNCHANGED <<outcome, returned, shutStreams, left>>
    BY <1>2, <2>1, AnswersStay DEF SpuriousWake, EntryTells, stream, closing, returned, shutStreams
  <2> QED
    BY <2>2, LifeWake
<1>3. ASSUME NEW o \in Openers, OpenWakes(o) PROVE UNCHANGED Life!vars
  <2>1. PICK id \in Ids : id = opening[o] /\ outcome[id] = "none"
    BY <1>3, CallFacts DEF OpenWakes, EntryInv, EntryTells
  <2>2. /\ UNCHANGED <<answers, outcome, spurious, left>>
        /\ \A i \in Ids \ {id} : open'[i] = open[i] /\ remoteId'[i] = remoteId[i]
    BY <1>3, <2>1, AnswersStay DEF OpenWakes, closing, stream, TypeOK
  <2>3. returned' = returned /\ shutStreams' = shutStreams
    BY <2>1, <2>2 DEF returned, shutStreams
  <2> QED
    BY <2>2, <2>3, LifeStutter
<1>4. CASE CloseMarks
  <2>1. PICK id \in Ids : id = eventRef /\ peer[id] = "closed"
    BY <1>4 DEF CloseMarks, EventInv, HandlerInv
  <2>2. /\ open' = [open EXCEPT ![id] = FALSE]
        /\ UNCHANGED <<answers, outcome, remoteId, spurious, left>>
    BY <1>4, <2>1, AnswersStay DEF CloseMarks, threads, closing
  <2>3. answers[id] \in {"refused", "ended"}
    BY <2>1, AnswerFacts
  <2> QED
    BY <2>2, <2>3, ShutOne, LifeShut, LifeStutter
<1>5. ASSUME NEW id \in Ids, DeviceWrites(id) PROVE UNCHANGED Life!vars
  <2>1. /\ UNCHANGED <<outcome, returned, spurious, shutStreams, left, peer>>
        /\ peer[id] = "open" /\ \A i \in Ids \ {id} : /\ peerReady'[i] = peerReady[i]
                                                      /\ peerWrites'[i] = peerWrites[i]
    BY <1>5 DEF DeviceWrites, threads, stream, closing, returned, shutStreams, TypeOK
  <2>2. answers' = answers
    BY <2>1 DEF answers, AnswerTo, Accepted
  <2> QED
    BY <2>1, <2>2, LifeStutter
<1>6. ASSUME NEW id \in Ids, DeviceCloses(id) PROVE Life!Next
  <2>1. /\ UNCHANGED <<outcome, returned, spurious, shutStreams, left, peerReady, peerWrites>>
        /\ peer[id] = "open" /\ peer'[id] = "closed"
        /\ \A i \in Ids \ {id} : peer'[i] = peer[i]
    BY <1>6 DEF DeviceCloses, threads, stream, closing, returned, shutStreams, TypeOK
  <2>2. answers[id] = "accepted" /\ Accepted(id)
    BY <2>1, AnswerCases DEF PeerInv
  <2>3. answers' = [answers EXCEPT ![id] = "ended"]
    <3>1. \A i \in Ids : Accepted(i)' <=> Accepted(i)
      BY <2>1 DEF Accepted
    <3>2. answers'[id] = "ended"
      BY <2>1, <2>2, <3>1 DEF answers, AnswerTo
    <3> QED
      BY <2>1, <3>1, <3>2, AnswerChanges
  <2> QED
    BY <2>1, <2>2, <2>3, LifeAnswer
<1>7. ASSUME NEW o \in Openers, OpenSends(o) \/ OpenWaits(o) \/ OpenEnters(o)
      PROVE  UNCHANGED Life!vars
  BY <1>1, <1>7 DEF OpenSends, OpenWaits, OpenEnters, stream, closing
<1>8. ASSUME NEW id \in Ids, \/ ProcessReady(id) \/ ReadyLooksAgain(id)
                             \/ ProcessWrite(id) \/ ProcessClose(id)
      PROVE  UNCHANGED Life!vars
  BY <1>1, <1>8 DEF ProcessReady, ReadyLooksAgain, ProcessWrite, ProcessClose, threads, stream, closing
<1>9. CASE UNCHANGED vars \/ WriteAcknowledged \/ HandlerReturns \/ CloseReturns
  BY <1>1, <1>9 DEF WriteAcknowledged, HandlerReturns, CloseReturns, vars, threads, stream, closing
<1> QED
  BY <1>2, <1>3, <1>4, <1>5, <1>6, <1>7, <1>8, <1>9, LifeFinishes, LifeReads, LifeEnds
     DEF Next, OpenStep, EventStep, StreamEnds

(* Each stream lives as StreamLife says: open() returns once, refused only *)
(* when the device has closed the stream and with its id only when the     *)
(* device has accepted it, for any number of threads that open streams and *)
(* whatever the handlers and the ends of other streams do meanwhile.       *)
THEOREM Lives == Spec => LifeSpec
  BY InitOpen, OpenStepKeeps, LifeInit, LifeStep, PTL DEF Spec, LifeSpec, Life!Spec

(* Why an open stream is found: open() enters it before it returns, and    *)
(* who erases the entry has found no reference or has closed the stream.   *)
FindInv == /\ OpenIsFindable
           /\ \A o \in Openers : opener[o] = "entered" => opening[o] \in mActiveStreams
           /\ \A id \in Ids : closer[id] = "marked" => ~open[id]

(* A call in progress and a call of closeStream are not about one stream.  *)
LEMMA FreshStream ==
    ASSUME OpenInv, NEW o \in Openers, opener[o] # "idle"
    PROVE  /\ opening[o] \in Ids
           /\ handles[opening[o]] = {} /\ closer[opening[o]] = "none"
  BY CallFacts DEF OpenInv, EntryInv, EntryTells, OutcomeInv

(* The ends of streams keep it, ...                                        *)
LEMMA FindEnds == ASSUME OpenInv, FindInv, NEW id \in Ids, StreamEnds(id) PROVE FindInv'
<1> USE DEF OpenInv
<1>1. opener' = opener /\ opening' = opening
  BY EndsKeep DEF threads
<1>2. CASE CloseStream(id)
  <2>1. /\ mActiveStreams' = mActiveStreams \ {id} /\ handles[id] = {}
        /\ UNCHANGED <<open, handles, closer>>
        /\ \A o \in Openers : opener[o] = "entered" => opening[o] # id
    BY <1>2 DEF CloseStream, Alive, HasStream, stream, closing
  <2> QED
    BY <1>1, <2>1 DEF FindInv, OpenIsFindable
<1>3. CASE CloseStreamErases(id)
  <2>1. /\ mActiveStreams' = mActiveStreams \ {id} /\ closer[id] = "marked"
        /\ UNCHANGED <<open, handles>>
        /\ \A i \in Ids : closer'[i] = "marked" => closer[i] = "marked"
    BY <1>3 DEF CloseStreamErases, stream, TypeOK
  <2>2. \A o \in Openers : opener[o] = "entered" => opening[o] # id
    BY <2>1, FreshStream
  <2> QED
    BY <1>1, <2>1, <2>2 DEF FindInv, OpenIsFindable
<1>4. CASE \/ CloseStreamSends(id) \/ CloseStreamMarks(id) \/ OStreamClose(id)
           \/ \E h \in HandleKinds : DropHandle(id, h)
  <2>1. /\ mActiveStreams' = mActiveStreams
        /\ \A i \in Ids : /\ handles'[i] \subseteq handles[i]
                          /\ open'[i] => open[i]
                          /\ closer'[i] = "marked" => closer[i] = "marked" \/ ~open'[i]
    BY <1>4 DEF CloseStreamSends, CloseStreamMarks, OStreamClose, DropHandle, table, stream, closing,
                TypeOK
  <2> QED
    BY <1>1, <2>1 DEF FindInv, OpenIsFindable
<1> QED
  BY <1>2, <1>3, <1>4 DEF StreamEnds, CloseStep

(* ... and so does every other step.                                       *)
LEMMA FindStep == OpenInv /\ FindInv /\ [Next]_vars => FindInv'
<1> SUFFICES ASSUME OpenInv, FindInv, [Next]_vars PROVE FindInv'
  OBVIOUS
<1> USE DEF OpenInv
<1>1. ASSUME UNCHANGED <<handles, mActiveStreams, closer>>, \A id \in Ids : open'[id] => open[id],
             \A o \in Openers : opener'[o] = "entered" => opener[o] = "entered" /\ opening'[o] = opening[o]
      PROVE  FindInv'
  BY <1>1 DEF FindInv, OpenIsFindable
<1>2. ASSUME NEW o \in Openers, OpenWakes(o) PROVE FindInv'
  <2>1. /\ opening[o] \in Ids /\ handles[opening[o]] = {} /\ closer[opening[o]] = "none"
    BY <1>2, FreshStream DEF OpenWakes
  <2>2. /\ UNCHANGED <<handles, mActiveStreams, closer, opening>>
        /\ \A id \in Ids \ {opening[o]} : open'[id] = open[id]
        /\ \A p \in Openers : opener'[p] = "entered" => opener[p] = "entered"
    BY <1>2 DEF OpenWakes, TypeOK, table, stream, closing
  <2> QED
    BY <2>1, <2>2 DEF FindInv, OpenIsFindable
<1>3. ASSUME NEW o \in Openers, OpenEnters(o) PROVE FindInv'
  <2>1. /\ mActiveStreams' = mActiveStreams \cup {opening[o]}
        /\ UNCHANGED <<handles, open, closer, opening>>
        /\ \A p \in Openers \ {o} : opener'[p] = opener[p]
    BY <1>3 DEF OpenEnters, TypeOK, stream, closing
  <2> QED
    BY <2>1 DEF FindInv, OpenIsFindable
<1>4. ASSUME NEW o \in Openers, OpenFinishes(o) PROVE FindInv'
  <2>1. /\ opener'[o] = "idle" /\ \A p \in Openers \ {o} : /\ opener'[p] = opener[p]
                                                           /\ opening'[p] = opening[p]
        /\ UNCHANGED <<mActiveStreams, open, closer>>
    BY <1>4 DEF OpenFinishes, TypeOK, closing
  <2>2. \/ handles' = handles
        \/ /\ opening[o] \in mActiveStreams
           /\ \A id \in Ids \ {opening[o]} : handles'[id] = handles[id]
    BY <1>4 DEF OpenFinishes, FindInv, TypeOK
  <2> QED
    BY <2>1, <2>2 DEF FindInv, OpenIsFindable
<1>5. ASSUME NEW o \in Openers, OpenSends(o) \/ OpenWaits(o) \/ SpuriousWake(o) PROVE FindInv'
  <2>1. UNCHANGED <<handles, mActiveStreams, closer, open>>
    BY <1>5 DEF OpenSends, OpenWaits, SpuriousWake, table, stream, closing
  <2>2. \A p \in Openers : opener'[p] = "entered" => opener[p] = "entered" /\ opening'[p] = opening[p]
    BY <1>5 DEF OpenSends, OpenWaits, SpuriousWake, TypeOK
  <2> QED
    BY <1>1, <2>1, <2>2
<1>6. ASSUME NEW id \in Ids, ReadyLooksAgain(id) \/ ProcessClose(id) PROVE FindInv'
  <2>1. UNCHANGED <<handles, mActiveStreams, closer, open, opening>>
    BY <1>6 DEF ReadyLooksAgain, ProcessClose, stream, closing
  <2>2. \A p \in Openers : opener'[p] = "entered" => opener[p] = "entered"
    BY <1>6 DEF ReadyLooksAgain, ProcessClose, NotifyOpen
  <2> QED
    BY <1>1, <2>1, <2>2
<1>7. CASE CloseMarks
  <2>1. /\ UNCHANGED <<handles, mActiveStreams, closer, opener, opening>>
        /\ \A i \in Ids : open'[i] => open[i]
    BY <1>7 DEF CloseMarks, table, threads, closing, TypeOK
  <2> QED
    BY <1>1, <2>1
<1>8. CASE \/ UNCHANGED vars \/ WriteAcknowledged \/ HandlerReturns \/ CloseReturns \/ DeviceReads
           \/ \E id \in Ids : \/ ProcessReady(id) \/ ProcessWrite(id)
                              \/ DeviceWrites(id) \/ DeviceCloses(id)
  BY <1>1, <1>8 DEF ProcessReady, ProcessWrite, DeviceWrites, DeviceCloses, WriteAcknowledged,
                    HandlerReturns, CloseReturns, DeviceReads, vars, table, threads, stream, closing
<1> QED
  BY <1>2, <1>3, <1>4, <1>5, <1>6, <1>7, <1>8, FindEnds DEF Next, OpenStep, EventStep, StreamEnds

(* As long as a stream that the application holds is open, its packets     *)
(* find it in mActiveStreams, for any number of threads that open streams, *)
(* drop handles, close streams and call closeStream.                       *)
THEOREM Findable == Spec => []OpenIsFindable
<1>1. Init => FindInv
  BY DEF Init, FindInv, OpenIsFindable
<1>2. FindInv => OpenIsFindable
  BY DEF FindInv
<1> QED
  BY <1>1, <1>2, InitOpen, OpenStepKeeps, FindStep, PTL DEF Spec
=============================================================================
