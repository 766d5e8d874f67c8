-------------------------- MODULE AdbConnectProofs --------------------------
(***************************************************************************)
(* Proofs about AdbConnect, for any keys, banners, tokens and versions:    *)
(* the order of the keys, when a token is refused and, in the second half, *)
(* that a banner is taken apart into what it was put together from.        *)
(***************************************************************************)
EXTENDS AdbConnect, DataProofs, SequenceTheorems

-----------------------------------------------------------------------------
(* signWithPrivateKey.  The loop from key n on, with f for the rest of it, *)
(* and what it returns.                                                    *)
Starts == 0..(NumKeys + 1)
Signed == [key : 0..NumKeys, next : Nat]
Loop(f, n) ==
    IF Usable(n) = {}
    THEN [key |-> NumKeys, next |-> Max({n, NumKeys}) + 1]
    ELSE LET k == Min(Usable(n))
         IN  IF keyFile[k] = "ok" THEN [key |-> k, next |-> k + 2]
             ELSE f[k + 2]
Solves(f) == f = [n \in Starts |-> Loop(f, n)]
Advances(n, s) ==
    /\ s \in Signed
    /\ s.key \in Keys => n <= s.key /\ s.key < s.next
    /\ s.key \notin Keys => s.key = NumKeys /\ s.next >= NumKeys

(* The first usable key from n on.                                         *)
LEMMA FirstUsable ==
    ASSUME NEW n \in Starts, Usable(n) # {}
    PROVE  LET k == Min(Usable(n))
           IN  k \in Keys /\ k \in Nat /\ n <= k /\ k + 2 \in Starts
<1>1. NumKeys \in Nat
  BY ConnectAssumption DEF ConnectAssumption
<1>2. Usable(n) \subseteq Nat
  BY <1>1 DEF Usable, Keys
<1>3. Min(Usable(n)) \in Usable(n)
  BY <1>2, LeastOf
<1> QED
  BY <1>1, <1>3 DEF Usable, Keys, Starts

(* What the loop returns from n on, if it does from later starts.          *)
LEMMA LoopType ==
    ASSUME NEW n \in Starts, NEW f,
           \A m \in Starts : n < m => Advances(m, f[m])
    PROVE  Advances(n, Loop(f, n))
<1>1. NumKeys \in Nat /\ n \in Nat /\ n <= NumKeys + 1
  BY ConnectAssumption DEF ConnectAssumption, Starts
<1>2. CASE Usable(n) = {}
  <2>1. \E x \in {n, NumKeys} : \A y \in {n, NumKeys} : x >= y
    BY <1>1
  <2>2. Max({n, NumKeys}) \in {n, NumKeys} /\ Max({n, NumKeys}) >= NumKeys
    BY <1>1, <2>1 DEF Max
  <2> DEFINE m == Max({n, NumKeys})
  <2>3. m \in Nat /\ m >= NumKeys
    BY <1>1, <2>2
  <2> HIDE DEF m
  <2>4. Loop(f, n) = [key |-> NumKeys, next |-> m + 1]
    BY <1>2 DEF Loop, m
  <2>5. NumKeys \notin Keys /\ NumKeys \in 0..NumKeys /\ m + 1 >= NumKeys /\ m + 1 \in Nat
    BY <1>1, <2>3 DEF Keys
  <2> QED
    BY <2>4, <2>5 DEF Advances, Signed
<1>3. CASE Usable(n) # {}
  <2> DEFINE k == Min(Usable(n))
  <2>1. k \in Keys /\ k \in Nat /\ n <= k /\ k + 2 \in Starts
    BY <1>3, FirstUsable
  <2>2. Loop(f, n) = IF keyFile[k] = "ok" THEN [key |-> k, next |-> k + 2] ELSE f[k + 2]
    BY <1>3 DEF Loop
  <2> HIDE DEF k
  <2>3. CASE keyFile[k] = "ok"
    <3>1. k \in 0..NumKeys /\ k + 2 \in Nat /\ k < k + 2
      BY <1>1, <2>1 DEF Keys
    <3> QED
      BY <2>1, <2>2, <2>3, <3>1 DEF Advances, Signed
  <2>4. CASE keyFile[k] # "ok"
    <3>1. Advances(k + 2, f[k + 2])
      BY <1>1, <2>1
    <3>2. ASSUME NEW s, Advances(k + 2, s) PROVE Advances(n, s)
      <4>1. s.key \in Keys => s.key \in Nat
        BY <1>1 DEF Keys
      <4> QED
        BY <1>1, <2>1, <3>2, <4>1 DEF Advances
    <3> QED
      BY <2>2, <2>4, <3>1, <3>2
  <2> QED
    BY <2>3, <2>4
<1> QED
  BY <1>2, <1>3

(* The loop has a solution: start by start, from the last one down.        *)
LEMMA Solvable == \E f : Solves(f)
<1> DEFINE Solved(f, m) == \A n \in Starts : n + m >= NumKeys + 2 => f[n] = Loop(f, n)
           S == {m \in Nat : \E f : f = [n \in Starts |-> f[n]] /\ Solved(f, m)}
<1>0. NumKeys \in Nat
  BY ConnectAssumption DEF ConnectAssumption
<1>1. 0 \in S
  <2> DEFINE f == [n \in Starts |-> NumKeys]
  <2>1. f = [n \in Starts |-> f[n]]
    OBVIOUS
  <2>2. \A n \in Starts : ~(n + 0 >= NumKeys + 2)
    BY <1>0 DEF Starts
  <2> QED
    BY <2>1, <2>2
<1>2. ASSUME NEW m \in Nat, m \in S PROVE m + 1 \in S
  <2>1. PICK f : Solved(f, m)
    BY <1>2
  <2> DEFINE g == [n \in Starts |-> Loop(f, n)]
  <2>2. ASSUME NEW n \in Starts, n + (m + 1) >= NumKeys + 2 PROVE g[n] = Loop(g, n)
    <3>1. CASE Usable(n) = {}
      BY <3>1 DEF Loop
    <3>2. CASE Usable(n) # {}
      <4> DEFINE k == Min(Usable(n))
      <4>1. k \in Nat /\ n <= k /\ k + 2 \in Starts
        BY <3>2, FirstUsable
      <4>2. (k + 2) + m >= NumKeys + 2
        <5> HIDE DEF k
        <5> QED
          BY <1>0, <2>2, <4>1 DEF Starts
      <4>3. f[k + 2] = Loop(f, k + 2)
        BY <2>1, <4>1, <4>2
      <4>4. g[k + 2] = f[k + 2] /\ g[n] = Loop(f, n)
        BY <4>1, <4>3
      <4> HIDE DEF g
      <4> QED
        BY <3>2, <4>4 DEF Loop
    <3> QED
      BY <3>1, <3>2
  <2>3. g = [n \in Starts |-> g[n]]
    OBVIOUS
  <2> HIDE DEF g
  <2> QED
    BY <2>2, <2>3
<1>3. NumKeys + 2 \in S
  <2>1. S \subseteq Nat /\ \A n \in Nat : n \in S => n + 1 \in S
    BY <1>2
  <2> HIDE DEF S
  <2>2. Nat \subseteq S
    BY <1>1, <2>1, Induction
  <2> QED
    BY <1>0, <2>2
<1>4. PICK f : f = [n \in Starts |-> f[n]] /\ Solved(f, NumKeys + 2)
  BY <1>3
<1>5. \A n \in Starts : f[n] = Loop(f, n)
  <2>1. \A n \in Starts : n + (NumKeys + 2) >= NumKeys + 2
    BY <1>0 DEF Starts
  <2> QED
    BY <1>4, <2>1
<1>6. f = [n \in Starts |-> Loop(f, n)]
  BY <1>4, <1>5
<1> QED
  BY <1>6 DEF Solves

(* What the loop returns: a key not before the first that it read, and the *)
(* place to read on behind it; or no key, and no key is left.              *)
LEMMA SignAdvances == \A n \in Starts : Advances(n, signWithPrivateKey(n))
<1>0. NumKeys \in Nat
  BY ConnectAssumption DEF ConnectAssumption
<1>1. PICK f : Solves(f) /\ \A n : signWithPrivateKey(n) = f[n]
  <2> DEFINE f == CHOOSE g : g = [n \in Starts |-> Loop(g, n)]
  <2>1. f = [n \in Starts |-> Loop(f, n)]
    BY Solvable DEF Solves
  <2>2. \A n : signWithPrivateKey(n) = f[n]
    BY DEF signWithPrivateKey, Loop, Starts
  <2> HIDE DEF f
  <2> QED
    BY <2>1, <2>2 DEF Solves
<1>2. \A n \in Starts : f[n] = Loop(f, n)
  BY <1>1 DEF Solves
<1> DEFINE S == {m \in Nat : \A n \in Starts : n + m >= NumKeys + 2 => Advances(n, f[n])}
<1>3. 0 \in S
  BY <1>0 DEF Starts
<1>4. ASSUME NEW m \in Nat, m \in S PROVE m + 1 \in S
  <2>1. \A n \in Starts : n + m >= NumKeys + 2 => Advances(n, f[n])
    BY <1>4
  <2> SUFFICES ASSUME NEW n \in Starts, n + (m + 1) >= NumKeys + 2 PROVE Advances(n, f[n])
    OBVIOUS
  <2>2. \A l \in Starts : n < l => l + m >= NumKeys + 2
    BY <1>0 DEF Starts
  <2>3. Advances(n, Loop(f, n))
    BY <2>1, <2>2, LoopType
  <2> QED
    BY <1>2, <2>3
<1>5. Nat \subseteq S
  <2> HIDE DEF S
  <2> QED
    BY <1>3, <1>4, Induction
<1>6. NumKeys + 2 \in S
  BY <1>0, <1>5
<1>7. \A n \in Starts : n + (NumKeys + 2) >= NumKeys + 2
  BY <1>0 DEF Starts
<1> QED
  BY <1>1, <1>6, <1>7

(* processAuth with a token: the two ways it goes on.                      *)
LEMMA AuthOffers ==
    ASSUME TypeOK, AuthSigns
    PROVE  /\ mNextKey' \in Nat
           /\ \/ \E k \in Keys :
                     /\ mNextKey < NumKeys /\ mNextKey <= k /\ k < mNextKey'
                     /\ offers' = Append(offers, k)
                     /\ Transmit("SIGNATURE") /\ handling' = "idle"
                     /\ UNCHANGED <<mConnectionState, mPublicIsAlreadyTried>>
              \/ mNextKey' >= NumKeys /\ sendPublicKey
<1> DEFINE s == IF mNextKey < NumKeys THEN signWithPrivateKey(mNextKey)
                ELSE [key |-> NumKeys, next |-> mNextKey]
<1>0. NumKeys \in Nat /\ mNextKey \in Nat /\ NumKeys \notin Keys
  BY ConnectAssumption DEF ConnectAssumption, TypeOK, Keys
<1>1. /\ mNextKey' = s.next
      /\ \/ /\ s.key \in Keys /\ Transmit("SIGNATURE") /\ offers' = Append(offers, s.key)
            /\ handling' = "idle" /\ UNCHANGED <<mConnectionState, mPublicIsAlreadyTried>>
         \/ s.key \notin Keys /\ sendPublicKey
  BY DEF AuthSigns
<1>2. CASE mNextKey < NumKeys
  <2>1. mNextKey \in Starts /\ s = signWithPrivateKey(mNextKey)
    BY <1>0, <1>2 DEF Starts
  <2>2. Advances(mNextKey, s)
    BY <2>1, SignAdvances
  <2> HIDE DEF s
  <2>3. s.next \in Nat
    BY <2>2 DEF Advances, Signed
  <2>4. CASE s.key \in Keys
    BY <1>1, <1>2, <2>2, <2>3, <2>4 DEF Advances
  <2>5. CASE s.key \notin Keys
    BY <1>1, <2>2, <2>3, <2>5 DEF Advances
  <2> QED
    BY <2>4, <2>5
<1>3. CASE ~(mNextKey < NumKeys)
  <2>1. s.key = NumKeys /\ s.next = mNextKey /\ mNextKey >= NumKeys
    BY <1>0, <1>3
  <2> HIDE DEF s
  <2> QED
    BY <1>0, <1>1, <2>1
<1> QED
  BY <1>2, <1>3

-----------------------------------------------------------------------------
(* The packets that a thread takes and adds.                               *)
LEMMA PacketTypes ==
    /\ \A c \in {"CNXN", "SIGNATURE", "RSAPUBLICKEY"} :
           TypeOK /\ Transmit(c) => toDevice' \in Seq(HostPackets)
    /\ \A c : TypeOK /\ Arrives(c) => /\ toHost' \in Seq(DevicePackets)
                                      /\ Head(toHost) \in DevicePackets /\ Head(toHost).cmd = c
    /\ \A q \in DevicePackets : TypeOK /\ Reply(q) => toHost' \in Seq(DevicePackets)
<1>1. ASSUME NEW c \in {"CNXN", "SIGNATURE", "RSAPUBLICKEY"}, TypeOK, Transmit(c)
      PROVE  toDevice' \in Seq(HostPackets)
  <2>1. [cmd |-> c] \in HostPackets
    BY DEF HostPackets
  <2> QED
    BY <1>1, <2>1, AppendProperties DEF TypeOK, Transmit
<1>2. ASSUME NEW c, TypeOK, Arrives(c)
      PROVE  toHost' \in Seq(DevicePackets) /\ Head(toHost) \in DevicePackets /\ Head(toHost).cmd = c
  BY <1>2, HeadTailProperties DEF TypeOK, Arrives
<1>3. ASSUME NEW q \in DevicePackets, TypeOK, Reply(q) PROVE toHost' \in Seq(DevicePackets)
  BY <1>3, AppendProperties DEF TypeOK, Reply
<1> QED
  BY <1>1, <1>2, <1>3

(* A banner that arrives: its greeting.                                    *)
LEMMA GreetingTypes ==
    ASSUME TypeOK, ProcessConnect
    PROVE  LET p == Head(toHost).greeting
           IN  p.banner \in Banners /\ p.version \in Nat /\ p.max \in Nat
<1>1. Head(toHost) \in DevicePackets /\ Head(toHost).cmd = "CNXN"
  BY PacketTypes DEF ProcessConnect
<1>2. Head(toHost) \in [cmd : {"CNXN"}, greeting : Greetings]
  <2>1. ASSUME Head(toHost) \in [cmd : {"AUTH"}, token : Tokens] PROVE FALSE
    BY <1>1, <2>1
  <2> QED
    BY <1>1, <2>1 DEF DevicePackets
<1>3. Head(toHost).greeting \in Greetings
  BY <1>2
<1> QED
  BY <1>3, ConnectAssumption DEF ConnectAssumption, Banners

(* The types of what processAuth changes.                                  *)
AuthTypes ==
    /\ mNextKey' \in Nat /\ mPublicIsAlreadyTried' \in BOOLEAN
    /\ offers' \in Seq(0..NumKeys)
    /\ toDevice' \in Seq(HostPackets)
    /\ handling' \in HandlerSteps
    /\ mConnectionState' \in Waiting \cup {"OFFLINE"} \cup SystemTypes

(* The variables keep their types.                                         *)
THEOREM Typing == Spec => []TypeOK
<1>1. Init => TypeOK
  <2> SUFFICES ASSUME Init PROVE TypeOK
    OBVIOUS
  <2>1. /\ <<>> \in Seq(HostPackets) /\ <<>> \in Seq(DevicePackets) /\ <<>> \in Seq(0..NumKeys)
        /\ MaxPayloadV1 \in Nat /\ OwnVersion \in Nat
    BY ConnectAssumption, EmptySeq DEF ConnectAssumption
  <2>2. DOMAIN details = DOMAIN NoDetails /\ accepted \in SUBSET Banners /\ banner \in SUBSET Banners
    BY DEF Init
  <2> QED
    BY <2>1, <2>2 DEF Init, TypeOK, HandlerSteps
<1>2. TypeOK /\ [Next]_vars => TypeOK'
  <2> SUFFICES ASSUME TypeOK, [Next]_vars PROVE TypeOK'
    OBVIOUS
  <2>s. Stop => mConnectionState' \in Waiting \cup {"OFFLINE"} \cup SystemTypes
    BY DEF Stop, Waiting
  <2>1. CASE Connect
    <3>1. toDevice' \in Seq(HostPackets)
      BY <2>1, PacketTypes DEF Connect
    <3> QED
      BY <2>1, <3>1 DEF Connect, TypeOK, state, limits, keys, files, packet
  <2>2. CASE SpuriousWake \/ AppStep
    BY <2>2 DEF SpuriousWake, AppStep, ConnectMarks, ConnectWaits, ConnectChecks, ConnectGivesUp,
         TypeOK, Waiting, state, limits, keys, files, packet, wire
  <2>3. CASE ProcessConnect
    <3> DEFINE p == Head(toHost).greeting
    <3>1. p.banner \in Banners /\ p.version \in Nat /\ p.max \in Nat
      BY <2>3, GreetingTypes
    <3>2. toHost' \in Seq(DevicePackets)
      BY <2>3, PacketTypes DEF ProcessConnect
    <3>3. /\ Negotiate(p.version, p.max)
          /\ \/ handling' = "connect" /\ banner' = {p.banner}
             \/ UNCHANGED <<handling, banner>>
          /\ UNCHANGED <<state, keys, files, app, connects, token, toDevice, prompted, disconnected>>
      BY <2>3 DEF ProcessConnect
    <3> HIDE DEF p
    <3>4. mVersion' \in Nat /\ mMaxPayloadSize' \in Nat
      <4>1. mVersion \in Nat /\ mMaxPayloadSize \in Nat /\ MaxPayloadV1 \in Nat
        BY ConnectAssumption DEF TypeOK, ConnectAssumption
      <4> QED
        BY <3>1, <3>3, <4>1 DEF Negotiate, LesserOf
    <3>5. banner' \in SUBSET Banners /\ handling' \in HandlerSteps
      BY <3>1, <3>3 DEF TypeOK, HandlerSteps
    <3> QED
      BY <3>2, <3>3, <3>4, <3>5 DEF TypeOK, state, keys, files
  <2>4. CASE ConnectSetsType
    <3>1. PICK b \in banner :
              \/ /\ setSystemType(TypeOf[b])
                 /\ mConnectionState' = Head(TypeOf[b]) /\ mSystemType' = Head(TypeOf[b])
                 /\ accepted' = {b} /\ handling' = "details"
              \/ /\ mConnectionState' = "OFFLINE" /\ UNCHANGED <<mSystemType, accepted>>
                 /\ handling' = "idle"
      BY <2>4 DEF ConnectSetsType
    <3>2. b \in Banners
      BY DEF TypeOK
    <3>3. setSystemType(TypeOf[b]) => Head(TypeOf[b]) \in SystemTypes
      BY DEF setSystemType
    <3>4. /\ mConnectionState' \in Waiting \cup {"OFFLINE"} \cup SystemTypes
          /\ mSystemType' \in SystemTypes \cup {"none"}
          /\ accepted' \in SUBSET Banners /\ handling' \in HandlerSteps
      BY <3>1, <3>2, <3>3 DEF TypeOK, HandlerSteps
    <3>5. /\ banner' \in SUBSET Banners
          /\ UNCHANGED <<details, limits, keys, files, app, connects, token, wire>>
      BY <2>4 DEF ConnectSetsType
    <3> QED
      BY <3>4, <3>5 DEF TypeOK, limits, keys, files, wire
  <2>12. CASE ConnectSetsDetails
    <3>1. DOMAIN details' = DOMAIN NoDetails
      BY <2>12 DEF ConnectSetsDetails, TypeOK
    <3>2. handling' \in HandlerSteps
      BY <2>12 DEF ConnectSetsDetails, HandlerSteps
    <3> QED
      BY <2>12, <3>1, <3>2 DEF ConnectSetsDetails, TypeOK, limits, keys, files, packet, wire
  <2>13. CASE Notifies
    BY <2>13 DEF Notifies, NotifyConnected, HandlerSteps, TypeOK, state, limits, keys, files, packet, wire
  <2>5. CASE ProcessAuth
    <3>1. Head(toHost) \in DevicePackets /\ Head(toHost).cmd = "AUTH" /\ toHost' \in Seq(DevicePackets)
      BY <2>5, PacketTypes DEF ProcessAuth
    <3>2. Head(toHost).token \in Tokens
      <4>1. Head(toHost) \notin [cmd : {"CNXN"}, greeting : Greetings]
        BY <3>1
      <4>2. Head(toHost) \in [cmd : {"AUTH"}, token : Tokens]
        BY <3>1, <4>1 DEF DevicePackets
      <4> QED
        BY <4>2
    <3>3. Head(toHost).token \in TokenKinds
      BY <3>2, ConnectAssumption DEF ConnectAssumption
    <3> QED
      BY <2>5, <3>1, <3>3 DEF ProcessAuth, HandlerSteps, TypeOK, Waiting, limits, keys, files
  <2>6. CASE AuthStops \/ AuthStopsAgain
    BY <2>6, <2>s DEF AuthStops, AuthStopsAgain, HandlerSteps, TypeOK, limits, keys, files, packet, wire
  <2>7. CASE AuthSigns
    <3>1. NumKeys \in Nat /\ \A k \in Keys : k \in 0..NumKeys
      BY ConnectAssumption DEF ConnectAssumption, Keys
    <3>2. AuthTypes
      <4>1. mNextKey' \in Nat
        BY <2>7, AuthOffers
      <4>2. ASSUME NEW k \in Keys, offers' = Append(offers, k),
                   Transmit("SIGNATURE"), handling' = "idle",
                   UNCHANGED <<mConnectionState, mPublicIsAlreadyTried>>
            PROVE  AuthTypes
        <5>1. offers' \in Seq(0..NumKeys)
          BY <3>1, <4>2, AppendProperties DEF TypeOK
        <5>2. toDevice' \in Seq(HostPackets)
          BY <4>2, PacketTypes
        <5> QED
          BY <4>1, <4>2, <5>1, <5>2 DEF TypeOK, AuthTypes, HandlerSteps
      <4>3. ASSUME sendPublicKey PROVE AuthTypes
        <5>1. mPublicIsAlreadyTried' \in BOOLEAN
          BY <4>3 DEF sendPublicKey
        <5>2. CASE /\ Transmit("RSAPUBLICKEY") /\ offers' = Append(offers, PublicKeyOffer)
                   /\ handling' = "idle" /\ UNCHANGED mConnectionState
          <6>1. offers' \in Seq(0..NumKeys)
            BY <3>1, <5>2, AppendProperties DEF TypeOK, PublicKeyOffer
          <6>2. toDevice' \in Seq(HostPackets)
            BY <5>2, PacketTypes
          <6> QED
            BY <4>1, <5>1, <5>2, <6>1, <6>2 DEF TypeOK, AuthTypes, HandlerSteps
        <5>3. CASE UNCHANGED <<toDevice, offers>> /\ handling' \in {"notify", "stopped"} /\ Stop
          BY <2>s, <4>1, <5>1, <5>3 DEF TypeOK, AuthTypes, HandlerSteps
        <5> QED
          BY <4>3, <5>2, <5>3 DEF sendPublicKey
      <4> QED
        BY <2>7, <4>2, <4>3, AuthOffers
    <3> QED
      BY <2>7, <3>2 DEF AuthSigns, AuthTypes, TypeOK, limits, files
  <2>8. CASE Disconnected
    BY <2>8, EmptySeq DEF Disconnected, TypeOK, Waiting, limits, keys, files, packet
  <2>9. CASE DeviceReads
    <3>1. toDevice' \in Seq(HostPackets) /\ toHost' \in Seq(DevicePackets) /\ prompted' \in BOOLEAN
      BY <2>9, PacketTypes, HeadTailProperties DEF DeviceReads, TypeOK
    <3> QED
      BY <2>9, <3>1 DEF DeviceReads, TypeOK, state, limits, keys, files, packet
  <2>10. CASE DeviceConfirmsKey
    <3>1. toHost' \in Seq(DevicePackets)
      BY <2>10, PacketTypes DEF DeviceConfirmsKey
    <3> QED
      BY <2>10, <3>1 DEF DeviceConfirmsKey, TypeOK, state, limits, keys, files, packet
  <2>11. CASE UNCHANGED vars
    BY <2>11 DEF vars, TypeOK, state, limits, keys, files, packet, wire
  <2> QED
    BY <2>1, <2>2, <2>3, <2>4, <2>5, <2>6, <2>7, <2>8, <2>9, <2>10, <2>11, <2>12, <2>13
       DEF Next, EventStep
<1> QED
  BY <1>1, <1>2, PTL DEF Spec

-----------------------------------------------------------------------------
(* The keys that were offered are behind mNextKey, but for the public one, *)
(* after which no other is left.                                           *)
OfferInv ==
    /\ OfferOrder
    /\ \A i \in DOMAIN offers : offers[i] < mNextKey \/ offers[i] = PublicKeyOffer
    /\ \A i \in DOMAIN offers : offers[i] = PublicKeyOffer => mPublicIsAlreadyTried /\ mNextKey >= NumKeys

(* One offer more, greater than those before.                              *)
LEMMA OfferMore ==
    ASSUME NEW s \in Seq(0..NumKeys), NEW k \in 0..NumKeys, \A i \in DOMAIN s : s[i] < k,
           \A i, j \in DOMAIN s : i < j => s[i] < s[j]
    PROVE  LET a == Append(s, k)
           IN  /\ \A i, j \in DOMAIN a : i < j => a[i] < a[j]
               /\ \A i \in DOMAIN a : (i \in DOMAIN s /\ a[i] = s[i]) \/ a[i] = k
<1> DEFINE a == Append(s, k)
           n == Len(s)
<1>1. /\ n \in Nat /\ DOMAIN s = 1..n /\ DOMAIN a = 1..(n + 1)
      /\ a[n + 1] = k /\ \A i \in 1..n : a[i] = s[i]
  BY AppendProperties, LenProperties
<1> HIDE DEF a, n
<1>2. \A i \in 1..(n + 1) : i \in 1..n \/ i = n + 1
  BY <1>1
<1>3. \A i, j \in 1..(n + 1) : i < j => i \in 1..n
  BY <1>1
<1>4. \A i, j \in DOMAIN a : i < j => a[i] < a[j]
  BY <1>1, <1>2, <1>3
<1>5. \A i \in DOMAIN a : (i \in DOMAIN s /\ a[i] = s[i]) \/ a[i] = k
  BY <1>1, <1>2
<1> QED
  BY <1>4, <1>5 DEF a

(* Every step keeps the order of the offers.                               *)
LEMMA OfferStep == TypeOK /\ OfferInv /\ [Next]_vars => OfferInv'
<1> SUFFICES ASSUME TypeOK, OfferInv, [Next]_vars PROVE OfferInv'
  OBVIOUS
<1>0. NumKeys \in Nat /\ mNextKey \in Nat
  BY ConnectAssumption DEF ConnectAssumption, TypeOK
<1>1. CASE UNCHANGED keys
  BY <1>1 DEF keys, OfferInv, OfferOrder
<1>2. CASE AuthSigns
  <2>0. offers \in Seq(0..NumKeys) /\ mNextKey' \in Nat /\ DOMAIN offers = 1..Len(offers)
    BY <1>2, AuthOffers, LenProperties DEF TypeOK
  <2>t. \A i \in DOMAIN offers : offers[i] \in 0..NumKeys
    BY <2>0, ElementOfSeq
  <2>1. ASSUME NEW k \in Keys, mNextKey < NumKeys, mNextKey <= k, k < mNextKey',
               offers' = Append(offers, k), mPublicIsAlreadyTried' = mPublicIsAlreadyTried
        PROVE  OfferInv'
    <3>1. k \in Nat /\ k \in 0..NumKeys /\ k # PublicKeyOffer
      BY <1>0 DEF Keys, PublicKeyOffer
    <3>2. \A i \in DOMAIN offers : offers[i] # PublicKeyOffer
      BY <1>0, <2>1 DEF OfferInv
    <3>3. \A i \in DOMAIN offers : offers[i] < k /\ offers[i] < mNextKey'
      BY <1>0, <2>0, <2>1, <2>t, <3>1, <3>2 DEF OfferInv
    <3>4. /\ \A i, j \in DOMAIN offers' : i < j => offers'[i] < offers'[j]
          /\ \A i \in DOMAIN offers' : (i \in DOMAIN offers /\ offers'[i] = offers[i]) \/ offers'[i] = k
      BY <2>0, <2>1, <3>1, <3>3, OfferMore DEF OfferInv, OfferOrder
    <3> QED
      BY <2>1, <3>1, <3>2, <3>3, <3>4 DEF OfferInv, OfferOrder, PublicKeyOffer
  <2>2. ASSUME mNextKey' >= NumKeys, sendPublicKey PROVE OfferInv'
    <3>1. mPublicIsAlreadyTried => mPublicIsAlreadyTried'
      BY <2>2 DEF sendPublicKey
    <3>2. \A i \in DOMAIN offers : offers[i] # PublicKeyOffer => offers[i] < NumKeys /\ offers[i] < mNextKey'
      BY <1>0, <2>0, <2>2, <2>t DEF PublicKeyOffer
    <3>3. CASE PublicKeySent /\ offers' = Append(offers, PublicKeyOffer)
      <4>1. \A i \in DOMAIN offers : offers[i] # PublicKeyOffer
        BY <3>3 DEF PublicKeySent, OfferInv
      <4>2. PublicKeyOffer \in 0..NumKeys /\ \A i \in DOMAIN offers : offers[i] < PublicKeyOffer
        BY <1>0, <3>2, <4>1 DEF PublicKeyOffer
      <4>3. /\ \A i, j \in DOMAIN offers' : i < j => offers'[i] < offers'[j]
            /\ \A i \in DOMAIN offers' : (i \in DOMAIN offers /\ offers'[i] = offers[i])
                                         \/ offers'[i] = PublicKeyOffer
        BY <2>0, <3>3, <4>2, OfferMore DEF OfferInv, OfferOrder
      <4>4. mPublicIsAlreadyTried'
        BY <2>2, <3>3 DEF sendPublicKey, PublicKeySent
      <4> QED
        BY <2>2, <3>2, <4>1, <4>3, <4>4 DEF OfferInv, OfferOrder
    <3>4. CASE offers' = offers
      BY <2>2, <3>1, <3>2, <3>4 DEF OfferInv, OfferOrder
    <3> QED
      BY <2>2, <3>3, <3>4 DEF sendPublicKey
  <2> QED
    BY <1>2, <2>1, <2>2, AuthOffers
<1>3. ~AuthSigns => UNCHANGED keys
  BY DEF Next, Connect, SpuriousWake, AppStep, ConnectMarks, ConnectWaits, ConnectChecks, ConnectGivesUp,
     EventStep, ProcessConnect, ConnectSetsType, ConnectSetsDetails, Notifies,
     ProcessAuth, AuthStops, AuthStopsAgain,
     Disconnected, DeviceReads, DeviceConfirmsKey, vars
<1> QED
  BY <1>1, <1>2, <1>3

(* Over all attempts to connect the private keys go out in the order of    *)
(* their paths, none twice, and the public key last and once               *)
(* (AdbDevice.cpp:203-226, 319-368), whatever the key files hold.          *)
THEOREM KeysInOrder == Spec => []OfferOrder
<1>1. Init => OfferInv
  BY DEF Init, OfferInv, OfferOrder
<1>2. OfferInv => OfferOrder
  BY DEF OfferInv
<1> QED
  BY <1>1, <1>2, OfferStep, Typing, PTL DEF Spec

-----------------------------------------------------------------------------
(* While processAuth works on a token the state is not UNAUTHORIZED, and   *)
(* from one of its stopConnecting() to the other the keys are spent.       *)
GiveUpInv ==
    /\ handling = "auth" => mConnectionState # "UNAUTHORIZED"
    /\ handling \in {"stopped", "stop"} => Spent

(* The step of an attempt that gives up.                                   *)
LEMMA GivingUp ==
    ASSUME TypeOK, GiveUpInv, [Next]_vars
    PROVE  /\ GiveUpInv'
           /\ (handling \in {"auth", "stop"} /\ token # "bare" /\ mConnectionState' = "UNAUTHORIZED") => Spent'
<1>0. NumKeys \in Nat /\ mNextKey \in Nat
  BY ConnectAssumption DEF ConnectAssumption, TypeOK
<1>1. UNCHANGED <<keys, files>> => (Spent' <=> Spent)
  BY DEF keys, files, Spent, PublicKeySent
<1>2. CASE AuthSigns
  <2>1. CASE handling' = "idle" /\ UNCHANGED mConnectionState
    BY <1>2, <2>1 DEF AuthSigns, GiveUpInv
  <2>2. CASE mNextKey' >= NumKeys /\ sendPublicKey /\ ~PublicKeySent
    <3>1. publicKey' = publicKey
      BY <1>2 DEF AuthSigns, files
    <3>2. ~PublicKeySent'
      BY <2>2, <3>1 DEF sendPublicKey, PublicKeySent
    <3>3. handling' # "auth"
      BY <2>2 DEF sendPublicKey
    <3> QED
      BY <2>2, <3>2, <3>3 DEF Spent, GiveUpInv
  <2> QED
    BY <1>2, <2>1, <2>2, AuthOffers DEF sendPublicKey
<1>3. CASE handling' = handling /\ UNCHANGED <<keys, files>>
           /\ mConnectionState' \in {mConnectionState, "CONNECTING", "OFFLINE"}
  BY <1>1, <1>3 DEF GiveUpInv
<1>4. CASE /\ handling \notin {"auth", "stop"} /\ UNCHANGED <<keys, files>>
           /\ handling' \notin {"auth", "stopped"} /\ (handling' = "stop" => handling = "stopped")
  BY <1>1, <1>4 DEF GiveUpInv
<1>5. CASE AuthStops \/ AuthStopsAgain
  BY <1>1, <1>5 DEF AuthStops, AuthStopsAgain, hasPayload, GiveUpInv
<1>6. CASE ProcessAuth
  <2>1. handling = "idle" /\ handling' = "auth" /\ mConnectionState' = "AUTHORIZING"
    BY <1>6 DEF ProcessAuth, Arrives
  <2> QED
    BY <2>1 DEF GiveUpInv
<1>7. Connect \/ SpuriousWake \/ AppStep \/ DeviceReads \/ DeviceConfirmsKey \/ UNCHANGED vars
      => handling' = handling /\ UNCHANGED <<keys, files>>
         /\ mConnectionState' \in {mConnectionState, "CONNECTING", "OFFLINE"}
  BY DEF Connect, SpuriousWake, AppStep, ConnectMarks, ConnectWaits, ConnectChecks, ConnectGivesUp,
     DeviceReads, DeviceConfirmsKey, vars, state
<1>8. ProcessConnect \/ ConnectSetsType \/ ConnectSetsDetails \/ Notifies \/ Disconnected
      => /\ handling \notin {"auth", "stop"} /\ UNCHANGED <<keys, files>>
         /\ handling' \notin {"auth", "stopped"} /\ (handling' = "stop" => handling = "stopped")
  BY DEF ProcessConnect, ConnectSetsType, ConnectSetsDetails, Notifies, Disconnected, Arrives
<1> QED
  BY <1>2, <1>3, <1>4, <1>5, <1>6, <1>7, <1>8 DEF Next, EventStep

(* A token that comes in a payload object is refused only when no private  *)
(* key from mNextKey on can be read and the public key cannot be sent      *)
(* (AdbDevice.cpp:203-226, 346-368), whatever connect() does to the state  *)
(* while the handler runs and whatever the key files hold.                 *)
THEOREM RefusedWhenSpent == Spec => GivesUpOnlyWhenSpent
<1>1. Init => GiveUpInv
  BY DEF Init, GiveUpInv
<1> DEFINE A == (handling \in {"auth", "stop"} /\ token # "bare" /\ mConnectionState' = "UNAUTHORIZED")
                    => (Spent')
<1>2. TypeOK /\ GiveUpInv /\ [Next]_vars => GiveUpInv' /\ [A]_vars
  BY GivingUp
<1>3. Spec => [][A]_vars
  <2> HIDE DEF A
  <2> QED
    BY <1>1, <1>2, Typing, PTL DEF Spec
<1> QED
  BY <1>3 DEF GivesUpOnlyWhenSpent

-----------------------------------------------------------------------------
(* tokenize.  The separators from a position on, and the recursion, with f *)
(* for the rest of it.                                                     *)
Ends(view, separator, pos) == {i \in pos..Len(view) : view[i] = separator}
TokenBody(view, separator, f, pos) ==
    IF Ends(view, separator, pos) # {}
    THEN <<SubSeq(view, pos, Min(Ends(view, separator, pos)) - 1)>>
             \o f[Min(Ends(view, separator, pos)) + 1]
    ELSE IF pos <= Len(view) THEN <<SubSeq(view, pos, Len(view))>> ELSE <<>>
IsTokens(f, view, separator) ==
    f = [pos \in 1..Len(view) + 1 |-> TokenBody(view, separator, f, pos)]

(* The token at a position ends with the first separator.                  *)
LEMMA EndOfToken ==
    ASSUME NEW view, Len(view) \in Nat, NEW separator, NEW pos \in 1..Len(view) + 1,
           Ends(view, separator, pos) # {}
    PROVE  LET k == Min(Ends(view, separator, pos))
           IN  /\ k \in pos..Len(view) /\ view[k] = separator /\ k + 1 \in 1..Len(view) + 1
               /\ \A j \in Ends(view, separator, pos) : k <= j
<1> DEFINE T == Ends(view, separator, pos)
           k == Min(T)
<1>1. T \subseteq Nat /\ T # {}
  BY DEF Ends
<1>2. k \in T /\ \A j \in T : k <= j
  <2> HIDE DEF T
  <2> QED
    BY <1>1, LeastOf
<1>3. k \in pos..Len(view) /\ view[k] = separator
  BY <1>2 DEF Ends
<1> HIDE DEF k
<1>4. k + 1 \in 1..Len(view) + 1
  BY <1>3
<1> QED
  BY <1>2, <1>3, <1>4 DEF k

(* The recursion has a solution: position by position, from the last one   *)
(* back.                                                                   *)
LEMMA TokensExist ==
    ASSUME NEW view, Len(view) \in Nat, NEW separator
    PROVE  \E f : IsTokens(f, view, separator) /\ tokenize(view, separator) = f[1]
<1> DEFINE n == Len(view) + 1
           P == 1..Len(view) + 1
           Solved(f, m) == \A pos \in P : n - pos < m => f[pos] = TokenBody(view, separator, f, pos)
           S == {m \in Nat : \E f : Solved(f, m)}
           h == CHOOSE f : IsTokens(f, view, separator)
<1>1. 0 \in S
  BY DEF TokenBody
<1>2. ASSUME NEW m \in Nat, m \in S PROVE m + 1 \in S
  <2>1. PICK f : Solved(f, m)
    BY <1>2
  <2> DEFINE g == [pos \in P |-> TokenBody(view, separator, f, pos)]
  <2>2. ASSUME NEW pos \in P, n - pos < m + 1
        PROVE  g[pos] = TokenBody(view, separator, g, pos)
    <3>1. CASE Ends(view, separator, pos) = {}
      BY <3>1 DEF TokenBody
    <3>2. CASE Ends(view, separator, pos) # {}
      <4> DEFINE k == Min(Ends(view, separator, pos))
      <4>1. k \in pos..Len(view) /\ k + 1 \in P
        BY <3>2, EndOfToken
      <4>2. n - (k + 1) < m
        <5> HIDE DEF k
        <5> QED
          BY <2>2, <4>1
      <4>3. g[k + 1] = TokenBody(view, separator, f, k + 1)
        BY <4>1
      <4>4. f[k + 1] = TokenBody(view, separator, f, k + 1)
        BY <2>1, <4>1, <4>2
      <4>5. g[pos] = TokenBody(view, separator, f, pos)
        OBVIOUS
      <4> HIDE DEF g
      <4> QED
        BY <3>2, <4>3, <4>4, <4>5 DEF TokenBody
    <3> QED
      BY <3>1, <3>2
  <2> HIDE DEF g
  <2> QED
    BY <2>2
<1>3. n \in S
  <2>1. \A m \in Nat : m \in S => m + 1 \in S
    BY <1>2
  <2> HIDE DEF S
  <2>2. Nat \subseteq S
    BY <1>1, <2>1, Induction
  <2> QED
    BY <2>2
<1>4. PICK f : Solved(f, n)
  BY <1>3
<1> DEFINE g == [pos \in P |-> f[pos]]
<1>5. ASSUME NEW pos \in P PROVE g[pos] = TokenBody(view, separator, g, pos)
  <2>1. f[pos] = TokenBody(view, separator, f, pos)
    <3>1. n - pos < n
      OBVIOUS
    <3> QED
      BY <1>4, <3>1
  <2>2. CASE Ends(view, separator, pos) = {}
    BY <2>1, <2>2 DEF TokenBody
  <2>3. CASE Ends(view, separator, pos) # {}
    <3> DEFINE k == Min(Ends(view, separator, pos))
    <3>1. k + 1 \in P
      BY <2>3, EndOfToken
    <3>2. g[k + 1] = f[k + 1] /\ g[pos] = f[pos]
      BY <3>1
    <3> HIDE DEF g
    <3> QED
      BY <2>1, <2>3, <3>2 DEF TokenBody
  <2> QED
    BY <2>2, <2>3
<1>6. IsTokens(g, view, separator)
  <2>1. g = [pos \in P |-> g[pos]]
    OBVIOUS
  <2> HIDE DEF g
  <2> QED
    BY <1>5, <2>1 DEF IsTokens
<1>7. IsTokens(h, view, separator)
  <2> HIDE DEF g
  <2> QED
    BY <1>6
<1>8. tokenize(view, separator) = h[1]
  BY DEF tokenize, IsTokens, TokenBody, Ends
<1> HIDE DEF h
<1> QED
  BY <1>7, <1>8

(* What it is at a position.                                               *)
LEMMA TokensAt ==
    ASSUME NEW f, NEW view, NEW separator, IsTokens(f, view, separator),
           NEW pos \in 1..Len(view) + 1
    PROVE  f[pos] = TokenBody(view, separator, f, pos)
  BY DEF IsTokens

(* The tokens of a text are those of what is before it, position by        *)
(* position.                                                               *)
LEMMA TokensShift ==
    ASSUME NEW A, NEW v \in Seq(A), NEW w \in Seq(A), NEW separator,
           NEW f, IsTokens(f, v \o w, separator), NEW g, IsTokens(g, w, separator)
    PROVE  \A p \in 1..Len(w) + 1 : f[Len(v) + p] = g[p]
<1> DEFINE q == Len(v)
           n == Len(w)
           view == v \o w
           S == {m \in Nat : \A p \in 1..n + 1 : (n + 1) - p < m => f[q + p] = g[p]}
<1>1. /\ q \in Nat /\ n \in Nat /\ view \in Seq(A) /\ Len(view) = q + n
      /\ \A i \in 1..n : view[q + i] = w[i] /\ q + i \in 1..(q + n)
      /\ \A i \in 1..n : w[i] \in A
  <2>1. q \in Nat /\ n \in Nat
    BY LenProperties
  <2>2. /\ view \in Seq(A) /\ Len(view) = q + n
        /\ \A i \in 1..(q + n) : view[i] = IF i <= q THEN v[i] ELSE w[i - q]
    BY ConcatProperties
  <2>3. \A i \in 1..n : w[i] \in A
    BY ElementOfSeq
  <2> HIDE DEF q, n, view
  <2>4. \A i \in 1..n : q + i \in 1..(q + n) /\ ~(q + i <= q) /\ (q + i) - q = i
    BY <2>1
  <2> QED
    BY <2>1, <2>2, <2>3, <2>4
<1>2. IsTokens(f, view, separator) /\ IsTokens(g, w, separator) /\ Len(w) = n
  OBVIOUS
<1> HIDE DEF q, n, view
<1>3. ASSUME NEW p \in 1..n + 1
      PROVE  /\ q + p \in 1..Len(view) + 1
             /\ f[q + p] = TokenBody(view, separator, f, q + p)
             /\ g[p] = TokenBody(w, separator, g, p)
             /\ \A i : i \in Ends(view, separator, q + p) <=> i - q \in Ends(w, separator, p) /\ i \in Nat
             /\ \A i \in Ends(w, separator, p) : q + i \in Ends(view, separator, q + p)
             /\ Ends(w, separator, p) \subseteq Nat
  <2>1. q + p \in 1..Len(view) + 1
    BY <1>1
  <2>2. f[q + p] = TokenBody(view, separator, f, q + p) /\ g[p] = TokenBody(w, separator, g, p)
    BY <1>2, <2>1, TokensAt
  <2> QED
    BY <1>1, <1>2, <2>1, <2>2 DEF Ends
<1>4. ASSUME NEW a \in 1..n + 1, NEW b \in 0..n
      PROVE  SubSeq(view, q + a, q + b) = SubSeq(w, a, b)
  <2>1. a \in Int /\ b \in Int /\ q + a \in Int /\ q + b \in Int
    BY <1>1
  <2>2. \A i \in a..b : w[i] \in A
    BY <1>1
  <2>3. \A i \in (q + a)..(q + b) : i - q \in 1..n /\ i = q + (i - q)
    BY <1>1
  <2>4. \A i \in (q + a)..(q + b) : view[i] \in A
    BY <1>1, <2>3
  <2> DEFINE s == SubSeq(view, q + a, q + b)
             t == SubSeq(w, a, b)
             m == b - a + 1
  <2>5. /\ s \in Seq(A) /\ Len(s) = (IF q + a <= q + b THEN (q + b) - (q + a) + 1 ELSE 0)
        /\ \A i \in 1..(q + b) - (q + a) + 1 : s[i] = view[(q + a) + i - 1]
    BY <2>1, <2>4, SubSeqProperties
  <2>6. /\ t \in Seq(A) /\ Len(t) = (IF a <= b THEN b - a + 1 ELSE 0)
        /\ \A i \in 1..b - a + 1 : t[i] = w[a + i - 1]
    BY <2>1, <2>2, SubSeqProperties
  <2> HIDE DEF s, t
  <2>7. (q + b) - (q + a) + 1 = b - a + 1 /\ (q + a <= q + b <=> a <= b)
    BY <1>1
  <2>8. Len(s) = Len(t)
    BY <2>5, <2>6, <2>7
  <2>9. ASSUME NEW i \in 1..Len(s) PROVE s[i] = t[i]
    <3>1. i \in 1..b - a + 1 /\ a + i - 1 \in 1..n /\ (q + a) + i - 1 = q + (a + i - 1)
      BY <1>1, <2>5, <2>7
    <3>2. s[i] = view[(q + a) + i - 1] /\ t[i] = w[a + i - 1]
      BY <2>5, <2>6, <2>7, <3>1
    <3> QED
      BY <1>1, <3>1, <3>2
  <2>10. s = t
    BY <2>5, <2>6, <2>8, <2>9, SeqEqual
  <2> QED
    BY <2>10 DEF s, t
<1>5. 0 \in S
  BY <1>1
<1>6. ASSUME NEW m \in Nat, m \in S PROVE m + 1 \in S
  <2> SUFFICES ASSUME NEW p \in 1..n + 1, (n + 1) - p < m + 1 PROVE f[q + p] = g[p]
    OBVIOUS
  <2>1. CASE Ends(w, separator, p) = {}
    <3>1. Ends(view, separator, q + p) = {}
      BY <1>3, <2>1
    <3>2. q + p <= Len(view) <=> p <= n
      BY <1>1
    <3>3. SubSeq(view, q + p, Len(view)) = SubSeq(w, p, n)
      BY <1>1, <1>4
    <3> QED
      BY <1>2, <1>3, <2>1, <3>1, <3>2, <3>3 DEF TokenBody
  <2>2. CASE Ends(w, separator, p) # {}
    <3> DEFINE k == Min(Ends(w, separator, p))
    <3>1. /\ k \in p..n /\ w[k] = separator /\ k + 1 \in 1..n + 1
          /\ \A j \in Ends(w, separator, p) : k <= j
      BY <1>1, <1>2, <2>2, EndOfToken
    <3> HIDE DEF k
    <3>2. k \in Ends(w, separator, p)
      BY <1>2, <3>1 DEF Ends
    <3>3. q + k \in Ends(view, separator, q + p)
      BY <1>3, <3>2
    <3>4. \A j \in Ends(view, separator, q + p) : j \in Nat /\ q + k <= j
      <4> SUFFICES ASSUME NEW j \in Ends(view, separator, q + p) PROVE j \in Nat /\ q + k <= j
        OBVIOUS
      <4>1. j - q \in Ends(w, separator, p) /\ j \in Nat
        BY <1>3
      <4>2. k <= j - q
        BY <3>1, <4>1
      <4> QED
        BY <1>1, <3>1, <4>1, <4>2
    <3>5. Min(Ends(view, separator, q + p)) = q + k
      BY <3>3, <3>4, MinIs
    <3>6. SubSeq(view, q + p, (q + k) - 1) = SubSeq(w, p, k - 1)
      <4>1. (q + k) - 1 = q + (k - 1) /\ k - 1 \in 0..n
        BY <1>1, <3>1
      <4> QED
        BY <1>4, <4>1
    <3>7. f[(q + k) + 1] = g[k + 1]
      <4>1. (n + 1) - (k + 1) < m /\ (q + k) + 1 = q + (k + 1)
        BY <1>1, <3>1
      <4> QED
        BY <1>6, <3>1, <4>1
    <3>8. f[q + p] = <<SubSeq(view, q + p, (q + k) - 1)>> \o f[(q + k) + 1]
      BY <1>3, <3>3, <3>5 DEF TokenBody
    <3>9. g[p] = <<SubSeq(w, p, k - 1)>> \o g[k + 1]
      BY <1>3, <2>2 DEF TokenBody, k
    <3> QED
      BY <3>6, <3>7, <3>8, <3>9
  <2> QED
    BY <2>1, <2>2
<1>7. Nat \subseteq S
  <2>1. \A m \in Nat : m \in S => m + 1 \in S
    BY <1>6
  <2> HIDE DEF S
  <2> QED
    BY <1>5, <2>1, Induction
<1>8. ASSUME NEW p \in 1..n + 1 PROVE f[q + p] = g[p]
  <2>1. (n + 1) - p < n + 1 /\ n + 1 \in Nat
    BY <1>1
  <2> QED
    BY <1>7, <2>1
<1> QED
  BY <1>8 DEF q, n

(* A text without the separator is one token, if it is not empty.          *)
LEMMA NoSeparator ==
    ASSUME NEW B, NEW u \in Seq(B), NEW separator, separator \notin B
    PROVE  tokenize(u, separator) = IF u = <<>> THEN <<>> ELSE <<u>>
<1>1. Len(u) \in Nat /\ \A i \in 1..Len(u) : u[i] # separator
  BY LenProperties, ElementOfSeq
<1>2. PICK f : IsTokens(f, u, separator) /\ tokenize(u, separator) = f[1]
  BY <1>1, TokensExist
<1>3. f[1] = TokenBody(u, separator, f, 1)
  BY <1>1, <1>2, TokensAt
<1>4. Ends(u, separator, 1) = {}
  BY <1>1 DEF Ends
<1>5. SubSeq(u, 1, Len(u)) = u /\ (1 <= Len(u) <=> u # <<>>)
  BY <1>1, SubSeqFull, EmptySeq
<1> QED
  BY <1>2, <1>3, <1>4, <1>5 DEF TokenBody

(* A separator ends a token, and the others are those of what is behind.   *)
Divided(u, w, separator) ==
    tokenize(u \o <<separator>> \o w, separator) = <<u>> \o tokenize(w, separator)

(* ... which is so of a text in front of the separator that does not have  *)
(* it.                                                                     *)
LEMMA FirstSeparator ==
    ASSUME NEW A, NEW B, B \subseteq A, NEW u \in Seq(B), NEW w \in Seq(A),
           NEW separator \in A, separator \notin B
    PROVE  Divided(u, w, separator)
<1> DEFINE v == u \o <<separator>>
           view == v \o w
           n == Len(u)
<1>1. /\ n \in Nat /\ u \in Seq(A) /\ <<separator>> \in Seq(A) /\ Len(<<separator>>) = 1
      /\ <<separator>>[1] = separator
      /\ \A i \in 1..n : u[i] # separator /\ u[i] \in A
  <2>1. u \in Seq(A) /\ \A i \in 1..n : u[i] \in B
    BY SeqMonotonic, ElementOfSeq
  <2> QED
    BY <2>1, LenProperties
<1>2. v \in Seq(A) /\ Len(v) = n + 1 /\ \A i \in 1..(n + 1) : v[i] = IF i <= n THEN u[i] ELSE separator
  <2>1. /\ v \in Seq(A) /\ Len(v) = Len(u) + Len(<<separator>>)
        /\ \A i \in 1..Len(u) + Len(<<separator>>) :
               v[i] = IF i <= Len(u) THEN u[i] ELSE <<separator>>[i - Len(u)]
    BY <1>1, ConcatProperties
  <2>2. \A i \in 1..n + 1 : ~(i <= n) => i - n = 1
    BY <1>1
  <2> HIDE DEF v, n
  <2> QED
    BY <1>1, <2>1, <2>2 DEF n
<1>3. view \in Seq(A) /\ Len(view) \in Nat /\ n + 1 <= Len(view) /\ Len(w) \in Nat
  BY <1>1, <1>2, ConcatProperties, LenProperties
<1>4. \A i \in 1..(n + 1) : view[i] = v[i]
  <2>1. \A i \in 1..Len(v) + Len(w) : view[i] = IF i <= Len(v) THEN v[i] ELSE w[i - Len(v)]
    BY <1>2, ConcatProperties
  <2> HIDE DEF v, view
  <2> QED
    BY <1>1, <1>2, <1>3, <2>1
<1>5. PICK f : IsTokens(f, view, separator) /\ tokenize(view, separator) = f[1]
  BY <1>3, TokensExist
<1>6. PICK g : IsTokens(g, w, separator) /\ tokenize(w, separator) = g[1]
  BY <1>3, TokensExist
<1>7. f[Len(v) + 1] = g[1]
  <2>1. 1 \in 1..Len(w) + 1
    BY <1>3
  <2> HIDE DEF v
  <2> QED
    BY <1>2, <1>5, <1>6, <2>1, TokensShift
<1> HIDE DEF view, v
<1>8. f[1] = TokenBody(view, separator, f, 1)
  BY <1>3, <1>5, TokensAt
<1>9. n + 1 \in Ends(view, separator, 1) /\ Min(Ends(view, separator, 1)) = n + 1
  <2>1. n + 1 \in Ends(view, separator, 1)
    BY <1>1, <1>2, <1>3, <1>4 DEF Ends
  <2>2. \A i \in Ends(view, separator, 1) : i \in Nat /\ n + 1 <= i
    BY <1>1, <1>2, <1>3, <1>4 DEF Ends
  <2> QED
    BY <2>1, <2>2, MinIs
<1>10. SubSeq(view, 1, (n + 1) - 1) = u
  <2>1. (n + 1) - 1 = n /\ 1 \in Int /\ n \in Int /\ (1 <= n => (n - 1) + 1 = n) /\ (~(1 <= n) => n = 0)
        /\ n - 1 + 1 = n
    BY <1>1
  <2>2. \A i \in 1..n : view[i] = u[i] /\ view[i] \in A
    BY <1>1, <1>2, <1>4
  <2> DEFINE s == SubSeq(view, 1, n)
  <2>3. /\ s \in Seq(A) /\ Len(s) = (IF 1 <= n THEN n - 1 + 1 ELSE 0)
        /\ \A i \in 1..n - 1 + 1 : s[i] = view[1 + i - 1]
    BY <2>1, <2>2, SubSeqProperties
  <2>4. \A i \in 1..n : 1 + i - 1 = i
    BY <1>1
  <2> HIDE DEF s
  <2>5. Len(s) = Len(u) /\ \A i \in 1..Len(s) : s[i] = u[i]
    BY <2>1, <2>2, <2>3, <2>4
  <2>6. s = u
    BY <1>1, <2>3, <2>5, SeqEqual
  <2> QED
    BY <2>1, <2>6 DEF s
<1>11. f[1] = <<u>> \o f[(n + 1) + 1]
  BY <1>8, <1>9, <1>10 DEF TokenBody
<1> QED
  BY <1>2, <1>5, <1>6, <1>7, <1>11 DEF view, v, Divided

-----------------------------------------------------------------------------
(* setToString: h has the text after each feature behind the first.        *)
Comma == ","
JoinBody(set, f, t) ==
    IF t = {} THEN Head(set) ELSE f[t \ {Max(t)}] \o <<Comma>> \o Tail(set)[Max(t)]
Joins(set, A) == [k \in 1..Len(Tail(set)) |-> [s \in Seq(A) |-> s \o <<Comma>> \o Tail(set)[k]]]
Joined(h, set) ==
    /\ h[0] = set[1] /\ setToString(set) = h[Len(set) - 1]
    /\ \A k \in 1..(Len(set) - 1) : h[k] = h[k - 1] \o <<Comma>> \o set[k + 1]

(* Features, as they are stored and as they are sent.                      *)
Texts(W) == Seq(W \cup {Comma})

(* The join feature by feature: the text after the k-th adds to the one    *)
(* before it.                                                              *)
LEMMA JoinStepwise ==
    ASSUME NEW W, NEW set \in Seq(Seq(W)), set # <<>>
    PROVE  \E h \in [0..(Len(set) - 1) -> Texts(W)] : Joined(h, set)
<1> DEFINE A == W \cup {Comma}
           n == Len(Tail(set))
           base == Head(set)
           step == Joins(set, A)
           D == DOMAIN Tail(set)
           f == CHOOSE ff : ff = [t \in SUBSET D |-> JoinBody(set, ff, t)]
<1>1. /\ Tail(set) \in Seq(Seq(W)) /\ n = Len(set) - 1 /\ n \in Nat /\ base \in Seq(W)
      /\ \A k \in 1..n : Tail(set)[k] = set[k + 1] /\ Tail(set)[k] \in Seq(W)
      /\ D = 1..n /\ Len(set) \in Nat
  BY HeadTailProperties, LenProperties, ElementOfSeq
<1>2. \A s \in Seq(W) : s \in Seq(A)
  BY SeqMonotonic
<1>3. base \in Seq(A) /\ \A k \in 1..n : Tail(set)[k] \in Seq(A)
  BY <1>1, <1>2
<1>4. \A s, r \in Seq(A) : s \o <<Comma>> \o r \in Seq(A)
  <2> SUFFICES ASSUME NEW s \in Seq(A), NEW r \in Seq(A) PROVE s \o <<Comma>> \o r \in Seq(A)
    OBVIOUS
  <2>a. Comma \in A
    OBVIOUS
  <2> HIDE DEF A
  <2>1. <<Comma>> \in Seq(A)
    BY <2>a
  <2>2. s \o <<Comma>> \in Seq(A)
    BY <2>1, ConcatProperties
  <2> QED
    BY <2>2, ConcatProperties
<1>5. /\ step \in [1..n -> [Seq(A) -> Seq(A)]]
      /\ \A k \in 1..n : \A s \in Seq(A) : step[k][s] = s \o <<Comma>> \o Tail(set)[k]
  <2> HIDE DEF A
  <2> QED
    BY <1>3, <1>4 DEF Joins
<1>6. setToString(set) = f[D]
  BY DEF setToString, FoldLeft, MapThenFoldSet, JoinBody, Comma
<1> HIDE DEF A, n, base, step, f, D
<1>7. PICK g : LeftFold(g, step, base, n, Seq(A))
  BY <1>1, <1>3, <1>5, LeftFoldExists
<1>8. \A t \in SUBSET (1..n) : g[t] = JoinBody(set, g, t)
  <2> SUFFICES ASSUME NEW t \in SUBSET (1..n) PROVE g[t] = JoinBody(set, g, t)
    OBVIOUS
  <2>1. CASE t = {}
    BY <1>7, <2>1 DEF LeftFold, JoinBody, base
  <2>2. CASE t # {}
    <3>1. /\ Max(t) \in 1..n /\ g[t \ {Max(t)}] \in Seq(A)
          /\ g[t] = step[Max(t)][g[t \ {Max(t)}]]
      BY <1>7, <2>2 DEF LeftFold
    <3>2. g[t] = g[t \ {Max(t)}] \o <<Comma>> \o Tail(set)[Max(t)]
      BY <1>5, <3>1
    <3> QED
      BY <2>2, <3>2 DEF JoinBody
  <2> QED
    BY <2>1, <2>2
<1>9. g = [t \in SUBSET D |-> JoinBody(set, g, t)]
  <2>1. g = [t \in SUBSET (1..n) |-> g[t]]
    BY <1>7 DEF LeftFold
  <2> QED
    BY <1>1, <1>8, <2>1
<1>10. f = [t \in SUBSET D |-> JoinBody(set, f, t)]
  BY <1>9 DEF f
<1>11. \A t \in SUBSET (1..n) : f[t] = JoinBody(set, f, t)
  BY <1>1, <1>10
<1>12. LeftFollows(f, step, base, n, Seq(A))
  <2>1. f[{}] = base
    BY <1>11 DEF JoinBody, base
  <2>2. ASSUME NEW t \in SUBSET (1..n), t # {}, f[t \ {Max(t)}] \in Seq(A)
        PROVE  f[t] = step[Max(t)][f[t \ {Max(t)}]]
    <3>1. Max(t) \in 1..n
      BY <1>1, <2>2, GreatestOf
    <3>2. f[t] = f[t \ {Max(t)}] \o <<Comma>> \o Tail(set)[Max(t)]
      BY <1>11, <2>2 DEF JoinBody
    <3> QED
      BY <1>5, <2>2, <3>1, <3>2
  <2> QED
    BY <2>1, <2>2 DEF LeftFollows
<1> DEFINE h == Stages(f, n)
<1>13. IsLeft(h, step, base, n, Seq(A))
  BY <1>1, <1>3, <1>5, <1>12, LeftFollowsSteps
<1>14. h[n] = f[1..n]
  BY <1>1 DEF Stages
<1> HIDE DEF h
<1>15. /\ h \in [0..n -> Seq(A)] /\ h[0] = base
       /\ \A k \in 1..n : h[k] = step[k][h[k - 1]]
  BY <1>13 DEF IsLeft
<1>16. ASSUME NEW k \in 1..n PROVE h[k] = h[k - 1] \o <<Comma>> \o set[k + 1]
  <2>1. k - 1 \in 0..n
    BY <1>1
  <2>2. h[k - 1] \in Seq(A)
    BY <1>15, <2>1
  <2> QED
    BY <1>1, <1>5, <1>15, <2>2, ZenonT(30)
<1>17. base = set[1]
  BY DEF base
<1>18. Joined(h, set)
  BY <1>1, <1>6, <1>14, <1>15, <1>16, <1>17 DEF Joined
<1> QED
  BY <1>1, <1>15, <1>18 DEF A, Texts

(* A concatenation may be put together from either side.                   *)
Associate(r, s, t) == (r \o s) \o t = r \o (s \o t)

(* ... if the three are sequences.                                         *)
LEMMA ConcatAssociates ==
    ASSUME NEW A, NEW r \in Seq(A), NEW s \in Seq(A), NEW t \in Seq(A)
    PROVE  Associate(r, s, t)
  BY ConcatAssociative DEF Associate

(* A concatenation of five, from the right and from the left.              *)
Regrouped(a, c, u, w) == (a \o c) \o ((u \o c) \o w) = (((a \o c) \o u) \o c) \o w

(* ... of texts.                                                           *)
LEMMA Regroup ==
    ASSUME NEW A, NEW a \in Seq(A), NEW c \in Seq(A), NEW u \in Seq(A), NEW w \in Seq(A)
    PROVE  Regrouped(a, c, u, w)
<1> DEFINE p == a \o c
           q == u \o c
<1>1. p \in Seq(A) /\ q \in Seq(A)
  BY ConcatProperties
<1> HIDE DEF p, q
<1>2. Associate(p, u, c) /\ Associate(p, q, w)
  BY <1>1, ConcatAssociates
<1> QED
  BY <1>2 DEF p, q, Associate, Regrouped

(* The text up to a feature is taken apart into the features up to there,  *)
(* whatever follows.                                                       *)
TakenApart(k, h, set, w) ==
    tokenize(h[k] \o <<Comma>> \o w, Comma) = SubSeq(set, 1, k + 1) \o tokenize(w, Comma)

(* ... if what follows can be taken apart.                                 *)
LEMMA JoinTokens ==
    ASSUME NEW W, Comma \notin W, NEW set \in Seq(Seq(W)), set # <<>>,
           NEW h \in [0..(Len(set) - 1) -> Texts(W)], Joined(h, set)
    PROVE  \A k \in 0..(Len(set) - 1) : \A w \in Texts(W) :
               tokenize(w, Comma) \in Seq(Seq(W)) => TakenApart(k, h, set, w)
<1> DEFINE A == W \cup {Comma}
           n == Len(set) - 1
           Right(k) == \A w \in Seq(A) :
                           tokenize(w, Comma) \in Seq(Seq(W)) => TakenApart(k, h, set, w)
           S == {k \in Nat : k <= n => Right(k)}
<1>1. /\ n \in Nat /\ Len(set) \in Nat /\ Len(set) = n + 1
      /\ \A k \in 1..Len(set) : set[k] \in Seq(W)
  BY LenProperties, EmptySeq, ElementOfSeq
<1>2. /\ W \subseteq A /\ Comma \in A /\ Comma \notin W
      /\ h \in [0..n -> Seq(A)] /\ h[0] = set[1]
      /\ \A k \in 1..n : h[k] = h[k - 1] \o <<Comma>> \o set[k + 1]
  BY DEF Joined, Texts
<1> HIDE DEF A, n
<1>3. \A s \in Seq(W) : s \in Seq(A)
  BY <1>2, SeqMonotonic
<1>4. <<Comma>> \in Seq(A)
  BY <1>2
<1>5. 0 \in S
  <2> SUFFICES Right(0)
    OBVIOUS
  <2> SUFFICES ASSUME NEW w \in Seq(A), NEW T \in Seq(Seq(W)), tokenize(w, Comma) = T
               PROVE  tokenize(h[0] \o <<Comma>> \o w, Comma) = SubSeq(set, 1, 0 + 1) \o T
    BY DEF TakenApart
  <2>1. set[1] \in Seq(W) /\ SubSeq(set, 1, 1) = <<set[1]>>
    <3>1. 1 \in 1..Len(set)
      BY <1>1
    <3>2. set[1] \in Seq(W)
      BY <1>1, <3>1
    <3> DEFINE s == SubSeq(set, 1, 1)
    <3>3. s \in Seq(Seq(W)) /\ Len(s) = 1 /\ s[1] = set[1]
      <4>1. \A i \in 1..1 : set[i] \in Seq(W)
        BY <3>2
      <4>2. /\ s \in Seq(Seq(W)) /\ Len(s) = (IF 1 <= 1 THEN 1 - 1 + 1 ELSE 0)
            /\ \A i \in 1..1 - 1 + 1 : s[i] = set[1 + i - 1]
        BY <4>1, SubSeqProperties
      <4> HIDE DEF s
      <4> QED
        BY <4>2
    <3> HIDE DEF s
    <3>4. s = <<set[1]>>
      BY <3>3
    <3> QED
      BY <3>2, <3>4 DEF s
  <2>2. tokenize(set[1] \o <<Comma>> \o w, Comma) = <<set[1]>> \o tokenize(w, Comma)
    <3>1. Divided(set[1], w, Comma)
      BY <1>2, <2>1, FirstSeparator
    <3> QED
      BY <3>1 DEF Divided
  <2>3. 0 + 1 = 1
    OBVIOUS
  <2> QED
    BY <1>2, <2>1, <2>2, <2>3
<1>6. ASSUME NEW k \in Nat, k \in S PROVE k + 1 \in S
  <2> SUFFICES ASSUME k + 1 <= n PROVE Right(k + 1)
    <3>1. k + 1 \in Nat
      OBVIOUS
    <3> HIDE DEF Right
    <3> QED
      BY <3>1
  <2> SUFFICES ASSUME NEW w \in Seq(A), NEW T \in Seq(Seq(W)), tokenize(w, Comma) = T
               PROVE  tokenize(h[k + 1] \o <<Comma>> \o w, Comma) = SubSeq(set, 1, (k + 1) + 1) \o T
    BY DEF TakenApart
  <2> DEFINE u == set[k + 2]
             r == u \o <<Comma>> \o w
             U == <<u>> \o T
  <2>1. /\ k <= n /\ k \in 0..n /\ k + 1 \in 1..n /\ (k + 1) - 1 = k /\ (k + 1) + 1 = k + 2
        /\ k + 2 \in 1..Len(set)
    BY <1>1
  <2>2. u \in Seq(W) /\ h[k] \in Seq(A) /\ h[k + 1] = h[k] \o <<Comma>> \o u
    BY <1>1, <1>2, <2>1
  <2>3. u \in Seq(A) /\ <<u>> \in Seq(Seq(W))
    BY <1>3, <2>2
  <2>4. U \in Seq(Seq(W))
    <3> HIDE DEF u
    <3> QED
      BY <2>3, ConcatProperties
  <2>5. r \in Seq(A)
    <3> HIDE DEF u
    <3>1. u \o <<Comma>> \in Seq(A)
      BY <1>4, <2>3, ConcatProperties
    <3> QED
      BY <3>1, ConcatProperties
  <2>6. tokenize(r, Comma) = U
    <3> HIDE DEF u
    <3>1. tokenize(u \o <<Comma>> \o w, Comma) = <<u>> \o tokenize(w, Comma)
      <4>1. Divided(u, w, Comma)
        BY <1>2, <2>2, FirstSeparator
      <4> QED
        BY <4>1 DEF Divided
    <3> QED
      BY <3>1
  <2>7. tokenize(h[k] \o <<Comma>> \o r, Comma) = SubSeq(set, 1, k + 1) \o U
    <3>1. Right(k)
      BY <1>6, <2>1
    <3> HIDE DEF r, U
    <3>2. TakenApart(k, h, set, r)
      BY <2>4, <2>5, <2>6, <3>1
    <3> QED
      BY <2>6, <3>2 DEF TakenApart
  <2>8. h[k] \o <<Comma>> \o r = h[k + 1] \o <<Comma>> \o w
    <3> HIDE DEF u
    <3> DEFINE a == h[k]
               c == <<Comma>>
    <3>1. a \in Seq(A) /\ c \in Seq(A) /\ u \in Seq(A) /\ w \in Seq(A)
      BY <1>4, <2>2, <2>3
    <3> HIDE DEF a, c
    <3>2. Regrouped(a, c, u, w)
      BY <3>1, Regroup
    <3> QED
      BY <2>2, <3>2 DEF a, c, Regrouped
  <2>9. SubSeq(set, 1, k + 1) \o U = SubSeq(set, 1, k + 2) \o T
    <3> DEFINE s == SubSeq(set, 1, k + 1)
    <3>1. \A i \in 1..(k + 1) : set[i] \in Seq(W)
      BY <1>1, <2>1
    <3>2. s \in Seq(Seq(W))
      BY <3>1, SubSeqProperties
    <3>3. SubSeq(set, 1, k + 2) = s \o <<u>>
      <4>1. 1 \in 1..Len(set) /\ k + 2 \in 1..Len(set) /\ (k + 2) - 1 = k + 1
        BY <1>1, <2>1
      <4>2. SubSeq(set, 1, k + 2) = SubSeq(set, 1, (k + 2) - 1) \o <<set[k + 2]>>
        BY <4>1, SubSeqRecursiveSecond
      <4> QED
        BY <4>1, <4>2
    <3> DEFINE t == <<u>>
    <3>4. t \in Seq(Seq(W))
      BY <2>3
    <3> HIDE DEF s, t
    <3>5. Associate(s, t, T)
      BY <3>2, <3>4, ConcatAssociates
    <3> QED
      BY <3>3, <3>5 DEF s, t, Associate
  <2> QED
    BY <2>1, <2>7, <2>8, <2>9
<1>7. Nat \subseteq S
  <2>1. \A k \in Nat : k \in S => k + 1 \in S
    BY <1>6
  <2> HIDE DEF S
  <2> QED
    BY <1>5, <2>1, Induction
<1>8. ASSUME NEW k \in 0..n PROVE Right(k)
  <2>1. k \in Nat /\ k <= n
    BY <1>1
  <2>2. k \in S
    BY <1>7, <2>1
  <2> HIDE DEF Right
  <2> QED
    BY <2>1, <2>2
<1> QED
  BY <1>8 DEF n, A, Texts

(* The features come back, if the last of them is not empty, and in the    *)
(* text there is nothing that ends it.                                     *)
LEMMA FeaturesComeBack ==
    ASSUME NEW W, Comma \notin W, NEW set \in Seq(Seq(W)), set # <<>>, set[Len(set)] # <<>>
    PROVE  /\ stringToSet(setToString(set)) = set
           /\ setToString(set) \in Texts(W) /\ setToString(set) # <<>>
<1> DEFINE n == Len(set) - 1
           u == set[Len(set)]
           text == setToString(set)
<1>1. PICK h \in [0..n -> Texts(W)] : Joined(h, set)
  BY JoinStepwise
<1>2. /\ n \in Nat /\ Len(set) \in Nat /\ Len(set) = n + 1 /\ Len(set) \in 1..Len(set)
      /\ u \in Seq(W) /\ n \in 0..n /\ set[n + 1] = u
  BY LenProperties, EmptySeq, ElementOfSeq
<1>a. stringToSet(text) = tokenize(text, Comma)
  BY DEF stringToSet, Comma
<1>3. text = h[n] /\ text \in Texts(W)
  BY <1>1, <1>2 DEF Joined
<1>b. \A k \in 0..n : \A w \in Texts(W) :
          tokenize(w, Comma) \in Seq(Seq(W)) => TakenApart(k, h, set, w)
  BY <1>1, JoinTokens
<1>4. tokenize(u, Comma) = <<u>>
  BY <1>2, NoSeparator
<1>5. u \in Texts(W) /\ <<Comma>> \in Texts(W)
  <2>1. Comma \in W \cup {Comma}
    OBVIOUS
  <2> HIDE DEF u
  <2> QED
    BY <1>2, <2>1, SeqMonotonic DEF Texts
<1>6. CASE n = 0
  <2>1. text = u
    <3>1. h[0] = set[1]
      BY <1>1 DEF Joined
    <3>2. set[1] = u
      <4> HIDE DEF n, u
      <4>1. n + 1 = 1
        BY <1>6
      <4> QED
        BY <1>2, <4>1
    <3> HIDE DEF text, u
    <3> QED
      BY <1>3, <1>6, <3>1, <3>2
  <2>2. Len(set) = 1 /\ set[1] = u
    BY <1>2, <1>6
  <2>3. set = <<u>>
    BY <2>2
  <2> QED
    BY <1>3, <1>4, <1>a, <2>1, <2>3
<1>7. CASE n # 0
  <2> DEFINE k == n - 1
             s == SubSeq(set, 1, n)
  <2>1. k \in 0..n /\ n \in 1..n /\ k + 1 = n
    BY <1>2, <1>7
  <2>2. text = h[k] \o <<Comma>> \o u /\ h[k] \in Texts(W)
    BY <1>1, <1>2, <1>3, <2>1 DEF Joined
  <2> HIDE DEF k, u, n
  <2>3. <<u>> \in Seq(Seq(W))
    BY <1>2
  <2>4. tokenize(text, Comma) = SubSeq(set, 1, k + 1) \o <<u>>
    <3>1. TakenApart(k, h, set, u)
      BY <1>4, <1>5, <1>b, <2>1, <2>3
    <3> QED
      BY <1>4, <2>2, <3>1 DEF TakenApart
  <2>5. set = s \o <<u>>
    <3>1. 1 \in 1..Len(set) /\ Len(set) \in 1..Len(set) /\ Len(set) - 1 = n
      BY <1>2
    <3>2. SubSeq(set, 1, Len(set)) = SubSeq(set, 1, Len(set) - 1) \o <<set[Len(set)]>>
      BY <3>1, SubSeqRecursiveSecond
    <3>3. SubSeq(set, 1, Len(set)) = set
      BY SubSeqFull
    <3> QED
      BY <3>1, <3>2, <3>3 DEF u
  <2>6. text # <<>>
    <3>1. h[k] \o <<Comma>> \in Texts(W) /\ Len(h[k] \o <<Comma>>) = Len(h[k]) + 1 /\ Len(h[k]) \in Nat
      BY <1>5, <2>2, ConcatProperties, LenProperties DEF Texts
    <3>2. h[k] \o <<Comma>> # <<>>
      BY <3>1, EmptySeq
    <3> QED
      BY <1>5, <2>2, <3>1, <3>2, ConcatEqualIffEmpty, ConcatProperties DEF Texts
  <2> QED
    BY <1>3, <1>a, <2>1, <2>4, <2>5, <2>6
<1> QED
  BY <1>6, <1>7

-----------------------------------------------------------------------------
(* A banner, taken apart: what may be in a value, in a property and behind *)
(* the two colons, and the separator that is not.                          *)
Colon == ":"
Semicolon == ";"
Equals == "="
ValueLetters(W) == W \cup {"ro.product.name", "features", Comma}
PropertyLetters(W) == ValueLetters(W) \cup {Equals}
BannerLetters(W) == PropertyLetters(W) \cup {Semicolon}
Separate(W) ==
    /\ Colon \notin BannerLetters(W) /\ Semicolon \notin PropertyLetters(W)
    /\ Equals \notin ValueLetters(W) /\ Comma \notin W

(* The words of plain banners, and with them the letters of each part.     *)
LEMMA PlainSeparates == ASSUME NEW W, PlainBanners(W) PROVE Separate(W)
<1>1. Colon \notin W /\ Semicolon \notin W /\ Equals \notin W /\ Comma \notin W
  BY Zenon DEF PlainBanners, Colon, Semicolon, Equals, Comma
<1>2. \A s \in {"ro.product.name", "features"} : Colon # s /\ Semicolon # s /\ Equals # s
  BY Zenon DEF Colon, Semicolon, Equals
<1>3. /\ Colon # Semicolon /\ Colon # Equals /\ Colon # Comma
      /\ Semicolon # Equals /\ Semicolon # Comma /\ Equals # Comma
  BY Zenon DEF Colon, Semicolon, Equals, Comma
<1> QED
  BY <1>1, <1>2, <1>3, Zenon DEF Separate, BannerLetters, PropertyLetters, ValueLetters

(* Words put together.                                                     *)
LEMMA WordsJoin ==
    ASSUME NEW a, NEW b, NEW c
    PROVE  /\ <<a>> \o <<b>> = <<a, b>>
           /\ <<a, b>> \o <<c>> = <<a, b, c>>
<1>1. <<a>> \o <<b>> = Append(<<a>>, b) /\ <<a, b>> = Append(<<a>>, b)
  OBVIOUS
<1>2. <<a, b>> \o <<c>> = Append(<<a, b>>, c)
  OBVIOUS
<1>3. <<a, b, c>> = Append(<<a, b>>, c)
  OBVIOUS
<1> QED
  BY <1>1, <1>2, <1>3, Zenon

(* A key and its value.                                                    *)
LEMMA PairTokens ==
    ASSUME NEW B, NEW separator, separator \notin B, NEW key \in B, NEW v \in Seq(B), v # <<>>
    PROVE  tokenize(<<key, separator>> \o v, separator) = <<<<key>>, v>>
<1> DEFINE A == B \cup {separator}
           k == <<key>>
<1>1. B \subseteq A /\ separator \in A
  OBVIOUS
<1>2. v \in Seq(A)
  BY <1>1, SeqMonotonic
<1>3. k \in Seq(B)
  OBVIOUS
<1> HIDE DEF A, k
<1>4. Divided(k, v, separator)
  BY <1>1, <1>2, <1>3, FirstSeparator
<1>5. tokenize(v, separator) = <<v>>
  BY NoSeparator
<1>6. k \o <<separator>> = <<key, separator>> /\ <<k>> \o <<v>> = <<k, v>>
  BY WordsJoin, Zenon DEF k
<1>7. tokenize((k \o <<separator>>) \o v, separator) = <<k>> \o tokenize(v, separator)
  BY <1>4, Zenon DEF Divided
<1> QED
  BY <1>5, <1>6, <1>7, Zenon DEF k

(* The system type, the serial number, which is empty, and what is behind  *)
(* them, if there is anything.                                             *)
Headed(type, rest, separator) ==
    tokenize(<<type, separator, separator>> \o rest, separator)
        = <<<<type>>, <<>>>> \o (IF rest = <<>> THEN <<>> ELSE <<rest>>)

(* ... if nothing in the rest ends it.                                     *)
LEMMA HeadTokens ==
    ASSUME NEW B, NEW separator, separator \notin B, NEW type \in B, NEW rest \in Seq(B)
    PROVE  Headed(type, rest, separator)
<1> DEFINE A == B \cup {separator}
           t == <<type>>
           c == <<separator>>
           last == IF rest = <<>> THEN <<>> ELSE <<rest>>
<1>1. B \subseteq A /\ separator \in A
  OBVIOUS
<1>2. rest \in Seq(A)
  BY <1>1, SeqMonotonic
<1>3. t \in Seq(B) /\ c \in Seq(A) /\ <<>> \in Seq(B)
  OBVIOUS
<1>4. t \in Seq(A)
  BY <1>1, <1>3, SeqMonotonic
<1>5. tokenize(rest, separator) = last
  BY NoSeparator
<1> HIDE DEF A, t, c, last
<1>6. c \o rest \in Seq(A) /\ <<>> \o c = c
  BY <1>2, <1>3, ConcatProperties, ConcatEmptySeq
<1>7. Divided(<<>>, rest, separator) /\ Divided(t, c \o rest, separator)
  BY <1>1, <1>2, <1>3, <1>6, FirstSeparator
<1>8. tokenize(c \o rest, separator) = <<<<>>>> \o last
  BY <1>5, <1>6, <1>7 DEF Divided, c
<1>9. tokenize((t \o c) \o (c \o rest), separator) = <<t>> \o (<<<<>>>> \o last)
  BY <1>7, <1>8 DEF Divided, c
<1>10. Associate(t \o c, c, rest)
  <2>1. t \o c \in Seq(A)
    BY <1>3, <1>4, ConcatProperties
  <2> QED
    BY <1>2, <1>3, <2>1, ConcatAssociates
<1>11. (t \o c) \o c = <<type, separator, separator>>
  BY WordsJoin, Zenon DEF t, c
<1>12. tokenize(<<type, separator, separator>> \o rest, separator) = <<t>> \o (<<<<>>>> \o last)
  BY <1>9, <1>10, <1>11 DEF Associate
<1>13. <<t>> \o (<<<<>>>> \o last) = <<t, <<>>>> \o last
  BY WordsJoin DEF last
<1> QED
  BY <1>12, <1>13 DEF Headed, t, last

(* What is behind the two colons, and the properties in it.                *)
ProductPart(product) ==
    IF product = <<>> THEN <<>> ELSE (<<"ro.product.name", Equals>> \o product) \o <<Semicolon>>
FeaturesPart(features) == <<"features", Equals>> \o setToString(features)
Parts(product, features) == ProductPart(product) \o FeaturesPart(features)
Listed(product, features) ==
    (IF product = <<>> THEN <<>> ELSE <<<<"ro.product.name", Equals>> \o product>>)
    \o <<FeaturesPart(features)>>

(* What a plain banner consists of.                                        *)
PlainContent(W, type, product, features) ==
    /\ type \in W /\ product \in Seq(W) /\ features \in Seq(Seq(W))
    /\ features = <<>> \/ features[Len(features)] # <<>>

(* The parts of a banner, with what they are made of.                      *)
LEMMA PartTypes ==
    ASSUME NEW W, Separate(W), NEW type, NEW product, NEW features,
           PlainContent(W, type, product, features)
    PROVE  /\ <<"ro.product.name", Equals>> \o product \in Seq(PropertyLetters(W))
           /\ FeaturesPart(features) \in Seq(PropertyLetters(W))
           /\ ProductPart(product) \in Seq(BannerLetters(W))
           /\ FeaturesPart(features) \in Seq(BannerLetters(W))
           /\ FeaturesPart(features) # <<>>
<1> DEFINE P == PropertyLetters(W)
           B == BannerLetters(W)
           key == <<"ro.product.name", Equals>>
           word == <<"features", Equals>>
           text == setToString(features)
<1>1. /\ W \subseteq P /\ P \subseteq B /\ W \cup {Comma} \subseteq P
      /\ key \in Seq(P) /\ word \in Seq(P) /\ Len(key) = 2 /\ Len(word) = 2
      /\ <<Semicolon>> \in Seq(B)
  BY DEF PropertyLetters, BannerLetters, ValueLetters
<1> HIDE DEF P, B, key, word
<1>2. product \in Seq(P)
  BY <1>1, SeqMonotonic DEF PlainContent
<1>3. key \o product \in Seq(P)
  BY <1>1, <1>2, ConcatProperties
<1>4. key \o product \in Seq(B)
  BY <1>1, <1>3, SeqMonotonic
<1>5. (key \o product) \o <<Semicolon>> \in Seq(B)
  BY <1>1, <1>4, ConcatProperties
<1>6. ProductPart(product) \in Seq(B)
  <2>1. <<>> \in Seq(B)
    OBVIOUS
  <2> QED
    BY <1>5, <2>1, Zenon DEF ProductPart, key
<1>7. text \in Seq(P)
  <2>1. CASE features = <<>>
    <3>1. text = <<>>
      BY <2>1, Zenon DEF setToString
    <3>2. <<>> \in Seq(P)
      OBVIOUS
    <3> QED
      BY <3>1, <3>2, Zenon
  <2>2. CASE features # <<>>
    <3>1. features \in Seq(Seq(W)) /\ features[Len(features)] # <<>> /\ Comma \notin W
      BY <2>2 DEF PlainContent, Separate
    <3>2. text \in Texts(W)
      BY <2>2, <3>1, FeaturesComeBack
    <3> QED
      BY <1>1, <3>2, SeqMonotonic DEF Texts
  <2> QED
    BY <2>1, <2>2
<1> HIDE DEF text
<1>8. FeaturesPart(features) \in Seq(P) /\ FeaturesPart(features) # <<>>
  <2>1. FeaturesPart(features) = word \o text
    BY Zenon DEF FeaturesPart, word, text
  <2>2. word \o text \in Seq(P) /\ Len(word \o text) = Len(word) + Len(text)
    BY <1>1, <1>7, ConcatProperties
  <2>3. Len(word \o text) # 0
    <3>1. Len(text) \in Nat
      BY <1>7, LenProperties
    <3> QED
      BY <1>1, <2>2, <3>1
  <2>4. Len(<<>>) = 0
    OBVIOUS
  <2> QED
    BY <2>1, <2>2, <2>3, <2>4, Zenon
<1>9. FeaturesPart(features) \in Seq(B)
  BY <1>1, <1>8, SeqMonotonic
<1> QED
  BY <1>3, <1>6, <1>8, <1>9, Zenon DEF P, B, key

(* The third token of a banner lists its properties.                       *)
LEMMA PropertiesListed ==
    ASSUME NEW W, Separate(W), NEW type, NEW product, NEW features,
           PlainContent(W, type, product, features)
    PROVE  /\ tokenize(Parts(product, features), Semicolon) = Listed(product, features)
           /\ Parts(product, features) \in Seq(BannerLetters(W))
           /\ Parts(product, features) # <<>>
<1> DEFINE P == PropertyLetters(W)
           B == BannerLetters(W)
           u == <<"ro.product.name", Equals>> \o product
           v == FeaturesPart(features)
           last == <<v>>
<1>1. /\ u \in Seq(P) /\ v \in Seq(P) /\ v \in Seq(B) /\ ProductPart(product) \in Seq(B)
      /\ v # <<>>
  BY PartTypes
<1>2. P \subseteq B /\ Semicolon \in B /\ Semicolon \notin P
  BY DEF BannerLetters, Separate
<1>3. Parts(product, features) = ProductPart(product) \o v
  BY Zenon DEF Parts
<1>4. Listed(product, features) = (IF product = <<>> THEN <<>> ELSE <<u>>) \o last
  BY Zenon DEF Listed
<1>5. ProductPart(product) = IF product = <<>> THEN <<>> ELSE u \o <<Semicolon>>
  BY Zenon DEF ProductPart
<1> HIDE DEF P, B, u, v
<1>6. tokenize(v, Semicolon) = last
  BY <1>1, <1>2, NoSeparator
<1> HIDE DEF last
<1>7. Parts(product, features) \in Seq(B)
  BY <1>1, <1>3, ConcatProperties
<1>8. CASE product = <<>>
  <2>1. <<>> \o v = v /\ <<>> \o last = last
    <3>1. <<>> \o v = v
      BY <1>1, ConcatEmptySeq
    <3>2. <<>> \o last = last
      BY DEF last
    <3> QED
      BY <3>1, <3>2
  <2> QED
    BY <1>1, <1>3, <1>4, <1>5, <1>6, <1>7, <1>8, <2>1, Zenon DEF B
<1>9. CASE product # <<>>
  <2>1. Divided(u, v, Semicolon)
    BY <1>1, <1>2, FirstSeparator
  <2>2. Parts(product, features) = (u \o <<Semicolon>>) \o v
    BY <1>3, <1>5, <1>9, Zenon
  <2>3. Listed(product, features) = <<u>> \o last
    BY <1>4, <1>9, Zenon
  <2>4. Parts(product, features) # <<>>
    <3>1. u \in Seq(B) /\ <<Semicolon>> \in Seq(B) /\ Len(<<Semicolon>>) = 1
      BY <1>1, <1>2, SeqMonotonic
    <3>2. /\ u \o <<Semicolon>> \in Seq(B) /\ Len(u \o <<Semicolon>>) = Len(u) + 1
          /\ Len(u) \in Nat /\ Len(v) \in Nat
      BY <1>1, <3>1, ConcatProperties, LenProperties
    <3>3. Len(Parts(product, features)) = (Len(u) + 1) + Len(v)
      BY <1>1, <2>2, <3>2, ConcatProperties
    <3>4. Len(Parts(product, features)) # 0
      BY <3>2, <3>3
    <3>5. Len(<<>>) = 0
      OBVIOUS
    <3> QED
      BY <3>4, <3>5, Zenon
  <2>5. tokenize((u \o <<Semicolon>>) \o v, Semicolon) = <<u>> \o tokenize(v, Semicolon)
    BY <2>1, Zenon DEF Divided
  <2> QED
    BY <1>6, <1>7, <2>2, <2>3, <2>4, <2>5, Zenon DEF B
<1> QED
  BY <1>8, <1>9

(* The tokens of a plain banner, and its properties.                       *)
LEMMA IdentityTokens ==
    ASSUME NEW W, Separate(W), NEW type, NEW product, NEW features,
           PlainContent(W, type, product, features)
    PROVE  LET view == IdentityString(type, product, features)
           IN  /\ SystemType(view) = <<type>> /\ tokenize(view, ":")[2] = <<>>
               /\ Properties(view) = Listed(product, features)
<1> DEFINE B == BannerLetters(W)
           view == IdentityString(type, product, features)
           rest == Parts(product, features)
           start == <<type, Colon, Colon>>
           A == B \cup {Colon}
           tokens == tokenize(view, Colon)
<1>1. /\ tokenize(rest, Semicolon) = Listed(product, features) /\ rest \in Seq(B)
      /\ rest # <<>>
  BY PropertiesListed
<1>2. /\ ProductPart(product) \in Seq(B) /\ FeaturesPart(features) \in Seq(B)
  BY PartTypes
<1>3. B \subseteq A /\ Colon \in A /\ Colon \notin B /\ type \in B
  BY DEF Separate, PlainContent, BannerLetters, PropertyLetters, ValueLetters
<1>4. view = (start \o ProductPart(product)) \o FeaturesPart(features)
  BY Zenon DEF IdentityString, ProductPart, FeaturesPart, Colon, Semicolon, Equals
<1>5. rest = ProductPart(product) \o FeaturesPart(features)
  BY Zenon DEF Parts
<1> HIDE DEF A, B, view, rest
<1>6. view = start \o rest
  <2>1. ProductPart(product) \in Seq(A) /\ FeaturesPart(features) \in Seq(A)
    BY <1>2, <1>3, SeqMonotonic
  <2>2. start \in Seq(A)
    BY <1>3
  <2> HIDE DEF start
  <2>3. Associate(start, ProductPart(product), FeaturesPart(features))
    BY <2>1, <2>2, ConcatAssociates
  <2> QED
    BY <1>4, <1>5, <2>3, Zenon DEF Associate
<1>7. tokens = <<<<type>>, <<>>>> \o <<rest>>
  <2>1. Headed(type, rest, Colon)
    BY <1>1, <1>3, HeadTokens
  <2> QED
    BY <1>1, <1>6, <2>1, Zenon DEF Headed
<1>8. tokens[1] = <<type>> /\ tokens[2] = <<>> /\ Len(tokens) = 3 /\ tokens[3] = rest
  <2>1. tokens = <<<<type>>, <<>>, rest>>
    BY <1>7, WordsJoin, Zenon
  <2> QED
    BY <2>1
<1>9. /\ SystemType(view) = tokens[1] /\ tokenize(view, ":")[2] = tokens[2]
      /\ Properties(view) = IF Len(tokens) > 2 THEN tokenize(tokens[3], Semicolon) ELSE <<>>
  BY Zenon DEF SystemType, Properties, Colon, Semicolon
<1> HIDE DEF tokens
<1>10. Properties(view) = Listed(product, features)
  <2>1. Len(tokens) > 2
    BY <1>8
  <2> QED
    BY <1>1, <1>8, <1>9, <2>1, Zenon
<1> QED
  BY <1>8, <1>9, <1>10, Zenon DEF view

(* A key without a value.                                                  *)
LEMMA LoneKey ==
    ASSUME NEW B, NEW separator, separator \notin B, NEW key \in B
    PROVE  tokenize(<<key, separator>> \o <<>>, separator) = <<<<key>>>>
<1> DEFINE A == B \cup {separator}
           k == <<key>>
           none == <<>>
<1>1. B \subseteq A /\ separator \in A /\ none \in Seq(A) /\ none \in Seq(B) /\ k \in Seq(B)
  OBVIOUS
<1>2. tokenize(none, separator) = <<>>
  BY <1>1, NoSeparator
<1> HIDE DEF A, k, none
<1>3. Divided(k, none, separator)
  BY <1>1, FirstSeparator
<1>4. tokenize((k \o <<separator>>) \o none, separator) = <<k>> \o tokenize(none, separator)
  BY <1>3, Zenon DEF Divided
<1>5. k \o <<separator>> = <<key, separator>>
  BY WordsJoin, Zenon DEF k
<1>6. <<k>> \o <<>> = <<k>>
  OBVIOUS
<1>7. tokenize(<<key, separator>> \o none, separator) = <<k>>
  BY <1>2, <1>4, <1>5, <1>6, Zenon
<1> QED
  BY <1>7, Zenon DEF k, none

(* A property of a banner, taken apart.                                    *)
LEMMA PropertyTokens ==
    ASSUME NEW W, Separate(W), NEW type, NEW product, NEW features,
           PlainContent(W, type, product, features)
    PROVE  /\ product # <<>> =>
                  tokenize(<<"ro.product.name", Equals>> \o product, Equals)
                      = <<<<"ro.product.name">>, product>>
           /\ features # <<>> =>
                  tokenize(FeaturesPart(features), Equals)
                      = <<<<"features">>, setToString(features)>>
           /\ tokenize(FeaturesPart(features), Equals)[1] = <<"features">>
<1> DEFINE V == ValueLetters(W)
<1>1. /\ W \subseteq V /\ W \cup {Comma} \subseteq V /\ Equals \notin V
      /\ "ro.product.name" \in V /\ "features" \in V
  BY DEF ValueLetters, Separate
<1> HIDE DEF V
<1>2. ASSUME product # <<>>
      PROVE  tokenize(<<"ro.product.name", Equals>> \o product, Equals)
                 = <<<<"ro.product.name">>, product>>
  <2>1. product \in Seq(V)
    BY <1>1, SeqMonotonic DEF PlainContent
  <2> QED
    BY <1>1, <1>2, <2>1, PairTokens
<1>3. ASSUME features # <<>>
      PROVE  tokenize(FeaturesPart(features), Equals) = <<<<"features">>, setToString(features)>>
  <2> DEFINE text == setToString(features)
  <2>1. features \in Seq(Seq(W)) /\ features[Len(features)] # <<>> /\ Comma \notin W
    BY <1>3 DEF PlainContent, Separate
  <2>2. text \in Texts(W) /\ text # <<>>
    BY <1>3, <2>1, FeaturesComeBack
  <2> HIDE DEF text
  <2>3. text \in Seq(V)
    BY <1>1, <2>2, SeqMonotonic DEF Texts
  <2>4. tokenize(<<"features", Equals>> \o text, Equals) = <<<<"features">>, text>>
    BY <1>1, <2>2, <2>3, PairTokens
  <2>5. FeaturesPart(features) = <<"features", Equals>> \o text
    BY Zenon DEF FeaturesPart, text
  <2> QED
    BY <2>4, <2>5, Zenon DEF text
<1>4. tokenize(FeaturesPart(features), Equals)[1] = <<"features">>
  <2>1. CASE features = <<>>
    <3>1. setToString(features) = <<>>
      BY <2>1 DEF setToString
    <3>2. FeaturesPart(features) = <<"features", Equals>> \o <<>>
      BY <3>1, Zenon DEF FeaturesPart
    <3>3. tokenize(<<"features", Equals>> \o <<>>, Equals) = <<<<"features">>>>
      BY <1>1, LoneKey
    <3>4. tokenize(FeaturesPart(features), Equals) = <<<<"features">>>>
      BY <3>2, <3>3, Zenon
    <3> QED
      BY <3>4
  <2>2. CASE features # <<>>
    BY <1>3, <2>2
  <2> QED
    BY <2>1, <2>2
<1> QED
  BY <1>2, <1>3, <1>4, Zenon

(* The fields of a banner: the properties with the key of a field, and the *)
(* value of the last of them, or what is read beyond a key without one.    *)
KeyValue(view) == [i \in DOMAIN Properties(view) |-> tokenize(Properties(view)[i], Equals)]
NamedBy(view, field) == {i \in DOMAIN Properties(view) : KeyValue(view)[i][1] = <<KeyOf[field]>>}
ValueIn(view, field, beyond) ==
    LET pair == KeyValue(view)[Max(NamedBy(view, field))]
    IN  IF Len(pair) >= 2 THEN pair[2] ELSE beyond
FieldsOf(view) == {"mSerial"} \cup {f \in DOMAIN KeyOf : NamedBy(view, f) # {}}

(* What is assigned, in these terms.                                       *)
LEMMA AssignedFields ==
    ASSUME NEW view, NEW beyond
    PROVE  /\ DOMAIN Assigned(view, beyond) = FieldsOf(view)
           /\ Assigned(view, beyond)["mSerial"] = tokenize(view, ":")[2]
           /\ NamedBy(view, "mProduct") # {} =>
                  Assigned(view, beyond)["mProduct"] = ValueIn(view, "mProduct", beyond)
           /\ NamedBy(view, "mFeatureSet") # {} =>
                  Assigned(view, beyond)["mFeatureSet"] = stringToSet(ValueIn(view, "mFeatureSet", beyond))
<1> DEFINE serial == tokenize(view, ":")[2]
           Read(field) == CASE field = "mSerial"     -> serial
                            [] field = "mFeatureSet" -> stringToSet(ValueIn(view, field, beyond))
                            [] OTHER                 -> ValueIn(view, field, beyond)
<1>1. Assigned(view, beyond) = [field \in FieldsOf(view) |-> Read(field)]
  BY Zenon DEF Assigned, FieldsOf, NamedBy, ValueIn, KeyValue, Equals
<1>2. "mSerial" \in FieldsOf(view)
  BY DEF FieldsOf
<1>3. \A f \in {"mProduct", "mFeatureSet"} : NamedBy(view, f) # {} => f \in FieldsOf(view)
  BY DEF FieldsOf, KeyOf
<1>4. /\ Read("mSerial") = serial
      /\ Read("mFeatureSet") = stringToSet(ValueIn(view, "mFeatureSet", beyond))
      /\ Read("mProduct") = ValueIn(view, "mProduct", beyond)
  <2> HIDE DEF serial
  <2> QED
    OBVIOUS
<1> HIDE DEF Read, serial
<1>5. \A f \in FieldsOf(view) : Assigned(view, beyond)[f] = Read(f)
  BY <1>1
<1>6. DOMAIN Assigned(view, beyond) = FieldsOf(view)
  BY <1>1
<1> QED
  BY <1>2, <1>3, <1>4, <1>5, <1>6, Zenon DEF serial

(* A field with one property, the i-th of n.                               *)
OneNames(view, field, n, i, v) ==
    /\ n \in Nat /\ DOMAIN Properties(view) = 1..n /\ i \in 1..n
    /\ tokenize(Properties(view)[i], Equals) = <<<<KeyOf[field]>>, v>>
    /\ \A j \in 1..n : j # i => tokenize(Properties(view)[j], Equals)[1] # <<KeyOf[field]>>

(* ... has its value.                                                      *)
LEMMA OneProperty ==
    ASSUME NEW view, NEW field, NEW n, NEW i, NEW v, NEW beyond, OneNames(view, field, n, i, v)
    PROVE  NamedBy(view, field) # {} /\ ValueIn(view, field, beyond) = v
<1>0. /\ n \in Nat /\ DOMAIN Properties(view) = 1..n /\ i \in 1..n
      /\ tokenize(Properties(view)[i], Equals) = <<<<KeyOf[field]>>, v>>
      /\ \A j \in 1..n : j # i => tokenize(Properties(view)[j], Equals)[1] # <<KeyOf[field]>>
  BY DEF OneNames
<1>1. \A j \in 1..n : KeyValue(view)[j] = tokenize(Properties(view)[j], Equals)
  BY <1>0 DEF KeyValue
<1>2. /\ KeyValue(view)[i][1] = <<KeyOf[field]>> /\ KeyValue(view)[i][2] = v
      /\ Len(KeyValue(view)[i]) = 2
  BY <1>0, <1>1
<1>3. NamedBy(view, field) = {i}
  BY <1>0, <1>1, <1>2 DEF NamedBy
<1>4. Max(NamedBy(view, field)) = i
  <2>1. {i} \subseteq 1..n /\ {i} # {}
    BY <1>0
  <2>2. Max({i}) \in {i}
    BY <1>0, <2>1, GreatestOf
  <2> QED
    BY <1>3, <2>2
<1> QED
  BY <1>2, <1>3, <1>4 DEF ValueIn

(* What a plain banner assigns is what it was made of.                     *)
ReadBack(view, beyond, type, product, features) ==
    /\ SystemType(view) = <<type>>
    /\ "mSerial" \in DOMAIN Assigned(view, beyond) /\ Assigned(view, beyond)["mSerial"] = <<>>
    /\ product # <<>> => /\ "mProduct" \in DOMAIN Assigned(view, beyond)
                         /\ Assigned(view, beyond)["mProduct"] = product
    /\ features # <<>> => /\ "mFeatureSet" \in DOMAIN Assigned(view, beyond)
                          /\ Assigned(view, beyond)["mFeatureSet"] = features

(* ... if it is a plain one.                                               *)
LEMMA PlainAssigned ==
    ASSUME NEW W, Separate(W), NEW type, NEW product, NEW features,
           PlainContent(W, type, product, features), NEW beyond
    PROVE  ReadBack(IdentityString(type, product, features), beyond, type, product, features)
<1> DEFINE view == IdentityString(type, product, features)
           u == <<"ro.product.name", Equals>> \o product
           v == FeaturesPart(features)
           text == setToString(features)
           P == Properties(view)
<1>1. SystemType(view) = <<type>> /\ tokenize(view, ":")[2] = <<>> /\ P = Listed(product, features)
  BY IdentityTokens
<1>2. /\ product # <<>> => tokenize(u, Equals) = <<<<"ro.product.name">>, product>>
      /\ features # <<>> => tokenize(v, Equals) = <<<<"features">>, text>>
      /\ tokenize(v, Equals)[1] = <<"features">>
  BY PropertyTokens
<1>3. Listed(product, features) = (IF product = <<>> THEN <<>> ELSE <<u>>) \o <<v>>
  BY Zenon DEF Listed
<1>4. features # <<>> => stringToSet(text) = features
  BY FeaturesComeBack DEF PlainContent, Separate
<1>5. /\ KeyOf["mProduct"] = "ro.product.name" /\ KeyOf["mFeatureSet"] = "features"
      /\ <<"ro.product.name">> # <<"features">>
      /\ "mProduct" \in DOMAIN KeyOf /\ "mFeatureSet" \in DOMAIN KeyOf
  BY DEF KeyOf
<1> HIDE DEF u, v, text, view, P
<1>6. ASSUME product # <<>>
      PROVE  NamedBy(view, "mProduct") # {} /\ ValueIn(view, "mProduct", beyond) = product
  <2>1. P = <<u, v>>
    BY <1>1, <1>3, <1>6, WordsJoin, Zenon
  <2>2. DOMAIN P = 1..2 /\ P[1] = u /\ P[2] = v
    BY <2>1
  <2>3. \A j \in 1..2 : j # 1 => tokenize(P[j], Equals)[1] # <<"ro.product.name">>
    BY <1>2, <1>5, <2>2
  <2>4. OneNames(view, "mProduct", 2, 1, product)
    BY <1>2, <1>5, <1>6, <2>2, <2>3 DEF P, OneNames
  <2> QED
    BY <2>4, OneProperty
<1>7. ASSUME features # <<>>
      PROVE  NamedBy(view, "mFeatureSet") # {} /\ ValueIn(view, "mFeatureSet", beyond) = text
  <2>1. CASE product = <<>>
    <3>1. P = <<v>>
      BY <1>1, <1>3, <1>7, <2>1
    <3>2. DOMAIN P = 1..1 /\ P[1] = v
      BY <3>1
    <3>3. OneNames(view, "mFeatureSet", 1, 1, text)
      BY <1>2, <1>5, <1>7, <3>2 DEF P, OneNames
    <3> QED
      BY <3>3, OneProperty
  <2>2. CASE product # <<>>
    <3>1. P = <<u, v>>
      BY <1>1, <1>3, <1>7, <2>2, WordsJoin, Zenon
    <3>2. DOMAIN P = 1..2 /\ P[1] = u /\ P[2] = v
      BY <3>1
    <3>3. \A j \in 1..2 : j # 2 => tokenize(P[j], Equals)[1] # <<"features">>
      BY <1>2, <1>5, <2>2, <3>2
    <3>4. OneNames(view, "mFeatureSet", 2, 2, text)
      BY <1>2, <1>5, <1>7, <3>2, <3>3 DEF P, OneNames
    <3> QED
      BY <3>4, OneProperty
  <2> QED
    BY <2>1, <2>2
<1>8. "mSerial" \in FieldsOf(view)
  BY DEF FieldsOf
<1>9. /\ NamedBy(view, "mProduct") # {} => "mProduct" \in FieldsOf(view)
      /\ NamedBy(view, "mFeatureSet") # {} => "mFeatureSet" \in FieldsOf(view)
  BY <1>5 DEF FieldsOf
<1> QED
  BY <1>1, <1>4, <1>6, <1>7, <1>8, <1>9, AssignedFields, Zenon DEF view, ReadBack

-----------------------------------------------------------------------------
(* What processConnect gets out of a banner, whatever it reads beyond.     *)
Reads(b, assigned) ==
    /\ "mSerial" \in DOMAIN assigned /\ assigned["mSerial"] = <<>>
    /\ b.product # <<>> => "mProduct" \in DOMAIN assigned /\ assigned["mProduct"] = b.product
    /\ b.features # <<>> => /\ "mFeatureSet" \in DOMAIN assigned
                            /\ assigned["mFeatureSet"] = b.features
Legible(b) ==
    /\ TypeOf[b] = <<b.type>>
    /\ \A beyond \in OutOfRange : Reads(b, AssignedBy[b][beyond])

(* All of it, if the banners are plain.                                    *)
LEMMA PlainLegible == ASSUME NEW W, PlainBanners(W) PROVE \A b \in Banners : Legible(b)
<1> SUFFICES ASSUME NEW b \in Banners PROVE Legible(b)
  OBVIOUS
<1> DEFINE view == IdentityString(b.type, b.product, b.features)
<1>1. PlainContent(W, b.type, b.product, b.features)
  BY Zenon DEF PlainBanners, PlainContent
<1>2. Separate(W)
  BY PlainSeparates
<1>3. Text[b] = view
  BY DEF Text
<1>4. TypeOf[b] = SystemType(view)
  <2>1. TypeOf[b] = SystemType(Text[b])
    BY DEF TypeOf
  <2> QED
    BY <1>3, <2>1, Zenon
<1>5. ASSUME NEW beyond \in OutOfRange
      PROVE  Reads(b, AssignedBy[b][beyond])
  <2>1. AssignedBy[b][beyond] = Assigned(Text[b], beyond)
    BY DEF AssignedBy
  <2>2. ReadBack(view, beyond, b.type, b.product, b.features)
    BY <1>1, <1>2, PlainAssigned, Zenon
  <2> QED
    BY <1>3, <2>1, <2>2, Zenon DEF Reads, ReadBack
<1>6. SystemType(view) = <<b.type>>
  <2>1. ReadBack(view, <<>>, b.type, b.product, b.features)
    BY <1>1, <1>2, PlainAssigned, Zenon
  <2> QED
    BY <2>1, Zenon DEF ReadBack
<1> QED
  BY <1>4, <1>5, <1>6, Zenon DEF Legible

(* The banner accepted last, if any, and what has been read of it.         *)
WasRead(b) == /\ details.mSerial = <<>>
              /\ b.product \in {<<>>, details.mProduct}
              /\ b.features \in {<<>>, details.mFeatureSet}
BannerInv ==
    /\ \A b, c \in accepted : b = c
    /\ \A b \in accepted : mSystemType = b.type
    /\ accepted = {} => details = NoDetails
    /\ handling # "details" => \A b \in accepted : WasRead(b)

(* A step that touches neither the banner nor the details.                 *)
LEMMA BannerUntouched ==
    BannerInv /\ UNCHANGED <<mSystemType, details, accepted>>
        /\ (handling' = "details" \/ handling # "details") => BannerInv'
  BY DEF BannerInv, WasRead

(* The steps of connect(), of the event thread and of the device keep it.  *)
LEMMA BannerStep ==
    ASSUME \A b \in Banners : Legible(b), TypeOK, BannerInv, [Next]_vars
    PROVE  BannerInv'
<1>1. CASE \/ Connect \/ SpuriousWake \/ AppStep \/ Disconnected \/ DeviceReads
           \/ DeviceConfirmsKey \/ UNCHANGED vars
  <2>1. UNCHANGED <<mSystemType, details, accepted>> /\ (handling' = "details" \/ handling # "details")
    BY <1>1 DEF Connect, SpuriousWake, AppStep, ConnectMarks, ConnectWaits, ConnectChecks,
         ConnectGivesUp, Disconnected, DeviceReads, DeviceConfirmsKey, vars, state
  <2> QED
    BY <2>1, BannerUntouched
<1>2. CASE ProcessConnect \/ Notifies \/ ProcessAuth \/ AuthStops \/ AuthSigns \/ AuthStopsAgain
  <2>1. UNCHANGED <<mSystemType, details, accepted>> /\ handling # "details"
    BY <1>2 DEF ProcessConnect, Notifies, ProcessAuth, AuthStops, AuthSigns, AuthStopsAgain,
         Arrives, state
  <2> QED
    BY <2>1, BannerUntouched
<1>3. CASE ConnectSetsType
  <2>1. PICK b \in banner :
            \/ /\ mSystemType' = Head(TypeOf[b]) /\ accepted' = {b} /\ handling' = "details"
            \/ UNCHANGED <<mSystemType, accepted>> /\ handling' = "idle"
    BY <1>3 DEF ConnectSetsType
  <2>2. b \in Banners /\ handling = "connect" /\ details' = details
    BY <1>3 DEF ConnectSetsType, TypeOK
  <2>3. TypeOf[b] = <<b.type>>
    BY <2>2 DEF Legible
  <2>4. CASE UNCHANGED <<mSystemType, accepted>> /\ handling' = "idle"
    BY <2>2, <2>4, BannerUntouched
  <2>5. CASE mSystemType' = Head(TypeOf[b]) /\ accepted' = {b} /\ handling' = "details"
    BY <2>3, <2>5 DEF BannerInv
  <2> QED
    BY <2>1, <2>4, <2>5
<1>4. CASE ConnectSetsDetails
  <2>1. PICK b \in accepted, beyond \in OutOfRange :
            details' = [field \in DOMAIN details |->
                            IF field \in DOMAIN AssignedBy[b][beyond]
                            THEN AssignedBy[b][beyond][field] ELSE details[field]]
    BY <1>4 DEF ConnectSetsDetails
  <2>2. UNCHANGED <<mSystemType, accepted>>
    BY <1>4 DEF ConnectSetsDetails
  <2> DEFINE assigned == AssignedBy[b][beyond]
  <2>3. Reads(b, assigned)
    BY DEF TypeOK, Legible
  <2>4. {"mSerial", "mProduct", "mFeatureSet"} \subseteq DOMAIN details
    BY DEF TypeOK, NoDetails, KeyOf
  <2> HIDE DEF assigned
  <2>5. \A f \in {"mSerial", "mProduct", "mFeatureSet"} :
            f \in DOMAIN assigned => details'[f] = assigned[f]
    BY <2>1, <2>4 DEF assigned
  <2>6. WasRead(b)'
    BY <2>3, <2>5 DEF Reads, WasRead
  <2>7. \A c \in accepted : c = b
    BY DEF BannerInv
  <2> QED
    BY <2>2, <2>6, <2>7 DEF BannerInv
<1> QED
  BY <1>1, <1>2, <1>3, <1>4 DEF Next, EventStep

(* What a device announces is what the application reads, whatever its     *)
(* words are, as long as none of them is a separator and the last feature  *)
(* is not empty: tokenize takes the banner apart as setToString and        *)
(* sendConnect put one together, a read past the end of a vector spoils    *)
(* only the features of a banner that has none, and connect() called again *)
(* in between leaves nothing of another banner.                            *)
THEOREM BannerIsRead ==
    ASSUME NEW CONSTANT Words, PlainBanners(Words)
    PROVE  Spec => []AnnouncedIsRead
<1>1. \A b \in Banners : Legible(b)
  BY PlainLegible
<1>2. Init => BannerInv
  BY DEF Init, BannerInv
<1>3. TypeOK /\ BannerInv /\ [Next]_vars => BannerInv'
  BY <1>1, BannerStep
<1>4. BannerInv => AnnouncedIsRead
  BY DEF BannerInv, AnnouncedIsRead, WasRead
<1> QED
  BY <1>2, <1>3, <1>4, Typing, PTL DEF Spec
=============================================================================
