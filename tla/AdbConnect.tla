----------------------------- MODULE AdbConnect -----------------------------
(***************************************************************************)
(* How an AdbDevice gets from OFFLINE to a connected state or gives up     *)
(* (src/src/AdbDevice.cpp): connect() on a thread of the application, and  *)
(* processConnect, processAuth and errorListener on the event thread.      *)
(*                                                                         *)
(* The two threads share mConnectionState and the condition variable       *)
(* mConnected, and no mutex: connect() locks one of its own.  A step is an *)
(* access to one of them with the thread's other work up to the next       *)
(* access; a handler that reads the state, writes it and notifies has      *)
(* three steps.                                                            *)
(*                                                                         *)
(* External.  The device answers each packet with a token (AUTH), with its *)
(* banner (CNXN) or not at all, and a banner may follow a public key late, *)
(* when its user confirms the key.  Packets arrive in order.               *)
(***************************************************************************)
EXTENDS Sequences, Naturals, FiniteSets, FiniteSetsExt, Banner

CONSTANTS NumKeys,           \* mPrivateKeyPaths.size()
          KeyFiles,          \* what a key file may be, out of KeyFileKinds
          PublicKeys,        \* what mPublicKeyPath may name, out of PublicKeyKinds
          SystemTypes,       \* the system types of setSystemType
          Greetings,         \* its CNXN packets: [banner, version, max] (arg0, arg1),
                             \* where a banner is [type, product, features]
          Tokens,            \* tokens an AUTH may bring, out of TokenKinds
          MinVersion, OwnVersion,           \* A_VERSION_MIN, A_VERSION
          MaxPayloadV1,                     \* MAX_PAYLOAD_V1
          OutOfRange,        \* the texts that a read past the end of a vector may give
          SpuriousWakeups,   \* mConnected may wake connect() on its own
          MaxConnects        \* bound: calls of connect()

KeyFileKinds == {"unreadable", "cannotSign", "ok"}
PublicKeyKinds == {"none", "unreadable", "ok"}
TokenKinds == {"full", "empty", "bare"}   \* with data, a payload without, no payload at all
Banners == {g.banner : g \in Greetings}
Text == [b \in Banners |-> IdentityString(b.type, b.product, b.features)]
TypeOf == [b \in Banners |-> SystemType(Text[b])]
AssignedBy == [b \in Banners |-> [beyond \in OutOfRange |-> Assigned(Text[b], beyond)]]
Waiting == {"CONNECTING", "AUTHORIZING", "UNAUTHORIZED"}

ASSUME ConnectAssumption ==
    /\ NumKeys \in Nat /\ MaxConnects \in Nat
    /\ KeyFiles \subseteq KeyFileKinds /\ PublicKeys \subseteq PublicKeyKinds
    /\ SystemTypes \cap (Waiting \cup {"OFFLINE", "none"}) = {}
    /\ Tokens \subseteq TokenKinds
    /\ \A g \in Greetings : g.version \in Nat /\ g.max \in Nat
    /\ MinVersion \in Nat /\ OwnVersion \in Nat /\ MaxPayloadV1 \in Nat
    /\ SpuriousWakeups \in BOOLEAN

VARIABLES
    mConnectionState, mSystemType,
    details,              \* mSerial, mProduct, mModel, mDevice, mFeatureSet
    accepted,             \* the banner the state is from: read by the handler
    mVersion, mMaxPayloadSize,
    mNextKey, mPublicIsAlreadyTried,
    keyFile, publicKey,   \* the files behind mPrivateKeyPaths and mPublicKeyPath
    app,                  \* where connect() is
    connects,             \* calls of connect() so far
    handling,             \* where the event thread is
    banner, token,        \* what processConnect and processAuth work on
    toDevice, toHost,     \* packets on their way
    prompted,             \* the device has a public key to confirm
    disconnected,         \* the transport reported TRANSPORT_DISCONNECTED
    offers                \* history: the keys sent, the public key as NumKeys

state  == <<mConnectionState, mSystemType, details, accepted>>
limits == <<mVersion, mMaxPayloadSize>>
keys   == <<mNextKey, mPublicIsAlreadyTried, offers>>
files  == <<keyFile, publicKey>>
packet == <<banner, token>>
wire   == <<toDevice, toHost, prompted, disconnected>>
vars == <<state, limits, keys, files, app, connects, handling, packet, wire>>

Keys == 0..(NumKeys - 1)
PublicKeyOffer == NumKeys

HostPackets == [cmd : {"CNXN", "SIGNATURE", "RSAPUBLICKEY"}]
DevicePackets == [cmd : {"CNXN"}, greeting : Greetings] \cup [cmd : {"AUTH"}, token : Tokens]

HandlerSteps == {"idle", "connect", "details", "auth", "stopped", "stop", "notify"}

TypeOK ==
    /\ mConnectionState \in Waiting \cup {"OFFLINE"} \cup SystemTypes
    /\ mSystemType \in SystemTypes \cup {"none"}
    /\ DOMAIN details = DOMAIN NoDetails /\ accepted \in SUBSET Banners
    /\ mVersion \in Nat /\ mMaxPayloadSize \in Nat
    /\ mNextKey \in Nat /\ mPublicIsAlreadyTried \in BOOLEAN
    /\ keyFile \in [Keys -> KeyFiles] /\ publicKey \in PublicKeys
    /\ app \in {"idle", "sent", "marked", "waiting", "woken", "refused"}
    /\ connects \in Nat
    /\ handling \in HandlerSteps
    /\ banner \in SUBSET Banners /\ token \in TokenKinds \cup {"none"}
    /\ toDevice \in Seq(HostPackets) /\ toHost \in Seq(DevicePackets)
    /\ prompted \in BOOLEAN /\ disconnected \in BOOLEAN
    /\ offers \in Seq(0..NumKeys)

isConnected == mConnectionState \in SystemTypes
isAwaitingConnection == mConnectionState \in Waiting

Init ==
    /\ mConnectionState = "OFFLINE" /\ mSystemType = "none"
    /\ details = NoDetails /\ accepted = {}
    /\ mVersion = OwnVersion /\ mMaxPayloadSize = MaxPayloadV1
    /\ mNextKey = 0 /\ mPublicIsAlreadyTried = FALSE
    /\ keyFile \in [Keys -> KeyFiles] /\ publicKey \in PublicKeys
    /\ app = "idle" /\ connects = 0
    /\ handling = "idle" /\ banner = {} /\ token = "none"
    /\ toDevice = <<>> /\ toHost = <<>> /\ prompted = FALSE /\ disconnected = FALSE
    /\ offers = <<>>

-----------------------------------------------------------------------------
(* connect().                                                              *)

Transmit(c) == toDevice' = IF disconnected THEN toDevice ELSE Append(toDevice, [cmd |-> c])

(* sendConnect.  The application calls connect() as the assertion demands, *)
(* in the state OFFLINE.                                                   *)
Connect ==
    /\ app = "idle" /\ mConnectionState = "OFFLINE" /\ connects < MaxConnects
    /\ app' = "sent" /\ connects' = connects + 1
    /\ Transmit("CNXN")
    /\ UNCHANGED <<state, limits, keys, files, handling, packet, toHost, prompted, disconnected>>

(* setConnectionState(CONNECTING), whatever has happened since the send.   *)
ConnectMarks ==
    /\ app = "sent"
    /\ app' = "marked"
    /\ mConnectionState' = "CONNECTING"
    /\ UNCHANGED <<mSystemType, details, accepted, limits, keys, files, connects, handling,
                   packet, wire>>

(* mConnected.wait(lock), without a predicate.                             *)
ConnectWaits ==
    /\ app = "marked"
    /\ app' = "waiting"
    /\ UNCHANGED <<state, limits, keys, files, connects, handling, packet, wire>>

SpuriousWake ==
    /\ SpuriousWakeups /\ app = "waiting"
    /\ app' = "woken"
    /\ UNCHANGED <<state, limits, keys, files, connects, handling, packet, wire>>

(* if (!isConnected())                                                     *)
ConnectChecks ==
    /\ app = "woken"
    /\ app' = IF isConnected THEN "idle" ELSE "refused"
    /\ UNCHANGED <<state, limits, keys, files, connects, handling, packet, wire>>

(* setConnectionState(OFFLINE), whatever has happened since the check.     *)
ConnectGivesUp ==
    /\ app = "refused"
    /\ app' = "idle"
    /\ mConnectionState' = "OFFLINE"
    /\ UNCHANGED <<mSystemType, details, accepted, limits, keys, files, connects, handling,
                   packet, wire>>

-----------------------------------------------------------------------------
(* The event thread.                                                       *)

(* mConnected.notify_one(): lost when connect() is not waiting yet.        *)
NotifyConnectedNobody == UNCHANGED app
NotifyConnected == app' = IF app = "waiting" THEN "woken" ELSE app

Arrives(c) == /\ handling = "idle" /\ ~disconnected
              /\ toHost # <<>> /\ Head(toHost).cmd = c
              /\ toHost' = Tail(toHost)

LesserOf(a, b) == IF a < b THEN a ELSE b

(* setVersion, which limits the payloads of obsolete devices, and then     *)
(* setMaxData.                                                             *)
Negotiate(version, max) ==
    /\ mVersion' = LesserOf(version, mVersion)
    /\ mMaxPayloadSize' = LesserOf(max, IF mVersion' < MinVersion THEN MaxPayloadV1
                                        ELSE mMaxPayloadSize)

(* setSystemType: whether the banner names a system type it knows.         *)
setSystemTypeAny(name) == TRUE
setSystemType(name) == name \in {<<type>> : type \in SystemTypes}

(* processConnect up to isAwaitingConnection().                            *)
ProcessConnect ==
    /\ Arrives("CNXN")
    /\ LET p == Head(toHost).greeting
       IN  /\ Negotiate(p.version, p.max)
           /\ \/ /\ isAwaitingConnection
                 /\ handling' = "connect" /\ banner' = {p.banner}
              \/ /\ ~isAwaitingConnection
                 /\ UNCHANGED <<handling, banner>>
    /\ UNCHANGED <<state, keys, files, app, connects, token, toDevice, prompted, disconnected>>

(* setSystemType, whatever has happened to the state since.  A banner that *)
(* names an unknown type ends the handler: OFFLINE, and nobody is notified.*)
ConnectSetsType ==
    /\ handling = "connect"
    /\ banner' = {}
    /\ \E b \in banner :
           \/ /\ setSystemType(TypeOf[b])
              /\ mConnectionState' = Head(TypeOf[b]) /\ mSystemType' = Head(TypeOf[b])
              /\ accepted' = {b}
              /\ handling' = "details"
           \/ /\ ~setSystemType(TypeOf[b])
              /\ mConnectionState' = "OFFLINE"
              /\ UNCHANGED <<mSystemType, accepted>>
              /\ handling' = "idle"
    /\ UNCHANGED <<details, limits, keys, files, app, connects, token, wire>>

(* The details of the banner.                                              *)
ConnectSetsDetails ==
    /\ handling = "details"
    /\ handling' = "notify"
    /\ \E b \in accepted, beyond \in OutOfRange :
           details' = [field \in DOMAIN details |->
                           IF field \in DOMAIN AssignedBy[b][beyond]
                           THEN AssignedBy[b][beyond][field] ELSE details[field]]
    /\ UNCHANGED <<mConnectionState, mSystemType, accepted, limits, keys, files, app, connects,
                   packet, wire>>

(* The notification that follows a write of the state: in processConnect,  *)
(* in processAuth or in the stopConnecting() of sendPublicKey, after which *)
(* processAuth calls stopConnecting() itself.                              *)
Notifies ==
    /\ \/ handling = "notify"  /\ handling' = "idle"
       \/ handling = "stopped" /\ handling' = "stop"
    /\ NotifyConnected
    /\ UNCHANGED <<state, limits, keys, files, connects, packet, wire>>

(* hasPayload() is about the payload object.  UsbTransport puts one in     *)
(* every packet it receives, so that an AUTH without data is "empty"; the  *)
(* interface of Transport also allows for a "bare" one.                    *)
hasPayload(t) == t # "bare"

(* processAuth: setConnectionState(AUTHORIZING), in every state.           *)
ProcessAuth ==
    /\ Arrives("AUTH")
    /\ handling' = "auth" /\ token' = Head(toHost).token
    /\ mConnectionState' = "AUTHORIZING"
    /\ UNCHANGED <<mSystemType, details, accepted, limits, keys, files, app, connects, banner,
                   toDevice, prompted, disconnected>>

(* The state an authorization attempt ends in; the notification follows.   *)
Stop == mConnectionState' = "UNAUTHORIZED"

AuthStops ==
    /\ handling = "auth" /\ ~hasPayload(token)
    /\ handling' = "notify" /\ token' = "none"
    /\ Stop
    /\ UNCHANGED <<mSystemType, details, accepted, limits, keys, files, app, connects, banner,
                   wire>>

Usable(from) == {k \in Keys : k >= from /\ keyFile[k] # "unreadable"}

(* signWithPrivateKey: the loop reads key files from mNextKey on until one *)
(* can be parsed, and again two files further if that key does not sign.   *)
(* key is the key that signed, or NumKeys; next is the new mNextKey.       *)
signWithPrivateKeyOnce(from) ==
    IF Usable(from) = {} THEN [key |-> NumKeys, next |-> NumKeys + 1]
    ELSE LET k == Min(Usable(from))
         IN  [key |-> IF keyFile[k] = "ok" THEN k ELSE NumKeys, next |-> k + 1]
signWithPrivateKey(from) ==
    LET sign[n \in 0..(NumKeys + 1)] ==
            IF Usable(n) = {}
            THEN [key |-> NumKeys, next |-> Max({n, NumKeys}) + 1]
            ELSE LET k == Min(Usable(n))
                 IN  IF keyFile[k] = "ok" THEN [key |-> k, next |-> k + 2]
                     ELSE sign[k + 2]
    IN  sign[from]

(* sendPublicKey: sends the key, or fails, after a stopConnecting() of its *)
(* own when there is no key or it was sent before.                         *)
PublicKeySentAgain == publicKey = "ok"
PublicKeySent == publicKey = "ok" /\ ~mPublicIsAlreadyTried
sendPublicKey ==
    /\ mPublicIsAlreadyTried' = (mPublicIsAlreadyTried \/ publicKey # "none")
    /\ \/ /\ PublicKeySent
          /\ Transmit("RSAPUBLICKEY")
          /\ offers' = Append(offers, PublicKeyOffer)
          /\ handling' = "idle"
          /\ UNCHANGED mConnectionState
       \/ /\ ~PublicKeySent
          /\ Stop
          /\ handling' = IF publicKey = "unreadable" /\ ~mPublicIsAlreadyTried
                         THEN "notify" ELSE "stopped"
          /\ UNCHANGED <<toDevice, offers>>

(* processAuth with a token: a signature, or else the public key.          *)
AuthSigns ==
    /\ handling = "auth" /\ hasPayload(token)
    /\ token' = "none"
    /\ LET s == IF mNextKey < NumKeys THEN signWithPrivateKey(mNextKey)
                ELSE [key |-> NumKeys, next |-> mNextKey]
       IN  /\ mNextKey' = s.next
           /\ \/ /\ s.key \in Keys
                 /\ Transmit("SIGNATURE")
                 /\ offers' = Append(offers, s.key)
                 /\ handling' = "idle"
                 /\ UNCHANGED <<mConnectionState, mPublicIsAlreadyTried>>
              \/ s.key \notin Keys /\ sendPublicKey
    /\ UNCHANGED <<mSystemType, details, accepted, limits, files, app, connects, banner,
                   toHost, prompted, disconnected>>

(* processAuth's own stopConnecting(), after the one of sendPublicKey.     *)
AuthStopsAgain ==
    /\ handling = "stop"
    /\ handling' = "notify"
    /\ Stop
    /\ UNCHANGED <<mSystemType, details, accepted, limits, keys, files, app, connects, packet,
                   wire>>

(* errorListener with TRANSPORT_DISCONNECTED: nobody is notified, and the  *)
(* packets still on their way are gone.                                    *)
Disconnected ==
    /\ handling = "idle" /\ ~disconnected
    /\ disconnected' = TRUE /\ toDevice' = <<>> /\ toHost' = <<>>
    /\ mConnectionState' = "OFFLINE"
    /\ UNCHANGED <<mSystemType, details, accepted, limits, keys, files, app, connects, handling,
                   packet, prompted>>

-----------------------------------------------------------------------------
(* The device (external).                                                  *)

Reply(q) == toHost' = Append(toHost, q)

DeviceReads ==
    /\ ~disconnected /\ toDevice # <<>>
    /\ toDevice' = Tail(toDevice)
    /\ prompted' = (Head(toDevice).cmd = "RSAPUBLICKEY")
    /\ \/ \E q \in DevicePackets : Reply(q)
       \/ UNCHANGED toHost
    /\ UNCHANGED <<state, limits, keys, files, app, connects, handling, packet, disconnected>>

DeviceConfirmsKey ==
    /\ ~disconnected /\ prompted
    /\ prompted' = FALSE
    /\ \E q \in DevicePackets : q.cmd = "CNXN" /\ Reply(q)
    /\ UNCHANGED <<state, limits, keys, files, app, connects, handling, packet,
                   toDevice, disconnected>>

-----------------------------------------------------------------------------
AppStep   == \/ ConnectMarks \/ ConnectWaits \/ ConnectChecks \/ ConnectGivesUp
EventStep == \/ ProcessConnect \/ ConnectSetsType \/ ConnectSetsDetails \/ Notifies
             \/ ProcessAuth \/ AuthStops \/ AuthSigns \/ AuthStopsAgain

Next == \/ Connect \/ SpuriousWake \/ AppStep \/ EventStep \/ Disconnected
        \/ DeviceReads \/ DeviceConfirmsKey

Spec == Init /\ [][Next]_vars

(* A thread that can run eventually does.  Nothing makes the device answer *)
(* or the application call connect().                                      *)
LiveSpec == Spec /\ WF_vars(AppStep) /\ WF_vars(EventStep)

-----------------------------------------------------------------------------
(* Properties.                                                             *)

(* A secret is offered once: over all attempts to connect, the private     *)
(* keys go out in the order of their paths, none twice, and the public key *)
(* goes out last and once.                                                 *)
OfferOrder == \A i, j \in DOMAIN offers : i < j => offers[i] < offers[j]

Spent == mNextKey >= NumKeys /\ ~PublicKeySent

(* A token that comes in a payload object is refused only when no key file *)
(* from mNextKey on can be read and the public key cannot be sent (again), *)
(* whatever the application does to the state meanwhile.  It says nothing  *)
(* of the keys that mNextKey has skipped (EveryKeyTried does).  An AUTH    *)
(* without data comes with an empty payload object from UsbTransport: it   *)
(* is signed like a token, where the comment in processAuth (line 210 of   *)
(* AdbDevice.cpp) means it to stop the authorization.                      *)
GivesUpOnlyWhenSpent ==
    [][(handling \in {"auth", "stop"} /\ token # "bare" /\ mConnectionState' = "UNAUTHORIZED")
           => (Spent')]_vars

(* What a banner is made of: words that are no separators, and a last      *)
(* feature that is not empty (a text that ends with a separator loses it). *)
PlainBanners(Words) ==
    /\ Words \cap {":", ";", "=", ","} = {}
    /\ \A b \in Banners :
           /\ b.type \in Words /\ b.product \in Seq(Words) /\ b.features \in Seq(Seq(Words))
           /\ b.features = <<>> \/ b.features[Len(b.features)] # <<>>

(* What the device announces is what the application reads once the        *)
(* handler has stored it: the separators of the banner are taken apart as  *)
(* they were put together, also where the handler reads out of range, and  *)
(* no banner that was not accepted leaves a trace.  Of an empty feature    *)
(* set it says nothing: the features are then what the read past the end   *)
(* gives.  Nor does it speak of the time between the state DEVICE and the  *)
(* details, when connect() may already have returned.                      *)
AnnouncedIsRead ==
    handling # "details" =>
        /\ accepted = {} => details = NoDetails
        /\ \A b \in accepted : /\ mSystemType = b.type /\ details.mSerial = <<>>
                                /\ b.product \in {<<>>, details.mProduct}
                                /\ b.features \in {<<>>, details.mFeatureSet}

(* connect() returns when the event thread has an answer for it, an        *)
(* accepted banner or a token that no key is left for, while it waits.     *)
AnswerEndsWait ==
    app = "waiting" /\ \/ handling = "details"
                       \/ handling = "auth" /\ Spent
        ~> app = "idle"

(* Each usable private key was tried when the state says that the tokens   *)
(* are exhausted.                                                          *)
EveryKeyTried ==
    mConnectionState = "UNAUTHORIZED" =>
        \A k \in Keys : keyFile[k] = "ok" => \E i \in DOMAIN offers : offers[i] = k
=============================================================================
