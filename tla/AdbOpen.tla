------------------------------- MODULE AdbOpen -------------------------------
(***************************************************************************)
(* The stream tables of an AdbDevice (src/src/AdbDevice.cpp): open() on    *)
(* threads of the application, processReady, processClose and processWrite *)
(* on the event thread, and the end of a stream, which runs closeStream on *)
(* the thread that drops the last reference to it.                         *)
(*                                                                         *)
(* mStreamsMutex is held by open(), but for the wait, and by processClose; *)
(* processReady, processWrite and closeStream use the tables without it.   *)
(* A step is what a thread does between two points where another one can   *)
(* get in its way: taking or releasing the mutex, a look at a table or a   *)
(* change of one.  A look that finds a weak reference locks it in the same *)
(* step.                                                                   *)
(*                                                                         *)
(* What a stream does with its packets is in AdbStream.  Local ids do not  *)
(* wrap here, so emplace() of open() always inserts, and the application   *)
(* calls closeStream for streams that it has been given, once at a time.   *)
(*                                                                         *)
(* External.  The device answers an OPEN with OKAY or CLSE; a stream it    *)
(* opened it may write to, one WRTE per OKAY, and close.  It knows its     *)
(* side of a stream by the remote id, and does not answer a CLSE.          *)
(***************************************************************************)
EXTENDS Sequences, Naturals, FiniteSets, Functions

CONSTANTS Openers,           \* threads that call open()
          MaxOpens,          \* bound: calls of open()
          MaxWrites,         \* bound: WRTE packets per stream of the device
          Writable,          \* bound: streams that the device writes to
          SpuriousWakeups,   \* streams whose open() may be woken for no reason
          Closable           \* bound: streams that the application closes itself

Nobody == "nobody"
EventThread == "event"

ASSUME OpenAssumption == /\ MaxOpens \in Nat /\ MaxWrites \in Nat
                         /\ Nobody \notin Openers /\ EventThread \notin Openers

VARIABLES
    mLastLocalId,
    mStreamsMutex,       \* who holds it
    mAwaitingStreams,    \* localId -> [remoteId, rejected], of the opens in progress
    mActiveStreams,      \* localIds with a weak reference
    opener, opening,     \* where a thread is in open(), and its localId
    outcome,             \* what open() returned, by localId
    remoteId, open,      \* mRemoteId and mIsOpen of the stream objects
    handles,             \* the handles that the application still holds
    closer,              \* where a call of closeStream for a live stream is
    left,                \* history: streams that the application has closed
    event, eventRef,     \* where the event thread is, the stream it has locked
    toDevice, toHost,    \* packets on their way
    peer,                \* the device's side of each stream
    peerReady, peerWrites,   \* it may write; how often it did
    spurious             \* history: streams whose open() woke up for no reason

table   == <<mLastLocalId, mAwaitingStreams, mActiveStreams>>
threads == <<opener, opening, outcome>>
stream  == <<remoteId, open, handles>>
closing == <<closer, left>>
eventVars == <<event, eventRef>>
device  == <<peer, peerReady, peerWrites>>
vars == <<mStreamsMutex, table, threads, stream, closing, eventVars,
          toDevice, toHost, device, spurious>>

Ids == 1..MaxOpens
NoStream == 0
RemoteOf(id) == MaxOpens + 1 - id   \* the id the device gives its side: not zero
Places == {"idle", "sent", "waiting", "notified", "refused", "created", "entered"}
HandleKinds == {"istream", "ostream"}
Packets(cmds) == [cmd : cmds, id : Ids, remote : 0..MaxOpens]
Packet(c, id, r) == [cmd |-> c, id |-> id, remote |-> r]

TypeOK ==
    /\ mLastLocalId \in 0..MaxOpens
    /\ mStreamsMutex \in Openers \cup {EventThread, Nobody}
    /\ DOMAIN mAwaitingStreams \subseteq Ids
    /\ \A id \in DOMAIN mAwaitingStreams :
           mAwaitingStreams[id] \in [remoteId : 0..MaxOpens, rejected : BOOLEAN]
    /\ mActiveStreams \subseteq Ids
    /\ opener \in [Openers -> Places]
    /\ opening \in [Openers -> Ids \cup {NoStream}]
    /\ outcome \in [Ids -> {"none", "opened", "refused"}]
    /\ remoteId \in [Ids -> 0..MaxOpens] /\ open \in [Ids -> BOOLEAN]
    /\ handles \in [Ids -> SUBSET HandleKinds]
    /\ closer \in [Ids -> {"none", "sent", "marked"}] /\ left \subseteq Ids
    /\ event \in {"idle", "missed", "ready", "write", "close", "closing"}
    /\ eventRef \in Ids \cup {NoStream}
    /\ toDevice \in Seq(Packets({"OPEN", "OKAY", "CLSE"}))
    /\ toHost \in Seq(Packets({"OKAY", "WRTE", "CLSE"}))
    /\ peer \in [Ids -> {"none", "open", "closed"}]
    /\ peerReady \in [Ids -> BOOLEAN] /\ peerWrites \in [Ids -> 0..MaxWrites]
    /\ spurious \subseteq Ids

Init ==
    /\ mLastLocalId = 0 /\ mStreamsMutex = Nobody
    /\ mAwaitingStreams = [id \in {} |-> {}] /\ mActiveStreams = {}
    /\ opener = [o \in Openers |-> "idle"] /\ opening = [o \in Openers |-> NoStream]
    /\ outcome = [id \in Ids |-> "none"]
    /\ remoteId = [id \in Ids |-> 0] /\ open = [id \in Ids |-> FALSE]
    /\ handles = [id \in Ids |-> {}]
    /\ closer = [id \in Ids |-> "none"] /\ left = {}
    /\ event = "idle" /\ eventRef = NoStream
    /\ toDevice = <<>> /\ toHost = <<>>
    /\ peer = [id \in Ids |-> "none"]
    /\ peerReady = [id \in Ids |-> FALSE] /\ peerWrites = [id \in Ids |-> 0]
    /\ spurious = {}

(* The weak reference of a stream can be locked: the application, open(),  *)
(* closeStream or a handler has the stream.                                *)
HasStream(o) == opener[o] \in {"created", "entered"}
Alive(id) == \/ handles[id] # {} \/ closer[id] # "none" \/ eventRef = id
             \/ \E o \in Openers : HasStream(o) /\ opening[o] = id

-----------------------------------------------------------------------------
(* open().                                                                 *)

Without(f, id) == Restrict(f, DOMAIN f \ {id})

(* Takes the mutex, enters the stream among the awaiting ones and sends    *)
(* OPEN; the mutex stays with the thread until it waits.                   *)
OpenSends(o) ==
    /\ opener[o] = "idle" /\ mLastLocalId < MaxOpens
    /\ mStreamsMutex = Nobody
    /\ mStreamsMutex' = o
    /\ mLastLocalId' = mLastLocalId + 1
    /\ mAwaitingStreams' = [id \in DOMAIN mAwaitingStreams \cup {mLastLocalId'} |->
                                IF id = mLastLocalId' THEN [remoteId |-> 0, rejected |-> FALSE]
                                ELSE mAwaitingStreams[id]]
    /\ toDevice' = Append(toDevice, Packet("OPEN", mLastLocalId', 0))
    /\ opener' = [opener EXCEPT ![o] = "sent"]
    /\ opening' = [opening EXCEPT ![o] = mLastLocalId']
    /\ UNCHANGED <<mActiveStreams, outcome, stream, closing, eventVars, toHost, device, spurious>>

(* cv.wait(lock), without a predicate.                                     *)
OpenWaits(o) ==
    /\ opener[o] = "sent"
    /\ opener' = [opener EXCEPT ![o] = "waiting"]
    /\ mStreamsMutex' = Nobody
    /\ UNCHANGED <<table, opening, outcome, stream, closing, eventVars, toDevice, toHost,
                   device, spurious>>

(* cv.notify_one() of the stream's own variable: only its open() waits     *)
(* there, and if it does not wait yet, the call has no effect.             *)
NotifyOpenNobody(id) == UNCHANGED opener
NotifyOpen(id) ==
    opener' = [o \in Openers |-> IF opening[o] = id /\ opener[o] = "waiting"
                                 THEN "notified" ELSE opener[o]]

SpuriousWake(o) ==
    /\ opener[o] = "waiting" /\ opening[o] \in SpuriousWakeups
    /\ opener' = [opener EXCEPT ![o] = "notified"]
    /\ spurious' = spurious \cup {opening[o]}
    /\ UNCHANGED <<mStreamsMutex, table, opening, outcome, stream, closing, eventVars,
                   toDevice, toHost, device>>

(* The thread is woken and gets the mutex back.  Unless it was rejected it *)
(* creates the stream, with the remote id of the entry, ...                *)
OpenWakes(o) ==
    /\ opener[o] = "notified" /\ mStreamsMutex = Nobody
    /\ mStreamsMutex' = o
    /\ LET id == opening[o]
       IN  \/ /\ mAwaitingStreams[id].rejected
              /\ opener' = [opener EXCEPT ![o] = "refused"]
              /\ UNCHANGED stream
           \/ /\ ~mAwaitingStreams[id].rejected
              /\ opener' = [opener EXCEPT ![o] = "created"]
              /\ remoteId' = [remoteId EXCEPT ![id] = mAwaitingStreams[id].remoteId]
              /\ open' = [open EXCEPT ![id] = TRUE]
              /\ UNCHANGED handles
    /\ UNCHANGED <<table, opening, outcome, closing, eventVars, toDevice, toHost, device, spurious>>

(* ... enters it among the active ones, ...                                *)
OpenEnters(o) ==
    /\ opener[o] = "created"
    /\ opener' = [opener EXCEPT ![o] = "entered"]
    /\ mActiveStreams' = mActiveStreams \cup {opening[o]}
    /\ UNCHANGED <<mStreamsMutex, mLastLocalId, mAwaitingStreams, opening, outcome, stream,
                   closing, eventVars, toDevice, toHost, device, spurious>>

(* ... erases the entry and returns, with the handles if there is a stream.*)
OpenFinishes(o) ==
    /\ opener' = [opener EXCEPT ![o] = "idle"]
    /\ opening' = [opening EXCEPT ![o] = NoStream]
    /\ mAwaitingStreams' = Without(mAwaitingStreams, opening[o])
    /\ mStreamsMutex' = Nobody
    /\ \/ /\ opener[o] = "refused"
          /\ outcome' = [outcome EXCEPT ![opening[o]] = "refused"]
          /\ UNCHANGED handles
       \/ /\ opener[o] = "entered"
          /\ outcome' = [outcome EXCEPT ![opening[o]] = "opened"]
          /\ handles' = [handles EXCEPT ![opening[o]] = HandleKinds]
    /\ UNCHANGED <<mLastLocalId, mActiveStreams, remoteId, open, closing, eventVars,
                   toDevice, toHost, device, spurious>>

-----------------------------------------------------------------------------
(* The end of a stream.                                                    *)

(* A handle is destroyed, or an AdbIStream closed.  With the last          *)
(* reference the object is gone; its destructor, closeStream, comes next.  *)
DropHandle(id, h) ==
    /\ h \in handles[id]
    /\ handles' = [handles EXCEPT ![id] = @ \ {h}]
    /\ UNCHANGED <<mStreamsMutex, table, threads, remoteId, open, closing, eventVars,
                   toDevice, toHost, device, spurious>>

(* An AdbOStream is closed: the stream is, and the device is not told.     *)
OStreamClose(id) ==
    /\ id \in Closable /\ "ostream" \in handles[id]
    /\ open' = [open EXCEPT ![id] = FALSE]
    /\ left' = left \cup {id}
    /\ UNCHANGED <<mStreamsMutex, table, threads, remoteId, handles, closer, eventVars,
                   toDevice, toHost, device, spurious>>

(* closeStream from the destructor: the weak reference has expired, so     *)
(* nothing is sent, and the entry is erased.  It runs on whichever thread  *)
(* dropped the last reference, without the mutex.                          *)
CloseStream(id) ==
    /\ id \in mActiveStreams /\ ~Alive(id)
    /\ mActiveStreams' = mActiveStreams \ {id}
    /\ UNCHANGED <<mStreamsMutex, mLastLocalId, mAwaitingStreams, threads, stream, closing,
                   eventVars, toDevice, toHost, device, spurious>>

(* closeStream from the application: the stream is alive and gets locked;  *)
(* the device is told, ...                                                 *)
CloseStreamSends(id) ==
    /\ id \in Closable /\ outcome[id] = "opened" /\ closer[id] = "none"
    /\ id \in mActiveStreams /\ Alive(id)
    /\ toDevice' = Append(toDevice, Packet("CLSE", id, remoteId[id]))
    /\ closer' = [closer EXCEPT ![id] = "sent"]
    /\ UNCHANGED <<mStreamsMutex, table, threads, stream, left, eventVars, toHost, device,
                   spurious>>

(* ... the stream is closed, ...                                           *)
CloseStreamMarks(id) ==
    /\ closer[id] = "sent"
    /\ open' = [open EXCEPT ![id] = FALSE]
    /\ left' = left \cup {id}
    /\ closer' = [closer EXCEPT ![id] = "marked"]
    /\ UNCHANGED <<mStreamsMutex, table, threads, remoteId, handles, eventVars,
                   toDevice, toHost, device, spurious>>

(* ... and its entry erased, whoever still has the stream.                 *)
CloseStreamErasesSent(id) ==
    /\ closer[id] \in {"sent", "marked"}
    /\ mActiveStreams' = mActiveStreams \ {id}
    /\ closer' = [closer EXCEPT ![id] = "none"]
    /\ UNCHANGED <<mStreamsMutex, mLastLocalId, mAwaitingStreams, threads, stream, left,
                   eventVars, toDevice, toHost, device, spurious>>
CloseStreamErases(id) ==
    /\ closer[id] = "marked"
    /\ mActiveStreams' = mActiveStreams \ {id}
    /\ closer' = [closer EXCEPT ![id] = "none"]
    /\ UNCHANGED <<mStreamsMutex, mLastLocalId, mAwaitingStreams, threads, stream, left,
                   eventVars, toDevice, toHost, device, spurious>>

-----------------------------------------------------------------------------
(* The event thread: packetListener.                                       *)

Arrives(c, id) == event = "idle" /\ toHost # <<>> /\ Head(toHost).cmd = c /\ Head(toHost).id = id
Takes(c, id) == Arrives(c, id) /\ toHost' = Tail(toHost)

Found(id) == id \in mActiveStreams /\ Alive(id)

AnsweredSwapped(p) == p.id
Answered(p) == p.remote         \* message.arg0

(* processReady.  An active stream gets its readyToSend(), or nothing if   *)
(* it has expired; if there is none, the handler has another look, ...     *)
ProcessReady(id) ==
    /\ Arrives("OKAY", id)
    /\ \/ /\ Found(id)
          /\ event' = "ready" /\ eventRef' = id /\ toHost' = Tail(toHost)
       \/ /\ id \in mActiveStreams /\ ~Alive(id)
          /\ toHost' = Tail(toHost) /\ UNCHANGED eventVars
       \/ /\ id \notin mActiveStreams
          /\ event' = "missed" /\ UNCHANGED <<eventRef, toHost>>
    /\ UNCHANGED <<mStreamsMutex, table, threads, stream, closing, toDevice, device, spurious>>

(* ... at the awaiting ones: one of them gets its remote id, and its       *)
(* open() is notified.  The packet leaves toHost when the handler is done. *)
ReadyLooksAgain(id) ==
    /\ event = "missed"
    /\ toHost # <<>> /\ Head(toHost).cmd = "OKAY" /\ Head(toHost).id = id
    /\ toHost' = Tail(toHost)
    /\ event' = "idle"
    /\ \/ /\ id \in DOMAIN mAwaitingStreams
          /\ mAwaitingStreams' = [mAwaitingStreams EXCEPT ![id].remoteId = Answered(Head(toHost))]
          /\ NotifyOpen(id)
       \/ /\ id \notin DOMAIN mAwaitingStreams
          /\ UNCHANGED <<mAwaitingStreams, opener>>
    /\ UNCHANGED <<mStreamsMutex, mLastLocalId, mActiveStreams, opening, outcome, stream,
                   closing, eventRef, toDevice, device, spurious>>

(* processWrite.  A stream that is not active yet, or no more, is passed   *)
(* over, and the device gets no OKAY.                                      *)
ProcessWrite(id) ==
    /\ Takes("WRTE", id)
    /\ \/ /\ Found(id)
          /\ event' = "write" /\ eventRef' = id
       \/ ~Found(id) /\ UNCHANGED eventVars
    /\ UNCHANGED <<mStreamsMutex, table, threads, stream, closing, toDevice, device, spurious>>

AcksByWrite(id) == <<Packet("WRTE", id, remoteId[id])>>
Acks(id) == <<Packet("OKAY", id, remoteId[id])>>

(* received() and sendReady().                                             *)
WriteAcknowledged ==
    /\ event = "write"
    /\ event' = "ready"
    /\ toDevice' = toDevice \o Acks(eventRef)
    /\ UNCHANGED <<mStreamsMutex, table, threads, stream, closing, eventRef, toHost, device,
                   spurious>>

(* The handler's reference goes, and the handler is done.                  *)
HandlerReturns ==
    /\ event = "ready"
    /\ event' = "idle" /\ eventRef' = NoStream
    /\ UNCHANGED <<mStreamsMutex, table, threads, stream, closing, toDevice, toHost, device,
                   spurious>>

(* processClose waits for the mutex and holds it until it returns.         *)
AfterRejectErased(f, id) == Without(f, id)
AfterRejectUnmarked(f, id) == [f EXCEPT ![id] = [remoteId |-> 0, rejected |-> FALSE]]
AfterReject(f, id) == [f EXCEPT ![id] = [remoteId |-> 0, rejected |-> TRUE]]

ProcessClose(id) ==
    /\ mStreamsMutex = Nobody
    /\ Takes("CLSE", id)
    /\ \/ /\ id \in DOMAIN mAwaitingStreams
          /\ mAwaitingStreams' = AfterReject(mAwaitingStreams, id)
          /\ NotifyOpen(id)
          /\ UNCHANGED <<eventVars, mStreamsMutex>>
       \/ /\ id \notin DOMAIN mAwaitingStreams /\ Found(id)
          /\ event' = "close" /\ eventRef' = id
          /\ mStreamsMutex' = EventThread
          /\ UNCHANGED <<mAwaitingStreams, opener>>
       \/ /\ id \notin DOMAIN mAwaitingStreams /\ ~Found(id)
          /\ UNCHANGED <<mAwaitingStreams, opener, eventVars, mStreamsMutex>>
    /\ UNCHANGED <<mLastLocalId, mActiveStreams, opening, outcome, stream, closing, toDevice,
                   device, spurious>>

(* shared->close().                                                        *)
CloseMarks ==
    /\ event = "close"
    /\ event' = "closing"
    /\ open' = [open EXCEPT ![eventRef] = FALSE]
    /\ UNCHANGED <<mStreamsMutex, table, threads, remoteId, handles, closing, eventRef,
                   toDevice, toHost, device, spurious>>

CloseReturns ==
    /\ event = "closing"
    /\ event' = "idle" /\ eventRef' = NoStream
    /\ mStreamsMutex' = Nobody
    /\ UNCHANGED <<table, threads, stream, closing, toDevice, toHost, device, spurious>>

-----------------------------------------------------------------------------
(* The device (external).                                                  *)

DeviceReads ==
    /\ toDevice # <<>>
    /\ toDevice' = Tail(toDevice)
    /\ LET p == Head(toDevice)
       IN  \/ /\ p.cmd = "OPEN"
              /\ toHost' = Append(toHost, Packet("OKAY", p.id, RemoteOf(p.id)))
              /\ peer' = [peer EXCEPT ![p.id] = "open"]
              /\ peerReady' = [peerReady EXCEPT ![p.id] = TRUE]
           \/ /\ p.cmd = "OPEN"
              /\ toHost' = Append(toHost, Packet("CLSE", p.id, 0))
              /\ peer' = [peer EXCEPT ![p.id] = "closed"]
              /\ UNCHANGED peerReady
           \/ /\ p.cmd = "OKAY" /\ p.remote = RemoteOf(p.id)
              /\ peerReady' = [peerReady EXCEPT ![p.id] = TRUE]
              /\ UNCHANGED <<toHost, peer>>
           \/ /\ p.cmd = "CLSE" /\ p.remote = RemoteOf(p.id) /\ peer[p.id] = "open"
              /\ peer' = [peer EXCEPT ![p.id] = "closed"]
              /\ UNCHANGED <<toHost, peerReady>>
           \/ /\ \/ p.cmd \in {"OKAY", "CLSE"} /\ p.remote # RemoteOf(p.id)
                 \/ p.cmd = "CLSE" /\ peer[p.id] # "open"
              /\ UNCHANGED <<toHost, peer, peerReady>>
    /\ UNCHANGED <<mStreamsMutex, table, threads, stream, closing, eventVars, peerWrites, spurious>>

DeviceWrites(id) ==
    /\ id \in Writable /\ peerWrites[id] < MaxWrites
    /\ peer[id] = "open" /\ peerReady[id]
    /\ toHost' = Append(toHost, Packet("WRTE", id, RemoteOf(id)))
    /\ peerReady' = [peerReady EXCEPT ![id] = FALSE]
    /\ peerWrites' = [peerWrites EXCEPT ![id] = @ + 1]
    /\ UNCHANGED <<mStreamsMutex, table, threads, stream, closing, eventVars, toDevice, peer,
                   spurious>>

DeviceCloses(id) ==
    /\ peer[id] = "open"
    /\ peer' = [peer EXCEPT ![id] = "closed"]
    /\ toHost' = Append(toHost, Packet("CLSE", id, RemoteOf(id)))
    /\ UNCHANGED <<mStreamsMutex, table, threads, stream, closing, eventVars, toDevice,
                   peerReady, peerWrites, spurious>>

-----------------------------------------------------------------------------
OpenStep(o) == OpenWaits(o) \/ OpenWakes(o) \/ OpenEnters(o) \/ OpenFinishes(o)
CloseStep(id) == CloseStream(id) \/ CloseStreamMarks(id) \/ CloseStreamErases(id)
EventStep == \/ \E id \in Ids : \/ ProcessReady(id) \/ ReadyLooksAgain(id)
                               \/ ProcessWrite(id) \/ ProcessClose(id)
             \/ WriteAcknowledged \/ HandlerReturns \/ CloseMarks \/ CloseReturns

Next == \/ \E o \in Openers : OpenSends(o) \/ OpenStep(o) \/ SpuriousWake(o)
        \/ \E id \in Ids : \/ CloseStep(id) \/ CloseStreamSends(id) \/ OStreamClose(id)
                           \/ \E h \in HandleKinds : DropHandle(id, h)
        \/ EventStep
        \/ DeviceReads \/ \E id \in Ids : DeviceWrites(id) \/ DeviceCloses(id)

Spec == Init /\ [][Next]_vars

(* A thread that can run eventually does, and gets the mutex if that stays *)
(* free.  The device reads what it gets.                                   *)
LiveSpec == /\ Spec
            /\ \A o \in Openers : WF_vars(OpenStep(o))
            /\ WF_vars(EventStep)
            /\ \A id \in Ids : WF_vars(CloseStep(id))
            /\ WF_vars(DeviceReads)

-----------------------------------------------------------------------------
(* Properties.                                                             *)

(* The entries of mAwaitingStreams are those of the calls of open() in     *)
(* progress, one each: the reference and the iterator that open() keeps    *)
(* over the wait stay valid.                                               *)
AwaitingMatches ==
    /\ DOMAIN mAwaitingStreams = {opening[o] : o \in Openers} \ {NoStream}
    /\ \A o, p \in Openers : opening[o] = opening[p] /\ opening[o] # NoStream => o = p

(* Each stream lives as StreamLife says, whatever the other threads, the   *)
(* other streams and the handlers do meanwhile.                            *)
Accepted(id) == peerReady[id] \/ peerWrites[id] > 0
Life == INSTANCE StreamLife WITH
    Unanswered <- 0,
    answer     <- [id \in Ids |-> CASE peer[id] = "none"                     -> "none"
                                    [] peer[id] = "open"                     -> "accepted"
                                    [] peer[id] = "closed" /\ Accepted(id)  -> "ended"
                                    [] peer[id] = "closed" /\ ~Accepted(id) -> "refused"],
    result     <- outcome,
    remote     <- [id \in Ids |-> IF outcome[id] = "opened" THEN remoteId[id] ELSE 0],
    hasty      <- spurious,
    shut       <- {id \in Ids : outcome[id] = "opened" /\ ~open[id]}
LifeSpec == Life!Spec

(* As long as a stream that the application holds is open, its packets     *)
(* find it, whoever drops references or closes streams meanwhile: who      *)
(* erases the entry of a live stream has closed the stream before.         *)
OpenIsFindable == \A id \in Ids : handles[id] # {} /\ open[id] => id \in mActiveStreams

(* When the device has closed its side, the call of open() in progress     *)
(* ends, whether the CLSE refuses or comes right after the OKAY, and a     *)
(* stream that the application has gets closed.                            *)
CloseArrives ==
    \A id \in Ids :
        peer[id] = "closed" ~>
            \/ outcome[id] = "refused"
            \/ outcome[id] = "opened" /\ (~open[id] \/ ~Alive(id))

(* open() returns when the device opened the stream.                       *)
OpenReturns == \A id \in Ids : peer[id] = "open" ~> outcome[id] # "none"
=============================================================================
