# A TLA+ model of adb-lib

adb-lib is a C++ library that speaks the ADB protocol to an Android device over
USB. This directory models the parts of it in which threads, callbacks and
packets meet, checks them with TLC on small instances, and proves the central
ones with TLAPS for all instances.

Paths below are relative to the repository: `src/src/AdbDevice.cpp` is the file
`src/AdbDevice.cpp` of adb-lib as it lies under `src/`.

## 1. Inventory

### Components

| Component | State | Operations | Module |
|---|---|---|---|
| `AdbStreamBase` with its handles `AdbIStream`, `AdbOStream` | `mIsOpen`, `mDevice` (weak), `mReadyToSend` and `mOutgoingQueue` under `mOutgoingMutex`, `mIncomingQueue` under `mIncomingMutex` | `send`, `readyToSend`, `received`, `getPayload`, `close` | `AdbStream` |
| `AdbDevice`: connecting | `mConnectionState`, `mSystemType` and the details of the banner, `mNextKey`, `mPublicIsAlreadyTried`, `mConnected` | `connect`, `processConnect`, `processAuth`, `signWithPrivateKey`, `sendPublicKey`, `stopConnecting`, `errorListener` | `AdbConnect` |
| `AdbDevice`: streams | `mLastLocalId`, `mAwaitingStreams`, `mActiveStreams`, `mStreamsMutex` | `open`, `processReady`, `processWrite`, `processClose`, `closeStream` | `AdbOpen` |
| `UsbTransport`: sending | `mSendTransfers`, the static counter, `mSendMutex` | `send`, the two send callbacks, `finishSendTransfer` | `UsbSend` |
| `UsbTransport`: receiving | `mReceiveTransferPack`, `mIsReceiving`, `mReceiveMutex` | `receive`, `prepareToReceive`, the two receive callbacks, `finishReceiveTransfer` | `UsbReceive` |
| `UsbTransport`: construction | flags, claimed interface | `make`, move, destructor, `findAdbInterface` | `UsbLife` |
| `AdbBase` | `mVersion`, `mTransport`, listeners | `setup` and the listener it sets, `sendX`, `setVersion`, `setMaxData`, `checkPacketValidity`, `makeUnique`, `moveTransportOut`, destructor | `UsbReceive`, `AdbConnect`, `APacket`, `UsbLife` |
| `Transport` | listeners, `mMaxPayloadSize` | set, reset and notify | with the modules that use it |
| `APacket`, `APayload` | message, buffer, sizes | construct, copy, move, assign, resize, `setDataSize`, `updateMessageDataLength`, `computeChecksum` | `APacket` |
| `Features`, `utils` | none | `tokenize`, `setToString`, `stringToSet`; formatting, calls of mbedTLS | `Banner` in part |

External: libusb and its C++ wrapper ObjLibusb, mbedTLS, and adbd on the device.

### Interactions

The application calls `AdbDevice` and the stream handles on threads of its own.
Everything that comes from the device runs on libusb's event thread: the end of
a transfer calls `UsbTransport`'s callback, that notifies the listener of
`AdbBase`, that calls `AdbDevice::packetListener`, and that a handler, which
changes the tables, the connection state or a stream, and may send. Only after
the handler does the listener call `receive()` again, so packets are handled one
at a time and in order.

Four locks take part: `mStreamsMutex` (held by `open` while it sends, and by
`processClose`), the two mutexes of a stream, `mSendMutex` and `mReceiveMutex`
(both recursive), and the lock of each libusb transfer. `processReady`,
`processWrite`, `closeStream` and everything that touches `mConnectionState` use
no lock at all. Three condition variables carry answers to the threads that
wait: `mConnected`, one per `AwaitingStream`, and `mReceived`.

### What is hard

- Flow control of a stream between writers and the event thread.
- Waits without predicates, and notifications that come before the wait.
- Handlers that use tables which another thread changes.
- One heap object shared by two callbacks that may each be the last.
- Errors in one of two transfers, with the other on its way.
- A receive loop that exists only because each listener call starts the next.
- Payload sizes that make the end of a USB transfer ambiguous.
- Buffers on the heap that payload objects hand to each other, and two sizes for
  each.
- A transport that moves, may fail half way through its construction, and
  changes owners that put listeners on it.

`PROJECT.json` lists each of these under `hazards`, at its line.

## 2. The modules

A definition whose name is that of the one after it with a suffix, and that
nothing uses, is a wrong version of it (a dropped guard, a missing reset).
`PROJECT.json` lists them as mutants: with the wrong version in place, TLC finds
the property it is listed for violated.

### `StreamPipe` and `AdbStream`

`StreamPipe` is what one direction of a stream promises: payloads come out in
the order in which they went in, each once. `AdbStream` is the code. A step is
one section under a mutex, or one access to `mIsOpen`/`mDevice` outside of it:
`send()` is `Send` (the device is locked if the stream is open) and then
`SendLocked` (the section under `mOutgoingMutex`), with anything in between, a
close among it. `readyToSend()` is `ProcessReady` and `ReadyToSendLocked`,
`received()` is `ProcessWrite` (the check that the stream is open), `ReceivedLocked`
and `Notify`, since it notifies after the unlock, and `getPayload()` is one of
`GetPayloadPop`, `GetPayloadWait`, `GetPayloadClosed` and then `Wake`. A condition
variable may wake its thread for no reason (`SpuriousWake`). `deviceExpired` is
`mDevice.expired()`. No constructor initialises `mReadyToSend`, so `Init` gives it
either value; `NeverHadCredit` names the stream that started with FALSE, in which
nothing is ever sent.

### `AdbConnect`

`connect()` runs through `Connect` (the packet is sent), `ConnectMarks`
(`CONNECTING`), `ConnectWaits`, `ConnectChecks` and `ConnectGivesUp`: between any
two the event thread can act, since the mutex of the wait is local to the call.
`Connect` is enabled in OFFLINE only, as the assertion at its head demands of the
caller. A handler has one step for each access to `mConnectionState` and one for each
notification. `processConnect` is `ProcessConnect` (up to `isAwaitingConnection()`),
`ConnectSetsType`, `ConnectSetsDetails` and `Notifies`; `processAuth` is `ProcessAuth`
(`AUTHORIZING`), then `AuthStops` or `AuthSigns`, `Notifies` and, where
`sendPublicKey` has called `stopConnecting()` itself, `AuthStopsAgain` and another
`Notifies`. A token is `full`, `empty` (a payload object without data, which is what
`UsbTransport` makes of an AUTH without data) or `bare` (no payload object, which the
interface of `Transport` allows for). A key file is unreadable, readable
without giving a signature, or good; `signWithPrivateKey` is a recursive function
over the index of the next file, with the code's increments. Versions and sizes
stand for the constants of `adb.hpp` in their order.

`Banner` is the text of a CNXN packet as words and separators: `tokenize`, a
recursive function with the code's treatment of empty tokens, the fields that
`processConnect` assigns from it (`Assigned`), and the banner of a device put
together as `sendConnect` does it, with the key `features` also when there are none.
`AdbConnect` computes the tables `Text`, `TypeOf` and `AssignedBy` from it once for
each banner in `Greetings`. The handler takes the second token of a property without
looking whether there is one; for `features=` there is none, and it reads past the end
of a vector. What it finds there is `beyond`, any of the texts in `OutOfRange`.

### `StreamLife` and `AdbOpen`

`StreamLife` is what `open()` promises: it answers once, and nothing that the
device has not said; and a stream that was returned is closed only by the
application or after the device closed it. `AdbOpen` is the code, and `LifeSpec` is its
refinement, with the device's answer read off `peer`. It follows a stream from `open()`
over the tables to the destructor. `open()` is `OpenSends`, `OpenWaits`, and when it is
woken `OpenWakes` (the entry is read), `OpenEnters` (`mActiveStreams`) and
`OpenFinishes` (the entry is erased); the mutex is a variable and says who may
interleave with whom. `processReady` has no mutex and is two steps, one for each table
(`ProcessReady`, `ReadyLooksAgain`). A handler that has locked a weak reference is a
step apart from the one that drops it, so the last reference may go on any thread.

A stream ends in three ways. The application closes the `AdbOStream` (`OStreamClose`:
the stream is marked, nobody is told); it calls `closeStream` (`CloseStreamSends`,
`CloseStreamMarks`, `CloseStreamErases`, without the mutex); or the last reference goes
and the destructor calls `closeStream`, whose weak reference has then expired
(`CloseStream`). `left` records the streams that the application has closed. What a
stream does with its packets is not here but in `AdbStream`: the two share `received`,
`readyToSend`, `sendReady` and `close`.

### `UsbSend`

Each packet is one call of `send()` on a thread of its own: `SendCalled`,
`SendEmplaces`, `SendSubmitsMessage`, `SendSubmitsPayload`, and `SendCancels`
where the code locks the message transfer again. A callback is `CallbackBegins`
(under the lock of its transfer, it reads the callback data) and the rest under
`mSendMutex`. `dangling` records the packets whose callback data were used after
they were deleted; what the program does then is undefined, and the model lets
the callback find the old contents. Everything may fail in one run. The
properties name the three ways in which the code's bookkeeping breaks, and say
that nothing else breaks it: `PayloadRefused` (the message was submitted and the
payload was not), `ForeignId` (another transport counted on between two uses of
the counter) and `CircularWait` (`send()` holds `mSendMutex` and wants the lock
of its message, whose callback has that lock and wants the mutex). What happens in
these cases is in the model and no property judges it. Left out is the branch of
`send()` for an id that has an entry already: the ids are those of a counter, whose
increments are not lost here.

### `UsbReceive`

The receive chain as one loop. `mReceiveMutex` and the single event thread make
a callback one step. The wire is modelled by USB packets, because where a
transfer ends is decided by their sizes: sizes are in units of a message (24
bytes), a USB packet takes two of them, the payload buffer two USB packets.
`EmptyAfter` are the sizes after which the device sends an empty USB packet. The
message buffer keeps its old contents, as in the code, when nothing is written
into it. `receive()` does not look whether the message transfer was submitted;
`unsubmitted` records that it was not, and then nothing reads any more.

### `APacket`

`APayload` objects over an explicit heap: a buffer is allocated, has contents and
an object that points to it, or nothing (a leak). The objects are variables of
the caller, the payload of the packet `AdbBase` builds and sends, and the one
`UsbTransport` reads into; each constructor, assignment and change of size is an
action. `Send` covers the five ways in which `AdbBase` makes a packet, with the
version's choice of a checksum, and `checkPacketValidity` is what the other side
would say of it. Nothing in the library calls it; an application may. Uninitialised
bytes of a new buffer are any bytes, and a transfer that ends, well or not, leaves any
bytes and any number of them in the buffer that was read into (`Received`): what of
these is what the device sent is the subject of `UsbReceive`.

### `UsbLife`

A transport from the descriptor to its end. `findAdbInterface` is a fold over the
interfaces and endpoints, with what it carries over from one interface to the
next; its assertions are the field `failed`. `make()` is `MakeOpens`, `MakeClaims`,
`MakeClears`, `MakeMoves` and `MakeReturns`, on several threads at once; an AdbBase
takes a transport (`makeUnique`), may give it away (`moveTransportOut`), and
destroys it with itself. Where the code would go through a null pointer or a
failed assertion the program ends, and so does the behaviour: the destructor of an
AdbBase that has given its transport away is not a step. The protected move
constructor of AdbBase, which nothing calls, is left out.

## 3. The runs

Every passing run ends within three minutes or so. `CHECK_DEADLOCK FALSE` is set
everywhere because all of these systems may stop: the application makes finitely
many calls (`MaxWrites`, `MaxConnects`, `MaxOpens`, `Packets`), the device writes
finitely many packets, all buffers may be in use, and a stream that is closed or a
device that is gone is the end of a behaviour. Threads that wait for each other are
looked for with liveness properties instead (`SendReturns`, `CloseArrives`,
`OpenReturns`).

| Run | Shows | Bounds |
|---|---|---|
| `stream_flow` | flow control (`WindowOne`), order of both directions, no lost wakeup, no payload stuck in the queue, and that the outgoing side implements `StreamPipe` | 2 writers, 2 readers, 2 payloads; writers stop calling after 2 writes were taken, so up to 3 are; 2 device writes; both initial values of `mReadyToSend` |
| `stream_credit` | every payload that was taken arrives or the stream closes | 2 writers, 1 reader, 1 device write; both initial values of `mReadyToSend` |
| `connect_attempts` | keys in order and once; no token is refused while a key from `mNextKey` on or the public key could answer it; what a banner announces is what the application reads, and no other banner leaves a trace; an answer that comes while `connect()` waits ends the wait | 2 key files of 3 kinds, 3 kinds of public key, 3 kinds of token, 2 attempts, 4 greetings: banners with and without product and features and one of an unknown type, versions below and not below the minimum, maxima below and above that of the first version; 2 texts past the end of a vector |
| `open_streams` | tables and calls agree, a stream that the application holds is found while it is open, each stream lives as `StreamLife` says, refusals and closes arrive | 2 threads, 2 opens; on the first stream the device writes once and the application closes (`Writable`, `Closable`), on the second the wait may end for no reason (`SpuriousWakeups`) |
| `send_packets` | message and payload stay together on the endpoint; callback data, entries and reports of a packet agree; no callback data are left over; every `send()` returns and every packet is reported | 3 packets, 2 with payload, on 2 transports; every submission and every transfer may fail |
| `receive_packets` | what is heard is what was written, whole, in order and all of it, up to the first failure; reading ends with a message transfer that is not submitted and with no other failure | 3 packets, with payloads shorter than a USB packet, as long as one, longer, and as long as the buffer; an empty packet after one that is a multiple of the USB packet and does not fill the buffer; every transfer and every submission may fail |
| `packet_memory` | each buffer has one owner that knows its size, data fit, only a move assignment loses a buffer; what is sent passes the check of its peers, and with checksums a changed byte is noticed by a peer that checks | 2 variables besides the 2 packets, 2 buffers, up to 2 bytes of 2 values, versions on both sides of `A_VERSION_SKIP_CHECKSUM`, checksums modulo 2 |
| `transport_owners` | the scan finds the first complete interface and its assertions fail only when sizes differ; an interface is claimed as long as one transport will release it; transports notify the AdbBase that has them | 7658 descriptors of up to 2 interfaces with up to 3 endpoints; 2 threads and 2 AdbBases on one of these |

The bounds are small, but each run contains the case it is about: two writers are
needed to overtake each other, two readers for a wakeup to go to the wrong one,
two attempts for the second to find the keys where the first left them, two opens
for a table entry to meet another one's, three packets for a message to get
between a message and its payload, two transports for the counter to be shared,
two variables with a buffer each for one to be moved over the other, two
interfaces for one to leave something to the next. What holds for a stream or a
transport in any number is proved (section 5).

Some properties name the case in which they do not apply. `LifeSpec` lets an
`open()` whose wait ended for no reason (`WakeEarly` of `StreamLife`) return a stream
without remote id: the wait has no predicate, and the history variable `spurious`
marks those streams. `NeverStalled` and `TakenReachesDevice` except a stream that
started with `mReadyToSend` FALSE (`NeverHadCredit`). `AnnouncedIsRead` is not about the
time between the connected state and the details of the banner, nor about the features
of an empty set, and `GivesUpOnlyWhenSpent` not about the keys that `mNextKey` has
skipped. `HeardIsWritten` and `WrittenIsHeard` end with the first failed
transfer, and count the packets that come before there is a listener. `FoundRight`
takes the packet size that an incomplete interface leaves behind as the code does. The
exceptions of `send_packets` are those of section 2; the one of
`SendReturns`, `CircularWait`, is a real deadlock of the code. `packet_memory` has
`Shrinks` FALSE: callers do not shrink a buffer below its data, which is the
subject of `packet_shrunk`. `LostByMoveOnly` lets the move assignment of `APayload`
lose the buffer it assigns over, as it does. `ListenerHasTransport` lets the
listeners of an AdbBase stay on a transport that it gave away.

### Disagreements

Each of these runs ends with a behaviour that contradicts a comment or another
text of the repository; `PROJECT.json` quotes it under `findings`.

| Run | Property | What the code does |
|---|---|---|
| `connect_keys` | `EveryKeyTried` | every second key is skipped |
| `open_lost_ready` | `OpenReturns` | the OKAY may be handled before `open()` waits |
| `receive_multiple` | `DataLengthIsLength` | a payload that is a multiple of the USB packet does not end its transfer, which is as long as the buffer |
| `packet_shrunk` | `DataFits` | `resizeBuffer` below the data keeps the data size, and growing the buffer turns all of it into data |

The models contain more behaviours that a user of the library may not expect and
for which there is no run: a stream that starts with `mReadyToSend` FALSE never
sends; a payload may still go out when its stream has been closed; a close neither
wakes a reader nor leaves it the payloads that came before; `connect()` misses an
answer between `ConnectMarks` and `ConnectWaits`, as well as every end in OFFLINE; an
empty AUTH is signed like any token, where a comment in `processAuth` (line 210 of
`src/src/AdbDevice.cpp`) has it stop the authorization; the agreed payload limit is
stored and no send looks at it; for `features=` the handler reads past the end of a
vector; a stream loses a WRTE that comes before `open()` has entered it; a stream that
is dropped or whose `AdbOStream` is closed stays open on the device; a message transfer
that is not submitted ends the reading, and nobody is told; the OK of a payload hides
the failure of its message; `send()` and a callback may wait for each other for ever
(`CircularWait`); a move assignment leaks; an AdbBase without transport is destroyed
through a null pointer. They are listed, each at its line, under `hazards` in
`PROJECT.json`.

## 4. Fairness

Safety runs assume none. The `LiveSpec` of each module assumes weak fairness only:
of the steps of a thread that is inside a call or a handler (a running thread runs
on, and gets a mutex that stays free; nobody can take it for ever, since every
section is short and calls are finite), of the event thread, and of the device
taking what is on its way and, in `AdbStream`, acknowledging it. It never assumes
that the application makes another call, that the device writes, closes,
confirms a key or answers an OPEN in a particular way, or that a condition
variable wakes up on its own. `UsbSend` assumes that every transfer ends, which
libusb guarantees once the device answers, is gone, or the transfer is
cancelled; the transfers have no timeout.

## 5. What is proved

`AdbStreamProofs` proves, for any sets of payloads, writers and readers and any
bounds, and from `StreamAssumption` alone:

| Theorem | States |
|---|---|
| `Typing` | `Spec => []TypeOK` |
| `Credit` | `Spec => []CreditInv` |
| `Window` | `Spec => []WindowOne` |
| `SendOrder` | `Spec => []Order` |
| `Implements` | `Spec => PipeSpec` |
| `NoStall` | `Spec => []NeverStalled` |
| `ReceivedInOrder` | `Spec => []InOrder` |
| `NoLostWakeup` | `Spec => []WakeupsCover` |

`WindowOne` is not inductive: that a WRTE may be sent when `mReadyToSend` is set
says nothing about the WRTE and OKAY packets under way. `CreditInv` is its
inductive form. It follows the right to send one WRTE: that right is in
`mReadyToSend`, in an OKAY on its way, with the event thread between
`ProcessReady` and `ReadyToSendLocked`, in a WRTE on its way or with the device,
and nowhere twice. Only `SendLocked` and `ReadyToSendLocked` move it on the host's
side, and both do it under `mOutgoingMutex`. `TakingPacket` and `SendingPacket` say
what taking a packet from, and adding one to, a channel does to the OKAYs in it.

`Order` is inductive with types. `Implements` maps `written` to what the pipe
accepted and `arrived` to what it delivered; `SendLocked` is `Accept`,
`DeviceReceives` is `Deliver` because of `Order`, and every other step stutters.

`NeverStalled` needs the converse of `CreditInv` as well: the right to send is
somewhere unless the stream is closed, or it was never there. The latter is
`NeverHadCredit`, the stream whose `mReadyToSend` held FALSE at first; no step leads
into it.

`InOrder` does not say why the next payload is the right one. `BackInv` does: the
device's permission to write is in one place (the device, its WRTE on the way, or the
event thread that will acknowledge it), and while the stream is open that WRTE carries
all that the stream has not got. `WakeupsCover` counts; `WakeInv` adds that the readers
counted are finitely many, since `Readers` may be any set. The step that matters is a
reader that takes a payload without having waited: the one that was woken for it finds
the queue empty, and the count still covers the rest.

`AdbOpenProofs` proves, for any number of threads, calls of `open()` and packets, and
from `OpenAssumption`:

| Theorem | States |
|---|---|
| `Typing` | `Spec => []TypeOK` |
| `Awaiting` | `Spec => []AwaitingMatches` |
| `Lives` | `Spec => LifeSpec` |
| `Findable` | `Spec => []OpenIsFindable` |

`Lives` maps `OpenFinishes` to `Refuse` or `Return`; `CloseMarks` to `Shut` (or to
nothing, when `open()` has not returned the stream), and so `OStreamClose` and
`CloseStreamMarks`, which set `left`; `SpuriousWake` to `WakeEarly`; `DeviceReads` of an
OPEN, or of a CLSE for an open stream, and `DeviceCloses` to `Answer`; and every other
step to a stutter. That these steps are allowed there is `OpenInv`: a call has its entry
(`CallsInv`); an OKAY on its way comes from a device that accepted, a CLSE from one that
closed, an OPEN is under way once and is not answered (`WireInv`); so an entry that was
rejected, or has a remote id, tells what the device has done (`EntryInv`), a call in
progress has no outcome yet and only a stream that was returned is closed by the
application (`OutcomeInv`), a thread that was woken finds one of the two unless it woke up
on its own (`WokenInv`), and what it has read of the entry stays true while it has the
mutex (`MutexInv`, `GrantedInv`). What the packets mean survives every step because the
device takes nothing back (`Grows`).

`OpenIsFindable` is inductive with two facts more (`FindInv`): `open()` returns a stream
only after it has entered it, and `closeStream` erases the entry of a live stream only
after it has marked it as closed.

`UsbLifeProofs` proves, for any number of threads, AdbBases and descriptors, and
from the part of `LifeAssumption` that says that `Nobody` and `Gone` are no names of
threads or AdbBases (`Fresh`):

| Theorem | States |
|---|---|
| `Typing` | `Spec => []TypeOK` |
| `Owner` | `Spec => []ClaimHasOwner` |
| `Listener` | `Spec => []ListenerHasTransport` |
| `ScanFindsFirst` | `Spec => []FoundRight` |

`ClaimHasOwner` does not say where in `make()` the claim is. `LifeInv` does: it has,
for each thread, what the transport on its stack holds at each point of `make()`
(`StackOk`), that the one on the heap exists only after the move and has the claim
(`HeapOk`), and that the claim is in one of the two (`ClaimOk`); and that an AdbBase
has a transport that `make()` has returned and no other has (`BaseInv`). A step of a
thread leaves what the others have (`OthersKept`), because it moves the claim only
between nobody and itself, and what no AdbBase has may change (`OwnStep`); so each
action needs only what it does to its own two slots.

`FoundRight` holds of every device, whatever its descriptor: it compares the two nested
loops of `findAdbInterface` with sets that have no order. A loop is a `FoldLeft`, and
`DataProofs` turns it into a function with the value after each element. `Account` is the
invariant of the inner loop (the sizes seen so far, `Seen`, and for each direction the
first endpoint so far, `Way`), `Report` that of the outer one (the sizes of the interfaces
visited, and the first complete interface if it was among them). The flags that are reset
for each interface and the addresses and the packet size that are not are what the inner
invariant has to tell apart: an interface that has one direction only leaves its address
behind, and the proof shows that a later one overwrites it.

`AdbConnectProofs` proves, for any number of key files, attempts and greetings, and from
`ConnectAssumption`:

| Theorem | States |
|---|---|
| `Typing` | `Spec => []TypeOK` |
| `KeysInOrder` | `Spec => []OfferOrder` |
| `RefusedWhenSpent` | `Spec => GivesUpOnlyWhenSpent` |
| `BannerIsRead` | `PlainBanners(Words)` implies `Spec => []AnnouncedIsRead` |

What was offered is behind `mNextKey`, the public key apart, after which no key is left
(`OfferInv`); and between its two `stopConnecting()` the handler has seen the keys spent
(`GiveUpInv`), although `connect()` may set OFFLINE in between. Both need what the loop of
`signWithPrivateKey` computes for any files and any first index: `Solvable` and
`SignAdvances`, by induction over the files that are left.

`BannerIsRead` is about the text of a CNXN packet, for any words and any number of
features of any length, and about any texts that the read past the end may give. Its
condition, `PlainBanners`, is what makes a banner readable at
all: no word is one of the separators, and the last feature is not empty (a text that ends
with a separator is taken apart into one token less). `MCAdbConnect` assumes the same of
the words of the instance, so that TLC evaluates it. The argument goes up from
`tokenize`, which the module has as a recursive function: it exists and equals its own
equation (`TokensExist`, by induction over what is left of the text), a text without the
separator is one token (`NoSeparator`), and a separator ends the first token
(`FirstSeparator`, with `TokensShift`: the tokens of a text do not depend on what is
before it). `setToString` joins feature by feature (`JoinStepwise`), so that
`stringToSet` gives them back (`FeaturesComeBack`); the banner is three tokens, the
properties one or two, each with a key and a value (`IdentityTokens`, `PropertyTokens`,
`PlainAssigned`); for an empty set the last property has a key alone (`LoneKey`), and what
is read in place of its value does not reach the other fields. `BannerInv` then carries
this through the states: `processConnect` has one accepted banner at a time, and while it
stores the details only the handler itself touches them.

`UsbSendProofs` proves, for any packets, transports and failures, and from
`SendAssumption`:

| Theorem | States |
|---|---|
| `Typing` | `Spec => []TypeOK` |
| `PacketsStayWhole` | `Spec => []Framed` |
| `CallbackDataLives` | `Spec => []CallbackDataLive` |
| `ListenerToldOnce` | `Spec => []ToldOnce` |
| `NothingIsLeft` | `Spec => []NothingLeft` |
| `SentIsOk` | `Spec => []SentMeansOk` |

They share one inductive invariant, `SendInv`: who holds which lock (`LockInv`); that a
message which is last on the wire without its payload belongs to the `send()` that has
the mutex, or to one whose payload was refused (`WireInv`, with `Framed`); that a transfer
is in one place, and a payload never ahead of its message, from the endpoint to the
callback (`FlightInv`); that a callback sees the status with which its transfer ended
(`StatusInv`); and the life of a packet (`LifeInv`), which has, from the call to the
report, what its callback data, its entry in `mSendTransfers` and its reports are at each
point. The exceptions of section 2 are cases of `LifeOf`.

`UsbReceiveProofs` proves, for any sizes, payloads and failures, and from
`ReceiveAssumption`:

| Theorem | States |
|---|---|
| `Typing` | `Spec => []TypeOK` |
| `ReadingGoesOn` | `Spec => []KeepsReceiving` |
| `HeardAsWritten` | `PayloadsEnd` implies `Spec => []HeardIsWritten` |

`KeepsReceiving` says when the reading ends: with the first message transfer that is not
submitted, since no caller looks whether `receive()` could submit one, and with nothing
else. The condition of `HeardAsWritten` is that the host can see where a payload ends: of
the payloads that are a multiple of the USB packet, those that fill the buffer end there
and no empty packet may follow, and the others need one. The condition is sufficient; a
device may be heard right without it. What `receive_multiple` shows is a case in which it
does not hold; `receive_packets` satisfies it. `ReadInv` says that until something fails
the wire holds what is left of the packet that is being read and then all that come after it, each as
its message and its pieces (`Laid`), and that the phase of the reading (between packets,
message read, payload under way, payload read) says how much of that packet is gone.
`SizeIsFold` and `SizeAppend` say that the fold in `SizeOf` is the sum.

`APacketProofs` proves, for any variables, buffers, sizes, bytes and versions, from
`PacketAssumption`, if no caller shrinks a buffer below its data (`~Shrinks`, which
`packet_shrunk` shows to be needed):

| Theorem | States |
|---|---|
| `Typing` | `Spec => []TypeOK` |
| `BuffersAreOwned` | `Spec => []Ownership` |
| `OnlyMovesLeak` | `Spec => LostByMoveOnly` |
| `SentPassesCheck` | `Spec => []SentIsValid` |
| `ChangedByteIsNoticed` | `Spec => []ChangeIsNoticed` |

The memory is described by one operator over rigid variables (`Memory`), and the four
things that happen to it (bytes are stored, a payload moves, a buffer is freed, a size is
set) by one lemma each, which also says what stays as it was. `PackInv` adds the packets:
one of AdbBase that is on its way has the message of its kind, its version and its bytes
(`SentInv`), and one that is read into has a buffer and no data yet (`PreparedInv`). What a
caller does with variables of its own leaves both alone (`Quiet`). `ChangedByteIsNoticed`
rests on `ChecksumChanges`: the checksum is a fold that may take the bytes in any order, so
it may take the changed one last.

`DataProofs` has what these proofs need of recursive definitions: induction over the
natural numbers and over the subsets of a finite set, stated for a set instead of a
predicate; and of the folds of the community modules that they exist, have the type of
their steps, are determined by them (`FoldsAgree`), and may take any element first if the
steps commute (`FoldAny`); and that `FoldLeft` takes the elements one after the other
(`LeftFollowsSteps`). A step is a function of the element and of the value so far.

Every invariant and every action property that a passing run checks is proved. Only
model-checked are the properties under fairness (TLAPS does not prove liveness with
`ENABLED`), and the counterexamples, which are about instances.

## 6. What is not modelled

- Data races on `std::map`, `std::deque` and `mConnectionState`: accesses are
  atomic here. Lost or reordered accesses come from interleavings only.
- Texts other than banners, the contents of signatures and keys, and formatting.
- Texts of CNXN packets with fewer than the two fields that `IdentityString` always
  has (`tokens[0]`, `tokens[1]`), and reads past the end of a buffer.
- An answer of the device to a CLSE that it gets: here it closes its side and sends nothing.
- The destruction of a transport or a device with transfers in flight: libusb does
  not say what their callbacks find. In `AdbStream` the device expires only between
  two handlers.
- A second user of `mFeatureSet`: what the host announces of itself.
- The wrap of `mLastLocalId` after 2^32 streams.
- `processOpen` and `processTls` are empty; `makeConnectionString` is not used.

## 7. Plan

Order of work, with what comes first because most depends on it:

1. Done: `StreamPipe`, `AdbStream`; `StreamLife`, `AdbOpen`; `AdbConnect` with `Banner`;
   `UsbSend`; `UsbReceive`; `APacket`; `UsbLife`; and for each of them a module of proofs.
2. A session: `AdbOpen` composed with the outgoing side of a stream and the end of the
   transport, for the lock order across layers (`mStreamsMutex`, `mOutgoingMutex`,
   `mSendMutex`) and what a lost transport does to openers and readers.
