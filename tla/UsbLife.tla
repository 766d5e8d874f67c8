------------------------------- MODULE UsbLife -------------------------------
(***************************************************************************)
(* The life of a UsbTransport outside of its transfers: findAdbInterface   *)
(* looks for the interface, make() builds a transport on the stack, claims *)
(* the interface and moves the transport to the heap, and the destructor   *)
(* gives the interface back (src/src/UsbTransport.cpp); an AdbBase takes   *)
(* the transport over, puts its listeners on it and may give it away again *)
(* (src/src/AdbBase.cpp).                                                  *)
(*                                                                         *)
(* Threads may make transports for one device at the same time; a step is  *)
(* a call of libusb with what leads to it.  Each call of make() opens a    *)
(* handle, named after its thread; a thread makes the next transport when  *)
(* the one before is gone.  zeroMask, which nobody reads, is left out.     *)
(*                                                                         *)
(* External (libusb): only one handle has an interface claimed, claiming   *)
(* and clearing a halt may fail.  A failed assertion ends the program.     *)
(***************************************************************************)
EXTENDS Sequences, Naturals, FiniteSets, FiniteSetsExt, SequencesExt

CONSTANTS Devices,     \* [perInterface, interfaces], interfaces being sequences of
                       \* [altsettings, adb, endpoints], those of [bulk, out, size]
          Opened,      \* bound: devices for which a thread goes on after the scan
          Callers,     \* threads, and the handles they open
          Bases,       \* objects of type AdbBase
          Nobody

Gone == "gone"
Endpoint == [bulk : BOOLEAN, out : BOOLEAN, size : Nat]
Interface == [altsettings : Nat, adb : BOOLEAN, endpoints : Seq(Endpoint)]

ASSUME LifeAssumption ==
    /\ Devices \subseteq [perInterface : BOOLEAN, interfaces : Seq(Interface)]
    /\ Opened \subseteq Devices
    /\ Nobody \notin Callers \cup Bases
    /\ Gone \notin Callers \cup Bases \cup {Nobody}

VARIABLES
    device,        \* the device on the bus
    claimedBy,     \* the handle that has its interface claimed
    making,        \* where each thread is in make()
    transport,     \* the transport on the stack of make(), and the one on the heap
    mTransport     \* the transport of each AdbBase; Gone: the object is not there

vars == <<device, claimedBy, making, transport, mTransport>>

Places == {"stack", "heap"}
Slots == Callers \X Places
None == [exists |-> FALSE, isOk |-> FALSE, claimed |-> FALSE, listener |-> Nobody]
Transports == [exists : BOOLEAN, isOk : BOOLEAN, claimed : BOOLEAN, listener : Bases \cup {Nobody}]

TypeOK ==
    /\ device \in Devices
    /\ claimedBy \in Callers \cup {Nobody}
    /\ making \in [Callers -> {"no", "claim", "clear", "check", "return"}]
    /\ transport \in [Slots -> Transports]
    /\ mTransport \in [Bases -> Callers \cup {Nobody, Gone}]

Init ==
    /\ device \in Devices
    /\ claimedBy = Nobody
    /\ making = [c \in Callers |-> "no"]
    /\ transport = [s \in Slots |-> None]
    /\ mTransport = [b \in Bases |-> Gone]

-----------------------------------------------------------------------------
(* findAdbInterface: a scan over the interfaces, and over the endpoints of *)
(* each one that is suitable.  What an interface leaves in data stays for  *)
(* the next.  An address is the place of the endpoint in the descriptor.   *)
NoAddress == <<>>
Start == [interfaceNumber |-> 0, write |-> NoAddress, read |-> NoAddress, packetSize |-> 0,
          in |-> FALSE, out |-> FALSE, found |-> FALSE, failed |-> FALSE]
Indices(seq) == [i \in DOMAIN seq |-> i]

AtEndpointLast(scan, e, address) ==
    [scan EXCEPT !.write = IF e.out THEN address ELSE @, !.out = @ \/ e.out,
                 !.read = IF ~e.out THEN address ELSE @, !.in = @ \/ ~e.out,
                 !.packetSize = IF @ = 0 THEN e.size ELSE @,
                 !.failed = @ \/ e.size = 0 \/ scan.packetSize \notin {0, e.size}]
AtEndpoint(scan, e, address) ==
    [scan EXCEPT !.write = IF e.out /\ ~scan.out THEN address ELSE @, !.out = @ \/ e.out,
                 !.read = IF ~e.out /\ ~scan.in THEN address ELSE @, !.in = @ \/ ~e.out,
                 !.packetSize = IF @ = 0 THEN e.size ELSE @,
                 !.failed = @ \/ e.size = 0 \/ scan.packetSize \notin {0, e.size}]

AtInterface(scan, interface, i) ==
    LET e == interface.endpoints
        scanned == FoldLeft(LAMBDA s, k : IF e[k].bulk THEN AtEndpoint(s, e[k], <<i, k>>) ELSE s,
                            [scan EXCEPT !.interfaceNumber = i, !.in = FALSE, !.out = FALSE],
                            Indices(e))
    IN  IF interface.altsettings = 1 /\ interface.adb
        THEN [scanned EXCEPT !.found = scanned.in /\ scanned.out]
        ELSE [scan EXCEPT !.interfaceNumber = i]

findAdbInterface(d) ==
    IF ~d.perInterface THEN Start
    ELSE FoldLeft(LAMBDA s, i : IF s.found THEN s ELSE AtInterface(s, d.interfaces[i], i),
                  Start, Indices(d.interfaces))

-----------------------------------------------------------------------------
(* make().                                                                 *)

Stack(c) == <<c, "stack">>
Heap(c) == <<c, "heap">>
Going(c, from, to) == making[c] = from /\ making' = [making EXCEPT ![c] = to]

(* A transport on the stack: the device is opened.  Without an interface   *)
(* make() returns nothing instead.                                         *)
MakeOpens(c) ==
    /\ Going(c, "no", "claim")
    /\ device \in Opened
    /\ findAdbInterface(device).found /\ ~findAdbInterface(device).failed
    /\ ~transport[Heap(c)].exists
    /\ transport' = [transport EXCEPT ![Stack(c)] =
                         [exists |-> TRUE, isOk |-> TRUE, claimed |-> FALSE, listener |-> Nobody]]
    /\ UNCHANGED <<device, claimedBy, mTransport>>

(* The constructor catches what libusb throws: then it is not ok.          *)
Throws(c) == transport' = [transport EXCEPT ![Stack(c)].isOk = FALSE]

MakeClaims(c) ==
    \/ /\ Going(c, "claim", "clear")
       /\ claimedBy = Nobody
       /\ claimedBy' = c
       /\ transport' = [transport EXCEPT ![Stack(c)].claimed = TRUE]
       /\ UNCHANGED <<device, mTransport>>
    \/ /\ Going(c, "claim", "check")
       /\ Throws(c)
       /\ UNCHANGED <<device, claimedBy, mTransport>>

MakeClears(c) ==
    /\ Going(c, "clear", "check")
    /\ Throws(c) \/ UNCHANGED transport
    /\ UNCHANGED <<device, claimedBy, mTransport>>

(* The move constructor: of the one that it moves from, nothing is left to *)
(* release.                                                                *)
MovedFrom(t) == [t EXCEPT !.isOk = FALSE, !.claimed = FALSE]

MakeMoves(c) ==
    /\ Going(c, "check", "return")
    /\ transport[Stack(c)].isOk
    /\ transport' = [transport EXCEPT ![Heap(c)] = transport[Stack(c)],
                                      ![Stack(c)] = MovedFrom(transport[Stack(c)])]
    /\ UNCHANGED <<device, claimedBy, mTransport>>

(* The destructor releases the interface if it was claimed.                *)
ReleasesIfOk(slot) == claimedBy' = IF transport[slot].isOk THEN Nobody ELSE claimedBy
Releases(slot) == claimedBy' = IF transport[slot].claimed THEN Nobody ELSE claimedBy
Destroys(slot) == Releases(slot) /\ transport' = [transport EXCEPT ![slot] = None]

MakeReturns(c) ==
    /\ \/ Going(c, "return", "no")
       \/ Going(c, "check", "no") /\ ~transport[Stack(c)].isOk
    /\ Destroys(Stack(c))
    /\ UNCHANGED <<device, mTransport>>

(* The application drops a transport that no AdbBase has.                  *)
Owned(c) == \E b \in Bases : mTransport[b] = c
Held(c) == making[c] = "no" /\ transport[Heap(c)].exists /\ ~Owned(c)

Drop(c) == /\ Held(c) /\ Destroys(Heap(c))
           /\ UNCHANGED <<device, making, mTransport>>

-----------------------------------------------------------------------------
(* AdbBase.                                                                *)

SetupOnce(b, c) == IF transport[Heap(c)].listener = Nobody THEN b ELSE transport[Heap(c)].listener
SetupSwapped(b, c) == c
Setup(b, c) == b              \* the listeners that setup() puts on the transport

makeUnique(b, c) ==
    /\ mTransport[b] = Gone /\ Held(c)
    /\ mTransport' = [mTransport EXCEPT ![b] = c]
    /\ transport' = [transport EXCEPT ![Heap(c)].listener = Setup(b, c)]
    /\ UNCHANGED <<device, claimedBy, making>>

(* The listeners stay on the transport.                                    *)
moveTransportOut(b) ==
    /\ mTransport[b] \in Callers
    /\ mTransport' = [mTransport EXCEPT ![b] = Nobody]
    /\ UNCHANGED <<device, claimedBy, making, transport>>

(* The destructor of AdbBase resets the listeners and then destroys the    *)
(* transport.  Without a transport it goes through a null pointer, so that *)
(* the program ends here.                                                  *)
DestroyBase(b) ==
    /\ mTransport[b] \in Callers
    /\ mTransport' = [mTransport EXCEPT ![b] = Gone]
    /\ Destroys(Heap(mTransport[b]))
    /\ UNCHANGED <<device, making>>

-----------------------------------------------------------------------------
MakeStep(c) == MakeOpens(c) \/ MakeClaims(c) \/ MakeClears(c) \/ MakeMoves(c) \/ MakeReturns(c)

Next == \/ \E c \in Callers : MakeStep(c) \/ Drop(c) \/ \E b \in Bases : makeUnique(b, c)
        \/ \E b \in Bases : moveTransportOut(b) \/ DestroyBase(b)

Spec == Init /\ [][Next]_vars

-----------------------------------------------------------------------------
(* Properties.                                                             *)

(* What the scan should find: the first suitable interface that has bulk   *)
(* endpoints in both directions, with the first of each.                   *)
Suitable(d) == {i \in DOMAIN d.interfaces : d.interfaces[i].altsettings = 1 /\ d.interfaces[i].adb}
Bulk(d, i) == {k \in DOMAIN d.interfaces[i].endpoints : d.interfaces[i].endpoints[k].bulk}
Directed(d, i, out) == {k \in Bulk(d, i) : d.interfaces[i].endpoints[k].out = out}
Complete(d) == {i \in Suitable(d) : Directed(d, i, TRUE) # {} /\ Directed(d, i, FALSE) # {}}
Visited(d) == {i \in Suitable(d) : Complete(d) = {} \/ i <= Min(Complete(d))}
Sizes(d) == {d.interfaces[p[1]].endpoints[p[2]].size :
                 p \in UNION {{<<i, k>> : k \in Bulk(d, i)} : i \in Visited(d)}}

(* findAdbInterface finds that, and its assertions fail only for devices   *)
(* whose bulk endpoints, in the interfaces it visits, differ in size.      *)
FoundRight ==
    LET scan == findAdbInterface(device)
        i == Min(Complete(device))
    IN  /\ scan.failed <=> device.perInterface /\ (0 \in Sizes(device) \/ Cardinality(Sizes(device)) > 1)
        /\ scan.found <=> device.perInterface /\ Complete(device) # {}
        /\ scan.found /\ ~scan.failed =>
               /\ scan.interfaceNumber = i
               /\ scan.write = <<i, Min(Directed(device, i, TRUE))>>
               /\ scan.read = <<i, Min(Directed(device, i, FALSE))>>
               /\ {scan.packetSize} = Sizes(device)

(* The interface is claimed by a handle exactly as long as one transport,  *)
(* wherever it was moved, is there to release it; and what make() gives    *)
(* out has it claimed.                                                     *)
ClaimHasOwner ==
    /\ \A c \in Callers, place \in Places :
           transport[<<c, place>>].claimed =>
               /\ claimedBy = c
               /\ \A other \in Places \ {place} : ~transport[<<c, other>>].claimed
    /\ \A c \in Callers : claimedBy = c => \E place \in Places : transport[<<c, place>>].claimed
    /\ \A c \in Callers : transport[Heap(c)].exists => transport[Heap(c)].claimed

(* A transport notifies the AdbBase that has it.  It may notify another    *)
(* one only if that gave it away: its listeners are not reset then.        *)
ListenerHasTransport ==
    \A c \in Callers :
        /\ \A b \in Bases : mTransport[b] = c => transport[Heap(c)].listener = b
        /\ LET b == transport[Heap(c)].listener
           IN  b # Nobody => mTransport[b] \in {c, Nobody}
=============================================================================
