--------------------------- MODULE UsbLifeProofs ----------------------------
(***************************************************************************)
(* Proofs about UsbLife, for every number of threads and of AdbBase        *)
(* objects and every device.                                               *)
(*                                                                         *)
(*   Typing           Spec => []TypeOK                                     *)
(*   Owner            Spec => []ClaimHasOwner                              *)
(*   Listener         Spec => []ListenerHasTransport                       *)
(*   ScanFindsFirst   Spec => []FoundRight                                 *)
(*                                                                         *)
(* The second and third follow from LifeInv: where make() is says what its *)
(* transport on the stack has and when the one on the heap is there.       *)
(*                                                                         *)
(* The fourth is about two nested loops.  Each is a fold, whose values     *)
(* DataProofs gives element by element; Account says what the scan knows   *)
(* after n endpoints of an interface, Report after n interfaces.           *)
(***************************************************************************)
EXTENDS UsbLife, DataProofs, SequenceTheorems, TLAPS

USE DEF Slots, Places, Stack, Heap, Setup

(* All that is used of the assumption: the names differ.                   *)
LEMMA Fresh == Nobody \notin Callers /\ Nobody \notin Bases /\ Gone \notin Callers /\ Gone # Nobody
  BY LifeAssumption DEF LifeAssumption

(* What the slots of a thread hold while it is at some place in make(),    *)
(* and that the interface is claimed for the one or for the other.         *)
StackOf(c) == transport[<<c, "stack">>]
HeapOf(c) == transport[<<c, "heap">>]

StackOk(c) ==
    /\ StackOf(c).listener = Nobody
    /\ IF making[c] = "no" THEN StackOf(c) = None ELSE StackOf(c).exists
    /\ making[c] = "claim" => ~StackOf(c).claimed
    /\ making[c] = "clear" => StackOf(c).claimed
    /\ making[c] = "check" => (StackOf(c).isOk => StackOf(c).claimed)
    /\ making[c] = "return" => ~StackOf(c).claimed

HeapOk(c) ==
    /\ ~HeapOf(c).exists => HeapOf(c) = None
    /\ HeapOf(c).exists => HeapOf(c).claimed /\ making[c] \in {"no", "return"}

ClaimOk(c) ==
    /\ StackOf(c).claimed \/ HeapOf(c).claimed <=> claimedBy = c
    /\ ~(StackOf(c).claimed /\ HeapOf(c).claimed)

ThreadInv == \A c \in Callers : StackOk(c) /\ HeapOk(c) /\ ClaimOk(c)

(* An AdbBase has a transport that make() has returned, and no other has.  *)
BaseInv ==
    \A b \in Bases : \A c \in Callers :
        mTransport[b] = c => /\ making[c] = "no" /\ HeapOf(c).exists
                             /\ \A d \in Bases : mTransport[d] = c => d = b

ListenerInv ==
    \A c \in Callers : \A b \in Bases :
        /\ mTransport[b] = c => HeapOf(c).listener = b
        /\ HeapOf(c).listener = b => mTransport[b] \in {c, Nobody}

LifeInv == TypeOK /\ ThreadInv /\ BaseInv /\ ListenerInv

-----------------------------------------------------------------------------
(* There is no transport yet, and nothing is claimed.                      *)
LEMMA InitHolds == Init => LifeInv
<1> SUFFICES ASSUME Init PROVE LifeInv
  OBVIOUS
<1> USE DEF Init, None, StackOf, HeapOf
<1>1. TypeOK
  BY DEF TypeOK, Transports
<1>2. ThreadInv /\ BaseInv
  BY Fresh DEF ThreadInv, StackOk, HeapOk, ClaimOk, BaseInv
<1>3. ListenerInv
  BY Fresh DEF ListenerInv
<1> QED
  BY <1>1, <1>2, <1>3 DEF LifeInv

(* Types, through the steps of all threads and AdbBase objects.            *)
LEMMA TypeStep == TypeOK /\ [Next]_vars => TypeOK'
<1> SUFFICES ASSUME TypeOK, [Next]_vars PROVE TypeOK'
  OBVIOUS
<1> USE DEF TypeOK, Transports, None
<1>1. ASSUME NEW c \in Callers, MakeStep(c) PROVE TypeOK'
  <2>1. making' \in [Callers -> {"no", "claim", "clear", "check", "return"}]
    BY <1>1, SMTT(30)
       DEF MakeStep, MakeOpens, MakeClaims, MakeClears, MakeMoves, MakeReturns, Going
  <2>2. claimedBy' \in Callers \cup {Nobody} /\ UNCHANGED <<device, mTransport>>
    BY <1>1 DEF MakeStep, MakeOpens, MakeClaims, MakeClears, MakeMoves, MakeReturns, Releases, Destroys
  <2>3. transport' \in [Slots -> Transports]
    <3>1. \A t \in Transports : /\ [t EXCEPT !.isOk = FALSE] \in Transports
                               /\ [t EXCEPT !.claimed = TRUE] \in Transports
                               /\ MovedFrom(t) \in Transports
      BY DEF MovedFrom
    <3>2. <<c, "stack">> \in Slots /\ <<c, "heap">> \in Slots
      OBVIOUS
    <3>3. [exists |-> TRUE, isOk |-> TRUE, claimed |-> FALSE, listener |-> Nobody] \in Transports
          /\ None \in Transports
      OBVIOUS
    <3> HIDE DEF Transports, Slots, None
    <3>4. CASE MakeOpens(c)
      BY <3>2, <3>3, <3>4 DEF MakeOpens
    <3>5. CASE MakeClaims(c) \/ MakeClears(c)
      BY <3>1, <3>2, <3>5 DEF MakeClaims, MakeClears, Throws
    <3>6. CASE MakeMoves(c)
      BY <3>1, <3>2, <3>6 DEF MakeMoves
    <3>7. CASE MakeReturns(c)
      BY <3>2, <3>3, <3>7 DEF MakeReturns, Destroys
    <3> QED
      BY <1>1, <3>4, <3>5, <3>6, <3>7 DEF MakeStep
  <2> QED
    BY <2>1, <2>2, <2>3
<1>2. ASSUME NEW c \in Callers, Drop(c) PROVE TypeOK'
  BY <1>2 DEF Drop, Destroys, Releases
<1>3. ASSUME NEW b \in Bases, NEW c \in Callers, makeUnique(b, c) PROVE TypeOK'
  <2>1. [transport[<<c, "heap">>] EXCEPT !.listener = b] \in Transports
    OBVIOUS
  <2> QED
    BY <1>3, <2>1 DEF makeUnique
<1>4. ASSUME NEW b \in Bases, moveTransportOut(b) PROVE TypeOK'
  BY <1>4 DEF moveTransportOut
<1>5. ASSUME NEW b \in Bases, DestroyBase(b) PROVE TypeOK'
  BY <1>5 DEF DestroyBase, Destroys, Releases
<1>6. CASE UNCHANGED vars
  BY <1>6 DEF vars
<1> QED
  BY <1>1, <1>2, <1>3, <1>4, <1>5, <1>6 DEF Next

-----------------------------------------------------------------------------
(* A step of a thread on its own transports leaves those of the others.    *)
Elsewhere(c) ==
    \A d \in Callers \ {c} : /\ making'[d] = making[d]
                             /\ StackOf(d)' = StackOf(d)
                             /\ HeapOf(d)' = HeapOf(d)
ClaimMoves(c) == claimedBy' = claimedBy \/ (claimedBy \in {Nobody, c} /\ claimedBy' \in {Nobody, c})

(* What the others have then still holds.                                  *)
LEMMA OthersKept ==
    ASSUME LifeInv, NEW c \in Callers, Elsewhere(c), ClaimMoves(c), StackOk(c)', HeapOk(c)', ClaimOk(c)'
    PROVE  ThreadInv'
<1>1. ASSUME NEW d \in Callers, d # c PROVE StackOk(d)' /\ HeapOk(d)' /\ ClaimOk(d)'
  <2>1. making'[d] = making[d] /\ StackOf(d)' = StackOf(d) /\ HeapOf(d)' = HeapOf(d)
    BY <1>1 DEF Elsewhere
  <2>2. claimedBy' = d <=> claimedBy = d
    BY <1>1, Fresh DEF ClaimMoves
  <2>3. StackOk(d) /\ HeapOk(d) /\ ClaimOk(d)
    BY DEF LifeInv, ThreadInv
  <2>4. StackOk(d)'
    BY <2>1, <2>3 DEF StackOk, None
  <2>5. HeapOk(d)'
    BY <2>1, <2>3 DEF HeapOk, None
  <2>6. ClaimOk(d)'
    BY <2>1, <2>2, <2>3 DEF ClaimOk
  <2> QED
    BY <2>4, <2>5, <2>6
<1> QED
  BY <1>1 DEF ThreadInv

(* If no AdbBase has the transport, what the AdbBases have holds, too.     *)
LEMMA OwnStep ==
    ASSUME LifeInv, TypeOK', NEW c \in Callers, Elsewhere(c), ClaimMoves(c),
           StackOk(c)', HeapOk(c)', ClaimOk(c)',
           ~Owned(c), UNCHANGED mTransport, HeapOf(c)'.listener \in {HeapOf(c).listener, Nobody}
    PROVE  LifeInv'
<1>1. ThreadInv'
  BY OthersKept
<1>2. BaseInv'
  <2> SUFFICES ASSUME NEW b \in Bases, NEW d \in Callers, mTransport[b] = d
               PROVE  /\ making'[d] = "no" /\ HeapOf(d)'.exists
                      /\ \A e \in Bases : mTransport[e] = d => e = b
    BY DEF BaseInv
  <2>1. d # c
    BY DEF Owned
  <2>2. making'[d] = making[d] /\ HeapOf(d)' = HeapOf(d)
    BY <2>1 DEF Elsewhere
  <2> QED
    BY <2>2 DEF LifeInv, BaseInv
<1>3. ListenerInv'
  <2>1. ASSUME NEW d \in Callers, d # c PROVE HeapOf(d)'.listener = HeapOf(d).listener
    BY <2>1 DEF Elsewhere
  <2>2. \A b \in Bases : mTransport[b] # c
    BY DEF Owned
  <2>3. ASSUME NEW d \in Callers, NEW a \in Bases
        PROVE  /\ mTransport'[a] = d => HeapOf(d)'.listener = a
               /\ HeapOf(d)'.listener = a => mTransport'[a] \in {d, Nobody}
    <3>1. CASE d = c
      BY <2>2, <3>1, Fresh DEF LifeInv, ListenerInv
    <3>2. CASE d # c
      BY <2>1, <3>2 DEF LifeInv, ListenerInv
    <3> QED
      BY <3>1, <3>2
  <2> QED
    BY <2>3 DEF ListenerInv
<1> QED
  BY <1>1, <1>2, <1>3 DEF LifeInv

(* Nobody has what make() has not returned.                                *)
LEMMA MakingIsFree == ASSUME LifeInv, NEW c \in Callers, making[c] # "no" \/ ~HeapOf(c).exists PROVE ~Owned(c)
  BY DEF LifeInv, BaseInv, Owned

-----------------------------------------------------------------------------
(* The steps of make().                                                    *)
LEMMA OpensStep == ASSUME LifeInv, TypeOK', NEW c \in Callers, MakeOpens(c) PROVE LifeInv'
<1>1. Elsewhere(c) /\ ClaimMoves(c) /\ UNCHANGED mTransport
  BY DEF LifeInv, TypeOK, MakeOpens, Going, Elsewhere, ClaimMoves, HeapOf, StackOf
<1>2. /\ making[c] = "no" /\ making'[c] = "claim" /\ ~HeapOf(c).exists
      /\ StackOf(c)' = [exists |-> TRUE, isOk |-> TRUE, claimed |-> FALSE, listener |-> Nobody]
      /\ HeapOf(c)' = HeapOf(c) /\ UNCHANGED claimedBy
  BY DEF LifeInv, TypeOK, MakeOpens, Going, HeapOf, StackOf
<1>3. StackOf(c) = None /\ HeapOf(c) = None /\ ClaimOk(c)
  BY <1>2 DEF LifeInv, ThreadInv, StackOk, HeapOk
<1>4. StackOk(c)' /\ HeapOk(c)' /\ ClaimOk(c)'
  BY <1>2, <1>3 DEF StackOk, HeapOk, ClaimOk, None
<1>5. ~Owned(c)
  BY <1>2, MakingIsFree
<1> QED
  BY <1>1, <1>2, <1>4, <1>5, OwnStep

(* The claim goes from nobody to the one on the stack.                     *)
LEMMA ClaimsStep == ASSUME LifeInv, TypeOK', NEW c \in Callers, MakeClaims(c) PROVE LifeInv'
<1>1. Elsewhere(c) /\ ClaimMoves(c) /\ UNCHANGED mTransport
  BY DEF LifeInv, TypeOK, MakeClaims, Going, Throws, Elsewhere, ClaimMoves, HeapOf, StackOf
<1>2. making[c] = "claim" /\ HeapOf(c)' = HeapOf(c)
  BY DEF LifeInv, TypeOK, MakeClaims, Going, Throws, HeapOf
<1>3. \/ /\ making'[c] = "clear" /\ claimedBy' = c
         /\ StackOf(c)' = [StackOf(c) EXCEPT !.claimed = TRUE]
      \/ /\ making'[c] = "check" /\ UNCHANGED claimedBy
         /\ StackOf(c)' = [StackOf(c) EXCEPT !.isOk = FALSE]
  BY DEF LifeInv, TypeOK, MakeClaims, Going, Throws, StackOf
<1>4. StackOf(c) \in Transports
  BY DEF LifeInv, TypeOK, StackOf
<1>5. StackOk(c) /\ HeapOk(c) /\ ClaimOk(c)
  BY DEF LifeInv, ThreadInv
<1>6. HeapOf(c) = None /\ ~StackOf(c).claimed
  BY <1>2, <1>5 DEF StackOk, HeapOk
<1>7. StackOk(c)' /\ HeapOk(c)' /\ ClaimOk(c)'
  BY <1>2, <1>3, <1>4, <1>5, <1>6 DEF StackOk, HeapOk, ClaimOk, Transports, None
<1>8. ~Owned(c)
  BY <1>2, MakingIsFree
<1> QED
  BY <1>1, <1>2, <1>7, <1>8, OwnStep

(* A clear that fails changes isOk only.                                   *)
LEMMA ClearsStep == ASSUME LifeInv, TypeOK', NEW c \in Callers, MakeClears(c) PROVE LifeInv'
<1>1. Elsewhere(c) /\ ClaimMoves(c) /\ UNCHANGED mTransport
  BY DEF LifeInv, TypeOK, MakeClears, Going, Throws, Elsewhere, ClaimMoves, HeapOf, StackOf
<1>2. making[c] = "clear" /\ making'[c] = "check" /\ HeapOf(c)' = HeapOf(c) /\ UNCHANGED claimedBy
  BY DEF LifeInv, TypeOK, MakeClears, Going, Throws, HeapOf
<1>3. StackOf(c)' = [StackOf(c) EXCEPT !.isOk = FALSE] \/ StackOf(c)' = StackOf(c)
  BY DEF LifeInv, TypeOK, MakeClears, Throws, StackOf
<1>4. StackOf(c) \in Transports
  BY DEF LifeInv, TypeOK, StackOf
<1>5. StackOk(c) /\ HeapOk(c) /\ ClaimOk(c)
  BY DEF LifeInv, ThreadInv
<1>6. StackOk(c)' /\ ClaimOk(c)'
  BY <1>2, <1>3, <1>4, <1>5 DEF StackOk, ClaimOk, Transports
<1>7. HeapOk(c)'
  BY <1>2, <1>5 DEF HeapOk
<1>8. ~Owned(c)
  BY <1>2, MakingIsFree
<1> QED
  BY <1>1, <1>2, <1>6, <1>7, <1>8, OwnStep

(* The claim moves with the flags.                                         *)
LEMMA MovesStep == ASSUME LifeInv, TypeOK', NEW c \in Callers, MakeMoves(c) PROVE LifeInv'
<1>1. Elsewhere(c) /\ ClaimMoves(c) /\ UNCHANGED mTransport
  BY DEF LifeInv, TypeOK, MakeMoves, Going, Elsewhere, ClaimMoves, HeapOf, StackOf
<1>2. /\ making[c] = "check" /\ making'[c] = "return" /\ StackOf(c).isOk
      /\ StackOf(c)' = MovedFrom(StackOf(c)) /\ HeapOf(c)' = StackOf(c) /\ UNCHANGED claimedBy
  BY DEF LifeInv, TypeOK, MakeMoves, Going, HeapOf, StackOf
<1>3. StackOf(c) \in Transports
  BY DEF LifeInv, TypeOK, StackOf
<1>4. StackOk(c) /\ HeapOk(c) /\ ClaimOk(c)
  BY DEF LifeInv, ThreadInv
<1>5. StackOf(c).claimed /\ HeapOf(c) = None
  BY <1>2, <1>4 DEF StackOk, HeapOk
<1>6. /\ StackOf(c)'.exists /\ StackOf(c)'.listener = Nobody /\ ~StackOf(c)'.claimed
      /\ HeapOf(c)'.exists /\ HeapOf(c)'.claimed
  BY <1>2, <1>3, <1>4, <1>5 DEF MovedFrom, StackOk, Transports
<1>7. StackOk(c)' /\ HeapOk(c)' /\ ClaimOk(c)'
  BY <1>2, <1>4, <1>5, <1>6 DEF StackOk, HeapOk, ClaimOk, None
<1>8. ~Owned(c) /\ HeapOf(c)'.listener = Nobody
  BY <1>2, <1>4, MakingIsFree DEF StackOk
<1> QED
  BY <1>1, <1>2, <1>7, <1>8, OwnStep

(* The one on the stack is destroyed, moved from or not ok.                *)
LEMMA ReturnsStep == ASSUME LifeInv, TypeOK', NEW c \in Callers, MakeReturns(c) PROVE LifeInv'
<1>1. StackOk(c) /\ HeapOk(c) /\ ClaimOk(c)
  BY DEF LifeInv, ThreadInv
<1>2. /\ making[c] \in {"return", "check"} /\ making'[c] = "no"
      /\ StackOf(c)' = None /\ HeapOf(c)' = HeapOf(c)
      /\ claimedBy' = IF StackOf(c).claimed THEN Nobody ELSE claimedBy
  BY DEF LifeInv, TypeOK, MakeReturns, Going, Destroys, Releases, HeapOf, StackOf
<1>3. Elsewhere(c) /\ ClaimMoves(c) /\ UNCHANGED mTransport
  <2>1. ClaimMoves(c)
    BY <1>1, <1>2 DEF ClaimMoves, ClaimOk
  <2> QED
    BY <2>1 DEF LifeInv, TypeOK, MakeReturns, Going, Destroys, Elsewhere, HeapOf, StackOf
<1>4. StackOk(c)' /\ HeapOk(c)' /\ ClaimOk(c)'
  BY <1>1, <1>2, Fresh DEF StackOk, HeapOk, ClaimOk, None
<1>5. ~Owned(c)
  BY <1>2, MakingIsFree
<1> QED
  BY <1>2, <1>3, <1>4, <1>5, OwnStep

(* The application drops a transport.                                      *)
LEMMA DropStep == ASSUME LifeInv, TypeOK', NEW c \in Callers, Drop(c) PROVE LifeInv'
<1>1. StackOk(c) /\ HeapOk(c) /\ ClaimOk(c)
  BY DEF LifeInv, ThreadInv
<1>2. /\ making[c] = "no" /\ making' = making /\ HeapOf(c).exists /\ ~Owned(c)
      /\ StackOf(c)' = StackOf(c) /\ HeapOf(c)' = None
      /\ claimedBy' = IF HeapOf(c).claimed THEN Nobody ELSE claimedBy
  BY DEF LifeInv, TypeOK, Drop, Held, Destroys, Releases, HeapOf, StackOf
<1>3. Elsewhere(c) /\ ClaimMoves(c) /\ UNCHANGED mTransport
  <2>1. ClaimMoves(c)
    BY <1>1, <1>2 DEF ClaimMoves, ClaimOk
  <2> QED
    BY <2>1 DEF LifeInv, TypeOK, Drop, Destroys, Elsewhere, HeapOf, StackOf
<1>4. StackOk(c)' /\ HeapOk(c)' /\ ClaimOk(c)'
  BY <1>1, <1>2, Fresh DEF StackOk, HeapOk, ClaimOk, None
<1> QED
  BY <1>2, <1>3, <1>4, OwnStep DEF None

-----------------------------------------------------------------------------
(* The steps of an AdbBase.                                                *)
LEMMA MakeUniqueStep ==
    ASSUME LifeInv, TypeOK', NEW b \in Bases, NEW c \in Callers, makeUnique(b, c) PROVE LifeInv'
<1>1. /\ making[c] = "no" /\ making' = making /\ claimedBy' = claimedBy /\ mTransport[b] = Gone
      /\ HeapOf(c).exists /\ \A a \in Bases : mTransport[a] # c
      /\ StackOf(c)' = StackOf(c) /\ HeapOf(c)' = [HeapOf(c) EXCEPT !.listener = b]
  BY DEF LifeInv, TypeOK, makeUnique, Held, Owned, HeapOf, StackOf
<1>2. \A a \in Bases : mTransport'[a] = IF a = b THEN c ELSE mTransport[a]
  BY DEF LifeInv, TypeOK, makeUnique
<1>3. HeapOf(c) \in Transports
  BY DEF LifeInv, TypeOK, HeapOf
<1>4. StackOk(c) /\ HeapOk(c) /\ ClaimOk(c)
  BY DEF LifeInv, ThreadInv
<1>5. /\ HeapOf(c)'.listener = b
      /\ HeapOf(c)'.exists = HeapOf(c).exists /\ HeapOf(c)'.claimed = HeapOf(c).claimed
  BY <1>1, <1>3 DEF Transports
<1>6. Elsewhere(c) /\ ClaimMoves(c)
  BY DEF LifeInv, TypeOK, makeUnique, Elsewhere, ClaimMoves, HeapOf, StackOf
<1>7. StackOk(c)' /\ HeapOk(c)' /\ ClaimOk(c)'
  BY <1>1, <1>4, <1>5 DEF StackOk, HeapOk, ClaimOk
<1>8. ThreadInv'
  BY <1>6, <1>7, OthersKept
<1>9. \A d \in Callers : /\ HeapOf(d)'.exists = HeapOf(d).exists
                         /\ d # c => HeapOf(d)'.listener = HeapOf(d).listener
  BY <1>5, <1>6 DEF Elsewhere
<1>10. BaseInv'
  BY <1>1, <1>2, <1>9 DEF LifeInv, BaseInv
<1>11. ListenerInv'
  <2>1. \A d \in Callers \ {c} : HeapOf(d).listener # b
    BY <1>1, Fresh DEF LifeInv, ListenerInv
  <2>2. ASSUME NEW d \in Callers, NEW a \in Bases
        PROVE  /\ mTransport'[a] = d => HeapOf(d)'.listener = a
               /\ HeapOf(d)'.listener = a => mTransport'[a] \in {d, Nobody}
    <3>1. CASE d = c
      BY <1>1, <1>2, <1>5, <3>1
    <3>2. CASE d # c
      BY <1>2, <1>9, <2>1, <3>2 DEF LifeInv, ListenerInv
    <3> QED
      BY <3>1, <3>2
  <2> QED
    BY <2>2 DEF ListenerInv
<1> QED
  BY <1>8, <1>10, <1>11 DEF LifeInv

(* The listeners stay, but their AdbBase is there.                         *)
LEMMA MoveOutStep ==
    ASSUME LifeInv, TypeOK', NEW b \in Bases, moveTransportOut(b) PROVE LifeInv'
<1>1. UNCHANGED <<making, transport, claimedBy>>
  BY DEF moveTransportOut
<1>2. \A a \in Bases : mTransport'[a] = IF a = b THEN Nobody ELSE mTransport[a]
  BY DEF LifeInv, TypeOK, moveTransportOut
<1>3. ThreadInv'
  BY <1>1 DEF LifeInv, ThreadInv, StackOk, HeapOk, ClaimOk, StackOf, HeapOf
<1>4. BaseInv'
  BY <1>1, <1>2, Fresh DEF LifeInv, BaseInv, HeapOf
<1>5. ListenerInv'
  <2>1. ASSUME NEW d \in Callers, NEW a \in Bases
        PROVE  /\ mTransport'[a] = d => HeapOf(d)'.listener = a
               /\ HeapOf(d)'.listener = a => mTransport'[a] \in {d, Nobody}
    <3>1. HeapOf(d)' = HeapOf(d)
      BY <1>1 DEF HeapOf
    <3> QED
      BY <1>2, <3>1, Fresh DEF LifeInv, ListenerInv
  <2> QED
    BY <2>1 DEF ListenerInv
<1> QED
  BY <1>3, <1>4, <1>5 DEF LifeInv

(* The transport goes with its AdbBase, and the listeners with it.         *)
LEMMA DestroyStep ==
    ASSUME LifeInv, TypeOK', NEW b \in Bases, DestroyBase(b) PROVE LifeInv'
<1> PICK c \in Callers : mTransport[b] = c
  BY DEF DestroyBase
<1>1. making[c] = "no" /\ HeapOf(c).exists /\ \A d \in Bases : mTransport[d] = c => d = b
  BY DEF LifeInv, BaseInv
<1>2. /\ making' = making /\ StackOf(c)' = StackOf(c) /\ HeapOf(c)' = None
      /\ claimedBy' = IF HeapOf(c).claimed THEN Nobody ELSE claimedBy
  BY <1>1 DEF LifeInv, TypeOK, DestroyBase, Destroys, Releases, HeapOf, StackOf
<1>3. \A a \in Bases : mTransport'[a] = IF a = b THEN Gone ELSE mTransport[a]
  BY DEF LifeInv, TypeOK, DestroyBase
<1>4. StackOk(c) /\ HeapOk(c) /\ ClaimOk(c)
  BY <1>1 DEF LifeInv, ThreadInv
<1>5. Elsewhere(c) /\ ClaimMoves(c)
  <2>1. ClaimMoves(c)
    BY <1>2, <1>4 DEF ClaimMoves, ClaimOk
  <2> QED
    BY <1>1, <2>1 DEF LifeInv, TypeOK, DestroyBase, Destroys, Elsewhere, HeapOf, StackOf
<1>6. StackOk(c)' /\ HeapOk(c)' /\ ClaimOk(c)'
  BY <1>1, <1>2, <1>4, Fresh DEF StackOk, HeapOk, ClaimOk, None
<1>7. ThreadInv'
  BY <1>1, <1>5, <1>6, OthersKept
<1>8. \A d \in Callers \ {c} : HeapOf(d)' = HeapOf(d)
  BY <1>5 DEF Elsewhere
<1>9. BaseInv'
  <2> SUFFICES ASSUME NEW a \in Bases, NEW d \in Callers, mTransport'[a] = d
               PROVE  /\ making'[d] = "no" /\ HeapOf(d)'.exists
                      /\ \A e \in Bases : mTransport'[e] = d => e = a
    BY DEF BaseInv
  <2>1. a # b /\ mTransport[a] = d
    BY <1>3, Fresh
  <2>2. d # c
    BY <1>1, <2>1
  <2> QED
    BY <1>2, <1>3, <1>8, <2>1, <2>2, Fresh DEF LifeInv, BaseInv
<1>10. ListenerInv'
  <2>1. HeapOf(c)'.listener = Nobody
    BY <1>2 DEF None
  <2>2. \A d \in Callers \ {c} : HeapOf(d).listener # b
    BY <1>1, Fresh DEF LifeInv, ListenerInv
  <2>3. ASSUME NEW d \in Callers, NEW a \in Bases
        PROVE  /\ mTransport'[a] = d => HeapOf(d)'.listener = a
               /\ HeapOf(d)'.listener = a => mTransport'[a] \in {d, Nobody}
    <3>1. CASE d = c
      BY <1>1, <1>3, <2>1, <3>1, Fresh
    <3>2. CASE d # c
      BY <1>3, <1>8, <2>2, <3>2, Fresh DEF LifeInv, ListenerInv
    <3> QED
      BY <3>1, <3>2
  <2> QED
    BY <2>3 DEF ListenerInv
<1> QED
  BY <1>7, <1>9, <1>10 DEF LifeInv

-----------------------------------------------------------------------------
(* Every step of the program.                                              *)
LEMMA LifeStep == LifeInv /\ [Next]_vars => LifeInv'
<1> SUFFICES ASSUME LifeInv, [Next]_vars PROVE LifeInv'
  OBVIOUS
<1>1. TypeOK'
  BY TypeStep DEF LifeInv
<1>2. ASSUME NEW c \in Callers, MakeStep(c) PROVE LifeInv'
  BY <1>1, <1>2, OpensStep, ClaimsStep, ClearsStep, MovesStep, ReturnsStep DEF MakeStep
<1>3. ASSUME NEW c \in Callers, Drop(c) PROVE LifeInv'
  BY <1>1, <1>3, DropStep
<1>4. ASSUME NEW b \in Bases, NEW c \in Callers, makeUnique(b, c) PROVE LifeInv'
  BY <1>1, <1>4, MakeUniqueStep
<1>5. ASSUME NEW b \in Bases, moveTransportOut(b) \/ DestroyBase(b) PROVE LifeInv'
  BY <1>1, <1>5, MoveOutStep, DestroyStep
<1>6. CASE UNCHANGED vars
  BY <1>6 DEF vars, LifeInv, TypeOK, ThreadInv, StackOk, HeapOk, ClaimOk, BaseInv,
              ListenerInv, StackOf, HeapOf
<1> QED
  BY <1>2, <1>3, <1>4, <1>5, <1>6 DEF Next

(* The inductive invariant behind the theorems.                            *)
LEMMA AlwaysLifeInv == Spec => []LifeInv
  BY InitHolds, LifeStep, PTL DEF Spec

(* The flags and listeners of the transports and mTransport of each        *)
(* AdbBase keep their types.                                               *)
THEOREM Typing == Spec => []TypeOK
  BY AlwaysLifeInv, PTL DEF LifeInv

(* Through every move of a transport and every failure of libusb in        *)
(* make(), the interface is claimed exactly while one transport is there   *)
(* that will release it (UsbTransport.cpp:24 takes the flag from the one   *)
(* moved from).                                                            *)
THEOREM Owner == Spec => []ClaimHasOwner
<1>1. LifeInv => ClaimHasOwner
  BY DEF LifeInv, ThreadInv, ClaimOk, HeapOk, ClaimHasOwner, StackOf, HeapOf
<1> QED
  BY <1>1, AlwaysLifeInv, PTL

(* The listeners on a transport are those of the AdbBase that has it, or   *)
(* of one that gave it away with moveTransportOut().                       *)
THEOREM Listener == Spec => []ListenerHasTransport
<1>1. LifeInv => ListenerHasTransport
  <2> SUFFICES ASSUME LifeInv PROVE ListenerHasTransport
    OBVIOUS
  <2>1. \A c \in Callers : HeapOf(c).listener \in Bases \cup {Nobody}
    BY DEF LifeInv, TypeOK, Transports, HeapOf
  <2> QED
    BY <2>1 DEF LifeInv, ListenerInv, ListenerHasTransport, HeapOf
<1> QED
  BY <1>1, AlwaysLifeInv, PTL
-----------------------------------------------------------------------------
(* The scan.  Whether findAdbInterface finds the right interface is a      *)
(* matter of two loops, over the interfaces and over the endpoints of each *)
(* one; for each there is an account of what the scan has seen so far.     *)
Addresses == {NoAddress} \cup (Nat \X Nat)
Scans == [interfaceNumber : Nat, write : Addresses, read : Addresses, packetSize : Nat,
          in : BOOLEAN, out : BOOLEAN, found : BOOLEAN, failed : BOOLEAN]

(* The sizes: those in Z have been seen.                                   *)
Differ(Z) == \E a, b \in Z : a # b
Seen(Z, packetSize, failed) ==
    /\ Z \subseteq Nat /\ packetSize \in Nat
    /\ failed <=> 0 \in Z \/ Differ(Z)
    /\ ~failed => IF Z = {} THEN packetSize = 0 ELSE Z = {packetSize}

(* One more size, compared with the one that is kept.                      *)
Compared(packetSize, failed, z, kept, fails) ==
    /\ failed \in BOOLEAN /\ fails \in BOOLEAN
    /\ kept = IF packetSize = 0 THEN z ELSE packetSize
    /\ fails <=> failed \/ z = 0 \/ packetSize \notin {0, z}

(* It is seen then.                                                        *)
LEMMA SeenMore ==
    ASSUME NEW Z, NEW packetSize, NEW failed, Seen(Z, packetSize, failed),
           NEW z \in Nat, NEW kept, NEW fails, Compared(packetSize, failed, z, kept, fails)
    PROVE  Seen(Z \cup {z}, kept, fails)
<1>0. /\ failed \in BOOLEAN /\ fails \in BOOLEAN
      /\ kept = IF packetSize = 0 THEN z ELSE packetSize
      /\ fails <=> failed \/ z = 0 \/ packetSize \notin {0, z}
  BY DEF Compared
<1>1. Z \cup {z} \subseteq Nat /\ kept \in Nat
  BY <1>0 DEF Seen
<1>2. CASE failed
  <2>1. 0 \in Z \cup {z} \/ Differ(Z \cup {z})
    BY <1>0, <1>2 DEF Seen, Differ
  <2> QED
    BY <1>0, <1>1, <1>2, <2>1 DEF Seen
<1>3. CASE ~failed /\ Z = {}
  <2>1. packetSize = 0 /\ kept = z /\ (fails <=> z = 0) /\ Z \cup {z} = {z}
    BY <1>0, <1>3 DEF Seen
  <2>2. ~Differ({z})
    BY DEF Differ
  <2> QED
    BY <1>0, <1>1, <2>1, <2>2 DEF Seen
<1>4. CASE ~failed /\ Z # {}
  <2>1. Z = {packetSize} /\ packetSize # 0 /\ kept = packetSize
    BY <1>0, <1>4 DEF Seen
  <2>2. fails <=> z = 0 \/ packetSize # z
    BY <1>0, <1>4, <2>1
  <2>3. Differ(Z \cup {z}) <=> packetSize # z
    BY <2>1 DEF Differ
  <2>4. 0 \in Z \cup {z} <=> z = 0
    BY <2>1
  <2>5. ~fails => Z \cup {z} = {kept}
    BY <2>1, <2>2
  <2> QED
    BY <1>0, <1>1, <2>2, <2>3, <2>4, <2>5 DEF Seen
<1> QED
  BY <1>0, <1>2, <1>3, <1>4

(* A direction: whether one of the first n endpoints of interface i is a   *)
(* bulk endpoint of that direction, and the address of the first of them.  *)
Fits(e, k, out) == e[k].bulk /\ e[k].out = out
First(e, n, out, m) ==
    m \in 1..n /\ Fits(e, m, out) /\ \A k \in 1..n : Fits(e, k, out) => m <= k
Way(e, i, n, out, has, address) ==
    /\ has <=> \E k \in 1..n : Fits(e, k, out)
    /\ has => \E m \in 1..n : First(e, n, out, m) /\ address = <<i, m>>

(* One more endpoint.                                                      *)
LEMMA WayMore ==
    ASSUME NEW e, NEW i, NEW n \in Nat, NEW out, NEW has \in BOOLEAN, NEW address,
           Way(e, i, n, out, has, address)
    PROVE  Way(e, i, n + 1, out, has \/ Fits(e, n + 1, out),
               IF Fits(e, n + 1, out) /\ ~has THEN <<i, n + 1>> ELSE address)
<1>0. /\ \A k \in 1..(n + 1) : k \in 1..n \/ k = n + 1
      /\ \A k \in 1..n : k \in 1..(n + 1) /\ k <= n + 1
      /\ n + 1 \in 1..(n + 1) /\ n + 1 <= n + 1
  OBVIOUS
<1>1. has \/ Fits(e, n + 1, out) <=> \E k \in 1..(n + 1) : Fits(e, k, out)
  BY <1>0 DEF Way
<1>2. CASE has
  <2>1. PICK m \in 1..n : First(e, n, out, m) /\ address = <<i, m>>
    BY <1>2 DEF Way
  <2>2. First(e, n + 1, out, m) /\ m \in 1..(n + 1)
    BY <1>0, <2>1 DEF First
  <2> QED
    BY <1>1, <1>2, <2>1, <2>2 DEF Way
<1>3. CASE ~has /\ Fits(e, n + 1, out)
  <2>1. \A k \in 1..n : ~Fits(e, k, out)
    BY <1>3 DEF Way
  <2>2. First(e, n + 1, out, n + 1)
    BY <1>0, <1>3, <2>1 DEF First
  <2> QED
    BY <1>0, <1>1, <1>3, <2>2 DEF Way
<1>4. CASE ~has /\ ~Fits(e, n + 1, out)
  BY <1>1, <1>4 DEF Way
<1> QED
  BY <1>2, <1>3, <1>4

-----------------------------------------------------------------------------
(* The loop over the endpoints of an interface.                            *)
AtPlace(e, i, k, s) == IF e[k].bulk THEN AtEndpoint(s, e[k], <<i, k>>) ELSE s
AtPlaces(e, i) == [k \in 1..Len(e) |-> [s \in Scans |-> AtPlace(e, i, k, s)]]
Begin(scan, i) == [scan EXCEPT !.interfaceNumber = i, !.in = FALSE, !.out = FALSE]
Scanned(scan, e, i) ==
    FoldLeft(LAMBDA s, k : IF e[k].bulk THEN AtEndpoint(s, e[k], <<i, k>>) ELSE s,
             [scan EXCEPT !.interfaceNumber = i, !.in = FALSE, !.out = FALSE], Indices(e))

(* The body of the fold.                                                   *)
PlaceBody(scan, e, i, f, t) ==
    IF t = {} THEN Begin(scan, i)
    ELSE AtPlace(e, i, Indices(e)[Max(t)], f[t \ {Max(t)}])

(* The scan keeps its type, endpoint by endpoint.                          *)
LEMMA AtEndpointType ==
    ASSUME NEW e \in Endpoint, NEW address \in Addresses, NEW s \in Scans
    PROVE  AtEndpoint(s, e, address) \in Scans
<1> DEFINE write == IF e.out /\ ~s.out THEN address ELSE s.write
           read == IF ~e.out /\ ~s.in THEN address ELSE s.read
           size == IF s.packetSize = 0 THEN e.size ELSE s.packetSize
<1>1. e.size \in Nat /\ e.out \in BOOLEAN
  BY DEF Endpoint
<1>2. write \in Addresses /\ read \in Addresses /\ size \in Nat
  BY <1>1 DEF Scans
<1>3. AtEndpoint(s, e, address) =
          [s EXCEPT !.write = write, !.out = s.out \/ e.out, !.read = read,
                    !.in = s.in \/ ~e.out, !.packetSize = size,
                    !.failed = s.failed \/ e.size = 0 \/ s.packetSize \notin {0, e.size}]
  BY DEF AtEndpoint, Scans
<1> HIDE DEF write, read, size
<1> QED
  BY <1>2, <1>3 DEF Scans

(* The same of an endpoint that may be passed over, ...                    *)
LEMMA AtPlaceType ==
    ASSUME NEW e \in Seq(Endpoint), NEW i \in Nat, NEW k \in 1..Len(e), NEW s \in Scans
    PROVE  AtPlace(e, i, k, s) \in Scans
<1>1. e[k] \in Endpoint /\ k \in Nat
  BY ElementOfSeq, LenProperties
<1>2. <<i, k>> \in Addresses /\ e[k].size \in Nat /\ e[k].out \in BOOLEAN
  BY <1>1 DEF Addresses, Endpoint
<1>3. AtEndpoint(s, e[k], <<i, k>>) \in Scans
  BY <1>1, <1>2, AtEndpointType
<1> QED
  BY <1>3 DEF AtPlace

(* ... and of all of them.                                                 *)
LEMMA AtPlacesType ==
    ASSUME NEW e \in Seq(Endpoint), NEW i \in Nat
    PROVE  /\ AtPlaces(e, i) \in [1..Len(e) -> [Scans -> Scans]]
           /\ \A k \in 1..Len(e) : \A s \in Scans : AtPlaces(e, i)[k][s] = AtPlace(e, i, k, s)
  BY AtPlaceType DEF AtPlaces

(* What the scan has after each endpoint.                                  *)
LEMMA ScannedStepwise ==
    ASSUME NEW scan \in Scans, NEW e \in Seq(Endpoint), NEW i \in Nat
    PROVE  \E h : /\ IsLeft(h, AtPlaces(e, i), Begin(scan, i), Len(e), Scans)
                  /\ Scanned(scan, e, i) = h[Len(e)]
<1> DEFINE n == Len(e)
           step == AtPlaces(e, i)
           base == Begin(scan, i)
           D == DOMAIN Indices(e)
           f == CHOOSE ff : ff = [t \in SUBSET D |-> PlaceBody(scan, e, i, ff, t)]
<1>1. n \in Nat /\ DOMAIN e = 1..n
  BY LenProperties
<1>2. D = 1..n /\ \A k \in 1..n : Indices(e)[k] = k
  BY <1>1 DEF Indices
<1>3. /\ step \in [1..n -> [Scans -> Scans]]
      /\ \A k \in 1..n : \A s \in Scans : step[k][s] = AtPlace(e, i, k, s)
  BY AtPlacesType
<1>4. base \in Scans
  BY DEF Begin, Scans
<1>5. Scanned(scan, e, i) = f[D]
  BY DEF Scanned, FoldLeft, MapThenFoldSet, PlaceBody, AtPlace, Begin
<1> HIDE DEF n, step, base, f, D
<1>6. PICK g : LeftFold(g, step, base, n, Scans)
  BY <1>1, <1>3, <1>4, LeftFoldExists
<1>7. \A t \in SUBSET (1..n) : g[t] = PlaceBody(scan, e, i, g, t)
  <2> SUFFICES ASSUME NEW t \in SUBSET (1..n) PROVE g[t] = PlaceBody(scan, e, i, g, t)
    OBVIOUS
  <2>1. CASE t = {}
    BY <1>6, <2>1 DEF LeftFold, PlaceBody, base
  <2>2. CASE t # {}
    <3>1. /\ Max(t) \in 1..n /\ g[t \ {Max(t)}] \in Scans
          /\ g[t] = step[Max(t)][g[t \ {Max(t)}]]
      BY <1>6, <2>2 DEF LeftFold
    <3>2. g[t] = AtPlace(e, i, Indices(e)[Max(t)], g[t \ {Max(t)}])
      BY <1>2, <1>3, <3>1
    <3> QED
      BY <2>2, <3>2 DEF PlaceBody
  <2> QED
    BY <2>1, <2>2
<1>8. g = [t \in SUBSET D |-> PlaceBody(scan, e, i, g, t)]
  <2>1. g = [t \in SUBSET (1..n) |-> g[t]]
    BY <1>6 DEF LeftFold
  <2> QED
    BY <1>2, <1>7, <2>1
<1>9. f = [t \in SUBSET D |-> PlaceBody(scan, e, i, f, t)]
  BY <1>8 DEF f
<1>10. \A t \in SUBSET (1..n) : f[t] = PlaceBody(scan, e, i, f, t)
  BY <1>2, <1>9
<1>11. LeftFollows(f, step, base, n, Scans)
  <2>1. f[{}] = base
    BY <1>10 DEF PlaceBody, base
  <2>2. ASSUME NEW t \in SUBSET (1..n), t # {}, f[t \ {Max(t)}] \in Scans
        PROVE  f[t] = step[Max(t)][f[t \ {Max(t)}]]
    <3>1. Max(t) \in 1..n
      BY <1>1, <2>2, GreatestOf
    <3>2. f[t] = AtPlace(e, i, Max(t), f[t \ {Max(t)}])
      BY <1>2, <1>10, <2>2, <3>1 DEF PlaceBody
    <3> QED
      BY <1>3, <2>2, <3>1, <3>2
  <2> QED
    BY <2>1, <2>2 DEF LeftFollows
<1>12. IsLeft(Stages(f, n), step, base, n, Scans)
  BY <1>1, <1>3, <1>4, <1>11, LeftFollowsSteps
<1>13. f[1..n] = Stages(f, n)[n]
  BY <1>1 DEF Stages
<1> QED
  BY <1>2, <1>5, <1>12, <1>13 DEF n, step, base

(* Its type.                                                               *)
LEMMA ScannedType ==
    ASSUME NEW scan \in Scans, NEW e \in Seq(Endpoint), NEW i \in Nat
    PROVE  Scanned(scan, e, i) \in Scans
<1>1. PICK h : /\ IsLeft(h, AtPlaces(e, i), Begin(scan, i), Len(e), Scans)
               /\ Scanned(scan, e, i) = h[Len(e)]
  BY ScannedStepwise
<1>2. Len(e) \in 0..Len(e)
  BY LenProperties
<1> QED
  BY <1>1, <1>2 DEF IsLeft

(* The account of the loop: what it found before stays, and of the first n *)
(* endpoints it has the sizes and the first of each direction.             *)
SizesTo(Z, e, n) == Z \cup {e[k].size : k \in {j \in 1..n : e[j].bulk}}
Account(scan, Z, e, i, n, s) ==
    /\ s.interfaceNumber = i /\ s.found = scan.found
    /\ Seen(SizesTo(Z, e, n), s.packetSize, s.failed)
    /\ Way(e, i, n, TRUE, s.out, s.write)
    /\ Way(e, i, n, FALSE, s.in, s.read)

(* Before the first endpoint.                                              *)
LEMMA AccountBegins ==
    ASSUME NEW scan \in Scans, NEW Z, Seen(Z, scan.packetSize, scan.failed),
           NEW e, NEW i \in Nat
    PROVE  Account(scan, Z, e, i, 0, Begin(scan, i))
<1> DEFINE s == Begin(scan, i)
<1>1. /\ s.interfaceNumber = i /\ s.found = scan.found /\ ~s.in /\ ~s.out
      /\ s.packetSize = scan.packetSize /\ s.failed = scan.failed
  BY DEF Begin, Scans
<1>2. SizesTo(Z, e, 0) = Z
  BY DEF SizesTo
<1>3. s.in = FALSE /\ s.out = FALSE
  BY DEF Begin, Scans
<1> HIDE DEF s
<1>4. Way(e, i, 0, TRUE, s.out, s.write) /\ Way(e, i, 0, FALSE, s.in, s.read)
  BY <1>3 DEF Way
<1>5. Account(scan, Z, e, i, 0, s)
  BY <1>1, <1>2, <1>4 DEF Account
<1> QED
  BY <1>5 DEF s

(* One more endpoint.                                                      *)
LEMMA AccountStep ==
    ASSUME NEW scan \in Scans, NEW Z, NEW e \in Seq(Endpoint), NEW i \in Nat,
           NEW n \in Nat, n + 1 \in 1..Len(e), NEW s \in Scans, Account(scan, Z, e, i, n, s)
    PROVE  Account(scan, Z, e, i, n + 1, AtPlace(e, i, n + 1, s))
<1> DEFINE m == n + 1
           r == AtPlace(e, i, m, s)
<1>1. /\ e[m] \in Endpoint /\ e[m].bulk \in BOOLEAN /\ e[m].out \in BOOLEAN
      /\ e[m].size \in Nat
  <2> HIDE DEF m
  <2>1. m \in 1..Len(e)
    BY DEF m
  <2>2. e[m] \in Endpoint
    BY <2>1, ElementOfSeq
  <2> QED
    BY <2>2 DEF Endpoint
<1>2. /\ s.interfaceNumber = i /\ s.found = scan.found
      /\ Seen(SizesTo(Z, e, n), s.packetSize, s.failed)
      /\ Way(e, i, n, TRUE, s.out, s.write)
      /\ Way(e, i, n, FALSE, s.in, s.read)
  BY DEF Account
<1>3. /\ s.out \in BOOLEAN /\ s.in \in BOOLEAN /\ s.failed \in BOOLEAN
  BY DEF Scans
<1>4. \A k \in 1..m : k \in 1..n \/ k = m
  OBVIOUS
<1>5. \A k \in 1..n : k \in 1..m
  OBVIOUS
<1>6. m \in 1..m
  OBVIOUS
<1>7. CASE e[m].bulk
  <2>1. r = AtEndpoint(s, e[m], <<i, m>>)
    BY <1>7 DEF AtPlace
  <2>2. /\ r.interfaceNumber = s.interfaceNumber /\ r.found = s.found
        /\ r.packetSize = IF s.packetSize = 0 THEN e[m].size ELSE s.packetSize
        /\ r.failed = (s.failed \/ e[m].size = 0 \/ s.packetSize \notin {0, e[m].size})
        /\ r.out = (s.out \/ e[m].out)
        /\ r.write = IF e[m].out /\ ~s.out THEN <<i, m>> ELSE s.write
        /\ r.in = (s.in \/ ~e[m].out)
        /\ r.read = IF ~e[m].out /\ ~s.in THEN <<i, m>> ELSE s.read
    BY <2>1 DEF AtEndpoint, Scans
  <2>3. SizesTo(Z, e, m) = SizesTo(Z, e, n) \cup {e[m].size}
    <3> HIDE DEF m
    <3> QED
      BY <1>4, <1>5, <1>6, <1>7 DEF SizesTo
  <2>4. (Fits(e, m, TRUE) <=> e[m].out) /\ (Fits(e, m, FALSE) <=> ~e[m].out)
    BY <1>1, <1>7 DEF Fits
  <2>5. Way(e, i, m, TRUE, s.out \/ Fits(e, m, TRUE),
            IF Fits(e, m, TRUE) /\ ~s.out THEN <<i, m>> ELSE s.write)
    BY <1>2, <1>3, WayMore
  <2>6. Way(e, i, m, FALSE, s.in \/ Fits(e, m, FALSE),
            IF Fits(e, m, FALSE) /\ ~s.in THEN <<i, m>> ELSE s.read)
    BY <1>2, <1>3, WayMore
  <2>7. Seen(SizesTo(Z, e, n) \cup {e[m].size}, r.packetSize, r.failed)
    <3> HIDE DEF m, r
    <3>1. Compared(s.packetSize, s.failed, e[m].size, r.packetSize, r.failed)
      BY <1>3, <2>2 DEF Compared
    <3> QED
      BY <1>1, <1>2, <3>1, SeenMore
  <2> HIDE DEF m, r
  <2>8. Seen(SizesTo(Z, e, m), r.packetSize, r.failed)
    BY <2>3, <2>7
  <2>9. Way(e, i, m, TRUE, r.out, r.write)
    BY <1>1, <1>3, <2>2, <2>4, <2>5 DEF Way
  <2>10. Way(e, i, m, FALSE, r.in, r.read)
    BY <1>1, <1>3, <2>2, <2>4, <2>6 DEF Way
  <2>11. Account(scan, Z, e, i, m, r)
    BY <1>2, <2>2, <2>8, <2>9, <2>10 DEF Account
  <2> QED
    BY <2>11 DEF m, r
<1>8. CASE ~e[m].bulk
  <2>1. r = s
    BY <1>8 DEF AtPlace
  <2>2. SizesTo(Z, e, m) = SizesTo(Z, e, n)
    <3> HIDE DEF m
    <3> QED
      BY <1>4, <1>5, <1>8 DEF SizesTo
  <2>3. \A out : ~Fits(e, m, out)
    BY <1>8 DEF Fits
  <2>4. ASSUME NEW out, NEW has \in BOOLEAN, NEW address, Way(e, i, n, out, has, address)
        PROVE  Way(e, i, m, out, has, address)
    <3>1. Way(e, i, m, out, has \/ Fits(e, m, out),
              IF Fits(e, m, out) /\ ~has THEN <<i, m>> ELSE address)
      BY <2>4, WayMore
    <3>2. (has \/ Fits(e, m, out)) = has
      BY <2>3
    <3> QED
      BY <2>3, <3>1, <3>2
  <2> HIDE DEF m, r
  <2>5. Account(scan, Z, e, i, m, r)
    BY <1>2, <1>3, <2>1, <2>2, <2>4 DEF Account
  <2> QED
    BY <2>5 DEF m, r
<1> QED
  BY <1>1, <1>7, <1>8

(* The whole loop.                                                         *)
LEMMA ScannedRight ==
    ASSUME NEW scan \in Scans, NEW Z, Seen(Z, scan.packetSize, scan.failed),
           NEW e \in Seq(Endpoint), NEW i \in Nat
    PROVE  Account(scan, Z, e, i, Len(e), Scanned(scan, e, i))
<1>1. PICK h : /\ IsLeft(h, AtPlaces(e, i), Begin(scan, i), Len(e), Scans)
               /\ Scanned(scan, e, i) = h[Len(e)]
  BY ScannedStepwise
<1> DEFINE S == {n \in Nat : n <= Len(e) => Account(scan, Z, e, i, n, h[n])}
<1>2. /\ h \in [0..Len(e) -> Scans] /\ h[0] = Begin(scan, i)
      /\ \A k \in 1..Len(e) : h[k] = AtPlaces(e, i)[k][h[k - 1]]
  BY <1>1 DEF IsLeft
<1>3. Len(e) \in Nat
  BY LenProperties
<1>4. 0 \in S
  BY <1>2, AccountBegins
<1>5. ASSUME NEW n \in Nat, n \in S PROVE n + 1 \in S
  <2> SUFFICES ASSUME n + 1 <= Len(e) PROVE Account(scan, Z, e, i, n + 1, h[n + 1])
    OBVIOUS
  <2>1. n <= Len(e) /\ n + 1 \in 1..Len(e) /\ n \in 0..Len(e) /\ n + 1 - 1 = n
    BY <1>3
  <2>2. Account(scan, Z, e, i, n, h[n]) /\ h[n] \in Scans
    BY <1>2, <1>5, <2>1
  <2>3. h[n + 1] = AtPlaces(e, i)[n + 1][h[n]]
    BY <1>2, <2>1
  <2>4. h[n + 1] = AtPlace(e, i, n + 1, h[n])
    BY <2>1, <2>2, <2>3, AtPlacesType
  <2>5. Account(scan, Z, e, i, n + 1, AtPlace(e, i, n + 1, h[n]))
    BY <2>1, <2>2, AccountStep
  <2> QED
    BY <2>4, <2>5
<1>6. Nat \subseteq S
  <2> HIDE DEF S
  <2> QED
    BY <1>4, <1>5, Induction
<1>7. Account(scan, Z, e, i, Len(e), h[Len(e)])
  BY <1>3, <1>6
<1> QED
  BY <1>1, <1>7

-----------------------------------------------------------------------------
(* The loop over the interfaces.                                           *)
AtNumber(d, i, s) == IF s.found THEN s ELSE AtInterface(s, d.interfaces[i], i)
AtNumbers(d) == [i \in 1..Len(d.interfaces) |-> [s \in Scans |-> AtNumber(d, i, s)]]
NumberBody(d, f, t) ==
    IF t = {} THEN Start ELSE AtNumber(d, Indices(d.interfaces)[Max(t)], f[t \ {Max(t)}])

IsSuitable(interface) == interface.altsettings = 1 /\ interface.adb

(* AtInterface in these terms.                                             *)
LEMMA AtInterfaceIs ==
    ASSUME NEW scan, NEW interface, NEW i
    PROVE  AtInterface(scan, interface, i) =
               IF IsSuitable(interface)
               THEN [Scanned(scan, interface.endpoints, i) EXCEPT
                         !.found = Scanned(scan, interface.endpoints, i).in
                                   /\ Scanned(scan, interface.endpoints, i).out]
               ELSE [scan EXCEPT !.interfaceNumber = i]
  BY DEF AtInterface, Scanned, IsSuitable

(* The scan starts with no size seen and nothing found.                    *)
LEMMA StartSeesNothing ==
    Start \in Scans /\ ~Start.found /\ Seen({}, Start.packetSize, Start.failed)
<1>1. Start \in Scans /\ ~Start.found /\ Start.packetSize = 0 /\ Start.failed = FALSE
  BY DEF Start, Scans, Addresses
<1>2. Seen({}, 0, FALSE)
  BY DEF Seen, Differ
<1> QED
  BY <1>1, <1>2

(* The scan keeps its type, interface by interface, ...                    *)
LEMMA AtNumberType ==
    ASSUME NEW d, d.interfaces \in Seq(Interface), NEW i \in 1..Len(d.interfaces), NEW s \in Scans
    PROVE  AtNumber(d, i, s) \in Scans
<1> DEFINE interface == d.interfaces[i]
           scanned == Scanned(s, interface.endpoints, i)
<1>1. interface \in Interface /\ i \in Nat
  BY ElementOfSeq, LenProperties
<1>2. interface.endpoints \in Seq(Endpoint)
  BY <1>1 DEF Interface
<1>3. scanned \in Scans
  BY <1>1, <1>2, ScannedType
<1>4. AtInterface(s, interface, i) = IF IsSuitable(interface)
                                     THEN [scanned EXCEPT !.found = scanned.in /\ scanned.out]
                                     ELSE [s EXCEPT !.interfaceNumber = i]
  BY AtInterfaceIs
<1> HIDE DEF scanned
<1>5. [scanned EXCEPT !.found = scanned.in /\ scanned.out] \in Scans
  BY <1>3 DEF Scans
<1>6. [s EXCEPT !.interfaceNumber = i] \in Scans
  BY <1>1 DEF Scans
<1> QED
  BY <1>4, <1>5, <1>6 DEF AtNumber

(* ... for all of them.                                                    *)
LEMMA AtNumbersType ==
    ASSUME NEW d, d.interfaces \in Seq(Interface)
    PROVE  /\ AtNumbers(d) \in [1..Len(d.interfaces) -> [Scans -> Scans]]
           /\ \A i \in 1..Len(d.interfaces) : \A s \in Scans :
                  AtNumbers(d)[i][s] = AtNumber(d, i, s)
  BY AtNumberType DEF AtNumbers

(* What the scan has after each interface.                                 *)
LEMMA FoundStepwise ==
    ASSUME NEW d, d.interfaces \in Seq(Interface), d.perInterface
    PROVE  \E h : /\ IsLeft(h, AtNumbers(d), Start, Len(d.interfaces), Scans)
                  /\ findAdbInterface(d) = h[Len(d.interfaces)]
<1> DEFINE n == Len(d.interfaces)
           step == AtNumbers(d)
           D == DOMAIN Indices(d.interfaces)
           f == CHOOSE ff : ff = [t \in SUBSET D |-> NumberBody(d, ff, t)]
<1>1. n \in Nat /\ DOMAIN d.interfaces = 1..n
  BY LenProperties
<1>2. D = 1..n /\ \A k \in 1..n : Indices(d.interfaces)[k] = k
  BY <1>1 DEF Indices
<1>3. /\ step \in [1..n -> [Scans -> Scans]]
      /\ \A k \in 1..n : \A s \in Scans : step[k][s] = AtNumber(d, k, s)
  BY AtNumbersType
<1>4. Start \in Scans
  BY StartSeesNothing
<1>5. findAdbInterface(d) = f[D]
  BY DEF findAdbInterface, FoldLeft, MapThenFoldSet, NumberBody, AtNumber
<1> HIDE DEF n, step, f, D
<1>6. PICK g : LeftFold(g, step, Start, n, Scans)
  BY <1>1, <1>3, <1>4, LeftFoldExists
<1>7. \A t \in SUBSET (1..n) : g[t] = NumberBody(d, g, t)
  <2> SUFFICES ASSUME NEW t \in SUBSET (1..n) PROVE g[t] = NumberBody(d, g, t)
    OBVIOUS
  <2>1. CASE t = {}
    BY <1>6, <2>1 DEF LeftFold, NumberBody
  <2>2. CASE t # {}
    <3>1. /\ Max(t) \in 1..n /\ g[t \ {Max(t)}] \in Scans
          /\ g[t] = step[Max(t)][g[t \ {Max(t)}]]
      BY <1>6, <2>2 DEF LeftFold
    <3>2. g[t] = AtNumber(d, Indices(d.interfaces)[Max(t)], g[t \ {Max(t)}])
      BY <1>2, <1>3, <3>1
    <3> QED
      BY <2>2, <3>2 DEF NumberBody
  <2> QED
    BY <2>1, <2>2
<1>8. g = [t \in SUBSET D |-> NumberBody(d, g, t)]
  <2>1. g = [t \in SUBSET (1..n) |-> g[t]]
    BY <1>6 DEF LeftFold
  <2> QED
    BY <1>2, <1>7, <2>1
<1>9. f = [t \in SUBSET D |-> NumberBody(d, f, t)]
  BY <1>8 DEF f
<1>10. \A t \in SUBSET (1..n) : f[t] = NumberBody(d, f, t)
  BY <1>2, <1>9
<1>11. LeftFollows(f, step, Start, n, Scans)
  <2>1. f[{}] = Start
    BY <1>10 DEF NumberBody
  <2>2. ASSUME NEW t \in SUBSET (1..n), t # {}, f[t \ {Max(t)}] \in Scans
        PROVE  f[t] = step[Max(t)][f[t \ {Max(t)}]]
    <3>1. Max(t) \in 1..n
      BY <1>1, <2>2, GreatestOf
    <3>2. f[t] = AtNumber(d, Max(t), f[t \ {Max(t)}])
      BY <1>2, <1>10, <2>2, <3>1 DEF NumberBody
    <3> QED
      BY <1>3, <2>2, <3>1, <3>2
  <2> QED
    BY <2>1, <2>2 DEF LeftFollows
<1>12. IsLeft(Stages(f, n), step, Start, n, Scans)
  BY <1>1, <1>3, <1>4, <1>11, LeftFollowsSteps
<1>13. f[1..n] = Stages(f, n)[n]
  BY <1>1 DEF Stages
<1> QED
  BY <1>2, <1>5, <1>12, <1>13 DEF n, step

(* The account of this loop: the interfaces visited up to number n, the    *)
(* sizes in them, and the first complete interface, if it is among them.   *)
Ends(d, i) == d.interfaces[i].endpoints
SizesOf(d, i) == {Ends(d, i)[k].size : k \in Bulk(d, i)}
VisitedTo(d, n) == {i \in Suitable(d) : i <= n /\ \A c \in Complete(d) : i <= c}
SizesUpTo(d, n) == UNION {SizesOf(d, i) : i \in VisitedTo(d, n)}

Ways(d, i, s) ==
    /\ Way(Ends(d, i), i, Len(Ends(d, i)), TRUE, TRUE, s.write)
    /\ Way(Ends(d, i), i, Len(Ends(d, i)), FALSE, TRUE, s.read)
FirstFound(d, i, s) ==
    /\ i \in Complete(d) /\ \A c \in Complete(d) : i <= c
    /\ s.interfaceNumber = i /\ Ways(d, i, s)
Report(d, n, s) ==
    /\ Seen(SizesUpTo(d, n), s.packetSize, s.failed)
    /\ s.found <=> \E i \in 1..n : i \in Complete(d)
    /\ s.found => \E i \in 1..n : FirstFound(d, i, s)

(* Before the first interface.                                             *)
LEMMA ReportBegins ==
    ASSUME NEW d, d.interfaces \in Seq(Interface)
    PROVE  Report(d, 0, Start)
<1>1. \A i \in Suitable(d) : i \in Nat /\ ~(i <= 0)
  <2>1. DOMAIN d.interfaces = 1..Len(d.interfaces) /\ Len(d.interfaces) \in Nat
    BY LenProperties
  <2>2. Suitable(d) \subseteq 1..Len(d.interfaces)
    BY <2>1 DEF Suitable
  <2> QED
    BY <2>1, <2>2
<1>2. SizesUpTo(d, 0) = {}
  BY <1>1 DEF SizesUpTo, VisitedTo
<1>3. ~\E i \in 1..0 : i \in Complete(d)
  OBVIOUS
<1> QED
  BY <1>2, <1>3, StartSeesNothing DEF Report

(* An interface is complete if the scan of it has met both directions.     *)
LEMMA CompleteIs ==
    ASSUME NEW d, d.interfaces \in Seq(Interface), NEW i \in 1..Len(d.interfaces)
    PROVE  /\ i \in Suitable(d) <=> IsSuitable(d.interfaces[i])
           /\ Bulk(d, i) = {k \in 1..Len(Ends(d, i)) : Ends(d, i)[k].bulk}
           /\ \A out : Directed(d, i, out) = {k \in 1..Len(Ends(d, i)) : Fits(Ends(d, i), k, out)}
           /\ i \in Complete(d) <=>
                  /\ i \in Suitable(d)
                  /\ \E k \in 1..Len(Ends(d, i)) : Fits(Ends(d, i), k, TRUE)
                  /\ \E k \in 1..Len(Ends(d, i)) : Fits(Ends(d, i), k, FALSE)
<1>1. DOMAIN d.interfaces = 1..Len(d.interfaces) /\ d.interfaces[i] \in Interface
  BY LenProperties, ElementOfSeq
<1>2. Ends(d, i) \in Seq(Endpoint)
  BY <1>1 DEF Interface, Ends
<1>3. DOMAIN Ends(d, i) = 1..Len(Ends(d, i))
  BY <1>2, LenProperties
<1>4. i \in Suitable(d) <=> IsSuitable(d.interfaces[i])
  BY <1>1 DEF Suitable, IsSuitable
<1>5. Bulk(d, i) = {k \in 1..Len(Ends(d, i)) : Ends(d, i)[k].bulk}
  BY <1>3 DEF Bulk, Ends
<1>6. \A out : Directed(d, i, out) = {k \in 1..Len(Ends(d, i)) : Fits(Ends(d, i), k, out)}
  BY <1>5 DEF Directed, Fits, Ends
<1>7. i \in Complete(d) <=>
          i \in Suitable(d) /\ Directed(d, i, TRUE) # {} /\ Directed(d, i, FALSE) # {}
  BY DEF Complete
<1> QED
  BY <1>4, <1>5, <1>6, <1>7

(* One more interface: after the one that was found, ...                   *)
LEMMA ReportStays ==
    ASSUME NEW d, d.interfaces \in Seq(Interface), NEW n \in Nat, NEW s \in Scans,
           Report(d, n, s), s.found
    PROVE  Report(d, n + 1, s)
<1>0. /\ \A i \in 1..n : i \in 1..(n + 1) /\ ~(n + 1 <= i)
      /\ \A i \in Nat : i <= n + 1 <=> i <= n \/ i = n + 1
  OBVIOUS
<1>1. PICK i \in 1..n : FirstFound(d, i, s)
  BY DEF Report
<1>2. i \in Complete(d)
  BY <1>1 DEF FirstFound
<1>3. \A j \in Suitable(d) : j \in Nat
  <2>1. DOMAIN d.interfaces = 1..Len(d.interfaces) /\ Len(d.interfaces) \in Nat
    BY LenProperties
  <2>2. Suitable(d) \subseteq 1..Len(d.interfaces)
    BY <2>1 DEF Suitable
  <2> QED
    BY <2>1, <2>2
<1>4. VisitedTo(d, n + 1) = VisitedTo(d, n)
  BY <1>0, <1>2, <1>3 DEF VisitedTo
<1>5. SizesUpTo(d, n + 1) = SizesUpTo(d, n)
  BY <1>4 DEF SizesUpTo
<1> QED
  BY <1>0, <1>1, <1>2, <1>5 DEF Report

(* ... one that is not suitable, ...                                       *)
LEMMA ReportPasses ==
    ASSUME NEW d, d.interfaces \in Seq(Interface), NEW n \in Nat, NEW s \in Scans,
           n + 1 \in 1..Len(d.interfaces), Report(d, n, s), ~s.found,
           n + 1 \notin Suitable(d)
    PROVE  Report(d, n + 1, [s EXCEPT !.interfaceNumber = n + 1])
<1> DEFINE r == [s EXCEPT !.interfaceNumber = n + 1]
<1>1. r.packetSize = s.packetSize /\ r.failed = s.failed /\ r.found = s.found
  BY DEF Scans
<1>2. \A i \in Suitable(d) : i \in Nat
  <2>1. DOMAIN d.interfaces = 1..Len(d.interfaces) /\ Len(d.interfaces) \in Nat
    BY LenProperties
  <2>2. Suitable(d) \subseteq 1..Len(d.interfaces)
    BY <2>1 DEF Suitable
  <2> QED
    BY <2>1, <2>2
<1>3. /\ \A i \in Nat : i <= n + 1 <=> i <= n \/ i = n + 1
      /\ \A i \in 1..(n + 1) : i \in 1..n \/ i = n + 1
  OBVIOUS
<1>4. VisitedTo(d, n + 1) = VisitedTo(d, n)
  BY <1>2, <1>3 DEF VisitedTo
<1>5. SizesUpTo(d, n + 1) = SizesUpTo(d, n)
  BY <1>4 DEF SizesUpTo
<1>6. n + 1 \notin Complete(d)
  BY DEF Complete
<1>7. ~\E i \in 1..(n + 1) : i \in Complete(d)
  BY <1>3, <1>6 DEF Report
<1> HIDE DEF r
<1>8. Report(d, n + 1, r)
  BY <1>1, <1>5, <1>7 DEF Report
<1> QED
  BY <1>8 DEF r

(* ... and one that is.                                                    *)
LEMMA ReportGrows ==
    ASSUME NEW d, d.interfaces \in Seq(Interface), NEW n \in Nat, NEW s \in Scans,
           n + 1 \in 1..Len(d.interfaces), Report(d, n, s), ~s.found,
           n + 1 \in Suitable(d)
    PROVE  LET scanned == Scanned(s, Ends(d, n + 1), n + 1)
           IN  Report(d, n + 1, [scanned EXCEPT !.found = scanned.in /\ scanned.out])
<1> DEFINE m == n + 1
           e == Ends(d, m)
           scanned == Scanned(s, e, m)
           r == [scanned EXCEPT !.found = scanned.in /\ scanned.out]
           Z == SizesUpTo(d, n)
<1>1. m \in Nat /\ m \in 1..Len(d.interfaces) /\ m \in 1..m
  OBVIOUS
<1>2. /\ \A i \in Nat : i <= m <=> i <= n \/ i = m
      /\ \A i \in 1..m : i \in 1..n \/ i = m
      /\ \A i \in Nat : i # 0 /\ i \notin 1..n => m <= i
  OBVIOUS
<1>3. \A i \in Suitable(d) : i \in Nat /\ i # 0
  <2>1. DOMAIN d.interfaces = 1..Len(d.interfaces) /\ Len(d.interfaces) \in Nat
    BY LenProperties
  <2>2. Suitable(d) \subseteq 1..Len(d.interfaces)
    BY <2>1 DEF Suitable
  <2> QED
    BY <2>1, <2>2
<1>a. m \in Suitable(d)
  OBVIOUS
<1> HIDE DEF m
<1>4. e \in Seq(Endpoint)
  <2>1. d.interfaces[m] \in Interface
    BY <1>1, ElementOfSeq
  <2> QED
    BY <2>1 DEF Interface, Ends
<1>5. /\ Bulk(d, m) = {k \in 1..Len(e) : e[k].bulk}
      /\ m \in Complete(d) <=> /\ \E k \in 1..Len(e) : Fits(e, k, TRUE)
                               /\ \E k \in 1..Len(e) : Fits(e, k, FALSE)
  BY <1>1, <1>a, CompleteIs
<1>6. Seen(Z, s.packetSize, s.failed)
  BY DEF Report
<1> HIDE DEF e, Z
<1>7. scanned \in Scans /\ Account(s, Z, e, m, Len(e), scanned)
  BY <1>1, <1>4, <1>6, ScannedType, ScannedRight
<1> HIDE DEF scanned
<1>8. /\ scanned.interfaceNumber = m
      /\ Seen(SizesTo(Z, e, Len(e)), scanned.packetSize, scanned.failed)
      /\ Way(e, m, Len(e), TRUE, scanned.out, scanned.write)
      /\ Way(e, m, Len(e), FALSE, scanned.in, scanned.read)
      /\ scanned.in \in BOOLEAN /\ scanned.out \in BOOLEAN
  BY <1>7 DEF Account, Scans
<1>9. /\ r.interfaceNumber = m /\ r.found = (scanned.in /\ scanned.out)
      /\ r.packetSize = scanned.packetSize /\ r.failed = scanned.failed
      /\ r.write = scanned.write /\ r.read = scanned.read
  BY <1>7, <1>8 DEF Scans
<1> HIDE DEF r
<1>10. \A c \in Complete(d) : c \in Suitable(d) /\ c \notin 1..n
  BY DEF Complete, Report
<1>11. \A c \in Complete(d) : m <= c
  BY <1>2, <1>3, <1>10
<1>12. VisitedTo(d, m) = VisitedTo(d, n) \cup {m}
  BY <1>1, <1>2, <1>3, <1>a, <1>11 DEF VisitedTo
<1>13. SizesOf(d, m) = {e[k].size : k \in {j \in 1..Len(e) : e[j].bulk}}
  BY <1>5 DEF SizesOf, e
<1>14. SizesUpTo(d, m) = SizesTo(Z, e, Len(e))
  BY <1>12, <1>13 DEF SizesUpTo, SizesTo, Z
<1>15. Seen(SizesUpTo(d, m), r.packetSize, r.failed)
  BY <1>8, <1>9, <1>14
<1>16. m \in Complete(d) <=> r.found
  BY <1>5, <1>8, <1>9 DEF Way
<1>17. r.found <=> \E i \in 1..m : i \in Complete(d)
  BY <1>1, <1>2, <1>10, <1>16
<1>18. r.found => FirstFound(d, m, r)
  <2> SUFFICES ASSUME r.found PROVE FirstFound(d, m, r)
    OBVIOUS
  <2>1. scanned.in = TRUE /\ scanned.out = TRUE
    BY <1>8, <1>9
  <2>2. Way(e, m, Len(e), TRUE, TRUE, r.write) /\ Way(e, m, Len(e), FALSE, TRUE, r.read)
    BY <1>8, <1>9, <2>1
  <2>3. Ways(d, m, r)
    BY <2>2 DEF Ways, e
  <2> QED
    BY <1>9, <1>11, <1>16, <2>3 DEF FirstFound
<1>19. Report(d, m, r)
  BY <1>1, <1>15, <1>17, <1>18 DEF Report
<1> QED
  BY <1>19 DEF m, r, scanned, e

(* Every interface.                                                        *)
LEMMA ReportStep ==
    ASSUME NEW d, d.interfaces \in Seq(Interface), NEW n \in Nat, NEW s \in Scans,
           n + 1 \in 1..Len(d.interfaces), Report(d, n, s)
    PROVE  Report(d, n + 1, AtNumber(d, n + 1, s))
<1>1. CASE s.found
  <2>1. AtNumber(d, n + 1, s) = s
    BY <1>1 DEF AtNumber
  <2> QED
    BY <1>1, <2>1, ReportStays
<1>2. CASE ~s.found
  <2>1. AtNumber(d, n + 1, s) = AtInterface(s, d.interfaces[n + 1], n + 1)
    BY <1>2 DEF AtNumber
  <2>2. n + 1 \in Suitable(d) <=> IsSuitable(d.interfaces[n + 1])
    BY CompleteIs
  <2>3. CASE n + 1 \in Suitable(d)
    <3> DEFINE scanned == Scanned(s, Ends(d, n + 1), n + 1)
    <3>1. AtNumber(d, n + 1, s) = [scanned EXCEPT !.found = scanned.in /\ scanned.out]
      BY <2>1, <2>2, <2>3, AtInterfaceIs DEF Ends
    <3>2. Report(d, n + 1, [scanned EXCEPT !.found = scanned.in /\ scanned.out])
      BY <1>2, <2>3, ReportGrows
    <3> QED
      BY <3>1, <3>2
  <2>4. CASE n + 1 \notin Suitable(d)
    <3>1. AtNumber(d, n + 1, s) = [s EXCEPT !.interfaceNumber = n + 1]
      BY <2>1, <2>2, <2>4, AtInterfaceIs
    <3>2. Report(d, n + 1, [s EXCEPT !.interfaceNumber = n + 1])
      BY <1>2, <2>4, ReportPasses
    <3> QED
      BY <3>1, <3>2
  <2> QED
    BY <2>3, <2>4
<1> QED
  BY <1>1, <1>2

(* The whole scan.                                                         *)
LEMMA FoundReport ==
    ASSUME NEW d, d.interfaces \in Seq(Interface), d.perInterface
    PROVE  Report(d, Len(d.interfaces), findAdbInterface(d))
<1> DEFINE N == Len(d.interfaces)
<1>1. PICK h : IsLeft(h, AtNumbers(d), Start, N, Scans) /\ findAdbInterface(d) = h[N]
  BY FoundStepwise
<1> DEFINE S == {n \in Nat : n <= N => Report(d, n, h[n])}
<1>2. /\ h \in [0..N -> Scans] /\ h[0] = Start
      /\ \A k \in 1..N : h[k] = AtNumbers(d)[k][h[k - 1]]
  BY <1>1 DEF IsLeft
<1>3. N \in Nat
  BY LenProperties
<1>4. 0 \in S
  BY <1>2, ReportBegins
<1>5. ASSUME NEW n \in Nat, n \in S PROVE n + 1 \in S
  <2> SUFFICES ASSUME n + 1 <= N PROVE Report(d, n + 1, h[n + 1])
    OBVIOUS
  <2>1. n <= N /\ n + 1 \in 1..N /\ n \in 0..N /\ n + 1 - 1 = n
    BY <1>3
  <2>2. Report(d, n, h[n]) /\ h[n] \in Scans
    BY <1>2, <1>5, <2>1
  <2>3. h[n + 1] = AtNumbers(d)[n + 1][h[n]]
    BY <1>2, <2>1
  <2>4. h[n + 1] = AtNumber(d, n + 1, h[n])
    BY <2>1, <2>2, <2>3, AtNumbersType
  <2>5. Report(d, n + 1, AtNumber(d, n + 1, h[n]))
    BY <2>1, <2>2, ReportStep
  <2> QED
    BY <2>4, <2>5
<1>6. Nat \subseteq S
  <2> HIDE DEF S
  <2> QED
    BY <1>4, <1>5, Induction
<1>7. Report(d, N, h[N])
  BY <1>3, <1>6
<1> QED
  BY <1>1, <1>7

-----------------------------------------------------------------------------
(* From the account of the scan to what FoundRight says of it.             *)

(* A set has more than one element if two of its elements differ.          *)
LEMMA DifferIs == ASSUME NEW Z, IsFiniteSet(Z) PROVE Cardinality(Z) > 1 <=> Differ(Z)
<1>1. CASE Z = {}
  BY <1>1, FS_EmptySet DEF Differ
<1>2. CASE Z # {}
  <2>1. PICK a : a \in Z
    BY <1>2
  <2>2. IsFiniteSet(Z \ {a}) /\ Cardinality(Z \ {a}) = Cardinality(Z) - 1
    BY <2>1, FS_RemoveElement
  <2>3. Cardinality(Z) \in Nat /\ Cardinality(Z \ {a}) \in Nat
    BY <2>2, FS_CardinalityType
  <2>4. Cardinality(Z \ {a}) = 0 <=> Z \ {a} = {}
    BY <2>2, FS_EmptySet
  <2>5. Cardinality(Z) > 1 <=> Z \ {a} # {}
    BY <2>2, <2>3, <2>4
  <2>6. Z \ {a} # {} <=> Differ(Z)
    BY <2>1 DEF Differ
  <2> QED
    BY <2>5, <2>6
<1> QED
  BY <1>1, <1>2

(* The endpoint of a Way is the least of the set in FoundRight.            *)
LEMMA WayIs ==
    ASSUME NEW d, d.interfaces \in Seq(Interface), NEW i \in 1..Len(d.interfaces),
           NEW out, NEW address,
           Way(Ends(d, i), i, Len(Ends(d, i)), out, TRUE, address)
    PROVE  address = <<i, Min(Directed(d, i, out))>>
<1>1. PICK m \in 1..Len(Ends(d, i)) :
          First(Ends(d, i), Len(Ends(d, i)), out, m) /\ address = <<i, m>>
  BY DEF Way
<1>2. Directed(d, i, out) = {k \in 1..Len(Ends(d, i)) : Fits(Ends(d, i), k, out)}
  BY CompleteIs
<1>3. m \in Directed(d, i, out) /\ \A k \in Directed(d, i, out) : m <= k
  BY <1>1, <1>2 DEF First
<1>4. Directed(d, i, out) \subseteq Nat
  BY <1>2
<1>5. Min(Directed(d, i, out)) = m
  BY <1>3, <1>4, MinIs
<1> QED
  BY <1>1, <1>5

(* The sizes in FoundRight are those of the interfaces visited.            *)
LEMMA SizesAre ==
    ASSUME NEW d, d.interfaces \in Seq(Interface)
    PROVE  Sizes(d) = SizesUpTo(d, Len(d.interfaces)) /\ IsFiniteSet(Sizes(d))
<1> DEFINE N == Len(d.interfaces)
           P == UNION {{<<i, k>> : k \in Bulk(d, i)} : i \in Visited(d)}
<1>1. N \in Nat /\ DOMAIN d.interfaces = 1..N
  BY LenProperties
<1>2. Suitable(d) \subseteq 1..N /\ Complete(d) \subseteq Suitable(d)
  BY <1>1 DEF Suitable, Complete
<1>3. Visited(d) = VisitedTo(d, N)
  <2>1. \A i \in Suitable(d) : i <= N
    BY <1>2
  <2>2. ASSUME NEW i \in Suitable(d)
        PROVE  Complete(d) = {} \/ i <= Min(Complete(d)) <=> \A c \in Complete(d) : i <= c
    <3>1. CASE Complete(d) = {}
      BY <3>1
    <3>2. CASE Complete(d) # {}
      <4>1. Complete(d) \subseteq Nat
        BY <1>2
      <4>2. Min(Complete(d)) \in Complete(d) /\ \A c \in Complete(d) : Min(Complete(d)) <= c
        BY <3>2, <4>1, LeastOf
      <4>3. \A a, b, c \in Nat : a <= b /\ b <= c => a <= c
        OBVIOUS
      <4>4. i \in Nat
        BY <1>2
      <4> QED
        BY <3>2, <4>1, <4>2, <4>3, <4>4
    <3> QED
      BY <3>1, <3>2
  <2> QED
    BY <2>1, <2>2 DEF Visited, VisitedTo
<1>4. Sizes(d) = {Ends(d, p[1])[p[2]].size : p \in P}
  BY DEF Sizes, Ends
<1>6. Sizes(d) = UNION {SizesOf(d, i) : i \in Visited(d)}
  <2>1. \A z : z \in Sizes(d) <=> \E i \in Visited(d) : \E k \in Bulk(d, i) : z = Ends(d, i)[k].size
    <3>1. \A p : p \in P <=> \E i \in Visited(d) : \E k \in Bulk(d, i) : p = <<i, k>>
      OBVIOUS
    <3> HIDE DEF P
    <3>2. \A z : z \in Sizes(d) <=> \E p \in P : z = Ends(d, p[1])[p[2]].size
      BY <1>4
    <3>3. ASSUME NEW i \in Visited(d), NEW k \in Bulk(d, i)
          PROVE  Ends(d, i)[k].size \in Sizes(d)
      <4> DEFINE p == <<i, k>>
      <4>1. p \in P
        BY <3>1
      <4>2. p[1] = i /\ p[2] = k
        OBVIOUS
      <4> HIDE DEF p
      <4> QED
        BY <3>2, <4>1, <4>2
    <3>4. ASSUME NEW z \in Sizes(d)
          PROVE  \E i \in Visited(d) : \E k \in Bulk(d, i) : z = Ends(d, i)[k].size
      <4>1. PICK p \in P : z = Ends(d, p[1])[p[2]].size
        BY <3>2
      <4>2. PICK i \in Visited(d) : \E k \in Bulk(d, i) : p = <<i, k>>
        BY <3>1
      <4>3. PICK k \in Bulk(d, i) : p = <<i, k>>
        BY <4>2
      <4>4. p[1] = i /\ p[2] = k
        BY <4>3
      <4> QED
        BY <4>1, <4>4
    <3> QED
      BY <3>3, <3>4
  <2>2. \A z, i : z \in SizesOf(d, i) <=> \E k \in Bulk(d, i) : z = Ends(d, i)[k].size
    BY DEF SizesOf
  <2> QED
    BY <2>1, <2>2
<1>7. Sizes(d) = SizesUpTo(d, N)
  BY <1>3, <1>6 DEF SizesUpTo
<1>8. IsFiniteSet(Visited(d))
  <2>1. IsFiniteSet(1..N)
    BY <1>1, FS_Interval
  <2>2. Visited(d) \in SUBSET (1..N)
    BY <1>2 DEF Visited
  <2> HIDE DEF N
  <2> QED
    BY <2>1, <2>2, FS_Subset
<1>9. ASSUME NEW i \in Visited(d) PROVE IsFiniteSet(SizesOf(d, i))
  <2>1. i \in 1..N
    BY <1>2 DEF Visited
  <2>2. d.interfaces[i] \in Interface
    BY <2>1, ElementOfSeq
  <2>3. Ends(d, i) \in Seq(Endpoint)
    BY <2>2 DEF Ends, Interface
  <2>4. Len(Ends(d, i)) \in Nat
    BY <2>3, LenProperties
  <2>5. Bulk(d, i) = {k \in 1..Len(Ends(d, i)) : Ends(d, i)[k].bulk}
    BY <2>1, CompleteIs
  <2>6. IsFiniteSet(1..Len(Ends(d, i)))
    BY <2>4, FS_Interval
  <2>7. Bulk(d, i) \in SUBSET (1..Len(Ends(d, i)))
    BY <2>5
  <2>8. IsFiniteSet(Bulk(d, i))
    BY <2>6, <2>7, FS_Subset
  <2> DEFINE f == [k \in Bulk(d, i) |-> Ends(d, i)[k].size]
             V == {Ends(d, i)[k].size : k \in Bulk(d, i)}
  <2>9. f \in Surjection(Bulk(d, i), V) /\ SizesOf(d, i) = V
    BY DEF SizesOf, Surjection
  <2> HIDE DEF f, V
  <2> QED
    BY <2>8, <2>9, FS_Surjection
<1>10. IsFiniteSet({SizesOf(d, i) : i \in Visited(d)})
  <2> DEFINE f == [i \in Visited(d) |-> SizesOf(d, i)]
             V == {SizesOf(d, i) : i \in Visited(d)}
  <2>1. f \in Surjection(Visited(d), V)
    BY DEF Surjection
  <2>2. IsFiniteSet(V)
    <3> HIDE DEF f, V
    <3> QED
      BY <1>8, <2>1, FS_Surjection
  <2> QED
    BY <2>2
<1>11. IsFiniteSet(Sizes(d))
  BY <1>6, <1>9, <1>10, FS_UNION
<1> QED
  BY <1>7, <1>11

(* FoundRight for a device.                                                *)
LEMMA ScanIsRight ==
    ASSUME NEW d, d.interfaces \in Seq(Interface), d.perInterface \in BOOLEAN
    PROVE  LET scan == findAdbInterface(d)
               i == Min(Complete(d))
           IN  /\ scan.failed <=> d.perInterface /\ (0 \in Sizes(d) \/ Cardinality(Sizes(d)) > 1)
               /\ scan.found <=> d.perInterface /\ Complete(d) # {}
               /\ scan.found /\ ~scan.failed =>
                      /\ scan.interfaceNumber = i
                      /\ scan.write = <<i, Min(Directed(d, i, TRUE))>>
                      /\ scan.read = <<i, Min(Directed(d, i, FALSE))>>
                      /\ {scan.packetSize} = Sizes(d)
<1> DEFINE scan == findAdbInterface(d)
           N == Len(d.interfaces)
<1>1. CASE ~d.perInterface
  <2>1. scan = Start
    BY <1>1 DEF findAdbInterface
  <2> QED
    BY <1>1, <2>1 DEF Start
<1>2. CASE d.perInterface
  <2>1. Report(d, N, scan)
    BY <1>2, FoundReport
  <2> HIDE DEF scan
  <2>2. Sizes(d) = SizesUpTo(d, N) /\ IsFiniteSet(Sizes(d))
    BY SizesAre
  <2>3. Seen(Sizes(d), scan.packetSize, scan.failed)
    BY <2>1, <2>2 DEF Report
  <2>4. scan.failed <=> 0 \in Sizes(d) \/ Cardinality(Sizes(d)) > 1
    BY <2>2, <2>3, DifferIs DEF Seen
  <2>5. Complete(d) \subseteq 1..N
    BY LenProperties DEF Complete, Suitable
  <2>6. scan.found <=> Complete(d) # {}
    BY <2>1, <2>5 DEF Report
  <2>7. ASSUME scan.found, ~scan.failed, NEW i, i = Min(Complete(d))
        PROVE  /\ scan.interfaceNumber = i
               /\ scan.write = <<i, Min(Directed(d, i, TRUE))>>
               /\ scan.read = <<i, Min(Directed(d, i, FALSE))>>
               /\ {scan.packetSize} = Sizes(d)
    <3>1. PICK j \in 1..N : FirstFound(d, j, scan)
      BY <2>1, <2>7 DEF Report
    <3>2. /\ j \in Complete(d) /\ \A c \in Complete(d) : j <= c
          /\ scan.interfaceNumber = j /\ Ways(d, j, scan)
      BY <3>1 DEF FirstFound
    <3>3. Complete(d) \subseteq Nat
      BY <2>5
    <3>4. i = j
      BY <2>7, <3>2, <3>3, MinIs
    <3>5. scan.write = <<j, Min(Directed(d, j, TRUE))>>
      BY <3>2, WayIs DEF Ways
    <3>6. scan.read = <<j, Min(Directed(d, j, FALSE))>>
      BY <3>2, WayIs DEF Ways
    <3>7. Sizes(d) # {}
      <4>1. PICK k : k \in Directed(d, j, TRUE)
        BY <3>2 DEF Complete
      <4>2. k \in Bulk(d, j)
        BY <4>1 DEF Directed
      <4>3. Ends(d, j)[k].size \in SizesOf(d, j)
        BY <4>2 DEF SizesOf
      <4>4. j \in VisitedTo(d, N)
        <5>1. j \in Suitable(d) /\ j <= N
          BY <3>1, <3>2, LenProperties DEF Complete
        <5> QED
          BY <3>2, <5>1 DEF VisitedTo
      <4> QED
        BY <2>2, <4>3, <4>4 DEF SizesUpTo
    <3>8. {scan.packetSize} = Sizes(d)
      BY <2>3, <2>7, <3>7 DEF Seen
    <3> QED
      BY <3>2, <3>4, <3>5, <3>6, <3>8
  <2> QED
    BY <1>2, <2>4, <2>6, <2>7 DEF scan
<1> QED
  BY <1>1, <1>2

(* Whatever interfaces and endpoints a device has, and in whatever order,  *)
(* findAdbInterface (UsbTransport.cpp:29) finds the first suitable one     *)
(* that is complete, with the first endpoint of each direction, although   *)
(* its flags and addresses are shared by the interfaces; its assertions on *)
(* the packet size fail exactly for devices whose sizes differ.            *)
THEOREM ScanFindsFirst == Spec => []FoundRight
<1>1. TypeOK => FoundRight
  <2> SUFFICES ASSUME TypeOK PROVE FoundRight
    OBVIOUS
  <2>1. device.interfaces \in Seq(Interface) /\ device.perInterface \in BOOLEAN
    BY LifeAssumption DEF LifeAssumption, TypeOK
  <2> QED
    BY <2>1, ScanIsRight DEF FoundRight
<1> QED
  BY <1>1, Typing, PTL
=============================================================================
