---------------------------- MODULE APacketProofs ----------------------------
(***************************************************************************)
(* Proofs about APacket, for any callers, buffers, sizes, bytes and        *)
(* versions.                                                               *)
(***************************************************************************)
EXTENDS APacket, DataProofs, SequenceTheorems

-----------------------------------------------------------------------------
(* Checksums.  A sum modulo Modulus of two that are smaller.               *)
Sums == 0..(Modulus - 1)
Add(v, b) == (v + b) % Modulus

(* The sum, and the sum less Modulus.                                      *)
LEMMA AddCases ==
    ASSUME NEW v \in Sums, NEW b \in Sums
    PROVE  /\ v + b < Modulus => Add(v, b) = v + b
           /\ ~(v + b < Modulus) => Add(v, b) = v + b - Modulus
           /\ Add(v, b) \in Sums
<1>1. Modulus \in Nat /\ Modulus > 0 /\ v \in Nat /\ b \in Nat /\ v < Modulus /\ b < Modulus
  BY PacketAssumption DEF PacketAssumption, Sums
<1>2. CASE v + b < Modulus
  <2>1. (v + b) % Modulus = v + b
    BY <1>1, <1>2
  <2> QED
    BY <1>1, <1>2, <2>1 DEF Add, Sums
<1>3. CASE ~(v + b < Modulus)
  <2>1. (v + b) % Modulus = v + b - Modulus
    BY <1>1, <1>3
  <2> QED
    BY <1>1, <1>3, <2>1 DEF Add, Sums
<1> QED
  BY <1>2, <1>3

(* They may be added in any order, and different ones make a difference.   *)
LEMMA AddCommutes ==
    ASSUME NEW v \in Sums, NEW a \in Sums, NEW b \in Sums
    PROVE  /\ Add(Add(v, a), b) = Add(Add(v, b), a)
           /\ a # b => Add(v, a) # Add(v, b)
<1>1. /\ Modulus \in Nat /\ v \in Nat /\ a \in Nat /\ b \in Nat
      /\ v < Modulus /\ a < Modulus /\ b < Modulus
  BY PacketAssumption DEF PacketAssumption, Sums
<1>2. PICK x \in Sums : /\ x = Add(v, a) /\ (v + a < Modulus => x = v + a)
                        /\ (~(v + a < Modulus) => x = v + a - Modulus)
  BY AddCases
<1>3. PICK y \in Sums : /\ y = Add(v, b) /\ (v + b < Modulus => y = v + b)
                        /\ (~(v + b < Modulus) => y = v + b - Modulus)
  BY AddCases
<1>4. PICK s \in Sums : /\ s = Add(x, b) /\ (x + b < Modulus => s = x + b)
                        /\ (~(x + b < Modulus) => s = x + b - Modulus)
  BY AddCases
<1>5. PICK t \in Sums : /\ t = Add(y, a) /\ (y + a < Modulus => t = y + a)
                        /\ (~(y + a < Modulus) => t = y + a - Modulus)
  BY AddCases
<1>6. x \in Nat /\ y \in Nat /\ s \in Nat /\ t \in Nat /\ x < Modulus /\ y < Modulus
      /\ s < Modulus /\ t < Modulus
  BY <1>1 DEF Sums
<1>7. s = t
  BY <1>1, <1>2, <1>3, <1>4, <1>5, <1>6
<1>8. a # b => x # y
  BY <1>1, <1>2, <1>3, <1>6
<1> QED
  BY <1>2, <1>3, <1>4, <1>5, <1>7, <1>8

(* Checksum is a fold, which adds the bytes in some order.                 *)
SumStep(s) == [i \in DOMAIN s |-> [v \in Sums |-> Add(v, s[i])]]
SumBody(s, g, t) ==
    IF t = {} THEN 0 ELSE LET x == CHOOSE x \in t : TRUE IN (g[t \ {x}] + s[x]) % Modulus

(* What the fold of Checksum is made of: each byte is added, in any order. *)
LEMMA SumStepType ==
    ASSUME NEW s \in Seq(Byte)
    PROVE  /\ IsFiniteSet(DOMAIN s) /\ 0 \in Sums
           /\ \A i \in DOMAIN s : s[i] \in Byte /\ s[i] \in Sums
           /\ SumStep(s) \in [DOMAIN s -> [Sums -> Sums]]
           /\ \A i \in DOMAIN s, v \in Sums : SumStep(s)[i][v] = Add(v, s[i])
           /\ Commutes(SumStep(s), DOMAIN s, Sums)
<1>1. DOMAIN s = 1..Len(s) /\ Len(s) \in Nat /\ \A i \in DOMAIN s : s[i] \in Byte
  BY ElementOfSeq, LenProperties
<1>2. IsFiniteSet(DOMAIN s)
  BY <1>1, FS_Interval
<1>3. Byte \subseteq Sums /\ 0 \in Sums
  BY PacketAssumption DEF PacketAssumption, Sums
<1>4. \A i \in DOMAIN s : s[i] \in Sums
  BY <1>1, <1>3
<1>5. \A i \in DOMAIN s, v \in Sums : Add(v, s[i]) \in Sums
  BY <1>4, AddCases
<1>6. SumStep(s) \in [DOMAIN s -> [Sums -> Sums]]
  BY <1>5 DEF SumStep
<1>7. \A i \in DOMAIN s, v \in Sums : SumStep(s)[i][v] = Add(v, s[i])
  BY DEF SumStep
<1>8. Commutes(SumStep(s), DOMAIN s, Sums)
  <2> SUFFICES ASSUME NEW c \in DOMAIN s, NEW d \in DOMAIN s, NEW v \in Sums
               PROVE  SumStep(s)[c][SumStep(s)[d][v]] = SumStep(s)[d][SumStep(s)[c][v]]
    BY DEF Commutes
  <2>1. SumStep(s)[c][SumStep(s)[d][v]] = Add(Add(v, s[d]), s[c])
    BY <1>5, <1>7
  <2>2. SumStep(s)[d][SumStep(s)[c][v]] = Add(Add(v, s[c]), s[d])
    BY <1>5, <1>7
  <2> QED
    BY <1>4, <2>1, <2>2, AddCommutes
<1> QED
  BY <1>1, <1>2, <1>3, <1>4, <1>6, <1>7, <1>8

(* The fold of Checksum is the one of these steps.                         *)
LEMMA SumIsFold ==
    ASSUME NEW s \in Seq(Byte)
    PROVE  \E g : /\ TypedFold(g, SumStep(s), 0, DOMAIN s, Sums)
                  /\ g \in [SUBSET DOMAIN s -> Sums]
                  /\ Checksum(s) = g[DOMAIN s]
<1> DEFINE D == DOMAIN s
           h == CHOOSE f : f = [t \in SUBSET D |-> SumBody(s, f, t)]
<1>1. /\ IsFiniteSet(D) /\ SumStep(s) \in [D -> [Sums -> Sums]] /\ 0 \in Sums
      /\ \A i \in D, v \in Sums : SumStep(s)[i][v] = Add(v, s[i])
  BY SumStepType
<1>2. PICK g : IsFold(g, SumStep(s), 0, D)
  BY <1>1, FoldExists
<1>3. TypedFold(g, SumStep(s), 0, D, Sums)
  BY <1>1, <1>2 DEF TypedFold
<1>4. g \in [SUBSET D -> Sums]
  <2> HIDE DEF D
  <2> QED
    BY <1>3, FoldType
<1>5. g[{}] = 0 /\ \A t \in SUBSET D : t # {} => g[t] = SumStep(s)[Taken(t)][g[t \ {Taken(t)}]]
  <2> HIDE DEF D
  <2> QED
    BY <1>2, FoldAt
<1>6. ASSUME NEW t \in SUBSET D PROVE g[t] = SumBody(s, g, t)
  <2>1. CASE t = {}
    BY <1>5, <2>1 DEF SumBody
  <2>2. CASE t # {}
    <3>1. Taken(t) \in D /\ g[t \ {Taken(t)}] \in Sums
      BY <1>4, <2>2, TakenIsIn
    <3>2. g[t] = Add(g[t \ {Taken(t)}], s[Taken(t)])
      BY <1>1, <1>5, <2>2, <3>1
    <3> QED
      BY <2>2, <3>2 DEF SumBody, Taken, Add
  <2> QED
    BY <2>1, <2>2
<1>7. g = [t \in SUBSET D |-> SumBody(s, g, t)]
  BY <1>4, <1>6
<1>8. h = [t \in SUBSET D |-> SumBody(s, h, t)]
  BY <1>7
<1>9. Checksum(s) = h[D]
  BY DEF Checksum, FoldSeq, FoldFunction, FoldFunctionOnSet, MapThenFoldSet, SumBody
<1> HIDE DEF h
<1>10. h[{}] = 0
  BY <1>8 DEF SumBody
<1>11. ASSUME NEW t \in SUBSET D, t # {}, h[t \ {Taken(t)}] \in Sums
       PROVE  h[t] = SumStep(s)[Taken(t)][h[t \ {Taken(t)}]]
  <2>1. h[t] = Add(h[t \ {Taken(t)}], s[Taken(t)])
    BY <1>8, <1>11 DEF SumBody, Taken, Add
  <2>2. Taken(t) \in D
    BY <1>11, TakenIsIn
  <2> QED
    BY <1>1, <1>11, <2>1, <2>2
<1> HIDE DEF D
<1>12. Follows(h, SumStep(s), 0, D, Sums)
  BY <1>10, <1>11 DEF Follows
<1>13. \A t \in SUBSET D : h[t] = g[t]
  BY <1>3, <1>12, FoldsAgree
<1> QED
  BY <1>3, <1>4, <1>9, <1>13 DEF D

(* A checksum is a uint32_t, and nothing has the checksum 0.               *)
LEMMA ChecksumType ==
    ASSUME NEW s \in Seq(Byte)
    PROVE  Checksum(s) \in Sums
<1>1. PICK g : g \in [SUBSET DOMAIN s -> Sums] /\ Checksum(s) = g[DOMAIN s]
  BY SumIsFold
<1> QED
  BY <1>1

(* Nothing has the checksum 0.                                             *)
LEMMA ChecksumEmpty == Checksum(<<>>) = 0
<1>1. <<>> \in Seq(Byte) /\ DOMAIN <<>> = {}
  OBVIOUS
<1>2. PICK g : TypedFold(g, SumStep(<<>>), 0, {}, Sums) /\ Checksum(<<>>) = g[{}]
  BY <1>1, SumIsFold
<1>3. IsFold(g, SumStep(<<>>), 0, {})
  BY <1>2 DEF TypedFold
<1> QED
  BY <1>2, <1>3, FoldAt

(* Another byte in one place makes another checksum.                       *)
LEMMA ChecksumChanges ==
    ASSUME NEW s \in Seq(Byte), NEW i \in DOMAIN s, NEW b \in Byte \ {s[i]}
    PROVE  Checksum([s EXCEPT ![i] = b]) # Checksum(s)
<1> DEFINE D == DOMAIN s
           r == [s EXCEPT ![i] = b]
           E == D \ {i}
<1>1. /\ r \in Seq(Byte) /\ DOMAIN r = D /\ r[i] = b /\ \A j \in E : r[j] = s[j]
  <2>1. /\ DOMAIN s = 1..Len(s) /\ Len(s) \in Nat /\ \A j \in D : s[j] \in Byte
    BY ElementOfSeq, LenProperties
  <2>2. r = [j \in 1..Len(s) |-> IF j = i THEN b ELSE s[j]]
    BY <2>1
  <2>3. r \in Seq(Byte)
    BY <2>1, <2>2, IsASeq
  <2> QED
    BY <2>3
<1> HIDE DEF r
<1>2. PICK g : /\ TypedFold(g, SumStep(s), 0, D, Sums) /\ g \in [SUBSET D -> Sums]
               /\ Checksum(s) = g[D]
  BY SumIsFold
<1>3. PICK h : /\ TypedFold(h, SumStep(r), 0, D, Sums) /\ h \in [SUBSET D -> Sums]
               /\ Checksum(r) = h[D]
  BY <1>1, SumIsFold
<1>4. /\ Commutes(SumStep(s), D, Sums)
      /\ \A j \in D : s[j] \in Sums /\ \A v \in Sums : SumStep(s)[j][v] = Add(v, s[j])
  BY SumStepType
<1>5. /\ Commutes(SumStep(r), D, Sums) /\ 0 \in Sums
      /\ \A j \in D : r[j] \in Sums /\ \A v \in Sums : SumStep(r)[j][v] = Add(v, r[j])
  BY <1>1, SumStepType
<1> HIDE DEF D, E
<1>6. i \in D /\ E \in SUBSET D /\ E = D \ {i} /\ IsFiniteSet(E)
  <2>1. i \in D /\ E \in SUBSET D /\ E = D \ {i}
    BY DEF E, D
  <2>2. IsFiniteSet(D)
    BY <1>2 DEF TypedFold
  <2> QED
    BY <2>1, <2>2, FS_Subset
<1>7. g[D] = SumStep(s)[i][g[E]]
  BY <1>2, <1>4, <1>6, FoldAny
<1>8. h[D] = SumStep(r)[i][h[E]]
  BY <1>3, <1>5, <1>6, FoldAny
<1>9. g[E] = h[E]
  <2> DEFINE step == [j \in E |-> [v \in Sums |-> Add(v, s[j])]]
  <2>1. step \in [E -> [Sums -> Sums]] /\ \A j \in E, v \in Sums : step[j][v] = Add(v, s[j])
    <3>1. \A j \in E, v \in Sums : Add(v, s[j]) \in Sums
      BY <1>4, <1>6, AddCases
    <3> QED
      BY <3>1
  <2> HIDE DEF step
  <2>2. PICK f : IsFold(f, step, 0, E)
    BY <1>6, FoldExists
  <2>3. TypedFold(f, step, 0, E, Sums)
    BY <1>5, <1>6, <2>1, <2>2 DEF TypedFold
  <2>4. /\ g[{}] = 0
        /\ \A t \in SUBSET D : t # {} => g[t] = SumStep(s)[Taken(t)][g[t \ {Taken(t)}]]
    <3>1. IsFold(g, SumStep(s), 0, D)
      BY <1>2 DEF TypedFold
    <3> QED
      BY <3>1, FoldAt
  <2>5. /\ h[{}] = 0
        /\ \A t \in SUBSET D : t # {} => h[t] = SumStep(r)[Taken(t)][h[t \ {Taken(t)}]]
    <3>1. IsFold(h, SumStep(r), 0, D)
      BY <1>3 DEF TypedFold
    <3> QED
      BY <3>1, FoldAt
  <2>6. Follows(g, step, 0, E, Sums)
    <3>1. ASSUME NEW t \in SUBSET E, t # {}, g[t \ {Taken(t)}] \in Sums
          PROVE  g[t] = step[Taken(t)][g[t \ {Taken(t)}]]
      <4>1. t \in SUBSET D /\ Taken(t) \in E /\ Taken(t) \in D
        BY <1>6, <3>1, TakenIsIn
      <4> QED
        BY <1>4, <2>1, <2>4, <3>1, <4>1
    <3> QED
      BY <2>4, <3>1 DEF Follows
  <2>7. Follows(h, step, 0, E, Sums)
    <3>1. ASSUME NEW t \in SUBSET E, t # {}, h[t \ {Taken(t)}] \in Sums
          PROVE  h[t] = step[Taken(t)][h[t \ {Taken(t)}]]
      <4>1. t \in SUBSET D /\ Taken(t) \in E /\ Taken(t) \in D
        BY <1>6, <3>1, TakenIsIn
      <4>2. h[t] = Add(h[t \ {Taken(t)}], r[Taken(t)])
        BY <1>5, <2>5, <3>1, <4>1
      <4>3. r[Taken(t)] = s[Taken(t)]
        BY <1>1, <4>1
      <4> QED
        BY <2>1, <3>1, <4>1, <4>2, <4>3
    <3> QED
      BY <2>5, <3>1 DEF Follows
  <2>8. E \in SUBSET E
    OBVIOUS
  <2>9. g[E] = f[E]
    BY <2>3, <2>6, <2>8, FoldsAgree
  <2>10. h[E] = f[E]
    BY <2>3, <2>7, <2>8, FoldsAgree
  <2> QED
    BY <2>9, <2>10
<1>10. g[E] \in Sums /\ s[i] \in Sums /\ b \in Sums /\ b # s[i]
  BY <1>1, <1>2, <1>4, <1>5, <1>6
<1>11. Checksum(s) = Add(g[E], s[i]) /\ Checksum(r) = Add(g[E], b)
  BY <1>1, <1>2, <1>3, <1>4, <1>5, <1>6, <1>7, <1>8, <1>9, <1>10
<1> QED
  BY <1>10, <1>11, AddCommutes DEF r

-----------------------------------------------------------------------------
(* The memory.  What an object holds: no buffer, or one that is allocated, *)
(* of the size that the object says, which the data do not exceed.         *)
Sound(lv, hp, r, exists) ==
    /\ r.dataSize <= r.bufferSize
    /\ r.buffer = NoBuffer => r.bufferSize = 0
    /\ r.buffer # NoBuffer => exists /\ r.buffer \in lv /\ Len(hp[r.buffer]) = r.bufferSize

(* Every object is sound and shares its buffer with no other.              *)
Memory(lv, hp, pl, en) ==
    /\ lv \subseteq Buffers /\ hp \in [Buffers -> Seq(Byte)]
    /\ pl \in [Objects -> APayload] /\ en \subseteq Objects
    /\ \A o \in Objects : Sound(lv, hp, pl[o], o \in en)
    /\ \A o, s \in Objects : o # s /\ pl[o].buffer = pl[s].buffer => pl[o].buffer = NoBuffer

BytesIn(hp, r) == IF r.buffer = NoBuffer THEN <<>> ELSE SubSeq(hp[r.buffer], 1, r.dataSize)
LostIn(lv, pl) == lv \ {pl[o].buffer : o \in Objects}

(* The objects of S are as they were, and so are their bytes.              *)
Same(S, hp, pl, hp2, pl2) ==
    \A o \in S : pl2[o] = pl[o] /\ BytesIn(hp2, pl2[o]) = BytesIn(hp, pl[o])

(* The bytes of an object, in terms of its fields.                         *)
LEMMA BytesAre == \A o : Bytes(o) = BytesIn(heap, payload[o])
BY DEF Bytes, Data, BytesIn

(* The bytes of an object: as many as its data size says.                  *)
LEMMA BytesType ==
    ASSUME NEW lv, NEW hp, NEW pl, NEW en, Memory(lv, hp, pl, en), NEW o \in Objects
    PROVE  BytesIn(hp, pl[o]) \in Seq(Byte) /\ Len(BytesIn(hp, pl[o])) = pl[o].dataSize
<1>1. pl[o] \in APayload /\ Sound(lv, hp, pl[o], o \in en) /\ hp \in [Buffers -> Seq(Byte)]
  BY DEF Memory
<1>2. pl[o].bufferSize \in Nat /\ pl[o].dataSize \in Nat /\ pl[o].dataSize <= pl[o].bufferSize
  BY <1>1 DEF Sound, APayload
<1>3. CASE pl[o].buffer = NoBuffer
  <2>1. pl[o].dataSize = 0
    BY <1>1, <1>2, <1>3 DEF Sound
  <2> QED
    BY <1>3, <2>1 DEF BytesIn
<1>4. CASE pl[o].buffer # NoBuffer
  <2> DEFINE s == hp[pl[o].buffer]
             n == pl[o].dataSize
  <2>1. pl[o].buffer \in Buffers /\ Len(s) = pl[o].bufferSize
    BY <1>1, <1>4 DEF Sound, APayload
  <2>2. s \in Seq(Byte)
    BY <1>1, <2>1
  <2> HIDE DEF s, n
  <2>3. n \in Nat /\ n <= Len(s)
    BY <1>2, <2>1 DEF n
  <2>4. SubSeq(s, 1, n) \in Seq(Byte) /\ Len(SubSeq(s, 1, n)) = n
    BY <2>2, <2>3, SubSeqProperties
  <2> QED
    BY <1>4, <2>4 DEF BytesIn, s, n
<1> QED
  BY <1>3, <1>4

(* An object gets these bytes, in a buffer that was free or in its own,    *)
(* and the buffer that it had is freed.                                    *)
IsStored(lv, hp, pl, en, o, b, bytes, size, lv2, hp2, pl2, en2) ==
    /\ b \in Buffers /\ (b \notin lv \/ b = pl[o].buffer)
    /\ bytes \in Seq(Byte) /\ size \in Nat /\ size <= Len(bytes)
    /\ lv2 = (lv \ {pl[o].buffer}) \cup {b}
    /\ hp2 \in [Buffers -> Seq(Byte)] /\ hp2[b] = bytes
    /\ \A c \in Buffers : c # b /\ c # pl[o].buffer => hp2[c] = hp[c]
    /\ pl2 = [pl EXCEPT ![o] = [buffer |-> b, bufferSize |-> Len(bytes), dataSize |-> size]]
    /\ en2 = en \cup {o}

(* An object keeps these bytes: all is sound, nothing else changes and     *)
(* nothing is lost.                                                        *)
LEMMA Stored ==
    ASSUME NEW lv, NEW hp, NEW pl, NEW en, Memory(lv, hp, pl, en),
           NEW o \in Objects, NEW b, NEW bytes, NEW size, NEW lv2, NEW hp2, NEW pl2, NEW en2,
           IsStored(lv, hp, pl, en, o, b, bytes, size, lv2, hp2, pl2, en2)
    PROVE  /\ Memory(lv2, hp2, pl2, en2)
           /\ Same(Objects \ {o}, hp, pl, hp2, pl2)
           /\ LostIn(lv2, pl2) \subseteq LostIn(lv, pl)
<1> USE DEF IsStored
<1> DEFINE r == [buffer |-> b, bufferSize |-> Len(bytes), dataSize |-> size]
<1>1. /\ lv \subseteq Buffers /\ pl \in [Objects -> APayload] /\ en \subseteq Objects
      /\ \A p \in Objects : Sound(lv, hp, pl[p], p \in en)
      /\ \A p, s \in Objects : p # s /\ pl[p].buffer = pl[s].buffer => pl[p].buffer = NoBuffer
  BY DEF Memory
<1>2. b # NoBuffer /\ Len(bytes) \in Nat
  BY LenProperties, PacketAssumption DEF PacketAssumption
<1>3. r \in APayload /\ r.buffer = b /\ r.bufferSize = Len(bytes) /\ r.dataSize = size
  BY <1>2 DEF APayload
<1> HIDE DEF r
<1>4. pl2 \in [Objects -> APayload] /\ pl2[o] = r /\ \A p \in Objects : p # o => pl2[p] = pl[p]
  BY <1>1, <1>3 DEF r
<1>5. \A p \in Objects : p # o /\ pl[p].buffer # NoBuffer =>
          /\ pl[p].buffer \in lv /\ pl[p].buffer \in Buffers
          /\ pl[p].buffer # pl[o].buffer /\ pl[p].buffer # b
          /\ hp2[pl[p].buffer] = hp[pl[p].buffer]
  <2> SUFFICES ASSUME NEW p \in Objects, p # o, pl[p].buffer # NoBuffer
               PROVE  /\ pl[p].buffer \in lv /\ pl[p].buffer \in Buffers
                      /\ pl[p].buffer # pl[o].buffer /\ pl[p].buffer # b
                      /\ hp2[pl[p].buffer] = hp[pl[p].buffer]
    OBVIOUS
  <2>1. pl[p].buffer \in lv /\ pl[p].buffer \in Buffers /\ pl[p].buffer # pl[o].buffer
    BY <1>1 DEF Sound
  <2>2. pl[p].buffer # b
    BY <2>1
  <2> QED
    BY <2>1, <2>2
<1>6. ASSUME NEW p \in Objects PROVE Sound(lv2, hp2, pl2[p], p \in en2)
  <2>1. CASE p = o
    BY <1>2, <1>3, <1>4, <2>1 DEF Sound
  <2>2. CASE p # o
    <3>1. Sound(lv, hp, pl[p], p \in en) /\ pl2[p] = pl[p] /\ (p \in en => p \in en2)
      BY <1>1, <1>4, <2>2
    <3> QED
      BY <1>5, <2>2, <3>1 DEF Sound
  <2> QED
    BY <2>1, <2>2
<1>7. \A p, s \in Objects : p # s /\ pl2[p].buffer = pl2[s].buffer => pl2[p].buffer = NoBuffer
  <2> SUFFICES ASSUME NEW p \in Objects, NEW s \in Objects, p # s,
                      pl2[p].buffer = pl2[s].buffer, pl2[p].buffer # NoBuffer
               PROVE  FALSE
    OBVIOUS
  <2>1. CASE p # o /\ s # o
    BY <1>1, <1>4, <2>1
  <2>2. CASE p = o
    BY <1>3, <1>4, <1>5, <2>2
  <2>3. CASE s = o
    BY <1>3, <1>4, <1>5, <2>3
  <2> QED
    BY <2>1, <2>2, <2>3
<1>8. Memory(lv2, hp2, pl2, en2)
  BY <1>1, <1>4, <1>6, <1>7 DEF Memory
<1>9. Same(Objects \ {o}, hp, pl, hp2, pl2)
  BY <1>4, <1>5 DEF Same, BytesIn
<1>10. LostIn(lv2, pl2) \subseteq LostIn(lv, pl)
  <2> SUFFICES ASSUME NEW c \in lv2, \A p \in Objects : pl2[p].buffer # c,
                      NEW p \in Objects, pl[p].buffer = c
               PROVE  FALSE
    BY <1>2, <1>3, <1>4 DEF LostIn
  <2>1. c # b
    BY <1>3, <1>4
  <2>2. p # o
    BY <2>1
  <2> QED
    BY <1>4, <2>2
<1> QED
  BY <1>8, <1>9, <1>10

(* The payload of s moves to o.  It is lost what o had.                    *)
IsMoved(pl, en, o, s, pl2, en2) ==
    /\ pl2 = [pl EXCEPT ![o] = pl[s], ![s] = Emptied]
    /\ en2 \subseteq Objects /\ o \in en2 /\ en \ {s} \subseteq en2

LosesOwn(lv, pl, o, pl2) ==
    pl[o].buffer = NoBuffer => LostIn(lv, pl2) \subseteq LostIn(lv, pl)

(* After the move the memory is sound, and lost is at most what o had.     *)
LEMMA MovedOver ==
    ASSUME NEW lv, NEW hp, NEW pl, NEW en, Memory(lv, hp, pl, en),
           NEW o \in Objects, NEW s \in Objects, o # s, NEW pl2, NEW en2,
           IsMoved(pl, en, o, s, pl2, en2)
    PROVE  /\ Memory(lv, hp, pl2, en2)
           /\ Same(Objects \ {o, s}, hp, pl, hp, pl2)
           /\ pl2[o] = pl[s] /\ BytesIn(hp, pl2[o]) = BytesIn(hp, pl[s])
           /\ LosesOwn(lv, pl, o, pl2)
<1> USE DEF IsMoved
<1>1. /\ lv \subseteq Buffers /\ pl \in [Objects -> APayload] /\ hp \in [Buffers -> Seq(Byte)]
      /\ \A p \in Objects : Sound(lv, hp, pl[p], p \in en)
      /\ \A p, q \in Objects : p # q /\ pl[p].buffer = pl[q].buffer => pl[p].buffer = NoBuffer
  BY DEF Memory
<1>2. /\ Emptied \in APayload /\ Emptied.buffer = NoBuffer /\ Emptied.bufferSize = 0
      /\ Emptied.dataSize = 0
  BY DEF Emptied, APayload
<1>3. /\ pl2 \in [Objects -> APayload] /\ pl2[o] = pl[s] /\ pl2[s] = Emptied
      /\ \A p \in Objects : p # o /\ p # s => pl2[p] = pl[p]
  BY <1>1, <1>2
<1>4. ASSUME NEW p \in Objects PROVE Sound(lv, hp, pl2[p], p \in en2)
  <2>1. CASE p = o
    BY <1>1, <1>3, <2>1 DEF Sound
  <2>2. CASE p = s
    BY <1>2, <1>3, <2>2 DEF Sound
  <2>3. CASE p # o /\ p # s
    <3>1. pl2[p] = pl[p] /\ (p \in en => p \in en2) /\ Sound(lv, hp, pl[p], p \in en)
      BY <1>1, <1>3, <2>3
    <3> QED
      BY <3>1 DEF Sound
  <2> QED
    BY <2>1, <2>2, <2>3
<1>5. \A p, q \in Objects : p # q /\ pl2[p].buffer = pl2[q].buffer => pl2[p].buffer = NoBuffer
  <2> SUFFICES ASSUME NEW p \in Objects, NEW q \in Objects, p # q,
                      pl2[p].buffer = pl2[q].buffer, pl2[p].buffer # NoBuffer
               PROVE  FALSE
    OBVIOUS
  <2>1. p # s /\ q # s
    BY <1>2, <1>3
  <2>2. CASE p # o /\ q # o
    BY <1>1, <1>3, <2>1, <2>2
  <2>3. CASE p = o
    BY <1>1, <1>3, <2>1, <2>3
  <2>4. CASE q = o
    BY <1>1, <1>3, <2>1, <2>4
  <2> QED
    BY <2>2, <2>3, <2>4
<1>6. Memory(lv, hp, pl2, en2)
  BY <1>1, <1>3, <1>4, <1>5 DEF Memory
<1>7. Same(Objects \ {o, s}, hp, pl, hp, pl2)
  BY <1>3 DEF Same
<1>8. ASSUME pl[o].buffer = NoBuffer PROVE LostIn(lv, pl2) \subseteq LostIn(lv, pl)
  <2> SUFFICES ASSUME NEW c \in LostIn(lv, pl2), NEW p \in Objects, pl[p].buffer = c
               PROVE  FALSE
    BY DEF LostIn
  <2>1. c \in lv /\ \A q \in Objects : pl2[q].buffer # c
    BY DEF LostIn
  <2>2. c # NoBuffer
    BY <1>1, <2>1, PacketAssumption DEF PacketAssumption
  <2>3. p # o
    BY <1>8, <2>2
  <2>4. p # s
    BY <1>3, <2>1
  <2> QED
    BY <1>3, <2>1, <2>3, <2>4
<1> QED
  BY <1>3, <1>6, <1>7, <1>8 DEF LosesOwn

(* The buffer of o is freed.                                               *)
IsFreed(lv, hp, pl, en, o, lv2, hp2, pl2, en2) ==
    /\ lv2 = lv \ {pl[o].buffer}
    /\ hp2 = [c \in Buffers |-> IF c = pl[o].buffer THEN <<>> ELSE hp[c]]
    /\ pl2 = [pl EXCEPT ![o] = Emptied]
    /\ en2 = en \ {o}

(* After the buffer is freed the memory is sound and nothing is lost.      *)
LEMMA Freed ==
    ASSUME NEW lv, NEW hp, NEW pl, NEW en, Memory(lv, hp, pl, en), NEW o \in Objects,
           NEW lv2, NEW hp2, NEW pl2, NEW en2, IsFreed(lv, hp, pl, en, o, lv2, hp2, pl2, en2)
    PROVE  /\ Memory(lv2, hp2, pl2, en2)
           /\ Same(Objects \ {o}, hp, pl, hp2, pl2)
           /\ LostIn(lv2, pl2) \subseteq LostIn(lv, pl)
<1> USE DEF IsFreed
<1>1. /\ lv \subseteq Buffers /\ pl \in [Objects -> APayload] /\ hp \in [Buffers -> Seq(Byte)]
      /\ \A p \in Objects : Sound(lv, hp, pl[p], p \in en)
      /\ \A p, q \in Objects : p # q /\ pl[p].buffer = pl[q].buffer => pl[p].buffer = NoBuffer
      /\ en \subseteq Objects
  BY DEF Memory
<1>2. /\ Emptied \in APayload /\ Emptied.buffer = NoBuffer /\ Emptied.bufferSize = 0
      /\ Emptied.dataSize = 0
  BY DEF Emptied, APayload
<1>3. /\ pl2 \in [Objects -> APayload] /\ pl2[o] = Emptied
      /\ \A p \in Objects : p # o => pl2[p] = pl[p]
  BY <1>1, <1>2
<1>4. hp2 \in [Buffers -> Seq(Byte)]
  <2>1. <<>> \in Seq(Byte)
    OBVIOUS
  <2> QED
    BY <1>1, <2>1
<1>5. \A p \in Objects : p # o /\ pl[p].buffer # NoBuffer =>
          pl[p].buffer \in lv2 /\ hp2[pl[p].buffer] = hp[pl[p].buffer]
  <2> SUFFICES ASSUME NEW p \in Objects, p # o, pl[p].buffer # NoBuffer
               PROVE  pl[p].buffer \in lv2 /\ hp2[pl[p].buffer] = hp[pl[p].buffer]
    OBVIOUS
  <2>1. pl[p].buffer \in lv /\ pl[p].buffer \in Buffers /\ pl[p].buffer # pl[o].buffer
    BY <1>1 DEF Sound
  <2> QED
    BY <2>1
<1>6. ASSUME NEW p \in Objects PROVE Sound(lv2, hp2, pl2[p], p \in en2)
  <2>1. CASE p = o
    BY <1>2, <1>3, <2>1 DEF Sound
  <2>2. CASE p # o
    <3>1. Sound(lv, hp, pl[p], p \in en) /\ pl2[p] = pl[p] /\ (p \in en => p \in en2)
      BY <1>1, <1>3, <2>2
    <3> QED
      BY <1>5, <2>2, <3>1 DEF Sound
  <2> QED
    BY <2>1, <2>2
<1>7. \A p, q \in Objects : p # q /\ pl2[p].buffer = pl2[q].buffer => pl2[p].buffer = NoBuffer
  BY <1>1, <1>2, <1>3
<1>8. Memory(lv2, hp2, pl2, en2)
  BY <1>1, <1>3, <1>4, <1>6, <1>7 DEF Memory
<1>9. Same(Objects \ {o}, hp, pl, hp2, pl2)
  BY <1>3, <1>5 DEF Same, BytesIn
<1>10. LostIn(lv2, pl2) \subseteq LostIn(lv, pl)
  BY <1>3 DEF LostIn
<1> QED
  BY <1>8, <1>9, <1>10

(* The data size of o changes.                                             *)
IsSized(pl, o, n, pl2) == n <= pl[o].bufferSize /\ pl2 = [pl EXCEPT ![o].dataSize = n]

(* With another data size the memory is as sound.                          *)
LEMMA Sized ==
    ASSUME NEW lv, NEW hp, NEW pl, NEW en, Memory(lv, hp, pl, en), NEW o \in Objects,
           NEW n \in Nat, NEW pl2, IsSized(pl, o, n, pl2)
    PROVE  /\ Memory(lv, hp, pl2, en)
           /\ Same(Objects \ {o}, hp, pl, hp, pl2)
           /\ LostIn(lv, pl2) = LostIn(lv, pl)
           /\ pl2[o].dataSize = n /\ pl2[o].buffer = pl[o].buffer
           /\ pl2[o].bufferSize = pl[o].bufferSize
<1> USE DEF IsSized
<1>1. /\ lv \subseteq Buffers /\ pl \in [Objects -> APayload] /\ hp \in [Buffers -> Seq(Byte)]
      /\ \A p \in Objects : Sound(lv, hp, pl[p], p \in en)
      /\ \A p, q \in Objects : p # q /\ pl[p].buffer = pl[q].buffer => pl[p].buffer = NoBuffer
      /\ en \subseteq Objects
  BY DEF Memory
<1> DEFINE r == [pl[o] EXCEPT !.dataSize = n]
<1>2. /\ r \in APayload /\ r.buffer = pl[o].buffer /\ r.bufferSize = pl[o].bufferSize
      /\ r.dataSize = n
  <2>1. pl[o] \in APayload
    BY <1>1
  <2> QED
    BY <2>1 DEF APayload
<1>3. pl2 = [pl EXCEPT ![o] = r]
  BY <1>1
<1> HIDE DEF r
<1>4. pl2 \in [Objects -> APayload] /\ pl2[o] = r /\ \A p \in Objects : p # o => pl2[p] = pl[p]
  BY <1>1, <1>2, <1>3
<1>5. \A p \in Objects : pl2[p].buffer = pl[p].buffer
  BY <1>2, <1>4
<1>6. ASSUME NEW p \in Objects PROVE Sound(lv, hp, pl2[p], p \in en)
  <2>1. CASE p = o
    BY <1>1, <1>2, <1>4, <2>1 DEF Sound
  <2>2. CASE p # o
    BY <1>1, <1>4, <2>2
  <2> QED
    BY <2>1, <2>2
<1>7. Memory(lv, hp, pl2, en)
  <2>1. \A p, q \in Objects : p # q /\ pl2[p].buffer = pl2[q].buffer => pl2[p].buffer = NoBuffer
    BY <1>1, <1>5
  <2> QED
    BY <1>1, <1>4, <1>6, <2>1 DEF Memory
<1>8. Same(Objects \ {o}, hp, pl, hp, pl2)
  BY <1>4 DEF Same
<1>9. LostIn(lv, pl2) = LostIn(lv, pl)
  BY <1>5 DEF LostIn
<1> QED
  BY <1>2, <1>4, <1>7, <1>8, <1>9

-----------------------------------------------------------------------------
(* The invariant.  A packet of AdbBase that is on its way has the message  *)
(* of its kind, its version and its bytes, and one that is being read into *)
(* has no data yet.                                                        *)
MemInv == Memory(live, heap, payload, engaged)

SentInv ==
    sentAs # <<>> =>
        /\ "sending" \in busy
        /\ IF sentAs.kind = "OKAY" THEN "sending" \notin engaged /\ message = NewMessage
           ELSE /\ "sending" \in engaged
                /\ message = MessageFor(sentAs.kind, sentAs.version, Bytes("sending"))

PreparedInv ==
    "receiving" \in busy =>
        payload["receiving"].buffer # NoBuffer /\ payload["receiving"].dataSize = 0

PackInv == TypeOK /\ MemInv /\ SentInv /\ PreparedInv

-----------------------------------------------------------------------------
(* The operations on the memory.  Each changes one object and loses no     *)
(* buffer.                                                                 *)
Changes(o) ==
    /\ MemInv'
    /\ Same(Objects \ {o}, heap, payload, heap', payload')
    /\ Lost' \subseteq Lost

(* What is lost, in terms of the variables.                                *)
LEMMA LostIs == Lost = LostIn(live, payload)
BY DEF Lost, LostIn

(* What is known of an object.                                             *)
LEMMA ObjectIs ==
    ASSUME MemInv, NEW o \in Objects
    PROVE  /\ live \subseteq Buffers /\ engaged \subseteq Objects
           /\ heap \in [Buffers -> Seq(Byte)] /\ payload \in [Objects -> APayload]
           /\ payload[o].bufferSize \in Nat /\ payload[o].dataSize \in Nat
           /\ payload[o].dataSize <= payload[o].bufferSize
           /\ payload[o].buffer = NoBuffer => payload[o].bufferSize = 0
           /\ payload[o].buffer # NoBuffer =>
                  /\ o \in engaged /\ payload[o].buffer \in live
                  /\ payload[o].buffer \in Buffers
                  /\ heap[payload[o].buffer] \in Seq(Byte)
                  /\ Len(heap[payload[o].buffer]) = payload[o].bufferSize
<1>1. payload[o] \in APayload /\ Sound(live, heap, payload[o], o \in engaged)
      /\ live \subseteq Buffers /\ engaged \subseteq Objects
      /\ heap \in [Buffers -> Seq(Byte)] /\ payload \in [Objects -> APayload]
  BY DEF MemInv, Memory
<1>2. /\ payload[o].bufferSize \in Nat /\ payload[o].dataSize \in Nat
      /\ payload[o].buffer \in Buffers \cup {NoBuffer}
  BY <1>1 DEF APayload
<1> QED
  BY <1>1, <1>2 DEF Sound

(* An object has as many bytes as its data size says.                      *)
LEMMA BytesAreSeq ==
    ASSUME MemInv, NEW o \in Objects
    PROVE  Bytes(o) \in Seq(Byte) /\ Len(Bytes(o)) = payload[o].dataSize
BY BytesAre, BytesType DEF MemInv

(* An object gets these bytes in a buffer that was free or in its own.     *)
LEMMA Stores ==
    ASSUME MemInv, NEW o \in Objects, NEW b \in Buffers, b \notin live \/ b = payload[o].buffer,
           NEW bytes \in Seq(Byte), NEW size \in Nat, size <= Len(bytes),
           live' = (live \ {payload[o].buffer}) \cup {b},
           heap' \in [Buffers -> Seq(Byte)], heap'[b] = bytes,
           \A c \in Buffers : c # b /\ c # payload[o].buffer => heap'[c] = heap[c],
           payload' = [payload EXCEPT ![o] = [buffer |-> b, bufferSize |-> Len(bytes),
                                              dataSize |-> size]],
           engaged' = engaged \cup {o}
    PROVE  Changes(o)
<1>1. /\ Memory(live, heap, payload, engaged)
      /\ IsStored(live, heap, payload, engaged, o, b, bytes, size, live', heap', payload', engaged')
      /\ o \in Objects
  BY DEF MemInv, IsStored
<1>2. /\ Memory(live', heap', payload', engaged')
      /\ Same(Objects \ {o}, heap, payload, heap', payload')
      /\ LostIn(live', payload') \subseteq LostIn(live, payload)
  BY ONLY <1>1, Stored
<1>3. Lost' = LostIn(live', payload')
  BY DEF Lost, LostIn
<1> QED
  BY <1>2, <1>3, LostIs DEF Changes, MemInv

(* malloc for an object that did not exist.                                *)
LEMMA Allocates ==
    ASSUME MemInv, NEW o \in Objects, o \notin engaged, engaged' = engaged \cup {o},
           NEW bytes \in Seq(Byte), NEW size \in Nat, size <= Len(bytes),
           Allocate(o, bytes, size)
    PROVE  Changes(o) /\ payload'[o].buffer # NoBuffer /\ payload'[o].dataSize = size
<1>1. PICK b \in Buffers \ live :
          /\ live' = live \cup {b}
          /\ heap' = [heap EXCEPT ![b] = bytes]
          /\ payload' = [payload EXCEPT ![o] = [buffer |-> b, bufferSize |-> Len(bytes),
                                                dataSize |-> size]]
  BY DEF Allocate
<1>2. /\ live \subseteq Buffers /\ heap \in [Buffers -> Seq(Byte)]
      /\ payload[o].buffer = NoBuffer /\ payload \in [Objects -> APayload]
  BY ObjectIs
<1>3. NoBuffer \notin Buffers
  BY PacketAssumption DEF PacketAssumption
<1>4. /\ live' = (live \ {payload[o].buffer}) \cup {b}
      /\ heap' \in [Buffers -> Seq(Byte)] /\ heap'[b] = bytes
      /\ \A c \in Buffers : c # b /\ c # payload[o].buffer => heap'[c] = heap[c]
  BY <1>1, <1>2, <1>3
<1>5. Changes(o)
  BY <1>1, <1>4, Stores
<1> QED
  BY <1>1, <1>2, <1>3, <1>5

(* realloc for an object, whether it had a buffer or not.                  *)
LEMMA Reallocates ==
    ASSUME MemInv, NEW o \in Objects, engaged' = engaged \cup {o},
           NEW bytes \in Seq(Byte), NEW size \in Nat, size <= Len(bytes),
           Reallocate(o, bytes, size)
    PROVE  Changes(o) /\ payload'[o].buffer # NoBuffer /\ payload'[o].dataSize = size
<1> DEFINE old == payload[o].buffer
<1>1. PICK b \in (Buffers \ live) \cup ({old} \ {NoBuffer}) :
          /\ live' = (live \ {old}) \cup {b}
          /\ heap' = [Without(old) EXCEPT ![b] = bytes]
          /\ payload' = [payload EXCEPT ![o] = [buffer |-> b, bufferSize |-> Len(bytes),
                                                dataSize |-> size]]
  BY DEF Reallocate
<1>2. /\ live \subseteq Buffers /\ heap \in [Buffers -> Seq(Byte)]
      /\ payload \in [Objects -> APayload] /\ (old # NoBuffer => old \in Buffers)
  BY ObjectIs
<1>3. b \in Buffers /\ (b \notin live \/ b = old)
  BY <1>1, <1>2
<1>4. Without(old) \in [Buffers -> Seq(Byte)]
      /\ \A c \in Buffers : c # old => Without(old)[c] = heap[c]
  <2>1. <<>> \in Seq(Byte)
    OBVIOUS
  <2> QED
    BY <1>2, <2>1 DEF Without
<1>5. /\ heap' \in [Buffers -> Seq(Byte)] /\ heap'[b] = bytes
      /\ \A c \in Buffers : c # b /\ c # old => heap'[c] = heap[c]
  BY <1>1, <1>3, <1>4
<1>6. Changes(o)
  BY <1>1, <1>3, <1>5, Stores
<1>7. b # NoBuffer
  BY <1>3, PacketAssumption DEF PacketAssumption
<1> QED
  BY <1>1, <1>2, <1>6, <1>7

(* Bytes are stored in the buffer of o itself.                             *)
LEMMA Writes ==
    ASSUME MemInv, NEW o \in Objects, payload[o].buffer # NoBuffer, UNCHANGED <<live, engaged>>,
           NEW bytes \in Seq(Byte), Len(bytes) = payload[o].bufferSize,
           heap' = [heap EXCEPT ![payload[o].buffer] = bytes],
           NEW size \in Nat, size <= Len(bytes),
           payload' = [payload EXCEPT ![o].dataSize = size]
    PROVE  /\ Changes(o)
           /\ payload'[o].buffer = payload[o].buffer /\ payload'[o].dataSize = size
<1> DEFINE b == payload[o].buffer
<1>1. /\ live \subseteq Buffers /\ heap \in [Buffers -> Seq(Byte)] /\ engaged \subseteq Objects
      /\ payload \in [Objects -> APayload] /\ o \in engaged /\ b \in live /\ b \in Buffers
  BY ObjectIs
<1>2. live' = (live \ {b}) \cup {b} /\ engaged' = engaged \cup {o}
  BY <1>1
<1>3. /\ heap' \in [Buffers -> Seq(Byte)] /\ heap'[b] = bytes
      /\ \A c \in Buffers : c # b => heap'[c] = heap[c]
  BY <1>1
<1>4. [payload[o] EXCEPT !.dataSize = size] =
          [buffer |-> b, bufferSize |-> Len(bytes), dataSize |-> size]
  <2>1. payload[o] \in APayload
    BY <1>1
  <2> QED
    BY <2>1 DEF APayload
<1>5. payload' = [payload EXCEPT ![o] = [buffer |-> b, bufferSize |-> Len(bytes),
                                         dataSize |-> size]]
  BY <1>4
<1>6. Changes(o)
  BY <1>1, <1>2, <1>3, <1>5, Stores
<1> QED
  BY <1>1, <1>5, <1>6

(* The data size changes only.                                             *)
LEMMA Resizes ==
    ASSUME MemInv, NEW o \in Objects, UNCHANGED <<live, heap, engaged>>,
           NEW n \in Nat, n <= payload[o].bufferSize,
           payload' = [payload EXCEPT ![o].dataSize = n]
    PROVE  /\ Changes(o)
           /\ payload'[o].buffer = payload[o].buffer /\ payload'[o].dataSize = n
<1>1. /\ Memory(live, heap, payload, engaged) /\ IsSized(payload, o, n, payload')
      /\ o \in Objects /\ n \in Nat
  BY DEF MemInv, IsSized
<1>2. /\ Memory(live, heap, payload', engaged)
      /\ Same(Objects \ {o}, heap, payload, heap, payload')
      /\ LostIn(live, payload') = LostIn(live, payload)
  BY ONLY <1>1, Sized
<1>3. Lost' = LostIn(live', payload')
  BY DEF Lost, LostIn
<1>4. payload \in [Objects -> APayload]
  BY ObjectIs
<1>5. payload[o] \in APayload
  BY <1>4
<1>6. payload'[o].buffer = payload[o].buffer /\ payload'[o].dataSize = n
  BY <1>4, <1>5 DEF APayload
<1> QED
  BY <1>2, <1>3, <1>6, LostIs DEF Changes, MemInv

(* An object ends with its buffer.                                         *)
LEMMA Frees ==
    ASSUME MemInv, NEW o \in Objects, Free(o), engaged' = engaged \ {o}
    PROVE  Changes(o)
<1>1. /\ Memory(live, heap, payload, engaged)
      /\ IsFreed(live, heap, payload, engaged, o, live', heap', payload', engaged')
  BY DEF MemInv, IsFreed, Free, Without
<1>2. /\ Memory(live', heap', payload', engaged')
      /\ Same(Objects \ {o}, heap, payload, heap', payload')
      /\ LostIn(live', payload') \subseteq LostIn(live, payload)
  BY <1>1, Freed
<1>3. Lost' = LostIn(live', payload')
  BY DEF Lost, LostIn
<1> QED
  BY <1>2, <1>3, LostIs DEF Changes, MemInv

(* A payload moves.  A buffer is lost only if there was one before.        *)
LEMMA Moves ==
    ASSUME MemInv, NEW o \in Objects, NEW s \in Objects, o # s, payload' = Moved(o, s),
           UNCHANGED <<live, heap>>, engaged' \subseteq Objects, o \in engaged',
           engaged \ {s} \subseteq engaged'
    PROVE  /\ MemInv'
           /\ Same(Objects \ {o, s}, heap, payload, heap', payload')
           /\ BytesIn(heap', payload'[o]) = BytesIn(heap, payload[s])
           /\ payload[o].buffer = NoBuffer => Lost' \subseteq Lost
<1>1. /\ Memory(live, heap, payload, engaged) /\ IsMoved(payload, engaged, o, s, payload', engaged')
      /\ o \in Objects /\ s \in Objects /\ o # s
  BY DEF MemInv, IsMoved, Moved
<1>2. /\ Memory(live, heap, payload', engaged')
      /\ Same(Objects \ {o, s}, heap, payload, heap, payload')
      /\ LosesOwn(live, payload, o, payload')
  BY ONLY <1>1, MovedOver
<1>3. Lost' = LostIn(live', payload')
  BY DEF Lost, LostIn
<1>4. payload'[o] = payload[s]
  BY ObjectIs DEF Moved
<1> QED
  BY <1>2, <1>3, <1>4, LostIs DEF MemInv, LosesOwn, BytesIn

(* The bytes that malloc finds, that a copy has and that realloc leaves.   *)
LEMMA StringsAre ==
    ASSUME NEW n \in Nat, NEW bytes \in Strings(n)
    PROVE  bytes \in Seq(Byte) /\ Len(bytes) = n
<1>1. bytes \in [1..n -> Byte]
  BY DEF Strings
<1> QED
  BY <1>1

(* A copy is as long as the buffer of its original.                        *)
LEMMA CopyIs ==
    ASSUME MemInv, NEW s \in Objects, NEW bytes \in CopyOf(s)
    PROVE  bytes \in Seq(Byte) /\ Len(bytes) = payload[s].bufferSize
<1> DEFINE n == payload[s].bufferSize - payload[s].dataSize
<1>1. /\ payload[s].bufferSize \in Nat /\ payload[s].dataSize \in Nat
      /\ payload[s].dataSize <= payload[s].bufferSize
  BY ObjectIs
<1>2. n \in Nat
  BY <1>1
<1>3. PICK rest \in Strings(n) : bytes = Bytes(s) \o rest
  BY DEF CopyOf
<1>4. rest \in Seq(Byte) /\ Len(rest) = n
  BY <1>2, StringsAre
<1>5. Bytes(s) \in Seq(Byte) /\ Len(Bytes(s)) = payload[s].dataSize
  BY BytesAreSeq
<1>6. Bytes(s) \o rest \in Seq(Byte) /\ Len(Bytes(s) \o rest) = Len(Bytes(s)) + Len(rest)
  BY <1>4, <1>5, ConcatProperties
<1> QED
  BY <1>1, <1>3, <1>4, <1>5, <1>6

(* realloc leaves as many bytes as were asked for.                         *)
LEMMA ResizedIs ==
    ASSUME MemInv, NEW o \in Objects, NEW n \in Nat, NEW bytes \in Resized(o, n)
    PROVE  bytes \in Seq(Byte) /\ Len(bytes) = n
<1> DEFINE old == IF payload[o].buffer = NoBuffer THEN <<>> ELSE heap[payload[o].buffer]
<1>1. old \in Seq(Byte)
  <2>1. CASE payload[o].buffer = NoBuffer
    BY <2>1
  <2>2. CASE payload[o].buffer # NoBuffer
    BY <2>2, ObjectIs
  <2> QED
    BY <2>1, <2>2
<1>2. bytes \in IF n <= Len(old) THEN {SubSeq(old, 1, n)}
                ELSE {old \o rest : rest \in Strings(n - Len(old))}
  BY DEF Resized
<1> HIDE DEF old
<1>3. Len(old) \in Nat /\ \A i \in 1..Len(old) : old[i] \in Byte
  BY <1>1, LenProperties, ElementOfSeq
<1>4. CASE n <= Len(old)
  <2>1. \A i \in 1..n : old[i] \in Byte
    BY <1>3, <1>4
  <2>2. SubSeq(old, 1, n) \in Seq(Byte) /\ Len(SubSeq(old, 1, n)) = IF 1 <= n THEN n - 1 + 1 ELSE 0
    BY <2>1, SubSeqProperties
  <2> QED
    BY <1>2, <1>4, <2>2
<1>5. CASE ~(n <= Len(old))
  <2>1. PICK rest \in Strings(n - Len(old)) : bytes = old \o rest
    BY <1>2, <1>5
  <2>2. n - Len(old) \in Nat
    BY <1>3, <1>5
  <2>3. rest \in Seq(Byte) /\ Len(rest) = n - Len(old)
    BY <2>2, StringsAre
  <2>4. old \o rest \in Seq(Byte) /\ Len(old \o rest) = Len(old) + Len(rest)
    BY <1>1, <2>3, ConcatProperties
  <2> QED
    BY <1>3, <2>1, <2>3, <2>4
<1> QED
  BY <1>4, <1>5

(* Copies and moves of payloads, whoever makes them.                       *)
LEMMA CopyConstructs ==
    ASSUME MemInv, NEW o \in Objects, NEW s \in Objects, CopyConstruct(o, s)
    PROVE  Changes(o)
<1>1. /\ payload[s].bufferSize \in Nat /\ payload[s].dataSize \in Nat
      /\ payload[s].dataSize <= payload[s].bufferSize
  BY ObjectIs
<1>2. PICK bytes \in CopyOf(s) : Allocate(o, bytes, payload[s].dataSize)
  BY DEF CopyConstruct
<1>3. bytes \in Seq(Byte) /\ Len(bytes) = payload[s].bufferSize
  BY CopyIs
<1>4. o \notin engaged /\ engaged' = engaged \cup {o}
  BY DEF CopyConstruct
<1> QED
  BY <1>1, <1>2, <1>3, <1>4, Allocates

(* The copying assignment changes the object assigned to.                  *)
LEMMA CopyAssigns ==
    ASSUME MemInv, NEW o \in Objects, NEW s \in Objects, CopyAssign(o, s)
    PROVE  Changes(o)
<1>1. /\ payload[s].bufferSize \in Nat /\ payload[s].dataSize \in Nat
      /\ payload[s].dataSize <= payload[s].bufferSize /\ payload[s].bufferSize > 0
  BY ObjectIs DEF CopyAssign
<1>2. o \in engaged /\ UNCHANGED engaged
  BY DEF CopyAssign
<1>3. PICK bytes \in CopyOf(s) :
          IF payload[s].bufferSize = payload[o].bufferSize
          THEN /\ heap' = [heap EXCEPT ![payload[o].buffer] = bytes]
               /\ payload' = [payload EXCEPT ![o].dataSize = payload[s].dataSize]
               /\ UNCHANGED live
          ELSE Reallocate(o, bytes, payload[s].dataSize)
  BY DEF CopyAssign
<1>4. bytes \in Seq(Byte) /\ Len(bytes) = payload[s].bufferSize
  BY CopyIs
<1>5. CASE payload[s].bufferSize = payload[o].bufferSize
  <2>1. payload[o].buffer # NoBuffer
    BY <1>1, <1>5, ObjectIs
  <2> QED
    BY <1>1, <1>2, <1>3, <1>4, <1>5, <2>1, Writes
<1>6. CASE payload[s].bufferSize # payload[o].bufferSize
  <2>1. engaged' = engaged \cup {o}
    BY <1>2
  <2> QED
    BY <1>1, <1>3, <1>4, <1>6, <2>1, Reallocates
<1> QED
  BY <1>5, <1>6

(* A payload moves into an object that did not exist: no buffer is lost.   *)
LEMMA MovesInto ==
    ASSUME MemInv, NEW o \in Objects, NEW s \in Objects, MovedInto(o, s)
    PROVE  /\ MemInv' /\ Lost' \subseteq Lost
           /\ Same(Objects \ {o, s}, heap, payload, heap', payload')
           /\ BytesIn(heap', payload'[o]) = BytesIn(heap, payload[s])
<1>1. /\ o # s /\ payload' = Moved(o, s) /\ UNCHANGED <<live, heap>>
      /\ o \notin engaged /\ engaged' = engaged \cup {o}
  BY DEF MovedInto
<1>2. engaged \subseteq Objects /\ payload[o].buffer = NoBuffer
  BY <1>1, ObjectIs
<1>3. engaged' \subseteq Objects /\ o \in engaged' /\ engaged \ {s} \subseteq engaged'
  BY <1>1, <1>2
<1> QED
  BY <1>1, <1>2, <1>3, Moves

(* A payload moves over an object that may have a buffer.                  *)
LEMMA MoveAssigns ==
    ASSUME MemInv, NEW o \in Objects, NEW s \in Objects, MoveAssign(o, s)
    PROVE  MemInv' /\ Same(Objects \ {o, s}, heap, payload, heap', payload')
<1>1. /\ o # s /\ payload' = Moved(o, s) /\ UNCHANGED <<live, heap>>
      /\ o \in engaged /\ engaged' = engaged
  BY DEF MoveAssign
<1>2. engaged \subseteq Objects
  BY ObjectIs
<1>3. engaged' \subseteq Objects /\ o \in engaged' /\ engaged \ {s} \subseteq engaged'
  BY <1>1, <1>2
<1> QED
  BY <1>1, <1>3, Moves

-----------------------------------------------------------------------------
(* What a caller does with variables of its own leaves the packets alone.  *)
Quiet ==
    /\ MemInv' /\ Same(Packets, heap, payload, heap', payload')
    /\ \A p \in Packets : p \in engaged' <=> p \in engaged
    /\ UNCHANGED <<message, busy, sentAs>>
Contained == Lost' \subseteq Lost \/ \E o, s \in Objects : MoveAssign(o, s)

(* The variables of the callers are not the payloads of packets.           *)
LEMMA PartsAre == \A o \in Locals : o \in Objects /\ o \notin Packets
                  /\ Packets \subseteq Objects /\ "receiving" \in Objects /\ "sending" \in Objects
BY PacketAssumption DEF PacketAssumption, Objects, Packets

(* A step that changes one variable is quiet.                              *)
LEMMA ChangesQuietly ==
    ASSUME NEW o \in Locals, Changes(o),
           engaged' = engaged \/ engaged' = engaged \cup {o} \/ engaged' = engaged \ {o},
           UNCHANGED <<message, busy, sentAs>>
    PROVE  Quiet /\ Contained
<1>1. o \notin Packets /\ Packets \subseteq Objects \ {o}
  BY PartsAre
<1>2. Same(Packets, heap, payload, heap', payload')
  BY <1>1 DEF Changes, Same
<1>3. \A p \in Packets : p \in engaged' <=> p \in engaged
  BY <1>1
<1> QED
  BY <1>2, <1>3 DEF Quiet, Contained, Changes

(* A move between two variables is quiet.                                  *)
LEMMA MovesQuietly ==
    ASSUME NEW o \in Locals, NEW s \in Locals, MemInv',
           Same(Objects \ {o, s}, heap, payload, heap', payload'),
           engaged' = engaged \/ engaged' = engaged \cup {o},
           UNCHANGED <<message, busy, sentAs>>
    PROVE  Quiet
<1>1. o \notin Packets /\ Packets \subseteq Objects \ {o, s}
  BY PartsAre
<1>2. Same(Packets, heap, payload, heap', payload')
  BY <1>1 DEF Same
<1>3. \A p \in Packets : p \in engaged' <=> p \in engaged
  BY <1>1
<1> QED
  BY <1>2, <1>3 DEF Quiet

(* Whatever a caller does with its variables is quiet, and leaks by a move *)
(* only.                                                                   *)
LEMMA LocalStep ==
    ASSUME MemInv, ~Shrinks, NEW o \in Locals, OfLocal(o)
    PROVE  Quiet /\ Contained
<1>1. o \in Objects /\ "receiving" \in Objects /\ \A s \in Locals : s \in Objects
  BY PartsAre
<1>2. MaxSize \in Nat /\ 0 \in Byte
  BY PacketAssumption DEF PacketAssumption
<1>3. /\ payload[o].bufferSize \in Nat /\ payload[o].dataSize \in Nat
      /\ payload[o].dataSize <= payload[o].bufferSize
      /\ payload \in [Objects -> APayload] /\ heap \in [Buffers -> Seq(Byte)]
  BY <1>1, ObjectIs
<1>4. ASSUME NEW n \in 1..MaxSize, Construct(o, n) PROVE Quiet /\ Contained
  <2>1. n \in Nat /\ o \notin engaged /\ engaged' = engaged \cup {o}
    BY <1>2, <1>4 DEF Construct
  <2>2. PICK bytes \in Strings(n) : Allocate(o, bytes, 0)
    BY <1>4 DEF Construct
  <2>3. bytes \in Seq(Byte) /\ Len(bytes) = n /\ 0 <= Len(bytes)
    BY <2>1, StringsAre
  <2>4. Changes(o)
    BY <1>1, <2>1, <2>2, <2>3, Allocates
  <2> QED
    BY <1>4, <2>1, <2>4, ChangesQuietly DEF Construct
<1>5. ASSUME NEW n \in 1..MaxSize, resizeBuffer(o, n) PROVE Quiet /\ Contained
  <2>1. n \in Nat /\ o \in engaged /\ engaged' = engaged /\ n >= payload[o].dataSize
    BY <1>2, <1>5 DEF resizeBuffer
  <2>2. PICK bytes \in Resized(o, n) : Reallocate(o, bytes, SizeAfter(o, n))
    BY <1>5 DEF resizeBuffer
  <2>3. bytes \in Seq(Byte) /\ Len(bytes) = n
    BY <1>1, <2>1, ResizedIs
  <2>4. SizeAfter(o, n) \in Nat /\ SizeAfter(o, n) <= Len(bytes)
    BY <1>3, <2>1, <2>3 DEF SizeAfter
  <2>5. engaged' = engaged \cup {o}
    BY <2>1
  <2>6. Changes(o)
    BY <1>1, <2>2, <2>3, <2>4, <2>5, Reallocates
  <2> QED
    BY <1>5, <2>1, <2>6, ChangesQuietly DEF resizeBuffer
<1>6. ASSUME NEW n \in 0..MaxSize - 1, NEW text \in Strings(n), ConstructFromView(o, text)
      PROVE  Quiet /\ Contained
  <2>1. text \in Seq(Byte) /\ Len(text) \in Nat
    BY <1>2, StringsAre
  <2>2. Append(text, 0) \in Seq(Byte) /\ Len(Append(text, 0)) = Len(text) + 1
    BY <1>2, <2>1, AppendProperties
  <2>3. /\ o \notin engaged /\ engaged' = engaged \cup {o}
        /\ Allocate(o, Append(text, 0), Len(text) + 1)
    BY <1>6 DEF ConstructFromView
  <2>4. Len(text) + 1 \in Nat /\ Len(text) + 1 <= Len(Append(text, 0))
    BY <2>1, <2>2
  <2>5. Changes(o)
    BY <1>1, <2>2, <2>3, <2>4, Allocates
  <2> QED
    BY <1>6, <2>3, <2>5, ChangesQuietly DEF ConstructFromView
<1>7. ASSUME NEW s \in Objects, CopyConstruct(o, s) PROVE Quiet /\ Contained
  <2>1. Changes(o)
    BY <1>1, <1>7, CopyConstructs
  <2> QED
    BY <1>7, <2>1, ChangesQuietly DEF CopyConstruct
<1>8. ASSUME NEW s \in Objects, CopyAssign(o, s) PROVE Quiet /\ Contained
  <2>1. Changes(o)
    BY <1>1, <1>8, CopyAssigns
  <2> QED
    BY <1>8, <2>1, ChangesQuietly DEF CopyAssign
<1>9. ASSUME NEW s \in Locals, MoveConstruct(o, s) PROVE Quiet /\ Contained
  <2>1. /\ MemInv' /\ Lost' \subseteq Lost
        /\ Same(Objects \ {o, s}, heap, payload, heap', payload')
    BY <1>1, <1>9, MovesInto DEF MoveConstruct
  <2>2. engaged' = engaged \cup {o} /\ UNCHANGED <<message, busy, sentAs>>
    BY <1>9 DEF MoveConstruct, MovedInto
  <2> QED
    BY <2>1, <2>2, MovesQuietly DEF Contained
<1>10. ASSUME NEW s \in Locals, MoveAssign(o, s) PROVE Quiet /\ Contained
  <2>1. MemInv' /\ Same(Objects \ {o, s}, heap, payload, heap', payload')
    BY <1>1, <1>10, MoveAssigns
  <2>2. engaged' = engaged /\ UNCHANGED <<message, busy, sentAs>>
    BY <1>10 DEF MoveAssign
  <2>3. Contained
    BY <1>1, <1>10 DEF Contained
  <2> QED
    BY <2>1, <2>2, <2>3, MovesQuietly
<1>11. CASE Destroy(o)
  <2>1. Free(o) /\ engaged' = engaged \ {o} /\ UNCHANGED <<message, busy, sentAs>>
    BY <1>11 DEF Destroy
  <2>2. Changes(o)
    BY <1>1, <2>1, Frees
  <2> QED
    BY <2>1, <2>2, ChangesQuietly
<1>12. ASSUME NEW n \in 0..MaxSize, setDataSize(o, n) PROVE Quiet /\ Contained
  <2>1. n \in Nat /\ n <= payload[o].bufferSize /\ UNCHANGED <<live, heap, engaged>>
        /\ payload' = [payload EXCEPT ![o].dataSize = n]
    BY <1>2, <1>12 DEF setDataSize
  <2>2. Changes(o)
    BY <1>1, <2>1, Resizes
  <2> QED
    BY <1>12, <2>1, <2>2, ChangesQuietly DEF setDataSize
<1>13. ASSUME NEW i \in 1..MaxSize, NEW byte \in Byte, Store(o, i, byte)
       PROVE  Quiet /\ Contained
  <2> DEFINE b == payload[o].buffer
             bytes == [heap[b] EXCEPT ![i] = byte]
  <2>1. /\ i \in 1..payload[o].dataSize /\ UNCHANGED <<live, payload, engaged>>
        /\ heap' = [heap EXCEPT ![b] = bytes]
    BY <1>13 DEF Store
  <2>2. b # NoBuffer
    BY <1>1, <1>3, <2>1, ObjectIs
  <2>3. heap[b] \in Seq(Byte) /\ Len(heap[b]) = payload[o].bufferSize
    BY <1>1, <2>2, ObjectIs
  <2>4. i \in 1..Len(heap[b])
    BY <1>3, <2>1, <2>3
  <2>5. bytes \in Seq(Byte) /\ Len(bytes) = payload[o].bufferSize
    BY <2>3, <2>4, ExceptSeq
  <2>6. payload' = [payload EXCEPT ![o].dataSize = payload[o].dataSize]
    <3>1. payload[o] \in APayload
      BY <1>1, <1>3
    <3>2. [payload[o] EXCEPT !.dataSize = payload[o].dataSize] = payload[o]
      BY <3>1 DEF APayload
    <3> QED
      BY <1>1, <1>3, <2>1, <3>2
  <2> HIDE DEF b, bytes
  <2>7. payload[o].dataSize <= Len(bytes)
    BY <1>3, <2>5
  <2>8. Changes(o)
    BY <1>1, <1>3, <2>1, <2>2, <2>5, <2>6, <2>7, Writes DEF b
  <2> QED
    BY <1>13, <2>1, <2>8, ChangesQuietly DEF Store
<1> QED
  BY <1>1, <1>4, <1>5, <1>6, <1>7, <1>8, <1>9, <1>10, <1>11, <1>12, <1>13 DEF OfLocal

-----------------------------------------------------------------------------
(* The packets.                                                            *)
LEMMA BytesThen == \A o : Bytes(o)' = BytesIn(heap', payload'[o])
BY DEF Bytes, Data, BytesIn

(* No packet of AdbBase is on its way.                                     *)
LEMMA Unsent ==
    ASSUME SentInv, "sending" \notin busy, UNCHANGED sentAs
    PROVE  sentAs = <<>> /\ SentInv'
BY DEF SentInv

(* The packet that is read into is as it was.                              *)
LEMMA StillPrepared ==
    ASSUME PreparedInv, payload'["receiving"] = payload["receiving"],
           "receiving" \in busy' => "receiving" \in busy
    PROVE  PreparedInv'
BY DEF PreparedInv

(* The packet that is sent is as it was.                                   *)
LEMMA StillSent ==
    ASSUME SentInv, Same({"sending"}, heap, payload, heap', payload'),
           "sending" \in engaged' <=> "sending" \in engaged,
           "sending" \in busy => "sending" \in busy', UNCHANGED <<message, sentAs>>
    PROVE  SentInv' /\ Bytes("sending")' = Bytes("sending")
<1>1. Bytes("sending")' = Bytes("sending")
  BY BytesAre, BytesThen DEF Same
<1> QED
  BY <1>1 DEF SentInv, MessageFor

(* A quiet step keeps the invariant.                                       *)
LEMMA QuietKeeps ==
    ASSUME SentInv, PreparedInv, Quiet
    PROVE  MemInv' /\ SentInv' /\ PreparedInv'
<1>1. /\ Same({"sending"}, heap, payload, heap', payload')
      /\ payload'["receiving"] = payload["receiving"]
  BY DEF Quiet, Same, Packets
<1> QED
  BY <1>1, StillSent, StillPrepared DEF Quiet, Packets

(* What a caller does with a packet that is not on its way.                *)
LEMMA PacketStep ==
    ASSUME MemInv, SentInv, PreparedInv, OfPacket
    PROVE  MemInv' /\ SentInv' /\ PreparedInv' /\ Contained
<1>1. /\ "sending" \in Objects /\ "receiving" \in Objects /\ "sending" # "receiving"
      /\ \A s \in Locals : s \in Objects /\ s # "receiving" /\ s # "sending"
  BY PacketAssumption DEF PacketAssumption, Objects, Packets
<1>2. ASSUME NEW o \in Objects, NEW s \in Objects, o # "receiving", s # "receiving",
             Same(Objects \ {o, s}, heap, payload, heap', payload')
      PROVE  payload'["receiving"] = payload["receiving"]
  BY <1>1, <1>2 DEF Same
<1>3. ASSUME NEW s \in Objects, movePayloadIn(s)
      PROVE  MemInv' /\ SentInv' /\ PreparedInv' /\ Contained
  <2>1. "sending" \notin busy /\ s \in Locals
    BY <1>3 DEF movePayloadIn
  <2>2. CASE MoveConstruct("sending", s)
    <3>1. MovedInto("sending", s) /\ UNCHANGED <<message, busy, sentAs>>
      BY <2>2 DEF MoveConstruct
    <3>2. /\ MemInv' /\ Lost' \subseteq Lost
          /\ Same(Objects \ {"sending", s}, heap, payload, heap', payload')
      BY <1>1, <3>1, MovesInto
    <3>3. payload'["receiving"] = payload["receiving"]
      BY <1>1, <1>2, <2>1, <3>2
    <3> QED
      BY <2>1, <3>1, <3>2, <3>3, Unsent, StillPrepared DEF Contained
  <2>3. CASE MoveAssign("sending", s)
    <3>1. UNCHANGED <<message, busy, sentAs>>
      BY <2>3 DEF MoveAssign
    <3>2. MemInv' /\ Same(Objects \ {"sending", s}, heap, payload, heap', payload')
      BY <1>1, <2>3, MoveAssigns
    <3>3. payload'["receiving"] = payload["receiving"]
      BY <1>1, <1>2, <2>1, <3>2
    <3>4. Contained
      BY <1>1, <2>3 DEF Contained
    <3> QED
      BY <2>1, <3>1, <3>2, <3>3, <3>4, Unsent, StillPrepared
  <2> QED
    BY <1>3, <2>2, <2>3 DEF movePayloadIn
<1>4. ASSUME NEW s \in Objects, copyPayloadIn(s)
      PROVE  MemInv' /\ SentInv' /\ PreparedInv' /\ Contained
  <2>1. "sending" \notin busy /\ (CopyConstruct("sending", s) \/ CopyAssign("sending", s))
    BY <1>4 DEF copyPayloadIn
  <2>2. Changes("sending")
    BY <1>1, <2>1, CopyConstructs, CopyAssigns
  <2>3. UNCHANGED <<message, busy, sentAs>>
    BY <2>1 DEF CopyConstruct, CopyAssign
  <2>4. payload'["receiving"] = payload["receiving"]
    BY <1>1, <2>2 DEF Changes, Same
  <2> QED
    BY <2>1, <2>2, <2>3, <2>4, Unsent, StillPrepared DEF Contained, Changes
<1>5. ASSUME NEW o \in Locals, movePayloadOut(o)
      PROVE  MemInv' /\ SentInv' /\ PreparedInv' /\ Contained
  <2>1. /\ "sending" \notin busy /\ o \notin engaged /\ payload' = Moved(o, "sending")
        /\ engaged' = (engaged \ {"sending"}) \cup {o}
        /\ UNCHANGED <<live, heap, message, busy, sentAs>>
    BY <1>5 DEF movePayloadOut
  <2>2. engaged \subseteq Objects /\ payload[o].buffer = NoBuffer /\ o \in Objects
    BY <1>1, <2>1, ObjectIs
  <2>3. engaged' \subseteq Objects /\ o \in engaged' /\ engaged \ {"sending"} \subseteq engaged'
    BY <2>1, <2>2
  <2>4. /\ MemInv' /\ Lost' \subseteq Lost
        /\ Same(Objects \ {o, "sending"}, heap, payload, heap', payload')
    BY <1>1, <2>1, <2>2, <2>3, Moves
  <2>5. payload'["receiving"] = payload["receiving"]
    BY <1>1, <1>2, <2>4
  <2> QED
    BY <2>1, <2>4, <2>5, Unsent, StillPrepared DEF Contained
<1>6. CASE computeChecksum \/ updateMessageDataLength \/ SendBuilt
  <2>1. /\ UNCHANGED <<live, heap, payload, engaged, sentAs>> /\ "sending" \notin busy
        /\ ("receiving" \in busy' => "receiving" \in busy)
    BY <1>1, <1>6 DEF computeChecksum, updateMessageDataLength, SendBuilt, memory
  <2>2. MemInv' /\ Lost' = Lost
    BY <2>1 DEF MemInv, Lost
  <2> QED
    BY <2>1, <2>2, Unsent, StillPrepared DEF Contained
<1> QED
  BY <1>3, <1>4, <1>5, <1>6 DEF OfPacket

(* AdbBase sends a packet.                                                 *)
LEMMA BaseStep ==
    ASSUME MemInv, SentInv, PreparedInv, OfAdbBase
    PROVE  MemInv' /\ SentInv' /\ PreparedInv' /\ Contained
<1>1. /\ "sending" \in Objects /\ "receiving" \in Objects /\ "sending" # "receiving"
      /\ \A s \in Locals : s \in Objects /\ s # "receiving" /\ s # "sending"
  BY PacketAssumption DEF PacketAssumption, Objects, Packets
<1>2. ASSUME NEW version \in Versions, SendBare(version)
      PROVE  MemInv' /\ SentInv' /\ PreparedInv' /\ Contained
  <2>1. /\ "sending" \notin engaged /\ message' = NewMessage /\ busy' = busy \cup {"sending"}
        /\ sentAs' = [kind |-> "OKAY", version |-> version]
        /\ UNCHANGED <<live, heap, payload, engaged>>
    BY <1>2 DEF SendBare, memory
  <2>2. MemInv' /\ Lost' = Lost
    BY <2>1 DEF MemInv, Lost
  <2>3. SentInv'
    BY <2>1 DEF SentInv
  <2> QED
    BY <1>1, <2>1, <2>2, <2>3, StillPrepared DEF Contained
<1>3. ASSUME NEW version \in Versions, NEW kind \in Kinds, NEW s \in Locals,
             SendPayload(kind, version, s)
      PROVE  MemInv' /\ SentInv' /\ PreparedInv' /\ Contained
  <2>1. /\ kind # "OKAY" /\ MovedInto("sending", s) /\ busy' = busy \cup {"sending"}
        /\ message' = MessageFor(kind, version, Bytes(s))
        /\ sentAs' = [kind |-> kind, version |-> version]
    BY <1>3 DEF SendPayload
  <2>2. /\ MemInv' /\ Lost' \subseteq Lost
        /\ Same(Objects \ {"sending", s}, heap, payload, heap', payload')
        /\ BytesIn(heap', payload'["sending"]) = BytesIn(heap, payload[s])
    BY <1>1, <2>1, MovesInto
  <2>3. Bytes("sending")' = Bytes(s)
    BY <2>2, BytesAre, BytesThen
  <2>4. "sending" \in engaged'
    BY <2>1 DEF MovedInto
  <2>5. SentInv'
    BY <2>1, <2>3, <2>4 DEF SentInv, MessageFor
  <2>6. payload'["receiving"] = payload["receiving"]
    BY <1>1, <2>2 DEF Same
  <2> QED
    BY <1>1, <2>1, <2>2, <2>5, <2>6, StillPrepared DEF Contained
<1> QED
  BY <1>2, <1>3 DEF OfAdbBase

(* The packet on its way passes the check of its peer.                     *)
LEMMA SentIs ==
    ASSUME TypeOK, MemInv, SentInv, sentAs # <<>>
    PROVE  /\ "sending" \in busy /\ Bytes("sending") \in Seq(Byte)
           /\ sentAs.kind \in Kinds /\ sentAs.version \in Versions
           /\ message.dataLength = Len(Bytes("sending"))
           /\ message.dataCheck = IF HasChecksum(sentAs.kind, sentAs.version)
                                  THEN Checksum(Bytes("sending")) ELSE 0
           /\ "sending" \notin engaged => message = NewMessage /\ Bytes("sending") = <<>>
           /\ sentAs.kind = "OKAY" => Bytes("sending") = <<>>
<1>1. "sending" \in Objects
  BY DEF Objects, Packets
<1>2. sentAs.kind \in Kinds /\ sentAs.version \in Versions
  BY DEF TypeOK
<1>3. Bytes("sending") \in Seq(Byte) /\ "sending" \in busy
  BY <1>1, BytesAreSeq DEF SentInv
<1>4. CASE sentAs.kind = "OKAY"
  <2>1. "sending" \notin engaged /\ message = NewMessage
    BY <1>4 DEF SentInv
  <2>2. payload["sending"].buffer = NoBuffer
    BY <1>1, <2>1, ObjectIs
  <2>3. Bytes("sending") = <<>>
    BY <2>2 DEF Bytes
  <2> QED
    BY <1>2, <1>3, <2>1, <2>3, ChecksumEmpty DEF NewMessage
<1>5. CASE sentAs.kind # "OKAY"
  <2>1. /\ "sending" \in engaged
        /\ message = MessageFor(sentAs.kind, sentAs.version, Bytes("sending"))
    BY <1>5 DEF SentInv
  <2> QED
    BY <1>2, <1>3, <1>5, <2>1 DEF MessageFor
<1> QED
  BY <1>4, <1>5

(* The checksum of a packet of AdbBase is right for every peer that looks  *)
(* at it.                                                                  *)
LEMMA SentPasses ==
    ASSUME TypeOK, MemInv, SentInv, sentAs # <<>>, NEW version \in Versions,
           version >= sentAs.version \/ sentAs.kind \in {"CNXN", "AUTH"},
           version < SkipChecksum
    PROVE  Checksum(Bytes("sending")) = message.dataCheck
<1>1. /\ sentAs.kind \in Kinds /\ sentAs.version \in Versions
      /\ message.dataCheck = IF HasChecksum(sentAs.kind, sentAs.version)
                             THEN Checksum(Bytes("sending")) ELSE 0
      /\ sentAs.kind = "OKAY" => Bytes("sending") = <<>>
  BY SentIs
<1>2. Versions \subseteq Nat /\ SkipChecksum \in Nat
  BY PacketAssumption DEF PacketAssumption
<1>3. CASE sentAs.kind = "OKAY"
  BY <1>1, <1>3, ChecksumEmpty DEF HasChecksum
<1>4. CASE sentAs.kind \in {"CNXN", "AUTH"}
  BY <1>1, <1>4 DEF HasChecksum
<1>5. CASE sentAs.kind \in {"OPEN", "WRTE"}
  <2>1. sentAs.version < SkipChecksum /\ sentAs.version <= SkipChecksum
    BY <1>1, <1>2, <1>5
  <2> QED
    BY <1>1, <1>5, <2>1 DEF HasChecksum
<1> QED
  BY <1>1, <1>3, <1>4, <1>5 DEF Kinds

-----------------------------------------------------------------------------
(* The transport.                                                          *)

(* What was read is in the buffer, and nothing else changes.               *)
LEMMA ReceivedStep ==
    ASSUME MemInv, SentInv, PreparedInv, Received
    PROVE  Changes("receiving") /\ SentInv'
<1> DEFINE r == payload["receiving"]
<1>1. "receiving" \in Objects /\ "sending" \in Objects \ {"receiving"}
  BY DEF Objects, Packets
<1>2. r.buffer # NoBuffer /\ UNCHANGED <<live, engaged, message, sentAs>>
      /\ busy' = busy \ {"receiving"}
  BY DEF Received, PreparedInv
<1>3. r.bufferSize \in Nat
  BY <1>1, <1>2, ObjectIs
<1>4. PICK bytes \in Strings(r.bufferSize) : heap' = [heap EXCEPT ![r.buffer] = bytes]
  BY DEF Received
<1>5. PICK n \in 0..r.bufferSize : payload' = [payload EXCEPT !["receiving"].dataSize = n]
  BY DEF Received
<1>6. bytes \in Seq(Byte) /\ Len(bytes) = r.bufferSize
  BY <1>3, <1>4, StringsAre
<1>7. n \in Nat /\ n <= Len(bytes)
  BY <1>3, <1>5, <1>6
<1>8. Changes("receiving")
  BY <1>1, <1>2, <1>4, <1>5, <1>6, <1>7, Writes
<1>9. Same({"sending"}, heap, payload, heap', payload')
  BY <1>1, <1>8 DEF Changes, Same
<1> QED
  BY <1>1, <1>2, <1>8, <1>9, StillSent DEF Packets

Prepares ==
    /\ Changes("receiving") /\ payload'["receiving"].buffer # NoBuffer
    /\ payload'["receiving"].dataSize = 0

(* UsbTransport prepares the packet that it reads into.                    *)
LEMMA PrepareStep ==
    ASSUME MemInv, SentInv, NEW max \in 1..MaxSize, prepareToReceive(max)
    PROVE  MemInv' /\ SentInv' /\ PreparedInv' /\ Contained
<1>1. /\ "receiving" \in Objects /\ "sending" \in Objects \ {"receiving"}
      /\ max \in Nat /\ max > 0
  BY PacketAssumption DEF PacketAssumption, Objects, Packets
<1>2. /\ busy' = busy \cup {"receiving"} /\ engaged' = engaged \cup {"receiving"}
      /\ UNCHANGED <<message, sentAs>>
  BY DEF prepareToReceive
<1>3. Prepares
  <2>1. ASSUME NEW bytes \in Strings(max), "receiving" \notin engaged,
               Allocate("receiving", bytes, 0)
        PROVE  Prepares
    <3>1. bytes \in Seq(Byte) /\ 0 <= Len(bytes)
      BY <1>1, StringsAre
    <3> QED
      BY <1>1, <1>2, <2>1, <3>1, Allocates DEF Prepares
  <2>2. ASSUME NEW bytes \in Resized("receiving", max),
               Reallocate("receiving", bytes, 0)
        PROVE  Prepares
    <3>1. bytes \in Seq(Byte) /\ 0 <= Len(bytes)
      BY <1>1, ResizedIs
    <3> QED
      BY <1>1, <1>2, <2>2, <3>1, Reallocates DEF Prepares
  <2>3. ASSUME "receiving" \in engaged, max = payload["receiving"].bufferSize,
               payload' = [payload EXCEPT !["receiving"].dataSize = 0],
               UNCHANGED <<live, heap>>
        PROVE  Prepares
    <3>1. payload["receiving"].buffer # NoBuffer
      BY <1>1, <2>3, ObjectIs
    <3>2. UNCHANGED <<live, heap, engaged>> /\ 0 <= payload["receiving"].bufferSize
          /\ payload' = [payload EXCEPT !["receiving"].dataSize = 0]
      BY <1>1, <1>2, <2>3
    <3> QED
      BY <1>1, <3>1, <3>2, Resizes DEF Prepares
  <2> QED
    BY <2>1, <2>2, <2>3 DEF prepareToReceive
<1>4. Same({"sending"}, heap, payload, heap', payload')
  BY <1>1, <1>3 DEF Changes, Same, Prepares
<1>5. SentInv'
  BY <1>1, <1>2, <1>4, StillSent
<1> QED
  BY <1>3, <1>5 DEF Changes, Contained, PreparedInv, Prepares

(* What the transport does keeps the invariant.                            *)
LEMMA TransportStep ==
    ASSUME TypeOK, MemInv, SentInv, PreparedInv, OfTransport
    PROVE  MemInv' /\ SentInv' /\ PreparedInv' /\ Contained
<1>1. "sending" \in Objects /\ "receiving" \in Objects \ {"sending"}
  BY DEF Objects, Packets
<1>2. CASE SendFinished
  <2>1. Free("sending") /\ engaged' = engaged \ {"sending"} /\ sentAs' = <<>>
        /\ busy' = busy \ {"sending"}
    BY <1>2 DEF SendFinished
  <2>2. Changes("sending")
    BY <1>1, <2>1, Frees
  <2>3. payload'["receiving"] = payload["receiving"]
    BY <1>1, <2>2 DEF Changes, Same
  <2> QED
    BY <2>1, <2>2, <2>3, StillPrepared DEF Changes, Contained, SentInv
<1>3. CASE Received
  <2>1. Changes("receiving") /\ SentInv' /\ "receiving" \notin busy'
    BY <1>3, ReceivedStep DEF Received
  <2> QED
    BY <2>1 DEF Changes, Contained, PreparedInv
<1> QED
  BY <1>2, <1>3, PrepareStep DEF OfTransport

-----------------------------------------------------------------------------
(* The theorems.  Every step keeps the invariant and loses no buffer but   *)
(* by an assignment that moves.                                            *)
LEMMA TypeStep ==
    ASSUME TypeOK, MemInv, MemInv', SentInv, Next
    PROVE  TypeOK'
<1>1. /\ live' \subseteq Buffers /\ heap' \in [Buffers -> Seq(Byte)]
      /\ payload' \in [Objects -> APayload] /\ engaged' \subseteq Objects
  BY DEF MemInv, Memory
<1>2. /\ "sending" \in Objects /\ "receiving" \in Objects
      /\ \A o \in Locals : o \in Objects
  BY DEF Objects, Packets
<1>3. 0 \in 0..Modulus - 1 /\ NewMessage \in AMessage
  <2>1. 0 \in 0..Modulus - 1
    BY PacketAssumption DEF PacketAssumption
  <2> QED
    BY <2>1 DEF NewMessage, AMessage
<1>4. \A o \in Objects : /\ payload[o].dataSize \in Nat
                         /\ Bytes(o) \in Seq(Byte) /\ Len(Bytes(o)) \in Nat
                         /\ Checksum(Bytes(o)) \in 0..Modulus - 1
  BY ObjectIs, BytesAreSeq, ChecksumType DEF Sums
<1>5. message' \in AMessage
  <2>1. message \in AMessage
    BY DEF TypeOK
  <2>2. CASE message' = message \/ message' = NewMessage
    BY <1>3, <2>1, <2>2
  <2>3. CASE computeChecksum
    BY <1>2, <1>3, <1>4, <2>1, <2>3 DEF computeChecksum, CheckOf, AMessage
  <2>4. CASE updateMessageDataLength
    BY <1>2, <1>4, <2>1, <2>4 DEF updateMessageDataLength, AMessage
  <2>5. ASSUME NEW kind, NEW version, NEW s \in Locals, SendPayload(kind, version, s)
        PROVE  message' \in AMessage
    <3>1. Len(Bytes(s)) \in Nat /\ Checksum(Bytes(s)) \in 0..Modulus - 1
      BY <1>2, <1>4
    <3> QED
      BY <1>3, <2>5, <3>1 DEF SendPayload, MessageFor, AMessage
  <2>6. message' = message \/ message' = NewMessage \/ computeChecksum \/ updateMessageDataLength
        \/ \E version \in Versions, kind \in Kinds, s \in Locals : SendPayload(kind, version, s)
    <3>1. CASE \E o \in Locals : OfLocal(o)
      BY <3>1 DEF OfLocal, Construct, resizeBuffer, ConstructFromView, CopyConstruct,
                  MoveConstruct, CopyAssign, MoveAssign, Destroy, setDataSize, Store
    <3>2. CASE OfPacket
      BY <3>2 DEF OfPacket, movePayloadIn, copyPayloadIn, movePayloadOut, SendBuilt,
                  CopyConstruct, MoveConstruct, CopyAssign, MoveAssign
    <3>3. CASE OfAdbBase
      BY <3>3 DEF OfAdbBase, SendBare
    <3>4. CASE OfTransport
      BY <3>4 DEF OfTransport, SendFinished, Received, prepareToReceive
    <3> QED
      BY <3>1, <3>2, <3>3, <3>4 DEF Next
  <2> QED
    BY <2>2, <2>3, <2>4, <2>5, <2>6
<1>6. busy' \subseteq Packets /\ sentAs' \in [kind : Kinds, version : Versions] \cup {<<>>}
  <2>1. busy \subseteq Packets /\ sentAs \in [kind : Kinds, version : Versions] \cup {<<>>}
    BY DEF TypeOK
  <2>2. CASE \E o \in Locals : OfLocal(o)
    BY <2>1, <2>2 DEF OfLocal, Construct, resizeBuffer, ConstructFromView, CopyConstruct,
                MoveConstruct, CopyAssign, MoveAssign, Destroy, setDataSize, Store
  <2>3. CASE OfPacket
    BY <2>1, <2>3 DEF OfPacket, movePayloadIn, copyPayloadIn, movePayloadOut, SendBuilt, Packets,
                CopyConstruct, MoveConstruct, CopyAssign, MoveAssign, computeChecksum,
                updateMessageDataLength
  <2>4. CASE OfAdbBase
    <3>1. ASSUME NEW version \in Versions, NEW kind \in Kinds
          PROVE  [kind |-> kind, version |-> version] \in [kind : Kinds, version : Versions]
      OBVIOUS
    <3>2. "OKAY" \in Kinds
      BY DEF Kinds
    <3>3. /\ busy' = busy \cup {"sending"}
          /\ \E version \in Versions, kind \in Kinds :
                 sentAs' = [kind |-> kind, version |-> version]
      BY <2>4, <3>2 DEF OfAdbBase, SendBare, SendPayload
    <3>4. busy' \subseteq Packets
      BY <2>1, <3>3 DEF Packets
    <3> QED
      BY <3>1, <3>3, <3>4
  <2>5. CASE OfTransport
    BY <2>1, <2>5 DEF OfTransport, SendFinished, Received, prepareToReceive, Packets
  <2> QED
    BY <2>2, <2>3, <2>4, <2>5 DEF Next
<1> QED
  BY <1>1, <1>5, <1>6 DEF TypeOK

(* So does every step, and it leaks by a move only.                        *)
LEMMA PackStep ==
    ASSUME ~Shrinks, PackInv, Next
    PROVE  PackInv' /\ Contained
<1>1. TypeOK /\ MemInv /\ SentInv /\ PreparedInv
  BY DEF PackInv
<1>2. MemInv' /\ SentInv' /\ PreparedInv' /\ Contained
  <2>1. CASE \E o \in Locals : OfLocal(o)
    BY <1>1, <2>1, LocalStep, QuietKeeps
  <2> QED
    BY <1>1, <2>1, PacketStep, BaseStep, TransportStep DEF Next
<1>3. TypeOK'
  BY <1>1, <1>2, TypeStep
<1> QED
  BY <1>2, <1>3 DEF PackInv

(* The invariant holds at first.                                           *)
LEMMA PackFirst == Init => PackInv
<1> SUFFICES ASSUME Init PROVE PackInv
  OBVIOUS
<1>1. Emptied \in APayload /\ NewMessage \in AMessage /\ <<>> \in Seq(Byte)
  <2>1. 0 \in 0..Modulus - 1
    BY PacketAssumption DEF PacketAssumption
  <2>2. <<>> \in Seq(Byte)
    OBVIOUS
  <2> QED
    BY <2>1, <2>2 DEF Emptied, APayload, NewMessage, AMessage
<1>2. TypeOK
  BY <1>1 DEF Init, TypeOK
<1>3. \A o \in Objects : payload[o] = Emptied
  BY DEF Init
<1>4. MemInv
  BY <1>2, <1>3 DEF TypeOK, MemInv, Memory, Sound, Emptied
<1> QED
  BY <1>2, <1>4 DEF PackInv, SentInv, PreparedInv, Init

(* It holds at all times, if no caller shrinks a buffer below its data.    *)
LEMMA PackInvHolds == ~Shrinks /\ Spec => []PackInv
<1>1. ~Shrinks /\ PackInv /\ [Next]_vars => PackInv'
  <2>1. PackInv /\ UNCHANGED vars => PackInv'
    BY DEF PackInv, TypeOK, MemInv, SentInv, PreparedInv, Bytes, Data, vars, memory
  <2> QED
    BY <2>1, PackStep
<1>2. CASE Shrinks
  BY <1>2
<1>3. CASE ~Shrinks
  <2>1. PackInv /\ [Next]_vars => PackInv'
    BY <1>1, <1>3
  <2> QED
    BY <2>1, PackFirst, PTL DEF Spec
<1> QED
  BY <1>2, <1>3

(* The fields keep their types.                                            *)
THEOREM Typing == ~Shrinks /\ Spec => []TypeOK
<1>1. PackInv => TypeOK
  BY DEF PackInv
<1> QED
  BY <1>1, PackInvHolds, PTL

(* Every buffer belongs to one object, which knows its size, and the data  *)
(* do not exceed it (APayload.cpp, APacket.cpp), as long as no caller      *)
(* shrinks a buffer below its data.                                        *)
THEOREM BuffersAreOwned == ~Shrinks /\ Spec => []Ownership
<1>1. PackInv => Ownership
  BY DEF PackInv, MemInv, Memory, Sound, Ownership, DataFits
<1> QED
  BY <1>1, PackInvHolds, PTL

(* Nothing but a move over an object that has a buffer leaks one           *)
(* (APayload.cpp: operator=(APayload&&)).                                  *)
THEOREM OnlyMovesLeak == ~Shrinks /\ Spec => LostByMoveOnly
<1> SUFFICES ASSUME ~Shrinks PROVE Spec => LostByMoveOnly
  OBVIOUS
<1>1. PackInv /\ [Next]_vars =>
          [Lost' \subseteq Lost \/ \E o, s \in Objects : MoveAssign(o, s)]_vars
  BY PackStep DEF Contained
<1> QED
  BY <1>1, PackInvHolds, PTL DEF Spec, LostByMoveOnly

(* A peer of the same version is one of the same version or a newer one.   *)
LEMMA VersionsOrdered == \A version \in Versions : version >= version
<1>1. \A n \in Nat : n >= n
  OBVIOUS
<1> QED
  BY <1>1, PacketAssumption DEF PacketAssumption

(* What AdbBase sends passes checkPacketValidity at a peer of the same     *)
(* version or a newer one, CNXN and AUTH at any (AdbBase.cpp:41-160).      *)
THEOREM SentPassesCheck == ~Shrinks /\ Spec => []SentIsValid
<1>1. PackInv => SentIsValid
  <2> SUFFICES ASSUME PackInv, sentAs # <<>>, NEW version \in Versions,
                      version >= sentAs.version \/ sentAs.kind \in {"CNXN", "AUTH"},
                      NEW hasPayload \in {TRUE, "sending" \in engaged}
               PROVE  checkPacketValidity(message, hasPayload, Bytes("sending"), version)
    BY DEF SentIsValid
  <2>1. TypeOK /\ MemInv /\ SentInv
    BY DEF PackInv
  <2>2. version < SkipChecksum => Checksum(Bytes("sending")) = message.dataCheck
    BY <2>1, SentPasses
  <2>3. message.dataLength = Len(Bytes("sending"))
        /\ ("sending" \notin engaged => message.dataLength = 0 /\ message.dataCheck = 0)
    BY <2>1, SentIs DEF NewMessage
  <2>4. CASE hasPayload
    BY <2>2, <2>3, <2>4 DEF checkPacketValidity
  <2>5. CASE ~hasPayload
    <3>1. "sending" \notin engaged
      BY <2>5
    <3> QED
      BY <2>3, <2>5, <3>1 DEF checkPacketValidity
  <2> QED
    BY <2>4, <2>5
<1> QED
  BY <1>1, PackInvHolds, PTL

(* Where checksums are sent, another byte at any one place of the payload  *)
(* is noticed (AdbBase.cpp, APacket.cpp: computeChecksum).                 *)
THEOREM ChangedByteIsNoticed == ~Shrinks /\ Spec => []ChangeIsNoticed
<1>1. PackInv => ChangeIsNoticed
  <2> SUFFICES ASSUME PackInv, sentAs # <<>>, sentAs.version < SkipChecksum,
                      NEW i \in DOMAIN Bytes("sending"),
                      NEW byte \in Byte \ {Bytes("sending")[i]}
               PROVE  ~checkPacketValidity(message, TRUE, [Bytes("sending") EXCEPT ![i] = byte],
                                           sentAs.version)
    BY DEF ChangeIsNoticed
  <2>1. TypeOK /\ MemInv /\ SentInv
    BY DEF PackInv
  <2>2. Bytes("sending") \in Seq(Byte) /\ sentAs.version \in Versions
    BY <2>1, SentIs
  <2>3. Checksum([Bytes("sending") EXCEPT ![i] = byte]) # Checksum(Bytes("sending"))
    BY <2>2, ChecksumChanges
  <2>4. sentAs.version >= sentAs.version
    BY <2>2, VersionsOrdered
  <2>5. Checksum(Bytes("sending")) = message.dataCheck
    BY <2>1, <2>2, <2>4, SentPasses
  <2> QED
    BY <2>3, <2>5 DEF checkPacketValidity
<1> QED
  BY <1>1, PackInvHolds, PTL
==============================================================================
