-------------------------- MODULE DiskClonerProofs --------------------------
(***************************************************************************)
(* Proofs about DiskCloner, for any disks, configurations and bounds.      *)
(***************************************************************************)
EXTENDS DiskCloner, WellFoundedInduction, TLAPS

Locks == config \in Configs /\ LocksInOrder /\ LocksHeld

(***************************************************************************)
(* Two sequences of the same length with the same elements are equal: a    *)
(* loop that has locked the first Len(letters) volumes has locked all.     *)
(***************************************************************************)
LEMMA AllLocked ==
  ASSUME NEW s \in Seq(STRING), NEW t \in Seq(STRING),
         Len(s) = Len(t), \A i \in 1..Len(s) : s[i] = t[i]
  PROVE  s = t
  OBVIOUS

(* Locking the next volume keeps the order.                                *)
LEMMA LockNext ==
  ASSUME Locks, lockDestinationVolumes
  PROVE  Locks'
<1>1. config \in Configs /\ config' = config /\ config.letters \in Seq(STRING)
  BY ConfigsAssumption DEF Locks, lockDestinationVolumes
<1>2. /\ pc = "lock"
      /\ locked \in Seq(STRING)
      /\ Len(locked) <= Len(config.letters)
      /\ \A i \in 1..Len(locked) : locked[i] = config.letters[i]
  BY DEF Locks, LocksInOrder, lockDestinationVolumes
<1>3. CASE /\ Len(locked) < Len(config.letters)
           /\ locked' = Append(locked, config.letters[Len(locked) + 1])
           /\ UNCHANGED <<pc, result>>
  <2>1. config.letters[Len(locked) + 1] \in STRING
    BY <1>1, <1>2, <1>3
  <2>2. /\ locked' \in Seq(STRING)
        /\ Len(locked') = Len(locked) + 1
        /\ \A i \in 1..Len(locked') : locked'[i] = config.letters[i]
    BY <1>1, <1>2, <1>3, <2>1
  <2>3. Len(locked') <= Len(config.letters)
    BY <1>1, <1>2, <1>3, <2>2
  <2> QED BY <1>1, <1>2, <1>3, <2>2, <2>3 DEF Locks, LocksInOrder, LocksHeld
<1>4. CASE locked' = <<>> /\ Return("error")
  BY <1>1, <1>4 DEF Locks, LocksInOrder, LocksHeld, Return
<1>5. CASE Len(locked) = Len(config.letters) /\ pc' = "mode" /\ UNCHANGED <<locked, result>>
  <2>1. locked = config.letters
    BY <1>1, <1>2, <1>5, AllLocked
  <2> QED BY <1>1, <1>5, <2>1 DEF Locks, LocksInOrder, LocksHeld
<1> QED BY <1>3, <1>4, <1>5 DEF lockDestinationVolumes

(* No other step locks anything; the last one gives all locks back.        *)
LEMMA LocksStep ==
  ASSUME Locks, [CNext]_vars
  PROVE  Locks'
<1> USE DEF Locks, LocksInOrder, LocksHeld
<1>1. CASE clone
  BY <1>1 DEF clone, Return
<1>2. CASE lockDestinationVolumes
  BY <1>2, LockNext
<1>3. CASE ChooseMode
  BY <1>3 DEF ChooseMode, Leave
<1>4. CASE Canceled
  BY <1>4 DEF Canceled, Leave
<1>5. CASE RawRead
  BY <1>5 DEF RawRead, Read, Leave
<1>6. CASE RawWrite
  BY <1>6 DEF RawWrite, Write, WriteFails, Report, Leave
<1>7. CASE SmartZero
  BY <1>7 DEF SmartZero, Write, WriteFails, Leave
<1>8. CASE SmartRead
  BY <1>8 DEF SmartRead, Read, Leave
<1>9. CASE SmartWrite
  BY <1>9 DEF SmartWrite, Write, WriteFails, Report, Leave
<1>10. CASE CopyDone
  BY <1>10 DEF CopyDone
<1>11. CASE Flush
  BY <1>11 DEF Flush, Leave
<1>12. CASE verifyClone
  BY <1>12 DEF verifyClone, Report, Leave
<1>13. CASE VerifyDone
  BY <1>13 DEF VerifyDone, Leave
<1>14. CASE unlockVolumes
  BY <1>14 DEF unlockVolumes
<1>15. CASE requestCancel
  BY <1>15 DEF requestCancel, job
<1>16. CASE \E c \in SrcBytes : SourceWrite(c)
  BY <1>16 DEF SourceWrite, job
<1>17. CASE UNCHANGED vars
  BY <1>17 DEF vars, job
<1> QED BY <1>1, <1>2, <1>3, <1>4, <1>5, <1>6, <1>7, <1>8, <1>9, <1>10, <1>11, <1>12,
           <1>13, <1>14, <1>15, <1>16, <1>17 DEF CNext, Step

(***************************************************************************)
(* clone() holds every lock it was asked for whenever it may write to the  *)
(* destination, and has given all of them back when it returns, for any    *)
(* number of volumes and whichever of its exits it takes.                  *)
(***************************************************************************)
THEOREM LocksAreHeld == CSpec => []LocksHeld
<1>1. CInit => Locks
  BY DEF CInit, Locks, LocksInOrder, LocksHeld
<1>2. Locks /\ [CNext]_vars => Locks'
  BY LocksStep
<1>3. Locks => LocksHeld
  BY DEF Locks
<1> QED BY <1>1, <1>2, <1>3, PTL DEF CSpec

-----------------------------------------------------------------------------
(* Multiples: what rounding to sectors needs.                              *)
Multiple(n, m) == \E k \in Nat : n = k * m

(* Division undoes multiplication.                                         *)
LEMMA DivMultiple ==
  ASSUME NEW k \in Nat, NEW s \in Nat \ {0}
  PROVE  (k * s) \div s = k
<1> DEFINE q == (k * s) \div s
<1>1. q \in Nat /\ q * s <= k * s /\ k * s < (q + 1) * s
  OBVIOUS
<1>2. CASE q < k
  <2>1. q + 1 <= k
    BY <1>1, <1>2
  <2>2. (q + 1) * s <= k * s
    BY <2>1, <1>1
  <2> QED BY <2>2, <1>1
<1>3. CASE q > k
  <2>1. q >= k + 1
    BY <1>1, <1>3
  <2>2. q * s >= (k + 1) * s
    BY <2>1, <1>1
  <2>3. (k + 1) * s = k * s + s
    OBVIOUS
  <2> QED BY <2>2, <2>3, <1>1
<1> QED BY <1>1, <1>2, <1>3

(* A number whose remainder is 0 is a multiple, and the other way round.   *)
LEMMA ModMultiple ==
  ASSUME NEW a \in Nat, NEW m \in Nat \ {0}
  PROVE  a % m = 0 <=> Multiple(a, m)
<1>1. a = ((a \div m) * m) + (a % m)
  OBVIOUS
<1>2. a \div m \in Nat
  OBVIOUS
<1>3. ASSUME a % m = 0 PROVE Multiple(a, m)
  <2>1. a = (a \div m) * m
    BY <1>1, <1>2, <1>3
  <2> QED BY <1>2, <2>1 DEF Multiple
<1>4. ASSUME Multiple(a, m) PROVE a % m = 0
  <2>1. PICK k \in Nat : a = k * m
    BY <1>4 DEF Multiple
  <2>2. a \div m = k
    BY <2>1, DivMultiple
  <2>3. a % m \in Nat
    OBVIOUS
  <2> QED BY <1>1, <2>1, <2>2, <2>3
<1> QED BY <1>3, <1>4

(* Zero leaves no remainder.                                               *)
LEMMA ModZero ==
  ASSUME NEW m \in Nat \ {0}
  PROVE  0 % m = 0
<1>1. 0 = 0 * m
  OBVIOUS
<1>2. Multiple(0, m)
  BY <1>1 DEF Multiple
<1> QED BY <1>2, ModMultiple

(* The sum of two multiples is one.                                        *)
LEMMA SumAligned ==
  ASSUME NEW a \in Nat, NEW b \in Nat, NEW m \in Nat \ {0}, a % m = 0, b % m = 0
  PROVE  (a + b) % m = 0
<1>1. PICK j \in Nat : a = j * m
  BY ModMultiple DEF Multiple
<1>2. PICK k \in Nat : b = k * m
  BY ModMultiple DEF Multiple
<1>3. a + b = (j + k) * m
  BY <1>1, <1>2
<1>4. j + k \in Nat
  OBVIOUS
<1>5. Multiple(a + b, m)
  BY <1>3, <1>4 DEF Multiple
<1> QED BY <1>5, ModMultiple

(* Rounding down gives a multiple.                                         *)
LEMMA RoundDownAligned ==
  ASSUME NEW a \in Nat, NEW m \in Nat \ {0}
  PROVE  RoundDown(a, m) \in Nat /\ RoundDown(a, m) % m = 0
<1>1. a \div m \in Nat
  OBVIOUS
<1>2. RoundDown(a, m) = (a \div m) * m
  BY DEF RoundDown
<1>3. (a \div m) * m \in Nat
  BY <1>1
<1>4. Multiple(RoundDown(a, m), m)
  BY <1>1, <1>2 DEF Multiple
<1> QED BY <1>2, <1>3, <1>4, ModMultiple

(* Rounding a multiple of the larger sector size to the smaller one leaves *)
(* it alone.                                                               *)
LEMMA RoundDownExact ==
  ASSUME NEW a \in Nat, NEW m \in Nat \ {0}, NEW s \in Nat \ {0}, a % m = 0, m % s = 0
  PROVE  RoundDown(a, s) = a
<1>1. PICK j \in Nat : a = j * m
  BY ModMultiple DEF Multiple
<1>2. PICK k \in Nat : m = k * s
  BY ModMultiple DEF Multiple
<1>3. a = (j * k) * s
  BY <1>1, <1>2
<1>4. j * k \in Nat
  OBVIOUS
<1>5. ((j * k) * s) \div s = j * k
  BY <1>4, DivMultiple
<1> QED BY <1>3, <1>5 DEF RoundDown

(* Rounding up covers what is rounded.                                     *)
LEMMA RoundUpCovers ==
  ASSUME NEW n \in Nat, NEW s \in Nat \ {0}
  PROVE  RoundUp(n, s) \in Nat /\ RoundUp(n, s) >= n
<1> DEFINE q == (n + s - 1) \div s
<1>1. n + s - 1 \in Nat
  OBVIOUS
<1>2. q \in Nat /\ n + s - 1 < (q + 1) * s
  BY <1>1
<1>3. (q + 1) * s = q * s + s /\ q * s \in Nat
  BY <1>2
<1>4. q * s >= n
  BY <1>2, <1>3
<1>5. RoundUp(n, s) = q * s
  BY DEF RoundUp, RoundDown
<1> QED BY <1>3, <1>4, <1>5

-----------------------------------------------------------------------------
(* The types of the numbers a chunk is computed from.                      *)
LEMMA ConfigNumbers ==
  ASSUME config \in Configs
  PROVE  /\ config.srcOffset \in Nat /\ config.dstOffset \in Nat
         /\ config.srcSector \in Nat \ {0} /\ config.dstSector \in Nat \ {0}
         /\ MaxSector \in Nat \ {0}
         /\ MaxSector % config.srcSector = 0 /\ MaxSector % config.dstSector = 0
         /\ AlignedBufSize \in Nat /\ AlignedBufSize % MaxSector = 0
<1>1. /\ config.srcOffset \in Nat /\ config.dstOffset \in Nat
      /\ config.bufferSize \in Nat
      /\ config.srcSector \in Nat \ {0} /\ config.dstSector \in Nat \ {0}
  BY ConfigsAssumption
<1>2. MaxSector % config.srcSector = 0 /\ MaxSector % config.dstSector = 0
  BY ConfigsAssumption DEF MaxSector
<1>3. MaxSector \in Nat \ {0}
  BY <1>1 DEF MaxSector, Max2
<1>4. AlignedBufSize \in Nat /\ AlignedBufSize % MaxSector = 0
  BY <1>1, <1>3, RoundDownAligned DEF AlignedBufSize
<1> QED BY <1>1, <1>2, <1>3, <1>4

(* While there is something left to compare, the chunk is read from where  *)
(* the clone has got to, on both sides, and the next one starts at a       *)
(* sector, or there is none.                                               *)
LEMMA ChunkInPlace ==
  ASSUME config \in Configs, OffsetsAligned, length \in Nat, done \in Nat,
         done < length, done % MaxSector = 0
  PROVE  /\ SrcFrom = config.srcOffset + done
         /\ DstFrom = config.dstOffset + done
         /\ Chunk \in Nat
         /\ done + Chunk < length => (done + Chunk) % MaxSector = 0
<1> USE ConfigNumbers
<1>1. (config.srcOffset + done) % MaxSector = 0 /\ (config.dstOffset + done) % MaxSector = 0
  BY SumAligned DEF OffsetsAligned
<1>2. SrcFrom = config.srcOffset + done /\ DstFrom = config.dstOffset + done
  <2> DEFINE a == config.srcOffset + done
             b == config.dstOffset + done
  <2>0. a \in Nat /\ b \in Nat
    OBVIOUS
  <2> HIDE DEF a, b
  <2>1. RoundDown(a, config.srcSector) = a
    BY <1>1, <2>0, RoundDownExact DEF a
  <2>2. RoundDown(b, config.dstSector) = b
    BY <1>1, <2>0, RoundDownExact DEF b
  <2> QED BY <2>1, <2>2 DEF SrcFrom, DstFrom, a, b
<1>3. Chunk \in Nat
  BY DEF Chunk, Min2
<1>4. ASSUME done + Chunk < length PROVE (done + Chunk) % MaxSector = 0
  <2>1. Chunk = AlignedBufSize
    BY <1>4 DEF Chunk, Min2
  <2> QED BY <2>1, SumAligned
<1> QED BY <1>2, <1>3, <1>4

(* A chunk that compares equal extends what has been compared.             *)
LEMMA CompareStep ==
  ASSUME VInv, verifyClone
  PROVE  VInv'
<1> USE DEF VInv
<1>0. /\ pc = "verify" /\ done < length /\ done \in Nat /\ done % MaxSector = 0
      /\ OffsetsAligned
      /\ UNCHANGED <<config, length, version, late, dst>>
  BY DEF verifyClone, ComparedSoFar, env
<1>1. OffsetsAligned'
  BY <1>0 DEF OffsetsAligned, MaxSector
<1>2. CASE Leave("error") \/ Leave("mismatch")
  BY <1>0, <1>1, <1>2 DEF Leave, ComparedSoFar
<1>3. CASE Readable /\ Same /\ done' = done + Chunk /\ Report("verify")
  <2>1. CASE Leave("canceled")
    BY <1>0, <1>1, <2>1 DEF Leave, ComparedSoFar
  <2>2. CASE pc' = "verify" /\ UNCHANGED result
    <3>1. /\ SrcFrom = config.srcOffset + done
          /\ DstFrom = config.dstOffset + done
          /\ Chunk \in Nat
          /\ done + Chunk < length => (done + Chunk) % MaxSector = 0
      BY <1>0, ChunkInPlace
    <3>2. done' \in Nat /\ (done' < length' => (done % MaxSector = 0)')
      <4>1. MaxSector' = MaxSector
        BY <1>0 DEF MaxSector
      <4>2. done' = done + Chunk /\ length' = length
        BY <1>0, <1>3
      <4> QED BY <1>0, <3>1, <4>1, <4>2
    <3>3. ASSUME NEW i \in InRange, i < done' PROVE Agrees(i)
      <4>0. i \in Nat /\ i < length
        BY DEF InRange
      <4>1. CASE i < done
        BY <1>0, <4>1 DEF ComparedSoFar
      <4>2. CASE i >= done
        <5>1. i - done \in 0..(Chunk - 1)
          BY <1>0, <1>3, <3>1, <3>3, <4>0, <4>2
        <5>2. dst[DstFrom + (i - done)] = Src(SrcFrom + (i - done))
          BY <1>3, <5>1 DEF Same
        <5>3. SrcFrom + (i - done) = config.srcOffset + i /\ DstFrom + (i - done) = config.dstOffset + i
          BY <1>0, <3>1, <4>0, ConfigNumbers
        <5>4. dst[config.dstOffset + i] = Src(config.srcOffset + i)
          BY <5>2, <5>3
        <5>5. RoundUp(Chunk, config.srcSector) >= Chunk
          BY <3>1, ConfigNumbers, RoundUpCovers
        <5>6. config.srcOffset + done + Chunk <= SrcTotal
          <6>1. config.srcOffset + done + RoundUp(Chunk, config.srcSector) <= SrcTotal
            BY <1>3, <3>1 DEF Readable
          <6>2. RoundUp(Chunk, config.srcSector) \in Nat
            BY <3>1, ConfigNumbers, RoundUpCovers
          <6> QED BY <1>0, <3>1, <5>5, <6>1, <6>2, ConfigNumbers, SizesAssumption
        <5>7. config.srcOffset + i \in SrcBytes
          <6>1. i < done + Chunk
            BY <1>3, <3>3
          <6>2. config.srcOffset \in Nat /\ SrcTotal \in Nat
            BY ConfigNumbers, SizesAssumption
          <6>3. config.srcOffset + i \in Nat /\ config.srcOffset + i < SrcTotal
            BY <1>0, <3>1, <4>0, <5>6, <6>1, <6>2
          <6> QED BY <6>2, <6>3 DEF SrcBytes
        <5> QED BY <5>4, <5>7 DEF Agrees
      <4> QED BY <1>0, <4>0, <4>1, <4>2
    <3>4. \A i \in InRange : Agrees(i) <=> Agrees(i)'
      BY <1>0 DEF Agrees, Src, SrcAt, ClusterOf
    <3>5. InRange' = InRange
      BY <1>0 DEF InRange
    <3>6. ComparedSoFar'
      <4>1. \A i \in InRange' : i < done' => Agrees(i)'
        BY <3>3, <3>4, <3>5
      <4> QED BY <3>2, <4>1 DEF ComparedSoFar
    <3> QED BY <1>0, <1>1, <2>2, <3>6
  <2> QED BY <1>3, <2>1, <2>2 DEF Report
<1> QED BY <1>2, <1>3 DEF verifyClone

(* Steps that neither compare nor report a verified success.               *)
LEMMA QuietStep ==
  ASSUME VInv, UNCHANGED <<config, length, env>>,
         pc \notin {"start", "returned"}, pc' \notin {"start", "verify"},
         pc' \in {"unlock", "returned"} => result' # "ok" \/ ~config.verify
  PROVE  VInv'
<1>1. OffsetsAligned'
  BY DEF VInv, OffsetsAligned, MaxSector
<1> QED BY <1>1 DEF VInv, ComparedSoFar, env

(* A write to the source: a byte compared before becomes late.             *)
LEMMA SourceWriteStep ==
  ASSUME VInv, NEW c \in SrcBytes, SourceWrite(c)
  PROVE  VInv'
<1>1. /\ UNCHANGED <<config, pc, length, done, result, dst>>
      /\ pc \notin {"start", "unlock", "returned"}
      /\ version' = [version EXCEPT ![c] = 1]
      /\ late \subseteq late'
  BY DEF SourceWrite, job
<1>2. version' \in [SrcBytes -> Nat]
  BY <1>1 DEF VInv
<1>3. OffsetsAligned'
  BY <1>1 DEF VInv, OffsetsAligned, MaxSector
<1>4. ComparedSoFar'
  <2> SUFFICES ASSUME pc = "verify" PROVE ComparedSoFar'
    BY <1>1 DEF ComparedSoFar
  <2>1. done \in Nat /\ (done < length => done % MaxSector = 0)
    BY DEF VInv, ComparedSoFar
  <2>2. ASSUME NEW i \in InRange, i < done PROVE Agrees(i)'
    <3>1. Agrees(i)
      BY <2>2 DEF VInv, ComparedSoFar
    <3>2. CASE config.srcOffset + i = c
      <4>1. i \in Nat /\ config.srcOffset \in Nat
        BY ConfigNumbers DEF InRange, VInv
      <4>2. Verified(c)
        BY <2>1, <2>2, <3>2, <4>1 DEF Verified
      <4>3. c \in late'
        BY <4>2 DEF SourceWrite
      <4> QED BY <1>1, <3>1, <3>2, <4>3 DEF Agrees
    <3>3. CASE config.srcOffset + i # c
      <4>1. version'[config.srcOffset + i] = version[config.srcOffset + i]
        BY <1>1, <3>1, <3>3 DEF VInv, Agrees
      <4> QED BY <1>1, <3>1, <4>1 DEF Agrees, Src, SrcAt, ClusterOf
    <3> QED BY <3>2, <3>3
  <2>3. InRange' = InRange /\ MaxSector' = MaxSector
    BY <1>1 DEF InRange, MaxSector
  <2> QED BY <1>1, <2>1, <2>2, <2>3 DEF ComparedSoFar
<1> QED BY <1>1, <1>2, <1>3, <1>4 DEF VInv

(* The checks at the beginning leave a length that is not negative.        *)
LEMMA CloneLengthNat ==
  ASSUME config \in Configs, ~Refused
  PROVE  CloneLength \in Nat
<1>1. config.srcOffset \in Nat /\ config.dstOffset \in Nat /\ config.length \in Nat
  BY ConfigsAssumption
<1>2. Requested \in Nat
  BY <1>1, SizesAssumption DEF Refused, Requested
<1>3. Wrap(DstTotal - config.dstOffset) \in Nat
  BY <1>1, SizesAssumption DEF Wrap
<1> QED BY <1>2, <1>3 DEF CloneLength

(* And an aligned range.                                                   *)
LEMMA CloneStep ==
  ASSUME VInv, clone
  PROVE  VInv'
<1>1. UNCHANGED <<config, version>>
  BY DEF clone, env
<1>2. CASE Return("error") /\ UNCHANGED length
  BY <1>1, <1>2 DEF VInv, ComparedSoFar, Return
<1>3. CASE ~Refused /\ length' = CloneLength /\ pc' = "lock" /\ UNCHANGED result
  <2>1. length' \in Nat
    BY <1>3, CloneLengthNat DEF VInv
  <2>2. OffsetsAligned'
    BY <1>1, <1>3 DEF Refused, OffsetsAligned, MaxSector
  <2> QED BY <1>1, <1>3, <2>1, <2>2 DEF VInv, ComparedSoFar
<1> QED BY <1>2, <1>3 DEF clone

(* Success is reported when there is nothing left to compare.              *)
LEMMA VerifyDoneStep ==
  ASSUME VInv, VerifyDone
  PROVE  VInv'
<1>1. /\ UNCHANGED <<config, length, done, version, late, dst>>
      /\ pc = "verify" /\ pc' = "unlock" /\ done >= length
  BY DEF VerifyDone, Leave, env
<1>2. \A i \in InRange : Agrees(i)
  <2> SUFFICES ASSUME NEW i \in InRange PROVE Agrees(i)
    OBVIOUS
  <2>1. done \in Nat /\ length \in Nat
    BY <1>1 DEF VInv, ComparedSoFar
  <2>2. i < done
    BY <1>1, <2>1 DEF InRange
  <2> QED BY <1>1, <2>2 DEF VInv, ComparedSoFar
<1>3. (\A i \in InRange : Agrees(i))'
  BY <1>1, <1>2 DEF InRange, Agrees, Src, SrcAt, ClusterOf
<1>4. OffsetsAligned'
  BY <1>1 DEF VInv, OffsetsAligned, MaxSector
<1> QED BY <1>1, <1>3, <1>4 DEF VInv, ComparedSoFar

(* Steps that change neither the disks nor what has been compared.         *)
LEMMA IdleStep ==
  ASSUME VInv, UNCHANGED <<config, length, done, result, version, late, dst>>,
         pc' = pc \/ (pc = "unlock" /\ pc' = "returned")
  PROVE  VInv'
<1>1. InRange' = InRange /\ (\A i \in InRange : Agrees(i)' <=> Agrees(i))
  BY DEF InRange, Agrees, Src, SrcAt, ClusterOf
<1>2. OffsetsAligned' <=> OffsetsAligned
  BY DEF OffsetsAligned, MaxSector
<1>3. ComparedSoFar'
  <2>1. MaxSector' = MaxSector
    BY DEF MaxSector
  <2> QED BY <1>1, <2>1 DEF VInv, ComparedSoFar
<1> QED BY <1>1, <1>2, <1>3 DEF VInv

(* Flushing the copy keeps the invariant, and leads to verification or out.*)
LEMMA FlushStep ==
  ASSUME VInv, Flush
  PROVE  VInv'
<1>1. UNCHANGED <<config, length, env>> /\ pc = "flush"
  BY DEF Flush
<1>2. CASE Leave("error") \/ (~config.verify /\ Leave("ok"))
  BY <1>1, <1>2, QuietStep DEF Leave
<1>3. CASE pc' = "verify" /\ done' = 0 /\ UNCHANGED result
  <2>1. OffsetsAligned'
    BY <1>1 DEF VInv, OffsetsAligned, MaxSector
  <2>2. MaxSector' \in Nat \ {0}
    BY <1>1, ConfigNumbers DEF VInv, MaxSector
  <2>3. 0 % MaxSector' = 0
    BY <2>2, ModZero
  <2>4. \A i \in InRange' : ~(i < 0)
    BY <1>1 DEF InRange, VInv
  <2> QED BY <1>1, <1>3, <2>1, <2>3, <2>4 DEF VInv, ComparedSoFar, env
<1> QED BY <1>2, <1>3 DEF Flush

(* Every step keeps the invariant of verification.                         *)
LEMMA VInvStep ==
  ASSUME VInv, [CNext]_vars
  PROVE  VInv'
<1>1. CASE clone
  BY <1>1, CloneStep
<1>2. CASE lockDestinationVolumes
  BY <1>2, QuietStep DEF lockDestinationVolumes, Return
<1>3. CASE ChooseMode
  BY <1>3, QuietStep DEF ChooseMode, Leave
<1>4. CASE Canceled
  BY <1>4, QuietStep DEF Canceled, Leave
<1>5. CASE RawRead
  BY <1>5, QuietStep DEF RawRead, Read, Leave
<1>6. CASE RawWrite
  BY <1>6, QuietStep DEF RawWrite, Write, WriteFails, Report, Leave
<1>7. CASE SmartZero
  BY <1>7, QuietStep DEF SmartZero, Write, WriteFails, Leave
<1>8. CASE SmartRead
  BY <1>8, QuietStep DEF SmartRead, Read, Leave
<1>9. CASE SmartWrite
  BY <1>9, QuietStep DEF SmartWrite, Write, WriteFails, Report, Leave
<1>10. CASE CopyDone
  BY <1>10, QuietStep DEF CopyDone
<1>11. CASE Flush
  BY <1>11, FlushStep
<1>12. CASE verifyClone
  BY <1>12, CompareStep
<1>13. CASE VerifyDone
  BY <1>13, VerifyDoneStep
<1>14. CASE unlockVolumes
  BY <1>14, IdleStep DEF unlockVolumes, env
<1>15. CASE requestCancel
  BY <1>15, IdleStep DEF requestCancel, job, env
<1>16. CASE \E c \in SrcBytes : SourceWrite(c)
  BY <1>16, SourceWriteStep
<1>17. CASE UNCHANGED vars
  BY <1>17, IdleStep DEF vars, job, env
<1> QED BY <1>1, <1>2, <1>3, <1>4, <1>5, <1>6, <1>7, <1>8, <1>9, <1>10, <1>11, <1>12,
           <1>13, <1>14, <1>15, <1>16, <1>17 DEF CNext, Step

(***************************************************************************)
(* A clone that was verified and succeeded is a copy of the source, except *)
(* for bytes rewritten there after they were compared: for disks of any    *)
(* size, any range, any buffer, sector sizes one of which divides the      *)
(* other, any number of short reads and any writes to the source.          *)
(***************************************************************************)
THEOREM VerifiedIsCopy == CSpec => []VerifiedMeansCopied
<1>1. CInit => VInv
  <2> SUFFICES ASSUME CInit PROVE VInv
    OBVIOUS
  <2> QED BY DEF CInit, VInv, ComparedSoFar
<1>2. VInv /\ [CNext]_vars => VInv'
  BY VInvStep
<1>3. VInv => VerifiedMeansCopied
  BY DEF VInv, VerifiedMeansCopied, Succeeded
<1> QED BY <1>1, <1>2, <1>3, PTL DEF CSpec

-----------------------------------------------------------------------------
(* Rounding a range outwards to sectors.                                   *)

(* A factor is smaller if the product is.                                  *)
LEMMA CancelFactor ==
  ASSUME NEW a \in Int, NEW b \in Int, NEW s \in Nat \ {0}, a * s < b * s
  PROVE  a < b
<1>1. ASSUME b <= a PROVE FALSE
  <2>1. b * s <= a * s
    BY <1>1
  <2> QED BY <2>1
<1> QED BY <1>1

(* Rounding up gives the least multiple that covers.                       *)
LEMMA RoundUpLeast ==
  ASSUME NEW n \in Nat, NEW s \in Nat \ {0}, NEW m \in Nat, n <= m * s
  PROVE  RoundUp(n, s) <= m * s
<1> DEFINE q == (n + s - 1) \div s
<1>1. n + s - 1 \in Nat
  OBVIOUS
<1>2. q \in Nat /\ q * s <= n + s - 1
  BY <1>1
<1>3. (m + 1) * s = m * s + s /\ m * s \in Nat /\ q * s \in Nat
  BY <1>2
<1>4. q * s < (m + 1) * s
  BY <1>2, <1>3
<1>5. q < m + 1
  BY <1>2, <1>4, CancelFactor
<1>6. q * s <= m * s
  BY <1>2, <1>5
<1>7. RoundUp(n, s) = q * s
  BY DEF RoundUp, RoundDown
<1> QED BY <1>6, <1>7

(* Rounding down stays behind a multiple that was behind.                  *)
LEMMA RoundDownAbove ==
  ASSUME NEW a \in Nat, NEW o \in Nat, NEW s \in Nat \ {0}, o % s = 0, o <= a
  PROVE  RoundDown(a, s) >= o /\ RoundDown(a, s) <= a
<1> DEFINE q == a \div s
<1>1. PICK k \in Nat : o = k * s
  BY ModMultiple DEF Multiple
<1>2. q \in Nat /\ q * s <= a /\ a < (q + 1) * s
  OBVIOUS
<1>3. k * s < (q + 1) * s
  BY <1>1, <1>2
<1>4. k < q + 1
  BY <1>2, <1>3, CancelFactor
<1>5. k * s <= q * s
  BY <1>2, <1>4
<1>6. RoundDown(a, s) = q * s
  BY DEF RoundDown
<1> QED BY <1>1, <1>2, <1>5, <1>6

(* A chunk inside the range, rounded to sectors, is inside the range       *)
(* rounded to sectors.                                                     *)
LEMMA ChunkInside ==
  ASSUME NEW a \in Nat, NEW l \in Nat, NEW e \in Nat, NEW s \in Nat \ {0}, a + l <= e
  PROVE  RoundDown(a, s) + RoundUp(l, s) <= RoundUp(e, s)
<1>0. 0 % s = 0
  BY ModZero
<1>1. RoundDown(a, s) \in Nat /\ RoundDown(a, s) <= a /\ RoundDown(a, s) % s = 0
  BY <1>0, RoundDownAligned, RoundDownAbove
<1>2. PICK p \in Nat : RoundDown(a, s) = p * s
  BY <1>1, ModMultiple DEF Multiple
<1>3. RoundUp(e, s) \in Nat /\ RoundUp(e, s) >= e
  BY RoundUpCovers
<1>4. PICK u \in Nat : RoundUp(e, s) = u * s
  <2>1. e + s - 1 \in Nat
    OBVIOUS
  <2>2. (e + s - 1) \div s \in Nat
    BY <2>1
  <2> QED BY <2>2 DEF RoundUp, RoundDown
<1>5. p * s + l <= u * s
  BY <1>1, <1>2, <1>3, <1>4
<1>6. p <= u
  <2>1. (u + 1) * s = u * s + s /\ u * s \in Nat /\ p * s \in Nat
    OBVIOUS
  <2>2. p * s < (u + 1) * s
    BY <1>5, <2>1
  <2>3. p < u + 1
    BY <2>2, CancelFactor
  <2> QED BY <2>3
<1>7. u - p \in Nat /\ (u - p) * s = u * s - p * s
  BY <1>6
<1>8. l <= (u - p) * s
  <2>1. u * s \in Nat /\ p * s \in Nat
    OBVIOUS
  <2> QED BY <1>5, <1>7, <2>1
<1>9. RoundUp(l, s) <= (u - p) * s /\ RoundUp(l, s) \in Nat
  BY <1>7, <1>8, RoundUpLeast, RoundUpCovers
<1>10. u * s \in Nat /\ p * s \in Nat
  OBVIOUS
<1> QED BY <1>2, <1>4, <1>7, <1>9, <1>10

-----------------------------------------------------------------------------
(* Runs of clusters.                                                       *)

(* A set of naturals that is not empty has a least member.                 *)
LEMMA Least ==
  ASSUME NEW S \in SUBSET Nat, S # {}
  PROVE  \E m \in S : \A n \in S : m <= n
<1> DEFINE R == {p \in Nat \X Nat : p[1] < p[2]}
<1>1. OpToRel(<, Nat) = R
  BY DEF OpToRel
<1>2. IsWellFoundedOn(R, Nat)
  BY <1>1, NatLessThanWellFounded
<1>3. PICK x \in S : \A y \in S : ~ (<<y, x>> \in R)
  BY <1>2, WFMin
<1>4. \A y \in S : ~(y < x)
  BY <1>3
<1> QED BY <1>4, x \in S

(* One that is bounded has a greatest: the least of its bounds.            *)
LEMMA Greatest ==
  ASSUME NEW S \in SUBSET Nat, NEW b \in Nat, \A n \in S : n <= b, S # {}
  PROVE  \E m \in S : \A n \in S : n <= m
<1> DEFINE U == {u \in Nat : \A n \in S : n <= u}
<1>1. U \in SUBSET Nat /\ U # {}
  BY DEF U
<1>2. PICK m \in U : \A n \in U : m <= n
  BY <1>1, Least
<1>3. CASE m \in S
  BY <1>2, <1>3 DEF U
<1>4. CASE m \notin S
  <2>1. \A n \in S : n \in Nat /\ n < m
    BY <1>2, <1>4 DEF U
  <2>2. m > 0
    <3>1. PICK n \in S : TRUE
      OBVIOUS
    <3> QED BY <2>1, <3>1, m \in Nat DEF U
  <2>3. m - 1 \in U
    BY <1>2, <2>1, <2>2 DEF U
  <2> QED BY <1>2, <2>3
<1> QED BY <1>3, <1>4

(* The clusters are inside the range, behind them at least a sector.       *)
LEMMA ClustersInside ==
  ASSUME config \in Configs, length \in Nat
  PROVE  TotalClusters \in Int /\ TotalClusters * BytesPerCluster <= length
<1> DEFINE n == length - config.srcSector
<1>1. n \in Int /\ n <= length /\ BytesPerCluster \in Nat \ {0}
  BY ConfigNumbers, SizesAssumption
<1>2. TotalClusters = n \div BytesPerCluster
  BY DEF TotalClusters
<1> HIDE DEF n
<1>3. n \div BytesPerCluster \in Int /\ (n \div BytesPerCluster) * BytesPerCluster <= n
  BY <1>1
<1>4. (n \div BytesPerCluster) * BytesPerCluster \in Int
  BY <1>1, <1>3
<1> QED BY <1>1, <1>2, <1>3, <1>4

(* A run ends inside the volume, inside a buffer, and where the allocation *)
(* changes.                                                                *)
LEMMA RunFacts ==
  ASSUME config \in Configs, length \in Nat, cluster \in Nat, cluster < TotalClusters, NEW used \in BOOLEAN
  PROVE  /\ Run(used) \in Nat /\ cluster + Run(used) <= TotalClusters
         /\ \A k \in 0..(Run(used) - 1) : (cluster + k \in bitmap) = used
<1> DEFINE ends == {r \in 0..ClustersPerChunk :
                      /\ cluster + r <= TotalClusters
                      /\ \A k \in 0..(r - 1) : (cluster + k \in bitmap) = used}
<1>1. ClustersPerChunk \in Nat
  BY ConfigNumbers, SizesAssumption DEF ClustersPerChunk
<1>2. TotalClusters \in Int
  BY ClustersInside
<1>3. 0 \in ends
  BY <1>1, <1>2
<1>4. ends \in SUBSET Nat /\ \A n \in ends : n <= ClustersPerChunk
  BY <1>1
<1>5. Run(used) = CHOOSE r \in ends : \A s \in ends : s <= r
  BY DEF Run
<1>6. \E r \in ends : \A s \in ends : s <= r
  <2> HIDE DEF ends
  <2> QED BY <1>1, <1>3, <1>4, Greatest
<1>7. Run(used) \in ends
  <2> HIDE DEF ends
  <2> QED BY <1>5, <1>6
<1> QED BY <1>1, <1>7

-----------------------------------------------------------------------------
(* Only the range is written.                                              *)

(* The numbers of a state.                                                 *)
LEMMA RangeNumbers ==
  ASSUME RangeInv
  PROVE  /\ config \in Configs /\ length \in Nat /\ done \in Nat /\ cluster \in Nat
         /\ config.dstOffset \in Nat /\ config.dstSector \in Nat \ {0} /\ config.srcSector \in Nat \ {0}
         /\ config.dstOffset + length \in Nat
  BY ConfigNumbers DEF RangeInv, CTypeOK

(* The offset is a whole number of the destination's sectors.              *)
LEMMA OffsetOnSector ==
  ASSUME config \in Configs, OffsetsAligned
  PROVE  config.dstOffset % config.dstSector = 0 /\ config.srcOffset % config.srcSector = 0
<1> USE ConfigNumbers DEF OffsetsAligned
<1>1. PICK k \in Nat : config.dstOffset = k * MaxSector
  BY ModMultiple DEF Multiple
<1>2. PICK l \in Nat : MaxSector = l * config.dstSector
  BY ModMultiple DEF Multiple
<1>3. config.dstOffset = (k * l) * config.dstSector /\ k * l \in Nat
  BY <1>1, <1>2
<1>4. config.dstOffset % config.dstSector = 0
  BY <1>3, ModMultiple DEF Multiple
<1>5. PICK m \in Nat : config.srcOffset = m * MaxSector
  BY ModMultiple DEF Multiple
<1>6. PICK n \in Nat : MaxSector = n * config.srcSector
  BY ModMultiple DEF Multiple
<1>7. config.srcOffset = (m * n) * config.srcSector /\ m * n \in Nat
  BY <1>5, <1>6
<1>8. config.srcOffset % config.srcSector = 0
  BY <1>7, ModMultiple DEF Multiple
<1> QED BY <1>4, <1>8

(* A write that begins and ends in the range touches nothing else.         *)
LEMMA WriteInside ==
  ASSUME RangeInv, UNCHANGED <<config, length>>, OffsetsAligned,
         NEW from \in Nat, NEW n, NEW data,
         from >= config.dstOffset, n \in Nat,
         RoundDown(from, config.dstSector) + n <= RoundUp(config.dstOffset + length, config.dstSector),
         \E k \in 0..n : dst' = Put(RoundDown(from, config.dstSector), k, data)
  PROVE  OnlyRangeWritten' /\ DOMAIN dst' = DstBytes
<1> DEFINE end == RoundUp(config.dstOffset + length, config.dstSector)
           at == RoundDown(from, config.dstSector)
<1>1. config \in Configs /\ config.dstOffset \in Nat /\ config.dstSector \in Nat \ {0}
      /\ config.dstOffset + length \in Nat
  BY RangeNumbers
<1>2. at \in Nat /\ at >= config.dstOffset
  BY <1>1, OffsetOnSector, RoundDownAbove, RoundDownAligned
<1>3. end \in Nat
  BY <1>1, RoundUpCovers
<1>4. at + n <= end
  OBVIOUS
<1>5. PICK k \in 0..n : dst' = Put(at, k, data)
  OBVIOUS
<1>6. end' = end /\ config' = config
  BY DEF RoundUp, RoundDown
<1>7. \A c \in DstBytes : dst[c] # Old => c >= config.dstOffset /\ c < end
  BY DEF RangeInv, OnlyRangeWritten
<1>8. \A c \in DstBytes : c \in Int
  BY SizesAssumption DEF DstBytes
<1>9. DOMAIN dst' = DstBytes
  BY <1>5 DEF Put
<1> HIDE DEF end, at
<1>10. \A c \in DstBytes : dst'[c] # Old => c >= config.dstOffset /\ c < end
  <2> TAKE c \in DstBytes
  <2>1. CASE c >= at /\ c < at + k
    BY <1>1, <1>2, <1>3, <1>4, <1>8, <2>1
  <2>2. CASE ~(c >= at /\ c < at + k)
    BY <1>5, <1>7, <2>2 DEF Put
  <2> QED BY <2>1, <2>2
<1>11. OnlyRangeWritten'
  BY <1>6, <1>10 DEF OnlyRangeWritten, DstBytes, Old, Byte, end
<1> QED BY <1>9, <1>11

(* Steps that do not write.                                                *)
LEMMA RangeQuiet ==
  ASSUME RangeInv, UNCHANGED <<config, length, dst>>, CTypeOK',
         pc # "start" \/ pc' \in {"start", "returned"},
         pc = "returned" => pc' = "returned", pc' = "start" => pc = "start",
         pc' = "rawWrite" => (done < length /\ Len(buf) \in Nat)',
         pc' = "smartWrite" => (cluster < TotalClusters /\ Len(buf) \in 0..(Run(TRUE) * BytesPerCluster))'
  PROVE  RangeInv'
<1>1. OffsetsAligned' <=> OffsetsAligned
  BY DEF OffsetsAligned, MaxSector
<1>2. OnlyRangeWritten'
  BY DEF RangeInv, OnlyRangeWritten, DstBytes, Old, Byte, RoundUp, RoundDown
<1>3. pc' = "start" => \A c \in DstBytes : dst'[c] = Old
  BY DEF RangeInv
<1> QED BY <1>1, <1>2, <1>3 DEF RangeInv

(* Steps that do.                                                          *)
LEMMA RangeWrites ==
  ASSUME RangeInv, UNCHANGED <<config, length>>, OffsetsAligned, CTypeOK', OnlyRangeWritten',
         pc' \notin {"start", "rawWrite", "smartWrite"}
  PROVE  RangeInv'
<1>1. OffsetsAligned'
  BY DEF OffsetsAligned, MaxSector
<1> QED BY <1>1 DEF RangeInv

(* What has been read is no longer than what was asked for.                *)
LEMMA ReadFacts ==
  ASSUME NEW at, NEW n \in Nat, NEW next, Read(at, n, next)
  PROVE  \/ pc' = "unlock" /\ result' = "error" /\ UNCHANGED shorts
         \/ /\ pc' = next /\ UNCHANGED result /\ Len(buf') \in 0..n
            /\ \/ UNCHANGED shorts
               \/ shorts < MaxShortReads /\ shorts' = shorts + 1
<1>1. \A k \in Nat : Len(ReadRange(at, k)) = k
  BY DEF ReadRange
<1>2. CASE Leave("error") /\ UNCHANGED <<buf, shorts>>
  BY <1>2 DEF Leave
<1>3. CASE buf' = ReadRange(at, n) /\ pc' = next /\ UNCHANGED <<result, shorts>>
  BY <1>1, <1>3
<1>4. CASE /\ shorts < MaxShortReads
           /\ \E k \in 0..(n - 1) : buf' = ReadRange(at, k)
           /\ shorts' = shorts + 1
           /\ pc' = next
           /\ UNCHANGED result
  <2>1. PICK k \in 0..(n - 1) : buf' = ReadRange(at, k)
    BY <1>4
  <2>2. Len(buf') = k
    BY <1>1, <2>1
  <2> QED BY <1>4, <2>1, <2>2
<1> QED BY <1>2, <1>3, <1>4 DEF Read

(* A read keeps the types.                                                 *)
LEMMA ReadType ==
  ASSUME CTypeOK, NEW at, NEW n \in Nat, NEW next \in {"rawWrite", "smartWrite"}, Read(at, n, next),
         UNCHANGED <<config, length, done, cluster, dst, env>>
  PROVE  CTypeOK'
<1>1. shorts' \in 0..MaxShortReads
  BY ReadFacts, BoundsAssumption DEF CTypeOK
<1>2. pc' \in {"unlock", "rawWrite", "smartWrite"} /\ result' \in {"error", result}
  BY ReadFacts
<1> QED BY <1>1, <1>2 DEF CTypeOK, env, SrcBytes, DstBytes

(* The chunk in hand.                                                      *)
LEMMA ChunkNat ==
  ASSUME config \in Configs, length \in Nat, done \in Nat, done < length
  PROVE  Chunk \in Nat /\ done + Chunk <= length
  BY ConfigNumbers DEF Chunk, Min2

(* The checks of clone() write nothing.                                    *)
LEMMA RangeClone ==
  ASSUME RangeInv, clone
  PROVE  RangeInv'
<1>1. /\ pc = "start" /\ UNCHANGED <<config, done, cluster, bitmap, buf, dst, late, shorts>>
      /\ config \in Configs /\ length \in Nat /\ \A c \in DstBytes : dst[c] = Old
  BY DEF clone, env, RangeInv, CTypeOK
<1>2. OnlyRangeWritten'
  BY <1>1 DEF OnlyRangeWritten, DstBytes, Old, Byte
<1>3. CASE Return("error") /\ UNCHANGED length
  BY <1>1, <1>2, <1>3 DEF Return, RangeInv, CTypeOK, DstBytes, SrcBytes
<1>4. CASE ~Refused /\ length' = CloneLength /\ pc' = "lock" /\ UNCHANGED result
  <2>1. length' \in Nat
    BY <1>1, <1>4, CloneLengthNat
  <2>2. OffsetsAligned'
    BY <1>1, <1>4 DEF Refused, OffsetsAligned, MaxSector
  <2> QED BY <1>1, <1>2, <1>4, <2>1, <2>2 DEF RangeInv, CTypeOK, DstBytes, SrcBytes
<1> QED BY <1>3, <1>4 DEF clone

(* A raw read leaves the disk alone and its chunk inside the range.        *)
LEMMA RangeRawRead ==
  ASSUME RangeInv, RawRead
  PROVE  RangeInv'
<1>1. /\ pc = "raw" /\ done < length /\ UNCHANGED <<config, length, done, cluster, bitmap, dst, env>>
      /\ config \in Configs /\ length \in Nat /\ done \in Nat
  BY RangeNumbers DEF RawRead
<1>2. PICK n \in Nat : n = RoundUp(Chunk, config.srcSector)
  BY <1>1, ChunkNat, ConfigNumbers, RoundUpCovers
<1>3. PICK at : Read(at, n, "rawWrite")
  BY <1>2 DEF RawRead
<1>4. CTypeOK'
  BY <1>1, <1>3, ReadType DEF RangeInv
<1>5. pc' = "unlock" \/ (pc' = "rawWrite" /\ Len(buf') \in Nat)
  BY <1>3, ReadFacts
<1> QED BY <1>1, <1>4, <1>5, RangeQuiet

(* A run of clusters, wherever it is written, stays in the range.          *)
LEMMA RunInside ==
  ASSUME config \in Configs, length \in Nat, cluster \in Nat, cluster < TotalClusters, NEW used \in BOOLEAN
  PROVE  /\ Run(used) * BytesPerCluster \in Nat /\ cluster * BytesPerCluster \in Nat
         /\ cluster * BytesPerCluster + Run(used) * BytesPerCluster <= length
<1>1. /\ Run(used) \in Nat /\ cluster + Run(used) <= TotalClusters
      /\ TotalClusters \in Int /\ TotalClusters * BytesPerCluster <= length /\ BytesPerCluster \in Nat \ {0}
  BY RunFacts, ClustersInside, SizesAssumption
<1>2. (cluster + Run(used)) * BytesPerCluster <= TotalClusters * BytesPerCluster
  BY <1>1
<1>3. (cluster + Run(used)) * BytesPerCluster = cluster * BytesPerCluster + Run(used) * BytesPerCluster
  BY <1>1
<1>4. Run(used) * BytesPerCluster \in Nat /\ cluster * BytesPerCluster \in Nat /\ TotalClusters * BytesPerCluster \in Int
  BY <1>1
<1> QED BY <1>1, <1>2, <1>3, <1>4

(* A smart read leaves the disk alone and its run inside the range.        *)
LEMMA RangeSmartRead ==
  ASSUME RangeInv, SmartRead
  PROVE  RangeInv'
<1>1. /\ pc = "smart" /\ cluster < TotalClusters
      /\ UNCHANGED <<config, length, done, cluster, bitmap, dst, env>>
      /\ config \in Configs /\ length \in Nat /\ cluster \in Nat
  BY RangeNumbers DEF SmartRead
<1>2. PICK m \in Nat : m = Run(TRUE) * BytesPerCluster
  BY <1>1, RunInside
<1>3. PICK n \in Nat : n = RoundDown(m, config.srcSector) /\ n <= m
  <2>1. 0 % config.srcSector = 0 /\ 0 <= m /\ config.srcSector \in Nat \ {0}
    BY <1>1, ConfigNumbers, ModZero
  <2> QED BY <2>1, RoundDownAligned, RoundDownAbove
<1>4. PICK at : Read(at, n, "smartWrite")
  BY <1>2, <1>3 DEF SmartRead
<1>5. CTypeOK'
  BY <1>1, <1>4, ReadType DEF RangeInv
<1>6. pc' = "unlock" \/ (pc' = "smartWrite" /\ Len(buf') \in 0..n)
  BY <1>4, ReadFacts
<1>7. TotalClusters' = TotalClusters /\ Run(TRUE)' = Run(TRUE)
  BY <1>1 DEF TotalClusters, Run, ClustersPerChunk, AlignedBufSize, MaxSector
<1>8. pc' = "smartWrite" => Len(buf') \in 0..m
  BY <1>3, <1>6
<1>9. pc' = "smartWrite" => (cluster < TotalClusters /\ Len(buf) \in 0..(Run(TRUE) * BytesPerCluster))'
  BY <1>1, <1>2, <1>7, <1>8
<1> QED BY <1>1, <1>5, <1>6, <1>9, RangeQuiet

(* Where a write ends.                                                     *)
LEMMA RangeRawWrite ==
  ASSUME RangeInv, RawWrite
  PROVE  RangeInv'
<1>1. /\ pc = "rawWrite" /\ done < length /\ Len(buf) \in Nat /\ OffsetsAligned
      /\ UNCHANGED <<config, length, cluster, late, shorts>> /\ done' = done + BytesToWrite
  BY DEF RawWrite, RangeInv, env
<1>2. /\ config \in Configs /\ length \in Nat /\ done \in Nat /\ config.dstOffset \in Nat
      /\ config.dstSector \in Nat \ {0}
  BY RangeNumbers
<1>3. BytesToWrite \in Nat /\ done + BytesToWrite <= length
  BY <1>1, <1>2, ChunkNat DEF BytesToWrite, Min2
<1>4. PICK n \in Nat : n = RoundUp(BytesToWrite, config.dstSector)
  BY <1>2, <1>3, RoundUpCovers
<1>5. PICK from \in Nat : from = config.dstOffset + done
  BY <1>2
<1>6. from >= config.dstOffset /\ from + BytesToWrite <= config.dstOffset + length
      /\ config.dstOffset + length \in Nat
  BY <1>2, <1>3, <1>5
<1>7. RoundDown(from, config.dstSector) + n <= RoundUp(config.dstOffset + length, config.dstSector)
  BY <1>2, <1>3, <1>4, <1>6, ChunkInside
<1>8. /\ \E k \in 0..n : dst' = Put(RoundDown(from, config.dstSector), k, Padded(n))
      /\ pc' \in {"raw", "unlock"} /\ result' \in {result, "error", "canceled"}
  <2>1. n \in 0..n
    OBVIOUS
  <2> QED BY <1>4, <1>5, <2>1 DEF RawWrite, Write, WriteFails, Report, Leave
<1>9. OnlyRangeWritten' /\ DOMAIN dst' = DstBytes
  BY <1>1, <1>6, <1>7, <1>8, WriteInside
<1>10. CTypeOK'
  BY <1>1, <1>2, <1>3, <1>8, <1>9 DEF RangeInv, CTypeOK, DstBytes, SrcBytes
<1> QED BY <1>1, <1>8, <1>9, <1>10, RangeWrites

(* Zeros for free clusters stay inside the range.                          *)
LEMMA RangeSmartZero ==
  ASSUME RangeInv, SmartZero
  PROVE  RangeInv'
<1>1. /\ pc = "smart" /\ cluster < TotalClusters /\ OffsetsAligned
      /\ UNCHANGED <<config, length, done, late, shorts>> /\ cluster' = cluster + Run(FALSE)
  BY DEF SmartZero, RangeInv, env
<1>2. /\ config \in Configs /\ length \in Nat /\ cluster \in Nat /\ config.dstOffset \in Nat
      /\ config.dstSector \in Nat \ {0}
  BY RangeNumbers
<1>3. PICK m \in Nat, p \in Nat : /\ m = Run(FALSE) * BytesPerCluster /\ p = cluster * BytesPerCluster
                                  /\ p + m <= length
  BY <1>1, <1>2, RunInside
<1>4. PICK n \in Nat : n = RoundDown(m, config.dstSector) /\ n <= m
  <2>1. 0 % config.dstSector = 0 /\ 0 <= m
    BY <1>2, ModZero
  <2> QED BY <1>2, <2>1, RoundDownAligned, RoundDownAbove
<1>5. PICK from \in Nat : from = config.dstOffset + p
  BY <1>2
<1>6. from >= config.dstOffset /\ from + m <= config.dstOffset + length /\ config.dstOffset + length \in Nat
  <2>1. p + m <= length
    BY <1>3
  <2> QED BY <1>2, <1>5, <2>1
<1>7. RoundDown(from, config.dstSector) + n <= RoundUp(config.dstOffset + length, config.dstSector)
  <2>1. RoundDown(from, config.dstSector) + RoundUp(m, config.dstSector)
          <= RoundUp(config.dstOffset + length, config.dstSector)
    BY <1>2, <1>6, ChunkInside
  <2>2. RoundUp(m, config.dstSector) >= m /\ RoundUp(m, config.dstSector) \in Nat
    BY <1>2, RoundUpCovers
  <2>3. RoundDown(from, config.dstSector) \in Nat /\ RoundUp(config.dstOffset + length, config.dstSector) \in Nat
    BY <1>2, <1>6, RoundDownAligned, RoundUpCovers
  <2> QED BY <1>4, <2>1, <2>2, <2>3
<1>8. /\ \E k \in 0..n : dst' = Put(RoundDown(from, config.dstSector), k, Zeros(n))
      /\ pc' \in {"smart", "unlock"} /\ result' \in {result, "error"}
  <2>1. n \in 0..n
    OBVIOUS
  <2> QED BY <1>1, <1>3, <1>4, <1>5, <2>1 DEF SmartZero, Write, WriteFails, Leave
<1>9. OnlyRangeWritten' /\ DOMAIN dst' = DstBytes
  BY <1>1, <1>6, <1>7, <1>8, WriteInside
<1>10. cluster' \in Nat
  <2>1. PICK q \in Nat : q = Run(FALSE)
    BY <1>1, <1>2, RunFacts
  <2>2. cluster' = cluster + q /\ cluster \in Nat
    BY <1>1, <1>2, <2>1
  <2> QED BY <2>2
<1>11. CTypeOK'
  BY <1>1, <1>2, <1>8, <1>9, <1>10 DEF RangeInv, CTypeOK, DstBytes, SrcBytes
<1> QED BY <1>1, <1>8, <1>9, <1>11, RangeWrites

(* A run of allocated clusters stays inside the range.                     *)
LEMMA RangeSmartWrite ==
  ASSUME RangeInv, SmartWrite
  PROVE  RangeInv'
<1>1. /\ pc = "smartWrite" /\ cluster < TotalClusters /\ OffsetsAligned
      /\ Len(buf) \in 0..(Run(TRUE) * BytesPerCluster)
      /\ UNCHANGED <<config, length, done, late, shorts>> /\ cluster' = cluster + Run(TRUE)
  BY DEF SmartWrite, RangeInv, env
<1>2. /\ config \in Configs /\ length \in Nat /\ cluster \in Nat /\ config.dstOffset \in Nat
      /\ config.dstSector \in Nat \ {0}
  BY RangeNumbers
<1>3. PICK m \in Nat, p \in Nat : /\ m = Run(TRUE) * BytesPerCluster /\ p = cluster * BytesPerCluster
                                  /\ p + m <= length
  BY <1>1, <1>2, RunInside
<1>4. PICK l \in Nat : l = Len(buf) /\ l <= m
  <2>1. Len(buf) \in 0..m
    BY <1>1, <1>3
  <2> QED BY <2>1
<1>5. PICK n \in Nat : n = RoundUp(l, config.dstSector)
  BY <1>2, RoundUpCovers
<1>6. PICK from \in Nat : from = config.dstOffset + p
  BY <1>2
<1>7. from >= config.dstOffset /\ from + l <= config.dstOffset + length /\ config.dstOffset + length \in Nat
  <2>1. p + m <= length /\ l <= m
    BY <1>3, <1>4
  <2> QED BY <1>2, <1>6, <2>1
<1>8. RoundDown(from, config.dstSector) + n <= RoundUp(config.dstOffset + length, config.dstSector)
  BY <1>2, <1>5, <1>7, ChunkInside
<1>9. /\ \E k \in 0..n : dst' = Put(RoundDown(from, config.dstSector), k, Beyond(n))
      /\ pc' \in {"smart", "unlock"} /\ result' \in {result, "error", "canceled"}
  <2>1. n \in 0..n
    OBVIOUS
  <2> QED BY <1>3, <1>4, <1>5, <1>6, <2>1 DEF SmartWrite, Write, WriteFails, Report, Leave
<1>10. OnlyRangeWritten' /\ DOMAIN dst' = DstBytes
  BY <1>1, <1>7, <1>8, <1>9, WriteInside
<1>11. cluster' \in Nat
  <2>1. PICK q \in Nat : q = Run(TRUE)
    BY <1>1, <1>2, RunFacts
  <2>2. cluster' = cluster + q /\ cluster \in Nat
    BY <1>1, <1>2, <2>1
  <2> QED BY <2>2
<1>12. CTypeOK'
  BY <1>1, <1>2, <1>9, <1>10, <1>11 DEF RangeInv, CTypeOK, DstBytes, SrcBytes
<1> QED BY <1>1, <1>9, <1>10, <1>12, RangeWrites

(* The other steps write nothing.                                          *)
LEMMA RangeStep ==
  ASSUME RangeInv, [CNext]_vars
  PROVE  RangeInv'
<1>0. /\ config \in Configs /\ length \in Nat /\ done \in Nat
      /\ CTypeOK
  BY DEF RangeInv, CTypeOK
<1> DEFINE Late == DstBytes' = DstBytes /\ SrcBytes' = SrcBytes
<1>01. Late
  BY DEF DstBytes, SrcBytes
<1>1. CASE lockDestinationVolumes \/ ChooseMode \/ Canceled \/ CopyDone \/ VerifyDone \/ unlockVolumes
  <2>1. /\ UNCHANGED <<config, length, dst, done, cluster, late, shorts>> /\ pc \notin {"start", "returned"}
        /\ pc' \in {pc, "returned", "mode", "unlock", "raw", "smart", "flush"}
        /\ pc' = pc => pc = "lock"
        /\ result' \in {result, "error", "canceled", "ok"}
    BY <1>1 DEF lockDestinationVolumes, ChooseMode, Canceled, CopyDone, VerifyDone, unlockVolumes, Leave, Return, env
  <2>2. CTypeOK'
    BY <1>0, <1>01, <2>1 DEF CTypeOK
  <2> QED BY <2>1, <2>2, RangeQuiet
<1>2. CASE Flush \/ verifyClone
  <2>1. /\ UNCHANGED <<config, length, dst, cluster, late, shorts>> /\ pc \notin {"start", "returned"}
        /\ pc' \in {"unlock", "verify"}
        /\ result' \in {result, "error", "canceled", "mismatch", "ok"}
    BY <1>2 DEF Flush, verifyClone, Leave, Report, env
  <2>2. done' \in Nat
    BY <1>0, <1>2, ChunkNat DEF Flush, verifyClone
  <2>3. CTypeOK'
    BY <1>0, <1>01, <2>1, <2>2 DEF CTypeOK
  <2> QED BY <2>1, <2>3, RangeQuiet
<1>3. CASE requestCancel \/ (\E c \in SrcBytes : SourceWrite(c)) \/ UNCHANGED vars
  <2>1. UNCHANGED <<job, dst, shorts>> /\ late' \subseteq SrcBytes
    BY <1>0, <1>3 DEF requestCancel, SourceWrite, vars, env, CTypeOK
  <2>2. CTypeOK'
    BY <1>0, <1>01, <2>1 DEF CTypeOK, job
  <2>3. TotalClusters' = TotalClusters /\ Run(TRUE)' = Run(TRUE)
    BY <2>1 DEF job, TotalClusters, Run, ClustersPerChunk, AlignedBufSize, MaxSector
  <2>4. /\ pc = "rawWrite" => (done < length /\ Len(buf) \in Nat)
        /\ pc = "smartWrite" => (cluster < TotalClusters /\ Len(buf) \in 0..(Run(TRUE) * BytesPerCluster))
    BY DEF RangeInv
  <2>5. CASE pc # "start"
    BY <2>1, <2>2, <2>3, <2>4, <2>5, RangeQuiet DEF job
  <2>6. CASE pc = "start"
    BY <2>1, <2>2, <2>6, RangeQuiet DEF job
  <2> QED BY <2>5, <2>6
<1> QED BY <1>1, <1>2, <1>3, RangeClone, RangeRawRead, RangeRawWrite, RangeSmartZero, RangeSmartRead,
           RangeSmartWrite DEF CNext, Step

(***************************************************************************)
(* clone() writes nowhere but to the range it was given, rounded up to a   *)
(* sector of the destination: for every size, offset, buffer and pair of   *)
(* sector sizes, however short the reads, and whichever write fails.       *)
(***************************************************************************)
THEOREM WritesOnlyRange == CSpec => [](CTypeOK /\ OnlyRangeWritten)
<1>1. CInit => RangeInv
  <2> SUFFICES ASSUME CInit PROVE RangeInv
    OBVIOUS
  <2>1. CTypeOK
    BY BoundsAssumption DEF CInit, CTypeOK
  <2> QED BY <2>1 DEF CInit, RangeInv, OnlyRangeWritten
<1>2. RangeInv /\ [CNext]_vars => RangeInv'
  BY RangeStep
<1>3. RangeInv => CTypeOK /\ OnlyRangeWritten
  BY DEF RangeInv
<1> QED BY <1>1, <1>2, <1>3, PTL DEF CSpec

-----------------------------------------------------------------------------
(* What an unverified clone has written.                                   *)

(* A byte that was on the source at some time was there at some time.      *)
LEMMA HeldStays ==
  ASSUME UNCHANGED config, \A c \in SrcBytes : version[c] \in Nat /\ version'[c] \in Nat /\ version[c] <= version'[c],
         NEW i, NEW byte, Held(i, byte)
  PROVE  Held(i, byte)'
<1> DEFINE c == config.srcOffset + i
<1>1. c \in SrcBytes /\ SrcBytes' = SrcBytes
  BY DEF Held, SrcBytes
<1>2. PICK v \in 0..version[c] : byte = SrcAt(c, v)
  BY DEF Held
<1>3. v \in 0..version'[c]
  BY <1>1, <1>2
<1>4. SrcAt(c, v)' = SrcAt(c, v)
  BY DEF SrcAt, ClusterOf, Zero, Byte
<1>5. c' = c
  OBVIOUS
<1> HIDE DEF c
<1> QED BY <1>1, <1>2, <1>3, <1>4, <1>5 DEF Held, c

(* A right byte stays right when the source is written to.                 *)
LEMMA GoodStays ==
  ASSUME UNCHANGED <<config, bitmap>>,
         \A c \in SrcBytes : version[c] \in Nat /\ version'[c] \in Nat /\ version[c] <= version'[c],
         NEW i, NEW byte, Good(i, byte)
  PROVE  Good(i, byte)'
<1>1. NoBitmap' = NoBitmap /\ Zero' = Zero
  BY DEF NoBitmap, Zero, Byte
<1> QED BY <1>1, HeldStays DEF Good

(* Nothing was written there.                                              *)
LEMMA CopiedStays ==
  ASSUME UNCHANGED <<config, bitmap>>,
         \A c \in SrcBytes : version[c] \in Nat /\ version'[c] \in Nat /\ version[c] <= version'[c],
         NEW i, dst'[config.dstOffset + i] = dst[config.dstOffset + i], Copied(i)
  PROVE  Copied(i)'
<1>1. DstBytes' = DstBytes
  BY DEF DstBytes
<1>2. Good(i, dst[config.dstOffset + i])
  BY DEF Copied
<1>3. PICK byte : byte = dst[config.dstOffset + i]
  OBVIOUS
<1>4. Good(i, byte)'
  BY <1>2, <1>3, GoodStays
<1> QED BY <1>1, <1>3, <1>4 DEF Copied

(* A write behind what has been copied extends it by its good bytes.       *)
LEMMA WriteExtends ==
  ASSUME config \in Configs, UNCHANGED <<config, bitmap, version>>, version \in [SrcBytes -> Nat],
         NEW p \in Nat, NEW m \in Nat, NEW n \in Nat, NEW data, m <= n,
         n = 0 \/ config.dstOffset + p + n <= DstTotal,
         dst' = Put(config.dstOffset + p, n, data),
         \A i \in 0..(p - 1) : Copied(i),
         \A i \in 0..(m - 1) : Good(p + i, data[i])
  PROVE  \A i \in 0..(p + m - 1) : Copied(i)'
<1> SUFFICES ASSUME NEW i \in 0..(p + m - 1) PROVE Copied(i)'
  OBVIOUS
<1> DEFINE c == config.dstOffset + i
           at == config.dstOffset + p
<1>0. config.dstOffset \in Nat /\ DstTotal \in Nat /\ i \in Nat /\ c \in Nat /\ at \in Nat
  BY ConfigNumbers, SizesAssumption
<1>1. \A b \in SrcBytes : version[b] \in Nat /\ version'[b] \in Nat /\ version[b] <= version'[b]
  OBVIOUS
<1>2. CASE i < p
  <2>1. Copied(i)
    BY <1>0, <1>2
  <2>2. c \in DstBytes /\ ~(c >= at)
    BY <1>0, <1>2, <2>1 DEF Copied
  <2>3. dst'[c] = dst[c]
    BY <2>2 DEF Put
  <2> QED BY <1>1, <2>1, <2>3, CopiedStays
<1>3. CASE i >= p
  <2>1. PICK k \in 0..(m - 1) : k = i - p
    BY <1>0, <1>3
  <2>2. i = p + k /\ c >= at /\ c < at + n /\ c - at = k
    BY <1>0, <2>1
  <2>3. c \in DstBytes
    BY <1>0, <2>1, <2>2 DEF DstBytes
  <2>4. dst'[c] = data[k]
    BY <2>2, <2>3 DEF Put
  <2>5. Good(i, data[k])
    BY <2>1, <2>2
  <2>6. PICK byte : byte = data[k]
    OBVIOUS
  <2>7. Good(i, byte)'
    BY <1>1, <2>5, <2>6, GoodStays
  <2>8. DstBytes' = DstBytes /\ dst'[config'.dstOffset + i] = byte
    BY <2>4, <2>6 DEF DstBytes
  <2> QED BY <2>3, <2>7, <2>8 DEF Copied
<1> QED BY <1>0, <1>2, <1>3

(* Steps after which nothing is claimed.                                   *)
LEMMA WrittenVoid ==
  ASSUME ModeInv',
         pc' \in {"start", "lock", "mode"} \/ (pc' \in {"unlock", "returned"} /\ result' # "ok") \/ shorts' # 0
  PROVE  WrittenInv'
  BY DEF WrittenInv, RawInv, SmartInv, AllCopied

(* Steps that write nothing, after the copy.                               *)
LEMMA WrittenKept ==
  ASSUME ModeInv', ModeInv, UNCHANGED <<config, length, bitmap, version, dst, shorts>>,
         pc' \in {"flush", "verify", "unlock", "returned"},
         shorts = 0 => \A i \in 0..(Extent - 1) : Copied(i)
  PROVE  WrittenInv'
<1>1. \A c \in SrcBytes : version[c] \in Nat /\ version'[c] \in Nat /\ version[c] <= version'[c]
  BY DEF ModeInv
<1>2. Extent' = Extent
  BY DEF Extent, TotalClusters, NoBitmap
<1>3. shorts = 0 => \A i \in 0..(Extent - 1) : Copied(i)'
  BY <1>1, CopiedStays
<1>4. shorts' = 0 => AllCopied'
  BY <1>2, <1>3 DEF AllCopied
<1> QED BY <1>4 DEF WrittenInv, RawInv, SmartInv

(* Steps of the source and of the user.                                    *)
LEMMA WrittenBeside ==
  ASSUME WrittenInv, UNCHANGED <<job, dst, shorts>>, allocated' \subseteq Nat, version' \in [SrcBytes -> Nat],
         \A c \in SrcBytes : version[c] <= version'[c]
  PROVE  WrittenInv'
<1>1. \A c \in SrcBytes : version[c] \in Nat /\ version'[c] \in Nat /\ version[c] <= version'[c]
  BY DEF WrittenInv, ModeInv
<1>2. /\ UNCHANGED <<config, pc, length, done, cluster, bitmap, buf, result>>
      /\ SrcBytes' = SrcBytes /\ NoBitmap' = NoBitmap
  BY DEF job, SrcBytes, NoBitmap
<1>3. \A i : Copied(i) => Copied(i)'
  BY <1>1, <1>2, CopiedStays
<1>4. \A i, byte : Held(i, byte) => Held(i, byte)'
  BY <1>1, <1>2, HeldStays
<1>5. /\ InRange' = InRange /\ MaxSector' = MaxSector /\ Chunk' = Chunk /\ Run(TRUE)' = Run(TRUE)
      /\ Extent' = Extent
  BY <1>2 DEF InRange, MaxSector, Chunk, AlignedBufSize, Run, ClustersPerChunk, TotalClusters, Extent
<1>6. ModeInv'
  BY <1>2 DEF WrittenInv, ModeInv
<1>7. shorts' = 0 => RawInv'
  <2>1. shorts = 0 => RawInv
    BY DEF WrittenInv
  <2>2. RawInv => RawInv'
    BY <1>2, <1>3, <1>4, <1>5 DEF RawInv
  <2> QED BY <2>1, <2>2
<1>8. shorts' = 0 => SmartInv'
  <2>1. shorts = 0 => SmartInv
    BY DEF WrittenInv
  <2>2. SmartInv => SmartInv'
    BY <1>2, <1>3, <1>4, <1>5 DEF SmartInv
  <2> QED BY <2>1, <2>2
<1>9. shorts' = 0 => AllCopied'
  BY <1>2, <1>3, <1>5 DEF WrittenInv, AllCopied
<1> QED BY <1>6, <1>7, <1>8, <1>9 DEF WrittenInv

(* Reading the whole of a chunk: every byte as it is now on the source.    *)
LEMMA ReadHolds ==
  ASSUME config \in Configs, UNCHANGED <<config, version>>, version \in [SrcBytes -> Nat],
         NEW p \in Nat, NEW n \in Nat, NEW m \in Nat, m <= n, config.srcOffset + p + n <= SrcTotal,
         buf' = ReadRange(config.srcOffset + p, n)
  PROVE  Len(buf') = n /\ \A i \in 0..(m - 1) : Held(p + i, buf[i + 1])'
<1>0. config.srcOffset \in Nat /\ SrcTotal \in Nat
  BY ConfigNumbers, SizesAssumption
<1>1. Len(buf') = n
  BY DEF ReadRange
<1>2. ASSUME NEW i \in 0..(m - 1) PROVE Held(p + i, buf[i + 1])'
  <2> DEFINE c == config.srcOffset + (p + i)
  <2>1. i + 1 \in 1..n /\ config.srcOffset + p + (i + 1) - 1 = c
    BY <1>0, <1>2
  <2>2. c \in SrcBytes /\ c \in Nat
    BY <1>0, <1>2 DEF SrcBytes
  <2>3. buf'[i + 1] = SrcAt(c, version[c])
    BY <2>1 DEF ReadRange, Src
  <2>4. version[c] \in 0..version[c]
    BY <2>2
  <2>5. PICK byte : byte = buf'[i + 1]
    OBVIOUS
  <2>6. Held(p + i, byte)
    BY <2>2, <2>3, <2>4, <2>5 DEF Held
  <2>7. Held(p + i, byte)'
    <3>1. \A b \in SrcBytes : version[b] \in Nat /\ version'[b] \in Nat /\ version[b] <= version'[b]
      OBVIOUS
    <3> QED BY <2>6, <3>1, HeldStays
  <2>8. Held(p + i, buf[i + 1])' <=> Held(p + i, byte)'
    BY <2>5 DEF Held
  <2> QED BY <2>7, <2>8
<1> QED BY <1>1, <1>2

(* A read that does not fail and is not short.                             *)
LEMMA ReadWhole ==
  ASSUME NEW at, NEW n, NEW next, Read(at, n, next), CTypeOK, next # "unlock"
  PROVE  \/ pc' = "unlock" /\ result' = "error"
         \/ pc' = next /\ shorts' # 0
         \/ pc' = next /\ shorts' = shorts /\ at + n <= SrcTotal /\ buf' = ReadRange(at, n)
<1>1. shorts \in Nat
  BY BoundsAssumption DEF CTypeOK
<1> QED BY <1>1 DEF Read, Leave

(* A raw read that is not short has the bytes of its place in the buffer.  *)
LEMMA WrittenRawRead ==
  ASSUME RangeInv, WrittenInv, RawRead
  PROVE  WrittenInv'
<1>1. /\ pc = "raw" /\ done < length
      /\ UNCHANGED <<config, length, done, cluster, bitmap, dst, version, allocated>>
  BY DEF RawRead, env
<1>2. config \in Configs /\ length \in Nat /\ done \in Nat /\ OffsetsAligned /\ CTypeOK
  BY <1>1 DEF RangeInv, CTypeOK
<1>3. pc' \in {"unlock", "rawWrite"}
  BY DEF RawRead, Read, Leave
<1>4. ModeInv' /\ ModeInv /\ version \in [SrcBytes -> Nat]
  BY <1>1, <1>3 DEF WrittenInv, ModeInv, NoBitmap, SrcBytes
<1>5. \/ pc' = "unlock" /\ result' = "error"
      \/ shorts' # 0
      \/ /\ pc' = "rawWrite" /\ shorts' = shorts
         /\ SrcFrom + RoundUp(Chunk, config.srcSector) <= SrcTotal
         /\ buf' = ReadRange(SrcFrom, RoundUp(Chunk, config.srcSector))
  BY <1>2, ReadWhole DEF RawRead, SrcFrom
<1>6. CASE /\ pc' = "rawWrite" /\ shorts' = shorts /\ shorts = 0
           /\ SrcFrom + RoundUp(Chunk, config.srcSector) <= SrcTotal
           /\ buf' = ReadRange(SrcFrom, RoundUp(Chunk, config.srcSector))
  <2>1. /\ done % MaxSector = 0 /\ \A i \in InRange : i < done => Copied(i)
    BY <1>1, <1>6 DEF WrittenInv, RawInv
  <2>2. SrcFrom = config.srcOffset + done /\ Chunk \in Nat
    BY <1>1, <1>2, <2>1, ChunkInPlace
  <2>3. PICK n \in Nat : n = RoundUp(Chunk, config.srcSector) /\ Chunk <= n
    BY <1>2, <2>2, ConfigNumbers, RoundUpCovers
  <2>4. PICK m \in Nat : m = Chunk
    BY <2>2
  <2>5. Len(buf') = n /\ \A i \in 0..(m - 1) : Held(done + i, buf[i + 1])'
    BY <1>1, <1>2, <1>4, <1>6, <2>2, <2>3, <2>4, ReadHolds
  <2>6. Chunk' = Chunk /\ InRange' = InRange /\ MaxSector' = MaxSector
    BY <1>1 DEF Chunk, AlignedBufSize, MaxSector, InRange
  <2>7. (Chunk <= Len(buf))'
    BY <2>3, <2>5, <2>6
  <2>8. (\A i \in 0..(Chunk - 1) : Held(done + i, buf[i + 1]))'
    BY <1>1, <2>4, <2>5, <2>6
  <2>9. \A c \in SrcBytes : version[c] \in Nat /\ version'[c] \in Nat /\ version[c] <= version'[c]
    BY <1>1, <1>4
  <2>10. (\A i \in InRange : i < done => Copied(i))'
    BY <1>1, <2>1, <2>6, <2>9, CopiedStays
  <2>11. RawInv'
    BY <1>1, <2>1, <2>6, <2>7, <2>8, <2>10 DEF RawInv
  <2> QED BY <1>4, <1>6, <2>11 DEF WrittenInv, SmartInv, AllCopied
<1> QED BY <1>3, <1>4, <1>5, <1>6, WrittenVoid

(* A raw write puts them at their place.                                   *)
LEMMA WrittenRawWrite ==
  ASSUME RangeInv, WrittenInv, RawWrite
  PROVE  WrittenInv'
<1>1. /\ pc = "rawWrite" /\ done < length /\ OffsetsAligned /\ Len(buf) \in Nat
      /\ UNCHANGED <<config, length, cluster, bitmap, version, allocated, shorts>>
      /\ done' = done + BytesToWrite
  BY DEF RawWrite, RangeInv, env
<1>2. config \in Configs /\ length \in Nat /\ done \in Nat
  BY RangeNumbers
<1>3. pc' \in {"unlock", "raw"} /\ (pc' = "unlock" => result' # "ok")
  BY DEF RawWrite, Report, WriteFails, Leave
<1>4. ModeInv' /\ version \in [SrcBytes -> Nat] /\ bitmap = NoBitmap
  BY <1>1, <1>3 DEF WrittenInv, ModeInv, NoBitmap, SrcBytes
<1>5. CASE pc' = "raw" /\ shorts = 0
  <2>1. /\ done % MaxSector = 0 /\ \A i \in InRange : i < done => Copied(i)
        /\ Chunk <= Len(buf) /\ \A i \in 0..(Chunk - 1) : Held(done + i, buf[i + 1])
    BY <1>1, <1>5 DEF WrittenInv, RawInv
  <2>2. /\ DstFrom = config.dstOffset + done
        /\ done + Chunk < length => (done + Chunk) % MaxSector = 0
    BY <1>1, <1>2, <2>1, ChunkInPlace
  <2>3. PICK m \in Nat : m = Chunk /\ done + m <= length
    BY <1>1, <1>2, ChunkNat
  <2>4. BytesToWrite = m
    BY <1>1, <2>1, <2>3 DEF BytesToWrite, Min2
  <2>5. PICK n \in Nat : n = RoundUp(m, config.dstSector) /\ m <= n
    BY <1>2, ConfigNumbers, RoundUpCovers
  <2>6. Write(DstFrom, n, Padded(n))
    BY <1>5, <2>4, <2>5 DEF RawWrite, WriteFails, Leave, DstFrom
  <2>7. (n = 0 \/ config.dstOffset + done + n <= DstTotal) /\ dst' = Put(config.dstOffset + done, n, Padded(n))
    BY <2>2, <2>6 DEF Write
  <2>8. \A i \in 0..(m - 1) : Good(done + i, Padded(n)[i])
    <3> TAKE i \in 0..(m - 1)
    <3>1. i \in 0..(n - 1) /\ i < Len(buf)
      BY <1>1, <2>1, <2>3, <2>5
    <3>2. Padded(n)[i] = buf[i + 1]
      BY <3>1 DEF Padded
    <3>3. Held(done + i, buf[i + 1])
      BY <2>1, <2>3
    <3> QED BY <1>4, <3>2, <3>3 DEF Good
  <2>9. \A i \in 0..(done - 1) : Copied(i)
    BY <1>1, <1>2, <2>1 DEF InRange
  <2>10. \A i \in 0..(done + m - 1) : Copied(i)'
    BY <1>1, <1>2, <1>4, <2>5, <2>7, <2>8, <2>9, WriteExtends
  <2>11. done' = done + m /\ InRange' = InRange /\ MaxSector' = MaxSector
    BY <1>1, <2>4 DEF InRange, MaxSector
  <2>12. (\A i \in InRange : i < done => Copied(i))'
    <3> SUFFICES ASSUME NEW i \in InRange, i < done' PROVE Copied(i)'
      BY <2>11
    <3>1. i \in 0..(done + m - 1)
      BY <1>2, <2>11 DEF InRange
    <3> QED BY <2>10, <3>1
  <2>13. (done < length => done % MaxSector = 0)'
    BY <1>1, <2>2, <2>3, <2>11
  <2>14. RawInv'
    BY <1>5, <2>12, <2>13 DEF RawInv
  <2> QED BY <1>4, <1>5, <2>14 DEF WrittenInv, SmartInv, AllCopied
<1> QED BY <1>1, <1>3, <1>4, <1>5, WrittenVoid

(* Whole clusters are whole sectors, at their places too.                  *)
LEMMA ClusterInPlace ==
  ASSUME ClusterSectors, config \in Configs, config.mode = "Smart", OffsetsAligned, NEW k \in Nat
  PROVE  /\ RoundDown(config.srcOffset + k * BytesPerCluster, config.srcSector) = config.srcOffset + k * BytesPerCluster
         /\ RoundDown(config.dstOffset + k * BytesPerCluster, config.dstSector) = config.dstOffset + k * BytesPerCluster
         /\ RoundDown(k * BytesPerCluster, config.srcSector) = k * BytesPerCluster
         /\ RoundDown(k * BytesPerCluster, config.dstSector) = k * BytesPerCluster
<1> USE ConfigNumbers
<1>1. BytesPerCluster \in Nat \ {0} /\ BytesPerCluster % MaxSector = 0
  BY SizesAssumption DEF ClusterSectors, MaxSector
<1>2. PICK b \in Nat : BytesPerCluster = b * MaxSector
  BY <1>1, ModMultiple DEF Multiple
<1>3. PICK p \in Nat : p = k * BytesPerCluster
  BY <1>1
<1>4. p = (k * b) * MaxSector /\ k * b \in Nat
  BY <1>2, <1>3
<1>5. p % MaxSector = 0
  BY <1>4, ModMultiple DEF Multiple
<1>6. (config.srcOffset + p) % MaxSector = 0 /\ (config.dstOffset + p) % MaxSector = 0
  BY <1>5, SumAligned DEF OffsetsAligned
<1>7. PICK a \in Nat, d \in Nat : a = config.srcOffset + p /\ d = config.dstOffset + p
  OBVIOUS
<1>8. RoundDown(a, config.srcSector) = a /\ RoundDown(d, config.dstSector) = d
  BY <1>6, <1>7, RoundDownExact
<1>9. RoundDown(p, config.srcSector) = p /\ RoundDown(p, config.dstSector) = p
  BY <1>5, RoundDownExact
<1> QED BY <1>3, <1>7, <1>8, <1>9

(* The cluster of a byte of a run.                                         *)
LEMMA ClusterOfByte ==
  ASSUME NEW a \in Nat, NEW r \in Nat, NEW s \in Nat \ {0}, NEW i \in 0..(r * s - 1)
  PROVE  \E k \in 0..(r - 1) : (a * s + i) \div s = a + k
<1>1. PICK x \in Nat : x = a * s + i
  OBVIOUS
<1> DEFINE q == x \div s
<1>2. q \in Nat /\ q * s <= x /\ x < (q + 1) * s
  OBVIOUS
<1>3. (a + r) * s = a * s + r * s /\ a * s \in Nat /\ r * s \in Nat
  OBVIOUS
<1>4. i \in Nat /\ i < r * s
  BY <1>3
<1>5. a * s < (q + 1) * s /\ q * s < (a + r) * s
  BY <1>1, <1>2, <1>3, <1>4
<1>6. a < q + 1 /\ q < a + r
  BY <1>2, <1>5, CancelFactor
<1>7. q - a \in 0..(r - 1) /\ q = a + (q - a)
  BY <1>2, <1>6
<1> QED BY <1>1, <1>7

(* A smart read that is not short has the bytes of its place in the buffer.*)
LEMMA WrittenSmartRead ==
  ASSUME ClusterSectors, RangeInv, WrittenInv, SmartRead
  PROVE  WrittenInv'
<1>1. /\ pc = "smart" /\ cluster < TotalClusters
      /\ UNCHANGED <<config, length, done, cluster, bitmap, dst, version, allocated>>
  BY DEF SmartRead, env
<1>2. config \in Configs /\ length \in Nat /\ cluster \in Nat /\ OffsetsAligned /\ CTypeOK
  BY <1>1 DEF RangeInv, CTypeOK
<1>3. pc' \in {"unlock", "smartWrite"}
  BY DEF SmartRead, Read, Leave
<1>4. ModeInv' /\ version \in [SrcBytes -> Nat] /\ config.mode = "Smart"
  BY <1>1, <1>3 DEF WrittenInv, ModeInv, NoBitmap, SrcBytes
<1>5. PICK p \in Nat, n \in Nat : p = cluster * BytesPerCluster /\ n = Run(TRUE) * BytesPerCluster
  BY <1>1, <1>2, RunInside
<1>6. Read(config.srcOffset + p, n, "smartWrite")
  <2>1. RoundDown(config.srcOffset + p, config.srcSector) = config.srcOffset + p
    BY <1>2, <1>4, <1>5, ClusterInPlace
  <2>2. RoundDown(n, config.srcSector) = n
    <3>1. PICK r \in Nat : r = Run(TRUE)
      BY <1>1, <1>2, RunFacts
    <3> QED BY <1>2, <1>4, <1>5, <3>1, ClusterInPlace
  <2> QED BY <1>5, <2>1, <2>2 DEF SmartRead
<1>7. \/ pc' = "unlock" /\ result' = "error"
      \/ shorts' # 0
      \/ /\ pc' = "smartWrite" /\ shorts' = shorts
         /\ config.srcOffset + p + n <= SrcTotal
         /\ buf' = ReadRange(config.srcOffset + p, n)
  BY <1>2, <1>6, ReadWhole
<1>8. CASE /\ pc' = "smartWrite" /\ shorts' = shorts /\ shorts = 0
           /\ config.srcOffset + p + n <= SrcTotal
           /\ buf' = ReadRange(config.srcOffset + p, n)
  <2>1. Len(buf') = n /\ \A i \in 0..(n - 1) : Held(p + i, buf[i + 1])'
    <3>1. n <= n
      OBVIOUS
    <3> QED BY <1>1, <1>2, <1>4, <1>8, <3>1, ReadHolds
  <2>2. Run(TRUE)' = Run(TRUE)
    BY <1>1 DEF TotalClusters, Run, ClustersPerChunk, AlignedBufSize, MaxSector
  <2>3. (Len(buf) = Run(TRUE) * BytesPerCluster)'
    BY <1>5, <2>1, <2>2
  <2>4. (\A i \in 0..(Len(buf) - 1) : Held(cluster * BytesPerCluster + i, buf[i + 1]))'
    BY <1>1, <1>5, <2>1
  <2>5. \A c \in SrcBytes : version[c] \in Nat /\ version'[c] \in Nat /\ version[c] <= version'[c]
    BY <1>1, <1>4
  <2>6. \A i \in 0..(cluster * BytesPerCluster - 1) : Copied(i)
    BY <1>1, <1>8 DEF WrittenInv, SmartInv
  <2>7. (\A i \in 0..(cluster * BytesPerCluster - 1) : Copied(i))'
    BY <1>1, <2>5, <2>6, CopiedStays
  <2>8. SmartInv'
    BY <2>3, <2>4, <2>7 DEF SmartInv
  <2> QED BY <1>4, <1>8, <2>8 DEF WrittenInv, RawInv, AllCopied
<1> QED BY <1>3, <1>4, <1>7, <1>8, WrittenVoid

(* A run that has been written, zeros or not.                              *)
LEMMA WrittenRun ==
  ASSUME ClusterSectors, RangeInv, WrittenInv, pc \in {"smart", "smartWrite"}, cluster < TotalClusters,
         UNCHANGED <<config, length, bitmap, version, allocated, shorts>>, pc' = "smart",
         NEW used \in BOOLEAN, cluster' = cluster + Run(used), NEW n \in Nat, NEW data,
         Run(used) * BytesPerCluster <= n,
         Write(RoundDown(config.dstOffset + cluster * BytesPerCluster, config.dstSector), n, data),
         shorts = 0 => \A i \in 0..(Run(used) * BytesPerCluster - 1) :
                         IF used THEN Held(cluster * BytesPerCluster + i, data[i]) ELSE data[i] = Zero
  PROVE  WrittenInv'
<1>1. config \in Configs /\ length \in Nat /\ cluster \in Nat /\ OffsetsAligned /\ BytesPerCluster \in Nat \ {0}
  BY SizesAssumption DEF RangeInv, CTypeOK
<1>2. ModeInv' /\ version \in [SrcBytes -> Nat] /\ config.mode = "Smart" /\ bitmap \subseteq Nat
  BY DEF WrittenInv, ModeInv, NoBitmap, SrcBytes
<1>3. PICK p \in Nat, m \in Nat : p = cluster * BytesPerCluster /\ m = Run(used) * BytesPerCluster
  BY <1>1, RunInside
<1>4. PICK r \in Nat : r = Run(used) /\ \A k \in 0..(r - 1) : (cluster + k \in bitmap) = used
  BY <1>1, RunFacts
<1>5. RoundDown(config.dstOffset + p, config.dstSector) = config.dstOffset + p
  BY <1>1, <1>2, <1>3, ClusterInPlace
<1>6. (n = 0 \/ config.dstOffset + p + n <= DstTotal) /\ dst' = Put(config.dstOffset + p, n, data)
  BY <1>3, <1>5 DEF Write
<1>7. ASSUME shorts = 0 PROVE (\A i \in 0..(cluster * BytesPerCluster - 1) : Copied(i))'
  <2>1. \A i \in 0..(p - 1) : Copied(i)
    BY <1>3, <1>7 DEF WrittenInv, SmartInv
  <2>2. \A i \in 0..(m - 1) : Good(p + i, data[i])
    <3> TAKE i \in 0..(m - 1)
    <3>1. IF used THEN Held(p + i, data[i]) ELSE data[i] = Zero
      BY <1>3, <1>7
    <3>2. i \in 0..(r * BytesPerCluster - 1)
      BY <1>3, <1>4
    <3>3. PICK k \in 0..(r - 1) : (cluster * BytesPerCluster + i) \div BytesPerCluster = cluster + k
      BY <1>1, <3>2, ClusterOfByte
    <3>4. (p + i) \div BytesPerCluster = cluster + k
      BY <1>3, <3>3
    <3>5. (cluster + k \in bitmap) = used
      BY <1>4, <3>3
    <3>6. bitmap # NoBitmap
      BY <1>2 DEF NoBitmap
    <3> QED BY <3>1, <3>4, <3>5, <3>6 DEF Good
  <2>3. m <= n
    BY <1>3
  <2>4. \A i \in 0..(p + m - 1) : Copied(i)'
    BY <1>1, <1>2, <1>6, <2>1, <2>2, <2>3, WriteExtends
  <2>5. cluster' * BytesPerCluster = p + m
    <3>1. (cluster + r) * BytesPerCluster = cluster * BytesPerCluster + r * BytesPerCluster
      BY <1>1
    <3> QED BY <1>3, <1>4, <3>1
  <2> QED BY <2>4, <2>5
<1>8. shorts' = 0 => SmartInv'
  BY <1>7 DEF SmartInv
<1> QED BY <1>2, <1>8 DEF WrittenInv, RawInv, AllCopied

(* What is filled with zeros is free in the bitmap.                        *)
LEMMA WrittenSmartZero ==
  ASSUME ClusterSectors, RangeInv, WrittenInv, SmartZero
  PROVE  WrittenInv'
<1>1. /\ pc = "smart" /\ cluster < TotalClusters /\ cluster' = cluster + Run(FALSE)
      /\ UNCHANGED <<config, length, done, bitmap, version, allocated, shorts>>
  BY DEF SmartZero, env
<1>2. config \in Configs /\ length \in Nat /\ cluster \in Nat /\ OffsetsAligned
  BY <1>1 DEF RangeInv, CTypeOK
<1>3. config.mode = "Smart"
  BY <1>1 DEF WrittenInv, ModeInv
<1>4. PICK n \in Nat : n = Run(FALSE) * BytesPerCluster
  BY <1>1, <1>2, RunInside
<1>5. RoundDown(n, config.dstSector) = n
  <2>1. PICK r \in Nat : r = Run(FALSE)
    BY <1>1, <1>2, RunFacts
  <2> QED BY <1>2, <1>3, <1>4, <2>1, ClusterInPlace
<1>6. \/ /\ Write(RoundDown(config.dstOffset + cluster * BytesPerCluster, config.dstSector), n, Zeros(n))
         /\ pc' = pc
      \/ pc' = "unlock" /\ result' = "error"
  BY <1>4, <1>5 DEF SmartZero, WriteFails, Leave
<1>7. CASE pc' = "unlock" /\ result' = "error"
  <2>1. ModeInv'
    BY <1>1, <1>7 DEF WrittenInv, ModeInv, NoBitmap, SrcBytes
  <2> QED BY <1>7, <2>1, WrittenVoid
<1>8. CASE /\ Write(RoundDown(config.dstOffset + cluster * BytesPerCluster, config.dstSector), n, Zeros(n))
           /\ pc' = pc
  <2>1. \A i \in 0..(n - 1) : Zeros(n)[i] = Zero
    BY DEF Zeros
  <2>2. PICK used \in BOOLEAN : used = FALSE
    OBVIOUS
  <2>3. Run(used) * BytesPerCluster = n /\ cluster' = cluster + Run(used)
    BY <1>1, <1>4, <2>2
  <2>4. shorts = 0 => \A i \in 0..(Run(used) * BytesPerCluster - 1) :
                         IF used THEN Held(cluster * BytesPerCluster + i, Zeros(n)[i]) ELSE Zeros(n)[i] = Zero
    BY <2>1, <2>2, <2>3
  <2>5. Run(used) * BytesPerCluster <= n
    BY <2>3
  <2> QED BY <1>1, <1>8, <2>3, <2>4, <2>5, WrittenRun
<1> QED BY <1>6, <1>7, <1>8

(* A smart write puts the bytes of its run at their place.                 *)
LEMMA WrittenSmartWrite ==
  ASSUME ClusterSectors, RangeInv, WrittenInv, SmartWrite
  PROVE  WrittenInv'
<1>1. /\ pc = "smartWrite" /\ cluster < TotalClusters /\ cluster' = cluster + Run(TRUE)
      /\ UNCHANGED <<config, length, done, bitmap, version, allocated, shorts>>
  BY DEF SmartWrite, env, RangeInv
<1>2. config \in Configs /\ length \in Nat /\ cluster \in Nat /\ Len(buf) \in Nat
  <2>1. config \in Configs /\ length \in Nat /\ cluster \in Nat /\ Len(buf) \in 0..(Run(TRUE) * BytesPerCluster)
    BY <1>1 DEF RangeInv, CTypeOK
  <2>2. PICK m \in Nat : m = Run(TRUE) * BytesPerCluster
    BY <1>1, <2>1, RunInside
  <2> QED BY <2>1, <2>2
<1>3. PICK n \in Nat : n = RoundUp(Len(buf), config.dstSector) /\ n >= Len(buf)
  BY <1>2, ConfigNumbers, RoundUpCovers
<1>4. \/ /\ Write(RoundDown(config.dstOffset + cluster * BytesPerCluster, config.dstSector), n, Beyond(n))
         /\ pc' = "smart"
      \/ pc' = "unlock" /\ result' # "ok"
  BY <1>3 DEF SmartWrite, WriteFails, Leave, Report
<1>5. CASE (pc' = "unlock" /\ result' # "ok") \/ shorts # 0
  <2>1. ModeInv'
    BY <1>1, <1>4 DEF WrittenInv, ModeInv, NoBitmap, SrcBytes
  <2> QED BY <1>1, <1>5, <2>1, WrittenVoid
<1>6. CASE /\ Write(RoundDown(config.dstOffset + cluster * BytesPerCluster, config.dstSector), n, Beyond(n))
           /\ pc' = "smart" /\ shorts = 0
  <2>1. Len(buf) = Run(TRUE) * BytesPerCluster
        /\ \A i \in 0..(Len(buf) - 1) : Held(cluster * BytesPerCluster + i, buf[i + 1])
    BY <1>1, <1>6 DEF WrittenInv, SmartInv
  <2>2. \A i \in 0..(Len(buf) - 1) : Beyond(n)[i] = buf[i + 1]
    <3> TAKE i \in 0..(Len(buf) - 1)
    <3>1. i \in 0..(n - 1) /\ i < Len(buf)
      BY <1>2, <1>3
    <3> QED BY <3>1 DEF Beyond
  <2>3. PICK used \in BOOLEAN : used = TRUE
    OBVIOUS
  <2>4. Run(used) * BytesPerCluster = Len(buf) /\ cluster' = cluster + Run(used)
    BY <1>1, <2>1, <2>3
  <2>5. shorts = 0 => \A i \in 0..(Run(used) * BytesPerCluster - 1) :
                         IF used THEN Held(cluster * BytesPerCluster + i, Beyond(n)[i]) ELSE Beyond(n)[i] = Zero
    BY <2>1, <2>2, <2>3, <2>4
  <2>6. Run(used) * BytesPerCluster <= n
    BY <1>3, <2>4
  <2> QED BY <1>1, <1>6, <2>4, <2>5, <2>6, WrittenRun
<1> QED BY <1>4, <1>5, <1>6

(* The other steps: the mode is chosen with nothing copied, the loops end  *)
(* with everything copied, and from there on nothing is written.           *)
LEMMA WrittenStep ==
  ASSUME ClusterSectors, RangeInv, WrittenInv, [CNext]_vars
  PROVE  WrittenInv'
<1>0. ModeInv /\ config \in Configs /\ length \in Nat /\ done \in Nat /\ cluster \in Nat
  BY DEF WrittenInv, RangeInv, CTypeOK
<1>1. CASE clone \/ lockDestinationVolumes
  <2>1. /\ UNCHANGED <<config, bitmap, version, allocated, done, cluster>> /\ pc \in {"start", "lock"}
        /\ pc' \in {"lock", "mode"} \/ (pc' = "returned" /\ result' = "error")
    BY <1>1 DEF clone, lockDestinationVolumes, Return, env
  <2>2. ModeInv'
    BY <1>0, <2>1 DEF ModeInv, NoBitmap, SrcBytes
  <2> QED BY <2>1, <2>2, WrittenVoid
<1>2. CASE ChooseMode
  <2>1. /\ UNCHANGED <<config, version, allocated, done, cluster, length>> /\ pc = "mode"
        /\ \/ pc' = "unlock" /\ result' = "error" /\ bitmap' = bitmap
           \/ pc' = "raw" /\ bitmap' = bitmap
           \/ pc' = "smart" /\ bitmap' = allocated /\ config.mode = "Smart"
    BY <1>2 DEF ChooseMode, Leave, env
  <2>2. ModeInv' /\ done = 0 /\ cluster = 0
    BY <1>0, <2>1 DEF ModeInv, NoBitmap, SrcBytes
  <2>3. CASE pc' = "unlock" /\ result' = "error"
    BY <2>2, <2>3, WrittenVoid
  <2>4. CASE pc' = "raw"
    <3>1. MaxSector' \in Nat \ {0} /\ 0 % MaxSector' = 0
      BY <1>0, <2>1, ConfigNumbers, ModZero DEF MaxSector
    <3>2. \A i \in InRange' : ~(i < 0)
      BY <1>0, <2>1 DEF InRange
    <3>3. RawInv'
      BY <2>1, <2>2, <2>4, <3>1, <3>2 DEF RawInv
    <3> QED BY <2>2, <2>4, <3>3 DEF WrittenInv, SmartInv, AllCopied
  <2>5. CASE pc' = "smart"
    <3>1. cluster' * BytesPerCluster = 0
      BY <2>1, <2>2, SizesAssumption
    <3>2. SmartInv'
      BY <2>5, <3>1 DEF SmartInv
    <3> QED BY <2>2, <2>5, <3>2 DEF WrittenInv, RawInv, AllCopied
  <2> QED BY <2>1, <2>3, <2>4, <2>5
<1>3. CASE Canceled
  <2>1. UNCHANGED <<config, bitmap, version, allocated>> /\ pc' = "unlock" /\ result' = "canceled"
    BY <1>3 DEF Canceled, Leave, env
  <2>2. ModeInv'
    BY <1>0, <2>1 DEF ModeInv, NoBitmap, SrcBytes
  <2> QED BY <2>1, <2>2, WrittenVoid
<1>4. CASE CopyDone
  <2>1. UNCHANGED <<config, length, bitmap, version, allocated, dst, shorts>> /\ pc' = "flush"
    BY <1>4 DEF CopyDone, env
  <2>2. ModeInv'
    BY <1>0, <2>1 DEF ModeInv, NoBitmap, SrcBytes
  <2>3. ASSUME shorts = 0 PROVE \A i \in 0..(Extent - 1) : Copied(i)
    <3>1. CASE pc = "raw" /\ done >= length
      <4>1. Extent = length
        BY <1>0, <3>1 DEF Extent, ModeInv
      <4>2. \A i \in InRange : Copied(i)
        BY <1>0, <2>3, <3>1 DEF WrittenInv, RawInv, InRange
      <4> QED BY <4>1, <4>2 DEF InRange
    <3>2. CASE pc = "smart" /\ cluster >= TotalClusters
      <4>1. Extent = TotalClusters * BytesPerCluster
        BY <1>0, <3>2 DEF Extent, ModeInv, NoBitmap
      <4>2. TotalClusters \in Int /\ BytesPerCluster \in Nat
        BY <1>0, ClustersInside, SizesAssumption
      <4>3. TotalClusters * BytesPerCluster <= cluster * BytesPerCluster
            /\ TotalClusters * BytesPerCluster \in Int /\ cluster * BytesPerCluster \in Int
        BY <1>0, <3>2, <4>2
      <4>4. \A i \in 0..(cluster * BytesPerCluster - 1) : Copied(i)
        BY <2>3, <3>2 DEF WrittenInv, SmartInv
      <4>5. PICK x \in Int, y \in Int : x = TotalClusters * BytesPerCluster /\ y = cluster * BytesPerCluster /\ x <= y
        BY <4>3
      <4> QED BY <4>1, <4>4, <4>5
    <3> QED BY <1>4, <3>1, <3>2 DEF CopyDone
  <2> QED BY <1>0, <2>1, <2>2, <2>3, WrittenKept
<1>5. CASE Flush \/ verifyClone \/ VerifyDone \/ unlockVolumes
  <2>1. /\ UNCHANGED <<config, length, bitmap, version, allocated, dst, shorts>>
        /\ pc \in {"flush", "verify", "unlock"} /\ pc' \in {"verify", "unlock", "returned"}
        /\ pc = "unlock" => pc' = "returned" /\ result' = result
    BY <1>5 DEF Flush, verifyClone, VerifyDone, unlockVolumes, Report, Leave, env
  <2>2. ModeInv'
    BY <1>0, <2>1 DEF ModeInv, NoBitmap, SrcBytes
  <2>3. CASE pc = "unlock" /\ result # "ok"
    BY <2>1, <2>2, <2>3, WrittenVoid
  <2>4. CASE pc # "unlock" \/ result = "ok"
    <3>1. shorts = 0 => \A i \in 0..(Extent - 1) : Copied(i)
      BY <2>1, <2>4 DEF WrittenInv, AllCopied
    <3> QED BY <1>0, <2>1, <2>2, <3>1, WrittenKept
  <2> QED BY <2>3, <2>4
<1>6. CASE requestCancel \/ (\E c \in SrcBytes : SourceWrite(c)) \/ UNCHANGED vars
  <2>1. UNCHANGED <<job, dst, shorts>>
    BY <1>6 DEF requestCancel, SourceWrite, vars
  <2>2. /\ version \in [SrcBytes -> Nat] /\ version' \in [SrcBytes -> Nat] /\ allocated' \subseteq Nat
        /\ \A c \in SrcBytes : version[c] <= version'[c]
    <3>1. version \in [SrcBytes -> Nat] /\ allocated \subseteq Nat
      BY <1>0 DEF ModeInv
    <3>2. CASE requestCancel \/ UNCHANGED vars
      <4>1. UNCHANGED <<version, allocated>>
        BY <3>2 DEF requestCancel, vars, env
      <4> QED BY <3>1, <4>1
    <3>3. ASSUME NEW c \in SrcBytes, SourceWrite(c)
          PROVE  /\ version' \in [SrcBytes -> Nat] /\ allocated' \subseteq Nat
                 /\ \A b \in SrcBytes : version[b] <= version'[b]
      <4>1. version' = [version EXCEPT ![c] = 1] /\ version[c] = 0
        BY <3>3 DEF SourceWrite
      <4>2. allocated' \subseteq Nat
        BY <3>1, <3>3 DEF SourceWrite
      <4> QED BY <3>1, <4>1, <4>2
    <3> QED BY <1>6, <3>1, <3>2, <3>3
  <2> QED BY <2>1, <2>2, WrittenBeside
<1> QED BY <1>1, <1>2, <1>3, <1>4, <1>5, <1>6, WrittenRawRead, WrittenRawWrite, WrittenSmartZero,
           WrittenSmartRead, WrittenSmartWrite DEF CNext, Step

(***************************************************************************)
(* A clone that succeeded without a short read, verified or not, has every *)
(* byte of the range from its place on the source, as it was at some time  *)
(* during the clone, or for a smart one the bytes of the clusters in the   *)
(* bitmap, and zeros for the others: for disks, ranges, buffers and        *)
(* clusters of any size, if a cluster is a whole number of sectors.        *)
(***************************************************************************)
THEOREM SuccessIsWritten ==
  ASSUME ClusterSectors
  PROVE  CSpec => []SuccessMeansWritten
<1>1. CInit => RangeInv /\ WrittenInv
  <2> SUFFICES ASSUME CInit PROVE RangeInv /\ WrittenInv
    OBVIOUS
  <2>1. RangeInv
    BY BoundsAssumption DEF CInit, CTypeOK, RangeInv, OnlyRangeWritten
  <2>2. ModeInv
    BY SizesAssumption DEF CInit, ModeInv
  <2> QED BY <2>1, <2>2 DEF CInit, WrittenInv, RawInv, SmartInv, AllCopied
<1>2. (RangeInv /\ WrittenInv) /\ [CNext]_vars => (RangeInv /\ WrittenInv)'
  BY RangeStep, WrittenStep
<1>3. RangeInv /\ WrittenInv => SuccessMeansWritten
  <2> SUFFICES ASSUME RangeInv, WrittenInv, Succeeded, shorts = 0
               PROVE  IF bitmap = NoBitmap THEN \A i \in InRange : FromSource(i)
                      ELSE \A i \in 0..(TotalClusters * BytesPerCluster - 1) :
                             IF i \div BytesPerCluster \in bitmap THEN FromSource(i)
                             ELSE dst[config.dstOffset + i] = Zero
    BY DEF SuccessMeansWritten
  <2>1. \A i \in 0..(Extent - 1) : Copied(i)
    BY DEF WrittenInv, AllCopied, Succeeded
  <2>2. \A i : Held(i, dst[config.dstOffset + i]) => FromSource(i)
    BY DEF Held, FromSource
  <2>3. CASE bitmap = NoBitmap
    BY <2>1, <2>2, <2>3 DEF Extent, Copied, Good, InRange
  <2>4. CASE bitmap # NoBitmap
    BY <2>1, <2>2, <2>4 DEF Extent, Copied, Good
  <2> QED BY <2>3, <2>4
<1> QED BY <1>1, <1>2, <1>3, PTL DEF CSpec
=============================================================================
