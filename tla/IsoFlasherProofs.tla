-------------------------- MODULE IsoFlasherProofs --------------------------
(***************************************************************************)
(* Theorems about IsoFlasher for files, disks, sectors and buffers of any  *)
(* size, any volumes, and any number of faults and replacements of the     *)
(* file: what is written is guarded, and success means what it says.       *)
(***************************************************************************)
EXTENDS IsoFlasher, TLAPS, SequenceTheorems

-----------------------------------------------------------------------------
(* Sectors.                                                                *)

(* A factor is smaller if the product is.                                  *)
LEMMA FactorLess ==
  ASSUME NEW a \in Int, NEW b \in Int, NEW s \in Nat \ {0}, a * s < b * s
  PROVE  a < b
<1>1. ASSUME b <= a PROVE FALSE
  <2>1. b * s <= a * s
    BY <1>1
  <2> QED BY <2>1
<1> QED BY <1>1

(* The quotient of a number of whole sectors is that number.               *)
LEMMA WholeSectors ==
  ASSUME NEW k \in Nat, NEW s \in Nat \ {0}
  PROVE  k * s \in Nat /\ (k * s) \div s = k /\ (k * s) % s = 0
<1> DEFINE q == (k * s) \div s
           r == (k * s) % s
<1>0. k * s \in Nat
  OBVIOUS
<1>1. q \in Nat /\ r \in Nat /\ r < s /\ k * s = q * s + r
  BY <1>0
<1> HIDE DEF q, r
<1>2. q * s \in Nat /\ (k + 1) * s = k * s + s /\ (q + 1) * s = q * s + s
  BY <1>1
<1>3. q < k + 1
  <2>1. q * s < (k + 1) * s
    BY <1>0, <1>1, <1>2
  <2> QED
    BY <1>1, <2>1, FactorLess
<1>4. k < q + 1
  <2>1. k * s < (q + 1) * s
    BY <1>0, <1>1, <1>2
  <2> QED
    BY <1>1, <2>1, FactorLess
<1>5. q = k
  BY <1>1, <1>3, <1>4
<1>6. r = 0
  BY <1>0, <1>1, <1>5
<1> QED
  BY <1>0, <1>5, <1>6 DEF q, r

(* A number at a sector's boundary is a number of whole sectors.           *)
LEMMA AtBoundary ==
  ASSUME NEW p \in Nat, NEW s \in Nat \ {0}, p % s = 0
  PROVE  p \div s \in Nat /\ (p \div s) * s = p
<1>1. p \div s \in Nat /\ p = (p \div s) * s + (p % s)
  OBVIOUS
<1> QED
  BY <1>1

(* Rounding up covers, and what ends before the end of some sectors still  *)
(* does when it is rounded up.                                             *)
LEMMA RoundsUp ==
  ASSUME NEW n \in Nat, NEW s \in Nat \ {0}
  PROVE  /\ ((n + s - 1) \div s) * s \in Nat
         /\ n <= ((n + s - 1) \div s) * s
         /\ \A m \in Nat : n <= m * s => ((n + s - 1) \div s) * s <= m * s
<1> DEFINE q == (n + s - 1) \div s
<1>1. n + s - 1 \in Nat
  OBVIOUS
<1>2. q \in Nat /\ q * s <= n + s - 1 /\ n + s - 1 < (q + 1) * s
  BY <1>1
<1>3. (q + 1) * s = q * s + s /\ q * s \in Nat
  BY <1>2
<1>4. n <= q * s
  BY <1>2, <1>3
<1>5. ASSUME NEW m \in Nat, n <= m * s PROVE q * s <= m * s
  <2>1. (m + 1) * s = m * s + s /\ m * s \in Nat
    OBVIOUS
  <2>2. q * s < (m + 1) * s
    BY <1>2, <1>3, <1>5, <2>1
  <2>3. q < m + 1
    BY <1>2, <2>2, FactorLess
  <2> QED
    BY <1>2, <2>3
<1> QED
  BY <1>3, <1>4, <1>5

(* A chunk that begins at a boundary and ends before some size ends, with  *)
(* its last sector filled up, before the last sector of that size does.    *)
LEMMA ChunkInSize ==
  ASSUME NEW p \in Nat, NEW n \in Nat, NEW t \in Nat, NEW s \in Nat \ {0}, p % s = 0, p + n <= t
  PROVE  p + ((n + s - 1) \div s) * s <= ((t + s - 1) \div s) * s
<1>1. PICK k \in Nat : p = k * s
  BY AtBoundary
<1>2. PICK u \in Nat : u = (t + s - 1) \div s
  <2>1. t + s - 1 \in Nat
    OBVIOUS
  <2> QED
    BY <2>1
<1>3. t <= u * s
  BY <1>2, RoundsUp
<1>4. k * s \in Nat /\ u * s \in Nat /\ (u + 1) * s = u * s + s
  OBVIOUS
<1>5. k <= u
  <2>1. k * s < (u + 1) * s
    BY <1>1, <1>3, <1>4
  <2>2. k < u + 1
    BY <2>1, FactorLess
  <2> QED
    BY <2>2
<1>6. PICK m \in Nat : m = u - k
  BY <1>5
<1>7. m * s = u * s - k * s
  BY <1>6
<1>8. n <= m * s
  BY <1>1, <1>3, <1>4, <1>7
<1>9. PICK x \in Nat : x = ((n + s - 1) \div s) * s
  BY RoundsUp
<1>10. x <= m * s
  BY <1>8, <1>9, RoundsUp
<1>11. k * s + x <= u * s
  BY <1>4, <1>7, <1>10
<1> QED
  BY <1>1, <1>2, <1>9, <1>11

(* Two numbers at a boundary add up to one.                                *)
LEMMA SumAtBoundary ==
  ASSUME NEW p \in Nat, NEW n \in Nat, NEW s \in Nat \ {0}, p % s = 0, n % s = 0
  PROVE  (p + n) % s = 0
<1>1. PICK j \in Nat : p = j * s
  BY AtBoundary
<1>2. PICK k \in Nat : n = k * s
  BY AtBoundary
<1>3. PICK m \in Nat : m = j + k
  OBVIOUS
<1>4. p + n = m * s
  BY <1>1, <1>2, <1>3
<1>5. (m * s) % s = 0
  BY WholeSectors
<1> QED
  BY <1>4, <1>5

-----------------------------------------------------------------------------
(* Buffers, chunks and what they leave on the disk.                        *)

(* The numbers of a flash.                                                 *)
LEMMA Numbers ==
  ASSUME ITypeOK
  PROVE  /\ cfg.sector \in Nat \ {0} /\ cfg.buffer \in Nat \ {0}
         /\ Aligned \in Nat /\ Aligned % cfg.sector = 0
         /\ pos \in Nat /\ size \in Nat /\ pos <= size /\ size <= DiskUnits
         /\ DiskUnits \in Nat
         /\ Len(file.data) \in Nat
         /\ file.data \in Seq({file.data[i] : i \in DOMAIN file.data})
<1>1. cfg.sector \in Nat \ {0} /\ cfg.buffer \in Nat \ {0} /\ DiskUnits \in Nat
  BY IsoAssumption DEF ITypeOK, Config
<1>2. cfg.buffer \div cfg.sector \in Nat
  BY <1>1
<1>3. Aligned \in Nat /\ Aligned % cfg.sector = 0
  BY <1>1, <1>2, WholeSectors DEF Aligned
<1>4. file.data \in Seq({file.data[i] : i \in DOMAIN file.data})
  BY IsoAssumption DEF ITypeOK
<1>5. Len(file.data) \in Nat
  BY <1>4
<1>6. pos \in Nat /\ size \in Nat /\ pos <= size /\ size <= DiskUnits
  BY <1>1 DEF ITypeOK
<1> QED
  BY <1>1, <1>3, <1>4, <1>5, <1>6

(* What ReadFile delivers is the file from the position on; it delivers    *)
(* nothing only at inputSize or at the file's end.                         *)
LEMMA ChunkFacts ==
  ASSUME ITypeOK
  PROVE  /\ Len(Chunk) \in Nat
         /\ Chunk # <<>> =>
              /\ Len(Chunk) > 0
              /\ pos < size /\ pos + Len(Chunk) <= size
              /\ pos < Len(file.data) /\ pos + Len(Chunk) <= Len(file.data)
              /\ \A i \in 1..Len(Chunk) : Chunk[i] = file.data[pos + i]
              /\ \/ pos + Len(Chunk) = pos + Aligned
                 \/ pos + Len(Chunk) = size
                 \/ pos + Len(Chunk) = Len(file.data)
         /\ Chunk = <<>> /\ Aligned > 0 => pos >= size \/ pos >= Len(file.data)
         /\ Chunk \in Seq({file.data[i] : i \in DOMAIN file.data})
<1>1. PICK d \in Seq({file.data[i] : i \in DOMAIN file.data}) : d = file.data
  BY Numbers
<1>2. PICK n \in Nat, a \in Nat, p \in Nat, t \in Nat :
        n = Len(d) /\ a = Aligned /\ p = pos /\ t = size
  BY Numbers
<1>3. PICK e \in Nat : e = Minimum(n, Minimum(p + a, t))
  BY DEF Minimum
<1>4. e <= n /\ e <= p + a /\ e <= t /\ (e = n \/ e = p + a \/ e = t)
  BY <1>3 DEF Minimum
<1>5. Chunk = SubSeq(d, p + 1, e)
  BY <1>1, <1>2, <1>3 DEF Chunk
<1>6. \A i \in (p + 1)..e : d[i] \in {file.data[j] : j \in DOMAIN file.data}
  BY <1>2, <1>4
<1>7. /\ SubSeq(d, p + 1, e) \in Seq({file.data[i] : i \in DOMAIN file.data})
      /\ Len(SubSeq(d, p + 1, e)) = IF p + 1 <= e THEN e - (p + 1) + 1 ELSE 0
      /\ \A i \in 1..(e - (p + 1) + 1) : SubSeq(d, p + 1, e)[i] = d[(p + 1) + i - 1]
  <2>1. PICK S : S = {file.data[i] : i \in DOMAIN file.data}
    OBVIOUS
  <2>2. PICK m \in Int : m = p + 1
    OBVIOUS
  <2>3. \A i \in m..e : d[i] \in S
    BY <1>6, <2>1, <2>2
  <2>4. /\ SubSeq(d, m, e) \in Seq(S)
        /\ Len(SubSeq(d, m, e)) = IF m <= e THEN e - m + 1 ELSE 0
        /\ \A i \in 1..e - m + 1 : SubSeq(d, m, e)[i] = d[m + i - 1]
    BY <2>3, SubSeqProperties
  <2> QED
    BY <2>1, <2>2, <2>4
<1>8. PICK c \in Seq({file.data[i] : i \in DOMAIN file.data}) : c = Chunk
  BY <1>5, <1>7
<1>9. c # <<>> <=> p + 1 <= e
  <2>1. c # <<>> <=> Len(c) # 0
    OBVIOUS
  <2>2. Len(c) = IF p + 1 <= e THEN e - (p + 1) + 1 ELSE 0
    BY <1>5, <1>7, <1>8
  <2> QED
    BY <2>1, <2>2
<1>10. ASSUME c # <<>>
       PROVE  /\ Len(c) = e - p /\ Len(c) > 0
              /\ \A i \in 1..Len(c) : c[i] = d[p + i]
  <2>1. p + 1 <= e
    BY <1>9, <1>10
  <2>2. Len(c) = e - (p + 1) + 1
    BY <1>5, <1>7, <1>8, <2>1
  <2>3. \A i \in 1..(e - (p + 1) + 1) : c[i] = d[(p + 1) + i - 1]
    BY <1>5, <1>7, <1>8
  <2>4. Len(c) = e - p /\ Len(c) > 0 /\ e - (p + 1) + 1 = e - p
    BY <2>1, <2>2
  <2>5. \A i \in 1..Len(c) : c[i] = d[p + i]
    <3> SUFFICES ASSUME NEW i \in 1..Len(c) PROVE c[i] = d[p + i]
      OBVIOUS
    <3>1. (p + 1) + i - 1 = p + i /\ i \in 1..(e - (p + 1) + 1)
      BY <2>2
    <3> QED
      BY <2>3, <3>1
  <2> QED
    BY <2>4, <2>5
<1>11. ASSUME c # <<>>
       PROVE  /\ p < t /\ p + Len(c) <= t /\ p < n /\ p + Len(c) <= n
              /\ p + Len(c) = p + a \/ p + Len(c) = t \/ p + Len(c) = n
  BY <1>4, <1>9, <1>10, <1>11
<1>12. c = <<>> /\ a > 0 => p >= t \/ p >= n
  BY <1>3, <1>9 DEF Minimum
<1>13. Len(c) \in Nat
  OBVIOUS
<1> QED
  BY <1>1, <1>2, <1>8, <1>10, <1>11, <1>12, <1>13

(* At a boundary, chunks begin where the loop is.                          *)
LEMMA FirstIsPos ==
  ASSUME ITypeOK, pos % cfg.sector = 0
  PROVE  First = pos
  BY Numbers, AtBoundary DEF First

(* The table in the first unit changes neither the length of a chunk nor   *)
(* another unit.                                                           *)
LEMMA PatchedFacts ==
  ASSUME NEW S, NEW c \in Seq(S), c # <<>>
  PROVE  /\ Len(Patched(c)) = Len(c)
         /\ \A i \in 1..Len(c) : Patched(c)[i] =
              IF i = 1 /\ ~hybrid /\ ~(pos > 0) THEN Table(c[1]) ELSE c[i]
<1>1. CASE hybrid \/ pos > 0
  BY <1>1 DEF Patched
<1>2. CASE ~(hybrid \/ pos > 0)
  <2>1. Patched(c) = [c EXCEPT ![1] = Table(c[1])]
    BY <1>2 DEF Patched
  <2>2. Len(c) \in Nat /\ 1 \in 1..Len(c)
    OBVIOUS
  <2>3. [c EXCEPT ![1] = Table(c[1])] \in Seq(S \cup {Table(c[1])})
    BY <2>2
  <2>4. Len([c EXCEPT ![1] = Table(c[1])]) = Len(c)
    BY <2>2, <2>3
  <2>5. \A i \in 1..Len(c) : [c EXCEPT ![1] = Table(c[1])][i] = IF i = 1 THEN Table(c[1]) ELSE c[i]
    BY <2>2
  <2> QED
    BY <1>2, <2>1, <2>4, <2>5
<1> QED
  BY <1>1, <1>2

-----------------------------------------------------------------------------
(* Types, locks, and what is decided before the first write.               *)

(* Every step keeps the types.                                             *)
LEMMA ITypeStep == ITypeOK /\ LockInv /\ BeforeInv /\ [INext]_ivars => ITypeOK'
<1> SUFFICES ASSUME ITypeOK, LockInv, BeforeInv, [INext]_ivars PROVE ITypeOK'
  OBVIOUS
<1> USE DEF Return
<1>1. CASE UNCHANGED ivars
  BY <1>1 DEF ivars, ITypeOK
<1>2. CASE onFlashIso \/ refreshDisks \/ FlashNo \/ requestCancel
  BY <1>2 DEF onFlashIso, refreshDisks, FlashNo, requestCancel, ITypeOK
<1>3. CASE FlashYes
  <2>1. locked = {}
    BY <1>3 DEF FlashYes, LockInv
  <2> QED
    BY <1>3, <2>1 DEF FlashYes, ITypeOK
<1>4. CASE ReplaceFile \/ isHybridIso \/ Reopen
  <2>1. file' \in Contents
    BY <1>4 DEF ReplaceFile, isHybridIso, Reopen, ITypeOK
  <2>2. hybrid' \in BOOLEAN
    BY <1>4 DEF ReplaceFile, isHybridIso, Reopen, ITypeOK
  <2> QED
    BY <1>4, <2>1, <2>2 DEF ReplaceFile, isHybridIso, Reopen, ITypeOK
<1>5. CASE FlashRefused \/ LockFails \/ LockVolume \/ FlashReturns
  BY <1>5 DEF FlashRefused, LockFails, LockVolume, FlashReturns, ITypeOK
<1>6. CASE FlashOpen
  <2>1. pos = 0 /\ size' = Len(file.data) /\ Len(file.data) <= DiskUnits /\ pos' = pos
    BY <1>6 DEF FlashOpen, BeforeInv
  <2>2. pos' \in 0..size' /\ size' \in 0..DiskUnits
    BY <2>1, Numbers
  <2> QED
    BY <1>6, <2>2 DEF FlashOpen, ITypeOK
<1>7. CASE Locked
  <2>1. pos' \in 0..size
    BY <1>7, Numbers DEF Locked
  <2> QED
    BY <1>7, <2>1 DEF Locked, ITypeOK
<1>8. CASE BufferTooSmall \/ Canceled \/ FlashReadFails \/ DiskFails \/ VerifyReadFails \/ VerifyEnd
  BY <1>8 DEF BufferTooSmall, Canceled, FlashReadFails, DiskFails, VerifyReadFails, VerifyEnd, ITypeOK
<1>9. CASE WriteMbr
  BY <1>9 DEF WriteMbr, ITypeOK
<1>10. CASE FlashChunk
  <2>1. pos' \in 0..size
    BY <1>10, Numbers, ChunkFacts DEF FlashChunk
  <2>2. DOMAIN disk' = Units
    BY <1>10 DEF FlashChunk, DiskAfter, ITypeOK
  <2> QED
    BY <1>10, <2>1, <2>2 DEF FlashChunk, ITypeOK
<1>11. CASE FlashEnd
  <2>1. pos' \in 0..size
    BY <1>11, Numbers DEF FlashEnd
  <2> QED
    BY <1>11, <2>1 DEF FlashEnd, ITypeOK
<1>12. CASE VerifyChunk
  <2>1. pos' \in 0..size
    BY <1>12, Numbers, ChunkFacts DEF VerifyChunk
  <2> QED
    BY <1>12, <2>1 DEF VerifyChunk, ITypeOK
<1> QED
  BY <1>1, <1>2, <1>3, <1>4, <1>5, <1>6, <1>7, <1>8, <1>9, <1>10, <1>11, <1>12 DEF INext, Flash

(* The locks.                                                              *)
LEMMA LockStep == ITypeOK /\ LockInv /\ [INext]_ivars => LockInv'
<1> SUFFICES ASSUME ITypeOK, LockInv, [INext]_ivars PROVE LockInv'
  OBVIOUS
<1> USE DEF Return, LockInv
<1>1. CASE UNCHANGED ivars
  BY <1>1 DEF ivars
<1>2. CASE onFlashIso \/ refreshDisks \/ FlashNo \/ FlashYes \/ requestCancel \/ ReplaceFile
  BY <1>2 DEF onFlashIso, refreshDisks, FlashNo, FlashYes, requestCancel, ReplaceFile
<1>3. CASE FlashRefused \/ FlashOpen \/ LockFails \/ LockVolume \/ FlashReturns
  BY <1>3 DEF FlashRefused, FlashOpen, LockFails, LockVolume, FlashReturns
<1>4. CASE Locked
  BY <1>4 DEF Locked, ITypeOK
<1>5. CASE isHybridIso \/ Reopen \/ WriteMbr
  BY <1>5 DEF isHybridIso, Reopen, WriteMbr
<1>6. CASE BufferTooSmall \/ Canceled \/ FlashReadFails \/ DiskFails \/ VerifyReadFails \/ VerifyEnd
  BY <1>6 DEF BufferTooSmall, Canceled, FlashReadFails, DiskFails, VerifyReadFails, VerifyEnd
<1>7. CASE FlashChunk \/ FlashEnd \/ VerifyChunk
  BY <1>7 DEF FlashChunk, FlashEnd, VerifyChunk
<1> QED
  BY <1>1, <1>2, <1>3, <1>4, <1>5, <1>6, <1>7 DEF INext, Flash

(* What is decided before the first write.                                 *)
LEMMA BeforeStep == ITypeOK /\ BeforeInv /\ [INext]_ivars => BeforeInv'
<1> SUFFICES ASSUME ITypeOK, BeforeInv, [INext]_ivars PROVE BeforeInv'
  OBVIOUS
<1> USE DEF Return, BeforeInv, Succeeds
<1>1. CASE UNCHANGED ivars
  BY <1>1 DEF ivars
<1>2. CASE onFlashIso \/ refreshDisks \/ FlashNo \/ FlashYes \/ requestCancel \/ ReplaceFile
  BY <1>2 DEF onFlashIso, refreshDisks, FlashNo, FlashYes, requestCancel, ReplaceFile
<1>3. CASE FlashRefused \/ FlashOpen \/ LockFails \/ LockVolume \/ FlashReturns
  BY <1>3 DEF FlashRefused, FlashOpen, LockFails, LockVolume, FlashReturns
<1>4. CASE Locked \/ isHybridIso \/ Reopen
  BY <1>4 DEF Locked, isHybridIso, Reopen
<1>5. CASE WriteMbr
  BY <1>5 DEF WriteMbr
<1>6. CASE BufferTooSmall \/ Canceled \/ FlashReadFails \/ DiskFails \/ VerifyReadFails \/ VerifyEnd
  BY <1>6 DEF BufferTooSmall, Canceled, FlashReadFails, DiskFails, VerifyReadFails, VerifyEnd
<1>7. CASE FlashChunk
  <2>1. UNCHANGED <<file, cfg, phase, size, hybrid, result>> /\ phase = "write"
    BY <1>7 DEF FlashChunk
  <2>2. "replaced" \in spoiled => "replaced" \in spoiled'
    BY <1>7 DEF FlashChunk
  <2> QED
    BY <2>1, <2>2
<1>8. CASE FlashEnd \/ VerifyChunk
  BY <1>8 DEF FlashEnd, VerifyChunk
<1> QED
  BY <1>1, <1>2, <1>3, <1>4, <1>5, <1>6, <1>7, <1>8 DEF INext, Flash

(* FlashChunk, seen from the disk: nothing but a run of units that begins  *)
(* at the position and does not pass inputSize rounded up to sectors.      *)
LEMMA ChunkOnDisk ==
  ASSUME ITypeOK, ChunkInv, FlashChunk
  PROVE  /\ pos % cfg.sector = 0 /\ First = pos
         /\ pos' = pos + Len(Chunk) /\ size > 0
         /\ \A u \in Units : disk'[u] # disk[u] => u > pos /\ u <= Rounded(size)
         /\ \/ "lost" \in spoiled'
            \/ \A u \in (pos + 1)..(pos + Len(Chunk)) :
                 disk'[u] = IF u = 1 /\ ~hybrid THEN Table(file.data[1]) ELSE file.data[u]
<1>1. phase = "write" /\ Chunk # <<>> /\ pos' = pos + Len(Chunk)
  BY DEF FlashChunk
<1>2. PICK n \in Nat, s \in Nat \ {0}, p \in Nat, t \in Nat :
         n = Len(Chunk) /\ s = cfg.sector /\ p = pos /\ t = size
  BY Numbers, ChunkFacts
<1>3. n > 0 /\ p < t /\ p + n <= t /\ p < Len(file.data) /\ Len(file.data) \in Nat
  BY <1>1, <1>2, ChunkFacts, Numbers
<1>4. p % s = 0
  BY <1>1, <1>2, <1>3 DEF ChunkInv, Minimum
<1>5. First = p
  BY <1>2, <1>4, FirstIsPos
<1>6. PICK c : c = Patched(Chunk)
  OBVIOUS
<1>7. /\ Len(c) = n
      /\ \A i \in 1..n : c[i] = IF i = 1 /\ ~hybrid /\ ~(p > 0) THEN Table(Chunk[1]) ELSE Chunk[i]
  BY <1>1, <1>2, <1>6, ChunkFacts, PatchedFacts
<1>8. \A i \in 1..n : Chunk[i] = file.data[p + i]
  BY <1>1, <1>2, ChunkFacts
<1>9. PICK r \in Nat : r = Rounded(n)
  BY <1>2, RoundsUp DEF Rounded
<1>10. n <= r /\ p + r <= Rounded(t)
  BY <1>2, <1>3, <1>4, <1>9, RoundsUp, ChunkInSize DEF Rounded
<1>11. Rounded(t) \in Nat
  BY <1>2, RoundsUp DEF Rounded
<1>12. \A u \in Units : DiskAfter(c)[u] = IF u <= p \/ u > p + r THEN disk[u]
                                          ELSE IF u <= p + n THEN c[u - p] ELSE Zero
  BY <1>5, <1>7, <1>9 DEF DiskAfter
<1>13. disk' = disk \/ disk' = DiskAfter(c)
  BY <1>6 DEF FlashChunk
<1>14. \A u \in Units : u \in Nat
  BY DEF Units
<1>15. \A u \in Units : disk'[u] # disk[u] => u > p /\ u <= Rounded(t)
  <2> SUFFICES ASSUME NEW u \in Units, disk'[u] # disk[u] PROVE u > p /\ u <= Rounded(t)
    OBVIOUS
  <2>1. ~(u <= p \/ u > p + r)
    BY <1>12, <1>13
  <2> QED
    BY <1>10, <1>11, <1>14, <2>1
<1>16. ASSUME disk' = DiskAfter(c), NEW u \in (p + 1)..(p + n)
       PROVE  disk'[u] = IF u = 1 /\ ~hybrid THEN Table(file.data[1]) ELSE file.data[u]
  <2>1. u \in Units
    BY <1>2, <1>3, Numbers DEF Units
  <2>2. PICK i \in 1..n : i = u - p
    OBVIOUS
  <2>3. ~(u <= p \/ u > p + r) /\ u <= p + n /\ p + i = u /\ (u = 1 <=> i = 1 /\ ~(p > 0))
    BY <1>10, <2>2
  <2>4. disk'[u] = c[i]
    BY <1>12, <1>16, <2>1, <2>2, <2>3
  <2>5. 1 \in 1..n
    BY <1>3
  <2>6. c[i] = IF i = 1 /\ ~hybrid /\ ~(p > 0) THEN Table(file.data[p + 1]) ELSE file.data[u]
    BY <1>7, <1>8, <2>3, <2>5
  <2>7. i = 1 /\ ~(p > 0) => p + 1 = 1
    OBVIOUS
  <2> QED
    BY <2>3, <2>4, <2>6, <2>7
<1>17. "lost" \in spoiled' \/ disk' = DiskAfter(c)
  BY <1>6 DEF FlashChunk
<1>18. \/ "lost" \in spoiled'
       \/ \A u \in (p + 1)..(p + n) :
            disk'[u] = IF u = 1 /\ ~hybrid THEN Table(file.data[1]) ELSE file.data[u]
  BY <1>16, <1>17
<1> QED
  BY <1>1, <1>2, <1>3, <1>4, <1>5, <1>15, <1>18

(* Nothing is written behind what was compared with the disk's size.       *)
LEMMA BehindStep ==
  ITypeOK /\ BeforeInv /\ ChunkInv /\ NothingBehind /\ [INext]_ivars => NothingBehind'
<1> SUFFICES ASSUME ITypeOK, BeforeInv, ChunkInv, NothingBehind, [INext]_ivars PROVE NothingBehind'
  OBVIOUS
<1> USE DEF Return
<1>0. cfg' = cfg
  BY DEF INext, Flash, ivars, onFlashIso, refreshDisks, FlashNo, FlashYes, requestCancel, ReplaceFile,
     FlashRefused, FlashOpen, LockFails, LockVolume, Locked, isHybridIso, Reopen, WriteMbr,
     BufferTooSmall, Canceled, FlashChunk, FlashReadFails, DiskFails, FlashEnd, VerifyChunk,
     VerifyReadFails, VerifyEnd, FlashReturns
<1>1. CASE UNCHANGED <<disk, size, hybrid>>
  BY <1>0, <1>1 DEF NothingBehind, Rounded
<1>2. CASE FlashOpen \/ Locked \/ isHybridIso
  <2>1. disk' = disk /\ \A u \in Units : disk[u] = Old
    BY <1>2 DEF FlashOpen, Locked, isHybridIso, BeforeInv
  <2> QED
    BY <2>1 DEF NothingBehind, Old
<1>3. CASE WriteMbr
  <2>1. /\ ~cfg.fixed /\ ~hybrid /\ UNCHANGED <<size, hybrid>>
        /\ disk' = [u \in Units |-> IF u = 1 THEN Table(Zero) ELSE IF u <= cfg.sector THEN Zero ELSE disk[u]]
    BY <1>3 DEF WriteMbr, BeforeInv
  <2>2. \A u \in Units : u <= cfg.sector \/ disk'[u] = disk[u]
    BY <2>1, Numbers
  <2> QED
    BY <1>0, <2>1, <2>2 DEF NothingBehind, Rounded, Old
<1>4. CASE FlashChunk
  <2>1. /\ ~cfg.fixed /\ UNCHANGED <<size, hybrid>> /\ size > 0
        /\ \A u \in Units : disk'[u] # disk[u] => u <= Rounded(size)
    BY <1>4, ChunkOnDisk DEF FlashChunk, BeforeInv
  <2> QED
    BY <1>0, <2>1 DEF NothingBehind, Rounded, Old
<1>5. CASE UNCHANGED ivars \/ onFlashIso \/ refreshDisks \/ FlashNo \/ FlashYes \/ requestCancel \/ ReplaceFile
  BY <1>1, <1>5 DEF ivars, onFlashIso, refreshDisks, FlashNo, FlashYes, requestCancel, ReplaceFile
<1>6. CASE FlashRefused \/ LockFails \/ LockVolume \/ Reopen \/ FlashReturns \/ BufferTooSmall \/ Canceled
  BY <1>1, <1>6 DEF FlashRefused, LockFails, LockVolume, Reopen, FlashReturns, BufferTooSmall, Canceled
<1>7. CASE FlashReadFails \/ DiskFails \/ FlashEnd \/ VerifyChunk \/ VerifyReadFails \/ VerifyEnd
  BY <1>1, <1>7 DEF FlashReadFails, DiskFails, FlashEnd, VerifyChunk, VerifyReadFails, VerifyEnd
<1> QED
  BY <1>2, <1>3, <1>4, <1>5, <1>6, <1>7 DEF INext, Flash

(* After a chunk the loop is at a boundary again, or at the end.           *)
LEMMA NextBoundary ==
  ASSUME ITypeOK, ChunkInv, phase \in {"write", "verify"}, Chunk # <<>>
  PROVE  \/ (pos + Len(Chunk)) % cfg.sector = 0
         \/ pos + Len(Chunk) >= Minimum(size, Len(file.data))
<1>1. /\ pos < size /\ pos < Len(file.data)
      /\ \/ pos + Len(Chunk) = pos + Aligned
         \/ pos + Len(Chunk) = size
         \/ pos + Len(Chunk) = Len(file.data)
  BY ChunkFacts
<1>2. pos % cfg.sector = 0
  BY <1>1, Numbers DEF ChunkInv, Minimum
<1>3. (pos + Aligned) % cfg.sector = 0
  BY <1>2, Numbers, SumAtBoundary
<1>4. CASE pos + Len(Chunk) = pos + Aligned
  BY <1>3, <1>4
<1>5. CASE pos + Len(Chunk) = size \/ pos + Len(Chunk) = Len(file.data)
  <2>1. size >= Minimum(size, Len(file.data)) /\ Len(file.data) >= Minimum(size, Len(file.data))
    BY Numbers DEF Minimum
  <2> QED
    BY <1>5, <2>1
<1> QED
  BY <1>1, <1>4, <1>5

(* Both loops stay at boundaries.                                          *)
LEMMA ChunkStep == ITypeOK /\ BeforeInv /\ ChunkInv /\ [INext]_ivars => ChunkInv'
<1> SUFFICES ASSUME ITypeOK, BeforeInv, ChunkInv, [INext]_ivars PROVE ChunkInv'
  OBVIOUS
<1> USE DEF Return
<1>0. 0 % cfg.sector = 0
  <2>1. 0 * cfg.sector = 0
    BY Numbers
  <2> QED
    BY <2>1, Numbers, WholeSectors
<1>1. CASE phase' \notin {"write", "verify"}
  BY <1>1 DEF ChunkInv
<1>2. CASE UNCHANGED <<phase, file, cfg, size, pos, hybrid>>
  BY <1>2 DEF ChunkInv, Aligned
<1>3. CASE Locked \/ Reopen \/ WriteMbr
  <2>1. pos' = 0 /\ cfg' = cfg /\ phase' # "verify"
    BY <1>3 DEF Locked, Reopen, WriteMbr, BeforeInv
  <2> QED
    BY <1>0, <2>1 DEF ChunkInv
<1>4. CASE FlashChunk
  <2>1. phase = "write" /\ Chunk # <<>> /\ pos' = pos + Len(Chunk) /\ UNCHANGED <<phase, file, cfg, size>>
    BY <1>4 DEF FlashChunk
  <2> QED
    BY <2>1, NextBoundary DEF ChunkInv
<1>5. CASE FlashEnd
  <2>1. CASE hybrid /\ cfg.verify
    <3>1. pos' = 0 /\ UNCHANGED <<file, cfg, size, hybrid>> /\ Aligned > 0
      BY <1>5, <2>1 DEF FlashEnd
    <3> QED
      BY <1>0, <2>1, <3>1 DEF ChunkInv, Aligned
  <2>2. CASE ~(hybrid /\ cfg.verify)
    BY <1>1, <1>5, <2>2 DEF FlashEnd
  <2> QED
    BY <2>1, <2>2
<1>6. CASE VerifyChunk
  <2>1. phase = "verify" /\ Chunk # <<>> /\ UNCHANGED <<file, cfg, size, hybrid>>
    BY <1>6 DEF VerifyChunk
  <2>2. CASE phase' = phase /\ pos' = pos + Len(Chunk)
    BY <2>1, <2>2, NextBoundary DEF ChunkInv, Aligned
  <2> QED
    BY <1>1, <1>6, <2>2 DEF VerifyChunk
<1>7. CASE UNCHANGED ivars \/ requestCancel
  BY <1>2, <1>7 DEF ivars, requestCancel
<1>8. CASE onFlashIso \/ refreshDisks \/ FlashNo \/ FlashYes \/ ReplaceFile
  BY <1>1, <1>8 DEF onFlashIso, refreshDisks, FlashNo, FlashYes, ReplaceFile
<1>9. CASE FlashRefused \/ FlashOpen \/ LockFails \/ LockVolume \/ isHybridIso \/ FlashReturns
  BY <1>1, <1>9 DEF FlashRefused, FlashOpen, LockFails, LockVolume, isHybridIso, FlashReturns
<1>10. CASE BufferTooSmall \/ Canceled \/ FlashReadFails \/ DiskFails \/ VerifyReadFails \/ VerifyEnd
  BY <1>1, <1>10 DEF BufferTooSmall, Canceled, FlashReadFails, DiskFails, VerifyReadFails, VerifyEnd
<1> QED
  BY <1>3, <1>4, <1>5, <1>6, <1>7, <1>8, <1>9, <1>10 DEF INext, Flash

-----------------------------------------------------------------------------
(* What success means.                                                     *)

(* What has been written is the file.                                      *)
LEMMA WrittenStep ==
  ITypeOK /\ BeforeInv /\ ChunkInv /\ WrittenInv /\ [INext]_ivars => WrittenInv'
<1> DEFINE Spoilt == {"replaced", "read", "lost"}
<1> SUFFICES ASSUME ITypeOK, BeforeInv, ChunkInv, WrittenInv, [INext]_ivars,
                    spoiled' \cap Spoilt = {}
             PROVE  /\ phase' = "write" => OnDisk(pos)'
                    /\ phase' = "verify" \/ Succeeds' => OnDisk(size)'
  BY DEF WrittenInv
<1> USE DEF Return
<1>1. CASE phase' # "write" /\ phase' # "verify" /\ ~Succeeds'
  BY <1>1
<1>2. CASE UNCHANGED <<phase, file, size, pos, hybrid, disk, result, spoiled>>
  BY <1>2 DEF WrittenInv, OnDisk, Succeeds
<1>3. CASE Locked \/ Reopen \/ WriteMbr
  <2>1. pos' = 0 /\ phase' # "verify" /\ ~Succeeds'
    BY <1>3 DEF Locked, Reopen, WriteMbr, BeforeInv, Succeeds
  <2> QED
    BY <2>1 DEF OnDisk
<1>4. CASE FlashChunk
  <2>1. /\ phase = "write" /\ phase' = "write" /\ UNCHANGED <<file, hybrid>>
        /\ spoiled \cap Spoilt = {}
    BY <1>4 DEF FlashChunk
  <2>2. OnDisk(pos)
    BY <2>1 DEF WrittenInv
  <2>3. PICK p \in Nat, n \in Nat, t \in Nat : p = pos /\ n = Len(Chunk) /\ t = size
    BY Numbers, ChunkFacts
  <2>4. /\ pos' = p + n /\ p <= t /\ t <= DiskUnits /\ DiskUnits \in Nat
        /\ \A u \in Units : disk'[u] # disk[u] => u > p
        /\ \A u \in (p + 1)..(p + n) :
             disk'[u] = IF u = 1 /\ ~hybrid THEN Table(file.data[1]) ELSE file.data[u]
    BY <1>4, <2>3, ChunkOnDisk, Numbers
  <2>5. ASSUME NEW u \in 1..(p + n)
        PROVE  disk'[u] = IF u = 1 /\ ~hybrid THEN Table(file.data[1]) ELSE file.data[u]
    <3>1. CASE u \in 1..p
      <4>1. u \in Units /\ ~(u > p)
        BY <2>4, <3>1 DEF Units
      <4>2. disk'[u] = disk[u]
        BY <2>4, <4>1
      <4> QED
        BY <2>2, <2>3, <3>1, <4>2 DEF OnDisk
    <3>2. CASE u \in (p + 1)..(p + n)
      BY <2>4, <3>2
    <3> QED
      BY <3>1, <3>2
  <2>6. OnDisk(pos)'
    BY <2>1, <2>4, <2>5 DEF OnDisk, Table
  <2> QED
    BY <2>1, <2>6 DEF Succeeds
<1>5. CASE FlashEnd
  <2>1. /\ phase = "write" /\ phase' # "write" /\ UNCHANGED <<file, hybrid, size, disk, spoiled>>
        /\ pos >= size \/ Chunk = <<>>
        /\ Aligned > 0
    BY <1>5 DEF FlashEnd
  <2>2. OnDisk(pos)
    BY <2>1 DEF WrittenInv
  <2>3. size = Len(file.data)
    BY <2>1 DEF BeforeInv
  <2>4. pos = size
    BY <2>1, <2>3, Numbers, ChunkFacts
  <2>5. OnDisk(size)'
    BY <2>1, <2>2, <2>4 DEF OnDisk
  <2> QED
    BY <2>1, <2>5
<1>6. CASE VerifyChunk \/ VerifyReadFails \/ VerifyEnd
  <2>1. /\ phase = "verify" /\ phase' # "write" /\ UNCHANGED <<file, hybrid, size, disk>>
        /\ spoiled \subseteq spoiled'
    BY <1>6 DEF VerifyChunk, VerifyReadFails, VerifyEnd
  <2>2. OnDisk(size)
    BY <2>1 DEF WrittenInv
  <2> QED
    BY <2>1, <2>2 DEF OnDisk
<1>7. CASE FlashReturns
  BY <1>7 DEF FlashReturns, WrittenInv, OnDisk, Succeeds
<1>8. CASE FlashReadFails
  BY <1>8 DEF FlashReadFails
<1>9. CASE UNCHANGED ivars \/ requestCancel
  BY <1>2, <1>9 DEF ivars, requestCancel
<1>10. CASE onFlashIso \/ refreshDisks \/ FlashNo \/ FlashYes \/ ReplaceFile
  BY <1>1, <1>10 DEF onFlashIso, refreshDisks, FlashNo, FlashYes, ReplaceFile, Succeeds
<1>11. CASE FlashRefused \/ FlashOpen \/ LockFails \/ LockVolume \/ isHybridIso
  BY <1>1, <1>11 DEF FlashRefused, FlashOpen, LockFails, LockVolume, isHybridIso, Succeeds
<1>12. CASE BufferTooSmall \/ Canceled \/ DiskFails
  BY <1>1, <1>12 DEF BufferTooSmall, Canceled, DiskFails, Succeeds
<1> QED
  BY <1>3, <1>4, <1>5, <1>6, <1>7, <1>8, <1>9, <1>10, <1>11, <1>12 DEF INext, Flash

(* What has been compared is equal.                                        *)
LEMMA ComparedStep ==
  ITypeOK /\ BeforeInv /\ ChunkInv /\ ComparedInv /\ [INext]_ivars => ComparedInv'
<1> SUFFICES ASSUME ITypeOK, BeforeInv, ChunkInv, ComparedInv, [INext]_ivars
             PROVE  ComparedInv'
  OBVIOUS
<1> USE DEF Return
<1>1. CASE phase' # "verify" /\ ~Succeeds'
  BY <1>1 DEF ComparedInv
<1>2. CASE UNCHANGED <<phase, file, cfg, size, pos, hybrid, disk, result, spoiled>>
  BY <1>2 DEF ComparedInv, Equal, Succeeds
<1>3. CASE FlashEnd
  <2>1. CASE hybrid /\ cfg.verify
    <3>1. phase' = "verify" /\ pos' = 0
      BY <1>3, <2>1 DEF FlashEnd
    <3> QED
      BY <3>1 DEF ComparedInv, Equal, Succeeds
  <2>2. CASE ~(hybrid /\ cfg.verify)
    BY <1>3, <2>2 DEF FlashEnd, ComparedInv
  <2> QED
    BY <2>1, <2>2
<1>4. CASE FlashReadFails
  BY <1>4 DEF FlashReadFails, ComparedInv, Succeeds
<1>5. CASE VerifyChunk
  <2>1. phase = "verify" /\ Chunk # <<>> /\ UNCHANGED <<file, cfg, size, hybrid, disk>>
    BY <1>5 DEF VerifyChunk
  <2>2. CASE Same(Chunk)
    <3>1. phase' = "verify" /\ pos' = pos + Len(Chunk)
      BY <1>5, <2>1, <2>2 DEF VerifyChunk
    <3>2. PICK p \in Nat, n \in Nat : p = pos /\ n = Len(Chunk)
      BY Numbers, ChunkFacts
    <3>3. First = p
      <4>1. pos < size /\ pos < Len(file.data)
        BY <2>1, ChunkFacts
      <4>2. pos % cfg.sector = 0
        BY <2>1, <4>1, Numbers DEF ChunkInv, Minimum
      <4> QED
        BY <3>2, <4>2, FirstIsPos
    <3>4. \A i \in 1..n : disk[p + i] = file.data[p + i]
      BY <2>1, <2>2, <3>2, <3>3, ChunkFacts DEF Same
    <3>5. \A u \in 1..p : disk[u] = file.data[u]
      BY <2>1, <3>2 DEF ComparedInv, Equal
    <3>6. ASSUME NEW u \in 1..(p + n) PROVE disk[u] = file.data[u]
      <4>1. CASE u \in 1..p
        BY <3>5, <4>1
      <4>2. CASE u > p
        <5>1. PICK i \in 1..n : i = u - p
          BY <4>2
        <5>2. p + i = u
          BY <5>1
        <5> QED
          BY <3>4, <5>2
      <4> QED
        BY <4>1, <4>2
    <3> QED
      BY <2>1, <3>1, <3>2, <3>6 DEF ComparedInv, Equal, Succeeds
  <2>3. CASE ~Same(Chunk)
    <3>1. phase' = "return" /\ result' = "mismatch"
      BY <1>5, <2>3 DEF VerifyChunk
    <3> QED
      BY <1>1, <3>1 DEF Succeeds
  <2> QED
    BY <2>2, <2>3
<1>6. CASE VerifyReadFails
  BY <1>6 DEF VerifyReadFails, ComparedInv
<1>7. CASE VerifyEnd
  <2>1. /\ phase = "verify" /\ phase' = "return" /\ UNCHANGED <<file, size, disk>>
        /\ pos >= size \/ Chunk = <<>>
    BY <1>7 DEF VerifyEnd
  <2>2. Equal(pos) /\ Aligned > 0
    BY <2>1 DEF ComparedInv, ChunkInv
  <2>3. pos >= size \/ pos >= Len(file.data)
    BY <2>1, <2>2, ChunkFacts
  <2>4. PICK m \in Nat : m = Minimum(size, Len(file.data))
    BY Numbers DEF Minimum
  <2>5. m <= pos /\ pos \in Nat
    BY <2>3, <2>4, Numbers DEF Minimum
  <2>6. \A u \in 1..m : disk[u] = file.data[u]
    BY <2>2, <2>5 DEF Equal
  <2> QED
    BY <2>1, <2>4, <2>6 DEF ComparedInv, Equal
<1>8. CASE FlashReturns
  BY <1>8 DEF FlashReturns, ComparedInv, Equal, Succeeds
<1>9. CASE UNCHANGED ivars \/ requestCancel
  BY <1>2, <1>9 DEF ivars, requestCancel
<1>10. CASE onFlashIso \/ refreshDisks \/ FlashNo \/ FlashYes \/ ReplaceFile
  BY <1>1, <1>10 DEF onFlashIso, refreshDisks, FlashNo, FlashYes, ReplaceFile, Succeeds
<1>11. CASE FlashRefused \/ FlashOpen \/ LockFails \/ LockVolume \/ Locked \/ isHybridIso \/ Reopen \/ WriteMbr
  BY <1>1, <1>11 DEF FlashRefused, FlashOpen, LockFails, LockVolume, Locked, isHybridIso, Reopen,
     WriteMbr, Succeeds
<1>12. CASE BufferTooSmall \/ Canceled \/ DiskFails \/ FlashChunk
  BY <1>1, <1>12 DEF BufferTooSmall, Canceled, DiskFails, FlashChunk, Succeeds
<1> QED
  BY <1>3, <1>4, <1>5, <1>6, <1>7, <1>8, <1>9, <1>10, <1>11, <1>12 DEF INext, Flash

(* A tab on which no flash has begun.                                      *)
LEMMA IInitInv == IInit => IsoInv
<1> SUFFICES ASSUME IInit PROVE IsoInv
  OBVIOUS
<1>0. DiskUnits \in Nat
  BY IsoAssumption
<1>a. size = 0 /\ pos = 0 /\ size \in 0..DiskUnits /\ pos \in 0..size
  BY <1>0 DEF IInit
<1>1. ITypeOK
  BY <1>a DEF IInit, ITypeOK
<1>2. LockInv /\ ChunkInv /\ WrittenInv /\ ComparedInv
  BY DEF IInit, LockInv, ChunkInv, WrittenInv, ComparedInv, Succeeds
<1>3. BeforeInv /\ NothingBehind
  BY DEF IInit, BeforeInv, NothingBehind, Succeeds
<1> QED
  BY <1>1, <1>2, <1>3 DEF IsoInv

(* The inductive invariant holds in every reachable state.                 *)
THEOREM IsoInvariant == ISpec => []IsoInv
<1>1. IsoInv /\ [INext]_ivars => IsoInv'
  BY ITypeStep, LockStep, BeforeStep, BehindStep, ChunkStep, WrittenStep, ComparedStep DEF IsoInv
<1> QED
  BY <1>1, IInitInv, PTL DEF ISpec

(* The target is written only under the locks, only if it is removable,    *)
(* and never behind the size that was compared with the disk's.            *)
THEOREM FlashWritesGuarded == ISpec => []WritesGuarded
<1>1. IsoInv => WritesGuarded
  BY DEF IsoInv, WritesGuarded, LocksWhileFlashing, LockInv, Writing, Running
<1> QED
  BY <1>1, IsoInvariant, PTL

(* A flash that reports success has put the file on the disk, unless the   *)
(* file was replaced or something was lost silently; and after a           *)
(* verification the disk holds what is in the file, whatever was.          *)
THEOREM FlashSuccessMeans == ISpec => []SuccessMeansFlashed
<1>1. IsoInv => SuccessMeansFlashed
  BY DEF IsoInv, SuccessMeansFlashed, FlashedIsFile, VerifiedIsFile, WrittenInv, ComparedInv,
     OnDisk, Equal, Succeeds
<1> QED
  BY <1>1, IsoInvariant, PTL
=============================================================================
