----------------------------- MODULE DiskCloner -----------------------------
(***************************************************************************)
(* DiskCloner::clone(): one copy from disk to disk, while the file system  *)
(* on the source goes on writing (the source is not locked) and the user   *)
(* may cancel.  The destination's volumes are locked first; the bytes are  *)
(* copied (raw, or smart: only the clusters in the allocation bitmap),     *)
(* flushed, and compared.                                                  *)
(*                                                                         *)
(* Sizes are in bytes, scaled down.  A byte of the source is its position  *)
(* and how often it has been rewritten; a byte of the destination is such  *)
(* a value, a zero, what was there before, or what lay beyond a buffer.    *)
(***************************************************************************)
EXTENDS Integers, Sequences, FiniteSets

CONSTANTS
  SrcTotal, DstTotal,  \* totalBytes of the two disks
  BytesPerCluster,     \* of the NTFS volume in the source range
  Occupied,            \* the clusters allocated when the clone begins
  Word,                \* uint64_t arithmetic is modulo this
  Configs,             \* the CloneConfigs, with the geometry found
  MaxSourceWrites,     \* bound: writes to the source during the clone
  MaxShortReads        \* bound: reads that return less than was asked for

Max2(a, b) == IF a < b THEN b ELSE a
Min2(a, b) == IF a < b THEN a ELSE b

ASSUME SizesAssumption ==
  /\ SrcTotal \in Nat /\ DstTotal \in Nat /\ BytesPerCluster \in Nat \ {0} /\ Word \in Nat \ {0}
  /\ Occupied \subseteq Nat
ASSUME ConfigsAssumption ==
  \A c \in Configs :
    /\ c.srcOffset \in Nat /\ c.dstOffset \in Nat /\ c.length \in Nat /\ c.bufferSize \in Nat
    /\ c.srcSector \in Nat \ {0} /\ c.dstSector \in Nat \ {0}
    /\ Max2(c.srcSector, c.dstSector) % c.srcSector = 0
    /\ Max2(c.srcSector, c.dstSector) % c.dstSector = 0
    /\ c.letters \in Seq(STRING)
ASSUME BoundsAssumption == MaxSourceWrites \in Nat /\ MaxShortReads \in Nat

VARIABLES
  config,           \* the argument of clone()
  pc,               \* where clone() is
  length,           \* cloneLength
  done,             \* bytesTransferred, then bytesVerified
  cluster,          \* loop variable of cloneSmart()
  bitmap,           \* the volume bitmap cloneSmart() got; NoBitmap for raw
  buf,              \* what has been read and not yet written
  dst,              \* the destination
  locked,           \* lockedVolumes
  cancelRequested,  \* m_cancelRequested
  result,           \* what clone() is going to return
  version,          \* of every byte of the source: times rewritten
  allocated,        \* of the source volume, now
  shorts,           \* short reads so far
  late              \* ghost: source bytes rewritten after they were verified

job  == <<config, pc, length, done, cluster, bitmap, buf, result>>
env  == <<version, allocated, late>>
vars == <<job, dst, locked, cancelRequested, env, shorts>>

SrcBytes == 0..(SrcTotal - 1)
DstBytes == 0..(DstTotal - 1)
NoBitmap == {-1}

(* The byte at c of the source, rewritten v times.  Free space may be all  *)
(* zeros.                                                                  *)
Byte(kind, at, v) == [kind |-> kind, at |-> at, version |-> v]
Zero    == Byte("zero", 0, 0)
Old     == Byte("old", 0, 0)
Garbage == Byte("garbage", 0, 0)
ClusterOf(c) == (c - config.srcOffset) \div BytesPerCluster
SrcAt(c, v) == IF config.freeIsZero /\ v = 0 /\ ClusterOf(c) \notin Occupied
               THEN Zero ELSE Byte("copy", c, v)
Src(c) == SrcAt(c, version[c])

Wrap(n) == n % Word
RoundDown(n, size) == (n \div size) * size
RoundUp(n, size) == RoundDown(n + size - 1, size)

CInit ==
  /\ config \in Configs
  /\ pc = "start"
  /\ length = 0 /\ done = 0 /\ cluster = 0
  /\ bitmap = NoBitmap
  /\ buf = <<>>
  /\ dst = [c \in DstBytes |-> Old]
  /\ locked = <<>>
  /\ cancelRequested = FALSE
  /\ result = "none"
  /\ version = [c \in SrcBytes |-> 0]
  /\ allocated = Occupied
  /\ shorts = 0
  /\ late = {}

-----------------------------------------------------------------------------
(* The user and the source's file system.                                  *)
requestCancel ==
  /\ ~cancelRequested
  /\ pc # "returned"
  /\ cancelRequested' = TRUE
  /\ UNCHANGED <<job, dst, locked, env, shorts>>

(* A write allocates its cluster and may race with everything clone() does.*)
Verified(c) == pc = "verify" /\ c >= config.srcOffset /\ c < config.srcOffset + done
SourceWrite(c) ==
  /\ pc \notin {"start", "unlock", "returned"}
  /\ Cardinality({b \in SrcBytes : version[b] > 0}) < MaxSourceWrites
  /\ version[c] = 0
  /\ version' = [version EXCEPT ![c] = 1]
  /\ allocated' = allocated \cup ({ClusterOf(c)} \cap Nat)
  /\ late' = IF Verified(c) THEN late \cup {c} ELSE late
  /\ UNCHANGED <<job, dst, locked, cancelRequested, shorts>>

-----------------------------------------------------------------------------
(* Mutant: an exit that forgets the locks.                                 *)
LeaveLocked(r) == result' = r /\ pc' = "returned"

(* Leaving: nothing is locked yet, or the locks are given back first.      *)
Return(r) == result' = r /\ pc' = "returned"
Leave(r)  == result' = r /\ pc' = "unlock"

unlockVolumes ==
  /\ pc = "unlock"
  /\ locked' = <<>>
  /\ pc' = "returned"
  /\ UNCHANGED <<config, length, done, cluster, bitmap, buf, result, dst, cancelRequested, env, shorts>>

(* The checks, with unsigned arithmetic.                                   *)
Requested == IF config.length = 0 THEN SrcTotal - config.srcOffset ELSE config.length
TooLong == Wrap(config.dstOffset + Requested) > DstTotal

CloneLength == IF TooLong THEN Wrap(DstTotal - config.dstOffset) ELSE Requested
MaxSector == Max2(config.srcSector, config.dstSector)
Refused ==
  \/ ~config.valid
  \/ config.length = 0 /\ config.srcOffset > SrcTotal
  \/ Wrap(config.srcOffset + Requested) > SrcTotal
  \/ TooLong /\ ~config.allowTruncation
  \/ config.srcOffset % MaxSector # 0
  \/ config.dstOffset % MaxSector # 0

(* Opening a disk or asking for its geometry may fail too.                 *)
clone ==
  /\ pc = "start"
  /\ cancelRequested' = FALSE
  /\ \/ Return("error") /\ UNCHANGED length
     \/ ~Refused /\ length' = CloneLength /\ pc' = "lock" /\ UNCHANGED result
  /\ UNCHANGED <<config, done, cluster, bitmap, buf, dst, locked, env, shorts>>

(* Volume by volume; a failure gives back those already locked.            *)
lockDestinationVolumes ==
  /\ pc = "lock"
  /\ \/ /\ Len(locked) < Len(config.letters)
        /\ locked' = Append(locked, config.letters[Len(locked) + 1])
        /\ UNCHANGED <<pc, result>>
     \/ /\ Len(locked) < Len(config.letters)
        /\ locked' = <<>>
        /\ Return("error")
     \/ /\ Len(locked) = Len(config.letters)
        /\ pc' = "mode"
        /\ UNCHANGED <<locked, result>>
  /\ UNCHANGED <<config, length, done, cluster, bitmap, buf, dst, cancelRequested, env, shorts>>

(* A smart clone needs an NTFS volume that is exactly the range (asked for *)
(* or cut off); whatever goes wrong on the way to its bitmap makes the     *)
(* clone a raw one.                                                        *)
AlignedBufSize == RoundDown(config.bufferSize, MaxSector)
ChooseMode ==
  /\ pc = "mode"
  /\ IF AlignedBufSize = 0 THEN Leave("error") /\ UNCHANGED bitmap
     ELSE \/ pc' = "raw" /\ UNCHANGED <<bitmap, result>>
          \/ /\ config.mode = "Smart"
             /\ length > 0
             /\ bitmap' = allocated
             /\ pc' = "smart"
             /\ UNCHANGED result
  /\ UNCHANGED <<config, length, done, cluster, buf, dst, locked, cancelRequested, env, shorts>>

-----------------------------------------------------------------------------
(* readSectors(): all of it, less of it, or an error; never past the end.  *)
ReadRange(at, n) == [i \in 1..n |-> Src(at + i - 1)]
Read(at, n, next) ==
  \/ Leave("error") /\ UNCHANGED <<buf, shorts>>
  \/ /\ at + n <= SrcTotal
     /\ buf' = ReadRange(at, n)
     /\ pc' = next
     /\ UNCHANGED <<result, shorts>>
  \/ /\ shorts < MaxShortReads
     /\ at + n <= SrcTotal
     /\ \E k \in 0..(n - 1) : k % config.srcSector = 0 /\ buf' = ReadRange(at, k)
     /\ shorts' = shorts + 1
     /\ pc' = next
     /\ UNCHANGED result

(* writeSectors() of n bytes, data[i] the i-th: all of them, or an error   *)
(* after some.                                                             *)
Put(at, n, data) ==
  [c \in DstBytes |-> IF c >= at /\ c < at + n THEN data[c - at] ELSE dst[c]]
Write(at, n, data) == (n = 0 \/ at + n <= DstTotal) /\ dst' = Put(at, n, data)
WriteFails(at, n, data) == (\E k \in 0..n : dst' = Put(at, k, data)) /\ Leave("error")

(* After a chunk the progress callback is asked whether to go on.          *)
Report(next) == (pc' = next /\ UNCHANGED result) \/ Leave("canceled")

(* An NTFS volume keeps its last sector for itself, outside any cluster.   *)
TotalClusters == (length - config.srcSector) \div BytesPerCluster

(* A loop looks at the cancel flag before each of its chunks.              *)
Canceled ==
  /\ cancelRequested
  /\ \/ pc \in {"raw", "verify"} /\ done < length
     \/ pc = "smart" /\ cluster < TotalClusters
  /\ Leave("canceled")
  /\ UNCHANGED <<config, length, done, cluster, bitmap, buf, dst, locked, cancelRequested, env, shorts>>

-----------------------------------------------------------------------------
(* cloneRaw().                                                             *)
(* Mutant: always a full buffer.                                           *)
ChunkFull == AlignedBufSize

Chunk == Min2(AlignedBufSize, length - done)

RawRead ==
  /\ pc = "raw"
  /\ done < length
  /\ ~cancelRequested
  /\ Read(RoundDown(config.srcOffset + done, config.srcSector),
          RoundUp(Chunk, config.srcSector), "rawWrite")
  /\ UNCHANGED <<config, length, done, cluster, bitmap, dst, locked, cancelRequested, env>>

(* The last chunk is filled up to a sector with zeros.                     *)
Padded(n) == [i \in 0..(n - 1) |-> IF i < Len(buf) THEN buf[i + 1] ELSE Zero]
(* Mutant: whole sectors only.                                             *)
BytesToWriteSectors == RoundDown(Min2(Len(buf), Chunk), config.dstSector)

BytesToWrite == Min2(Len(buf), Chunk)
RawWrite ==
  /\ pc = "rawWrite"
  /\ LET at == RoundDown(config.dstOffset + done, config.dstSector)
         n  == RoundUp(BytesToWrite, config.dstSector)
     IN \/ Write(at, n, Padded(n)) /\ Report("raw")
        \/ WriteFails(at, n, Padded(n))
  /\ done' = done + BytesToWrite
  /\ buf' = <<>>
  /\ UNCHANGED <<config, length, cluster, bitmap, locked, cancelRequested, env, shorts>>

(* cloneSmart(): runs of clusters, copied or zeroed.  A buffer that holds  *)
(* no cluster makes every run empty: the loop then turns without reading,  *)
(* writing or asking anybody, until it sees the cancel flag.               *)
ClustersPerChunk == AlignedBufSize \div BytesPerCluster
(* Mutant: a run does not end where the allocation changes.                *)
RunUnbroken(used) == Min2(ClustersPerChunk, TotalClusters - cluster)

Run(used) ==
  LET ends == {r \in 0..ClustersPerChunk :
                 /\ cluster + r <= TotalClusters
                 /\ \A k \in 0..(r - 1) : (cluster + k \in bitmap) = used}
  IN CHOOSE r \in ends : \A s \in ends : s <= r

Zeros(n) == [i \in 0..(n - 1) |-> Zero]
SmartZero ==
  /\ pc = "smart"
  /\ cluster < TotalClusters
  /\ cluster \notin bitmap
  /\ ClustersPerChunk > 0
  /\ ~cancelRequested
  /\ LET at == RoundDown(config.dstOffset + cluster * BytesPerCluster, config.dstSector)
         n  == RoundDown(Run(FALSE) * BytesPerCluster, config.dstSector)
     IN \/ Write(at, n, Zeros(n)) /\ UNCHANGED <<pc, result>>
        \/ WriteFails(at, n, Zeros(n))
  /\ cluster' = cluster + Run(FALSE)
  /\ UNCHANGED <<config, length, done, bitmap, buf, locked, cancelRequested, env, shorts>>

SmartRead ==
  /\ pc = "smart"
  /\ cluster < TotalClusters
  /\ cluster \in bitmap
  /\ ClustersPerChunk > 0
  /\ ~cancelRequested
  /\ Read(RoundDown(config.srcOffset + cluster * BytesPerCluster, config.srcSector),
          RoundDown(Run(TRUE) * BytesPerCluster, config.srcSector), "smartWrite")
  /\ UNCHANGED <<config, length, done, cluster, bitmap, dst, locked, cancelRequested, env>>

(* Up to a sector of what lies beyond the buffer; and on to the next run,  *)
(* however short the read was.                                             *)
Beyond(n) == [i \in 0..(n - 1) |-> IF i < Len(buf) THEN buf[i + 1] ELSE Garbage]
SmartWrite ==
  /\ pc = "smartWrite"
  /\ LET at == RoundDown(config.dstOffset + cluster * BytesPerCluster, config.dstSector)
         n  == RoundUp(Len(buf), config.dstSector)
     IN \/ Write(at, n, Beyond(n)) /\ Report("smart")
        \/ WriteFails(at, n, Beyond(n))
  /\ cluster' = cluster + Run(TRUE)
  /\ buf' = <<>>
  /\ UNCHANGED <<config, length, done, bitmap, locked, cancelRequested, env, shorts>>

CopyDone ==
  /\ \/ pc = "raw" /\ done >= length
     \/ pc = "smart" /\ cluster >= TotalClusters
  /\ pc' = "flush"
  /\ UNCHANGED <<config, length, done, cluster, bitmap, buf, result, dst, locked, cancelRequested, env, shorts>>

-----------------------------------------------------------------------------
Flush ==
  /\ pc = "flush"
  /\ \/ Leave("error") /\ UNCHANGED done
     \/ config.verify /\ pc' = "verify" /\ done' = 0 /\ UNCHANGED result
     \/ ~config.verify /\ Leave("ok") /\ UNCHANGED done
  /\ UNCHANGED <<config, length, cluster, bitmap, buf, dst, locked, cancelRequested, env, shorts>>

SrcFrom == RoundDown(config.srcOffset + done, config.srcSector)
DstFrom == RoundDown(config.dstOffset + done, config.dstSector)

(* Mutant: the last byte is not compared.                                  *)
SameButLast == \A i \in 0..(Chunk - 2) : dst[DstFrom + i] = Src(SrcFrom + i)

(* verifyClone(): both sides are read again and compared.                  *)
Same == \A i \in 0..(Chunk - 1) : dst[DstFrom + i] = Src(SrcFrom + i)
Readable ==
  /\ SrcFrom + RoundUp(Chunk, config.srcSector) <= SrcTotal
  /\ DstFrom + RoundUp(Chunk, config.dstSector) <= DstTotal
verifyClone ==
  /\ pc = "verify"
  /\ done < length
  /\ ~cancelRequested
  /\ \/ Leave("error") /\ UNCHANGED done              \* a read fails or is short
     \/ Readable /\ ~Same /\ Leave("mismatch") /\ UNCHANGED done
     \/ Readable /\ Same /\ done' = done + Chunk /\ Report("verify")
  /\ UNCHANGED <<config, length, cluster, bitmap, buf, dst, locked, cancelRequested, env, shorts>>

VerifyDone ==
  /\ pc = "verify"
  /\ done >= length
  /\ Leave("ok")
  /\ UNCHANGED <<config, length, done, cluster, bitmap, buf, dst, locked, cancelRequested, env, shorts>>

Step ==
  \/ clone \/ lockDestinationVolumes \/ ChooseMode
  \/ Canceled \/ RawRead \/ RawWrite
  \/ SmartZero \/ SmartRead \/ SmartWrite \/ CopyDone
  \/ Flush \/ verifyClone \/ VerifyDone
  \/ unlockVolumes

CNext == Step \/ requestCancel \/ \E c \in SrcBytes : SourceWrite(c)

(* clone() runs on a thread of its own, which keeps going.                 *)
CSpec == CInit /\ [][CNext]_vars /\ WF_vars(Step)

-----------------------------------------------------------------------------
(* Properties.                                                             *)

(* Types: lengths and positions never go below zero, although the code     *)
(* subtracts offsets from totals it has compared only after adding them.   *)
CTypeOK ==
  /\ config \in Configs
  /\ pc \in {"start", "lock", "mode", "raw", "rawWrite", "smart", "smartWrite",
             "flush", "verify", "unlock", "returned"}
  /\ length \in Nat /\ done \in Nat /\ cluster \in Nat
  /\ DOMAIN dst = DstBytes
  /\ result \in {"none", "ok", "error", "canceled", "mismatch"}
  /\ shorts \in 0..MaxShortReads
  /\ late \subseteq SrcBytes

Succeeded == pc = "returned" /\ result = "ok"
InRange == 0..(length - 1)

(***************************************************************************)
(* A verified clone is a copy: whatever was short, misplaced or skipped    *)
(* while copying, when clone() succeeds every byte of the range is the     *)
(* source's, except one rewritten on the source after it was compared.     *)
(***************************************************************************)
Agrees(i) ==
  /\ config.srcOffset + i \in SrcBytes
  /\ \/ dst[config.dstOffset + i] = Src(config.srcOffset + i)
     \/ config.srcOffset + i \in late
VerifiedMeansCopied == Succeeded /\ config.verify => \A i \in InRange : Agrees(i)

(* What makes it inductive: chunks are compared where they were meant to   *)
(* be, because everything but the last one is a whole number of sectors.   *)
OffsetsAligned == config.srcOffset % MaxSector = 0 /\ config.dstOffset % MaxSector = 0
ComparedSoFar ==
  pc = "verify" => /\ done \in Nat
                   /\ done < length => done % MaxSector = 0
                   /\ \A i \in InRange : i < done => Agrees(i)
VInv ==
  /\ config \in Configs
  /\ length \in Nat
  /\ version \in [SrcBytes -> Nat]
  /\ pc \notin {"start", "returned"} => OffsetsAligned
  /\ ComparedSoFar
  /\ pc \in {"unlock", "returned"} /\ result = "ok" /\ config.verify =>
       \A i \in InRange : Agrees(i)

(***************************************************************************)
(* An unverified clone without short reads has every byte from its place   *)
(* on the source, as it was at some time during the clone; a smart one has *)
(* that for the clusters that were allocated when it took the bitmap, and  *)
(* zeros for the others.                                                   *)
(***************************************************************************)
FromSource(i) ==
  \E v \in 0..version[config.srcOffset + i] :
    dst[config.dstOffset + i] = SrcAt(config.srcOffset + i, v)
SuccessMeansWritten ==
  Succeeded /\ shorts = 0 =>
    IF bitmap = NoBitmap THEN \A i \in InRange : FromSource(i)
    ELSE \A i \in 0..(TotalClusters * BytesPerCluster - 1) :
           IF i \div BytesPerCluster \in bitmap THEN FromSource(i)
           ELSE dst[config.dstOffset + i] = Zero

(* What makes it inductive: what is in the buffer was on the source at the *)
(* place it is going to, and everything behind the loop's position is as   *)
(* it should be.                                                           *)
Held(i, byte) ==
  /\ config.srcOffset + i \in SrcBytes
  /\ \E v \in 0..version[config.srcOffset + i] : byte = SrcAt(config.srcOffset + i, v)
Good(i, byte) ==
  IF bitmap = NoBitmap \/ i \div BytesPerCluster \in bitmap THEN Held(i, byte) ELSE byte = Zero
Copied(i) == config.dstOffset + i \in DstBytes /\ Good(i, dst[config.dstOffset + i])
Extent == IF bitmap = NoBitmap THEN length ELSE TotalClusters * BytesPerCluster
ModeInv ==
  /\ allocated \subseteq Nat /\ version \in [SrcBytes -> Nat]
  /\ pc \in {"start", "lock", "mode", "raw", "rawWrite"} => bitmap = NoBitmap
  /\ pc \in {"start", "lock", "mode"} => done = 0 /\ cluster = 0
  /\ pc \in {"smart", "smartWrite"} => bitmap \subseteq Nat /\ config.mode = "Smart"
RawInv ==
  /\ pc \in {"raw", "rawWrite"} => /\ done < length => done % MaxSector = 0
                                  /\ \A i \in InRange : i < done => Copied(i)
  /\ pc = "rawWrite" => /\ Chunk <= Len(buf)
                        /\ \A i \in 0..(Chunk - 1) : Held(done + i, buf[i + 1])
SmartInv ==
  /\ pc \in {"smart", "smartWrite"} => \A i \in 0..(cluster * BytesPerCluster - 1) : Copied(i)
  /\ pc = "smartWrite" => /\ Len(buf) = Run(TRUE) * BytesPerCluster
                          /\ \A i \in 0..(Len(buf) - 1) : Held(cluster * BytesPerCluster + i, buf[i + 1])
AllCopied ==
  pc \in {"flush", "verify"} \/ (pc \in {"unlock", "returned"} /\ result = "ok") =>
    \A i \in 0..(Extent - 1) : Copied(i)
WrittenInv == ModeInv /\ (shorts = 0 => RawInv /\ SmartInv /\ AllCopied)

(* What the smart mode relies on: a cluster is a whole number of sectors,  *)
(* of the source and of the destination.                                   *)
ClusterSectors ==
  \A c \in Configs : c.mode = "Smart" => BytesPerCluster % Max2(c.srcSector, c.dstSector) = 0

(***************************************************************************)
(* However clone() ends, and with sector sizes that differ, it has written *)
(* only to the range it was given, rounded up to a sector.                 *)
(***************************************************************************)
OnlyRangeWritten ==
  \A c \in DstBytes :
    dst[c] # Old => /\ c >= config.dstOffset
                    /\ c < RoundUp(config.dstOffset + length, config.dstSector)

(* What makes it inductive: a chunk that has been read is no longer than   *)
(* what is left of the range, or than the run of clusters it came from.    *)
RangeInv ==
  /\ CTypeOK
  /\ pc = "start" => \A c \in DstBytes : dst[c] = Old
  /\ pc \notin {"start", "returned"} => OffsetsAligned
  /\ pc = "rawWrite" => done < length /\ Len(buf) \in Nat
  /\ pc = "smartWrite" => cluster < TotalClusters /\ Len(buf) \in 0..(Run(TRUE) * BytesPerCluster)
  /\ OnlyRangeWritten

(***************************************************************************)
(* All the volumes named in the config are locked whenever the destination *)
(* may be written, and none is once clone() has returned, whichever of its *)
(* exits it took.                                                          *)
(***************************************************************************)
LocksHeld ==
  /\ pc \notin {"start", "lock", "returned"} => locked = config.letters
  /\ pc = "returned" => locked = <<>>

(* The locks taken so far are the first of those asked for.                *)
LocksInOrder ==
  /\ pc = "start" => locked = <<>>
  /\ pc = "lock" => /\ locked \in Seq(STRING)
                    /\ Len(locked) <= Len(config.letters)
                    /\ \A i \in 1..Len(locked) : locked[i] = config.letters[i]

(***************************************************************************)
(* clone() returns: every turn of its loops makes progress, since only     *)
(* finitely many reads come back short.  A smart clone with a buffer       *)
(* smaller than a cluster is the exception: it turns for ever, and returns *)
(* only if it is cancelled.                                                *)
(***************************************************************************)
Turning == pc = "smart" /\ cluster < TotalClusters /\ ClustersPerChunk = 0 /\ ~cancelRequested
CloneReturns == <>(pc = "returned") \/ <>[]Turning
=============================================================================
