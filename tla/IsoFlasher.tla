------------------------------ MODULE IsoFlasher ------------------------------
(***************************************************************************)
(* ImagingTab::onFlashIso and IsoFlasher::flash: an ISO or IMG file is     *)
(* written to a removable disk and read back.  An ISO file is closed and   *)
(* opened again while isHybridIso looks at it; its size was taken before.  *)
(* A file that is not hybrid gets a partition table in its first unit.     *)
(*                                                                         *)
(* Data are sequences of units of 512 bytes; a sector has one or more.     *)
(***************************************************************************)
EXTENDS Integers, Sequences, FiniteSets

CONSTANTS
  Contents,   \* files: [data, hybrid]; NoFile if the path leads nowhere
  Exts,       \* file extensions: "iso", "img"
  Buffers,    \* FlashConfig.bufferSize, in units
  Sectors,    \* sector sizes, in units
  DiskUnits,  \* size of the target
  Volumes,    \* letters that may be on the target
  MaxFaults,  \* bound: reads and writes that fail or are lost
  MaxReplace  \* bound: replacements of the file

NoFile == [data |-> <<>>, hybrid |-> FALSE, missing |-> TRUE]

ASSUME IsoAssumption ==
  /\ Buffers \subseteq Nat \ {0} /\ Sectors \subseteq Nat \ {0}
  /\ DiskUnits \in Nat /\ \A s \in Sectors : DiskUnits % s = 0
  /\ NoFile \in Contents
  /\ \A c \in Contents : c.data \in Seq({c.data[i] : i \in DOMAIN c.data})
  /\ MaxFaults \in Nat /\ MaxReplace \in Nat

VARIABLES
  file,      \* what the path leads to
  cfg,       \* the configuration and the target: chosen once
  phase,     \* idle, box, open, lock, hybrid, reopen, mbr, write, verify, return, done
  shown,     \* the letters m_snapshot has for the target
  letters,   \* config.targetVolumeLetters
  locked,    \* lockedVolumes
  size,      \* inputSize
  hybrid,    \* isHybrid; TRUE for what is not an ISO
  pos,       \* bytesWritten, bytesVerified
  disk,
  cancel,    \* m_cancelRequested
  result,
  faults, replaces,
  spoiled    \* ghost: what went wrong without an error: "replaced", "read", "lost", "unread"

ivars == <<file, cfg, phase, shown, letters, locked, size, hybrid, pos, disk, cancel, result, faults, replaces, spoiled>>

Units == 1..DiskUnits
Old == <<"old", 0>>
Zero == <<"zero", 0>>
Config == [ext : Exts, verify : BOOLEAN, buffer : Buffers, sector : Sectors, fixed : BOOLEAN]

IInit ==
  /\ file \in Contents
  /\ cfg \in Config
  /\ phase = "idle"
  /\ shown = Volumes /\ letters = {} /\ locked = {}
  /\ size = 0 /\ hybrid = FALSE /\ pos = 0
  /\ disk = [u \in Units |-> Old]
  /\ cancel = FALSE /\ result = "none"
  /\ faults = 0 /\ replaces = 0 /\ spoiled = {}

Return(r) ==
  /\ result' = r
  /\ phase' = "return"

Fault == faults < MaxFaults /\ faults' = faults + 1

-----------------------------------------------------------------------------
(* The tab.  The warning names the disk; the letters are those the         *)
(* snapshot has when it is answered.                                       *)
onFlashIso ==
  /\ phase = "idle"
  /\ phase' = "box"
  /\ UNCHANGED <<file, cfg, shown, letters, locked, size, hybrid, pos, disk, cancel, result, faults, replaces, spoiled>>

refreshDisks ==
  /\ phase \in {"idle", "box"}
  /\ shown' \in SUBSET Volumes
  /\ UNCHANGED <<file, cfg, phase, letters, locked, size, hybrid, pos, disk, cancel, result, faults, replaces, spoiled>>

FlashNo ==
  /\ phase = "box"
  /\ phase' = "idle"
  /\ UNCHANGED <<file, cfg, shown, letters, locked, size, hybrid, pos, disk, cancel, result, faults, replaces, spoiled>>

(* flash clears m_cancelRequested: an earlier request is lost.             *)
FlashYes ==
  /\ phase = "box"
  /\ letters' = shown
  /\ cancel' = FALSE
  /\ phase' = "open"
  /\ UNCHANGED <<file, cfg, shown, locked, size, hybrid, pos, disk, result, faults, replaces, spoiled>>

requestCancel ==
  /\ phase \notin {"idle", "box", "done"}
  /\ cancel' = TRUE
  /\ UNCHANGED <<file, cfg, phase, shown, letters, locked, size, hybrid, pos, disk, result, faults, replaces, spoiled>>

-----------------------------------------------------------------------------
(* flash up to the locks.                                                  *)
FlashRefused ==
  /\ phase = "open"
  /\ cfg.fixed \/ file = NoFile \/ Len(file.data) > DiskUnits
  /\ Return("refused")
  /\ UNCHANGED <<file, cfg, shown, letters, locked, size, hybrid, pos, disk, cancel, faults, replaces, spoiled>>

FlashOpen ==
  /\ phase = "open"
  /\ ~cfg.fixed /\ file # NoFile /\ Len(file.data) <= DiskUnits
  /\ size' = Len(file.data)
  /\ phase' = "lock"
  /\ UNCHANGED <<file, cfg, shown, letters, locked, hybrid, pos, disk, cancel, result, faults, replaces, spoiled>>

(* lockTargetVolumes, volume by volume.                                    *)
LockFails ==
  /\ phase = "lock"
  /\ letters \ locked # {}
  /\ locked' = {}
  /\ Return("error")
  /\ UNCHANGED <<file, cfg, shown, letters, size, hybrid, pos, disk, cancel, faults, replaces, spoiled>>

LockVolume ==
  /\ phase = "lock"
  /\ \E v \in letters \ locked : locked' = locked \cup {v}
  /\ UNCHANGED <<file, cfg, phase, shown, letters, size, hybrid, pos, disk, cancel, result, faults, replaces, spoiled>>

(* The extension decides; flashRawImage and flashNonHybridIso start at 0.  *)
Locked ==
  /\ phase = "lock"
  /\ letters \subseteq locked
  /\ phase' = IF cfg.ext = "iso" THEN "hybrid" ELSE "write"
  /\ hybrid' = TRUE
  /\ pos' = 0
  /\ UNCHANGED <<file, cfg, shown, letters, locked, size, disk, cancel, result, faults, replaces, spoiled>>

(* The file is closed, isHybridIso opens and closes it, it is opened again.*)
isHybridIso ==
  /\ phase = "hybrid"
  /\ hybrid' = (file # NoFile /\ file.hybrid)
  /\ phase' = "reopen"
  /\ UNCHANGED <<file, cfg, shown, letters, locked, size, pos, disk, cancel, result, faults, replaces, spoiled>>

Reopen ==
  /\ phase = "reopen"
  /\ IF file = NoFile THEN Return("error")
     ELSE phase' = (IF hybrid THEN "write" ELSE "mbr") /\ UNCHANGED result
  /\ UNCHANGED <<file, cfg, shown, letters, locked, size, hybrid, pos, disk, cancel, faults, replaces, spoiled>>

(* Somebody replaces the file while nobody holds it open.                  *)
ReplaceFile ==
  /\ phase \in {"hybrid", "reopen"}
  /\ replaces < MaxReplace
  /\ file' \in Contents \ {file}
  /\ replaces' = replaces + 1
  /\ spoiled' = spoiled \cup {"replaced"}
  /\ UNCHANGED <<cfg, phase, shown, letters, locked, size, hybrid, pos, disk, cancel, result, faults>>

-----------------------------------------------------------------------------
(* flashNonHybridIso begins with the table, alone in its sector.           *)
Table(u) == <<"table", u>>
Aligned == (cfg.buffer \div cfg.sector) * cfg.sector

WriteMbr ==
  /\ phase = "mbr"
  /\ disk' = [u \in Units |-> IF u = 1 THEN Table(Zero) ELSE IF u <= cfg.sector THEN Zero ELSE disk[u]]
  /\ phase' = "write"
  /\ UNCHANGED <<file, cfg, shown, letters, locked, size, hybrid, pos, cancel, result, faults, replaces, spoiled>>

BufferTooSmall ==
  /\ phase = "write" /\ Aligned = 0
  /\ Return("error")
  /\ UNCHANGED <<file, cfg, shown, letters, locked, size, hybrid, pos, disk, cancel, faults, replaces, spoiled>>

Canceled ==
  /\ phase \in {"write", "verify"} /\ cancel
  /\ Aligned > 0 /\ pos < size
  /\ Return("canceled")
  /\ UNCHANGED <<file, cfg, shown, letters, locked, size, hybrid, pos, disk, cancel, faults, replaces, spoiled>>

Minimum(a, b) == IF a < b THEN a ELSE b

(* What ReadFile delivers: a buffer, the rest of inputSize, or what the    *)
(* file still has.                                                         *)
Chunk == SubSeq(file.data, pos + 1, Minimum(Len(file.data), Minimum(pos + Aligned, size)))
First == (pos \div cfg.sector) * cfg.sector
Rounded(n) == ((n + cfg.sector - 1) \div cfg.sector) * cfg.sector

(* The first chunk of a file that is not hybrid keeps the table on disk.  A *)
(* file that is not empty has the 512 bytes that this asks for, in units.  *)
Patched(c) == IF hybrid \/ pos > 0 \/ c = <<>> THEN c ELSE [c EXCEPT ![1] = Table(@)]

(* Mutant: a whole buffer is written, whatever was read.                   *)
DiskAfterBuffer(c) ==
  [u \in Units |-> IF u <= First \/ u > First + Aligned THEN disk[u]
                   ELSE IF u <= First + Len(c) THEN c[u - First] ELSE Zero]

(* Whole sectors, the last one filled up with zeros.                       *)
DiskAfter(c) ==
  [u \in Units |-> IF u <= First \/ u > First + Rounded(Len(c)) THEN disk[u]
                   ELSE IF u <= First + Len(c) THEN c[u - First] ELSE Zero]

(* A write may also be lost without an error by a bad or a forged stick.   *)
FlashChunk ==
  /\ phase = "write" /\ ~cancel
  /\ Aligned > 0 /\ pos < size /\ Chunk # <<>>
  /\ \/ disk' = DiskAfter(Patched(Chunk)) /\ UNCHANGED <<faults, spoiled>>
     \/ Fault /\ spoiled' = spoiled \cup {"lost"} /\ UNCHANGED disk
  /\ pos' = pos + Len(Chunk)
  /\ UNCHANGED <<file, cfg, phase, shown, letters, locked, size, hybrid, cancel, result, replaces>>

(* A read that fails: an error of flashRawImage, the end for the other.    *)
FlashReadFails ==
  /\ phase = "write" /\ ~cancel
  /\ Aligned > 0 /\ pos < size
  /\ Fault
  /\ Return(IF hybrid THEN "error" ELSE "ok")
  /\ spoiled' = spoiled \cup {"read"}
  /\ UNCHANGED <<file, cfg, shown, letters, locked, size, hybrid, pos, disk, cancel, replaces>>

(* Opening the disk excepted, every access of it may fail.                 *)
DiskFails ==
  /\ phase \in {"mbr", "write", "verify"}
  /\ phase = "mbr" \/ (~cancel /\ Aligned > 0 /\ pos < size /\ Chunk # <<>>)
  /\ Fault
  /\ Return("error")
  /\ UNCHANGED <<file, cfg, shown, letters, locked, size, hybrid, pos, disk, cancel, replaces, spoiled>>

(* Mutant: what is left of the last sector is not written.                 *)
FlashEndWhole ==
  /\ phase = "write"
  /\ Aligned > 0
  /\ pos >= (size \div cfg.sector) * cfg.sector \/ (~cancel /\ Chunk = <<>>)
  /\ IF hybrid /\ cfg.verify THEN phase' = "verify" /\ pos' = 0 /\ UNCHANGED result
     ELSE Return("ok") /\ UNCHANGED pos
  /\ UNCHANGED <<file, cfg, shown, letters, locked, size, hybrid, disk, cancel, faults, replaces, spoiled>>

(* The loop ends at inputSize or at the end of the file; only raw images   *)
(* and hybrid files are verified.                                          *)
FlashEnd ==
  /\ phase = "write"
  /\ Aligned > 0
  /\ pos >= size \/ (~cancel /\ Chunk = <<>>)
  /\ IF hybrid /\ cfg.verify THEN phase' = "verify" /\ pos' = 0 /\ UNCHANGED result
     ELSE Return("ok") /\ UNCHANGED pos
  /\ UNCHANGED <<file, cfg, shown, letters, locked, size, hybrid, disk, cancel, faults, replaces, spoiled>>

Same(c) == \A i \in 1..Len(c) : disk[First + i] = c[i]

VerifyChunk ==
  /\ phase = "verify" /\ ~cancel
  /\ pos < size /\ Chunk # <<>>
  /\ IF Same(Chunk) THEN pos' = pos + Len(Chunk) /\ UNCHANGED <<result, phase>>
     ELSE Return("mismatch") /\ UNCHANGED pos
  /\ UNCHANGED <<file, cfg, shown, letters, locked, size, hybrid, disk, cancel, faults, replaces, spoiled>>

(* A file that cannot be read is the end of the verification.              *)
VerifyReadFails ==
  /\ phase = "verify" /\ ~cancel
  /\ pos < size
  /\ Fault
  /\ Return("ok")
  /\ spoiled' = spoiled \cup {"unread"}
  /\ UNCHANGED <<file, cfg, shown, letters, locked, size, hybrid, pos, disk, cancel, replaces>>

VerifyEnd ==
  /\ phase = "verify"
  /\ pos >= size \/ (~cancel /\ Chunk = <<>>)
  /\ Return("ok")
  /\ UNCHANGED <<file, cfg, shown, letters, locked, size, hybrid, pos, disk, cancel, faults, replaces, spoiled>>

(* flash unlocks; the tab says "ISO/IMG flash completed." in every case.   *)
FlashReturns ==
  /\ phase = "return"
  /\ locked' = {}
  /\ phase' = "done"
  /\ UNCHANGED <<file, cfg, shown, letters, size, hybrid, pos, disk, cancel, result, faults, replaces, spoiled>>

Flash ==
  \/ FlashRefused \/ FlashOpen \/ LockFails \/ LockVolume \/ Locked \/ isHybridIso \/ Reopen
  \/ WriteMbr \/ BufferTooSmall \/ Canceled \/ FlashChunk \/ FlashReadFails \/ DiskFails \/ FlashEnd
  \/ VerifyChunk \/ VerifyReadFails \/ VerifyEnd \/ FlashReturns

INext ==
  \/ onFlashIso \/ refreshDisks \/ FlashNo \/ FlashYes \/ requestCancel
  \/ ReplaceFile \/ Flash

(* The worker thread is scheduled; the user may do nothing.                *)
ISpec == IInit /\ [][INext]_ivars /\ WF_ivars(Flash)

-----------------------------------------------------------------------------
Running == phase \notin {"idle", "box", "done"}
Writing == phase \in {"mbr", "write", "verify"}

(* The position never passes the size, and the size is that of the file    *)
(* the disk was found large enough for.                                    *)
ITypeOK ==
  /\ file \in Contents /\ cfg \in Config
  /\ pos \in 0..size /\ size \in 0..DiskUnits
  /\ DOMAIN disk = Units
  /\ hybrid \in BOOLEAN
  /\ shown \subseteq Volumes
  /\ letters \subseteq Volumes /\ locked \subseteq letters

(* lockTargetVolumes, unlockVolumes: the disk is written only while every  *)
(* volume the tab knew of is locked, and none stays locked afterwards.     *)
LocksWhileFlashing ==
  /\ Writing => locked = letters
  /\ ~Running => locked = {}

(* "Input file is larger than target disk", the fixed drive and the lock   *)
(* are found before anything is written; later, nothing behind the last    *)
(* sector of inputSize changes, whatever the path leads to by then.        *)
NothingBehind ==
  \A u \in Units : disk[u] # Old =>
    /\ size > 0 \/ (~hybrid /\ u <= cfg.sector)
    /\ u <= Rounded(size) \/ u <= cfg.sector
    /\ ~cfg.fixed

(* A flash that reports success put the file on the disk, with the table   *)
(* in its first unit if it is not hybrid, unless the file was replaced, or *)
(* a read of it failed, or the disk lost a write.                          *)
FlashedIsFile ==
  phase = "done" /\ result = "ok" /\ spoiled \cap {"replaced", "read", "lost"} = {} =>
    \A u \in 1..size : disk[u] = IF u = 1 /\ ~hybrid THEN Table(file.data[1]) ELSE file.data[u]

(* verifyFlash: then the disk holds what is in the file now, however the   *)
(* file was changed and whatever the disk lost.                            *)
VerifiedIsFile ==
  phase = "done" /\ result = "ok" /\ hybrid /\ cfg.verify /\ "unread" \notin spoiled =>
    \A u \in 1..Minimum(size, Len(file.data)) : disk[u] = file.data[u]

(* Every write is allowed: under the locks, and up to the size that was    *)
(* compared with the disk's.                                               *)
WritesGuarded == LocksWhileFlashing /\ NothingBehind

(* What success stands for, without verification and with it.              *)
SuccessMeansFlashed == FlashedIsFile /\ VerifiedIsFile

-----------------------------------------------------------------------------
(* The inductive invariant behind WritesGuarded and SuccessMeansFlashed.   *)

Succeeds == phase \in {"return", "done"} /\ result = "ok"

(* The volumes are locked one by one and stay locked until flash returns.  *)
LockInv ==
  /\ phase \in {"idle", "box", "open", "done"} => locked = {}
  /\ phase \in {"hybrid", "reopen", "mbr", "write", "verify"} => locked = letters

(* What is decided before the first write: nothing is on the disk yet, the *)
(* drive is removable, and inputSize is the file's size unless the file    *)
(* was replaced since.                                                     *)
BeforeInv ==
  /\ phase \in {"idle", "box", "open", "lock", "hybrid", "reopen"} => \A u \in Units : disk[u] = Old
  /\ phase \in {"idle", "box", "open", "lock", "hybrid", "reopen", "mbr"} => pos = 0
  /\ phase \in {"lock", "hybrid", "reopen", "mbr", "write", "verify"} => ~cfg.fixed
  /\ phase = "mbr" => ~hybrid
  /\ \/ phase \in {"lock", "hybrid", "reopen", "mbr", "write", "verify"}
     \/ Succeeds
     => "replaced" \in spoiled \/ size = Len(file.data)

(* Both loops go on at a sector's boundary, so First is where they are.    *)
ChunkInv ==
  /\ phase \in {"write", "verify"} =>
       pos % cfg.sector = 0 \/ pos >= Minimum(size, Len(file.data))
  /\ phase = "verify" => Aligned > 0 /\ hybrid /\ cfg.verify

(* What has been written is the file, and at the end all of it is.         *)
OnDisk(n) == \A u \in 1..n : disk[u] = IF u = 1 /\ ~hybrid THEN Table(file.data[1]) ELSE file.data[u]
WrittenInv ==
  spoiled \cap {"replaced", "read", "lost"} = {} =>
    /\ phase = "write" => OnDisk(pos)
    /\ phase = "verify" \/ Succeeds => OnDisk(size)

(* What has been compared is equal, and at the end all there is has been.  *)
Equal(n) == \A u \in 1..n : disk[u] = file.data[u]
ComparedInv ==
  /\ phase = "verify" => Equal(pos)
  /\ Succeeds /\ hybrid /\ cfg.verify /\ "unread" \notin spoiled =>
       Equal(Minimum(size, Len(file.data)))

IsoInv ==
  ITypeOK /\ LockInv /\ BeforeInv /\ NothingBehind /\ ChunkInv /\ WrittenInv /\ ComparedInv
=============================================================================
