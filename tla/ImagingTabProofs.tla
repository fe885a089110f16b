--------------------------- MODULE ImagingTabProofs ---------------------------
(***************************************************************************)
(* Theorems about the imaging tab for disks, images, chunks, sectors and   *)
(* buffers of any size, and any number of jobs, faults and deaths of the   *)
(* program: what a restore that succeeds has put back, that one that does  *)
(* not succeed puts no wrong byte on the disk, and how the jobs end.       *)
(***************************************************************************)
EXTENDS ImagingTab, TLAPS, FiniteSetTheorems, SequenceTheorems

Exits == HolderInv /\ PlaceInv /\ FileShape /\ LockInv /\ ExitsClean

-----------------------------------------------------------------------------
(* How the jobs end.                                                       *)

(* A step that leaves disks and configurations alone keeps their place.    *)
LEMMA PlaceSame ==
  ASSUME PlaceInv, UNCHANGED <<src, dst, cconf, rconf>>, cpc' \in Creating => cpc \in Creating
  PROVE  PlaceInv'
BY DEF PlaceInv, Length, ChunkCount, SrcTotal

(* The count of chunks is a number, and it is positive if it is not zero.  *)
LEMMA CountsChunks ==
  ASSUME NEW n \in Nat, NEW s \in Nat \ {0}
  PROVE  (n + s - 1) \div s \in Nat
<1>1. n + s - 1 \in Nat
  OBVIOUS
<1> QED
  BY <1>1

(* Whole sectors are counted.                                              *)
LEMMA CountsSectors ==
  ASSUME NEW n \in Nat, NEW s \in Nat \ {0}
  PROVE  n \div s \in Nat /\ (n \div s) * s \in Nat
<1>1. n \div s \in Nat
  OBVIOUS
<1> QED
  BY <1>1

(* The checks of createImage() leave a range of the disk.                  *)
LEMMA RangeChecked ==
  ASSUME PlaceInv, ~CreateRefused
  PROVE  /\ Length \in Nat /\ ChunkCount \in Nat
         /\ cconf.format = "spw" => ChunkCount > 0
<1>1. SrcTotal \in Nat
  BY FS_CardinalityType DEF PlaceInv, SrcTotal
<1>2. cconf.offset \in Nat /\ cconf.length \in Nat /\ cconf.chunkSize \in Nat \ {0}
  BY CreateAssumption DEF PlaceInv
<1>3. Length \in Nat
  BY <1>1, <1>2 DEF Length, CreateRefused
<1>4. ChunkCount \in Nat
  BY <1>2, <1>3, CountsChunks DEF ChunkCount
<1> QED
  BY <1>3, <1>4 DEF CreateRefused

(* The steps of createImage() and of what goes on beside it.               *)
LEMMA CreatorPlace ==
  ASSUME PlaceInv, CreateStep \/ CreateEnv, UNCHANGED rvars
  PROVE  PlaceInv'
<1>0. UNCHANGED <<dst, rconf>>
  BY DEF rvars
<1>1. CASE CreateStart
  <2>1. UNCHANGED <<src, cconf>>
    BY <1>1 DEF CreateStart
  <2>2. Length' = Length /\ ChunkCount' = ChunkCount /\ SrcTotal' = SrcTotal
    BY <2>1 DEF Length, ChunkCount, SrcTotal
  <2>3. CASE CreateRefused
    <3>1. cpc' = "returned"
      BY <1>1, <2>3 DEF CreateStart
    <3> QED
      BY <1>0, <2>1, <3>1, PlaceSame DEF Creating
  <2>4. CASE ~CreateRefused
    BY <1>0, <2>1, <2>2, <2>4, RangeChecked DEF PlaceInv
  <2> QED
    BY <2>3, <2>4
<1>2. CASE \/ LeaveEmpty \/ DeleteFile \/ CreateCanceled \/ CreateFails \/ RawChunk \/ RawDone \/ WriteHeader
           \/ WriteTable \/ SpwChunk \/ SealHeader \/ SealTable \/ SealFails \/ requestCancel
  <2>1. UNCHANGED <<src, cconf>>
    BY <1>2 DEF LeaveEmpty, DeleteFile, CreateCanceled, CreateFails, RawChunk, RawDone, WriteHeader, WriteTable,
                SpwChunk, SealHeader, SealTable, SealFails, requestCancel
  <2>2. cpc' \in Creating => cpc \in Creating
    BY <1>2 DEF LeaveEmpty, DeleteFile, CreateCanceled, CreateFails, RawChunk, RawDone, WriteHeader, WriteTable,
                SpwChunk, SealHeader, SealTable, SealFails, requestCancel, Creating, CreateReturn, CreateAbort
  <2> QED
    BY <1>0, <2>1, <2>2, PlaceSame
<1>3. ASSUME NEW p \in Shared, OtherWrite(p) PROVE PlaceInv'
  <2>1. UNCHANGED <<cconf, cpc>> /\ src' = [src EXCEPT ![p] = Fresh]
    BY <1>3 DEF OtherWrite
  <2>2. DOMAIN src' = DOMAIN src
    BY <2>1
  <2>3. src' \in [DOMAIN src' -> Nat]
    BY <2>1, <2>2, CreateAssumption DEF PlaceInv
  <2>4. Length' = Length /\ ChunkCount' = ChunkCount /\ SrcTotal' = SrcTotal
    BY <2>1, <2>2 DEF Length, ChunkCount, SrcTotal
  <2> QED
    BY <1>0, <2>1, <2>2, <2>3, <2>4 DEF PlaceInv
<1> QED
  BY <1>1, <1>2, <1>3 DEF CreateStep, CreateEnv

(* The steps of restoreImage().                                            *)
LEMMA RestorerPlace ==
  ASSUME PlaceInv, RestoreStep \/ requestRestoreCancel \/ Damage
  PROVE  PlaceInv'
<1>1. UNCHANGED <<src, cconf, cpc, rconf>>
  BY DEF RestoreStep, RestoreStart, RestoreDetect, RestoreOpen, RestoreLock, RestoreBegin, RestoreCanceled, RestoreFails,
         RestoreRaw, RestoreSpw, RestoreDone, requestRestoreCancel, Damage, CreatorSame,
         rvars
<1>2. DOMAIN dst' = DOMAIN dst
  BY DEF RestoreStep, RestoreStart, RestoreDetect, RestoreOpen, RestoreLock, RestoreBegin, RestoreCanceled, RestoreFails,
         RestoreRaw, RestoreSpw, RestoreDone, requestRestoreCancel, Damage, Written, rvars
<1>3. Length' = Length /\ ChunkCount' = ChunkCount /\ SrcTotal' = SrcTotal
  BY <1>1 DEF Length, ChunkCount, SrcTotal
<1> QED
  BY <1>1, <1>2, <1>3 DEF PlaceInv

(* The letters of a restore are a sequence.                                *)
LEMMA LettersType ==
  ASSUME PlaceInv
  PROVE  /\ rconf.letters \in Seq(STRING) /\ rconf.offset \in Nat /\ rconf.sector \in Nat \ {0}
         /\ rconf.bufferSize \in Nat
BY RestoreAssumption DEF PlaceInv

(* createImage() does not touch what restoreImage() works with.            *)
LEMMA CreatorLocks ==
  ASSUME LockInv, LocksWhileWriting, UNCHANGED <<rpc, rformat, locked, rconf>>
  PROVE  LockInv' /\ LocksWhileWriting'
BY DEF LockInv, LocksWhileWriting

(* The steps of createImage() and of what goes on beside it.               *)
LEMMA CreatorExits ==
  ASSUME Exits, CreateStep \/ CreateEnv, UNCHANGED <<rvars, tabs>>
  PROVE  Exits'
<1>1. PlaceInv'
  BY CreatorPlace DEF Exits
<1>2. UNCHANGED <<rpc, rformat, locked, rconf>>
  BY DEF rvars
<1>3. LockInv' /\ LocksWhileWriting'
  BY <1>2, CreatorLocks DEF Exits, ExitsClean
<1>4. CASE CreateStart
  BY <1>1, <1>2, <1>3, <1>4
  DEF CreateStart, Exits, HolderInv, FileShape, ExitsClean, FileTellsResult, Creating, RestoreBusy, EmptyFile,
      NoFile, tabs
<1>5. CASE CreateCanceled \/ CreateFails
  <2>1. /\ file' = Held(file, "none") /\ cpc' = "delete" /\ shorts' = shorts /\ createBtn' = createBtn
        /\ cpc \in Creating /\ cresult' # "ok"
    BY <1>5 DEF CreateCanceled, CreateFails, CreateAbort, Creating, tabs
  <2>2. FileTellsResult'
    BY <2>1 DEF FileTellsResult
  <2> QED
    BY <1>1, <1>2, <1>3, <2>1, <2>2 DEF Held, Exits, HolderInv, FileShape, Creating, RestoreBusy, ExitsClean
<1>5a. CASE DeleteFile
  <2>0. /\ cpc = "delete" /\ cpc' = "returned" /\ shorts' = shorts /\ cresult' = cresult /\ createBtn' = createBtn
        /\ ~file.sealed /\ cresult # "ok"
    BY <1>5a DEF DeleteFile, tabs, Exits, HolderInv
  <2>1. CASE file.holder = "none"
    <3>1. /\ file'.kind = "none" /\ file'.holder = "none" /\ file'.sealed = FALSE /\ file'.left = FALSE
          /\ file'.rotten = {} /\ DOMAIN file' = DOMAIN NoFile
          /\ DOMAIN NoFile = {"kind", "holder", "length", "chunkSize", "packed", "hash", "table", "blocks", "sealed",
                              "left", "rotten"}
      BY <1>5a, <2>1 DEF DeleteFile, NoFile
    <3>2. HolderInv' /\ FileShape'
      BY <1>2, <2>0, <2>1, <3>1 DEF Exits, HolderInv, FileShape, Creating, RestoreBusy
    <3>3. FileTellsResult'
      BY <2>0, <3>1 DEF FileTellsResult, Exits, HolderInv
    <3> QED
      BY <1>1, <1>3, <3>2, <3>3 DEF Exits, ExitsClean
  <2>2. CASE file.holder # "none"
    <3>1. /\ file' = [file EXCEPT !.left = TRUE]
      BY <1>5a, <2>2 DEF DeleteFile
    <3> QED
      BY <1>1, <1>2, <1>3, <2>0, <2>2, <3>1
      DEF Exits, HolderInv, FileShape, Creating, RestoreBusy, ExitsClean, FileTellsResult
  <2> QED
    BY <2>1, <2>2
<1>6. CASE RawChunk \/ SpwChunk
  <2>1. cpc' = cpc /\ cpc \in {"raw", "chunks"} /\ createBtn' = createBtn /\ shorts' \in Nat
        /\ UNCHANGED cresult
    BY <1>6 DEF RawChunk, SpwChunk, CountShort, Exits, FileShape, tabs
  <2>2. DOMAIN file' = DOMAIN file /\ file'.kind = file.kind /\ file'.holder = file.holder /\ file'.sealed = file.sealed
        /\ file'.left = file.left /\ file'.rotten = file.rotten
    BY <1>6 DEF RawChunk, SpwChunk, Exits, FileShape
  <2> QED
    BY <1>1, <1>2, <1>3, <2>1, <2>2 DEF Exits, HolderInv, FileShape, ExitsClean, FileTellsResult
<1>7. CASE WriteHeader \/ WriteTable \/ SealHeader
  <2>1. /\ DOMAIN file' = DOMAIN file /\ file'.left = file.left /\ file'.rotten = file.rotten
        /\ file'.kind \in {"none", "raw", "spw"} /\ file'.sealed = file.sealed /\ file'.holder = file.holder
    BY <1>7 DEF WriteHeader, WriteTable, SealHeader, Exits, FileShape
  <2>2. cpc \in Creating /\ cpc' \in Creating /\ UNCHANGED <<shorts, createBtn>>
    BY <1>7 DEF WriteHeader, WriteTable, SealHeader, Creating, tabs
  <2>3. FileShape'
    BY <2>1, <2>2 DEF Exits, FileShape
  <2>4. HolderInv'
    BY <1>2, <2>1, <2>2 DEF Exits, HolderInv, Creating, RestoreBusy
  <2>5. FileTellsResult'
    BY <2>2 DEF FileTellsResult, Creating
  <2> QED
    BY <1>1, <1>3, <2>3, <2>4, <2>5 DEF Exits, ExitsClean
<1>7a. CASE RawDone
  <2>1. /\ DOMAIN file' = DOMAIN file /\ file'.left = file.left /\ file'.rotten = file.rotten
        /\ file'.kind = file.kind /\ file'.sealed = TRUE /\ file'.holder = "none"
    BY <1>7a DEF RawDone, Exits, FileShape
  <2>2. cpc = "raw" /\ cpc' = "returned" /\ cresult' = "ok" /\ UNCHANGED <<shorts, createBtn>>
    BY <1>7a DEF RawDone, tabs
  <2>3. FileShape' /\ FileTellsResult'
    BY <2>1, <2>2 DEF Exits, FileShape, FileTellsResult
  <2>4. HolderInv'
    BY <1>2, <2>1, <2>2 DEF Exits, HolderInv, Creating, RestoreBusy
  <2> QED
    BY <1>1, <1>3, <2>3, <2>4 DEF Exits, ExitsClean
<1>8. CASE SealTable \/ SealFails \/ LeaveEmpty
  BY <1>1, <1>2, <1>3, <1>8
  DEF SealTable, SealFails, LeaveEmpty, CreateReturn, Held, Exits, HolderInv, FileShape, ExitsClean, FileTellsResult,
      Creating, RestoreBusy, tabs
<1>9. CASE CreateEnv
  BY <1>1, <1>2, <1>3, <1>9
  DEF CreateEnv, requestCancel, OtherWrite, Exits, HolderInv, FileShape, ExitsClean, FileTellsResult, tabs
<1> QED
  BY <1>4, <1>5, <1>5a, <1>6, <1>7, <1>7a, <1>8, <1>9 DEF CreateStep

(* The creator's side of a step of restoreImage(): it changes only who     *)
(* holds the file.                                                         *)
LEMMA RestorerFile ==
  ASSUME FileShape, RestoreStep \/ requestRestoreCancel
  PROVE  CreatorSame /\ (file' = file \/ \E who \in {"none", "restorer"} : file' = Held(file, who))
<1>1. CreatorSame
  BY DEF RestoreStep, RestoreStart, RestoreDetect, RestoreOpen, RestoreLock, RestoreBegin, RestoreCanceled, RestoreFails,
         RestoreRaw, RestoreSpw, RestoreDone, requestRestoreCancel
<1>2. file' = file \/ file' = Held(file, "none") \/ file' = Held(file, "restorer")
  BY DEF RestoreStep, RestoreStart, RestoreDetect, RestoreOpen, RestoreLock, RestoreBegin, RestoreCanceled, RestoreFails,
         RestoreRaw, RestoreSpw, RestoreDone, requestRestoreCancel, RestoreEnd
<1> QED
  BY <1>1, <1>2

(* The steps of restoreImage().                                            *)
LEMMA RestorerExits ==
  ASSUME Exits, RestoreStep \/ requestRestoreCancel, UNCHANGED tabs
  PROVE  Exits'
<1>1. PlaceInv'
  BY RestorerPlace DEF Exits
<1>2. file' = file \/ \E who \in {"none", "restorer"} : file' = Held(file, who)
  BY RestorerFile DEF Exits
<1>3. CreatorSame
  BY RestorerFile DEF Exits
<1>4. FileShape'
  BY <1>2, <1>3 DEF Exits, FileShape, Held, CreatorSame
<1>5. FileTellsResult'
  BY <1>2, <1>3 DEF Exits, FileShape, Held, CreatorSame, ExitsClean, FileTellsResult
<1>6. HolderInv'
  <2>1. UNCHANGED <<cpc, cresult, createBtn>>
    BY <1>3 DEF CreatorSame, tabs
  <2>2. CASE RestoreRaw \/ RestoreSpw \/ requestRestoreCancel
    BY <2>1, <2>2 DEF RestoreRaw, RestoreSpw, requestRestoreCancel, Exits, HolderInv, RestoreBusy
  <2>3. CASE RestoreStart \/ RestoreDetect \/ RestoreOpen
    BY <2>1, <2>3 DEF RestoreStart, RestoreDetect, RestoreOpen, Held, Exits, HolderInv, FileShape, RestoreBusy,
                      Creating
  <2>4. CASE RestoreLock \/ RestoreBegin
    BY <2>1, <2>4 DEF RestoreLock, RestoreBegin, RestoreEnd, Held, Exits, HolderInv, FileShape, RestoreBusy,
                      Creating, LockInv
  <2>5. CASE RestoreCanceled \/ RestoreFails \/ RestoreDone
    BY <2>1, <2>5 DEF RestoreCanceled, RestoreFails, RestoreDone, RestoreEnd, More, Held, Exits, HolderInv,
                      FileShape, RestoreBusy, Creating
  <2> QED
    BY <2>2, <2>3, <2>4, <2>5 DEF RestoreStep
<1>7. LockInv' /\ LocksWhileWriting'
  <2>0. rconf.letters \in Seq(STRING) /\ rconf' = rconf
    BY LettersType DEF Exits, RestoreStep, RestoreStart, RestoreDetect, RestoreOpen, RestoreLock, RestoreBegin, RestoreCanceled,
         RestoreFails, RestoreRaw, RestoreSpw, RestoreDone, requestRestoreCancel
  <2>1. CASE RestoreStart \/ RestoreDetect \/ RestoreRaw \/ RestoreSpw \/ requestRestoreCancel
    BY <2>1 DEF RestoreStart, RestoreDetect, RestoreRaw, RestoreSpw, requestRestoreCancel, detectFormat, Exits, LockInv,
                      ExitsClean, LocksWhileWriting, RestoreBusy
  <2>2. CASE RestoreOpen
    BY <2>2 DEF RestoreOpen, Exits, LockInv, ExitsClean, LocksWhileWriting, RestoreBusy
  <2>3. CASE RestoreLock
    <3>1. CASE rpc' = "returned"
      BY <2>3, <3>1 DEF RestoreLock, RestoreEnd, unlockVolumes, Exits, LockInv, ExitsClean,
                              LocksWhileWriting, RestoreBusy
    <3>2. CASE rpc' # "returned"
      <4>1. /\ rpc = "lock" /\ rpc' = rpc /\ rformat' = rformat /\ Len(locked) < Len(rconf.letters)
            /\ locked' = Append(locked, rconf.letters[Len(locked) + 1])
        BY <2>3, <3>2 DEF RestoreLock, RestoreEnd
      <4>2. locked \in Seq(STRING) /\ \A i \in 1..Len(locked) : locked[i] = rconf.letters[i]
        BY <4>1 DEF Exits, LockInv
      <4>3. rconf.letters[Len(locked) + 1] \in STRING
        BY <2>0, <4>1, <4>2
      <4>4. /\ locked' \in Seq(STRING) /\ Len(locked') = Len(locked) + 1
            /\ \A i \in 1..Len(locked) : locked'[i] = locked[i]
            /\ locked'[Len(locked) + 1] = rconf.letters[Len(locked) + 1]
        BY <4>1, <4>2, <4>3
      <4>5. \A i \in 1..Len(locked') : locked'[i] = rconf.letters[i]
        BY <4>2, <4>4
      <4> QED
        BY <2>0, <4>1, <4>2, <4>4, <4>5 DEF Exits, LockInv, LocksWhileWriting, RestoreBusy
    <3> QED
      BY <3>1, <3>2
  <2>4. CASE RestoreBegin
    <3>1. CASE rpc' = "returned"
      BY <2>4, <3>1 DEF RestoreBegin, RestoreEnd, unlockVolumes, Exits, LockInv, ExitsClean,
                              LocksWhileWriting, RestoreBusy
    <3>2. CASE rpc' # "returned"
      <4>1. /\ rpc = "lock" /\ Len(locked) = Len(rconf.letters) /\ locked' = locked
            /\ rpc' = rformat /\ rformat \in {"raw", "spw"}
        BY <2>4, <3>2 DEF RestoreBegin, RestoreEnd, Exits, LockInv
      <4>2. locked = rconf.letters
        BY <2>0, <4>1 DEF Exits, LockInv
      <4> QED
        BY <2>0, <4>1, <4>2 DEF LockInv, LocksWhileWriting, RestoreBusy
    <3> QED
      BY <3>1, <3>2
  <2>5. CASE RestoreCanceled \/ RestoreFails \/ RestoreDone
    BY <2>5 DEF RestoreCanceled, RestoreFails, RestoreDone, RestoreEnd, unlockVolumes, Exits, LockInv,
                      ExitsClean, LocksWhileWriting, RestoreBusy
  <2> QED
    BY <2>1, <2>2, <2>3, <2>4, <2>5 DEF RestoreStep
<1> QED
  BY <1>1, <1>4, <1>5, <1>6, <1>7 DEF Exits, ExitsClean

(* What damage does to the file.                                           *)
LEMMA DamageIs ==
  ASSUME FileShape, Damage
  PROVE  /\ DOMAIN file' = DOMAIN file /\ file.holder = "none" /\ file'.holder = file.holder
         /\ file'.sealed = file.sealed /\ file'.left = file.left /\ file'.length = file.length
         /\ \/ /\ file' \in DamagedData
               /\ file'.kind = file.kind /\ file'.rotten = file.rotten \cup {"data"}
               /\ UNCHANGED <<file.chunkSize, file.table>>
            \/ /\ file' \in DamagedTable /\ file.kind = "spw"
               /\ file'.kind = "spw" /\ file'.rotten = file.rotten \cup {"table"}
               /\ UNCHANGED <<file.chunkSize, file.hash>>
            \/ /\ file'.kind = "spw" /\ file.kind = "spw" /\ file'.rotten = file.rotten \cup {"place"}
               /\ UNCHANGED <<file.table, file.hash>>
            \/ /\ file.kind = "spw" /\ file'.kind = "raw" /\ file'.blocks = RawBytes
               /\ file'.rotten = file.rotten \cup {"magic"}
<1>0. file.holder = "none"
  BY DEF Damage
<1>1. CASE file' \in DamagedData
  <2>1. \/ \E i : file' = Damaged([file EXCEPT !.blocks[i] = Fresh + 1], "data")
        \/ \E i : file' = Damaged([file EXCEPT !.blocks[i].data[1] = Fresh + 1], "data")
        \/ file' = Damaged([file EXCEPT !.hash = OtherHash], "data")
    BY <1>1 DEF DamagedData
  <2>2. /\ DOMAIN file' = DOMAIN file /\ file'.rotten = file.rotten \cup {"data"}
        /\ UNCHANGED <<file.kind, file.holder, file.sealed, file.left, file.length, file.chunkSize, file.table>>
    BY <2>1 DEF Damaged, FileShape
  <2> QED
    BY <1>0, <1>1, <2>2
<1>2. CASE file.kind = "spw" /\ file' \in DamagedTable
  <2>1. \E t : file' = Damaged([file EXCEPT !.table = t], "table")
    BY <1>2 DEF DamagedTable
  <2>2. /\ DOMAIN file' = DOMAIN file /\ file'.rotten = file.rotten \cup {"table"}
        /\ UNCHANGED <<file.kind, file.holder, file.sealed, file.left, file.length, file.chunkSize, file.hash>>
    BY <2>1 DEF Damaged, FileShape
  <2> QED
    BY <1>0, <1>2, <2>2
<1>3. CASE file.kind = "spw" /\ file' \in DamagedHeader
  <2>1. CASE file' = Damaged([file EXCEPT !.chunkSize = 2 * @], "place")
    BY <1>0, <1>3, <2>1 DEF Damaged, FileShape
  <2>2. CASE file' = Damaged([file EXCEPT !.kind = "raw", !.table = <<>>, !.blocks = RawBytes], "magic")
    BY <1>0, <1>3, <2>2 DEF Damaged, FileShape
  <2> QED
    BY <1>3, <2>1, <2>2 DEF DamagedHeader
<1> QED
  BY <1>1, <1>2, <1>3 DEF Damage

(* Damage to the file, the buttons, and the end of the program.            *)
LEMMA OthersExit ==
  ASSUME Exits,
         \/ Damage /\ UNCHANGED tabs
         \/ onCreateImage \/ CreateFinished \/ onRestoreImage \/ RestoreNo \/ RestoreYes
         \/ RestoreFinished \/ ProgramDies
  PROVE  Exits'
<1>1. CASE Damage /\ UNCHANGED tabs
  <2>1. PlaceInv'
    BY <1>1, RestorerPlace DEF Exits
  <2>2. /\ DOMAIN file' = DOMAIN file /\ file'.holder = file.holder
        /\ file'.sealed = file.sealed /\ file'.left = file.left
        /\ file'.kind \in {"raw", file.kind} /\ (file.kind = "none" => file'.kind = "none")
        /\ file'.rotten \subseteq {"data", "table", "place", "magic"}
    <3>1. FileShape
      BY DEF Exits
    <3>2. file'.rotten \in {file.rotten \cup {w} : w \in {"data", "table", "place", "magic"}}
      BY <1>1, <3>1, DamageIs
    <3>3. file'.kind \in {"raw", file.kind} /\ (file.kind = "none" => file'.kind = "none")
      BY <1>1, <3>1, DamageIs
    <3> QED
      BY <1>1, <3>1, <3>2, <3>3, DamageIs DEF FileShape
  <2>3. UNCHANGED <<cpc, cresult, shorts, rpc, rformat, locked, rconf, createBtn>>
    BY <1>1 DEF Damage, rvars, tabs
  <2> QED
    BY <2>1, <2>2, <2>3, CreatorLocks DEF Exits, HolderInv, FileShape, ExitsClean, FileTellsResult
<1>2. CASE onCreateImage \/ CreateFinished
  <2>1. /\ UNCHANGED <<src, file, shorts, dst, rconf, rpc, rformat, locked>>
        /\ cpc \notin Creating /\ cpc' \in {"open", "idle"} /\ createBtn' = (cpc' = "idle")
    BY <1>2 DEF onCreateImage, CreateFinished, rvars, Exits, HolderInv, Creating
  <2>2. cconf' \in CreateConfigs
    BY <1>2, CreateAssumption DEF onCreateImage, CreateFinished, NoCreate
  <2>3. PlaceInv'
    BY <2>1, <2>2 DEF Exits, PlaceInv, SrcTotal, Creating
  <2> QED
    BY <2>1, <2>3, CreatorLocks DEF Exits, HolderInv, FileShape, ExitsClean, FileTellsResult, Creating
<1>3. CASE onRestoreImage \/ RestoreNo \/ RestoreYes \/ RestoreFinished
  <2>1. /\ UNCHANGED <<src, file, cpc, cresult, cconf, shorts, dst, locked, createBtn>>
        /\ rpc \in {"idle", "asking", "returned"} /\ rpc' \in {"idle", "asking", "detect"}
    BY <1>3 DEF onRestoreImage, RestoreNo, RestoreYes, RestoreFinished, cvars, tabs
  <2>2. rconf' \in RestoreConfigs
    BY <1>3, RestoreAssumption
    DEF onRestoreImage, RestoreNo, RestoreYes, RestoreFinished, NoRestore, Exits, PlaceInv
  <2>3. PlaceInv'
    BY <2>1, <2>2 DEF Exits, PlaceInv, SrcTotal, Length, ChunkCount
  <2>4. HolderInv' /\ FileShape' /\ FileTellsResult'
    BY <2>1 DEF Exits, HolderInv, FileShape, ExitsClean, FileTellsResult, RestoreBusy
  <2>5. LockInv' /\ LocksWhileWriting'
    BY <2>1 DEF Exits, LockInv, ExitsClean, LocksWhileWriting, RestoreBusy
  <2> QED
    BY <2>3, <2>4, <2>5 DEF Exits, ExitsClean
<1>4. CASE ProgramDies
  <2>1. /\ UNCHANGED <<src, cconf, shorts, dst, rconf>> /\ cpc' = "idle" /\ rpc' = "idle"
        /\ file' = Held(file, "none") /\ locked' = <<>>
    BY <1>4 DEF ProgramDies
  <2>2. PlaceInv'
    BY <2>1, PlaceSame DEF Exits, Creating
  <2> QED
    BY <2>1, <2>2 DEF Exits, HolderInv, FileShape, LockInv, ExitsClean, FileTellsResult, LocksWhileWriting,
                      Held, RestoreBusy, Creating
<1> QED
  BY <1>1, <1>2, <1>3, <1>4

(* Before the first job.                                                   *)
LEMMA InitExits ==
  ASSUME ImagingInit
  PROVE  Exits
<1>1. PlaceInv
  <2>1. src \in Disks /\ cconf \in CreateConfigs /\ rconf \in RestoreConfigs /\ cpc = "idle"
    BY CreateAssumption, RestoreAssumption DEF ImagingInit, CreateInit, RestoreInit, NoCreate, NoRestore
  <2>2. DOMAIN dst = 0..(DstTotal - 1)
    BY DEF ImagingInit, RestoreInit
  <2> QED
    BY <2>1, <2>2, CreateAssumption DEF PlaceInv, SrcTotal, Creating
<1>2. /\ file = NoFile /\ cpc = "idle" /\ rpc = "idle" /\ shorts = 0 /\ locked = <<>>
  BY DEF ImagingInit, CreateInit, RestoreInit
<1>3. HolderInv /\ FileShape
  BY <1>2 DEF HolderInv, FileShape, NoFile, Creating, RestoreBusy
<1>4. LockInv /\ ExitsClean
  BY <1>2 DEF LockInv, ExitsClean, FileTellsResult, LocksWhileWriting, RestoreBusy
<1> QED
  BY <1>1, <1>3, <1>4 DEF Exits

(* The file is held by one job at most, the locks are the letters' one     *)
(* after the other, and the jobs end as they should.                       *)
THEOREM ExitsInvariant == ImagingSpec => []Exits
<1>1. ImagingInit => Exits
  BY InitExits
<1>2. Exits /\ [ImagingNext]_tvars => Exits'
  <2> SUFFICES ASSUME Exits, [ImagingNext]_tvars PROVE Exits'
    OBVIOUS
  <2>1. CASE (CreateStep \/ CreateEnv) /\ UNCHANGED <<rvars, tabs>>
    BY <2>1, CreatorExits
  <2>2. CASE (RestoreStep \/ requestRestoreCancel) /\ UNCHANGED tabs
    BY <2>2, RestorerExits
  <2>3. CASE \/ Damage /\ UNCHANGED tabs
             \/ onCreateImage \/ CreateFinished \/ onRestoreImage \/ RestoreNo \/ RestoreYes
             \/ RestoreFinished \/ ProgramDies
    BY <2>3, OthersExit
  <2>4. CASE UNCHANGED tvars
    BY <2>4 DEF tvars, ivars, cvars, rvars, tabs, Exits, HolderInv, PlaceInv, FileShape, LockInv, ExitsClean,
                FileTellsResult, LocksWhileWriting, SrcTotal, Length, ChunkCount
  <2> QED
    BY <2>1, <2>2, <2>3, <2>4 DEF ImagingNext
<1> QED
  BY <1>1, <1>2, PTL DEF ImagingSpec

(* ExitsClean: however creating and restoring end, also side by side, the  *)
(* file left tells what createImage() returned, all volumes are locked     *)
(* while the disk is written, and none is afterwards.                      *)
THEOREM JobsExitClean == ImagingSpec => []ExitsClean
<1>1. Exits => ExitsClean
  BY DEF Exits
<1> QED
  BY <1>1, ExitsInvariant, PTL

-----------------------------------------------------------------------------
(* Chunks and sectors.                                                     *)

(* Products grow with their factors.                                       *)
LEMMA ProductGrows ==
  ASSUME NEW a \in Int, NEW b \in Int, NEW s \in Nat, a <= b
  PROVE  a * s <= b * s /\ a * s \in Int /\ b * s \in Int
<1>1. PICK m \in Nat : b = a + m
  <2>1. b - a \in Nat /\ b = a + (b - a)
    OBVIOUS
  <2> QED
    BY <2>1
<1>2. b * s = a * s + m * s
  BY <1>1
<1>3. m * s \in Nat /\ a * s \in Int
  OBVIOUS
<1> QED
  BY <1>2, <1>3

(* A chunk ends where a later one begins, or before.                       *)
LEMMA ChunkEnds ==
  ASSUME NEW i \in Nat \ {0}, NEW n \in Nat, NEW s \in Nat, i <= n
  PROVE  (i - 1) * s \in Nat /\ n * s \in Nat /\ (i - 1) * s + s <= n * s
<1>1. i * s = (i - 1) * s + s /\ (i - 1) * s \in Nat /\ n * s \in Nat
  OBVIOUS
<1>2. i * s <= n * s
  BY ProductGrows
<1> QED
  BY <1>1, <1>2

(* A chunk that is counted begins inside the range.                        *)
LEMMA ChunkBegins ==
  ASSUME NEW n \in Nat, NEW t \in Nat, NEW s \in Nat \ {0}, n < (t + s - 1) \div s
  PROVE  n * s \in Nat /\ n * s < t
<1>1. PICK q \in Nat : q = (t + s - 1) \div s
  BY CountsChunks
<1>2. t + s - 1 \in Nat
  OBVIOUS
<1>3. q * s <= t + s - 1 /\ q * s \in Nat
  BY <1>1, <1>2
<1>4. (n + 1) * s = n * s + s /\ n * s \in Nat
  OBVIOUS
<1>5. (n + 1) * s <= q * s
  BY <1>1, ProductGrows
<1> QED
  BY <1>3, <1>4, <1>5

-----------------------------------------------------------------------------
(* What the file holds.                                                    *)

(* What readSectors returns is a sequence of bytes, no more than asked.    *)
LEMMA ReadsType ==
  ASSUME PlaceInv, NEW pos \in Nat, NEW n \in Nat, NEW data \in Reads(pos, n)
  PROVE  data \in Seq(Nat) /\ Len(data) \in Nat /\ Len(data) <= n
<1> DEFINE first == (pos \div SrcSector) * SrcSector
<1>1. SrcTotal \in Nat
  BY FS_CardinalityType DEF PlaceInv, SrcTotal
<1>2. first \in Nat
  <2>1. pos \div SrcSector \in Nat /\ SrcSector \in Nat
    BY CreateAssumption
  <2> QED
    BY <2>1
<1> HIDE DEF first
<1>3. PICK full \in Int : full = Least(n, SrcTotal - first) /\ full <= n /\ full <= SrcTotal - first
  <2>1. SrcTotal - first \in Int
    BY <1>1, <1>2
  <2>2. /\ Least(n, SrcTotal - first) \in Int
        /\ Least(n, SrcTotal - first) <= n /\ Least(n, SrcTotal - first) <= SrcTotal - first
    BY <2>1 DEF Least
  <2> QED
    BY <2>2
<1>4. PICK k \in Int : k <= full /\ data = [i \in 1..k |-> src[first + i - 1]]
  BY <1>3 DEF Reads, first
<1>5. PICK m \in Nat : m <= n /\ 1..k = 1..m /\ (\A i \in 1..m : i <= SrcTotal - first)
  <2>1. CASE k < 0
    <3>1. 1..k = 1..0
      BY <2>1
    <3> QED
      BY <3>1
  <2>2. CASE k >= 0
    BY <1>1, <1>2, <1>3, <1>4, <2>2
  <2> QED
    BY <2>1, <2>2
<1>6. data \in [1..m -> Nat]
  <2>1. \A i \in 1..m : src[first + i - 1] \in Nat
    BY <1>1, <1>2, <1>5 DEF PlaceInv
  <2> QED
    BY <1>4, <1>5, <2>1
<1>7. data \in Seq(Nat) /\ Len(data) = m
  BY <1>6
<1> QED
  BY <1>5, <1>7

(* What the ghost image is after a read.                                   *)
LEMMA ImagedIs ==
  ASSUME NEW offset \in Nat, NEW data \in Seq(Nat)
  PROVE  /\ DOMAIN Imaged(offset, data) = DOMAIN image \cup {offset + k - 1 : k \in 1..Len(data)}
         /\ \A k \in 1..Len(data) : Imaged(offset, data)[offset + k - 1] = data[k]
         /\ \A q \in DOMAIN image : q \in Int /\ q < offset => Imaged(offset, data)[q] = image[q]
         /\ data = <<>> => DOMAIN Imaged(offset, data) = DOMAIN image
<1>1. Len(data) \in Nat
  OBVIOUS
<1>2. DOMAIN Imaged(offset, data) = DOMAIN image \cup {offset + k - 1 : k \in 1..Len(data)}
  BY DEF Imaged
<1>3. ASSUME NEW k \in 1..Len(data) PROVE Imaged(offset, data)[offset + k - 1] = data[k]
  <2>1. offset + k - 1 \in DOMAIN image \cup {offset + j - 1 : j \in 1..Len(data)}
    OBVIOUS
  <2>2. /\ offset + k - 1 >= offset /\ offset + k - 1 < offset + Len(data)
        /\ (offset + k - 1) - offset + 1 = k
    BY <1>1
  <2> QED
    BY <2>1, <2>2 DEF Imaged
<1>4. ASSUME NEW q \in DOMAIN image, q \in Int, q < offset PROVE Imaged(offset, data)[q] = image[q]
  BY <1>4 DEF Imaged
<1>5. ASSUME data = <<>> PROVE DOMAIN Imaged(offset, data) = DOMAIN image
  <2>1. 1..Len(data) = {}
    BY <1>5
  <2>2. {offset + k - 1 : k \in 1..Len(data)} = {}
    BY <2>1
  <2> QED
    BY <1>2, <2>2
<1> QED
  BY <1>2, <1>3, <1>4, <1>5

(* A step that opens or closes the file at most leaves alone what is in it. *)
LEMMA FileSame ==
  ASSUME FileShape, FileInv, UNCHANGED <<shorts, image>>,
         file' = file \/ \E who \in {"none", "restorer"} : file' = Held(file, who)
  PROVE  FileInv'
<1>1. /\ file'.kind = file.kind /\ file'.length = file.length /\ file'.chunkSize = file.chunkSize
      /\ file'.hash = file.hash /\ file'.table = file.table /\ file'.blocks = file.blocks
      /\ file'.sealed = file.sealed /\ file'.rotten = file.rotten
  BY DEF FileShape, Held
<1>2. TableSays(file.table, Len(file.table), file.chunkSize)' <=>
        TableSays(file.table, Len(file.table), file.chunkSize)
  BY <1>1 DEF TableSays, GoodEntry
<1>3. InLength(file.table, Len(file.table), file.chunkSize, file.length)' <=>
        InLength(file.table, Len(file.table), file.chunkSize, file.length)
  BY <1>1 DEF InLength
<1>4. Unwritten(file.table)' <=> Unwritten(file.table)
  BY <1>1 DEF Unwritten
<1>5. BlocksSay' <=> BlocksSay
  BY <1>1 DEF BlocksSay
<1> QED
  BY <1>1, <1>2, <1>3, <1>4, <1>5 DEF FileInv

(* A step that leaves the creation and the data of the file alone.         *)
LEMMA FilesSame ==
  ASSUME FileShape, FileInv, CreateInv,
         UNCHANGED <<cconf, cpc, at, processed, ctable, chash, shorts, image>>, SrcTotal' = SrcTotal,
         file' = file \/ \E who \in {"none", "restorer"} : file' = Held(file, who)
  PROVE  FileInv' /\ CreateInv'
<1>1. /\ file'.kind = file.kind /\ file'.length = file.length /\ file'.chunkSize = file.chunkSize
      /\ file'.hash = file.hash /\ file'.table = file.table /\ file'.blocks = file.blocks
      /\ file'.sealed = file.sealed /\ file'.rotten = file.rotten
  BY DEF FileShape, Held
<1>2. FileInv'
  BY FileSame
<1>3. Length' = Length /\ ChunkCount' = ChunkCount
  BY DEF Length, ChunkCount
<1>4. CreateInv'
  BY <1>1, <1>3 DEF CreateInv, TableSays, InLength, Unwritten, BlocksSay, GoodEntry
<1> QED
  BY <1>2, <1>4

(* Nothing is said of a creation that is not running.                      *)
LEMMA CreateIdle ==
  ASSUME cpc' \notin Creating
  PROVE  CreateInv'
BY DEF CreateInv, Creating

(* createImage() begins.                                                   *)
LEMMA StartKept ==
  ASSUME Exits, FileInv, CreateStart
  PROVE  FileInv' /\ CreateInv'
<1>1. CASE cpc' = "returned"
  <2>1. UNCHANGED <<shorts, image>> /\ file' = file
    BY <1>1 DEF CreateStart
  <2> QED
    BY <1>1, <2>1, FileSame, CreateIdle DEF Exits, Creating
<1>2. CASE cpc' # "returned"
  <2>1. /\ file' = EmptyFile /\ image' = <<>> /\ UNCHANGED <<src, cconf>> /\ ~CreateRefused
        /\ at' = 0 /\ processed' = 0 /\ chash' = <<>>
        /\ cpc' \in {"close", "raw", "header"} /\ (cpc' = "header" => cconf.format = "spw")
        /\ ctable' = IF cconf.format = "spw" THEN [i \in 1..ChunkCount |-> ZeroEntry] ELSE <<>>
    BY <1>2 DEF CreateStart
  <2>2. /\ file'.kind = "raw" /\ file'.blocks = <<>> /\ file'.table = <<>> /\ file'.hash = ZeroHash
        /\ file'.sealed = FALSE /\ file'.rotten = {}
    BY <2>1 DEF EmptyFile, NoFile
  <2>3. FileInv'
    BY <2>2 DEF FileInv
  <2>4. Length' = Length /\ ChunkCount' = ChunkCount /\ ChunkCount \in Nat
    BY <2>1, RangeChecked DEF Length, ChunkCount, SrcTotal, Exits
  <2>5. DOMAIN image' = {} /\ Len(file'.blocks) = 0
    BY <2>1, <2>2
  <2>6. BlocksSay'
    BY <2>5 DEF BlocksSay
  <2>7. cpc' = "header" =>
          /\ Len(ctable') = ChunkCount' /\ DOMAIN ctable' = 1..ChunkCount'
          /\ \A i \in 1..Len(ctable') : ctable'[i] = ZeroEntry
    BY <2>1, <2>4
  <2> QED
    BY <2>1, <2>2, <2>3, <2>5, <2>6, <2>7 DEF CreateInv, Creating, Unwritten
<1> QED
  BY <1>1, <1>2

(* createImage() returns with the file left as it is, or closed first.     *)
LEMMA LeaveKept ==
  ASSUME Exits, FileInv,
         CreateCanceled \/ CreateFails \/ LeaveEmpty \/ SealFails
  PROVE  FileInv' /\ CreateInv'
<1>1. cpc' \in {"returned", "delete"} /\ UNCHANGED <<shorts, image>> /\ file' = Held(file, "none")
  BY DEF CreateCanceled, CreateFails, LeaveEmpty, SealFails, CreateAbort, CreateReturn
<1> QED
  BY <1>1, CreateIdle, FileSame DEF Creating, Exits

(* The file is deleted, or somebody has it open.                           *)
LEMMA DeleteKept ==
  ASSUME Exits, FileInv, DeleteFile
  PROVE  FileInv' /\ CreateInv'
<1>1. cpc' = "returned" /\ shorts' = shorts
  BY DEF DeleteFile
<1>2. CASE file.holder = "none"
  <2>1. file'.kind = "none"
    BY <1>2 DEF DeleteFile, NoFile
  <2> QED
    BY <1>1, <2>1, CreateIdle DEF FileInv, Creating
<1>3. CASE file.holder # "none"
  <2>1. /\ file'.kind = file.kind /\ file'.length = file.length /\ file'.chunkSize = file.chunkSize
        /\ file'.hash = file.hash /\ file'.table = file.table /\ file'.blocks = file.blocks
        /\ file'.sealed = file.sealed /\ file'.rotten = file.rotten /\ image' = image
    BY <1>3 DEF DeleteFile, FileShape, Exits
  <2>2. TableSays(file.table, Len(file.table), file.chunkSize)' <=>
          TableSays(file.table, Len(file.table), file.chunkSize)
    BY <2>1 DEF TableSays, GoodEntry
  <2>3. BlocksSay' <=> BlocksSay
    BY <2>1 DEF BlocksSay
  <2> QED
    BY <1>1, <2>1, <2>2, <2>3, CreateIdle DEF FileInv, Creating, InLength, Unwritten
<1> QED
  BY <1>2, <1>3

(* The raw file is complete.                                               *)
LEMMA RawDoneKept ==
  ASSUME Exits, FileInv, CreateInv, RawDone
  PROVE  FileInv' /\ CreateInv'
<1>1. cpc = "raw" /\ cpc' = "returned" /\ UNCHANGED <<shorts, image>>
  BY DEF RawDone
<1>2. file'.kind = "raw" /\ file'.blocks = file.blocks
  BY <1>1 DEF RawDone, Exits, FileShape, CreateInv, Creating
<1>3. file.blocks \in Seq(Nat) /\ (shorts = 0 => BlocksSay)
  BY <1>1 DEF FileInv, CreateInv
<1>4. FileInv'
  BY <1>1, <1>2, <1>3 DEF FileInv, BlocksSay
<1> QED
  BY <1>1, <1>4, CreateIdle DEF Creating

(* The header and the first table.                                         *)
LEMMA HeaderKept ==
  ASSUME Exits, FileInv, CreateInv, WriteHeader
  PROVE  FileInv' /\ CreateInv'
<1>1. /\ cpc = "header" /\ cpc' = "table"
      /\ UNCHANGED <<src, cconf, at, processed, ctable, chash, shorts, image>>
  BY DEF WriteHeader
<1>2. Length' = Length /\ ChunkCount' = ChunkCount /\ Length \in Nat /\ cconf \in CreateConfigs
  BY <1>1 DEF Length, ChunkCount, SrcTotal, Exits, PlaceInv, Creating
<1>3. /\ file'.kind = "spw" /\ file'.length = Length /\ file'.chunkSize = cconf.chunkSize
      /\ file'.table = file.table /\ file'.hash = file.hash /\ file'.sealed = file.sealed
      /\ file'.rotten = file.rotten
  BY DEF WriteHeader, Exits, FileShape
<1>4. /\ ~file.sealed /\ file.rotten = {} /\ file.table = <<>> /\ file.hash = ZeroHash /\ cconf.format = "spw"
      /\ Len(ctable) = ChunkCount /\ DOMAIN ctable = 1..ChunkCount
      /\ at = 0 /\ processed = 0 /\ chash = <<>> /\ DOMAIN image = {} /\ Unwritten(ctable)
  BY <1>1 DEF CreateInv, Creating
<1>5. Len(file'.table) = 0 /\ file'.table = <<>>
  BY <1>3, <1>4
<1>6. FileInv'
  BY <1>2, <1>3, <1>4, <1>5 DEF FileInv, Unwritten
<1>7. CreateInv'
  BY <1>1, <1>2, <1>3, <1>4 DEF CreateInv, Creating, Unwritten
<1> QED
  BY <1>6, <1>7

(* The table of zeros behind the header.                                   *)
LEMMA TableKept ==
  ASSUME Exits, FileInv, CreateInv, WriteTable
  PROVE  FileInv' /\ CreateInv'
<1>1. /\ cpc = "table" /\ cpc' = "chunks"
      /\ UNCHANGED <<src, cconf, at, processed, ctable, chash, shorts, image>>
  BY DEF WriteTable
<1>2. /\ Length' = Length /\ ChunkCount' = ChunkCount /\ Length \in Nat /\ ChunkCount \in Nat
      /\ cconf \in CreateConfigs /\ cconf.chunkSize \in Nat
  BY <1>1, CreateAssumption DEF Length, ChunkCount, SrcTotal, Exits, PlaceInv, Creating
<1>3. /\ file'.kind = file.kind /\ file'.length = file.length /\ file'.chunkSize = file.chunkSize
      /\ file'.table = ctable /\ file'.hash = file.hash /\ file'.sealed = file.sealed
      /\ file'.rotten = file.rotten
  BY DEF WriteTable, Exits, FileShape
<1>4. /\ ~file.sealed /\ file.rotten = {} /\ file.hash = ZeroHash /\ cconf.format = "spw"
      /\ file.kind = "spw" /\ file.length = Length /\ file.chunkSize = cconf.chunkSize
      /\ Len(ctable) = ChunkCount /\ DOMAIN ctable = 1..ChunkCount
      /\ at = 0 /\ processed = 0 /\ chash = <<>> /\ DOMAIN image = {} /\ Unwritten(ctable)
  BY <1>1 DEF CreateInv, Creating
<1>5. FileInv'
  BY <1>2, <1>3, <1>4 DEF FileInv, Unwritten
<1>6. TableSays(ctable, at, cconf.chunkSize)'
  BY <1>1, <1>4 DEF TableSays
<1>7. InLength(ctable, at, cconf.chunkSize, Length)'
  BY <1>1, <1>4 DEF InLength
<1>8. 0 = Least(0 * cconf.chunkSize, Length) /\ <<>> \in Seq(Nat)
  BY <1>2 DEF Least
<1>9. at' = 0 /\ processed' = 0 /\ chash' = <<>> /\ cconf' = cconf /\ DOMAIN image' = {}
  BY <1>1, <1>4
<1>10. CreateInv'
  BY <1>1, <1>2, <1>3, <1>4, <1>6, <1>7, <1>8, <1>9 DEF CreateInv, Creating, Least
<1> QED
  BY <1>5, <1>10

(* The header with the hash, and the table that fits it.                   *)
LEMMA SealKept ==
  ASSUME Exits, FileInv, CreateInv, SealHeader \/ SealTable
  PROVE  FileInv' /\ CreateInv'
<1>1. UNCHANGED <<src, cconf, at, processed, ctable, chash, shorts, image>> /\ cpc \in {"chunks", "seal"}
  BY DEF SealHeader, SealTable
<1>2. /\ Length' = Length /\ ChunkCount' = ChunkCount /\ Length \in Nat /\ ChunkCount \in Nat
      /\ cconf \in CreateConfigs
  BY <1>1 DEF Length, ChunkCount, SrcTotal, Exits, PlaceInv, Creating
<1>3. /\ ~file.sealed /\ file.rotten = {} /\ cconf.format = "spw" /\ at \in Nat /\ at <= ChunkCount
      /\ file.kind = "spw" /\ file.length = Length /\ file.chunkSize = cconf.chunkSize
      /\ Len(ctable) = ChunkCount /\ DOMAIN ctable = 1..ChunkCount
      /\ TableSays(ctable, at, cconf.chunkSize)
      /\ (shorts = 0 => InLength(ctable, at, cconf.chunkSize, Length))
      /\ (chash = <<>> => DOMAIN image = {})
  BY <1>1 DEF CreateInv, Creating
<1>4. CASE SealHeader
  <2>1. /\ file'.kind = file.kind /\ file'.length = file.length /\ file'.chunkSize = file.chunkSize
        /\ file'.table = file.table /\ file'.hash = chash /\ file'.sealed = file.sealed
        /\ file'.rotten = file.rotten
    BY <1>4 DEF SealHeader, Exits, FileShape
  <2>2. cpc = "chunks" /\ cpc' = "seal" /\ at = ChunkCount
    BY <1>4 DEF SealHeader
  <2>3. FileInv'
    BY <1>1, <1>3, <2>1 DEF FileInv, Unwritten
  <2>4. CreateInv'
    BY <1>1, <1>2, <1>3, <2>1, <2>2 DEF CreateInv, Creating, TableSays, InLength, GoodEntry
  <2> QED
    BY <2>3, <2>4
<1>5. CASE SealTable
  <2>1. /\ file'.kind = file.kind /\ file'.length = file.length /\ file'.chunkSize = file.chunkSize
        /\ file'.table = ctable /\ file'.hash = file.hash /\ file'.sealed = TRUE
        /\ file'.rotten = file.rotten
    BY <1>5 DEF SealTable, Exits, FileShape
  <2>2. cpc = "seal" /\ cpc' = "returned" /\ at = ChunkCount
    BY <1>5 DEF SealTable, CreateInv
  <2>3. /\ TableSays(file.table, Len(file.table), file.chunkSize)'
        /\ shorts = 0 => InLength(file.table, Len(file.table), file.chunkSize, file.length)'
    <3>1. /\ Len(file'.table) = at /\ file'.table = ctable /\ file'.chunkSize = cconf.chunkSize
          /\ file'.length = Length /\ image' = image
      BY <1>1, <1>3, <2>1, <2>2
    <3>2. TableSays(file.table, Len(file.table), file.chunkSize)'
      BY <1>3, <3>1 DEF TableSays, GoodEntry
    <3>3. shorts = 0 => InLength(file.table, Len(file.table), file.chunkSize, file.length)'
      BY <1>3, <3>1 DEF InLength
    <3> QED
      BY <3>2, <3>3
  <2>4. file.hash # ZeroHash /\ file.hash = <<>> => DOMAIN image = {}
    BY <1>3 DEF FileInv
  <2>5. FileInv'
    BY <1>1, <1>2, <1>3, <2>1, <2>3, <2>4 DEF FileInv
  <2> QED
    BY <2>2, <2>5, CreateIdle DEF Creating
<1> QED
  BY <1>4, <1>5

(* One buffer of a raw image.                                              *)
LEMMA RawChunkKept ==
  ASSUME Exits, FileInv, CreateInv, RawChunk
  PROVE  FileInv' /\ CreateInv'
<1>1. cpc = "raw" /\ cpc' = cpc /\ at < Length /\ UNCHANGED <<src, cconf, ctable, chash>>
  BY DEF RawChunk
<1>2. /\ Length' = Length /\ Length \in Nat /\ cconf.offset \in Nat /\ cconf.chunkSize \in Nat
      /\ shorts \in Nat
  BY <1>1, CreateAssumption DEF Length, SrcTotal, Exits, PlaceInv, FileShape, Creating
<1>3. /\ ~file.sealed /\ file.rotten = {} /\ at \in Nat /\ file.kind = "raw" /\ file.table = <<>> /\ file.hash = ZeroHash
      /\ file.blocks \in Seq(Nat) /\ (shorts = 0 => at = Len(file.blocks) /\ BlocksSay)
  BY <1>1 DEF CreateInv, FileInv, Creating
<1>4. AlignedChunk \in Nat
  <2>1. SrcSector \in Nat \ {0}
    BY CreateAssumption
  <2> QED
    BY <1>2, <2>1, CountsSectors DEF AlignedChunk
<1>5. PICK n \in Nat : n = Least(AlignedChunk, Length - at)
  <2>1. Length - at \in Nat
    BY <1>1, <1>2, <1>3
  <2>2. Least(AlignedChunk, Length - at) \in {AlignedChunk, Length - at}
    BY DEF Least
  <2> QED
    BY <1>4, <2>1, <2>2
<1>6. PICK data \in Reads(cconf.offset + at, n) :
        /\ file' = [file EXCEPT !.blocks = @ \o data]
        /\ image' = Imaged(at, data)
        /\ CountShort(data, n)
        /\ at' = at + n
  BY <1>5 DEF RawChunk
<1>7. data \in Seq(Nat) /\ Len(data) \in Nat /\ Len(data) <= n
  <2>1. cconf.offset + at \in Nat
    BY <1>2, <1>3
  <2> QED
    BY <2>1, ReadsType DEF Exits
<1>8. /\ file'.kind = file.kind /\ file'.table = file.table /\ file'.hash = file.hash
      /\ file'.sealed = file.sealed /\ file'.rotten = file.rotten /\ file'.blocks = file.blocks \o data
  BY <1>6 DEF Exits, FileShape
<1>9. /\ file'.blocks \in Seq(Nat) /\ Len(file'.blocks) = Len(file.blocks) + Len(data)
      /\ \A i \in 1..Len(file.blocks) : file'.blocks[i] = file.blocks[i]
      /\ \A k \in 1..Len(data) : file'.blocks[Len(file.blocks) + k] = data[k]
  BY <1>3, <1>7, <1>8
<1>10. FileInv'
  BY <1>3, <1>8, <1>9 DEF FileInv
<1>11. ASSUME shorts' = 0 PROVE at' = Len(file'.blocks) /\ BlocksSay'
  <2>1. shorts = 0 /\ Len(data) = n
    BY <1>2, <1>5, <1>6, <1>7, <1>11 DEF CountShort
  <2>2. at = Len(file.blocks) /\ BlocksSay
    BY <1>3, <2>1
  <2>3. at' = Len(file'.blocks)
    BY <1>6, <1>9, <2>1, <2>2
  <2>4. /\ DOMAIN image' = DOMAIN image \cup {at + k - 1 : k \in 1..Len(data)}
        /\ \A k \in 1..Len(data) : image'[at + k - 1] = data[k]
        /\ \A q \in DOMAIN image : q \in Int /\ q < at => image'[q] = image[q]
    BY <1>3, <1>6, <1>7, ImagedIs
  <2>5. DOMAIN image' = 0..(Len(file'.blocks) - 1)
    <3>1. DOMAIN image = 0..(at - 1)
      BY <2>2 DEF BlocksSay
    <3>2. Len(file'.blocks) = at + Len(data)
      BY <1>9, <2>2
    <3>3. ASSUME NEW q \in 0..(at + Len(data) - 1), q \notin 0..(at - 1)
          PROVE  q \in {at + k - 1 : k \in 1..Len(data)}
      <4>1. q - at + 1 \in 1..Len(data) /\ q = at + (q - at + 1) - 1
        BY <1>3, <1>7, <3>3
      <4> QED
        BY <4>1
    <3>4. ASSUME NEW k \in 1..Len(data) PROVE at + k - 1 \in 0..(at + Len(data) - 1)
      BY <1>3, <1>7
    <3>5. 0..(at - 1) \subseteq 0..(at + Len(data) - 1)
      BY <1>3, <1>7
    <3>6. DOMAIN image' = 0..(at - 1) \cup {at + k - 1 : k \in 1..Len(data)}
      BY <2>4, <3>1
    <3>7. {at + k - 1 : k \in 1..Len(data)} \subseteq 0..(at + Len(data) - 1)
      BY <3>4
    <3>8. 0..(at - 1) \cup {at + k - 1 : k \in 1..Len(data)} = 0..(at + Len(data) - 1)
      BY <3>3, <3>5, <3>7
    <3>9. DOMAIN image' = 0..(at + Len(data) - 1)
      BY <3>6, <3>8, Zenon
    <3>10. Len(file'.blocks) - 1 = at + Len(data) - 1
      BY <1>3, <1>7, <3>2
    <3> QED
      BY <3>9, <3>10, Zenon
  <2>6. ASSUME NEW i \in 1..Len(file'.blocks) PROVE image'[i - 1] = file'.blocks[i]
    <3>0. i \in Nat /\ 1 <= i /\ i <= at + Len(data)
      BY <1>3, <1>7, <1>9, <2>2
    <3>1. CASE i <= at
      <4>1. i \in 1..Len(file.blocks) /\ i - 1 \in 0..(at - 1) /\ i - 1 \in Int /\ i - 1 < at
        BY <1>3, <2>2, <3>0, <3>1
      <4>2. i - 1 \in DOMAIN image /\ image[i - 1] = file.blocks[i]
        BY <2>2, <4>1 DEF BlocksSay
      <4> QED
        BY <1>9, <2>4, <4>1, <4>2
    <3>2. CASE i > at
      <4>1. PICK k \in 1..Len(data) : i = at + k
        <5>1. i - at \in 1..Len(data) /\ i = at + (i - at)
          BY <1>3, <1>7, <3>0, <3>2
        <5> QED
          BY <5>1
      <4>2. file'.blocks[i] = data[k]
        BY <1>9, <2>2, <4>1
      <4>3. image'[at + k - 1] = data[k] /\ i - 1 = at + k - 1
        BY <1>3, <2>4, <4>1
      <4> QED
        BY <4>2, <4>3
    <3> QED
      BY <1>3, <3>0, <3>1, <3>2
  <2> QED
    BY <2>3, <2>5, <2>6 DEF BlocksSay
<1>12. CreateInv'
  BY <1>1, <1>3, <1>6, <1>8, <1>11 DEF CreateInv, Creating
<1> QED
  BY <1>10, <1>12

(* The entry of a chunk holds the CRC of what was read.                    *)
LEMMA EncodingIs ==
  ASSUME NEW data \in Seq(Nat), NEW e \in Encodings(data)
  PROVE  /\ e.entry.flag \in {0, 1} /\ e.entry.crc = data
         /\ e.entry.flag = 1 => data = Zeros(e.entry.usize)
<1>1. ASSUME NEW packed \in BOOLEAN, e = Stored(data, packed)
      PROVE  e.entry.flag = 0 /\ e.entry.crc = data
  BY <1>1 DEF Stored, Entry, crc32Buffer
<1>2. ASSUME isAllZeros(data), e = Sparse(data)
      PROVE  e.entry.flag = 1 /\ e.entry.crc = data /\ data = Zeros(e.entry.usize)
  <2>1. e.entry.flag = 1 /\ e.entry.crc = data /\ e.entry.usize = Len(data)
    BY <1>2 DEF Sparse, Entry, crc32Buffer
  <2>2. DOMAIN data = 1..Len(data) /\ (\A i \in 1..Len(data) : data[i] = 0) /\ data = [i \in 1..Len(data) |-> data[i]]
    BY <1>2 DEF isAllZeros
  <2>3. data = Zeros(Len(data))
    BY <2>2 DEF Zeros
  <2> QED
    BY <2>1, <2>3
<1>3. \/ isAllZeros(data) /\ e = Sparse(data)
      \/ \E packed \in BOOLEAN : e = Stored(data, packed)
  BY DEF Encodings
<1> QED
  BY <1>1, <1>2, <1>3

(* One chunk of an SPW image.                                              *)
LEMMA SpwChunkKept ==
  ASSUME Exits, FileInv, CreateInv, SpwChunk
  PROVE  FileInv' /\ CreateInv'
<1> DEFINE size == cconf.chunkSize
           from == at * size
<1>1. /\ cpc = "chunks" /\ cpc' = cpc /\ at < ChunkCount /\ at' = at + 1
      /\ UNCHANGED <<src, cconf>>
  BY DEF SpwChunk
<1>2. /\ Length' = Length /\ ChunkCount' = ChunkCount /\ Length \in Nat /\ ChunkCount \in Nat
      /\ cconf.offset \in Nat /\ size \in Nat \ {0} /\ shorts \in Nat /\ cconf \in CreateConfigs
  BY <1>1, CreateAssumption DEF Length, ChunkCount, SrcTotal, Exits, PlaceInv, FileShape, Creating
<1>3. /\ ~file.sealed /\ file.rotten = {} /\ at \in Nat /\ cconf.format = "spw" /\ file.hash = ZeroHash
      /\ file.kind = "spw" /\ file.length = Length /\ file.chunkSize = size
      /\ Len(ctable) = ChunkCount /\ DOMAIN ctable = 1..ChunkCount
      /\ processed \in Nat /\ processed <= Length
      /\ TableSays(ctable, at, size)
      /\ (shorts = 0 => /\ InLength(ctable, at, size, Length)
                        /\ processed = Least(from, Length))
      /\ chash \in Seq(Nat) /\ (chash = <<>> => DOMAIN image = {})
  BY <1>1 DEF CreateInv, Creating
<1>4. from \in Nat /\ from < Length
  BY <1>1, <1>2, <1>3, ChunkBegins DEF ChunkCount
<1>5. PICK n \in Nat : n = Least(size, Length - processed) /\ n <= size /\ n <= Length - processed
  <2>1. Length - processed \in Nat
    BY <1>2, <1>3
  <2>2. /\ Least(size, Length - processed) \in Nat /\ Least(size, Length - processed) <= size
        /\ Least(size, Length - processed) <= Length - processed
    BY <1>2, <2>1 DEF Least
  <2> QED
    BY <2>2
<1>6. PICK data \in Reads(cconf.offset + from, n) : \E e \in Encodings(data) :
        /\ file' = [file EXCEPT !.blocks = @ \o e.block]
        /\ ctable' = [ctable EXCEPT ![at + 1] = e.entry]
        /\ chash' = chash \o data
        /\ image' = Imaged(from, data)
        /\ CountShort(data, n)
        /\ processed' = processed + Len(data)
  BY <1>5 DEF SpwChunk
<1>7. PICK e \in Encodings(data) :
        /\ file' = [file EXCEPT !.blocks = @ \o e.block]
        /\ ctable' = [ctable EXCEPT ![at + 1] = e.entry]
  BY <1>6
<1> HIDE DEF size, from
<1>8. data \in Seq(Nat) /\ Len(data) \in Nat /\ Len(data) <= n /\ Len(data) <= size
  <2>1. cconf.offset + from \in Nat
    BY <1>2, <1>4
  <2>2. data \in Seq(Nat) /\ Len(data) \in Nat /\ Len(data) <= n
    BY <2>1, ReadsType DEF Exits
  <2> QED
    BY <1>2, <1>5, <2>2
<1>9. /\ e.entry.flag \in {0, 1} /\ e.entry.crc = data
      /\ e.entry.flag = 1 => data = Zeros(e.entry.usize)
  BY <1>8, EncodingIs
<1>10. /\ file'.kind = "spw" /\ file'.length = Length /\ file'.chunkSize = size /\ file'.hash = ZeroHash
       /\ file'.table = file.table /\ file'.sealed = FALSE /\ file'.rotten = {}
  BY <1>3, <1>7 DEF Exits, FileShape
<1>11. FileInv'
  BY <1>1, <1>2, <1>3, <1>10 DEF FileInv, Unwritten, size
<1>12. /\ DOMAIN ctable' = 1..ChunkCount /\ Len(ctable') = ChunkCount
       /\ ctable'[at + 1] = e.entry /\ \A i \in 1..at : ctable'[i] = ctable[i]
  <2>1. at + 1 \in 1..ChunkCount
    BY <1>1, <1>2, <1>3
  <2>2. DOMAIN ctable' = 1..ChunkCount
    BY <1>3, <1>7
  <2>3. Len(ctable') = ChunkCount
    BY <1>2, <2>2
  <2>4. ctable'[at + 1] = e.entry
    BY <1>3, <1>7, <2>1
  <2>5. ASSUME NEW i \in 1..at PROVE ctable'[i] = ctable[i]
    BY <1>1, <1>2, <1>3, <1>7
  <2> QED
    BY <2>2, <2>3, <2>4, <2>5
<1>13. /\ DOMAIN image' = DOMAIN image \cup {from + k - 1 : k \in 1..Len(data)}
       /\ \A k \in 1..Len(data) : image'[from + k - 1] = data[k]
       /\ \A q \in DOMAIN image : q \in Int /\ q < from => image'[q] = image[q]
       /\ data = <<>> => DOMAIN image' = DOMAIN image
  <2>1. image' = Imaged(from, data)
    BY <1>6
  <2> QED
    BY <1>4, <1>8, <2>1, ImagedIs
<1>14. PICK last \in Nat : last = at + 1 /\ (last - 1) * size = from
  BY <1>3 DEF from
<1>15. TableSays(ctable, at, cconf.chunkSize)'
  <2>1. ASSUME NEW i \in 1..(at + 1) PROVE GoodEntry(ctable'[i], size)
    <3>1. CASE i = at + 1
      BY <1>8, <1>9, <1>12, <3>1 DEF GoodEntry
    <3>2. CASE i # at + 1
      <4>1. i \in 1..at
        BY <1>3, <3>2
      <4> QED
        BY <1>3, <1>12, <4>1 DEF TableSays
    <3> QED
      BY <3>1, <3>2
  <2>2. ASSUME NEW i \in 1..(at + 1), NEW k \in 1..Len(ctable'[i].crc)
        PROVE  /\ (i - 1) * size + k - 1 \in DOMAIN image'
               /\ image'[(i - 1) * size + k - 1] = ctable'[i].crc[k]
    <3>1. CASE i = at + 1
      <4>1. (i - 1) * size = from /\ ctable'[i].crc = data
        BY <1>9, <1>12, <1>14, <3>1
      <4>2. k \in 1..Len(data)
        BY <4>1
      <4> QED
        BY <1>13, <4>1, <4>2
    <3>2. CASE i # at + 1
      <4>1. i \in 1..at /\ i \in Nat \ {0} /\ i <= at
        BY <1>3, <3>2
      <4>2. ctable'[i] = ctable[i] /\ k \in 1..Len(ctable[i].crc)
        BY <1>12, <4>1
      <4>3. /\ GoodEntry(ctable[i], size) /\ (i - 1) * size + k - 1 \in DOMAIN image
            /\ image[(i - 1) * size + k - 1] = ctable[i].crc[k]
        BY <1>3, <4>1, <4>2 DEF TableSays
      <4>4. k \in Nat /\ k <= size
        <5>1. ctable[i].crc \in Seq(Nat) /\ Len(ctable[i].crc) <= size
          BY <4>3 DEF GoodEntry
        <5>2. Len(ctable[i].crc) \in Nat
          BY <5>1
        <5> QED
          BY <1>2, <4>2, <5>1, <5>2
      <4>5. (i - 1) * size \in Nat /\ (i - 1) * size + size <= from
        BY <1>2, <1>3, <4>1, ChunkEnds DEF from
      <4>6. PICK m \in Nat : m = (i - 1) * size
        BY <4>5
      <4>7. m + k - 1 \in Int /\ m + k - 1 < from
        BY <1>2, <1>4, <4>4, <4>5, <4>6
      <4> QED
        BY <1>13, <4>2, <4>3, <4>6, <4>7
    <3> QED
      BY <3>1, <3>2
  <2>3. ASSUME NEW q \in DOMAIN image'
        PROVE  \E i \in 1..(at + 1) : \E k \in 1..Len(ctable'[i].crc) : q = (i - 1) * size + k - 1
    <3>1. CASE q \in DOMAIN image
      <4>1. PICK i \in 1..at : \E k \in 1..Len(ctable[i].crc) : q = (i - 1) * size + k - 1
        BY <1>3, <3>1 DEF TableSays
      <4>2. i \in 1..(at + 1) /\ ctable'[i] = ctable[i]
        BY <1>3, <1>12
      <4> QED
        BY <4>1, <4>2
    <3>2. CASE q \notin DOMAIN image
      <4>1. PICK k \in 1..Len(data) : q = from + k - 1
        BY <1>13, <3>2
      <4>2. last \in 1..(at + 1) /\ k \in 1..Len(ctable'[last].crc)
        BY <1>3, <1>9, <1>12, <1>14
      <4>3. q = (last - 1) * size + k - 1
        BY <1>14, <4>1
      <4> QED
        BY <4>2, <4>3
    <3> QED
      BY <3>1, <3>2
  <2>4. at' = at + 1 /\ cconf'.chunkSize = size
    BY <1>1 DEF size
  <2>5. \A i \in 1..at' : GoodEntry(ctable'[i], cconf'.chunkSize)
    BY <2>1, <2>4
  <2> QED
    BY <2>2, <2>3, <2>4, <2>5 DEF TableSays, GoodEntry
<1>16. chash' \in Seq(Nat) /\ (chash' = <<>> => DOMAIN image' = {})
  <2>1. chash' = chash \o data
    BY <1>6
  <2>2. chash' \in Seq(Nat) /\ Len(chash') = Len(chash) + Len(data)
    BY <1>3, <1>8, <2>1
  <2>3. chash' = <<>> => chash = <<>> /\ data = <<>>
    BY <1>3, <1>8, <2>2
  <2> QED
    BY <1>3, <1>13, <2>2, <2>3
<1>17. processed' \in Nat /\ processed' <= Length
  <2>1. processed' = processed + Len(data)
    BY <1>6
  <2> QED
    BY <1>2, <1>3, <1>5, <1>8, <2>1
<1>18. ASSUME shorts' = 0
       PROVE  /\ InLength(ctable, at, cconf.chunkSize, Length)'
              /\ processed' = Least(at' * size, Length)
  <2>1. shorts = 0 /\ Len(data) = n
    <3>1. CountShort(data, n)
      BY <1>6
    <3> QED
      BY <1>2, <1>5, <1>8, <1>18, <3>1 DEF CountShort
  <2>2. processed = from /\ processed' = from + n
    <3>1. processed' = processed + Len(data)
      BY <1>6
    <3>2. processed = Least(from, Length)
      BY <1>3, <2>1
    <3>3. processed = from
      BY <1>2, <1>4, <3>2 DEF Least
    <3> QED
      BY <2>1, <3>1, <3>3
  <2>3. at' * size = from + size
    BY <1>1, <1>2, <1>3 DEF from
  <2>4. processed' = Least(at' * size, Length)
    BY <1>2, <1>4, <1>5, <2>2, <2>3 DEF Least
  <2>5. ASSUME NEW i \in 1..(at + 1) PROVE (i - 1) * size + Len(ctable'[i].crc) <= Length
    <3>1. CASE i = at + 1
      <4>1. (i - 1) * size = from /\ Len(ctable'[i].crc) = n
        BY <1>9, <1>12, <1>14, <2>1, <3>1
      <4> QED
        BY <1>2, <1>4, <1>5, <2>2, <4>1
    <3>2. CASE i # at + 1
      <4>1. i \in 1..at
        BY <1>3, <3>2
      <4> QED
        BY <1>3, <1>12, <2>1, <4>1 DEF InLength
    <3> QED
      BY <3>1, <3>2
  <2>6. at' = at + 1 /\ cconf'.chunkSize = size /\ Length' = Length
    BY <1>1, <1>2 DEF size
  <2> QED
    BY <2>4, <2>5, <2>6 DEF InLength
<1>19. CreateInv'
  <2>1. /\ at' \in Nat /\ at' <= ChunkCount' /\ cconf'.format = "spw" /\ cconf'.chunkSize = size
        /\ cpc' = "chunks"
    BY <1>1, <1>2, <1>3 DEF size
  <2> QED
    BY <1>2, <1>10, <1>12, <1>15, <1>16, <1>17, <1>18, <2>1 DEF CreateInv, Creating
<1> QED
  BY <1>11, <1>19

(* A table of zeros with an entry called sparse, or cut short, is still    *)
(* one.                                                                    *)
LEMMA UnwrittenKept ==
  ASSUME FileShape, file' \in DamagedTable, Len(file.table) \in Nat
  PROVE  Len(file'.table) \in Nat /\ (Unwritten(file.table) => Unwritten(file'.table))
<1>1. CASE \E k \in 1..Len(file.table) : file' = Damaged([file EXCEPT !.table = CalledSparse(k)], "table")
  <2>1. PICK k \in 1..Len(file.table) : file' = Damaged([file EXCEPT !.table = CalledSparse(k)], "table")
    BY <1>1
  <2>2. file'.table = CalledSparse(k)
    BY <2>1 DEF Damaged, FileShape
  <2>3. Len(file'.table) = Len(file.table)
    BY <2>2 DEF CalledSparse
  <2>4. \A i \in 1..Len(file.table) :
          file'.table[i] = IF i = k THEN [file.table[i] EXCEPT !.flag = 1] ELSE file.table[i]
    BY <2>2 DEF CalledSparse
  <2>5. ASSUME Unwritten(file.table), NEW i \in 1..Len(file.table)
        PROVE  file'.table[i] \in {ZeroEntry, [ZeroEntry EXCEPT !.flag = 1]}
    <3>1. file.table[i] \in {ZeroEntry, [ZeroEntry EXCEPT !.flag = 1]}
      BY <2>5 DEF Unwritten
    <3>2. /\ [ZeroEntry EXCEPT !.flag = 1] = Entry(1, 0, 0, 0, crc32Buffer(<<>>))
          /\ [Entry(1, 0, 0, 0, crc32Buffer(<<>>)) EXCEPT !.flag = 1] = Entry(1, 0, 0, 0, crc32Buffer(<<>>))
      BY DEF ZeroEntry, Entry
    <3> QED
      BY <2>4, <3>1, <3>2
  <2> QED
    BY <2>3, <2>5 DEF Unwritten
<1>2. CASE \E n \in 1..(Len(file.table) - 1) : file' = Damaged([file EXCEPT !.table = Shortened(n)], "table")
  <2>1. PICK n \in 1..(Len(file.table) - 1) : file' = Damaged([file EXCEPT !.table = Shortened(n)], "table")
    BY <1>2
  <2>2. file'.table = Shortened(n)
    BY <2>1 DEF Damaged, FileShape
  <2>3. Len(file'.table) = n /\ \A i \in 1..n : file'.table[i] = file.table[i]
    BY <2>2 DEF Shortened
  <2> QED
    BY <2>3 DEF Unwritten
<1> QED
  BY <1>1, <1>2 DEF DamagedTable

(* Damage to the data leaves sequences of numbers such.                    *)
LEMMA RawDamaged ==
  ASSUME FileShape, FileInv, file' \in DamagedData, file.kind = "raw"
  PROVE  file'.blocks \in Seq(Nat)
<1>1. PICK i \in DOMAIN file.blocks : file' = Damaged([file EXCEPT !.blocks[i] = Fresh + 1], "data")
  BY DEF DamagedData
<1>2. file'.blocks = [file.blocks EXCEPT ![i] = Fresh + 1]
  BY <1>1 DEF Damaged, FileShape
<1>3. file.blocks \in Seq(Nat) /\ Fresh + 1 \in Nat
  BY CreateAssumption DEF FileInv
<1> QED
  BY <1>2, <1>3

(* Damage to the file.                                                     *)
LEMMA DamageKept ==
  ASSUME Exits, FileInv, Damage
  PROVE  FileInv' /\ CreateInv'
<1>1. UNCHANGED <<cpc, shorts, image>> /\ file.holder = "none" /\ FileShape
  BY DEF Damage, Exits
<1>2. cpc' \notin Creating
  BY <1>1 DEF Exits, HolderInv
<1>3. file'.sealed = file.sealed /\ file'.length = file.length
  BY <1>1, DamageIs
<1>4. CASE /\ file' \in DamagedData
           /\ file'.kind = file.kind /\ file'.rotten = file.rotten \cup {"data"}
           /\ UNCHANGED <<file.chunkSize, file.table>>
  <2>1. file.kind = "raw" => file'.blocks \in Seq(Nat)
    BY <1>1, <1>4, RawDamaged
  <2>2. file'.hash \in {file.hash, OtherHash}
    <3>1. \/ \E i : file' = Damaged([file EXCEPT !.blocks[i] = Fresh + 1], "data")
          \/ \E i : file' = Damaged([file EXCEPT !.blocks[i].data[1] = Fresh + 1], "data")
          \/ file' = Damaged([file EXCEPT !.hash = OtherHash], "data")
      BY <1>4 DEF DamagedData
    <3> QED
      BY <1>1, <3>1 DEF Damaged, FileShape
  <2>3. OtherHash # <<>>
    BY DEF OtherHash
  <2>4. "data" \in file'.rotten /\ ("place" \notin file'.rotten => "place" \notin file.rotten)
        /\ (file'.rotten \subseteq {"data"} => file.rotten \subseteq {"data"})
    BY <1>4
  <2>5. /\ TableSays(file.table, Len(file.table), file.chunkSize)' <=>
              TableSays(file.table, Len(file.table), file.chunkSize)
        /\ Unwritten(file.table)' <=> Unwritten(file.table)
        /\ InLength(file.table, Len(file.table), file.chunkSize, file.length)' <=>
              InLength(file.table, Len(file.table), file.chunkSize, file.length)
    BY <1>1, <1>3, <1>4 DEF TableSays, GoodEntry, Unwritten, InLength
  <2>6. CreateInv'
    BY <1>2, CreateIdle
  <2>7. CASE file.kind = "raw"
    <3>1. file'.rotten # {} /\ file'.kind = "raw"
      BY <1>4, <2>4, <2>7
    <3> QED
      BY <2>1, <2>6, <2>7, <3>1 DEF FileInv
  <2>8. CASE file.kind # "raw"
    <3>1. file'.kind = file.kind /\ file'.chunkSize = file.chunkSize /\ file'.table = file.table
      BY <1>4
    <3> QED
      BY <1>1, <1>3, <2>2, <2>3, <2>4, <2>5, <2>6, <2>8, <3>1 DEF FileInv
  <2> QED
    BY <2>7, <2>8
<1>5. CASE /\ file' \in DamagedTable /\ file.kind = "spw"
           /\ file'.kind = "spw" /\ file'.rotten = file.rotten \cup {"table"}
           /\ UNCHANGED <<file.chunkSize, file.hash>>
  <2>1. Len(file'.table) \in Nat /\ (Unwritten(file.table) => Unwritten(file'.table))
    <3>1. Len(file.table) \in Nat
      BY <1>5 DEF FileInv
    <3> QED
      BY <1>1, <1>5, <3>1, UnwrittenKept
  <2>2. "table" \in file'.rotten /\ ("place" \notin file'.rotten => "place" \notin file.rotten)
    BY <1>5
  <2>3. ~(file'.rotten \subseteq {"data"})
    BY <2>2
  <2> QED
    BY <1>1, <1>2, <1>3, <1>5, <2>1, <2>2, <2>3, CreateIdle DEF FileInv, Unwritten
<1>6. CASE /\ file'.kind = "spw" /\ file.kind = "spw" /\ file'.rotten = file.rotten \cup {"place"}
           /\ UNCHANGED <<file.table, file.hash>>
  <2>1. "place" \in file'.rotten /\ ~(file'.rotten \subseteq {"data"})
    BY <1>6
  <2> QED
    BY <1>1, <1>2, <1>3, <1>6, <2>1, CreateIdle DEF FileInv, Unwritten
<1>7. CASE /\ file.kind = "spw" /\ file'.kind = "raw" /\ file'.blocks = RawBytes
           /\ file'.rotten = file.rotten \cup {"magic"}
  <2>1. Len(file.table) \in Nat /\ Fresh + 2 \in Nat
    BY <1>7, CreateAssumption DEF FileInv
  <2>2. file'.blocks \in Seq(Nat)
    BY <1>7, <2>1 DEF RawBytes
  <2>3. file'.rotten # {}
    BY <1>7
  <2> QED
    BY <1>1, <1>2, <1>7, <2>2, <2>3, CreateIdle DEF FileInv
<1> QED
  BY <1>1, <1>4, <1>5, <1>6, <1>7, DamageIs

(* All steps.                                                              *)
LEMMA FilesKept ==
  ASSUME Exits, FileInv, CreateInv, [ImagingNext]_tvars
  PROVE  FileInv' /\ CreateInv'
<1>1. CASE (CreateStep \/ CreateEnv) /\ UNCHANGED <<rvars, tabs>>
  <2>1. CASE CreateStart
    BY <2>1, StartKept
  <2>2. CASE CreateCanceled \/ CreateFails \/ LeaveEmpty \/ SealFails
    BY <2>2, LeaveKept
  <2>2a. CASE DeleteFile
    BY <2>2a, DeleteKept
  <2>3. CASE RawChunk \/ RawDone
    BY <2>3, RawChunkKept, RawDoneKept
  <2>4. CASE WriteHeader \/ WriteTable
    BY <2>4, HeaderKept, TableKept
  <2>5. CASE SpwChunk
    BY <2>5, SpwChunkKept
  <2>6. CASE SealHeader \/ SealTable
    BY <2>6, SealKept
  <2>7. CASE CreateEnv
    <3>1. /\ UNCHANGED <<cconf, cpc, at, processed, ctable, chash, shorts, image>> /\ file' = file
          /\ DOMAIN src' = DOMAIN src
      BY <2>7 DEF CreateEnv, requestCancel, OtherWrite
    <3> QED
      BY <3>1, FilesSame DEF Exits, SrcTotal
  <2> QED
    BY <1>1, <2>1, <2>2, <2>2a, <2>3, <2>4, <2>5, <2>6, <2>7 DEF CreateStep
<1>2. CASE (RestoreStep \/ requestRestoreCancel) /\ UNCHANGED tabs
  <2>1. CreatorSame /\ (file' = file \/ \E who \in {"none", "restorer"} : file' = Held(file, who))
    BY <1>2, RestorerFile DEF Exits
  <2> QED
    BY <2>1, FilesSame DEF Exits, CreatorSame, SrcTotal
<1>3. CASE Damage /\ UNCHANGED tabs
  BY <1>3, DamageKept
<1>4. CASE onCreateImage \/ CreateFinished \/ ProgramDies
  <2>1. /\ UNCHANGED <<shorts, image>> /\ (file' = file \/ file' = Held(file, "none"))
        /\ cpc' \in {"open", "idle"}
    BY <1>4 DEF onCreateImage, CreateFinished, ProgramDies, rvars
  <2> QED
    BY <2>1, FileSame, CreateIdle DEF Exits, Creating
<1>5. CASE onRestoreImage \/ RestoreNo \/ RestoreYes \/ RestoreFinished \/ UNCHANGED tvars
  <2>1. UNCHANGED <<src, file, cconf, cpc, at, processed, ctable, chash, shorts, image>>
    BY <1>5 DEF onRestoreImage, RestoreNo, RestoreYes, RestoreFinished, tvars, ivars, cvars, rvars
  <2> QED
    BY <2>1, FilesSame DEF Exits, SrcTotal
<1> QED
  BY <1>1, <1>2, <1>3, <1>4, <1>5 DEF ImagingNext

(* The file and its creation: whoever left the file and when, its table    *)
(* is all zeros, or tells the bytes that were read and where they belong.  *)
THEOREM FilesInvariant == ImagingSpec => [](FileInv /\ CreateInv)
<1>1. ImagingInit => FileInv /\ CreateInv
  <2> SUFFICES ASSUME ImagingInit PROVE FileInv /\ CreateInv
    OBVIOUS
  <2>1. file = NoFile /\ cpc = "idle"
    BY DEF ImagingInit, CreateInit
  <2>2. file.kind = "none"
    BY <2>1 DEF NoFile
  <2> QED
    BY <2>1, <2>2 DEF FileInv, CreateInv, Creating
<1>2. Exits /\ FileInv /\ CreateInv /\ [ImagingNext]_tvars => FileInv' /\ CreateInv'
  BY FilesKept
<1> QED
  BY <1>1, <1>2, ExitsInvariant, PTL DEF ImagingSpec

-----------------------------------------------------------------------------
(* What is put back.                                                       *)

(* Rounding up to sectors covers.                                          *)
LEMMA UpToCovers ==
  ASSUME NEW n \in Nat, NEW s \in Nat \ {0}
  PROVE  UpTo(n, s) \in Nat /\ n <= UpTo(n, s)
<1>1. PICK q \in Nat : q = (n + s - 1) \div s
  BY CountsChunks
<1>2. n + s - 1 \in Nat
  OBVIOUS
<1>3. q * s <= n + s - 1 /\ n + s - 1 < (q + 1) * s
  BY <1>1, <1>2
<1>4. (q + 1) * s = q * s + s /\ q * s \in Nat
  OBVIOUS
<1> QED
  BY <1>1, <1>3, <1>4 DEF UpTo

(* What is on the disk after a write, and what stays.                      *)
LEMMA WrittenIs ==
  ASSUME PlaceInv, NEW pos \in Nat, NEW data \in Seq(Nat), CanWrite(pos, data)
  PROVE  /\ pos <= DstTotal
         /\ \A k \in 1..Len(data) : Written(pos, data)[pos + k - 1] = data[k]
         /\ \A p \in 0..(pos - 1) : Written(pos, data)[p] = dst[p]
<1>1. DstTotal \in Nat /\ DOMAIN dst = 0..(DstTotal - 1) /\ Len(data) \in Nat
  BY RestoreAssumption DEF PlaceInv
<1>2. PICK u \in Nat : u = UpTo(Len(data), rconf.sector) /\ Len(data) <= u
  BY <1>1, LettersType, UpToCovers
<1>3. pos + u <= DstTotal
  BY <1>2 DEF CanWrite
<1>4. ASSUME NEW k \in 1..Len(data) PROVE Written(pos, data)[pos + k - 1] = data[k]
  <2>1. /\ pos + k - 1 \in DOMAIN dst /\ pos + k - 1 >= pos /\ pos + k - 1 < pos + Len(data)
        /\ (pos + k - 1) - pos + 1 = k
    BY <1>1, <1>2, <1>3
  <2> QED
    BY <2>1 DEF Written
<1>5. ASSUME NEW p \in 0..(pos - 1) PROVE Written(pos, data)[p] = dst[p]
  <2>1. p \in DOMAIN dst /\ ~(p >= pos) /\ ~(p >= pos + Len(data))
    BY <1>1, <1>2, <1>3
  <2> QED
    BY <2>1 DEF Written
<1> QED
  BY <1>1, <1>2, <1>3, <1>4, <1>5

(* What of the file a restore works with is the same.                      *)
SameData ==
  /\ file'.kind = file.kind /\ file'.length = file.length /\ file'.chunkSize = file.chunkSize
  /\ file'.hash = file.hash /\ file'.table = file.table /\ file'.blocks = file.blocks
  /\ file'.sealed = file.sealed /\ file'.rotten = file.rotten

(* While a file is being restored, nobody else touches what is in it.      *)
LEMMA CreatorApart ==
  ASSUME Exits, CreateStep \/ CreateEnv, rpc \in RestoreBusy
  PROVE  SameData /\ UNCHANGED <<image, shorts>>
<1>1. cpc \notin Creating /\ file.holder = "restorer"
  BY DEF Exits, HolderInv
<1>2. CASE CreateStart
  BY <1>1, <1>2 DEF CreateStart, SameData
<1>3. CASE CreateEnv
  BY <1>3 DEF CreateEnv, requestCancel, OtherWrite, SameData
<1>3a. CASE DeleteFile
  BY <1>1, <1>3a DEF DeleteFile, SameData, Exits, FileShape
<1>4. CASE ~CreateStart /\ ~CreateEnv /\ ~DeleteFile
  <2>1. cpc \in Creating
    BY <1>4 DEF CreateStep, LeaveEmpty, CreateCanceled, CreateFails, RawChunk, RawDone, WriteHeader,
                WriteTable, SpwChunk, SealHeader, SealTable, SealFails, Creating
  <2> QED
    BY <1>1, <2>1
<1> QED
  BY <1>2, <1>3, <1>3a, <1>4

(* What restoreImage() has done stays when the file and the disk do.       *)
LEMMA RestoreSame ==
  ASSUME RestoreInv, UNCHANGED <<dst, rconf, rpc, rformat, done, rhash, expected>>,
         rpc \in RestoreBusy => SameData /\ image' = image
  PROVE  RestoreInv'
<1>1. CASE rpc \in RestoreBusy
  <2>1. (Put(done)' <=> Put(done)) /\ RawBytes' = RawBytes
    <3>1. Put(done)' <=> Put(done)
      <4>1. /\ dst' = dst /\ rconf'.offset = rconf.offset /\ done' = done
            /\ file'.table = file.table /\ file'.chunkSize = file.chunkSize
        BY <1>1 DEF SameData
      <4> QED
        BY <4>1 DEF Put, ChunkPlace
    <3> QED
      BY <1>1, <3>1 DEF RawBytes, SameData
  <2>2. /\ file'.kind = file.kind /\ file'.length = file.length /\ file'.hash = file.hash
        /\ file'.table = file.table /\ file'.sealed = file.sealed /\ file'.rotten = file.rotten
        /\ image' = image
    BY <1>1, <2>1 DEF SameData
  <2>3. rpc' \in RestoreBusy /\ rpc' = rpc /\ rpc \notin {"idle", "asking", "detect", "magic", "open"}
    BY <1>1 DEF RestoreBusy
  <2> QED
    BY <1>1, <2>1, <2>2, <2>3 DEF RestoreInv
<1>2. CASE rpc \notin RestoreBusy
  BY <1>2 DEF RestoreInv, RestoreBusy
<1> QED
  BY <1>1, <1>2

(* Nothing is said of a restore that is not running.                       *)
LEMMA RestoreIdle ==
  ASSUME rpc' \notin RestoreBusy, rpc' = "returned" \/ expected' = NoExpectation
  PROVE  RestoreInv'
BY DEF RestoreInv, RestoreBusy

(* The bytes of a file read as a raw image.                                *)
LEMMA RawBytesType ==
  ASSUME FileShape, FileInv, file.kind # "none"
  PROVE  RawBytes \in Seq(Nat) /\ Len(RawBytes) \in Nat
<1>1. CASE file.kind = "raw"
  BY <1>1 DEF FileInv, RawBytes
<1>2. CASE file.kind = "spw"
  <2>1. PICK m \in Nat : m = 1 + Len(file.table)
    BY <1>2 DEF FileInv
  <2>2. Fresh + 2 \in Nat
    BY CreateAssumption
  <2>3. RawBytes \in [1..m -> Nat]
    BY <1>2, <2>1, <2>2 DEF RawBytes
  <2> QED
    BY <2>1, <2>3
<1> QED
  BY <1>1, <1>2 DEF FileShape

(* The chunk that passes its check is what its entry's CRC is of; in a     *)
(* table of zeros it is nothing.                                           *)
LEMMA ChunkIs ==
  ASSUME FileShape, FileInv, file.kind = "spw", NEW i \in 1..Len(file.table), ChunkGood(file.table[i])
  PROVE  /\ Len(file.table) \in Nat
         /\ ~file.sealed => Unpacked(file.table[i]) = <<>> /\ file.table[i].crc = <<>>
         /\ file.rotten \subseteq {"data"} =>
              /\ file.chunkSize \in Nat \ {0}
              /\ Unpacked(file.table[i]) = file.table[i].crc /\ file.table[i].crc \in Seq(Nat)
              /\ file.sealed => GoodEntry(file.table[i], file.chunkSize)
<1>1. Len(file.table) \in Nat
  BY DEF FileInv
<1>2. ASSUME file.sealed, file.rotten \subseteq {"data"}
      PROVE  /\ GoodEntry(file.table[i], file.chunkSize)
             /\ Unpacked(file.table[i]) = file.table[i].crc /\ file.table[i].crc \in Seq(Nat)
  <2>1. GoodEntry(file.table[i], file.chunkSize)
    BY <1>2 DEF FileInv, TableSays
  <2>2. Unpacked(file.table[i]) = file.table[i].crc
    BY <2>1 DEF GoodEntry, ChunkGood, Unpacked, crc32Buffer
  <2> QED
    BY <2>1, <2>2 DEF GoodEntry
<1>3. ASSUME ~file.sealed PROVE Unpacked(file.table[i]) = <<>> /\ file.table[i].crc = <<>>
  <2>1. file.table[i] \in {ZeroEntry, [ZeroEntry EXCEPT !.flag = 1]}
    BY <1>3 DEF FileInv, Unwritten
  <2>2. /\ file.table[i].flag \in {0, 1} /\ file.table[i].offset = 0 /\ file.table[i].crc = <<>>
        /\ file.table[i].usize = 0
    BY <2>1 DEF ZeroEntry, Entry, crc32Buffer
  <2>3. Zeros(0) = <<>>
    BY DEF Zeros
  <2> QED
    BY <2>2, <2>3 DEF Unpacked
<1>4. file.rotten \subseteq {"data"} => file.chunkSize \in Nat \ {0}
  <2>1. file.rotten \subseteq {"data"} => "place" \notin file.rotten
    OBVIOUS
  <2> QED
    BY <2>1, CreateAssumption DEF FileInv
<1>5. <<>> \in Seq(Nat)
  OBVIOUS
<1> QED
  BY <1>1, <1>2, <1>3, <1>4, <1>5 DEF FileShape

(* One buffer of a raw image is put back.                                  *)
LEMMA RestoreRawKept ==
  ASSUME Exits, FileInv, RestoreInv, RestoreRaw
  PROVE  RestoreInv'
<1>1. rpc = "raw" /\ rpc' = "raw" /\ UNCHANGED <<file, image, rconf, rformat, rhash, expected>>
  BY DEF RestoreRaw, CreatorSame
<1>2. /\ rformat = "raw" /\ done \in 0..Len(RawBytes) /\ file.kind # "none"
      /\ \A i \in 1..done : dst[rconf.offset + i - 1] = RawBytes[i]
  BY <1>1 DEF RestoreInv, RestoreBusy
<1>3. RawBytes \in Seq(Nat) /\ Len(RawBytes) \in Nat /\ RawBytes' = RawBytes
  BY <1>1, <1>2, RawBytesType DEF Exits, RawBytes
<1>4. rconf.offset \in Nat /\ rconf.sector \in Nat \ {0} /\ rconf.bufferSize \in Nat /\ done \in Nat
  BY <1>2, <1>3, LettersType DEF Exits
<1>5. AlignedBuf \in Nat
  BY <1>4, CountsSectors DEF AlignedBuf
<1>6. PICK n \in Nat : n = Least(AlignedBuf, Len(RawBytes) - done) /\ done + n <= Len(RawBytes)
  <2>1. Len(RawBytes) - done \in Nat
    BY <1>2, <1>3, <1>4
  <2>2. /\ Least(AlignedBuf, Len(RawBytes) - done) \in Nat
        /\ Least(AlignedBuf, Len(RawBytes) - done) <= Len(RawBytes) - done
    BY <1>5, <2>1 DEF Least
  <2>3. done + Least(AlignedBuf, Len(RawBytes) - done) <= Len(RawBytes)
    BY <1>3, <1>4, <2>2
  <2> QED
    BY <2>2, <2>3
<1>7. PICK data : data = SubSeq(RawBytes, done + 1, done + n)
  OBVIOUS
<1>8. /\ CanWrite(rconf.offset + done, data) /\ dst' = Written(rconf.offset + done, data)
      /\ done' = done + n
  BY <1>6, <1>7 DEF RestoreRaw
<1>9. data \in Seq(Nat) /\ Len(data) = n /\ \A k \in 1..n : data[k] = RawBytes[done + k]
  <2>1. PICK s \in Seq(Nat) : s = RawBytes
    BY <1>3
  <2>2. PICK m \in Int : m = done + 1
    BY <1>4
  <2>3. PICK l \in Int : l = done + n
    BY <1>4
  <2>4. \A i \in m..l : s[i] \in Nat
    <3>1. \A i \in m..l : i \in 1..Len(s)
      BY <1>3, <1>4, <1>6, <2>1, <2>2, <2>3
    <3> QED
      BY <2>1, <3>1
  <2>5. /\ SubSeq(s, m, l) \in Seq(Nat)
        /\ Len(SubSeq(s, m, l)) = IF m <= l THEN l - m + 1 ELSE 0
        /\ \A i \in 1..l - m + 1 : SubSeq(s, m, l)[i] = s[m + i - 1]
    BY <2>4, SubSeqProperties
  <2>6. data = SubSeq(s, m, l)
    BY <1>7, <2>1, <2>2, <2>3
  <2>7. l - m + 1 = n
    BY <1>4, <2>2, <2>3
  <2>8. Len(data) = n
    BY <1>4, <2>2, <2>3, <2>5, <2>6, <2>7
  <2>9. ASSUME NEW k \in 1..n PROVE data[k] = RawBytes[done + k]
    <3>1. data[k] = s[m + k - 1]
      BY <2>5, <2>6, <2>7
    <3>2. m + k - 1 = done + k
      BY <1>4, <2>2
    <3> QED
      BY <2>1, <3>1, <3>2
  <2> QED
    BY <2>5, <2>6, <2>8, <2>9
<1>10. PICK pos \in Nat : pos = rconf.offset + done
  BY <1>4
<1>11. /\ \A k \in 1..n : dst'[pos + k - 1] = data[k]
       /\ \A p \in 0..(pos - 1) : dst'[p] = dst[p]
  BY <1>8, <1>9, <1>10, WrittenIs DEF Exits
<1>12. ASSUME NEW i \in 1..(done + n) PROVE dst'[rconf.offset + i - 1] = RawBytes[i]
  <2>0. i \in Nat /\ 1 <= i /\ i <= done + n
    BY <1>4
  <2>1. CASE i <= done
    <3>1. i \in 1..done /\ rconf.offset + i - 1 \in 0..(pos - 1)
      BY <1>4, <1>10, <2>0, <2>1
    <3> QED
      BY <1>2, <1>11, <3>1
  <2>2. CASE i > done
    <3>1. PICK k \in 1..n : i = done + k
      <4>1. i - done \in 1..n /\ i = done + (i - done)
        BY <1>4, <2>0, <2>2
      <4> QED
        BY <4>1
    <3>2. rconf.offset + i - 1 = pos + k - 1
      BY <1>4, <1>10, <3>1
    <3> QED
      BY <1>9, <1>11, <3>1, <3>2
  <2> QED
    BY <1>4, <2>0, <2>1, <2>2
<1>13. done' \in 0..Len(RawBytes)
  BY <1>3, <1>4, <1>6, <1>8
<1>14. rpc' \in RestoreBusy /\ rpc \in RestoreBusy
  BY <1>1 DEF RestoreBusy
<1> QED
  BY <1>1, <1>2, <1>3, <1>8, <1>12, <1>13, <1>14 DEF RestoreInv

(* One chunk of an SPW image is put back.                                  *)
LEMMA RestoreSpwKept ==
  ASSUME Exits, FileInv, RestoreInv, RestoreSpw
  PROVE  RestoreInv'
<1>1. rpc = "spw" /\ rpc' = "spw" /\ UNCHANGED <<file, image, rconf, rformat, expected>> /\ done' = done + 1
  BY DEF RestoreSpw, CreatorSame
<1>2. /\ rformat = "spw" /\ file.kind = "spw" /\ done \in 0..Len(file.table)
      /\ (file.rotten \subseteq {"data"} => Put(done))
      /\ (~file.sealed => rhash = <<>>)
  BY <1>1 DEF RestoreInv, RestoreBusy
<1>3. done < Len(file.table)
  BY <1>1 DEF RestoreSpw, More
<1>4. Len(file.table) \in Nat /\ done \in Nat /\ done + 1 \in 1..Len(file.table)
  BY <1>2, <1>3 DEF FileInv
<1>5. PICK e : e = file.table[done + 1]
  OBVIOUS
<1>6. /\ ChunkGood(e) /\ CanWrite(ChunkPlace(done), Unpacked(e))
      /\ dst' = Written(ChunkPlace(done), Unpacked(e))
      /\ rhash' = IF hashing THEN rhash \o Unpacked(e) ELSE rhash
  BY <1>5 DEF RestoreSpw
<1>7. ~file.sealed => Unpacked(e) = <<>>
  BY <1>2, <1>4, <1>5, <1>6, ChunkIs DEF Exits
<1>8. ASSUME file.rotten \subseteq {"data"} PROVE Put(done)'
  <2>1. /\ file.chunkSize \in Nat \ {0} /\ Unpacked(e) = e.crc /\ e.crc \in Seq(Nat)
        /\ "place" \notin file.rotten /\ Put(done)
    BY <1>2, <1>4, <1>5, <1>6, <1>8, ChunkIs DEF Exits
  <2>2. rconf.offset \in Nat
    BY LettersType DEF Exits
  <2>3. done * file.chunkSize \in Nat
    BY <1>4, <2>1
  <2>4. PICK pos \in Nat : pos = ChunkPlace(done) /\ pos = rconf.offset + done * file.chunkSize
    BY <2>2, <2>3 DEF ChunkPlace
  <2>5. /\ \A k \in 1..Len(e.crc) : dst'[pos + k - 1] = e.crc[k]
        /\ \A p \in 0..(pos - 1) : dst'[p] = dst[p]
    <3>1. PlaceInv /\ CanWrite(pos, e.crc) /\ dst' = Written(pos, e.crc)
      BY <1>6, <2>1, <2>4 DEF Exits
    <3> QED
      BY <2>1, <3>1, WrittenIs
  <2>6. ASSUME NEW i \in 1..(done + 1), NEW k \in 1..Len(file.table[i].crc)
        PROVE  dst'[rconf.offset + (i - 1) * file.chunkSize + k - 1] = file.table[i].crc[k]
    <3>1. CASE i = done + 1
      <4>1. file.table[i] = e /\ (i - 1) * file.chunkSize = done * file.chunkSize
        BY <1>4, <1>5, <3>1
      <4>2. rconf.offset + (i - 1) * file.chunkSize + k - 1 = pos + k - 1
        BY <2>4, <4>1
      <4> QED
        BY <2>5, <4>1, <4>2
    <3>2. CASE i # done + 1
      <4>1. i \in 1..done /\ i \in Nat \ {0} /\ i <= done /\ i \in 1..Len(file.table)
        BY <1>4, <3>2
      <4>2. dst[rconf.offset + (i - 1) * file.chunkSize + k - 1] = file.table[i].crc[k]
        BY <2>1, <4>1 DEF Put, ChunkPlace
      <4>3. file.sealed
        <5>1. ASSUME ~file.sealed PROVE FALSE
          <6>1. file.table[i] \in {ZeroEntry, [ZeroEntry EXCEPT !.flag = 1]}
            BY <1>2, <4>1, <5>1 DEF FileInv, Unwritten
          <6>2. file.table[i].crc = <<>>
            BY <6>1 DEF ZeroEntry, Entry, crc32Buffer
          <6> QED
            BY <6>2
        <5> QED
          BY <5>1
      <4>4. GoodEntry(file.table[i], file.chunkSize)
        BY <1>2, <1>8, <4>1, <4>3 DEF FileInv, TableSays
      <4>5. k \in Nat /\ 1 <= k /\ k <= file.chunkSize
        BY <2>1, <4>4 DEF GoodEntry
      <4>6. PICK m \in Nat : m = (i - 1) * file.chunkSize /\ m + file.chunkSize <= done * file.chunkSize
        BY <1>4, <2>1, <4>1, ChunkEnds
      <4>7. rconf.offset + m + k - 1 \in 0..(pos - 1)
        <5>1. PICK w \in Nat : w = done * file.chunkSize
          BY <2>3
        <5>2. PICK c \in Nat : c = file.chunkSize
          BY <2>1
        <5>3. m + c <= w /\ k <= c /\ pos = rconf.offset + w
          BY <2>4, <4>5, <4>6, <5>1, <5>2
        <5> QED
          BY <2>2, <4>5, <5>3
      <4>8. dst'[rconf.offset + m + k - 1] = dst[rconf.offset + m + k - 1]
        BY <2>5, <4>7
      <4> QED
        BY <4>2, <4>6, <4>8
    <3> QED
      BY <3>1, <3>2
  <2> QED
    BY <1>1, <2>6 DEF Put, ChunkPlace
<1>9. ~file.sealed => rhash' = <<>>
  <2>1. <<>> \o <<>> = <<>>
    OBVIOUS
  <2> QED
    BY <1>2, <1>6, <1>7, <2>1
<1>10. done' \in 0..Len(file.table)
  BY <1>1, <1>3, <1>4
<1>11. rpc' \in RestoreBusy /\ rpc \in RestoreBusy
  BY <1>1 DEF RestoreBusy
<1> QED
  BY <1>1, <1>2, <1>8, <1>9, <1>10, <1>11 DEF RestoreInv

(* The file is opened, the volumes are locked, the header is read.         *)
LEMMA RestoreBeginKept ==
  ASSUME Exits, FileInv, RestoreInv, RestoreOpen \/ RestoreLock \/ RestoreBegin
  PROVE  RestoreInv'
<1>1. CASE rpc' = "returned"
  BY <1>1, RestoreIdle DEF RestoreBusy
<1>2. CASE RestoreOpen /\ rpc' # "returned"
  <2>1. /\ rpc' = "lock" /\ file' = Held(file, "restorer") /\ image' = image /\ dst' = dst /\ file.kind # "none"
        /\ expected' = [bytes |-> image, whole |-> file.sealed,
                         hashed |-> file.hash # ZeroHash, kind |-> file.kind, length |-> file.length,
                         rotten |-> file.rotten, before |-> dst]
    BY <1>2 DEF RestoreOpen, CreatorSame
  <2>2. /\ file'.sealed = file.sealed /\ file'.hash = file.hash /\ file'.kind = file.kind
        /\ file'.length = file.length /\ file'.rotten = file.rotten
    BY <2>1 DEF Held, Exits, FileShape
  <2>3. expected'.before = dst
    BY <2>1
  <2> QED
    BY <2>1, <2>2, <2>3 DEF RestoreInv, RestoreBusy
<1>3. CASE RestoreLock /\ rpc' # "returned"
  <2>1. UNCHANGED <<image, dst, rconf, rpc, rformat, done, rhash, expected>> /\ SameData
    BY <1>3 DEF RestoreLock, RestoreEnd, CreatorSame, SameData
  <2> QED
    BY <2>1, RestoreSame
<1>4. CASE RestoreBegin /\ rpc' # "returned"
  <2>1. /\ rpc = "lock" /\ rpc' = rformat /\ done' = 0 /\ rhash' = <<>> /\ Fits
        /\ UNCHANGED <<file, image, dst, rconf, rformat, expected>>
    BY <1>4 DEF RestoreBegin, RestoreEnd, CreatorSame
  <2>2. rformat \in {"raw", "spw"}
    BY <2>1 DEF Exits, LockInv
  <2>3. /\ file.kind # "none"
        /\ expected = [bytes |-> image, whole |-> file.sealed, hashed |-> file.hash # ZeroHash,
                       kind |-> file.kind, length |-> file.length, rotten |-> file.rotten,
                       before |-> expected.before]
    BY <2>1 DEF RestoreInv, RestoreBusy
  <2>4. CASE rformat = "raw"
    <3>1. Len(RawBytes) \in Nat /\ RawBytes' = RawBytes
      BY <2>1, <2>3, RawBytesType DEF Exits, RawBytes
    <3>2. rpc' = "raw" /\ rformat' = "raw" /\ done' \in 0..Len(RawBytes') /\ 1..done' = {}
      BY <2>1, <2>4, <3>1
    <3> QED
      BY <2>1, <2>3, <3>2 DEF RestoreInv
  <2>5. CASE rformat = "spw"
    <3>1. file.kind = "spw" /\ Len(file.table) \in Nat
      BY <2>1, <2>5 DEF Fits, FileInv
    <3>2. rpc' = "spw" /\ rformat' = "spw" /\ done' \in 0..Len(file'.table) /\ file'.kind = "spw"
      BY <2>1, <2>5, <3>1
    <3>3. Put(done)'
      BY <2>1 DEF Put
    <3> QED
      BY <2>1, <2>3, <3>2, <3>3 DEF RestoreInv
  <2> QED
    BY <2>2, <2>4, <2>5
<1> QED
  BY <1>1, <1>2, <1>3, <1>4

(* All steps.                                                              *)
LEMMA RestoreKept ==
  ASSUME Exits, FileInv, RestoreInv, [ImagingNext]_tvars
  PROVE  RestoreInv'
<1>1. CASE (CreateStep \/ CreateEnv) /\ UNCHANGED <<rvars, tabs>>
  <2>1. UNCHANGED <<dst, rconf, rpc, rformat, done, rhash, expected>>
    BY <1>1 DEF rvars
  <2>2. rpc \in RestoreBusy => SameData /\ image' = image
    BY <1>1, CreatorApart
  <2> QED
    BY <2>1, <2>2, RestoreSame
<1>2. CASE RestoreOpen \/ RestoreLock \/ RestoreBegin
  BY <1>2, RestoreBeginKept
<1>3. CASE RestoreRaw \/ RestoreSpw
  BY <1>3, RestoreRawKept, RestoreSpwKept
<1>4. CASE RestoreStart \/ RestoreDetect
  <2>1. rpc' \in {"returned", "magic", "open"} /\ expected = NoExpectation /\ expected' = expected
    BY <1>4 DEF RestoreStart, RestoreDetect, RestoreInv
  <2> QED
    BY <2>1, RestoreIdle DEF RestoreBusy
<1>5. CASE RestoreCanceled \/ RestoreFails \/ RestoreDone
  <2>1. rpc' = "returned"
    BY <1>5 DEF RestoreCanceled, RestoreFails, RestoreDone, RestoreEnd
  <2> QED
    BY <2>1, RestoreIdle DEF RestoreBusy
<1>6. CASE requestRestoreCancel \/ onCreateImage \/ CreateFinished \/ UNCHANGED tvars
  <2>1. UNCHANGED <<image, dst, rconf, rpc, rformat, done, rhash, expected>> /\ SameData
    BY <1>6 DEF requestRestoreCancel, CreatorSame, onCreateImage, CreateFinished, tvars, ivars, cvars, rvars,
                SameData
  <2> QED
    BY <2>1, RestoreSame
<1>7. CASE Damage
  <2>1. UNCHANGED <<dst, rconf, rpc, rformat, done, rhash, expected>> /\ file.holder = "none"
    BY <1>7 DEF Damage, rvars
  <2>2. rpc \notin RestoreBusy
    BY <2>1 DEF Exits, HolderInv
  <2> QED
    BY <2>1, <2>2, RestoreSame
<1>8. CASE onRestoreImage \/ RestoreNo \/ RestoreYes
  <2>1. /\ rpc \in {"idle", "asking"} /\ rpc' \in {"idle", "asking", "detect"} /\ expected' = expected
    BY <1>8 DEF onRestoreImage, RestoreNo, RestoreYes
  <2>2. expected = NoExpectation
    BY <2>1 DEF RestoreInv
  <2> QED
    BY <2>1, <2>2, RestoreIdle DEF RestoreBusy
<1>9. CASE RestoreFinished \/ ProgramDies
  <2>1. rpc' = "idle" /\ expected' = NoExpectation
    BY <1>9 DEF RestoreFinished, ProgramDies, ForgetRestore
  <2> QED
    BY <2>1, RestoreIdle DEF RestoreBusy
<1> QED
  BY <1>1, <1>2, <1>3, <1>4, <1>5, <1>6, <1>7, <1>8, <1>9 DEF ImagingNext, RestoreStep

(* The inductive invariant of the two jobs and the tab.                    *)
THEOREM JobsInvariant == ImagingSpec => []JobsInv
<1>1. ImagingInit => RestoreInv
  BY DEF ImagingInit, RestoreInit, RestoreInv, RestoreBusy
<1>2. Exits /\ FileInv /\ RestoreInv /\ [ImagingNext]_tvars => RestoreInv'
  BY RestoreKept
<1>3. ImagingSpec => []RestoreInv
  BY <1>1, <1>2, ExitsInvariant, FilesInvariant, PTL DEF ImagingSpec
<1>4. Exits /\ FileInv /\ CreateInv /\ RestoreInv => JobsInv
  BY DEF Exits, JobsInv
<1> QED
  BY <1>3, <1>4, ExitsInvariant, FilesInvariant, PTL

-----------------------------------------------------------------------------
(* What a restore that succeeds has put back.                              *)

(* Short reads are not taken back.                                         *)
LEMMA FaultsStay ==
  ASSUME FileShape, [ImagingNext]_tvars
  PROVE  shorts' = 0 => shorts = 0
<1>1. CASE (CreateStep \/ CreateEnv) /\ UNCHANGED <<rvars, tabs>>
  <2>1. CASE RawChunk \/ SpwChunk
    <3>1. shorts' \in {shorts, shorts + 1}
      <4>1. CASE RawChunk
        BY <4>1 DEF RawChunk, CountShort, FileShape
      <4>2. CASE SpwChunk
        BY <4>2 DEF SpwChunk, CountShort, FileShape
      <4> QED
        BY <2>1, <4>1, <4>2
    <3> QED
      BY <3>1 DEF FileShape
  <2>2. CASE ~(RawChunk \/ SpwChunk)
    <3>1. shorts' = shorts
      BY <1>1, <2>2 DEF CreateStep, CreateEnv, CreateStart, LeaveEmpty, DeleteFile, CreateCanceled, CreateFails,
           RawDone, WriteHeader, WriteTable, SealHeader, SealTable, SealFails, requestCancel, OtherWrite
    <3> QED
      BY <3>1
  <2> QED
    BY <2>1, <2>2
<1>2. CASE RestoreStep \/ requestRestoreCancel
  BY <1>2, RestorerFile DEF CreatorSame
<1>3. CASE Damage
  BY <1>3 DEF Damage
<1>4. CASE onCreateImage \/ CreateFinished \/ onRestoreImage \/ RestoreNo \/ RestoreYes \/ RestoreFinished
           \/ ProgramDies \/ UNCHANGED tvars
  <2>1. UNCHANGED <<shorts>>
    BY <1>4 DEF onCreateImage, CreateFinished, onRestoreImage, RestoreNo, RestoreYes, RestoreFinished, ProgramDies,
                tvars, ivars, cvars, rvars
  <2> QED
    BY <2>1
<1> QED
  BY <1>1, <1>2, <1>3, <1>4 DEF ImagingNext

(* Only the last step of restoreImage() succeeds; then nothing changes.    *)
LEMMA OkStays ==
  ASSUME LockInv, [ImagingNext]_tvars, ~RestoreDone, rpc' = "returned", rresult' = "ok"
  PROVE  rpc = "returned" /\ UNCHANGED <<rresult, dst, rconf, rformat, hashing, expected>>
<1>1. CASE (CreateStep \/ CreateEnv) /\ UNCHANGED <<rvars, tabs>>
  BY <1>1 DEF rvars
<1>2. CASE RestoreStart \/ RestoreDetect \/ RestoreOpen \/ RestoreRaw \/ RestoreSpw
  BY <1>2 DEF RestoreStart, RestoreDetect, RestoreOpen, RestoreRaw, RestoreSpw
<1>3. CASE RestoreLock \/ RestoreCanceled \/ RestoreFails
  BY <1>3 DEF RestoreLock, RestoreCanceled, RestoreFails, RestoreEnd
<1>4. CASE RestoreBegin
  BY <1>4 DEF RestoreBegin, RestoreEnd, LockInv
<1>5. CASE requestRestoreCancel \/ Damage
  BY <1>5 DEF requestRestoreCancel, Damage, rvars
<1>6. CASE onCreateImage \/ CreateFinished \/ UNCHANGED tvars
  BY <1>6 DEF onCreateImage, CreateFinished, tvars, ivars, rvars
<1>7. CASE onRestoreImage \/ RestoreNo \/ RestoreYes \/ RestoreFinished \/ ProgramDies
  BY <1>7 DEF onRestoreImage, RestoreNo, RestoreYes, RestoreFinished, ProgramDies
<1> QED
  BY <1>1, <1>2, <1>3, <1>4, <1>5, <1>6, <1>7 DEF ImagingNext, RestoreStep

(* When all chunks of a complete SPW file are put back, so is every byte.  *)
LEMMA SpwPutBack ==
  ASSUME Exits, FileInv, RestoreInv, rpc = "spw", done = Len(file.table), file.sealed,
         file.rotten \subseteq {"data"}
  PROVE  \A q \in DOMAIN image : dst[rconf.offset + q] = image[q]
<1>1. file.kind = "spw" /\ Put(Len(file.table))
  BY DEF RestoreInv
<1>2. TableSays(file.table, Len(file.table), file.chunkSize) /\ file.chunkSize \in Nat
  <2>1. "place" \notin file.rotten
    OBVIOUS
  <2> QED
    BY <1>1, <2>1, CreateAssumption DEF FileInv
<1>3. ASSUME NEW q \in DOMAIN image PROVE dst[rconf.offset + q] = image[q]
  <2>1. PICK i \in 1..Len(file.table) : \E k \in 1..Len(file.table[i].crc) : q = (i - 1) * file.chunkSize + k - 1
    BY <1>2 DEF TableSays
  <2>2. PICK k \in 1..Len(file.table[i].crc) : q = (i - 1) * file.chunkSize + k - 1
    BY <2>1
  <2>3. image[q] = file.table[i].crc[k]
    BY <1>2, <2>2 DEF TableSays
  <2>4. dst[rconf.offset + (i - 1) * file.chunkSize + k - 1] = file.table[i].crc[k]
    BY <1>1 DEF Put, ChunkPlace
  <2>5. PICK m \in Int : m = (i - 1) * file.chunkSize
    BY <1>2
  <2>6. rconf.offset + m + k - 1 = rconf.offset + (m + k - 1)
    BY <2>5, LettersType DEF Exits
  <2> QED
    BY <2>2, <2>3, <2>4, <2>5, <2>6
<1> QED
  BY <1>3

(* The same for a raw file, if no read for it was short and it is intact.  *)
LEMMA RawPutBack ==
  ASSUME Exits, FileInv, RestoreInv, rpc = "raw", done = Len(RawBytes), file.sealed, file.kind = "raw",
         shorts = 0, file.rotten = {}
  PROVE  \A q \in DOMAIN image : dst[rconf.offset + q] = image[q]
<1>1. RawBytes = file.blocks /\ BlocksSay /\ file.blocks \in Seq(Nat)
  BY DEF RawBytes, FileInv
<1>2. \A i \in 1..Len(file.blocks) : dst[rconf.offset + i - 1] = file.blocks[i]
  BY <1>1 DEF RestoreInv
<1>3. rconf.offset \in Nat /\ Len(file.blocks) \in Nat
  BY <1>1, LettersType DEF Exits
<1>4. ASSUME NEW q \in DOMAIN image PROVE dst[rconf.offset + q] = image[q]
  <2>1. q \in 0..(Len(file.blocks) - 1)
    BY <1>1 DEF BlocksSay
  <2>2. PICK i \in 1..Len(file.blocks) : i = q + 1
    BY <1>3, <2>1
  <2>3. image[i - 1] = file.blocks[i]
    BY <1>1 DEF BlocksSay
  <2>4. i - 1 = q /\ rconf.offset + i - 1 = rconf.offset + q
    BY <1>3, <2>1, <2>2
  <2> QED
    BY <1>2, <2>3, <2>4
<1> QED
  BY <1>4

(* What restoreImage() knows of the file it has open.                      *)
LEMMA ExpectedIs ==
  ASSUME RestoreInv, rpc \in RestoreBusy
  PROVE  /\ expected.bytes = image /\ expected.whole = file.sealed /\ expected.kind = file.kind
         /\ expected.hashed = (file.hash # ZeroHash) /\ expected.length = file.length
         /\ expected.rotten = file.rotten
<1>1. PICK b : expected = [bytes |-> image, whole |-> file.sealed, hashed |-> file.hash # ZeroHash,
                           kind |-> file.kind, length |-> file.length, rotten |-> file.rotten, before |-> b]
  BY DEF RestoreInv
<1> QED
  BY <1>1

(* VerifiedIsImaged without damage to the table.                           *)
VerifiedSound == expected.rotten \subseteq {"data"} => VerifiedIsImaged

(* The last step of restoreImage().                                        *)
LEMMA DonePutBack ==
  ASSUME Exits, FileInv, RestoreInv, RestoreDone
  PROVE  RestoredIsImaged' /\ VerifiedSound'
<1>1. /\ rpc \in {"raw", "spw"} /\ ~More /\ rresult' = IF HashGood THEN "ok" ELSE "mismatch"
      /\ UNCHANGED <<dst, rconf, rformat, hashing, expected, shorts>>
  BY DEF RestoreDone, RestoreEnd, CreatorSame
<1>2. /\ expected.bytes = image /\ expected.whole = file.sealed /\ expected.kind = file.kind
      /\ expected.hashed = (file.hash # ZeroHash) /\ expected.rotten = file.rotten
  BY <1>1, ExpectedIs DEF RestoreBusy
<1>3. CASE rpc = "spw"
  <2>1. rformat = "spw" /\ file.kind = "spw" /\ done \in 0..Len(file.table) /\ Len(file.table) \in Nat
    BY <1>3 DEF RestoreInv, FileInv
  <2>2. done = Len(file.table)
    BY <1>1, <1>3, <2>1 DEF More
  <2>3. file.sealed /\ file.rotten \subseteq {"data"} => \A q \in DOMAIN image : dst[rconf.offset + q] = image[q]
    BY <1>3, <2>2, SpwPutBack
  <2>4. ASSUME ~file.sealed, rresult' = "ok", hashing, expected.hashed PROVE DOMAIN image = {}
    <3>1. rhash = <<>> /\ HashGood
      BY <1>1, <1>3, <2>4 DEF RestoreInv
    <3>2. file.hash = <<>> /\ file.hash # ZeroHash
      BY <1>2, <2>4, <3>1 DEF HashGood
    <3> QED
      BY <2>1, <3>2 DEF FileInv
  <2>5. RestoredIsImaged'
    BY <1>1, <1>2, <2>3 DEF RestoredIsImaged
  <2>6. VerifiedSound'
    BY <1>1, <1>2, <2>3, <2>4 DEF VerifiedSound, VerifiedIsImaged
  <2> QED
    BY <2>5, <2>6
<1>4. CASE rpc = "raw"
  <2>1. rformat = "raw" /\ done \in 0..Len(RawBytes) /\ file.kind # "none"
    BY <1>4 DEF RestoreInv, RestoreBusy
  <2>2. Len(RawBytes) \in Nat
    BY <2>1, RawBytesType DEF Exits
  <2>3. done = Len(RawBytes)
    BY <1>1, <1>4, <2>1, <2>2 DEF More
  <2>4. ASSUME file.sealed, file.kind = "raw", shorts = 0, file.rotten = {}
        PROVE  \A q \in DOMAIN image : dst[rconf.offset + q] = image[q]
    BY <1>4, <2>3, <2>4, RawPutBack
  <2>5. RestoredIsImaged'
    BY <1>1, <1>2, <2>1, <2>4 DEF RestoredIsImaged
  <2>6. VerifiedSound'
    BY <1>1, <2>1 DEF VerifiedSound, VerifiedIsImaged
  <2> QED
    BY <2>5, <2>6
<1> QED
  BY <1>1, <1>3, <1>4

(* The other steps.                                                        *)
LEMMA ImagedStays ==
  ASSUME Exits, RestoredIsImaged, VerifiedSound, [ImagingNext]_tvars, ~RestoreDone
  PROVE  RestoredIsImaged' /\ VerifiedSound'
<1>1. shorts' = 0 => shorts = 0
  BY FaultsStay DEF Exits
<1>2. CASE rpc' = "returned" /\ rresult' = "ok"
  <2>1. rpc = "returned" /\ UNCHANGED <<rresult, dst, rconf, rformat, hashing, expected>>
    BY <1>2, OkStays DEF Exits
  <2> QED
    BY <1>1, <1>2, <2>1 DEF RestoredIsImaged, VerifiedSound, VerifiedIsImaged
<1>3. CASE ~(rpc' = "returned" /\ rresult' = "ok")
  BY <1>3 DEF RestoredIsImaged, VerifiedSound, VerifiedIsImaged
<1> QED
  BY <1>2, <1>3

(* Both properties, inductively.                                           *)
LEMMA ImagedAlways == ImagingSpec => [](RestoredIsImaged /\ VerifiedSound)
<1>1. ImagingInit => RestoredIsImaged /\ VerifiedSound
  BY DEF ImagingInit, RestoreInit, RestoredIsImaged, VerifiedSound, VerifiedIsImaged
<1>2. /\ Exits /\ FileInv /\ RestoreInv /\ RestoredIsImaged /\ VerifiedSound /\ [ImagingNext]_tvars
      => RestoredIsImaged' /\ VerifiedSound'
  BY DonePutBack, ImagedStays
<1>3. JobsInv => RestoreInv
  BY DEF JobsInv
<1> QED
  BY <1>1, <1>2, <1>3, ExitsInvariant, FilesInvariant, JobsInvariant, PTL DEF ImagingSpec

(* RestoredIsImaged: a restore of a complete image that reports success    *)
(* has put back every byte read for it: of an SPW image whatever short     *)
(* reads there were and whatever happened to its chunks and its hash, as   *)
(* long as its header and table are not damaged; of a raw one without both.*)
THEOREM RestorePutsBack == ImagingSpec => []RestoredIsImaged
<1>1. RestoredIsImaged /\ VerifiedSound => RestoredIsImaged
  OBVIOUS
<1> QED
  BY <1>1, ImagedAlways, PTL

(* VerifiedIsImaged, also for a file whose creator died before it wrote    *)
(* the table: once the hash is stored, a restore that verifies succeeds    *)
(* only with all the bytes, whatever happened to the chunks and the hash.  *)
THEOREM VerifyPutsBack == ImagingSpec => [](expected.rotten \subseteq {"data"} => VerifiedIsImaged)
<1>1. RestoredIsImaged /\ VerifiedSound => (expected.rotten \subseteq {"data"} => VerifiedIsImaged)
  BY DEF VerifiedSound
<1> QED
  BY <1>1, ImagedAlways, PTL

-----------------------------------------------------------------------------
(* No wrong byte.                                                          *)

(* A factor is smaller if the product is.                                  *)
LEMMA LessFactor ==
  ASSUME NEW a \in Int, NEW b \in Int, NEW s \in Nat, a * s < b * s
  PROVE  a < b
<1>1. ASSUME b <= a PROVE FALSE
  BY <1>1, ProductGrows
<1> QED BY <1>1

(* A place in a chunk tells the chunk.                                     *)
LEMMA PlaceTells ==
  ASSUME NEW a \in Nat, NEW b \in Nat, NEW s \in Nat, NEW x \in 0..(s - 1), NEW y \in 0..(s - 1),
         a * s + x = b * s + y
  PROVE  a = b /\ x = y
<1>1. (a + 1) * s = a * s + s /\ (b + 1) * s = b * s + s /\ a * s \in Nat /\ b * s \in Nat
  OBVIOUS
<1>2. a * s < (b + 1) * s /\ b * s < (a + 1) * s
  BY <1>1
<1>3. a < b + 1 /\ b < a + 1
  BY <1>2, LessFactor
<1>4. a = b
  BY <1>3
<1> QED
  BY <1>1, <1>4

(* What ends before the end of a sector still does when it is rounded up.  *)
LEMMA UpToLeast ==
  ASSUME NEW n \in Nat, NEW m \in Nat, NEW s \in Nat \ {0}, n <= m * s
  PROVE  UpTo(n, s) <= m * s
<1>1. PICK q \in Nat : q = (n + s - 1) \div s
  BY CountsChunks
<1>2. n + s - 1 \in Nat
  OBVIOUS
<1>3. q * s <= n + s - 1
  BY <1>1, <1>2
<1>4. (m + 1) * s = m * s + s /\ m * s \in Nat /\ q * s \in Nat
  OBVIOUS
<1>5. q * s < (m + 1) * s
  BY <1>3, <1>4
<1>6. q <= m
  BY <1>5, LessFactor
<1>7. q * s <= m * s
  BY <1>6, ProductGrows
<1> QED
  BY <1>1, <1>7 DEF UpTo

(* What begins at a sector and ends inside some length ends, rounded up,   *)
(* inside the sectors of that length.                                      *)
LEMMA UpToFits ==
  ASSUME NEW k \in Nat, NEW n \in Nat, NEW t \in Nat, NEW s \in Nat \ {0}, k * s + n <= t
  PROVE  k * s + UpTo(n, s) <= UpTo(t, s)
<1>1. PICK u \in Nat : UpTo(t, s) = u * s
  BY CountsChunks DEF UpTo
<1>2. t <= u * s
  BY <1>1, UpToCovers
<1>3. k * s \in Nat /\ u * s \in Nat /\ (u + 1) * s = u * s + s
  OBVIOUS
<1>4. k * s < (u + 1) * s
  BY <1>2, <1>3
<1>5. k < u + 1
  BY <1>4, LessFactor
<1>6. PICK m \in Nat : u = k + m
  <2>1. u - k \in Nat /\ u = k + (u - k)
    BY <1>5
  <2> QED
    BY <2>1
<1>7. u * s = k * s + m * s /\ m * s \in Nat
  BY <1>6
<1>8. n <= m * s
  BY <1>2, <1>3, <1>7
<1>9. UpTo(n, s) <= m * s /\ UpTo(n, s) \in Nat
  BY <1>8, UpToLeast, UpToCovers
<1> QED
  BY <1>1, <1>3, <1>7, <1>9

(* A multiple is a product.                                                *)
LEMMA IsMultiple ==
  ASSUME NEW n \in Nat, NEW s \in Nat \ {0}, n % s = 0
  PROVE  \E m \in Nat : n = m * s
<1>1. n \div s \in Nat /\ n = (n \div s) * s + (n % s) /\ (n \div s) * s \in Nat
  OBVIOUS
<1>2. n = (n \div s) * s
  BY <1>1
<1> QED
  BY <1>1, <1>2

(* A byte of the destination that is as NeverWrongBytes wants it.          *)
RightByte(p) ==
  \/ dst[p] = expected.before[p]
  \/ p - rconf.offset \in DOMAIN expected.bytes /\ dst[p] = expected.bytes[p - rconf.offset]
  \/ /\ dst[p] = 0 /\ p - rconf.offset \notin DOMAIN expected.bytes /\ p - rconf.offset >= 0
     /\ shorts = 0 => p - rconf.offset < UpTo(expected.length, rconf.sector)

(* One chunk of an SPW image is put back, and where.                       *)
LEMMA SpwWritesRight ==
  ASSUME ChunkSectors, Exits, FileInv, RestoreInv, RestoreSpw, NEW p \in DOMAIN dst, RightByte(p),
         expected.rotten \subseteq {"data"}
  PROVE  RightByte(p)'
<1>1. /\ rpc = "spw" /\ done < Len(file.table)
      /\ UNCHANGED <<file, image, shorts, rconf, rformat, expected>>
  BY DEF RestoreSpw, CreatorSame, More
<1>2. /\ file.kind = "spw" /\ done \in 0..Len(file.table)
      /\ file.rotten \subseteq {"data"} /\ "place" \notin file.rotten
  BY <1>1, ExpectedIs DEF RestoreInv, RestoreBusy
<1>3. Len(file.table) \in Nat /\ done \in Nat /\ done + 1 \in 1..Len(file.table) /\ file.length \in Nat
  BY <1>1, <1>2 DEF FileInv
<1>4. PICK e : e = file.table[done + 1]
  OBVIOUS
<1>5. /\ ChunkGood(e) /\ CanWrite(ChunkPlace(done), Unpacked(e))
      /\ dst' = Written(ChunkPlace(done), Unpacked(e))
  BY <1>4 DEF RestoreSpw
<1>6. PICK size \in Nat \ {0} : size = file.chunkSize
  BY <1>2, <1>3, <1>4, <1>5, ChunkIs DEF Exits
<1>7. /\ Unpacked(e) = e.crc /\ e.crc \in Seq(Nat) /\ (~file.sealed => e.crc = <<>>)
      /\ (file.sealed => GoodEntry(e, size))
  BY <1>2, <1>3, <1>4, <1>5, <1>6, ChunkIs DEF Exits
<1>8. PICK off \in Nat : off = rconf.offset
  BY LettersType DEF Exits
<1>9. PICK s \in Nat \ {0} : s = rconf.sector
  BY LettersType DEF Exits
<1>10. PICK from \in Nat : from = done * size
  BY <1>3, <1>6
<1>11. ChunkPlace(done) = off + from
  BY <1>6, <1>8, <1>10 DEF ChunkPlace
<1>12. PICK n \in Nat : n = Len(e.crc)
  BY <1>7
<1>13. PICK u \in Nat : u = UpTo(n, s) /\ n <= u
  BY UpToCovers
<1>14. p \in Nat
  BY RestoreAssumption DEF Exits, PlaceInv
<1>15. dst'[p] = IF p >= off + from /\ p < off + from + n THEN e.crc[p - (off + from) + 1]
                 ELSE IF p >= off + from + n /\ p < off + from + u THEN 0 ELSE dst[p]
  BY <1>5, <1>7, <1>9, <1>11, <1>12, <1>13 DEF Written
<1>16. expected.bytes = image /\ expected.length = file.length
  BY <1>1, ExpectedIs DEF RestoreBusy
<1>17. CASE dst'[p] = dst[p]
  BY <1>1, <1>17 DEF RightByte
<1>18. CASE p >= off + from /\ p < off + from + n
  <2>1. PICK k \in 1..n : p = off + from + k - 1
    <3>1. p - (off + from) + 1 \in 1..n /\ p = off + from + (p - (off + from) + 1) - 1
      BY <1>14, <1>18
    <3> QED
      BY <3>1
  <2>2. file.sealed
    <3>1. e.crc # <<>>
      BY <1>7, <1>12, <2>1
    <3> QED
      BY <1>7, <3>1
  <2>3. TableSays(file.table, Len(file.table), file.chunkSize)
    BY <1>2, <2>2 DEF FileInv
  <2>4. PICK i \in 1..Len(file.table) : i = done + 1
    BY <1>3
  <2>5. /\ (i - 1) * file.chunkSize + k - 1 \in DOMAIN image
        /\ image[(i - 1) * file.chunkSize + k - 1] = e.crc[k]
    BY <1>4, <1>12, <2>3, <2>4 DEF TableSays
  <2>6. (i - 1) * file.chunkSize = from
    BY <1>3, <1>6, <1>10, <2>4
  <2>7. p - off = from + k - 1 /\ p - (off + from) + 1 = k
    BY <1>14, <2>1
  <2>8. dst'[p] = e.crc[k]
    BY <1>15, <1>18, <2>7
  <2>9. p - off \in DOMAIN image /\ dst'[p] = image[p - off]
    BY <2>5, <2>6, <2>7, <2>8
  <2> QED
    BY <1>1, <1>8, <1>16, <2>9 DEF RightByte
<1>19. CASE p >= off + from + n /\ p < off + from + u
  <2>1. dst'[p] = 0
    BY <1>14, <1>15, <1>19
  <2>2. PICK m \in Nat : size = m * s
    <3>1. size % s = 0
      BY <1>2, <1>6, <1>9 DEF ChunkSectors, FileInv, Exits, PlaceInv
    <3> QED
      BY <3>1, IsMultiple
  <2>3. file.sealed /\ n <= size
    <3>1. CASE ~file.sealed
      <4>1. n = 0
        BY <1>7, <1>12, <3>1
      <4>2. UpTo(0, s) <= 0 * s /\ 0 * s = 0
        <5>1. 0 <= 0 * s /\ 0 * s = 0
          OBVIOUS
        <5> QED
          BY <5>1, UpToLeast
      <4>3. u = 0
        BY <1>13, <4>1, <4>2
      <4> QED
        BY <1>14, <1>19, <4>1, <4>3
    <3>2. CASE file.sealed
      BY <1>7, <1>12, <3>2 DEF GoodEntry
    <3> QED
      BY <3>1, <3>2 DEF Exits, FileShape
  <2>4. u <= size
    BY <1>13, <2>2, <2>3, UpToLeast
  <2>5. PICK x \in Nat : p = off + from + x /\ n <= x /\ x < u
    <3>1. p - (off + from) \in Nat /\ p = off + from + (p - (off + from))
      BY <1>14, <1>19
    <3> QED
      BY <1>19, <3>1
  <2>6. p - off = from + x
    BY <2>5
  <2>7. TableSays(file.table, Len(file.table), file.chunkSize)
    BY <1>2, <2>3 DEF FileInv
  <2>8. ASSUME p - off \in DOMAIN image PROVE FALSE
    <3>1. PICK i \in 1..Len(file.table) : \E k \in 1..Len(file.table[i].crc) : p - off = (i - 1) * size + k - 1
      BY <1>6, <2>7, <2>8 DEF TableSays
    <3>2. PICK k \in 1..Len(file.table[i].crc) : p - off = (i - 1) * size + k - 1
      BY <3>1
    <3>3. GoodEntry(file.table[i], size)
      BY <1>6, <2>7 DEF TableSays
    <3>4. k \in Nat /\ 1 <= k /\ k <= size
      BY <3>3 DEF GoodEntry
    <3>5. PICK a \in Nat : a = i - 1
      BY <1>3
    <3>6. PICK y \in 0..(size - 1) : y = k - 1
      BY <3>4
    <3>7. x \in 0..(size - 1)
      BY <2>4, <2>5
    <3>8. a * size \in Nat /\ done * size \in Nat
      BY <1>3, <3>5
    <3>9. done * size + x = a * size + y
      BY <1>10, <2>6, <3>2, <3>4, <3>5, <3>6, <3>8
    <3>10. done = a /\ x = y
      BY <1>3, <3>7, <3>9, PlaceTells
    <3>11. i = done + 1
      BY <1>3, <3>5, <3>10
    <3>12. k \in 1..n
      BY <1>4, <1>12, <3>11
    <3> QED
      BY <2>5, <3>6, <3>10, <3>12
  <2>9. ASSUME shorts = 0 PROVE p - off < UpTo(file.length, s)
    <3>1. InLength(file.table, Len(file.table), file.chunkSize, file.length)
      BY <1>2, <2>3, <2>9 DEF FileInv
    <3>2. PICK i \in 1..Len(file.table) : i = done + 1
      BY <1>3
    <3>3. (i - 1) * file.chunkSize + Len(file.table[i].crc) <= file.length
      BY <3>1 DEF InLength
    <3>4. from + n <= file.length
      BY <1>3, <1>4, <1>6, <1>10, <1>12, <3>2, <3>3
    <3>5. PICK w \in Nat : from = w * s
      <4>1. from = (done * m) * s /\ done * m \in Nat
        BY <1>3, <1>10, <2>2
      <4> QED
        BY <4>1
    <3>6. from + u <= UpTo(file.length, s)
      BY <1>3, <1>13, <3>4, <3>5, UpToFits
    <3>7. UpTo(file.length, s) \in Nat
      BY <1>3, UpToCovers
    <3> QED
      BY <2>5, <2>6, <3>6, <3>7
  <2>10. p - off >= 0
    BY <2>6
  <2> QED
    BY <1>1, <1>8, <1>9, <1>16, <2>1, <2>8, <2>9, <2>10 DEF RightByte
<1> QED
  BY <1>14, <1>15, <1>17, <1>18, <1>19

(* Every other step leaves the destination alone once it is written to.    *)
LEMMA BytesStay ==
  ASSUME LockInv, RestoreInv, [ImagingNext]_tvars, ~RestoreRaw, ~RestoreSpw,
         rpc' \in {"raw", "spw", "returned"}, expected'.kind = "spw"
  PROVE  /\ UNCHANGED <<dst, rconf, rformat, expected>>
         /\ rpc \in {"raw", "spw", "returned"} \/ dst = expected.before
<1>0. rpc \in {"idle", "asking", "detect", "magic", "open"} => expected.kind = "none"
  BY DEF RestoreInv, NoExpectation
<1>00. rpc = "lock" => dst = expected.before
  BY DEF RestoreInv
<1>1. CASE (CreateStep \/ CreateEnv) /\ UNCHANGED <<rvars, tabs>>
  BY <1>1, <1>00 DEF rvars
<1>2. CASE RestoreStart \/ RestoreDetect \/ RestoreOpen
  BY <1>0, <1>2 DEF RestoreStart, RestoreDetect, RestoreOpen
<1>3. CASE RestoreLock \/ RestoreBegin
  BY <1>00, <1>3 DEF RestoreLock, RestoreBegin
<1>4. CASE RestoreCanceled \/ RestoreFails \/ RestoreDone
  BY <1>4 DEF RestoreCanceled, RestoreFails, RestoreDone, More
<1>5. CASE requestRestoreCancel \/ Damage
  BY <1>5 DEF requestRestoreCancel, Damage, rvars
<1>6. CASE onCreateImage \/ CreateFinished \/ UNCHANGED tvars
  BY <1>6 DEF onCreateImage, CreateFinished, tvars, ivars, rvars
<1>7. CASE onRestoreImage \/ RestoreNo \/ RestoreYes \/ RestoreFinished \/ ProgramDies
  BY <1>7 DEF onRestoreImage, RestoreNo, RestoreYes, RestoreFinished, ProgramDies
<1> QED
  BY <1>1, <1>2, <1>3, <1>4, <1>5, <1>6, <1>7 DEF ImagingNext, RestoreStep

(* The property, by byte.                                                  *)
LEMMA NeverWrongByte ==
  NeverWrongBytes <=>
    ((/\ rpc \in {"raw", "spw", "returned"} /\ rformat = "spw" /\ expected.kind = "spw"
      /\ expected.rotten \subseteq {"data"})
     => \A p \in DOMAIN dst : RightByte(p))
BY DEF NeverWrongBytes, RightByte

(* All steps.                                                              *)
LEMMA BytesKept ==
  ASSUME ChunkSectors, Exits, FileInv, RestoreInv, NeverWrongBytes, [ImagingNext]_tvars
  PROVE  NeverWrongBytes'
<1>1. SUFFICES ASSUME rpc' \in {"raw", "spw", "returned"}, rformat' = "spw", expected'.kind = "spw",
                      expected'.rotten \subseteq {"data"}
               PROVE  \A p \in DOMAIN dst' : RightByte(p)'
  BY DEF NeverWrongBytes, RightByte
<1>2. CASE RestoreRaw
  BY <1>1, <1>2 DEF RestoreRaw, RestoreInv
<1>3. CASE RestoreSpw
  <2>1. rpc = "spw" /\ UNCHANGED <<rformat, expected>> /\ DOMAIN dst' = DOMAIN dst
    BY <1>3 DEF RestoreSpw, Written
  <2>2. \A p \in DOMAIN dst : RightByte(p)
    BY <1>1, <2>1, NeverWrongByte
  <2> QED
    BY <1>1, <1>3, <2>1, <2>2, SpwWritesRight
<1>4. CASE ~RestoreRaw /\ ~RestoreSpw
  <2>1. /\ UNCHANGED <<dst, rconf, rformat, expected>>
        /\ rpc \in {"raw", "spw", "returned"} \/ dst = expected.before
    BY <1>1, <1>4, BytesStay DEF Exits
  <2>2. shorts' = 0 => shorts = 0
    BY FaultsStay DEF Exits
  <2>3. \A p \in DOMAIN dst : RightByte(p)
    <3>1. CASE dst = expected.before
      BY <3>1 DEF RightByte
    <3>2. CASE rpc \in {"raw", "spw", "returned"}
      BY <1>1, <2>1, <3>2, NeverWrongByte
    <3> QED
      BY <2>1, <3>1, <3>2
  <2> QED
    BY <2>1, <2>2, <2>3 DEF RightByte
<1> QED
  BY <1>2, <1>3, <1>4

(* NeverWrongBytes: whatever becomes of a restore of an SPW file, complete *)
(* or torn, its chunks and hash damaged or not, a byte of the destination  *)
(* is what it was, the byte imaged from that place, or the zero that fills *)
(* the last sector; for chunks that are whole sectors of the destination,  *)
(* which restoreSpwImage does not check.                                   *)
THEOREM RestoreNeverWrong ==
  ASSUME ChunkSectors
  PROVE  ImagingSpec => []NeverWrongBytes
<1>1. ImagingInit => NeverWrongBytes
  BY DEF ImagingInit, RestoreInit, NeverWrongBytes
<1>2. Exits /\ FileInv /\ RestoreInv /\ NeverWrongBytes /\ [ImagingNext]_tvars => NeverWrongBytes'
  BY BytesKept
<1>3. JobsInv => RestoreInv
  BY DEF JobsInv
<1> QED
  BY <1>1, <1>2, <1>3, ExitsInvariant, FilesInvariant, JobsInvariant, PTL DEF ImagingSpec
=============================================================================
