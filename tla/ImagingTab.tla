------------------------------- MODULE ImagingTab -------------------------------
(***************************************************************************)
(* The Create Image and Restore Image parts of the imaging tab: each       *)
(* button starts a thread and is disabled until the thread's finished      *)
(* signal is handled; nothing keeps the two apart.  Whatever the engine    *)
(* returned, the message box reports success.  The program may be closed   *)
(* or killed at any time; what is left is the file and the disks.          *)
(***************************************************************************)
EXTENDS ImageRestorer

CONSTANTS MaxCreates, MaxRestores  \* bounds: clicks

ASSUME TabAssumption == MaxCreates \in Nat /\ MaxRestores \in Nat

VARIABLES createBtn, restoreBtn,   \* enabled
          creates, restores

tabs == <<createBtn, restoreBtn, creates, restores>>
tvars == <<ivars, tabs>>

ImagingInit ==
  /\ CreateInit /\ RestoreInit
  /\ createBtn = TRUE /\ restoreBtn = TRUE
  /\ creates = 0 /\ restores = 0

onCreateImage ==
  /\ createBtn
  /\ rpc # "asking"
  /\ creates < MaxCreates
  /\ cconf' \in CreateConfigs
  /\ cpc' = "open"
  /\ createBtn' = FALSE
  /\ creates' = creates + 1
  /\ UNCHANGED <<src, file, at, processed, ctable, chash, cancel, cresult, faults, shorts, image>>
  /\ UNCHANGED <<rvars, restoreBtn, restores>>

(* QThread::finished: the message box reports success.                     *)
CreateFinished ==
  /\ cpc = "returned"
  /\ cpc' = "idle"
  /\ createBtn' = TRUE
  /\ ForgetCreate /\ cresult' = "none" /\ cconf' = NoCreate
  /\ UNCHANGED <<src, file, faults, shorts, image>>
  /\ UNCHANGED <<rvars, restoreBtn, creates, restores>>

(* The warning is a modal box; the threads and their signals go on.        *)
onRestoreImage ==
  /\ restoreBtn
  /\ rpc = "idle"
  /\ restores < MaxRestores
  /\ rconf' \in RestoreConfigs
  /\ rpc' = "asking"
  /\ UNCHANGED <<cvars, dst, rformat, done, hashing, rhash, locked, rcancel, rresult, expected, tabs>>

RestoreNo ==
  /\ rpc = "asking"
  /\ rpc' = "idle"
  /\ UNCHANGED <<cvars, dst, rconf, rformat, done, hashing, rhash, locked, rcancel, rresult, expected, tabs>>

RestoreYes ==
  /\ rpc = "asking"
  /\ rpc' = "detect"
  /\ restoreBtn' = FALSE
  /\ restores' = restores + 1
  /\ UNCHANGED <<cvars, dst, rconf, rformat, done, hashing, rhash, locked, rcancel, rresult, expected>>
  /\ UNCHANGED <<createBtn, creates>>

RestoreFinished ==
  /\ rpc = "returned"
  /\ rpc' = "idle"
  /\ restoreBtn' = TRUE
  /\ ForgetRestore /\ rresult' = "none" /\ rconf' = NoRestore
  /\ UNCHANGED <<cvars, dst, locked>>
  /\ UNCHANGED <<createBtn, creates, restores>>

(* The process ends and is started again: handles and locks are gone.      *)
ProgramDies ==
  /\ faults < MaxFaults
  /\ cpc # "idle" \/ rpc # "idle"
  /\ cpc' = "idle" /\ rpc' = "idle"
  /\ cresult' = "none" /\ rresult' = "none"
  /\ file' = Held(file, "none")
  /\ locked' = <<>>
  /\ createBtn' = TRUE /\ restoreBtn' = TRUE
  /\ faults' = faults + 1
  /\ ForgetCreate /\ ForgetRestore
  /\ UNCHANGED <<src, cconf, shorts, image, dst, rconf, creates, restores>>

ImagingNext ==
  \/ (CreateStep \/ CreateEnv) /\ UNCHANGED <<rvars, tabs>>
  \/ (RestoreStep \/ requestRestoreCancel \/ Damage) /\ UNCHANGED tabs
  \/ onCreateImage \/ CreateFinished
  \/ onRestoreImage \/ RestoreNo \/ RestoreYes \/ RestoreFinished
  \/ ProgramDies

(* Threads run, and the event loop delivers their finished signals.        *)
ImagingSpec ==
  /\ ImagingInit /\ [][ImagingNext]_tvars
  /\ WF_tvars(CreateStep /\ UNCHANGED <<rvars, tabs>>)
  /\ WF_tvars(RestoreStep /\ UNCHANGED tabs)
  /\ WF_tvars(CreateFinished) /\ WF_tvars(RestoreFinished)

-----------------------------------------------------------------------------
RestoreBusy == {"lock", "raw", "spw"}

(* Type correctness of the job, file and tab state.                        *)
ImagingTypeOK ==
  /\ src \in [DOMAIN src -> Nat] /\ dst \in [0..(DstTotal - 1) -> Nat]
  /\ file.kind \in {"none", "raw", "spw"} /\ file.holder \in {"none", "creator", "restorer"}
  /\ cconf \in CreateConfigs /\ rconf \in RestoreConfigs
  /\ cpc \in {"idle", "open", "close", "delete", "raw", "header", "table", "chunks", "seal", "returned"}
  /\ rpc \in {"idle", "asking", "detect", "magic", "open", "lock", "raw", "spw", "returned"}
  /\ at \in Nat /\ (cpc = "raw" => at <= Length) /\ done \in Nat
  /\ cresult \in {"none", "ok", "error", "canceled"}
  /\ rresult \in {"none", "ok", "error", "canceled", "mismatch"}
  /\ createBtn \in BOOLEAN /\ restoreBtn \in BOOLEAN /\ hashing \in BOOLEAN

(* Restoring a complete image puts back every byte that was read for it.   *)
(* For SPW this stands whatever short reads there were and whatever damage *)
(* to the chunks or the hash (a damaged table or header is not noticed: a  *)
(* chunk called sparse is written as zeros and compared with nothing); a   *)
(* raw image has no redundancy and is moved together by a short read.  The *)
(* format must not have changed between detectFormat() and the second open.*)
RestoredIsImaged ==
  (/\ rpc = "returned" /\ rresult = "ok"
   /\ expected.whole /\ expected.kind = rformat
   /\ expected.rotten \subseteq {"data"}
   /\ expected.kind = "raw" => expected.rotten = {} /\ shorts = 0)
  => \A i \in DOMAIN expected.bytes : dst[rconf.offset + i] = expected.bytes[i]

(* Whatever happens to a restore of an SPW file, complete, torn or damaged *)
(* in its chunks (also one that fails or is canceled), a byte of the       *)
(* destination is what it was, the byte imaged from that place, or the     *)
(* zero that fills the image's last sector.                                *)
NeverWrongBytes ==
  (/\ rpc \in {"raw", "spw", "returned"} /\ rformat = "spw" /\ expected.kind = "spw"
   /\ expected.rotten \subseteq {"data"}) =>
  \A p \in DOMAIN dst :
     LET i == p - rconf.offset
     IN  \/ dst[p] = expected.before[p]
         \/ i \in DOMAIN expected.bytes /\ dst[p] = expected.bytes[i]
         \/ dst[p] = 0 /\ i \notin DOMAIN expected.bytes /\ i >= 0
            /\ (shorts = 0 => i < UpTo(expected.length, rconf.sector))

(* Once the header with the hash is stored, a restore that verifies does   *)
(* not succeed without all the bytes, though the table may be missing or   *)
(* damaged.  The hash says nothing of where the chunks belong.             *)
VerifiedIsImaged ==
  (/\ rpc = "returned" /\ rresult = "ok" /\ hashing
   /\ expected.hashed /\ expected.kind = "spw" /\ rformat = "spw"
   /\ "place" \notin expected.rotten)
  => \A i \in DOMAIN expected.bytes : dst[rconf.offset + i] = expected.bytes[i]

(* A creation that was canceled leaves no file, unless a restore had it    *)
(* open when it was to be deleted: then an incomplete one is left, and     *)
(* nobody is told.  One that succeeded leaves a complete file.             *)
FileTellsResult ==
  cpc = "returned" =>
     /\ cresult = "canceled" => file.kind = "none" \/ (file.left /\ ~file.sealed)
     /\ cresult = "ok" => file.sealed

(* All volumes named are locked while the disk is written, and none after. *)
LocksWhileWriting ==
  /\ rpc \in {"raw", "spw"} => locked = rconf.letters
  /\ rpc \notin RestoreBusy => locked = <<>>

(* However creation and restore end (done, failed, canceled), and also     *)
(* side by side: the file tells the result and no volume stays locked.     *)
ExitsClean == FileTellsResult /\ LocksWhileWriting

-----------------------------------------------------------------------------
(* The inductive invariant behind the four.                                *)

(* The file is open in one place at most, and in which.  A creation runs   *)
(* only while its button is disabled, and what it makes or is about to     *)
(* delete is not complete.                                                 *)
Creating == {"close", "raw", "header", "table", "chunks", "seal"}
HolderInv ==
  /\ file.holder = "creator" <=> cpc \in Creating
  /\ file.holder = "restorer" <=> rpc \in RestoreBusy \cup {"magic"}
  /\ createBtn => cpc = "idle"
  /\ cpc \in Creating \cup {"delete"} => ~file.sealed
  /\ cpc = "delete" => cresult # "ok"

(* The disks do not change their size, and jobs have configurations.       *)
PlaceInv ==
  /\ IsFiniteSet(DOMAIN src) /\ DOMAIN src = 0..(SrcTotal - 1) /\ src \in [DOMAIN src -> Nat]
  /\ DOMAIN dst = 0..(DstTotal - 1)
  /\ cconf \in CreateConfigs /\ rconf \in RestoreConfigs
  /\ cpc \in Creating => /\ Length \in Nat /\ ChunkCount \in Nat
                         /\ cconf.format = "spw" => ChunkCount > 0

FileShape ==
  /\ DOMAIN file = {"kind", "holder", "length", "chunkSize", "packed", "hash", "table", "blocks", "sealed",
                    "left", "rotten"}
  /\ file.kind \in {"none", "raw", "spw"} /\ file.sealed \in BOOLEAN
  /\ file.left \in BOOLEAN
  /\ file.rotten \subseteq {"data", "table", "place", "magic"}
  /\ shorts \in Nat

(* The volumes are locked in the order of the letters.                     *)
LockInv ==
  /\ rpc \in {"open", "lock"} => rformat \in {"raw", "spw"}
  /\ rpc = "lock" => /\ Len(locked) <= Len(rconf.letters) /\ locked \in Seq(STRING)
                     /\ \A i \in 1..Len(locked) : locked[i] = rconf.letters[i]

(* What the first n entries of a chunk table say of the bytes imaged: each *)
(* entry's CRC fits bytes read at its place, and there are no others.      *)
GoodEntry(e, size) ==
  /\ e.flag \in {0, 1}
  /\ e.crc \in Seq(Nat) /\ Len(e.crc) <= size
  /\ e.flag = 1 => e.crc = Zeros(e.usize)

TableSays(table, n, size) ==
  /\ \A i \in 1..n : GoodEntry(table[i], size)
  /\ \A i \in 1..n : \A k \in 1..Len(table[i].crc) :
       /\ (i - 1) * size + k - 1 \in DOMAIN image
       /\ image[(i - 1) * size + k - 1] = table[i].crc[k]
  /\ \A q \in DOMAIN image : \E i \in 1..n : \E k \in 1..Len(table[i].crc) :
       q = (i - 1) * size + k - 1

InLength(table, n, size, length) ==
  \A i \in 1..n : (i - 1) * size + Len(table[i].crc) <= length

(* A table of zeros, of which damage may call entries sparse.              *)
Unwritten(table) ==
  \A i \in 1..Len(table) : table[i] \in {ZeroEntry, [ZeroEntry EXCEPT !.flag = 1]}

(* What a raw file says of them, if no read was short.                     *)
BlocksSay == /\ DOMAIN image = 0..(Len(file.blocks) - 1)
             /\ \A i \in 1..Len(file.blocks) : image[i - 1] = file.blocks[i]

(* What the file holds, whoever left it, and when: the table is the zeros  *)
(* of the first pass or that of a complete image.                          *)
FileInv ==
  /\ file.kind = "raw" => /\ file.blocks \in Seq(Nat)
                          /\ file.sealed /\ shorts = 0 /\ file.rotten = {} => BlocksSay
  /\ file.kind = "spw" =>
       /\ "place" \notin file.rotten =>
            \E c \in CreateConfigs : c.format = "spw" /\ c.chunkSize = file.chunkSize
       /\ file.length \in Nat /\ Len(file.table) \in Nat
       /\ ~file.sealed => Unwritten(file.table)
       /\ file.sealed /\ file.rotten \subseteq {"data"} =>
            /\ TableSays(file.table, Len(file.table), file.chunkSize)
            /\ shorts = 0 => InLength(file.table, Len(file.table), file.chunkSize, file.length)
       /\ file.hash # ZeroHash /\ file.hash = <<>> => DOMAIN image = {}

(* How far createImage() is.                                               *)
CreateInv ==
  /\ cpc \in Creating => ~file.sealed /\ file.rotten = {} /\ at \in Nat
  /\ cpc \in {"close", "raw", "header"} => file.kind = "raw" /\ file.table = <<>>
  /\ cpc \in {"raw", "header"} => file.hash = ZeroHash
  /\ cpc = "raw" /\ shorts = 0 => at = Len(file.blocks) /\ BlocksSay
  /\ cpc \in {"header", "table", "chunks", "seal"} => /\ cconf.format = "spw"
                                                      /\ Len(ctable) = ChunkCount
                                                      /\ DOMAIN ctable = 1..ChunkCount
  /\ cpc \in {"header", "table"} => /\ at = 0 /\ processed = 0 /\ chash = <<>> /\ DOMAIN image = {}
                                    /\ Unwritten(ctable)
  /\ cpc \in {"table", "chunks", "seal"} => /\ file.kind = "spw" /\ file.length = Length
                                            /\ file.chunkSize = cconf.chunkSize
  /\ cpc \in {"table", "chunks"} => file.hash = ZeroHash
  /\ cpc \in {"chunks", "seal"} =>
       /\ at <= ChunkCount /\ processed \in Nat /\ processed <= Length
       /\ TableSays(ctable, at, cconf.chunkSize)
       /\ shorts = 0 => /\ InLength(ctable, at, cconf.chunkSize, Length)
                        /\ processed = Least(at * cconf.chunkSize, Length)
       /\ chash \in Seq(Nat) /\ (chash = <<>> => DOMAIN image = {})
  /\ cpc = "seal" => at = ChunkCount

(* How far restoreImage() is.                                              *)
Put(n) == \A i \in 1..n : \A k \in 1..Len(file.table[i].crc) :
            dst[ChunkPlace(i - 1) + k - 1] = file.table[i].crc[k]
RestoreInv ==
  /\ rpc \in {"idle", "asking", "detect", "magic", "open"} => expected = NoExpectation
  /\ rpc \in RestoreBusy =>
       /\ file.kind # "none"
       /\ expected = [bytes |-> image, whole |-> file.sealed, hashed |-> file.hash # ZeroHash,
                      kind |-> file.kind, length |-> file.length, rotten |-> file.rotten,
                   before |-> expected.before]
  /\ rpc = "lock" => dst = expected.before
  /\ rpc = "raw" => /\ rformat = "raw" /\ done \in 0..Len(RawBytes)
                    /\ \A i \in 1..done : dst[rconf.offset + i - 1] = RawBytes[i]
  /\ rpc = "spw" => /\ rformat = "spw" /\ file.kind = "spw" /\ done \in 0..Len(file.table)
                    /\ file.rotten \subseteq {"data"} => Put(done)
                    /\ ~file.sealed => rhash = <<>>

JobsInv == HolderInv /\ PlaceInv /\ FileShape /\ LockInv /\ FileInv /\ CreateInv /\ RestoreInv

(* Chunks begin at sectors of the destination.  restoreSpwImage does not   *)
(* look: with the program's chunk sizes and sectors they do.               *)
ChunkSectors ==
  \A c \in CreateConfigs, r \in RestoreConfigs : c.format = "spw" => c.chunkSize % r.sector = 0
=============================================================================
