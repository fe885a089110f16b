----------------------------- MODULE ImageRestorer -----------------------------
(***************************************************************************)
(* ImageRestorer::restoreImage: an image file, complete or torn, is put    *)
(* back on a disk.  The format is detected with one handle and the file    *)
(* read with another; in between it may be replaced.  While it is open     *)
(* nobody else writes it.                                                  *)
(***************************************************************************)
EXTENDS ImageCreator

CONSTANTS
  RestoreConfigs,  \* the ImageRestoreConfigs, with the destination's geometry
  DstTotal,        \* totalBytes of the destination
  OldByte          \* what the destination holds before, at every byte

ASSUME RestoreAssumption ==
  /\ DstTotal \in Nat /\ OldByte \in Nat /\ RestoreConfigs # {}
  /\ \A r \in RestoreConfigs :
        /\ r.sector \in Nat \ {0} /\ DstTotal % r.sector = 0
        /\ r.offset \in Nat /\ r.offset % r.sector = 0
        /\ r.bufferSize \in Nat /\ r.verify \in BOOLEAN /\ r.letters \in Seq(STRING)

VARIABLES
  dst,       \* the destination disk
  rconf,     \* the argument of restoreImage()
  rpc,       \* where restoreImage() is
  rformat,   \* what detectFormat() said
  done,      \* raw: bytesWritten; SPW: the next chunk
  hashing,   \* hHash exists
  rhash,     \* what it has been given
  locked,    \* lockedVolumes
  rcancel,   \* m_cancelRequested
  rresult,   \* what restoreImage() returns
  expected   \* ghost: of the file opened, what its bytes were read from the
             \* source as, whether it is complete and its hash is stored, and
             \* where it is damaged; and what was on the destination by then

rvars == <<dst, rconf, rpc, rformat, done, hashing, rhash, locked, rcancel, rresult, expected>>
ivars == <<cvars, rvars>>

NoRestore == CHOOSE r \in RestoreConfigs : TRUE
NoExpectation == [bytes |-> <<>>, whole |-> FALSE, hashed |-> FALSE, kind |-> "none", length |-> 0,
                  rotten |-> {}, before |-> <<>>]

(* The locals of restoreImage() are gone.                                  *)
ForgetRestore ==
  /\ rformat' = "none" /\ done' = 0 /\ hashing' = FALSE /\ rhash' = <<>> /\ rcancel' = FALSE
  /\ expected' = NoExpectation

RestoreInit ==
  /\ dst = [p \in 0..(DstTotal - 1) |-> OldByte]
  /\ rconf = NoRestore
  /\ rpc = "idle"
  /\ rformat = "none" /\ done = 0 /\ hashing = FALSE /\ rhash = <<>> /\ rcancel = FALSE
  /\ expected = NoExpectation
  /\ locked = <<>>
  /\ rresult = "none"

(* The bytes of a file read as a raw image; an SPW file starts with its    *)
(* header and its table.                                                   *)
RawBytes == IF file.kind = "raw" THEN file.blocks
            ELSE [i \in 1..(1 + Len(file.table)) |-> Fresh + 2]

(* The file is damaged while it lies about.  data: a chunk's bytes (or its *)
(* CRC, which comes to the same) or the hash; table: a stored chunk is     *)
(* called sparse, or chunks are missing from the count; place: the chunk   *)
(* size; magic: the first bytes, which make it a raw file to everybody.    *)
(* Damage that makes the code read beyond its buffers (a chunk's size, a   *)
(* chunk size below a sparse chunk's, a sparse chunk called stored) is     *)
(* left out, and so is the image's size, which only has to fit.            *)
Damaged(f, where) == [f EXCEPT !.rotten = @ \cup {where}]

DamagedData ==
  {Damaged([file EXCEPT !.blocks[i] = Fresh + 1], "data") :
     i \in IF file.kind = "raw" THEN DOMAIN file.blocks ELSE {}}
  \cup {Damaged([file EXCEPT !.blocks[i].data[1] = Fresh + 1], "data") :
     i \in IF file.kind = "spw" THEN {b \in DOMAIN file.blocks : file.blocks[b].data # <<>>} ELSE {}}
  \cup {Damaged([file EXCEPT !.hash = OtherHash], "data") : k \in {file.kind} \cap {"spw"}}

CalledSparse(k) ==
  [i \in 1..Len(file.table) |-> IF i = k THEN [file.table[i] EXCEPT !.flag = 1] ELSE file.table[i]]
Shortened(n) == [i \in 1..n |-> file.table[i]]

DamagedTable ==
  {Damaged([file EXCEPT !.table = CalledSparse(k)], "table") : k \in 1..Len(file.table)}
  \cup {Damaged([file EXCEPT !.table = Shortened(n)], "table") : n \in 1..(Len(file.table) - 1)}

DamagedHeader ==
  {Damaged([file EXCEPT !.chunkSize = 2 * @], "place"),
   Damaged([file EXCEPT !.kind = "raw", !.table = <<>>, !.blocks = RawBytes], "magic")}

Damage ==
  /\ faults < MaxFaults
  /\ file.holder = "none"
  /\ \/ file' \in DamagedData
     \/ file.kind = "spw" /\ file' \in DamagedTable \cup DamagedHeader
  /\ faults' = faults + 1
  /\ UNCHANGED <<src, cconf, cpc, at, processed, ctable, chash, cancel, cresult, shorts, image>>
  /\ UNCHANGED rvars

(* restoreImage() does not touch what createImage() works with.            *)
CreatorSame == UNCHANGED <<src, cconf, cpc, at, processed, ctable, chash, cancel, cresult, faults, shorts, image>>

requestRestoreCancel ==
  /\ rpc \notin {"idle", "returned"}
  /\ ~rcancel
  /\ rcancel' = TRUE
  /\ UNCHANGED file /\ CreatorSame
  /\ UNCHANGED <<dst, rconf, rpc, rformat, done, hashing, rhash, locked, rresult, expected>>

-----------------------------------------------------------------------------
detectFormat(f) == IF f.kind = "spw" THEN "spw" ELSE "raw"

unlockVolumes == locked' = <<>>

(* Closing the file, giving the locks back, returning.                     *)
RestoreEnd(r) ==
  /\ file' = Held(file, "none")
  /\ unlockVolumes
  /\ rpc' = "returned"
  /\ rresult' = r

RestoreStart ==
  /\ rpc = "detect"
  /\ rcancel' = FALSE
  /\ \/ rpc' = "returned" /\ rresult' = "error" /\ UNCHANGED file
     \/ /\ file.kind # "none" /\ file.holder = "none"
        /\ file' = Held(file, "restorer")
        /\ rpc' = "magic"
        /\ UNCHANGED rresult
  /\ CreatorSame
  /\ UNCHANGED <<dst, rconf, rformat, done, hashing, rhash, locked, expected>>

(* A read that fails makes it a raw image.                                 *)
RestoreDetect ==
  /\ rpc = "magic"
  /\ file' = Held(file, "none")
  /\ rformat' \in {detectFormat(file), "raw"}
  /\ rpc' = "open"
  /\ CreatorSame
  /\ UNCHANGED <<dst, rconf, done, hashing, rhash, locked, rcancel, rresult, expected>>

(* The file, its size, the disk, its geometry.                             *)
RestoreOpen ==
  /\ rpc = "open"
  /\ \/ rpc' = "returned" /\ rresult' = "error" /\ UNCHANGED <<file, expected>>
     \/ /\ file.kind # "none" /\ file.holder = "none"
        /\ file' = Held(file, "restorer")
        /\ expected' = [bytes |-> image, whole |-> file.sealed,
                         hashed |-> file.hash # ZeroHash, kind |-> file.kind, length |-> file.length,
                         rotten |-> file.rotten, before |-> dst]
        /\ rpc' = "lock"
        /\ UNCHANGED rresult
  /\ CreatorSame
  /\ UNCHANGED <<dst, rconf, rformat, done, hashing, rhash, locked, rcancel>>

(* lockDestinationVolumes: one volume after the other.                     *)
RestoreLock ==
  /\ rpc = "lock"
  /\ Len(locked) < Len(rconf.letters)
  /\ \/ /\ locked' = Append(locked, rconf.letters[Len(locked) + 1])
        /\ UNCHANGED <<file, rpc, rresult>>
     \/ RestoreEnd("error")
  /\ CreatorSame
  /\ UNCHANGED <<dst, rconf, rformat, done, hashing, rhash, rcancel, expected>>

AlignedBuf == (rconf.bufferSize \div rconf.sector) * rconf.sector

Fits ==
  IF rformat = "raw"
  THEN /\ rconf.offset + Len(RawBytes) <= DstTotal
       /\ AlignedBuf > 0
  ELSE /\ file.kind = "spw"
       /\ rconf.offset + file.length <= DstTotal
       /\ Len(file.table) > 0

(* The header and the table are read, and the hash made if it can be.      *)
RestoreBegin ==
  /\ rpc = "lock"
  /\ Len(locked) = Len(rconf.letters)
  /\ done' = 0 /\ rhash' = <<>>
  /\ \/ ~Fits /\ RestoreEnd("error") /\ UNCHANGED hashing
     \/ /\ Fits
        /\ hashing' \in {FALSE, rformat = "spw" /\ rconf.verify}
        /\ rpc' = rformat
        /\ UNCHANGED <<file, locked, rresult>>
  /\ CreatorSame
  /\ UNCHANGED <<dst, rconf, rformat, rcancel, expected>>

More == \/ rpc = "raw" /\ done < Len(RawBytes)
        \/ rpc = "spw" /\ done < Len(file.table)

RestoreCanceled ==
  /\ rpc \in {"raw", "spw"}
  /\ (rcancel /\ More) \/ done > 0
  /\ RestoreEnd("canceled")
  /\ CreatorSame
  /\ UNCHANGED <<dst, rconf, rformat, done, hashing, rhash, rcancel, expected>>

RestoreFails ==
  /\ More
  /\ RestoreEnd("error")
  /\ CreatorSame
  /\ UNCHANGED <<dst, rconf, rformat, done, hashing, rhash, rcancel, expected>>

-----------------------------------------------------------------------------
(* writeSectors of the data, filled up with zeros to whole sectors.  Bytes *)
(* beyond the end make the call fail.                                      *)
CanWrite(pos, data) == pos + UpTo(Len(data), rconf.sector) <= DstTotal
Written(pos, data) ==
  [p \in DOMAIN dst |->
     IF p >= pos /\ p < pos + Len(data) THEN data[p - pos + 1]
     ELSE IF p >= pos + Len(data) /\ p < pos + UpTo(Len(data), rconf.sector) THEN 0
     ELSE dst[p]]

(* Mutant: every buffer is written to the start.                           *)
RestoreRawStart ==
  /\ rpc = "raw"
  /\ More
  /\ ~rcancel
  /\ LET n == Least(AlignedBuf, Len(RawBytes) - done)
         data == SubSeq(RawBytes, done + 1, done + n)
     IN  /\ CanWrite(rconf.offset, data)
         /\ dst' = Written(rconf.offset, data)
         /\ done' = done + n
  /\ UNCHANGED file /\ CreatorSame
  /\ UNCHANGED <<rconf, rpc, rformat, hashing, rhash, locked, rcancel, rresult, expected>>

RestoreRaw ==
  /\ rpc = "raw"
  /\ More
  /\ ~rcancel
  /\ LET n == Least(AlignedBuf, Len(RawBytes) - done)
         data == SubSeq(RawBytes, done + 1, done + n)
     IN  /\ CanWrite(rconf.offset + done, data)
         /\ dst' = Written(rconf.offset + done, data)
         /\ done' = done + n
  /\ UNCHANGED file /\ CreatorSame
  /\ UNCHANGED <<rconf, rpc, rformat, hashing, rhash, locked, rcancel, rresult, expected>>

(* The data of an entry: zeros, nothing (an entry of zeros), or a block.   *)
Zeros(n) == [i \in 1..n |-> 0]
Unpacked(e) == IF e.flag = 1 THEN Zeros(e.usize)
               ELSE IF e.offset = 0 THEN <<>> ELSE file.blocks[e.offset].data

(* Mutant: the stored bytes are not compared with the CRC.                 *)
ChunkGoodUnchecked(e) == e.flag \in {0, 1}

(* A sparse chunk is not compared.                                         *)
ChunkGood(e) == e.flag = 1 \/ crc32Buffer(Unpacked(e)) = e.crc

ChunkPlace(i) == rconf.offset + i * file.chunkSize

RestoreSpw ==
  /\ rpc = "spw"
  /\ More
  /\ ~rcancel
  /\ LET e == file.table[done + 1]
     IN  /\ ChunkGood(e)
         /\ CanWrite(ChunkPlace(done), Unpacked(e))
         /\ dst' = Written(ChunkPlace(done), Unpacked(e))
         /\ rhash' = IF hashing THEN rhash \o Unpacked(e) ELSE rhash
  /\ done' = done + 1
  /\ UNCHANGED file /\ CreatorSame
  /\ UNCHANGED <<rconf, rpc, rformat, hashing, locked, rcancel, rresult, expected>>

(* Mutant: the hash is not compared.                                       *)
HashGoodAlways == hashing \in BOOLEAN

(* A stored hash of zeros is not compared.                                 *)
HashGood == hashing /\ file.hash # ZeroHash => rhash = file.hash

RestoreDone ==
  /\ rpc \in {"raw", "spw"}
  /\ ~More
  /\ RestoreEnd(IF HashGood THEN "ok" ELSE "mismatch")
  /\ CreatorSame
  /\ UNCHANGED <<dst, rconf, rformat, done, hashing, rhash, rcancel, expected>>

RestoreStep ==
  \/ RestoreStart \/ RestoreDetect \/ RestoreOpen \/ RestoreLock \/ RestoreBegin \/ RestoreCanceled
  \/ RestoreFails \/ RestoreRaw \/ RestoreSpw \/ RestoreDone
=============================================================================
