----------------------------- MODULE ImageCreator -----------------------------
(***************************************************************************)
(* ImageCreator::createImage: a range of a disk is copied into an image    *)
(* file, raw or in the SPW format (header, chunk table, chunks).  The disk *)
(* stays mounted and may be written meanwhile; reads may fail or be short; *)
(* the user may cancel; and the program may die, which leaves the file as  *)
(* far as it has been written.                                             *)
(*                                                                         *)
(* A disk is a function from byte positions (scaled down) to values; 0 is  *)
(* the zero byte.  The image file is a record of what its bytes say.       *)
(***************************************************************************)
EXTENDS Integers, Sequences, FiniteSets

CONSTANTS
  Disks,           \* the contents the source disk may have at first
  SrcSector,       \* bytesPerSector of the source
  CreateConfigs,   \* the ImageCreateConfigs
  Fresh,           \* the value other software writes,
  Shared,          \* and the positions it writes
  MaxFaults        \* bound: writes of other software, short reads, damage and
                   \* deaths of the program, together

ASSUME CreateAssumption ==
  /\ \A d \in Disks : /\ d \in [DOMAIN d -> Nat] /\ IsFiniteSet(DOMAIN d)
                      /\ DOMAIN d = 0..(Cardinality(DOMAIN d) - 1)
                      /\ Cardinality(DOMAIN d) % SrcSector = 0
  /\ CreateConfigs # {}
  /\ (\A d \in Disks : Shared \subseteq DOMAIN d) /\ SrcSector \in Nat \ {0} /\ Fresh \in Nat /\ MaxFaults \in Nat
  /\ \A c \in CreateConfigs :
        /\ c.offset \in Nat /\ c.length \in Nat /\ c.chunkSize \in Nat \ {0}
        /\ c.format \in {"raw", "spw"} /\ c.sparse \in BOOLEAN /\ c.compress \in BOOLEAN
        /\ c.format = "spw" => c.chunkSize % SrcSector = 0

VARIABLES
  src,        \* the source disk
  file,       \* the image file
  cconf,      \* the argument of createImage()
  cpc,        \* where createImage() is
  at,         \* raw: bytes processed; SPW: the next chunk
  processed,  \* SPW: bytesProcessed
  ctable,     \* SPW: chunkTable in memory
  chash,      \* SPW: what has been hashed
  cancel,     \* m_cancelRequested
  cresult,    \* what createImage() returns
  faults,     \* so far, and the short reads among them
  shorts,
  image       \* ghost: what was read, by offset in the range

cvars == <<src, file, cconf, cpc, at, processed, ctable, chash, cancel, cresult, faults, shorts, image>>

Least(a, b) == IF a <= b THEN a ELSE b
UpTo(n, size) == ((n + size - 1) \div size) * size

SrcTotal == Cardinality(DOMAIN src)
Length == IF cconf.length = 0 THEN SrcTotal - cconf.offset ELSE cconf.length
ChunkCount == (Length + cconf.chunkSize - 1) \div cconf.chunkSize

(* CRC-32 and SHA-256 tell different data apart, and the CRC of nothing is *)
(* zero; an SHA-256 that is all zeros stands for one not computed.         *)
crc32Buffer(data) == data
ZeroHash == <<-1>>
OtherHash == <<-2>>   \* that of no data here

(* SpwChunkEntry.  offset: which of the blocks in the file, 0 for none.    *)
Entry(flag, offset, csize, usize, crc) ==
  [flag |-> flag, offset |-> offset, csize |-> csize, usize |-> usize, crc |-> crc]
ZeroEntry == Entry(0, 0, 0, 0, crc32Buffer(<<>>))

(* holder: who has the file open.  A raw file is its blocks, one byte each;*)
(* a file too short for a header is a raw one to everybody.  Ghosts: sealed,*)
(* the creation got to its end; left, the deletion of the file was refused; *)
(* rotten, in which of its parts it has been damaged.                       *)
NoFile == [kind |-> "none", holder |-> "none", length |-> 0, chunkSize |-> 0, packed |-> FALSE,
           hash |-> ZeroHash, table |-> <<>>, blocks |-> <<>>, sealed |-> FALSE,
           left |-> FALSE, rotten |-> {}]
EmptyFile == [NoFile EXCEPT !.kind = "raw", !.holder = "creator"]
Held(f, who) == [f EXCEPT !.holder = who]

(* Any configuration, while there is no job.                               *)
NoCreate == CHOOSE c \in CreateConfigs : TRUE

(* The locals of createImage() are gone.                                   *)
ForgetCreate == at' = 0 /\ processed' = 0 /\ ctable' = <<>> /\ chash' = <<>> /\ cancel' = FALSE

CreateInit ==
  /\ src \in Disks
  /\ file = NoFile
  /\ cconf = NoCreate
  /\ cpc = "idle"
  /\ at = 0 /\ processed = 0 /\ ctable = <<>> /\ chash = <<>> /\ cancel = FALSE
  /\ cresult = "none"
  /\ faults = 0 /\ shorts = 0
  /\ image = <<>>

-----------------------------------------------------------------------------
(* Mutant: the partial file stays.                                         *)
CreateAbortKeep(r) ==
  /\ file' = Held(file, "none")
  /\ cpc' = "returned"
  /\ cresult' = r

(* CloseHandle, then DeleteFileW: two calls.                               *)
CreateAbort(r) ==
  /\ file' = Held(file, "none")
  /\ cpc' = "delete"
  /\ cresult' = r

(* Deleting fails while somebody has the file open, and nobody asks.       *)
DeleteFile ==
  /\ cpc = "delete"
  /\ IF file.holder = "none" THEN file' = NoFile /\ image' = <<>>
     ELSE file' = [file EXCEPT !.left = TRUE] /\ UNCHANGED image
  /\ cpc' = "returned"
  /\ UNCHANGED <<src, cconf, at, processed, ctable, chash, cancel, cresult, faults, shorts>>

(* Returning with the file left as it is.                                  *)
CreateReturn(r) ==
  /\ file' = Held(file, "none")
  /\ cpc' = "returned"
  /\ cresult' = r

requestCancel ==
  /\ cpc \notin {"idle", "returned"}
  /\ ~cancel
  /\ cancel' = TRUE
  /\ UNCHANGED <<src, file, cconf, cpc, at, processed, ctable, chash, cresult, faults, shorts, image>>

(* Other software, or another job on the same disk.                        *)
OtherWrite(p) ==
  /\ cpc \notin {"idle", "returned"}
  /\ faults < MaxFaults
  /\ src[p] # Fresh
  /\ src' = [src EXCEPT ![p] = Fresh]
  /\ faults' = faults + 1
  /\ UNCHANGED <<file, cconf, cpc, at, processed, ctable, chash, cancel, cresult, shorts, image>>

(* The checks; opening the disk, its geometry and the file may fail too,   *)
(* and the file cannot be replaced while it is being restored.             *)
CreateRefused ==
  \/ cconf.length = 0 /\ cconf.offset > SrcTotal
  \/ cconf.offset + Length > SrcTotal
  \/ cconf.offset % SrcSector # 0
  \/ cconf.format = "spw" /\ ChunkCount = 0

CreateStart ==
  /\ cpc = "open"
  /\ cancel' = FALSE
  /\ at' = 0 /\ processed' = 0 /\ chash' = <<>>
  /\ \/ cpc' = "returned" /\ cresult' = "error" /\ UNCHANGED <<file, ctable, image>>
     \/ /\ ~CreateRefused
        /\ file.holder = "none"
        /\ file' = EmptyFile
        /\ image' = <<>>
        /\ ctable' = IF cconf.format = "spw" THEN [i \in 1..ChunkCount |-> ZeroEntry] ELSE <<>>
        /\ cpc' \in IF cconf.format = "spw" THEN {"header", "close"}
                    ELSE IF cconf.chunkSize < SrcSector THEN {"close"} ELSE {"raw"}
        /\ UNCHANGED cresult
  /\ UNCHANGED <<src, cconf, faults, shorts>>

(* A chunk size below a sector, or the geometry that cannot be read a      *)
(* second time: the empty file is not deleted.                             *)
LeaveEmpty ==
  /\ cpc = "close"
  /\ CreateReturn("error")
  /\ UNCHANGED <<src, cconf, at, processed, ctable, chash, cancel, faults, shorts, image>>

(* Noticed at the start of a pass, or the progress callback said to stop   *)
(* at the end of one.                                                      *)
CreateCanceled ==
  /\ \/ cpc = "raw" /\ ((cancel /\ at < Length) \/ at > 0)
     \/ cpc = "chunks" /\ ((cancel /\ at < ChunkCount) \/ at > 0)
  /\ CreateAbort("canceled")
  /\ UNCHANGED <<src, cconf, at, processed, ctable, chash, cancel, faults, shorts, image>>

CreateFails ==
  /\ \/ cpc = "raw" /\ at < Length
     \/ cpc = "chunks" /\ at < ChunkCount
     \/ cpc \in {"header", "table"}
  /\ CreateAbort("error")
  /\ UNCHANGED <<src, cconf, at, processed, ctable, chash, cancel, faults, shorts, image>>

-----------------------------------------------------------------------------
(* readSectors(lba, ceil(n / sector)), cut to n bytes; what came may be    *)
(* less, but never beyond the end of the disk.                             *)
Reads(pos, n) ==
  LET first == (pos \div SrcSector) * SrcSector
      full  == Least(n, SrcTotal - first)
      data(k) == [i \in 1..k |-> src[first + i - 1]]
  IN  {data(k) : k \in IF faults < MaxFaults THEN 0..full ELSE {full}}

CountShort(data, n) ==
  LET short == IF Len(data) < n THEN 1 ELSE 0
  IN  shorts' = shorts + short /\ faults' = faults + short

(* Ghost: these bytes were read at this offset.                            *)
Imaged(offset, data) ==
  [i \in DOMAIN image \cup {offset + k - 1 : k \in 1..Len(data)} |->
     IF i >= offset /\ i < offset + Len(data) THEN data[i - offset + 1] ELSE image[i]]

AlignedChunk == (cconf.chunkSize \div SrcSector) * SrcSector

(* The position advances by what was asked for.                            *)
RawChunk ==
  /\ cpc = "raw"
  /\ at < Length
  /\ ~cancel
  /\ LET n == Least(AlignedChunk, Length - at)
     IN  \E data \in Reads(cconf.offset + at, n) :
           /\ file' = [file EXCEPT !.blocks = @ \o data]
           /\ image' = Imaged(at, data)
           /\ CountShort(data, n)
           /\ at' = at + n
  /\ UNCHANGED <<src, cconf, cpc, processed, ctable, chash, cancel, cresult>>

RawDone ==
  /\ cpc = "raw"
  /\ at >= Length
  /\ file' = [file EXCEPT !.holder = "none", !.sealed = TRUE]
  /\ cpc' = "returned"
  /\ cresult' = "ok"
  /\ UNCHANGED <<src, cconf, at, processed, ctable, chash, cancel, faults, shorts, image>>

-----------------------------------------------------------------------------
(* The header, its hash still zero, and a table of zeros.                  *)
WriteHeader ==
  /\ cpc = "header"
  /\ file' = [file EXCEPT !.kind = "spw", !.length = Length, !.chunkSize = cconf.chunkSize,
                          !.packed = cconf.compress]
  /\ cpc' = "table"
  /\ UNCHANGED <<src, cconf, at, processed, ctable, chash, cancel, cresult, faults, shorts, image>>

WriteTable ==
  /\ cpc = "table"
  /\ file' = [file EXCEPT !.table = ctable]
  /\ cpc' = "chunks"
  /\ UNCHANGED <<src, cconf, at, processed, ctable, chash, cancel, cresult, faults, shorts, image>>

isAllZeros(data) == \A i \in DOMAIN data : data[i] = 0

(* What becomes of a chunk: nothing, if sparse; else it is stored, packed  *)
(* if that works and is smaller.                                           *)
Stored(data, packed) ==
  [entry |-> Entry(0, Len(file.blocks) + 1, IF packed THEN Len(data) - 1 ELSE Len(data),
                   Len(data), crc32Buffer(data)),
   block |-> <<[data |-> data, packed |-> packed]>>]
Sparse(data) == [entry |-> Entry(1, 0, 0, Len(data), crc32Buffer(data)), block |-> <<>>]

Encodings(data) ==
  IF cconf.sparse /\ isAllZeros(data) THEN {Sparse(data)}
  ELSE {Stored(data, FALSE)} \cup
       (IF cconf.compress /\ Len(data) > 0 THEN {Stored(data, TRUE)} ELSE {})

(* One pass of the loop: the place of a chunk is its index times the chunk *)
(* size, its length what the bytes processed leave.                        *)
SpwChunk ==
  /\ cpc = "chunks"
  /\ at < ChunkCount
  /\ ~cancel
  /\ LET n == Least(cconf.chunkSize, Length - processed)
         offset == at * cconf.chunkSize
     IN  \E data \in Reads(cconf.offset + offset, n) : \E e \in Encodings(data) :
           /\ file' = [file EXCEPT !.blocks = @ \o e.block]
           /\ ctable' = [ctable EXCEPT ![at + 1] = e.entry]
           /\ chash' = chash \o data
           /\ image' = Imaged(offset, data)
           /\ CountShort(data, n)
           /\ processed' = processed + Len(data)
  /\ at' = at + 1
  /\ UNCHANGED <<src, cconf, cpc, cancel, cresult>>

(* The hash is finished, and the header and the table are written again.   *)
SealHeader ==
  /\ cpc = "chunks"
  /\ at = ChunkCount
  /\ file' = [file EXCEPT !.hash = chash]
  /\ cpc' = "seal"
  /\ UNCHANGED <<src, cconf, at, processed, ctable, chash, cancel, cresult, faults, shorts, image>>

SealTable ==
  /\ cpc = "seal"
  /\ file' = [file EXCEPT !.table = ctable, !.sealed = TRUE, !.holder = "none"]
  /\ cpc' = "returned"
  /\ cresult' = "ok"
  /\ UNCHANGED <<src, cconf, at, processed, ctable, chash, cancel, faults, shorts, image>>

(* A failure here leaves the file.                                         *)
SealFails ==
  /\ (cpc = "chunks" /\ at = ChunkCount) \/ cpc = "seal"
  /\ CreateReturn("error")
  /\ UNCHANGED <<src, cconf, at, processed, ctable, chash, cancel, faults, shorts, image>>

CreateStep ==
  \/ CreateStart \/ LeaveEmpty \/ DeleteFile \/ CreateCanceled \/ CreateFails
  \/ RawChunk \/ RawDone
  \/ WriteHeader \/ WriteTable \/ SpwChunk \/ SealHeader \/ SealTable \/ SealFails

CreateEnv == requestCancel \/ \E p \in Shared : OtherWrite(p)
=============================================================================
