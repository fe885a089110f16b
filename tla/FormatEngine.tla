----------------------------- MODULE FormatEngine -----------------------------
(***************************************************************************)
(* FormatEngine::format: a target (a drive letter or a byte range of a raw *)
(* disk) is given a new filesystem.  ext2/3/4, large FAT32 and Linux swap  *)
(* are written by the engine itself, one write after another, in the order *)
(* of the code; the other types are left to format.com.  Byte offsets,     *)
(* block and group sizes are the real ones.  What is written matters as    *)
(* far as FilesystemDetector can tell it, and where it is written matters  *)
(* for every byte.                                                         *)
(***************************************************************************)
EXTENDS FilesystemDetector, Integers

CONSTANTS Jobs,         \* the calls of format(): see JobType
          OldVolumes,   \* what a volume may hold before
          Fat32Limit    \* the size above which FAT32 is not left to Windows (32 GiB)

VARIABLES job, old, vol, touched, beyond, lock, pc, zeroed, todo, result
fvars == <<job, old, vol, touched, beyond, lock, pc, zeroed, todo, result>>

KB == 1024
MB == 1024 * KB

\* FormatTarget and FormatOptions.  told: the target names the size (else the
\* engine asks Windows for it, which needs a letter).  luckless: the random
\* UUID of a swap header happens to spell a MINIX magic at the offset 0x410.
\* inodesPerGroup: what the caller asks for, 0 to have it computed.
JobType == [fs : Types, quick : BOOLEAN, letter : BOOLEAN, told : BOOLEAN, size : Nat,
            sectorSize : {512, 4096}, blockSize : Nat, inodeSize : Nat, inodesPerGroup : Nat,
            journal : BOOLEAN, clusterSize : Nat, forceLarge : BOOLEAN, pageSize : Nat, luckless : BOOLEAN]

\* A partition is a whole number of the disk's sectors.
ASSUME FormatAssumption == /\ Jobs \subseteq JobType
                           /\ \A j \in Jobs : j.size % j.sectorSize = 0
                           /\ OldVolumes \subseteq [Places -> STRING]
                           /\ Fat32Limit \in Nat

Min2(a, b) == IF a <= b THEN a ELSE b
CeilDiv(a, b) == (a + b - 1) \div b

-----------------------------------------------------------------------------
(* What is supported, and the block sizes chosen for the caller. *)

ExtTypes == {"Ext2", "Ext3", "Ext4"}

isFormatSupported(fs) ==
    fs \in ExtTypes \cup {"NTFS", "FAT32", "FAT16", "FAT12", "ExFAT", "ReFS", "SWAP_LINUX"}

recommendedClusterSize(fs, bytes) ==
    CASE fs = "FAT32"      -> IF bytes <= 64 * MB THEN 512
                              ELSE IF bytes <= 128 * MB THEN 1024
                              ELSE IF bytes <= 256 * MB THEN 4096 ELSE 8192
      [] fs \in ExtTypes   -> IF bytes <= 512 * MB THEN 1024 ELSE 4096
      [] OTHER             -> 4096

-----------------------------------------------------------------------------
(* The geometry of an ext filesystem. *)

ExtBlock(j) == IF j.blockSize = 0 THEN recommendedClusterSize(j.fs, j.size) ELSE j.blockSize
FirstDataBlock(j) == IF ExtBlock(j) = 1024 THEN 1 ELSE 0
TotalBlocks(j) == j.size \div ExtBlock(j)
BlocksPerGroup(j) == ExtBlock(j) * 8
NumGroups(j) == CeilDiv(TotalBlocks(j), BlocksPerGroup(j))
InodeSize(j) == IF j.inodeSize = 0 THEN 256 ELSE j.inodeSize

\* The caller's number, taken unchecked; or one inode for every 16 KiB, rounded
\* up to whole blocks, at most one bitmap.
InodesPerGroup(j) ==
    LET perBlock == ExtBlock(j) \div InodeSize(j)
        wanted   == (BlocksPerGroup(j) * ExtBlock(j)) \div 16384
        atLeast  == IF wanted < 16 THEN 16 ELSE wanted
    IN  IF j.inodesPerGroup # 0 THEN j.inodesPerGroup
        ELSE Min2(CeilDiv(atLeast, perBlock) * perBlock, ExtBlock(j) * 8)

InodeTableBlocks(j) == CeilDiv(InodesPerGroup(j) * InodeSize(j), ExtBlock(j))
GdtBlocks(j) == CeilDiv(NumGroups(j) * 32, ExtBlock(j))
ReservedGdtBlocks(j) == Min2(1024, (ExtBlock(j) \div 32) * 16)
HasJournal(j) == j.fs \in {"Ext3", "Ext4"} /\ j.journal

hasSuperblockBackup(g) ==
    g \in {0, 1} \/ \E base \in {3, 5, 7}, k \in 1..6 : base^k = g

groupOverhead(j, g) ==
    (IF hasSuperblockBackup(g) THEN 1 + GdtBlocks(j) + ReservedGdtBlocks(j) ELSE 0)
    + 2 + InodeTableBlocks(j)

GroupStart(j, g) == g * BlocksPerGroup(j) + FirstDataBlock(j)

\* Mutant: the blocks reserved for a growing descriptor table are forgotten.
BlockBitmapBlockNoReserve(j, g) ==
    GroupStart(j, g) + (IF hasSuperblockBackup(g) THEN GdtBlocks(j) ELSE 0)

\* GroupLayout::blockBitmapBlock; the inode bitmap and the table follow it.
BlockBitmapBlock(j, g) ==
    GroupStart(j, g) + (IF hasSuperblockBackup(g) THEN 1 + GdtBlocks(j) + ReservedGdtBlocks(j)
                        ELSE 0)

RootDirBlock(j) == FirstDataBlock(j) + groupOverhead(j, 0)

\* What a group holds besides free blocks: in group 0 the two directories and
\* the journal's first block follow its overhead.
GroupMetadata(j, g) ==
    groupOverhead(j, g) + (IF g > 0 THEN 0 ELSE IF HasJournal(j) THEN 3 ELSE 2)

\* The metadata of every group ends within the partition.
MetadataInside(j) ==
    \A g \in 0..(NumGroups(j) - 1) : GroupStart(j, g) + GroupMetadata(j, g) <= TotalBlocks(j)

\* A group has room for its metadata, and its table for the eleven first inodes.
GroupsHold(j) ==
    /\ \A g \in 0..(NumGroups(j) - 1) : GroupMetadata(j, g) <= BlocksPerGroup(j)
    /\ 11 * InodeSize(j) <= InodeTableBlocks(j) * ExtBlock(j)

-----------------------------------------------------------------------------
(* The writes, in the order of the code.  puts: the magic a write leaves.  *)

Wr(what, at, len, puts) == [what |-> what, at |-> at, len |-> len, puts |-> puts]

ExtSuper(j) ==
    IF j.fs = "Ext4" THEN IF HasJournal(j) THEN "extJournalFlex" ELSE "extFlex"
    ELSE IF HasJournal(j) THEN "extJournal" ELSE "extPlain"

SuperWrite(j) == Wr("super", 1024, 1024, {<<"super", ExtSuper(j)>>})
GdtWrite(j) == Wr("gdt", IF ExtBlock(j) = 1024 THEN 2048 ELSE ExtBlock(j),
                  GdtBlocks(j) * ExtBlock(j), {})

\* Concatenation of the sequences f[1], ..., f[n].
Concat(f, n) ==
    LET upTo[i \in 0..n] == IF i = 0 THEN << >> ELSE upTo[i - 1] \o f[i]
    IN  upTo[n]

BackupWrites(j) ==
    LET start(g) == GroupStart(j, g) * ExtBlock(j)
        copies == [g \in 1..(NumGroups(j) - 1) |->
                      IF hasSuperblockBackup(g)
                      THEN << Wr("superCopy", start(g), 1024, {}),
                              Wr("gdtCopy", start(g) + ExtBlock(j), GdtBlocks(j) * ExtBlock(j), {}) >>
                      ELSE << >>]
    IN  Concat(copies, NumGroups(j) - 1)

\* The inode table is cleared 64 KiB at a time.
GroupWrites(j) ==
    LET bs == ExtBlock(j)
        bb(g) == BlockBitmapBlock(j, g)
        bytes == InodeTableBlocks(j) * bs
        chunk(g, i) == Wr("inodeTable", (bb(g) + 2) * bs + (i - 1) * 64 * KB,
                          Min2(64 * KB, bytes - (i - 1) * 64 * KB), {})
        group(g) == << Wr("blockBitmap", bb(g) * bs, bs, {}),
                       Wr("inodeBitmap", (bb(g) + 1) * bs, bs, {}) >>
                    \o [i \in 1..CeilDiv(bytes, 64 * KB) |-> chunk(g, i)]
    IN  Concat([i \in 1..NumGroups(j) |-> group(i - 1)], NumGroups(j))

InodeWrite(j, n) ==
    Wr("inode", (BlockBitmapBlock(j, 0) + 2) * ExtBlock(j) + (n - 1) * InodeSize(j),
       InodeSize(j), {})

DirWrites(j) ==
    << InodeWrite(j, 2), InodeWrite(j, 11),
       Wr("rootDir", RootDirBlock(j) * ExtBlock(j), ExtBlock(j), {}),
       Wr("lostFound", (RootDirBlock(j) + 1) * ExtBlock(j), ExtBlock(j), {}) >>

JournalWrites(j) ==
    IF HasJournal(j)
    THEN << InodeWrite(j, 8),
            Wr("journal", (RootDirBlock(j) + 2) * ExtBlock(j), ExtBlock(j), {}),
            Wr("blockBitmap", BlockBitmapBlock(j, 0) * ExtBlock(j), ExtBlock(j), {}),
            SuperWrite(j) >>
    ELSE << >>

ExtWrites(j) ==
    << SuperWrite(j), GdtWrite(j) >> \o BackupWrites(j) \o GroupWrites(j)
    \o DirWrites(j) \o JournalWrites(j)

-----------------------------------------------------------------------------
(* FAT32 on 512-byte sectors, 32 reserved, two tables. *)

FatCluster(j) == IF j.clusterSize = 0 THEN recommendedClusterSize("FAT32", j.size)
                 ELSE j.clusterSize
SectorsPerCluster(j) == (FatCluster(j) \div 512) % 256
TotalSectors(j) == j.size \div 512

FatSectors(clusters) == ((clusters + 2) * 4 + 511) \div 512

\* The table's size and the number of clusters depend on each other: at most
\* ten rounds of one from the other.  The code's 64-bit differences wrap where
\* they are negative here; cut to 32 bits the table's size is the same, as all
\* the divisors are powers of two.
FatSize(j) ==
    LET size[i \in 0..10] ==
            IF i = 0 THEN FatSectors((TotalSectors(j) - 32) \div SectorsPerCluster(j))
            ELSE FatSectors((TotalSectors(j) - 32 - 2 * size[i - 1]) \div SectorsPerCluster(j))
    IN  size[10]

FatDataStart(j) == 32 + 2 * FatSize(j)
FatClusters(j) == (TotalSectors(j) - FatDataStart(j)) \div SectorsPerCluster(j)

\* Fewer sectors than the reserved ones and the tables: the number of clusters,
\* negative here, wraps to almost 2^32.
FatWraps(j) == FatClusters(j) < 0

FatCopyWrites(j, copy) ==
    LET bytes == FatSize(j) * 512
        base == (32 + copy * FatSize(j)) * 512
    IN  [i \in 1..CeilDiv(bytes, MB) |->
            Wr("fat", base + (i - 1) * MB, Min2(MB, bytes - (i - 1) * MB), {})]

\* The boot sector spells FAT32; what the detector takes it for depends on the
\* number of clusters it gives, and where the data would start behind the end
\* of the volume it does not take it for FAT at all.
BootSector(j) ==
    Wr("boot", 0, 512, IF FatWraps(j) THEN {} ELSE {<<"boot", FatKind(FatClusters(j))>>})

FatWrites(j) ==
    << BootSector(j),
       Wr("fsInfo", 512, 512, {}),
       Wr("bootCopy", 6 * 512, 512, {}), Wr("fsInfoCopy", 7 * 512, 512, {}) >>
    \o FatCopyWrites(j, 0) \o FatCopyWrites(j, 1)
    \o << Wr("rootCluster", FatDataStart(j) * 512, SectorsPerCluster(j) * 512, {}) >>

-----------------------------------------------------------------------------
(* Linux swap: one page with a magic in its last ten bytes. *)

PageSize(j) == IF j.pageSize = 0 THEN 4096 ELSE j.pageSize

SwapWrites(j) ==
    LET place == IF PageSize(j) = 4096 THEN "page4" ELSE "page8"
    IN  << Wr("swap", 0, PageSize(j),
              {<<place, "SWAPSPACE2">>} \cup
              (IF j.luckless THEN {<<"super", "minix">>} ELSE {})) >>

-----------------------------------------------------------------------------
(* The engine. *)

OwnWriter(j) == \/ j.fs \in ExtTypes \cup {"SWAP_LINUX"}
                \/ j.fs = "FAT32" /\ (j.forceLarge \/ (j.told /\ j.size > Fat32Limit))

PowerOfTwo(n) == \E k \in 0..8 : 2^k = n

\* The checks each writer makes before it opens anything.  (Volumes of 2^32
\* sectors and more, which FAT32 refuses, are not among the Jobs.)
Acceptable(j) ==
    CASE j.fs \in ExtTypes -> /\ j.size >= MB
                              /\ ExtBlock(j) \in {1024, 2048, 4096}
                              /\ InodeSize(j) \in {128, 256}
      [] j.fs = "FAT32" -> /\ PowerOfTwo(SectorsPerCluster(j))
                           /\ FatClusters(j) >= 65525 \/ FatWraps(j)
      [] j.fs = "SWAP_LINUX" -> j.size >= 2 * PageSize(j)

Writes(j) == IF j.fs \in ExtTypes THEN ExtWrites(j)
             ELSE IF j.fs = "FAT32" THEN FatWrites(j) ELSE SwapWrites(j)

\* A place behind the end of a small volume holds nothing.
FInit == /\ job \in Jobs
         /\ old \in OldVolumes
         /\ \A p \in Places : Offset(p, job.size) >= job.size => old[p] = "zero"
         /\ vol = old
         /\ touched = {}
         /\ beyond = "theirs"
         /\ lock = "free"
         /\ pc = "format"
         /\ zeroed = 0
         /\ todo = << >>
         /\ result = "none"

\* Every return destroys the handle, and VolumeHandle's destructor unlocks a
\* volume that is still locked.
Return(r) ==
    /\ result' = r
    /\ pc' = "done"
    /\ lock' = "free"
    /\ todo' = << >>

\* format(): no such type, or no target (a raw one has to name its size).
FormatRefuse ==
    /\ pc = "format"
    /\ ~isFormatSupported(job.fs) \/ (~job.letter /\ ~job.told)
    /\ Return("error")
    /\ UNCHANGED <<job, old, vol, touched, beyond, zeroed>>

Dispatch ==
    /\ pc = "format"
    /\ isFormatSupported(job.fs) /\ (job.letter \/ job.told)
    /\ pc' = IF OwnWriter(job) THEN "prepare" ELSE "tool"
    /\ UNCHANGED <<job, old, vol, touched, beyond, lock, zeroed, todo, result>>

\* The size unknown and Windows not telling it, or the geometry not acceptable.
PrepareRefuse ==
    /\ pc = "prepare"
    /\ ~job.told \/ ~Acceptable(job)
    /\ Return("error")
    /\ UNCHANGED <<job, old, vol, touched, beyond, zeroed>>

\* lockAndDismount for a letter; a raw disk is opened without a lock.
Open ==
    /\ pc = "prepare"
    /\ Acceptable(job)
    /\ lock' = IF job.letter THEN "locked" ELSE "free"
    /\ pc' = IF job.quick THEN "write" ELSE "zero"
    /\ todo' = Writes(job)
    /\ UNCHANGED <<job, old, vol, touched, beyond, zeroed, result>>

OpenFails ==
    /\ pc = "prepare"
    /\ Acceptable(job)
    /\ Return("error")
    /\ UNCHANGED <<job, old, vol, touched, beyond, zeroed>>

\* The effect of writing bytes at..at+len-1 on what the detector will find.
Covers(w, p) == w.at <= Offset(p, job.size) /\ Offset(p, job.size) < w.at + w.len

Apply(w) ==
    /\ vol' = [p \in Places |->
                  IF Covers(w, p)
                  THEN IF \E s \in w.puts : s[1] = p
                       THEN (CHOOSE s \in w.puts : s[1] = p)[2] ELSE "zero"
                  ELSE vol[p]]
    /\ touched' = touched \cup {p \in Places : Covers(w, p)}
    /\ beyond' = IF w.at + w.len > job.size THEN "overwritten" ELSE beyond

\* Windows refuses a write past the end of a volume; a raw disk has more after it.
Possible(w) == job.letter => w.at + w.len <= job.size

ChunkBytes == IF job.letter THEN 4 * MB ELSE 8192 * job.sectorSize

\* Mutant: the whole buffer is written for the last, shorter chunk.
ZeroChunkUnclamped ==
    /\ pc = "zero"
    /\ zeroed < job.size
    /\ Apply(Wr("zeros", zeroed, ChunkBytes, {}))
    /\ zeroed' = zeroed + Min2(ChunkBytes, job.size - zeroed)
    /\ UNCHANGED <<job, old, lock, pc, todo, result>>

\* zeroVolume, zeroRaw: the whole partition, a chunk at a time; a raw chunk is
\* rounded up to sectors.
ZeroChunk ==
    LET wanted == Min2(ChunkBytes, job.size - zeroed)
        len == IF job.letter THEN wanted
               ELSE CeilDiv(wanted, job.sectorSize) * job.sectorSize
        w == Wr("zeros", zeroed, len, {})
    IN  /\ pc = "zero"
        /\ zeroed < job.size
        /\ Possible(w)
        /\ Apply(w)
        /\ zeroed' = zeroed + len
        /\ UNCHANGED <<job, old, lock, pc, todo, result>>

\* Mutant: the loop ends before a last chunk that is not a whole one.
ZeroDoneEarly ==
    /\ pc = "zero"
    /\ zeroed + ChunkBytes > job.size
    /\ pc' = "write"
    /\ UNCHANGED <<job, old, vol, touched, beyond, lock, zeroed, todo, result>>

ZeroDone ==
    /\ pc = "zero"
    /\ zeroed >= job.size
    /\ pc' = "write"
    /\ UNCHANGED <<job, old, vol, touched, beyond, lock, zeroed, todo, result>>

\* writeAt on a raw disk: an unaligned piece is patched into sectors read for
\* its length, though it may straddle one more: the patch overruns the buffer.
Overruns(w) ==
    LET off == w.at % job.sectorSize
    IN  /\ ~job.letter
        /\ w.what # "swap"
        /\ off # 0 \/ w.len % job.sectorSize # 0
        /\ off + w.len > CeilDiv(w.len, job.sectorSize) * job.sectorSize

WriteNext ==
    /\ pc = "write"
    /\ todo # << >>
    /\ ~Overruns(Head(todo))
    /\ Possible(Head(todo))
    /\ Apply(Head(todo))
    /\ todo' = Tail(todo)
    /\ UNCHANGED <<job, old, lock, pc, zeroed, result>>

\* Undefined behaviour: nothing is said of what follows.
WriteOverruns ==
    /\ pc = "write"
    /\ todo # << >>
    /\ Overruns(Head(todo))
    /\ Return("undefined")
    /\ UNCHANGED <<job, old, vol, touched, beyond, zeroed>>

WriteRefused ==
    /\ pc = "write"
    /\ todo # << >>
    /\ ~Possible(Head(todo))
    /\ Return("error")
    /\ UNCHANGED <<job, old, vol, touched, beyond, zeroed>>

\* flushBuffers (its result is ignored) and unlock.
Finish ==
    /\ pc = "write"
    /\ todo = << >>
    /\ Return("ok")
    /\ UNCHANGED <<job, old, vol, touched, beyond, zeroed>>

\* A write, or a read of the sectors to be patched, fails.
WriteFails ==
    /\ pc \in {"zero", "write"}
    /\ zeroed < job.size \/ todo # << >>
    /\ Return("error")
    /\ UNCHANGED <<job, old, vol, touched, beyond, zeroed>>

\* format.com, external: needs a letter, may not start, may fail.  FAT12 and
\* FAT16 are both asked for as "FAT" and Windows chooses.
ToolBoots(fs) == CASE fs = "NTFS"  -> {"ntfs"}
                   [] fs = "ExFAT" -> {"exfat"}
                   [] fs = "ReFS"  -> {"refs"}
                   [] fs = "FAT32" -> {"FAT32"}
                   [] fs \in {"FAT12", "FAT16"} -> {"FAT12", "FAT16"}

formatWithWindowsTool ==
    /\ pc = "tool"
    /\ job.letter
    /\ \E b \in ToolBoots(job.fs) :
          /\ vol' = [p \in Places |-> IF p = "boot" THEN b
                                      ELSE IF job.quick THEN vol[p] ELSE "zero"]
          /\ touched' = IF job.quick THEN {"boot"} ELSE Places
    /\ Return("ok")
    /\ UNCHANGED <<job, old, beyond, zeroed>>

ToolRefuse ==
    /\ pc = "tool"
    /\ ~job.letter
    /\ Return("error")
    /\ UNCHANGED <<job, old, vol, touched, beyond, zeroed>>

ToolFails ==
    /\ pc = "tool"
    /\ job.letter
    /\ Return("error")
    /\ UNCHANGED <<job, old, vol, touched, beyond, zeroed>>

FDone == pc = "done" /\ UNCHANGED fvars

FStep == \/ FormatRefuse \/ Dispatch \/ PrepareRefuse \/ Open
         \/ ZeroChunk \/ ZeroDone \/ WriteNext \/ WriteOverruns \/ WriteRefused \/ Finish
         \/ ToolRefuse \/ formatWithWindowsTool

\* What may fail of itself: a device, a lock, a process.
FFail == OpenFails \/ WriteFails \/ ToolFails

FNext == FStep \/ FFail \/ FDone

\* A call runs on until it returns, and format.com ends; failures are not owed.
FSpec == FInit /\ [][FNext]_fvars /\ WF_fvars(FStep)

-----------------------------------------------------------------------------
(* Properties. *)

FTypeOK ==
    /\ job \in Jobs /\ old \in OldVolumes
    /\ DOMAIN vol = Places
    /\ touched \subseteq Places
    /\ beyond \in {"theirs", "overwritten"}
    /\ lock \in {"free", "locked"}
    /\ pc \in {"format", "prepare", "tool", "zero", "write", "done"}
    /\ zeroed \in 0..job.size
    /\ result \in {"none", "ok", "error", "undefined"}

\* What the detector should say of a volume just formatted as asked: ext3
\* without a journal is ext2, and "FAT" is whichever Windows chose.
Expected(j) == CASE j.fs \in {"FAT12", "FAT16"}      -> {"FAT12", "FAT16"}
                 [] j.fs = "Ext3" /\ ~j.journal      -> {"Ext2"}
                 [] OTHER                            -> {j.fs}

\* The old contents in the places the format has not written to.
Residue == [p \in Places |-> IF p \in touched THEN "zero" ELSE old[p]]

\* After a successful format the detector names the new filesystem, whatever
\* the volume held: always after a full format (which zeroes first), and after
\* a quick one unless old magic is left in a place the writer does not touch
\* and its probe is asked first; then the answer is the old filesystem, never
\* a third one.  The exceptions are a swap UUID that spells a MINIX magic, and a
\* FAT32 on a partition too small for its tables, which is reported a success.
DetectsWhatWasFormatted ==
    (result = "ok" /\ ~(job.fs = "SWAP_LINUX" /\ job.luckless)
                   /\ ~(job.fs = "FAT32" /\ OwnWriter(job) /\ FatWraps(job))) =>
        \/ detect(vol, job.size) \in Expected(job)
        \/ job.quick /\ detect(vol, job.size) = detect(Residue, job.size)

\* Nothing is written behind the partition, on a raw disk where the next
\* partition begins there: except by ext when a block group has more metadata
\* than the partition has blocks from its start, which formatExt does not check
\* (the last group too short, or more inodes asked for than a group can hold),
\* and by a forced FAT32 when the partition ends before the tables do.
NeighbourUntouched ==
    beyond = "overwritten" =>
        /\ ~job.letter
        /\ \/ job.fs \in ExtTypes /\ ~MetadataInside(job)
           \/ job.fs = "FAT32" /\ FatWraps(job)

\* The volume is locked through every write to a letter and never after the
\* call, whichever of the many returns it takes.
LockDiscipline ==
    /\ pc \in {"zero", "write"} => (lock = "locked") = job.letter
    /\ pc = "done" => lock = "free"

Overlap(a, b) == a.at < b.at + b.len /\ b.at < a.at + a.len

\* The pieces of an ext filesystem do not lie on one another: superblock, group
\* descriptors and their copies, bitmaps, inode tables, the two directories
\* and the journal.  (Inodes lie in their table; a piece may be rewritten.)
\* The exception is a number of inodes from the caller that does not suit.
LayoutDisjoint ==
    (pc \in {"zero", "write"} /\ zeroed = 0 /\ job.fs \in ExtTypes
       /\ (job.inodesPerGroup # 0 => GroupsHold(job))) =>
        \A a, b \in 1..Len(todo) :
            Overlap(todo[a], todo[b]) =>
                \/ todo[a].what = todo[b].what
                \/ {todo[a].what, todo[b].what} = {"inode", "inodeTable"}

\* The ten rounds settle on a table with an entry for every cluster, and the
\* root cluster lies inside the volume, unless the volume ends before the tables.
FatCoversClusters ==
    (job.fs = "FAT32" /\ pc = "write" /\ ~FatWraps(job)) =>
        /\ FatSize(job) * 128 >= FatClusters(job) + 2
        /\ FatDataStart(job) + SectorsPerCluster(job) <= TotalSectors(job)

\* A patch of unaligned bytes overruns its buffer only where a sector is
\* larger than an ext block.
OverrunOnlyOnLargeSectors ==
    result = "undefined" => job.fs \in ExtTypes /\ job.sectorSize > ExtBlock(job)

\* The engine's writes: inside the partition, under the volume's lock, from
\* buffers as long as what is written, with the exceptions named above.
WritesInside == NeighbourUntouched /\ LockDiscipline /\ OverrunOnlyOnLargeSectors

\* What the engine computes before it writes holds together: ext metadata that
\* lie apart, a FAT as long as its volume needs.
LayoutSound == LayoutDisjoint /\ FatCoversClusters
=============================================================================
