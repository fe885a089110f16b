--------------------------- MODULE PartitionRecovery ---------------------------
(***************************************************************************)
(* The scan for lost partitions (src/src/core/recovery/PartitionRecovery.  *)
(* cpp) over a disk of a few sectors: which sectors are probed, what a     *)
(* probe reports, also where reads fail, and which finds are marked as     *)
(* overlapping a partition that the drive layout still has.                *)
(***************************************************************************)
EXTENDS Selection

CONSTANTS TotalSectors,   \* of the disk
          AlignStep,      \* sectors of DEFAULT_ALIGNMENT_BYTES (1 MiB)
          CHSStep,        \* LEGACY_CHS_STEP, 63 in the code
          Existing        \* the partitions of the drive layout, [start, count]

\* The drive layout leaves out entries without a length (RawDiskHandle.cpp:338).
ASSUME ScanAssumption ==
  /\ TotalSectors \in Nat /\ AlignStep \in Nat \ {0} /\ CHSStep \in Nat \ {0}
  /\ \A e \in Existing : e.start \in Nat /\ e.count \in Nat \ {0}

Lbas == 0..(TotalSectors - 1)

\* A superblock: what FilesystemDetector::detect() sees from a sector on, and
\* the size its fields give, in 64 bits.  estimatePartitionSize() knows the
\* sizes of the common file systems and answers 0 for the others.
Superblock(type, sectors) == [type |-> type, sectors |-> sectors]
NoSuperblock == Superblock("none", 0)

Sized == {"NTFS", "FAT32", "FAT16", "FAT12", "ExFAT", "Ext2", "Ext3", "Ext4", "Btrfs", "XFS"}

estimatePartitionSize(sb) == IF sb.type \in Sized THEN sb.sectors ELSE 0

\* FAT12 is sized but not "modern".
Confidence(lba, type) ==
  CASE type \in Sized \ {"FAT12"} /\ lba # 0 /\ lba % AlignStep = 0 -> 95
    [] type \in Sized \ {"FAT12"} /\ lba # 0 /\ lba % AlignStep # 0 /\ lba % CHSStep = 0 -> 85
    [] type \in Sized \ {"FAT12"} /\ (lba = 0 \/ (lba % AlignStep # 0 /\ lba % CHSStep # 0)) -> 70
    [] type \notin Sized \ {"FAT12"} -> IF lba = 0 THEN 30 ELSE 50

\* What the probes see of a disk: a detection whose reads fail is no find and
\* no error; a size whose reads fail is 0.
Seen(disk, missed, unsized) ==
  [lba \in Lbas |-> IF lba \in missed THEN NoSuperblock
                    ELSE IF lba \in unsized THEN Superblock(disk[lba].type, 0) ELSE disk[lba]]

\* seen[lba] is the superblock that starts there.
probeOffset(seen, lba) ==
  [startLba |-> lba, sectorCount |-> estimatePartitionSize(seen[lba]), fsType |-> seen[lba].type,
   confidence |-> Confidence(lba, seen[lba].type), overlapsExisting |-> FALSE]

\* The sectors from the first on, every step-th.
Stepped(first, step) == [i \in 1..((TotalSectors - first + step - 1) \div step) |-> first + (i - 1) * step]

\* Mutant: the second pass does not skip what the first has seen.
ProbedTwice(mode) ==
  IF mode = "deep" THEN Stepped(0, 1) ELSE Stepped(0, AlignStep) \o Stepped(CHSStep, CHSStep)

\* Every sector; or the aligned ones and then the cylinder boundaries that are
\* not aligned.
Probed(mode) ==
  IF mode = "deep" THEN Stepped(0, 1)
  ELSE LET cylinders == Stepped(CHSStep, CHSStep)
       IN Stepped(0, AlignStep)
          \o Kept(cylinders, {i \in 1..Len(cylinders) : cylinders[i] % AlignStep # 0})

Meets(f, e) == f.startLba < e.start + e.count /\ e.start < f.startLba + f.sectorCount

\* The first partition of the layout that a find overlaps decides; that the
\* layout is a set here makes it any of them.
markOverlaps(f, layout) ==
  IF f.sectorCount = 0 \/ \A e \in layout : ~Meets(f, e) THEN {f}
  ELSE {[f EXCEPT !.overlapsExisting = TRUE,
                  !.confidence = IF e.start = f.startLba /\ e.count = f.sectorCount THEN 10 ELSE @] :
          e \in {e \in layout : Meets(f, e)}}

\* The finds of a scan, before the overlaps are marked.
Finds(seen, mode) ==
  LET probed == Probed(mode)
      hits == Kept(probed, {i \in 1..Len(probed) : seen[probed[i]].type # "none"})
  IN [i \in 1..Len(hits) |-> probeOffset(seen, hits[i])]

\* What getDriveLayout() leaves to compare the finds with: its failing is no
\* error.
Layout(known) == IF known THEN Existing ELSE {}

\* scan(): all the results it may return; none is an error, as is a disk
\* without geometry.
scan(seen, mode, layout) ==
  LET found == Finds(seen, mode)
  IN {r \in [1..Len(found) -> UNION {markOverlaps(found[i], layout) : i \in 1..Len(found)}] :
        \A i \in 1..Len(found) : r[i] \in markOverlaps(found[i], layout)}
=============================================================================
