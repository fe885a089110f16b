----------------------------- MODULE RecoveryTab -----------------------------
(***************************************************************************)
(* The recovery tab (src/src/ui/tabs/RecoveryTab.cpp): the window's thread *)
(* and the threads it starts to scan a disk for lost partitions, to scan a *)
(* volume for deleted files, to recover what the scans found, and to       *)
(* repair what the machine boots from.  The threads store their results in *)
(* members of the tab without a lock, each button is disabled only for its *)
(* own thread (those that recover for none), and every button reads the    *)
(* selection anew.                                                         *)
(***************************************************************************)
EXTENDS PartitionRecovery, FileRecovery, BootRepair

CONSTANTS Volumes,       \* the partitions of the snapshot, <<disk, index>> to
                         \* [fs, meta, marks, offset, size, scanned, deleted]
          Disks,         \* contents of a disk that is scanned for partitions, a sequence
          BootDisk,      \* the disk whose boot structures are modelled
          MaxActs,       \* bound on what the user and others do
          RepairActs,    \* what a boot repair counts for in it
          MaxRefreshes   \* bound on the refreshes of the main window

\* The boot disk has a partition with a boot sector to repair.
ASSUME TabAssumption ==
  /\ MaxActs \in Nat /\ RepairActs \in Nat /\ MaxRefreshes \in Nat
  /\ \A vol \in DOMAIN Volumes : vol \in Nat \X Nat /\ Volumes[vol].size \in Nat
  /\ \E vol \in DOMAIN Volumes : vol[1] = BootDisk /\ Volumes[vol].fs \in {"NTFS", "FAT32"}

ASSUME DisksAssumption == Disks \in Seq([Lbas -> [type : STRING, sectors : Nat]])

VARIABLES sel,       \* the disk selected, and the partition
          pscan,     \* the thread that scans for partitions
          parts,     \* m_recoveredPartitions
          partRows,  \* rows of m_partResultsTable
          found,     \* ghost: the scan that parts come from and what it could read
          precover,  \* is a thread recovering partitions?
          fscan,     \* the thread that scans for files
          files,     \* m_recoveredFiles, with the volume they come from (ghost)
          fileRows,  \* rows of m_fileResultsTable
          frecover,  \* the thread that recovers files
          out,       \* the files in the output folder
          data,      \* the content of every cluster
          dead,      \* the program has crashed
          acts,      \* how much the user and others have done
          refreshes  \* how often the main window has refreshed

pvars == <<pscan, parts, partRows, found, precover>>
fvars == <<fscan, files, fileRows, frecover, out>>
tvars == <<sel, data, dead, acts, refreshes>>
rvars == <<bvars, pvars, fvars, tvars>>

Off == [on |-> FALSE]
NotScanned == [disk |-> 0, mode |-> "none", read |-> "nothing"]
NoFinds == [from |-> <<0, 0>>, list |-> <<>>]
First == CHOOSE vol \in DOMAIN Volumes : \A w \in DOMAIN Volumes : vol[1] < w[1] \/ (vol[1] = w[1] /\ vol[2] <= w[2])
\* The list of partitions shows those of all disks and keeps the index only.
FirstSelected == [disk |-> First[1], part |-> First[2]]
Selections == [disk : {vol[1] : vol \in DOMAIN Volumes}, part : {vol[2] : vol \in DOMAIN Volumes}]

RInit ==
  /\ BInit /\ sel \in Selections
  /\ pscan = Off /\ parts = <<>> /\ partRows = 0 /\ found = NotScanned /\ precover = FALSE
  /\ fscan = Off /\ files = NoFinds /\ fileRows = 0 /\ frecover = Off /\ out = {}
  /\ data = [vol \in DOMAIN Volumes |-> [c \in 1..Clusters |-> <<vol, 0>>]]
  /\ dead = FALSE /\ acts = 0 /\ refreshes = 0

Counts(n) == ~dead /\ acts + n <= MaxActs /\ acts' = acts + n /\ UNCHANGED refreshes
Act == Counts(1)

-----------------------------------------------------------------------------
(* The user, the main window and other programs                            *)

Select ==
  /\ Act
  /\ sel' \in Selections \ {sel}
  /\ UNCHANGED <<bvars, pvars, fvars, data, dead>>

\* refreshDisks(): the lists are filled anew and show their first items.  The
\* repair thread may be walking the snapshot that is replaced.
refreshDisks ==
  /\ ~dead /\ refreshes < MaxRefreshes /\ refreshes' = refreshes + 1
  /\ sel' = FirstSelected
  /\ dead' \in {FALSE, Due("bootsector")}
  /\ UNCHANGED <<bvars, pvars, fvars, data, acts>>

\* The partition that is looked up: the selected disk, with the index of the
\* selected partition, which may be shown as one of another disk.
Chosen == <<sel.disk, sel.part>>

\* A program writes to a cluster of the volume, which a deleted file may have.
OtherWrite ==
  /\ Act /\ Chosen \in DOMAIN Volumes
  /\ \E c \in 1..Clusters :
       /\ data[Chosen][c] = <<Chosen, 0>>
       /\ data' = [data EXCEPT ![Chosen][c] = <<Chosen, 1>>]
  /\ UNCHANGED <<bvars, pvars, fvars, sel, dead>>

-----------------------------------------------------------------------------
(* Partitions                                                              *)

onStartPartitionScan ==
  /\ Act /\ ~pscan.on
  /\ \E mode \in {"quick", "deep"} : pscan' = [on |-> TRUE, mode |-> mode, stored |-> FALSE]
  /\ partRows' = 0
  /\ UNCHANGED <<bvars, fvars, sel, data, dead, parts, found, precover>>

\* What the reads of a scan of a disk may come to: superblocks that are missed,
\* ones whose size is, and whether the drive layout is known; with no more
\* failing reads than may fail.
Held(disk) == {lba \in Lbas : disk[lba].type # "none"}
Failing(r) == Cardinality(r.missed) + Cardinality(r.unsized) + (IF r.layout THEN 0 ELSE 1)
Readings(disk) == {r \in [missed : SUBSET Held(disk), unsized : SUBSET Held(disk), layout : BOOLEAN] :
                     r.missed \cap r.unsized = {} /\ Failing(r) <= MaxFaults}

ScanResults == [mode \in {"quick", "deep"} |-> [i \in 1..Len(Disks) |-> [r \in Readings(Disks[i]) |->
                  scan(Seen(Disks[i], r.missed, r.unsized), mode, Layout(r.layout))]]]

\* The thread's result; one without finds is an error.
PartitionScanStores ==
  /\ ~dead /\ pscan.on /\ ~pscan.stored
  /\ pscan' = [pscan EXCEPT !.stored = TRUE]
  /\ \E i \in 1..Len(Disks) : \E r \in Readings(Disks[i]) :
       /\ found' = [disk |-> i, mode |-> pscan.mode, read |-> r]
       /\ parts' \in ScanResults[pscan.mode][i][r] \ {<<>>}
       /\ faults + Failing(r) <= MaxFaults /\ faults' = faults + Failing(r)
  /\ UNCHANGED <<job, repair, fvars, tvars, partRows, precover>>

\* The disk is not opened, or nothing is found: the finds of an earlier scan
\* stay.
PartitionScanFails ==
  /\ ~dead /\ pscan.on /\ ~pscan.stored
  /\ pscan' = [pscan EXCEPT !.stored = TRUE]
  /\ UNCHANGED <<bvars, fvars, tvars, parts, partRows, found, precover>>

PartitionScanFinished ==
  /\ ~dead /\ pscan.on /\ pscan.stored
  /\ pscan' = Off /\ partRows' = Len(parts)
  /\ UNCHANGED <<bvars, fvars, tvars, parts, found, precover>>

\* As for files, a bound: one such thread at a time.
onRecoverSelectedPartitions ==
  /\ Act /\ partRows > 0 /\ ~precover
  /\ precover' = TRUE
  /\ UNCHANGED <<bvars, fvars, sel, data, dead, pscan, parts, partRows, found>>

\* PartitionRecovery::recover() of a new object, which has not read the
\* geometry: sectors of 0 bytes, by which it divides.
recover(f) == f.sectorCount # 0 /\ dead' = TRUE

RecoverPartition ==
  /\ ~dead /\ precover
  /\ \E i \in 1..Len(parts) : recover(parts[i])
  /\ UNCHANGED <<bvars, pvars, fvars, sel, data, acts, refreshes>>

\* The disk cannot be opened, or no chosen find has a size that is known.
RecoverPartitionsEnd ==
  /\ ~dead /\ precover /\ precover' = FALSE
  /\ UNCHANGED <<bvars, fvars, tvars, pscan, parts, partRows, found>>

-----------------------------------------------------------------------------
(* Files                                                                   *)

\* What the thread that recovers reads of a volume.
View(vol) == [marks |-> Volumes[vol].marks, data |-> data[vol]]

\* The scan begins at the start of the disk unless the partition's offset is
\* at least its size.
AtStart(vol) == Volumes[vol].offset \div Volumes[vol].size > 0

onStartFileRecoveryScan ==
  /\ Act /\ ~fscan.on /\ Chosen \in DOMAIN Volumes
  /\ fscan' = [on |-> TRUE, vol |-> Chosen, stored |-> FALSE] /\ fileRows' = 0
  /\ UNCHANGED <<bvars, pvars, sel, data, dead, files, frecover, out>>

\* The clusters of the volume that are among the first size bytes of the disk,
\* or all.
Scanned(vol) ==
  IF AtStart(vol) THEN 1..Clusters
  ELSE {c \in 1..Clusters : Volumes[vol].offset + c <= Volumes[vol].size}

ScanResult == [vol \in DOMAIN Volumes |-> ScanBoth(Volumes[vol], AtStart(vol), Scanned(vol))]

\* The results are stored while another thread may be reading them.
FileScanStores ==
  /\ ~dead /\ fscan.on /\ ~fscan.stored
  /\ ScanResult[fscan.vol] # <<>>
  /\ files' = [from |-> fscan.vol, list |-> ScanResult[fscan.vol]]
  /\ fscan' = [fscan EXCEPT !.stored = TRUE]
  /\ dead' \in {FALSE, frecover.on}
  /\ UNCHANGED <<bvars, pvars, sel, data, acts, refreshes, fileRows, frecover, out>>

\* The disk is not opened, or nothing is found.
FileScanFails ==
  /\ ~dead /\ fscan.on /\ ~fscan.stored
  /\ fscan' = [fscan EXCEPT !.stored = TRUE]
  /\ UNCHANGED <<bvars, pvars, tvars, files, fileRows, frecover, out>>

FileScanFinished ==
  /\ ~dead /\ fscan.on /\ fscan.stored
  /\ fscan' = Off /\ fileRows' = Len(files.list)
  /\ UNCHANGED <<bvars, pvars, tvars, files, frecover, out>>

\* All rows of the table or one.  The button is never disabled; that a second
\* such thread is not started before the first ends is a bound of the model.
onRecoverSelectedFiles ==
  /\ Act /\ fileRows > 0 /\ ~frecover.on /\ Chosen \in DOMAIN Volumes
  /\ \E rows \in {[i \in 1..fileRows |-> i]} \cup {<<i>> : i \in 1..fileRows} :
       frecover' = [on |-> TRUE, vol |-> Chosen, rows |-> rows]
  /\ UNCHANGED <<bvars, pvars, sel, data, dead, fscan, files, fileRows, out>>

\* The volume that a find is read from: the chosen one, or, if carving found
\* it, wherever it was on the chosen disk.
ReadFrom(f) == IF f.source = "Raw" /\ files.from[1] = frecover.vol[1] THEN files.from ELSE frecover.vol

\* A file of the output folder, with what it was made of.
Written(f, whole) ==
  [name |-> f.name, source |-> f.source, whole |-> whole, from |-> files.from, read |-> ReadFrom(f),
   bytes |-> IF whole THEN recoverFile(View(ReadFrom(f)), f) ELSE <<>>, data |-> data[ReadFrom(f)]]

\* The next row: whatever is in m_recoveredFiles there by now.
RecoverNext ==
  /\ ~dead /\ frecover.on /\ frecover.rows # <<>>
  /\ frecover' = [frecover EXCEPT !.rows = Tail(@)]
  /\ LET row == Head(frecover.rows)
     IN IF row > Len(files.list) THEN out' = out /\ UNCHANGED faults
        ELSE LET f == files.list[row]
                 others == {o \in out : o.name # f.name}
             IN \/ out' = others \cup {Written(f, TRUE)} /\ UNCHANGED faults
                \/ out' \in {out, others \cup {Written(f, FALSE)}} /\ Fault
  /\ UNCHANGED <<job, repair, pvars, tvars, fscan, files, fileRows>>

RecoverFilesEnd ==
  /\ ~dead /\ frecover.on /\ frecover.rows = <<>>
  /\ frecover' = Off
  /\ UNCHANGED <<bvars, pvars, tvars, fscan, files, fileRows, out>>

-----------------------------------------------------------------------------
(* Boot repair                                                             *)

\* Any of the five boxes, always in the same order; one or all here.
onStartBootRepair ==
  /\ Counts(RepairActs) /\ ~job.on /\ sel.disk = BootDisk
  /\ \E todo \in {Repairs} \cup {<<Repairs[i]>> : i \in 1..Len(Repairs)} : Starts(todo, FALSE)
  /\ UNCHANGED <<repair, faults, pvars, fvars, sel, data, dead>>

callAutoRepair == Counts(RepairActs) /\ autoRepair /\ UNCHANGED <<pvars, fvars, sel, data, dead>>

\* The first NTFS or FAT32 partition of the disk in the snapshot is repaired.
Repairable == {vol \in DOMAIN Volumes : vol[1] = BootDisk /\ Volumes[vol].fs \in {"NTFS", "FAT32"}}

BeginBootSectors ==
  LET vol == CHOOSE v \in Repairable : \A w \in Repairable : v[2] <= w[2]
  IN BeginBootSector(Volumes[vol].size)

BootStep == ~dead /\ (RepairStep \/ BeginBootSectors) /\ UNCHANGED <<pvars, fvars, tvars>>

-----------------------------------------------------------------------------
PartScanStep == PartitionScanFails \/ PartitionScanStores \/ PartitionScanFinished
PartStep == RecoverPartition \/ RecoverPartitionsEnd
ScanStep == FileScanStores \/ FileScanFails \/ FileScanFinished
FileStep == RecoverNext \/ RecoverFilesEnd
ThreadStep == PartScanStep \/ PartStep \/ ScanStep \/ FileStep \/ BootStep

RNext ==
  \/ Select \/ refreshDisks \/ OtherWrite
  \/ onStartPartitionScan \/ onRecoverSelectedPartitions
  \/ onStartFileRecoveryScan \/ onRecoverSelectedFiles
  \/ onStartBootRepair \/ callAutoRepair
  \/ ThreadStep

\* While threads are there, one of them runs on.
RSpec == RInit /\ [][RNext]_rvars /\ WF_rvars(ThreadStep)

-----------------------------------------------------------------------------
(* Properties                                                              *)

\* Every variable holds what the code can put there.
RTypeOK ==
  /\ sel \in Selections
  /\ \A i \in 1..Len(parts) : parts[i].startLba \in Lbas /\ parts[i].confidence \in {10, 30, 50, 70, 85, 95}
  /\ fscan.on => fscan.vol \in DOMAIN Volumes
  /\ \A i \in 1..Len(files.list) : files.list[i].source \in {"NTFS", "FAT32", "Ext2", "Raw"}
  /\ frecover.on => frecover.vol \in DOMAIN Volumes /\ \A i \in 1..Len(frecover.rows) : frecover.rows[i] > 0
  /\ \A o \in out : o.from \in DOMAIN Volumes
  /\ job.on => \A i \in 1..Len(job.todo) : \E k \in 1..Len(Repairs) : job.todo[i] = Repairs[k]
  /\ faults \in 0..MaxFaults /\ acts \in 0..MaxActs /\ refreshes \in 0..MaxRefreshes

\* A scan for partitions (PartitionRecovery.cpp:26-110) reports each superblock
\* on a sector that it looks at and can read exactly once, whatever it cannot
\* read elsewhere, and nothing else.  If it knows the drive layout, it marks
\* just the finds that have a sector in common with a partition of it, as far
\* as their size is known; if not, it marks none.
SectorsOfFind(f) == f.startLba..(f.startLba + f.sectorCount - 1)
Looked(lba) == found.mode = "deep" \/ lba % AlignStep = 0 \/ lba % CHSStep = 0

ScanFindsOnce ==
  found # NotScanned =>
    LET disk == Disks[found.disk]
    IN /\ \A lba \in {l \in Held(disk) \ found.read.missed : Looked(l)} :
            \E i \in 1..Len(parts) : parts[i].startLba = lba /\ \A j \in 1..Len(parts) \ {i} : parts[j].startLba # lba
       /\ \A i \in 1..Len(parts) :
            /\ parts[i].startLba \in Held(disk) /\ disk[parts[i].startLba].type = parts[i].fsType
            /\ parts[i].startLba \notin found.read.unsized => parts[i].sectorCount = estimatePartitionSize(disk[parts[i].startLba])
            /\ parts[i].overlapsExisting
                 <=> /\ found.read.layout
                     /\ \E e \in Existing : SectorsOfFind(parts[i]) \cap (e.start..(e.start + e.count - 1)) # {}

\* A deleted file, as it was: its name as the scan can know it, its clusters in
\* order (0: a hole), its size, whether it was in its record, had named streams,
\* and was recorded in extents.  The files whose clusters the code can know of:
\* none with holes, none in its record or with named streams; for FAT those in
\* one run; for ext those in no more blocks or extents than an inode points to.
Breaks(d) == {i \in 1..(Len(d.clusters) - 1) : d.clusters[i + 1] # d.clusters[i] + 1}
Recoverable(vol, d) ==
  /\ 0 \notin {d.clusters[i] : i \in 1..Len(d.clusters)} /\ ~d.resident /\ ~d.streams
  /\ Volumes[vol].fs = "FAT32" => Breaks(d) = {}
  /\ Volumes[vol].fs = "Ext2" =>
       IF d.extents THEN Cardinality(Breaks(d)) < MaxExtents ELSE Len(d.clusters) <= MaxDirect
  /\ Cardinality({e \in Volumes[vol].deleted : e.name = d.name}) = 1

Original(vol, d) == [i \in 1..d.size |-> <<d.clusters[(i - 1) \div ClusterSize + 1], <<vol, 0>>, (i - 1) % ClusterSize>>]

\* A file that was recovered from the volume that was scanned, whose clusters
\* nobody has written to and whose reads and writes did not fail, has the bytes
\* of the file that was deleted (FileRecovery.cpp:374-456, 572-630, 886-949 and
\* 1123-1326), whatever else was scanned, selected or recovered meanwhile.
RecoveredIsOriginal ==
  \A o \in out : \A d \in Volumes[o.from].deleted :
    /\ o.name = d.name /\ o.source # "Raw" /\ o.whole /\ o.read = o.from
    /\ Recoverable(o.from, d)
    /\ \A i \in 1..Len(d.clusters) : o.data[d.clusters[i]] = <<o.from, 0>>
    => o.bytes = Original(o.from, d)
=============================================================================
