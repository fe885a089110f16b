----------------------------- MODULE FileRecovery -----------------------------
(***************************************************************************)
(* Undeleting files (src/src/core/recovery/FileRecovery.cpp): what a scan  *)
(* of a volume reports, from NTFS file records, FAT directory entries, ext *)
(* inodes and file headers anywhere on the medium, and which clusters are  *)
(* written to the output file when a find is recovered.                    *)
(*                                                                         *)
(* A volume is a record: its kind of file system, its metadata, the        *)
(* version of every cluster's content, and, per cluster, the carving marks *)
(* in it.  A cluster holds ClusterSize bytes.                              *)
(***************************************************************************)
EXTENDS Integers, Sequences, SequencesExt, FiniteSetsExt

CONSTANTS ClusterSize,   \* bytes per cluster
          Clusters,      \* clusters of a volume are 1..Clusters
          MaxDirect,     \* direct block pointers followed in an inode, 12 in the code
          MaxExtents,    \* extents read in an inode, 4 in the code
          CarveChunk,    \* clusters per read of recoverCarvedFile()
          CarveMax       \* clusters a carved file has at most

ASSUME FileAssumption ==
  {ClusterSize, Clusters, MaxDirect, MaxExtents, CarveChunk, CarveMax} \subseteq Nat \ {0}

Ceil(n) == (n + ClusterSize - 1) \div ClusterSize
Smaller(a, b) == IF a < b THEN a ELSE b

\* A find: its name in the output folder, its extension ("" if none matters),
\* its size (0 if unknown) and its runs.
Find(name, ext, size, source, runs) ==
  [name |-> name, ext |-> ext, size |-> size, source |-> source, runs |-> runs]

-----------------------------------------------------------------------------
(* Scans                                                                   *)

\* An NTFS file record [inUse, directory, name, data]; its $DATA attributes, the
\* file's own and its named streams, are [size, resident, runs]; a run
\* [len, off, sparse] gives its start relative to the run before.

\* Mutant: a run offset is taken from the start of the volume.
RunStartAbsolute(runs, i) == runs[i].off

RunStart(runs, i) == MapThenSumSet(LAMBDA j : runs[j].off, {j \in 1..i : ~runs[j].sparse})

\* Sparse runs are skipped.  Resident data are taken to be the cluster that
\* the record is in, cluster 1 here.
AttributeRuns(a) ==
  IF a.resident THEN <<[at |-> 1, len |-> 1]>>
  ELSE LET kept == SelectSeq([i \in 1..Len(a.runs) |-> i], LAMBDA i : ~a.runs[i].sparse)
       IN [k \in 1..Len(kept) |-> [at |-> RunStart(a.runs, kept[k]), len |-> a.runs[kept[k]].len]]

\* The runs of every attribute one after the other; the last one has the size.
NtfsRuns(r) == FlattenSeq([i \in 1..Len(r.data) |-> AttributeRuns(r.data[i])])
NtfsSize(r) == IF r.data = <<>> THEN 0 ELSE Last(r.data).size

NtfsGone(r) == ~r.inUse /\ ~r.directory

\* A record without a size and without runs is not worth a find.
NtfsFind(r) ==
  IF NtfsSize(r) = 0 /\ NtfsRuns(r) = <<>> THEN <<>> ELSE <<Find(r.name, "", NtfsSize(r), "NTFS", NtfsRuns(r))>>

scanNtfs(v) ==
  LET gone == SelectSeq(v.meta, NtfsGone) IN FlattenSeq([i \in 1..Len(gone) |-> NtfsFind(gone[i])])

\* A FAT directory entry [mark, name, first, size]; mark is "deleted", "live",
\* "dot", "long", "label" or "end".  The first letter of a deleted name is lost.
FatFind(e) ==
  Find(<<"_", e.name[2]>>, "", e.size, "FAT32",
       IF e.first >= 2 /\ e.size > 0 THEN <<[at |-> e.first, len |-> Ceil(e.size)]>> ELSE <<>>)

\* scanDirEntries: up to the end mark, the deleted ones.
scanDirEntries(entries) ==
  LET ends == {i \in 1..Len(entries) : entries[i].mark = "end"}
      upto == IF ends = {} THEN Len(entries) ELSE Min(ends) - 1
      gone == SelectSeq(SubSeq(entries, 1, upto), LAMBDA e : e.mark = "deleted")
  IN [i \in 1..Len(gone) |-> FatFind(gone[i])]

\* The clusters of the root directory, along the FAT; an end mark ends one of
\* them and not the walk.
RootDirectory(v) == FlattenSeq([k \in 1..Len(v.root) |-> scanDirEntries(v.meta[v.root[k]])])

\* A cluster of the data area whose first entry is "." or deleted is taken for
\* a directory.
LooksLikeDirectory(entries) == entries # <<>> /\ entries[1].mark \in {"dot", "deleted"}

\* The root's own clusters may be seen twice.
scanFat(v) ==
  RootDirectory(v)
  \o FlattenSeq([d \in 1..Len(v.meta) |->
       IF LooksLikeDirectory(v.meta[d]) THEN scanDirEntries(v.meta[d]) ELSE <<>>])

\* An inode [inUse, regular, name, size, extents, blocks]: block pointers up
\* to the first zero, or extents [at, len].  That the entries may be those of an
\* index is not looked at.
ExtRuns(n) ==
  IF n.extents THEN SubSeq(n.blocks, 1, Smaller(Len(n.blocks), MaxExtents))
  ELSE LET zeros == {i \in 1..Len(n.blocks) : n.blocks[i] = 0}
           last == Smaller(MaxDirect, IF zeros = {} THEN Len(n.blocks) ELSE Min(zeros) - 1)
       IN [i \in 1..last |-> [at |-> n.blocks[i], len |-> 1]]

\* Free in the bitmap, a regular file, not empty; i_dtime is read and not used.
ExtGone(n) == ~n.inUse /\ n.regular /\ n.size # 0

\* An inode has no name: the find is named after its number.
ExtFind(n) == Find(n.name, "", n.size, "Ext2", ExtRuns(n))

scanExt(v) ==
  LET gone == SelectSeq(v.meta, ExtGone) IN [i \in 1..Len(gone) |-> ExtFind(gone[i])]

\* The types that carving knows of, by extension: some have a footer.
getDefaultSignatures == [jpg |-> [footer |-> TRUE, max |-> CarveMax],
                         zip |-> [footer |-> FALSE, max |-> CarveMax]]

\* A header at the start of a sector of the scanned part makes a find, as
\* large as its type may be at most.
scanCarving(v, part) ==
  LET types == DOMAIN getDefaultSignatures
      heads == SelectSeq([i \in 1..Clusters |-> i], LAMBDA c : c \in part /\ v.marks[c] \in types)
  IN [i \in 1..Len(heads) |->
       LET ext == v.marks[heads[i]]
       IN Find(<<"carved", i>>, ext, getDefaultSignatures[ext].max * ClusterSize, "Raw",
               <<[at |-> heads[i], len |-> 1]>>)]

\* scan(Both): the file system's finds, if its structures are where the scan
\* was told the volume begins, and then the carved ones.
FilesystemFinds(v, atStart) ==
  CASE ~atStart -> <<>>
    [] atStart /\ v.fs = "NTFS"  -> scanNtfs(v)
    [] atStart /\ v.fs = "FAT32" -> scanFat(v)
    [] atStart /\ v.fs = "Ext2"  -> scanExt(v)

ScanBoth(v, atStart, part) == FilesystemFinds(v, atStart) \o scanCarving(v, part)

-----------------------------------------------------------------------------
(* Recovery                                                                *)

\* A byte of a cluster; v.data says what the cluster holds.
Beyond == <<<<0, 0>>, 0>>
Byte(v, cluster, k) == <<cluster, IF cluster \in 1..Clusters THEN v.data[cluster] ELSE Beyond, k>>

Bytes(v, clusters, size) ==
  LET all == Len(clusters) * ClusterSize
      n   == IF size > 0 THEN Smaller(size, all) ELSE all
  IN [i \in 1..n |-> Byte(v, clusters[(i - 1) \div ClusterSize + 1], (i - 1) % ClusterSize)]

RunClusters(runs) == FlattenSeq([r \in 1..Len(runs) |-> [k \in 1..runs[r].len |-> runs[r].at + k - 1]])

\* The runs one after the other, up to the known size.  NTFS clusters count
\* from the start of the volume.
recoverNtfsFile(v, f) == Bytes(v, RunClusters(f.runs), f.size)

\* FAT clusters count from 2 at the first data sector; f has one run.
recoverFatFile(v, f) == Bytes(v, RunClusters(f.runs), f.size)

\* Blocks of the size in the superblock, from the start of the volume.
recoverExtFile(v, f) == Bytes(v, RunClusters(f.runs), f.size)

\* Chunks are written until one has the footer of the type in it, up to the
\* maximum or the end of the disk.  A footer is in one cluster ("foot"), or
\* begins in it and ends in the next ("split").
FooterIn(v, at, c) == \/ v.marks[c] = "foot"
                      \/ /\ v.marks[c] = "split" /\ (c - at + 1) % CarveChunk # 0

CarvedLast(v, at, c) == IF v.marks[c] = "split" THEN c + 1 ELSE c

recoverCarvedFile(v, f) ==
  LET at   == f.runs[1].at
      sig  == getDefaultSignatures[f.ext]
      end  == at + Smaller(Smaller(Ceil(f.size), sig.max), Clusters - at + 1) - 1
      hits == {c \in at..end : sig.footer /\ FooterIn(v, at, c)}
      last == IF hits = {} THEN end ELSE CarvedLast(v, at, Min(hits))
  IN Bytes(v, [k \in 1..(last - at + 1) |-> at + k - 1], 0)

recoverFile(v, f) ==
  CASE f.source = "NTFS"  -> recoverNtfsFile(v, f)
    [] f.source = "FAT32" -> recoverFatFile(v, f)
    [] f.source = "Ext2"  -> recoverExtFile(v, f)
    [] f.source = "Raw"   -> recoverCarvedFile(v, f)
=============================================================================
