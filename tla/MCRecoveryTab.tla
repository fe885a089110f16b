---------------------------- MODULE MCRecoveryTab ----------------------------
(* Instance of RecoveryTab for TLC: four volumes on two disks, one per file  *)
(* system and a first partition larger than its offset; disks of 13 sectors *)
(* with two or three lost superblocks among them.                            *)
EXTENDS RecoveryTab

File(name, clusters, size) ==
  [name |-> name, clusters |-> clusters, size |-> size, resident |-> FALSE, streams |-> FALSE, extents |-> FALSE]

Run(len, off, sparse) == [len |-> len, off |-> off, sparse |-> sparse]
InRuns(size, runs) == [size |-> size, resident |-> FALSE, runs |-> runs]
InRecord(size) == [size |-> size, resident |-> TRUE, runs |-> <<>>]

\* A file in three pieces, one of them before the first; one with a hole; one
\* kept in its record; one with a named stream; a directory and a file in use.
NtfsRecord(name, inUse, directory, attributes) ==
  [name |-> name, inUse |-> inUse, directory |-> directory, data |-> attributes]

NtfsVolume ==
  [fs |-> "NTFS", offset |-> 7, size |-> 6, marks |-> [c \in 1..6 |-> IF c = 2 THEN "zip" ELSE "none"],
   meta |-> <<NtfsRecord(<<"n", "pieces">>, FALSE, FALSE,
                         <<InRuns(5, <<Run(1, 3, FALSE), Run(1, -1, FALSE), Run(1, 3, FALSE)>>)>>),
              NtfsRecord(<<"n", "hole">>, FALSE, FALSE,
                         <<InRuns(6, <<Run(1, 4, FALSE), Run(1, 0, TRUE), Run(1, 2, FALSE)>>)>>),
              NtfsRecord(<<"n", "small">>, FALSE, FALSE, <<InRecord(1)>>),
              NtfsRecord(<<"n", "streams">>, FALSE, FALSE, <<InRuns(3, <<Run(2, 5, FALSE)>>), InRecord(1)>>),
              NtfsRecord(<<"n", "folder">>, FALSE, TRUE, <<>>),
              NtfsRecord(<<"n", "live">>, TRUE, FALSE, <<InRuns(2, <<Run(1, 1, FALSE)>>)>>)>>,
   deleted |-> {File(<<"n", "pieces">>, <<3, 2, 5>>, 5), File(<<"n", "hole">>, <<4, 0, 6>>, 6),
                [File(<<"n", "small">>, <<>>, 0) EXCEPT !.resident = TRUE],
                [File(<<"n", "streams">>, <<5, 6>>, 3) EXCEPT !.streams = TRUE]}]

Entry(mark, name, first, size) == [mark |-> mark, name |-> name, first |-> first, size |-> size]

\* Two deleted files whose names differ in the first letter, one in pieces,
\* entries after the end mark.
FatVolume(offset, size) ==
  [fs |-> "FAT32", offset |-> offset, size |-> size,
   marks |-> [c \in 1..6 |-> CASE c = 1 -> "jpg" [] c = 2 -> "split" [] c = 4 -> "foot" [] OTHER -> "none"],
   root |-> <<1>>,
   meta |-> <<<<Entry("label", <<"d", "isk">>, 0, 0), Entry("deleted", <<"a", "x">>, 3, 3),
                Entry("deleted", <<"b", "y">>, 5, 2), Entry("end", <<"e", "nd">>, 0, 0),
                Entry("deleted", <<"o", "ld">>, 2, 2)>>,
              <<Entry("dot", <<".", "">>, 2, 0), Entry("deleted", <<"c", "y">>, 2, 2),
                Entry("deleted", <<"f", "rag">>, 5, 4), Entry("long", <<"l", "fn">>, 0, 0)>>>>,
   deleted |-> {File(<<"_", "x">>, <<3, 4>>, 3), File(<<"_", "y">>, <<5>>, 2),
                File(<<"_", "y">>, <<2>>, 2), File(<<"_", "frag">>, <<5, 2>>, 4)}]

Inode(name, inUse, regular, size, extents, blocks) ==
  [name |-> name, inUse |-> inUse, regular |-> regular, size |-> size, extents |-> extents, blocks |-> blocks]

\* Direct pointers, too many of them; extents, and too many of those, so that the
\* inode holds the entry of an index.
ExtVolume ==
  [fs |-> "Ext2", offset |-> 8, size |-> 6, marks |-> [c \in 1..6 |-> "none"],
   meta |-> <<Inode(<<"i", "two">>, FALSE, TRUE, 4, FALSE, <<4, 2, 0>>),
              Inode(<<"i", "many">>, FALSE, TRUE, 6, FALSE, <<1, 3, 5>>),
              Inode(<<"i", "extents">>, FALSE, TRUE, 3, TRUE, <<[at |-> 5, len |-> 1], [at |-> 3, len |-> 1]>>),
              Inode(<<"i", "index">>, FALSE, TRUE, 5, TRUE, <<[at |-> 6, len |-> 1]>>),
              Inode(<<"i", "live">>, TRUE, TRUE, 2, FALSE, <<6, 0>>)>>,
   deleted |-> {File(<<"i", "two">>, <<4, 2>>, 4), File(<<"i", "many">>, <<1, 3, 5>>, 6),
                [File(<<"i", "extents">>, <<5, 3>>, 3) EXCEPT !.extents = TRUE],
                [File(<<"i", "index">>, <<1, 4, 2>>, 5) EXCEPT !.extents = TRUE]}]

MCVolumes == (<<0, 1>> :> FatVolume(1, 6)) @@ (<<0, 2>> :> NtfsVolume)
             @@ (<<1, 1>> :> FatVolume(6, 6)) @@ (<<1, 2>> :> ExtVolume)

MCExisting == {[start |-> 4, count |-> 2], [start |-> 7, count |-> 1]}

\* Superblocks anywhere, of a type with a size or without, one of them just
\* where a partition is.
Holding(a, sb, b, sc) ==
  [l \in Lbas |-> IF l \in a THEN sb ELSE IF l \in b THEN sc ELSE NoSuperblock]

MCDisks == [i \in 1..5 |-> Holding({l \in Lbas : l % 5 = i - 1}, Superblock("NTFS", 3), {}, NoSuperblock)]
           \o <<Holding({0, 6, 8}, Superblock("HFSPlus", 2), {}, NoSuperblock),
                Holding({4, 6}, Superblock("Ext4", 2), {3}, Superblock("FAT32", 3))>>
=============================================================================
