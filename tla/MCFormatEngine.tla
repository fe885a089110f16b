---- MODULE MCFormatEngine ----
EXTENDS FormatEngine

\* Old contents, one structure each, at every place a probe looks.
OneOld == { <<"boot", "ntfs">>, <<"boot", "xfs">>, <<"boot", "FAT32">>, <<"boot", "apfs">>,
            <<"sec1", "bfs">>, <<"super", "extJournalFlex">>, <<"super", "H+">>, <<"super", "f2fs">>,
            <<"page4", "SWAPSPACE2">>, <<"page8", "SWAPSPACE2">>, <<"hpfs", "ReIsErFs">>,
            <<"label", "version">>, <<"vrs0", "CD001">>, <<"k64", "_BHRfS_M">>,
            <<"uber", "uberblock">>, <<"foot", "conectix">>, <<"foot12", "NERO">> }

MCOld == {Blank} \cup {[Blank EXCEPT ![o[1]] = o[2]] : o \in OneOld}
         \cup {[Blank EXCEPT !["vrs0"] = "BEA01", !["vrs2"] = "NSR0"],
               [Blank EXCEPT !["hpfs"] = "hpfs", !["spare"] = "unreadable"]}

Base == [fs |-> "NTFS", quick |-> TRUE, letter |-> TRUE, told |-> TRUE, size |-> 16 * MB,
         sectorSize |-> 512, blockSize |-> 0, inodeSize |-> 0, inodesPerGroup |-> 0,
         journal |-> TRUE, clusterSize |-> 0, forceLarge |-> FALSE, pageSize |-> 0, luckless |-> FALSE]

ExtJobs ==
    {[Base EXCEPT !.fs = f, !.quick = q, !.letter = l, !.size = s[1], !.blockSize = s[2],
                  !.sectorSize = s[3], !.journal = jr] :
        f \in {"Ext2", "Ext3", "Ext4"}, q \in BOOLEAN, l \in BOOLEAN, jr \in BOOLEAN,
        s \in {<<MB, 0, 512>>, <<8 * MB, 0, 512>>, <<8 * MB + 300 * KB, 0, 512>>,
               <<18 * MB, 1024, 512>>, <<MB, 0, 4096>>, <<6 * MB + 256 * KB, 4096, 4096>>,
               <<34 * MB, 2048, 512>>}}

FatJobs ==
    {[Base EXCEPT !.fs = "FAT32", !.forceLarge = TRUE, !.quick = q, !.letter = l,
                  !.size = s[1], !.clusterSize = s[2]] :
        q \in BOOLEAN, l \in BOOLEAN,
        s \in {<<33 * MB, 512>>, <<34 * MB + 512, 512>>, <<35 * MB, 0>>, <<67 * MB, 1024>>,
               <<20 * MB, 512>>, <<40 * MB, 131072>>,
               \* smaller than the reserved sectors and the tables, and just not
               <<16 * 512, 512>>, <<33 * 512, 4096>>, <<34 * 512, 512>>}}

\* Numbers of inodes from the caller: too few for the reserved ones, no multiple
\* of a block's, enough to fill the partition, more than a group can hold.
InodeJobs ==
    {[Base EXCEPT !.fs = "Ext3", !.letter = l, !.quick = q, !.size = s[1], !.inodesPerGroup = s[2],
                  !.blockSize = 1024] :
        l \in BOOLEAN, q \in BOOLEAN,
        s \in {<<MB, 8>>, <<MB, 50>>, <<MB, 2024>>, <<MB, 2036>>, <<18 * MB, 36864>>}}

ToolJobs ==
    {[Base EXCEPT !.fs = f, !.quick = q, !.letter = l, !.told = t] :
        f \in {"NTFS", "FAT16", "FAT12", "ExFAT", "ReFS", "FAT32", "XFS"},
        q \in BOOLEAN, l \in BOOLEAN, t \in BOOLEAN}

SwapJobs ==
    {[Base EXCEPT !.fs = "SWAP_LINUX", !.quick = q, !.letter = l, !.size = s, !.pageSize = p,
                  !.luckless = u] :
        q \in BOOLEAN, l \in BOOLEAN, u \in BOOLEAN, p \in {0, 8192}, s \in {4096, 256 * KB}}

OddJobs ==
    {[Base EXCEPT !.fs = "Ext4", !.size = 512 * KB], [Base EXCEPT !.fs = "Ext2", !.blockSize = 512],
     [Base EXCEPT !.fs = "Ext4", !.inodeSize = 512], [Base EXCEPT !.fs = "Ext4", !.inodeSize = 128],
     [Base EXCEPT !.fs = "Ext3", !.told = FALSE], [Base EXCEPT !.fs = "FAT32", !.size = 70 * MB]}

MCJobs == ExtJobs \cup InodeJobs \cup FatJobs \cup ToolJobs \cup SwapJobs \cup OddJobs
MCLimit == 64 * MB
====
