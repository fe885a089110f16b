---------------------------- MODULE MCDiskCloner ----------------------------
(* TLC instance of DiskCloner: disks of a few bytes, sectors of one or two.*)
EXTENDS DiskCloner

Config(mode, verify, zero, buffer, range, s, d) ==
  [valid |-> TRUE, mode |-> mode, verify |-> verify, freeIsZero |-> zero,
   srcOffset |-> range[1], dstOffset |-> range[2], length |-> range[3],
   allowTruncation |-> TRUE, bufferSize |-> buffer, letters |-> <<"D", "E">>,
   srcSector |-> s, dstSector |-> d]

SectorSizes == {<<1, 1>>, <<1, 2>>, <<2, 1>>}

(* Source offset, destination offset, length: the whole disk, a part of it *)
(* to another place, an odd number of sectors, a clone that is cut off,    *)
(* and offsets past the end.                                               *)
Ranges == {<<0, 0, 0>>, <<2, 4, 4>>, <<4, 0, 3>>, <<0, 4, 6>>, <<0, 10, 2>>, <<10, 0, 0>>}

RawConfigs == {Config("Raw", v, FALSE, 3, r, z[1], z[2]) :
                 v \in BOOLEAN, r \in Ranges, z \in SectorSizes}
SmartConfigs == {Config("Smart", v, f, b, <<0, 0, 8>>, z[1], z[2]) :
                 v \in BOOLEAN, f \in BOOLEAN, b \in {2, 5}, z \in SectorSizes}

(* The volume is the rest of the disk; and the buffer holds no cluster.    *)
MoreConfigs == {Config("Smart", TRUE, TRUE, b, <<2, 0, 0>>, 1, 1) : b \in {1, 3}}
AllConfigs == {c \in RawConfigs \cup SmartConfigs \cup MoreConfigs : c.length % c.srcSector = 0}
=============================================================================
