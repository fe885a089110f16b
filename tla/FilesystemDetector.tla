-------------------------- MODULE FilesystemDetector --------------------------
(***************************************************************************)
(* FilesystemDetector: which filesystem a volume holds, told from the      *)
(* magic numbers at fixed offsets.  A volume is a function from the places *)
(* the detector reads to what is found there: "zero" (nothing any probe    *)
(* knows), "unreadable" (safeRead returns an empty buffer), or the name of *)
(* the structure whose magic lies there.  Every probe answers with the     *)
(* type it recognises or with "no"; detect asks them in a fixed order and  *)
(* takes the first answer, so a probe shadows all the later ones.          *)
(***************************************************************************)
EXTENDS Naturals, Sequences, FiniteSets

\* The places probed, by the byte offset of their magic.  The footers
\* are counted from the end of a volume of `size` bytes.
Offset(place, size) ==
    CASE place = "boot"  -> 0        \* sector 0
      [] place = "sec1"  -> 512
      [] place = "super" -> 1024     \* ext, HFS+, MINIX, F2FS, NILFS2
      [] place = "page4"  -> 4086    \* last ten bytes of a swap page
      [] place = "page8"  -> 8182
      [] place = "hpfs"  -> 8192
      [] place = "spare" -> 8704
      [] place = "ufs1"  -> 9564
      [] place = "page16" -> 16374
      [] place = "label" -> 24576    \* somewhere in the ZFS name-value list
      [] place = "vrs0"  -> 32768    \* volume recognition sequence
      [] place = "vrs1"  -> 34816
      [] place = "vrs2"  -> 36864
      [] place = "page64" -> 65526
      [] place = "k64"   -> 65536
      [] place = "ufs2"  -> 66908
      [] place = "uber"  -> 131072
      [] place = "foot"  -> size - 512
      [] place = "foot12" -> size - 12

Places == {"boot", "sec1", "super", "page4", "page8", "hpfs", "spare", "ufs1",
           "page16", "label", "vrs0", "vrs1", "vrs2", "page64", "k64", "ufs2",
           "uber", "foot", "foot12"}

Blank == [p \in Places |-> "zero"]

\* A read that fails gives an empty buffer, and no probe accepts one.
safeRead(v, place, magic) == v[place] = magic

Answer(found, type) == IF found THEN type ELSE "no"

-----------------------------------------------------------------------------
(* The probes of sector 0. *)

detectNtfs(v)     == Answer(safeRead(v, "boot", "ntfs"), "NTFS")
detectExfat(v)    == Answer(safeRead(v, "boot", "exfat"), "ExFAT")
detectXfs(v)      == Answer(safeRead(v, "boot", "xfs"), "XFS")
detectApfs(v)     == Answer(safeRead(v, "boot", "apfs"), "APFS")
detectReFs(v)     == Answer(safeRead(v, "boot", "refs"), "ReFS")
detectSquashFs(v) == Answer(\/ safeRead(v, "boot", "hsqs")
                            \/ safeRead(v, "boot", "sqsh"), "SquashFS")
detectCramFs(v)   == Answer(safeRead(v, "boot", "cramfs"), "CramFS")
detectRomFs(v)    == Answer(safeRead(v, "boot", "rom1fs"), "RomFS")
detectQnx4(v)     == Answer(safeRead(v, "boot", "qnx4"), "QNX4")
detectJffs2(v)    == Answer(safeRead(v, "boot", "jffs2"), "JFFS2")
detectFatx(v)     == Answer(safeRead(v, "boot", "fatx"), "FATX")
detectStfs(v)     == Answer(safeRead(v, "boot", "stfs"), "STFS")
detectPs2mc(v)    == Answer(safeRead(v, "boot", "ps2mc"), "PS2MC")
detectVhdx(v)     == Answer(safeRead(v, "boot", "vhdxfile"), "VHDX")
detectVmdk(v)     == Answer(\/ safeRead(v, "boot", "KDMV")
                            \/ safeRead(v, "boot", "DescriptorFile"), "VMDK")
detectQcow2(v)    == Answer(safeRead(v, "boot", "QFI"), "QCOW2")
detectVdi(v)      == Answer(safeRead(v, "boot", "vdi"), "VDI")
detectRvz(v)      == Answer(\/ safeRead(v, "boot", "RVZ")
                            \/ safeRead(v, "boot", "WIA"), "RVZ")
detectWbfs(v)     == Answer(safeRead(v, "boot", "WBFS"), "WBFs")

\* FAT has no magic: a boot signature, a jump and plausible parameters.  What
\* kind it is follows from the number of clusters alone.
FatKind(totalClusters) ==
    IF totalClusters < 4085 THEN "FAT12"
    ELSE IF totalClusters < 65525 THEN "FAT16" ELSE "FAT32"

detectFat(v) ==
    Answer(v["boot"] \in {"FAT12", "FAT16", "FAT32"}, v["boot"])

-----------------------------------------------------------------------------
(* The probes of the superblock at 1024. *)

\* ext4 is told by extents, 64bit or flex_bg; ext3 by a journal; else ext2.
detectExt(v) ==
    CASE v["super"] \in {"extFlex", "extJournalFlex"} -> "Ext4"
      [] v["super"] = "extJournal"                    -> "Ext3"
      [] v["super"] = "extPlain"                      -> "Ext2"
      [] OTHER                                        -> "no"

detectHfsPlus(v) ==
    CASE v["super"] \in {"H+", "HX"} -> "HFSPlus"
      [] v["super"] = "BD"           -> "HFS"
      [] OTHER                       -> "no"

detectMinix(v)  == Answer(safeRead(v, "super", "minix"), "Minix")
detectF2fs(v)   == Answer(safeRead(v, "super", "f2fs"), "F2FS")
detectNilfs2(v) == Answer(safeRead(v, "super", "nilfs2"), "NILFS2")

-----------------------------------------------------------------------------
(* The probes further in. *)

detectBfs(v)    == Answer(safeRead(v, "sec1", "bfs"), "BFS_BeOS")
detectBtrfs(v)  == Answer(safeRead(v, "k64", "_BHRfS_M"), "Btrfs")
detectGdfx(v)   == Answer(safeRead(v, "k64", "XBOX*MEDIA"), "GDFX")
detectJfs(v)    == Answer(safeRead(v, "vrs0", "JFS1"), "JFS")
detectIso9660(v) == Answer(safeRead(v, "vrs0", "CD001"), "ISO9660")

detectReiserFs(v) == Answer(\/ safeRead(v, "k64", "ReIsErFs")
                            \/ safeRead(v, "hpfs", "ReIsErFs"), "ReiserFS")

\* A spare block that cannot be read does not speak against HPFS.
detectHpfs(v) ==
    Answer(/\ safeRead(v, "hpfs", "hpfs")
           /\ v["spare"] \in {"hpfsSpare", "unreadable"}, "HPFS")

detectUdf(v) ==
    Answer(/\ safeRead(v, "vrs0", "BEA01")
           /\ \/ safeRead(v, "vrs1", "NSR0")
              \/ safeRead(v, "vrs2", "NSR0"), "UDF")

detectUfs(v) == Answer(safeRead(v, "ufs1", "ufs") \/ safeRead(v, "ufs2", "ufs"), "UFS")

detectZfs(v) == Answer(\/ safeRead(v, "uber", "uberblock")
                       \/ safeRead(v, "label", "version"), "ZFS")

\* A page size larger than the volume is not tried.
SwapPages == {<<"page4", 4096>>, <<"page8", 8192>>, <<"page16", 16384>>, <<"page64", 65536>>}

detectLinuxSwap(v, volumeSize) ==
    Answer(\E p \in SwapPages : /\ ~(p[2] > volumeSize /\ volumeSize > 0)
                                /\ safeRead(v, p[1], "SWAPSPACE2"), "SWAP_LINUX")

detectVhd(v, volumeSize) ==
    Answer(\/ safeRead(v, "boot", "conectix")
           \/ volumeSize >= 512 /\ safeRead(v, "foot", "conectix"), "VHD")

detectNrg(v, volumeSize) ==
    Answer(volumeSize >= 12 /\ v["foot12"] \in {"NER5", "NERO"}, "NRG")

-----------------------------------------------------------------------------
(* FilesystemDetector::detect. *)

\* The answers in the order in which the probes are asked: strong magic first,
\* FAT last because it has none.
Answers(v, volumeSize) ==
    << detectNtfs(v), detectExfat(v), detectBtrfs(v), detectXfs(v), detectApfs(v),
       detectReFs(v), detectExt(v), detectHfsPlus(v), detectReiserFs(v), detectJfs(v),
       detectZfs(v), detectIso9660(v), detectUdf(v), detectSquashFs(v),
       detectCramFs(v), detectRomFs(v), detectHpfs(v), detectMinix(v), detectUfs(v),
       detectBfs(v), detectQnx4(v), detectLinuxSwap(v, volumeSize),
       detectF2fs(v), detectJffs2(v), detectNilfs2(v),
       detectFatx(v), detectStfs(v), detectGdfx(v), detectPs2mc(v),
       detectVhdx(v), detectVmdk(v), detectQcow2(v), detectVdi(v),
       detectVhd(v, volumeSize), detectRvz(v), detectNrg(v, volumeSize), detectWbfs(v),
       detectFat(v) >>

detect(v, volumeSize) ==
    LET answers == SelectSeq(Answers(v, volumeSize), LAMBDA a : a # "no")
    IN  IF answers = << >> THEN "Unknown" ELSE Head(answers)

\* The types any probe can answer with.
Types == {"NTFS", "ExFAT", "Btrfs", "XFS", "APFS", "ReFS", "Ext2", "Ext3", "Ext4",
          "HFSPlus", "HFS", "ReiserFS", "JFS", "ZFS", "ISO9660", "UDF", "SquashFS",
          "CramFS", "RomFS", "HPFS", "Minix", "UFS", "BFS_BeOS", "QNX4", "SWAP_LINUX",
          "F2FS", "JFFS2", "NILFS2", "FATX", "STFS", "GDFX", "PS2MC", "VHDX", "VMDK",
          "QCOW2", "VDI", "VHD", "RVZ", "NRG", "WBFs", "FAT12", "FAT16", "FAT32"}
=============================================================================
