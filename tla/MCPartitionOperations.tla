----------------------- MODULE MCPartitionOperations -----------------------
(* TLC instances of PartitionOperations: a disk of 16 sectors with an MBR  *)
(* (with and without gaps between its slots, with and without an extended  *)
(* partition), a GPT or an APM.                                            *)
EXTENDS PartitionOperations

(* Partition <<start, length>>: the one at 5 holds an ext file system that *)
(* was not unmounted, the others have drive letters.                       *)
FirstSector(start) ==
  CASE start = 5 -> Super("ext", <<"C3", "A9">>, FALSE, TRUE)
    [] start = 9 -> Super("ntfs", <<"a", "wide e">>, FALSE, FALSE)
    [] OTHER     -> Super("ntfs", <<"b">>, TRUE, FALSE)

Fill(parts) == [s \in Lba |->
  CASE \E p \in parts : s = p[1] -> FirstSector(s)
    [] \E p \in parts : s > p[1] /\ s < p[1] + p[2] ->
         Data((CHOOSE p \in parts : s > p[1] /\ s < p[1] + p[2])[1])
    [] OTHER -> Blank]

SomeLabels == {<<"a">>, <<"b", "C3", "A9">>}

MbrDisk(slots, parts) == [Fill(parts) EXCEPT ![0] = MbrSector(slots)]
Basic(start, count) == Slot("basic", FALSE, start, count)

MbrGap   == MbrDisk(<<EmptySlot, Basic(5, 3), EmptySlot, Slot("basic", TRUE, 9, 2)>>,
                    {<<5, 3>>, <<9, 2>>})
MbrFull  == MbrDisk(<<Slot("basic", TRUE, 5, 2), Basic(7, 3), Basic(10, 1), Basic(11, 2)>>,
                    {<<5, 2>>, <<7, 3>>, <<10, 1>>, <<11, 2>>})

(* A primary, an extended partition at 8 with one logical at 9.            *)
MbrLogical == [MbrDisk(<<Basic(5, 2), Slot("extended", FALSE, 8, 6), EmptySlot, EmptySlot>>,
                       {<<5, 2>>, <<9, 2>>}) EXCEPT ![8] = EbrSector(FALSE, 1, 2, 0)]

(* The same after an unused slot: the last primary and the first logical   *)
(* have the same index.                                                    *)
MbrSame == [MbrDisk(<<EmptySlot, Slot("extended", FALSE, 8, 6), Basic(5, 2), EmptySlot>>,
                    {<<5, 2>>, <<9, 2>>}) EXCEPT ![8] = EbrSector(FALSE, 1, 2, 0)]

GptDisk(slots, parts) ==
  LET array == GptEntries([i \in 1..GptSlots |-> IF i <= Len(slots) THEN slots[i] ELSE UnusedEntry])
      pmbr == <<Slot("protective", FALSE, 1, DiskSectors - 1), EmptySlot, EmptySlot, EmptySlot>>
  IN [Fill(parts) EXCEPT ![0] = MbrSector(pmbr),
        ![1] = GptHeader(2, 3, DiskSectors - 3), ![2] = array,
        ![DiskSectors - 2] = array,
        ![DiskSectors - 1] = GptHeader(DiskSectors - 2, 3, DiskSectors - 3)]

GptTwo == GptDisk(<<GptEntry(1, 5, 6), GptEntry(2, 8, 9)>>, {<<5, 2>>, <<8, 2>>})

(* A partition of a single sector behind the primary table (where Windows  *)
(* puts its reserved partition), its neighbour, and an unused slot between.*)
GptTight == GptDisk(<<GptEntry(1, 4, 4), UnusedEntry, GptEntry(2, 5, 7)>>, {<<4, 1>>, <<5, 3>>})

(* The map describes itself; its third entry is damaged.                   *)
ApmPlain == [Fill({<<5, 3>>, <<9, 2>>}) EXCEPT ![0] = DriverDescriptor,
               ![1] = ApmEntry(3, 1, 3), ![2] = ApmEntry(3, 5, 3)]

AllLayouts == {MbrGap, MbrFull, MbrLogical, MbrSame, GptTight, ApmPlain}
=============================================================================
