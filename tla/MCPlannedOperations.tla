------------------------ MODULE MCPlannedOperations ------------------------
(* The TLC instance of PlannedOperations: GPT disks whose rows are shown   *)
(* with the numbers of their slots, and with others: behind an unused slot *)
(* and behind a reserved partition.                                        *)
EXTENDS PlannedOperations, MCPartitionOperations

Reserved == 7
GptGap == GptDisk(<<GptEntry(1, 5, 6), UnusedEntry, GptEntry(2, 8, 9)>>, {<<5, 2>>, <<8, 2>>})
GptReserved == GptDisk(<<GptEntry(Reserved, 5, 6), GptEntry(2, 8, 9)>>, {<<5, 2>>, <<8, 2>>})

PlanLayouts == {GptTwo, GptGap, GptReserved}

(* The theorems' hypothesis holds of them.                                 *)
ASSUME LayoutsAreClear == ClearLayouts
=============================================================================
