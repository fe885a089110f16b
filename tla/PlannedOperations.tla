------------------------- MODULE PlannedOperations -------------------------
(***************************************************************************)
(* Plan, then apply: operations are chosen in DiskPartitionTab from the    *)
(* partitions the last snapshot shows, queued, and executed later, one by  *)
(* one, against the table found on the disk at that time.  Delete, Resize  *)
(* and SetFlags name their partition by its index, Format, SetLabel and    *)
(* CheckFilesystem by the extent it was shown with, and a new partition    *)
(* starts after the last one shown.                                        *)
(*                                                                         *)
(* The queue's own concurrency is in OperationQueue and DiskPartitionTab;  *)
(* here nothing is queued while a run is under way.                        *)
(*                                                                         *)
(* The rows shown carry the numbers of Windows (Win32_DiskPartition.Index):*)
(* it counts the partitions it lists, and neither lists reserved ones nor  *)
(* counts unused slots.  The operations take that number for the slot of a *)
(* GPT, or for a place among the used slots of an MBR.                     *)
(***************************************************************************)
EXTENDS PartitionOperations

CONSTANTS
  DEFAULT_ALIGNMENT,  \* in sectors
  Unlisted            \* GUIDs of the partitions that Windows does not list

ASSUME AlignmentAssumption == DEFAULT_ALIGNMENT \in Nat \ {0}

VARIABLES
  snapshot,  \* m_snapshot.partitions: the rows shown
  pending,   \* m_pendingOps: sequence of [op, row], row as it was shown
  phase,     \* of applyAll(): "idle", "running", or "failed" before it returns
  ran        \* ghost: sequence of [op, row, hit, ok], hit the entry it acted on

pvars == <<disk, table, last, prior, steps, snapshot, pending, phase, ran>>

(* What Windows shows of the partitions there are; slot and guid are       *)
(* ghosts, which nothing but the properties looks at.                      *)
Listed == {e \in Entries : e.guid \notin Unlisted}
Number(e) == Cardinality({f \in Listed : f.start < e.start})
ShownAs(e) ==
  [index |-> Number(e), start |-> e.start, count |-> e.count, slot |-> e.index, guid |-> e.guid]
ShownRows == {ShownAs(e) : e \in Listed}

PInit ==
  /\ OInit
  /\ snapshot = ShownRows
  /\ pending = <<>>
  /\ phase = "idle"
  /\ ran = <<>>

-----------------------------------------------------------------------------
(* Queueing.                                                               *)
alignSectorUp(n) == ((n + DEFAULT_ALIGNMENT - 1) \div DEFAULT_ALIGNMENT) * DEFAULT_ALIGNMENT
NewStart ==
  LET ends == {e.start + e.count : e \in snapshot} \cup {DEFAULT_ALIGNMENT}
  IN alignSectorUp(CHOOSE m \in ends : \A n \in ends : n <= m)

enqueue(op, row) ==
  /\ phase = "idle"
  /\ steps + Len(pending) < MaxSteps
  /\ pending' = Append(pending, [op |-> op, row |-> row])
  /\ UNCHANGED <<ovars, snapshot, phase, ran>>

onCreatePartition ==
  \E c \in Counts : enqueue(CreateOp(NewStart, c, FALSE, FALSE), NoEntry)
onDeletePartition ==
  \E e \in snapshot : enqueue(DeleteOp(e.index), e)
onResizePartition ==
  \E e \in snapshot, c \in Counts : enqueue(ResizeOp(e.index, e.start, c), e)
onFormatPartition ==
  \E e \in snapshot : enqueue(FormatOp(e), e)
(* Of rows without a drive letter.                                         *)
onSetLabel ==
  \E e \in snapshot, l \in Labels : enqueue(LabelOp(e, "ext", l), e)
onCheckFilesystem ==
  \E e \in snapshot : enqueue(CheckOp(e, "ext", FALSE), e)
onSetFlags ==
  \E e \in snapshot, a \in BOOLEAN : enqueue(FlagsOp(e.index, a), e)

onUndoOperation ==
  /\ phase = "idle"
  /\ pending # <<>>
  /\ pending' = SubSeq(pending, 1, Len(pending) - 1)
  /\ UNCHANGED <<ovars, snapshot, phase, ran>>

-----------------------------------------------------------------------------
(* Applying.  A failure ends the run and leaves the rest queued.           *)
onApplyOperations ==
  /\ phase = "idle"
  /\ pending # <<>>
  /\ phase' = "running"
  /\ UNCHANGED <<ovars, snapshot, pending, ran>>

(* The entry an index names in the table as it is now.                     *)
Hit(op) == IF HasIndex(table, op.index) THEN table.entries[FindIndex(table, op.index)]
           ELSE NoEntry

applyNext ==
  /\ phase = "running"
  /\ pending # <<>>
  /\ LET p == Head(pending) IN
     /\ execute(p.op)
     /\ ran' = Append(ran, [op |-> p.op, row |-> p.row, hit |-> Hit(p.op), ok |-> last'.ok])
  /\ pending' = Tail(pending)
  /\ phase' = IF last'.ok THEN "running" ELSE "failed"
  /\ UNCHANGED snapshot

(* allOperationsFinished refreshes what is shown; taking the snapshot may  *)
(* fail, and then the old one stays.                                       *)
allOperationsFinished ==
  /\ phase = "failed" \/ (phase = "running" /\ pending = <<>>)
  /\ phase' = "idle"
  /\ snapshot' \in {ShownRows, snapshot}
  /\ UNCHANGED <<ovars, pending, ran>>

PNext ==
  \/ onCreatePartition
  \/ onDeletePartition
  \/ onResizePartition
  \/ onFormatPartition
  \/ onSetLabel
  \/ onCheckFilesystem
  \/ onSetFlags
  \/ onUndoOperation
  \/ onApplyOperations
  \/ applyNext
  \/ allOperationsFinished

PSpec == PInit /\ [][PNext]_pvars

-----------------------------------------------------------------------------
ByIndex == {"Delete", "Resize", "SetFlags"}
SamePartition(e, f) == e.start = f.start /\ e.guid = f.guid

(***************************************************************************)
(* "preview all changes before applying them" (README.md): an operation    *)
(* acts on the partition that was shown when it was queued, or finds none, *)
(* as long as no two operations name the same row, and if it was shown     *)
(* with the number of its slot.  (It is not behind an unused slot or a     *)
(* partition that Windows does not list: it then acts on another one.)     *)
(* Then neither deletes before it in the queue, nor a slot taken again by  *)
(* a new partition, nor a run that failed and left its rest for the next   *)
(* one, nor what was done to others under a wrong number, lead it astray.  *)
(***************************************************************************)
Aligned(row) == row.index = row.slot
RowsDistinct ==
  \A i, j \in 1..Len(ran) :
    i # j /\ ran[i].op.index >= 0 => ran[i].op.index # ran[j].op.index
ActsOnRow(r) ==
  r.op.kind \in ByIndex /\ Aligned(r.row) /\ r.hit # NoEntry => SamePartition(r.hit, r.row)
ActsOnWhatWasShown == RowsDistinct => \A i \in 1..Len(ran) : ActsOnRow(ran[i])

(***************************************************************************)
(* A new partition overwrites no partition that is on the disk, however    *)
(* stale the start it was given.  A label or a check touches only the      *)
(* partition that its first sector lies in by then, and so does a format   *)
(* as long as nothing has failed: the one it was queued for, or, once that *)
(* one has been deleted, the one that has been grown over it.  (A run that *)
(* fails leaves a plan made for other rows: it can shrink the partition    *)
(* that a later format names, and create one in the space it gave up.)     *)
(***************************************************************************)
Unfailed == \A i \in 1..Len(ran) : ran[i].ok
PlannedWritesSafe ==
  [][\A e \in Entries :
       /\ last' # last
       /\ \/ last'.op.kind = "Create"
          \/ /\ last'.op.kind \in {"Format", "SetLabel", "Check"}
             /\ last'.op.kind = "Format" => Unfailed
             /\ last'.op.start \notin SectorsOf(e)
       => \A s \in SectorsOf(e) : disk'[s] = disk[s]]_pvars

-----------------------------------------------------------------------------
(* What these rest on, on GPT disks.                                       *)

(* A row as it can be shown.                                               *)
RowSet == [index : Nat, start : Nat \ {0}, count : Nat, slot : Nat, guid : Nat]
RowOK(r) ==
  /\ r \in RowSet /\ r.slot < GptSlots
  /\ disk[1].first <= r.start /\ r.count > 0 /\ r.start + r.count - 1 <= disk[1].last

(* Until an operation names its slot, that is as it was shown.             *)
Named(index) == \E i \in 1..Len(ran) : ran[i].op.index = index
Stays(r) ==
  ~Named(r.slot) =>
    disk[2].slots[r.slot + 1].start = r.start /\ disk[2].slots[r.slot + 1].guid = r.guid

PlannedCreate(p) ==
  /\ p.op.start \in Nat \ {0} /\ p.op.count \in Counts
  /\ p.op = CreateOp(p.op.start, p.op.count, FALSE, FALSE)
Asked(op, r) ==
  \/ op = DeleteOp(r.index)
  \/ \E c \in Counts : op = ResizeOp(r.index, r.start, c)
  \/ op = FormatOp(r)
  \/ \E l \in Labels : op = LabelOp(r, "ext", l)
  \/ op = CheckOp(r, "ext", FALSE)
  \/ \E a \in BOOLEAN : op = FlagsOp(r.index, a)
PlannedRow(p) == RowOK(p.row) /\ Stays(p.row) /\ Asked(p.op, p.row)

(* What ran first on an index acted on what was shown there.               *)
FirstOfIndex(i) == \A j \in 1..(i - 1) : ran[j].op.index # ran[i].op.index
RanOK(i) ==
  ran[i].op.kind \in ByIndex => ran[i].op.index >= 0 /\ (FirstOfIndex(i) => ActsOnRow(ran[i]))

PlansOK ==
  /\ GptOK(disk)
  /\ \A r \in snapshot : RowOK(r) /\ Stays(r)
  /\ \A k \in 1..Len(pending) : PlannedCreate(pending[k]) \/ PlannedRow(pending[k])
  /\ \A i \in 1..Len(ran) : RanOK(i)

(* A run that fails leaves its rest; until then all rows that are planned  *)
(* for are shown, no partition begins inside one, and none will.           *)
BeginsIn(start, r) == r.start < start /\ start < r.start + r.count
ForeseenBy(p) ==
  IF p.op.kind = "Create" THEN \A r \in snapshot : ~BeginsIn(p.op.start, r) ELSE p.row \in snapshot
Foreseen ==
  /\ \A r, q \in snapshot : ~BeginsIn(q.start, r)
  /\ Unfailed => /\ phase # "failed"
                 /\ \A r \in snapshot, e \in Entries : ~BeginsIn(e.start, r)
                 /\ \A k \in 1..Len(pending) : ForeseenBy(pending[k])

(* The sectors that a GPT is written to, and where a partition is clear of *)
(* them: behind them, or where there cannot be one.                        *)
TableSectors == 5
Clear(start, d) == start >= TableSectors \/ start < d[1].first
SlotsClear(d) == \A i \in UsedEntries(d) : d[2].slots[i].start >= TableSectors

(* The disks the theorems are about: GPT disks; and GPT disks all of whose *)
(* partitions are behind the sectors written for the table (67 in the      *)
(* code, where new partitions are put at multiples of 2048).               *)
GptLayouts == \A d \in Layouts : GptOK(d)
ClearLayouts == GptLayouts /\ \A d \in Layouts : SlotsClear(d) /\ Clear(DEFAULT_ALIGNMENT, d)
=============================================================================
