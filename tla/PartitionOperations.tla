------------------------ MODULE PartitionOperations ------------------------
(***************************************************************************)
(* The operations of PartitionOperations.cpp on one disk: execute() and    *)
(* undo() of Create, Delete, Resize, Format, SetLabel, SetFlags and        *)
(* CheckFilesystem, one at a time and with arbitrary parameters.  Those    *)
(* that change the table read and parse it again, change it in memory,     *)
(* serialize it and write it at LBA 0; SetLabel and CheckFilesystem change *)
(* the file system's superblock, which is in the partition's first sector  *)
(* here.                                                                   *)
(*                                                                         *)
(* Failures: the volume cannot be locked, the table cannot be read, a      *)
(* write is cut short after any sector (or flushing fails after the last), *)
(* a format fails part of the way.  A failed operation cannot be undone.   *)
(***************************************************************************)
EXTENDS PartitionTable

CONSTANTS
  Layouts,     \* the disks to start from
  Starts,      \* start LBAs that are asked for
  Counts,      \* sector counts that are asked for
  Labels,      \* volume labels that are asked for, as sequences of bytes
  MaxIndex,    \* bound: partition indices that are asked for
  MaxSteps     \* bound: operations executed in a behaviour

ASSUME MaxStepsAssumption == MaxSteps \in Nat
ASSUME ParametersAssumption == Starts \subseteq Nat \ {0} /\ Counts \subseteq Nat

VARIABLES
  disk,   \* sector contents
  table,  \* ghost: parse(disk)
  last,   \* the operation executed last, with what it saved for undo()
  prior,  \* ghost: the partitions before it
  steps   \* operations executed so far, for a fresh GUID and as a bound

ovars == <<disk, table, last, prior, steps>>

NoEntry == Entry(-1, "none", FALSE, FALSE, 0, 0, 0)

(* The first sector of a file system: which one ("ext", or "ntfs" for      *)
(* those Windows mounts under a drive letter), its label, and whether it   *)
(* is marked clean and free of recorded errors.                            *)
Super(fs, label, clean, errors) ==
  [k |-> "super", fs |-> fs, label |-> label, clean |-> clean, errors |-> errors]
NoLabel == <<"unsaved">>

(* An operation, its outcome, and what undo() will use: Create remembers   *)
(* an index, SetLabel a label, the others the entry they found.            *)
Op(kind, index, start, count, logical, active) ==
  [kind |-> kind, index |-> index, start |-> start, count |-> count,
   logical |-> logical, active |-> active, fs |-> "ntfs", label |-> NoLabel, repair |-> FALSE]
Done(op, ok, created, saved) ==
  [op |-> op, ok |-> ok, created |-> created, saved |-> saved, old |-> NoLabel]
Nothing == Done(Op("none", -1, 0, 0, FALSE, FALSE), FALSE, -1, NoEntry)

Params(op, guid) ==
  [start |-> op.start, count |-> op.count, type |-> "basic", active |-> op.active,
   logical |-> op.logical, guid |-> guid]
ParamsOf(e, guid) ==
  [start |-> e.start, count |-> e.count, type |-> e.type, active |-> e.active,
   logical |-> e.logical, guid |-> guid]

-----------------------------------------------------------------------------
(* Writing.  WriteAt(d, lba, secs, n): the first n of secs reach the disk. *)
WriteAt(d, lba, secs, n) ==
  [s \in Lba |-> IF s >= lba /\ s < lba + n THEN secs[s - lba + 1] ELSE d[s]]

(* writePartitionTable(): everything that was serialized, from LBA 0 on.   *)
Written(d, t) == WriteAt(d, 0, serialize(t), Len(serialize(t)))
CutShort(d, t) == {WriteAt(d, 0, serialize(t), n) : n \in 0..Len(serialize(t))}

(* Mutant: too many sectors.                                               *)
WipeSectorsTooMany == 3

(* Zeroing the first 4K of the partition, however long it is, best effort. *)
FourK == 2   \* in sectors
WipeSectors == FourK

Wiped(d, e) == {WriteAt(d, e.start, [i \in 1..WipeSectors |-> Blank], n) : n \in 0..WipeSectors}
WipeFits(e) == e.start + WipeSectors <= DiskSectors

(* Formatting [start, start + count): some or all of it is rewritten.      *)
Format(d, op, owner, n) ==
  [s \in Lba |-> CASE s = op.start /\ n > 0 -> Super(op.fs, <<>>, TRUE, FALSE)
                   [] s > op.start /\ s < op.start + n -> Data(owner)
                   [] OTHER -> d[s]]

-----------------------------------------------------------------------------
(* execute(): the outcomes [disk, done] an operation can have on disk d.   *)
Outcome(d, done) == [disk |-> d, done |-> done]

Failed(op) == Done(op, FALSE, -1, NoEntry)

(* The table is written in full and the rest succeeds, or is cut short.    *)
WriteOutcomes(d, t, op, done) ==
  IF ~Serializable(t) THEN {Outcome(d, Failed(op))}
  ELSE {Outcome(Written(d, t), done)} \cup {Outcome(c, Failed(op)) : c \in CutShort(d, t)}

(* Mutant: the position in the vector instead of the entry's own index.    *)
CreatedIndexPosition(t, op) == Len(t.entries) - 1

(* m_createdIndex: first entry of the in-memory table with this extent.    *)
CreatedIndex(t, op) ==
  LET same == {i \in 1..Len(t.entries) :
                 t.entries[i].start = op.start /\ t.entries[i].count = op.count}
  IN t.entries[CHOOSE i \in same : \A j \in same : i <= j].index

(* Create formats the new partition too when formatAfter is set, as the    *)
(* only caller does.                                                       *)
CreateOutcomes(d, op, guid) ==
  LET t == addPartition(parse(d), Params(op, guid)) IN
  IF t = NoTable THEN {Outcome(d, Failed(op))}
  ELSE {Outcome(Format(Written(d, t), op, guid, op.count),
                Done(op, TRUE, CreatedIndex(t, op), NoEntry))}
       \cup {Outcome(Format(Written(d, t), op, guid, n), Failed(op)) :
               n \in 0..op.count}
       \cup {Outcome(c, Failed(op)) : c \in CutShort(d, t)}

DeleteOutcomes(d, op) ==
  LET t == parse(d) IN
  IF ~HasIndex(t, op.index) THEN {Outcome(d, Failed(op))}
  ELSE LET e == t.entries[FindIndex(t, op.index)]
           wiped == IF WipeFits(e) THEN Wiped(d, e) ELSE {d}
       IN UNION {WriteOutcomes(w, deletePartition(t, op.index), op, Done(op, TRUE, -1, e)) :
                   w \in wiped}

ResizeOutcomes(d, op) ==
  LET t == parse(d)
      new == resizePartition(t, op.index, op.start, op.count)
  IN IF new = NoTable THEN {Outcome(d, Failed(op))}
     ELSE WriteOutcomes(d, new, op, Done(op, TRUE, -1, t.entries[FindIndex(t, op.index)]))

(* The target of a format is an extent, captured when it was queued.       *)
FormatOutcomes(d, op, guid) ==
  {Outcome(Format(d, op, guid, n), Failed(op)) : n \in 0..op.count}
  \cup {Outcome(Format(d, op, guid, op.count), Done(op, TRUE, -1, NoEntry))}

(* Only an MBR has an active flag; a GPT is rewritten as it was.           *)
SetFlagsOutcomes(d, op) ==
  LET t == parse(d)
      new == IF t.kind = "MBR" THEN setActivePartition(t, IF op.active THEN op.index ELSE -1) ELSE t
  IN IF ~HasIndex(t, op.index) \/ new = NoTable THEN {Outcome(d, Failed(op))}
     ELSE WriteOutcomes(d, new, op, Done(op, TRUE, -1, t.entries[FindIndex(t, op.index)]))

(* SetLabel and CheckFilesystem act by drive letter, or, on an ext file    *)
(* system without one, on the superblock at the offset the partition was   *)
(* shown at, if its magic number is there.                                 *)
IsSuper(d, lba) == lba \in Lba /\ d[lba].k = "super"
HasFs(d, op) == IsSuper(d, op.start) /\ d[op.start].fs = op.fs

ASCII == {"a", "b"}
ExtLabelLength == 2   \* bytes; 16 in the code

(* SetVolumeLabelW() gets every byte of the label widened to a character   *)
(* of its own; a superblock has room for so many bytes.                    *)
Widened(byte) == IF byte \in ASCII THEN byte ELSE "garbled"
StoredLabel(op) ==
  IF op.fs = "ntfs" THEN [i \in 1..Len(op.label) |-> Widened(op.label[i])]
  ELSE SubSeq(op.label, 1, IF Len(op.label) < ExtLabelLength THEN Len(op.label) ELSE ExtLabelLength)

(* m_oldLabel: only the ASCII characters of a Windows label, and nothing   *)
(* if it cannot be asked for; all of an ext label.                         *)
SavedLabels(d, op) ==
  IF op.fs = "ntfs" THEN {SelectSeq(d[op.start].label, LAMBDA c : c \in ASCII), NoLabel}
  ELSE {d[op.start].label}

SetLabelOutcomes(d, op) ==
  IF ~HasFs(d, op) THEN {Outcome(d, Failed(op))}
  ELSE {Outcome([d EXCEPT ![op.start].label = StoredLabel(op)],
                [Done(op, TRUE, -1, NoEntry) EXCEPT !.old = old]) : old \in SavedLabels(d, op)}

(* chkdsk: may repair, if told to, and may end with an error.              *)
Chkdsked(d, op) == IF op.repair THEN {d, [d EXCEPT ![op.start].clean = TRUE]} ELSE {d}
ChkdskOutcomes(d, op) ==
  {Outcome(c, Failed(op)) : c \in Chkdsked(d, op)}
  \cup {Outcome(c, Done(op, TRUE, -1, NoEntry)) : c \in Chkdsked(d, op)}

(* The superblock's state is looked at and, to repair it, marked clean     *)
(* without more; not being able to write that is not an error.             *)
SuperblockOutcomes(d, op) ==
  {Outcome(c, Done(op, TRUE, -1, NoEntry)) :
     c \in {d} \cup (IF op.repair /\ ~d[op.start].clean
                    THEN {[d EXCEPT ![op.start] = Super(@.fs, @.label, TRUE, FALSE)]} ELSE {})}

CheckOutcomes(d, op) ==
  CASE ~HasFs(d, op) -> {Outcome(d, Failed(op))}
    [] HasFs(d, op) /\ op.fs = "ntfs" -> ChkdskOutcomes(d, op)
    [] HasFs(d, op) /\ op.fs = "ext"  -> SuperblockOutcomes(d, op)

Outcomes(d, op, guid) ==
  CASE op.kind = "Create" -> CreateOutcomes(d, op, guid)
    [] op.kind = "Delete" -> DeleteOutcomes(d, op)
    [] op.kind = "Resize" -> ResizeOutcomes(d, op)
    [] op.kind = "Format" -> FormatOutcomes(d, op, guid)
    [] op.kind = "SetLabel" -> SetLabelOutcomes(d, op)
    [] op.kind = "SetFlags" -> SetFlagsOutcomes(d, op)
    [] op.kind = "Check"    -> CheckOutcomes(d, op)

(* lockAndDismountVolume(), opening the disk or reading it may fail first. *)
EarlyFailure(d, op) == {Outcome(d, Failed(op))}

-----------------------------------------------------------------------------
(* undo() of the operation executed last, if it completed.                 *)
UndoCreate(t, done) == deletePartition(t, done.created)
UndoDelete(t, done, guid) == addPartition(t, ParamsOf(done.saved, guid))
UndoResize(t, done) == resizePartition(t, done.op.index, done.saved.start, done.saved.count)
UndoSetFlags(t, done) ==
  IF ~HasIndex(t, done.op.index) THEN NoTable
  ELSE IF t.kind # "MBR" THEN t
  ELSE setActivePartition(t, IF done.saved.active THEN done.op.index ELSE -1)

UndoTable(t, done, guid) ==
  CASE done.op.kind = "Create"   -> UndoCreate(t, done)
    [] done.op.kind = "Delete"   -> UndoDelete(t, done, guid)
    [] done.op.kind = "Resize"   -> UndoResize(t, done)
    [] done.op.kind = "SetFlags" -> UndoSetFlags(t, done)

UndoLabelOp(done) == [done.op EXCEPT !.label = done.old]

canUndo(done) == done.ok /\ (done.created >= 0 \/ done.saved # NoEntry \/ done.old # NoLabel)

-----------------------------------------------------------------------------
Entries == {table.entries[i] : i \in 1..Len(table.entries)}
LabelAt(lba) == IF IsSuper(disk, lba) THEN disk[lba].label ELSE NoLabel
Indexed == {[index |-> e.index, start |-> e.start, count |-> e.count, label |-> LabelAt(e.start)] :
              e \in Entries}

ToDisk(d) == disk' = d /\ table' = parse(d)

OInit ==
  /\ disk \in Layouts
  /\ table = parse(disk)
  /\ last = Nothing
  /\ prior = Indexed
  /\ steps = 0

FreshGuid == 100 + steps

execute(op) ==
  /\ steps < MaxSteps
  /\ \E o \in Outcomes(disk, op, FreshGuid) \cup EarlyFailure(disk, op) :
       ToDisk(o.disk) /\ last' = o.done
  /\ prior' = Indexed
  /\ steps' = steps + 1

Undone == [Nothing EXCEPT !.op = [last.op EXCEPT !.kind = "undo"]]

(* SetLabel is executed once more, with the old label.                     *)
undoSetLabel ==
  /\ canUndo(last)
  /\ last.op.kind = "SetLabel"
  /\ steps < MaxSteps
  /\ \E o \in SetLabelOutcomes(disk, UndoLabelOp(last)) \cup EarlyFailure(disk, last.op) :
       ToDisk(o.disk) /\ last' = IF o.done.ok THEN Undone ELSE last
  /\ steps' = steps + 1
  /\ UNCHANGED prior

undo ==
  /\ canUndo(last)
  /\ last.op.kind # "SetLabel"
  /\ steps < MaxSteps
  /\ LET new == UndoTable(table, last, FreshGuid) IN
     \/ /\ new # NoTable
        /\ ToDisk(Written(disk, new))
        /\ last' = Undone
     \/ /\ new # NoTable
        /\ \E d \in CutShort(disk, new) : ToDisk(d)
        /\ last' = last
     \/ /\ new = NoTable
        /\ UNCHANGED <<disk, table, last>>
  /\ steps' = steps + 1
  /\ UNCHANGED prior

CreateOp(start, count, logical, active) == Op("Create", -1, start, count, logical, active)
DeleteOp(index) == Op("Delete", index, 0, 0, FALSE, FALSE)
ResizeOp(index, start, count) == Op("Resize", index, start, count, FALSE, FALSE)
FlagsOp(index, active) == Op("SetFlags", index, 0, 0, FALSE, active)

Creates == {CreateOp(s, c, l, a) : s \in Starts, c \in Counts, l \in BOOLEAN, a \in BOOLEAN}
Deletes == {DeleteOp(i) : i \in 0..MaxIndex}
Resizes == {ResizeOp(i, s, c) : i \in 0..MaxIndex, s \in Starts, c \in Counts}
Flags   == {FlagsOp(i, a) : i \in 0..MaxIndex, a \in BOOLEAN}

(* Queued for a partition that is there.                                   *)
FormatOp(e) == [Op("Format", e.index, e.start, e.count, FALSE, FALSE) EXCEPT !.fs = "ext"]
LabelOp(e, fs, label) ==
  [Op("SetLabel", e.index, e.start, e.count, FALSE, FALSE) EXCEPT !.fs = fs, !.label = label]
CheckOp(e, fs, repair) ==
  [Op("Check", e.index, e.start, e.count, FALSE, FALSE) EXCEPT !.fs = fs, !.repair = repair]

Formats   == {FormatOp(e) : e \in Entries}
Mounted   == {e \in Entries : IsSuper(disk, e.start)}
SetLabels == {LabelOp(e, disk[e.start].fs, l) : e \in Mounted, l \in Labels}
Checks    == {CheckOp(e, disk[e.start].fs, r) : e \in Mounted, r \in BOOLEAN}

ONext ==
  \/ \E op \in Creates : execute(op)
  \/ \E op \in Deletes : execute(op)
  \/ \E op \in Resizes : execute(op)
  \/ \E op \in Flags   : execute(op)
  \/ \E op \in Formats : execute(op)
  \/ \E op \in SetLabels : execute(op)
  \/ \E op \in Checks : execute(op)
  \/ undoSetLabel
  \/ undo

OSpec == OInit /\ [][ONext]_ovars

-----------------------------------------------------------------------------
(* Properties.                                                             *)

ExtentOf(e) == [start |-> e.start, count |-> e.count]
Overlap(e, f) == e.start < f.start + f.count /\ f.start < e.start + e.count
SectorsOf(e) == {s \in Lba : s >= e.start /\ s < e.start + e.count}

(* Types, and that no write, not even one cut short, leaves the disk       *)
(* without a table.  (An APM lists itself as a partition; deleting that is *)
(* refused only after the wipe.)                                           *)
OpKinds == {"none", "Create", "Delete", "Resize", "Format", "SetLabel", "SetFlags", "Check", "undo"}
OTypeOK ==
  /\ DOMAIN disk = Lba
  /\ table = parse(disk)
  /\ Serializable(table) \/ disk[0] = DriverDescriptor
  /\ steps \in 0..MaxSteps
  /\ last.op.kind \in OpKinds

(***************************************************************************)
(* Whatever is executed, undone or cut short, the primary partitions are   *)
(* what PartitionMap promises: every step adds, removes or changes one     *)
(* extent, or none, and the extents stay disjoint and inside the usable    *)
(* sectors.  (Logical partitions lie inside the extended one; an APM       *)
(* promises nothing.)                                                      *)
(***************************************************************************)
PrimaryExtents(t) == {ExtentOf(t.entries[i]) : i \in PrimaryAt(t)}
Map == INSTANCE PartitionMap WITH
         extents <- IF Serializable(table) THEN PrimaryExtents(table) ELSE {},
         usable <- IF Serializable(table) THEN [first |-> table.first, last |-> table.last]
                   ELSE [first |-> 0, last |-> 0]
MapSpec == Map!Spec

(***************************************************************************)
(* A write of the table goes to the table, a wipe, a format, a label or a  *)
(* repair to its partition: an operation leaves every sector of every      *)
(* partition alone, except of the one it is about (and of what that one    *)
(* contains or lies in).  Two things it does overwrite: what lies directly *)
(* behind the table, where the EBRs and the backup of the GPT are written, *)
(* and what follows a partition of less than 4K that is deleted.           *)
(***************************************************************************)
About(op, e) ==
  /\ \/ op.kind \in {"Delete", "Format", "SetLabel", "Check"}
     \/ op.kind = "undo" /\ op.label # NoLabel
  /\ \E x \in Entries : x.index = op.index /\ Overlap(x, e)
WritesTable(op) == op.kind \in {"Create", "Delete", "Resize", "SetFlags", "undo"}
BehindTable(op, s) ==
  /\ WritesTable(op)
  /\ s \in IF table.kind = "GPT" THEN 3..4
            ELSE 1..(Cardinality({e \in Entries : e.logical}) + 1)
BehindWiped(op, s) ==
  /\ op.kind = "Delete"
  /\ \E x \in Entries : /\ x.index = op.index /\ x.count < FourK
                        /\ s >= x.start + x.count /\ s < x.start + FourK
OthersUntouched ==
  [][\A s \in Lba : disk'[s] # disk[s] =>
       \A e \in Entries : s \in SectorsOf(e) =>
         About(last'.op, e) \/ BehindTable(last'.op, s) \/ BehindWiped(last'.op, s)]_ovars

(***************************************************************************)
(* An undo() that succeeds brings back the partitions that were there,     *)
(* where operations can rely on indices: on a GPT, and on an MBR without   *)
(* unused slots between used ones and without logical partitions.  After   *)
(* SetLabel they have their labels again, unless Windows keeps one that is *)
(* not ASCII.                                                              *)
(***************************************************************************)
Reliable ==
  \/ table.kind = "GPT"
  \/ /\ {p.index : p \in prior} = 0..(Cardinality(prior) - 1)
     /\ \A e \in Entries : ~e.logical /\ e.type # "extended"
IsAscii(label) == \A i \in 1..Len(label) : label[i] \in ASCII
UndoRestores ==
  last.op.kind = "undo" /\ Reliable =>
    /\ {ExtentOf(e) : e \in Entries} = {ExtentOf(p) : p \in prior}
    /\ last.op.label # NoLabel =>
         \A p \in prior : (last.op.fs = "ntfs" => IsAscii(p.label)) => LabelAt(p.start) = p.label

-----------------------------------------------------------------------------
(* What MapSpec rests on.                                                  *)

EntrySet == [index : Nat, type : PartitionTypes, active : BOOLEAN, logical : BOOLEAN,
             guid : Nat, start : Nat \ {0}, count : Nat]

(* A sector is what its kind says it is.                                   *)
SectorOK(s) ==
  /\ s.k = "ebr" => s.active \in BOOLEAN /\ s.off \in Nat /\ s.count \in Nat /\ s.next \in Int
  /\ s.k = "apm" => s.map \in Nat /\ s.start \in Nat \ {0} /\ s.count \in Nat
  /\ s.k = "super" => s = Super(s.fs, s.label, s.clean, s.errors) /\ s.fs \in {"ext", "ntfs"}

(* An MBR whose slots are disjoint; it counts, unless it is a protective   *)
(* one and there is a GPT header.                                          *)
SlotsOK(d) ==
  /\ d[0].k = "mbr"
  /\ d[0].slots \in [1..MBR_MAX_PRIMARY_PARTITIONS ->
                       [type : PartitionTypes, active : BOOLEAN, start : Nat, count : Nat]]
UsedSlots(d) == {i \in 1..MBR_MAX_PRIMARY_PARTITIONS : d[0].slots[i] # EmptySlot}
MbrOK(d) ==
  /\ SlotsOK(d)
  /\ \A i \in UsedSlots(d) :
       LET s == d[0].slots[i] IN
       /\ s.start > 0 /\ s.count > 0 /\ s.start + s.count <= DiskSectors
       /\ s.type = "protective" => d[1].k # "gpt"
       /\ \A j \in UsedSlots(d) \ {i} : ~Overlap(s, d[0].slots[j])

(* A GPT whose entries are disjoint and inside the sectors it gives them.  *)
UsedEntries(d) == {i \in 1..GptSlots : d[2].slots[i] # UnusedEntry}
GptOK(d) ==
  /\ SlotsOK(d)
  /\ \E i \in UsedSlots(d) : d[0].slots[i].type = "protective"
  /\ \A i \in UsedSlots(d) : d[0].slots[i].type # "extended"
  /\ d[1].k = "gpt" /\ d[1].entryLba = 2
  /\ d[1].first \in Nat /\ d[1].first > 2 /\ d[1].last \in Nat /\ d[1].last < DiskSectors
  /\ d[2].k = "entries" /\ d[2].slots \in [1..GptSlots -> [guid : Nat, start : Nat, end : Nat]]
  /\ \A i \in UsedEntries(d) :
       LET e == d[2].slots[i] IN
       /\ d[1].first <= e.start /\ e.start <= e.end /\ e.end <= d[1].last
       /\ \A j \in UsedEntries(d) \ {i} :
            e.end < d[2].slots[j].start \/ d[2].slots[j].end < e.start

DiskOK(d) ==
  /\ d = [s \in Lba |-> d[s]]
  /\ \A s \in Lba : SectorOK(d[s])
  /\ MbrOK(d) \/ GptOK(d) \/ d[0] = DriverDescriptor

ASSUME LayoutsAssumption == \A d \in Layouts : DiskOK(d)

(* undo() is only asked of what changed a table or a label; a protective   *)
(* slot that it would bring back does not bring a GPT header to life.      *)
IsOp(op) == DOMAIN op = DOMAIN Nothing.op /\ op.kind \in OpKinds
DoneOK(done, d) ==
  /\ IsOp(done.op)
  /\ canUndo(done) =>
       /\ done.op.kind \in {"Create", "Delete", "Resize", "SetFlags", "SetLabel"}
       /\ done.op.kind # "SetLabel" => Serializable(parse(d))
       /\ done.op.kind \in {"Delete", "Resize", "SetFlags"} => done.saved \in EntrySet
  /\ done.saved.type = "protective" => d[1].k # "gpt"

OInv ==
  /\ DiskOK(disk)
  /\ table = parse(disk)
  /\ DoneOK(last, disk)
  /\ steps \in 0..MaxSteps
=============================================================================
