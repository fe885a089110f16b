--------------------------- MODULE PartitionTable ---------------------------
(***************************************************************************)
(* spw::PartitionTable: parsing a disk into a table, changing the table in *)
(* memory, and serializing it: MBR (with the EBR chain), GPT, and APM,     *)
(* which is read-only.                                                     *)
(*                                                                         *)
(* A disk is a function from LBA to sector contents.  Contents are records *)
(* that keep the fields the code reads and writes; boot code, CHS          *)
(* addresses, GUIDs' bytes, names and CRCs are left out (a CRC mismatch is *)
(* only logged by the parser).  The GPT entry array, 32 sectors in the     *)
(* code, is one sector here.                                               *)
(***************************************************************************)
EXTENDS Integers, Sequences, FiniteSets, Selection

CONSTANTS
  DiskSectors,  \* m_diskSizeBytes / m_sectorSize
  GptSlots      \* m_entryCount of the GPT entry array

ASSUME DiskSectorsAssumption == DiskSectors \in Nat /\ DiskSectors > 7
ASSUME GptSlotsAssumption == GptSlots \in Nat

MBR_MAX_PRIMARY_PARTITIONS == 4
Lba == 0..(DiskSectors - 1)

(* The types that the code tells apart.                                    *)
PartitionTypes == {"empty", "basic", "extended", "protective"}

(* Sector contents.                                                        *)
Blank == [k |-> "blank"]
Data(owner) == [k |-> "data", owner |-> owner]
Slot(type, active, start, count) ==
  [type |-> type, active |-> active, start |-> start, count |-> count]
EmptySlot == Slot("empty", FALSE, 0, 0)
MbrSector(slots) == [k |-> "mbr", slots |-> slots]
EbrSector(active, off, count, next) ==
  [k |-> "ebr", active |-> active, off |-> off, count |-> count, next |-> next]
GptHeader(entryLba, first, last) ==
  [k |-> "gpt", entryLba |-> entryLba, first |-> first, last |-> last]
GptEntry(guid, start, end) == [guid |-> guid, start |-> start, end |-> end]
UnusedEntry == GptEntry(0, 0, 0)
GptEntries(slots) == [k |-> "entries", slots |-> slots]
DriverDescriptor == [k |-> "ddm"]
ApmEntry(map, start, count) == [k |-> "apm", map |-> map, start |-> start, count |-> count]

(* PartitionEntry.  "guid" is the GPT unique GUID (0 on an MBR disk).      *)
Entry(index, type, active, logical, guid, start, count) ==
  [index |-> index, type |-> type, active |-> active, logical |-> logical,
   guid |-> guid, start |-> start, count |-> count]

Table(kind, entries, first, last) ==
  [kind |-> kind, entries |-> entries, first |-> first, last |-> last]
NoTable == Table("none", <<>>, 0, 0)

(* Helpers on the vector m_entries.                                        *)
HasIndex(t, index) == \E i \in 1..Len(t.entries) : t.entries[i].index = index
(* std::find_if: the first entry with this index.                          *)
FindIndex(t, index) ==
  CHOOSE i \in 1..Len(t.entries) :
    /\ t.entries[i].index = index
    /\ \A j \in 1..(i - 1) : t.entries[j].index # index
EraseAt(s, n) == SubSeq(s, 1, n - 1) \o SubSeq(s, n + 1, Len(s))

-----------------------------------------------------------------------------
(* Parsing.                                                                *)

Primary(slots, i) ==
  LET s == slots[i] IN Entry(i - 1, s.type, s.active, FALSE, 0, s.start, s.count)
Primaries(slots) ==
  Kept([i \in 1..MBR_MAX_PRIMARY_PARTITIONS |-> Primary(slots, i)],
       {i \in 1..MBR_MAX_PRIMARY_PARTITIONS : slots[i] # EmptySlot})

(* findExtendedIndex(): the first extended primary.                        *)
Extendeds(t) ==
  Kept(t.entries, {i \in 1..Len(t.entries) : t.entries[i].type = "extended" /\ ~t.entries[i].logical})

(* walkExtendedChain() on a chain that ends; an EBR outside the extended   *)
(* partition or without a signature ends it.  (ExtendedChain models the    *)
(* walk over arbitrary sectors.)  Logicals are numbered from size().       *)
Logicals(disk, ext, size) ==
  LET inside(lba) == lba \in Lba /\ lba >= ext.start /\ lba < ext.start + ext.count
      chain[n \in 0..DiskSectors] == [lba \in Lba |->
        IF n = 0 \/ ~inside(lba) \/ disk[lba].k # "ebr" THEN <<>>
        ELSE LET e == disk[lba]
                 here == IF e.count = 0 THEN <<>>
                         ELSE <<Entry(0, "basic", e.active, TRUE, 0, lba + e.off, e.count)>>
                 nextLba == ext.start + e.next
             IN here \o (IF e.next = 0 \/ nextLba \notin Lba THEN <<>>
                         ELSE chain[n - 1][nextLba])]
      found == chain[DiskSectors][ext.start]
  IN [i \in 1..Len(found) |-> [found[i] EXCEPT !.index = size + i - 1]]

ParseMbr(disk) ==
  LET prim == Primaries(disk[0].slots)
      exts == Extendeds(Table("MBR", prim, 0, DiskSectors - 1))
      logs == IF exts = <<>> THEN <<>> ELSE Logicals(disk, Head(exts), Len(prim))
  IN Table("MBR", prim \o logs, 0, DiskSectors - 1)

hasGptProtective(t) == \E i \in 1..Len(t.entries) : t.entries[i].type = "protective"

ParseGpt(disk) ==
  LET hdr == disk[1]
      slots == disk[hdr.entryLba].slots
      entry(i) == LET s == slots[i] IN
                  Entry(i - 1, "basic", FALSE, FALSE, s.guid, s.start, s.end - s.start + 1)
  IN Table("GPT", Kept([i \in 1..GptSlots |-> entry(i)], {i \in 1..GptSlots : slots[i] # UnusedEntry}),
           hdr.first, hdr.last)

(* The first entry says how many there are; the blocks of the map are as   *)
(* long as the sectors here.                                               *)
ApmLimit == 256
ParseApm(disk) ==
  LET claimed == IF disk[1].map > ApmLimit THEN ApmLimit ELSE disk[1].map
      run     == {n \in 0..claimed : n < DiskSectors /\ \A i \in 1..n : disk[i].k = "apm"}
      found   == CHOOSE n \in run : \A o \in run : o <= n
  IN Table("APM", [i \in 1..found |->
                     Entry(i - 1, "basic", FALSE, FALSE, 0, disk[i].start, disk[i].count)],
           0, DiskSectors - 1)

(* A GPT header that does not parse falls back to the MBR.                 *)
parse(disk) ==
  IF disk[0].k = "ddm" THEN IF disk[1].k = "apm" THEN ParseApm(disk) ELSE NoTable
  ELSE IF disk[0].k # "mbr" THEN NoTable
  ELSE LET mbr == ParseMbr(disk) IN
       IF hasGptProtective(mbr) /\ disk[1].k = "gpt" THEN ParseGpt(disk) ELSE mbr

-----------------------------------------------------------------------------
(* Changing the table in memory: the new table, or NoTable on an error.    *)

(* Mutant: only the first sector is looked at.                             *)
overlapsAtStart(t, start, count, exclude) ==
  \E i \in 1..Len(t.entries) :
    LET e == t.entries[i] IN
    e.index # exclude /\ start >= e.start /\ start < e.start + e.count

OverlapsMbr(t, start, count, exclude) ==
  \E i \in 1..Len(t.entries) :
    LET e == t.entries[i] IN
    /\ e.index # exclude
    /\ e.count # 0
    /\ start < e.start + e.count
    /\ e.start < start + count

OverlapsGpt(t, start, end, exclude) ==
  \E i \in 1..Len(t.entries) :
    LET e == t.entries[i] IN
    /\ e.index # exclude
    /\ start <= e.start + e.count - 1
    /\ e.start <= end

overlapsExisting(t, start, count, exclude) ==
  IF t.kind = "GPT" THEN OverlapsGpt(t, start, start + count - 1, exclude)
  ELSE OverlapsMbr(t, start, count, exclude)

PrimaryAt(t) == {i \in 1..Len(t.entries) : ~t.entries[i].logical}
PrimaryCount(t) == Cardinality(PrimaryAt(t))

WithEntry(t, e) == [t EXCEPT !.entries = Append(@, e)]

AddMbr(t, p) ==
  IF /\ p.count > 0
     /\ p.logical => /\ Extendeds(t) # <<>>
                     /\ p.start >= Head(Extendeds(t)).start
                     /\ p.start + p.count <= Head(Extendeds(t)).start + Head(Extendeds(t)).count
     /\ ~p.logical => PrimaryCount(t) < MBR_MAX_PRIMARY_PARTITIONS
     /\ ~overlapsExisting(t, p.start, p.count, -1)
     /\ p.start + p.count <= DiskSectors
  THEN WithEntry(t, Entry(Len(t.entries), p.type, p.active, p.logical, 0, p.start, p.count))
  ELSE NoTable

FreeSlots(t) == {i \in 0..(GptSlots - 1) : ~HasIndex(t, i)}
FirstFree(t) == CHOOSE i \in FreeSlots(t) : \A j \in FreeSlots(t) : i <= j

(* Mutant: no overlap check.                                               *)
AddGptUnchecked(t, p) ==
  IF p.count > 0 /\ p.start >= t.first /\ p.start + p.count - 1 <= t.last /\ FreeSlots(t) # {}
  THEN WithEntry(t, Entry(FirstFree(t), "basic", FALSE, FALSE, p.guid, p.start, p.count))
  ELSE NoTable

(* A new entry gets a GUID no other entry has had: the caller passes one.  *)
AddGpt(t, p) ==
  IF /\ p.count > 0
     /\ p.start >= t.first
     /\ p.start + p.count - 1 <= t.last
     /\ ~overlapsExisting(t, p.start, p.count, -1)
     /\ FreeSlots(t) # {}
  THEN WithEntry(t, Entry(FirstFree(t), "basic", FALSE, FALSE, p.guid, p.start, p.count))
  ELSE NoTable

addPartition(t, p) ==
  IF t.kind \in {"none", "APM"} THEN NoTable
  ELSE IF t.kind = "GPT" THEN AddGpt(t, p) ELSE AddMbr(t, p)

(* Deleting the extended partition takes the logical ones with it; what is *)
(* left of an MBR table is numbered anew.                                  *)
DeleteMbr(t, index) ==
  LET i == FindIndex(t, index)
      victim == t.entries[i]
      left == [t EXCEPT !.entries = EraseAt(@, i)]
      rest == IF victim.type = "extended" /\ ~victim.logical
              THEN Kept(left.entries, PrimaryAt(left)) ELSE left.entries
  IN [t EXCEPT !.entries = [n \in 1..Len(rest) |-> [rest[n] EXCEPT !.index = n - 1]]]

(* Mutant: entries are numbered anew, as for an MBR.                       *)
DeleteGptRenumbered(t, index) == DeleteMbr(t, index)

DeleteGpt(t, index) == [t EXCEPT !.entries = EraseAt(@, FindIndex(t, index))]

deletePartition(t, index) ==
  IF t.kind = "APM" \/ ~HasIndex(t, index) THEN NoTable
  ELSE IF t.kind = "GPT" THEN DeleteGpt(t, index) ELSE DeleteMbr(t, index)

ResizeMbr(t, index, start, count) ==
  /\ count > 0
  /\ start + count <= DiskSectors
  /\ ~overlapsExisting(t, start, count, index)

ResizeGpt(t, index, start, count) ==
  /\ count > 0
  /\ start >= t.first
  /\ start + count - 1 <= t.last
  /\ ~overlapsExisting(t, start, count, index)

resizePartition(t, index, start, count) ==
  IF /\ HasIndex(t, index)
     /\ \/ t.kind = "MBR" /\ ResizeMbr(t, index, start, count)
        \/ t.kind = "GPT" /\ ResizeGpt(t, index, start, count)
  THEN [t EXCEPT !.entries[FindIndex(t, index)] = [@ EXCEPT !.start = start, !.count = count]]
  ELSE NoTable

(* setActivePartition(index), -1 for none.                                 *)
Flagged(e, index) == IF e.logical THEN e ELSE [e EXCEPT !.active = (e.index = index)]
setActivePartition(t, index) ==
  IF index >= 0 /\ ~\E i \in PrimaryAt(t) : t.entries[i].index = index THEN NoTable
  ELSE [t EXCEPT !.entries = [i \in 1..Len(@) |-> Flagged(@[i], index)]]

-----------------------------------------------------------------------------
(* Serializing: the sectors, in the order in which they are concatenated.  *)

SerializeMbr(t) ==
  LET prim == Kept(t.entries, PrimaryAt(t))
      logs == Kept(t.entries, 1..Len(t.entries) \ PrimaryAt(t))
      slot(i) == IF i > Len(prim) THEN EmptySlot
                 ELSE Slot(prim[i].type, prim[i].active, prim[i].start, prim[i].count)
      ebr(i) == EbrSector(logs[i].active, 1, logs[i].count,
                          IF i = Len(logs) THEN 0
                          ELSE logs[i + 1].start - 1 - Head(Extendeds(t)).start)
      ebrs == IF Extendeds(t) = <<>> THEN <<>> ELSE [i \in 1..Len(logs) |-> ebr(i)]
  IN <<MbrSector([i \in 1..MBR_MAX_PRIMARY_PARTITIONS |-> slot(i)])>> \o ebrs

SerializeGpt(t) ==
  LET protective == [i \in 1..MBR_MAX_PRIMARY_PARTITIONS |->
                       IF i = 1 THEN Slot("protective", FALSE, 1, DiskSectors - 1) ELSE EmptySlot]
      slot(i) == IF HasIndex(t, i)
                 THEN LET e == t.entries[FindIndex(t, i)]
                      IN GptEntry(e.guid, e.start, e.start + e.count - 1)
                 ELSE UnusedEntry
      array == GptEntries([i \in 1..GptSlots |-> slot(i - 1)])
  IN << MbrSector(protective), GptHeader(2, t.first, t.last), array,
        array, GptHeader(DiskSectors - 2, t.first, t.last) >>

(* An APM is not serialized: there is nothing to write.                    *)
Serializable(t) == t.kind \in {"MBR", "GPT"}
serialize(t) == IF t.kind = "GPT" THEN SerializeGpt(t) ELSE SerializeMbr(t)

=============================================================================
