--------------------------- MODULE ExtendedChain ---------------------------
(***************************************************************************)
(* MbrPartitionTable::walkExtendedChain() over sectors of any contents:    *)
(* the walk from EBR to EBR that PartitionTable!Logicals sums up for a     *)
(* chain that ends.  One action per way an iteration of the loop can go.   *)
(***************************************************************************)
EXTENDS PartitionTable

CONSTANTS
  ExtStart, ExtSize,        \* the extended partition
  Sectors,                  \* what its sectors may hold
  Primary0,                 \* m_entries.size() when the walk begins
  MAX_LOGICAL_PARTITIONS

ASSUME ExtAssumption == ExtStart \in Lba \ {0} /\ ExtSize \in Nat /\ ExtStart + ExtSize <= DiskSectors
ASSUME WalkAssumption == Primary0 \in Nat /\ MAX_LOGICAL_PARTITIONS \in Nat

(* The fields of an EBR, whatever its bytes: readLE32 gives a number.      *)
EbrFields(s) == s.active \in BOOLEAN /\ s.off \in Nat /\ s.count \in Nat /\ s.next \in Nat
ASSUME SectorsAssumption == \A s \in Sectors : s.k = "ebr" => EbrFields(s)

VARIABLES
  disk,           \* never changes
  currentEbrLba,
  logicals,       \* what has been pushed to m_entries
  walk,           \* "on", then "done", or "error" after a failed read
  odd             \* ghost: EBRs followed, mod 2, so that each is a step

cvars == <<disk, currentEbrLba, logicals, walk, odd>>

Extended == Entry(0, "extended", FALSE, FALSE, 0, ExtStart, ExtSize)
InExtended == ExtStart..(ExtStart + ExtSize - 1)

CInit ==
  /\ \E inside \in [InExtended -> Sectors] :
       disk = [s \in Lba |-> IF s \in InExtended THEN inside[s] ELSE Blank]
  /\ currentEbrLba = ExtStart
  /\ logicals = <<>>
  /\ walk = "on"
  /\ odd = FALSE

(* The while condition; only a logical partition counts towards the limit. *)
Looping ==
  /\ walk = "on"
  /\ currentEbrLba # 0
  /\ Len(logicals) < MAX_LOGICAL_PARTITIONS

Limit ==
  /\ walk = "on"
  /\ ~Looping
  /\ walk' = "done"
  /\ UNCHANGED <<disk, currentEbrLba, logicals, odd>>

OutOfBounds ==
  /\ Looping
  /\ currentEbrLba \notin InExtended
  /\ walk' = "done"
  /\ UNCHANGED <<disk, currentEbrLba, logicals, odd>>

(* The entries found so far stay; parse() logs the error and goes on.      *)
ReadError ==
  /\ Looping
  /\ currentEbrLba \in InExtended
  /\ walk' = "error"
  /\ UNCHANGED <<disk, currentEbrLba, logicals, odd>>

NoSignature ==
  /\ Looping
  /\ currentEbrLba \in InExtended
  /\ disk[currentEbrLba].k # "ebr"
  /\ walk' = "done"
  /\ UNCHANGED <<disk, currentEbrLba, logicals, odd>>

(* Mutant: the offset is taken relative to the extended partition.         *)
LogicalFromExtended(ebr) ==
  Entry(Primary0 + Len(logicals), "basic", ebr.active, TRUE, 0, ExtStart + ebr.off, ebr.count)

Logical(ebr) ==
  Entry(Primary0 + Len(logicals), "basic", ebr.active, TRUE, 0, currentEbrLba + ebr.off, ebr.count)

(* Mutant: a partition that is listed already is not pushed, nor counted.  *)
EbrOnce ==
  /\ Looping
  /\ currentEbrLba \in InExtended
  /\ disk[currentEbrLba].k = "ebr"
  /\ LET ebr == disk[currentEbrLba]
         listed == \E i \in 1..Len(logicals) : logicals[i].start = currentEbrLba + ebr.off
     IN /\ logicals' = IF ebr.count > 0 /\ ~listed THEN Append(logicals, Logical(ebr)) ELSE logicals
        /\ IF ebr.next # 0
           THEN currentEbrLba' = ExtStart + ebr.next /\ walk' = walk
           ELSE currentEbrLba' = currentEbrLba /\ walk' = "done"
  /\ odd' = ~odd
  /\ UNCHANGED disk

Ebr ==
  /\ Looping
  /\ currentEbrLba \in InExtended
  /\ disk[currentEbrLba].k = "ebr"
  /\ LET ebr == disk[currentEbrLba] IN
     /\ logicals' = IF ebr.count > 0 THEN Append(logicals, Logical(ebr)) ELSE logicals
     /\ IF ebr.next # 0
        THEN currentEbrLba' = ExtStart + ebr.next /\ walk' = walk
        ELSE currentEbrLba' = currentEbrLba /\ walk' = "done"
  /\ odd' = ~odd
  /\ UNCHANGED disk

Iterate == Limit \/ OutOfBounds \/ NoSignature \/ Ebr
CNext == Iterate \/ ReadError

(* The walk is one thread's loop, so it keeps going; no read need fail.    *)
CSpec == CInit /\ [][CNext]_cvars /\ WF_cvars(Iterate)

-----------------------------------------------------------------------------
(* The EBR after lba in the chain, 0 at its end; and whether the chain     *)
(* comes back to where it has been.                                        *)
NextEbr(lba) ==
  IF lba \in InExtended /\ disk[lba].k = "ebr" /\ disk[lba].next # 0
  THEN ExtStart + disk[lba].next ELSE 0
ChainEnds ==
  LET at[n \in 0..ExtSize] == IF n = 0 THEN ExtStart ELSE NextEbr(at[n - 1])
  IN at[ExtSize] \notin InExtended

(***************************************************************************)
(* The walk agrees with Logicals, the definition the table models use: on  *)
(* a chain that ends, it has a prefix of it at every moment (also when a   *)
(* read failed), and all of it, or as much as the limit allows, when done. *)
(***************************************************************************)
WalkFindsLogicals ==
  ChainEnds =>
    LET expected == Logicals(disk, Extended, Primary0) IN
    /\ Len(logicals) <= Len(expected)
    /\ \A i \in 1..Len(logicals) : logicals[i] = expected[i]
    /\ walk = "done" => \/ Len(logicals) = Len(expected)
                        \/ Len(logicals) = MAX_LOGICAL_PARTITIONS

(***************************************************************************)
(* Loop or not, the walk ends if every EBR carries a logical partition:    *)
(* the limit on their number is then a limit on the steps.                 *)
(***************************************************************************)
EveryEbrCounts == \A s \in InExtended : disk[s].k = "ebr" => disk[s].count > 0
CountedWalkEnds == EveryEbrCounts => <>(walk # "on")
=============================================================================
