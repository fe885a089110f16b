--------------------------- MODULE RecoveryTabProofs ---------------------------
(***************************************************************************)
(* What is found on a disk, whatever the disk: the partitions a scan lists *)
(* as lost, and those the walk along a chain of EBRs adds to the table     *)
(* (ExtendedChain).  And what holds of the boot structures while the       *)
(* recovery tab repairs them, for every disk, every partition and any      *)
(* number of failures.                                                     *)
(***************************************************************************)
EXTENDS RecoveryTab, ExtendedChain, SequenceTheorems, FiniteSetTheorems, WellFoundedInduction, TLAPS

-----------------------------------------------------------------------------
(* The kinds of repairs                                                    *)

\* What a repair works on follows from its name.
LEMMA RepairKinds ==
  ASSUME RepairTypeOK
  PROVE  /\ repair.op = "mbr" => repair \in MbrRepairs
         /\ repair.op = "gpt" => repair \in GptRepairs
         /\ repair.op = "bootsector" => repair \in BootSectorRepairs
         /\ repair.op = "bcd" => repair \in BcdRepairs
         /\ repair.op = "loader" => repair \in LoaderRepairs
         /\ repair = NoRepair <=> repair.op = "none"
  BY DEF RepairTypeOK, MbrRepairs, GptRepairs, BootSectorRepairs, BcdRepairs, LoaderRepairs, NoRepair

\* Nothing is known to be repaired in the beginning.
LEMMA BootInit == BInit => BootInv
  BY FaultAssumption DEF BInit, BootInv, RepairTypeOK, NoJob, NoRepair, RepairedMeans

\* Outside of repairs all that changes is the job, while there is no repair, or
\* the number of faults, which the GPT's part depends on.
LEMMA NoRepairInv ==
  ASSUME BootInv, repair' = NoRepair, faults' \in Nat,
         job' = NoJob \/ job' \in [on : {TRUE}, todo : Seq(RepairNames), auto : BOOLEAN, gpt : BOOLEAN]
  PROVE  BootInv'
  BY DEF BootInv, RepairTypeOK, NoRepair, RepairedMeans

\* A fault alone changes nothing that is repaired.
LEMMA FaultsInv ==
  ASSUME BootInv, UNCHANGED <<job, repair>>, faults' \in Nat, faults' >= faults
  PROVE  BootInv'
  <1>1. RepairTypeOK' /\ RepairedMeans'
    BY DEF BootInv, RepairTypeOK, RepairedMeans, HasWork
  <1>2. faults' = 0 => faults = 0
    BY DEF BootInv, RepairTypeOK
  <1> QED BY <1>1, <1>2 DEF BootInv, GptKept, Untouched, GptSource

-----------------------------------------------------------------------------
(* The MBR                                                                 *)

\* The repair of the MBR, read and write.
LEMMA MbrInv ==
  ASSUME BootInv, BeginMbr \/ repairMbr \/ MbrIsValid \/ MbrFails
  PROVE  BootInv'
  <1>0. RepairTypeOK /\ faults \in Nat
    BY DEF BootInv, RepairTypeOK
  <1>1. ASSUME NEW r \in MbrRepairs, repair' = r, UNCHANGED job, HasWork, faults' \in Nat,
               r.pc = "begin" => r.mbr = r.was,
               r.pc = "done" /\ r.ok => r.mbr.signature /\ r.mbr.gpt = r.was.gpt /\ r.mbr.status = r.was.status
        PROVE  BootInv'
    <2>1. repair' # NoRepair /\ repair'.op = "mbr"
      BY <1>1 DEF MbrRepairs, NoRepair
    <2> QED BY <1>0, <1>1, <2>1 DEF BootInv, RepairTypeOK, RepairedMeans, HasWork
  <1>2. CASE BeginMbr
    <2>1. PICK m \in Mbrs : repair' = [op |-> "mbr", pc |-> "begin", ok |-> FALSE, mbr |-> m, was |-> m, read |-> TRUE]
      BY <1>2 DEF BeginMbr, Goes
    <2>2. [op |-> "mbr", pc |-> "begin", ok |-> FALSE, mbr |-> m, was |-> m, read |-> TRUE] \in MbrRepairs
      BY DEF MbrRepairs, Mbrs
    <2> QED BY <1>0, <1>1, <1>2, <2>1, <2>2 DEF BeginMbr, Goes, Due, HasWork
  <1>3. ASSUME In("mbr", "begin") PROVE repair \in MbrRepairs /\ HasWork /\ repair.mbr = repair.was /\ repair.was \in Mbrs
    <2>1. repair \in MbrRepairs BY <1>0, <1>3, RepairKinds DEF In
    <2>2. repair # NoRepair BY <1>3 DEF In, NoRepair
    <2> QED BY <2>1, <2>2, <1>3 DEF BootInv, RepairTypeOK, In, MbrRepairs
  <1>4. CASE repairMbr
    <2> DEFINE w == [repair EXCEPT !.mbr = WithBootCode(@)]
               r == [w EXCEPT !.pc = "done", !.ok = TRUE]
    <2>1. repair \in MbrRepairs /\ HasWork /\ repair.mbr = repair.was /\ repair.was \in Mbrs
      BY <1>3, <1>4 DEF repairMbr
    <2>2. repair' = r /\ UNCHANGED <<job, faults>>
      BY <1>4 DEF repairMbr, Ends, Goes
    <2>3. WithBootCode(repair.was) \in [code : {"old", "standard"}, signature : BOOLEAN, status : BOOLEAN, gpt : BOOLEAN]
          /\ WithBootCode(repair.was).signature = TRUE
          /\ WithBootCode(repair.was).gpt = repair.was.gpt /\ WithBootCode(repair.was).status = repair.was.status
      BY <2>1 DEF WithBootCode, Mbrs
    <2>4. w \in MbrRepairs /\ w.mbr = WithBootCode(repair.was) /\ w.was = repair.was
      BY <2>1, <2>3 DEF MbrRepairs
    <2>5. r \in MbrRepairs /\ r.mbr = WithBootCode(repair.was) /\ r.was = repair.was /\ r.pc = "done"
      BY <2>4 DEF MbrRepairs
    <2> HIDE DEF r, w
    <2> QED BY <1>0, <1>1, <2>1, <2>2, <2>3, <2>5
  <1>5. CASE MbrIsValid
    <2> DEFINE r == [repair EXCEPT !.pc = "done", !.ok = FALSE]
    <2>1. repair \in MbrRepairs /\ HasWork
      BY <1>3, <1>5 DEF MbrIsValid
    <2>2. repair' = r /\ UNCHANGED <<job, faults>>
      BY <1>5 DEF MbrIsValid, Ends, Goes
    <2>3. r \in MbrRepairs /\ r.ok = FALSE /\ r.pc = "done"
      BY <2>1 DEF MbrRepairs
    <2> HIDE DEF r
    <2> QED BY <1>0, <1>1, <2>1, <2>2, <2>3
  <1>6. CASE MbrFails
    <2>1. repair \in MbrRepairs /\ HasWork
      BY <1>3, <1>6 DEF MbrFails
    <2>2. PICK read \in BOOLEAN : FailsWith([repair EXCEPT !.read = read])
      BY <1>6 DEF MbrFails
    <2> DEFINE w == [repair EXCEPT !.read = read]
               r == [w EXCEPT !.pc = "done", !.ok = FALSE]
    <2>3. repair' = r /\ UNCHANGED job /\ faults' = faults + 1
      BY <2>2 DEF FailsWith, Fault
    <2>4. w \in MbrRepairs
      BY <2>1 DEF MbrRepairs
    <2>5. r \in MbrRepairs /\ r.ok = FALSE /\ r.pc = "done"
      BY <2>4 DEF MbrRepairs
    <2> HIDE DEF r, w
    <2> QED BY <1>0, <1>1, <2>1, <2>3, <2>5
  <1> QED BY <1>2, <1>4, <1>5, <1>6

-----------------------------------------------------------------------------
(* The GPT                                                                 *)

\* The invariant of a GPT repair is that of its record.
LEMMA GptFrame ==
  ASSUME BootInv, NEW r \in GptRepairs, repair' = r, UNCHANGED job, HasWork, faults' \in Nat,
         GptKept(repair)',
         r.pc = "done" /\ r.ok => r.primary = r.backup /\ r.primary.header
  PROVE  BootInv'
  <1>1. repair' # NoRepair /\ repair'.op = "gpt"
    BY DEF GptRepairs, NoRepair
  <1> QED BY <1>1 DEF BootInv, RepairTypeOK, RepairedMeans, HasWork

\* A repair under way has its type, its job and its part of the invariant.
LEMMA InGpt ==
  ASSUME BootInv, repair.op = "gpt"
  PROVE  repair \in GptRepairs /\ HasWork /\ GptKept(repair) /\ faults \in Nat
  <1>1. RepairTypeOK BY DEF BootInv
  <1>2. repair \in GptRepairs /\ repair # NoRepair
    BY <1>1, RepairKinds DEF NoRepair
  <1> QED BY <1>1, <1>2 DEF BootInv, RepairTypeOK, NoJob

\* A GPT repair begins with the copies as they are found.
LEMMA GptBeginInv ==
  ASSUME BootInv, BeginGpt
  PROVE  BootInv'
  <1>1. PICK p \in PrimaryCopies, b \in GptCopies :
          Goes([op |-> "gpt", pc |-> IF job.auto THEN "check" ELSE "begin", ok |-> FALSE, primary |-> p,
                backup |-> b, was |-> [primary |-> p, backup |-> b], fromBackup |-> TRUE])
    BY DEF BeginGpt
  <1>2. p \in Copies /\ b \in Copies
    BY DEF PrimaryCopies, GptCopies, Copies
  <1> DEFINE r == [op |-> "gpt", pc |-> IF job.auto THEN "check" ELSE "begin", ok |-> FALSE, primary |-> p,
                   backup |-> b, was |-> [primary |-> p, backup |-> b], fromBackup |-> TRUE]
  <1>3. r \in GptRepairs /\ r.pc = (IF job.auto THEN "check" ELSE "begin") /\ r.ok = FALSE /\ r.primary = p
        /\ r.backup = b /\ r.was.primary = p /\ r.was.backup = b /\ r.fromBackup = TRUE
    BY <1>2 DEF GptRepairs
  <1>4. repair' = r /\ UNCHANGED <<job, faults>>
    BY <1>1 DEF Goes
  <1> HIDE DEF r
  <1>5. GptKept(repair)'
    BY <1>3, <1>4 DEF GptKept, Untouched, GptSource
  <1>6. HasWork /\ faults \in Nat
    BY DEF BeginGpt, Due, HasWork, BootInv, RepairTypeOK
  <1> QED BY <1>3, <1>4, <1>5, <1>6, GptFrame

\* A repair that ends without success keeps what was true.
LEMMA GptEndInv ==
  ASSUME BootInv, repair.op = "gpt", repair' = [repair EXCEPT !.pc = "done", !.ok = FALSE], UNCHANGED job,
         faults' \in Nat, faults' >= faults
  PROVE  BootInv'
  <1>1. repair \in GptRepairs /\ HasWork /\ GptKept(repair) /\ faults \in Nat
    BY InGpt
  <1> DEFINE r == [repair EXCEPT !.pc = "done", !.ok = FALSE]
  <1>2. r \in GptRepairs /\ r.pc = "done" /\ r.ok = FALSE /\ r.primary = repair.primary
        /\ r.backup = repair.backup /\ r.was = repair.was /\ r.fromBackup = repair.fromBackup
    BY <1>1 DEF GptRepairs
  <1> HIDE DEF r
  <1>3. repair' = r
    BY DEF r
  <1>4. faults' = 0 => faults = 0
    BY <1>1
  <1>5. repair.pc \in {"check", "begin", "first", "second", "done"}
    BY <1>1 DEF GptRepairs
  <1>6. GptKept(repair)'
    BY <1>1, <1>2, <1>3, <1>4, <1>5 DEF GptKept, Untouched, GptSource
  <1> QED BY <1>1, <1>2, <1>3, <1>6, GptFrame

\* autoRepair() decides which copy to rebuild, if any.
LEMMA RebuildsInv ==
  ASSUME BootInv, In("gpt", "check"), NEW pv \in BOOLEAN, NEW bv \in BOOLEAN,
         repair' = Rebuilds(repair, pv, bv), UNCHANGED job, faults' \in Nat,
         faults' = 0 => pv = repair.primary.header /\ bv = repair.backup.header
  PROVE  BootInv'
  <1>1. repair \in GptRepairs /\ HasWork /\ GptKept(repair) /\ faults \in Nat /\ repair.pc = "check"
    BY InGpt DEF In
  <1>2. Untouched(repair) /\ ~repair.ok
    BY <1>1 DEF GptKept
  <1>3. CASE pv = bv
    <2> DEFINE r == [repair EXCEPT !.pc = "done"]
    <2>1. r \in GptRepairs /\ r.pc = "done" /\ r.ok = repair.ok /\ r.primary = repair.primary
          /\ r.backup = repair.backup /\ r.was = repair.was /\ r.fromBackup = repair.fromBackup
      BY <1>1 DEF GptRepairs
    <2> HIDE DEF r
    <2>2. repair' = r
      BY <1>3 DEF r, Rebuilds
    <2>3. GptKept(repair)'
      BY <1>1, <1>2, <2>1, <2>2 DEF GptKept, Untouched, GptSource
    <2> QED BY <1>1, <1>2, <2>1, <2>2, <2>3, GptFrame
  <1>4. CASE pv # bv
    <2> DEFINE r == [repair EXCEPT !.pc = "begin", !.fromBackup = bv]
    <2>1. r \in GptRepairs /\ r.pc = "begin" /\ r.ok = repair.ok /\ r.primary = repair.primary
          /\ r.backup = repair.backup /\ r.was = repair.was /\ r.fromBackup = bv
      BY <1>1 DEF GptRepairs
    <2> HIDE DEF r
    <2>2. repair' = r
      BY <1>4 DEF r, Rebuilds
    <2>3. GptKept(repair)'
      BY <1>1, <1>2, <1>4, <2>1, <2>2 DEF GptKept, Untouched, GptSource
    <2> QED BY <1>1, <1>2, <2>1, <2>2, <2>3, GptFrame
  <1> QED BY <1>3, <1>4

\* Finding out which copies are good changes none.
LEMMA GptCheckInv ==
  ASSUME BootInv, AutoGpt \/ AutoGptUnread
  PROVE  BootInv'
  <1>1. In("gpt", "check")
    BY DEF AutoGpt, AutoGptUnread
  <1>2. repair \in GptRepairs /\ faults \in Nat
    BY <1>1, InGpt DEF In
  <1>3. repair.primary.header \in BOOLEAN /\ repair.backup.header \in BOOLEAN
    BY <1>2 DEF GptRepairs, Copies
  <1>4. CASE AutoGpt
    BY <1>1, <1>2, <1>3, <1>4, RebuildsInv DEF AutoGpt, Goes, validateGptHeader
  <1>5. CASE AutoGptUnread
    <2>1. faults' \in Nat /\ faults' # 0 /\ UNCHANGED job
      BY <1>2, <1>5 DEF AutoGptUnread, Fault
    <2>2. \/ repair' = Rebuilds(repair, FALSE, repair.backup.header)
          \/ repair' = Rebuilds(repair, repair.primary.header, FALSE)
      BY <1>5 DEF AutoGptUnread, validateGptHeader
    <2> QED BY <1>1, <1>3, <2>1, <2>2, RebuildsInv
  <1> QED BY <1>4, <1>5

\* Reading the good copy changes none.
LEMMA GptReadInv ==
  ASSUME BootInv, GptRead \/ GptRefused \/ GptReadFails
  PROVE  BootInv'
  <1>1. repair.op = "gpt" /\ repair.pc = "begin"
    BY DEF GptRead, GptRefused, GptReadFails, In
  <1>2. repair \in GptRepairs /\ HasWork /\ GptKept(repair) /\ faults \in Nat
    BY <1>1, InGpt
  <1>3. CASE GptRead
    <2> DEFINE r == [repair EXCEPT !.pc = "first"]
    <2>1. r \in GptRepairs /\ r.pc = "first" /\ r.ok = repair.ok /\ r.primary = repair.primary
          /\ r.backup = repair.backup /\ r.was = repair.was /\ r.fromBackup = repair.fromBackup
      BY <1>2 DEF GptRepairs
    <2> HIDE DEF r
    <2>2. repair' = r /\ UNCHANGED <<job, faults>> /\ GptSource(repair).header
      BY <1>3 DEF r, GptRead, Goes, validateGptHeader
    <2>3. GptKept(repair)'
      BY <1>1, <1>2, <2>1, <2>2 DEF GptKept, Untouched, GptSource
    <2> QED BY <1>2, <2>1, <2>2, <2>3, GptFrame
  <1>4. CASE GptRefused
    BY <1>1, <1>2, <1>4, GptEndInv DEF GptRefused, Ends, Goes
  <1>5. CASE GptReadFails
    <2>1. faults' \in Nat /\ faults' >= faults
      BY <1>2, <1>5 DEF GptReadFails, FailsWith, Fault
    <2> QED BY <1>1, <1>5, <2>1, GptEndInv DEF GptReadFails, FailsWith
  <1> QED BY <1>3, <1>4, <1>5

\* A copy with the source's header, and with its entries.
LEMMA WrittenCopies ==
  ASSUME NEW c \in Copies, NEW s \in Copies
  PROVE  /\ HeaderWritten(c, s) \in Copies /\ EntriesWritten(c, s) \in Copies
         /\ HeaderWritten(c, s).header = TRUE /\ HeaderWritten(c, s).crc = s.crc
         /\ HeaderWritten(c, s).entries = c.entries
         /\ EntriesWritten(c, s).entries = s.entries
         /\ EntriesWritten(c, s).header = c.header /\ EntriesWritten(c, s).crc = c.crc
  BY DEF HeaderWritten, EntriesWritten, Copies

\* Copies are equal if their fields are.
LEMMA SameCopy ==
  ASSUME NEW c \in Copies, NEW s \in Copies, c.header = s.header, c.crc = s.crc, c.entries = s.entries
  PROVE  c = s
  BY DEF Copies

\* A write changes the copy that is rebuilt, and no other.
LEMMA GptWriteFrame ==
  ASSUME BootInv, repair.op = "gpt", repair.pc \in {"first", "second"}, NEW r \in GptRepairs, repair' = r,
         r.pc \in {"second", "done"}, r.was = repair.was, r.fromBackup = repair.fromBackup,
         UNCHANGED job, faults' \in Nat, faults' >= faults,
         r.fromBackup => r.backup = repair.backup,
         ~r.fromBackup => r.primary = repair.primary,
         r.pc = "second" => ~r.ok /\ (IF r.fromBackup THEN r.primary.header /\ r.primary.crc = r.backup.crc
                                                      ELSE r.backup.entries = r.primary.entries),
         r.pc = "done" /\ r.ok => r.primary = r.backup /\ r.primary.header
  PROVE  BootInv'
  <1>1. repair \in GptRepairs /\ HasWork /\ GptKept(repair) /\ faults \in Nat
    BY InGpt
  <1>2. faults' = 0 => faults = 0
    BY <1>1
  <1>3. GptSource(r).header
    BY <1>1 DEF GptKept, GptSource
  <1>4. GptKept(repair)'
    BY <1>1, <1>2, <1>3 DEF GptKept, Untouched, GptSource
  <1> QED BY <1>1, <1>4, GptFrame

\* The first write of a rebuilt copy touches no other copy.
LEMMA GptFirstInv ==
  ASSUME BootInv, GptFirstWrite
  PROVE  BootInv'
  <1>1. repair.op = "gpt" /\ repair.pc = "first"
    BY DEF GptFirstWrite, In
  <1>2. repair \in GptRepairs /\ GptKept(repair) /\ faults \in Nat
    BY <1>1, InGpt
  <1>3. repair.primary \in Copies /\ repair.backup \in Copies /\ repair.fromBackup \in BOOLEAN /\ ~repair.ok
    BY <1>1, <1>2 DEF GptRepairs, GptKept
  <1> DEFINE p == IF repair.fromBackup THEN HeaderWritten(repair.primary, repair.backup) ELSE repair.primary
             b == IF repair.fromBackup THEN repair.backup ELSE EntriesWritten(repair.backup, repair.primary)
  <1>4. repair' = [op |-> "gpt", pc |-> "second", ok |-> FALSE, primary |-> p, backup |-> b, was |-> repair.was,
                   fromBackup |-> repair.fromBackup]
    BY <1>1, <1>2, <1>3 DEF GptFirstWrite, Goes, GptRepairs
  <1>5. p \in Copies /\ b \in Copies
        /\ (repair.fromBackup => b = repair.backup /\ p.header /\ p.crc = b.crc)
        /\ (~repair.fromBackup => p = repair.primary /\ b.entries = p.entries)
    BY <1>3, WrittenCopies
  <1>6. UNCHANGED <<job, faults>>
    BY DEF GptFirstWrite, Goes
  <1> HIDE DEF p, b
  <1>7. /\ repair' \in GptRepairs /\ repair'.pc = "second" /\ repair'.ok = FALSE /\ repair'.primary = p
        /\ repair'.backup = b /\ repair'.was = repair.was /\ repair'.fromBackup = repair.fromBackup
    BY <1>2, <1>4, <1>5 DEF GptRepairs
  <1> QED BY <1>1, <1>2, <1>5, <1>6, <1>7, GptWriteFrame

\* The second write completes it.
LEMMA GptSecondInv ==
  ASSUME BootInv, GptSecondWrite
  PROVE  BootInv'
  <1>1. repair.op = "gpt" /\ repair.pc = "second"
    BY DEF GptSecondWrite, In
  <1>2. repair \in GptRepairs /\ GptKept(repair) /\ faults \in Nat
    BY <1>1, InGpt
  <1>3. repair.primary \in Copies /\ repair.backup \in Copies /\ repair.fromBackup \in BOOLEAN
    BY <1>1, <1>2 DEF GptRepairs, GptKept
  <1> DEFINE p == IF repair.fromBackup THEN EntriesWritten(repair.primary, repair.backup) ELSE repair.primary
             b == IF repair.fromBackup THEN repair.backup ELSE HeaderWritten(repair.backup, repair.primary)
  <1>4. repair' = [op |-> "gpt", pc |-> "done", ok |-> TRUE, primary |-> p, backup |-> b, was |-> repair.was,
                   fromBackup |-> repair.fromBackup]
    BY <1>1, <1>2, <1>3 DEF GptSecondWrite, Ends, Goes, GptRepairs
  <1>5. p \in Copies /\ b \in Copies
        /\ (repair.fromBackup => b = repair.backup)
        /\ (~repair.fromBackup => p = repair.primary)
    BY <1>3, WrittenCopies
  <1>6. GptSource(repair).header = TRUE
    BY <1>1, <1>2, <1>3 DEF GptKept, GptSource, Copies
  <1>7. p.header = TRUE /\ b.header = TRUE /\ p.crc = b.crc /\ p.entries = b.entries
    <2>1. CASE repair.fromBackup
      <3>1. p = EntriesWritten(repair.primary, repair.backup) /\ b = repair.backup
        BY <2>1
      <3>2. repair.primary.header = TRUE /\ repair.primary.crc = repair.backup.crc /\ repair.backup.header = TRUE
        BY <1>1, <1>2, <1>3, <1>6, <2>1 DEF GptKept, GptSource, Copies
      <3>3. /\ EntriesWritten(repair.primary, repair.backup).header = repair.primary.header
            /\ EntriesWritten(repair.primary, repair.backup).crc = repair.primary.crc
            /\ EntriesWritten(repair.primary, repair.backup).entries = repair.backup.entries
        <4>1. PICK x \in Copies, y \in Copies : x = repair.primary /\ y = repair.backup
          BY <1>3
        <4> QED BY <4>1, WrittenCopies
      <3> HIDE DEF p, b
      <3> QED BY <3>1, <3>2, <3>3, Zenon
    <2>2. CASE ~repair.fromBackup
      <3>1. p = repair.primary /\ b = HeaderWritten(repair.backup, repair.primary)
        BY <2>2
      <3>2. repair.backup.entries = repair.primary.entries /\ repair.primary.header = TRUE
        BY <1>1, <1>2, <1>3, <1>6, <2>2 DEF GptKept, GptSource, Copies
      <3>3. /\ HeaderWritten(repair.backup, repair.primary).crc = repair.primary.crc
            /\ HeaderWritten(repair.backup, repair.primary).entries = repair.backup.entries
        BY <1>3 DEF HeaderWritten, Copies
      <3>4. HeaderWritten(repair.backup, repair.primary).header = TRUE
        BY <1>3 DEF HeaderWritten, Copies
      <3> HIDE DEF p, b
      <3> QED BY <3>1, <3>2, <3>3, <3>4, Zenon
    <2> QED BY <2>1, <2>2
  <1>8. UNCHANGED <<job, faults>>
    BY DEF GptSecondWrite, Ends, Goes
  <1> HIDE DEF p, b
  <1>9. p = b
    BY <1>5, <1>7, SameCopy
  <1>10. /\ repair' \in GptRepairs /\ repair'.pc = "done" /\ repair'.primary = p
         /\ repair'.backup = b /\ repair'.was = repair.was /\ repair'.fromBackup = repair.fromBackup
    BY <1>2, <1>4, <1>5 DEF GptRepairs
  <1> QED BY <1>1, <1>2, <1>5, <1>7, <1>8, <1>9, <1>10, GptWriteFrame

\* A write that fails touches only the copy that is rebuilt.
LEMMA GptWriteFailsInv ==
  ASSUME BootInv, GptWriteFails
  PROVE  BootInv'
  <1>1. repair.op = "gpt" /\ repair.pc \in {"first", "second"}
    BY DEF GptWriteFails
  <1>2. repair \in GptRepairs /\ GptKept(repair) /\ faults \in Nat
    BY <1>1, InGpt
  <1>3. repair.primary \in Copies /\ repair.backup \in Copies /\ repair.fromBackup \in BOOLEAN
    BY <1>1, <1>2 DEF GptRepairs, GptKept
  <1>4. faults' \in Nat /\ faults' >= faults /\ UNCHANGED job
    BY <1>2 DEF GptWriteFails, FailsWith, Fault
  <1>5. CASE FailsWith(repair)
    BY <1>1, <1>4, <1>5, GptEndInv DEF FailsWith
  <1>6. CASE repair.fromBackup /\ FailsWith([repair EXCEPT !.primary.entries = 0])
    <2> DEFINE p == [repair.primary EXCEPT !.entries = 0]
    <2>1. p \in Copies
      BY <1>3 DEF Copies
    <2>2. repair' = [op |-> "gpt", pc |-> "done", ok |-> FALSE, primary |-> p, backup |-> repair.backup,
                     was |-> repair.was, fromBackup |-> repair.fromBackup]
      BY <1>1, <1>2, <1>6 DEF FailsWith, GptRepairs
    <2> HIDE DEF p
    <2>3. /\ repair' \in GptRepairs /\ repair'.pc = "done" /\ repair'.ok = FALSE /\ repair'.primary = p
          /\ repair'.backup = repair.backup /\ repair'.was = repair.was /\ repair'.fromBackup = repair.fromBackup
      BY <1>2, <1>3, <2>1, <2>2 DEF GptRepairs
    <2> QED BY <1>1, <1>4, <1>6, <2>3, GptWriteFrame
  <1>7. CASE ~repair.fromBackup /\ FailsWith([repair EXCEPT !.backup.entries = 0])
    <2> DEFINE b == [repair.backup EXCEPT !.entries = 0]
    <2>1. b \in Copies
      BY <1>3 DEF Copies
    <2>2. repair' = [op |-> "gpt", pc |-> "done", ok |-> FALSE, primary |-> repair.primary, backup |-> b,
                     was |-> repair.was, fromBackup |-> repair.fromBackup]
      BY <1>1, <1>2, <1>7 DEF FailsWith, GptRepairs
    <2> HIDE DEF b
    <2>3. /\ repair' \in GptRepairs /\ repair'.pc = "done" /\ repair'.ok = FALSE /\ repair'.primary = repair.primary
          /\ repair'.backup = b /\ repair'.was = repair.was /\ repair'.fromBackup = repair.fromBackup
      BY <1>2, <1>3, <2>1, <2>2 DEF GptRepairs
    <2> QED BY <1>1, <1>4, <1>7, <2>3, GptWriteFrame
  <1> QED BY <1>5, <1>6, <1>7 DEF GptWriteFails

-----------------------------------------------------------------------------
(* The boot sector                                                         *)

\* The invariant of a boot sector repair is that of its record.
LEMMA BootSectorFrame ==
  ASSUME BootInv, NEW r \in BootSectorRepairs, repair' = r, UNCHANGED job, HasWork, faults' \in Nat,
         r.pc = "done" /\ r.ok => r.now.signature /\ (r.now.ntfs \/ r.now.jump)
  PROVE  BootInv'
  <1>1. repair' # NoRepair /\ repair'.op = "bootsector"
    BY DEF BootSectorRepairs, NoRepair
  <1> QED BY <1>1 DEF BootInv, RepairTypeOK, RepairedMeans, HasWork

\* A boot sector repair begins with the sector as it is found.
LEMMA BootSectorBeginInv ==
  ASSUME BootInv, NEW sectors \in Nat, BeginBootSector(sectors)
  PROVE  BootInv'
  <1>1. PICK now \in BootSectors, copy \in BootSectors :
          repair' = [op |-> "bootsector", pc |-> "begin", ok |-> FALSE, sectors |-> sectors, now |-> now, copy |-> copy]
    BY DEF BeginBootSector, Goes
  <1>2. repair' \in BootSectorRepairs /\ repair'.pc = "begin"
    BY <1>1 DEF BootSectorRepairs
  <1>3. UNCHANGED <<job, faults>> /\ HasWork /\ faults \in Nat
    BY DEF BeginBootSector, Goes, Due, HasWork, BootInv, RepairTypeOK
  <1> QED BY <1>2, <1>3, BootSectorFrame

\* The steps of the boot sector repair.
LEMMA BootSectorInv ==
  ASSUME BootInv, repairBootSector \/ BootSectorRefused \/ BootSectorFails
  PROVE  BootInv'
  <1>0. RepairTypeOK /\ repair.op = "bootsector"
    BY DEF BootInv, repairBootSector, BootSectorRefused, BootSectorFails, In
  <1>1. repair \in BootSectorRepairs /\ HasWork /\ faults \in Nat
    BY <1>0, RepairKinds DEF RepairTypeOK, NoRepair
  <1>2. CASE repairBootSector
    <2> DEFINE w == [repair EXCEPT !.now = repair.copy]
               r == [w EXCEPT !.pc = "done", !.ok = TRUE]
    <2>1. w \in BootSectorRepairs /\ w.now = repair.copy
      BY <1>1 DEF BootSectorRepairs
    <2>2. r \in BootSectorRepairs /\ r.now = repair.copy
      BY <2>1 DEF BootSectorRepairs
    <2>3. repair' = r /\ UNCHANGED <<job, faults>> /\ BackupAccepted(repair)
      BY <1>2 DEF repairBootSector, Ends, Goes
    <2> HIDE DEF r, w
    <2> QED BY <1>1, <2>2, <2>3, BootSectorFrame DEF BackupAccepted
  <1>3. CASE BootSectorRefused \/ BootSectorFails
    <2> DEFINE r == [repair EXCEPT !.pc = "done", !.ok = FALSE]
    <2>1. r \in BootSectorRepairs /\ r.ok = FALSE
      BY <1>1 DEF BootSectorRepairs
    <2>2. repair' = r /\ UNCHANGED job
      BY <1>3 DEF BootSectorRefused, BootSectorFails, Ends, Goes, FailsWith
    <2>3. faults' \in Nat
      BY <1>1, <1>3 DEF BootSectorRefused, BootSectorFails, Ends, Goes, FailsWith, Fault
    <2> HIDE DEF r
    <2> QED BY <1>1, <2>1, <2>2, <2>3, BootSectorFrame
  <1> QED BY <1>2, <1>3

-----------------------------------------------------------------------------
(* The BCD store                                                           *)

\* The invariant of a repair of the store is that of its record.
LEMMA BcdFrame ==
  ASSUME BootInv, NEW r \in BcdRepairs, repair' = r, UNCHANGED job, HasWork, faults' \in Nat,
         r.pc = "done" /\ r.ok => r.store.exists /\ r.store.loaders > 0
  PROVE  BootInv'
  <1>1. repair' # NoRepair /\ repair'.op = "bcd"
    BY DEF BcdRepairs, NoRepair
  <1> QED BY <1>1 DEF BootInv, RepairTypeOK, RepairedMeans, HasWork

\* A BCD repair begins with the store as it is found.
LEMMA BcdBeginInv ==
  ASSUME BootInv, BeginBcd
  PROVE  BootInv'
  <1>1. PICK s \in Stores :
          repair' = [op |-> "bcd", pc |-> IF job.auto /\ s.exists THEN "done" ELSE "createstore", ok |-> FALSE,
                     store |-> s, was |-> s]
    BY DEF BeginBcd, Goes
  <1>2. s \in [exists : BOOLEAN, manager : BOOLEAN, loaders : Nat]
    <2>1. CASE s \in [exists : {TRUE}, manager : BOOLEAN, loaders : 0..1]
      <3>1. s = [exists |-> s.exists, manager |-> s.manager, loaders |-> s.loaders]
        BY <2>1
      <3>2. s.exists \in BOOLEAN /\ s.manager \in BOOLEAN
        BY <2>1, Zenon
      <3>3. s.loaders \in Nat
        BY <2>1
      <3> QED BY <3>1, <3>2, <3>3
    <2>2. CASE s \in [exists : {FALSE}, manager : {FALSE}, loaders : {0}]
      <3>1. s = [exists |-> s.exists, manager |-> s.manager, loaders |-> s.loaders]
        BY <2>2
      <3>2. s.exists \in BOOLEAN /\ s.manager \in BOOLEAN
        BY <2>2, Zenon
      <3>3. s.loaders \in Nat
        BY <2>2
      <3> QED BY <3>1, <3>2, <3>3
    <2> QED BY <2>1, <2>2 DEF Stores
  <1>3. repair' \in BcdRepairs /\ repair'.ok = FALSE
    BY <1>1, <1>2 DEF BcdRepairs, BcdCommands
  <1>4. UNCHANGED <<job, faults>> /\ HasWork /\ faults \in Nat
    BY DEF BeginBcd, Goes, Due, HasWork, BootInv, RepairTypeOK
  <1> QED BY <1>3, <1>4, BcdFrame

\* A command makes a store of a store; the last that works adds an entry.
LEMMA CommandedStore ==
  ASSUME NEW s \in [exists : BOOLEAN, manager : BOOLEAN, loaders : Nat], NEW pc \in BcdCommands
  PROVE  /\ Commanded(pc, s) \in [exists : BOOLEAN, manager : BOOLEAN, loaders : Nat]
         /\ pc = "osloader" /\ s.exists => Commanded(pc, s).exists /\ Commanded(pc, s).loaders > 0
  <1>1. CASE pc = "createstore"
    BY <1>1 DEF Commanded
  <1>2. CASE pc = "bootmgr"
    BY <1>2 DEF Commanded
  <1>3. CASE pc = "osloader"
    BY <1>3 DEF Commanded
  <1>4. CASE pc \in {"set", "rebuildbcd"}
    BY <1>4 DEF Commanded
  <1> QED BY <1>1, <1>2, <1>3, <1>4 DEF BcdCommands

\* The steps of the BCD repair, command by command.
LEMMA BcdInv ==
  ASSUME BootInv, RunBcdedit \/ BcdeditFails
  PROVE  BootInv'
  <1>0. RepairTypeOK /\ repair.op = "bcd" /\ repair.pc # "done"
    BY DEF BootInv, RunBcdedit, BcdeditFails, InBcd
  <1>1. repair \in BcdRepairs /\ HasWork /\ faults \in Nat
    BY <1>0, RepairKinds DEF RepairTypeOK, NoRepair
  <1>2. repair.pc \in BcdCommands /\ repair.store \in [exists : BOOLEAN, manager : BOOLEAN, loaders : Nat]
    BY <1>0, <1>1 DEF BcdRepairs
  <1>3. \A ok \in BOOLEAN : AfterCommand(repair.pc, ok) \in BcdCommands \cup {"done"}
    BY <1>2 DEF AfterCommand, BcdCommands
  <1>4. AfterCommand(repair.pc, TRUE) = "done" /\ CommandWorks(repair.pc, repair.store) =>
          repair.pc = "osloader" /\ repair.store.exists
    BY <1>2 DEF AfterCommand, CommandWorks, BcdCommands
  <1>5. CommandWorks(repair.pc, repair.store) \in BOOLEAN
    BY <1>2 DEF CommandWorks, BcdCommands
  <1>6. CASE RunBcdedit
    <2> DEFINE works == CommandWorks(repair.pc, repair.store)
               st == IF works THEN Commanded(repair.pc, repair.store) ELSE repair.store
               r == [repair EXCEPT !.pc = AfterCommand(@, works), !.ok = works, !.store = st]
    <2>1. repair' = r /\ UNCHANGED <<job, faults>>
      BY <1>6 DEF RunBcdedit, Goes
    <2>2. st \in [exists : BOOLEAN, manager : BOOLEAN, loaders : Nat]
      BY <1>2, CommandedStore
    <2>3. r \in BcdRepairs /\ r.pc = AfterCommand(repair.pc, works) /\ r.ok = works /\ r.store = st
      BY <1>1, <1>3, <1>5, <2>2 DEF BcdRepairs
    <2>4. works /\ AfterCommand(repair.pc, works) = "done" => st.exists /\ st.loaders > 0
      BY <1>2, <1>4, <1>5, CommandedStore
    <2> HIDE DEF r, st, works
    <2> QED BY <1>1, <2>1, <2>3, <2>4, BcdFrame
  <1>7. CASE BcdeditFails
    <2>1. PICK late \in {FALSE, CommandWorks(repair.pc, repair.store)} :
            repair' = [repair EXCEPT !.pc = AfterCommand(@, FALSE), !.ok = FALSE,
                                     !.store = IF late THEN Commanded(repair.pc, @) ELSE @]
      BY <1>7 DEF BcdeditFails
    <2> DEFINE st == IF late THEN Commanded(repair.pc, repair.store) ELSE repair.store
               r == [repair EXCEPT !.pc = AfterCommand(@, FALSE), !.ok = FALSE, !.store = st]
    <2>2. repair' = r
      BY <2>1
    <2>3. st \in [exists : BOOLEAN, manager : BOOLEAN, loaders : Nat]
      BY <1>2, CommandedStore
    <2>4. r \in BcdRepairs /\ r.ok = FALSE
      BY <1>1, <1>3, <2>3 DEF BcdRepairs
    <2>5. UNCHANGED job /\ faults' \in Nat
      BY <1>1, <1>7 DEF BcdeditFails, Fault
    <2> HIDE DEF r, st
    <2> QED BY <1>1, <2>2, <2>4, <2>5, BcdFrame
  <1> QED BY <1>6, <1>7

-----------------------------------------------------------------------------
(* The boot loader                                                         *)

\* The invariant of a repair of the loader is that of its record.
LEMMA LoaderFrame ==
  ASSUME BootInv, NEW r \in LoaderRepairs, repair' = r, UNCHANGED job, HasWork, faults' \in Nat,
         r.pc = "begin" => r.esp = r.was,
         r.pc = "done" /\ r.ok => {"bootmgfw"} \cup r.was \subseteq r.esp
  PROVE  BootInv'
  <1>1. repair' # NoRepair /\ repair'.op = "loader"
    BY DEF LoaderRepairs, NoRepair
  <1> QED BY <1>1 DEF BootInv, RepairTypeOK, RepairedMeans, HasWork

\* A boot loader repair begins with the files as they are found.
LEMMA LoaderBeginInv ==
  ASSUME BootInv, BeginLoader
  PROVE  BootInv'
  <1>1. PICK esp \in EspFiles, windows \in WindowsFiles :
          repair' = [op |-> "loader", pc |-> IF job.auto /\ "bootmgfw" \in esp THEN "done" ELSE "begin",
                     ok |-> FALSE, esp |-> esp, windows |-> windows, was |-> esp]
    BY DEF BeginLoader, Goes
  <1>2. esp \in SUBSET {"bootmgfw", "BCD", "bootmgr", "bootx64"}
    BY DEF EspFiles
  <1>3. repair' \in LoaderRepairs /\ repair'.ok = FALSE /\ repair'.esp = repair'.was
    BY <1>1, <1>2 DEF LoaderRepairs
  <1>4. UNCHANGED <<job, faults>> /\ HasWork /\ faults \in Nat
    BY DEF BeginLoader, Goes, Due, HasWork, BootInv, RepairTypeOK
  <1> QED BY <1>3, <1>4, LoaderFrame

\* The steps of the boot loader repair.
LEMMA LoaderInv ==
  ASSUME BootInv, repairBootloader \/ BootloaderRefused \/ BootloaderFails
  PROVE  BootInv'
  <1>0. RepairTypeOK /\ repair.op = "loader" /\ repair.pc = "begin"
    BY DEF BootInv, repairBootloader, BootloaderRefused, BootloaderFails, In
  <1>1. repair \in LoaderRepairs /\ HasWork /\ faults \in Nat
    BY <1>0, RepairKinds DEF RepairTypeOK, NoRepair
  <1>2. repair.esp = repair.was /\ repair.was \in EspFiles /\ repair.windows \in WindowsFiles
    BY <1>0, <1>1 DEF BootInv, LoaderRepairs
  <1>3. Copied(repair.esp, repair.windows) \in SUBSET {"bootmgfw", "BCD", "bootmgr", "bootx64"}
    BY <1>2 DEF Copied, EspFiles, WindowsFiles
  <1>4. ASSUME NEW esp \in SUBSET {"bootmgfw", "BCD", "bootmgr", "bootx64"}, {"bootmgfw"} \cup repair.was \subseteq esp,
               repair' = [repair EXCEPT !.pc = "done", !.ok = TRUE, !.esp = esp], UNCHANGED job, faults' \in Nat
        PROVE  BootInv'
    <2>1. repair' \in LoaderRepairs /\ repair'.pc = "done" /\ repair'.esp = esp /\ repair'.was = repair.was
      BY <1>1, <1>4 DEF LoaderRepairs
    <2> QED BY <1>1, <1>4, <2>1, LoaderFrame
  <1>5. ASSUME repair' = [repair EXCEPT !.pc = "done", !.ok = FALSE], UNCHANGED job, faults' \in Nat
        PROVE  BootInv'
    <2>1. repair' \in LoaderRepairs /\ repair'.pc = "done" /\ repair'.ok = FALSE
      BY <1>1, <1>5 DEF LoaderRepairs
    <2> QED BY <1>1, <1>5, <2>1, LoaderFrame
  <1>6. CASE repairBootloader
    <2>1. repair' = [repair EXCEPT !.pc = "done", !.ok = TRUE, !.esp = Copied(repair.esp, repair.windows)]
      BY <1>1, <1>6 DEF repairBootloader, Ends, Goes, LoaderRepairs
    <2>2. {"bootmgfw"} \cup repair.was \subseteq Copied(repair.esp, repair.windows)
      BY <1>2 DEF Copied
    <2> QED BY <1>1, <1>3, <1>4, <1>6, <2>1, <2>2 DEF repairBootloader, Ends, Goes
  <1>7. CASE BootloaderRefused
    BY <1>1, <1>5, <1>7 DEF BootloaderRefused, Ends, Goes
  <1>8. CASE BootloaderFails
    <2>1. faults' \in Nat /\ UNCHANGED job
      BY <1>1, <1>8 DEF BootloaderFails, FailsWith, Fault
    <2>2. CASE FailsWith(repair)
      BY <1>5, <2>1, <2>2 DEF FailsWith
    <2>3. CASE \E lost \in {"bootx64", "bootmgr", "BCD"} :
                 repair' = [repair EXCEPT !.pc = "done", !.ok = TRUE,
                                          !.esp = Copied(@, repair.windows) \ ({lost} \ @)]
      <3>1. PICK lost \in {"bootx64", "bootmgr", "BCD"} :
              repair' = [repair EXCEPT !.pc = "done", !.ok = TRUE,
                                       !.esp = Copied(@, repair.windows) \ ({lost} \ @)]
        BY <2>3
      <3> DEFINE esp == Copied(repair.esp, repair.windows) \ ({lost} \ repair.esp)
      <3>2. repair' = [repair EXCEPT !.pc = "done", !.ok = TRUE, !.esp = esp]
        BY <3>1
      <3>3. esp \in SUBSET {"bootmgfw", "BCD", "bootmgr", "bootx64"}
        BY <1>3
      <3>4. {"bootmgfw"} \cup repair.was \subseteq esp
        BY <1>2 DEF Copied
      <3> HIDE DEF esp
      <3> QED BY <1>4, <2>1, <3>2, <3>3, <3>4
    <2> QED BY <1>8, <2>2, <2>3 DEF BootloaderFails
  <1> QED BY <1>6, <1>7, <1>8

-----------------------------------------------------------------------------
(* The job                                                                 *)

\* A job's list is a sequence; a job that goes on has one the shorter.
LEMMA JobInv ==
  ASSUME BootInv, RepairDone \/ JobDone \/ SkipGpt
  PROVE  BootInv'
  <1>0. RepairTypeOK /\ faults \in Nat
    BY DEF BootInv, RepairTypeOK
  <1>1. job.on => job \in [on : {TRUE}, todo : Seq(RepairNames), auto : BOOLEAN, gpt : BOOLEAN]
    <2>1. job = NoJob => ~job.on
      BY DEF NoJob
    <2> QED BY <1>0, <2>1 DEF RepairTypeOK
  <1>2. ASSUME NEW g \in BOOLEAN, HasWork, job' = [job EXCEPT !.todo = Tail(@), !.gpt = g]
        PROVE  job' \in [on : {TRUE}, todo : Seq(RepairNames), auto : BOOLEAN, gpt : BOOLEAN]
    <2>1. job \in [on : {TRUE}, todo : Seq(RepairNames), auto : BOOLEAN, gpt : BOOLEAN] /\ job.todo # <<>>
      BY <1>1, <1>2 DEF HasWork
    <2>2. Tail(job.todo) \in Seq(RepairNames)
      BY <2>1, HeadTailProperties
    <2> QED BY <1>2, <2>1, <2>2
  <1>3. CASE RepairDone
    <2>1. repair # NoRepair /\ HasWork
      BY <1>0, <1>3 DEF RepairDone, RepairTypeOK
    <2> DEFINE g == IF repair.op = "mbr" THEN repair.read /\ repair.was.gpt ELSE job.gpt
    <2>2. g \in BOOLEAN
      <3>1. CASE repair.op = "mbr"
        <4>1. repair \in MbrRepairs
          BY <1>0, <3>1, RepairKinds
        <4> QED BY <3>1, <4>1 DEF MbrRepairs, Mbrs
      <3> QED BY <1>1, <2>1, <3>1 DEF HasWork
    <2>3. job' = [job EXCEPT !.todo = Tail(@), !.gpt = g] /\ repair' = NoRepair /\ faults' = faults
      BY <1>3 DEF RepairDone
    <2> HIDE DEF g
    <2> QED BY <1>0, <1>2, <2>1, <2>2, <2>3, NoRepairInv
  <1>4. CASE JobDone
    BY <1>0, <1>4, NoRepairInv DEF JobDone
  <1>5. CASE SkipGpt
    <2>1. HasWork /\ repair' = NoRepair /\ faults' = faults
      BY <1>5 DEF SkipGpt, Due, HasWork
    <2>2. job \in [on : {TRUE}, todo : Seq(RepairNames), auto : BOOLEAN, gpt : BOOLEAN]
      BY <1>1, <2>1 DEF HasWork
    <2>3. job' = [job EXCEPT !.todo = Tail(@), !.gpt = job.gpt] /\ job.gpt \in BOOLEAN
      BY <1>5, <2>2 DEF SkipGpt
    <2> QED BY <1>0, <1>2, <2>1, <2>3, NoRepairInv
  <1> QED BY <1>3, <1>4, <1>5

\* Every step of a repair keeps the invariant.
LEMMA RepairStepInv == ASSUME BootInv, RepairStep PROVE BootInv'
  BY JobInv, MbrInv, GptBeginInv, GptCheckInv, GptReadInv, GptFirstInv, GptSecondInv, GptWriteFailsInv,
     BootSectorInv, BcdBeginInv, BcdInv, LoaderBeginInv, LoaderInv DEF RepairStep

-----------------------------------------------------------------------------
(* The tab                                                                 *)

\* A set of naturals that is not empty has a least member.
LEMMA Least == ASSUME NEW S \in SUBSET Nat, S # {} PROVE \E m \in S : \A n \in S : m <= n
  <1> DEFINE R == {p \in Nat \X Nat : p[1] < p[2]}
  <1>1. OpToRel(<, Nat) = R
    BY DEF OpToRel
  <1>2. IsWellFoundedOn(R, Nat)
    BY <1>1, NatLessThanWellFounded
  <1>3. PICK x \in S : \A y \in S : ~ (<<y, x>> \in R)
    BY <1>2, WFMin
  <1>4. \A y \in S : ~(y < x)
    BY <1>3
  <1> QED BY <1>4, x \in S

\* The partition whose boot sector is repaired is one of the boot disk.
LEMMA BeginBootSectorsInv == ASSUME BootInv, BeginBootSectors PROVE BootInv'
  <1> DEFINE S == {v[2] : v \in Repairable}
             vol == CHOOSE v \in Repairable : \A w \in Repairable : v[2] <= w[2]
  <1>1. S \in SUBSET Nat /\ S # {}
    BY TabAssumption DEF Repairable
  <1>2. PICK m \in S : \A n \in S : m <= n
    BY <1>1, Least
  <1>3. \E v \in Repairable : \A w \in Repairable : v[2] <= w[2]
    BY <1>2
  <1>4. vol \in Repairable
    BY <1>3
  <1>5. Volumes[vol].size \in Nat
    BY <1>4, TabAssumption DEF Repairable
  <1>6. BeginBootSector(Volumes[vol].size)
    BY DEF BeginBootSectors
  <1> HIDE DEF vol
  <1> QED BY <1>5, <1>6, BootSectorBeginInv

\* A new job has no repair under way.
LEMMA StartsInv ==
  ASSUME BootInv, ~job.on, NEW todo \in Seq(RepairNames), NEW auto \in BOOLEAN, Starts(todo, auto),
         UNCHANGED <<repair, faults>>
  PROVE  BootInv'
  <1>1. repair = NoRepair /\ faults \in Nat
    BY DEF BootInv, RepairTypeOK, HasWork
  <1>2. job' \in [on : {TRUE}, todo : Seq(RepairNames), auto : BOOLEAN, gpt : BOOLEAN]
    BY DEF Starts
  <1> QED BY <1>1, <1>2, NoRepairInv

\* A scan fails to read some number of things.
LEMMA FailingCounts ==
  ASSUME NEW content, NEW r \in Readings(content)
  PROVE  Failing(r) \in Nat
  <1>1. IsFiniteSet(Lbas)
    BY FS_Interval, ScanAssumption DEF Lbas
  <1>2. IsFiniteSet(Held(content))
    BY <1>1, FS_Subset DEF Held
  <1>3. r.missed \in SUBSET Held(content) /\ r.unsized \in SUBSET Held(content)
    BY DEF Readings
  <1>4. IsFiniteSet(r.missed) /\ IsFiniteSet(r.unsized)
    BY <1>2, <1>3, FS_Subset
  <1>5. Cardinality(r.missed) \in Nat /\ Cardinality(r.unsized) \in Nat
    BY <1>4, FS_CardinalityType
  <1> QED BY <1>5 DEF Failing

\* Every step of the tab keeps the invariant.
LEMMA RNextInv == BootInv /\ [RNext]_rvars => BootInv'
  <1> SUFFICES ASSUME BootInv, [RNext]_rvars PROVE BootInv'
    OBVIOUS
  <1>0. faults \in Nat
    BY DEF BootInv, RepairTypeOK
  <1>1. ASSUME UNCHANGED bvars PROVE BootInv'
    BY <1>0, <1>1, FaultsInv DEF bvars
  <1>2. CASE onStartBootRepair
    <2>1. PICK todo \in {Repairs} \cup {<<Repairs[i]>> : i \in 1..Len(Repairs)} : Starts(todo, FALSE)
      BY <1>2 DEF onStartBootRepair
    <2>2. Repairs \in Seq(RepairNames)
      BY DEF Repairs, RepairNames
    <2>3. \A i \in 1..Len(Repairs) : Repairs[i] \in RepairNames
      BY <2>2, ElementOfSeq
    <2>4. \A i \in 1..Len(Repairs) : <<Repairs[i]>> \in Seq(RepairNames)
      BY <2>3
    <2>5. todo \in Seq(RepairNames)
      BY <2>2, <2>4, Zenon
    <2> QED BY <1>2, <2>1, <2>5, StartsInv DEF onStartBootRepair
  <1>3. CASE callAutoRepair
    <2>1. <<"mbr", "gpt", "bcd", "loader">> \in Seq(RepairNames)
      BY DEF RepairNames
    <2> QED BY <1>3, <2>1, StartsInv DEF callAutoRepair, autoRepair
  <1>4. CASE BootStep
    BY <1>4, RepairStepInv, BeginBootSectorsInv DEF BootStep
  <1>5. CASE FileStep
    <2>1. CASE RecoverNext
      <3>1. UNCHANGED <<job, repair>> /\ (faults' = faults \/ faults' = faults + 1)
        BY <2>1 DEF RecoverNext, Fault
      <3> QED BY <1>0, <3>1, FaultsInv
    <2>2. CASE RecoverFilesEnd
      BY <1>1, <2>2 DEF RecoverFilesEnd
    <2> QED BY <1>5, <2>1, <2>2 DEF FileStep
  <1>6. CASE Select \/ refreshDisks \/ OtherWrite \/ onStartPartitionScan \/ onRecoverSelectedPartitions
             \/ onStartFileRecoveryScan \/ onRecoverSelectedFiles
    BY <1>1, <1>6 DEF Select, refreshDisks, OtherWrite, onStartPartitionScan, onRecoverSelectedPartitions,
                      onStartFileRecoveryScan, onRecoverSelectedFiles
  <1>9. CASE PartitionScanStores
    <2>1. PICK i \in 1..Len(Disks) : \E r \in Readings(Disks[i]) : faults' = faults + Failing(r)
      BY <1>9 DEF PartitionScanStores
    <2>2. PICK r \in Readings(Disks[i]) : faults' = faults + Failing(r)
      BY <2>1
    <2>3. Failing(r) \in Nat
      BY FailingCounts
    <2>4. UNCHANGED <<job, repair>> /\ faults' \in Nat /\ faults' >= faults
      BY <1>0, <1>9, <2>2, <2>3 DEF PartitionScanStores
    <2> QED BY <2>4, FaultsInv
  <1>7. CASE PartitionScanFails \/ PartitionScanFinished \/ PartStep \/ ScanStep
    BY <1>1, <1>7 DEF PartStep, ScanStep, PartitionScanFails, PartitionScanFinished, RecoverPartition,
                      RecoverPartitionsEnd, FileScanStores, FileScanFails, FileScanFinished
  <1>8. CASE UNCHANGED rvars
    BY <1>1, <1>8 DEF rvars
  <1> QED BY <1>2, <1>3, <1>4, <1>5, <1>6, <1>7, <1>8, <1>9 DEF RNext, ThreadStep, PartScanStep

\* The inductive invariant of the boot repairs, in every state of the tab.
THEOREM BootInvariant == RSpec => []BootInv
  <1>1. RInit => BootInv
    BY BootInit DEF RInit
  <1> QED BY <1>1, RNextInv, PTL DEF RSpec

\* After every single write of repairGpt() a disk that had a usable copy of the
\* GPT has one, unless it was rebuilt from damaged entries; and autoRepair()
\* writes over no usable copy that it could read.
THEOREM OneGoodGptAlways == RSpec => []OneGoodGpt
  <1>1. BootInv => OneGoodGpt
    <2> SUFFICES ASSUME BootInv, repair.op = "gpt" PROVE OneGoodGpt
      BY DEF OneGoodGpt
    <2>1. repair \in GptRepairs /\ GptKept(repair) /\ faults \in Nat
      BY InGpt
    <2>2. repair.pc \in {"check", "begin", "first", "second", "done"}
      BY <2>1 DEF GptRepairs
    <2>3. ASSUME job.auto, faults = 0
          PROVE  /\ Good(repair.was.primary) => repair.primary = repair.was.primary
                 /\ Good(repair.was.backup) => repair.backup = repair.was.backup
      BY <2>1, <2>2, <2>3 DEF GptKept, Untouched, Good
    <2>4. ASSUME Good(repair.was.primary) \/ Good(repair.was.backup), ~FromDamagedEntries(repair)
          PROVE  Good(repair.primary) \/ Good(repair.backup)
      <3>1. CASE Good(IF repair.fromBackup THEN repair.was.backup ELSE repair.was.primary)
        BY <2>1, <3>1 DEF GptKept
      <3>2. CASE job.auto /\ ~(faults > 0)
        BY <2>1, <2>3, <2>4, <3>2
      <3> QED BY <2>4, <3>1, <3>2 DEF FromDamagedEntries
    <2> QED BY <2>3, <2>4 DEF OneGoodGpt
  <1> QED BY <1>1, BootInvariant, PTL

\* A repair that is reported as done has done what it is for, whatever commands,
\* copies and reads failed on the way.
THEOREM RepairedMeansRepaired == RSpec => []RepairedMeans
  <1>1. BootInv => RepairedMeans
    BY DEF BootInv
  <1> QED BY <1>1, BootInvariant, PTL

-----------------------------------------------------------------------------
(* The scan for partitions                                                 *)

\* Ordered lists the members of a set among the first n numbers in increasing
\* order, each of them once.
LEMMA OrderedIs ==
  ASSUME NEW W, NEW n \in Nat
  PROVE  /\ Ordered(W, n) \in Seq({i \in 1..n : i \in W})
         /\ \A j, k \in 1..Len(Ordered(W, n)) : j < k => Ordered(W, n)[j] < Ordered(W, n)[k]
         /\ \A i \in 1..n : i \in W => \E k \in 1..Len(Ordered(W, n)) : Ordered(W, n)[k] = i
  <1> DEFINE Extend(q, m) == IF m \in W THEN Append(q, m) ELSE q
             Up(f, p) == /\ f \in [0..p -> Seq(Nat)]
                         /\ f[0] = <<>>
                         /\ \A m \in 1..p : f[m] = Extend(f[m - 1], m)
             ListsTo(q, m) == /\ q \in Seq({i \in 1..m : i \in W})
                              /\ \A j, k \in 1..Len(q) : j < k => q[j] < q[k]
                              /\ \A i \in 1..m : i \in W => \E k \in 1..Len(q) : q[k] = i
  <1> HIDE DEF Extend, Up, ListsTo
  <1>1. \A p \in Nat : \E f : Up(f, p)
    <2> DEFINE None == {p \in Nat : ~ \E f : Up(f, p)}
    <2>1. SUFFICES ASSUME None # {} PROVE FALSE
      OBVIOUS
    <2>2. PICK p \in None : \A o \in None : p <= o
      BY <2>1, Least
    <2>3. \E f : Up(f, 0)
      <3>1. Up([m \in 0..0 |-> <<>>], 0) BY DEF Up
      <3> QED BY <3>1
    <2>4. p # 0 /\ p - 1 \in Nat
      BY <2>2, <2>3
    <2>5. PICK f : Up(f, p - 1)
      <3>1. p - 1 \notin None
        <4>1. ~(p <= p - 1) BY <2>4
        <4> QED BY <4>1, <2>2
      <3> QED BY <3>1, <2>4
    <2> DEFINE g == [m \in 0..p |-> IF m = p THEN Extend(f[p - 1], p) ELSE f[m]]
    <2>6. f[p - 1] \in Seq(Nat) BY <2>4, <2>5 DEF Up
    <2>7. Extend(f[p - 1], p) \in Seq(Nat) BY <2>4, <2>6, AppendProperties DEF Extend
    <2>8. g \in [0..p -> Seq(Nat)] BY <2>5, <2>4, <2>7 DEF Up
    <2>9. g[0] = <<>> /\ g[p] = Extend(f[p - 1], p) /\ \A m \in 0..(p-1) : g[m] = f[m] BY <2>4, <2>5 DEF Up
    <2>10. ASSUME NEW m \in 1..p PROVE g[m] = Extend(g[m - 1], m)
      <3>1. m - 1 \in 0..(p - 1) /\ g[m - 1] = f[m - 1] BY <2>9, <2>4
      <3>2. CASE m = p BY <3>1, <3>2, <2>9
      <3>3. CASE m # p
        <4>1. m \in 1..(p - 1) BY <3>3, <2>4
        <4> QED BY <4>1, <3>1, <2>9, <2>5 DEF Up
      <3> QED BY <3>2, <3>3
    <2>11. Up(g, p) BY <2>8, <2>9, <2>10 DEF Up
    <2> HIDE DEF g
    <2> QED BY <2>11, <2>2
  <1>2. PICK f : Up(f, n) BY <1>1
  <1> DEFINE G == CHOOSE upTo : upTo = [m \in 0..n |-> IF m = 0 THEN <<>> ELSE IF m \in W THEN Append(upTo[m - 1], m) ELSE upTo[m - 1]]
  <1>3. f = [m \in 0..n |-> IF m = 0 THEN <<>> ELSE IF m \in W THEN Append(f[m - 1], m) ELSE f[m - 1]]
    <2>1. ASSUME NEW m \in 0..n PROVE f[m] = IF m = 0 THEN <<>> ELSE IF m \in W THEN Append(f[m - 1], m) ELSE f[m - 1]
      <3>1. CASE m = 0 BY <3>1, <1>2 DEF Up
      <3>2. CASE m # 0
        <4>1. m \in 1..n BY <3>2
        <4> QED BY <4>1, <3>2, <1>2 DEF Up, Extend
      <3> QED BY <3>1, <3>2
    <2> QED BY <2>1, <1>2 DEF Up
  <1>4. G = [m \in 0..n |-> IF m = 0 THEN <<>> ELSE IF m \in W THEN Append(G[m - 1], m) ELSE G[m - 1]]
    BY <1>3
  <1>5. Ordered(W, n) = G[n]
    BY DEF Ordered
  <1> HIDE DEF G
  <1>6. \A m \in 0..n : ListsTo(G[m], m)
    <2> DEFINE Bad == {m \in 0..n : ~ListsTo(G[m], m)}
    <2>1. SUFFICES ASSUME Bad # {} PROVE FALSE
      OBVIOUS
    <2>2. Bad \in SUBSET Nat OBVIOUS
    <2>3. PICK m \in Bad : \A o \in Bad : m <= o
      BY <2>1, <2>2, Least
    <2>4. G[0] = <<>> BY <1>4
    <2>5. ListsTo(G[0], 0) BY <2>4 DEF ListsTo
    <2>6. m \in 1..n /\ m - 1 \in 0..n /\ m - 1 \notin Bad
      <3>1. m # 0 BY <2>3, <2>5
      <3>2. m \in 1..n /\ m - 1 \in 0..n /\ ~(m <= m - 1) BY <3>1, <2>3
      <3> QED BY <3>2, <2>3
    <2>7. ListsTo(G[m - 1], m - 1) BY <2>6
    <2>8. G[m] = Extend(G[m - 1], m)
      <3>1. m \in 0..n /\ m # 0 BY <2>6
      <3>2. G[m] = IF m = 0 THEN <<>> ELSE IF m \in W THEN Append(G[m - 1], m) ELSE G[m - 1] BY <3>1, <1>4
      <3> QED BY <3>1, <3>2 DEF Extend
    <2> DEFINE q == G[m - 1]
    <2>9. CASE m \notin W
      <3>1. G[m] = q BY <2>8, <2>9 DEF Extend
      <3>2. \A i \in 1..m : i \in W => i \in 1..(m - 1) BY <2>6, <2>9
      <3>3. {i \in 1..m : i \in W} = {i \in 1..(m - 1) : i \in W} BY <3>2, <2>6
      <3>4. ListsTo(q, m) BY <2>7, <3>2, <3>3 DEF ListsTo
      <3> QED BY <3>1, <3>4, <2>3
    <2>10. CASE m \in W
      <3> DEFINE r == Append(q, m)
      <3>0. q \in Seq({i \in 1..(m - 1) : i \in W}) /\ Len(q) \in Nat BY <2>7 DEF ListsTo
      <3>1. G[m] = r BY <2>8, <2>10 DEF Extend
      <3>2. q \in Seq({i \in 1..m : i \in W})
        <4>1. {i \in 1..(m - 1) : i \in W} \subseteq {i \in 1..m : i \in W} BY <2>6
        <4> QED BY <3>0, <4>1
      <3>3. /\ r \in Seq({i \in 1..m : i \in W}) /\ Len(r) = Len(q) + 1 /\ r[Len(q) + 1] = m
            /\ \A k \in 1..Len(q) : r[k] = q[k]
        BY <2>6, <2>10, <3>2, AppendProperties
      <3>4. \A k \in 1..Len(q) : q[k] \in 1..(m - 1) BY <3>0
      <3>5. \A j, k \in 1..Len(r) : j < k => r[j] < r[k]
        <4> SUFFICES ASSUME NEW j \in 1..Len(r), NEW k \in 1..Len(r), j < k PROVE r[j] < r[k] OBVIOUS
        <4>1. j \in 1..Len(q) /\ r[j] = q[j] /\ q[j] \in 1..(m - 1) BY <3>3, <3>4, <3>0
        <4>2. CASE k = Len(q) + 1 BY <4>1, <4>2, <3>3, <2>6
        <4>3. CASE k # Len(q) + 1
          <5>1. k \in 1..Len(q)
            <6>1. Len(q) \in Nat /\ Len(r) = Len(q) + 1 /\ k \in 1..Len(r) BY <3>0, <3>3
            <6> HIDE DEF r
            <6> QED BY <6>1, <4>3
          <5> QED BY <5>1, <4>1, <3>3, <2>7 DEF ListsTo
        <4> QED BY <4>2, <4>3
      <3>6. ASSUME NEW i \in 1..m, i \in W PROVE \E k \in 1..Len(r) : r[k] = i
        <4>1. CASE i = m
          <5>1. Len(q) + 1 \in 1..Len(r) BY <3>3, <3>0
          <5> QED BY <5>1, <4>1, <3>3
        <4>2. CASE i # m
          <5>1. i \in 1..(m - 1) BY <4>2, <2>6
          <5>2. PICK k \in 1..Len(q) : q[k] = i BY <5>1, <3>6, <2>7 DEF ListsTo
          <5>3. k \in 1..Len(r) /\ r[k] = i BY <5>2, <3>3, <3>0
          <5> QED BY <5>3
        <4> QED BY <4>1, <4>2
      <3>7. ListsTo(r, m) BY <3>3, <3>5, <3>6 DEF ListsTo
      <3> QED BY <3>1, <3>7, <2>3
    <2> QED BY <2>9, <2>10
  <1>7. ListsTo(G[n], n) BY <1>6
  <1> QED BY <1>5, <1>7 DEF ListsTo

\* r has the elements of s at the positions in W, in their order: at[k] is where
\* the k-th of them was.
IsKept(r, s, W, at) ==
  /\ at \in Seq(W)
  /\ Len(r) = Len(at)
  /\ r = [k \in 1..Len(at) |-> s[at[k]]]
  /\ \A j, k \in 1..Len(at) : j < k => at[j] < at[k]
  /\ \A i \in W : \E k \in 1..Len(at) : at[k] = i

\* That is what Kept keeps.
LEMMA KeptIs ==
  ASSUME NEW s, Len(s) \in Nat, NEW W \in SUBSET (1..Len(s))
  PROVE  \E at : IsKept(Kept(s, W), s, W, at)
  <1> DEFINE at == Ordered(W, Len(s))
  <1>1. {i \in 1..Len(s) : i \in W} = W
    OBVIOUS
  <1>2. /\ at \in Seq(W)
        /\ \A j, k \in 1..Len(at) : j < k => at[j] < at[k]
        /\ \A i \in 1..Len(s) : i \in W => \E k \in 1..Len(at) : at[k] = i
    BY <1>1, OrderedIs
  <1>3. Kept(s, W) = [k \in 1..Len(at) |-> s[at[k]]]
    BY DEF Kept
  <1> HIDE DEF at
  <1>4. Len(at) \in Nat
    BY <1>2
  <1>5. Len(Kept(s, W)) = Len(at)
    BY <1>3, <1>4
  <1>6. IsKept(Kept(s, W), s, W, at)
    BY <1>2, <1>3, <1>5 DEF IsKept
  <1> QED BY <1>6

\* A pass over the disk: every step-th sector from the first on.
IsPass(s, first, step) ==
  /\ Len(s) \in Nat
  /\ s \in [1..Len(s) -> Lbas]
  /\ \A i \in 1..Len(s) : s[i] = first + (i - 1) * step
  /\ \A i, j \in 1..Len(s) : i < j => s[i] < s[j]
  /\ \A q \in Nat : first + q * step \in Lbas => \E i \in 1..Len(s) : s[i] = first + q * step

\* That is what the sequence of the model is.
LEMMA SteppedIs ==
  ASSUME NEW first \in Nat, NEW step \in Nat \ {0}
  PROVE  IsPass(Stepped(first, step), first, step)
  <1> DEFINE n == (TotalSectors - first + step - 1) \div step
             s == Stepped(first, step)
  <1>1. s = [i \in 1..n |-> first + (i - 1) * step] /\ n \in Int
    BY ScanAssumption DEF Stepped
  <1>2. \A q \in Nat : q + 1 <= n => first + q * step < TotalSectors
    <2> SUFFICES ASSUME NEW q \in Nat, q + 1 <= n PROVE first + q * step < TotalSectors
      OBVIOUS
    <2>1. (q + 1) * step <= TotalSectors - first + step - 1
      BY ScanAssumption
    <2> QED BY <2>1, ScanAssumption
  <1>3. \A q \in Nat : first + q * step < TotalSectors => q + 1 <= n
    <2> SUFFICES ASSUME NEW q \in Nat, first + q * step < TotalSectors PROVE q + 1 <= n
      OBVIOUS
    <2>1. (q + 1) * step <= TotalSectors - first + step - 1
      BY ScanAssumption
    <2> QED BY <2>1, ScanAssumption
  <1> HIDE DEF n, s
  <1>4. Len(s) \in Nat /\ 1..Len(s) = 1..n /\ DOMAIN s = 1..n
    <2>1. CASE n \in Nat
      BY <1>1, <2>1
    <2>2. CASE n < 0
      <3>1. 1..n = 1..0
        BY <1>1, <2>2
      <3>2. s = [i \in 1..0 |-> first + (i - 1) * step]
        BY <1>1, <3>1
      <3>3. Len(s) = 0
        BY <3>2
      <3> QED BY <3>1, <3>2, <3>3
    <2>3. n \in Nat \/ n < 0
      BY <1>1
    <2> QED BY <2>1, <2>2, <2>3
  <1>5. ASSUME NEW i \in 1..Len(s)
        PROVE  s[i] = first + (i - 1) * step /\ s[i] \in Lbas
    <2>1. i \in 1..n
      BY <1>4
    <2>4. i - 1 \in Nat /\ (i - 1) + 1 <= n
      BY <1>1, <2>1
    <2>2. s[i] = first + (i - 1) * step /\ (i - 1) * step \in Nat
      BY <1>1, <2>1, <2>4
    <2>3. first + (i - 1) * step < TotalSectors
      BY <1>2, <2>4
    <2> QED BY <2>2, <2>3, ScanAssumption DEF Lbas
  <1>6. ASSUME NEW i \in 1..Len(s), NEW j \in 1..Len(s), i < j
        PROVE  s[i] < s[j]
    <2>1. (i - 1) * step < (j - 1) * step /\ (i - 1) * step \in Nat /\ (j - 1) * step \in Nat
      BY <1>4, <1>6
    <2> QED BY <1>5, <2>1
  <1>7. ASSUME NEW q \in Nat, first + q * step \in Lbas
        PROVE  \E i \in 1..Len(s) : s[i] = first + q * step
    <2>1. q + 1 \in 1..n
      BY <1>1, <1>3, <1>7, ScanAssumption DEF Lbas
    <2>2. q + 1 \in 1..Len(s)
      BY <1>4, <2>1
    <2>3. s[q + 1] = first + (q + 1 - 1) * step
      BY <1>5, <2>2
    <2> QED BY <2>2, <2>3
  <1>8. /\ Len(s) \in Nat
        /\ s \in [1..Len(s) -> Lbas]
        /\ \A i \in 1..Len(s) : s[i] = first + (i - 1) * step
    BY <1>1, <1>4, <1>5
  <1>9. /\ \A i, j \in 1..Len(s) : i < j => s[i] < s[j]
        /\ \A q \in Nat : first + q * step \in Lbas => \E i \in 1..Len(s) : s[i] = first + q * step
    BY <1>6, <1>7
  <1> QED BY <1>8, <1>9 DEF s, IsPass

\* What a remainder of zero says.
LEMMA Multiples ==
  ASSUME NEW step \in Nat \ {0}
  PROVE  /\ \A q \in Nat : q * step \in Nat /\ (q * step) % step = 0
         /\ \A n \in Nat : n % step = 0 => n \div step \in Nat /\ n = (n \div step) * step
  <1>1. ASSUME NEW q \in Nat PROVE q * step \in Nat /\ (q * step) % step = 0
    OBVIOUS
  <1>2. ASSUME NEW n \in Nat, n % step = 0 PROVE n \div step \in Nat /\ n = (n \div step) * step
    BY <1>2
  <1> QED BY <1>1, <1>2

\* A scan looks at sectors of the disk, at none twice, and at all that its mode
\* promises.
LEMMA ProbedIs ==
  ASSUME NEW mode \in {"quick", "deep"}
  PROVE  LET p == Probed(mode)
         IN /\ p \in Seq(Lbas)
            /\ \A i, j \in 1..Len(p) : p[i] = p[j] => i = j
            /\ \A lba \in Lbas : mode = "deep" \/ lba % AlignStep = 0 \/ lba % CHSStep = 0
                               => \E i \in 1..Len(p) : p[i] = lba
  <1>0. AlignStep \in Nat \ {0} /\ CHSStep \in Nat \ {0} /\ Lbas \subseteq Nat
    BY ScanAssumption DEF Lbas
  <1>1. CASE mode = "deep"
    <2> DEFINE p == Stepped(0, 1)
    <2>0. IsPass(p, 0, 1)
      BY SteppedIs
    <2> HIDE DEF p
    <2>1. /\ Len(p) \in Nat /\ p \in [1..Len(p) -> Lbas]
          /\ \A i, j \in 1..Len(p) : i < j => p[i] < p[j]
          /\ \A q \in Nat : 0 + q * 1 \in Lbas => \E i \in 1..Len(p) : p[i] = 0 + q * 1
      BY <2>0 DEF IsPass
    <2>2. Probed(mode) = p
      BY <1>1 DEF Probed, p
    <2>3. p \in Seq(Lbas)
      BY <2>1
    <2>4. ASSUME NEW i \in 1..Len(p), NEW j \in 1..Len(p), p[i] = p[j] PROVE i = j
      <3>1. p[i] \in Nat /\ p[j] \in Nat
        BY <1>0, <2>1
      <3>2. ~(i < j) /\ ~(j < i)
        BY <2>1, <2>4, <3>1
      <3> QED BY <3>2, <2>1
    <2>5. ASSUME NEW lba \in Lbas PROVE \E i \in 1..Len(p) : p[i] = lba
      <3>1. lba \in Nat /\ 0 + lba * 1 = lba
        BY <1>0
      <3> QED BY <3>1, <2>1
    <2> QED BY <2>2, <2>3, <2>4, <2>5
  <1>2. CASE mode = "quick"
    <2> DEFINE a == Stepped(0, AlignStep)
               c == Stepped(CHSStep, CHSStep)
               W == {i \in 1..Len(c) : c[i] % AlignStep # 0}
               k == Kept(c, W)
               p == a \o k
    <2>0. IsPass(a, 0, AlignStep) /\ IsPass(c, CHSStep, CHSStep)
      BY <1>0, SteppedIs
    <2>3. Probed(mode) = p
      BY <1>2 DEF Probed
    <2> HIDE DEF a, c
    <2>1. /\ Len(a) \in Nat /\ a \in [1..Len(a) -> Lbas]
          /\ \A i \in 1..Len(a) : a[i] = 0 + (i - 1) * AlignStep
          /\ \A i, j \in 1..Len(a) : i < j => a[i] < a[j]
          /\ \A q \in Nat : 0 + q * AlignStep \in Lbas => \E i \in 1..Len(a) : a[i] = 0 + q * AlignStep
      BY <2>0 DEF IsPass
    <2>2. /\ Len(c) \in Nat /\ c \in [1..Len(c) -> Lbas]
          /\ \A i, j \in 1..Len(c) : i < j => c[i] < c[j]
          /\ \A q \in Nat : CHSStep + q * CHSStep \in Lbas => \E i \in 1..Len(c) : c[i] = CHSStep + q * CHSStep
      BY <2>0 DEF IsPass
    <2>4. W \in SUBSET (1..Len(c))
      OBVIOUS
    <2>18. PICK at : IsKept(k, c, W, at)
      BY <2>2, <2>4, KeptIs
    <2> HIDE DEF k, p
    <2>5. /\ at \in Seq(W)
          /\ Len(k) = Len(at)
          /\ k = [m \in 1..Len(at) |-> c[at[m]]]
          /\ \A m, n \in 1..Len(at) : m < n => at[m] < at[n]
          /\ \A i \in W : \E m \in 1..Len(at) : at[m] = i
      BY <2>18 DEF IsKept
    <2>6. Len(at) \in Nat /\ \A m \in 1..Len(at) : at[m] \in W
      BY <2>5
    <2>7. ASSUME NEW m \in 1..Len(k)
          PROVE  at[m] \in 1..Len(c) /\ k[m] = c[at[m]] /\ k[m] \in Lbas /\ k[m] % AlignStep # 0
      BY <2>2, <2>5, <2>6, <2>7
    <2>8. k \in Seq(Lbas)
      BY <2>5, <2>6, <2>7
    <2>9. a \in Seq(Lbas)
      BY <2>1
    <2>10. ASSUME NEW i \in 1..Len(a) PROVE a[i] % AlignStep = 0 /\ a[i] \in Lbas
      <3>1. i - 1 \in Nat
        BY <2>1
      <3>2. a[i] = (i - 1) * AlignStep
        BY <1>0, <2>1, <3>1, Multiples
      <3> QED BY <1>0, <2>1, <3>1, <3>2, Multiples
    <2>11. ASSUME NEW i \in 1..Len(a), NEW j \in 1..Len(a), a[i] = a[j] PROVE i = j
      <3>1. a[i] \in Nat /\ a[j] \in Nat
        BY <1>0, <2>10
      <3>2. ~(i < j) /\ ~(j < i)
        BY <2>1, <2>11, <3>1
      <3> QED BY <3>2, <2>1
    <2>12. ASSUME NEW i \in 1..Len(k), NEW j \in 1..Len(k), k[i] = k[j] PROVE i = j
      <3>1. k[i] \in Nat /\ k[j] \in Nat /\ at[i] \in 1..Len(c) /\ at[j] \in 1..Len(c) /\ c[at[i]] = c[at[j]]
        BY <1>0, <2>7, <2>12
      <3>2. ~(at[i] < at[j]) /\ ~(at[j] < at[i])
        BY <2>2, <2>7, <2>12, <3>1
      <3>3. at[i] = at[j]
        BY <2>2, <3>1, <3>2
      <3>4. at[i] \in Nat /\ at[j] \in Nat /\ ~(at[i] < at[j]) /\ ~(at[j] < at[i])
        BY <2>2, <3>1, <3>3
      <3>5. ~(i < j) /\ ~(j < i)
        BY <2>5, <3>4
      <3> QED BY <3>5, <2>5, <2>6
    <2>13. /\ p \in Seq(Lbas) /\ Len(p) = Len(a) + Len(k)
           /\ \A i \in 1..Len(p) : p[i] = IF i <= Len(a) THEN a[i] ELSE k[i - Len(a)]
      BY <2>8, <2>9, ConcatProperties DEF p
    <2>14. Len(a) \in Nat /\ Len(k) \in Nat
      BY <2>8, <2>9
    <2> HIDE DEF W
    <2>15. ASSUME NEW i \in 1..Len(p), NEW j \in 1..Len(p), p[i] = p[j] PROVE i = j
      <3>1. \A n \in 1..Len(p) : n \in 1..Len(a) \/ (~(n <= Len(a)) /\ n - Len(a) \in 1..Len(k))
        BY <2>13, <2>14
      <3>2. CASE i \in 1..Len(a) /\ j \in 1..Len(a)
        BY <2>11, <2>13, <2>14, <2>15, <3>2
      <3>3. CASE i \in 1..Len(a) /\ ~(j <= Len(a)) /\ j - Len(a) \in 1..Len(k)
        <4>1. p[i] = a[i] /\ p[j] = k[j - Len(a)]
          BY <2>13, <2>14, <3>3
        <4>2. a[i] % AlignStep = 0 /\ k[j - Len(a)] % AlignStep # 0
          BY <2>7, <2>10, <3>3
        <4> QED BY <2>15, <4>1, <4>2
      <3>4. CASE j \in 1..Len(a) /\ ~(i <= Len(a)) /\ i - Len(a) \in 1..Len(k)
        <4>1. p[j] = a[j] /\ p[i] = k[i - Len(a)]
          BY <2>13, <2>14, <3>4
        <4>2. a[j] % AlignStep = 0 /\ k[i - Len(a)] % AlignStep # 0
          BY <2>7, <2>10, <3>4
        <4> QED BY <2>15, <4>1, <4>2
      <3>5. CASE /\ ~(i <= Len(a)) /\ i - Len(a) \in 1..Len(k)
                 /\ ~(j <= Len(a)) /\ j - Len(a) \in 1..Len(k)
        <4>1. i - Len(a) = j - Len(a)
          BY <2>12, <2>13, <2>15, <3>5
        <4> QED BY <4>1, <2>13, <2>14
      <3> QED BY <3>1, <3>2, <3>3, <3>4, <3>5
    <2>16. ASSUME NEW lba \in Lbas, lba % AlignStep = 0 PROVE \E i \in 1..Len(p) : p[i] = lba
      <3> DEFINE q == lba \div AlignStep
      <3>1. q \in Nat /\ lba = q * AlignStep /\ lba = 0 + q * AlignStep
        BY <1>0, <2>16, Multiples
      <3> HIDE DEF q
      <3>2. PICK i \in 1..Len(a) : a[i] = lba
        BY <2>1, <3>1
      <3> QED BY <2>13, <2>14, <3>2
    <2>17. ASSUME NEW lba \in Lbas, lba % CHSStep = 0, lba % AlignStep # 0 PROVE \E i \in 1..Len(p) : p[i] = lba
      <3> DEFINE q == lba \div CHSStep
      <3>1. q \in Nat /\ lba = q * CHSStep
        BY <1>0, <2>17, Multiples
      <3> HIDE DEF q
      <3>2. 0 % AlignStep = 0
        BY <1>0
      <3>3. q # 0
        BY <1>0, <2>17, <3>1, <3>2
      <3>4. q - 1 \in Nat /\ lba = CHSStep + (q - 1) * CHSStep
        BY <1>0, <3>1, <3>3
      <3>5. PICK i \in 1..Len(c) : c[i] = lba
        BY <2>2, <3>4
      <3>6. i \in W
        BY <2>17, <3>5 DEF W
      <3>7. PICK m \in 1..Len(k) : at[m] = i
        BY <2>5, <3>6
      <3>8. k[m] = lba
        BY <2>7, <3>5, <3>7
      <3>9. Len(a) + m \in 1..Len(p) /\ ~(Len(a) + m <= Len(a)) /\ Len(a) + m - Len(a) = m
        BY <2>13, <2>14
      <3> QED BY <2>13, <3>8, <3>9
    <2> QED BY <1>2, <2>3, <2>13, <2>15, <2>16, <2>17
  <1> QED BY <1>1, <1>2

\* Superblocks of a disk, given by what its sectors held, none of them twice and
\* all that the mode promises.
AreFinds(f, held, mode) ==
  /\ Len(f) \in Nat
  /\ \A i \in 1..Len(f) : \E lba \in Lbas : f[i] = probeOffset(held, lba) /\ held[lba].type # "none"
  /\ \A i, j \in 1..Len(f) : f[i].startLba = f[j].startLba => i = j
  /\ \A lba \in Lbas :
       /\ held[lba].type # "none"
       /\ mode = "deep" \/ lba % AlignStep = 0 \/ lba % CHSStep = 0
       => \E i \in 1..Len(f) : f[i].startLba = lba

\* They are what a scan finds.
LEMMA FindsAre ==
  ASSUME NEW held, NEW mode \in {"quick", "deep"}
  PROVE  AreFinds(Finds(held, mode), held, mode)
  <1> DEFINE p == Probed(mode)
             W == {i \in 1..Len(p) : held[p[i]].type # "none"}
             h == Kept(p, W)
             f == Finds(held, mode)
  <1>1. /\ p \in Seq(Lbas)
        /\ \A i, j \in 1..Len(p) : p[i] = p[j] => i = j
        /\ \A lba \in Lbas : mode = "deep" \/ lba % AlignStep = 0 \/ lba % CHSStep = 0
                           => \E i \in 1..Len(p) : p[i] = lba
    BY ProbedIs
  <1>2. f = [i \in 1..Len(h) |-> probeOffset(held, h[i])]
    BY DEF Finds
  <1> HIDE DEF p
  <1>3. PICK at : IsKept(h, p, W, at)
    <2>1. Len(p) \in Nat
      BY <1>1
    <2>2. W \in SUBSET (1..Len(p))
      OBVIOUS
    <2> QED BY <2>1, <2>2, KeptIs
  <1> HIDE DEF h, f, W
  <1>4. /\ Len(h) \in Nat
        /\ \A m \in 1..Len(h) : at[m] \in W /\ h[m] = p[at[m]]
        /\ \A m, n \in 1..Len(h) : m < n => at[m] < at[n]
        /\ \A i \in W : \E m \in 1..Len(h) : at[m] = i
    <2>1. at \in Seq(W) /\ Len(h) = Len(at) /\ h = [m \in 1..Len(at) |-> p[at[m]]]
      BY <1>3 DEF IsKept
    <2>2. Len(at) \in Nat /\ \A m \in 1..Len(at) : at[m] \in W
      BY <2>1
    <2>3. \A m \in 1..Len(h) : h[m] = p[at[m]]
      BY <2>1
    <2>4. /\ \A m, n \in 1..Len(h) : m < n => at[m] < at[n]
          /\ \A i \in W : \E m \in 1..Len(h) : at[m] = i
      BY <1>3, <2>1 DEF IsKept
    <2> QED BY <2>1, <2>2, <2>3, <2>4
  <1>5. Len(f) = Len(h) /\ \A i \in 1..Len(f) : f[i] = probeOffset(held, h[i])
    BY <1>2, <1>4
  <1>6. ASSUME NEW i \in 1..Len(f)
        PROVE  /\ at[i] \in 1..Len(p) /\ h[i] = p[at[i]] /\ h[i] \in Lbas
               /\ held[h[i]].type # "none" /\ f[i] = probeOffset(held, h[i]) /\ f[i].startLba = h[i]
    <2>1. at[i] \in W /\ h[i] = p[at[i]]
      BY <1>4, <1>5
    <2>2. at[i] \in 1..Len(p) /\ held[p[at[i]]].type # "none"
      BY <2>1 DEF W
    <2>3. p[at[i]] \in Lbas
      BY <1>1, <2>2
    <2>4. f[i] = probeOffset(held, h[i])
      BY <1>5
    <2>5. f[i].startLba = h[i]
      BY <2>4 DEF probeOffset
    <2> QED BY <2>1, <2>2, <2>3, <2>4, <2>5
  <1>7. ASSUME NEW i \in 1..Len(f), NEW j \in 1..Len(f), f[i].startLba = f[j].startLba PROVE i = j
    <2>6. at[i] \in 1..Len(p) /\ at[j] \in 1..Len(p) /\ p[at[i]] = p[at[j]]
      <3>1. /\ at[i] \in 1..Len(p) /\ h[i] = p[at[i]] /\ f[i].startLba = h[i]
            /\ at[j] \in 1..Len(p) /\ h[j] = p[at[j]] /\ f[j].startLba = h[j]
        BY <1>6
      <3> QED BY <1>7, <3>1
    <2>1. at[i] = at[j] /\ at[i] \in 1..Len(p)
      BY <1>1, <2>6
    <2>2. Len(p) \in Nat
      BY <1>1
    <2>3. ~(at[i] < at[j]) /\ ~(at[j] < at[i])
      BY <2>1, <2>2
    <2>4. i \in 1..Len(h) /\ j \in 1..Len(h)
      BY <1>5
    <2>5. ~(i < j) /\ ~(j < i)
      BY <1>4, <2>3, <2>4
    <2> QED BY <1>4, <2>4, <2>5
  <1>8. ASSUME NEW lba \in Lbas, held[lba].type # "none",
               mode = "deep" \/ lba % AlignStep = 0 \/ lba % CHSStep = 0
        PROVE  \E i \in 1..Len(f) : f[i].startLba = lba
    <2>1. PICK k \in 1..Len(p) : p[k] = lba
      BY <1>1, <1>8
    <2>2. k \in W
      BY <1>8, <2>1 DEF W
    <2>3. PICK m \in 1..Len(h) : at[m] = k
      BY <1>4, <2>2
    <2>4. m \in 1..Len(f)
      BY <1>5
    <2> QED BY <1>6, <2>1, <2>3, <2>4
  <1>9. \A i \in 1..Len(f) : \E lba \in Lbas : f[i] = probeOffset(held, lba) /\ held[lba].type # "none"
    BY <1>6
  <1>10. Len(f) \in Nat
    BY <1>4, <1>5
  <1> QED BY <1>7, <1>8, <1>9, <1>10 DEF f, AreFinds

\* Two extents have a sector in common just when each starts before the end of
\* the other, and neither is empty.
LEMMA CommonSector ==
  ASSUME NEW a \in Nat, NEW m \in Nat, NEW b \in Nat, NEW n \in Nat \ {0}
  PROVE  (a..(a + m - 1)) \cap (b..(b + n - 1)) # {} <=> m # 0 /\ a < b + n /\ b < a + m
  <1>1. ASSUME (a..(a + m - 1)) \cap (b..(b + n - 1)) # {} PROVE m # 0 /\ a < b + n /\ b < a + m
    <2>1. PICK s : s \in a..(a + m - 1) /\ s \in b..(b + n - 1)
      BY <1>1
    <2> QED BY <2>1
  <1>2. ASSUME m # 0, a < b + n, b < a + m PROVE (a..(a + m - 1)) \cap (b..(b + n - 1)) # {}
    <2>1. CASE a <= b
      <3>1. b \in a..(a + m - 1) /\ b \in b..(b + n - 1)
        BY <1>2, <2>1
      <3> QED BY <3>1
    <2>2. CASE b < a
      <3>1. a \in a..(a + m - 1) /\ a \in b..(b + n - 1)
        BY <1>2, <2>2
      <3> QED BY <3>1
    <2> QED BY <2>1, <2>2
  <1> QED BY <1>1, <1>2

\* Marking leaves a find where it is and marks it just when it has a sector in
\* common with a partition that exists.
LEMMA MarkedIs ==
  ASSUME NEW held, NEW lba \in Lbas, held[lba].sectors \in Nat, NEW layout \in SUBSET Existing,
         NEW g \in markOverlaps(probeOffset(held, lba), layout)
  PROVE  /\ g.startLba = lba /\ g.fsType = held[lba].type /\ g.sectorCount = estimatePartitionSize(held[lba])
         /\ g.overlapsExisting
              <=> \E e \in layout : SectorsOfFind(g) \cap (e.start..(e.start + e.count - 1)) # {}
  <1> DEFINE f == probeOffset(held, lba)
             c == estimatePartitionSize(held[lba])
  <1>1. lba \in Nat /\ c \in Nat
    BY ScanAssumption DEF Lbas, estimatePartitionSize
  <1>2. /\ f.startLba = lba /\ f.sectorCount = c /\ f.fsType = held[lba].type
        /\ f.overlapsExisting = FALSE
        /\ DOMAIN f = {"startLba", "sectorCount", "fsType", "confidence", "overlapsExisting"}
    BY DEF probeOffset
  <1>3. \A e \in layout :
          (lba..(lba + c - 1)) \cap (e.start..(e.start + e.count - 1)) # {} <=> c # 0 /\ Meets(f, e)
    <2> SUFFICES ASSUME NEW e \in layout
                 PROVE  (lba..(lba + c - 1)) \cap (e.start..(e.start + e.count - 1)) # {} <=> c # 0 /\ Meets(f, e)
      OBVIOUS
    <2>1. e.start \in Nat /\ e.count \in Nat \ {0}
      BY ScanAssumption
    <2>2. Meets(f, e) <=> lba < e.start + e.count /\ e.start < lba + c
      BY <1>2 DEF Meets
    <2> DEFINE b == e.start
               n == e.count
    <2> HIDE DEF f, c, b, n
    <2>3. b \in Nat /\ n \in Nat \ {0}
      BY <2>1 DEF b, n
    <2>4. (lba..(lba + c - 1)) \cap (b..(b + n - 1)) # {} <=> c # 0 /\ lba < b + n /\ b < lba + c
      BY <1>1, <2>3, CommonSector
    <2> QED BY <2>2, <2>4 DEF b, n
  <1> HIDE DEF f, c
  <1>4. CASE f.sectorCount = 0 \/ \A e \in layout : ~Meets(f, e)
    <2>1. g = f
      BY <1>4 DEF markOverlaps, f
    <2>2. SectorsOfFind(g) = lba..(lba + c - 1)
      BY <1>2, <2>1 DEF SectorsOfFind
    <2> QED BY <1>2, <1>3, <1>4, <2>1, <2>2 DEF c
  <1>5. CASE f.sectorCount # 0 /\ \E e \in layout : Meets(f, e)
    <2>1. PICK e \in layout :
            Meets(f, e) /\ g = [f EXCEPT !.overlapsExisting = TRUE,
                                !.confidence = IF e.start = f.startLba /\ e.count = f.sectorCount THEN 10 ELSE @]
      BY <1>5 DEF markOverlaps, f
    <2>2. g.startLba = lba /\ g.sectorCount = c /\ g.fsType = held[lba].type /\ g.overlapsExisting = TRUE
      BY <1>2, <2>1
    <2>3. SectorsOfFind(g) = lba..(lba + c - 1)
      BY <2>2 DEF SectorsOfFind
    <2> QED BY <1>2, <1>3, <1>5, <2>1, <2>2, <2>3 DEF c
  <1> QED BY <1>4, <1>5

-----------------------------------------------------------------------------
(* The partition scan of the tab                                           *)

\* Where the tab's finds come from: a scan of one of the disks in one of the
\* modes.
ScanInv ==
  /\ pscan.on => pscan.mode \in {"quick", "deep"}
  /\ found # NotScanned =>
       /\ found.disk \in 1..Len(Disks) /\ found.mode \in {"quick", "deep"}
       /\ found.read \in Readings(Disks[found.disk])
       /\ parts \in scan(Seen(Disks[found.disk], found.read.missed, found.read.unsized), found.mode,
                         Layout(found.read.layout))

\* Every step of the tab keeps it: what a thread stores is the result of a scan.
LEMMA ScanInvNext == ScanInv /\ [RNext]_rvars => ScanInv'
  <1> SUFFICES ASSUME ScanInv, [RNext]_rvars PROVE ScanInv'
    OBVIOUS
  <1>1. ASSUME UNCHANGED <<pscan, parts, found>> PROVE ScanInv'
    BY <1>1 DEF ScanInv
  <1>2. CASE onStartPartitionScan
    BY <1>2 DEF onStartPartitionScan, ScanInv
  <1>3. CASE PartitionScanStores
    <2>6. PICK i \in 1..Len(Disks) : \E r \in Readings(Disks[i]) :
            /\ found' = [disk |-> i, mode |-> pscan.mode, read |-> r]
            /\ parts' \in ScanResults[pscan.mode][i][r] \ {<<>>}
      BY <1>3 DEF PartitionScanStores
    <2>1. PICK r \in Readings(Disks[i]) :
            /\ found' = [disk |-> i, mode |-> pscan.mode, read |-> r]
            /\ parts' \in ScanResults[pscan.mode][i][r] \ {<<>>}
      BY <2>6
    <2>2. pscan.on /\ pscan.mode \in {"quick", "deep"} /\ pscan' = [pscan EXCEPT !.stored = TRUE]
      BY <1>3 DEF PartitionScanStores, ScanInv
    <2>3. parts' \in scan(Seen(Disks[i], r.missed, r.unsized), pscan.mode, Layout(r.layout))
      BY <2>1, <2>2 DEF ScanResults
    <2>4. found'.disk = i /\ found'.mode = pscan.mode /\ found'.read = r
      BY <2>1
    <2>5. pscan'.on => pscan'.mode \in {"quick", "deep"}
      BY <2>2
    <2> QED BY <2>2, <2>3, <2>4, <2>5 DEF ScanInv
  <1>4. CASE PartitionScanFails
    BY <1>4 DEF PartitionScanFails, ScanInv
  <1>5. CASE PartitionScanFinished
    BY <1>5 DEF PartitionScanFinished, ScanInv, Off
  <1>6. CASE PartStep
    BY <1>1, <1>6 DEF PartStep, RecoverPartition, RecoverPartitionsEnd, pvars
  <1>7. CASE Select \/ refreshDisks \/ OtherWrite \/ onRecoverSelectedPartitions
    BY <1>1, <1>7 DEF Select, refreshDisks, OtherWrite, onRecoverSelectedPartitions, pvars
  <1>8. CASE onStartFileRecoveryScan \/ onRecoverSelectedFiles
    BY <1>1, <1>8 DEF onStartFileRecoveryScan, onRecoverSelectedFiles, pvars
  <1>9. CASE onStartBootRepair \/ callAutoRepair \/ BootStep
    BY <1>1, <1>9 DEF onStartBootRepair, callAutoRepair, BootStep, pvars
  <1>10. CASE ScanStep \/ FileStep
    BY <1>1, <1>10 DEF ScanStep, FileStep, FileScanStores, FileScanFails, FileScanFinished, RecoverNext,
                       RecoverFilesEnd, pvars
  <1>11. CASE UNCHANGED rvars
    BY <1>1, <1>11 DEF rvars, pvars
  <1> QED BY <1>2, <1>3, <1>4, <1>5, <1>6, <1>7, <1>8, <1>9, <1>10, <1>11
          DEF RNext, ThreadStep, PartScanStep

\* What a scan returns is what ScanFindsOnce says of the tab's finds.
LEMMA ScanInvFindsOnce == ScanInv => ScanFindsOnce
  <1> SUFFICES ASSUME ScanInv, found # NotScanned PROVE ScanFindsOnce
    BY DEF ScanFindsOnce
  <1> DEFINE content == Disks[found.disk]
             missed == found.read.missed
             unsized == found.read.unsized
             layout == Layout(found.read.layout)
             held == Seen(content, missed, unsized)
             mode == found.mode
             f == Finds(held, mode)
  <1>1. mode \in {"quick", "deep"} /\ parts \in scan(held, mode, layout) /\ layout \in SUBSET Existing
    BY DEF ScanInv, Layout
  <1>8. /\ content \in [Lbas -> [type : STRING, sectors : Nat]]
        /\ missed \in SUBSET Held(content) /\ unsized \in SUBSET Held(content) /\ missed \cap unsized = {}
        /\ found.read.layout \in BOOLEAN
    BY DisksAssumption DEF ScanInv, Readings
  <1> HIDE DEF content, missed, unsized
  <1>9. /\ \A lba \in Lbas : held[lba].sectors \in Nat
        /\ \A lba \in Lbas : held[lba].type # "none" <=> lba \in Held(content) \ missed
        /\ \A lba \in Held(content) \ missed : held[lba].type = content[lba].type
        /\ \A lba \in Held(content) \ (missed \cup unsized) : held[lba] = content[lba]
        /\ \A lba \in Held(content) : lba \in Lbas
    <2>1. ASSUME NEW lba \in Lbas
          PROVE  held[lba] = IF lba \in missed THEN [type |-> "none", sectors |-> 0]
                             ELSE IF lba \in unsized THEN [type |-> content[lba].type, sectors |-> 0] ELSE content[lba]
      BY DEF Seen, NoSuperblock, Superblock
    <2> HIDE DEF held
    <2>4. \A lba \in Lbas : lba \in Held(content) <=> content[lba].type # "none"
      BY DEF Held
    <2>6. \A lba \in Held(content) : lba \in Lbas
      BY DEF Held
    <2>7. ASSUME NEW lba \in Lbas
          PROVE  /\ lba \in missed => held[lba].type = "none"
                 /\ lba \notin missed => held[lba].type = content[lba].type
                 /\ held[lba].sectors \in Nat
      <3>1. lba \in missed => held[lba] = [type |-> "none", sectors |-> 0]
        BY <2>1
      <3>2. lba \notin missed /\ lba \in unsized => held[lba] = [type |-> content[lba].type, sectors |-> 0]
        BY <2>1
      <3>3. lba \notin missed /\ lba \notin unsized => held[lba] = content[lba]
        BY <2>1
      <3> QED BY <1>8, <3>1, <3>2, <3>3
    <2> QED BY <1>8, <2>1, <2>4, <2>6, <2>7
  <1>7. AreFinds(f, held, mode)
    BY <1>1, FindsAre
  <1> HIDE DEF f
  <1>3. /\ Len(f) \in Nat
        /\ \A i \in 1..Len(f) : \E lba \in Lbas : f[i] = probeOffset(held, lba) /\ held[lba].type # "none"
        /\ \A i, j \in 1..Len(f) : f[i].startLba = f[j].startLba => i = j
        /\ \A lba \in Lbas :
             /\ held[lba].type # "none"
             /\ mode = "deep" \/ lba % AlignStep = 0 \/ lba % CHSStep = 0
             => \E i \in 1..Len(f) : f[i].startLba = lba
    BY <1>7 DEF AreFinds
  <1>4. DOMAIN parts = 1..Len(f) /\ Len(parts) = Len(f) /\ \A i \in 1..Len(f) : parts[i] \in markOverlaps(f[i], layout)
    <2>1. parts \in [1..Len(f) -> UNION {markOverlaps(f[i], layout) : i \in 1..Len(f)}]
          /\ \A i \in 1..Len(f) : parts[i] \in markOverlaps(f[i], layout)
      BY <1>1 DEF scan, f
    <2> QED BY <1>3, <2>1
  <1> HIDE DEF held
  <1>5. ASSUME NEW i \in 1..Len(parts)
        PROVE  /\ parts[i].startLba = f[i].startLba
               /\ parts[i].startLba \in Held(content) /\ content[parts[i].startLba].type = parts[i].fsType
               /\ parts[i].startLba \notin unsized => parts[i].sectorCount = estimatePartitionSize(content[parts[i].startLba])
               /\ parts[i].overlapsExisting
                    <=> /\ found.read.layout
                        /\ \E e \in Existing : SectorsOfFind(parts[i]) \cap (e.start..(e.start + e.count - 1)) # {}
    <2>1. PICK lba \in Lbas : f[i] = probeOffset(held, lba) /\ held[lba].type # "none"
      BY <1>3, <1>4
    <2>2. f[i].startLba = lba /\ lba \in Held(content) \ missed
      BY <1>9, <2>1 DEF probeOffset
    <2>3. parts[i] \in markOverlaps(probeOffset(held, lba), layout)
      BY <1>4, <2>1
    <2> DEFINE g == parts[i]
    <2> HIDE DEF layout, g
    <2>4. /\ g.startLba = lba /\ g.fsType = held[lba].type /\ g.sectorCount = estimatePartitionSize(held[lba])
          /\ g.overlapsExisting <=> \E e \in layout : SectorsOfFind(g) \cap (e.start..(e.start + e.count - 1)) # {}
      BY <1>1, <1>9, <2>3, MarkedIs DEF g
    <2>5. (\E e \in layout : SectorsOfFind(g) \cap (e.start..(e.start + e.count - 1)) # {})
            <=> /\ found.read.layout
                /\ \E e \in Existing : SectorsOfFind(g) \cap (e.start..(e.start + e.count - 1)) # {}
      BY <1>8 DEF layout, Layout
    <2>6. held[lba].type = content[lba].type /\ (lba \notin unsized => held[lba] = content[lba])
      BY <1>9, <2>2
    <2> QED BY <2>2, <2>4, <2>5, <2>6 DEF g
  <1>6. ASSUME NEW lba \in {l \in Held(content) \ missed : Looked(l)}
        PROVE  \E i \in 1..Len(parts) :
                 parts[i].startLba = lba /\ \A j \in 1..Len(parts) \ {i} : parts[j].startLba # lba
    <2>1. PICK i \in 1..Len(f) : f[i].startLba = lba
      BY <1>3, <1>9 DEF Looked
    <2>2. \A j \in 1..Len(f) : f[j].startLba = lba => j = i
      BY <1>3, <2>1
    <2> QED BY <1>4, <1>5, <2>1, <2>2
  <1> QED BY <1>5, <1>6 DEF ScanFindsOnce, content, missed, unsized

\* However the disks are laid out, whatever reads fail and however the scans
\* interleave with all else, a scan for partitions reports each superblock on a
\* sector that it looks at and can read exactly once, and marks just the finds of
\* known size that overlap a partition of the drive layout, or none if it does
\* not get the layout.
THEOREM ScanFindsOnceAlways == RSpec => []ScanFindsOnce
  <1>1. RInit => ScanInv
    BY DEF RInit, ScanInv, Off
  <1> QED BY <1>1, ScanInvNext, ScanInvFindsOnce, PTL DEF RSpec

-----------------------------------------------------------------------------
(* The chain of EBRs                                                       *)

\* f begins with a and follows step, p times.
Follows(f, S, a, step, p) ==
  f \in [0..p -> S] /\ f[0] = a /\ \A n \in 1..p : f[n] = step[f[n - 1]]

\* A function that says what comes next can be followed any number of times.
LEMMA Following ==
  ASSUME NEW S, NEW a \in S, NEW step \in [S -> S], NEW N \in Nat
  PROVE  \E f : Follows(f, S, a, step, N)
  <1> DEFINE Up(f, p) == Follows(f, S, a, step, p)
             Missing == {p \in Nat : ~ \E f : Up(f, p)}
  <1>1. SUFFICES ASSUME Missing # {} PROVE FALSE
    OBVIOUS
  <1> HIDE DEF Up
  <1>2. PICK p \in Missing : \A o \in Missing : p <= o
    <2>1. Missing \in SUBSET Nat
      OBVIOUS
    <2> QED BY <1>1, <2>1, Least
  <1>3. p # 0 /\ p - 1 \in Nat
    <2>1. Up([n \in 0..0 |-> a], 0)
      BY DEF Up, Follows
    <2> QED BY <1>2, <2>1
  <1>4. PICK f : Up(f, p - 1)
    <2>1. ~(p <= p - 1)
      BY <1>3
    <2> QED BY <1>2, <1>3, <2>1
  <1> DEFINE g == [n \in 0..p |-> IF n = p THEN step[f[p - 1]] ELSE f[n]]
  <1>5. f \in [0..(p - 1) -> S] /\ f[p - 1] \in S
    BY <1>3, <1>4 DEF Up, Follows
  <1>6. g \in [0..p -> S]
    BY <1>3, <1>5
  <1>7. g[p] = step[f[p - 1]] /\ \A n \in 0..(p - 1) : g[n] = f[n]
    BY <1>3
  <1> HIDE DEF g
  <1>8. ASSUME NEW n \in 1..p PROVE g[n] = step[g[n - 1]]
    <2>1. n - 1 \in 0..(p - 1) /\ g[n - 1] = f[n - 1]
      BY <1>3, <1>7
    <2>2. CASE n = p
      BY <2>1, <2>2, <1>7
    <2>3. CASE n # p
      <3>1. n \in 1..(p - 1) /\ n \in 0..(p - 1)
        BY <1>3, <2>3
      <3> QED BY <3>1, <2>1, <1>4, <1>7 DEF Up, Follows
    <2> QED BY <2>2, <2>3
  <1>9. Up(g, p)
    BY <1>3, <1>4, <1>6, <1>7, <1>8 DEF Up, Follows
  <1> QED BY <1>2, <1>9

\* The sectors of the disk and of the extended partition.
LEMMA ExtendedLba ==
  /\ Lba = 0..(DiskSectors - 1) /\ DiskSectors \in Nat /\ ExtStart \in Nat \ {0} /\ ExtSize \in Nat
  /\ ExtStart \in Lba /\ ExtSize <= DiskSectors
  /\ 0 \notin InExtended /\ InExtended \subseteq Lba
  /\ \A lba \in Lba : lba \in InExtended <=> lba >= ExtStart /\ lba < ExtStart + ExtSize
  BY ExtAssumption, DiskSectorsAssumption DEF Lba, InExtended

\* A sector of the extended partition.
LEMMA InsideLba == ASSUME NEW lba \in InExtended PROVE lba \in Nat /\ lba \in Lba
  BY ExtendedLba

\* What disk may hold.
ChainDisk == \A s \in Lba : disk[s].k = "ebr" => EbrFields(disk[s])

\* One logical partition of an EBR, or none, as Logicals has them before they
\* are numbered.
Unnumbered == [index : {0}, type : {"basic"}, active : BOOLEAN, logical : {TRUE},
               guid : {0}, start : Nat, count : Nat]
Here(lba) ==
  IF disk[lba].count = 0 THEN <<>>
  ELSE <<Entry(0, "basic", disk[lba].active, TRUE, 0, lba + disk[lba].off, disk[lba].count)>>

\* What an EBR and those after it give, when c says it of those after it.
FromEbr(c, lba) ==
  IF lba \notin InExtended \/ disk[lba].k # "ebr" THEN <<>>
  ELSE Here(lba) \o (IF disk[lba].next = 0 \/ ExtStart + disk[lba].next \notin Lba THEN <<>>
                     ELSE c[ExtStart + disk[lba].next])
Found == [Lba -> Seq(Unnumbered)]

\* What is found from an EBR on is a sequence of partitions if what is found
\* from those after it is.
LEMMA FromEbrFound ==
  ASSUME ChainDisk, NEW c \in Found
  PROVE  [lba \in Lba |-> FromEbr(c, lba)] \in Found
  <1> SUFFICES ASSUME NEW lba \in Lba PROVE FromEbr(c, lba) \in Seq(Unnumbered)
    BY DEF Found
  <1>1. CASE lba \notin InExtended \/ disk[lba].k # "ebr"
    BY <1>1 DEF FromEbr
  <1>2. CASE lba \in InExtended /\ disk[lba].k = "ebr"
    <2>1. disk[lba].active \in BOOLEAN /\ disk[lba].off \in Nat /\ disk[lba].count \in Nat /\ lba \in Nat
      BY <1>2, ExtendedLba DEF ChainDisk, EbrFields
    <2> DEFINE one == Entry(0, "basic", disk[lba].active, TRUE, 0, lba + disk[lba].off, disk[lba].count)
    <2>2. one \in Unnumbered
      <3>1. lba + disk[lba].off \in Nat
        BY <2>1
      <3> QED BY <2>1, <3>1 DEF Entry, Unnumbered
    <2>3. Here(lba) = IF disk[lba].count = 0 THEN <<>> ELSE <<one>>
      BY DEF Here
    <2> HIDE DEF one
    <2>4. Here(lba) \in Seq(Unnumbered)
      BY <2>2, <2>3
    <2> DEFINE rest == IF disk[lba].next = 0 \/ ExtStart + disk[lba].next \notin Lba THEN <<>>
                       ELSE c[ExtStart + disk[lba].next]
    <2>5. rest \in Seq(Unnumbered)
      BY DEF Found
    <2>6. FromEbr(c, lba) = Here(lba) \o rest
      BY <1>2 DEF FromEbr
    <2> HIDE DEF rest
    <2> QED BY <2>4, <2>5, <2>6, ConcatProperties
  <1> QED BY <1>1, <1>2

\* Logicals numbers what the EBRs within its reach give.
IsChain(c) ==
  /\ c \in [0..DiskSectors -> Found]
  /\ \A lba \in Lba : c[0][lba] = <<>>
  /\ \A n \in 1..DiskSectors : \A lba \in Lba : c[n][lba] = FromEbr(c[n - 1], lba)
LEMMA LogicalsNumbered ==
  ASSUME ChainDisk
  PROVE  \E c :
           /\ IsChain(c)
           /\ Logicals(disk, Extended, Primary0) =
                [i \in 1..Len(c[DiskSectors][ExtStart]) |->
                   [c[DiskSectors][ExtStart][i] EXCEPT !.index = Primary0 + i - 1]]
  <1> DEFINE inside(lba) == lba \in Lba /\ lba >= Extended.start /\ lba < Extended.start + Extended.count
             here(lba) == IF disk[lba].count = 0 THEN <<>>
                          ELSE <<Entry(0, "basic", disk[lba].active, TRUE, 0, lba + disk[lba].off, disk[lba].count)>>
             rest(c, lba) == IF disk[lba].next = 0 \/ Extended.start + disk[lba].next \notin Lba THEN <<>>
                             ELSE c[Extended.start + disk[lba].next]
             Chain(f) == [n \in 0..DiskSectors |-> [lba \in Lba |->
                            IF n = 0 \/ ~inside(lba) \/ disk[lba].k # "ebr" THEN <<>>
                            ELSE here(lba) \o rest(f[n - 1], lba)]]
             c0 == [lba \in Lba |-> <<>>]
             step == [c \in Found |-> [lba \in Lba |-> FromEbr(c, lba)]]
             G == CHOOSE chain : chain = Chain(chain)
  <1>1. Extended.start = ExtStart /\ Extended.count = ExtSize
    BY DEF Extended, Entry
  <1>2. c0 \in Found
    BY DEF Found
  <1>3. step \in [Found -> Found]
    BY FromEbrFound
  <1>4. \A f : \A n \in 1..DiskSectors : \A lba \in Lba : Chain(f)[n][lba] = FromEbr(f[n - 1], lba)
    <2> SUFFICES ASSUME NEW f, NEW n \in 1..DiskSectors, NEW lba \in Lba
                 PROVE  Chain(f)[n][lba] = FromEbr(f[n - 1], lba)
      OBVIOUS
    <2>1. n \in 0..DiskSectors /\ n # 0
      BY ExtendedLba
    <2>2. inside(lba) <=> lba \in InExtended
      BY <1>1, ExtendedLba
    <2>3. here(lba) = Here(lba)
      BY DEF Here
    <2>4. rest(f[n - 1], lba) = IF disk[lba].next = 0 \/ ExtStart + disk[lba].next \notin Lba THEN <<>>
                                ELSE f[n - 1][ExtStart + disk[lba].next]
      BY <1>1
    <2> HIDE DEF inside, here, rest
    <2> QED BY <2>1, <2>2, <2>3, <2>4 DEF FromEbr
  <1>5. \A f : Chain(f)[0] = c0
    <2> HIDE DEF inside, here, rest
    <2> QED BY ExtendedLba
  <1>6. PICK f \in [0..DiskSectors -> Found] : f[0] = c0 /\ \A n \in 1..DiskSectors : f[n] = step[f[n - 1]]
    <2> HIDE DEF c0, step
    <2>1. DiskSectors \in Nat
      BY ExtendedLba
    <2>2. \E f : Follows(f, Found, c0, step, DiskSectors)
      BY <1>2, <1>3, <2>1, Following
    <2> QED BY <2>2 DEF Follows
  <1>7. f = Chain(f)
    <2>1. ASSUME NEW n \in 0..DiskSectors PROVE f[n] = Chain(f)[n]
      <3>1. CASE n = 0
        BY <3>1, <1>5, <1>6
      <3>2. CASE n # 0
        <4>1. n \in 1..DiskSectors /\ n - 1 \in 0..DiskSectors
          BY <3>2, ExtendedLba
        <4>2. f[n] = [lba \in Lba |-> FromEbr(f[n - 1], lba)]
          BY <4>1, <1>6
        <4>3. \A lba \in Lba : Chain(f)[n][lba] = FromEbr(f[n - 1], lba)
          <5> HIDE DEF Chain
          <5> QED BY <4>1, <1>4
        <4>4. Chain(f)[n] = [lba \in Lba |-> Chain(f)[n][lba]]
          <5> HIDE DEF inside, here, rest
          <5> QED OBVIOUS
        <4> HIDE DEF Chain
        <4> QED BY <4>2, <4>3, <4>4
      <3> QED BY <3>1, <3>2
    <2>2. Chain(f) = [n \in 0..DiskSectors |-> Chain(f)[n]]
      <3> HIDE DEF inside, here, rest
      <3> QED OBVIOUS
    <2> HIDE DEF Chain
    <2> QED BY <1>6, <2>1, <2>2
  <1>8. G = Chain(G)
    <2> HIDE DEF Chain
    <2> QED BY <1>7
  <1>9. Logicals(disk, Extended, Primary0) =
          [i \in 1..Len(G[DiskSectors][Extended.start]) |->
             [G[DiskSectors][Extended.start][i] EXCEPT !.index = Primary0 + i - 1]]
    BY DEF Logicals
  <1> HIDE DEF G
  <1>11. ASSUME NEW n \in 1..DiskSectors PROVE G[n] = [lba \in Lba |-> FromEbr(G[n - 1], lba)]
    <2>1. n \in 0..DiskSectors
      BY ExtendedLba
    <2>2. \A lba \in Lba : Chain(G)[n][lba] = FromEbr(G[n - 1], lba)
      <3> HIDE DEF Chain
      <3> QED BY <1>4
    <2>3. Chain(G)[n] = [lba \in Lba |-> Chain(G)[n][lba]]
      <3> HIDE DEF inside, here, rest
      <3> QED BY <2>1
    <2> HIDE DEF Chain
    <2> QED BY <2>2, <2>3, <1>8
  <1>10. \A n \in 0..DiskSectors : G[n] \in Found
    <2> DEFINE Bad == {n \in 0..DiskSectors : G[n] \notin Found}
    <2>1. SUFFICES ASSUME Bad # {} PROVE FALSE
      OBVIOUS
    <2>2. Bad \in SUBSET Nat
      OBVIOUS
    <2>3. PICK n \in Bad : \A o \in Bad : n <= o
      BY <2>1, <2>2, Least
    <2>4. CASE n = 0
      <3> HIDE DEF Chain, c0
      <3>1. G[0] = c0
        BY <1>5, <1>8
      <3> QED BY <1>2, <2>3, <2>4, <3>1
    <2>5. CASE n # 0
      <3>1. n - 1 \in 0..DiskSectors /\ n \in 1..DiskSectors /\ ~(n <= n - 1)
        BY <2>3, <2>5, ExtendedLba
      <3>2. G[n - 1] \in Found
        BY <2>3, <3>1
      <3>3. G[n] = [lba \in Lba |-> FromEbr(G[n - 1], lba)]
        BY <1>11, <3>1
      <3> QED BY <2>3, <3>2, <3>3, FromEbrFound
    <2> QED BY <2>4, <2>5, <2>3
  <1>12. G \in [0..DiskSectors -> Found]
    <2>1. G = [n \in 0..DiskSectors |-> G[n]]
      <3>1. Chain(G) = [n \in 0..DiskSectors |-> Chain(G)[n]]
        <4> HIDE DEF inside, here, rest
        <4> QED OBVIOUS
      <3> HIDE DEF Chain
      <3> QED BY <3>1, <1>8
    <2> QED BY <2>1, <1>10
  <1>13. \A lba \in Lba : G[0][lba] = <<>>
    <2>1. G[0] = c0
      <3> HIDE DEF Chain, c0
      <3> QED BY <1>5, <1>8
    <2> QED BY <2>1
  <1>14. \A n \in 1..DiskSectors : \A lba \in Lba : G[n][lba] = FromEbr(G[n - 1], lba)
    <2> SUFFICES ASSUME NEW n \in 1..DiskSectors, NEW lba \in Lba
                 PROVE  G[n][lba] = FromEbr(G[n - 1], lba)
      OBVIOUS
    <2>1. G[n] = [l \in Lba |-> FromEbr(G[n - 1], l)]
      BY <1>11
    <2> QED BY <2>1
  <1> QED BY <1>1, <1>9, <1>12, <1>13, <1>14 DEF IsChain

\* The EBRs that the walk comes to.
IsWay(at) == Follows(at, Nat, ExtStart, [lba \in Nat |-> NextEbr(lba)], ExtSize)

LEMMA ChainEndsOnTheWay ==
  ASSUME ChainDisk
  PROVE  \E at : IsWay(at) /\ (ChainEnds <=> at[ExtSize] \notin InExtended)
  <1> DEFINE Way(f) == [n \in 0..ExtSize |-> IF n = 0 THEN ExtStart ELSE NextEbr(f[n - 1])]
             step == [lba \in Nat |-> NextEbr(lba)]
             at == CHOOSE f : f = Way(f)
  <1>1. ASSUME NEW lba \in Nat PROVE NextEbr(lba) \in Nat
    <2>1. CASE lba \in InExtended /\ disk[lba].k = "ebr" /\ disk[lba].next # 0
      <3>1. disk[lba].next \in Nat
        BY <2>1, ExtendedLba DEF ChainDisk, EbrFields
      <3> QED BY <2>1, <3>1, ExtendedLba DEF NextEbr
    <2>2. CASE ~(lba \in InExtended /\ disk[lba].k = "ebr" /\ disk[lba].next # 0)
      BY <2>2 DEF NextEbr
    <2> QED BY <2>1, <2>2
  <1>2. step \in [Nat -> Nat]
    BY <1>1
  <1>3. ExtStart \in Nat /\ ExtSize \in Nat
    BY ExtendedLba
  <1>4. PICK f : Follows(f, Nat, ExtStart, step, ExtSize)
    <2> HIDE DEF step
    <2> QED BY <1>2, <1>3, Following
  <1>5. f = Way(f)
    <2>1. ASSUME NEW n \in 0..ExtSize PROVE f[n] = IF n = 0 THEN ExtStart ELSE NextEbr(f[n - 1])
      <3>1. CASE n = 0
        BY <3>1, <1>4 DEF Follows
      <3>2. CASE n # 0
        <4>1. n \in 1..ExtSize /\ n - 1 \in 0..ExtSize
          BY <3>2, <1>3
        <4>2. f[n] = step[f[n - 1]] /\ f[n - 1] \in Nat
          <5> HIDE DEF step
          <5> QED BY <4>1, <1>4 DEF Follows
        <4> QED BY <3>2, <4>2
      <3> QED BY <3>1, <3>2
    <2> QED BY <2>1, <1>4 DEF Follows
  <1>6. at = Way(at)
    <2> HIDE DEF Way
    <2> QED BY <1>5
  <1>7. ChainEnds <=> at[ExtSize] \notin InExtended
    BY DEF ChainEnds
  <1> HIDE DEF at
  <1>8. at[0] = ExtStart /\ \A n \in 1..ExtSize : at[n] = NextEbr(at[n - 1])
    BY <1>3, <1>6
  <1>9. \A n \in 0..ExtSize : at[n] \in Nat
    <2>1. SUFFICES ASSUME {n \in 0..ExtSize : at[n] \notin Nat} # {} PROVE FALSE
      OBVIOUS
    <2>2. PICK n \in {n \in 0..ExtSize : at[n] \notin Nat} :
             \A o \in {o \in 0..ExtSize : at[o] \notin Nat} : n <= o
      <3>1. {n \in 0..ExtSize : at[n] \notin Nat} \in SUBSET Nat
        OBVIOUS
      <3> QED BY <2>1, <3>1, Least
    <2>3. n \in 1..ExtSize /\ n - 1 \in 0..ExtSize /\ ~(n <= n - 1)
      BY <2>2, <1>3, <1>8
    <2>4. at[n - 1] \in Nat
      BY <2>2, <2>3
    <2> QED BY <2>2, <2>3, <2>4, <1>1, <1>8
  <1>10. at \in [0..ExtSize -> Nat]
    <2>1. at = [n \in 0..ExtSize |-> at[n]]
      BY <1>6
    <2> QED BY <2>1, <1>9
  <1>11. \A n \in 1..ExtSize : at[n] = step[at[n - 1]]
    <2> SUFFICES ASSUME NEW n \in 1..ExtSize PROVE at[n] = step[at[n - 1]]
      OBVIOUS
    <2>1. n - 1 \in 0..ExtSize
      BY <1>3
    <2> QED BY <2>1, <1>8, <1>9
  <1>12. IsWay(at)
    BY <1>8, <1>10, <1>11 DEF IsWay, Follows
  <1> QED BY <1>7, <1>12

-----------------------------------------------------------------------------
(* The walk                                                                *)

\* f, numbered, is what has been pushed and then r.
Agree(f, l, r) ==
  /\ Len(f) = Len(l) + Len(r)
  /\ \A i \in 1..Len(l) : l[i] = [f[i] EXCEPT !.index = Primary0 + i - 1]
  /\ \A i \in 1..Len(r) : f[Len(l) + i] = r[i]

PushedSet == [index : Nat, type : {"basic"}, active : BOOLEAN, logical : {TRUE},
              guid : {0}, start : Nat, count : Nat]

\* A partition before and after it is numbered.
Numbered(e, n) == [e EXCEPT !.index = n]
AsEntry(index, active, start, count) == Entry(index, "basic", active, TRUE, 0, start, count)
LEMMA EntryNumbered ==
  ASSUME NEW m \in Nat, NEW n \in Nat, NEW a, NEW s \in Nat, NEW k \in Nat
  PROVE  AsEntry(n, a, s, k) = Numbered(AsEntry(m, a, s, k), n)
  <1> DEFINE e == AsEntry(m, a, s, k)
             g == AsEntry(n, a, s, k)
             h == [e EXCEPT !.index = n]
             S == [index : Nat, type : {"basic"}, active : {a}, logical : {TRUE},
                   guid : {0}, start : Nat, count : Nat]
  <1>1. e \in S /\ g \in S /\ g.index = n
    BY DEF AsEntry, Entry
  <1>2. e.active = g.active /\ e.start = g.start /\ e.count = g.count
    BY DEF AsEntry, Entry
  <1> HIDE DEF e, g
  <1>3. h \in S /\ h.index = n
    BY <1>1
  <1>4. h.active = e.active /\ h.start = e.start /\ h.count = e.count
    BY <1>1
  <1>5. h = g
    BY <1>1, <1>2, <1>3, <1>4
  <1> QED BY <1>5 DEF e, g, Numbered

\* The first of the rest is pushed.
LEMMA AgreePush ==
  ASSUME NEW f, NEW l \in Seq(PushedSet), NEW e \in Unnumbered, NEW t \in Seq(Unnumbered),
         Agree(f, l, <<e>> \o t)
  PROVE  Agree(f, Append(l, [e EXCEPT !.index = Primary0 + Len(l)]), t)
  <1> DEFINE p == [e EXCEPT !.index = Primary0 + Len(l)]
             m == Append(l, p)
             r == <<e>> \o t
  <1>1. Len(l) \in Nat /\ Len(t) \in Nat
    OBVIOUS
  <1>2. Len(m) = Len(l) + 1 /\ m[Len(l) + 1] = p /\ \A i \in 1..Len(l) : m[i] = l[i]
    OBVIOUS
  <1>3. Len(r) = Len(t) + 1 /\ r[1] = e /\ \A i \in 1..Len(t) : r[i + 1] = t[i]
    <2>1. <<e>> \in Seq(Unnumbered) /\ Len(<<e>>) = 1 /\ <<e>>[1] = e
      OBVIOUS
    <2>2. Len(r) = Len(<<e>>) + Len(t) /\ r[1] = e
      BY <2>1, <1>1, ConcatProperties
    <2>3. ASSUME NEW i \in 1..Len(t) PROVE r[i + 1] = t[i]
      <3>1. i + 1 \in 1..(1 + Len(t)) /\ ~(i + 1 <= 1) /\ (i + 1) - 1 = i
        BY <1>1
      <3> QED BY <2>1, <3>1, ConcatProperties
    <2> QED BY <2>1, <2>2, <2>3, <1>1
  <1> HIDE DEF p, m, r
  <1>4. Agree(f, l, r)
    BY DEF r
  <1>5. Len(f) = Len(m) + Len(t)
    BY <1>1, <1>2, <1>3, <1>4 DEF Agree
  <1>6. f[Len(l) + 1] = e
    <2>1. 1 \in 1..Len(r)
      BY <1>1, <1>3
    <2> QED BY <2>1, <1>3, <1>4 DEF Agree
  <1>7. ASSUME NEW i \in 1..Len(m) PROVE m[i] = [f[i] EXCEPT !.index = Primary0 + i - 1]
    <2>1. CASE i = Len(l) + 1
      <3>1. Primary0 + i - 1 = Primary0 + Len(l)
        BY <2>1, <1>1, WalkAssumption
      <3> QED BY <2>1, <3>1, <1>2, <1>6 DEF p
    <2>2. CASE i # Len(l) + 1
      <3>1. i \in 1..Len(l)
        BY <2>2, <1>1, <1>2
      <3> QED BY <3>1, <1>2, <1>4 DEF Agree
    <2> QED BY <2>1, <2>2
  <1>8. ASSUME NEW i \in 1..Len(t) PROVE f[Len(m) + i] = t[i]
    <2>1. i + 1 \in 1..Len(r) /\ Len(l) + (i + 1) = Len(m) + i
      BY <1>1, <1>2, <1>3
    <2> QED BY <2>1, <1>3, <1>4 DEF Agree
  <1>9. Agree(f, m, t)
    BY <1>5, <1>7, <1>8 DEF Agree
  <1> QED BY <1>9 DEF m, p

\* What is still to be found from the j-th EBR on.
Rest(c, at, j) == IF at[j] \in InExtended THEN c[DiskSectors - j][at[j]] ELSE <<>>

\* The walk on a chain that ends: it has come to one of the EBRs on the way.
WalkOn(c, at) ==
  LET f == c[DiskSectors][ExtStart] IN
  /\ walk = "on" => \E j \in 0..ExtSize : /\ currentEbrLba = at[j]
                                          /\ Agree(f, logicals, Rest(c, at, j))
  /\ \E r \in Seq(Unnumbered) :
       /\ Agree(f, logicals, r)
       /\ walk = "done" => r = <<>> \/ Len(logicals) = MAX_LOGICAL_PARTITIONS

WalkInv ==
  /\ ChainDisk
  /\ walk \in {"on", "done", "error"}
  /\ logicals \in Seq(PushedSet)
  /\ Len(logicals) <= MAX_LOGICAL_PARTITIONS
  /\ \A c, at : IsChain(c) /\ IsWay(at) /\ at[ExtSize] \notin InExtended => WalkOn(c, at)

\* Where the walk can be, what is left is known.
LEMMA WayKnown ==
  ASSUME ChainDisk, NEW c, IsChain(c), NEW at, IsWay(at), at[ExtSize] \notin InExtended,
         NEW j \in 0..ExtSize
  PROVE  /\ at[0] = ExtStart
         /\ Rest(c, at, j) \in Seq(Unnumbered)
         /\ at[j] \in InExtended => /\ j + 1 \in 0..ExtSize
                                    /\ at[j + 1] = NextEbr(at[j])
                                    /\ Rest(c, at, j) = FromEbr(c[DiskSectors - (j + 1)], at[j])
                                    /\ c[DiskSectors - (j + 1)] \in Found
         /\ \A lba \in Lba : lba \notin InExtended => c[DiskSectors - j][lba] = <<>>
  <1>1. j \in Nat /\ j <= ExtSize /\ DiskSectors \in Nat /\ ExtSize \in Nat /\ ExtSize <= DiskSectors
    BY ExtendedLba
  <1>2. at[0] = ExtStart /\ at[j] \in Nat
    BY <1>1 DEF IsWay, Follows
  <1>3. DiskSectors - j \in 0..DiskSectors
    BY <1>1
  <1>4. c[DiskSectors - j] \in Found
    BY <1>3 DEF IsChain
  <1>5. Rest(c, at, j) \in Seq(Unnumbered)
    <2>1. CASE at[j] \in InExtended
      <3>1. at[j] \in Lba
        BY <2>1, ExtendedLba
      <3> QED BY <2>1, <3>1, <1>4 DEF Rest, Found
    <2>2. CASE at[j] \notin InExtended
      BY <2>2 DEF Rest
    <2> QED BY <2>1, <2>2
  <1>6. ASSUME at[j] \in InExtended
        PROVE  /\ j + 1 \in 0..ExtSize
               /\ at[j + 1] = NextEbr(at[j])
               /\ Rest(c, at, j) = FromEbr(c[DiskSectors - (j + 1)], at[j])
               /\ c[DiskSectors - (j + 1)] \in Found
    <2>1. j # ExtSize
      BY <1>6
    <2>2. j + 1 \in 1..ExtSize /\ (j + 1) - 1 = j /\ j + 1 \in 0..ExtSize
      BY <1>1, <2>1
    <2>3. at[j + 1] = NextEbr(at[j])
      <3>1. at[j + 1] = [lba \in Nat |-> NextEbr(lba)][at[j]]
        BY <2>2 DEF IsWay, Follows
      <3> QED BY <3>1, <1>2
    <2>4. DiskSectors - j \in 1..DiskSectors /\ (DiskSectors - j) - 1 = DiskSectors - (j + 1)
          /\ DiskSectors - (j + 1) \in 0..DiskSectors
      BY <1>1, <2>1
    <2>5. at[j] \in Lba
      BY <1>6, ExtendedLba
    <2>6. c[DiskSectors - j][at[j]] = FromEbr(c[DiskSectors - (j + 1)], at[j])
      BY <2>4, <2>5 DEF IsChain
    <2>7. c[DiskSectors - (j + 1)] \in Found
      BY <2>4 DEF IsChain
    <2> QED BY <1>6, <2>2, <2>3, <2>6, <2>7 DEF Rest
  <1>7. ASSUME NEW lba \in Lba, lba \notin InExtended PROVE c[DiskSectors - j][lba] = <<>>
    <2>1. CASE DiskSectors - j = 0
      BY <2>1 DEF IsChain
    <2>2. CASE DiskSectors - j # 0
      <3>1. DiskSectors - j \in 1..DiskSectors
        BY <2>2, <1>3, <1>1
      <3>2. c[DiskSectors - j][lba] = FromEbr(c[(DiskSectors - j) - 1], lba)
        BY <3>1 DEF IsChain
      <3> QED BY <3>2, <1>7 DEF FromEbr
    <2> QED BY <2>1, <2>2
  <1> QED BY <1>2, <1>5, <1>6, <1>7

\* What an EBR adds, and what is left after it.
LEMMA EbrAgrees ==
  ASSUME ChainDisk, NEW c, IsChain(c), NEW at, IsWay(at), at[ExtSize] \notin InExtended,
         NEW j \in 0..ExtSize, currentEbrLba = at[j], at[j] \in InExtended, disk[at[j]].k = "ebr",
         logicals \in Seq(PushedSet), NEW f, Agree(f, logicals, Rest(c, at, j)), Ebr
  PROVE  /\ logicals' \in Seq(PushedSet)
         /\ disk[at[j]].next # 0 => Agree(f, logicals', Rest(c, at, j + 1))
         /\ disk[at[j]].next = 0 => Agree(f, logicals', <<>>)
  <1> DEFINE lba == at[j]
             e == disk[lba]
             one == Entry(0, "basic", e.active, TRUE, 0, lba + e.off, e.count)
             after == IF e.next = 0 THEN <<>> ELSE Rest(c, at, j + 1)
             d == c[DiskSectors - (j + 1)]
  <1>1. /\ e.active \in BOOLEAN /\ e.off \in Nat /\ e.count \in Nat /\ e.next \in Nat
        /\ lba \in Nat /\ lba \in Lba
    <2>1. lba \in Nat /\ lba \in Lba
      BY InsideLba
    <2>2. EbrFields(e)
      BY <2>1 DEF ChainDisk
    <2> QED BY <2>1, <2>2 DEF EbrFields
  <1>2. j + 1 \in 0..ExtSize /\ at[j + 1] = NextEbr(lba) /\ Rest(c, at, j) = FromEbr(d, lba) /\ d \in Found
    BY WayKnown
  <1>3. after \in Seq(Unnumbered)
    <2>1. Rest(c, at, j + 1) \in Seq(Unnumbered)
      BY <1>2, WayKnown
    <2> QED BY <2>1
  <1>4. Rest(c, at, j) = Here(lba) \o after
    <2> DEFINE rest == IF e.next = 0 \/ ExtStart + e.next \notin Lba THEN <<>> ELSE d[ExtStart + e.next]
    <2>1. Rest(c, at, j) = Here(lba) \o rest
      BY <1>2 DEF FromEbr
    <2>2. CASE e.next = 0
      BY <2>1, <2>2
    <2>3. CASE e.next # 0
      <3>1. at[j + 1] = ExtStart + e.next
        BY <2>3, <1>2 DEF NextEbr
      <3>2. rest = Rest(c, at, j + 1)
        <4>1. CASE ExtStart + e.next \in InExtended
          <5>1. ExtStart + e.next \in Lba
            BY <4>1, ExtendedLba
          <5> QED BY <5>1, <4>1, <3>1, <2>3 DEF Rest
        <4>2. CASE ExtStart + e.next \notin InExtended
          <5>1. Rest(c, at, j + 1) = <<>>
            BY <4>2, <3>1 DEF Rest
          <5>2. ExtStart + e.next \in Lba => d[ExtStart + e.next] = <<>>
            BY <4>2, <1>2, WayKnown
          <5> QED BY <5>1, <5>2
        <4> QED BY <4>1, <4>2
      <3> QED BY <3>2, <2>1, <2>3
    <2> QED BY <2>2, <2>3
  <1>5. logicals' = IF e.count > 0 THEN Append(logicals, Logical(e)) ELSE logicals
    BY DEF Ebr
  <1> HIDE DEF after
  <1>6. logicals' \in Seq(PushedSet) /\ Agree(f, logicals', after)
    <2>1. CASE e.count = 0
      <3>1. Here(lba) = <<>> /\ logicals' = logicals
        BY <2>1, <1>5 DEF Here
      <3>2. <<>> \o after = after
        BY <1>3, ConcatEmptySeq
      <3> QED BY <3>1, <3>2, <1>4
    <2>2. CASE e.count # 0
      <3>1. one \in Unnumbered
        <4>1. lba + e.off \in Nat
          BY <1>1
        <4> QED BY <4>1, <1>1 DEF Entry, Unnumbered
      <3>2. Here(lba) = <<one>>
        BY <2>2 DEF Here
      <3>3. Logical(e) = [one EXCEPT !.index = Primary0 + Len(logicals)]
        <4>1. Logical(e) = Entry(Primary0 + Len(logicals), "basic", e.active, TRUE, 0, lba + e.off, e.count)
          BY DEF Logical
        <4> DEFINE start == lba + e.off
                   n == Primary0 + Len(logicals)
                   active == e.active
                   count == e.count
        <4>2. start \in Nat /\ n \in Nat /\ count \in Nat /\ 0 \in Nat
          BY <1>1, WalkAssumption
        <4> HIDE DEF start, n, active, count
        <4>3. AsEntry(n, active, start, count) = Numbered(AsEntry(0, active, start, count), n)
          BY <4>2, EntryNumbered
        <4> QED BY <4>1, <4>3 DEF start, n, active, count, Numbered, AsEntry
      <3>4. Logical(e) \in PushedSet
        <4>1. Primary0 + Len(logicals) \in Nat
          BY WalkAssumption
        <4> HIDE DEF one
        <4> QED BY <4>1, <3>1, <3>3 DEF Unnumbered, PushedSet
      <3>5. logicals' = Append(logicals, Logical(e))
        <4>1. e.count > 0
          BY <2>2, <1>1
        <4> QED BY <4>1, <1>5
      <3> HIDE DEF one, e
      <3>6. Agree(f, logicals, <<one>> \o after)
        BY <3>2, <1>4
      <3>7. Agree(f, logicals', after)
        BY <3>1, <3>3, <3>5, <3>6, <1>3, AgreePush
      <3> QED BY <3>4, <3>5, <3>7
    <2> QED BY <2>1, <2>2
  <1> QED BY <1>6 DEF after

LEMMA WalkInit == CInit => WalkInv
  <1> SUFFICES ASSUME CInit PROVE WalkInv
    OBVIOUS
  <1>1. ChainDisk
    <2>1. PICK inside \in [InExtended -> Sectors] :
             disk = [s \in Lba |-> IF s \in InExtended THEN inside[s] ELSE Blank]
      BY DEF CInit
    <2> SUFFICES ASSUME NEW s \in Lba, disk[s].k = "ebr" PROVE EbrFields(disk[s])
      BY DEF ChainDisk
    <2>2. CASE s \in InExtended
      <3>1. inside[s] \in Sectors /\ disk[s] = inside[s]
        BY <2>1, <2>2
      <3> QED BY <3>1, SectorsAssumption
    <2>3. CASE s \notin InExtended
      <3>1. disk[s] = Blank
        BY <2>1, <2>3
      <3> QED BY <3>1 DEF Blank
    <2> QED BY <2>2, <2>3
  <1>2. walk = "on" /\ logicals = <<>> /\ currentEbrLba = ExtStart
    BY DEF CInit
  <1>3. logicals \in Seq(PushedSet) /\ Len(logicals) = 0 /\ Len(logicals) <= MAX_LOGICAL_PARTITIONS
    BY <1>2, WalkAssumption
  <1>4. ASSUME NEW c, NEW at, IsChain(c), IsWay(at), at[ExtSize] \notin InExtended
        PROVE  WalkOn(c, at)
    <2> DEFINE f == c[DiskSectors][ExtStart]
    <2>1. 0 \in 0..ExtSize
      BY ExtendedLba
    <2>2. at[0] = ExtStart /\ Rest(c, at, 0) \in Seq(Unnumbered)
      BY <1>1, <1>4, <2>1, WayKnown
    <2>3. f = Rest(c, at, 0)
      <3>1. DiskSectors - 0 = DiskSectors /\ ExtStart \in Lba
        BY ExtendedLba
      <3>2. ExtStart \notin InExtended => c[DiskSectors - 0][ExtStart] = <<>>
        BY <1>1, <1>4, <2>1, <3>1, WayKnown
      <3> QED BY <3>1, <3>2, <2>2 DEF Rest
    <2>4. Agree(f, logicals, Rest(c, at, 0))
      <3> DEFINE r == Rest(c, at, 0)
      <3> HIDE DEF r, f
      <3>1. Len(r) \in Nat /\ f = r
        BY <2>2, <2>3 DEF r
      <3>2. Agree(f, logicals, r)
        BY <3>1, <1>3 DEF Agree
      <3> QED BY <3>2 DEF r
    <2> QED BY <1>2, <2>1, <2>2, <2>4 DEF WalkOn
  <1> QED BY <1>1, <1>2, <1>3, <1>4 DEF WalkInv

LEMMA WalkStep == WalkInv /\ [CNext]_cvars => WalkInv'
  <1> SUFFICES ASSUME WalkInv, [CNext]_cvars PROVE WalkInv'
    OBVIOUS
  <1>0. /\ ChainDisk /\ walk \in {"on", "done", "error"} /\ logicals \in Seq(PushedSet)
        /\ Len(logicals) \in Nat /\ Len(logicals) <= MAX_LOGICAL_PARTITIONS
        /\ MAX_LOGICAL_PARTITIONS \in Nat
    BY WalkAssumption DEF WalkInv
  <1>1. disk' = disk
    BY DEF CNext, Iterate, Limit, OutOfBounds, NoSignature, Ebr, ReadError, cvars
  <1>2. ChainDisk' /\ \A c, at : (IsChain(c)' <=> IsChain(c)) /\ (IsWay(at)' <=> IsWay(at))
    <2>1. ChainDisk'
      BY <1>0, <1>1 DEF ChainDisk
    <2>2. ASSUME NEW c PROVE IsChain(c)' <=> IsChain(c)
      BY <1>1 DEF IsChain, FromEbr, Here
    <2>3. ASSUME NEW at PROVE IsWay(at)' <=> IsWay(at)
      BY <1>1 DEF IsWay, Follows, NextEbr
    <2> QED BY <2>1, <2>2, <2>3
  <1>3. ASSUME NEW c, NEW at, IsChain(c), IsWay(at), at[ExtSize] \notin InExtended,
               logicals' = logicals, walk' = walk, currentEbrLba' = currentEbrLba
        PROVE  WalkOn(c, at)'
    BY <1>1, <1>3 DEF WalkInv, WalkOn, Rest, Agree
  <1>4. CASE UNCHANGED cvars
    BY <1>0, <1>2, <1>3, <1>4 DEF WalkInv, cvars
  <1>5. ASSUME logicals' = logicals, walk' \in {"done", "error"},
               walk' = "done" => \/ Len(logicals) = MAX_LOGICAL_PARTITIONS
                                 \/ \A c, at, j : /\ IsChain(c) /\ IsWay(at) /\ at[ExtSize] \notin InExtended
                                                  /\ j \in 0..ExtSize /\ currentEbrLba = at[j]
                                                  => Rest(c, at, j) = <<>>,
               walk = "on"
        PROVE  WalkInv'
    <2>1. ASSUME NEW c, NEW at, IsChain(c), IsWay(at), at[ExtSize] \notin InExtended
          PROVE  WalkOn(c, at)'
      <3> DEFINE f == c[DiskSectors][ExtStart]
      <3>1. PICK j \in 0..ExtSize : currentEbrLba = at[j] /\ Agree(f, logicals, Rest(c, at, j))
        BY <1>5, <2>1 DEF WalkInv, WalkOn
      <3>2. Rest(c, at, j) \in Seq(Unnumbered)
        BY <1>0, <2>1, WayKnown
      <3>3. walk' = "done" => Rest(c, at, j) = <<>> \/ Len(logicals) = MAX_LOGICAL_PARTITIONS
        BY <1>5, <2>1, <3>1
      <3>4. walk' # "on"
        BY <1>5
      <3> HIDE DEF f
      <3>5. \A r : Agree(f, logicals, r) => Agree(f, logicals', r)
        BY <1>5
      <3> QED BY <3>1, <3>2, <3>3, <3>4, <3>5, <1>5 DEF WalkOn, f, Agree
    <2> QED BY <1>0, <1>2, <1>5, <2>1 DEF WalkInv
  <1>6. CASE Limit
    <2>1. walk = "on" /\ walk' = "done" /\ logicals' = logicals
      BY <1>6 DEF Limit
    <2>2. currentEbrLba = 0 \/ Len(logicals) = MAX_LOGICAL_PARTITIONS
      BY <1>0, <1>6 DEF Limit, Looping
    <2>3. ASSUME NEW c, NEW at, NEW j, currentEbrLba = at[j], currentEbrLba = 0
          PROVE  Rest(c, at, j) = <<>>
      BY <2>3, ExtendedLba DEF Rest
    <2> QED BY <2>1, <2>2, <2>3, <1>5
  <1>7. CASE OutOfBounds
    <2>1. walk = "on" /\ walk' = "done" /\ logicals' = logicals /\ currentEbrLba \notin InExtended
      BY <1>7 DEF OutOfBounds, Looping
    <2>2. ASSUME NEW c, NEW at, NEW j, currentEbrLba = at[j]
          PROVE  Rest(c, at, j) = <<>>
      BY <2>1, <2>2 DEF Rest
    <2> QED BY <2>1, <2>2, <1>5
  <1>8. CASE ReadError
    <2>1. walk = "on" /\ walk' = "error" /\ logicals' = logicals
      BY <1>8 DEF ReadError, Looping
    <2> QED BY <2>1, <1>5
  <1>9. CASE NoSignature
    <2>1. /\ walk = "on" /\ walk' = "done" /\ logicals' = logicals
          /\ currentEbrLba \in InExtended /\ disk[currentEbrLba].k # "ebr"
      BY <1>9 DEF NoSignature, Looping
    <2>2. ASSUME NEW c, NEW at, NEW j \in 0..ExtSize, IsChain(c), IsWay(at), at[ExtSize] \notin InExtended,
                 currentEbrLba = at[j]
          PROVE  Rest(c, at, j) = <<>>
      <3>1. Rest(c, at, j) = FromEbr(c[DiskSectors - (j + 1)], at[j])
        BY <1>0, <2>1, <2>2, WayKnown
      <3> QED BY <2>1, <2>2, <3>1 DEF FromEbr
    <2> QED BY <2>1, <2>2, <1>5
  <1>10. CASE Ebr
    <2> DEFINE ebr == disk[currentEbrLba]
    <2>1. /\ walk = "on" /\ currentEbrLba \in InExtended /\ ebr.k = "ebr"
          /\ Len(logicals) < MAX_LOGICAL_PARTITIONS
          /\ logicals' = IF ebr.count > 0 THEN Append(logicals, Logical(ebr)) ELSE logicals
      BY <1>10 DEF Ebr, Looping
    <2>2. /\ ebr.next # 0 => currentEbrLba' = ExtStart + ebr.next /\ walk' = "on"
          /\ ebr.next = 0 => walk' = "done"
      BY <1>10, <2>1 DEF Ebr
    <2>3. EbrFields(ebr)
      BY <1>0, <2>1, InsideLba DEF ChainDisk
    <2> HIDE DEF ebr
    <2>4. logicals' \in Seq(PushedSet) /\ Len(logicals') <= MAX_LOGICAL_PARTITIONS
      <3>1. Logical(ebr) \in PushedSet
        <4>1. Primary0 + Len(logicals) \in Nat /\ currentEbrLba + ebr.off \in Nat
          BY <1>0, <2>1, <2>3, InsideLba, WalkAssumption DEF EbrFields
        <4> QED BY <4>1, <2>3 DEF Logical, Entry, PushedSet, EbrFields
      <3> DEFINE one == Logical(ebr)
      <3> HIDE DEF one
      <3>2. one \in PushedSet /\ logicals' = IF ebr.count > 0 THEN Append(logicals, one) ELSE logicals
        BY <2>1, <3>1 DEF one
      <3> QED BY <1>0, <2>1, <3>2
    <2>5. ASSUME NEW c, NEW at, IsChain(c), IsWay(at), at[ExtSize] \notin InExtended
          PROVE  WalkOn(c, at)'
      <3> DEFINE f == c[DiskSectors][ExtStart]
      <3>1. PICK j \in 0..ExtSize : currentEbrLba = at[j] /\ Agree(f, logicals, Rest(c, at, j))
        BY <2>1, <2>5 DEF WalkInv, WalkOn
      <3> HIDE DEF f
      <3>2. /\ disk[at[j]].next # 0 => Agree(f, logicals', Rest(c, at, j + 1))
            /\ disk[at[j]].next = 0 => Agree(f, logicals', <<>>)
        BY <1>0, <1>10, <2>1, <2>5, <3>1, EbrAgrees DEF ebr
      <3>3. j + 1 \in 0..ExtSize /\ at[j + 1] = NextEbr(at[j])
        BY <1>0, <2>1, <2>5, <3>1, WayKnown
      <3>4. CASE ebr.next # 0
        <4>1. currentEbrLba' = at[j + 1] /\ walk' = "on"
          BY <2>1, <2>2, <3>1, <3>3, <3>4 DEF NextEbr, ebr
        <4>2. Agree(f, logicals', Rest(c, at, j + 1)) /\ Rest(c, at, j + 1) \in Seq(Unnumbered)
          BY <1>0, <2>5, <3>1, <3>2, <3>3, <3>4, WayKnown DEF ebr
        <4>3. Rest(c, at, j + 1)' = Rest(c, at, j + 1)
          BY DEF Rest
        <4>4. \A r : Agree(f, logicals, r)' <=> Agree(f, logicals', r)
          BY DEF Agree
        <4>5. Agree(f, logicals, Rest(c, at, j + 1))'
          BY <4>2, <4>3, <4>4
        <4> QED BY <3>3, <4>1, <4>2, <4>3, <4>5 DEF WalkOn, f
      <3>5. CASE ebr.next = 0
        <4>1. walk' = "done" /\ Agree(f, logicals', <<>>)
          BY <2>2, <3>1, <3>2, <3>5 DEF ebr
        <4>2. Agree(f, logicals, <<>>)' /\ <<>> \in Seq(Unnumbered)
          BY <4>1 DEF Agree
        <4> QED BY <4>1, <4>2 DEF WalkOn, f
      <3> QED BY <3>4, <3>5
    <2>6. walk' \in {"on", "done"}
      BY <2>2
    <2> QED BY <1>2, <2>4, <2>5, <2>6 DEF WalkInv
  <1> QED BY <1>4, <1>6, <1>7, <1>8, <1>9, <1>10 DEF CNext, Iterate

\* The walk and Logicals agree on a chain that ends.
LEMMA WalkInvFinds == WalkInv => WalkFindsLogicals
  <1> SUFFICES ASSUME WalkInv, ChainEnds
               PROVE  LET expected == Logicals(disk, Extended, Primary0) IN
                      /\ Len(logicals) <= Len(expected)
                      /\ \A i \in 1..Len(logicals) : logicals[i] = expected[i]
                      /\ walk = "done" => \/ Len(logicals) = Len(expected)
                                          \/ Len(logicals) = MAX_LOGICAL_PARTITIONS
    BY DEF WalkFindsLogicals
  <1>1. ChainDisk /\ logicals \in Seq(PushedSet)
    BY DEF WalkInv
  <1>2. PICK c : /\ IsChain(c)
                 /\ Logicals(disk, Extended, Primary0) =
                      [i \in 1..Len(c[DiskSectors][ExtStart]) |->
                         [c[DiskSectors][ExtStart][i] EXCEPT !.index = Primary0 + i - 1]]
    BY <1>1, LogicalsNumbered
  <1>3. PICK at : IsWay(at) /\ at[ExtSize] \notin InExtended
    BY <1>1, ChainEndsOnTheWay
  <1> DEFINE f == c[DiskSectors][ExtStart]
             expected == Logicals(disk, Extended, Primary0)
  <1>4. PICK r \in Seq(Unnumbered) :
             /\ Agree(f, logicals, r)
             /\ walk = "done" => r = <<>> \/ Len(logicals) = MAX_LOGICAL_PARTITIONS
    BY <1>2, <1>3 DEF WalkInv, WalkOn
  <1>5. expected = [i \in 1..Len(f) |-> [f[i] EXCEPT !.index = Primary0 + i - 1]]
    BY <1>2
  <1> HIDE DEF f, expected
  <1>6. Len(logicals) \in Nat /\ Len(r) \in Nat /\ Len(f) = Len(logicals) + Len(r)
    BY <1>1, <1>4 DEF Agree
  <1>7. Len(expected) = Len(f) /\ \A i \in 1..Len(f) : expected[i] = [f[i] EXCEPT !.index = Primary0 + i - 1]
    <2>1. Len(f) \in Nat
      BY <1>6
    <2> QED BY <1>5, <2>1
  <1>8. \A i \in 1..Len(logicals) : logicals[i] = expected[i]
    <2> SUFFICES ASSUME NEW i \in 1..Len(logicals) PROVE logicals[i] = expected[i]
      OBVIOUS
    <2>1. i \in 1..Len(f)
      BY <1>6
    <2> QED BY <2>1, <1>4, <1>7 DEF Agree
  <1>9. walk = "done" => Len(logicals) = Len(expected) \/ Len(logicals) = MAX_LOGICAL_PARTITIONS
    <2>1. r = <<>> => Len(r) = 0
      OBVIOUS
    <2> QED BY <2>1, <1>4, <1>6, <1>7
  <1>10. Len(logicals) <= Len(expected)
    BY <1>6, <1>7
  <1> QED BY <1>8, <1>9, <1>10 DEF expected

\* On a chain of EBRs that ends, the walk over sectors of any contents, of any
\* number, has found a prefix of what the models of the table read from the
\* disk in one step, and all of it, or as much as the limit allows, when it is
\* done (MbrPartitionTable::walkExtendedChain).
THEOREM WalkFindsLogicalsAlways == CSpec => []WalkFindsLogicals
  <1>1. CSpec => []WalkInv
    BY WalkInit, WalkStep, PTL DEF CSpec
  <1> QED BY <1>1, WalkInvFinds, PTL

=============================================================================
