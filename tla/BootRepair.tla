------------------------------ MODULE BootRepair ------------------------------
(***************************************************************************)
(* Repairing what a machine boots from (src/src/core/recovery/BootRepair.  *)
(* cpp): the MBR, the two copies of a GPT, a boot sector, the BCD store    *)
(* and the files on the EFI system partition.  A job is a list of repairs, *)
(* done one after the other whatever comes of each.  A repair begins with  *)
(* what it finds, which may be anything, and goes write by write: what is  *)
(* true of every state is true of the disk if the machine stops there.     *)
(***************************************************************************)
EXTENDS Naturals, Sequences

CONSTANT MaxFaults   \* bound on failing reads, writes and commands

ASSUME FaultAssumption == MaxFaults \in Nat

VARIABLES job,      \* the repairs to do
          repair,   \* the repair under way and the structures it works on
          faults    \* how many reads, writes or commands have failed

bvars == <<job, repair, faults>>

Fault == faults < MaxFaults /\ faults' = faults + 1

-----------------------------------------------------------------------------
(* The structures                                                          *)

\* The MBR: its signature, whether all status bytes are 0x00 or 0x80, whether
\* an entry is the protective one of a GPT disk.
Mbrs == [code : {"old"}, signature : BOOLEAN, status : BOOLEAN, gpt : BOOLEAN]

validateMbr(m) == m.signature /\ m.status

\* Only the boot code and the signature are replaced.
WithBootCode(m) == [m EXCEPT !.code = "standard", !.signature = TRUE]

\* A copy of the GPT: is the header's own CRC right, which entries is its
\* entry CRC of, and which entries are there (0: damaged ones).  The entries
\* that a valid primary header is for are called 2.
GptCopies == [header : {TRUE}, crc : {1, 2}, entries : 0..2] \cup [header : {FALSE}, crc : {1}, entries : 0..2]
PrimaryCopies == {c \in GptCopies : c.header => c.crc = 2}

\* The entry CRC is not looked at.
validateGptHeader(c) == c.header

\* A sector that may be a boot sector: the AA55 signature, "NTFS" at offset 3,
\* a jump instruction first.
BootSectors == {[signature |-> b[1], ntfs |-> b[2], jump |-> b[3]] :
                  b \in {<<TRUE, TRUE, TRUE>>, <<TRUE, FALSE, TRUE>>, <<TRUE, FALSE, FALSE>>,
                         <<FALSE, TRUE, TRUE>>, <<FALSE, FALSE, FALSE>>}}

\* The BCD store on the EFI system partition.
Stores == [exists : {TRUE}, manager : BOOLEAN, loaders : 0..1]
          \cup [exists : {FALSE}, manager : {FALSE}, loaders : {0}]

\* The boot files on the EFI system partition, and those Windows has to copy,
\* bootmgfw in the one place or in the other.
EspFiles == SUBSET {"bootmgfw", "BCD"}
WindowsFiles == SUBSET {"bootmgfw", "bootmgr", "BCD-Template"}

-----------------------------------------------------------------------------
(* Jobs                                                                    *)

NoJob == [on |-> FALSE]
NoRepair == [op |-> "none"]

BInit == job = NoJob /\ repair = NoRepair /\ faults = 0

Repairs == <<"mbr", "gpt", "bootsector", "bcd", "loader">>

Starts(todo, auto) == job' = [on |-> TRUE, todo |-> todo, auto |-> auto, gpt |-> TRUE]

\* autoRepair() is a job that first looks whether a repair is needed.  The
\* application has no caller of it.
autoRepair == /\ ~job.on /\ Starts(<<"mbr", "gpt", "bcd", "loader">>, TRUE)
              /\ UNCHANGED <<repair, faults>>

Due(op) == job.on /\ repair = NoRepair /\ job.todo # <<>> /\ Head(job.todo) = op

In(op, pc) == repair.op = op /\ repair.pc = pc

Goes(r) == repair' = r /\ UNCHANGED <<job, faults>>
Ends(ok, r) == Goes([r EXCEPT !.pc = "done", !.ok = ok])
FailsWith(r) == Fault /\ repair' = [r EXCEPT !.pc = "done", !.ok = FALSE] /\ UNCHANGED job

\* A repair is over.  autoRepair() goes on to the GPT only if it has read the
\* MBR and found the protective entry in it.
RepairDone ==
  /\ repair # NoRepair /\ repair.pc = "done"
  /\ job' = [job EXCEPT !.todo = Tail(@),
                        !.gpt = IF repair.op = "mbr" THEN repair.read /\ repair.was.gpt ELSE @]
  /\ repair' = NoRepair /\ UNCHANGED faults

JobDone == /\ job.on /\ repair = NoRepair /\ job.todo = <<>>
           /\ job' = NoJob /\ UNCHANGED <<repair, faults>>

-----------------------------------------------------------------------------
(* repairMbr()                                                             *)

BeginMbr == /\ Due("mbr")
            /\ \E m \in Mbrs : Goes([op |-> "mbr", pc |-> "begin", ok |-> FALSE, mbr |-> m, was |-> m, read |-> TRUE])

repairMbr == /\ In("mbr", "begin") /\ (job.auto => ~validateMbr(repair.mbr))
             /\ Ends(TRUE, [repair EXCEPT !.mbr = WithBootCode(@)])

MbrIsValid == In("mbr", "begin") /\ job.auto /\ validateMbr(repair.mbr) /\ Ends(FALSE, repair)

\* The sector is not read (autoRepair() then knows nothing of a GPT), or it is
\* not written.
MbrFails == /\ In("mbr", "begin")
            /\ \E read \in BOOLEAN : FailsWith([repair EXCEPT !.read = read])

-----------------------------------------------------------------------------
(* repairGpt()                                                             *)

BeginGpt ==
  /\ Due("gpt") /\ (job.auto => job.gpt)
  /\ \E p \in PrimaryCopies, b \in GptCopies :
       Goes([op |-> "gpt", pc |-> IF job.auto THEN "check" ELSE "begin", ok |-> FALSE, primary |-> p,
             backup |-> b, was |-> [primary |-> p, backup |-> b], fromBackup |-> TRUE])

SkipGpt == /\ Due("gpt") /\ job.auto /\ ~job.gpt
           /\ job' = [job EXCEPT !.todo = Tail(@)] /\ UNCHANGED <<repair, faults>>

\* autoRepair() rebuilds one header from the other if just that one is not
\* valid; a header that cannot be read is not.
Rebuilds(r, primaryValid, backupValid) ==
  IF primaryValid = backupValid THEN [r EXCEPT !.pc = "done"]
  ELSE [r EXCEPT !.pc = "begin", !.fromBackup = backupValid]

\* Mutant: the primary copy is taken for damaged without being looked at.
AutoGptBlind == /\ In("gpt", "check")
                /\ Goes(Rebuilds(repair, FALSE, validateGptHeader(repair.backup)))

AutoGpt ==
  /\ In("gpt", "check")
  /\ Goes(Rebuilds(repair, validateGptHeader(repair.primary), validateGptHeader(repair.backup)))

AutoGptUnread ==
  /\ In("gpt", "check") /\ Fault /\ UNCHANGED job
  /\ \/ repair' = Rebuilds(repair, FALSE, validateGptHeader(repair.backup))
     \/ repair' = Rebuilds(repair, validateGptHeader(repair.primary), FALSE)

GptSource(r) == IF r.fromBackup THEN r.backup ELSE r.primary

\* The source's header is valid and its entries are read.
GptRead == /\ In("gpt", "begin") /\ validateGptHeader(GptSource(repair))
           /\ Goes([repair EXCEPT !.pc = "first"])

GptRefused == In("gpt", "begin") /\ ~validateGptHeader(GptSource(repair)) /\ Ends(FALSE, repair)

GptReadFails == In("gpt", "begin") /\ FailsWith(repair)

\* The header with the source's entry CRC and a CRC of its own; the entries.
HeaderWritten(c, s) == [c EXCEPT !.header = TRUE, !.crc = s.crc]
EntriesWritten(c, s) == [c EXCEPT !.entries = s.entries]

\* The primary's header is written before its entries, the backup's after.
GptFirstWrite ==
  /\ In("gpt", "first")
  /\ Goes([repair EXCEPT !.pc = "second",
             !.primary = IF repair.fromBackup THEN HeaderWritten(@, repair.backup) ELSE @,
             !.backup = IF repair.fromBackup THEN @ ELSE EntriesWritten(@, repair.primary)])

GptSecondWrite ==
  /\ In("gpt", "second")
  /\ Ends(TRUE, [repair EXCEPT
             !.primary = IF repair.fromBackup THEN EntriesWritten(@, repair.backup) ELSE @,
             !.backup = IF repair.fromBackup THEN @ ELSE HeaderWritten(@, repair.primary)])

\* The entries are several sectors, and may be written in part; the header is
\* one.
GptWriteFails ==
  /\ repair.op = "gpt" /\ repair.pc \in {"first", "second"}
  /\ \/ FailsWith(repair)
     \/ In("gpt", "second") /\ repair.fromBackup /\ FailsWith([repair EXCEPT !.primary.entries = 0])
     \/ In("gpt", "first") /\ ~repair.fromBackup /\ FailsWith([repair EXCEPT !.backup.entries = 0])

-----------------------------------------------------------------------------
(* repairBootSector()                                                      *)

\* The sector at the start of the partition, which has that many, and the
\* other copy: the last sector if the present one says NTFS, the sixth after
\* it if not.
BeginBootSector(sectors) ==
  /\ Due("bootsector")
  /\ \E now \in BootSectors, copy \in BootSectors :
       Goes([op |-> "bootsector", pc |-> "begin", ok |-> FALSE, sectors |-> sectors, now |-> now, copy |-> copy])

BootSectorAccepted(r) == r.sectors >= 2

BackupAccepted(r) == r.copy.signature /\ (r.copy.ntfs \/ r.copy.jump)

\* Mutant: the backup is copied without its signature being looked at.
repairBootSectorUnsigned ==
  /\ In("bootsector", "begin") /\ repair.sectors >= 2 /\ (repair.copy.ntfs \/ repair.copy.jump)
  /\ Ends(TRUE, [repair EXCEPT !.now = repair.copy])

repairBootSector ==
  /\ In("bootsector", "begin") /\ BootSectorAccepted(repair) /\ BackupAccepted(repair)
  /\ Ends(TRUE, [repair EXCEPT !.now = repair.copy])

BootSectorRefused == /\ In("bootsector", "begin") /\ ~(BootSectorAccepted(repair) /\ BackupAccepted(repair))
                     /\ Ends(FALSE, repair)

BootSectorFails == In("bootsector", "begin") /\ FailsWith(repair)

-----------------------------------------------------------------------------
(* repairBcd()                                                             *)

\* autoRepair() calls it only if there is no store.
BeginBcd ==
  /\ Due("bcd")
  /\ \E s \in Stores :
       Goes([op |-> "bcd", pc |-> IF job.auto /\ s.exists THEN "done" ELSE "createstore", ok |-> FALSE,
             store |-> s, was |-> s])

\* The commands in their order; only the last two results are looked at.
AfterCommand(pc, ok) ==
  CASE pc = "createstore" -> "bootmgr"
    [] pc = "bootmgr"     -> "set"
    [] pc = "set"         -> "osloader"
    [] pc = "osloader"    -> IF ok THEN "done" ELSE "rebuildbcd"
    [] pc = "rebuildbcd"  -> "done"

\* What bcdedit does: it makes nothing twice, changes nothing that is not there,
\* and has no option /rebuildbcd.
CommandWorks(pc, s) ==
  CASE pc = "createstore" -> ~s.exists
    [] pc = "bootmgr"     -> s.exists /\ ~s.manager
    [] pc = "set"         -> s.exists /\ s.manager
    [] pc = "osloader"    -> s.exists
    [] pc = "rebuildbcd"  -> FALSE

Commanded(pc, s) ==
  CASE pc = "createstore" -> [s EXCEPT !.exists = TRUE]
    [] pc = "bootmgr"     -> [s EXCEPT !.manager = TRUE]
    [] pc = "osloader"    -> [s EXCEPT !.loaders = @ + 1]
    [] OTHER              -> s

InBcd == repair.op = "bcd" /\ repair.pc # "done"

RunBcdedit ==
  /\ InBcd
  /\ LET works == CommandWorks(repair.pc, repair.store)
     IN Goes([repair EXCEPT !.pc = AfterCommand(@, works), !.ok = works,
                            !.store = IF works THEN Commanded(repair.pc, @) ELSE @])

\* The command is not started, or fails; or it runs for more than 30 seconds,
\* is taken to have failed, and does its work all the same.
BcdeditFails ==
  /\ InBcd /\ Fault /\ UNCHANGED job
  /\ \E late \in {FALSE, CommandWorks(repair.pc, repair.store)} :
       repair' = [repair EXCEPT !.pc = AfterCommand(@, FALSE), !.ok = FALSE,
                                !.store = IF late THEN Commanded(repair.pc, @) ELSE @]

-----------------------------------------------------------------------------
(* repairBootloader()                                                      *)

BeginLoader ==
  /\ Due("loader")
  /\ \E esp \in EspFiles, windows \in WindowsFiles :
       Goes([op |-> "loader", pc |-> IF job.auto /\ "bootmgfw" \in esp THEN "done" ELSE "begin",
             ok |-> FALSE, esp |-> esp, windows |-> windows, was |-> esp])

\* What is on the partition after all copies: bootmgfw and bootmgr; the BCD
\* template if there is no BCD; the file for removable media from the
\* bootmgfw just copied.
Copied(esp, windows) ==
  esp \cup {"bootmgfw", "bootx64"}
      \cup (windows \cap {"bootmgr"})
      \cup (IF "BCD" \notin esp /\ "BCD-Template" \in windows THEN {"BCD"} ELSE {})

HasBootmgfw(windows) == "bootmgfw" \in windows

repairBootloader == /\ In("loader", "begin") /\ HasBootmgfw(repair.windows)
                    /\ Ends(TRUE, [repair EXCEPT !.esp = Copied(@, repair.windows)])

BootloaderRefused == In("loader", "begin") /\ ~HasBootmgfw(repair.windows) /\ Ends(FALSE, repair)

\* bootmgfw is copied from neither place; or a later copy fails, which is not
\* looked at.
BootloaderFails ==
  /\ In("loader", "begin")
  /\ \/ FailsWith(repair)
     \/ /\ Fault /\ HasBootmgfw(repair.windows) /\ UNCHANGED job
        /\ \E lost \in {"bootx64", "bootmgr", "BCD"} :
             repair' = [repair EXCEPT !.pc = "done", !.ok = TRUE,
                                      !.esp = Copied(@, repair.windows) \ ({lost} \ @)]

-----------------------------------------------------------------------------
RepairStep ==
  \/ RepairDone \/ JobDone
  \/ BeginMbr \/ repairMbr \/ MbrIsValid \/ MbrFails
  \/ BeginGpt \/ SkipGpt \/ AutoGpt \/ AutoGptUnread \/ GptRead \/ GptRefused \/ GptReadFails
  \/ GptFirstWrite \/ GptSecondWrite \/ GptWriteFails
  \/ repairBootSector \/ BootSectorRefused \/ BootSectorFails
  \/ BeginBcd \/ RunBcdedit \/ BcdeditFails
  \/ BeginLoader \/ repairBootloader \/ BootloaderRefused \/ BootloaderFails

-----------------------------------------------------------------------------
(* Properties                                                              *)

\* A copy of the GPT that a reader of the disk can use.
Good(c) == c.header /\ c.entries = c.crc

\* The rebuild that is not safe: from a copy whose header is valid and whose
\* entries are not, over a good one.  The tab always rebuilds the primary;
\* autoRepair() does it only if the header of the good copy was not read.
FromDamagedEntries(r) == (job.auto => faults > 0) /\ ~Good(IF r.fromBackup THEN r.was.backup ELSE r.was.primary)

\* A disk with a usable copy of the GPT has one after every single write of
\* repairGpt() (BootRepair.cpp:213-357), so that a failing write, or the
\* machine stopping between two, cannot take the table away; and autoRepair()
\* (706-737) writes over no usable copy, as long as it can read them.
OneGoodGpt ==
  repair.op = "gpt" =>
    /\ (Good(repair.was.primary) \/ Good(repair.was.backup)) /\ ~FromDamagedEntries(repair)
         => Good(repair.primary) \/ Good(repair.backup)
    /\ job.auto /\ faults = 0
         => /\ Good(repair.was.primary) => repair.primary = repair.was.primary
            /\ Good(repair.was.backup) => repair.backup = repair.was.backup

\* What "Repaired" means, for each repair that returned ok (RecoveryTab.cpp:
\* 636-668): the MBR has the signature and its old entries, the rebuilt GPT
\* copy is that of the source, the boot sector is one a BIOS starts, the store
\* has an entry for Windows, the boot manager is on the system partition.
RepairedMeans ==
  repair # NoRepair /\ repair.pc = "done" /\ repair.ok =>
    CASE repair.op = "mbr" -> /\ repair.mbr.signature
                              /\ repair.mbr.gpt = repair.was.gpt /\ repair.mbr.status = repair.was.status
      [] repair.op = "gpt" -> repair.primary = repair.backup /\ repair.primary.header
      [] repair.op = "bootsector" -> repair.now.signature /\ (repair.now.ntfs \/ repair.now.jump)
      [] repair.op = "bcd" -> repair.store.exists /\ repair.store.loaders > 0
      [] repair.op = "loader" -> {"bootmgfw"} \cup repair.was \subseteq repair.esp

-----------------------------------------------------------------------------
(* What makes the two inductive                                            *)

Copies == [header : BOOLEAN, crc : {1, 2}, entries : 0..2]

MbrRepairs == [op : {"mbr"}, pc : {"begin", "done"}, ok : BOOLEAN, was : Mbrs, read : BOOLEAN,
               mbr : [code : {"old", "standard"}, signature : BOOLEAN, status : BOOLEAN, gpt : BOOLEAN]]
GptRepairs == [op : {"gpt"}, pc : {"check", "begin", "first", "second", "done"}, ok : BOOLEAN,
               primary : Copies, backup : Copies, was : [primary : Copies, backup : Copies], fromBackup : BOOLEAN]
BootSectorRepairs == [op : {"bootsector"}, pc : {"begin", "done"}, ok : BOOLEAN, sectors : Nat,
                      now : BootSectors, copy : BootSectors]
BcdCommands == {"createstore", "bootmgr", "set", "osloader", "rebuildbcd"}
BcdRepairs == [op : {"bcd"}, pc : BcdCommands \cup {"done"}, ok : BOOLEAN, was : Stores,
               store : [exists : BOOLEAN, manager : BOOLEAN, loaders : Nat]]
LoaderRepairs == [op : {"loader"}, pc : {"begin", "done"}, ok : BOOLEAN, was : EspFiles, windows : WindowsFiles,
                  esp : SUBSET {"bootmgfw", "BCD", "bootmgr", "bootx64"}]

RepairNames == {"mbr", "gpt", "bootsector", "bcd", "loader"}
HasWork == job.on /\ job.todo # <<>>

\* A repair belongs to a job and works on structures of its own kind.
RepairTypeOK ==
  /\ job = NoJob \/ job \in [on : {TRUE}, todo : Seq(RepairNames), auto : BOOLEAN, gpt : BOOLEAN]
  /\ repair = NoRepair \/ repair \in MbrRepairs \cup GptRepairs \cup BootSectorRepairs \cup BcdRepairs \cup LoaderRepairs
  /\ repair # NoRepair => HasWork
  /\ faults \in Nat

\* The copy a rebuild reads is never written; the other is untouched up to the
\* first write and half that of the source between the two; and autoRepair(),
\* if it could read the headers, only rebuilds one that is not valid.
Untouched(r) == r.primary = r.was.primary /\ r.backup = r.was.backup

GptKept(r) ==
  /\ r.fromBackup => r.backup = r.was.backup
  /\ ~r.fromBackup => r.primary = r.was.primary
  /\ r.pc \in {"check", "begin", "first"} => Untouched(r)
  /\ r.pc \in {"first", "second"} => GptSource(r).header
  /\ r.pc # "done" => ~r.ok
  /\ r.pc = "second" => IF r.fromBackup THEN r.primary.header /\ r.primary.crc = r.backup.crc
                                        ELSE r.backup.entries = r.primary.entries
  /\ job.auto /\ faults = 0 /\ r.pc # "check" =>
       /\ r.pc # "done" => IF r.fromBackup THEN ~r.was.primary.header ELSE ~r.was.backup.header
       /\ r.primary # r.was.primary => ~r.was.primary.header
       /\ r.backup # r.was.backup => ~r.was.backup.header

BootInv ==
  /\ RepairTypeOK
  /\ repair.op = "gpt" => GptKept(repair)
  /\ repair.op = "mbr" /\ repair.pc = "begin" => repair.mbr = repair.was
  /\ repair.op = "loader" /\ repair.pc = "begin" => repair.esp = repair.was
  /\ RepairedMeans
=============================================================================
