------------------------ MODULE EncryptedVaultProofs ------------------------
(***************************************************************************)
(* EncryptedVault's safety properties, for any number of threads, calls,   *)
(* credentials, sizes, failures and deaths of the program.  They follow    *)
(* from one inductive invariant, VInv.  A step of a caller is of one of    *)
(* four kinds, with a lemma for what each leaves alone: it touches its own *)
(* locals only (StepInv, ReturnInv), it works on disks and temporary files *)
(* (AttachInv), it writes the file (WritingTypes, WriterFrame), or it is a *)
(* writer's return without a write (WriterReturns).                        *)
(***************************************************************************)
EXTENDS EncryptedVault, TLAPS

(* Sizes in sectors: none is larger than the largest, which is a number.   *)
LEMMA SectorBound ==
  /\ MaxSectors \in Nat \ {0}
  /\ \A s \in Sizes : SectorsOf(s) \in Nat /\ SectorsOf(s) <= MaxSectors
<1>1. PICK m \in Sizes : m > 0 /\ \A s \in Sizes : s <= m
  BY VaultAssumption
<1>2. \A s \in Sizes : SectorsOf(s) \in Nat /\ SectorsOf(s) <= SectorsOf(m)
  BY <1>1, VaultAssumption DEF SectorsOf, VAULT_SECTOR_SIZE
<1>3. SectorsOf(m) > 0
  BY <1>1, VaultAssumption DEF SectorsOf, VAULT_SECTOR_SIZE
<1>4. SectorsOf(m) \in {SectorsOf(s) : s \in Sizes}
  BY <1>1
<1>5. /\ MaxSectors \in {SectorsOf(s) : s \in Sizes}
      /\ \A s \in Sizes : SectorsOf(s) <= MaxSectors
  BY <1>2, <1>4 DEF MaxSectors
<1> QED
  BY <1>1, <1>2, <1>3, <1>5

(* A caller is in a call exactly if it has locals.                         *)
LEMMA InCallTyped ==
  ASSUME VTypeOK, NEW c \in Callers
  PROVE  /\ InCall(c) => call[c] \in Calls
         /\ ~InCall(c) => call[c] = Idle
  BY DEF VTypeOK, InCall, Calls, Idle

(* Setting the mark leaves the rest of a call's locals alone.              *)
LEMMA MarkedFields ==
  ASSUME NEW r \in Calls
  PROVE  LET m == [r EXCEPT !.odd = TRUE] IN
         /\ m \in Calls /\ m.odd
         /\ m.op = r.op /\ m.pc = r.pc /\ m.cred = r.cred /\ m.new = r.new
         /\ m.header = r.header /\ m.salt = r.salt /\ m.at = r.at /\ m.disk = r.disk /\ m.junk = r.junk
  BY DEF Calls

(* A step of c that writes marks the mount() calls of the others.          *)
LEMMA WritingOthers ==
  ASSUME VTypeOK, NEW c \in Callers, NEW r \in {Idle} \cup Calls, Writing(c, r)
  PROVE  /\ call' \in [Callers -> {Idle} \cup Calls]
         /\ call'[c] = r
         /\ \A d \in Callers \ {c} :
              IF InCall(d) /\ call[d].op = "mount" THEN call'[d] = [call[d] EXCEPT !.odd = TRUE]
                                                   ELSE call'[d] = call[d]
<1>1. \A d \in Callers : d \in SeenBy(c) => [call[d] EXCEPT !.odd = TRUE] \in Calls
  BY InCallTyped, MarkedFields DEF SeenBy
<1>2. \A d \in Callers : call[d] \in {Idle} \cup Calls
  BY DEF VTypeOK
<1> QED
  BY <1>1, <1>2 DEF Writing, SeenBy

(* What a local step of c leaves alone: the vault of the others.           *)
LEMMA LocalFrame ==
  ASSUME VInv, NEW c \in Callers, UNCHANGED <<file, owner, torn>>,
         \A d \in Callers \ {c} : call'[d] = call[d],
         ~Rewriting(c), ~Rewriting(c)', HasOpen(c)' => file \in Files,
         ~torn => ChangeKept(c)',
         MountReads(c)'
  PROVE  VaultKept' /\ \A d \in Callers : OpenIsThere(d)' /\ MountReads(d)'
<1>1. \A d \in Callers \ {c} : /\ Rewriting(d)' <=> Rewriting(d)
                               /\ InCall(d)' <=> InCall(d)
                               /\ call'[d] = call[d]
  BY DEF Rewriting, InCall, Writer
<1>2. \A d \in Callers : Rewriting(d)' <=> Rewriting(d)
  BY <1>1
<1>3. ~torn => OwnerKept'
  BY <1>2 DEF VInv, VaultKept, OwnerKept, OpensWith
<1>4. \A d \in Callers : ~torn => CreateKept(d)' /\ ChangeKept(d)' /\ SplitKept(d)'
  <2>1. ~torn => CreateKept(c)' /\ SplitKept(c)'
    BY DEF CreateKept, SplitKept, Rewriting, In, Writer, InCall
  <2>2. \A d \in Callers \ {c} : ~torn => CreateKept(d)' /\ ChangeKept(d)' /\ SplitKept(d)'
    BY <1>1 DEF VInv, VaultKept, CreateKept, ChangeKept, SplitKept, In, Holds, NewKey
  <2> QED
    BY <2>1, <2>2
<1>5. \A d \in Callers : OpenIsThere(d)'
  <2>1. \A d \in Callers \ {c} : HasOpen(d)' <=> HasOpen(d)
    BY <1>1 DEF HasOpen
  <2> QED
    BY <1>1, <1>2, <2>1 DEF VInv, OpenIsThere
<1>6. \A d \in Callers : MountReads(d)'
  BY <1>1, <1>2 DEF VInv, MountReads, OpensWith
<1> QED
  BY <1>3, <1>4, <1>5, <1>6 DEF VaultKept

(* What a step of c that writes the file leaves of the others: none of     *)
(* them is a writer, or the vault is torn, and every mount() is marked.    *)
LEMMA WriterFrame ==
  ASSUME VInv, NEW c \in Callers, NEW r \in {Idle} \cup Calls, Writing(c, r),
         ~torn' => ~OtherWriter(c),
         ~InCall(c)' \/ call'[c].op # "mount",
         \A d \in Callers \ {c} : HasOpen(d) => file' \in Files,
         OpenIsThere(c)',
         ~torn' => CreateKept(c)' /\ ChangeKept(c)' /\ SplitKept(c)',
         ~torn' /\ ~Rewriting(c)' => file' = NoFile \/ OpensWith(owner)'
  PROVE  VaultKept' /\ \A d \in Callers : OpenIsThere(d)' /\ MountReads(d)'
<1>0. VTypeOK
  BY DEF VInv
<1>1. \A d \in Callers \ {c} : /\ InCall(d)' <=> InCall(d)
                               /\ InCall(d) => /\ call'[d].op = call[d].op /\ call'[d].pc = call[d].pc
                                               /\ call'[d].header = call[d].header
                                               /\ call'[d].cred = call[d].cred
                               /\ InCall(d) /\ call[d].op = "mount" => call'[d].odd
  <2> SUFFICES ASSUME NEW d \in Callers \ {c}
               PROVE  /\ InCall(d)' <=> InCall(d)
                      /\ InCall(d) => /\ call'[d].op = call[d].op /\ call'[d].pc = call[d].pc
                                      /\ call'[d].header = call[d].header
                                      /\ call'[d].cred = call[d].cred
                      /\ InCall(d) /\ call[d].op = "mount" => call'[d].odd
    OBVIOUS
  <2>1. CASE InCall(d) /\ call[d].op = "mount"
    <3>1. call'[d] = [call[d] EXCEPT !.odd = TRUE] /\ call[d] \in Calls
      BY <1>0, <2>1, WritingOthers, InCallTyped
    <3> QED
      BY <2>1, <3>1, MarkedFields DEF InCall
  <2>2. CASE ~(InCall(d) /\ call[d].op = "mount")
    <3>1. call'[d] = call[d]
      BY <1>0, <2>2, WritingOthers
    <3> QED
      BY <2>2, <3>1 DEF InCall
  <2> QED
    BY <2>1, <2>2
<1>2. \A d \in Callers \ {c} : Rewriting(d)' <=> Rewriting(d)
  BY <1>1 DEF Rewriting, Writer, InCall
<1>3. ~torn' => \A d \in Callers \ {c} : ~Writer(d) /\ ~Rewriting(d)
  BY DEF OtherWriter, Rewriting
<1>4. ~torn' => OwnerKept'
  <2>1. ~torn' => \A d, e \in Callers : Rewriting(d)' /\ Rewriting(e)' => d = e
    BY <1>2, <1>3
  <2> QED
    BY <2>1 DEF OwnerKept
<1>5. \A d \in Callers : ~torn' => CreateKept(d)' /\ ChangeKept(d)' /\ SplitKept(d)'
  <2>1. \A d \in Callers \ {c} : ~torn' => ~Writer(d)'
    BY <1>1, <1>3 DEF Writer, InCall
  <2>2. \A d \in Callers \ {c} : ~torn' => CreateKept(d)' /\ ChangeKept(d)' /\ SplitKept(d)'
    BY <2>1 DEF CreateKept, ChangeKept, SplitKept, In, Writer
  <2> QED
    BY <2>2
<1>6. \A d \in Callers : OpenIsThere(d)'
  BY <1>1, <1>2 DEF VInv, OpenIsThere, HasOpen, Rewriting, Writer, InCall
<1>7. \A d \in Callers : MountReads(d)'
  BY <1>1 DEF MountReads
<1> QED
  BY <1>4, <1>5, <1>6, <1>7 DEF VaultKept

(* What is said about the attached disks needs no more than this.          *)
LEMMA DisksFrame ==
  ASSUME VInv, UNCHANGED disks, temps' \subseteq temps, mounted' \subseteq mounted, crashes' >= crashes,
         crashes' \in Nat,
         \A d \in Callers : In(d, "mount", "record")' => In(d, "mount", "record") /\ call'[d].disk = call[d].disk,
         \A d \in Callers : crashes' = 0 /\ In(d, "mount", "attach") =>
            call[d].disk \notin temps' \/ (In(d, "mount", "attach")' /\ call'[d].disk = call[d].disk)
  PROVE  MountedIsPlain' /\ DisksAccounted' /\ \A d \in Callers : RecordAttached(d)'
<1>1. MountedIsPlain'
  BY DEF VInv, MountedIsPlain
<1>2. EntryIsAttached'
  BY DEF VInv, DisksAccounted, EntryIsAttached
<1>3. NoStrayPlaintext'
  BY DEF VInv, VTypeOK, DisksAccounted, NoStrayPlaintext
<1>4. \A d \in Callers : RecordAttached(d)'
  BY DEF VInv, RecordAttached
<1> QED
  BY <1>1, <1>2, <1>3, <1>4 DEF DisksAccounted

(* Either there is no vault at first, or one as create() leaves it.        *)
LEMMA VInitInv == VInit => VInv
<1> SUFFICES ASSUME VInit PROVE VInv
  OBVIOUS
<1>0. \A c \in Callers : ~InCall(c)
  BY DEF VInit, InCall, Idle
<1>1. VTypeOK
  <2>1. file \in {NoFile} \cup Files /\ owner \in Credentials \cup {NoOwner}
    <3>1. ASSUME NEW cred \in Credentials PROVE Created(cred) \in Files
      <4>1. Header("XTS", MinIterations, MaxSectors, 1, computeHmac(HmacKey(cred, 1))) \in Headers
        BY SectorBound DEF Header, Headers, computeHmac, HmacKey, Passwords, MinIterations
      <4>2. encryptSectorXts(deriveKey(cred, 1), "zero") \in Sectors
        BY DEF Sectors, Keys, deriveKey, hashKeyFile, encryptSectorXts, Passwords, KeyFiles
      <4> QED
        BY <4>1, <4>2 DEF Created, EmptyFile, Files
    <3> QED
      BY <3>1 DEF VInit
  <2>2. call \in [Callers -> {Idle} \cup Calls]
    BY DEF VInit
  <2> QED
    BY <1>0, <2>1, <2>2 DEF VInit, VTypeOK
<1>2. VaultKept
  <2>1. \A cred \in Credentials : file = Created(cred) => OpensWith(cred)
    BY SectorBound DEF Created, EmptyFile, Header, NoHeader, computeHmac, OpensWith, Encrypted
  <2>2. file = NoFile \/ OpensWith(owner)
    BY <2>1 DEF VInit
  <2>3. OwnerKept
    BY <1>0, <2>2 DEF OwnerKept, Rewriting, Writer, InCall, VInit, Idle
  <2> QED
    BY <1>0, <2>3 DEF VaultKept, CreateKept, ChangeKept, SplitKept, In
<1>3. \A c \in Callers : OpenIsThere(c) /\ MountReads(c) /\ RecordAttached(c)
  BY <1>0 DEF OpenIsThere, MountReads, RecordAttached, HasOpen, Rewriting, In, Writer, VInit, Idle
<1>4. MountedIsPlain /\ DisksAccounted
  BY DEF VInit, MountedIsPlain, DisksAccounted, EntryIsAttached, NoStrayPlaintext
<1> QED
  BY <1>1, <1>2, <1>3, <1>4 DEF VInv

-----------------------------------------------------------------------------
(* The calls begin.                                                        *)

(* The locals of a new call.                                               *)
LEMMA NewCallTyped ==
  ASSUME NEW cred \in Credentials, NEW op \in {"create", "mount", "change"}
  PROVE  LET r == NewCall(op, cred) IN
         r \in Calls /\ r.op = op /\ r.pc = "begin" /\ r.cred = cred /\ ~r.junk /\ r.at = 1
  BY DEF NewCall, Calls, MinIterations, NoHeader

(* A call begins, with any arguments; nothing else happens.                *)
LEMMA InvokedInv ==
  ASSUME VInv, NEW c \in Callers, Invoked(c), NEW r \in Calls, r.pc = "begin", ~r.junk, r.at = 1,
         call' = [call EXCEPT ![c] = r]
  PROVE  VInv'
<1>0. VTypeOK
  BY DEF VInv
<1>1. call'[c] = r /\ (\A d \in Callers \ {c} : call'[d] = call[d]) /\ call' \in [Callers -> {Idle} \cup Calls]
  BY <1>0 DEF VTypeOK
<1>2. VTypeOK'
  <2>1. fresh' \in [salt : Nat, disk : Nat, call : Nat]
    BY <1>0 DEF Invoked, VTypeOK
  <2> QED
    BY <1>0, <1>1, <2>1 DEF Invoked, VTypeOK, InCall, LocalsOK
<1>3. VaultKept' /\ \A d \in Callers : OpenIsThere(d)' /\ MountReads(d)'
  <2>1. UNCHANGED <<file, owner, torn>> /\ ~Rewriting(c) /\ ~Rewriting(c)'
    BY <1>1 DEF Invoked, Rewriting, Writer, InCall
  <2>2. ChangeKept(c)' /\ MountReads(c)' /\ ~HasOpen(c)'
    BY <1>1 DEF ChangeKept, MountReads, In, HasOpen
  <2> QED
    BY <1>1, <2>1, <2>2, LocalFrame
<1>4. MountedIsPlain' /\ DisksAccounted' /\ \A d \in Callers : RecordAttached(d)'
  <2>1. \A d \in Callers : In(d, "mount", "record")' => In(d, "mount", "record") /\ call'[d].disk = call[d].disk
    BY <1>1 DEF In, InCall
  <2>2. \A d \in Callers : In(d, "mount", "attach") => In(d, "mount", "attach")' /\ call'[d].disk = call[d].disk
    BY <1>1 DEF In, InCall, Invoked
  <2> QED
    BY <1>0, <2>1, <2>2, DisksFrame DEF Invoked, VTypeOK
<1> QED
  BY <1>2, <1>3, <1>4 DEF VInv

(* Beginning a call, and the calls that are one step, preserve VInv.       *)
LEMMA CallInv == ASSUME VInv, NEW c \in Callers, Call(c) PROVE VInv'
<1>0. VTypeOK
  BY DEF VInv
<1>1. CASE create(c)
  <2>1. PICK cred \in Credentials, algorithm \in Algorithms, size \in Sizes, iterations \in Iterations :
          call' = [call EXCEPT ![c] = [NewCall("create", cred) EXCEPT !.algorithm = algorithm,
                                                !.sizeBytes = size, !.iterations = iterations]]
    BY <1>1 DEF create
  <2> DEFINE r == [NewCall("create", cred) EXCEPT !.algorithm = algorithm,
                                                !.sizeBytes = size, !.iterations = iterations]
  <2>2. r \in Calls /\ r.pc = "begin" /\ ~r.junk /\ r.at = 1
    <3>1. size \in Nat /\ iterations \in Nat
      BY VaultAssumption
    <3>2. ASSUME NEW n \in Calls
          PROVE  /\ [n EXCEPT !.algorithm = algorithm, !.sizeBytes = size, !.iterations = iterations] \in Calls
                 /\ [n EXCEPT !.algorithm = algorithm, !.sizeBytes = size, !.iterations = iterations].pc = n.pc
                 /\ [n EXCEPT !.algorithm = algorithm, !.sizeBytes = size, !.iterations = iterations].junk = n.junk
                 /\ [n EXCEPT !.algorithm = algorithm, !.sizeBytes = size, !.iterations = iterations].at = n.at
      BY <3>1 DEF Calls
    <3>3. /\ NewCall("create", cred) \in Calls /\ NewCall("create", cred).pc = "begin"
          /\ ~NewCall("create", cred).junk /\ NewCall("create", cred).at = 1
      BY NewCallTyped
    <3> QED
      BY <3>2, <3>3
  <2> QED
    BY <1>1, <2>1, <2>2, InvokedInv DEF create
<1>2. CASE mount(c)
  BY <1>2, NewCallTyped, InvokedInv DEF mount
<1>3. CASE changePassword(c)
  <2>1. PICK cred \in Credentials, new \in Credentials :
          call' = [call EXCEPT ![c] = [NewCall("change", cred) EXCEPT !.new = new]]
    BY <1>3 DEF changePassword
  <2>2. /\ [NewCall("change", cred) EXCEPT !.new = new] \in Calls
        /\ [NewCall("change", cred) EXCEPT !.new = new].pc = "begin"
        /\ ~[NewCall("change", cred) EXCEPT !.new = new].junk
        /\ [NewCall("change", cred) EXCEPT !.new = new].at = 1
    BY NewCallTyped DEF Calls
  <2> QED
    BY <1>3, <2>1, <2>2, InvokedInv DEF changePassword
<1>4. CASE MountRefused(c) \/ unmount(c)
  <2>1. /\ UNCHANGED <<file, call, disks, temps, faults, crashes, owner, torn>>
        /\ mounted' \subseteq mounted
        /\ fresh' = [fresh EXCEPT !.call = @ + 1]
    BY <1>4 DEF MountRefused, Invoked, unmount
  <2>2. VTypeOK'
    <3>1. fresh' \in [salt : Nat, disk : Nat, call : Nat]
      BY <1>0, <2>1 DEF VTypeOK
    <3> QED
      BY <1>0, <2>1, <3>1 DEF VTypeOK, InCall
  <2>3. \A d \in Callers : /\ Rewriting(d)' <=> Rewriting(d)
                           /\ InCall(d)' <=> InCall(d)
    BY <2>1 DEF Rewriting, InCall, Writer
  <2>4. VaultKept'
    BY <2>1, <2>3 DEF VInv, VaultKept, OwnerKept, CreateKept, ChangeKept, SplitKept, In, Holds, NewKey, OpensWith
  <2>5. \A d \in Callers : OpenIsThere(d)' /\ MountReads(d)'
    BY <2>1, <2>3 DEF VInv, OpenIsThere, MountReads, OpensWith, HasOpen
  <2>6. MountedIsPlain' /\ DisksAccounted' /\ \A d \in Callers : RecordAttached(d)'
    <3>1. \A d \in Callers : /\ In(d, "mount", "record")' <=> In(d, "mount", "record")
                             /\ In(d, "mount", "attach")' <=> In(d, "mount", "attach")
      BY <2>1, <2>3 DEF In
    <3> QED
      BY <1>0, <2>1, <3>1, DisksFrame DEF VTypeOK
  <2> QED
    BY <2>2, <2>4, <2>5, <2>6 DEF VInv
<1> QED
  BY <1>1, <1>2, <1>3, <1>4 DEF Call

-----------------------------------------------------------------------------
(* Steps that leave the vault file alone.                                  *)

(* A call that has not the file open for writing, nor a file to attach,    *)
(* returns with nothing done.                                              *)
LEMMA ReturnInv ==
  ASSUME VInv, NEW c \in Callers, Returns(c), ~Rewriting(c), ~In(c, "mount", "attach"),
         faults' \in Nat, UNCHANGED <<file, mounted, disks, temps, fresh, crashes, owner, torn>>
  PROVE  VInv'
<1>0. VTypeOK
  BY DEF VInv
<1>1. call'[c] = Idle /\ (\A d \in Callers \ {c} : call'[d] = call[d]) /\ call' \in [Callers -> {Idle} \cup Calls]
  BY <1>0 DEF VTypeOK, Returns, Local
<1>a. ~InCall(c)'
  BY <1>1 DEF InCall, Idle
<1>2. VTypeOK'
  BY <1>0, <1>1, <1>a DEF VTypeOK, InCall
<1>3. VaultKept' /\ \A d \in Callers : OpenIsThere(d)' /\ MountReads(d)'
  <2>1. ~Rewriting(c)' /\ ~HasOpen(c)' /\ ChangeKept(c)' /\ MountReads(c)'
    BY <1>1, <1>a DEF ChangeKept, MountReads, In, HasOpen, Rewriting, Writer, Idle
  <2> QED
    BY <1>1, <2>1, LocalFrame
<1>4. MountedIsPlain' /\ DisksAccounted' /\ \A d \in Callers : RecordAttached(d)'
  <2>1. \A d \in Callers : In(d, "mount", "record")' => In(d, "mount", "record") /\ call'[d].disk = call[d].disk
    BY <1>1, <1>a DEF In, InCall
  <2>2. \A d \in Callers : In(d, "mount", "attach") => In(d, "mount", "attach")' /\ call'[d].disk = call[d].disk
    BY <1>1, <1>a DEF In, InCall
  <2> QED
    BY <1>0, <2>1, <2>2, DisksFrame DEF VTypeOK
<1> QED
  BY <1>2, <1>3, <1>4 DEF VInv

(* A step of a call on its own locals, which keeps its disk unless it has  *)
(* none yet.                                                               *)
LEMMA StepInv ==
  ASSUME VInv, NEW c \in Callers, NEW r \in Calls, Local(c, r), LocalsOK(r),
         ~Rewriting(c), ~Rewriting(c)', HasOpen(c)' => file \in Files,
         r.pc # "record", ~In(c, "mount", "attach"),
         ~torn => ChangeKept(c)', MountReads(c)',
         fresh' \in [salt : Nat, disk : Nat, call : Nat],
         UNCHANGED <<file, mounted, disks, temps, faults, crashes, owner, torn>>
  PROVE  VInv'
<1>0. VTypeOK
  BY DEF VInv
<1>1. call'[c] = r /\ (\A d \in Callers \ {c} : call'[d] = call[d]) /\ call' \in [Callers -> {Idle} \cup Calls]
  BY <1>0 DEF VTypeOK, Local
<1>2. VTypeOK'
  BY <1>0, <1>1 DEF VTypeOK, InCall
<1>3. VaultKept' /\ \A d \in Callers : OpenIsThere(d)' /\ MountReads(d)'
  BY <1>1, LocalFrame
<1>4. MountedIsPlain' /\ DisksAccounted' /\ \A d \in Callers : RecordAttached(d)'
  <2>1. \A d \in Callers : In(d, "mount", "record")' => In(d, "mount", "record") /\ call'[d].disk = call[d].disk
    BY <1>1 DEF In, InCall
  <2>2. \A d \in Callers : In(d, "mount", "attach") => In(d, "mount", "attach")' /\ call'[d].disk = call[d].disk
    BY <1>1 DEF In, InCall
  <2> QED
    BY <1>0, <2>1, <2>2, DisksFrame DEF VTypeOK
<1> QED
  BY <1>2, <1>3, <1>4 DEF VInv

(* Two keys for the HMAC are the same only if the passwords are.           *)
LEMMA HmacInjective ==
  ASSUME NEW a, NEW b, NEW salt, computeHmac(HmacKey(a, salt)) = computeHmac(HmacKey(b, salt))
  PROVE  a.password = b.password
<1>1. HmacKey(a, salt) = HmacKey(b, salt)
  BY DEF computeHmac
<1> QED
  BY <1>1 DEF HmacKey

(* The same password and key file derive the same keys.                    *)
LEMMA SameCredentials ==
  ASSUME NEW a, NEW b, a.password = b.password, a.keyFile = b.keyFile
  PROVE  /\ \A salt : deriveKey(a, salt) = deriveKey(b, salt) /\ HmacKey(a, salt) = HmacKey(b, salt)
         /\ OpensWith(a) <=> OpensWith(b)
  BY DEF deriveKey, hashKeyFile, HmacKey, OpensWith

(* readHeader() opens the file.                                            *)
LEMMA HeaderOpenInv == ASSUME VInv, NEW c \in Callers, HeaderOpen(c) PROVE VInv'
<1> DEFINE r == [call[c] EXCEPT !.pc = "opened"]
<1>0. VTypeOK /\ call[c] \in Calls /\ InCall(c) /\ call[c].pc = "begin" /\ call[c].op \in {"mount", "change"}
  BY InCallTyped DEF VInv, HeaderOpen, Begun
<1>1. file \in Files
  <2>1. file # NoFile
    BY DEF HeaderOpen, NoFile
  <2> QED
    BY <1>0, <2>1 DEF VTypeOK
<1>2. /\ r \in Calls /\ r.op = call[c].op /\ r.pc = "opened" /\ r.at = call[c].at
      /\ r.junk = call[c].junk /\ r.odd = call[c].odd
  BY <1>0 DEF Calls
<1>3. LocalsOK(r)
  BY <1>0, <1>2 DEF VTypeOK, LocalsOK
<1>4. call'[c] = r /\ Local(c, r)
  BY <1>0 DEF VTypeOK, HeaderOpen, Local
<1>5. /\ ~Rewriting(c) /\ ~Rewriting(c)' /\ ~In(c, "mount", "attach")
      /\ MountReads(c)' /\ ChangeKept(c)'
  BY <1>0, <1>2, <1>4 DEF VInv, Rewriting, Writer, In, MountReads, ChangeKept
<1>6. fresh' \in [salt : Nat, disk : Nat, call : Nat]
  BY <1>0 DEF VTypeOK, HeaderOpen
<1> QED
  BY <1>1, <1>2, <1>3, <1>4, <1>5, <1>6, StepInv DEF HeaderOpen

(* readHeader() reads.  If nobody is writing and the vault is not torn, it *)
(* reads the owner's header.                                               *)
LEMMA HeaderReadInv == ASSUME VInv, NEW c \in Callers, HeaderRead(c) PROVE VInv'
<1> DEFINE r == [call[c] EXCEPT !.pc = "closing", !.header = file.header,
                                !.odd = @ \/ torn \/ OtherWriter(c) \/ call[c].cred.keyFile # owner.keyFile]
<1>0. VTypeOK /\ call[c] \in Calls /\ InCall(c) /\ call[c].pc = "opened" /\ HasOpen(c)
  BY InCallTyped DEF VInv, HeaderRead, HasOpen
<1>1. file \in Files /\ file.header \in {NoHeader} \cup Headers
  <2>1. file \in Files
    BY <1>0 DEF VInv, OpenIsThere
  <2> QED
    BY <2>1 DEF Files
<1>2. (call[c].odd \/ torn \/ OtherWriter(c) \/ call[c].cred.keyFile # owner.keyFile) \in BOOLEAN
  OBVIOUS
<1>3. /\ r \in Calls /\ r.op = call[c].op /\ r.pc = "closing" /\ r.header = file.header /\ r.at = call[c].at
      /\ r.cred = call[c].cred /\ r.junk = call[c].junk
      /\ r.odd <=> call[c].odd \/ torn \/ OtherWriter(c) \/ call[c].cred.keyFile # owner.keyFile
  BY <1>0, <1>1, <1>2 DEF Calls
<1>4. call'[c] = r /\ Local(c, r) /\ \A d \in Callers \ {c} : call'[d] = call[d]
  BY <1>0 DEF VTypeOK, HeaderRead, Local
<1>5. ~Rewriting(c) /\ ~Rewriting(c)' /\ ~In(c, "mount", "attach")
  BY <1>0, <1>3, <1>4 DEF Rewriting, Writer, In
<1>6. MountReads(c)'
  <2>1. r.op = "mount" /\ r.junk => r.odd
    BY <1>0, <1>3 DEF VInv, MountReads
  <2>2. ASSUME ~r.odd, r.op = "mount"
        PROVE  /\ \A d \in Callers : ~Rewriting(d)'
               /\ OpensWith(owner) /\ r.cred.keyFile = owner.keyFile
    <3>1. ~torn /\ ~OtherWriter(c) /\ r.cred.keyFile = owner.keyFile
      BY <1>3, <2>2
    <3>2. \A d \in Callers \ {c} : ~Rewriting(d) /\ ~Rewriting(d)'
      BY <1>4, <3>1 DEF OtherWriter, Rewriting, Writer, InCall
    <3>3. \A d \in Callers : ~Rewriting(d)
      BY <1>5, <3>2
    <3>4. OpensWith(owner)
      BY <1>1, <3>1, <3>3 DEF VInv, VaultKept, OwnerKept, Files, NoFile
    <3> QED
      BY <1>5, <3>1, <3>2, <3>4
  <2> QED
    BY <1>3, <1>4, <2>1, <2>2 DEF MountReads, OpensWith, HeaderRead
<1>7. ChangeKept(c)'
  BY <1>3, <1>4 DEF ChangeKept, In, HeaderRead
<1>8. fresh' \in [salt : Nat, disk : Nat, call : Nat] /\ LocalsOK(r)
  BY <1>0, <1>3 DEF VTypeOK, HeaderRead, LocalsOK
<1> QED
  BY <1>1, <1>3, <1>4, <1>5, <1>6, <1>7, <1>8, StepInv DEF HeaderRead

(* mount() has checked the header.  If it is undisturbed and the key file  *)
(* is the owner's, then so is the password.                                *)
LEMMA MountHeaderInv == ASSUME VInv, NEW c \in Callers, MountHeader(c) PROVE VInv'
<1> DEFINE r == [call[c] EXCEPT !.pc = "open"]
<1>0. VTypeOK /\ call[c] \in Calls /\ In(c, "mount", "closing") /\ HeaderOk(c)
  BY InCallTyped DEF VInv, MountHeader, In
<1>1. call[c].header \in Headers
  BY <1>0 DEF HeaderOk, Calls
<1>3. /\ r \in Calls /\ r.op = "mount" /\ r.pc = "open" /\ r.header = call[c].header
      /\ r.cred = call[c].cred /\ r.junk = call[c].junk /\ r.odd = call[c].odd
  BY <1>0, <1>1 DEF Calls, In
<1>4. call'[c] = r /\ \A d \in Callers \ {c} : call'[d] = call[d]
  BY <1>0 DEF VTypeOK, MountHeader, Local
<1>5. MountReads(c)'
  <2>1. r.junk => r.odd
    BY <1>0, <1>3 DEF VInv, MountReads, In
  <2>2. ASSUME ~r.odd
        PROVE  /\ \A d \in Callers : ~Rewriting(d)'
               /\ file.header = r.header /\ OpensWith(r.cred)
    <3>1. /\ \A d \in Callers : ~Rewriting(d)
          /\ file.header = r.header /\ OpensWith(owner) /\ r.cred.keyFile = owner.keyFile
      BY <1>0, <1>3, <2>2 DEF VInv, MountReads, In
    <3>2. \A d \in Callers : ~Rewriting(d)'
      BY <1>3, <1>4, <3>1 DEF Rewriting, Writer, InCall
    <3>4. r.cred.password = owner.password
      <4>1. /\ file.header.hmac = computeHmac(HmacKey(r.cred, file.header.salt))
            /\ file.header.hmac = computeHmac(HmacKey(owner, file.header.salt))
        BY <1>0, <1>3, <3>1 DEF OpensWith, HeaderOk, GoodHmac
      <4> QED
        BY <4>1, HmacInjective
    <3> QED
      BY <3>1, <3>2, <3>4, SameCredentials
  <2> QED
    BY <1>3, <1>4, <2>1, <2>2 DEF MountReads, OpensWith, MountHeader
<1> QED
  <2>1. Local(c, r) /\ ~Rewriting(c) /\ ~Rewriting(c)' /\ ~HasOpen(c)' /\ ~In(c, "mount", "attach") /\ ChangeKept(c)'
    BY <1>0, <1>3, <1>4 DEF MountHeader, HasOpen, Rewriting, Writer, In, ChangeKept
  <2>2. fresh' \in [salt : Nat, disk : Nat, call : Nat]
    BY <1>0 DEF VTypeOK, MountHeader
  <2>3. LocalsOK(r)
    BY <1>1, <1>3 DEF LocalsOK
  <2> QED
    BY <1>3, <1>5, <2>1, <2>2, <2>3, StepInv DEF MountHeader

(* mount() opens the file again, if it is still there.                     *)
LEMMA MountOpenInv == ASSUME VInv, NEW c \in Callers, MountOpen(c) PROVE VInv'
<1>0. VTypeOK /\ call[c] \in Calls /\ In(c, "mount", "open")
  BY InCallTyped DEF VInv, MountOpen, In
<1>1. CASE file.there
  <2> DEFINE r == [call[c] EXCEPT !.pc = "read"]
  <2>1. /\ r \in Calls /\ r.op = "mount" /\ r.pc = "read" /\ r.header = call[c].header /\ r.odd = call[c].odd
        /\ r.cred = call[c].cred /\ r.junk = call[c].junk
    BY <1>0 DEF Calls, In
  <2>2. call'[c] = r /\ (\A d \in Callers \ {c} : call'[d] = call[d]) /\ Local(c, r)
    BY <1>0, <1>1 DEF VTypeOK, MountOpen, Local
  <2>3. ~Rewriting(c) /\ ~Rewriting(c)' /\ ~In(c, "mount", "attach") /\ ChangeKept(c)'
    BY <1>0, <2>1, <2>2 DEF Rewriting, Writer, In, ChangeKept
  <2>4. MountReads(c)'
    <3>1. \A d \in Callers : Rewriting(d)' => Rewriting(d)
      BY <2>2, <2>3 DEF Rewriting, Writer
    <3> QED
      BY <1>0, <2>1, <2>2, <3>1 DEF VInv, MountReads, MountOpen, OpensWith, In
  <2>5. LocalsOK(r) /\ fresh' \in [salt : Nat, disk : Nat, call : Nat]
    BY <1>0, <2>1 DEF VTypeOK, LocalsOK, MountOpen, In
  <2>6. file \in Files
    BY <1>0, <1>1 DEF VTypeOK, NoFile
  <2> QED
    BY <2>1, <2>2, <2>3, <2>4, <2>5, <2>6, StepInv DEF MountOpen
<1>2. CASE ~file.there
  BY <1>0, <1>2, ReturnInv DEF VTypeOK, MountOpen, Returns, Rewriting, Writer, In
<1> QED
  BY <1>1, <1>2

(* The right key gives back the plaintext, or fails with CBC and GCM.      *)
LEMMA RightKey ==
  ASSUME NEW algorithm, NEW key,
         NEW out \in Decrypts(algorithm, Encrypted(algorithm, key, "zero"), key)
  PROVE  /\ algorithm = "XTS" => out = "zero"
         /\ algorithm # "XTS" => out = "fail"
  BY DEF Decrypts, Encrypted, encryptSectorXts, encryptBuffer, decryptSectorXts, decryptBuffer, Lacking

(* mount() decrypts a sector.                                              *)
LEMMA MountSectorInv == ASSUME VInv, NEW c \in Callers, MountSector(c) PROVE VInv'
<1> DEFINE h == call[c].header
           r(out) == [call[c] EXCEPT !.at = @ + 1, !.junk = @ \/ out = "junk"]
<1>0. VTypeOK /\ call[c] \in Calls /\ In(c, "mount", "read")
  BY InCallTyped DEF VInv, MountSector, In
<1>1. PICK out \in IF Short(call[c].at) THEN {"fail"}
                   ELSE Decrypts(h.algorithm, file.data[call[c].at], deriveKey(call[c].cred, h.salt)) :
        Local(c, IF out = "fail" THEN Idle ELSE r(out))
  BY DEF MountSector
<1>2. CASE out = "fail"
  BY <1>0, <1>1, <1>2, ReturnInv DEF VTypeOK, MountSector, Returns, Rewriting, Writer, In
<1>3. CASE out # "fail"
  <2>1. /\ r(out) \in Calls /\ r(out).op = "mount" /\ r(out).pc = "read" /\ r(out).header = h
        /\ r(out).odd = call[c].odd /\ r(out).cred = call[c].cred
        /\ r(out).junk <=> call[c].junk \/ out = "junk"
    <3>1. call[c].at + 1 \in Nat \ {0} /\ (call[c].junk \/ out = "junk") \in BOOLEAN
      BY <1>0 DEF Calls
    <3> QED
      BY <1>0, <3>1 DEF Calls, In
  <2>2. call'[c] = r(out) /\ (\A d \in Callers \ {c} : call'[d] = call[d]) /\ Local(c, r(out))
    BY <1>0, <1>1, <1>3 DEF VTypeOK, Local
  <2>3. ~Rewriting(c) /\ ~Rewriting(c)' /\ ~In(c, "mount", "attach") /\ ChangeKept(c)'
    BY <1>0, <2>1, <2>2 DEF Rewriting, Writer, In, ChangeKept
  <2>4. out = "junk" => call[c].odd
    <3> SUFFICES ASSUME ~call[c].odd PROVE out # "junk"
      OBVIOUS
    <3>1. file.header = h /\ OpensWith(call[c].cred)
      BY <1>0 DEF VInv, MountReads, In
    <3>2. h \in Headers /\ call[c].at \in 1..h.sectors
      <4>1. h \in Headers
        BY <1>0 DEF VTypeOK, LocalsOK, In
      <4> QED
        BY <1>0, <4>1 DEF MountSector, Calls, Headers
    <3>3. file.data[call[c].at] = Encrypted(h.algorithm, deriveKey(call[c].cred, h.salt), "zero")
      BY <3>1, <3>2 DEF OpensWith
    <3>4. out \in Decrypts(h.algorithm, file.data[call[c].at], deriveKey(call[c].cred, h.salt))
      BY <1>1, <1>3
    <3> QED
      BY <1>3, <3>3, <3>4, RightKey
  <2>5. MountReads(c)'
    <3>1. \A d \in Callers : Rewriting(d)' => Rewriting(d)
      BY <2>2, <2>3 DEF Rewriting, Writer
    <3> QED
      BY <1>0, <2>1, <2>2, <2>4, <3>1 DEF VInv, MountReads, MountSector, OpensWith, In
  <2>6. LocalsOK(r(out)) /\ fresh' \in [salt : Nat, disk : Nat, call : Nat]
    BY <1>0, <2>1 DEF VTypeOK, LocalsOK, MountSector, In
  <2>7. file \in Files
    BY <1>0 DEF VInv, OpenIsThere, HasOpen, In
  <2> QED
    BY <2>1, <2>2, <2>3, <2>5, <2>6, <2>7, StepInv DEF MountSector
<1> QED
  BY <1>2, <1>3

(* The temporary file, the disk and the entry follow one another.          *)
LEMMA AttachInv ==
  ASSUME VInv, NEW c \in Callers, VhdWrite(c) \/ Attach(c) \/ AttachFails(c) \/ MountRecord(c)
  PROVE  VInv'
<1>0. /\ VTypeOK /\ call[c] \in Calls
      /\ In(c, "mount", "read") \/ In(c, "mount", "attach") \/ In(c, "mount", "record")
  BY InCallTyped DEF VInv, VhdWrite, Attach, AttachFails, MountRecord, In
<1>1. UNCHANGED <<file, owner, torn, crashes>>
  BY DEF VhdWrite, Attach, AttachFails, MountRecord
<1>a. ~(Attach(c) /\ AttachFails(c))
  <2>1. Attach(c) => call'[c] = [call[c] EXCEPT !.pc = "record"]
    BY <1>0 DEF VTypeOK, Attach, Local
  <2>2. AttachFails(c) => call'[c] = Idle
    BY <1>0 DEF VTypeOK, AttachFails, Returns, Local
  <2>3. [call[c] EXCEPT !.pc = "record"].op = "mount" /\ Idle.op # "mount"
    BY <1>0 DEF Calls, In, Idle
  <2> QED
    BY <2>1, <2>2, <2>3
<1>2. PICK r \in {Idle} \cup Calls :
        /\ call' = [call EXCEPT ![c] = r]
        /\ r # Idle => /\ r.op = "mount" /\ r.pc \in {"attach", "record"} /\ r.header = call[c].header
                       /\ r.junk = call[c].junk /\ r.odd = call[c].odd
        /\ VhdWrite(c) => r # Idle /\ r.disk = fresh.disk /\ r.pc = "attach"
        /\ Attach(c) => r # Idle /\ r.disk = call[c].disk /\ r.pc = "record"
        /\ AttachFails(c) \/ MountRecord(c) => r = Idle
  <2>1. CASE VhdWrite(c)
    <3>1. fresh.disk \in Nat
      BY <1>0 DEF VTypeOK
    <3>2. [call[c] EXCEPT !.pc = "attach", !.disk = fresh.disk] \in Calls
      BY <1>0, <3>1 DEF Calls
    <3> QED
      BY <1>0, <2>1, <3>2 DEF VhdWrite, Attach, AttachFails, MountRecord, Local, In, Calls, Idle
  <2>2. CASE Attach(c)
    <3>2. [call[c] EXCEPT !.pc = "record"] \in Calls
      BY <1>0 DEF Calls
    <3>3. ~VhdWrite(c) /\ ~AttachFails(c) /\ ~MountRecord(c)
      BY <1>a, <2>2 DEF VhdWrite, Attach, MountRecord, In
    <3> QED
      BY <1>0, <2>2, <3>2, <3>3 DEF Attach, Local, In, Calls, Idle
  <2>3. CASE AttachFails(c) \/ MountRecord(c)
    <3>1. call' = [call EXCEPT ![c] = Idle] /\ ~VhdWrite(c) /\ ~Attach(c)
      BY <1>a, <2>3 DEF VhdWrite, Attach, AttachFails, MountRecord, Local, Returns, In
    <3> QED
      BY <3>1
  <2> QED
    BY <2>1, <2>2, <2>3
<1>3. call'[c] = r /\ (\A d \in Callers \ {c} : call'[d] = call[d]) /\ call' \in [Callers -> {Idle} \cup Calls]
  BY <1>0, <1>2 DEF VTypeOK
<1>4. VTypeOK'
  <2>1. call[c].header \in Headers
    BY <1>0 DEF VTypeOK, In, LocalsOK
  <2>2. /\ fresh' \in [salt : Nat, disk : Nat, call : Nat] /\ faults' \in Nat
        /\ temps' \subseteq Nat /\ mounted' \subseteq Nat
    BY <1>0 DEF VTypeOK, VhdWrite, Attach, AttachFails, MountRecord, Fault, Calls
  <2>3. disks' \subseteq [id : Nat, junk : BOOLEAN, odd : BOOLEAN, password : Passwords]
    BY <1>0 DEF VTypeOK, VhdWrite, Attach, AttachFails, MountRecord, Calls, Passwords
  <2>4. \A d \in Callers : InCall(d)' => LocalsOK(call'[d])
    BY <1>0, <1>2, <1>3, <2>1 DEF VTypeOK, InCall, Idle, LocalsOK
  <2> QED
    BY <1>0, <1>1, <1>3, <2>2, <2>3, <2>4 DEF VTypeOK
<1>5. VaultKept' /\ \A d \in Callers : OpenIsThere(d)' /\ MountReads(d)'
  <2>1. ~Rewriting(c) /\ ~Rewriting(c)' /\ ~HasOpen(c)' /\ ChangeKept(c)'
    BY <1>0, <1>2, <1>3 DEF HasOpen, Rewriting, Writer, In, ChangeKept, Idle, InCall
  <2>2. MountReads(c)'
    BY <1>0, <1>2, <1>3 DEF VInv, MountReads, In, InCall, Idle
  <2> QED
    BY <1>1, <1>3, <2>1, <2>2, LocalFrame
<1>6. MountedIsPlain'
  <2>1. \A d \in disks' \ disks : Attach(c) /\ d.junk = call[c].junk /\ d.odd = call[c].odd
    BY DEF VhdWrite, Attach, AttachFails, MountRecord
  <2> QED
    BY <1>0, <2>1 DEF VInv, MountedIsPlain, MountReads, In
<1>7. disks \subseteq disks' /\ (Attach(c) => \E d \in disks' : d.id = call[c].disk)
  <2>1. disks \subseteq disks'
    BY DEF VhdWrite, Attach, AttachFails, MountRecord
  <2>2. ASSUME Attach(c) PROVE \E d \in disks' : d.id = call[c].disk
    <3> DEFINE d == [id |-> call[c].disk, junk |-> call[c].junk, odd |-> call[c].odd,
                     password |-> call[c].cred.password]
    <3>1. d \in disks' /\ d.id = call[c].disk
      BY <2>2 DEF Attach
    <3> QED
      BY <3>1
  <2> QED
    BY <2>1, <2>2
<1>8. \A d \in Callers : RecordAttached(d)'
  BY <1>2, <1>3, <1>7 DEF VInv, RecordAttached, In, InCall, Idle
<1>9. EntryIsAttached'
  <2>1. MountRecord(c) => mounted' = {call[c].disk} /\ In(c, "mount", "record")
    BY DEF MountRecord
  <2>2. ~MountRecord(c) => mounted' = mounted
    BY DEF VhdWrite, Attach, AttachFails
  <2>3. In(c, "mount", "record") => \E d \in disks : d.id = call[c].disk
    BY DEF VInv, RecordAttached
  <2> QED
    BY <1>7, <2>1, <2>2, <2>3 DEF VInv, DisksAccounted, EntryIsAttached
<1>10. NoStrayPlaintext'
  <2> SUFFICES ASSUME crashes = 0, NEW id \in temps'
               PROVE  \/ \E d \in disks' : d.id = id
                      \/ \E d \in Callers : In(d, "mount", "attach")' /\ call'[d].disk = id
    BY <1>1 DEF NoStrayPlaintext
  <2>1. CASE id \in temps
    <3>1. CASE \E d \in disks : d.id = id
      BY <1>7, <3>1
    <3>2. CASE \E d \in Callers \ {c} : In(d, "mount", "attach") /\ call[d].disk = id
      BY <1>3, <3>2 DEF In, InCall
    <3>3. CASE In(c, "mount", "attach") /\ call[c].disk = id
      BY <1>7, <2>1, <3>3 DEF VhdWrite, Attach, AttachFails, MountRecord, In
    <3> QED
      BY <2>1, <3>1, <3>2, <3>3 DEF VInv, DisksAccounted, NoStrayPlaintext
  <2>2. CASE id \notin temps
    <3>1. VhdWrite(c) /\ id = fresh.disk
      BY <2>2 DEF VhdWrite, Attach, AttachFails, MountRecord
    <3> QED
      BY <1>2, <1>3, <3>1 DEF In, InCall
  <2> QED
    BY <2>1, <2>2
<1> QED
  BY <1>4, <1>5, <1>6, <1>8, <1>9, <1>10 DEF VInv, DisksAccounted

(* changePassword() has read and checked the header.                       *)
LEMMA ChangeHeaderInv == ASSUME VInv, NEW c \in Callers, ChangeHeader(c) PROVE VInv'
<1> DEFINE r == [call[c] EXCEPT !.pc = "open", !.salt = fresh.salt]
<1>0. VTypeOK /\ call[c] \in Calls /\ In(c, "change", "closing") /\ HeaderOk(c) /\ HasOpen(c)
  BY InCallTyped DEF VInv, ChangeHeader, In, HasOpen
<1>1. file \in Files /\ call[c].header \in Headers /\ fresh.salt \in Nat
  BY <1>0 DEF VInv, VTypeOK, OpenIsThere, HeaderOk, Calls
<1>2. /\ r \in Calls /\ r.op = "change" /\ r.pc = "open" /\ r.header = call[c].header /\ r.cred = call[c].cred
      /\ r.at = call[c].at
  BY <1>0, <1>1 DEF Calls, In
<1>b. LocalsOK(r)
  BY <1>0, <1>1, <1>2 DEF VTypeOK, LocalsOK, In
<1>3. call'[c] = r /\ Local(c, r) /\ UNCHANGED file
  BY <1>0 DEF VTypeOK, ChangeHeader, Local
<1>4. ~Rewriting(c) /\ ~Rewriting(c)' /\ ~HasOpen(c)' /\ ~In(c, "mount", "attach") /\ MountReads(c)'
  BY <1>0, <1>2, <1>3 DEF HasOpen, Rewriting, Writer, In, MountReads
<1>5. ASSUME ~torn PROVE ChangeKept(c)'
  <2>1. file.header = r.header
    BY <1>0, <1>2, <1>5 DEF VInv, VaultKept, ChangeKept
  <2>2. file.header.hmac = computeHmac(HmacKey(r.cred, file.header.salt))
    BY <1>0, <1>2, <2>1 DEF HeaderOk, GoodHmac
  <2> QED
    BY <1>1, <1>2, <1>3, <2>1, <2>2 DEF ChangeKept, In
<1>6. fresh' \in [salt : Nat, disk : Nat, call : Nat]
  <2>1. fresh' = [fresh EXCEPT !.salt = @ + 1] /\ fresh \in [salt : Nat, disk : Nat, call : Nat]
    BY <1>0 DEF VTypeOK, ChangeHeader
  <2> QED
    BY <2>1
<1> QED
  BY <1>b, <1>2, <1>3, <1>4, <1>5, <1>6, StepInv DEF ChangeHeader

(* The steps of a call before it has opened the file for its own work can  *)
(* fail, and so can the reads of mount().                                  *)
LEMMA RefusedInv ==
  ASSUME VInv, NEW c \in Callers, CreateRefused(c) \/ HeaderRefused(c) \/ EarlyFails(c) \/ MountFails(c)
  PROVE  VInv'
<1>1. faults' \in Nat
  <2>1. faults \in Nat /\ (faults' = faults \/ faults' = faults + 1)
    BY DEF VInv, VTypeOK, CreateRefused, HeaderRefused, EarlyFails, MountFails, Fault
  <2> QED
    BY <2>1
<1>2. ~Rewriting(c) /\ ~In(c, "mount", "attach") /\ Returns(c)
  BY DEF CreateRefused, HeaderRefused, EarlyFails, MountFails, Rewriting, Writer, In
<1> QED
  BY <1>1, <1>2, ReturnInv DEF CreateRefused, HeaderRefused, EarlyFails, MountFails

-----------------------------------------------------------------------------
(* Steps that write the vault file.                                        *)

(* What is written is of the right kind.                                   *)
LEMMA WrittenTyped ==
  ASSUME NEW cred \in Credentials, NEW salt \in Nat
  PROVE  /\ \A algorithm \in Algorithms \cup {"XTS"}, plain \in {"zero", "junk"} :
              Encrypted(algorithm, deriveKey(cred, salt), plain) \in Sectors
         /\ \A algorithm \in Algorithms \cup {"XTS"}, iterations \in Nat, sectors \in 1..MaxSectors :
              Header(algorithm, iterations, sectors, salt, computeHmac(HmacKey(cred, salt))) \in Headers
<1>1. deriveKey(cred, salt) \in Keys
  BY DEF deriveKey, hashKeyFile, Keys, Passwords, KeyFiles
<1>2. computeHmac(HmacKey(cred, salt)) \in [under : [password : Passwords, salt : Nat]]
  BY DEF computeHmac, HmacKey, Passwords
<1> QED
  BY <1>1, <1>2 DEF Encrypted, encryptSectorXts, encryptBuffer, Sectors, Header, Headers

(* Writing a sector or the header leaves a file.                           *)
LEMMA FileTyped ==
  ASSUME NEW f \in Files
  PROVE  /\ \A h \in {NoHeader} \cup Headers : LET g == [f EXCEPT !.header = h] IN
              g \in Files /\ g.header = h /\ g.data = f.data
         /\ \A i \in 1..MaxSectors, x \in Sectors : LET g == [f EXCEPT !.data[i] = x] IN
              g \in Files /\ g.header = f.header /\ g.data = [f.data EXCEPT ![i] = x]
  BY DEF Files

(* A step of c that writes leaves everything but the file, the calls and   *)
(* the ghosts, and what is said about the disks.                           *)
LEMMA WritingTypes ==
  ASSUME VInv, NEW c \in Callers, NEW r \in {Idle} \cup Calls, Writing(c, r),
         r # Idle => LocalsOK(r) /\ r.op # "mount",
         ~InCall(c) \/ call[c].op # "mount",
         file' \in {NoFile} \cup Files, owner' \in Credentials \cup {NoOwner}, torn' \in BOOLEAN,
         fresh' \in [salt : Nat, disk : Nat, call : Nat], faults' \in Nat,
         UNCHANGED <<mounted, disks, temps, crashes>>
  PROVE  /\ VTypeOK' /\ call'[c] = r
         /\ MountedIsPlain' /\ DisksAccounted' /\ \A d \in Callers : RecordAttached(d)'
<1>0. VTypeOK
  BY DEF VInv
<1>1. /\ call' \in [Callers -> {Idle} \cup Calls] /\ call'[c] = r
      /\ \A d \in Callers \ {c} : InCall(d)' <=> InCall(d)
      /\ \A d \in Callers \ {c} : InCall(d) => /\ call'[d].op = call[d].op /\ call'[d].pc = call[d].pc
                                               /\ call'[d].header = call[d].header
                                               /\ call'[d].disk = call[d].disk
                                               /\ call'[d].at = call[d].at
  <2>1. call' \in [Callers -> {Idle} \cup Calls] /\ call'[c] = r
    BY <1>0, WritingOthers
  <2> SUFFICES ASSUME NEW d \in Callers \ {c}
               PROVE  /\ InCall(d)' <=> InCall(d)
                      /\ InCall(d) => /\ call'[d].op = call[d].op /\ call'[d].pc = call[d].pc
                                      /\ call'[d].header = call[d].header
                                      /\ call'[d].disk = call[d].disk
                                      /\ call'[d].at = call[d].at
    BY <2>1
  <2>2. CASE InCall(d) /\ call[d].op = "mount"
    <3>1. call'[d] = [call[d] EXCEPT !.odd = TRUE] /\ call[d] \in Calls
      BY <1>0, <2>2, WritingOthers, InCallTyped
    <3> QED
      BY <2>2, <3>1, MarkedFields DEF InCall
  <2>3. CASE ~(InCall(d) /\ call[d].op = "mount")
    <3>1. call'[d] = call[d]
      BY <1>0, <2>3, WritingOthers
    <3> QED
      BY <2>3, <3>1 DEF InCall
  <2> QED
    BY <2>2, <2>3
<1>2. VTypeOK'
  <2>1. \A d \in Callers : InCall(d)' => LocalsOK(call'[d])
    BY <1>0, <1>1 DEF VTypeOK, InCall, Idle, LocalsOK
  <2> QED
    BY <1>0, <1>1, <2>1 DEF VTypeOK
<1>3. MountedIsPlain' /\ DisksAccounted' /\ \A d \in Callers : RecordAttached(d)'
  <2>1. \A d \in Callers : In(d, "mount", "record")' => In(d, "mount", "record") /\ call'[d].disk = call[d].disk
    BY <1>1 DEF In, InCall, Idle
  <2>2. \A d \in Callers : In(d, "mount", "attach") => In(d, "mount", "attach")' /\ call'[d].disk = call[d].disk
    BY <1>1 DEF In, InCall, Idle
  <2> QED
    BY <1>0, <2>1, <2>2, DisksFrame DEF VTypeOK
<1> QED
  BY <1>1, <1>2, <1>3

(* create() opens the file, which empties it.                              *)
LEMMA CreateOpenInv == ASSUME VInv, NEW c \in Callers, CreateOpen(c) PROVE VInv'
<1> DEFINE k == call[c]
           h == Header(k.algorithm, k.iterations, SectorsOf(k.sizeBytes), fresh.salt,
                       computeHmac(HmacKey(k.cred, fresh.salt)))
           r == [k EXCEPT !.pc = "header", !.header = h]
<1>0. /\ VTypeOK /\ k \in Calls /\ In(c, "create", "begin") /\ Writing(c, r)
      /\ file' = EmptyFile /\ owner' = NoOwner /\ torn' = OtherWriter(c)
      /\ fresh' = [fresh EXCEPT !.salt = @ + 1]
  BY InCallTyped DEF VInv, CreateOpen, In
<1>1. h \in Headers /\ h.hmac = computeHmac(HmacKey(k.cred, h.salt))
  <2>1. SectorsOf(k.sizeBytes) \in 1..MaxSectors
    <3>a. call[c].sizeBytes >= VAULT_SECTOR_SIZE * 2
      BY Zenon DEF CreateOpen
    <3>b. k.sizeBytes \in Sizes \cup {0} /\ Sizes \subseteq Nat
      BY <1>0, VaultAssumption DEF Calls
    <3>d. \A n \in Sizes \cup {0} : n >= VAULT_SECTOR_SIZE * 2 => n \in Sizes /\ n \in Nat /\ n > 0
      BY <3>b DEF VAULT_SECTOR_SIZE
    <3>1. k.sizeBytes \in Sizes /\ k.sizeBytes \in Nat /\ k.sizeBytes > 0
      BY <3>a, <3>b, <3>d, Zenon
    <3>2. SectorsOf(k.sizeBytes) >= 1
      BY <3>1 DEF SectorsOf, VAULT_SECTOR_SIZE
    <3> QED
      BY <3>1, <3>2, SectorBound
  <2> QED
    BY <1>0, <2>1, WrittenTyped DEF Calls, VTypeOK, Header
<1>2. r \in Calls /\ r.op = "create" /\ r.pc = "header" /\ r.header = h /\ r.cred = k.cred /\ r.at = k.at
  BY <1>0, <1>1 DEF Calls, In
<1>a. LocalsOK(r)
  BY <1>0, <1>1, <1>2 DEF VTypeOK, LocalsOK, In
<1>3. file' \in Files
  BY <1>0 DEF EmptyFile, Files, Sectors
<1>4. /\ VTypeOK' /\ call'[c] = r
      /\ MountedIsPlain' /\ DisksAccounted' /\ \A d \in Callers : RecordAttached(d)'
  <2>1. fresh \in [salt : Nat, disk : Nat, call : Nat] /\ faults' \in Nat
    BY <1>0 DEF VTypeOK, CreateOpen
  <2>2. fresh' \in [salt : Nat, disk : Nat, call : Nat]
    BY <1>0, <2>1
  <2>3. owner' \in Credentials \cup {NoOwner} /\ torn' \in BOOLEAN
    BY <1>0 DEF OtherWriter
  <2> QED
    BY <1>0, <1>a, <1>2, <1>3, <2>1, <2>2, <2>3, WritingTypes DEF CreateOpen, In
<1>5. VaultKept' /\ \A d \in Callers : OpenIsThere(d)' /\ MountReads(d)'
  <2>1. Rewriting(c)' /\ OpenIsThere(c)' /\ CreateKept(c)' /\ ChangeKept(c)' /\ SplitKept(c)'
    BY <1>1, <1>2, <1>3, <1>4 DEF OpenIsThere, HasOpen, CreateKept, ChangeKept, SplitKept, Rewriting, Writer, In
  <2> QED
    BY <1>0, <1>2, <1>3, <1>4, <2>1, WriterFrame
<1> QED
  BY <1>4, <1>5 DEF VInv

(* create() writes the header.                                             *)
LEMMA CreateHeaderInv == ASSUME VInv, NEW c \in Callers, CreateHeader(c) PROVE VInv'
<1> DEFINE k == call[c]
           r == [k EXCEPT !.pc = "sectors"]
<1>0. /\ VTypeOK /\ k \in Calls /\ In(c, "create", "header") /\ Writing(c, r) /\ Rewriting(c)
      /\ file' = [file EXCEPT !.header = k.header] /\ torn' = (torn \/ OtherWriter(c))
      /\ UNCHANGED <<mounted, disks, temps, fresh, faults, crashes, owner>>
  BY InCallTyped DEF VInv, CreateHeader, In, Rewriting, Writer
<1>1. /\ file \in Files /\ k.header.hmac = computeHmac(HmacKey(k.cred, k.header.salt))
      /\ k.header \in Headers /\ k.at = 1
  BY <1>0 DEF VInv, VTypeOK, LocalsOK, OpenIsThere, HasOpen, Rewriting, Writer, In
<1>2. r \in Calls /\ r.op = "create" /\ r.pc = "sectors" /\ r.header = k.header /\ r.cred = k.cred /\ r.at = k.at
  BY <1>0 DEF Calls, In
<1>3. file' \in Files /\ file'.header = k.header
  BY <1>0, <1>1, FileTyped
<1>4. /\ VTypeOK' /\ call'[c] = r
      /\ MountedIsPlain' /\ DisksAccounted' /\ \A d \in Callers : RecordAttached(d)'
  <2>1. /\ fresh' \in [salt : Nat, disk : Nat, call : Nat] /\ faults' \in Nat
        /\ owner' \in Credentials \cup {NoOwner} /\ torn' \in BOOLEAN
    BY <1>0 DEF VTypeOK, OtherWriter
  <2>2. LocalsOK(r)
    BY <1>1, <1>2 DEF LocalsOK
  <2> QED
    BY <1>0, <1>2, <1>3, <2>1, <2>2, WritingTypes DEF In
<1>5. VaultKept' /\ \A d \in Callers : OpenIsThere(d)' /\ MountReads(d)'
  <2>1. Rewriting(c)' /\ OpenIsThere(c)' /\ ChangeKept(c)' /\ SplitKept(c)'
    BY <1>1, <1>2, <1>3, <1>4 DEF OpenIsThere, HasOpen, ChangeKept, SplitKept, Rewriting, Writer, In
  <2>2. CreateKept(c)'
    <3>1. k.at - 1 = 0
      BY <1>1
    <3> QED
      BY <1>2, <1>3, <1>4, <3>1 DEF CreateKept, Holds
  <2> QED
    BY <1>0, <1>2, <1>3, <1>4, <2>1, <2>2, WriterFrame DEF In
<1> QED
  BY <1>4, <1>5 DEF VInv

(* create() encrypts and writes a sector.                                  *)
LEMMA CreateSectorInv == ASSUME VInv, NEW c \in Callers, CreateSector(c) PROVE VInv'
<1> DEFINE k == call[c]
           h == k.header
           x == Encrypted(h.algorithm, deriveKey(k.cred, h.salt), "zero")
           r == [k EXCEPT !.at = @ + 1]
<1>0. /\ VTypeOK /\ k \in Calls /\ In(c, "create", "sectors") /\ Writing(c, r) /\ Rewriting(c)
      /\ file' = [file EXCEPT !.data[k.at] = x] /\ torn' = (torn \/ OtherWriter(c)) /\ k.at <= h.sectors
      /\ UNCHANGED <<mounted, disks, temps, fresh, faults, crashes, owner>>
  BY InCallTyped DEF VInv, CreateSector, In, Rewriting, Writer
<1>1. file \in Files /\ h.hmac = computeHmac(HmacKey(k.cred, h.salt)) /\ h \in Headers
  BY <1>0 DEF VInv, VTypeOK, LocalsOK, OpenIsThere, HasOpen, Rewriting, Writer, In
<1>2. k.at \in Nat \ {0} /\ k.at \in 1..MaxSectors /\ k.at + 1 \in Nat \ {0} /\ k.cred \in Credentials
  <2>1. k.at \in Nat \ {0} /\ k.cred \in Credentials
    BY <1>0 DEF Calls
  <2>2. h.sectors \in 1..MaxSectors /\ MaxSectors \in Nat
    BY <1>1, SectorBound DEF Headers
  <2> QED
    BY <1>0, <2>1, <2>2
<1>3. r \in Calls /\ r.op = "create" /\ r.pc = "sectors" /\ r.header = h /\ r.cred = k.cred /\ r.at = k.at + 1
  BY <1>0, <1>2 DEF Calls, In
<1>4. x \in Sectors
  BY <1>1, <1>2, WrittenTyped DEF Headers
<1>5. file' \in Files /\ file'.header = file.header /\ file'.data = [file.data EXCEPT ![k.at] = x]
  BY <1>0, <1>1, <1>2, <1>4, FileTyped
<1>6. /\ VTypeOK' /\ call'[c] = r
      /\ MountedIsPlain' /\ DisksAccounted' /\ \A d \in Callers : RecordAttached(d)'
  <2>1. /\ fresh' \in [salt : Nat, disk : Nat, call : Nat] /\ faults' \in Nat
        /\ owner' \in Credentials \cup {NoOwner} /\ torn' \in BOOLEAN
    BY <1>0 DEF VTypeOK, OtherWriter
  <2>2. LocalsOK(r)
    BY <1>1, <1>3 DEF LocalsOK
  <2> QED
    BY <1>0, <1>3, <1>5, <2>1, <2>2, WritingTypes DEF In
<1>7. VaultKept' /\ \A d \in Callers : OpenIsThere(d)' /\ MountReads(d)'
  <2>1. Rewriting(c)' /\ OpenIsThere(c)' /\ ChangeKept(c)' /\ SplitKept(c)'
    BY <1>1, <1>3, <1>5, <1>6 DEF OpenIsThere, HasOpen, ChangeKept, SplitKept, Rewriting, Writer, In
  <2>2. ASSUME ~torn' PROVE CreateKept(c)'
    <3>1. /\ file.header = h
          /\ \A s \in 1..(k.at - 1) : file.data[s] = x
      BY <1>0, <2>2 DEF VInv, VaultKept, CreateKept, Holds
    <3>2. \A s \in 1..(k.at) : s \in 1..MaxSectors /\ (s = k.at \/ s \in 1..(k.at - 1))
      BY <1>2, SectorBound
    <3>3. \A s \in 1..(k.at) : file'.data[s] = x
      BY <1>1, <1>5, <3>1, <3>2 DEF Files
    <3>4. /\ file'.header = call'[c].header /\ call'[c].at = k.at + 1
          /\ x = Encrypted(file'.header.algorithm, deriveKey(call'[c].cred, file'.header.salt), "zero")
      BY <1>3, <1>5, <1>6, <3>1
    <3>5. Holds(1, call[c].at - 1, file.header.algorithm, deriveKey(call[c].cred, file.header.salt))'
      <4>1. 1..(call'[c].at - 1) = 1..(k.at)
        BY <1>2, <3>4
      <4>2. \A s \in 1..(call'[c].at - 1) :
              file'.data[s] = Encrypted(file'.header.algorithm, deriveKey(call'[c].cred, file'.header.salt), "zero")
        BY <3>3, <3>4, <4>1, Zenon
      <4> QED
        BY <4>2 DEF Holds
    <3> QED
      BY <3>4, <3>5 DEF CreateKept
  <2> QED
    BY <1>0, <1>3, <1>5, <1>6, <2>1, <2>2, WriterFrame DEF In
<1> QED
  BY <1>6, <1>7 DEF VInv

(* A writer that has the file open returns without a write of its own: no  *)
(* mount() that counts is under way, and the vault is whole or torn.       *)
LEMMA WriterReturns ==
  ASSUME VInv, NEW c \in Callers, Returns(c), Rewriting(c),
         file' \in Files, owner' \in Credentials \cup {NoOwner}, torn' \in BOOLEAN, faults' \in Nat,
         UNCHANGED <<mounted, disks, temps, fresh, crashes>>,
         torn => torn',
         ~torn' => file' = file /\ OpensWith(owner')
  PROVE  VInv'
<1>0. VTypeOK
  BY DEF VInv
<1>1. call'[c] = Idle /\ (\A d \in Callers \ {c} : call'[d] = call[d]) /\ call' \in [Callers -> {Idle} \cup Calls]
  BY <1>0 DEF VTypeOK, Returns, Local
<1>2. ~InCall(c)' /\ ~Rewriting(c)'
  BY <1>1 DEF InCall, Idle, Rewriting, Writer
<1>3. \A d \in Callers \ {c} : (Rewriting(d)' <=> Rewriting(d)) /\ (InCall(d)' <=> InCall(d))
  BY <1>1 DEF Rewriting, InCall, Writer
<1>4. VTypeOK'
  BY <1>0, <1>1, <1>2 DEF VTypeOK, InCall
<1>5. ASSUME ~torn' PROVE \A d \in Callers \ {c} : ~Rewriting(d)
  BY <1>5 DEF VInv, VaultKept, OwnerKept
<1>6. VaultKept'
  <2> SUFFICES ASSUME ~torn'
               PROVE  OwnerKept' /\ \A d \in Callers : CreateKept(d)' /\ ChangeKept(d)' /\ SplitKept(d)'
    BY DEF VaultKept
  <2>1. OpensWith(owner)'
    BY DEF OpensWith
  <2>2. \A d \in Callers : ~Rewriting(d)'
    BY <1>2, <1>3, <1>5
  <2>3. \A d \in Callers : CreateKept(d)' /\ SplitKept(d)'
    BY <2>2 DEF CreateKept, SplitKept, Rewriting, Writer, In
  <2>4. ChangeKept(c)'
    BY <1>2 DEF ChangeKept, In
  <2>5. \A d \in Callers \ {c} : ChangeKept(d)'
    BY <1>1, <1>3 DEF VInv, VaultKept, ChangeKept, In
  <2> QED
    BY <2>1, <2>2, <2>3, <2>4, <2>5 DEF OwnerKept
<1>7. \A d \in Callers : OpenIsThere(d)'
  <2>1. ~HasOpen(c)' /\ \A d \in Callers \ {c} : HasOpen(d)' <=> HasOpen(d)
    BY <1>1, <1>2, <1>3 DEF HasOpen
  <2> QED
    BY <1>1, <1>2, <1>3, <2>1 DEF VInv, OpenIsThere
<1>8. \A d \in Callers : MountReads(d)'
  <2>1. MountReads(c)'
    BY <1>2 DEF MountReads
  <2>2. \A d \in Callers \ {c} : InCall(d) /\ call[d].op = "mount" =>
          (call[d].junk => call[d].odd) /\ (~call[d].odd => call[d].pc \notin {"closing", "open", "read"})
    BY DEF VInv, MountReads
  <2>3. \A d \in Callers \ {c} : MountReads(d)'
    BY <1>1, <1>3, <2>2 DEF MountReads
  <2> QED
    BY <2>1, <2>3
<1>9. MountedIsPlain' /\ DisksAccounted' /\ \A d \in Callers : RecordAttached(d)'
  <2>1. ~In(c, "mount", "attach")
    BY DEF In, Rewriting, Writer
  <2>2. \A d \in Callers : In(d, "mount", "record")' => In(d, "mount", "record") /\ call'[d].disk = call[d].disk
    BY <1>1, <1>2, <1>3 DEF In
  <2>3. \A d \in Callers : In(d, "mount", "attach") => In(d, "mount", "attach")' /\ call'[d].disk = call[d].disk
    BY <1>1, <1>3, <2>1 DEF In
  <2> QED
    BY <1>0, <2>2, <2>3, DisksFrame DEF VTypeOK
<1> QED
  BY <1>4, <1>6, <1>7, <1>8, <1>9 DEF VInv

(* What create() has written in full opens with its credentials.           *)
LEMMA CreateDoneInv ==
  ASSUME VInv, NEW c \in Callers, CreateDone(c) \/ CreateFlushLost(c)
  PROVE  VInv'
<1> DEFINE k == call[c]
<1>0. /\ VTypeOK /\ k \in Calls /\ In(c, "create", "sectors") /\ Rewriting(c) /\ Returns(c)
      /\ k.at > k.header.sectors /\ owner' = k.cred
      /\ UNCHANGED <<mounted, disks, temps, fresh, crashes>>
  BY InCallTyped DEF VInv, CreateDone, CreateFlushLost, In, Rewriting, Writer
<1>1. /\ file \in Files /\ k.header.hmac = computeHmac(HmacKey(k.cred, k.header.salt)) /\ k.header \in Headers
      /\ k.cred \in Credentials /\ faults \in Nat /\ torn \in BOOLEAN /\ k.at \in Nat
  BY <1>0 DEF VInv, VTypeOK, LocalsOK, OpenIsThere, HasOpen, Rewriting, Writer, In, Calls
<1>2. k.header.sectors \in 1..MaxSectors /\ MaxSectors \in Nat
  BY <1>1, SectorBound DEF Headers
<1>3. CASE CreateDone(c)
  <2>1. ASSUME ~torn PROVE OpensWith(k.cred)
    <3>1. /\ file.header = k.header
          /\ Holds(1, k.at - 1, file.header.algorithm, deriveKey(k.cred, file.header.salt))
      BY <1>0, <2>1 DEF VInv, VaultKept, CreateKept
    <3>2. k.header # NoHeader /\ file.there
      <4>1. NoHeader.sectors = 0 /\ k.header.sectors # 0
        BY <1>2 DEF NoHeader
      <4> QED
        BY <1>1, <4>1 DEF Files
    <3>3. \A s \in 1..k.header.sectors : s \in 1..(k.at - 1)
      BY <1>0, <1>1, <1>2
    <3> QED
      BY <1>1, <3>1, <3>2, <3>3 DEF OpensWith, Holds
  <2>2. file' = file /\ torn' = torn /\ faults' = faults
    BY <1>3 DEF CreateDone
  <2> QED
    BY <1>0, <1>1, <2>1, <2>2, WriterReturns
<1>4. CASE CreateFlushLost(c)
  <2>1. file' = [file EXCEPT !.data[k.header.sectors] = Lacking] /\ torn' = TRUE /\ faults' = faults + 1
    BY <1>4 DEF CreateFlushLost, Fault
  <2>2. file' \in Files
    BY <1>1, <1>2, <2>1, FileTyped DEF Sectors
  <2>3. faults' \in Nat
    BY <1>1, <2>1
  <2> QED
    BY <1>0, <1>1, <2>1, <2>2, <2>3, WriterReturns
<1> QED
  BY <1>3, <1>4

(* create() has failed and removed the file, unless someone has it open.   *)
LEMMA CreateFailsInv == ASSUME VInv, NEW c \in Callers, CreateFails(c) PROVE VInv'
<1> DEFINE inUse == \E d \in Callers \ {c} : HasOpen(d)
<1>0. /\ VTypeOK /\ InCall(c) /\ call[c].op = "create" /\ Writing(c, Idle)
      /\ file' = (IF inUse THEN file ELSE NoFile)
      /\ torn' = (torn \/ OtherWriter(c) \/ inUse) /\ faults' = faults + 1
      /\ UNCHANGED <<mounted, disks, temps, fresh, crashes, owner>>
  BY DEF VInv, CreateFails, In, Fault
<1>1. \A d \in Callers \ {c} : HasOpen(d) => file' \in Files
  BY <1>0 DEF VInv, OpenIsThere
<1>2. /\ VTypeOK' /\ call'[c] = Idle
      /\ MountedIsPlain' /\ DisksAccounted' /\ \A d \in Callers : RecordAttached(d)'
  <2>1. /\ fresh' \in [salt : Nat, disk : Nat, call : Nat] /\ faults \in Nat
        /\ owner' \in Credentials \cup {NoOwner} /\ file' \in {NoFile} \cup Files
    BY <1>0 DEF VTypeOK
  <2>2. faults' \in Nat /\ torn' \in BOOLEAN
    BY <1>0, <2>1 DEF VTypeOK, OtherWriter
  <2> QED
    BY <1>0, <2>1, <2>2, WritingTypes
<1>3. VaultKept' /\ \A d \in Callers : OpenIsThere(d)' /\ MountReads(d)'
  <2>1. ~InCall(c)' /\ ~Rewriting(c)'
    BY <1>2 DEF InCall, Idle, Rewriting, Writer
  <2>2. OpenIsThere(c)' /\ CreateKept(c)' /\ ChangeKept(c)' /\ SplitKept(c)'
    BY <2>1 DEF OpenIsThere, HasOpen, CreateKept, ChangeKept, SplitKept, In
  <2> QED
    BY <1>0, <1>1, <1>2, <2>1, <2>2, WriterFrame
<1> QED
  BY <1>2, <1>3 DEF VInv

(* changePassword() opens the file: still the one whose header it has read *)
(* or the vault is torn.                                                   *)
LEMMA ChangeOpenInv == ASSUME VInv, NEW c \in Callers, ChangeOpen(c) PROVE VInv'
<1> DEFINE k == call[c]
           r == [k EXCEPT !.pc = "sectors"]
<1>0. /\ VTypeOK /\ k \in Calls /\ In(c, "change", "open") /\ Writing(c, r)
      /\ file' = (IF file.there THEN file ELSE EmptyFile) /\ torn' = (torn \/ OtherWriter(c))
      /\ UNCHANGED <<mounted, disks, temps, fresh, faults, crashes, owner>>
  BY InCallTyped DEF VInv, ChangeOpen, In
<1>1. k.header \in Headers /\ k.at = 1
  BY <1>0 DEF VTypeOK, LocalsOK, In
<1>2. /\ r \in Calls /\ r.op = "change" /\ r.pc = "sectors" /\ r.header = k.header /\ r.cred = k.cred
      /\ r.at = 1 /\ r.new = k.new /\ r.salt = k.salt
  BY <1>0, <1>1 DEF Calls, In
<1>3. file' \in Files /\ (file \in Files => file' = file)
  <2>1. EmptyFile \in Files
    BY DEF EmptyFile, Files, Sectors
  <2>2. file \in Files => file.there
    BY DEF Files
  <2>3. ~(NoFile.there)
    BY DEF NoFile
  <2> QED
    BY <1>0, <2>1, <2>2, <2>3 DEF VTypeOK
<1>4. /\ VTypeOK' /\ call'[c] = r
      /\ MountedIsPlain' /\ DisksAccounted' /\ \A d \in Callers : RecordAttached(d)'
  <2>1. /\ fresh' \in [salt : Nat, disk : Nat, call : Nat] /\ faults' \in Nat
        /\ owner' \in Credentials \cup {NoOwner} /\ torn' \in BOOLEAN
    BY <1>0 DEF VTypeOK, OtherWriter
  <2>2. LocalsOK(r)
    BY <1>1, <1>2 DEF LocalsOK
  <2> QED
    BY <1>0, <1>2, <1>3, <2>1, <2>2, WritingTypes DEF In
<1>5. VaultKept' /\ \A d \in Callers : OpenIsThere(d)' /\ MountReads(d)'
  <2>1. Rewriting(c)' /\ OpenIsThere(c)' /\ CreateKept(c)'
    BY <1>2, <1>3, <1>4 DEF OpenIsThere, HasOpen, CreateKept, Rewriting, Writer, In
  <2>2. ASSUME ~torn' PROVE ChangeKept(c)' /\ SplitKept(c)'
    <3>1. /\ ~torn /\ \A d \in Callers : ~Rewriting(d)
      BY <1>0, <2>2 DEF OtherWriter, Rewriting, Writer, In
    <3>2. /\ file \in Files /\ file' = file /\ file.header = k.header
          /\ file.header.hmac = computeHmac(HmacKey(k.cred, file.header.salt))
      BY <1>0, <1>3, <3>1 DEF VInv, VaultKept, ChangeKept
    <3>3. OpensWith(owner)
      <4>1. file # NoFile
        BY <3>2 DEF Files, NoFile
      <4> QED
        BY <3>1, <4>1 DEF VInv, VaultKept, OwnerKept
    <3>4. ChangeKept(c)'
      BY <1>2, <1>4, <3>2 DEF ChangeKept
    <3>5. SplitKept(c)'
      BY <1>0, <1>2, <1>4, <3>2, <3>3 DEF SplitKept, OpensWith, Holds
    <3> QED
      BY <3>4, <3>5
  <2>3. ~torn' => ~OtherWriter(c)
    BY <1>0
  <2> QED
    BY <1>0, <1>2, <1>3, <1>4, <2>1, <2>2, <2>3, WriterFrame
<1> QED
  BY <1>4, <1>5 DEF VInv

(* Whatever a sector is decrypted with, the result is one of three.        *)
LEMMA DecryptsTyped ==
  ASSUME NEW algorithm, NEW x \in Sectors, NEW key
  PROVE  Decrypts(algorithm, x, key) \subseteq {"zero", "junk", "fail"}
  BY DEF Decrypts, decryptSectorXts, decryptBuffer, Sectors, Lacking

(* changePassword() while the vault is not torn: who changes it is its     *)
(* owner up to the key file, and the next sector is the owner's.           *)
LEMMA ChangeSectorKept ==
  ASSUME VInv, NEW c \in Callers, In(c, "change", "sectors"), ~torn, call[c].at <= call[c].header.sectors,
         call[c].cred.keyFile = owner.keyFile
  PROVE  LET h == call[c].header IN
         /\ ~Short(call[c].at)
         /\ \A out \in Decrypts(h.algorithm, file.data[call[c].at], OldKey(c)) :
              IF h.algorithm = "XTS" THEN out = "zero" ELSE out = "fail"
<1> DEFINE k == call[c]
           h == k.header
<1>0. VTypeOK /\ k \in Calls /\ h \in Headers
  BY InCallTyped DEF VInv, VTypeOK, LocalsOK, In
<1>1. /\ file \in Files /\ file.header = h
      /\ h.hmac = computeHmac(HmacKey(k.cred, h.salt))
      /\ h.hmac = computeHmac(HmacKey(owner, h.salt))
      /\ Holds(k.at, h.sectors, h.algorithm, deriveKey(owner, h.salt))
  BY DEF VInv, VaultKept, ChangeKept, SplitKept
<1>2. deriveKey(owner, h.salt) = deriveKey(k.cred, h.salt)
  <2>1. computeHmac(HmacKey(owner, h.salt)) = computeHmac(HmacKey(k.cred, h.salt))
    BY <1>1
  <2> HIDE DEF h, k
  <2>2. owner.password = k.cred.password
    BY <2>1, HmacInjective
  <2> QED
    BY <2>2, SameCredentials DEF k
<1>3. k.at \in 1..h.sectors /\ k.at \in k.at..h.sectors /\ k.at \in k.at..MaxSectors
  <2>1. k.at \in Nat \ {0} /\ h.sectors \in 1..MaxSectors /\ MaxSectors \in Nat
    BY <1>0, SectorBound DEF Calls, Headers
  <2> QED
    BY <2>1
<1>4. file.data[k.at] = Encrypted(h.algorithm, deriveKey(k.cred, h.salt), "zero")
  BY <1>1, <1>2, <1>3 DEF Holds
<1>5. ~Short(k.at)
  BY <1>3, <1>4 DEF Short, Encrypted, encryptSectorXts, encryptBuffer, Lacking
<1>6. \A out \in Decrypts(h.algorithm, file.data[k.at], OldKey(c)) :
        IF h.algorithm = "XTS" THEN out = "zero" ELSE out = "fail"
  BY <1>4, RightKey DEF OldKey
<1> QED
  BY <1>5, <1>6

(* A vault of which no sector has been re-encrypted is still the owner's.  *)
LEMMA UntouchedOpens ==
  ASSUME VInv, NEW c \in Callers, In(c, "change", "sectors"), ~torn, call[c].at = 1
  PROVE  OpensWith(owner)
<1>1. file \in Files /\ file.header \in Headers
  BY InCallTyped DEF VInv, VTypeOK, LocalsOK, In, VaultKept, ChangeKept
<1>2. file.header # NoHeader
  <2>1. NoHeader.sectors = 0 /\ file.header.sectors # 0
    BY <1>1, SectorBound DEF NoHeader, Headers
  <2> QED
    BY <2>1
<1> QED
  BY <1>1, <1>2 DEF VInv, VaultKept, SplitKept, OpensWith, Holds, Files

(* changePassword() re-encrypts a sector, or finds that it cannot.         *)
LEMMA ChangeSectorInv == ASSUME VInv, NEW c \in Callers, ChangeSector(c) PROVE VInv'
<1> DEFINE k == call[c]
           h == k.header
           x(out) == Encrypted(h.algorithm, NewKey(c), out)
           r == [k EXCEPT !.at = @ + 1]
<1>0. /\ VTypeOK /\ k \in Calls /\ In(c, "change", "sectors") /\ Rewriting(c) /\ k.at <= h.sectors
      /\ torn' = (torn \/ OtherWriter(c) \/ k.cred.keyFile # owner.keyFile)
      /\ UNCHANGED <<mounted, disks, temps, fresh, faults, crashes, owner>>
  BY InCallTyped DEF VInv, ChangeSector, In, Rewriting, Writer
<1>1. PICK out \in IF Short(k.at) THEN {"fail"} ELSE Decrypts(h.algorithm, file.data[k.at], OldKey(c)) :
        /\ Writing(c, IF out = "fail" THEN Idle ELSE r)
        /\ file' = IF out = "fail" THEN file ELSE [file EXCEPT !.data[k.at] = x(out)]
  BY DEF ChangeSector
<1>2. file \in Files /\ h \in Headers
  BY <1>0 DEF VInv, VTypeOK, LocalsOK, OpenIsThere, HasOpen, Rewriting, Writer, In
<1>3. k.at \in Nat \ {0} /\ k.at \in 1..MaxSectors /\ k.at + 1 \in Nat \ {0}
      /\ k.new \in Credentials /\ k.salt \in Nat
  <2>1. k.at \in Nat \ {0} /\ k.new \in Credentials /\ k.salt \in Nat
    BY <1>0 DEF Calls
  <2>2. h.sectors \in 1..MaxSectors /\ MaxSectors \in Nat
    BY <1>2, SectorBound DEF Headers
  <2> QED
    BY <1>0, <2>1, <2>2
<1>4. /\ fresh' \in [salt : Nat, disk : Nat, call : Nat] /\ faults' \in Nat
      /\ owner' \in Credentials \cup {NoOwner} /\ torn' \in BOOLEAN
  BY <1>0 DEF VTypeOK, OtherWriter
<1>5. ASSUME ~torn'
      PROVE  /\ ~torn /\ ~OtherWriter(c) /\ k.cred.keyFile = owner.keyFile
             /\ IF h.algorithm = "XTS" THEN out = "zero" ELSE out = "fail"
  <2>1. ~torn /\ ~OtherWriter(c) /\ k.cred.keyFile = owner.keyFile
    BY <1>0, <1>5
  <2> QED
    BY <1>0, <1>1, <2>1, ChangeSectorKept
<1>6. CASE out = "fail"
  <2>1. Writing(c, Idle) /\ file' = file
    BY <1>1, <1>6
  <2>2. /\ VTypeOK' /\ call'[c] = Idle
        /\ MountedIsPlain' /\ DisksAccounted' /\ \A d \in Callers : RecordAttached(d)'
    BY <1>0, <1>2, <1>4, <2>1, WritingTypes DEF In
  <2>3. ~InCall(c)' /\ ~Rewriting(c)'
    BY <2>2 DEF InCall, Idle, Rewriting, Writer
  <2>4. OpenIsThere(c)' /\ CreateKept(c)' /\ ChangeKept(c)' /\ SplitKept(c)'
    BY <2>3 DEF OpenIsThere, HasOpen, CreateKept, ChangeKept, SplitKept, In
  <2>5. ASSUME ~torn' PROVE OpensWith(owner)'
    <3>1. ~torn /\ h.algorithm # "XTS" /\ file.header = h
      BY <1>0, <1>5, <1>6, <2>5 DEF VInv, VaultKept, ChangeKept
    <3>2. k.at = 1
      BY <1>0, <1>3, <3>1 DEF VInv, VaultKept, SplitKept
    <3>3. OpensWith(owner)
      BY <1>0, <3>1, <3>2, UntouchedOpens
    <3> QED
      BY <1>0, <2>1, <3>3 DEF OpensWith
  <2>6. VaultKept' /\ \A d \in Callers : OpenIsThere(d)' /\ MountReads(d)'
    BY <1>2, <1>5, <2>1, <2>3, <2>4, <2>5, WriterFrame
  <2> QED
    BY <2>2, <2>6 DEF VInv
<1>7. CASE out # "fail"
  <2>1. Writing(c, r) /\ file' = [file EXCEPT !.data[k.at] = x(out)]
    BY <1>1, <1>7
  <2>2. x(out) \in Sectors
    <3>1. file.data[k.at] \in Sectors
      BY <1>2, <1>3 DEF Files
    <3>2. out \in {"zero", "junk"}
      BY <1>1, <1>7, <3>1, DecryptsTyped
    <3> QED
      BY <1>2, <1>3, <3>2, WrittenTyped DEF NewKey, Headers
  <2>3. file' \in Files /\ file'.header = file.header /\ file'.data = [file.data EXCEPT ![k.at] = x(out)]
    BY <1>2, <1>3, <2>1, <2>2, FileTyped
  <2>4. /\ r \in Calls /\ r.op = "change" /\ r.pc = "sectors" /\ r.header = h /\ r.cred = k.cred
        /\ r.new = k.new /\ r.salt = k.salt /\ r.at = k.at + 1
    BY <1>0, <1>3 DEF Calls, In
  <2>5. LocalsOK(r)
    BY <1>2, <2>4 DEF LocalsOK
  <2>6. /\ VTypeOK' /\ call'[c] = r
        /\ MountedIsPlain' /\ DisksAccounted' /\ \A d \in Callers : RecordAttached(d)'
    BY <1>0, <1>4, <2>1, <2>3, <2>4, <2>5, WritingTypes DEF In
  <2>7. Rewriting(c)' /\ OpenIsThere(c)' /\ CreateKept(c)'
    BY <2>3, <2>4, <2>6 DEF OpenIsThere, HasOpen, CreateKept, Rewriting, Writer, In
  <2>8. ASSUME ~torn' PROVE ChangeKept(c)' /\ SplitKept(c)'
    <3>1. ~torn /\ h.algorithm = "XTS" /\ out = "zero" /\ k.cred.keyFile = owner.keyFile
      BY <1>5, <1>7, <2>8
    <3>2. /\ file.header = h /\ h.hmac = computeHmac(HmacKey(k.cred, h.salt))
          /\ h.hmac = computeHmac(HmacKey(owner, h.salt))
          /\ \A s \in k.at..h.sectors : file.data[s] = Encrypted(h.algorithm, deriveKey(owner, h.salt), "zero")
          /\ \A s \in 1..(k.at - 1) : file.data[s] = Encrypted(h.algorithm, NewKey(c), "zero")
      BY <1>0, <3>1 DEF VInv, VaultKept, ChangeKept, SplitKept, Holds
    <3>3. ChangeKept(c)'
      BY <2>3, <2>4, <2>6, <3>2 DEF ChangeKept
    <3>4. NewKey(c)' = NewKey(c)
      BY <2>4, <2>6 DEF NewKey
    <3>5. file'.header = h /\ call'[c].at = k.at + 1 /\ call'[c].cred = k.cred /\ owner' = owner
      BY <1>0, <2>3, <2>4, <2>6, <3>2
    <3>6. /\ h.sectors \in 1..MaxSectors /\ MaxSectors \in Nat
          /\ \A s \in (k.at + 1)..h.sectors : s \in 1..MaxSectors /\ s # k.at /\ s \in k.at..h.sectors
          /\ \A s \in 1..((k.at + 1) - 1) : s \in 1..MaxSectors /\ (s = k.at \/ s \in 1..(k.at - 1))
      <4>1. h.sectors \in 1..MaxSectors /\ MaxSectors \in Nat
        BY <1>2, SectorBound DEF Headers
      <4> QED
        BY <1>3, <4>1
    <3>7. Holds(call[c].at, file.header.sectors, file.header.algorithm, deriveKey(owner, file.header.salt))'
      <4>1. \A s \in (k.at + 1)..h.sectors : file'.data[s] = Encrypted(h.algorithm, deriveKey(owner, h.salt), "zero")
        BY <1>2, <2>3, <3>2, <3>6 DEF Files
      <4> QED
        BY <3>5, <4>1, Zenon DEF Holds
    <3>8. Holds(1, call[c].at - 1, file.header.algorithm, NewKey(c))'
      <4>1. \A s \in 1..((k.at + 1) - 1) : file'.data[s] = Encrypted(h.algorithm, NewKey(c), "zero")
        BY <1>2, <2>3, <3>1, <3>2, <3>6 DEF Files
      <4> QED
        BY <3>4, <3>5, <4>1, Zenon DEF Holds
    <3>9. SplitKept(c)'
      BY <3>1, <3>2, <3>5, <3>7, <3>8 DEF SplitKept
    <3> QED
      BY <3>3, <3>9
  <2>9. VaultKept' /\ \A d \in Callers : OpenIsThere(d)' /\ MountReads(d)'
    BY <1>5, <2>1, <2>3, <2>4, <2>6, <2>7, <2>8, WriterFrame
  <2> QED
    BY <2>6, <2>9 DEF VInv
<1> QED
  BY <1>6, <1>7

(* changePassword() writes the new header: every sector is under the new   *)
(* key by now.                                                             *)
LEMMA ChangeSealInv == ASSUME VInv, NEW c \in Callers, ChangeSeal(c) PROVE VInv'
<1> DEFINE k == call[c]
           h == k.header
           g == Header(h.algorithm, h.iterations, h.sectors, k.salt, computeHmac(HmacKey(k.new, k.salt)))
<1>0. /\ VTypeOK /\ k \in Calls /\ In(c, "change", "sectors") /\ Rewriting(c) /\ k.at > h.sectors
      /\ file' = [file EXCEPT !.header = g] /\ Writing(c, Idle)
      /\ owner' = k.new /\ torn' = (torn \/ OtherWriter(c))
      /\ UNCHANGED <<mounted, disks, temps, fresh, faults, crashes>>
  BY InCallTyped DEF VInv, ChangeSeal, In, Rewriting, Writer
<1>1. file \in Files /\ h \in Headers /\ k.new \in Credentials /\ k.salt \in Nat /\ k.at \in Nat
  BY <1>0 DEF VInv, VTypeOK, LocalsOK, OpenIsThere, HasOpen, Rewriting, Writer, In, Calls
<1>2. g \in Headers /\ g.algorithm = h.algorithm /\ g.sectors = h.sectors /\ g.salt = k.salt
      /\ g.hmac = computeHmac(HmacKey(k.new, k.salt)) /\ h.sectors \in 1..MaxSectors /\ MaxSectors \in Nat
  <2>1. /\ h.algorithm \in Algorithms \cup {"XTS"} /\ h.iterations \in Nat
        /\ h.sectors \in 1..MaxSectors /\ MaxSectors \in Nat
    BY <1>1, SectorBound DEF Headers
  <2>2. g \in Headers
    BY <1>1, <2>1, WrittenTyped
  <2> QED
    BY <2>1, <2>2 DEF Header
<1>3. file' \in Files /\ file'.header = g /\ file'.data = file.data
  BY <1>0, <1>1, <1>2, FileTyped
<1>4. /\ VTypeOK' /\ call'[c] = Idle
      /\ MountedIsPlain' /\ DisksAccounted' /\ \A d \in Callers : RecordAttached(d)'
  <2>1. /\ fresh' \in [salt : Nat, disk : Nat, call : Nat] /\ faults' \in Nat
        /\ owner' \in Credentials \cup {NoOwner} /\ torn' \in BOOLEAN
    BY <1>0, <1>1 DEF VTypeOK, OtherWriter
  <2> QED
    BY <1>0, <1>3, <2>1, WritingTypes DEF In
<1>5. VaultKept' /\ \A d \in Callers : OpenIsThere(d)' /\ MountReads(d)'
  <2>1. ~InCall(c)' /\ ~Rewriting(c)'
    BY <1>4 DEF InCall, Idle, Rewriting, Writer
  <2>2. OpenIsThere(c)' /\ CreateKept(c)' /\ ChangeKept(c)' /\ SplitKept(c)'
    BY <2>1 DEF OpenIsThere, HasOpen, CreateKept, ChangeKept, SplitKept, In
  <2>3. ASSUME ~torn' PROVE OpensWith(owner)'
    <3>1. file.header = h /\ \A s \in 1..(k.at - 1) : file.data[s] = Encrypted(h.algorithm, NewKey(c), "zero")
      BY <1>0, <2>3 DEF VInv, VaultKept, ChangeKept, SplitKept, Holds
    <3>2. \A s \in 1..h.sectors : s \in 1..(k.at - 1)
      BY <1>0, <1>1, <1>2
    <3>3. file'.there /\ file'.header # NoHeader
      <4>1. NoHeader.sectors = 0 /\ g.sectors # 0
        BY <1>2 DEF NoHeader
      <4> QED
        BY <1>3, <4>1 DEF Files
    <3> HIDE DEF g, h, k
    <3>4. file'.header.algorithm = h.algorithm /\ file'.header.sectors = h.sectors
          /\ file'.header.salt = k.salt /\ file'.header.hmac = computeHmac(HmacKey(k.new, k.salt))
      BY <1>2, <1>3
    <3>5. \A s \in 1..h.sectors : file'.data[s] = Encrypted(h.algorithm, deriveKey(k.new, k.salt), "zero")
      BY <1>3, <3>1, <3>2 DEF NewKey, k
    <3>6. owner' = k.new
      BY <1>0
    <3> QED
      BY <3>3, <3>4, <3>5, <3>6 DEF OpensWith
  <2> QED
    BY <1>0, <1>3, <1>4, <2>1, <2>2, <2>3, WriterFrame
<1> QED
  BY <1>4, <1>5 DEF VInv

(* changePassword() gives up: the vault is torn, or still the owner's.     *)
LEMMA ChangeFailsInv ==
  ASSUME VInv, NEW c \in Callers, ChangeFails(c) \/ ChangeSealFails(c)
  PROVE  VInv'
<1>0. /\ VTypeOK /\ call[c] \in Calls /\ In(c, "change", "sectors") /\ Rewriting(c) /\ Returns(c)
      /\ faults' = faults + 1 /\ UNCHANGED <<file, mounted, disks, temps, fresh, crashes, owner>>
  BY InCallTyped DEF VInv, ChangeFails, ChangeSealFails, Fault, In, Rewriting, Writer
<1>1. file \in Files /\ faults \in Nat /\ owner \in Credentials \cup {NoOwner} /\ call[c].at \in Nat \ {0}
  BY <1>0 DEF VInv, VTypeOK, OpenIsThere, HasOpen, In, Calls
<1>2. torn' \in BOOLEAN /\ (torn => torn') /\ (~torn' => ~torn /\ ~(call[c].at > 1))
  BY <1>0 DEF VTypeOK, ChangeFails, ChangeSealFails
<1>3. ~torn' => OpensWith(owner)
  BY <1>0, <1>1, <1>2, UntouchedOpens
<1>4. faults' \in Nat
  BY <1>0, <1>1
<1> QED
  BY <1>0, <1>1, <1>2, <1>3, <1>4, WriterReturns

-----------------------------------------------------------------------------

(* The program dies: if no writer had the file open, the vault is as its   *)
(* owner left it.                                                          *)
LEMMA CrashInv == ASSUME VInv, Crash PROVE VInv'
<1>0. VTypeOK /\ crashes \in Nat /\ crashes' = crashes + 1
  BY DEF VInv, VTypeOK, Crash
<1>1. \A c \in Callers : call'[c] = Idle /\ ~InCall(c)' /\ ~Rewriting(c)'
  BY DEF Crash, InCall, Idle, Rewriting, Writer
<1>2. VTypeOK'
  <2>1. crashes' \in Nat /\ call' \in [Callers -> {Idle} \cup Calls] /\ torn' \in BOOLEAN
    BY <1>0 DEF Crash, VTypeOK
  <2> QED
    BY <1>0, <1>1, <2>1 DEF Crash, VTypeOK
<1>3. VaultKept'
  <2> SUFFICES ASSUME ~torn' PROVE OwnerKept'
    BY <1>1 DEF VaultKept, CreateKept, ChangeKept, SplitKept, In
  <2>1. ~torn /\ \A c \in Callers : ~Rewriting(c)
    BY DEF Crash
  <2>2. file = NoFile \/ OpensWith(owner)
    BY <2>1 DEF VInv, VaultKept, OwnerKept
  <2> QED
    BY <1>1, <2>2 DEF Crash, OwnerKept, OpensWith
<1>4. \A c \in Callers : OpenIsThere(c)' /\ MountReads(c)'
  BY <1>1 DEF OpenIsThere, HasOpen, MountReads
<1>5. MountedIsPlain' /\ DisksAccounted' /\ \A c \in Callers : RecordAttached(c)'
  <2>1. crashes' \in Nat /\ crashes' >= crashes /\ crashes' # 0
    BY <1>0
  <2>2. \A c \in Callers : ~In(c, "mount", "record")'
    BY <1>1 DEF In
  <2> QED
    BY <2>1, <2>2, DisksFrame DEF Crash
<1> QED
  BY <1>2, <1>3, <1>4, <1>5 DEF VInv

(* Nothing happens to the vault.                                           *)
LEMMA VStutterInv == ASSUME VInv, UNCHANGED vvars PROVE VInv'
<1>1. VTypeOK'
  BY DEF VInv, VTypeOK, vvars, InCall
<1>2. VaultKept'
  BY DEF VInv, VaultKept, OwnerKept, CreateKept, ChangeKept, SplitKept, In, InCall, Holds, NewKey, OpensWith,
         Rewriting, Writer, vvars
<1>3. \A c \in Callers : OpenIsThere(c)' /\ MountReads(c)' /\ RecordAttached(c)'
  BY DEF VInv, OpenIsThere, HasOpen, MountReads, RecordAttached, OpensWith, Rewriting, Writer, In, InCall, vvars
<1>4. MountedIsPlain' /\ DisksAccounted'
  BY DEF VInv, MountedIsPlain, DisksAccounted, EntryIsAttached, NoStrayPlaintext, In, InCall, vvars
<1> QED
  BY <1>1, <1>2, <1>3, <1>4 DEF VInv

(* Every step of every caller, and the end of the program, preserve VInv.  *)
LEMMA VNextInv == VInv /\ [VNext]_vvars => VInv'
<1> SUFFICES ASSUME VInv, [VNext]_vvars PROVE VInv'
  OBVIOUS
<1>1. CASE UNCHANGED vvars
  BY <1>1, VStutterInv
<1>2. CASE Crash
  BY <1>2, CrashInv
<1>3. ASSUME NEW c \in Callers, Call(c) PROVE VInv'
  BY <1>3, CallInv
<1>4. ASSUME NEW c \in Callers, Step(c) PROVE VInv'
  BY <1>4, RefusedInv, CreateOpenInv, CreateHeaderInv, CreateSectorInv, CreateDoneInv, HeaderOpenInv,
     HeaderReadInv, MountHeaderInv, MountOpenInv, MountSectorInv, AttachInv, ChangeHeaderInv, ChangeOpenInv,
     ChangeSectorInv, ChangeSealInv DEF Step
<1>5. ASSUME NEW c \in Callers, Fails(c) PROVE VInv'
  BY <1>5, CreateDoneInv, CreateFailsInv, RefusedInv, AttachInv, ChangeFailsInv DEF Fails
<1> QED
  BY <1>1, <1>2, <1>3, <1>4, <1>5 DEF VNext

(* VInv holds whatever the callers do, whatever fails and whenever the     *)
(* program dies.                                                           *)
THEOREM VaultInvariant == VSpec => []VInv
  BY VInitInv, VNextInv, PTL DEF VSpec

(* The vault, the calls' locals, the disks and the counters keep the types *)
(* that EncryptedVault.cpp gives them, and a call past its first step has  *)
(* the header it read or made.                                             *)
THEOREM VTypeCorrect == VSpec => []VTypeOK
<1>1. VInv => VTypeOK
  BY DEF VInv
<1> QED
  BY <1>1, VaultInvariant, PTL

(* Between calls of EncryptedVault::create() and changePassword() the file *)
(* is absent or opens with the credentials last given with success, unless *)
(* the vault was torn in one of the ways the code has to tear it (a removal *)
(* refused while another call reads the header is one).                    *)
THEOREM VaultOpensWithOwner == VSpec => []OpensWithOwner
<1>1. VInv => OpensWithOwner
  BY DEF VInv, VaultKept, OwnerKept, OpensWithOwner, Rewriting
<1> QED
  BY <1>1, VaultInvariant, PTL

(* What EncryptedVault::mount() attaches is the plaintext that was stored, *)
(* except with a wrong key file, from a torn vault or beside a writer.     *)
THEOREM VaultMountedIsPlain == VSpec => []MountedIsPlain
<1>1. VInv => MountedIsPlain
  BY DEF VInv
<1> QED
  BY <1>1, VaultInvariant, PTL

(* m_mounted names attached disks only, and until the program dies every   *)
(* decrypted temporary file belongs to a disk or to a mount() under way.   *)
THEOREM VaultDisksAccounted == VSpec => []DisksAccounted
<1>1. VInv => DisksAccounted
  BY DEF VInv
<1> QED
  BY <1>1, VaultInvariant, PTL
=============================================================================
