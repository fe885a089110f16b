---------------------------- MODULE EncryptedVault ----------------------------
(***************************************************************************)
(* The vault container (src/src/core/security/EncryptedVault.cpp): one     *)
(* vault file, used through one EncryptedVault object by several threads.  *)
(* m_mutex guards only the table of mounted vaults; the file is opened,    *)
(* rewritten in place and removed without any lock, and mount() leaves the *)
(* mutex between its check and its entry.  The program may die anywhere.   *)
(*                                                                         *)
(* A key is what it was derived from; a sector is its plaintext with the   *)
(* key it was encrypted under.  Decryption with another key gives "junk"   *)
(* or fails, as the mode of the cipher has it.                             *)
(***************************************************************************)
EXTENDS Naturals, FiniteSets

CONSTANTS Callers,      \* the threads that call the object
          Credentials,  \* the pairs of password and key file they try; the
                        \* empty password is "", no key file is "none"
          Algorithms,   \* of "XTS", "CBC", "GCM"
          Sizes,        \* sizeBytes of create()
          Iterations,   \* pbkdf2Iterations of create()
          MaxCalls,     \* bound on the calls made
          MaxFaults,    \* bound on failing reads, writes and system calls
          MaxCrashes    \* bound on the times the program dies

ASSUME VaultAssumption == /\ Iterations \subseteq Nat /\ Sizes \subseteq Nat
                          /\ \E m \in Sizes : m > 0 /\ \A s \in Sizes : s <= m
                          /\ MaxCalls \in Nat /\ MaxFaults \in Nat /\ MaxCrashes \in Nat

VARIABLES file,     \* the vault file
          call,     \* per caller, the call it is in and its local variables
          mounted,  \* m_mounted: the disks entered for the vault, none or one
          disks,    \* the attached virtual disks
          temps,    \* the temporary VHD files, decrypted, not attached (yet)
          fresh,    \* the next random salt, uuid and call
          faults, crashes,
          owner,    \* ghost: the credentials last given with success
          torn      \* ghost: what excuses an unreadable vault has happened

vvars == <<file, call, mounted, disks, temps, fresh, faults, crashes, owner, torn>>

VAULT_SECTOR_SIZE == 512
MinIterations == 10000

\* create() rounds the size up to whole sectors.
SectorsOf(sizeBytes) == (sizeBytes + VAULT_SECTOR_SIZE - 1) \div VAULT_SECTOR_SIZE
MaxSectors == CHOOSE n \in {SectorsOf(s) : s \in Sizes} : \A s \in Sizes : SectorsOf(s) <= n

NoFile == [there |-> FALSE]
NoHeader == [sectors |-> 0]
Lacking == [plain |-> "lacking"]

EmptyFile == [there |-> TRUE, header |-> NoHeader, data |-> [s \in 1..MaxSectors |-> Lacking]]

NoOwner == [password |-> "", keyFile |-> "none"]

\* Hashes and keys are what they are made of.  deriveKey(): the password is
\* stretched with the salt; the hash of the key file is folded into the first
\* 32 bytes only, so that the HMAC key, which follows the encryption key, does
\* not depend on it.
hashKeyFile(keyFile) == [sha256 |-> keyFile]
deriveKey(cred, salt) == [password |-> cred.password, keyHash |-> hashKeyFile(cred.keyFile), salt |-> salt]
HmacKey(cred, salt) == [password |-> cred.password, salt |-> salt]
computeHmac(key) == [under |-> key]

\* A header with its HMAC, which is over everything else in it.
Header(algorithm, iterations, sectors, salt, hmac) ==
  [algorithm |-> algorithm, iterations |-> iterations, sectors |-> sectors, salt |-> salt, hmac |-> hmac]

\* XTS keeps the size of a sector.  CBC pads 512 bytes to 528 and GCM adds a
\* tag, and all of it is written.
encryptSectorXts(key, plain) == [key |-> key, plain |-> plain, longer |-> FALSE]
encryptBuffer(key, plain) == [key |-> key, plain |-> plain, longer |-> TRUE]

Encrypted(algorithm, key, plain) ==
  IF algorithm = "XTS" THEN encryptSectorXts(key, plain) ELSE encryptBuffer(key, plain)

\* A wrong key cannot make XTS fail.
decryptSectorXts(sector, key) == {IF sector # Lacking /\ sector.key = key THEN sector.plain ELSE "junk"}

\* Only 512 bytes of the longer sector are read back: under the right key the
\* padding is never there and no tag ever fits; a wrong key may make CBC's last
\* byte look like padding.
decryptBuffer(algorithm, sector, key) ==
  IF algorithm = "GCM" \/ sector = Lacking \/ (sector.key = key /\ sector.plain = "zero") THEN {"fail"}
  ELSE {"fail", "junk"}

Decrypts(algorithm, sector, key) ==
  IF algorithm = "XTS" THEN decryptSectorXts(sector, key) ELSE decryptBuffer(algorithm, sector, key)

-----------------------------------------------------------------------------
(* Calls                                                                   *)

Idle == [op |-> "idle"]

NewCall(op, cred) ==
  [op |-> op, pc |-> "begin", cred |-> cred, new |-> cred, algorithm |-> "XTS", sizeBytes |-> 0,
   iterations |-> MinIterations, header |-> NoHeader, salt |-> 0, at |-> 1, junk |-> FALSE,
   disk |-> 0, odd |-> FALSE]

\* A vault as create() leaves it.
Created(cred) ==
  [EmptyFile EXCEPT !.header = Header("XTS", MinIterations, MaxSectors, 1, computeHmac(HmacKey(cred, 1))),
                    !.data = [s \in 1..MaxSectors |-> encryptSectorXts(deriveKey(cred, 1), "zero")]]

\* There is no vault yet, or one from an earlier run of the program.
VInit == /\ \/ file = NoFile /\ owner = NoOwner
            \/ \E cred \in Credentials : cred.password # "" /\ file = Created(cred) /\ owner = cred
         /\ call = [c \in Callers |-> Idle] /\ mounted = {} /\ disks = {} /\ temps = {}
         /\ fresh = [salt |-> 2, disk |-> 1, call |-> 1] /\ faults = 0 /\ crashes = 0 /\ torn = FALSE

Fault == faults < MaxFaults /\ faults' = faults + 1

InCall(c) == call[c].op # "idle"
Writer(c) == call[c].op \in {"create", "change"}
OtherWriter(c) == \E d \in Callers \ {c} : Writer(d)
\* Caller c has the file open and has begun, or is about, to overwrite it ...
Rewriting(c) == Writer(c) /\ call[c].pc \in {"header", "sectors"}
\* ... or reads its header or its sectors.
HasOpen(c) == InCall(c) /\ call[c].pc \in {"opened", "closing", "header", "sectors", "read"}
\* The write of a sector or header: whoever is mounting meanwhile reads a mixture.
SeenBy(c) == {d \in Callers \ {c} : InCall(d) /\ call[d].op = "mount"}

\* Caller c goes on with the locals r while it writes to the file.
Writing(c, r) ==
  call' = [d \in Callers |-> IF d = c THEN r
                             ELSE IF d \in SeenBy(c) THEN [call[d] EXCEPT !.odd = TRUE] ELSE call[d]]

Local(c, r) == call' = [call EXCEPT ![c] = r]
Returns(c) == Local(c, Idle)

Invoked(c) == /\ ~InCall(c) /\ fresh.call <= MaxCalls
              /\ fresh' = [fresh EXCEPT !.call = @ + 1]
              /\ UNCHANGED <<file, mounted, disks, temps, faults, crashes, owner, torn>>

-----------------------------------------------------------------------------
(* create()                                                                *)

create(c) ==
  /\ Invoked(c)
  /\ \E cred \in Credentials, algorithm \in Algorithms, size \in Sizes, iterations \in Iterations :
       call' = [call EXCEPT ![c] = [NewCall("create", cred) EXCEPT !.algorithm = algorithm,
                                             !.sizeBytes = size, !.iterations = iterations]]

In(c, op, pc) == InCall(c) /\ call[c].op = op /\ call[c].pc = pc

CreateRefused(c) ==
  /\ In(c, "create", "begin")
  /\ call[c].cred.password = "" \/ call[c].sizeBytes < VAULT_SECTOR_SIZE * 2
  /\ Returns(c)
  /\ UNCHANGED <<file, mounted, disks, temps, fresh, faults, crashes, owner, torn>>

\* Salt, keys and HMAC are made, then the file is opened, which empties it.
CreateOpen(c) ==
  LET h == Header(call[c].algorithm, call[c].iterations, SectorsOf(call[c].sizeBytes), fresh.salt,
                  computeHmac(HmacKey(call[c].cred, fresh.salt)))
  IN /\ In(c, "create", "begin")
     /\ call[c].cred.password # "" /\ call[c].sizeBytes >= VAULT_SECTOR_SIZE * 2
     /\ Writing(c, [call[c] EXCEPT !.pc = "header", !.header = h])
     /\ file' = EmptyFile /\ fresh' = [fresh EXCEPT !.salt = @ + 1]
     /\ owner' = NoOwner /\ torn' = OtherWriter(c)
     /\ UNCHANGED <<mounted, disks, temps, faults, crashes>>

CreateHeader(c) ==
  /\ In(c, "create", "header")
  /\ file' = [file EXCEPT !.header = call[c].header]
  /\ Writing(c, [call[c] EXCEPT !.pc = "sectors"])
  /\ torn' = (torn \/ OtherWriter(c))
  /\ UNCHANGED <<mounted, disks, temps, fresh, faults, crashes, owner>>

CreateSector(c) ==
  LET h == call[c].header
  IN /\ In(c, "create", "sectors") /\ call[c].at <= h.sectors
     /\ file' = [file EXCEPT !.data[call[c].at] = Encrypted(h.algorithm, deriveKey(call[c].cred, h.salt), "zero")]
     /\ Writing(c, [call[c] EXCEPT !.at = @ + 1])
     /\ torn' = (torn \/ OtherWriter(c))
     /\ UNCHANGED <<mounted, disks, temps, fresh, faults, crashes, owner>>

CreateDone(c) ==
  /\ In(c, "create", "sectors") /\ call[c].at > call[c].header.sectors
  /\ owner' = call[c].cred /\ Returns(c)
  /\ UNCHANGED <<file, mounted, disks, temps, fresh, faults, crashes, torn>>

\* The last writes are still in QFile's buffer: that flush() and close() fail
\* goes unnoticed, and create() returns ok.
CreateFlushLost(c) ==
  /\ In(c, "create", "sectors") /\ call[c].at > call[c].header.sectors /\ Fault
  /\ file' = [file EXCEPT !.data[call[c].header.sectors] = Lacking]
  /\ owner' = call[c].cred /\ torn' = TRUE /\ Returns(c)
  /\ UNCHANGED <<mounted, disks, temps, fresh, crashes>>

\* A failed write or encryption, or the progress callback's "no": the file is
\* closed and removed, which Windows refuses while another handle is open.
CreateFails(c) ==
  /\ In(c, "create", "header") \/ In(c, "create", "sectors")
  /\ Fault /\ Writing(c, Idle)
  /\ file' = IF \E d \in Callers \ {c} : HasOpen(d) THEN file ELSE NoFile
  /\ torn' = (torn \/ OtherWriter(c) \/ \E d \in Callers \ {c} : HasOpen(d))
  /\ UNCHANGED <<mounted, disks, temps, fresh, crashes, owner>>

-----------------------------------------------------------------------------
(* readHeader(), for mount() and changePassword(): open, read and close    *)

\* A new password must not be empty.
Begun(c) == /\ InCall(c) /\ call[c].pc = "begin" /\ call[c].op \in {"mount", "change"}
            /\ call[c].op = "change" => call[c].new.password # ""

HeaderOpen(c) ==
  /\ Begun(c) /\ file.there
  /\ Local(c, [call[c] EXCEPT !.pc = "opened"])
  /\ UNCHANGED <<file, mounted, disks, temps, fresh, faults, crashes, owner, torn>>

HeaderRead(c) ==
  /\ InCall(c) /\ call[c].pc = "opened"
  /\ Local(c, [call[c] EXCEPT !.pc = "closing", !.header = file.header,
                              !.odd = @ \/ torn \/ OtherWriter(c) \/ call[c].cred.keyFile # owner.keyFile])
  /\ UNCHANGED <<file, mounted, disks, temps, fresh, faults, crashes, owner, torn>>

GoodHmac(c) == call[c].header.hmac = computeHmac(HmacKey(call[c].cred, call[c].header.salt))

\* deserialize() refuses few iterations, which create() accepts.
HeaderOk(c) == call[c].header # NoHeader /\ call[c].header.iterations >= MinIterations /\ GoodHmac(c)

\* There is no file, what was read is no vault's header, or the HMAC differs.
HeaderRefused(c) ==
  /\ InCall(c) /\ call[c].op \in {"mount", "change"}
  /\ \/ call[c].pc = "begin" /\ (~Begun(c) \/ ~file.there)
     \/ call[c].pc = "closing" /\ ~HeaderOk(c)
  /\ Returns(c)
  /\ UNCHANGED <<file, mounted, disks, temps, fresh, faults, crashes, owner, torn>>

\* Any step before the file is opened for the call's own work may fail.
EarlyFails(c) ==
  /\ InCall(c) /\ call[c].pc \in {"begin", "opened", "closing", "open"} /\ Fault /\ Returns(c)
  /\ UNCHANGED <<file, mounted, disks, temps, fresh, crashes, owner, torn>>

-----------------------------------------------------------------------------
(* mount()                                                                 *)

\* The check under m_mutex, and the mutex is released again.
mount(c) ==
  /\ mounted = {} /\ Invoked(c)
  /\ \E cred \in Credentials : call' = [call EXCEPT ![c] = NewCall("mount", cred)]

MountRefused(c) == mounted # {} /\ Invoked(c) /\ UNCHANGED call

\* Mutant: the HMAC is not compared.
MountHeaderUnchecked(c) ==
  /\ In(c, "mount", "closing") /\ call[c].header # NoHeader
  /\ Local(c, [call[c] EXCEPT !.pc = "open"])
  /\ UNCHANGED <<file, mounted, disks, temps, fresh, faults, crashes, owner, torn>>

MountHeader(c) ==
  /\ In(c, "mount", "closing") /\ HeaderOk(c)
  /\ Local(c, [call[c] EXCEPT !.pc = "open"])
  /\ UNCHANGED <<file, mounted, disks, temps, fresh, faults, crashes, owner, torn>>

MountOpen(c) ==
  /\ In(c, "mount", "open")
  /\ Local(c, IF file.there THEN [call[c] EXCEPT !.pc = "read"] ELSE Idle)
  /\ UNCHANGED <<file, mounted, disks, temps, fresh, faults, crashes, owner, torn>>

\* A sector that no later one pads out is a short read.
Short(s) == \A t \in s..MaxSectors : file.data[t] = Lacking

MountSector(c) ==
  LET h == call[c].header IN
  /\ In(c, "mount", "read") /\ call[c].at <= h.sectors
  /\ \E out \in IF Short(call[c].at) THEN {"fail"}
                ELSE Decrypts(h.algorithm, file.data[call[c].at], deriveKey(call[c].cred, h.salt)) :
       Local(c, IF out = "fail" THEN Idle
                ELSE [call[c] EXCEPT !.at = @ + 1, !.junk = @ \/ out = "junk"])
  /\ UNCHANGED <<file, mounted, disks, temps, fresh, faults, crashes, owner, torn>>

\* createAndAttachVhd(): the plaintext goes into a new temporary file ...
VhdWrite(c) ==
  /\ In(c, "mount", "read") /\ call[c].at > call[c].header.sectors
  /\ Local(c, [call[c] EXCEPT !.pc = "attach", !.disk = fresh.disk])
  /\ temps' = temps \cup {fresh.disk} /\ fresh' = [fresh EXCEPT !.disk = @ + 1]
  /\ UNCHANGED <<file, mounted, disks, faults, crashes, owner, torn>>

\* ... which becomes the disk that is attached ...
Attach(c) ==
  /\ In(c, "mount", "attach")
  /\ disks' = disks \cup {[id |-> call[c].disk, junk |-> call[c].junk, odd |-> call[c].odd,
                           password |-> call[c].cred.password]}
  /\ Local(c, [call[c] EXCEPT !.pc = "record"])
  /\ UNCHANGED <<file, mounted, temps, fresh, faults, crashes, owner, torn>>

\* Mutant: the temporary file is left when attaching fails.
AttachFailsKeep(c) ==
  /\ In(c, "mount", "attach") /\ Fault /\ Returns(c)
  /\ UNCHANGED <<file, mounted, disks, temps, fresh, crashes, owner, torn>>

\* ... or is removed, if it cannot be written in full, opened or attached.
AttachFails(c) ==
  /\ In(c, "mount", "attach") /\ Fault
  /\ temps' = temps \ {call[c].disk} /\ Returns(c)
  /\ UNCHANGED <<file, mounted, disks, fresh, crashes, owner, torn>>

\* Under m_mutex again; an entry made meanwhile by another mount() is replaced.
MountRecord(c) ==
  /\ In(c, "mount", "record")
  /\ mounted' = {call[c].disk} /\ Returns(c)
  /\ UNCHANGED <<file, disks, temps, fresh, faults, crashes, owner, torn>>

MountFails(c) ==
  /\ In(c, "mount", "read") /\ Fault /\ Returns(c)
  /\ UNCHANGED <<file, mounted, disks, temps, fresh, crashes, owner, torn>>

\* unmount() and unmountAll() detach the file <temp>/<name of the vault>.vhd,
\* which is not the one mount() made: the detach fails, the entry goes, and
\* the disk stays.  All of it under m_mutex.
unmount(c) == /\ ~InCall(c) /\ fresh.call <= MaxCalls
              /\ mounted' = {} /\ fresh' = [fresh EXCEPT !.call = @ + 1]
              /\ UNCHANGED <<file, call, disks, temps, faults, crashes, owner, torn>>

-----------------------------------------------------------------------------
(* changePassword()                                                        *)

changePassword(c) ==
  /\ Invoked(c)
  /\ \E cred, new \in Credentials :
       call' = [call EXCEPT ![c] = [NewCall("change", cred) EXCEPT !.new = new]]

\* The header is checked, a new salt drawn, both keys derived.
ChangeHeader(c) ==
  /\ In(c, "change", "closing") /\ HeaderOk(c)
  /\ Local(c, [call[c] EXCEPT !.pc = "open", !.salt = fresh.salt])
  /\ fresh' = [fresh EXCEPT !.salt = @ + 1]
  /\ UNCHANGED <<file, mounted, disks, temps, faults, crashes, owner, torn>>

\* Opened for reading and writing, which creates a file that has gone.
ChangeOpen(c) ==
  /\ In(c, "change", "open")
  /\ Writing(c, [call[c] EXCEPT !.pc = "sectors"])
  /\ file' = IF file.there THEN file ELSE EmptyFile
  /\ torn' = (torn \/ OtherWriter(c))
  /\ UNCHANGED <<mounted, disks, temps, fresh, faults, crashes, owner>>

\* Mutant: the old key is derived with the salt just drawn.
OldKeyNewSalt(c) == deriveKey(call[c].cred, call[c].salt)

OldKey(c) == deriveKey(call[c].cred, call[c].header.salt)

NewKey(c) == deriveKey(call[c].new, call[c].salt)

\* A sector is read, decrypted with the old key, encrypted with the new one
\* and written back in place.
ChangeSector(c) ==
  LET h == call[c].header IN
  /\ In(c, "change", "sectors") /\ call[c].at <= h.sectors
  /\ \E out \in IF Short(call[c].at) THEN {"fail"}
                ELSE Decrypts(h.algorithm, file.data[call[c].at], OldKey(c)) :
       /\ Writing(c, IF out = "fail" THEN Idle ELSE [call[c] EXCEPT !.at = @ + 1])
       /\ file' = IF out = "fail" THEN file
                  ELSE [file EXCEPT !.data[call[c].at] = Encrypted(h.algorithm, NewKey(c), out)]
  /\ torn' = (torn \/ OtherWriter(c) \/ call[c].cred.keyFile # owner.keyFile)
  /\ UNCHANGED <<mounted, disks, temps, fresh, faults, crashes, owner>>

\* The header with the new salt and HMAC is written last.
ChangeSeal(c) ==
  LET h == call[c].header IN
  /\ In(c, "change", "sectors") /\ call[c].at > h.sectors
  /\ file' = [file EXCEPT !.header = Header(h.algorithm, h.iterations, h.sectors, call[c].salt,
                                            computeHmac(HmacKey(call[c].new, call[c].salt)))]
  /\ Writing(c, Idle) /\ owner' = call[c].new /\ torn' = (torn \/ OtherWriter(c))
  /\ UNCHANGED <<mounted, disks, temps, fresh, faults, crashes>>

\* The write fails, or only reaches QFile's buffer; the latter returns ok.
ChangeSealFails(c) ==
  /\ In(c, "change", "sectors") /\ call[c].at > call[c].header.sectors /\ Fault
  /\ torn' = TRUE /\ Returns(c)
  /\ UNCHANGED <<file, mounted, disks, temps, fresh, crashes, owner>>

\* A failed read, write or cipher call: what has been rewritten stays so.
ChangeFails(c) ==
  /\ In(c, "change", "sectors") /\ Fault
  /\ torn' = (torn \/ call[c].at > 1) /\ Returns(c)
  /\ UNCHANGED <<file, mounted, disks, temps, fresh, crashes, owner>>

-----------------------------------------------------------------------------

\* The program dies.  m_mounted goes with it, the disks are attached with a
\* permanent lifetime, and files stay as they are.
Crash == /\ crashes < MaxCrashes /\ \E c \in Callers : InCall(c)
         /\ crashes' = crashes + 1 /\ call' = [c \in Callers |-> Idle] /\ mounted' = {}
         /\ torn' = (torn \/ \E c \in Callers : Rewriting(c))
         /\ UNCHANGED <<file, disks, temps, fresh, faults, owner>>

Call(c) == create(c) \/ mount(c) \/ MountRefused(c) \/ unmount(c) \/ changePassword(c)

Step(c) == \/ CreateRefused(c) \/ CreateOpen(c) \/ CreateHeader(c) \/ CreateSector(c) \/ CreateDone(c)
           \/ HeaderOpen(c) \/ HeaderRead(c) \/ HeaderRefused(c) \/ MountHeader(c) \/ MountOpen(c)
           \/ MountSector(c) \/ VhdWrite(c)
           \/ Attach(c) \/ MountRecord(c) \/ ChangeHeader(c) \/ ChangeOpen(c) \/ ChangeSector(c)
           \/ ChangeSeal(c)

Fails(c) == \/ CreateFlushLost(c) \/ CreateFails(c) \/ EarlyFails(c) \/ AttachFails(c) \/ MountFails(c)
            \/ ChangeSealFails(c) \/ ChangeFails(c)

VNext == Crash \/ \E c \in Callers : Call(c) \/ Step(c) \/ Fails(c)

\* A thread in a call goes on with it; nobody is obliged to make a call.
VSpec == VInit /\ [][VNext]_vvars /\ \A c \in Callers : WF_vvars(Step(c))

-----------------------------------------------------------------------------
(* Properties                                                              *)

Passwords == {cred.password : cred \in Credentials}
KeyFiles == {cred.keyFile : cred \in Credentials}
Keys == [password : Passwords, keyHash : [sha256 : KeyFiles], salt : Nat]
Headers == [algorithm : Algorithms \cup {"XTS"}, iterations : Nat, sectors : 1..MaxSectors, salt : Nat,
            hmac : [under : [password : Passwords, salt : Nat]]]
Sectors == {Lacking} \cup [key : Keys, plain : {"zero", "junk"}, longer : BOOLEAN]
Files == [there : {TRUE}, header : {NoHeader} \cup Headers, data : [1..MaxSectors -> Sectors]]
Calls == [op : {"create", "mount", "change"},
          pc : {"begin", "opened", "closing", "header", "open", "sectors", "read", "attach", "record"},
          cred : Credentials, new : Credentials, algorithm : Algorithms \cup {"XTS"}, sizeBytes : Sizes \cup {0},
          iterations : Nat, header : {NoHeader} \cup Headers, salt : Nat, at : Nat \ {0}, junk : BOOLEAN,
          disk : Nat, odd : BOOLEAN]

\* A call past its first step has read or made a header, and a writer begins
\* with the first sector.
LocalsOK(r) == /\ r.pc \notin {"begin", "opened", "closing"} => r.header \in Headers
               /\ r.op # "mount" /\ r.pc \notin {"sectors"} => r.at = 1

\* The types.
VTypeOK ==
  /\ file \in {NoFile} \cup Files
  /\ call \in [Callers -> {Idle} \cup Calls]
  /\ \A c \in Callers : InCall(c) => LocalsOK(call[c])
  /\ mounted \subseteq Nat /\ temps \subseteq Nat
  /\ disks \subseteq [id : Nat, junk : BOOLEAN, odd : BOOLEAN, password : Passwords]
  /\ fresh \in [salt : Nat, disk : Nat, call : Nat] /\ faults \in Nat /\ crashes \in Nat
  /\ owner \in Credentials \cup {NoOwner} /\ torn \in BOOLEAN

\* The HMAC fits these credentials and every sector holds what was stored,
\* under their key.  (mount() still refuses vaults that are not XTS, or were
\* created with too few iterations.)
OpensWith(cred) ==
  /\ file.there /\ file.header # NoHeader /\ file.header.hmac = computeHmac(HmacKey(cred, file.header.salt))
  /\ \A s \in 1..file.header.sectors : 
       file.data[s] = Encrypted(file.header.algorithm, deriveKey(cred, file.header.salt), "zero")

\* Whatever calls have succeeded, failed, been refused or cancelled: between
\* calls there is no vault, or one that opens with the credentials of the last
\* create() or changePassword() that succeeded, whole and unchanged.  Excused
\* are the ways the code has to tear it: a change cut short after its first
\* sector, a lost flush, overlapping writers, a change with the wrong key file,
\* and a create() that fails while another thread reads the file, if only its
\* header: Windows then refuses the removal, and half a vault is left.
OpensWithOwner ==
  (~torn /\ \A c \in Callers : ~Writer(c)) => file = NoFile \/ OpensWith(owner)

\* A disk shows what was stored.  The HMAC keeps a wrong password out; junk is
\* mounted only with a wrong key file, from a torn vault or during a change.
MountedIsPlain == \A d \in disks : d.junk => d.odd

\* An entry of m_mounted stands for an attached disk, also when mount() calls
\* overlap and attaching fails in one of them.
EntryIsAttached == \A id \in mounted : \E d \in disks : d.id = id

\* A decrypted temporary file is attached, about to be, or left by a crash.
NoStrayPlaintext ==
  crashes = 0 => \A id \in temps : \/ \E d \in disks : d.id = id
                                   \/ \E c \in Callers : In(c, "mount", "attach") /\ call[c].disk = id

\* The mount table, the attached disks and the temporary files account for one
\* another whatever overlaps and fails.
DisksAccounted == EntryIsAttached /\ NoStrayPlaintext

-----------------------------------------------------------------------------
(* The inductive invariant                                                 *)

\* The sectors first to last are encrypted under one key.
Holds(first, last, algorithm, key) ==
  \A s \in first..last : file.data[s] = Encrypted(algorithm, key, "zero")

\* A file that is open is there, and create() seals its own header.
OpenIsThere(c) ==
  /\ HasOpen(c) => file \in Files
  /\ Rewriting(c) /\ call[c].op = "create" =>
       call[c].header.hmac = computeHmac(HmacKey(call[c].cred, call[c].header.salt))

\* What a vault that is not torn is like while create() fills it ...
CreateKept(c) ==
  In(c, "create", "sectors") =>
    /\ file.header = call[c].header
    /\ Holds(1, call[c].at - 1, file.header.algorithm, deriveKey(call[c].cred, file.header.salt))

\* ... when changePassword() has read its header ...
ChangeKept(c) ==
  /\ In(c, "change", "closing") => file.header = call[c].header
  /\ In(c, "change", "open") \/ In(c, "change", "sectors") =>
       /\ file \in Files /\ file.header = call[c].header
       /\ file.header.hmac = computeHmac(HmacKey(call[c].cred, file.header.salt))

\* ... and while it is re-encrypted: below the position under the new key, from
\* there on under the key of the owner, who is the one that is changing it.
SplitKept(c) ==
  In(c, "change", "sectors") =>
    /\ file.header.hmac = computeHmac(HmacKey(owner, file.header.salt))
    /\ Holds(call[c].at, file.header.sectors, file.header.algorithm, deriveKey(owner, file.header.salt))
    /\ Holds(1, call[c].at - 1, file.header.algorithm, NewKey(c))
    /\ call[c].at > 1 => call[c].cred.keyFile = owner.keyFile /\ file.header.algorithm = "XTS"

\* One writer at a time, and without one the vault opens with its owner.
OwnerKept ==
  /\ \A c, d \in Callers : Rewriting(c) /\ Rewriting(d) => c = d
  /\ (\A c \in Callers : ~Rewriting(c)) => file = NoFile \/ OpensWith(owner)

VaultKept == ~torn => OwnerKept /\ \A c \in Callers : CreateKept(c) /\ ChangeKept(c) /\ SplitKept(c)

\* What a mount() nobody has disturbed reads.
MountReads(c) ==
  InCall(c) /\ call[c].op = "mount" =>
    /\ call[c].junk => call[c].odd
    /\ ~call[c].odd /\ call[c].pc = "closing" =>
         /\ \A d \in Callers : ~Rewriting(d)
         /\ file.header = call[c].header /\ OpensWith(owner) /\ call[c].cred.keyFile = owner.keyFile
    /\ ~call[c].odd /\ call[c].pc \in {"open", "read"} =>
         /\ \A d \in Callers : ~Rewriting(d)
         /\ file.header = call[c].header /\ OpensWith(call[c].cred)

\* A mount() that is about to enter a disk has attached it.
RecordAttached(c) == In(c, "mount", "record") => \E d \in disks : d.id = call[c].disk

VInv == /\ VTypeOK /\ VaultKept
        /\ \A c \in Callers : OpenIsThere(c) /\ MountReads(c) /\ RecordAttached(c)
        /\ MountedIsPlain /\ DisksAccounted
=============================================================================
