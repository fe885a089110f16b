# Setec Partition Wizard: TLA+ models and proofs

Setec Partition Wizard is a Windows desktop program (C++, Qt) that partitions,
formats, clones, images, erases, repairs and recovers disks. Its mistakes are
paid for with other people's data, and most of what can go wrong needs several
steps: an operation queued from one view of the disk and executed against
another, a write cut short, two threads in a class without a lock, a source
disk that changes while it is copied. Those are the parts modelled here.

Paths below are relative to the repository root; `core/`, `ui/` and `app/` are
under `src/`.

## 1. Inventory

| Component | State | Operations | Interacts with |
|---|---|---|---|
| Operation queue (`core/operations/OperationQueue.*`, `Operation.h`) | `m_pending` (deque), `m_history`, `m_running`, `m_cancelRequested`, `m_lastRunSuccess`, each operation's state | `enqueue`, `removeLast`, `clearPending`, `clearAll`, `applyAll`, `undoLast`, `requestCancel` | called by the tab on the GUI thread and, for `applyAll`, on a thread of its own; emits progress and finished callbacks |
| Disks & Partitions tab (`ui/tabs/DiskPartitionTab.*`) | `m_snapshot`, the buttons, the progress dialog, nested boxes | create, delete, resize, format, set flags, check (all queue), apply, undo, clear, refresh | owns the queue; gets snapshots from the main window |
| Main window (`ui/MainWindow.cpp`) | `m_lastSnapshot` | `onRefreshDisks` on a thread | hands snapshots to the tabs |
| Partition tables (`core/disk/PartitionTable.*`) | the entries of one table in memory | parse, add, delete, resize, set active, serialize; MBR with EBR chain, GPT, APM (read-only) | built anew by every operation from the sectors it reads |
| Partition operations (`core/operations/PartitionOperations.*`) | the disk; what is saved for `undo()` | Create, Delete, Resize, Format, SetLabel, SetFlags, CheckFilesystem: `execute`, `undo` | run by the queue; use tables, handles, the format engine |
| Raw disk and volume handles (`core/disk/RawDiskHandle.cpp`, `VolumeHandle.cpp`) | a Win32 handle, locks | read, write, lock, unlock, dismount, layout | used by everything that touches a disk |
| Disk cloner (`core/imaging/DiskCloner.*`) | `m_cancelRequested`, position, locked volumes | `clone` (raw, smart, verify), `requestCancel` | run by the Imaging tab on a thread; the source's file system keeps writing |
| Image creator and restorer (`core/imaging/ImageCreator.*`, `ImageRestorer.*`) | position, `m_cancelRequested`, chunk table, hash, locked volumes; the image file | `createImage` (raw, SPW), `restoreImage`, `detectFormat` | run by the Imaging tab on threads of their own, possibly at the same time and on the same file |
| ISO flasher (`core/imaging/IsoFlasher.*`) | position, size, locked volumes | `flash`, `verifyFlash`, `isHybridIso` | Imaging tab |
| Imaging tab (`ui/tabs/ImagingTab.cpp`) | a button per job | create, restore, clone, flash; rip, burn and erase of discs | starts a thread per job |
| Downloads (`core/net/DownloadManager.*`) | `m_reply`, `m_file`, `m_resumeOffset`, `m_downloading` | start (resume), cancel; `onReadyRead`, `onFinished` callbacks | flasher tabs |
| Decompressor, 7-Zip extractor, virtual disks (`core/imaging/`) | output files; mounted images | unpack; flash, mount, convert, capture | flasher and virtual disk tabs |
| Linux flasher tab (`ui/tabs/LinuxFlasherTab.cpp`) | `m_cancelled`, the combo boxes, buttons | download, download and flash, cancel, refresh | network replies, a 7z process, an unpack thread and a flash thread, all ending in queued calls |
| Format engine (`core/filesystem/FormatEngine.*`) | the volume being written, its lock | `format`: ext2/3/4, FAT32, swap; others by format.com | partition operations, tabs |
| File system detection (`core/disk/FilesystemDetector.*`) | none | `detect`: some thirty probes in a fixed order | snapshot, recovery |
| Recovery (`core/recovery/`) | scan results; the disk under repair | scan for partitions, scan for and recover files, repair MBR, GPT, boot sector, BCD, loader | Recovery tab |
| Recovery tab (`ui/tabs/RecoveryTab.cpp`) | selections, `m_recoveredPartitions`, `m_recoveredFiles`, `m_snapshot` | start each of these | five kinds of threads, shared members without a lock |
| Encrypted vault (`core/security/EncryptedVault.*`) | the vault file, `m_mounted` (`m_mutex`), attached disks, temporary files | create, mount, unmount, change password | meant for the Security tab |
| Boot keys and FIDO2 (`core/security/`) | boot-key configuration, a USB device | create, verify, remove a key | Security tab |
| Diagnostics, maintenance (`core/diagnostics/`, `core/maintenance/`) | scan position, pass, locked volumes | surface scan, benchmark; multi-pass erase, SD card repair | their tabs |
| Enumeration, geometry, SMART (`core/disk/`) | none beyond a call | query | main window |
| Application (`app/`) | a named mutex | single instance, elevation | |

**What is hard.** The queue has no lock, and only a modal dialog keeps the GUI
thread away from it while `applyAll()` runs (interleavings, an early cancel).
Boxes run nested event loops, so handlers are re-entered around stale state.
Operations are planned against a snapshot and executed against a table read
later (stale indices and offsets). A table is several sectors and its write can
stop after any of them. EBR chains come from disks that may be corrupt. A clone
reads a source that is mounted and writes to a destination whose sectors may
have another size; every exit has to give back the volume locks. A format
leaves what it does not write, and detection finds it. An image file outlives a
crash half-written, and is opened twice. The flasher is a chain of callbacks
with one flag for all of them. A vault is rewritten in place. Scans, undeletes
and repairs share members of a tab without a lock. PROJECT.json
lists these hazards with the lines where they bite and the properties for each.

**What correctness means.** Queue: one owner per operation, at most one
execution, every run returns. Tab: no use of the
queue outside what the dialog protects, buttons and dialogs that end up right.
Tables and operations: disjoint extents, one change at a time, no other
partition's sectors written, undo restores. Planning: an operation acts on what
was shown. Cloner: a success is a copy, nothing outside the range is written,
locks are held and returned. Formats: the new file system is what is detected,
the neighbour is untouched, metadata do not overlap. Images: what is restored is
what was imaged, or an error, whatever happened to the file. Flashers: what is
on the drive is the image, the drive is the one confirmed, nothing is written
after a cancel, the buttons come back. Vault: the last credentials that were
accepted open it, whole; no decrypted file stays behind. Recovery: a file is
what it was; a repair that fails or is cut short leaves a disk no worse.

## 2. Modules

    OperationQueue
         ^
    DiskPartitionTab <── DiskPartitionTabProofs

    Selection <── PartitionTable <── ExtendedChain
                       ^
                  PartitionOperations ── implements ──> PartitionMap
                       ^
                  PlannedOperations <── PlannedOperationsProofs

    DiskCloner <── DiskClonerProofs

    FilesystemDetector <── FormatEngine

    ImageCreator <── ImageRestorer <── ImagingTab <── ImagingTabProofs

    PartitionRecovery, FileRecovery, BootRepair <── RecoveryTab <── RecoveryTabProofs
                                                  ExtendedChain <──┘

    IsoFlasher <── IsoFlasherProofs
    LinuxFlasherTab <── LinuxFlasherTabProofs
    EncryptedVault <── EncryptedVaultProofs

Every run has an `MC...` module for TLC. A definition introduced
by a comment "Mutant:" is not part of a specification: it is what a plausible
mistake in the code would make of the definition after it, kept to show that a
property can tell the difference.

**OperationQueue.** One action per method; `applyAll()` is cut between its
accesses to the deque (`TakeFront`, `PopFront`, `StartOp`, `CompleteOp` / `FailOp`, the
loop head, `FinishRun`). `front()` leaves a null
pointer in the slot until `pop_front()`. No access is atomic: a move loads the
pointer and then stores null, a push or a pop changes the deque's size. So
whenever two threads are about to access the same container and one of them
changes it, they may race (`WorkersRace`, `ReadRaces`, `EditRaces`,
`HistoryRaces`). A race, the use of a null pointer and popping an empty deque
are undefined behaviour: anything may follow (two workers with one pointer, for
instance), so `undefined` becomes true and the
behaviour ends there. What the properties say of the queue they say up to that
point; that it is not reached behind the dialog is `ModalGuard`'s business. The
caller is arbitrary and any number of threads may be inside `applyAll()`.

**DiskPartitionTab** is the caller the program really has: handlers on the GUI
thread, a stack of nested boxes, signals posted by threads and delivered when
an event loop runs, a window-modal progress dialog per run that hides when it
is cancelled or told 100% (Qt's behaviour, external), and the refresh threads
of `MainWindow`. It extends `OperationQueue`: a handler's step conjoins the
method it calls, or leaves the queue as it is, or races with the worker.

**PartitionTable** holds pure operators: `parse`, `addPartition`,
`deletePartition`, `resizePartition`, `setActivePartition`, `serialize` for MBR
(slots, EBR chain), GPT (header, entry array, backup) and APM (read-only). A sector is a record
of the fields the code reads; boot code, CHS, names and CRC values are left
out. The entry array is one sector instead of 32. **Selection** is what a loop
that skips some elements of a vector leaves of it. **ExtendedChain** walks an
EBR chain of arbitrary contents step by step, and ties `Logicals`, the
definition the other modules use, to the loop; `RecoveryTabProofs`, which is
about what is found on a disk, has the proof.

**PartitionOperations** has `execute` and `undo` of Create, Delete, Resize,
Format, SetLabel, SetFlags and CheckFilesystem with arbitrary parameters. Each is one action whose
outcomes are: refused, failed early, the write cut short after any sector, a
failure after the write, success. The order inside (lock, wipe, write the table,
notify, format) decides which sectors a cut-off leaves changed. Labels are
sequences of bytes, so that what the two conversions do to them shows.
**PartitionMap** is the abstract specification: a set of disjoint extents of
which a step changes at most one.

**PlannedOperations** adds the plan: rows as last shown, operations queued with
the index, extent or start computed from those rows, and runs that fail in the
middle and leave the rest queued. The rows do not come from the table's parser
but from Windows, which numbers the partitions it lists from 0 and counts
neither unused slots nor reserved partitions (`Number`, `Unlisted`); the
operations look that number up as a slot. Concurrency is left to the queue's modules.
Its last part is the invariant its theorems rest on (`PlansOK`, `Foreseen`).

**DiskCloner** models one call of `clone()`: the checks in unsigned arithmetic
modulo `Word`, locking volume by volume, the choice between smart and raw with
all the fall-backs, both copy loops chunk by chunk with reads that fail or are
short and writes that fail part of the way, flush, and verification. With a
buffer smaller than a cluster the smart loop has no clusters per chunk, and
turns on the spot. The source's file system writes and allocates at any time; cancellation comes from
the flag or the progress callback. Bytes carry their place and version, so that
a byte from the wrong place, or an old one, can be told apart.

**FilesystemDetector** is pure: `detect` over a volume given as the contents of
the places probed (real byte offsets), each probe with its conditions, in the
code's order. **FormatEngine** is one call of `format()`: the choice of the
writer, then for ext, FAT32 and swap the list of writes with the code's own
arithmetic (groups, bitmaps, inode tables, also of a size the caller chose,
journal, FAT size by iteration, and where its unsigned subtraction wraps) on
real sizes, zeroing chunk by chunk, locking, and a failure at every step. The
volume keeps, per place probed, what the last write there left, so the detector
is asked of the result itself.

**ImageCreator**, **ImageRestorer** and **ImagingTab** form one system: the
creator's loop (raw or SPW: read, skip if zero, compress if that helps,
checksum, write; at the end header, then chunk table), the restorer's
(`detectFormat`, open again, lock, header, table, chunks, hash), and the tab
that starts them. The file is a record of what its bytes say; dying leaves it
as far as it was written. An aborted creation closes its file in one step and
deletes it in another, and a restore that has opened it in between makes the
deletion fail. Damage changes the bytes of a chunk or the
hash, the table (a chunk called sparse, chunks missing from the count), the
chunk size in the header or the magic number, and the file remembers in
`rotten` which. Of the header and the table nothing is checked, so what the
properties promise there is less (section 6).

**LinuxFlasherTab** composes the tab, `DownloadManager`, `Decompressor`,
`SevenZipExtractor` and `VirtualDisk::flashToDisk`. A job is one pipeline with
its stage; jobs of earlier clicks stay alive after a cancel, as their threads
and queued calls do. Files, unpacked images and drives are sequences of parts,
so a resumed, doubled or mixed download, or one whose last writes a full disk
has swallowed, shows on the drive. **IsoFlasher** is
`onFlashIso` and `flash`: two openings of the file, sizes in units of 512
bytes, sectors and buffers of various sizes, the table in the first unit.

**EncryptedVault** has one vault file and two calling threads. Calls are cut
where they open the file, read its header, and read or write each sector, and
at the mutex; a call that has the file open, if only for the header, keeps
another from removing it. A key is what it was derived from and a
ciphertext names its key; a crash keeps file, temporary files and nothing else.

**PartitionRecovery** and **FileRecovery** are pure operators over small disks
and volumes. A scan takes what it could read: `Seen` leaves out the superblocks
whose probe met a failing read and the size of those whose size did, and the
drive's layout may be missing. Deleted files are NTFS records with any number of
`$DATA` attributes, each with its runs, directory entries, inodes with extents
or direct blocks, or signatures to carve. **BootRepair** has the repairs write by write, and
**RecoveryTab** the threads that call them and share results, the selection
they read, and other software writing to the volumes.

## 3. Runs

| Run | Shows | Distinct states |
|---|---|---|
| `queue` | Two workers in `applyAll()` and an arbitrary caller: up to the first data race, one owner per operation (`SingleOwner`), no operation executed again (`NeverRerun`), every call returns (`ApplyReturns`). | 320 thousand |
| `tab` | The tab with its dialogs, runs and a refresh: while the dialog has not hidden itself early no threads race for the queue nor is it misused otherwise, and without a refresh the pointers into the snapshot stay good (`ModalGuard`); buttons agree with the queue at rest (`ButtonsTellTruth`), every dialog closes (`DialogCloses`). | 633 thousand |
| `ops_all` | Any three executed, failed, cut short or undone operations, on MBR (gaps, full, logicals, two partitions of one index), GPT and APM disks, implement `PartitionMap` (`MapSpec`); no other partition's sectors change, but those directly behind the table and behind a short deleted partition (`OthersUntouched`); undo restores (`UndoRestores`). | 510 thousand |
| `plan_gpt` | Plans of up to three operations on GPT, with failures, leftovers, stale snapshots, unused slots and a partition that is not listed: act on what was shown if it was shown with the number of its slot (`ActsOnWhatWasShown`); a creation, a label or a check overwrites nothing else, nor does a format as long as nothing has failed (`PlannedWritesSafe`). | 4.4 million |
| `chain_any` | The EBR walk over every filling of a small extended partition agrees with `Logicals` (`WalkFindsLogicals`), and ends if every EBR has a logical partition (`CountedWalkEnds`). | 79 thousand |
| `clone` | Raw and smart clones, equal and different sector sizes, truncation and out-of-range offsets: a verified clone is a copy (`VerifiedMeansCopied`), an unverified one without short reads has every byte from its place (`SuccessMeansWritten`), only the range is written (`OnlyRangeWritten`), locks (`LocksHeld`), termination unless a smart clone's buffer holds no cluster (`CloneReturns`). | 262 thousand |
| `format` | Formats of every type over every old content: detected as asked (a quick one may leave an older file system that is asked for first, never anything else: `DetectsWhatWasFormatted`); nothing behind the partition is written except by ext with too short a last group or more inodes than a group holds and by FAT32 on a partition too small for its tables, the volume is locked meanwhile and unlocked on every return, patches stay in their buffers unless sectors are larger than blocks (`WritesInside`); no overlapping metadata, FAT large enough, unless the caller's inodes or the partition's size leave no room (`LayoutSound`). | 152 thousand |
| `imaging` | Create and restore side by side with damage, short reads, cancels and deaths: restored is imaged (`RestoredIsImaged`) and no wrong byte is written from an SPW file (`NeverWrongBytes`) unless its table or header is damaged; a verified restore is complete unless the chunk size was changed (`VerifiedIsImaged`), the file tells how creation ended, unless it could not be deleted, and no volume stays locked (`ExitsClean`). | 2.3 million |
| `flasher` | Two pipelines with cancel and restart, five states of the download directory, formats and a disk that fills up: nothing is flashed while cancelled (`NoFlashAfterCancel`), one at a time until the first cancel (`OneAtATime`), the confirmed drive unless the list was touched (`ConfirmedUnlessTouched`), the drive holds the image unless a part of the download was lost unseen (`FlashedIsImage`), buttons come back (`PipelineEnds`). | 996 thousand |
| `isoflash` | A file replaced between its openings, failing and lost I/O: writes are under the locks and up to the size checked (`WritesGuarded`); a success holds the file, a verified one whatever was lost (`SuccessMeansFlashed`). | 62 thousand |
| `vault` | Two threads, two calls, a fault and a crash: opens with the last accepted credentials (`OpensWithOwner`), a mounted disk shows what was stored (`MountedIsPlain`), entries stand for attached disks and no plaintext strays (`DisksAccounted`). | 234 thousand |
| `recovery` | Scans, undeletes and repairs in parallel: each superblock that can be read found once, whatever reads fail (`ScanFindsOnce`), recovered files are the originals (`RecoveredIsOriginal`), one good GPT after every write (`OneGoodGpt`), "repaired" is true (`RepairedMeans`). | 354 thousand |

All hold. The properties that a defect of the code would break without an
exception state the exception by name (`exposed`, `torn`, `spoiled`, `stale`,
`MetadataInside`, `FatWraps`, `Reliable`...): what is excepted is described in section 6,
and everything else is what the run shows. `OthersUntouched` has `BehindTable` and
`BehindWiped`, `ActsOnWhatWasShown` has `Aligned` and `RowsDistinct`,
`CloneReturns` has `Turning`, the properties of images have `rotten`. Some properties are conjunctions of
parts with names of their own (`WritesInside`, `LayoutSound`, `ExitsClean`,
`WritesGuarded`, `SuccessMeansFlashed`, `DisksAccounted`): one exit, one write or
one success has several things to keep at once. Each module also states its type
invariant (`...TypeOK`), which the proofs start from; they hold in these
configurations too and are left out of the runs, where they would say nothing
about the program.

**Bounds.** Queue and tab: two operations, two calls (three and two threads in
`queue`) are enough for an operation to be queued behind a running one, for a
failed run to be followed by another, and for an edit to fall between any two
steps; overlapping runs are explored by `queue`, whose caller may do more than
the tab, and by `tab` with one operation and no refresh (`UserBound` in
`MCDiskPartitionTab`: it is the user's steps that it forbids). Tables: 16 sectors hold the table, the wipe length and up to four
partitions with gaps of different sizes; `Counts` include zero; three steps
allow execute, undo, execute, or two operations and a third that finds a slot
taken again. Some layouts have a partition directly behind the table and one
shorter than the wipe, before another. `plan_gpt` has partitions of
two sectors and counts of 1 and 4, so that one can be shrunk, grown over a
deleted one, and followed by a new one; its disks have two partitions in
adjacent slots, or with an unused slot between them, or the first a reserved one
that Windows does not list. Clones: 8 bytes, sectors of
1 and 2 and a buffer of 1, 2, 3 or 5 bytes give whole, partial and padded chunks, and
no cluster at all;
one write to the source and one short read, at any moment, are enough for each
loop to be hit before, within and after its position. `Word` = 32 lets the
truncation underflow. Formats: real sizes, chosen at the edges (one group, a
full and a short last group, more inodes than blocks, the smallest FAT32 and one
of fewer sectors than its tables, sectors of 4096); `Fat32Limit`
is 64 MiB instead of 32 GiB so that both sides are small. Imaging: two chunks,
one of zeros, and a length that ends inside a sector; one fault, two creations
and a restore let a file be replaced or half-written while it is restored.
Flasher: two drives, two images of two parts, two pipelines: one cancelled and
one that takes over its file, or whose last part does not fit on the disk. ISO: files of 0 to 5 units on a disk of 4.
Vault: two sectors, two calls at a time: a change torn after the first, or
overlapped by a mount. Recovery: volumes of six clusters with every kind of
deleted file, in one extent, in two (with a run that goes backwards) and in more
than are followed, with and without a second stream; disks of 13 sectors whose
strides (4 and 3) meet at 12, with two or three superblocks, any one read of
them or of the layout failing; a repair
counts as all the acts of a behaviour, since it works on structures of its own.

**Fairness.** `QFairSpec`: each worker keeps running, because a thread is
scheduled and `execute()` of an operation returns (external tools are awaited
with time limits). `TabFairSpec`: the same, the GUI event loop delivers posted
signals (nested loops do as well), refresh threads run; nothing is assumed of
the user, who may never answer a box. `CSpec`: the thread of `clone()` runs.
`ExtendedChain`: the loop runs. `LSpec`:
the network answers or fails (`QNetworkAccessManager` has no timeout set, so
this is the operating system's), threads run, queued calls are delivered; users
and drives do as they like. `FSpec`, `ISpec`, `VSpec`, `RSpec` and
`ImagingSpec` say that the threads of the calls run and that finished signals
are delivered, but their runs check safety only. `CHECK_DEADLOCK FALSE` where the program may stop:
when the user does nothing more, a clone returns, a walk ends, or the bounds on
steps are reached.

**Liveness caveats.** `ApplyReturns` and `DialogCloses` allow `undefined`: after
undefined behaviour nothing can be promised. `CloneReturns` rests on finitely
many short reads; a device that answers every read with nothing would be
copied for ever.

## 4. Proofs

TLAPS proves, for every value of the constants:

*DiskPartitionTabProofs*, of the queue alone: `QTypeCorrect`, `OneOwner` and
`ExecutedAtMostOnce`, for any set of workers and any number of operations and
calls. The inductive invariant is
`QInv == QTypeOK /\ SingleOwner /\ Numbered /\ HeldIsLive`.
`SingleOwner` alone is not inductive: `enqueue()` needs that the next operation
is nowhere yet (`Numbered`), and finishing an operation needs that the worker
holds one, which has not finished before (`HeldIsLive`). There is a lemma per
action; those that only move a worker's position share one. The theorem is
about the unlocked class and what follows its accesses in any order; where two
of them coincide it promises nothing (`undefined`), since two moves from one
slot may well hand out one pointer.

Of the tab: `ModalDialogGuards`, which closes that gap for the caller there is:
behind a dialog that has not hidden itself early no thread comes to a race.
With `ButtonsRight` and `TabTypeCorrect` it rests on `TabInv`, which is kept together
with `QInv`: a step of the tab leaves the queue alone or is one of its own
(`TabStepQueue`, by the way the tab is written), so the lemmas about the queue
are used again. `ModalGuard` alone says nothing of how the deque is protected;
`Guarded` does: at most one dialog is up, none under a box that asks (which is
alone on the stack), so nothing edits the deque between the list confirmed and
the run; what a worker finds there is what it left, and all of it has been
confirmed. `EventsInv` ties every run to a dialog and to one `finished` signal,
which is posted after the last access to the deque: without it a button could
stay wrong after the last signal (`ButtonsInv`).

*PlannedOperationsProofs*, of the operations: `OperationsKeepTheMap`, that
`OSpec` implements `PartitionMap`, for MBR, GPT and APM disks of any size, any
parameters, any number of operations and undos, and writes cut short anywhere.
The refinement needs to know what `parse` makes of a disk, so the invariant is
about the disk: `OInv` says that it is of one of the three kinds with its
sectors well-formed (`DiskOK`: used slots inside the disk, apart, one
protective slot exactly on a GPT), that `table` is what it parses to, and that
what is saved for `undo()` still fits (`DoneOK`). The argument has three
layers: what `parse` reads of such a disk (`ParseMbrIs` and its counterparts:
an entry per used slot, the extents of the slots); what each change makes of
such a table (overlaps refused, indices apart, at most one extent gone and one
come); and what any prefix of the sectors that `serialize` lists does to the
disk, slot by slot (before the slots are written the old extents, afterwards
the new). `Keeps` and `StepOK` collect these per operation, and the abstract
step follows from them, since a step that keeps or changes one extent of a
well-formed set is what `PartitionMap` allows.

Of the plans: `ActsOnWhatWasShownAlways` and `PlannedWritesSafeAlways`, for GPT
disks of any size and any sequence of plans, runs, failures, leftovers and
stale snapshots. That operations act on what was shown is no invariant by
itself: it rests on `PlansOK`, whose heart is `Stays`: until an operation that
names its slot is carried out, the slot in which a row was read holds what the
row showed. A row's number need not be that slot; if it is, the operation finds
the row's partition or none, and if it is not, what the operation does to
another one is among the things that `Stays` has to outlast. For this, each operation's effect on the slots is proved
(`GptEffect`): slots other than the one named are kept, and a used slot
is an old one or begins where the operation says. Where planned operations
write needs more, `SafeInv`: rows, plans and slots are clear of the sectors
written for the table (`ClearOK`), and, as long as nothing has failed, no
partition begins inside a row that is planned for, nor will one (`Foreseen`).
That is kept because a run that has not failed leaves nothing queued, so rows
are replaced only when no plan is left that was made for the old ones. TLC has
found all of these invariant on `plan_gpt`; without "nothing has failed" it
finds the counterexample in section 6, which is why `PlannedWritesSafe` says so.

*DiskClonerProofs.* `LocksAreHeld`, with `LocksInOrder` (the locks taken so far
are a prefix of those asked for) as strengthening; and `VerifiedIsCopy`, for
disks, ranges and buffers of any size and any number of source writes, short
reads and failures. Its invariant `VInv` says that offsets are aligned to the
larger sector once checked, that every verified position but the last is a
multiple of it (so `pos / sector * sector` is `pos` on both sides and the bytes
compared are those meant), that what has been compared agrees or has been
rewritten since, and that this is what an "ok" rests on. Copying does not occur
in that argument: whatever the copy loops did, verification decides. The copy
loops are the subject of the other two. `WritesOnlyRange` (`RangeInv`: a chunk
in the buffer is no longer than what is left of the range or than its run of
clusters) also gives type correctness. `SuccessIsWritten` rests on
`WrittenInv`: what is in the buffer was on the source at the place it is going
to, and everything behind the loop's position is as it should be; it has the
hypothesis `ClusterSectors`, that a cluster is a whole number of sectors of
both disks, which the smart loop relies on and does not check. The arithmetic
(multiples, rounding) is in lemmas of its own.

*ImagingTabProofs.* Creation and restore run side by side on one file, with any
number of jobs, faults and deaths of the program. `JobsExitClean` needs only
where the two jobs are and which locks they hold. `RestorePutsBack` and
`VerifyPutsBack` need what the file says: `JobsInv` has the file held by one
job at a time; its table either the zeros of the first pass or, once sealed,
entries whose CRCs are exactly the bytes imaged, each at its chunk's place
(`TableSays`); and the destination holding, for every chunk already restored,
the bytes its entry's CRC stands for (`Put`). A damaged chunk fits no CRC, so
it ends in an error; damage to the table or header is not assumed away but
named, since nothing in the code would notice it. `VerifyPutsBack` is proved for
files whose chunks alone are damaged; TLC checks `VerifiedIsImaged` for a damaged
table too. An unfinished table is all zeros, which a verifying
restore sees from the hash. `RestoreNeverWrong` compares every byte of the
destination with what it held before, was imaged from there, or a zero that
fills a sector up; it has the hypothesis `ChunkSectors`, that chunks are whole
sectors of the destination, without which the zeros that fill up one chunk
would lie in the next.

*IsoFlasherProofs.* `IsoInv`: locks up to the return; nothing written and
`inputSize` the file's size before the first write, unless the file was
replaced; both loops at a sector's boundary except at the end (so a buffer goes
where it was read from); what is behind the position is written, or compared.
It gives `FlashWritesGuarded` and `FlashSuccessMeans`.

*LinuxFlasherTabProofs.* `LTypeCorrect`; `FlasherOneAtATime` (`OneInv`: no box
is open while something runs); `FlasherConfirmed` (`ConfirmInv`: while nobody
has touched the list it shows what the box named, which is what a pipeline will
read from it later); `FlasherNoFlashAfterCancel`, an action property; and
`FlasherFlashedIsImage`. The last needs `WholeInv`: pipelines beside each other
are all spoiled, so nobody else writes to the files and the drive of one that is
not (one whose download ended with a part missing is spoiled too), and `Proper` says stage by stage what such a one has: the beginning of the
image while it downloads, all of it unpacked, a drive that agrees so far.

*EncryptedVaultProofs.* `VTypeCorrect`, `VaultOpensWithOwner`,
`VaultMountedIsPlain` and `VaultDisksAccounted`, for any set of callers. `VInv`
follows the file through `create()` and `changePassword()`: unless the vault is
torn there is one writer, and during a change the sectors below the position
are under the new key and the rest under the owner's, so the vault opens with
the one until the header is replaced and with the other afterwards. A file that
`create()` could not remove because another call had it open is torn. A `mount()`
that nobody disturbs has the header in its hands that is in the file.

*RecoveryTabProofs.* `WalkFindsLogicalsAlways`: sectors of any contents,
extended partitions of any size, any limit and any number of primaries. `Logicals` is
computed from the end of the chain and the walk goes from its beginning, so
`WalkInv` relates the two at the EBR the walk is at: what has been pushed,
followed by what `Logicals` reads from there on (`Rest`), is what it reads from
the first. That the chain ends bounds the position by the partition's size, and
so the recursion in `Logicals` by the disk's. `ScanFindsOnceAlways`: for any disk, table, stride and
depth, whatever reads fail,
the places probed are listed by least counterexample (the scan's result
is a selection of them, `Kept`), which bounds what `addIfNew` can let through;
`FailingCounts` says that the reads that fail are finitely many.
`OneGoodGptAlways` and `RepairedMeansRepaired`, of the
repairs among all that the recovery tab runs beside them. `BootInv` types a
repair by its kind and says that the copy a rebuild reads is never written,
that the other one is untouched up to the first write, and what it is between
the two writes.

Least-element arguments (the first free job, the length of a run, the least
step at which a recursive function stops being what it should) are made
with the well-foundedness of sets of naturals, not by induction, whose library
theorem the provers cannot instantiate. So are the few facts about recursive
functions: which positions a loop has kept, that the entries of an EBR
chain of any length are partitions, and that a function that says what comes
next can be followed any number of times (`Following`).

**Assumptions**, in the modules that declare the constants; TLC evaluates them
on every run. Bounds are naturals; sizes are naturals and sectors positive; of two
sector sizes one divides the other (512 and 4096, the sizes disks have; the
code's comments speak of an LCM, its code takes the maximum). Disks have bytes
0 to n-1 and hold whole sectors; offsets given to a restore are sectors; files
are sequences; there is at least one configuration to choose. Vaults have
bounded sizes. A file of the user's own that the flasher is given is the image
or is not there; what is found of a download may be anything. `ClusterSectors`
and `ChunkSectors` are hypotheses of their theorems and not assumptions: the
code does not check them, the program's own sizes satisfy them. The disks that
operations begin with are well-formed (`LayoutsAssumption`): no two primaries
overlap, none is empty or reaches beyond the disk (Windows' layout, which the
program shows, leaves out entries of length zero, `RawDiskHandle.cpp:338`, and
a table that is not so was not written by this program). An extended
partition that is walked begins on the disk, as a primary of theirs does, and
the fields of an EBR are numbers. `GptLayouts` and
`ClearLayouts` are hypotheses of the theorems about plans: GPT disks, and such
whose partitions begin behind the sectors that are written for the table, 67
in the code (the MBR, two headers and two arrays of 32), where new partitions are put at
multiples of 2048 and other tools do so too. `MCPlannedOperations` assumes
`ClearLayouts` for TLC to evaluate, so the hypothesis holds where the run is.

**Only model-checked.**

- All liveness (`ApplyReturns`, `DialogCloses`, `CloneReturns`, `PipelineEnds`,
  `CountedWalkEnds`): outside this prover's reach.
- `OthersUntouched`: its exceptions depend on the lengths of the wipe and of the
  table, sector by sector.
- `VerifiedIsImaged` for a file whose table is damaged.
- `UndoRestores`: `undo()` of the last operation against the table it left,
  compared with the table before it; it needs all three layers of the
  operations' proof once more, in the other direction.
- `DetectsWhatWasFormatted`, `WritesInside`, `LayoutSound`: they depend on the
  real sizes and the lists of writes built from them.
- `RecoveredIsOriginal`: the original is compared byte by byte with what runs,
  directory entries and inodes lead to, all of it data.

## 5. Plan

The models cover what this project set out to model, and what its theorems
leave is listed above. What could come next, in this order: `UndoRestores` on
GPT, where a slot is restored; `ImagingTypeOK` for any configuration;
`LayoutDisjoint` of ext from the arithmetic alone.

No module that is proved about declares a RECURSIVE operator.

## 6. Seen while modelling

What the models do because the code does, and what the properties of section 3
therefore except.

*Queue and tab*

- A Cancel pressed before `applyAll()` begins is lost: it resets the flag on
  its own thread (`OperationQueue.cpp:107`), after the dialog is up, although
  `requestCancel()` is documented with "subsequent operations will not be
  started".
- Once the progress dialog has hidden itself (on Cancel, or when the
  last operation reports 100%, before its run has ended), the queue can be edited while the run goes on: an
  operation that was never confirmed is executed (`OperationQueue.h:5-6`), and
  `isRunning()` is false during the second of two overlapping runs
  (`OperationQueue.h:78`). `ModalGuard` says that this is the only way.
- A refresh that arrives while a box is open replaces `m_snapshot` under the
  handler that waits with a pointer into it (`ui/tabs/DiskPartitionTab.cpp:587`).
- A slower refresh that enumerated before a run replaces the newer snapshot
  (`ui/MainWindow.cpp:348`).

*Tables and operations*

- A deleted logical partition is still there: the EBRs that `serialize()`
  appends are written to LBA 1, 2, ... and not where the chain has them
  (`PartitionOperations.cpp:94`).
- For the same reason the GPT backup is written behind the primary one, over a
  partition that starts at the first usable LBA, where Windows puts its reserved
  one. `OthersUntouched` excepts these sectors.
- The rows' numbers are Windows' (`DiskEnumerator.cpp:688`), the operations take
  them for slots: behind an unused slot or a reserved partition, an operation
  acts on another partition than the one shown. `ActsOnWhatWasShown` is about
  rows whose number is their slot.
- On an MBR, `deletePartition()` numbers the rest anew
  (`PartitionTable.cpp:842`): an operation queued behind a delete acts on
  another partition than the one shown.
- EBRs without logical partitions that point at each other are followed for
  ever, since only logical partitions count towards the limit
  (`PartitionTable.cpp:627`; the comment above it says "We limit chain depth to
  prevent infinite loops from corrupt tables").
- Deleting the entry with which an APM describes itself wipes the map before
  the delete is refused (`PartitionOperations.cpp:364-388`).
- The Windows label is saved for undo with its ASCII characters only
  (`:666-673`), and a new label's UTF-8 bytes are widened one by one (`:683`).
- CheckFilesystem returns success with issues, and when its repair could not be
  written (`:1079-1106`); the tab never asks for a repair.
- `GptPartitionTable::parseBackup`, `validateCrcs` and
  `PartitionTable::createNew` have no callers.
- Undoing SetFlags does not bring back the active flag of another partition
  that setting it had cleared.
- The GPT backup at the end of the disk stays as it was
  (`PartitionOperations.cpp:99-102`).
- Logical partitions cannot be added: the range lies in the extended partition
  and the overlap check refuses it (`PartitionTable.cpp:769`).
- Deleting a partition shorter than the wipe, whose length is fixed, overwrites
  the start of the next.
- A format is carried out where the row was, whatever is there by then
  (`PartitionOperations.cpp:583`). Queued behind the deletion of its partition and the
  growth of a neighbour over it, it overwrites the neighbour. After a run that
  failed, the plans left over are for rows shown before: one can shrink a
  partition, another create one in the space it gave up, and a format of the
  old extent then overwrites that.

*Cloner*

- The Imaging tab ignores the result of `clone()` and always reports that
  cloning completed (`ui/tabs/ImagingTab.cpp:425-446`).
- `DiskCloner.h` says that volumes are detected when none are named; nothing is
  locked then, and the tab names none.
- A smart clone zeroes free clusters, so its verification fails unless the
  source's free space is zero; it does not copy what lies behind the last
  cluster; a short read leaves a hole. The tab clones whole disks, for which
  smart always falls back to raw.
- With a buffer smaller than a cluster a smart clone turns for ever, until it is
  cancelled (`DiskCloner.cpp:592`).

*Format engine*

- An ext group too short for its own metadata is laid out past the end of a raw
  partition; the last group's bitmap is off by one with 1 KiB blocks; the free
  count subtracts the journal twice and ignores two directory blocks; the
  journal has at least 1024 blocks of which 12 are mapped.
- A quick ext format leaves bytes 0 to 1023 and the reserved descriptor blocks,
  a quick FAT32 the superblock at 1024: old magic there wins. A swap UUID can
  spell the MINIX magic. ext3 without a journal is detected as ext2.
- The caller's number of inodes per group is not checked
  (`FormatEngine.cpp:722`): with too many, ext metadata run into each other or
  past the end.
- FAT32 forced on a partition of fewer sectors than its tables wraps in unsigned
  arithmetic, passes the check for the number of clusters, writes behind the
  partition and reports success (`:1571-1592`).
- On disks with 4096-byte sectors a patch may overrun the sectors read for it
  (`FormatEngine.cpp:957-976`). The result of flushing is ignored.

*Imaging*

- The tab ignores what the engines return and always reports success
  (`ImagingTab.cpp:494`, `:611`).
- An SPW file without its table restores "successfully" without writing; when
  the hash object cannot be created, verification is skipped; a short read
  shifts a raw image; a failure while finishing leaves the file.
- Neither header nor table has a checksum: a chunk that is called sparse by
  mistake is written as zeros and compared with nothing
  (`ImageRestorer.cpp:581-592`), chunks missing from the count are not restored,
  another chunk size puts the chunks elsewhere, and a magic number that cannot be
  read or has changed makes the file a raw image. Only a restore that verifies
  notices, and of the chunks' places not even that.
- A cancelled creation whose file a restore has open cannot delete it, and does
  not look (`ImageCreator.cpp:340-341`, `:576-577`); one whose `getGeometry`
  fails leaves an empty file (`:462-468`).
- `IsoFlasher` takes the end of a shorter file, or a failing read, for the end
  of its data; a file that is not hybrid is never verified, and its table is
  written before the buffer size is checked.
- With no removable drive the flash target reads as disk 0. The burn script
  burns nothing; ripping ignores failing writes.

*Linux flasher*

- A complete file makes the server answer 416, whose body is appended before
  the error is looked at: that pipeline can never succeed. A server that
  ignores the range, or an older version's partial file, gives a mixed file.
  The catalog's SHA-256 is never checked, and a truncated gzip is accepted.
- Writes to a full disk are not looked at (`DownloadManager.cpp:136`, `:173`,
  `:204`): what is cut off is announced as complete, and flashed as a success.
- Cancel and start again, and the old unpack thread goes on to flash, because
  `m_cancelled` was cleared (`LinuxFlasherTab.cpp:331`). A late failure of an
  old 7z process enables the buttons; a refused second download replaces what
  the first was for.
- The combo boxes stay enabled, and the drive is read when the flash starts,
  not when it was confirmed (`:289`, `:577`).
- 7-Zip's result is the largest image in the directory, whoever put it there;
  a zip's is the directory itself, which cannot be flashed. A failing read in
  `flashToDisk` ends the loop as a success.

*Vault*

- The key file is mixed into the first 32 bytes only, so the HMAC key does not
  depend on it and a wrong key file mounts garbage.
- CBC and GCM vaults can be created and never mounted; so can vaults with fewer
  iterations than the header reader accepts.
- A `create()` that fails while another call has the file open, if only to read
  its header, cannot remove it and leaves half a vault.
- A change of password cut short leaves a vault neither password opens. Two
  concurrent mounts both attach. `unmount` detaches a file that mount never
  made (`EncryptedVault.cpp:1401`), and nothing is written back.
- The Security tab's `onCreateVault` does not use this class; it writes a file
  of its own, not encrypted (`SecurityTab.cpp:303-391`).

*Recovery*

- The tab always rebuilds the primary GPT from the backup, so an older valid
  backup rolls a good primary back; the CRC of the entries is never checked
  (`BootRepair.cpp:122-153`). `repairMbr` reports bad status bytes and leaves
  them. Results of copies in `repairBootloader` are ignored.
- Recovering a found partition divides by zero: the object is made anew and
  its geometry never read (`PartitionRecovery.cpp:417`).
- Finds of one volume are recovered from whichever is selected by then;
  `m_recoveredFiles` and `m_snapshot` are shared without a lock; a failed scan
  shows the old results again; `m_cancelFlag` is never set.
- A scan does not say what it could not read: a probe whose read fails is no
  find (`PartitionRecovery.cpp:152-154`), and without the drive's layout no find
  is marked as overlapping (`:38-41`).
- The runs of all `$DATA` attributes are put together and the last one sets the
  size (`FileRecovery.cpp:374-455`), so a file with a named stream is cut to the
  stream's length; of more than four extents the index entries are read as extents
  (`:925`).
- Sparse runs are skipped, resident data read from the wrong place, indirect
  blocks not followed; names differing in the first letter collide on FAT.

## 7. Not modelled

Layout, wording and widgets; WMI enumeration, geometry and SMART (queries
without state); byte encodings and CRC values; cryptographic primitives; the
contents of bitmaps and inodes; listing and reading files inside an ISO; disc
ripping and burning, mounting, converting and capturing virtual disks (external
tools and APIs); FIDO2 and boot keys (a device protocol); surface scan,
benchmark, secure erase and SD card repair (single loops over one disk, with
the worker pattern the modelled tabs already have); the Kali tab (the flasher's
pipeline again, with external tools); vendored decompressors and build tools.
Within the modelled parts: the count of bytes that `WriteFile` returns in the
image creator, and chunk sizes that are not whole sectors of the source
(`ImageCreator.cpp:568-592`); damage to an image that makes the restorer overrun
its buffers; NTFS fixups and 64-bit sizes so large that sums wrap (the scan's
sizes are below 2^55 sectors); what a probe that cannot read takes from the
remains of an older file system; image files of less than 512 bytes, whose table
the flasher does not overlay (`IsoFlasher.cpp:999`).
In the models, `recover` of a partition ends in the crash described above, and
a second thread recovering files is not started before the first has ended.
