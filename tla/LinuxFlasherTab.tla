---------------------------- MODULE LinuxFlasherTab ----------------------------
(***************************************************************************)
(* The Linux flasher tab: an image is downloaded (or resumed), unpacked    *)
(* and flashed to a drive, by the network replies of DownloadManager, a    *)
(* thread of Decompressor or a 7z process, and a thread of                 *)
(* VirtualDisk::flashToDisk.  They share one m_cancelled flag; a canceled  *)
(* thread goes on until it looks at it, and starting again clears it.      *)
(* Meanwhile the drive list and the catalog may be refreshed.              *)
(*                                                                         *)
(* A file, an unpacked image and what is on a drive are sequences of parts.*)
(***************************************************************************)
EXTENDS Integers, Sequences, FiniteSets

CONSTANTS
  Images,       \* the catalog's entries and a file of the user's own
  Local,        \* the images given as a path, which are not downloaded
  Ranges,       \* the images whose server honours Range requests
  Catalogs,     \* the images' formats, and what earlier downloads may have left of them
  Drives,       \* removable drives
  Parts,        \* of every image
  MaxJobs,      \* bound: pipelines started
  MaxRefresh    \* bound: refreshes of the drives and of the catalog

Whole == [i \in 1..Parts |-> i]
Formats == {"img", "gz", "xz", "zip", "7z"}

(* What is found of a download may be anything; a file of the user's own   *)
(* is the image itself, or the path leads nowhere.                         *)
ASSUME FlasherAssumption ==
  /\ \A c \in Catalogs : /\ c.format \in [Images -> Formats]
                         /\ c.files \in [Images -> Seq(Nat)]
                         /\ \A i \in Local : c.files[i] \in {<<>>, Whole}
  /\ Ranges \subseteq Images /\ Local \subseteq Images
  /\ Parts \in Nat \ {0} /\ MaxJobs \in Nat /\ MaxRefresh \in Nat

NoDrive == "no drive"

VARIABLES
  format,     \* the images' formats, by the suffix of the URL
  selected,   \* the catalog entry the combo boxes show
  combo,      \* m_targetDriveCombo: a drive, or NoDrive
  present,    \* the drives the snapshot has
  box,        \* the open warning: what it names, or NoBox
  running,    \* setOperationRunning: buttons disabled, Cancel visible
  cancelled,  \* m_cancelled
  files,      \* the downloaded files
  unpacked,   \* the unpacked images
  loading,    \* DownloadManager: the job, m_resumeOffset, the parts read of the
              \* reply; job 0 for none
  jobs,       \* the pipelines: see NoJob
  drive,      \* what is on the drives
  refreshes,
  everCancelled,  \* ghost
  spoiled         \* ghost: jobs that ran beside another, resumed something else,
                  \* lost a part on a full disk, or met a read error while they
                  \* flashed

lvars == <<selected, combo, present, box, running, cancelled, files, unpacked, loading, jobs,
           drive, refreshes, everCancelled, spoiled>>

NoBox == [image |-> "none", target |-> NoDrive]
NotLoading == [job |-> 0, resume |-> 0, received |-> 0]

(* stage: none, download, unpack, posted (the thread's call waits in the   *)
(* event loop), failed (likewise), flash, flashed (likewise), end.         *)
(* Ghosts: confirmed is what the warning named, stale tells that the drive *)
(* list was touched since.                                                 *)
NoJob == [stage |-> "none", image |-> "none", flashAfter |-> FALSE, confirmed |-> NoBox,
          stale |-> FALSE, target |-> NoDrive, parts |-> 0, result |-> "none"]
Ended == [NoJob EXCEPT !.stage = "end"]
JobIds == 1..MaxJobs
Active(j) == jobs[j].stage \notin {"none", "end"}

LInit ==
  /\ selected \in Images
  /\ present = Drives
  /\ combo \in Drives
  /\ box = NoBox
  /\ running = FALSE /\ cancelled = FALSE
  /\ \E c \in Catalogs : format = c.format /\ files = c.files
  /\ unpacked = [i \in Images |-> <<>>]
  /\ loading = NotLoading
  /\ jobs = [j \in JobIds |-> NoJob]
  /\ drive = [d \in Drives |-> <<>>]
  /\ refreshes = 0
  /\ everCancelled = FALSE /\ spoiled = {}

-----------------------------------------------------------------------------
(* refreshDisks: the combo is filled again and shows its first drive.      *)
Stale == [j \in JobIds |-> [jobs[j] EXCEPT !.stale = Active(j)]]

refreshDisks(now) ==
  /\ refreshes < MaxRefresh
  /\ present' = now
  /\ combo' \in IF now = {} THEN {NoDrive} ELSE now
  /\ refreshes' = refreshes + 1
  /\ jobs' = Stale
  /\ UNCHANGED <<selected, box, running, cancelled, files, unpacked, loading, drive, everCancelled, spoiled>>

(* onCatalogUpdated selects the first entry of the first category.         *)
onCatalogUpdated(i) ==
  /\ refreshes < MaxRefresh
  /\ selected' = i
  /\ refreshes' = refreshes + 1
  /\ UNCHANGED <<combo, present, box, running, cancelled, files, unpacked, loading, jobs, drive, everCancelled, spoiled>>

(* The user picks an entry or a drive: only the modal box prevents it, the *)
(* combo boxes stay enabled while a pipeline runs.                         *)
Choose ==
  /\ box = NoBox
  /\ selected' \in Images
  /\ combo' \in IF present = {} THEN {NoDrive} ELSE present
  /\ jobs' = IF combo' = combo THEN jobs ELSE Stale
  /\ UNCHANGED <<present, box, running, cancelled, files, unpacked, loading, drive, refreshes, everCancelled, spoiled>>

onDownloadAndFlash ==
  /\ ~running
  /\ box = NoBox
  /\ combo # NoDrive
  /\ \E j \in JobIds : jobs[j].stage = "none"
  /\ box' = [image |-> selected, target |-> combo]
  /\ UNCHANGED <<selected, combo, present, running, cancelled, files, unpacked, loading, jobs, drive, refreshes, everCancelled, spoiled>>

AnswerNo ==
  /\ box # NoBox
  /\ box' = NoBox
  /\ UNCHANGED <<selected, combo, present, running, cancelled, files, unpacked, loading, jobs, drive, refreshes, everCancelled, spoiled>>

(* Mutant: a cancel is not looked for.                                     *)
flashImageRegardless(job, stop) ==
  IF combo = NoDrive
  THEN Ended
  ELSE [job EXCEPT !.stage = "flash", !.target = combo]

(* Mutant: the drive at the first index, whichever the user picked.        *)
flashImageFirst(job, stop) ==
  IF stop \/ combo = NoDrive
  THEN Ended
  ELSE [job EXCEPT !.stage = "flash", !.target = CHOOSE d \in present : TRUE]

(* flashImage: the target is the drive the combo shows now.                *)
flashImage(job, stop) ==
  IF stop \/ combo = NoDrive
  THEN Ended
  ELSE [job EXCEPT !.stage = "flash", !.target = combo]

isCompressed(i) == format[i] # "img"

(* With the file on the disk: unpack it, flash it, or be done.             *)
FileReady(job, stop) ==
  IF isCompressed(job.image) THEN [job EXCEPT !.stage = "unpack"]
  ELSE IF job.flashAfter THEN flashImage(job, stop)
  ELSE Ended

(* setOperationRunning(false) goes with every end of a job.                *)
Becomes(j, job) ==
  /\ jobs' = [jobs EXCEPT ![j] = job]
  /\ running' = (running /\ job.stage # "end")

NextJob == CHOOSE j \in JobIds : jobs[j].stage = "none" /\ \A k \in 1..(j - 1) : jobs[k].stage # "none"
Others == {k \in JobIds : Active(k)}

(* What is found in the directory is the beginning of this very file, from *)
(* a server that sends the rest.                                           *)
Resumable(i) == i \in Local \/ files[i] = <<>> \/ (i \in Ranges /\ files[i] = SubSeq(Whole, 1, Len(files[i])))

(* startDownload: an existing file is resumed.                             *)
startDownload(j, i) == [job |-> j, resume |-> Len(files[i]), received |-> 0]

(* The pipeline for what is selected.  A local file goes on at once.       *)
NewJob(flashAfter) ==
  [NoJob EXCEPT !.stage = "download", !.image = selected, !.flashAfter = flashAfter,
                !.confirmed = box, !.stale = (box # [image |-> selected, target |-> combo])]
Started(flashAfter) ==
  IF selected \notin Local THEN NewJob(flashAfter)
  ELSE IF files[selected] = <<>> THEN Ended ELSE FileReady(NewJob(flashAfter), FALSE)

(* Mutant: a second pipeline may be started.                               *)
startPipelineEnabled(flashAfter) ==
  LET j == NextJob
  IN  /\ \E k \in JobIds : jobs[k].stage = "none"
      /\ cancelled' = FALSE
      /\ spoiled' = spoiled
      /\ loading.job = 0
      /\ loading' = IF selected \in Local THEN loading ELSE startDownload(j, selected)
      /\ jobs' = [jobs EXCEPT ![j] = Started(flashAfter)]
      /\ running' = FALSE

(* startPipeline.  DownloadManager refuses a second download, and the      *)
(* tab's slot for the error enables the buttons; by then the completion    *)
(* slot, with its flashAfter, is replaced.                                 *)
startPipeline(flashAfter) ==
  LET j == NextJob
      start == Started(flashAfter)
  IN  /\ \E k \in JobIds : jobs[k].stage = "none"
      /\ cancelled' = FALSE
      /\ spoiled' = spoiled \cup (IF Others = {} THEN {} ELSE Others \cup {j})
                            \cup (IF Resumable(selected) THEN {} ELSE {j})
      /\ IF loading.job # 0 /\ selected \notin Local
         THEN /\ running' = FALSE
              /\ jobs' = [jobs EXCEPT ![j] = Ended, ![loading.job].flashAfter = flashAfter]
              /\ UNCHANGED loading
         ELSE /\ jobs' = [jobs EXCEPT ![j] = start]
              /\ running' = (start.stage # "end")
              /\ loading' = IF selected \in Local THEN loading ELSE startDownload(j, selected)

AnswerYes ==
  /\ box # NoBox
  /\ box' = NoBox
  /\ startPipeline(TRUE)
  /\ UNCHANGED <<selected, combo, present, files, unpacked, drive, refreshes, everCancelled>>

onDownloadOnly ==
  /\ ~running
  /\ box = NoBox
  /\ startPipeline(FALSE)
  /\ UNCHANGED <<selected, combo, present, box, files, unpacked, drive, refreshes, everCancelled>>

(* DownloadManager::cancelDownload: the reply, if there is one, is aborted.*)
cancelDownload ==
  IF loading.job = 0 THEN UNCHANGED <<loading, jobs>>
  ELSE /\ jobs' = [jobs EXCEPT ![loading.job] = Ended]
       /\ loading' = NotLoading

(* The threads find out by themselves.                                     *)
onCancel ==
  /\ running
  /\ box = NoBox
  /\ cancelled' = TRUE
  /\ everCancelled' = TRUE
  /\ running' = FALSE
  /\ cancelDownload
  /\ UNCHANGED <<selected, combo, present, box, files, unpacked, drive, refreshes, spoiled>>

-----------------------------------------------------------------------------
(* DownloadManager.  The body of the reply: the rest of the file, or all   *)
(* of it if the server ignores Range.                                      *)
File == jobs[loading.job].image
Honoured == File \in Ranges
Body == IF Honoured THEN SubSeq(Whole, loading.resume + 1, Parts) ELSE Whole

(* readyRead, and what finished finds left.  Only a write() of -1 is an     *)
(* error: of what is written short, by finished, or still buffered when    *)
(* the file is closed, nobody learns that it did not reach the disk.       *)
onReadyRead ==
  /\ loading.job # 0
  /\ loading.received < Len(Body)
  /\ loading' = [loading EXCEPT !.received = @ + 1]
  /\ \/ /\ files' = [files EXCEPT ![File] = Append(@, Body[loading.received + 1])]
        /\ UNCHANGED spoiled
     \/ /\ spoiled' = spoiled \cup {loading.job}
        /\ UNCHANGED files
  /\ UNCHANGED <<selected, combo, present, box, running, cancelled, unpacked, jobs, drive, refreshes, everCancelled>>

RangeRefused == Honoured /\ loading.resume >= Parts

(* Mutant: a reply without a body is not an error.                         *)
DownloadErrorNo416 ==
  /\ loading.job # 0
  /\ ~RangeRefused
  /\ loading' = NotLoading
  /\ running' = FALSE
  /\ jobs' = [jobs EXCEPT ![loading.job] = Ended]
  /\ UNCHANGED <<selected, combo, present, box, cancelled, files, unpacked, drive, refreshes, everCancelled, spoiled>>

(* The network, the disk, or a Range that starts behind the end (416).     *)
DownloadError ==
  /\ loading.job # 0
  /\ loading' = NotLoading
  /\ running' = FALSE
  /\ jobs' = [jobs EXCEPT ![loading.job] = Ended]
  /\ UNCHANGED <<selected, combo, present, box, cancelled, files, unpacked, drive, refreshes, everCancelled, spoiled>>

(* onFinished without an error, and the tab's downloadComplete slot; a     *)
(* canceled download has no reply any more.                                *)
downloadComplete ==
  /\ loading.job # 0
  /\ loading.received = Len(Body)
  /\ ~RangeRefused
  /\ loading' = NotLoading
  /\ Becomes(loading.job, FileReady(jobs[loading.job], cancelled))
  /\ UNCHANGED <<selected, combo, present, box, cancelled, files, unpacked, drive, refreshes, everCancelled, spoiled>>

-----------------------------------------------------------------------------
(* Decompressor: whether a file unpacks, and to what.  What follows the    *)
(* end of a stream is not looked at.  The end of the file ends a gzip      *)
(* stream too; xz must have found the end of its own.                      *)
First(f) == IF Len(f) > Parts THEN SubSeq(f, 1, Parts) ELSE f
decompressGz(f) == [ok |-> TRUE, out |-> First(f)]
decompressXz(f) == [ok |-> Len(f) >= Parts, out |-> First(f)]

(* The entries one after another, each with the size its header gives; no  *)
(* header where one should be ends the archive.  One entry here.  What     *)
(* comes of it is a directory, which cannot be flashed.                    *)
decompressZip(f) == [ok |-> f = <<>> \/ Len(f) >= Parts, out |-> First(f)]

(* SevenZipExtractor: an exit code other than 0, also for data behind the  *)
(* end, is an error.  The tab then takes the largest image found in the    *)
(* directory; here there is no other.                                      *)
extract(f) == [ok |-> Len(f) = Parts, out |-> First(f)]

decompressAuto(i) ==
  CASE format[i] = "gz"  -> decompressGz(files[i])
    [] format[i] = "xz"  -> decompressXz(files[i])
    [] format[i] = "zip" -> decompressZip(files[i])
    [] format[i] = "7z"  -> extract(files[i])

(* A thread that sees the cancel returns without a word.                   *)
UnpackEnds(j) ==
  /\ jobs[j].stage = "unpack"
  /\ decompressAuto(jobs[j].image).ok
  /\ unpacked' = [unpacked EXCEPT ![jobs[j].image] = decompressAuto(jobs[j].image).out]
  /\ jobs' = [jobs EXCEPT ![j] = IF cancelled THEN Ended ELSE [@ EXCEPT !.stage = "posted"]]
  /\ UNCHANGED <<selected, combo, present, box, running, cancelled, files, loading, drive, refreshes, everCancelled, spoiled>>

(* An output that was opened is truncated, and left where a read or write  *)
(* failed or removed.  A 7z error is reported even after a cancel.         *)
UnpackFails(j) ==
  /\ jobs[j].stage = "unpack"
  /\ \E left \in {unpacked[jobs[j].image], <<>>, First(files[jobs[j].image])} :
       unpacked' = [unpacked EXCEPT ![jobs[j].image] = left]
  /\ jobs' = [jobs EXCEPT ![j] = IF cancelled /\ format[@.image] # "7z" THEN Ended ELSE [@ EXCEPT !.stage = "failed"]]
  /\ UNCHANGED <<selected, combo, present, box, running, cancelled, files, loading, drive, refreshes, everCancelled, spoiled>>

(* The queued calls.  The 7z slot looks at the flag once more.             *)
UnpackDelivered(j) ==
  /\ jobs[j].stage = "posted"
  /\ IF cancelled /\ format[jobs[j].image] = "7z"
     THEN jobs' = [jobs EXCEPT ![j] = Ended] /\ UNCHANGED running
     ELSE Becomes(j, IF jobs[j].flashAfter THEN flashImage(jobs[j], cancelled)
                     ELSE Ended)
  /\ UNCHANGED <<selected, combo, present, box, cancelled, files, unpacked, loading, drive, refreshes, everCancelled, spoiled>>

FailureDelivered(j) ==
  /\ jobs[j].stage = "failed"
  /\ Becomes(j, Ended)
  /\ UNCHANGED <<selected, combo, present, box, cancelled, files, unpacked, loading, drive, refreshes, everCancelled, spoiled>>

-----------------------------------------------------------------------------
(* VirtualDisk::flashToDisk, part by part; it never looks at the flag.     *)
Source(j) == IF isCompressed(jobs[j].image) THEN unpacked[jobs[j].image] ELSE files[jobs[j].image]

Put(d, at, p) == [i \in 1..(IF at > Len(d) THEN at ELSE Len(d)) |-> IF i = at THEN p ELSE IF i <= Len(d) THEN d[i] ELSE 0]

(* Mutant: a second attempt writes behind the first.                       *)
FlashPartNoSeek(j) ==
  /\ jobs[j].stage = "flash"
  /\ format[jobs[j].image] # "zip"
  /\ jobs[j].parts < Len(Source(j))
  /\ LET at == jobs[j].parts + 1
     IN  /\ \E again \in {0, 1} : drive' = [drive EXCEPT ![jobs[j].target] = Put(@, at + again, Source(j)[at])]
         /\ jobs' = [jobs EXCEPT ![j].parts = at]
  /\ UNCHANGED <<selected, combo, present, box, running, cancelled, files, unpacked, loading, refreshes, everCancelled, spoiled>>

FlashPart(j) ==
  /\ jobs[j].stage = "flash"
  /\ format[jobs[j].image] # "zip"
  /\ jobs[j].parts < Len(Source(j))
  /\ LET at == jobs[j].parts + 1
     IN  /\ drive' = [drive EXCEPT ![jobs[j].target] = Put(@, at, Source(j)[at])]
         /\ jobs' = [jobs EXCEPT ![j].parts = at]
  /\ UNCHANGED <<selected, combo, present, box, running, cancelled, files, unpacked, loading, refreshes, everCancelled, spoiled>>

(* The end of the file; a read that fails ends the loop just the same.     *)
FlashDone(j) ==
  /\ jobs[j].stage = "flash"
  /\ format[jobs[j].image] # "zip"
  /\ jobs' = [jobs EXCEPT ![j].stage = "flashed", ![j].result = "ok"]
  /\ spoiled' = IF jobs[j].parts < Len(Source(j)) THEN spoiled \cup {j} ELSE spoiled
  /\ UNCHANGED <<selected, combo, present, box, running, cancelled, files, unpacked, loading, drive, refreshes, everCancelled>>

(* Source or drive cannot be opened; three attempts to write failed.       *)
FlashFails(j) ==
  /\ jobs[j].stage = "flash"
  /\ jobs' = [jobs EXCEPT ![j].stage = "flashed", ![j].result = "error"]
  /\ UNCHANGED <<selected, combo, present, box, running, cancelled, files, unpacked, loading, drive, refreshes, everCancelled, spoiled>>

FlashDelivered(j) ==
  /\ jobs[j].stage = "flashed"
  /\ Becomes(j, Ended)
  /\ UNCHANGED <<selected, combo, present, box, cancelled, files, unpacked, loading, drive, refreshes, everCancelled, spoiled>>

Network == onReadyRead \/ DownloadError \/ downloadComplete
Thread(j) == UnpackEnds(j) \/ UnpackFails(j) \/ FlashPart(j) \/ FlashDone(j) \/ FlashFails(j)
Delivered(j) == UnpackDelivered(j) \/ FailureDelivered(j) \/ FlashDelivered(j)

Handler ==
  \/ \E now \in SUBSET Drives : refreshDisks(now)
  \/ \E i \in Images : onCatalogUpdated(i)
  \/ Choose \/ onDownloadAndFlash \/ AnswerNo \/ AnswerYes \/ onDownloadOnly \/ onCancel

LNext ==
  /\ UNCHANGED format
  /\ \/ Handler
     \/ Network
     \/ \E j \in JobIds : Thread(j) \/ Delivered(j)

(* The network answers or fails, threads run, the event loop delivers.     *)
LSpec ==
  /\ LInit /\ [][LNext]_<<lvars, format>>
  /\ WF_lvars(Network)
  /\ \A j \in JobIds : WF_lvars(Thread(j)) /\ WF_lvars(Delivered(j))

-----------------------------------------------------------------------------
Named == [image : Images \cup {"none"}, target : Drives \cup {NoDrive}]
Jobs == [stage : {"none", "download", "unpack", "posted", "failed", "flash", "flashed", "end"},
         image : Images \cup {"none"}, flashAfter : BOOLEAN, confirmed : Named,
         stale : BOOLEAN, target : Drives \cup {NoDrive}, parts : Nat,
         result : {"none", "ok", "error"}]

(* Only a running pipeline has a target; that of a flash is a drive.       *)
JobOK(r) ==
  /\ r.stage \notin {"none", "end"} => r.image \in Images
  /\ r.stage \in {"none", "end"} => r.target = NoDrive
  /\ r.stage \in {"flash", "flashed"} => r.target \in Drives
  /\ r.stage = "download" => r.image \notin Local
  /\ r.stage \in {"unpack", "posted"} => isCompressed(r.image)

(* The job the network works for is in its download stage, the file is not *)
(* shorter than what was resumed, and a canceled tab shows its buttons.    *)
LTypeOK ==
  /\ selected \in Images /\ combo \in present \cup {NoDrive} /\ present \subseteq Drives
  /\ running \in BOOLEAN /\ cancelled \in BOOLEAN /\ ~(running /\ cancelled)
  /\ box \in Named
  /\ format \in [Images -> Formats]
  /\ files \in [Images -> Seq(Nat)] /\ unpacked \in [Images -> Seq(Nat)]
  /\ drive \in [Drives -> Seq(Nat)]
  /\ loading \in [job : {0} \cup JobIds, resume : Nat, received : Nat]
  /\ jobs \in [JobIds -> Jobs]
  /\ \A j \in JobIds : JobOK(jobs[j]) /\ (jobs[j].stage = "download" <=> loading.job = j)
  /\ loading.job # 0 => loading.resume <= Len(files[File])

(* Cancel: while the flag is set no pipeline begins to write to a drive,   *)
(* whichever of its threads or queued calls the cancel found.              *)
NoFlashAfterCancel ==
  [][cancelled /\ cancelled' => \A j \in JobIds : jobs[j].stage # "flash" => jobs'[j].stage # "flash"]_lvars

(* setOperationRunning: until the first cancel there is at most one        *)
(* pipeline, and the buttons are disabled exactly while there is one.      *)
OneAtATime ==
  ~everCancelled => /\ \A j, k \in JobIds : Active(j) /\ Active(k) => j = k
                    /\ running <=> \E j \in JobIds : Active(j)

(* onDownloadAndFlash: what is erased is the disk the warning named, if    *)
(* nobody picked another and the list of drives was not filled anew.       *)
ConfirmedUnlessTouched ==
  \A j \in JobIds : jobs[j].target # NoDrive /\ jobs[j].confirmed # NoBox /\ ~jobs[j].stale =>
    [image |-> jobs[j].image, target |-> jobs[j].target] = jobs[j].confirmed

(* "The Linux image has been flashed successfully": the drive then holds   *)
(* the image, also when its download was canceled and resumed; unless a    *)
(* full disk swallowed a part of it unseen, the file found was another     *)
(* one, a read failed while flashing, or another pipeline ran beside.      *)
FlashedIsImage ==
  \A j \in JobIds : jobs[j].stage = "flashed" /\ jobs[j].result = "ok" /\ j \notin spoiled =>
    \A n \in 1..Parts : n \in DOMAIN drive[jobs[j].target] /\ drive[jobs[j].target][n] = n

(* The buttons come back, whatever happens on the way.                     *)
PipelineEnds == running ~> ~running

-----------------------------------------------------------------------------
(* What makes them inductive.                                              *)

(* The buttons are enabled while the warning is open.                      *)
OneInv ==
  /\ cancelled => everCancelled
  /\ box # NoBox => ~running
  /\ OneAtATime

(* As long as nobody has touched the list, it shows what the warning named.*)
ConfirmInv ==
  /\ ConfirmedUnlessTouched
  /\ \A j \in JobIds : Active(j) /\ jobs[j].confirmed # NoBox /\ ~jobs[j].stale =>
       jobs[j].confirmed = [image |-> jobs[j].image, target |-> combo]

(* Pipelines beside each other are all spoiled, so that nobody else writes *)
(* to the files and the drive of one that is not.                          *)
Begins(f) == Len(f) <= Parts /\ \A n \in 1..Len(f) : f[n] = n
IsWhole(f) == Len(f) = Parts /\ \A n \in 1..Parts : f[n] = n
OnDrive(d, k) == \A n \in 1..k : n \in 1..Len(drive[d]) /\ drive[d][n] = n

Proper(j) ==
  LET i == jobs[j].image
  IN  /\ jobs[j].stage \notin {"flash", "flashed"} => jobs[j].parts = 0
      /\ jobs[j].stage = "download" =>
           \/ i \in Ranges /\ loading.resume >= Parts
           \/ /\ Begins(files[i]) /\ (i \notin Ranges => loading.resume = 0)
              /\ Len(files[i]) = loading.resume + loading.received
      /\ jobs[j].stage = "unpack" => IsWhole(files[i])
      /\ jobs[j].stage = "posted" => IsWhole(unpacked[i])
      /\ jobs[j].stage = "flash" => /\ IsWhole(Source(j))
                                    /\ jobs[j].parts <= Parts /\ OnDrive(jobs[j].target, jobs[j].parts)
      /\ jobs[j].stage = "flashed" /\ jobs[j].result = "ok" => OnDrive(jobs[j].target, Parts)

WholeInv ==
  /\ \A i \in Local : files[i] \in {<<>>, Whole}
  /\ \A j, k \in JobIds : Active(j) /\ Active(k) /\ j # k => j \in spoiled
  /\ \A j \in JobIds : Active(j) /\ j \notin spoiled => Proper(j)
=============================================================================
