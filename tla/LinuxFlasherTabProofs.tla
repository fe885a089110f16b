------------------------- MODULE LinuxFlasherTabProofs -------------------------
(***************************************************************************)
(* The Linux flasher tab, for every catalog, any number of drives and of   *)
(* pipelines, and images of any number of parts.                           *)
(***************************************************************************)
EXTENDS LinuxFlasherTab, SequenceTheorems, WellFoundedInduction, TLAPS

-----------------------------------------------------------------------------
(* Jobs                                                                    *)

\* A set of naturals that is not empty has a least member.
LEMMA Least == ASSUME NEW S \in SUBSET Nat, S # {} PROVE \E m \in S : \A n \in S : m <= n
  <1> DEFINE R == {p \in Nat \X Nat : p[1] < p[2]}
  <1>1. OpToRel(<, Nat) = R
    BY DEF OpToRel
  <1>2. IsWellFoundedOn(R, Nat)
    BY <1>1, NatLessThanWellFounded
  <1>3. PICK x \in S : \A y \in S : ~ (<<y, x>> \in R)
    BY <1>2, WFMin
  <1>4. \A y \in S : ~(y < x)
    BY <1>3
  <1> QED BY <1>4, x \in S

\* The next pipeline takes the first place that is free.
LEMMA NextJobFree ==
  ASSUME \E k \in JobIds : jobs[k].stage = "none"
  PROVE  NextJob \in JobIds /\ jobs[NextJob].stage = "none"
  <1> DEFINE S == {k \in JobIds : jobs[k].stage = "none"}
  <1>1. S \in SUBSET Nat /\ S # {}
    BY FlasherAssumption DEF JobIds
  <1>2. PICK m \in S : \A n \in S : m <= n
    BY <1>1, Least
  <1>3. \A k \in 1..(m - 1) : jobs[k].stage # "none"
    BY <1>1, <1>2, FlasherAssumption DEF JobIds
  <1> QED BY <1>2, <1>3 DEF NextJob

\* Job numbers are positive; 0 stands for none.
LEMMA JobIdsPositive == \A j \in JobIds : j \in Nat /\ j # 0
  BY FlasherAssumption DEF JobIds

\* A pipeline that has ended is one without a target.
LEMMA EndedFacts ==
  /\ NoJob \in Jobs /\ NoJob.stage = "none" /\ NoJob.target = NoDrive
  /\ Ended \in Jobs /\ Ended.stage = "end" /\ Ended.target = NoDrive /\ Ended.confirmed = NoBox
  /\ JobOK(Ended) /\ JobOK(NoJob) /\ NoBox \in Named
  BY DEF NoJob, Ended, Jobs, Named, NoBox, JobOK, NoDrive

\* What becomes of a pipeline that is to flash: it ends, or it flashes what it
\* is for to the drive that the list shows.
Flashing(r, job) ==
  /\ r \in Jobs /\ JobOK(r) /\ r.stage = "flash" /\ r.target = combo /\ combo # NoDrive
  /\ r.image = job.image /\ r.confirmed = job.confirmed /\ r.stale = job.stale /\ r.parts = job.parts

\* What flashImage() makes of a job: one that flashes, unless it is to stop, or an ended one.
LEMMA FlashImageFacts ==
  ASSUME LTypeOK, NEW job \in Jobs, job.image \in Images, NEW stop \in BOOLEAN
  PROVE  \/ flashImage(job, stop) = Ended
         \/ ~stop /\ Flashing(flashImage(job, stop), job)
  <1>1. CASE stop \/ combo = NoDrive
    BY <1>1 DEF flashImage
  <1>2. CASE ~stop /\ combo # NoDrive
    <2> DEFINE r == [job EXCEPT !.stage = "flash", !.target = combo]
    <2>1. combo \in Drives
      BY <1>2 DEF LTypeOK
    <2>2. r \in Jobs /\ r.stage = "flash" /\ r.target = combo /\ r.image = job.image /\ r.confirmed = job.confirmed
          /\ r.stale = job.stale /\ r.parts = job.parts
      BY <2>1 DEF Jobs
    <2>3. flashImage(job, stop) = r
      BY <1>2 DEF flashImage
    <2> HIDE DEF r
    <2> QED BY <1>2, <2>1, <2>2, <2>3 DEF Flashing, JobOK
  <1> QED BY <1>1, <1>2

\* Likewise with the file on the disk: it may have to be unpacked first.
Unpacking(r, job) ==
  /\ r \in Jobs /\ JobOK(r) /\ r.stage = "unpack" /\ isCompressed(job.image) /\ r.target = job.target
  /\ r.image = job.image /\ r.confirmed = job.confirmed /\ r.stale = job.stale /\ r.parts = job.parts

\* What becomes of a job whose file is there: unpacking, flashing, or the end.
LEMMA FileReadyFacts ==
  ASSUME LTypeOK, NEW job \in Jobs, job.image \in Images, NEW stop \in BOOLEAN
  PROVE  \/ FileReady(job, stop) = Ended
         \/ Unpacking(FileReady(job, stop), job)
         \/ ~stop /\ ~isCompressed(job.image) /\ Flashing(FileReady(job, stop), job)
  <1>1. CASE isCompressed(job.image)
    <2> DEFINE r == [job EXCEPT !.stage = "unpack"]
    <2>1. r \in Jobs /\ r.stage = "unpack" /\ r.target = job.target /\ r.image = job.image
          /\ r.confirmed = job.confirmed /\ r.stale = job.stale /\ r.parts = job.parts
      BY DEF Jobs
    <2>2. FileReady(job, stop) = r
      BY <1>1 DEF FileReady
    <2> HIDE DEF r
    <2> QED BY <1>1, <2>1, <2>2 DEF Unpacking, JobOK
  <1>2. CASE ~isCompressed(job.image) /\ job.flashAfter
    BY <1>2, FlashImageFacts DEF FileReady
  <1>3. CASE ~isCompressed(job.image) /\ ~job.flashAfter
    BY <1>3 DEF FileReady
  <1> QED BY <1>1, <1>2, <1>3

\* The new pipeline, before and after the first thing done for it.
LEMMA NewJobFacts ==
  ASSUME LTypeOK, NEW after \in BOOLEAN
  PROVE  /\ NewJob(after) \in Jobs /\ NewJob(after).stage = "download" /\ NewJob(after).image = selected
         /\ NewJob(after).confirmed = box /\ NewJob(after).target = NoDrive /\ NewJob(after).parts = 0
         /\ NewJob(after).stale = (box # [image |-> selected, target |-> combo])
         /\ selected \notin Local => JobOK(NewJob(after))
  <1>1. selected \in Images /\ box \in Named
    BY DEF LTypeOK
  <1> DEFINE old == (box # [image |-> selected, target |-> combo])
  <1>2. NewJob(after) = [NoJob EXCEPT !.stage = "download", !.image = selected, !.flashAfter = after,
                                      !.confirmed = box, !.stale = old]
    BY DEF NewJob
  <1>3. old \in BOOLEAN
    OBVIOUS
  <1> HIDE DEF old
  <1>4. /\ NewJob(after) \in Jobs /\ NewJob(after).stage = "download" /\ NewJob(after).image = selected
        /\ NewJob(after).confirmed = box /\ NewJob(after).target = NoDrive /\ NewJob(after).parts = 0
        /\ NewJob(after).stale = old
    <2>1. NoJob \in Jobs /\ NoJob.target = NoDrive /\ NoJob.parts = 0
      BY EndedFacts DEF NoJob
    <2>2. NewJob(after) \in Jobs
      BY <1>1, <1>2, <1>3, <2>1 DEF Jobs
    <2>3. NewJob(after).stage = "download" /\ NewJob(after).image = selected
          /\ NewJob(after).confirmed = box /\ NewJob(after).stale = old
      BY <1>2, <2>1 DEF Jobs
    <2>4. NewJob(after).target = NoDrive /\ NewJob(after).parts = 0
      BY <1>2, <2>1 DEF Jobs
    <2> QED BY <2>2, <2>3, <2>4
  <1>5. selected \notin Local => JobOK(NewJob(after))
    BY <1>1, <1>4 DEF JobOK
  <1> QED BY <1>4, <1>5 DEF old

\* What startPipeline() makes of a new job.
LEMMA StartedFacts ==
  ASSUME LTypeOK, NEW after \in BOOLEAN
  PROVE  /\ Started(after) \in Jobs /\ JobOK(Started(after)) /\ Started(after).stage # "none"
         /\ Started(after).stage = "download" <=> selected \notin Local
         /\ \/ Started(after) = Ended
            \/ selected \notin Local /\ Started(after) = NewJob(after)
            \/ /\ selected \in Local /\ files[selected] # <<>>
               /\ \/ Unpacking(Started(after), NewJob(after))
                  \/ ~isCompressed(selected) /\ Flashing(Started(after), NewJob(after))
  <1>1. NewJob(after) \in Jobs /\ NewJob(after).image = selected /\ selected \in Images
    BY NewJobFacts DEF LTypeOK
  <1>2. CASE selected \notin Local
    BY <1>2, NewJobFacts DEF Started
  <1>3. CASE selected \in Local /\ files[selected] = <<>>
    BY <1>3, EndedFacts DEF Started
  <1>4. CASE selected \in Local /\ files[selected] # <<>>
    <2>1. Started(after) = FileReady(NewJob(after), FALSE)
      BY <1>4 DEF Started
    <2>2. \/ Started(after) = Ended
          \/ Unpacking(Started(after), NewJob(after))
          \/ ~isCompressed(selected) /\ Flashing(Started(after), NewJob(after))
      BY <1>1, <2>1, FileReadyFacts
    <2> QED BY <1>4, <2>2, EndedFacts DEF Unpacking, Flashing
  <1> QED BY <1>2, <1>3, <1>4

-----------------------------------------------------------------------------
(* Types                                                                   *)

\* The types hold in the beginning.
LEMMA LInitType == LInit => LTypeOK
  <1> SUFFICES ASSUME LInit PROVE LTypeOK
    OBVIOUS
  <1>1. PICK c \in Catalogs : format = c.format /\ files = c.files
    BY DEF LInit
  <1>2. format \in [Images -> Formats] /\ files \in [Images -> Seq(Nat)]
    BY <1>1, FlasherAssumption
  <1>3. \A j \in JobIds : jobs[j] = NoJob
    BY DEF LInit
  <1>4. jobs \in [JobIds -> Jobs] /\ \A j \in JobIds : JobOK(jobs[j]) /\ jobs[j].stage = "none"
    BY <1>3, EndedFacts DEF LInit
  <1>5. loading \in [job : {0} \cup JobIds, resume : Nat, received : Nat] /\ loading.job = 0
    BY DEF LInit, NotLoading
  <1>6. unpacked \in [Images -> Seq(Nat)] /\ drive \in [Drives -> Seq(Nat)]
    BY DEF LInit
  <1>7. /\ selected \in Images /\ combo \in present \cup {NoDrive} /\ present \subseteq Drives /\ box \in Named
    BY EndedFacts DEF LInit
  <1>8. running \in BOOLEAN /\ cancelled \in BOOLEAN /\ ~(running /\ cancelled)
    BY DEF LInit
  <1> QED BY <1>2, <1>4, <1>5, <1>6, <1>7, <1>8, JobIdsPositive DEF LTypeOK

\* One job changes.
LEMMA JobTypes ==
  ASSUME LTypeOK, NEW j \in JobIds, NEW r \in Jobs, jobs' = [jobs EXCEPT ![j] = r], UNCHANGED format, JobOK(r),
         r.stage = "download" <=> loading'.job = j,
         \A k \in JobIds \ {j} : loading'.job = k <=> loading.job = k
  PROVE  /\ jobs' \in [JobIds -> Jobs]
         /\ \A k \in JobIds : JobOK(jobs[k])' /\ (jobs'[k].stage = "download" <=> loading'.job = k)
  <1>1. jobs \in [JobIds -> Jobs]
    BY DEF LTypeOK
  <1>2. jobs'[j] = r /\ \A k \in JobIds \ {j} : jobs'[k] = jobs[k]
    BY <1>1
  <1>3. JobOK(jobs[j])'
    BY <1>2 DEF JobOK, isCompressed
  <1>4. \A k \in JobIds \ {j} : JobOK(jobs[k])'
    BY <1>2 DEF LTypeOK, JobOK, isCompressed
  <1>5. \A k \in JobIds : jobs'[k].stage = "download" <=> loading'.job = k
    BY <1>2 DEF LTypeOK
  <1> QED BY <1>1, <1>3, <1>4, <1>5

\* Only the marks of the jobs change.
LEMMA StaleFacts ==
  ASSUME LTypeOK, jobs' \in {jobs, Stale}, UNCHANGED <<format, loading>>
  PROVE  /\ jobs' \in [JobIds -> Jobs]
         /\ \A k \in JobIds : /\ jobs'[k].stage = jobs[k].stage /\ jobs'[k].image = jobs[k].image
                              /\ jobs'[k].target = jobs[k].target /\ jobs'[k].confirmed = jobs[k].confirmed
                              /\ jobs'[k].parts = jobs[k].parts /\ jobs'[k].result = jobs[k].result
                              /\ jobs'[k].stale = jobs[k].stale \/ jobs'[k].stale = Active(k)
         /\ \A k \in JobIds : JobOK(jobs[k])' /\ (jobs'[k].stage = "download" <=> loading'.job = k)
  <1>1. jobs \in [JobIds -> Jobs]
    BY DEF LTypeOK
  <1>2. CASE jobs' = jobs
    <2>1. \A k \in JobIds : JobOK(jobs[k])'
      BY <1>2 DEF LTypeOK, JobOK, isCompressed
    <2> QED BY <1>1, <1>2, <2>1 DEF LTypeOK
  <1>3. CASE jobs' = Stale
    <2>1. \A k \in JobIds : jobs'[k] = [jobs[k] EXCEPT !.stale = Active(k)] /\ Active(k) \in BOOLEAN
      BY <1>3 DEF Stale, Active
    <2>2. \A k \in JobIds : jobs[k] \in Jobs
      BY <1>1
    <2>3. \A k \in JobIds :
            /\ jobs'[k] \in Jobs /\ jobs'[k].stage = jobs[k].stage /\ jobs'[k].image = jobs[k].image
            /\ jobs'[k].target = jobs[k].target /\ jobs'[k].confirmed = jobs[k].confirmed
            /\ jobs'[k].parts = jobs[k].parts /\ jobs'[k].result = jobs[k].result
            /\ jobs'[k].stale = Active(k)
      <3> SUFFICES ASSUME NEW k \in JobIds, NEW b \in BOOLEAN, NEW r \in Jobs, b = Active(k), r = jobs[k],
                          jobs'[k] = [r EXCEPT !.stale = b]
                   PROVE  /\ jobs'[k] \in Jobs /\ jobs'[k].stage = r.stage /\ jobs'[k].image = r.image
                          /\ jobs'[k].target = r.target /\ jobs'[k].confirmed = r.confirmed
                          /\ jobs'[k].parts = r.parts /\ jobs'[k].result = r.result
                          /\ jobs'[k].stale = b
        BY <2>1, <2>2
      <3> QED BY DEF Jobs
    <2>4. jobs' \in [JobIds -> Jobs]
      BY <1>3, <2>3 DEF Stale
    <2>5. \A k \in JobIds : JobOK(jobs[k])'
      BY <2>3 DEF LTypeOK, JobOK, isCompressed
    <2> QED BY <2>3, <2>4, <2>5 DEF LTypeOK
  <1> QED BY <1>2, <1>3

\* What the window's own handlers change beside the marks is of little account.
LEMMA QuietType ==
  ASSUME LTypeOK, UNCHANGED format,
         \/ \E now \in SUBSET Drives : refreshDisks(now)
         \/ \E i \in Images : onCatalogUpdated(i)
         \/ Choose \/ onDownloadAndFlash \/ AnswerNo
  PROVE  LTypeOK'
  <1>1. jobs' \in {jobs, Stale} /\ UNCHANGED <<format, loading, files, unpacked, drive, running, cancelled>>
    BY DEF refreshDisks, onCatalogUpdated, Choose, onDownloadAndFlash, AnswerNo
  <1>2. /\ jobs' \in [JobIds -> Jobs]
        /\ \A k \in JobIds : JobOK(jobs[k])' /\ (jobs'[k].stage = "download" <=> loading'.job = k)
        /\ \A k \in JobIds : jobs'[k].image = jobs[k].image
    BY <1>1, StaleFacts
  <1>3. selected' \in Images /\ combo' \in present' \cup {NoDrive} /\ present' \subseteq Drives
    BY DEF LTypeOK, refreshDisks, onCatalogUpdated, Choose, onDownloadAndFlash, AnswerNo
  <1>4. box' \in Named
    <2>1. [image |-> selected, target |-> combo] \in Named
      BY DEF LTypeOK, Named
    <2> QED BY <2>1, EndedFacts DEF LTypeOK, refreshDisks, onCatalogUpdated, Choose, onDownloadAndFlash, AnswerNo
  <1>5. (loading.job # 0 => loading.resume <= Len(files[File]))'
    BY <1>1, <1>2 DEF LTypeOK, File
  <1> QED BY <1>1, <1>2, <1>3, <1>4, <1>5 DEF LTypeOK

\* What becomes of the jobs when a pipeline is started.
LEMMA StartType ==
  ASSUME LTypeOK, NEW after \in BOOLEAN, startPipeline(after), UNCHANGED <<format, files>>
  PROVE  /\ jobs' \in [JobIds -> Jobs] /\ loading' \in [job : {0} \cup JobIds, resume : Nat, received : Nat]
         /\ \A k \in JobIds : JobOK(jobs[k])' /\ (jobs'[k].stage = "download" <=> loading'.job = k)
         /\ (loading.job # 0 => loading.resume <= Len(files[File]))'
         /\ running' \in BOOLEAN /\ cancelled' = FALSE
  <1>0. NextJob \in JobIds /\ jobs[NextJob].stage = "none"
    BY NextJobFree DEF startPipeline
  <1>1. jobs \in [JobIds -> Jobs] /\ loading \in [job : {0} \cup JobIds, resume : Nat, received : Nat]
    BY DEF LTypeOK
  <1>2. loading.job # NextJob
    BY <1>0 DEF LTypeOK
  <1>3. running' \in BOOLEAN /\ cancelled' = FALSE
    BY DEF startPipeline
  <1>4. CASE loading.job # 0 /\ selected \notin Local
    <2>01. PICK j \in JobIds : j = NextJob
      BY <1>0
    <2>02. PICK k \in JobIds : k = loading.job
      BY <1>1, <1>4
    <2> DEFINE mid == [jobs EXCEPT ![j] = Ended]
               r == [mid[k] EXCEPT !.flashAfter = after]
    <2>1. jobs' = [mid EXCEPT ![k] = r] /\ loading' = loading
      BY <1>4, <2>01, <2>02 DEF startPipeline
    <2>2. k \in JobIds /\ jobs[k].stage = "download" /\ k # j /\ JobOK(jobs[k])
      BY <1>1, <1>2, <1>4, <2>01, <2>02 DEF LTypeOK
    <2>3. mid \in [JobIds -> Jobs] /\ mid[k] = jobs[k] /\ mid[j] = Ended
      BY <1>0, <1>1, <2>2, EndedFacts
    <2>4. r \in Jobs /\ r.stage = "download" /\ r.image = jobs[k].image /\ r.target = jobs[k].target
      BY <1>1, <2>2, <2>3 DEF Jobs
    <2> HIDE DEF r, mid
    <2>5. JobOK(r)
      BY <2>2, <2>4 DEF JobOK
    <2>6. jobs' \in [JobIds -> Jobs] /\ jobs'[k] = r /\ jobs'[j] = Ended
          /\ \A i \in JobIds \ {j, k} : jobs'[i] = jobs[i]
      BY <1>0, <1>1, <2>1, <2>2, <2>3, <2>4 DEF mid
    <2>7. \A i \in JobIds : JobOK(jobs[i])'
      <3>1. JobOK(jobs[k])' /\ JobOK(jobs[j])'
        BY <2>5, <2>6, EndedFacts DEF JobOK, isCompressed
      <3>2. \A i \in JobIds \ {j, k} : JobOK(jobs[i])'
        BY <2>6 DEF LTypeOK, JobOK, isCompressed
      <3> QED BY <3>1, <3>2
    <2>8. \A i \in JobIds : jobs'[i].stage = "download" <=> loading'.job = i
      <3>1. loading'.job = k /\ jobs'[k].stage = "download" /\ jobs'[j].stage = "end"
        BY <2>1, <2>4, <2>6, <2>02, EndedFacts
      <3>2. \A i \in JobIds \ {j, k} : jobs'[i].stage = "download" <=> loading.job = i
        BY <2>6 DEF LTypeOK
      <3> QED BY <2>1, <2>2, <3>1, <3>2
    <2>9. (loading.job # 0 => loading.resume <= Len(files[File]))'
      BY <2>1, <2>2, <2>4, <2>6, <2>02 DEF LTypeOK, File
    <2> QED BY <1>1, <1>3, <2>1, <2>6, <2>7, <2>8, <2>9
  <1>5. CASE ~(loading.job # 0 /\ selected \notin Local)
    <2>1. jobs' = [jobs EXCEPT ![NextJob] = Started(after)]
          /\ loading' = IF selected \in Local THEN loading ELSE startDownload(NextJob, selected)
      BY <1>5 DEF startPipeline
    <2>2. Started(after) \in Jobs /\ JobOK(Started(after)) /\ (Started(after).stage = "download" <=> selected \notin Local)
      BY StartedFacts
    <2>3. Len(files[selected]) \in Nat
      BY DEF LTypeOK
    <2>4. loading' \in [job : {0} \cup JobIds, resume : Nat, received : Nat]
      BY <1>0, <1>1, <2>1, <2>3 DEF startDownload
    <2>5. Started(after).stage = "download" <=> loading'.job = NextJob
      BY <1>2, <2>1, <2>2 DEF startDownload
    <2>6. \A k \in JobIds \ {NextJob} : loading'.job = k <=> loading.job = k
      BY <1>5, <2>1, JobIdsPositive DEF startDownload
    <2>7. /\ jobs' \in [JobIds -> Jobs]
          /\ \A k \in JobIds : JobOK(jobs[k])' /\ (jobs'[k].stage = "download" <=> loading'.job = k)
      BY <1>0, <2>1, <2>2, <2>5, <2>6, JobTypes
    <2>8. (loading.job # 0 => loading.resume <= Len(files[File]))'
      <3>1. CASE selected \in Local
        <4>1. loading' = loading
          BY <2>1, <3>1
        <4>2. loading.job # 0 => jobs'[loading.job] = jobs[loading.job]
          BY <1>0, <1>1, <1>2, <2>1
        <4> QED BY <4>1, <4>2 DEF LTypeOK, File
      <3>2. CASE selected \notin Local
        <4>1. loading'.job = NextJob /\ loading'.resume = Len(files[selected])
          BY <2>1, <3>2 DEF startDownload
        <4>2. jobs'[NextJob].image = selected
          BY <1>0, <1>1, <2>1, <3>2, NewJobFacts DEF Started
        <4> QED BY <2>3, <4>1, <4>2 DEF File
      <3> QED BY <3>1, <3>2
    <2> QED BY <1>3, <2>4, <2>7, <2>8
  <1> QED BY <1>4, <1>5

\* Answering the box keeps the types.
LEMMA AnswerType ==
  ASSUME LTypeOK, UNCHANGED format, AnswerYes \/ onDownloadOnly
  PROVE  LTypeOK'
  <1>1. UNCHANGED <<format, files, unpacked, drive, selected, combo, present>> /\ box' \in {box, NoBox}
    BY DEF AnswerYes, onDownloadOnly
  <1>2. \E after \in BOOLEAN : startPipeline(after)
    BY DEF AnswerYes, onDownloadOnly
  <1>3. /\ jobs' \in [JobIds -> Jobs] /\ loading' \in [job : {0} \cup JobIds, resume : Nat, received : Nat]
        /\ \A k \in JobIds : JobOK(jobs[k])' /\ (jobs'[k].stage = "download" <=> loading'.job = k)
        /\ (loading.job # 0 => loading.resume <= Len(files[File]))'
        /\ running' \in BOOLEAN /\ cancelled' = FALSE
    BY <1>1, <1>2, StartType
  <1> QED BY <1>1, <1>3, EndedFacts DEF LTypeOK

\* A job that is not loading, or is no more, changes.
LEMMA StepType ==
  ASSUME LTypeOK, NEW j \in JobIds, NEW r \in Jobs, jobs' = [jobs EXCEPT ![j] = r], JobOK(r), r.stage # "download",
         UNCHANGED <<format, selected, combo, present, box, files>>,
         \/ loading' = loading /\ jobs[j].stage # "download"
         \/ loading' = NotLoading /\ loading.job = j,
         unpacked' \in [Images -> Seq(Nat)], drive' \in [Drives -> Seq(Nat)],
         running' \in BOOLEAN, cancelled' \in BOOLEAN, ~(running' /\ cancelled')
  PROVE  LTypeOK'
  <1>1. loading' \in [job : {0} \cup JobIds, resume : Nat, received : Nat] /\ loading'.job # j
        /\ \A k \in JobIds \ {j} : loading'.job = k <=> loading.job = k
    BY JobIdsPositive DEF LTypeOK, NotLoading
  <1>2. /\ jobs' \in [JobIds -> Jobs]
        /\ \A k \in JobIds : JobOK(jobs[k])' /\ (jobs'[k].stage = "download" <=> loading'.job = k)
    BY <1>1, JobTypes
  <1>3. (loading.job # 0 => loading.resume <= Len(files[File]))'
    <2>1. CASE loading' = loading /\ jobs[j].stage # "download"
      <3>1. loading.job # 0 => jobs'[loading.job] = jobs[loading.job]
        BY <2>1 DEF LTypeOK
      <3> QED BY <2>1, <3>1 DEF LTypeOK, File
    <2>2. CASE loading' = NotLoading
      BY <2>2 DEF NotLoading
    <2> QED BY <2>1, <2>2
  <1> QED BY <1>1, <1>2, <1>3 DEF LTypeOK

\* The job that is loading, and its file.
LEMMA LoadingFacts ==
  ASSUME LTypeOK, loading.job # 0
  PROVE  /\ loading.job \in JobIds /\ jobs[loading.job] \in Jobs /\ jobs[loading.job].stage = "download"
         /\ File \in Images /\ File \notin Local /\ files[File] \in Seq(Nat) /\ Len(files[File]) \in Nat
         /\ loading.resume \in Nat /\ loading.received \in Nat /\ loading.resume <= Len(files[File])
  <1>1. loading.job \in JobIds /\ loading.resume \in Nat /\ loading.received \in Nat
        /\ loading.resume <= Len(files[File])
    BY DEF LTypeOK
  <1>2. jobs[loading.job] \in Jobs /\ jobs[loading.job].stage = "download" /\ JobOK(jobs[loading.job])
    BY <1>1 DEF LTypeOK
  <1>3. File \in Images /\ File \notin Local
    BY <1>2 DEF JobOK, File
  <1>4. files[File] \in Seq(Nat)
    BY <1>3 DEF LTypeOK
  <1>5. Len(files[File]) \in Nat
    BY <1>4
  <1> QED BY <1>1, <1>2, <1>3, <1>4, <1>5

\* Cancelling keeps the types.
LEMMA CancelType == ASSUME LTypeOK, UNCHANGED format, onCancel PROVE LTypeOK'
  <1>1. CASE loading.job = 0
    <2>1. UNCHANGED <<format, loading, jobs, selected, combo, present, box, files, unpacked, drive>>
          /\ running' = FALSE /\ cancelled' = TRUE
      BY <1>1 DEF onCancel, cancelDownload
    <2>2. \A k \in JobIds : JobOK(jobs[k])'
      BY <2>1 DEF LTypeOK, JobOK, isCompressed
    <2> QED BY <2>1, <2>2 DEF LTypeOK, File
  <1>2. CASE loading.job # 0
    <2>1. PICK j \in JobIds : j = loading.job
      BY <1>2, LoadingFacts
    <2>2. UNCHANGED <<format, selected, combo, present, box, files, unpacked, drive>> /\ running' = FALSE
          /\ cancelled' = TRUE /\ jobs' = [jobs EXCEPT ![j] = Ended] /\ loading' = NotLoading
      BY <1>2, <2>1 DEF onCancel, cancelDownload
    <2>3. unpacked' \in [Images -> Seq(Nat)] /\ drive' \in [Drives -> Seq(Nat)]
      BY <2>2 DEF LTypeOK
    <2> QED BY <2>1, <2>2, <2>3, EndedFacts, StepType
  <1> QED BY <1>1, <1>2

\* The reply's body is a sequence of parts.
LEMMA WholeFacts == Whole \in Seq(Nat) /\ Len(Whole) = Parts /\ \A n \in 1..Parts : Whole[n] = n
  BY FlasherAssumption DEF Whole

\* The server sends the rest of the image if it honours the range, else all of it.
LEMMA BodyFacts ==
  ASSUME LTypeOK, loading.job # 0
  PROVE  /\ Body \in Seq(Nat)
         /\ Honoured => Len(Body) = (IF loading.resume >= Parts THEN 0 ELSE Parts - loading.resume)
                        /\ \A n \in 1..Len(Body) : Body[n] = loading.resume + n
         /\ ~Honoured => Len(Body) = Parts /\ \A n \in 1..Len(Body) : Body[n] = n
  <1>1. loading.resume \in Nat /\ Parts \in Nat
    BY LoadingFacts, FlasherAssumption
  <1>2. CASE ~Honoured
    BY <1>2, WholeFacts DEF Body
  <1>3. CASE Honoured /\ loading.resume >= Parts
    <2>1. Body = <<>>
      BY <1>1, <1>3 DEF Body
    <2> QED BY <1>1, <1>3, <2>1
  <1>4. CASE Honoured /\ loading.resume < Parts
    <2>1. Body = SubSeq(Whole, loading.resume + 1, Parts)
      BY <1>4 DEF Body
    <2>2. \A n \in (loading.resume + 1)..Parts : Whole[n] = n /\ Whole[n] \in Nat
      BY <1>1, WholeFacts
    <2>3. /\ Body \in Seq(Nat) /\ Len(Body) = (IF loading.resume + 1 <= Parts THEN Parts - (loading.resume + 1) + 1 ELSE 0)
          /\ \A n \in 1..(Parts - (loading.resume + 1) + 1) : Body[n] = Whole[loading.resume + 1 + n - 1]
      <3>1. loading.resume + 1 \in Int /\ Parts \in Int
        BY <1>1
      <3> QED BY <2>1, <2>2, <3>1, SubSeqProperties
    <2>4. Len(Body) = Parts - loading.resume /\ \A n \in 1..Len(Body) : Body[n] = Whole[loading.resume + n]
      <3>1. Parts - (loading.resume + 1) + 1 = Parts - loading.resume /\ loading.resume + 1 <= Parts
        BY <1>1, <1>4
      <3>2. \A n \in 1..(Parts - loading.resume) : loading.resume + 1 + n - 1 = loading.resume + n
        BY <1>1
      <3> QED BY <2>3, <3>1, <3>2
    <2>5. \A n \in 1..Len(Body) : loading.resume + n \in (loading.resume + 1)..Parts
      BY <1>1, <1>4, <2>4
    <2>6. \A n \in 1..Len(Body) : Body[n] = loading.resume + n
      BY <2>2, <2>4, <2>5
    <2> QED BY <1>1, <1>4, <2>3, <2>4, <2>6
  <1> QED BY <1>1, <1>2, <1>3, <1>4

\* Storing what has arrived, or losing it, keeps the types.
LEMMA ReadyReadType == ASSUME LTypeOK, UNCHANGED format, onReadyRead PROVE LTypeOK'
  <1>1. loading.job # 0 /\ loading.received < Len(Body)
    BY DEF onReadyRead
  <1>2. UNCHANGED <<format, selected, combo, present, box, running, cancelled, unpacked, jobs, drive>>
        /\ loading' = [loading EXCEPT !.received = loading.received + 1]
    BY DEF onReadyRead
  <1>3. loading' \in [job : {0} \cup JobIds, resume : Nat, received : Nat]
        /\ loading'.job = loading.job /\ loading'.resume = loading.resume /\ File' = File
    <2>1. loading \in [job : {0} \cup JobIds, resume : Nat, received : Nat]
      BY DEF LTypeOK
    <2>2. loading.received + 1 \in Nat
      BY <2>1
    <2>3. loading' \in [job : {0} \cup JobIds, resume : Nat, received : Nat]
          /\ loading'.job = loading.job /\ loading'.resume = loading.resume
      BY <1>2, <2>1, <2>2
    <2> QED BY <1>2, <2>3 DEF File
  <1>4. \A k \in JobIds : JobOK(jobs[k])' /\ (jobs'[k].stage = "download" <=> loading'.job = k)
    BY <1>2, <1>3 DEF LTypeOK, JobOK, isCompressed
  <1>5. ASSUME files' \in [Images -> Seq(Nat)], loading'.resume <= Len(files'[File']) PROVE LTypeOK'
    BY <1>2, <1>3, <1>4, <1>5 DEF LTypeOK
  <1>6. CASE files' = files
    BY <1>1, <1>3, <1>5, <1>6, LoadingFacts DEF LTypeOK
  <1>7. CASE files' = [files EXCEPT ![File] = Append(files[File], Body[loading.received + 1])]
    <2>1. Body[loading.received + 1] \in Nat
      BY <1>1, LoadingFacts, BodyFacts
    <2>2. Append(files[File], Body[loading.received + 1]) \in Seq(Nat)
          /\ Len(Append(files[File], Body[loading.received + 1])) = Len(files[File]) + 1
      BY <1>1, <2>1, LoadingFacts
    <2>3. files' \in [Images -> Seq(Nat)] /\ files'[File] = Append(files[File], Body[loading.received + 1])
      BY <1>1, <1>7, <2>2, LoadingFacts DEF LTypeOK
    <2>4. loading'.resume <= Len(files'[File'])
      BY <1>1, <1>3, <2>2, <2>3, LoadingFacts
    <2> QED BY <1>5, <2>3, <2>4
  <1> QED BY <1>6, <1>7 DEF onReadyRead

\* What the network does keeps the types.
LEMMA NetworkType == ASSUME LTypeOK, UNCHANGED format, Network PROVE LTypeOK'
  <1>1. CASE onReadyRead
    BY <1>1, ReadyReadType
  <1>2. ASSUME DownloadError \/ downloadComplete
        PROVE  LTypeOK'
    <2>0. loading.job # 0
      BY <1>2 DEF DownloadError, downloadComplete
    <2>1. PICK j \in JobIds : j = loading.job
      BY <2>0, LoadingFacts
    <2>2. UNCHANGED <<selected, combo, present, box, files, unpacked, drive, cancelled>> /\ loading' = NotLoading
      BY <1>2 DEF DownloadError, downloadComplete
    <2>3. PICK r \in {Ended, FileReady(jobs[j], cancelled)} :
            jobs' = [jobs EXCEPT ![j] = r] /\ running' \in {FALSE, running /\ r.stage # "end"}
      BY <1>2, <2>1 DEF DownloadError, downloadComplete, Becomes
    <2>4. r \in Jobs /\ JobOK(r) /\ r.stage # "download"
      <3>1. jobs[j] \in Jobs /\ jobs[j].image \in Images /\ cancelled \in BOOLEAN
        BY <2>0, <2>1, LoadingFacts DEF File, LTypeOK
      <3>2. \/ r = Ended
            \/ Unpacking(r, jobs[j])
            \/ Flashing(r, jobs[j])
        BY <3>1, FileReadyFacts
      <3> QED BY <3>2, EndedFacts DEF Unpacking, Flashing
    <2>5. running' \in BOOLEAN /\ cancelled' \in BOOLEAN /\ ~(running' /\ cancelled')
      BY <2>2, <2>3 DEF LTypeOK
    <2>6. unpacked' \in [Images -> Seq(Nat)] /\ drive' \in [Drives -> Seq(Nat)]
      BY <2>2 DEF LTypeOK
    <2> QED BY <2>1, <2>2, <2>3, <2>4, <2>5, <2>6, StepType
  <1> QED BY <1>1, <1>2 DEF Network

\* What comes of a compressed file is the file up to the end of its stream.
LEMMA FirstFacts ==
  ASSUME NEW f \in Seq(Nat)
  PROVE  First(f) \in Seq(Nat) /\ (Len(f) = Parts => First(f) = f)
  <1>1. Parts \in Nat /\ Len(f) \in Nat
    BY FlasherAssumption
  <1>2. CASE Len(f) > Parts
    <2>1. \A i \in 1..Parts : f[i] \in Nat
      BY <1>1, <1>2, ElementOfSeq
    <2>2. SubSeq(f, 1, Parts) \in Seq(Nat)
      BY <1>1, <2>1, SubSeqProperties
    <2> QED BY <1>1, <1>2, <2>2 DEF First
  <1>3. CASE ~(Len(f) > Parts)
    BY <1>1, <1>3 DEF First
  <1> QED BY <1>2, <1>3

\* Every unpacker takes the first image of the file.
LEMMA UnpackedOut ==
  ASSUME LTypeOK, NEW i \in Images, isCompressed(i)
  PROVE  decompressAuto(i).out = First(files[i])
  <1>1. format[i] \in {"gz", "xz", "zip", "7z"}
    BY DEF LTypeOK, isCompressed, Formats
  <1> QED BY <1>1 DEF decompressAuto, decompressGz, decompressXz, decompressZip, extract

\* A part is put in its place and nothing else changes.
LEMMA PutFacts ==
  ASSUME NEW d \in Seq(Nat), NEW at \in Nat \ {0}, NEW p \in Nat
  PROVE  /\ Put(d, at, p) \in Seq(Nat) /\ Len(Put(d, at, p)) >= at /\ Len(Put(d, at, p)) >= Len(d)
         /\ Put(d, at, p)[at] = p
         /\ \A n \in 1..Len(d) : n # at => Put(d, at, p)[n] = d[n]
  <1> DEFINE m == IF at > Len(d) THEN at ELSE Len(d)
             e(i) == IF i = at THEN p ELSE IF i <= Len(d) THEN d[i] ELSE 0
  <1>1. m \in Nat /\ m >= at /\ m >= Len(d) /\ Len(d) \in Nat
    OBVIOUS
  <1>2. Put(d, at, p) = [i \in 1..m |-> e(i)]
    BY DEF Put
  <1>3. \A i \in 1..m : e(i) \in Nat
    <2> TAKE i \in 1..m
    <2>1. i <= Len(d) => d[i] \in Nat
      BY <1>1, ElementOfSeq
    <2> QED BY <2>1
  <1>4. e(at) = p /\ \A n \in 1..Len(d) : n # at => e(n) = d[n]
    BY <1>1
  <1> HIDE DEF m, e
  <1>5. Put(d, at, p) \in Seq(Nat) /\ Len(Put(d, at, p)) = m
    BY <1>1, <1>2, <1>3
  <1> QED BY <1>1, <1>2, <1>4, <1>5

\* A job's thread has an image, and what it flashes is a sequence of parts.
LEMMA ThreadFacts ==
  ASSUME LTypeOK, NEW j \in JobIds, Active(j)
  PROVE  /\ jobs[j] \in Jobs /\ JobOK(jobs[j]) /\ jobs[j].image \in Images
         /\ Source(j) \in Seq(Nat) /\ Len(Source(j)) \in Nat /\ jobs[j].parts \in Nat
  <1>1. jobs[j] \in Jobs /\ JobOK(jobs[j])
    BY DEF LTypeOK
  <1>2. jobs[j].image \in Images /\ jobs[j].parts \in Nat
    BY <1>1 DEF JobOK, Active, Jobs
  <1>3. Source(j) \in Seq(Nat)
    BY <1>2 DEF LTypeOK, Source
  <1> QED BY <1>1, <1>2, <1>3

\* A step of a thread keeps the types.
LEMMA ThreadType ==
  ASSUME LTypeOK, UNCHANGED format, NEW j \in JobIds, Thread(j)
  PROVE  LTypeOK'
  <1>1. Active(j) /\ jobs[j].stage \in {"unpack", "flash"}
    BY DEF Thread, UnpackEnds, UnpackFails, FlashPart, FlashDone, FlashFails, Active
  <1>2. /\ jobs[j] \in Jobs /\ JobOK(jobs[j]) /\ jobs[j].image \in Images
        /\ Source(j) \in Seq(Nat) /\ Len(Source(j)) \in Nat /\ jobs[j].parts \in Nat
    BY <1>1, ThreadFacts
  <1>3. UNCHANGED <<selected, combo, present, box, files, loading, running, cancelled>>
    BY DEF Thread, UnpackEnds, UnpackFails, FlashPart, FlashDone, FlashFails
  <1>4. running' \in BOOLEAN /\ cancelled' \in BOOLEAN /\ ~(running' /\ cancelled')
    BY <1>3 DEF LTypeOK
  <1>5. unpacked \in [Images -> Seq(Nat)] /\ drive \in [Drives -> Seq(Nat)]
    BY DEF LTypeOK
  <1>6. ASSUME NEW st \in {"posted", "failed"}, jobs[j].stage = "unpack",
               jobs' \in {[jobs EXCEPT ![j] = Ended], [jobs EXCEPT ![j] = [@ EXCEPT !.stage = st]]},
               NEW f \in Seq(Nat), unpacked' = [unpacked EXCEPT ![jobs[j].image] = f], UNCHANGED drive
        PROVE  LTypeOK'
    <2> DEFINE w == [jobs[j] EXCEPT !.stage = st]
    <2>1. w \in Jobs /\ w.stage = st /\ w.image = jobs[j].image /\ w.target = jobs[j].target
      BY <1>2 DEF Jobs
    <2>2. jobs' = [jobs EXCEPT ![j] = Ended] \/ jobs' = [jobs EXCEPT ![j] = w]
      BY <1>6
    <2> HIDE DEF w
    <2>3. JobOK(w) /\ w.stage # "download"
      BY <1>2, <1>6, <2>1 DEF JobOK
    <2>4. unpacked' \in [Images -> Seq(Nat)] /\ drive' \in [Drives -> Seq(Nat)]
      BY <1>5, <1>6
    <2> QED BY <1>1, <1>3, <1>4, <2>1, <2>2, <2>3, <2>4, EndedFacts, StepType
  <1>7. CASE UnpackEnds(j)
    <2>1. decompressAuto(jobs[j].image).out \in Seq(Nat)
      <3>1. isCompressed(jobs[j].image) /\ files[jobs[j].image] \in Seq(Nat)
        BY <1>2, <1>7 DEF UnpackEnds, JobOK, LTypeOK
      <3> QED BY <1>2, <3>1, FirstFacts, UnpackedOut
    <2> QED BY <1>6, <1>7, <2>1 DEF UnpackEnds
  <1>8. CASE UnpackFails(j)
    <2>1. PICK left \in {unpacked[jobs[j].image], <<>>, First(files[jobs[j].image])} :
            unpacked' = [unpacked EXCEPT ![jobs[j].image] = left]
      BY <1>8 DEF UnpackFails
    <2>2. unpacked[jobs[j].image] \in Seq(Nat) /\ files[jobs[j].image] \in Seq(Nat)
      BY <1>2 DEF LTypeOK
    <2>3. left \in Seq(Nat)
      <3>1. First(files[jobs[j].image]) \in Seq(Nat) /\ <<>> \in Seq(Nat)
        BY <2>2, FirstFacts
      <3> QED BY <2>2, <3>1
    <2>4. jobs' \in {[jobs EXCEPT ![j] = Ended], [jobs EXCEPT ![j] = [@ EXCEPT !.stage = "failed"]]}
      BY <1>8 DEF UnpackFails
    <2> QED BY <1>6, <1>8, <2>1, <2>3, <2>4 DEF UnpackFails
  <1>9. ASSUME NEW r \in Jobs, jobs[j].stage = "flash", jobs' = [jobs EXCEPT ![j] = r], r.stage \in {"flash", "flashed"},
               r.image = jobs[j].image, r.target = jobs[j].target, UNCHANGED unpacked, drive' \in [Drives -> Seq(Nat)]
        PROVE  LTypeOK'
    <2>1. JobOK(r) /\ r.stage # "download"
      BY <1>2, <1>9 DEF JobOK
    <2>2. unpacked' \in [Images -> Seq(Nat)]
      BY <1>5, <1>9
    <2> QED BY <1>1, <1>3, <1>4, <1>9, <2>1, <2>2, StepType
  <1>10. CASE FlashPart(j)
    <2> DEFINE at == jobs[j].parts + 1
               r == [jobs[j] EXCEPT !.parts = at]
    <2>1. at \in 1..Len(Source(j)) /\ at \in Nat \ {0}
      BY <1>2, <1>10 DEF FlashPart
    <2>2. Source(j)[at] \in Nat
      BY <1>2, <2>1, ElementOfSeq
    <2>3. jobs[j].target \in Drives /\ jobs[j].stage = "flash"
      BY <1>2, <1>10 DEF FlashPart, JobOK
    <2>4. drive' = [drive EXCEPT ![jobs[j].target] = Put(@, at, Source(j)[at])]
      BY <1>10 DEF FlashPart
    <2>5. Put(drive[jobs[j].target], at, Source(j)[at]) \in Seq(Nat)
      BY <1>5, <2>1, <2>2, <2>3, PutFacts
    <2>6. drive' \in [Drives -> Seq(Nat)]
      BY <1>5, <2>4, <2>5
    <2>7. r \in Jobs /\ r.stage = jobs[j].stage /\ r.image = jobs[j].image /\ r.target = jobs[j].target
      BY <1>2, <2>1 DEF Jobs
    <2>8. jobs' = [jobs EXCEPT ![j] = r] /\ UNCHANGED unpacked
      BY <1>10 DEF FlashPart
    <2> HIDE DEF r
    <2> QED BY <1>9, <2>3, <2>6, <2>7, <2>8
  <1>11. CASE FlashDone(j) \/ FlashFails(j)
    <2>1. PICK res \in {"ok", "error"} : jobs' = [jobs EXCEPT ![j].stage = "flashed", ![j].result = res]
      BY <1>11 DEF FlashDone, FlashFails
    <2> DEFINE w == [jobs[j] EXCEPT !.stage = "flashed"]
               r == [w EXCEPT !.result = res]
    <2>2. w \in Jobs /\ w.stage = "flashed" /\ w.image = jobs[j].image /\ w.target = jobs[j].target
      BY <1>2 DEF Jobs
    <2>3. r \in Jobs /\ r.stage = "flashed" /\ r.image = jobs[j].image /\ r.target = jobs[j].target
      BY <2>2 DEF Jobs
    <2>4. jobs' = [jobs EXCEPT ![j] = r]
      BY <2>1 DEF LTypeOK
    <2>5. drive' \in [Drives -> Seq(Nat)] /\ UNCHANGED unpacked /\ jobs[j].stage = "flash"
      BY <1>5, <1>11 DEF FlashDone, FlashFails
    <2> HIDE DEF r, w
    <2> QED BY <1>9, <2>3, <2>4, <2>5
  <1> QED BY <1>7, <1>8, <1>10, <1>11 DEF Thread

\* A queued call keeps the types.
LEMMA DeliveredType ==
  ASSUME LTypeOK, UNCHANGED format, NEW j \in JobIds, Delivered(j)
  PROVE  LTypeOK'
  <1>1. Active(j) /\ jobs[j].stage \in {"posted", "failed", "flashed"}
    BY DEF Delivered, UnpackDelivered, FailureDelivered, FlashDelivered, Active
  <1>2. jobs[j] \in Jobs /\ jobs[j].image \in Images /\ cancelled \in BOOLEAN
    BY <1>1, ThreadFacts DEF LTypeOK
  <1>3. UNCHANGED <<selected, combo, present, box, files, loading, cancelled, unpacked, drive>>
    BY DEF Delivered, UnpackDelivered, FailureDelivered, FlashDelivered
  <1>4. PICK r \in {Ended, flashImage(jobs[j], cancelled)} :
          jobs' = [jobs EXCEPT ![j] = r] /\ running' \in {running, running /\ r.stage # "end"}
    BY DEF Delivered, UnpackDelivered, FailureDelivered, FlashDelivered, Becomes
  <1>5. r \in Jobs /\ JobOK(r) /\ r.stage # "download"
    <2>1. r = Ended \/ Flashing(r, jobs[j])
      BY <1>2, FlashImageFacts
    <2> QED BY <2>1, EndedFacts DEF Flashing
  <1>6. running' \in BOOLEAN /\ cancelled' \in BOOLEAN /\ ~(running' /\ cancelled')
    BY <1>3, <1>4 DEF LTypeOK
  <1>7. unpacked' \in [Images -> Seq(Nat)] /\ drive' \in [Drives -> Seq(Nat)]
    BY <1>3 DEF LTypeOK
  <1> QED BY <1>1, <1>3, <1>4, <1>5, <1>6, <1>7, StepType

\* Every step keeps the types.
LEMMA LNextType == LTypeOK /\ [LNext]_<<lvars, format>> => LTypeOK'
  <1> SUFFICES ASSUME LTypeOK, [LNext]_<<lvars, format>> PROVE LTypeOK'
    OBVIOUS
  <1>1. CASE LNext
    BY <1>1, QuietType, AnswerType, CancelType, NetworkType, ThreadType, DeliveredType DEF LNext, Handler
  <1>2. CASE UNCHANGED <<lvars, format>>
    BY <1>2 DEF lvars, LTypeOK, JobOK, isCompressed, File
  <1> QED BY <1>1, <1>2

\* Every variable has its type; the job that is loading is in its download
\* stage and its file is not shorter than what was resumed; the target of a
\* flash is a drive; and a canceled tab shows its buttons.
THEOREM LTypeCorrect == LSpec => []LTypeOK
  BY LInitType, LNextType, PTL DEF LSpec

-----------------------------------------------------------------------------
(* What a step does to its job                                             *)

\* A thread, a delivered call or the end of a download moves one running job on:
\* it keeps what it is for, or ends; it gets the drive that the list shows, if
\* any; and after a cancel it does not begin to flash.
Moves(j, r) ==
  /\ Active(j) /\ jobs' = [jobs EXCEPT ![j] = r] /\ r \in Jobs /\ r.stage # "none"
  /\ r = Ended \/ /\ r.confirmed = jobs[j].confirmed /\ r.stale = jobs[j].stale /\ r.image = jobs[j].image
                  /\ r.target \in {jobs[j].target, combo}
  /\ UNCHANGED <<box, combo, cancelled, everCancelled>>
  /\ running' \in BOOLEAN /\ (running' => running)
  /\ ~cancelled => (running' <=> running /\ r.stage # "end")
  /\ cancelled /\ r.stage = "flash" => jobs[j].stage = "flash"

\* A step of a thread moves its own job only, and along the pipeline.
LEMMA ThreadMoves ==
  ASSUME LTypeOK, NEW j \in JobIds, Thread(j)
  PROVE  \E r \in Jobs : Moves(j, r)
  <1>1. Active(j) /\ UNCHANGED <<box, combo, cancelled, everCancelled, running>>
    BY DEF Thread, UnpackEnds, UnpackFails, FlashPart, FlashDone, FlashFails, Active
  <1>2. jobs[j] \in Jobs /\ running \in BOOLEAN
    BY <1>1, ThreadFacts DEF LTypeOK
  <1>3. ASSUME NEW r \in Jobs, jobs' = [jobs EXCEPT ![j] = r], r.stage \notin {"none", "end"},
               r.confirmed = jobs[j].confirmed, r.stale = jobs[j].stale, r.image = jobs[j].image,
               r.target = jobs[j].target, r.stage = "flash" => jobs[j].stage = "flash"
        PROVE  Moves(j, r)
    BY <1>1, <1>2, <1>3 DEF Moves
  <1>4. ASSUME NEW st \in {"posted", "failed"}, jobs' = [jobs EXCEPT ![j] = [@ EXCEPT !.stage = st]]
        PROVE  \E r \in Jobs : Moves(j, r)
    <2> DEFINE r == [jobs[j] EXCEPT !.stage = st]
    <2>1. /\ r \in Jobs /\ r.stage = st /\ r.confirmed = jobs[j].confirmed /\ r.stale = jobs[j].stale
          /\ r.image = jobs[j].image /\ r.target = jobs[j].target
      BY <1>2 DEF Jobs
    <2>2. jobs' = [jobs EXCEPT ![j] = r]
      BY <1>4
    <2> HIDE DEF r
    <2> QED BY <1>3, <2>1, <2>2
  <1>5. ASSUME cancelled, jobs' = [jobs EXCEPT ![j] = Ended]
        PROVE  \E r \in Jobs : Moves(j, r)
    BY <1>1, <1>2, <1>5, EndedFacts DEF Moves
  <1>6. CASE UnpackEnds(j)
    BY <1>4, <1>5, <1>6 DEF UnpackEnds
  <1>7. CASE UnpackFails(j)
    <2>1. \/ cancelled /\ jobs' = [jobs EXCEPT ![j] = Ended]
          \/ jobs' = [jobs EXCEPT ![j] = [@ EXCEPT !.stage = "failed"]]
      BY <1>7 DEF UnpackFails
    <2> QED BY <1>4, <1>5, <2>1
  <1>8. CASE FlashPart(j)
    <2> DEFINE r == [jobs[j] EXCEPT !.parts = jobs[j].parts + 1]
    <2>1. jobs[j].parts + 1 \in Nat
      BY <1>2 DEF Jobs
    <2>2. /\ r \in Jobs /\ r.stage = jobs[j].stage /\ r.confirmed = jobs[j].confirmed /\ r.stale = jobs[j].stale
          /\ r.image = jobs[j].image /\ r.target = jobs[j].target
      BY <1>2, <2>1 DEF Jobs
    <2>3. jobs' = [jobs EXCEPT ![j] = r] /\ jobs[j].stage = "flash"
      BY <1>8 DEF FlashPart
    <2> HIDE DEF r
    <2> QED BY <1>3, <2>2, <2>3
  <1>9. CASE FlashDone(j) \/ FlashFails(j)
    <2>1. PICK res \in {"ok", "error"} : jobs' = [jobs EXCEPT ![j].stage = "flashed", ![j].result = res]
      BY <1>9 DEF FlashDone, FlashFails
    <2> DEFINE w == [jobs[j] EXCEPT !.stage = "flashed"]
               r == [w EXCEPT !.result = res]
    <2>2. /\ w \in Jobs /\ w.stage = "flashed" /\ w.confirmed = jobs[j].confirmed /\ w.stale = jobs[j].stale
          /\ w.image = jobs[j].image /\ w.target = jobs[j].target
      BY <1>2 DEF Jobs
    <2>3. /\ r \in Jobs /\ r.stage = "flashed" /\ r.confirmed = jobs[j].confirmed /\ r.stale = jobs[j].stale
          /\ r.image = jobs[j].image /\ r.target = jobs[j].target
      BY <2>2 DEF Jobs
    <2>4. jobs' = [jobs EXCEPT ![j] = r]
      BY <2>1 DEF LTypeOK
    <2> HIDE DEF r, w
    <2> QED BY <1>3, <2>3, <2>4
  <1> QED BY <1>6, <1>7, <1>8, <1>9 DEF Thread

\* A job that is given the list's drive, or ends.
LEMMA FlashingMoves ==
  ASSUME LTypeOK, NEW j \in JobIds, Active(j), NEW r,
         r = Ended \/ Unpacking(r, jobs[j]) \/ (~cancelled /\ Flashing(r, jobs[j])),
         jobs' = [jobs EXCEPT ![j] = r], running' = (running /\ r.stage # "end"),
         UNCHANGED <<box, combo, cancelled, everCancelled>>
  PROVE  Moves(j, r)
  <1>1. running \in BOOLEAN
    BY DEF LTypeOK
  <1>2. CASE r = Ended
    BY <1>1, <1>2, EndedFacts DEF Moves
  <1>3. CASE Unpacking(r, jobs[j])
    BY <1>1, <1>3 DEF Moves, Unpacking
  <1>4. CASE ~cancelled /\ Flashing(r, jobs[j])
    BY <1>1, <1>4 DEF Moves, Flashing
  <1> QED BY <1>2, <1>3, <1>4

\* So does a queued call.
LEMMA DeliveredMoves ==
  ASSUME LTypeOK, NEW j \in JobIds, Delivered(j)
  PROVE  \E r \in Jobs : Moves(j, r)
  <1>1. Active(j) /\ UNCHANGED <<box, combo, cancelled, everCancelled>>
    BY DEF Delivered, UnpackDelivered, FailureDelivered, FlashDelivered, Active
  <1>2. jobs[j] \in Jobs /\ jobs[j].image \in Images /\ cancelled \in BOOLEAN /\ running \in BOOLEAN
    BY <1>1, ThreadFacts DEF LTypeOK
  <1>3. ASSUME NEW r \in {Ended, flashImage(jobs[j], cancelled)}, Becomes(j, r)
        PROVE  \E q \in Jobs : Moves(j, q)
    <2>1. r = Ended \/ (~cancelled /\ Flashing(r, jobs[j]))
      BY <1>2, FlashImageFacts
    <2>2. Moves(j, r)
      BY <1>1, <1>3, <2>1, FlashingMoves DEF Becomes
    <2> QED BY <2>2 DEF Moves
  <1>4. ASSUME cancelled, jobs' = [jobs EXCEPT ![j] = Ended], UNCHANGED running
        PROVE  \E q \in Jobs : Moves(j, q)
    BY <1>1, <1>2, <1>4, EndedFacts DEF Moves
  <1>5. CASE UnpackDelivered(j)
    BY <1>3, <1>4, <1>5 DEF UnpackDelivered
  <1>6. CASE FailureDelivered(j) \/ FlashDelivered(j)
    BY <1>3, <1>6 DEF FailureDelivered, FlashDelivered
  <1> QED BY <1>5, <1>6 DEF Delivered

\* So does an event of the network.
LEMMA NetworkMoves ==
  ASSUME LTypeOK, DownloadError \/ downloadComplete
  PROVE  \E j \in JobIds : \E r \in Jobs : Moves(j, r)
  <1>0. loading.job # 0
    BY DEF DownloadError, downloadComplete
  <1>1. PICK j \in JobIds : j = loading.job
    BY <1>0, LoadingFacts
  <1>2. jobs[j] \in Jobs /\ jobs[j].image \in Images /\ Active(j) /\ cancelled \in BOOLEAN /\ running \in BOOLEAN
    BY <1>0, <1>1, LoadingFacts DEF File, Active, LTypeOK
  <1>3. UNCHANGED <<box, combo, cancelled, everCancelled>>
    BY DEF DownloadError, downloadComplete
  <1>4. CASE DownloadError
    <2>1. jobs' = [jobs EXCEPT ![j] = Ended] /\ running' = FALSE
      BY <1>1, <1>4 DEF DownloadError
    <2> QED BY <1>2, <1>3, <2>1, EndedFacts DEF Moves
  <1>5. CASE downloadComplete
    <2> DEFINE r == FileReady(jobs[j], cancelled)
    <2>1. jobs' = [jobs EXCEPT ![j] = r] /\ running' = (running /\ r.stage # "end")
      BY <1>1, <1>5 DEF downloadComplete, Becomes
    <2>2. r = Ended \/ Unpacking(r, jobs[j]) \/ (~cancelled /\ Flashing(r, jobs[j]))
      BY <1>2, FileReadyFacts
    <2> HIDE DEF r
    <2>3. Moves(j, r)
      BY <1>2, <1>3, <2>1, <2>2, FlashingMoves
    <2> QED BY <2>3 DEF Moves
  <1> QED BY <1>4, <1>5

\* The handlers that start and stop nothing: if the drive shown changes, every
\* running job is marked.
QuietHandler ==
  \/ \E now \in SUBSET Drives : refreshDisks(now)
  \/ \E i \in Images : onCatalogUpdated(i)
  \/ Choose \/ onDownloadAndFlash \/ AnswerNo

\* What the user and the drives do beside the pipeline moves no job.
LEMMA QuietFacts ==
  ASSUME LTypeOK, UNCHANGED format, QuietHandler
  PROVE  /\ UNCHANGED <<running, cancelled, everCancelled, spoiled, files, unpacked, drive, loading>>
         /\ jobs' = Stale \/ (jobs' = jobs /\ combo' = combo)
         /\ box' \in {box, NoBox} \/ ~running
         /\ \A k \in JobIds : /\ jobs'[k].stage = jobs[k].stage /\ jobs'[k].image = jobs[k].image
                              /\ jobs'[k].target = jobs[k].target /\ jobs'[k].confirmed = jobs[k].confirmed
                              /\ jobs'[k].parts = jobs[k].parts /\ jobs'[k].result = jobs[k].result
  <1>1. /\ UNCHANGED <<running, cancelled, everCancelled, spoiled, files, unpacked, drive, loading>>
        /\ jobs' = Stale \/ (jobs' = jobs /\ combo' = combo)
        /\ box' \in {box, NoBox} \/ ~running
    BY DEF QuietHandler, refreshDisks, onCatalogUpdated, Choose, onDownloadAndFlash, AnswerNo
  <1> QED BY <1>1, StaleFacts

\* A pipeline is started in a free place; if the download is refused, it ends at
\* once.  The others go on as they are.
Starting(j, r, after) ==
  /\ jobs[j].stage = "none" /\ r \in Jobs /\ JobOK(r) /\ r.stage # "none" /\ jobs'[j] = r
  /\ running' = (r.stage # "end")
  /\ cancelled' = FALSE
  /\ \/ r = Ended /\ loading' = loading /\ loading.job # 0 /\ selected \notin Local
     \/ r = Started(after) /\ jobs' = [jobs EXCEPT ![j] = r]
        /\ loading' = (IF selected \in Local THEN loading ELSE startDownload(j, selected))
  /\ \A k \in JobIds \ {j} :
       /\ jobs'[k].stage = jobs[k].stage /\ jobs'[k].image = jobs[k].image
       /\ jobs'[k].target = jobs[k].target /\ jobs'[k].confirmed = jobs[k].confirmed
       /\ jobs'[k].stale = jobs[k].stale
       /\ jobs'[k].parts = jobs[k].parts /\ jobs'[k].result = jobs[k].result
  /\ spoiled' = spoiled \cup (IF Others = {} THEN {} ELSE Others \cup {j})
                        \cup (IF Resumable(selected) THEN {} ELSE {j})

\* A button starts one job, in a free place.
LEMMA StartFacts ==
  ASSUME LTypeOK, NEW after \in BOOLEAN, startPipeline(after)
  PROVE  \E j \in JobIds, r \in Jobs : Starting(j, r, after)
  <1>0. NextJob \in JobIds /\ jobs[NextJob].stage = "none"
    BY NextJobFree DEF startPipeline
  <1>1. jobs \in [JobIds -> Jobs] /\ loading \in [job : {0} \cup JobIds, resume : Nat, received : Nat] /\ loading.job # NextJob
    BY <1>0 DEF LTypeOK
  <1>2. PICK j \in JobIds : j = NextJob
    BY <1>0
  <1>3. cancelled' = FALSE
        /\ spoiled' = spoiled \cup (IF Others = {} THEN {} ELSE Others \cup {j})
                              \cup (IF Resumable(selected) THEN {} ELSE {j})
    BY <1>2 DEF startPipeline
  <1>4. CASE loading.job # 0 /\ selected \notin Local
    <2>1. PICK k \in JobIds : k = loading.job
      BY <1>1, <1>4
    <2> DEFINE mid == [jobs EXCEPT ![j] = Ended]
               q == [mid[k] EXCEPT !.flashAfter = after]
    <2>2. jobs' = [mid EXCEPT ![k] = q] /\ loading' = loading /\ running' = FALSE
      BY <1>2, <1>4, <2>1 DEF startPipeline
    <2>3. mid \in [JobIds -> Jobs] /\ mid[k] = jobs[k] /\ mid[j] = Ended /\ k # j
      BY <1>1, <1>2, <2>1, EndedFacts
    <2>4. /\ q.stage = jobs[k].stage /\ q.image = jobs[k].image
          /\ q.target = jobs[k].target /\ q.confirmed = jobs[k].confirmed /\ q.stale = jobs[k].stale
          /\ q.parts = jobs[k].parts /\ q.result = jobs[k].result
      BY <1>1, <2>3 DEF Jobs
    <2> HIDE DEF q
    <2>5. jobs'[j] = Ended /\ jobs'[k] = q /\ \A i \in JobIds \ {j, k} : jobs'[i] = jobs[i]
      BY <1>1, <2>2, <2>3
    <2> HIDE DEF mid
    <2>6. \A i \in JobIds \ {j} :
            /\ jobs'[i].stage = jobs[i].stage /\ jobs'[i].image = jobs[i].image
            /\ jobs'[i].target = jobs[i].target /\ jobs'[i].confirmed = jobs[i].confirmed
            /\ jobs'[i].stale = jobs[i].stale
            /\ jobs'[i].parts = jobs[i].parts /\ jobs'[i].result = jobs[i].result
      BY <2>4, <2>5
    <2>7. Starting(j, Ended, after)
      BY <1>0, <1>2, <1>3, <1>4, <2>2, <2>5, <2>6, EndedFacts DEF Starting
    <2> QED BY <2>7, EndedFacts
  <1>5. CASE ~(loading.job # 0 /\ selected \notin Local)
    <2>1. jobs' = [jobs EXCEPT ![j] = Started(after)] /\ running' = (Started(after).stage # "end")
          /\ loading' = IF selected \in Local THEN loading ELSE startDownload(j, selected)
      BY <1>2, <1>5 DEF startPipeline
    <2>2. Started(after) \in Jobs /\ JobOK(Started(after)) /\ Started(after).stage # "none"
      BY StartedFacts
    <2>3. jobs'[j] = Started(after) /\ \A k \in JobIds \ {j} : jobs'[k] = jobs[k]
      BY <1>1, <2>1
    <2>4. Starting(j, Started(after), after)
      BY <1>0, <1>2, <1>3, <2>1, <2>2, <2>3 DEF Starting
    <2> QED BY <2>2, <2>4
  <1> QED BY <1>4, <1>5

\* A cancel ends the download, if there is one.
LEMMA CancelFacts ==
  ASSUME LTypeOK, onCancel
  PROVE  \A k \in JobIds : jobs'[k] = jobs[k] \/ jobs'[k] = Ended
  BY DEF LTypeOK, onCancel, cancelDownload

-----------------------------------------------------------------------------
(* One pipeline at a time                                                  *)

\* Moving a job along does not make two of one.
LEMMA OneMoves ==
  ASSUME LTypeOK, OneInv, NEW j \in JobIds, NEW r \in Jobs, Moves(j, r)
  PROVE  OneInv'
  <1>1. jobs'[j] = r /\ \A k \in JobIds \ {j} : jobs'[k] = jobs[k]
    BY DEF Moves, LTypeOK
  <1>2. \A k \in JobIds : Active(k)' <=> IF k = j THEN r.stage # "end" ELSE Active(k)
    BY <1>1 DEF Active, Moves
  <1>3. (cancelled => everCancelled)' /\ (box # NoBox => ~running)'
    BY DEF OneInv, Moves
  <1>4. ASSUME ~everCancelled'
        PROVE  /\ \A k, l \in JobIds : Active(k)' /\ Active(l)' => k = l
               /\ running' <=> \E k \in JobIds : Active(k)'
    <2>1. ~everCancelled /\ ~cancelled /\ Active(j)
      BY <1>4 DEF Moves, OneInv
    <2>2. \A k \in JobIds : Active(k) => k = j
      BY <2>1 DEF OneInv, OneAtATime
    <2>3. running
      BY <2>1 DEF OneInv, OneAtATime
    <2>4. running' <=> r.stage # "end"
      BY <2>1, <2>3 DEF Moves
    <2> QED BY <1>2, <2>2, <2>4
  <1> QED BY <1>3, <1>4 DEF OneInv, OneAtATime

\* A job is started while no operation is running.
LEMMA OneStart ==
  ASSUME LTypeOK, OneInv, NEW j \in JobIds, NEW r \in Jobs, NEW after \in BOOLEAN, Starting(j, r, after),
         ~running, box' = NoBox, UNCHANGED everCancelled
  PROVE  OneInv'
  <1>1. \A k \in JobIds : Active(k)' <=> IF k = j THEN r.stage # "end" ELSE Active(k)
    BY DEF Active, Starting
  <1>2. (cancelled => everCancelled)' /\ (box # NoBox => ~running)'
    BY DEF Starting
  <1>3. ~everCancelled => \A k \in JobIds : ~Active(k)
    BY DEF OneInv, OneAtATime
  <1>4. running' <=> r.stage # "end"
    BY DEF Starting
  <1> QED BY <1>1, <1>2, <1>3, <1>4 DEF OneInv, OneAtATime

\* There is no job in the beginning.
LEMMA LInitOne == LInit => OneInv
  BY DEF LInit, OneInv, OneAtATime, Active, NoJob

\* Every step keeps the jobs apart.
LEMMA LNextOne == ASSUME LTypeOK, OneInv, [LNext]_<<lvars, format>> PROVE OneInv'
  <1>1. CASE UNCHANGED format /\ QuietHandler
    <2>1. \A k \in JobIds : Active(k)' <=> Active(k)
      BY <1>1, QuietFacts DEF Active
    <2> QED BY <1>1, <2>1, QuietFacts DEF OneInv, OneAtATime
  <1>2. CASE AnswerYes \/ onDownloadOnly
    <2>1. ~running /\ box' = NoBox /\ UNCHANGED everCancelled /\ \E after \in BOOLEAN : startPipeline(after)
      BY <1>2 DEF AnswerYes, onDownloadOnly, OneInv
    <2> QED BY <2>1, StartFacts, OneStart
  <1>3. CASE onCancel
    BY <1>3 DEF onCancel, OneInv, OneAtATime
  <1>4. CASE onReadyRead \/ UNCHANGED <<lvars, format>>
    <2>1. UNCHANGED <<jobs, running, cancelled, everCancelled, box>>
      BY <1>4 DEF onReadyRead, lvars
    <2> QED BY <2>1 DEF OneInv, OneAtATime, Active
  <1>5. CASE DownloadError \/ downloadComplete
    BY <1>5, NetworkMoves, OneMoves
  <1>6. CASE \E j \in JobIds : Thread(j) \/ Delivered(j)
    BY <1>6, ThreadMoves, DeliveredMoves, OneMoves
  <1> QED BY <1>1, <1>2, <1>3, <1>4, <1>5, <1>6 DEF LNext, Handler, QuietHandler, Network

\* Until the first cancel there is at most one pipeline, and the buttons are
\* disabled exactly while there is one.
THEOREM FlasherOneAtATime == LSpec => []OneAtATime
  <1>1. LSpec => []OneInv
    BY LInitType, LNextType, LInitOne, LNextOne, PTL DEF LSpec
  <1>2. OneInv => OneAtATime
    BY DEF OneInv
  <1> QED BY <1>1, <1>2, PTL

-----------------------------------------------------------------------------
(* The drive that the warning named                                        *)

\* Nothing needs a confirmation in the beginning.
LEMMA LInitConfirm == LInit => ConfirmInv
  BY DEF LInit, ConfirmInv, ConfirmedUnlessTouched, Active, NoJob, NoBox

\* Moving a job along keeps what was confirmed for it.
LEMMA ConfirmMoves ==
  ASSUME LTypeOK, ConfirmInv, NEW j \in JobIds, NEW r \in Jobs, Moves(j, r)
  PROVE  ConfirmInv'
  <1>1. jobs'[j] = r /\ \A k \in JobIds \ {j} : jobs'[k] = jobs[k]
    BY DEF Moves, LTypeOK
  <1>2. combo' = combo
    BY DEF Moves
  <1>3. CASE r = Ended
    BY <1>1, <1>2, <1>3, EndedFacts DEF ConfirmInv, ConfirmedUnlessTouched, Active
  <1>4. CASE r # Ended
    <2>1. /\ Active(j) /\ r.confirmed = jobs[j].confirmed /\ r.stale = jobs[j].stale /\ r.image = jobs[j].image
          /\ r.target \in {jobs[j].target, combo}
      BY <1>4 DEF Moves
    <2>2. r.confirmed # NoBox /\ ~r.stale => r.confirmed = [image |-> r.image, target |-> combo]
      BY <2>1 DEF ConfirmInv
    <2>3. r.confirmed # NoBox /\ ~r.stale /\ r.target # NoDrive => [image |-> r.image, target |-> r.target] = r.confirmed
      BY <2>1, <2>2 DEF ConfirmInv, ConfirmedUnlessTouched
    <2> QED BY <1>1, <1>2, <2>2, <2>3 DEF ConfirmInv, ConfirmedUnlessTouched, Active
  <1> QED BY <1>3, <1>4

\* A job is started with what its box showed.
LEMMA ConfirmStart ==
  ASSUME LTypeOK, ConfirmInv, NEW j \in JobIds, NEW r \in Jobs, NEW after \in BOOLEAN, Starting(j, r, after),
         UNCHANGED combo
  PROVE  ConfirmInv'
  <1>1. r = Ended \/ r = Started(after)
    BY DEF Starting
  <1>2. \/ r = Ended
        \/ /\ r.confirmed = box /\ r.image = selected /\ r.stale = (box # [image |-> selected, target |-> combo])
           /\ r.target \in {NoDrive, combo}
    BY <1>1, StartedFacts, NewJobFacts DEF Unpacking, Flashing
  <1>3. r.confirmed # NoBox /\ ~r.stale => r.confirmed = [image |-> r.image, target |-> combo]
    BY <1>2, EndedFacts
  <1>4. r.confirmed # NoBox /\ ~r.stale /\ r.target # NoDrive => [image |-> r.image, target |-> r.target] = r.confirmed
    BY <1>2, <1>3, EndedFacts
  <1>5. jobs'[j] = r
    BY DEF Starting
  <1>6. \A k \in JobIds \ {j} :
          /\ Active(k)' /\ jobs'[k].confirmed # NoBox /\ ~jobs'[k].stale =>
               jobs'[k].confirmed = [image |-> jobs'[k].image, target |-> combo']
          /\ jobs'[k].target # NoDrive /\ jobs'[k].confirmed # NoBox /\ ~jobs'[k].stale =>
               [image |-> jobs'[k].image, target |-> jobs'[k].target] = jobs'[k].confirmed
    BY DEF Starting, ConfirmInv, ConfirmedUnlessTouched, Active
  <1> QED BY <1>3, <1>4, <1>5, <1>6 DEF ConfirmInv, ConfirmedUnlessTouched

\* Every step keeps the jobs to what was confirmed.
LEMMA LNextConfirm == ASSUME LTypeOK, ConfirmInv, [LNext]_<<lvars, format>> PROVE ConfirmInv'
  <1>1. CASE UNCHANGED format /\ QuietHandler
    <2>1. CASE jobs' = jobs /\ combo' = combo
      BY <2>1 DEF ConfirmInv, ConfirmedUnlessTouched, Active
    <2>2. CASE jobs' = Stale
      <3>1. \A k \in JobIds : jobs'[k].stale = Active(k) /\ jobs[k] \in Jobs
        BY <2>2 DEF Stale, LTypeOK, Jobs
      <3>2. \A k \in JobIds : (Active(k)' <=> Active(k)) /\ jobs'[k].target = jobs[k].target
        BY <1>1, QuietFacts DEF Active
      <3>3. \A k \in JobIds : ~Active(k) => jobs[k].target = NoDrive
        BY DEF LTypeOK, JobOK, Active
      <3> QED BY <3>1, <3>2, <3>3 DEF ConfirmInv, ConfirmedUnlessTouched
    <2> QED BY <1>1, <2>1, <2>2, QuietFacts
  <1>2. CASE AnswerYes \/ onDownloadOnly
    <2>1. UNCHANGED combo /\ \E after \in BOOLEAN : startPipeline(after)
      BY <1>2 DEF AnswerYes, onDownloadOnly
    <2> QED BY <2>1, StartFacts, ConfirmStart
  <1>3. CASE onCancel
    <2>1. combo' = combo
      BY <1>3 DEF onCancel
    <2> QED BY <1>3, <2>1, CancelFacts, EndedFacts DEF ConfirmInv, ConfirmedUnlessTouched, Active
  <1>4. CASE onReadyRead \/ UNCHANGED <<lvars, format>>
    <2>1. UNCHANGED <<jobs, combo>>
      BY <1>4 DEF onReadyRead, lvars
    <2> QED BY <2>1 DEF ConfirmInv, ConfirmedUnlessTouched, Active
  <1>5. CASE DownloadError \/ downloadComplete
    BY <1>5, NetworkMoves, ConfirmMoves
  <1>6. CASE \E j \in JobIds : Thread(j) \/ Delivered(j)
    BY <1>6, ThreadMoves, DeliveredMoves, ConfirmMoves
  <1> QED BY <1>1, <1>2, <1>3, <1>4, <1>5, <1>6 DEF LNext, Handler, QuietHandler, Network

\* What is erased is the drive that the warning named, with the image it named,
\* if nobody picked another drive and the list was not filled anew.
THEOREM FlasherConfirmed == LSpec => []ConfirmedUnlessTouched
  <1>1. LSpec => []ConfirmInv
    BY LInitType, LNextType, LInitConfirm, LNextConfirm, PTL DEF LSpec
  <1>2. ConfirmInv => ConfirmedUnlessTouched
    BY DEF ConfirmInv
  <1> QED BY <1>1, <1>2, PTL

-----------------------------------------------------------------------------
(* Cancel                                                                  *)

NoFlash == cancelled /\ cancelled' => \A j \in JobIds : jobs[j].stage # "flash" => jobs'[j].stage # "flash"

\* No step lets a job begin to flash while it is cancelled.
LEMMA LNextNoFlash == ASSUME LTypeOK, [LNext]_<<lvars, format>> PROVE [NoFlash]_lvars
  <1>1. CASE UNCHANGED format /\ QuietHandler
    BY <1>1, QuietFacts DEF NoFlash
  <1>2. CASE AnswerYes \/ onDownloadOnly
    <2>1. \E after \in BOOLEAN : startPipeline(after)
      BY <1>2 DEF AnswerYes, onDownloadOnly
    <2>2. cancelled' = FALSE
      BY <2>1, StartFacts DEF Starting
    <2> QED BY <2>2 DEF NoFlash
  <1>3. CASE onCancel
    BY <1>3, CancelFacts, EndedFacts DEF NoFlash
  <1>4. CASE onReadyRead \/ UNCHANGED <<lvars, format>>
    BY <1>4 DEF onReadyRead, lvars, NoFlash
  <1>5. ASSUME NEW j \in JobIds, NEW r \in Jobs, Moves(j, r) PROVE NoFlash
    <2>1. jobs'[j] = r /\ \A k \in JobIds \ {j} : jobs'[k] = jobs[k]
      BY <1>5 DEF Moves, LTypeOK
    <2> QED BY <1>5, <2>1 DEF NoFlash, Moves
  <1>6. CASE (DownloadError \/ downloadComplete) \/ \E j \in JobIds : Thread(j) \/ Delivered(j)
    BY <1>5, <1>6, NetworkMoves, ThreadMoves, DeliveredMoves
  <1> QED BY <1>1, <1>2, <1>3, <1>4, <1>6 DEF LNext, Handler, QuietHandler, Network

\* While the cancel flag is set no pipeline begins to write to a drive,
\* whichever of its threads or queued calls the cancel found.
THEOREM FlasherNoFlashAfterCancel == LSpec => NoFlashAfterCancel
  <1>1. LSpec => [][NoFlash]_lvars
    BY LInitType, LNextType, LNextNoFlash, PTL DEF LSpec
  <1> QED BY <1>1 DEF NoFlashAfterCancel, NoFlash

-----------------------------------------------------------------------------
(* What is on the drive                                                    *)

\* No job has an image in the beginning.
LEMMA LInitWhole == LInit => WholeInv
  <1> SUFFICES ASSUME LInit PROVE WholeInv
    OBVIOUS
  <1>1. PICK c \in Catalogs : files = c.files
    BY DEF LInit
  <1>2. \A i \in Local : files[i] \in {<<>>, Whole}
    BY <1>1, FlasherAssumption
  <1>3. \A j \in JobIds : ~Active(j)
    BY DEF LInit, Active, NoJob
  <1> QED BY <1>2, <1>3 DEF WholeInv

\* Nothing changes that a running job depends on.
LEMMA WholeFrame ==
  ASSUME WholeInv, UNCHANGED <<files, unpacked, drive, format, loading, spoiled>>,
         \A k \in JobIds : /\ jobs'[k].stage = jobs[k].stage /\ jobs'[k].image = jobs[k].image
                           /\ jobs'[k].target = jobs[k].target
                           /\ jobs'[k].parts = jobs[k].parts /\ jobs'[k].result = jobs[k].result
  PROVE  WholeInv'
  <1>1. \A k \in JobIds : Active(k)' <=> Active(k)
    BY DEF Active
  <1>2. \A k \in JobIds : Proper(k) => Proper(k)'
    BY DEF Proper, Begins, IsWhole, OnDrive, Source, isCompressed
  <1> QED BY <1>1, <1>2 DEF WholeInv

\* One running job moves on: if there is another, both are spoiled already, so
\* only this one matters.
LEMMA WholeMoves ==
  ASSUME WholeInv, NEW j \in JobIds, Active(j), spoiled' \in {spoiled, spoiled \cup {j}},
         \A k \in JobIds \ {j} : jobs'[k] = jobs[k],
         \A i \in Local : files'[i] = files[i],
         Active(j)' /\ j \notin spoiled' => Proper(j)'
  PROVE  WholeInv'
  <1>1. \A k \in JobIds : Active(k)' => Active(k)
    BY DEF Active
  <1>2. \A k, l \in JobIds : Active(k)' /\ Active(l)' /\ k # l => k \in spoiled'
    BY <1>1 DEF WholeInv
  <1>3. \A k \in JobIds \ {j} : Active(k)' => k \in spoiled'
    BY <1>1 DEF WholeInv
  <1>4. \A i \in Local : files'[i] \in {<<>>, Whole}
    BY DEF WholeInv
  <1> QED BY <1>2, <1>3, <1>4 DEF WholeInv

\* With the whole file on the disk, what is unpacked or flashed is the image.
LEMMA ReadyProper ==
  ASSUME LTypeOK, NEW j \in JobIds, NEW job \in Jobs, job.image \in Images, job.parts = 0,
         Unpacking(jobs'[j], job) \/ (~isCompressed(job.image) /\ Flashing(jobs'[j], job)),
         IsWhole(files[job.image]), UNCHANGED <<files, unpacked, drive, format>>
  PROVE  Proper(j)'
  <1>1. IsWhole(files[job.image])'
    BY DEF IsWhole
  <1>2. CASE Unpacking(jobs'[j], job)
    BY <1>1, <1>2 DEF Unpacking, Proper
  <1>3. CASE ~isCompressed(job.image) /\ Flashing(jobs'[j], job)
    <2>1. jobs'[j].stage = "flash" /\ jobs'[j].image = job.image /\ jobs'[j].parts = 0
      BY <1>3 DEF Flashing
    <2>2. Source(j)' = files[job.image]
      BY <1>3, <2>1 DEF Source, isCompressed
    <2>3. IsWhole(Source(j))'
      BY <2>2 DEF IsWhole
    <2>4. OnDrive(jobs[j].target, jobs[j].parts)' /\ 0 <= Parts
      BY <2>1, FlasherAssumption DEF OnDrive
    <2> QED BY <2>1, <2>3, <2>4 DEF Proper
  <1> QED BY <1>2, <1>3

\* The number of parts.
LEMMA PartsNat == Parts \in Nat /\ Parts # 0
  BY FlasherAssumption

\* The image is whole, and nothing is a beginning of it.
LEMMA WholeIsWhole == IsWhole(Whole) /\ Whole # <<>> /\ Begins(<<>>)
  BY WholeFacts, FlasherAssumption DEF IsWhole, Begins

\* The first thing a reply without Range, or the rest of one, appends continues
\* the file.
LEMMA WholeReady ==
  ASSUME LTypeOK, WholeInv, UNCHANGED format, onReadyRead
  PROVE  WholeInv'
  <1>0. loading.job # 0 /\ loading.received < Len(Body)
    BY DEF onReadyRead
  <1>1. PICK j \in JobIds : j = loading.job
    BY <1>0, LoadingFacts
  <1>2. PICK i \in Images : i = File
    BY <1>0, LoadingFacts
  <1>3. /\ i \notin Local /\ files[i] \in Seq(Nat) /\ Len(files[i]) \in Nat /\ loading.resume \in Nat
        /\ loading.received \in Nat /\ i = jobs[j].image /\ jobs[j].stage = "download"
    BY <1>0, <1>1, <1>2, LoadingFacts DEF File
  <1> DEFINE p == Body[loading.received + 1]
             f == Append(files[i], p)
  <1>4. /\ UNCHANGED <<format, unpacked, jobs, drive>>
        /\ loading'.job = j /\ loading'.resume = loading.resume /\ loading'.received = loading.received + 1
        /\ \/ UNCHANGED spoiled /\ files' = [files EXCEPT ![i] = f]
           \/ spoiled' = spoiled \cup {j} /\ UNCHANGED files
    BY <1>1, <1>2 DEF onReadyRead, LTypeOK
  <1>5. p \in Nat
    BY <1>0, <1>3, BodyFacts
  <1>6. f \in Seq(Nat) /\ Len(f) = Len(files[i]) + 1 /\ f[Len(files[i]) + 1] = p
        /\ \A n \in 1..Len(files[i]) : f[n] = files[i][n]
    BY <1>3, <1>5, AppendProperties
  <1>7. \A k \in Local : files'[k] = files[k]
    BY <1>3, <1>4, FlasherAssumption DEF LTypeOK
  <1>8. Active(j)
    BY <1>3 DEF Active
  <1>9. ASSUME Active(j)', j \notin spoiled' PROVE Proper(j)'
    <2>0. UNCHANGED spoiled /\ files'[i] = f
      <3>1. UNCHANGED spoiled /\ files' = [files EXCEPT ![i] = f]
        BY <1>4, <1>9
      <3> QED BY <3>1 DEF LTypeOK
    <2>1. Proper(j)
      BY <2>0, <1>8, <1>9 DEF WholeInv
    <2>2. \/ i \in Ranges /\ loading.resume >= Parts
          \/ /\ Begins(files[i]) /\ (i \notin Ranges => loading.resume = 0)
             /\ Len(files[i]) = loading.resume + loading.received
      BY <1>3, <2>1 DEF Proper
    <2>3. Honoured <=> i \in Ranges
      BY <1>2 DEF Honoured
    <2>4. ~(i \in Ranges /\ loading.resume >= Parts)
      BY <1>0, <1>3, <2>3, BodyFacts, PartsNat
    <2>5. p = Len(files[i]) + 1 /\ Len(files[i]) < Parts
      <3>1. loading.received + 1 \in 1..Len(Body)
        BY <1>0, <1>3, BodyFacts
      <3>2. CASE i \in Ranges
        <4>1. p = loading.resume + (loading.received + 1) /\ Len(Body) = Parts - loading.resume
          BY <1>0, <1>3, <2>3, <2>4, <3>1, <3>2, BodyFacts, PartsNat
        <4> HIDE DEF p
        <4>2. p = Len(files[i]) + 1
          <5>1. Len(files[i]) = loading.resume + loading.received
            BY <2>2, <2>4
          <5>2. PICK m \in Nat, n \in Nat : m = loading.resume /\ n = loading.received
            BY <1>3
          <5>3. m + (n + 1) = (m + n) + 1
            OBVIOUS
          <5> QED BY <4>1, <5>1, <5>2, <5>3
        <4>3. Len(files[i]) < Parts
          BY <1>0, <1>3, <2>2, <2>4, <4>1, PartsNat
        <4> QED BY <4>2, <4>3
      <3>3. CASE i \notin Ranges
        <4>1. p = loading.received + 1 /\ Len(Body) = Parts /\ Len(files[i]) = loading.received
          BY <1>0, <1>3, <2>2, <2>3, <3>1, <3>3, BodyFacts
        <4> HIDE DEF p
        <4> QED BY <1>0, <1>3, <4>1, PartsNat
      <3> QED BY <3>2, <3>3
    <2> HIDE DEF p, f
    <2>6. Begins(f)
      <3>1. Begins(files[i])
        BY <2>2, <2>4
      <3>2. Len(f) <= Parts
        BY <1>3, <1>6, <2>5, PartsNat
      <3>3. \A n \in 1..Len(f) : n = Len(files[i]) + 1 \/ n \in 1..Len(files[i])
        BY <1>3, <1>6
      <3> QED BY <1>6, <2>5, <3>1, <3>2, <3>3 DEF Begins
    <2>7. /\ Begins(files[i])' /\ (i \notin Ranges => loading'.resume = 0)
          /\ Len(files'[i]) = loading'.resume + loading'.received
      <3>1. Len(files[i]) = loading.resume + loading.received
        BY <2>2, <2>4
      <3>2. Len(f) = loading.resume + (loading.received + 1)
        BY <1>3, <1>6, <3>1
      <3> QED BY <1>4, <2>0, <2>2, <2>4, <2>6, <3>2 DEF Begins
    <2>8. jobs'[j].stage = "download" /\ jobs'[j].image = i /\ jobs'[j].parts = 0
      BY <1>3, <1>4, <2>1 DEF Proper
    <2> QED BY <2>7, <2>8 DEF Proper
  <1> HIDE DEF p, f
  <1>10. spoiled \subseteq spoiled'
    BY <1>4
  <1> QED BY <1>4, <1>7, <1>8, <1>9, <1>10, WholeMoves

\* A download that is reported complete has brought the whole file.
LEMMA WholeComplete ==
  ASSUME LTypeOK, WholeInv, UNCHANGED format, downloadComplete
  PROVE  WholeInv'
  <1>0. loading.job # 0 /\ loading.received = Len(Body) /\ ~RangeRefused
    BY DEF downloadComplete
  <1>1. PICK j \in JobIds : j = loading.job
    BY <1>0, LoadingFacts
  <1>2. /\ File = jobs[j].image /\ File \in Images /\ Len(files[File]) \in Nat /\ loading.resume \in Nat
        /\ loading.received \in Nat /\ jobs[j] \in Jobs /\ jobs[j].stage = "download"
        /\ cancelled \in BOOLEAN
    BY <1>0, <1>1, LoadingFacts DEF File, LTypeOK
  <1>3. /\ UNCHANGED <<format, unpacked, files, drive, spoiled>>
        /\ jobs' = [jobs EXCEPT ![j] = FileReady(jobs[j], cancelled)]
    BY <1>1 DEF downloadComplete, Becomes
  <1>4. Active(j)
    BY <1>2 DEF Active
  <1>5. jobs'[j] = FileReady(jobs[j], cancelled) /\ \A k \in JobIds \ {j} : jobs'[k] = jobs[k]
    BY <1>3 DEF LTypeOK
  <1>6. ASSUME Active(j)', j \notin spoiled' PROVE Proper(j)'
    <2>1. Proper(j)
      BY <1>3, <1>4, <1>6 DEF WholeInv
    <2>2. /\ Begins(files[File]) /\ (File \notin Ranges => loading.resume = 0) /\ jobs[j].parts = 0
          /\ Len(files[File]) = loading.resume + loading.received
      BY <1>0, <1>2, <2>1 DEF Proper, RangeRefused, Honoured
    <2>3. Len(files[File]) = Parts
      <3>1. CASE File \in Ranges
        <4>1. ~(loading.resume >= Parts)
          BY <1>0, <3>1 DEF RangeRefused, Honoured
        <4>2. Len(Body) = Parts - loading.resume
          BY <1>0, <3>1, <4>1, BodyFacts DEF Honoured
        <4>3. loading.received = Parts - loading.resume
          BY <1>0, <4>2
        <4> QED BY <1>2, <2>2, <4>3, PartsNat
      <3>2. CASE File \notin Ranges
        BY <1>0, <1>2, <2>2, <3>2, BodyFacts, PartsNat DEF Honoured
      <3> QED BY <3>1, <3>2
    <2>4. IsWhole(files[jobs[j].image])
      BY <1>2, <2>2, <2>3 DEF Begins, IsWhole
    <2>5. \/ jobs'[j] = Ended
          \/ Unpacking(jobs'[j], jobs[j])
          \/ ~isCompressed(jobs[j].image) /\ Flashing(jobs'[j], jobs[j])
      BY <1>2, <1>5, FileReadyFacts
    <2>6. jobs'[j] # Ended
      BY <1>6, EndedFacts DEF Active
    <2> QED BY <1>2, <1>3, <2>2, <2>4, <2>5, <2>6, ReadyProper
  <1> QED BY <1>3, <1>4, <1>5, <1>6, WholeMoves

\* A whole file unpacks to the image, part after part goes to its place on the
\* drive, and the loop ends behind the last one or on a read error.
LEMMA WholeThread ==
  ASSUME LTypeOK, WholeInv, UNCHANGED format, NEW j \in JobIds, Thread(j)
  PROVE  WholeInv'
  <1>1. Active(j) /\ UNCHANGED <<files, loading>>
    BY DEF Thread, UnpackEnds, UnpackFails, FlashPart, FlashDone, FlashFails, Active
  <1>2. /\ jobs[j] \in Jobs /\ JobOK(jobs[j]) /\ jobs[j].image \in Images
        /\ Source(j) \in Seq(Nat) /\ Len(Source(j)) \in Nat /\ jobs[j].parts \in Nat
    BY <1>1, ThreadFacts
  <1>3. PICK r \in Jobs : Moves(j, r)
    BY ThreadMoves
  <1>4. jobs'[j] = r /\ \A k \in JobIds \ {j} : jobs'[k] = jobs[k]
    BY <1>3 DEF Moves, LTypeOK
  <1>5. spoiled' \in {spoiled, spoiled \cup {j}}
    BY DEF Thread, UnpackEnds, UnpackFails, FlashPart, FlashDone, FlashFails
  <1>6. SUFFICES ASSUME Active(j)', j \notin spoiled' PROVE Proper(j)'
    BY <1>1, <1>4, <1>5, WholeMoves
  <1>7. Proper(j)
    BY <1>1, <1>5, <1>6 DEF WholeInv
  <1>8. CASE UnpackEnds(j)
    <2> DEFINE i == jobs[j].image
    <2>1. jobs[j].stage = "unpack" /\ jobs[j].parts = 0 /\ IsWhole(files[i]) /\ isCompressed(i)
      BY <1>2, <1>7, <1>8 DEF UnpackEnds, Proper, JobOK
    <2>2. decompressAuto(i).out = files[i]
      <3>1. files[i] \in Seq(Nat) /\ Len(files[i]) = Parts
        BY <1>2, <2>1 DEF LTypeOK, IsWhole
      <3> QED BY <1>2, <2>1, <3>1, FirstFacts, UnpackedOut
    <2>3. unpacked' = [unpacked EXCEPT ![i] = files[i]]
      BY <1>8, <2>2 DEF UnpackEnds
    <2>4. unpacked'[i] = files[i]
      BY <1>2, <2>3 DEF LTypeOK
    <2>5. jobs'[j] = Ended \/ jobs'[j] = [jobs[j] EXCEPT !.stage = "posted"]
      BY <1>8 DEF UnpackEnds, LTypeOK
    <2>6. jobs'[j].stage = "posted" /\ jobs'[j].image = i /\ jobs'[j].parts = 0
      BY <1>2, <1>6, <2>1, <2>5, EndedFacts DEF Active, Jobs
    <2>7. IsWhole(unpacked'[jobs'[j].image])
      BY <2>1, <2>4, <2>6
    <2> QED BY <2>6, <2>7 DEF Proper, IsWhole
  <1>9. CASE UnpackFails(j)
    <2>1. jobs'[j] = Ended \/ jobs'[j] = [jobs[j] EXCEPT !.stage = "failed"]
      BY <1>9 DEF UnpackFails, LTypeOK
    <2>2. jobs'[j].stage = "failed" /\ jobs'[j].parts = jobs[j].parts
      BY <1>2, <1>6, <2>1, EndedFacts DEF Active, Jobs
    <2>3. jobs[j].parts = 0
      BY <1>7, <1>9 DEF UnpackFails, Proper
    <2> QED BY <2>2, <2>3 DEF Proper
  <1>10. CASE FlashPart(j)
    <2> DEFINE d == jobs[j].target
    <2>0. PICK at \in Nat \ {0} : at = jobs[j].parts + 1
      BY <1>2
    <2>1. /\ jobs[j].stage = "flash" /\ at <= Len(Source(j)) /\ at \in Nat \ {0}
          /\ drive' = [drive EXCEPT ![d] = Put(@, at, Source(j)[at])] /\ UNCHANGED unpacked
      BY <1>2, <1>10, <2>0 DEF FlashPart
    <2>2. jobs'[j] = [jobs[j] EXCEPT !.parts = at]
      BY <1>10, <2>0 DEF FlashPart, LTypeOK
    <2>3. /\ jobs'[j].stage = "flash" /\ jobs'[j].image = jobs[j].image /\ jobs'[j].target = d
          /\ jobs'[j].parts = at
      BY <1>2, <2>1, <2>2 DEF Jobs
    <2>4. IsWhole(Source(j)) /\ OnDrive(d, jobs[j].parts) /\ d \in Drives
      BY <1>2, <1>7, <2>1 DEF Proper, JobOK
    <2>5. Source(j)[at] = at /\ at <= Parts
      BY <2>1, <2>4, PartsNat DEF IsWhole
    <2>6. IsWhole(Source(j))'
      BY <1>1, <2>1, <2>3, <2>4 DEF IsWhole, Source, isCompressed
    <2>7. drive[d] \in Seq(Nat) /\ drive'[d] = Put(drive[d], at, at)
      BY <2>1, <2>4, <2>5 DEF LTypeOK
    <2>8. \A n \in 1..at : n \in 1..Len(drive'[d]) /\ drive'[d][n] = n
      <3>1. /\ Put(drive[d], at, at) \in Seq(Nat) /\ Len(Put(drive[d], at, at)) >= at
            /\ Put(drive[d], at, at)[at] = at
            /\ \A n \in 1..Len(drive[d]) : n # at => Put(drive[d], at, at)[n] = drive[d][n]
        <4>1. PICK x \in Seq(Nat) : x = drive[d]
          BY <2>7
        <4>2. /\ Put(x, at, at) \in Seq(Nat) /\ Len(Put(x, at, at)) >= at /\ Put(x, at, at)[at] = at
              /\ \A n \in 1..Len(x) : n # at => Put(x, at, at)[n] = x[n]
          BY PutFacts
        <4> QED BY <4>1, <4>2
      <3>2. at \in 1..Len(drive'[d]) /\ drive'[d][at] = at
        BY <2>1, <2>7, <3>1
      <3>3. ASSUME NEW n \in 1..jobs[j].parts PROVE n \in 1..Len(drive'[d]) /\ drive'[d][n] = n
        <4>1. n \in 1..Len(drive[d]) /\ drive[d][n] = n /\ n # at /\ n <= at
          BY <1>2, <2>0, <2>4, <3>3 DEF OnDrive
        <4>2. n \in 1..Len(drive'[d])
          BY <2>1, <2>7, <3>1, <4>1
        <4> QED BY <2>7, <3>1, <4>1, <4>2
      <3>4. \A n \in 1..at : n = at \/ n \in 1..jobs[j].parts
        BY <1>2, <2>0
      <3> QED BY <3>2, <3>3, <3>4
    <2>9. OnDrive(jobs[j].target, jobs[j].parts)'
      BY <2>3, <2>8 DEF OnDrive
    <2> QED BY <2>3, <2>5, <2>6, <2>9 DEF Proper
  <1>11. CASE FlashDone(j)
    <2>1. jobs[j].stage = "flash" /\ jobs[j].parts >= Len(Source(j)) /\ UNCHANGED drive
      BY <1>2, <1>6, <1>11 DEF FlashDone
    <2>2. jobs'[j] = [[jobs[j] EXCEPT !.stage = "flashed"] EXCEPT !.result = "ok"]
      BY <1>11 DEF FlashDone, LTypeOK
    <2>3. jobs'[j].stage = "flashed" /\ jobs'[j].target = jobs[j].target
      BY <1>2, <2>2 DEF Jobs
    <2>4. OnDrive(jobs[j].target, jobs[j].parts) /\ Len(Source(j)) = Parts
      BY <1>7, <2>1 DEF Proper, IsWhole
    <2>5. OnDrive(jobs[j].target, Parts)
      BY <1>2, <2>1, <2>4, PartsNat DEF OnDrive
    <2>6. OnDrive(jobs[j].target, Parts)'
      BY <2>1, <2>3, <2>5 DEF OnDrive
    <2> QED BY <2>3, <2>6 DEF Proper
  <1>12. CASE FlashFails(j)
    <2>1. jobs'[j] = [[jobs[j] EXCEPT !.stage = "flashed"] EXCEPT !.result = "error"]
      BY <1>12 DEF FlashFails, LTypeOK
    <2>2. jobs'[j].stage = "flashed" /\ jobs'[j].result = "error"
      BY <1>2, <2>1 DEF Jobs
    <2> QED BY <2>2 DEF Proper
  <1> QED BY <1>8, <1>9, <1>10, <1>11, <1>12 DEF Thread

\* An unpacked image is flashed; everything else that is delivered is an end.
LEMMA WholeDelivered ==
  ASSUME LTypeOK, WholeInv, UNCHANGED format, NEW j \in JobIds, Delivered(j)
  PROVE  WholeInv'
  <1>1. Active(j) /\ UNCHANGED <<files, unpacked, drive, spoiled>>
    BY DEF Delivered, UnpackDelivered, FailureDelivered, FlashDelivered, Active
  <1>2. jobs[j] \in Jobs /\ JobOK(jobs[j]) /\ jobs[j].image \in Images /\ cancelled \in BOOLEAN
    BY <1>1, ThreadFacts DEF LTypeOK
  <1>3. PICK r \in Jobs : Moves(j, r)
    BY DeliveredMoves
  <1>4. jobs'[j] = r /\ \A k \in JobIds \ {j} : jobs'[k] = jobs[k]
    BY <1>3 DEF Moves, LTypeOK
  <1>5. SUFFICES ASSUME Active(j)', j \notin spoiled' PROVE Proper(j)'
    BY <1>1, <1>4, WholeMoves
  <1>6. r # Ended
    BY <1>4, <1>5, EndedFacts DEF Active
  <1>7. UnpackDelivered(j) /\ r = flashImage(jobs[j], cancelled)
    <2>1. jobs \in [JobIds -> Jobs]
      BY DEF LTypeOK
    <2> QED BY <1>4, <1>6, <2>1 DEF Delivered, UnpackDelivered, FailureDelivered, FlashDelivered, Becomes
  <1>8. Flashing(r, jobs[j])
    BY <1>2, <1>6, <1>7, FlashImageFacts
  <1>9. jobs[j].stage = "posted" /\ isCompressed(jobs[j].image) /\ Proper(j)
    BY <1>1, <1>2, <1>5, <1>7 DEF UnpackDelivered, JobOK, WholeInv
  <1>10. IsWhole(unpacked[jobs[j].image]) /\ jobs[j].parts = 0
    BY <1>9 DEF Proper
  <1>11. jobs'[j].stage = "flash" /\ jobs'[j].image = jobs[j].image /\ jobs'[j].parts = 0
    BY <1>4, <1>8, <1>10 DEF Flashing
  <1>12. IsWhole(Source(j))'
    BY <1>1, <1>9, <1>10, <1>11 DEF Source, isCompressed, IsWhole
  <1>13. OnDrive(jobs[j].target, jobs[j].parts)' /\ 0 <= Parts
    BY <1>11, PartsNat DEF OnDrive
  <1> QED BY <1>11, <1>12, <1>13 DEF Proper

\* A pipeline that is started alone, and resumes nothing but the beginning of its
\* own image, is as it should be.
LEMMA WholeStart ==
  ASSUME LTypeOK, WholeInv, UNCHANGED <<format, files, unpacked, drive>>,
         NEW j \in JobIds, NEW r \in Jobs, NEW after \in BOOLEAN, Starting(j, r, after)
  PROVE  WholeInv'
  <1>1. \A k \in JobIds \ {j} : Active(k)' <=> Active(k)
    BY DEF Active, Starting
  <1>2. jobs'[j] = r /\ spoiled' = spoiled \cup (IF Others = {} THEN {} ELSE Others \cup {j})
                                           \cup (IF Resumable(selected) THEN {} ELSE {j})
    BY DEF Starting
  <1>3. \A i \in Local : files'[i] \in {<<>>, Whole}
    BY DEF WholeInv
  <1>4. CASE Others # {}
    <2>1. \A k \in JobIds : Active(k)' => k \in spoiled'
      BY <1>1, <1>2, <1>4 DEF Others
    <2> QED BY <1>3, <2>1 DEF WholeInv
  <1>5. CASE Others = {}
    <2>1. \A k \in JobIds : Active(k)' => k = j
      BY <1>1, <1>5 DEF Others
    <2>2. SUFFICES ASSUME Active(j)', j \notin spoiled' PROVE Proper(j)'
      BY <1>3, <2>1 DEF WholeInv
    <2>3. Resumable(selected) /\ r # Ended
      BY <1>2, <2>2, EndedFacts DEF Active
    <2>4. r = Started(after) /\ loading' = (IF selected \in Local THEN loading ELSE startDownload(j, selected))
      BY <2>3 DEF Starting
    <2>5. selected \in Images /\ files[selected] \in Seq(Nat) /\ Len(files[selected]) \in Nat
      BY DEF LTypeOK
    <2>6. CASE selected \notin Local
      <3>1. r = NewJob(after) /\ loading'.resume = Len(files[selected])
        BY <2>3, <2>4, <2>6, StartedFacts DEF startDownload
      <3>2. jobs'[j].stage = "download" /\ jobs'[j].image = selected /\ jobs'[j].parts = 0
        BY <1>2, <3>1, NewJobFacts
      <3>3. \/ selected \in Ranges /\ Len(files[selected]) >= Parts
            \/ Begins(files[selected]) /\ (selected \notin Ranges => Len(files[selected]) = 0)
        <4>1. CASE files[selected] = <<>>
          BY <4>1, WholeIsWhole
        <4>2. CASE selected \in Ranges /\ files[selected] = SubSeq(Whole, 1, Len(files[selected])) /\ Len(files[selected]) < Parts
          <5>1. \A n \in 1..Len(files[selected]) : Whole[n] = n /\ Whole[n] \in Nat
            BY <2>5, <4>2, WholeFacts, PartsNat
          <5>2. \A n \in 1..Len(files[selected]) : files[selected][n] = Whole[n]
            <6>1. PICK l \in Nat : l = Len(files[selected])
              BY <2>5
            <6>2. \A n \in 1..l : SubSeq(Whole, 1, l)[n] = Whole[n]
              BY <6>1, WholeFacts
            <6> QED BY <4>2, <6>1, <6>2
          <5> QED BY <2>5, <4>2, <5>1, <5>2, PartsNat DEF Begins
        <4> QED BY <2>3, <2>5, <2>6, <4>1, <4>2, PartsNat DEF Resumable
      <3>4. \/ selected \in Ranges /\ loading'.resume >= Parts
            \/ /\ Begins(files'[selected]) /\ (selected \notin Ranges => loading'.resume = 0)
               /\ Len(files'[selected]) = loading'.resume + loading'.received
        <4>1. loading'.received = 0 /\ files' = files
          BY <2>4, <2>6 DEF startDownload
        <4> QED BY <2>5, <3>1, <3>3, <4>1
      <3> QED BY <3>2, <3>4 DEF Proper, Begins
    <2>7. CASE selected \in Local
      <3>1. files[selected] = Whole
        BY <2>3, <2>4, <2>7, StartedFacts DEF WholeInv
      <3>2. Unpacking(r, NewJob(after)) \/ (~isCompressed(selected) /\ Flashing(r, NewJob(after)))
        BY <2>3, <2>4, <2>7, StartedFacts
      <3>3. NewJob(after) \in Jobs /\ NewJob(after).image = selected /\ NewJob(after).parts = 0
        BY NewJobFacts
      <3>4. IsWhole(files[NewJob(after).image])
        BY <3>1, <3>3, WholeIsWhole
      <3> QED BY <1>2, <2>5, <3>2, <3>3, <3>4, ReadyProper
    <2> QED BY <2>6, <2>7
  <1> QED BY <1>4, <1>5

\* A download that is canceled or fails is the end of its job.
LEMMA WholeStop ==
  ASSUME LTypeOK, WholeInv, UNCHANGED format, onCancel \/ DownloadError
  PROVE  WholeInv'
  <1>1. UNCHANGED <<files, unpacked, drive, spoiled>>
    BY DEF onCancel, DownloadError
  <1>2. CASE loading.job = 0
    <2>1. UNCHANGED <<loading, jobs>>
      BY <1>2 DEF onCancel, cancelDownload, DownloadError
    <2> QED BY <1>1, <2>1, WholeFrame
  <1>3. CASE loading.job # 0
    <2>1. PICK j \in JobIds : j = loading.job
      BY <1>3, LoadingFacts
    <2>2. jobs' = [jobs EXCEPT ![j] = Ended]
      BY <1>3, <2>1 DEF onCancel, cancelDownload, DownloadError
    <2>3. jobs'[j] = Ended /\ \A k \in JobIds \ {j} : jobs'[k] = jobs[k]
      BY <2>2 DEF LTypeOK
    <2>4. Active(j) /\ ~Active(j)'
      BY <1>3, <2>1, <2>3, LoadingFacts, EndedFacts DEF Active
    <2> QED BY <1>1, <2>3, <2>4, WholeMoves
  <1> QED BY <1>2, <1>3

\* Every step keeps the images of jobs that are not spoiled whole.
LEMMA LNextWhole == ASSUME LTypeOK, WholeInv, [LNext]_<<lvars, format>> PROVE WholeInv'
  <1>1. CASE UNCHANGED format /\ QuietHandler
    BY <1>1, QuietFacts, WholeFrame
  <1>2. CASE UNCHANGED format /\ (AnswerYes \/ onDownloadOnly)
    <2>1. UNCHANGED <<files, unpacked, drive>> /\ \E after \in BOOLEAN : startPipeline(after)
      BY <1>2 DEF AnswerYes, onDownloadOnly
    <2> QED BY <1>2, <2>1, StartFacts, WholeStart
  <1>3. CASE UNCHANGED format /\ (onCancel \/ DownloadError)
    BY <1>3, WholeStop
  <1>4. CASE UNCHANGED format /\ (onReadyRead \/ downloadComplete)
    BY <1>4, WholeReady, WholeComplete
  <1>5. CASE UNCHANGED format /\ \E j \in JobIds : Thread(j) \/ Delivered(j)
    BY <1>5, WholeThread, WholeDelivered
  <1>6. CASE UNCHANGED <<lvars, format>>
    BY <1>6, WholeFrame DEF lvars
  <1> QED BY <1>1, <1>2, <1>3, <1>4, <1>5, <1>6 DEF LNext, Handler, QuietHandler, Network

\* When the tab reports that the image has been flashed, the drive holds it,
\* whatever was canceled and resumed before, if no other pipeline ran beside this
\* one, what was resumed was its own, no part of its download was lost on a full
\* disk, and no read failed while it was flashed.
THEOREM FlasherFlashedIsImage == LSpec => []FlashedIsImage
  <1>1. LSpec => []WholeInv
    BY LInitType, LNextType, LInitWhole, LNextWhole, PTL DEF LSpec
  <1>2. LTypeOK /\ WholeInv => FlashedIsImage
    <2> SUFFICES ASSUME LTypeOK, WholeInv, NEW j \in JobIds, jobs[j].stage = "flashed", jobs[j].result = "ok",
                        j \notin spoiled
                 PROVE  \A n \in 1..Parts : n \in DOMAIN drive[jobs[j].target] /\ drive[jobs[j].target][n] = n
      BY DEF FlashedIsImage
    <2>1. OnDrive(jobs[j].target, Parts)
      BY DEF WholeInv, Active, Proper
    <2>2. drive[jobs[j].target] \in Seq(Nat)
      BY DEF LTypeOK, JobOK
    <2>3. DOMAIN drive[jobs[j].target] = 1..Len(drive[jobs[j].target])
      BY <2>2
    <2> QED BY <2>1, <2>3 DEF OnDrive
  <1> QED BY <1>1, <1>2, LTypeCorrect, PTL

=============================================================================
