------------------------ MODULE DownloadQueue_proofs ------------------------
(* Safety of DownloadQueue for every set of jobs and files.                *)
EXTENDS DownloadQueue, Lists_proofs

-----------------------------------------------------------------------------
(* The inductive invariant. It says nothing of what is in the queue: what  *)
(* the manager loses or cancels does not depend on which job is next.      *)

(* The engine's record has its shape. *)
RunShape ==
  run \in [job : {run.job}, left : SUBSET Files, opening : Files \cup {NoFile},
           skips : SUBSET Files, aborted : BOOLEAN, slow : BOOLEAN,
           stalled : BOOLEAN, fatal : BOOLEAN, failed : BOOLEAN]

(* The records have the shape the steps rely on. *)
Shapes ==
  /\ jobs \in [Jobs -> Job] /\ store.jobs \in [Jobs -> Job]
  /\ phase \in {"up", "closing", "down"}
  /\ RunShape

(* A manager that is down runs nothing and knows what the file holds. *)
DownIdle == phase = "down" => run.job = NoJob /\ jobs = store.jobs

(* The job of the run is running. *)
RunIsRunning == run.job \in Jobs => jobs[run.job].status = "running"

(* What the engine has not settled is pending or being downloaded in the   *)
(* record of the job, and a file it is opening is pending, unless the user *)
(* has taken it out.                                                       *)
PlanAgrees ==
  run.job \in Jobs =>
    /\ \A f \in run.left \ run.skips : jobs[run.job].files[f] \in {"pending", "downloading"}
    /\ run.opening \in Files \ run.skips => jobs[run.job].files[run.opening] = "pending"

(* A run that was aborted has a reason for it. *)
AbortHasReason ==
  run.job \in Jobs /\ run.aborted =>
    jobs[run.job].cancel \/ jobs[run.job].pause \/ run.slow \/ phase = "closing"

IInv ==
  Shapes /\ DownIdle /\ RunIsRunning /\ PlanAgrees /\ AbortHasReason /\ NothingLost

LEMMA Initially == Init => IInv
<1> SUFFICES ASSUME Init PROVE IInv
  OBVIOUS
<1> USE QueueAssumption
<1>1. jobs \in [Jobs -> Job]
  BY DEF Init, NewJob, Job, FileStatus
<1>2. Shapes
  BY <1>1 DEF Init, Shapes, NoRun, RunShape
<1>3. DownIdle /\ RunIsRunning /\ PlanAgrees /\ AbortHasReason
  BY DEF Init, DownIdle, RunIsRunning, PlanAgrees, AbortHasReason, NoRun
<1>4. NothingLost
  BY DEF Init, NothingLost, Reloaded
<1> QED
  BY <1>2, <1>3, <1>4 DEF IInv

-----------------------------------------------------------------------------
(* Helpers *)

(* ensureState keeps the shape of a job. *)
LEMMA Reloads ==
  ASSUME NEW js \in [Jobs -> Job]
  PROVE  /\ Reloaded(js) \in [Jobs -> Job]
         /\ \A j \in Jobs :
              /\ Reloaded(js)[j].status = IF js[j].status = "running" THEN "queued" ELSE js[j].status
              /\ Reloaded(js)[j].cancel = js[j].cancel
              /\ \A f \in Files : Reloaded(js)[j].files[f] =
                   IF js[j].files[f] = "downloading" THEN "pending" ELSE js[j].files[f]
<1>1. ASSUME NEW j \in Jobs
      PROVE  Back(js[j].files) \in [Files -> FileStatus]
  BY DEF Back, Job, FileStatus
<1>2. ASSUME NEW j \in Jobs
      PROVE  Reloaded(js)[j] = [status |-> IF js[j].status = "running" THEN "queued" ELSE js[j].status,
                cancel |-> js[j].cancel, pause |-> FALSE, files |-> Back(js[j].files)]
  BY DEF Reloaded, Job
<1>3. ASSUME NEW j \in Jobs
      PROVE  Reloaded(js)[j] \in Job
  <2> DEFINE status == IF js[j].status = "running" THEN "queued" ELSE js[j].status
             files == Back(js[j].files)
  <2>1. js[j] \in Job
    OBVIOUS
  <2>2. /\ status \in {"none", "queued", "running", "paused"} \cup Finished
        /\ js[j].cancel \in BOOLEAN
    BY <2>1 DEF Job
  <2>3. files \in [Files -> FileStatus]
    BY <1>1
  <2>4. Reloaded(js)[j] = [status |-> status, cancel |-> js[j].cancel, pause |-> FALSE, files |-> files]
    BY <1>2
  <2> HIDE DEF status, files
  <2> QED
    BY <2>2, <2>3, <2>4 DEF Job
<1>4. Reloaded(js) = [j \in Jobs |-> Reloaded(js)[j]]
  BY DEF Reloaded
<1>5. Reloaded(js) \in [Jobs -> Job]
  BY <1>3, <1>4
<1> QED
  BY <1>2, <1>5 DEF Back

(* A job gets another status. *)
LEMMA Statuses ==
  ASSUME NEW js \in [Jobs -> Job], NEW j \in Jobs,
         NEW status \in {"none", "queued", "running", "paused"} \cup Finished
  PROVE  [js EXCEPT ![j].status = status] \in [Jobs -> Job]
<1>1. js[j] \in Job
  OBVIOUS
<1>2. [js[j] EXCEPT !.status = status] \in Job
  BY <1>1 DEF Job
<1> QED
  BY <1>2

(* What a pump leaves: nothing new, or a fresh run of a job in hand. *)
LEMMA Pumps ==
  ASSUME NEW js \in [Jobs -> Job], NEW q, Shapes, Pump(js, q)
  PROVE  \/ jobs' = js /\ run' = run
         \/ /\ run.job = NoJob
            /\ \E j : /\ jobs' = [js EXCEPT ![j].status = "running"]
                      /\ run' = [NoRun EXCEPT !.job = j,
                                   !.left = {f \in Files : js[j].files[f] = "pending"}]
  BY DEF Pump, PumpStarts, Running

(* A job that is started is one that exists in memory as running, with the *)
(* pending files planned and nothing asked of the run.                     *)
LEMMA Starts ==
  ASSUME NEW js \in [Jobs -> Job], NEW j,
         jobs' = [js EXCEPT ![j].status = "running"],
         run' = [NoRun EXCEPT !.job = j, !.left = {f \in Files : js[j].files[f] = "pending"}]
  PROVE  /\ jobs' \in [Jobs -> Job]
         /\ RunShape'
         /\ RunIsRunning' /\ PlanAgrees' /\ AbortHasReason'
<1> USE QueueAssumption
<1>1. /\ run'.job = j /\ run'.left = {f \in Files : js[j].files[f] = "pending"}
      /\ run'.opening = NoFile /\ run'.skips = {} /\ run'.aborted = FALSE
  BY DEF NoRun
<1>2. jobs' \in [Jobs -> Job]
  BY DEF Job
<1>3. j \in Jobs => jobs'[j].status = "running" /\ jobs'[j].files = js[j].files
  BY DEF Job
<1> QED
  BY <1>1, <1>2, <1>3 DEF NoRun, RunShape, RunIsRunning, PlanAgrees, AbortHasReason

(* A file of a job gets another status: patchFile, and what it leaves.     *)
Patch(js, j, f, status) == [js EXCEPT ![j].files[f] = status]
OnlyFile(after, js, j, f, status) ==
  \A k \in Jobs :
    /\ k # j => after[k] = js[k]
    /\ after[k].status = js[k].status
    /\ after[k].cancel = js[k].cancel /\ after[k].pause = js[k].pause
    /\ \A g \in Files :
         after[k].files[g] = IF k = j /\ g = f THEN status ELSE js[k].files[g]

LEMMA Patches ==
  ASSUME NEW js \in [Jobs -> Job], NEW j, NEW f \in Files, NEW status \in FileStatus
  PROVE  /\ Patch(js, j, f, status) \in [Jobs -> Job]
         /\ OnlyFile(Patch(js, j, f, status), js, j, f, status)
<1> DEFINE files == [js[j].files EXCEPT ![f] = status]
           patched == Patch(js, j, f, status)
<1>1. CASE j \notin Jobs
  <2>1. Patch(js, j, f, status) = js
    BY <1>1 DEF Patch
  <2> QED
    BY <1>1, <2>1 DEF OnlyFile
<1>2. CASE j \in Jobs
  <2>1. files \in [Files -> FileStatus]
    BY <1>2 DEF Job
  <2>2. patched = [js EXCEPT ![j] = [js[j] EXCEPT !.files = files]]
    BY <1>2 DEF Job, Patch
  <2>3. [js[j] EXCEPT !.files = files] =
          [status |-> js[j].status, cancel |-> js[j].cancel, pause |-> js[j].pause, files |-> files]
    BY <1>2 DEF Job
  <2>4. patched \in [Jobs -> Job]
    BY <1>2, <2>1, <2>2, <2>3 DEF Job
  <2> HIDE DEF patched
  <2>5. patched[j] = [status |-> js[j].status, cancel |-> js[j].cancel,
                      pause |-> js[j].pause, files |-> files]
    BY <1>2, <2>2, <2>3
  <2>6. \A k \in Jobs : k # j => patched[k] = js[k]
    BY <1>2, <2>2
  <2>7. \A g \in Files : files[g] = IF g = f THEN status ELSE js[j].files[g]
    BY <1>2 DEF Job
  <2>8. /\ patched[j].status = js[j].status /\ patched[j].cancel = js[j].cancel
        /\ patched[j].pause = js[j].pause /\ patched[j].files = files
    BY <2>5
  <2>9. ASSUME NEW k \in Jobs
        PROVE  /\ k # j => patched[k] = js[k]
               /\ patched[k].status = js[k].status /\ patched[k].cancel = js[k].cancel
               /\ patched[k].pause = js[k].pause
               /\ \A g \in Files : patched[k].files[g] =
                    IF k = j /\ g = f THEN status ELSE js[k].files[g]
    <3> HIDE DEF files
    <3>1. CASE k = j
      BY <2>7, <2>8, <3>1
    <3>2. CASE k # j
      BY <2>6, <3>2
    <3> QED
      BY <3>1, <3>2
  <2> QED
    BY <2>4, <2>9 DEF patched, OnlyFile
<1> QED
  BY <1>1, <1>2

(* After a step that is written to the queue file nothing can be lost. *)
LEMMA SavedIsKept == Save => NothingLost'
  BY DEF Save, NothingLost, Reloaded

(* ... nor after one that changes neither the records nor the file. *)
LEMMA StillKept ==
  ASSUME NothingLost, UNCHANGED <<jobs, queue, store>>, run'.skips = run.skips
  PROVE  NothingLost'
<1>1. Reloaded(jobs)' = Reloaded(jobs) /\ Reloaded(store.jobs)' = Reloaded(store.jobs)
  BY DEF Reloaded
<1> QED
  BY <1>1 DEF NothingLost

-----------------------------------------------------------------------------
(* What the user does. The step is written to the queue file, and either   *)
(* leaves the job of the run alone or asks something of it.                *)

(* A step that leaves the run and the record of its job alone *)
LEMMA OthersEdited ==
  ASSUME IInv, jobs' \in [Jobs -> Job], phase # "down", UNCHANGED <<phase, run>>, Save,
         run.job \in Jobs => jobs'[run.job] = jobs[run.job]
  PROVE  IInv'
<1>1. Shapes'
  BY DEF IInv, Shapes, Save, RunShape
<1>2. DownIdle'
  BY DEF DownIdle
<1>3. RunIsRunning' /\ PlanAgrees' /\ AbortHasReason'
  BY DEF IInv, RunIsRunning, PlanAgrees, AbortHasReason
<1> QED
  BY <1>1, <1>2, <1>3, SavedIsKept DEF IInv

(* A step that ends in a pump *)
LEMMA PumpKeeps ==
  ASSUME IInv, NEW js \in [Jobs -> Job], NEW q, Pump(js, q), Save,
         phase # "down", UNCHANGED phase,
         run.job \in Jobs => js[run.job] = jobs[run.job]
  PROVE  IInv'
<1> USE QueueAssumption
<1>1. CASE jobs' = js /\ run' = run
  BY <1>1, OthersEdited
<1>2. CASE \E j : /\ jobs' = [js EXCEPT ![j].status = "running"]
                  /\ run' = [NoRun EXCEPT !.job = j,
                               !.left = {f \in Files : js[j].files[f] = "pending"}]
  <2>0. PICK j : /\ jobs' = [js EXCEPT ![j].status = "running"]
                 /\ run' = [NoRun EXCEPT !.job = j,
                              !.left = {f \in Files : js[j].files[f] = "pending"}]
    BY <1>2
  <2>1. /\ jobs' \in [Jobs -> Job]
        /\ RunShape'
        /\ RunIsRunning' /\ PlanAgrees' /\ AbortHasReason'
    BY <2>0, Starts
  <2>2. Shapes'
    BY <2>1 DEF IInv, Shapes, Save, RunShape
  <2> QED
    BY <2>1, <2>2, SavedIsKept DEF IInv, DownIdle
<1> QED
  BY <1>1, <1>2, Pumps DEF IInv

LEMMA UserKeeps == IInv /\ User => IInv'
<1> SUFFICES ASSUME IInv, User PROVE IInv'
  OBVIOUS
<1> USE QueueAssumption
<1>0. Shapes /\ RunIsRunning /\ PlanAgrees
  BY DEF IInv
<1>a. jobs \in [Jobs -> Job]
  BY DEF IInv, Shapes, RunShape
<1>1. ASSUME NEW j \in Jobs, Enqueue(j) PROVE IInv'
  <2>1. [jobs EXCEPT ![j].status = "queued"] \in [Jobs -> Job]
    BY <1>a, Statuses
  <2>2. run.job \in Jobs => run.job # j
    BY <1>0, <1>1 DEF Enqueue, RunIsRunning
  <2> QED
    <3>1. run.job \in Jobs => [jobs EXCEPT ![j].status = "queued"][run.job] = jobs[run.job]
      BY <1>a, <2>2
    <3> QED
      BY <1>1, <2>1, <3>1, PumpKeeps DEF Enqueue
<1>2. ASSUME NEW j \in Jobs, Resume(j) PROVE IInv'
  <2>1. [jobs EXCEPT ![j].status = "queued"] \in [Jobs -> Job]
    BY <1>a, Statuses
  <2>2. run.job \in Jobs => run.job # j
    BY <1>0, <1>2 DEF Resume, RunIsRunning
  <2> QED
    <3>1. run.job \in Jobs => [jobs EXCEPT ![j].status = "queued"][run.job] = jobs[run.job]
      BY <1>a, <2>2
    <3> QED
      BY <1>2, <2>1, <3>1, PumpKeeps DEF Resume, Asked
<1>3. ASSUME NEW j \in Jobs, PauseQueued(j) PROVE IInv'
  <2>1. jobs' \in [Jobs -> Job]
    <3>1. jobs' = [jobs EXCEPT ![j].status = "paused"]
      BY <1>3 DEF PauseQueued
    <3> QED
      BY <1>a, <3>1, Statuses
  <2>2. run.job \in Jobs => run.job # j
    BY <1>0, <1>3 DEF PauseQueued, RunIsRunning
  <2> QED
    BY <1>0, <1>3, <2>1, <2>2, OthersEdited DEF PauseQueued, Asked, Shapes, RunShape
<1>4. ASSUME NEW j \in Jobs, RemoveJob(j) PROVE IInv'
  <2>1. jobs' \in [Jobs -> Job]
    BY <1>0, <1>4 DEF Shapes, RemoveJob, NewJob, Job, FileStatus, RunShape
  <2>2. run.job \in Jobs => run.job # j
    BY <1>0, <1>4 DEF RemoveJob, RunIsRunning
  <2> QED
    BY <1>0, <1>4, <2>1, <2>2, OthersEdited DEF RemoveJob, Asked, Shapes, RunShape
<1>5. ASSUME NEW j \in Jobs, NEW f \in Files, Drop(j, f) PROVE IInv'
  <2>1. jobs' \in [Jobs -> Job]
    <3>1. jobs' = [jobs EXCEPT ![j] = NewJob(j)] \/ jobs' = Patch(jobs, j, f, "dropped")
      BY <1>5 DEF Drop, Patch
    <3>2. NewJob(j) \in Job
      BY DEF NewJob, Job, FileStatus
    <3>3. "dropped" \in FileStatus
      BY DEF FileStatus
    <3> QED
      BY <1>a, <3>1, <3>2, <3>3, Patches
  <2>2. run.job \in Jobs => jobs'[run.job] = jobs[run.job]
    BY <1>0, <1>5 DEF Drop, RunIsRunning, Shapes, RunShape
  <2> QED
    BY <1>5, <2>1, <2>2, OthersEdited DEF Drop, Asked
<1>6. CASE Reorder
  BY <1>0, <1>6, OthersEdited DEF Reorder, Asked, Shapes, RunShape
<1>7. ASSUME NEW j \in Jobs, Cancel(j) PROVE IInv'
  <2>0. jobs' \in [Jobs -> Job]
    <3>1. jobs' = [jobs EXCEPT ![j].cancel = TRUE]
      BY <1>7 DEF Cancel
    <3>2. [jobs[j] EXCEPT !.cancel = TRUE] \in Job
      <4>1. jobs[j] \in Job
        BY <1>a
      <4> QED
        BY <4>1 DEF Job
    <3> QED
      BY <1>a, <3>1, <3>2
  <2>1. Shapes'
    BY <1>0, <1>7, <2>0 DEF Shapes, Cancel, Asked, Save, RunShape
  <2>2. run' = [run EXCEPT !.aborted = TRUE] /\ jobs' = [jobs EXCEPT ![j].cancel = TRUE] /\ run.job = j
    BY <1>7 DEF Cancel
  <2>3. RunIsRunning' /\ PlanAgrees' /\ AbortHasReason'
    BY <1>0, <2>2 DEF Shapes, Job, RunIsRunning, PlanAgrees, AbortHasReason, RunShape
  <2> QED
    BY <1>7, <2>1, <2>3, SavedIsKept DEF IInv, Cancel, Asked, DownIdle
<1>8. ASSUME NEW j \in Jobs, PauseRunning(j) PROVE IInv'
  <2>0. jobs' \in [Jobs -> Job]
    <3>1. jobs' = [jobs EXCEPT ![j].pause = TRUE]
      BY <1>8 DEF PauseRunning
    <3>2. [jobs[j] EXCEPT !.pause = TRUE] \in Job
      <4>1. jobs[j] \in Job
        BY <1>a
      <4> QED
        BY <4>1 DEF Job
    <3> QED
      BY <1>a, <3>1, <3>2
  <2>1. Shapes'
    BY <1>0, <1>8, <2>0 DEF Shapes, PauseRunning, Asked, Save, RunShape
  <2>2. run' = [run EXCEPT !.aborted = TRUE] /\ jobs' = [jobs EXCEPT ![j].pause = TRUE] /\ run.job = j
    BY <1>8 DEF PauseRunning
  <2>3. RunIsRunning' /\ PlanAgrees' /\ AbortHasReason'
    BY <1>0, <2>2 DEF Shapes, Job, RunIsRunning, PlanAgrees, AbortHasReason, RunShape
  <2> QED
    BY <1>8, <2>1, <2>3, SavedIsKept DEF IInv, PauseRunning, Asked, DownIdle
<1>9. ASSUME NEW f \in Files, Skip(f) PROVE IInv'
  <2>1. /\ run' = [run EXCEPT !.skips = @ \cup {f}] /\ phase' = phase /\ phase # "down" /\ Save
        /\ jobs' = jobs \/ jobs' = Patch(jobs, run.job, f, "canceled")
    BY <1>9 DEF Skip, Asked, Patched, Patch
  <2>2. jobs' \in [Jobs -> Job]
    <3>1. "canceled" \in FileStatus
      BY DEF FileStatus
    <3>2. CASE jobs' = jobs
      BY <1>a, <3>2
    <3>3. CASE jobs' = Patch(jobs, run.job, f, "canceled")
      BY <1>a, <3>1, <3>3, Patches
    <3> QED
      BY <2>1, <3>2, <3>3
  <2>3. Shapes'
    BY <1>0, <2>1, <2>2 DEF Shapes, Save, RunShape
  <2>4. run.job \in Jobs =>
          /\ jobs'[run.job].status = jobs[run.job].status
          /\ jobs'[run.job].cancel = jobs[run.job].cancel
          /\ jobs'[run.job].pause = jobs[run.job].pause
          /\ \A g \in Files \ {f} : jobs'[run.job].files[g] = jobs[run.job].files[g]
    <3>1. "canceled" \in FileStatus
      BY DEF FileStatus
    <3>2. CASE jobs' = jobs
      BY <1>a, <3>2
    <3>3. CASE jobs' = Patch(jobs, run.job, f, "canceled")
      <4>1. OnlyFile(jobs', jobs, run.job, f, "canceled")
        BY <1>a, <3>1, <3>3, Patches
      <4> QED
        BY <4>1 DEF OnlyFile
    <3> QED
      BY <2>1, <3>2, <3>3
  <2>5. RunIsRunning' /\ AbortHasReason'
    BY <1>0, <2>1, <2>4 DEF IInv, Shapes, RunIsRunning, AbortHasReason, RunShape
  <2>6. PlanAgrees'
    BY <1>0, <2>1, <2>4 DEF Shapes, PlanAgrees, RunShape
  <2> QED
    BY <2>1, <2>3, <2>5, <2>6, SavedIsKept DEF IInv, DownIdle
<1> QED
  BY <1>1, <1>2, <1>3, <1>4, <1>5, <1>6, <1>7, <1>8, <1>9 DEF User

-----------------------------------------------------------------------------
(* The engine *)

(* A file is settled, and that is written to the queue file. *)
LEMMA FileSettled ==
  ASSUME IInv, NEW f \in Files, NEW status \in FileStatus, phase # "down", UNCHANGED phase, Save,
         jobs' = Patch(jobs, run.job, f, status), RunShape',
         run'.job = run.job, run'.left = run.left \ {f}, run'.skips = run.skips,
         (run'.opening = run.opening /\ run.opening # f) \/ run'.opening = NoFile,
         run'.aborted = run.aborted, run'.slow = run.slow
  PROVE  IInv'
<1> USE QueueAssumption
<1>0. jobs \in [Jobs -> Job]
  BY DEF IInv, Shapes, RunShape
<1>1. jobs' \in [Jobs -> Job] /\ OnlyFile(jobs', jobs, run.job, f, status)
  BY <1>0, Patches
<1>2. Shapes'
  BY <1>1 DEF IInv, Shapes, Save, RunShape
<1>3. RunIsRunning' /\ AbortHasReason'
  BY <1>1 DEF IInv, RunIsRunning, AbortHasReason, OnlyFile
<1>4. PlanAgrees'
  <2> SUFFICES ASSUME run.job \in Jobs PROVE PlanAgrees'
    BY DEF PlanAgrees
  <2>1. \A g \in Files : jobs'[run.job].files[g] =
                         IF g = f THEN status ELSE jobs[run.job].files[g]
    BY <1>1 DEF OnlyFile
  <2>2. /\ \A g \in run.left \ run.skips : jobs[run.job].files[g] \in {"pending", "downloading"}
        /\ run.opening \in Files \ run.skips => jobs[run.job].files[run.opening] = "pending"
        /\ run.left \in SUBSET Files
    BY DEF IInv, PlanAgrees, Shapes, RunShape
  <2> QED
    BY <2>1, <2>2 DEF PlanAgrees
<1>5. DownIdle'
  BY DEF DownIdle
<1> QED
  BY <1>2, <1>3, <1>4, <1>5, SavedIsKept DEF IInv

(* Only the engine moves: what it opens is pending, and an abort has a     *)
(* reason.                                                                 *)
LEMMA EngineMoves ==
  ASSUME IInv, phase # "down", UNCHANGED <<phase, jobs, queue, store>>, RunShape',
         run'.job = run.job, run'.left \subseteq run.left, run'.skips = run.skips,
         run'.opening = run.opening
           \/ (run'.opening \in run.left /\ jobs[run.job].files[run'.opening] # "downloading"),
         run.slow => run'.slow,
         run'.aborted => run.aborted \/ run'.slow \/ phase = "closing"
  PROVE  IInv'
<1>1. Shapes'
  BY DEF IInv, Shapes, RunShape
<1>2. RunIsRunning' /\ AbortHasReason' /\ DownIdle'
  BY DEF IInv, RunIsRunning, AbortHasReason, DownIdle
<1>3. PlanAgrees'
  BY DEF IInv, PlanAgrees
<1>4. NothingLost'
  BY StillKept DEF IInv
<1> QED
  BY <1>1, <1>2, <1>3, <1>4 DEF IInv

(* The download of a file starts, which the queue file does not show: it   *)
(* was pending, and it will be again after a restart.                      *)
LEMMA DownloadStarts == IInv /\ OpenedToDownload => IInv'
<1> SUFFICES ASSUME IInv, OpenedToDownload PROVE IInv'
  OBVIOUS
<1> USE QueueAssumption
<1> DEFINE f == run.opening
<1>0. /\ Shapes /\ jobs \in [Jobs -> Job] /\ store.jobs \in [Jobs -> Job]
  BY DEF IInv, Shapes, RunShape
<1>1. /\ f \in Files /\ phase # "down" /\ phase' = phase
      /\ run' = [run EXCEPT !.opening = NoFile] /\ UNCHANGED <<store, queue>>
      /\ jobs' = Patch(jobs, run.job, f, "downloading")
  BY <1>0 DEF OpenedToDownload, engineKeeps, Shapes, Patched, Patch, RunShape
<1>2. jobs' \in [Jobs -> Job] /\ OnlyFile(jobs', jobs, run.job, f, "downloading")
  <2>1. "downloading" \in FileStatus
    BY DEF FileStatus
  <2> QED
    BY <1>0, <1>1, <2>1, Patches
<1>3. /\ RunShape' /\ run'.job = run.job /\ run'.left = run.left /\ run'.opening = NoFile
      /\ run'.skips = run.skips /\ run'.aborted = run.aborted /\ run'.slow = run.slow
  BY <1>0, <1>1 DEF Shapes, RunShape
<1> HIDE DEF f
<1>4. Shapes'
  BY <1>0, <1>1, <1>2, <1>3 DEF Shapes, RunShape
<1>5. RunIsRunning' /\ AbortHasReason' /\ DownIdle'
  BY <1>1, <1>2, <1>3 DEF IInv, RunIsRunning, AbortHasReason, DownIdle, OnlyFile
<1>6. PlanAgrees'
  <2> SUFFICES ASSUME run.job \in Jobs PROVE PlanAgrees'
    BY <1>3 DEF PlanAgrees
  <2>1. \A g \in Files : jobs'[run.job].files[g] =
                         IF g = f THEN "downloading" ELSE jobs[run.job].files[g]
    BY <1>2 DEF OnlyFile
  <2>2. /\ \A g \in run.left \ run.skips : jobs[run.job].files[g] \in {"pending", "downloading"}
        /\ run.opening \in Files \ run.skips => jobs[run.job].files[run.opening] = "pending"
        /\ run.left \in SUBSET Files
    BY DEF IInv, PlanAgrees, Shapes, RunShape
  <2> QED
    BY <1>3, <2>1, <2>2, NoFile \notin Files DEF PlanAgrees
<1>7. NothingLost'
  <2>1. run.job \in Jobs => jobs[run.job].files[f] = "pending" \/ f \in run.skips
    BY <1>1 DEF IInv, PlanAgrees, f
  <2>2. ASSUME NEW j \in Jobs
        PROVE  /\ Reloaded(store.jobs)[j].status = Reloaded(jobs')[j].status
               /\ Reloaded(store.jobs)[j].cancel = Reloaded(jobs')[j].cancel
               /\ \A g \in Files : \/ Reloaded(store.jobs)[j].files[g] = Reloaded(jobs')[j].files[g]
                                   \/ g \in run.skips
    <3>1. /\ Reloaded(store.jobs)[j].status = Reloaded(jobs)[j].status
          /\ Reloaded(store.jobs)[j].cancel = Reloaded(jobs)[j].cancel
          /\ \A g \in Files : \/ Reloaded(store.jobs)[j].files[g] = Reloaded(jobs)[j].files[g]
                              \/ g \in run.skips
      BY DEF IInv, NothingLost
    <3>2. /\ Reloaded(jobs')[j].status = Reloaded(jobs)[j].status
          /\ Reloaded(jobs')[j].cancel = Reloaded(jobs)[j].cancel
      BY <1>0, <1>2, Reloads DEF OnlyFile
    <3>3. ASSUME NEW g \in Files \ run.skips
          PROVE  Reloaded(jobs')[j].files[g] = Reloaded(jobs)[j].files[g]
      BY <1>0, <1>2, <2>1, Reloads DEF OnlyFile
    <3> QED
      BY <3>1, <3>2, <3>3
  <2>3. queue' = store'.queue
    BY <1>1 DEF IInv, NothingLost
  <2>4. Reloaded(store.jobs)' = Reloaded(store.jobs) /\ Reloaded(jobs)' = Reloaded(jobs')
    BY <1>1 DEF Reloaded
  <2> QED
    BY <1>3, <2>2, <2>3, <2>4 DEF NothingLost
<1> QED
  BY <1>4, <1>5, <1>6, <1>7 DEF IInv

LEMMA EngineKeeps == IInv /\ Engine => IInv'
<1> SUFFICES ASSUME IInv, Engine PROVE IInv'
  OBVIOUS
<1> USE QueueAssumption
<1>0. RunShape
  BY DEF IInv, Shapes
<1>a. {"succeeded", "failed", "canceled"} \subseteq FileStatus
  BY DEF FileStatus
<1>1. ASSUME NEW f \in Files, OpenFile(f) PROVE IInv'
  <2>1. CASE f \in run.skips
    <3>1. jobs' = Patch(jobs, run.job, f, "canceled") /\ run' = [run EXCEPT !.left = @ \ {f}]
      BY <1>1, <2>1 DEF OpenFile, Patched, Patch, SettleFile
    <3>2. RunShape' /\ run.opening = NoFile /\ Save /\ phase # "down" /\ UNCHANGED phase
      BY <1>0, <1>1, <2>1, <3>1 DEF RunShape, OpenFile, engineKeeps, Going
    <3> QED
      BY <1>0, <1>a, <3>1, <3>2, FileSettled DEF RunShape
  <2>2. CASE f \notin run.skips
    <3>1. run' = [run EXCEPT !.opening = f]
      BY <1>1, <2>2 DEF OpenFile
    <3> QED
      BY <1>0, <1>1, <2>2, <3>1, EngineMoves DEF RunShape, OpenFile, engineKeeps, Going
  <2> QED
    BY <2>1, <2>2
<1>2. ASSUME NEW f \in Files, FileSucceeds(f) PROVE IInv'
  <2>1. jobs' = Patch(jobs, run.job, f, "succeeded") /\ run' = [run EXCEPT !.left = @ \ {f}]
    BY <1>2 DEF FileSucceeds, Patched, Patch, SettleFile
  <2> QED
    BY <1>0, <1>a, <1>2, <2>1, FileSettled DEF RunShape, FileSucceeds, engineKeeps, Being
<1>3. ASSUME NEW f \in Files, FileFails(f) PROVE IInv'
  <2>1. /\ jobs' = Patch(jobs, run.job, f, "failed")
        /\ run' = [run EXCEPT !.left = @ \ {f}, !.failed = TRUE]
    BY <1>3 DEF FileFails, Patched, Patch
  <2>2. /\ RunShape' /\ run'.job = run.job /\ run'.left = run.left \ {f} /\ run'.skips = run.skips
        /\ run'.opening = run.opening /\ run'.aborted = run.aborted /\ run'.slow = run.slow
    BY <1>0, <2>1 DEF RunShape
  <2> QED
    BY <1>0, <1>a, <1>3, <2>1, <2>2, FileSettled DEF FileFails, engineKeeps, Being
<1>4. ASSUME NEW f \in Files, FileCanceled(f) PROVE IInv'
  <2>1. jobs' = Patch(jobs, run.job, f, "canceled") /\ run' = [run EXCEPT !.left = @ \ {f}]
    BY <1>4 DEF FileCanceled, Patched, Patch, SettleFile
  <2> QED
    BY <1>0, <1>a, <1>4, <2>1, FileSettled DEF RunShape, FileCanceled, engineKeeps, Being
<1>5. ASSUME NEW f \in Files, TransferFatal(f) PROVE IInv'
  <2>1. /\ jobs' = Patch(jobs, run.job, f, "failed")
        /\ run' = [run EXCEPT !.left = @ \ {f}, !.fatal = TRUE]
    BY <1>5 DEF TransferFatal, Patched, Patch
  <2>2. /\ RunShape' /\ run'.job = run.job /\ run'.left = run.left \ {f} /\ run'.skips = run.skips
        /\ run'.opening = run.opening /\ run'.aborted = run.aborted /\ run'.slow = run.slow
    BY <1>0, <2>1 DEF RunShape
  <2> QED
    BY <1>0, <1>a, <1>5, <2>1, <2>2, FileSettled DEF TransferFatal, engineKeeps, Being
<1>6. CASE OpenedOnDisk
  <2>1. /\ jobs' = Patch(jobs, run.job, run.opening, "succeeded") /\ run.opening \in Files
        /\ run' = [run EXCEPT !.left = @ \ {run.opening}, !.opening = NoFile]
    BY <1>0, <1>6 DEF RunShape, OpenedOnDisk, Patched, Patch
  <2> QED
    <3>1. /\ RunShape' /\ run'.job = run.job /\ run'.left = run.left \ {run.opening}
          /\ run'.skips = run.skips /\ run'.opening = NoFile
          /\ run'.aborted = run.aborted /\ run'.slow = run.slow
      BY <1>0, <2>1 DEF RunShape
    <3> QED
      BY <1>a, <1>6, <2>1, <3>1, FileSettled DEF OpenedOnDisk, engineKeeps
<1>7. CASE OpenFails
  <2>1. /\ jobs' = Patch(jobs, run.job, run.opening, "failed") /\ run.opening \in Files
        /\ \E full \in BOOLEAN :
             run' = [run EXCEPT !.left = @ \ {run.opening}, !.opening = NoFile,
                                !.fatal = @ \/ full, !.failed = @ \/ ~full]
    BY <1>0, <1>7 DEF RunShape, OpenFails, Patched, Patch
  <2>a. PICK full \in BOOLEAN :
          run' = [run EXCEPT !.left = @ \ {run.opening}, !.opening = NoFile,
                             !.fatal = @ \/ full, !.failed = @ \/ ~full]
    BY <2>1
  <2>b. (run.fatal \/ full) \in BOOLEAN /\ (run.failed \/ ~full) \in BOOLEAN
    OBVIOUS
  <2>2. /\ RunShape' /\ run'.job = run.job /\ run'.left = run.left \ {run.opening} /\ run'.skips = run.skips
        /\ run'.opening = NoFile /\ run'.aborted = run.aborted /\ run'.slow = run.slow
    BY <1>0, <2>a, <2>b DEF RunShape
  <2> QED
    BY <1>0, <1>a, <1>7, <2>1, <2>2, FileSettled DEF OpenFails, engineKeeps
<1>8. CASE NoSpace
  <2>1. run' = [run EXCEPT !.fatal = TRUE]
    BY <1>8 DEF NoSpace
  <2>2. /\ RunShape' /\ run'.job = run.job /\ run'.left = run.left /\ run'.skips = run.skips
        /\ run'.opening = run.opening
        /\ run.slow => run'.slow
        /\ run'.aborted => run.aborted \/ run'.slow \/ phase = "closing"
    BY <1>0, <2>1 DEF RunShape
  <2>3. phase # "down" /\ UNCHANGED <<phase, jobs, queue, store>>
    BY <1>8, <2>1 DEF NoSpace, engineKeeps, Going
  <2> QED
    BY <2>2, <2>3, EngineMoves
<1>9. CASE Stall
  <2>1. run' = [run EXCEPT !.stalled = TRUE]
    BY <1>9 DEF Stall
  <2>2. /\ RunShape' /\ run'.job = run.job /\ run'.left = run.left /\ run'.skips = run.skips
        /\ run'.opening = run.opening
        /\ run.slow => run'.slow
        /\ run'.aborted => run.aborted \/ run'.slow \/ phase = "closing"
    BY <1>0, <2>1 DEF RunShape
  <2>3. phase # "down" /\ UNCHANGED <<phase, jobs, queue, store>>
    BY <1>9, <2>1 DEF Stall, engineKeeps, Going
  <2> QED
    BY <2>2, <2>3, EngineMoves
<1>10. CASE SlowEta
  <2>1. run' = [run EXCEPT !.slow = TRUE, !.aborted = TRUE] /\ phase # "down"
    BY <1>10 DEF SlowEta, Being
  <2>2. /\ RunShape' /\ run'.job = run.job /\ run'.left = run.left /\ run'.skips = run.skips
        /\ run'.opening = run.opening
        /\ run.slow => run'.slow
        /\ run'.aborted => run.aborted \/ run'.slow \/ phase = "closing"
    BY <1>0, <2>1 DEF RunShape
  <2>3. phase # "down" /\ UNCHANGED <<phase, jobs, queue, store>>
    BY <1>10, <2>1 DEF SlowEta, engineKeeps, Going
  <2> QED
    BY <2>2, <2>3, EngineMoves
<1>11. ASSUME NEW f \in Files, FinalizeThrows(f) PROVE IInv'
  <2>1. run' = [run EXCEPT !.left = @ \ {f}]
    BY <1>11 DEF FinalizeThrows, SettleFile
  <2>2. /\ RunShape' /\ run'.job = run.job /\ run'.left \subseteq run.left /\ run'.skips = run.skips
        /\ run'.opening = run.opening /\ run'.aborted = run.aborted /\ run'.slow = run.slow
    BY <1>0, <2>1 DEF RunShape
  <2>3. phase # "down" /\ UNCHANGED <<phase, jobs, queue, store>>
    BY <1>11 DEF FinalizeThrows, engineKeeps, Being
  <2> QED
    BY <2>2, <2>3, EngineMoves
<1> QED
  BY <1>1, <1>2, <1>3, <1>4, <1>5, <1>6, <1>7, <1>8, <1>9, <1>10, <1>11, DownloadStarts
     DEF Engine, FileStep, OpenStep

-----------------------------------------------------------------------------
(* The end of a run, and of the manager *)

(* finalizeJob leaves jobs in their shape. *)
LEMMA FinalizeShape ==
  ASSUME Finalize, jobs \in [Jobs -> Job]
  PROVE  jobs' \in [Jobs -> Job]
<1> DEFINE j == run.job
<1>1. CASE j \notin Jobs
  BY <1>1 DEF Finalize
<1>2. CASE j \in Jobs
  <2>1. /\ jobs[j] \in Job /\ jobs[j].files \in [Files -> FileStatus]
    BY <1>2 DEF Job
  <2>2. Back(jobs[j].files) \in [Files -> FileStatus] /\ Ended(jobs[j].files) \in [Files -> FileStatus]
    BY <2>1 DEF Back, Ended, FileStatus
  <2>3. /\ [jobs[j] EXCEPT !.status = "queued", !.files = Back(@)] \in Job
        /\ [jobs[j] EXCEPT !.status = "paused", !.pause = FALSE, !.files = Back(@)] \in Job
        /\ [jobs[j] EXCEPT !.status = Outcome, !.pause = FALSE, !.files = Ended(@)] \in Job
    BY <2>1, <2>2 DEF Job, Outcome, Finished
  <2>4. \/ jobs' = [jobs EXCEPT ![j] = [jobs[j] EXCEPT !.status = "queued", !.files = Back(@)]]
        \/ jobs' = [jobs EXCEPT ![j] = [jobs[j] EXCEPT !.status = "paused", !.pause = FALSE, !.files = Back(@)]]
        \/ jobs' = [jobs EXCEPT ![j] = [jobs[j] EXCEPT !.status = Outcome, !.pause = FALSE, !.files = Ended(@)]]
    BY <1>2 DEF Finalize
  <2> QED
    BY <2>3, <2>4
<1> QED
  BY <1>1, <1>2

LEMMA FinalizeKeeps == IInv /\ Finalize => IInv'
<1> SUFFICES ASSUME IInv, Finalize PROVE IInv'
  OBVIOUS
<1> USE QueueAssumption
<1>1. jobs' \in [Jobs -> Job]
  BY FinalizeShape DEF IInv, Shapes
<1>2. run' = NoRun /\ phase' = phase /\ phase # "down" /\ Save
  BY DEF Finalize, Settled
<1>3. Shapes'
  BY <1>1, <1>2 DEF IInv, Shapes, RunShape, NoRun, Save
<1>4. DownIdle' /\ RunIsRunning' /\ PlanAgrees' /\ AbortHasReason'
  BY <1>2 DEF NoRun, DownIdle, RunIsRunning, PlanAgrees, AbortHasReason
<1> QED
  BY <1>2, <1>3, <1>4, SavedIsKept DEF IInv

(* The queue is pumped once more. *)
LEMMA PumpLaterKeeps == IInv /\ PumpLater => IInv'
<1> SUFFICES ASSUME IInv, PumpLater PROVE IInv'
  OBVIOUS
<1>0. jobs \in [Jobs -> Job] /\ phase # "down" /\ UNCHANGED phase /\ Pump(jobs, queue)
  BY DEF IInv, Shapes, PumpLater
<1>1. CASE PumpStarts(jobs, queue)
  <2>1. Save
    BY <1>1 DEF PumpLater
  <2> QED
    BY <1>0, <2>1, PumpKeeps
<1>2. CASE ~PumpStarts(jobs, queue)
  <2>1. UNCHANGED <<phase, jobs, queue, run, store>>
    BY <1>2 DEF PumpLater, Pump
  <2> QED
    BY <1>0, <2>1, EngineMoves DEF IInv, Shapes, RunShape
<1> QED
  BY <1>1, <1>2

(* The manager ends: what the file holds is what there is. *)
LEMMA EndKeeps == IInv /\ End => IInv'
<1> SUFFICES ASSUME IInv, End PROVE IInv'
  OBVIOUS
<1> USE QueueAssumption
<1>1. /\ run' = NoRun /\ run'.job = NoJob /\ jobs' = store.jobs /\ queue' = store.queue
      /\ store' = store /\ phase' = "down"
  BY DEF End, NoRun
<1>2. Shapes'
  BY <1>1 DEF IInv, Shapes, RunShape, NoRun
<1>3. DownIdle' /\ RunIsRunning' /\ PlanAgrees' /\ AbortHasReason'
  BY <1>1 DEF DownIdle, RunIsRunning, PlanAgrees, AbortHasReason
<1>4. NothingLost'
  BY <1>1 DEF NothingLost, Reloaded
<1> QED
  BY <1>2, <1>3, <1>4 DEF IInv

(* The manager starts: it takes over what it finds, or starts the first of *)
(* the waiting jobs and writes that down.                                  *)
LEMMA BootKeeps == IInv /\ Boot => IInv'
<1> SUFFICES ASSUME IInv, Boot PROVE IInv'
  OBVIOUS
<1> USE QueueAssumption
<1> DEFINE js == Reloaded(store.jobs)
           waiting == Queued(js, queue)
<1>0. /\ store.jobs \in [Jobs -> Job] /\ js \in [Jobs -> Job] /\ run.job = NoJob
      /\ queue' = queue /\ phase' = "up" /\ queue = store.queue
  BY Reloads DEF IInv, Shapes, DownIdle, NothingLost, Boot
<1>1. CASE waiting = <<>>
  <2>1. jobs' = js /\ run' = run /\ store' = store
    BY <1>1 DEF Boot
  <2>2. Shapes'
    BY <1>0, <2>1 DEF IInv, Shapes, RunShape
  <2>3. DownIdle' /\ RunIsRunning' /\ PlanAgrees' /\ AbortHasReason'
    BY <1>0, <2>1 DEF DownIdle, RunIsRunning, PlanAgrees, AbortHasReason
  <2>4. ASSUME NEW j \in Jobs
        PROVE  /\ js[j].status = Reloaded(js)[j].status /\ js[j].cancel = Reloaded(js)[j].cancel
               /\ \A f \in Files : js[j].files[f] = Reloaded(js)[j].files[f]
    <3> HIDE DEF js
    <3>1. Reloaded(js)[j].status = js[j].status
      <4>1. js[j].status # "running"
        BY <1>0, Reloads DEF js
      <4> QED
        BY <1>0, <4>1, Reloads
    <3>2. ASSUME NEW f \in Files PROVE js[j].files[f] = Reloaded(js)[j].files[f]
      <4>1. js[j].files[f] # "downloading"
        BY <1>0, Reloads DEF js
      <4> QED
        BY <1>0, <4>1, Reloads
    <3>3. Reloaded(js)[j].cancel = js[j].cancel
      BY <1>0, Reloads
    <3> QED
      BY <3>1, <3>2, <3>3
  <2>5. Reloaded(store.jobs)' = js /\ Reloaded(jobs)' = Reloaded(js)
    <3>1. Reloaded(store.jobs)' = js
      BY <2>1 DEF Reloaded
    <3>2. Reloaded(jobs)' = Reloaded(jobs')
      BY DEF Reloaded
    <3> HIDE DEF js
    <3> QED
      BY <2>1, <3>1, <3>2
  <2>6. NothingLost'
    <3> HIDE DEF js
    <3> QED
      BY <1>0, <2>1, <2>4, <2>5 DEF NothingLost
  <2> QED
    BY <2>2, <2>3, <2>6 DEF IInv
<1>2. CASE waiting # <<>>
  <2>1. /\ jobs' = [js EXCEPT ![Head(waiting)].status = "running"]
        /\ run' = [NoRun EXCEPT !.job = Head(waiting),
                     !.left = {f \in Files : js[Head(waiting)].files[f] = "pending"}]
        /\ store' = [jobs |-> jobs', queue |-> queue]
    BY <1>2 DEF Boot
  <2>2. Save
    BY <1>0, <2>1 DEF Save
  <2> HIDE DEF js, waiting
  <2>3. /\ jobs' \in [Jobs -> Job] /\ RunShape'
        /\ RunIsRunning' /\ PlanAgrees' /\ AbortHasReason'
    BY <1>0, <2>1, Starts
  <2>4. Shapes' /\ DownIdle'
    BY <1>0, <2>2, <2>3 DEF Shapes, DownIdle, Save
  <2> QED
    BY <2>2, <2>3, <2>4, SavedIsKept DEF IInv
<1> QED
  BY <1>1, <1>2

-----------------------------------------------------------------------------
(* The theorems *)

LEMMA Inductive == IInv /\ [Next]_vars => IInv'
<1> SUFFICES ASSUME IInv, [Next]_vars PROVE IInv'
  OBVIOUS
<1>0. RunShape
  BY DEF IInv, Shapes
<1>1. CASE BeginShutdown
  <2>1. /\ phase = "up" /\ phase' = "closing"
        /\ UNCHANGED <<jobs, queue, run, store>>
    BY <1>1 DEF BeginShutdown
  <2>2. Shapes' /\ DownIdle' /\ RunIsRunning' /\ PlanAgrees' /\ AbortHasReason'
    <3>1. Shapes' /\ DownIdle' /\ RunIsRunning'
      BY <2>1 DEF IInv, Shapes, RunShape, DownIdle, RunIsRunning
    <3>2. PlanAgrees'
      BY <2>1 DEF IInv, PlanAgrees
    <3>3. AbortHasReason'
      BY <2>1 DEF IInv, AbortHasReason
    <3> QED
      BY <3>1, <3>2, <3>3
  <2>3. NothingLost'
    BY <2>1, StillKept DEF IInv
  <2> QED
    BY <2>2, <2>3 DEF IInv
<1>2. CASE ShutdownActiveJobs
  <2>1. /\ phase = "closing" /\ UNCHANGED <<phase, jobs, queue, store>>
        /\ run' = [run EXCEPT !.aborted = TRUE]
    BY <1>2 DEF ShutdownActiveJobs
  <2>2. /\ RunShape' /\ run'.job = run.job /\ run'.left = run.left /\ run'.skips = run.skips
        /\ run'.opening = run.opening /\ run.slow => run'.slow
    BY <1>0, <2>1 DEF RunShape
  <2> QED
    BY <2>1, <2>2, EngineMoves
<1>3. CASE UNCHANGED vars
  <2>1. Shapes' /\ DownIdle' /\ RunIsRunning' /\ PlanAgrees' /\ AbortHasReason'
    <3>1. Shapes' /\ DownIdle' /\ RunIsRunning'
      BY <1>3 DEF vars, IInv, Shapes, RunShape, DownIdle, RunIsRunning
    <3>2. PlanAgrees'
      BY <1>3 DEF vars, IInv, PlanAgrees
    <3>3. AbortHasReason'
      BY <1>3 DEF vars, IInv, AbortHasReason
    <3> QED
      BY <3>1, <3>2, <3>3
  <2>2. NothingLost'
    BY <1>3, StillKept DEF vars, IInv
  <2> QED
    BY <2>1, <2>2 DEF IInv
<1> QED
  BY <1>1, <1>2, <1>3, UserKeeps, EngineKeeps, FinalizeKeeps, PumpLaterKeeps, EndKeeps, BootKeeps
     DEF Next

(* The strengthened invariant holds in every reachable state. *)
THEOREM Invariance == Spec => []IInv
  BY Initially, Inductive, PTL DEF Spec

(* A crash at any moment loses nothing that was answered or finished,      *)
(* whatever the jobs, their files and the order of the queue.              *)
THEOREM CrashLosesNothing == Spec => []NothingLost
<1>1. IInv => NothingLost
  BY DEF IInv
<1> QED
  BY <1>1, Invariance, PTL

(* A pump cancels nothing. *)
LEMMA PumpSpares ==
  ASSUME Shapes, NEW js \in [Jobs -> Job], NEW q, Pump(js, q), NEW j \in Jobs,
         jobs'[j].status = "canceled"
  PROVE  js[j].status = "canceled"
<1>1. CASE jobs' = js
  BY <1>1
<1>2. CASE \E k : jobs' = [js EXCEPT ![k].status = "running"]
  <2>1. PICK k : jobs' = [js EXCEPT ![k].status = "running"]
    BY <1>2
  <2>2. CASE j = k
    <3>1. jobs'[j].status = "running"
      BY <2>1, <2>2 DEF Job
    <3> QED
      BY <3>1
  <2>3. CASE j # k
    BY <2>1, <2>3
  <2> QED
    BY <2>2, <2>3
<1> QED
  BY <1>1, <1>2, Pumps

(* Only a finalized run whose job was canceled by the user becomes one     *)
(* that is canceled: the abort it ends with had a reason, and every other  *)
(* reason leads back to the queue or to a pause.                           *)
LEMMA StepCancels ==
  IInv /\ [Next]_vars =>
    \A j \in Jobs : jobs[j].status # "canceled" /\ jobs'[j].status = "canceled" => jobs[j].cancel
<1> SUFFICES ASSUME IInv, [Next]_vars, NEW j \in Jobs,
                    jobs[j].status # "canceled", jobs'[j].status = "canceled"
             PROVE  jobs[j].cancel
  OBVIOUS
<1> USE QueueAssumption
<1>0. Shapes /\ jobs \in [Jobs -> Job] /\ store.jobs \in [Jobs -> Job]
  BY DEF IInv, Shapes
<1>1. jobs' # jobs
  OBVIOUS
<1>2. ASSUME NEW k \in Jobs PROVE ~Enqueue(k) /\ ~Resume(k)
  <2> DEFINE js == [jobs EXCEPT ![k].status = "queued"]
  <2>1. js \in [Jobs -> Job]
    BY <1>0 DEF Job
  <2>2. js[j].status # "canceled"
    <3>1. CASE j = k
      <4>1. js[j].status = "queued"
        BY <1>0, <3>1 DEF Job
      <4> QED
        BY <4>1
    <3>2. CASE j # k
      BY <1>0, <3>2
    <3> QED
      BY <3>1, <3>2
  <2>3. ~\E q : Pump(js, q)
    <3> HIDE DEF js
    <3> QED
      BY <1>0, <2>1, <2>2, PumpSpares
  <2> QED
    BY <2>3 DEF Enqueue, Resume
<1>3. ~PumpLater
  BY <1>0, PumpSpares DEF PumpLater
<1>4. ASSUME NEW k \in Jobs
      PROVE  ~Cancel(k) /\ ~PauseRunning(k) /\ ~PauseQueued(k)
  <2>1. ASSUME jobs' = [jobs EXCEPT ![k].cancel = TRUE] PROVE FALSE
    BY <1>0, <2>1 DEF Job
  <2>2. ASSUME jobs' = [jobs EXCEPT ![k].pause = TRUE] PROVE FALSE
    BY <1>0, <2>2 DEF Job
  <2>3. ASSUME jobs' = [jobs EXCEPT ![k].status = "paused"] PROVE FALSE
    BY <1>0, <2>3 DEF Job
  <2> QED
    BY <2>1, <2>2, <2>3 DEF Cancel, PauseRunning, PauseQueued
<1>5. ASSUME NEW k \in Jobs PROVE jobs' # [jobs EXCEPT ![k] = NewJob(k)]
  BY <1>0 DEF NewJob
<1>6. ASSUME NEW k, NEW f \in Files, NEW status \in FileStatus
      PROVE  jobs' # Patch(jobs, k, f, status)
  <2>1. OnlyFile(Patch(jobs, k, f, status), jobs, k, f, status)
    BY <1>0, Patches
  <2>2. Patch(jobs, k, f, status)[j].status = jobs[j].status
    BY <2>1 DEF OnlyFile
  <2> QED
    BY <2>2
<1>7. {"succeeded", "failed", "canceled", "dropped", "downloading"} \subseteq FileStatus
  BY DEF FileStatus
<1>8. ~User
  <2>1. ASSUME NEW k \in Jobs, NEW f \in Files PROVE ~RemoveJob(k) /\ ~Drop(k, f)
    BY <1>5, <1>6, <1>7 DEF RemoveJob, Drop, Patch
  <2>2. ASSUME NEW f \in Files PROVE ~Skip(f)
    BY <1>1, <1>6, <1>7 DEF Skip, Patched, Patch
  <2>3. ~Reorder
    BY <1>1 DEF Reorder
  <2> QED
    BY <1>2, <1>4, <2>1, <2>2, <2>3 DEF User
<1>9. ~Engine
  <2>1. ASSUME NEW f \in Files PROVE ~FileStep(f)
    BY <1>1, <1>6, <1>7
       DEF FileStep, OpenFile, FileSucceeds, FinalizeThrows, FileFails, FileCanceled, TransferFatal, Patched, Patch
  <2>2. ~OpenStep
    <3>1. run.opening # NoFile => run.opening \in Files
      BY <1>0 DEF Shapes, RunShape
    <3>2. ASSUME run.opening \in Files
          PROVE  ~OpenedOnDisk /\ ~OpenedToDownload /\ ~OpenFails
      <4>1. /\ OpenedOnDisk => jobs' = Patch(jobs, run.job, run.opening, "succeeded")
            /\ OpenedToDownload => jobs' = Patch(jobs, run.job, run.opening, "downloading")
            /\ OpenFails => jobs' = Patch(jobs, run.job, run.opening, "failed")
        BY DEF OpenedOnDisk, OpenedToDownload, OpenFails, Patched, Patch
      <4> QED
        BY <1>6, <1>7, <3>2, <4>1
    <3>3. OpenStep => run.opening # NoFile
      BY DEF OpenStep, OpenedOnDisk, OpenedToDownload, OpenFails
    <3> QED
      BY <3>1, <3>2, <3>3 DEF OpenStep
  <2> QED
    BY <1>1, <2>1, <2>2 DEF Engine, NoSpace, Stall, SlowEta
<1>10. ~End
  <2>1. Reloaded(store.jobs)[j].status = Reloaded(jobs)[j].status
    BY DEF IInv, NothingLost
  <2>2. store.jobs[j].status # "canceled"
    BY <1>0, <2>1, Reloads
  <2> QED
    BY <2>2 DEF End
<1>11. ~Boot
  <2>1. ASSUME Boot PROVE FALSE
    <3> DEFINE js == Reloaded(store.jobs)
    <3>1. js \in [Jobs -> Job] /\ js[j].status # "canceled"
      BY <1>0, <2>1, Reloads DEF IInv, DownIdle, Boot
    <3>2. jobs' = js \/ \E k : jobs' = [js EXCEPT ![k].status = "running"]
      BY <2>1 DEF Boot
    <3> HIDE DEF js
    <3>3. ASSUME NEW k, jobs' = [js EXCEPT ![k].status = "running"] PROVE FALSE
      BY <3>1, <3>3 DEF Job
    <3> QED
      BY <3>1, <3>2, <3>3
  <2> QED
    BY <2>1
<1>12. ASSUME Finalize PROVE jobs[j].cancel
  <2>1. CASE Requeued \/ Paused
    <3>1. \/ jobs' = [jobs EXCEPT ![run.job].status = "queued", ![run.job].files = Back(@)]
          \/ jobs' = [jobs EXCEPT ![run.job].status = "paused", ![run.job].pause = FALSE,
                                  ![run.job].files = Back(@)]
      BY <1>12, <2>1 DEF Finalize
    <3>2. CASE run.job # j
      BY <1>0, <3>1, <3>2
    <3>3. CASE run.job = j
      <4>1. jobs'[j].status \in {"queued", "paused"}
        BY <1>0, <3>1, <3>3 DEF Job
      <4> QED
        BY <4>1
    <3> QED
      BY <3>2, <3>3
  <2>2. CASE ~Requeued /\ ~Paused
    <3>1. jobs' = [jobs EXCEPT ![run.job].status = Outcome, ![run.job].pause = FALSE,
                               ![run.job].files = Ended(@)]
      BY <1>12, <2>2 DEF Finalize
    <3>2. run.job = j
      BY <1>0, <3>1
    <3>3. Outcome = "canceled"
      BY <1>0, <3>1, <3>2 DEF Job
    <3>4. run.aborted
      BY <3>3 DEF Outcome
    <3> QED
      BY <2>2, <3>2, <3>4 DEF IInv, AbortHasReason, Requeued, Paused
  <2> QED
    BY <2>1, <2>2
<1> QED
  BY <1>1, <1>3, <1>8, <1>9, <1>10, <1>11, <1>12
     DEF Next, BeginShutdown, ShutdownActiveJobs, vars

(* Nothing is recorded as canceled unless the user canceled it.            *)
THEOREM OnlyUserCancels == Spec => CanceledByUser
  BY Invariance, StepCancels, PTL DEF Spec, CanceledByUser

-----------------------------------------------------------------------------
(* Type correctness: above all, that the queue holds exactly the jobs that *)
(* are not finished, each once.                                            *)

Open == {"queued", "running", "paused"}

QueueOK(js, q) ==
  /\ q \in Seq(Jobs) /\ IsInjective(q)
  /\ Range(q) = {j \in Jobs : js[j].status \in Open}

(* The rest of what TypeOK says beyond Shapes. *)
RestOK ==
  /\ run.job \in Jobs \cup {NoJob}
  /\ pumpDue \in BOOLEAN
  /\ DOMAIN store = {"jobs", "queue"}
  /\ asks \in 0..MaxAsks /\ ends \in 0..MaxEnds

LEMMA RangeIsToSet ==
  ASSUME NEW s \in Seq(Jobs)
  PROVE  Range(s) = ToSet(s)
  BY DEF Range, ToSet

LEMMA ShapesAreTypes == Shapes /\ RestOK /\ QueueOK(jobs, queue) => TypeOK
  BY RangeIsToSet DEF Shapes, RunShape, RestOK, QueueOK, TypeOK, Run, Open

(* Jobs change, and none opens or closes. *)
LEMMA StayOpen ==
  ASSUME NEW js, NEW after, NEW q, QueueOK(js, q),
         \A j \in Jobs : after[j].status \in Open <=> js[j].status \in Open
  PROVE  QueueOK(after, q)
  BY DEF QueueOK

(* A job closes and leaves the queue. *)
LEMMA OneCloses ==
  ASSUME NEW js, NEW after, NEW q, QueueOK(js, q), NEW j \in Jobs, after[j].status \notin Open,
         \A k \in Jobs \ {j} : after[k].status = js[k].status
  PROVE  QueueOK(after, Only(q, Jobs \ {j}))
<1>1. /\ Only(q, Jobs \ {j}) \in Seq(Jobs)
      /\ Range(Only(q, Jobs \ {j})) = Range(q) \cap (Jobs \ {j})
      /\ IsInjective(Only(q, Jobs \ {j}))
  BY OnlyKeeps, OnlyInjective DEF QueueOK
<1> QED BY <1>1 DEF QueueOK

(* A job opens and joins the queue. *)
LEMMA OneOpens ==
  ASSUME NEW js, NEW after, NEW q, QueueOK(js, q), NEW j \in Jobs,
         js[j].status \notin Open, after[j].status \in Open,
         \A k \in Jobs \ {j} : after[k].status = js[k].status
  PROVE  QueueOK(after, Append(q, j))
<1>1. <<j>> \in Seq(Jobs)
  OBVIOUS
<1>2. Append(q, j) = q \o <<j>>
  BY DEF QueueOK
<1>3. IsInjective(<<j>>) /\ Range(<<j>>) = {j}
  BY DEF IsInjective, Range
<1>4. Range(q) \cap Range(<<j>>) = {}
  BY <1>3 DEF QueueOK
<1>5. q \o <<j>> \in Seq(Jobs) /\ IsInjective(q \o <<j>>)
  BY <1>1, <1>3, <1>4, InjectiveConcat DEF QueueOK
<1>6. Range(q \o <<j>>) = Range(q) \cup {j}
  <2>1. q \in Seq(Jobs)
    BY DEF QueueOK
  <2>2. Range(q \o <<j>>) = Range(q) \cup Range(<<j>>)
    BY <1>1, <2>1, RangeOfConcat
  <2> QED BY <1>3, <2>2
<1> QED BY <1>2, <1>5, <1>6 DEF QueueOK

(* The first of the waiting jobs is one of them. *)
LEMMA FirstWaits ==
  ASSUME NEW js, NEW q \in Seq(Jobs), Queued(js, q) # << >>
  PROVE  Head(Queued(js, q)) \in Jobs /\ js[Head(Queued(js, q))].status = "queued"
<1>1. /\ Queued(js, q) \in Seq(Jobs)
      /\ Range(Queued(js, q)) = Range(q) \cap {j \in Jobs : js[j].status = "queued"}
  BY OnlyKeeps DEF Queued
<1>2. Head(Queued(js, q)) \in Range(Queued(js, q))
  BY <1>1, RangeHead
<1> QED BY <1>1, <1>2

(* A job that starts was open already. *)
LEMMA StartsOpen ==
  ASSUME NEW js \in [Jobs -> Job], NEW q, QueueOK(js, q), NEW j \in Jobs, js[j].status = "queued"
  PROVE  QueueOK([js EXCEPT ![j].status = "running"], q)
<1> DEFINE after == [js EXCEPT ![j].status = "running"]
<1>1. after[j].status = "running"
  BY DEF Job
<1>2. \A k \in Jobs : after[k].status \in Open <=> js[k].status \in Open
  <2>1. \A k \in Jobs : k # j => after[k] = js[k]
    OBVIOUS
  <2> HIDE DEF after
  <2> QED BY <1>1, <2>1 DEF Open
<1> HIDE DEF after
<1>3. QueueOK(after, q)
  BY <1>2, StayOpen
<1> QED BY <1>3 DEF after

LEMMA PumpTypes ==
  ASSUME NEW js \in [Jobs -> Job], NEW q, QueueOK(js, q), Pump(js, q),
         run.job \in Jobs \cup {NoJob}
  PROVE  QueueOK(jobs', q) /\ run'.job \in Jobs \cup {NoJob}
<1>1. CASE PumpStarts(js, q)
  <2> DEFINE j == Head(Queued(js, q))
  <2>1. /\ jobs' = [js EXCEPT ![j].status = "running"]
        /\ run' = [NoRun EXCEPT !.job = j,
                                !.left = {f \in Files : js[j].files[f] = "pending"}]
    BY <1>1 DEF Pump
  <2>2. j \in Jobs /\ js[j].status = "queued"
    BY <1>1, FirstWaits DEF PumpStarts, QueueOK
  <2> HIDE DEF j
  <2>3. run'.job = j
    BY <2>1 DEF NoRun
  <2> QED BY <2>1, <2>2, <2>3, StartsOpen
<1>2. CASE ~PumpStarts(js, q)
  BY <1>2 DEF Pump
<1> QED BY <1>1, <1>2

(* The waiting jobs in another order. *)
LEMMA OrdersOf ==
  ASSUME NEW S \in SUBSET Jobs, IsFiniteSet(S), NEW order \in SetToSeqs(S)
  PROVE  order \in Seq(Jobs) /\ IsInjective(order) /\ Range(order) = S
<1> DEFINE n == Cardinality(S)
<1>1. n \in Nat /\ IsFiniteSet(1..n) /\ Cardinality(1..n) = n
  BY FS_CardinalityType, FS_Interval
<1>2. /\ order \in [1..n -> S]
      /\ \A i, j \in 1..n : i # j => order[i] # order[j]
  BY DEF SetToSeqs
<1> HIDE DEF n
<1>3. order \in Injection(1..n, S)
  BY <1>2 DEF Injection, IsInjective
<1>4. order \in Surjection(1..n, S)
  BY <1>1, <1>3, FS_Injection DEF n
<1>5. order \in Seq(Jobs) /\ DOMAIN order = 1..n
  BY <1>1, <1>2
<1>6. IsInjective(order)
  BY <1>2, <1>5 DEF IsInjective
<1>7. Range(order) = S
  BY <1>2, <1>4, <1>5 DEF Surjection, Range
<1> QED BY <1>5, <1>6, <1>7

LEMMA ReorderTypes ==
  ASSUME QueueOK(jobs, queue), Reorder
  PROVE  QueueOK(jobs', queue')
<1> DEFINE waiting == {j \in Jobs : jobs[j].status = "queued"}
           others == {j \in Jobs : jobs[j].status # "queued"}
           retained == Only(queue, others)
<1>1. queue \in Seq(Jobs) /\ IsInjective(queue)
  BY DEF QueueOK
<1>2. /\ retained \in Seq(Jobs) /\ IsInjective(retained)
      /\ Range(retained) = Range(queue) \cap others
  BY <1>1, OnlyKeeps, OnlyInjective
<1>3. /\ Queued(jobs, queue) \in Seq(Jobs)
      /\ Range(Queued(jobs, queue)) = Range(queue) \cap waiting
  BY <1>1, OnlyKeeps DEF Queued
<1>4. IsFiniteSet(Range(Queued(jobs, queue)))
  BY <1>3, FiniteRange
<1>5. PICK order \in SetToSeqs(Range(Queued(jobs, queue))) : queue' = retained \o order
  BY <1>3, RangeIsToSet DEF Reorder
<1>6. jobs' = jobs
  BY DEF Reorder
<1>7. order \in Seq(Jobs) /\ IsInjective(order) /\ Range(order) = Range(queue) \cap waiting
  <2>1. Range(Queued(jobs, queue)) \in SUBSET Jobs
    BY <1>3
  <2> QED BY <1>3, <1>4, <1>5, <2>1, OrdersOf
<1>8. Range(retained) \cap Range(order) = {}
  BY <1>2, <1>7
<1> HIDE DEF retained
<1>9. /\ queue' \in Seq(Jobs) /\ IsInjective(queue')
      /\ Range(queue') = Range(retained) \cup Range(order)
  BY <1>2, <1>5, <1>7, <1>8, InjectiveConcat, RangeOfConcat
<1>10. Range(queue') = Range(queue)
  <2>1. Range(queue) \subseteq Jobs
    BY <1>1, RangeType
  <2> QED BY <1>2, <1>7, <1>9, <2>1
<1> QED BY <1>6, <1>9, <1>10 DEF QueueOK

(* The status of a job is set. *)
LEMMA StatusSet ==
  ASSUME NEW js \in [Jobs -> Job], NEW j \in Jobs, NEW status
  PROVE  /\ [js EXCEPT ![j].status = status][j].status = status
         /\ \A k \in Jobs \ {j} : [js EXCEPT ![j].status = status][k] = js[k]
  BY DEF Job

(* What the steps that ask something of a job leave open. *)
LEMMA UserTypes ==
  ASSUME Shapes, RestOK, QueueOK(jobs, queue), User
  PROVE  QueueOK(jobs', queue') /\ run'.job \in Jobs \cup {NoJob}
<1>0. /\ jobs \in [Jobs -> Job] /\ RunShape /\ run.job \in Jobs \cup {NoJob}
      /\ queue \in Seq(Jobs)
  BY DEF Shapes, RestOK, QueueOK
<1>1. ASSUME NEW j \in Jobs, Enqueue(j)
      PROVE  QueueOK(jobs', queue') /\ run'.job \in Jobs \cup {NoJob}
  <2> DEFINE js == [jobs EXCEPT ![j].status = "queued"]
  <2>1. js \in [Jobs -> Job]
    BY <1>0, Statuses
  <2>2. js[j].status = "queued" /\ \A k \in Jobs \ {j} : js[k] = jobs[k]
    BY <1>0, StatusSet
  <2>3. jobs[j].status = "none" /\ queue' = Append(queue, j) /\ Pump(js, queue')
    BY <1>1 DEF Enqueue
  <2> HIDE DEF js
  <2>4. jobs[j].status \notin Open /\ js[j].status \in Open
    BY <2>2, <2>3 DEF Open
  <2>5. \A k \in Jobs \ {j} : js[k].status = jobs[k].status
    BY <2>2
  <2>6. QueueOK(js, queue')
    BY <2>3, <2>4, <2>5, OneOpens
  <2> QED BY <1>0, <2>1, <2>3, <2>6, PumpTypes
<1>2. ASSUME NEW j \in Jobs, Resume(j)
      PROVE  QueueOK(jobs', queue') /\ run'.job \in Jobs \cup {NoJob}
  <2> DEFINE js == [jobs EXCEPT ![j].status = "queued"]
  <2>1. js \in [Jobs -> Job]
    BY <1>0, Statuses
  <2>2. js[j].status = "queued" /\ \A k \in Jobs \ {j} : js[k] = jobs[k]
    BY <1>0, StatusSet
  <2>3. jobs[j].status = "paused" /\ queue' = queue /\ Pump(js, queue)
    BY <1>2 DEF Resume
  <2> HIDE DEF js
  <2>4. \A k \in Jobs : js[k].status \in Open <=> jobs[k].status \in Open
    BY <2>2, <2>3 DEF Open
  <2>5. QueueOK(js, queue)
    BY <2>4, StayOpen
  <2> QED BY <1>0, <2>1, <2>3, <2>5, PumpTypes
<1>3. ASSUME NEW j \in Jobs, PauseQueued(j)
      PROVE  QueueOK(jobs', queue') /\ run'.job \in Jobs \cup {NoJob}
  <2>1. jobs[j].status = "queued" /\ queue' = queue /\ run' = run
        /\ jobs' = [jobs EXCEPT ![j].status = "paused"]
    BY <1>3 DEF PauseQueued
  <2>2. jobs'[j].status = "paused" /\ \A k \in Jobs \ {j} : jobs'[k] = jobs[k]
    BY <1>0, <2>1, StatusSet
  <2>3. \A k \in Jobs : jobs'[k].status \in Open <=> jobs[k].status \in Open
    BY <2>1, <2>2 DEF Open
  <2>4. QueueOK(jobs', queue)
    BY <2>3, StayOpen
  <2> QED BY <1>0, <2>1, <2>4
<1>4. ASSUME NEW j \in Jobs, Cancel(j) \/ PauseRunning(j)
      PROVE  QueueOK(jobs', queue') /\ run'.job \in Jobs \cup {NoJob}
  <2>1. queue' = queue /\ run' = [run EXCEPT !.aborted = TRUE]
        /\ \/ jobs' = [jobs EXCEPT ![j].cancel = TRUE]
           \/ jobs' = [jobs EXCEPT ![j].pause = TRUE]
    BY <1>4 DEF Cancel, PauseRunning
  <2>2. \A k \in Jobs : jobs'[k].status = jobs[k].status
    BY <1>0, <2>1 DEF Job
  <2>3. QueueOK(jobs', queue)
    BY <2>2, StayOpen
  <2>4. run'.job = run.job
    BY <1>0, <2>1 DEF RunShape
  <2> QED BY <1>0, <2>1, <2>3, <2>4
<1>5. ASSUME NEW j \in Jobs, jobs' = [jobs EXCEPT ![j] = NewJob(j)],
             queue' = Only(queue, Jobs \ {j}), run' = run
      PROVE  QueueOK(jobs', queue') /\ run'.job \in Jobs \cup {NoJob}
  <2>1. NewJob(j).status \notin Open
    BY DEF NewJob, Open
  <2>2. jobs'[j] = NewJob(j) /\ \A k \in Jobs \ {j} : jobs'[k].status = jobs[k].status
    BY <1>0, <1>5
  <2>3. QueueOK(jobs', Only(queue, Jobs \ {j}))
    BY <2>1, <2>2, OneCloses
  <2> QED BY <1>0, <1>5, <2>3
<1>6. ASSUME NEW j, NEW f \in Files, NEW status \in FileStatus, queue' = queue, run'.job = run.job,
             jobs' = jobs \/ jobs' = Patch(jobs, j, f, status)
      PROVE  QueueOK(jobs', queue') /\ run'.job \in Jobs \cup {NoJob}
  <2>1. OnlyFile(Patch(jobs, j, f, status), jobs, j, f, status)
    BY <1>0, Patches
  <2>2. \A k \in Jobs : jobs'[k].status = jobs[k].status
    BY <1>6, <2>1 DEF OnlyFile
  <2>3. QueueOK(jobs', queue)
    BY <2>2, StayOpen
  <2> QED BY <1>0, <1>6, <2>3
<1>7. "dropped" \in FileStatus /\ "canceled" \in FileStatus
  BY DEF FileStatus
<1>8. ASSUME NEW j \in Jobs, NEW f \in Files, Drop(j, f)
      PROVE  QueueOK(jobs', queue') /\ run'.job \in Jobs \cup {NoJob}
  <2>1. /\ run' = run
        /\ \/ jobs' = [jobs EXCEPT ![j] = NewJob(j)] /\ queue' = Only(queue, Jobs \ {j})
           \/ jobs' = Patch(jobs, j, f, "dropped") /\ queue' = queue
    BY <1>8 DEF Drop, Patch
  <2> QED BY <1>5, <1>6, <1>7, <2>1
<1>9. ASSUME NEW f \in Files, Skip(f)
      PROVE  QueueOK(jobs', queue') /\ run'.job \in Jobs \cup {NoJob}
  <2>1. /\ run' = [run EXCEPT !.skips = @ \cup {f}] /\ queue' = queue
        /\ jobs' = jobs \/ jobs' = Patch(jobs, run.job, f, "canceled")
    BY <1>9 DEF Skip, Patched, Patch
  <2>2. run'.job = run.job
    BY <1>0, <2>1 DEF RunShape
  <2> QED BY <1>6, <1>7, <2>1, <2>2
<1>10. CASE Reorder
  <2>1. run' = run
    BY <1>10 DEF Reorder
  <2> QED BY <1>0, <1>10, <2>1, ReorderTypes
<1>11. ASSUME NEW j \in Jobs, RemoveJob(j)
       PROVE  QueueOK(jobs', queue') /\ run'.job \in Jobs \cup {NoJob}
  BY <1>5, <1>11 DEF RemoveJob
<1> QED BY <1>1, <1>2, <1>3, <1>4, <1>8, <1>9, <1>10, <1>11 DEF User

(* The engine patches files, which opens and closes no job. *)
LEMMA EngineTypes ==
  ASSUME Shapes, RestOK, QueueOK(jobs, queue), Engine
  PROVE  QueueOK(jobs', queue') /\ run'.job \in Jobs \cup {NoJob}
<1>0. jobs \in [Jobs -> Job] /\ RunShape /\ run.job \in Jobs \cup {NoJob}
  BY DEF Shapes, RestOK
<1>1. queue' = queue
  BY DEF Engine, FileStep, OpenFile, FileSucceeds, FinalizeThrows, FileFails, FileCanceled, TransferFatal,
         OpenStep, OpenedOnDisk, OpenedToDownload, OpenFails, NoSpace, Stall, SlowEta, engineKeeps
<1>2. run'.job = run.job
  BY <1>0 DEF Engine, FileStep, OpenFile, FileSucceeds, FinalizeThrows, FileFails, FileCanceled, TransferFatal,
         OpenStep, OpenedOnDisk, OpenedToDownload, OpenFails, NoSpace, Stall, SlowEta,
         SettleFile, RunShape
<1>3. {"succeeded", "failed", "canceled", "downloading"} \subseteq FileStatus
  BY DEF FileStatus
<1>4. \/ jobs' = jobs
      \/ \E f \in Files, status \in FileStatus : jobs' = Patch(jobs, run.job, f, status)
  <2>1. ASSUME NEW f \in Files, FileStep(f)
        PROVE  \/ jobs' = jobs
               \/ \E status \in FileStatus : jobs' = Patch(jobs, run.job, f, status)
    BY <1>3, <2>1 DEF FileStep, OpenFile, FileSucceeds, FinalizeThrows, FileFails, FileCanceled, TransferFatal,
                      Patched, Patch
  <2>2. ASSUME OpenStep
        PROVE  \E f \in Files, status \in FileStatus : jobs' = Patch(jobs, run.job, f, status)
    <3>1. run.opening \in Files
      BY <1>0, <2>2 DEF OpenStep, OpenedOnDisk, OpenedToDownload, OpenFails, RunShape
    <3>2. \E status \in FileStatus : jobs' = Patch(jobs, run.job, run.opening, status)
      BY <1>3, <2>2 DEF OpenStep, OpenedOnDisk, OpenedToDownload, OpenFails, Patched, Patch
    <3> QED BY <3>1, <3>2
  <2> QED BY <2>1, <2>2 DEF Engine, NoSpace, Stall, SlowEta
<1>5. \A k \in Jobs : jobs'[k].status = jobs[k].status
  <2>1. ASSUME NEW f \in Files, NEW status \in FileStatus, jobs' = Patch(jobs, run.job, f, status)
        PROVE  \A k \in Jobs : jobs'[k].status = jobs[k].status
    <3>1. OnlyFile(Patch(jobs, run.job, f, status), jobs, run.job, f, status)
      BY <1>0, Patches
    <3> QED BY <2>1, <3>1 DEF OnlyFile
  <2> QED BY <1>4, <2>1
<1>6. QueueOK(jobs', queue)
  BY <1>5, StayOpen
<1> QED BY <1>0, <1>1, <1>2, <1>6

(* A finalized job stays in the queue, or is finished and leaves it. *)
LEMMA FinalizeTypes ==
  ASSUME Shapes, RunIsRunning, RestOK, QueueOK(jobs, queue), Finalize
  PROVE  QueueOK(jobs', queue') /\ run'.job \in Jobs \cup {NoJob}
<1>0. jobs \in [Jobs -> Job] /\ run.job \in Jobs /\ run'.job = NoJob
  BY DEF Shapes, RestOK, Finalize, Settled, Running, NoRun
<1>1. CASE Requeued \/ Paused
  <2>1. /\ queue' = queue
        /\ \/ jobs' = [jobs EXCEPT ![run.job].status = "queued", ![run.job].files = Back(@)]
           \/ jobs' = [jobs EXCEPT ![run.job].status = "paused", ![run.job].pause = FALSE,
                                   ![run.job].files = Back(@)]
    BY <1>1 DEF Finalize
  <2>2. jobs'[run.job].status \in {"queued", "paused"}
    BY <1>0, <2>1 DEF Job
  <2>3. \A k \in Jobs \ {run.job} : jobs'[k] = jobs[k]
    BY <1>0, <2>1
  <2>4. jobs[run.job].status = "running"
    BY <1>0 DEF RunIsRunning
  <2>5. \A k \in Jobs : jobs'[k].status \in Open <=> jobs[k].status \in Open
    BY <2>2, <2>3, <2>4 DEF Open
  <2>6. QueueOK(jobs', queue)
    BY <2>5, StayOpen
  <2> QED BY <1>0, <2>1, <2>6
<1>2. CASE ~Requeued /\ ~Paused
  <2>1. /\ queue' = Only(queue, Jobs \ {run.job})
        /\ jobs' = [jobs EXCEPT ![run.job].status = Outcome, ![run.job].pause = FALSE,
                                ![run.job].files = Ended(@)]
    BY <1>2 DEF Finalize
  <2>2. jobs'[run.job].status = Outcome
    BY <1>0, <2>1 DEF Job
  <2>3. \A k \in Jobs \ {run.job} : jobs'[k] = jobs[k]
    BY <1>0, <2>1
  <2>4. Outcome \notin Open
    BY DEF Outcome, Open
  <2>5. \A k \in Jobs \ {run.job} : jobs'[k].status = jobs[k].status
    BY <2>3
  <2>6. QueueOK(jobs', Only(queue, Jobs \ {run.job}))
    BY <1>0, <2>2, <2>4, <2>5, OneCloses
  <2> QED BY <1>0, <2>1, <2>6
<1> QED BY <1>1, <1>2

(* What is loaded from the file is open if it was. *)
LEMMA ReloadsOpen ==
  ASSUME NEW js \in [Jobs -> Job], NEW j \in Jobs
  PROVE  Reloaded(js)[j].status \in Open <=> js[j].status \in Open
  BY Reloads DEF Open

LEMMA EndTypes ==
  ASSUME Shapes, RestOK, QueueOK(jobs, queue), NothingLost, End
  PROVE  QueueOK(jobs', queue') /\ run'.job \in Jobs \cup {NoJob}
<1>1. jobs' = store.jobs /\ queue' = queue /\ run'.job = NoJob
  BY DEF End, NothingLost, NoRun
<1>2. ASSUME NEW j \in Jobs PROVE store.jobs[j].status \in Open <=> jobs[j].status \in Open
  <2>1. Reloaded(store.jobs)[j].status = Reloaded(jobs)[j].status
    BY DEF NothingLost
  <2> QED BY <2>1, ReloadsOpen DEF Shapes
<1>3. QueueOK(store.jobs, queue)
  BY <1>2, StayOpen
<1> QED BY <1>1, <1>3

LEMMA BootTypes ==
  ASSUME Shapes, RestOK, QueueOK(jobs, queue), DownIdle, Boot
  PROVE  QueueOK(jobs', queue') /\ run'.job \in Jobs \cup {NoJob}
<1> DEFINE js == Reloaded(store.jobs)
           waiting == Queued(js, queue)
<1>1. /\ store.jobs \in [Jobs -> Job] /\ jobs = store.jobs /\ queue' = queue
      /\ run.job \in Jobs \cup {NoJob}
  BY DEF Shapes, RestOK, DownIdle, Boot
<1>2. js \in [Jobs -> Job]
  BY <1>1, Reloads
<1>3. \A j \in Jobs : js[j].status \in Open <=> jobs[j].status \in Open
  BY <1>1, ReloadsOpen
<1>4. \/ jobs' = js /\ run' = run
      \/ /\ waiting # << >>
         /\ jobs' = [js EXCEPT ![Head(waiting)].status = "running"]
         /\ run' = [NoRun EXCEPT !.job = Head(waiting),
                      !.left = {f \in Files : js[Head(waiting)].files[f] = "pending"}]
  BY DEF Boot
<1> HIDE DEF js
<1>5. QueueOK(js, queue)
  BY <1>3, StayOpen
<1>6. waiting # << >> => Head(waiting) \in Jobs /\ js[Head(waiting)].status = "queued"
  BY <1>5, FirstWaits DEF QueueOK
<1> HIDE DEF waiting
<1>7. CASE jobs' = js /\ run' = run
  BY <1>1, <1>5, <1>7
<1>8. CASE ~(jobs' = js /\ run' = run)
  <2>1. QueueOK([js EXCEPT ![Head(waiting)].status = "running"], queue)
    BY <1>2, <1>4, <1>5, <1>6, <1>8, StartsOpen
  <2>2. run'.job = Head(waiting)
    BY <1>4, <1>8 DEF NoRun
  <2> QED BY <1>1, <1>4, <1>6, <1>8, <2>1, <2>2
<1> QED BY <1>7, <1>8

(* The counters and flags. *)
LEMMA CountersStep ==
  ASSUME RestOK, [Next]_vars
  PROVE  /\ pumpDue' \in BOOLEAN
         /\ DOMAIN store' = {"jobs", "queue"}
         /\ asks' \in 0..MaxAsks /\ ends' \in 0..MaxEnds
<1> USE QueueAssumption
<1>1. DOMAIN store' = {"jobs", "queue"}
  <2>1. Save => DOMAIN store' = {"jobs", "queue"}
    BY DEF Save
  <2>2. store' = store \/ Save \/ store' = [jobs |-> jobs', queue |-> queue]
    <3>1. User => Save
      BY DEF User, Enqueue, Cancel, PauseQueued, PauseRunning, Resume, RemoveJob, Reorder, Drop, Skip
    <3>2. Engine => Save \/ store' = store
      BY DEF Engine, FileStep, OpenFile, FileSucceeds, FinalizeThrows, FileFails, FileCanceled, TransferFatal,
             OpenStep, OpenedOnDisk, OpenedToDownload, OpenFails, NoSpace, Stall, SlowEta
    <3>3. Finalize \/ PumpLater => Save \/ store' = store
      BY DEF Finalize, PumpLater
    <3> QED BY <3>1, <3>2, <3>3
        DEF Next, BeginShutdown, ShutdownActiveJobs, End, Boot, vars
  <2> QED BY <2>1, <2>2 DEF RestOK
<1>2. pumpDue' \in BOOLEAN
  BY DEF RestOK, Next, User, Enqueue, Cancel, PauseQueued, PauseRunning, Resume, RemoveJob, Reorder,
         Drop, Skip, Engine, FileStep, OpenFile, FileSucceeds, FinalizeThrows, FileFails, FileCanceled, TransferFatal,
         OpenStep, OpenedOnDisk, OpenedToDownload, OpenFails, NoSpace, Stall, SlowEta, engineKeeps,
         Finalize, PumpLater, BeginShutdown, ShutdownActiveJobs, End, Boot, vars
<1>3. asks' = asks \/ (asks < MaxAsks /\ asks' = asks + 1)
  BY DEF Asked, Next, User, Enqueue, Cancel, PauseQueued, PauseRunning, Resume, RemoveJob, Reorder,
         Drop, Skip, Engine, FileStep, OpenFile, FileSucceeds, FinalizeThrows, FileFails, FileCanceled, TransferFatal,
         OpenStep, OpenedOnDisk, OpenedToDownload, OpenFails, NoSpace, Stall, SlowEta, engineKeeps,
         Finalize, PumpLater, BeginShutdown, ShutdownActiveJobs, End, Boot, vars
<1>4. ends' = ends \/ (ends < MaxEnds /\ ends' = ends + 1)
  BY DEF Next, User, Enqueue, Cancel, PauseQueued, PauseRunning, Resume, RemoveJob, Reorder,
         Drop, Skip, Engine, FileStep, OpenFile, FileSucceeds, FinalizeThrows, FileFails, FileCanceled, TransferFatal,
         OpenStep, OpenedOnDisk, OpenedToDownload, OpenFails, NoSpace, Stall, SlowEta, engineKeeps,
         Finalize, PumpLater, BeginShutdown, ShutdownActiveJobs, End, Boot, vars
<1> QED BY <1>1, <1>2, <1>3, <1>4 DEF RestOK

LEMMA QueueStep ==
  ASSUME IInv, RestOK, QueueOK(jobs, queue), [Next]_vars
  PROVE  QueueOK(jobs', queue') /\ run'.job \in Jobs \cup {NoJob}
<1>0. /\ Shapes /\ DownIdle /\ NothingLost /\ jobs \in [Jobs -> Job] /\ RunShape
      /\ run.job \in Jobs \cup {NoJob}
  BY DEF IInv, Shapes, RestOK
<1>1. CASE PumpLater
  <2>1. Pump(jobs, queue) /\ queue' = queue
    BY <1>1 DEF PumpLater
  <2> QED BY <1>0, <2>1, PumpTypes
<1>2. CASE BeginShutdown \/ ShutdownActiveJobs \/ UNCHANGED vars
  <2>1. jobs' = jobs /\ queue' = queue
    BY <1>2 DEF BeginShutdown, ShutdownActiveJobs, vars
  <2>2. run'.job = run.job
    BY <1>0, <1>2 DEF BeginShutdown, ShutdownActiveJobs, vars, RunShape
  <2> QED BY <1>0, <2>1, <2>2
<1>3. CASE User
  BY <1>0, <1>3, UserTypes
<1>4. CASE Engine
  BY <1>0, <1>4, EngineTypes
<1>5. CASE Finalize
  BY <1>0, <1>5, FinalizeTypes DEF IInv
<1>6. CASE End
  BY <1>0, <1>6, EndTypes
<1>7. CASE Boot
  BY <1>0, <1>7, BootTypes
<1> QED BY <1>1, <1>2, <1>3, <1>4, <1>5, <1>6, <1>7 DEF Next

(* Whatever is asked and however often the manager ends, the queue holds   *)
(* exactly the jobs that are not finished, each once.                      *)
THEOREM TypeCorrect == Spec => []TypeOK
<1>1. Init => RestOK /\ QueueOK(jobs, queue)
  <2> SUFFICES ASSUME Init PROVE RestOK /\ QueueOK(jobs, queue)
    OBVIOUS
  <2>1. RestOK
    <3>1. run.job = NoJob /\ pumpDue = FALSE /\ asks = 0 /\ ends = 0
      BY DEF Init, NoRun
    <3>2. DOMAIN store = {"jobs", "queue"}
      BY DEF Init
    <3>3. asks \in 0..MaxAsks /\ ends \in 0..MaxEnds
      BY <3>1, QueueAssumption
    <3>4. pumpDue \in BOOLEAN /\ run.job \in Jobs \cup {NoJob}
      BY <3>1
    <3> QED BY <3>2, <3>3, <3>4 DEF RestOK
  <2>2. \A j \in Jobs : jobs[j].status = "none"
    BY DEF Init, NewJob
  <2>3. queue = << >> /\ queue \in Seq(Jobs) /\ IsInjective(queue) /\ Range(queue) = {}
    BY DEF Init, IsInjective, Range
  <2> QED BY <2>1, <2>2, <2>3 DEF QueueOK, Open
<1>2. IInv /\ RestOK /\ QueueOK(jobs, queue) /\ [Next]_vars => (RestOK /\ QueueOK(jobs, queue))'
  BY QueueStep, CountersStep DEF RestOK
<1>3. IInv /\ RestOK /\ QueueOK(jobs, queue) => TypeOK
  BY ShapesAreTypes DEF IInv
<1> QED BY <1>1, <1>2, <1>3, Invariance, PTL DEF Spec

=============================================================================
