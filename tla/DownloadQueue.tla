---------------------------- MODULE DownloadQueue ----------------------------
(* The download queue of the manager: hf/download-queue.ts over the file   *)
(* outcomes of hf/transfer-engine.ts, the queue file of hf/queue-store.ts, *)
(* and the shutdown of jobs/registry.ts.                                   *)
(*                                                                         *)
(* One job at a time is transferred, the first that is queued. The user    *)
(* cancels, pauses, resumes, removes and reorders jobs and drops files at  *)
(* any time; the manager may shut down or crash at any time and loads the  *)
(* queue file when it comes back. Bytes, chunks, retries and connections   *)
(* of the engine are left out: a file ends as it ends.                     *)
EXTENDS Integers, Sequences, FiniteSets, SequencesExt, Lists

CONSTANTS
  Jobs,        \* downloads the user may ask for
  Files,       \* paths in a repository
  FilesOf,     \* the paths each job asks for
  NoFile,      \* no path
  NoJob,       \* no job
  MaxAsks,     \* bound: what the user asks of jobs that are enqueued
  MaxEnds      \* bound: ends of the manager

ASSUME QueueAssumption ==
  /\ NoFile \notin Files /\ NoJob \notin Jobs
  /\ FilesOf \in [Jobs -> (SUBSET Files) \ {{}}]
  /\ MaxAsks \in Nat /\ MaxEnds \in Nat

VARIABLES
  phase,    \* of the manager: "up", "closing" (shuttingDown) or "down"
  jobs,     \* queue and history entries, in memory
  queue,    \* state.queue: the jobs that are not finished, in order
  run,      \* currentRun, and the engine of it
  pumpDue,  \* pump is scheduled (setImmediate)
  store,    \* the queue file
  asks, ends

vars == <<phase, jobs, queue, run, pumpDue, store, asks, ends>>

-----------------------------------------------------------------------------
(* Shapes *)

(* A file found on disk ("skipped") counts as one that has been fetched.   *)
FileStatus == {"pending", "downloading", "succeeded", "failed", "canceled", "dropped"}
Finished == {"succeeded", "failed", "canceled"}
Job == [status : {"none", "queued", "running", "paused"} \cup Finished,
        cancel : BOOLEAN, pause : BOOLEAN, files : [Files -> FileStatus]]
NewJob(j) == [status |-> "none", cancel |-> FALSE, pause |-> FALSE,
              files |-> [f \in Files |-> IF f \in FilesOf[j] THEN "pending" ELSE "dropped"]]

(* The engine of a run: the planned files it has not settled, the one it   *)
(* is opening, the paths the user took out, and how it is to end.          *)
Run == [job : Jobs \cup {NoJob}, left : SUBSET Files, opening : Files \cup {NoFile},
        skips : SUBSET Files, aborted : BOOLEAN, slow : BOOLEAN,
        stalled : BOOLEAN, fatal : BOOLEAN, failed : BOOLEAN]
NoRun == [job |-> NoJob, left |-> {}, opening |-> NoFile, skips |-> {},
          aborted |-> FALSE, slow |-> FALSE, stalled |-> FALSE,
          fatal |-> FALSE, failed |-> FALSE]

Running == run.job # NoJob

(* persist: the queue file holds what is in memory after the step *)
Save == store' = [jobs |-> jobs', queue |-> queue']

(* patchFile *)
Patched(f, status) == [jobs EXCEPT ![run.job].files[f] = status]

-----------------------------------------------------------------------------
(* pump: the first queued job becomes the run. It is called at the end of  *)
(* a handler, with the jobs and the queue that handler leaves.             *)

(* Mutant: only the head of the queue is looked at. *)
BadQueued(js, q) == Only(q, {j \in Jobs : j = Head(q) /\ js[j].status = "queued"})

Queued(js, q) == Only(q, {j \in Jobs : js[j].status = "queued"})
PumpStarts(js, q) == phase = "up" /\ ~Running /\ Queued(js, q) # <<>>

Pump(js, q) ==
  IF PumpStarts(js, q)
  THEN LET j == Head(Queued(js, q))
       IN /\ jobs' = [js EXCEPT ![j].status = "running"]
          /\ run' = [NoRun EXCEPT !.job = j,
                                  !.left = {f \in Files : js[j].files[f] = "pending"}]
  ELSE jobs' = js /\ UNCHANGED run

PumpLater ==
  /\ phase # "down" /\ pumpDue
  /\ pumpDue' = FALSE
  /\ Pump(jobs, queue)
  /\ UNCHANGED <<phase, queue, asks, ends>>
  /\ IF PumpStarts(jobs, queue) THEN Save ELSE UNCHANGED store

-----------------------------------------------------------------------------
(* What the user does *)

(* A command is accepted; commands are bounded. *)
Asked == phase = "up" /\ asks < MaxAsks /\ asks' = asks + 1

(* enqueueHfDownload, once the plan has been fetched *)
Enqueue(j) ==
  /\ phase = "up"
  /\ jobs[j].status = "none"
  /\ queue' = Append(queue, j)
  /\ Pump([jobs EXCEPT ![j].status = "queued"], queue')
  /\ UNCHANGED <<phase, pumpDue, asks, ends>>
  /\ Save

Cancel(j) ==
  /\ Asked
  /\ jobs[j].status = "running" /\ run.job = j
  /\ jobs' = [jobs EXCEPT ![j].cancel = TRUE]
  /\ run' = [run EXCEPT !.aborted = TRUE]
  /\ UNCHANGED <<phase, queue, pumpDue, ends>>
  /\ Save

PauseQueued(j) ==
  /\ Asked
  /\ jobs[j].status = "queued"
  /\ jobs' = [jobs EXCEPT ![j].status = "paused"]
  /\ UNCHANGED <<phase, queue, run, pumpDue, ends>>
  /\ Save

PauseRunning(j) ==
  /\ Asked
  /\ jobs[j].status = "running" /\ run.job = j
  /\ ~jobs[j].cancel /\ ~jobs[j].pause
  /\ jobs' = [jobs EXCEPT ![j].pause = TRUE]
  /\ run' = [run EXCEPT !.aborted = TRUE]
  /\ UNCHANGED <<phase, queue, pumpDue, ends>>
  /\ Save

Resume(j) ==
  /\ Asked
  /\ jobs[j].status = "paused"
  /\ Pump([jobs EXCEPT ![j].status = "queued"], queue)
  /\ UNCHANGED <<phase, queue, pumpDue, ends>>
  /\ Save

(* Mutant: the record goes, its place in the queue stays. *)
BadRemoveJob(j) ==
  /\ Asked
  /\ jobs[j].status \notin {"none", "running"}
  /\ jobs' = [jobs EXCEPT ![j] = NewJob(j)]
  /\ UNCHANGED <<phase, queue, run, pumpDue, ends>>
  /\ Save

(* From the queue, unless it is running, or from the history *)
RemoveJob(j) ==
  /\ Asked
  /\ jobs[j].status \notin {"none", "running"}
  /\ jobs' = [jobs EXCEPT ![j] = NewJob(j)]
  /\ queue' = Only(queue, Jobs \ {j})
  /\ UNCHANGED <<phase, run, pumpDue, ends>>
  /\ Save

(* The queued jobs in a new order, behind all the others *)
Reorder ==
  /\ Asked
  /\ LET retained == Only(queue, {j \in Jobs : jobs[j].status # "queued"})
     IN \E order \in SetToSeqs(ToSet(Queued(jobs, queue))) : queue' = retained \o order
  /\ queue' # queue
  /\ UNCHANGED <<phase, jobs, run, pumpDue, ends>>
  /\ Save

(* skipHfDownloadFiles on a job that is not running: the file is dropped,  *)
(* and with its last file the job                                          *)
Drop(j, f) ==
  /\ Asked
  /\ jobs[j].status \in {"queued", "paused"} /\ jobs[j].files[f] # "dropped"
  /\ IF \A g \in Files \ {f} : jobs[j].files[g] = "dropped"
     THEN /\ jobs' = [jobs EXCEPT ![j] = NewJob(j)]
          /\ queue' = Only(queue, Jobs \ {j})
     ELSE /\ jobs' = [jobs EXCEPT ![j].files[f] = "dropped"]
          /\ UNCHANGED queue
  /\ UNCHANGED <<phase, run, pumpDue, ends>>
  /\ Save

(* On the running one: a pending file is canceled in the record, one that  *)
(* is being downloaded is aborted                                          *)
Skip(f) ==
  /\ Asked /\ Running
  /\ jobs[run.job].files[f] \in {"pending", "downloading"} /\ f \notin run.skips
  /\ run' = [run EXCEPT !.skips = @ \cup {f}]
  /\ jobs' = IF jobs[run.job].files[f] = "pending" THEN Patched(f, "canceled") ELSE jobs
  /\ UNCHANGED <<phase, queue, pumpDue, ends>>
  /\ Save

-----------------------------------------------------------------------------
(* The engine: runHfTransfer, file by file. An abort, a stall or a fatal   *)
(* error stops the workers where they are; a file that is being opened or  *)
(* hashed is finished first.                                               *)

Going == phase # "down" /\ Running /\ ~run.aborted /\ ~run.stalled /\ ~run.fatal
Being(f) == phase # "down" /\ f \in run.left /\ f # run.opening
            /\ jobs[run.job].files[f] = "downloading"
SettleFile(f) == run' = [run EXCEPT !.left = @ \ {f}]
engineKeeps == UNCHANGED <<phase, queue, pumpDue, asks, ends>>

(* openNextFile, until its first await *)
OpenFile(f) ==
  /\ Going /\ run.opening = NoFile
  /\ f \in run.left /\ jobs[run.job].files[f] # "downloading"
  /\ engineKeeps
  /\ IF f \in run.skips
     THEN jobs' = Patched(f, "canceled") /\ SettleFile(f) /\ Save
     ELSE run' = [run EXCEPT !.opening = f] /\ UNCHANGED <<jobs, store>>

(* ... and after it: the file is on disk already, or its download starts,  *)
(* which is not written to the queue file                                  *)
OpenedOnDisk ==
  /\ phase # "down" /\ run.opening # NoFile
  /\ jobs' = Patched(run.opening, "succeeded")
  /\ run' = [run EXCEPT !.left = @ \ {run.opening}, !.opening = NoFile]
  /\ engineKeeps /\ Save

OpenedToDownload ==
  /\ phase # "down" /\ run.opening # NoFile
  /\ jobs' = Patched(run.opening, "downloading")
  /\ run' = [run EXCEPT !.opening = NoFile]
  /\ UNCHANGED store /\ engineKeeps

(* It cannot be opened: this file fails, or with a full disk the transfer. *)
OpenFails ==
  /\ phase # "down" /\ run.opening # NoFile /\ ~run.aborted
  /\ jobs' = Patched(run.opening, "failed")
  /\ \E full \in BOOLEAN :
       run' = [run EXCEPT !.left = @ \ {run.opening}, !.opening = NoFile,
                          !.fatal = @ \/ full, !.failed = @ \/ ~full]
  /\ engineKeeps /\ Save

(* Mutant: a fetched file is recorded in memory only. *)
BadFileSucceeds(f) ==
  /\ Being(f)
  /\ jobs' = Patched(f, "succeeded") /\ SettleFile(f)
  /\ UNCHANGED store /\ engineKeeps

FileSucceeds(f) ==
  /\ Being(f)
  /\ jobs' = Patched(f, "succeeded") /\ SettleFile(f)
  /\ engineKeeps /\ Save

(* Hashing or renaming throws: the file is settled by then, so the error   *)
(* is swallowed and the record stays as it is (finalizeJob cancels it).    *)
FinalizeThrows(f) ==
  /\ Being(f) /\ SettleFile(f)
  /\ UNCHANGED <<jobs, store>> /\ engineKeeps

(* A checksum that does not match, or attempts that led nowhere *)
FileFails(f) ==
  /\ Being(f)
  /\ jobs' = Patched(f, "failed")
  /\ run' = [run EXCEPT !.left = @ \ {f}, !.failed = TRUE]
  /\ engineKeeps /\ Save

(* The file was skipped, or all active ones are aborted by a fatal error. *)
FileCanceled(f) ==
  /\ Being(f) /\ (f \in run.skips \/ run.fatal)
  /\ jobs' = Patched(f, "canceled") /\ SettleFile(f)
  /\ engineKeeps /\ Save

(* Not authorised, or the disk is full: the file fails and the transfer    *)
TransferFatal(f) ==
  /\ Going /\ Being(f)
  /\ jobs' = Patched(f, "failed")
  /\ run' = [run EXCEPT !.left = @ \ {f}, !.fatal = TRUE]
  /\ engineKeeps /\ Save

(* The space check before the transfer *)
NoSpace ==
  /\ Going /\ run.opening = NoFile
  /\ run.left = {f \in Files : jobs[run.job].files[f] = "pending"}
  /\ run' = [run EXCEPT !.fatal = TRUE]
  /\ UNCHANGED <<jobs, store>> /\ engineKeeps

(* declareStall *)
Stall ==
  /\ Going /\ run.left # {}
  /\ run' = [run EXCEPT !.stalled = TRUE]
  /\ UNCHANGED <<jobs, store>> /\ engineKeeps

(* maybePauseOnSlowEta, on bytes of some file *)
SlowEta ==
  /\ ~run.slow /\ \E f \in Files : Being(f)
  /\ run' = [run EXCEPT !.slow = TRUE, !.aborted = TRUE]
  /\ UNCHANGED <<jobs, store>> /\ engineKeeps

-----------------------------------------------------------------------------
(* finalizeJob and the end of the run *)

Back(files) == [f \in Files |-> IF files[f] = "downloading" THEN "pending" ELSE files[f]]
Ended(files) ==
  [f \in Files |-> IF files[f] \in {"pending", "downloading"} THEN "canceled" ELSE files[f]]

Requeued == run.aborted /\ phase = "closing" /\ ~jobs[run.job].cancel
(* Mutant: an abort for a slow link is taken for one by the user. *)
BadPaused ==
  IF run.aborted THEN ~jobs[run.job].cancel /\ jobs[run.job].pause ELSE run.stalled
Paused ==
  IF run.aborted THEN ~jobs[run.job].cancel /\ (jobs[run.job].pause \/ run.slow)
  ELSE run.stalled
Outcome ==
  IF run.aborted THEN "canceled"
  ELSE IF run.fatal \/ run.failed THEN "failed" ELSE "succeeded"

(* Every worker has returned. *)
Settled ==
  /\ phase # "down" /\ Running /\ run.opening = NoFile
  /\ run.left = {} \/ run.aborted \/ run.stalled \/ run.fatal

Finalize ==
  LET j == run.job IN
  /\ Settled
  /\ IF Requeued
     THEN /\ jobs' = [jobs EXCEPT ![j].status = "queued", ![j].files = Back(@)]
          /\ UNCHANGED queue
     ELSE IF Paused
     THEN /\ jobs' = [jobs EXCEPT ![j].status = "paused", ![j].pause = FALSE,
                                  ![j].files = Back(@)]
          /\ UNCHANGED queue
     ELSE /\ jobs' = [jobs EXCEPT ![j].status = Outcome, ![j].pause = FALSE,
                                  ![j].files = Ended(@)]
          /\ queue' = Only(queue, Jobs \ {j})
  /\ run' = NoRun
  /\ pumpDue' = TRUE
  /\ UNCHANGED <<phase, asks, ends>>
  /\ Save

-----------------------------------------------------------------------------
(* The end of the manager, and its next start *)

(* beginHfDownloadQueueShutdown, and later shutdownActiveJobs *)
BeginShutdown ==
  /\ phase = "up" /\ ends < MaxEnds
  /\ phase' = "closing"
  /\ UNCHANGED <<jobs, queue, run, pumpDue, store, asks, ends>>

ShutdownActiveJobs ==
  /\ phase = "closing" /\ Running /\ ~run.aborted
  /\ run' = [run EXCEPT !.aborted = TRUE]
  /\ UNCHANGED <<phase, jobs, queue, pumpDue, store, asks, ends>>

(* A crash, or the exit after the shutdown: memory is what the file holds. *)
End ==
  /\ phase # "down" /\ ends < MaxEnds
  /\ phase' = "down" /\ ends' = ends + 1
  /\ jobs' = store.jobs /\ queue' = store.queue
  /\ run' = NoRun /\ pumpDue' = FALSE
  /\ UNCHANGED <<store, asks>>

(* ensureState *)
Reloaded(js) ==
  [j \in Jobs |-> [js[j] EXCEPT !.status = IF @ = "running" THEN "queued" ELSE @,
                                !.pause = FALSE,
                                !.files = Back(@)]]

(* adoptHfDownloadQueue *)
Boot ==
  /\ phase = "down"
  /\ phase' = "up"
  /\ LET js == Reloaded(store.jobs)
         waiting == Queued(js, queue)
     IN IF waiting = <<>>
        THEN jobs' = js /\ UNCHANGED <<run, store>>
        ELSE /\ jobs' = [js EXCEPT ![Head(waiting)].status = "running"]
             /\ run' = [NoRun EXCEPT !.job = Head(waiting),
                          !.left = {f \in Files : js[Head(waiting)].files[f] = "pending"}]
             /\ store' = [jobs |-> jobs', queue |-> queue]
  /\ UNCHANGED <<queue, pumpDue, asks, ends>>

-----------------------------------------------------------------------------
Init ==
  /\ phase = "up"
  /\ jobs = [j \in Jobs |-> NewJob(j)]
  /\ queue = <<>>
  /\ run = NoRun
  /\ pumpDue = FALSE
  /\ store = [jobs |-> jobs, queue |-> queue]
  /\ asks = 0 /\ ends = 0

User ==
  \/ \E j \in Jobs :
       \/ Enqueue(j) \/ Cancel(j) \/ PauseQueued(j) \/ PauseRunning(j)
       \/ Resume(j) \/ RemoveJob(j)
       \/ \E f \in Files : Drop(j, f)
  \/ Reorder
  \/ \E f \in Files : Skip(f)

FileStep(f) ==
  \/ OpenFile(f) \/ FileSucceeds(f) \/ FinalizeThrows(f)
  \/ FileFails(f) \/ FileCanceled(f) \/ TransferFatal(f)
OpenStep == OpenedOnDisk \/ OpenedToDownload \/ OpenFails

Engine == (\E f \in Files : FileStep(f)) \/ OpenStep \/ NoSpace \/ Stall \/ SlowEta

Next ==
  \/ User \/ Engine \/ Finalize \/ PumpLater
  \/ BeginShutdown \/ ShutdownActiveJobs \/ End \/ Boot

(* A transfer ends: attempts and rate limits are bounded, so every file    *)
(* gets somewhere or the transfer stalls. Callbacks run. The user and the  *)
(* end of the manager are free, but an orderly shutdown is completed and a *)
(* manager that is down is started again.                                  *)
Fairness ==
  /\ WF_vars(\E f \in Files : FileStep(f)) /\ WF_vars(OpenStep)
  /\ WF_vars(Finalize) /\ WF_vars(PumpLater)
  /\ WF_vars(phase = "closing" /\ End) /\ WF_vars(Boot)

Spec == Init /\ [][Next]_vars /\ Fairness

-----------------------------------------------------------------------------
(* Properties *)

(* Every record keeps its shape: jobs, the run and its engine, and the     *)
(* queue, which holds exactly the jobs that are not finished, each once.   *)
TypeOK ==
  /\ phase \in {"up", "closing", "down"}
  /\ jobs \in [Jobs -> Job]
  /\ queue \in Seq(Jobs) /\ IsInjective(queue)
  /\ ToSet(queue) = {j \in Jobs : jobs[j].status \in {"queued", "running", "paused"}}
  /\ run \in Run
  /\ pumpDue \in BOOLEAN
  /\ DOMAIN store = {"jobs", "queue"} /\ store.jobs \in [Jobs -> Job]
  /\ asks \in 0..MaxAsks /\ ends \in 0..MaxEnds

(* A crash at any moment loses nothing that was answered or finished: the  *)
(* queue file, loaded, gives the jobs, their order, what was asked of them *)
(* and every finished file that memory has. (A file taken out of a run     *)
(* while it is being opened is the exception: see Skip.)                   *)
NothingLost ==
  /\ queue = store.queue
  /\ \A j \in Jobs :
       LET there == Reloaded(store.jobs)[j]
           here == Reloaded(jobs)[j]
       IN /\ there.status = here.status /\ there.cancel = here.cancel
          /\ \A f \in Files : there.files[f] = here.files[f] \/ f \in run.skips

(* Nothing is thrown into the history as canceled unless the user canceled *)
(* it: not by a shutdown, a pause, a slow link or the error of a file that *)
(* comes at the same moment.                                               *)
CanceledByUser ==
  [][\A j \in Jobs :
       jobs[j].status # "canceled" /\ jobs'[j].status = "canceled" => jobs[j].cancel]_vars

(* A queued job gets its turn or is taken out of the queue: paused, stuck  *)
(* and failing jobs, restarts and lost wakeups do not hold it up.          *)
EveryJobServed ==
  \A j \in Jobs : (jobs[j].status = "queued") ~> (jobs[j].status # "queued")

(* download-queue.ts:488 "${failedCount} of ${job.files.length} files      *)
(* failed": a job with a failed file is not recorded as succeeded.         *)
SucceededMeansComplete ==
  \A j \in Jobs : jobs[j].status = "succeeded" =>
    \A f \in Files : jobs[j].files[f] # "failed"
=============================================================================
