--------------------------- MODULE DiscoveryJobs ---------------------------
(***************************************************************************)
(* The in-process discovery job manager: DiscoveryJobManager of            *)
(* src/founderos_atlas/web/jobs.py.                                        *)
(*                                                                         *)
(* A job is created by a caller of start, executed by a thread of its own  *)
(* that waits for the global run lock, and cancelled cooperatively.  Every *)
(* change of a job's status rewrites the history file while the state lock *)
(* is held; the file is truncated and then written, so a crash in between  *)
(* leaves it unreadable.  An action is one critical section of the state   *)
(* lock up to its file write; Saved is the end of that write.              *)
(***************************************************************************)
EXTENDS Integers, FiniteSets

CONSTANTS
    Profiles,       \* profile ids
    Steps,          \* the pipeline steps, of 1 .. 9, that print their line
    MaxPersisted,   \* _MAX_PERSISTED_JOBS
    MaxJobs,        \* bound: jobs ever created
    MaxRestarts     \* bound: crashes followed by a restart

ASSUME JobsAssumption ==
    Steps \subseteq 1 .. 9 /\ MaxPersisted \in Nat \ {0} /\ MaxJobs \in Nat /\ MaxRestarts \in Nat

VARIABLES
    jobs,      \* _jobs: job id -> record; ids grow in the order of _order
    created,   \* how many jobs were ever created
    thread,    \* job id -> location of the job's thread
    runLock,   \* _run_lock: the job whose thread holds it, or Free
    saving,    \* who holds the state lock to write the file, or Free
    file,      \* the history file
    restarts   \* how often the process was restarted

vars == <<jobs, created, thread, runLock, saving, file, restarts>>

Free == 0
Caller == -1   \* a thread that called start or request_cancel, or __init__

Active == {"queued", "running"}
Ended == {"completed", "failed", "cancelled", "interrupted"}

TotalStages == 7

\* _STEP_TO_STAGE: the user-facing stage of a pipeline step line [N/9].
StepToStage == <<2, 4, 5, 6, 6, 6, 7, 7, 7>>

---------------------------------------------------------------------------
(* The history file.                                                       *)

Unreadable == [readable |-> FALSE, jobs |-> <<>>]

Newest(s) == {j \in s : Cardinality({i \in s : i > j}) < MaxPersisted}

\* What _persist writes: of the newest jobs, what _restore reads back.
Entry(job) == [profile |-> job.profile, status |-> job.status, stage |-> job.stage]

Snapshot ==
    [readable |-> TRUE, jobs |-> [j \in Newest(DOMAIN jobs) |-> Entry(jobs[j])]]

\* _persist, called with the state lock held: the file is opened, which
\* truncates it, or cannot be opened, which is ignored.
Persist(who) ==
    \/ saving' = who /\ file' = Unreadable
    \/ saving' = Free /\ file' = file

\* The write ends, or fails and is ignored.
Saved ==
    /\ saving # Free
    /\ saving' = Free
    /\ file' \in {Snapshot, Unreadable}
    /\ UNCHANGED <<jobs, created, thread, runLock, restarts>>

---------------------------------------------------------------------------
Init ==
    /\ jobs = <<>>
    /\ created = 0
    /\ thread = <<>>
    /\ runLock = Free
    /\ saving = Free
    /\ file = [readable |-> TRUE, jobs |-> <<>>]
    /\ restarts = 0

\* Mutant: a queued job does not count as active.
ActiveForRunningOnly(p) ==
    {j \in DOMAIN jobs : jobs[j].profile = p /\ jobs[j].status = "running"}

ActiveFor(p) == {j \in DOMAIN jobs : jobs[j].profile = p /\ jobs[j].status \in Active}

\* start: the caller that finds an active job joins it and changes nothing.
Start(p) ==
    /\ saving = Free
    /\ ActiveFor(p) = {}
    /\ created < MaxJobs
    /\ created' = created + 1
    /\ jobs' = [j \in DOMAIN jobs \cup {created + 1} |->
                  IF j \in DOMAIN jobs THEN jobs[j]
                  ELSE [profile |-> p, status |-> "queued", cancel |-> FALSE,
                        stage |-> 1, seen |-> FALSE]]
    /\ thread' = [j \in DOMAIN jobs \cup {created + 1} |->
                    IF j \in DOMAIN jobs THEN thread[j] ELSE "unstarted"]
    /\ Persist(Caller)
    /\ UNCHANGED <<runLock, restarts>>

\* start, after its first critical section: worker.start().
StartThread(j) ==
    /\ saving = Free
    /\ thread[j] = "unstarted"
    /\ thread' = [thread EXCEPT ![j] = "waiting"]
    /\ UNCHANGED <<jobs, created, runLock, saving, file, restarts>>

\* Mutant: a job that ended can still be asked to stop.
RequestCancelAnyJob(j) ==
    /\ saving = Free
    /\ jobs' = [jobs EXCEPT ![j].cancel = TRUE]
    /\ Persist(Caller)
    /\ UNCHANGED <<created, thread, runLock, restarts>>

RequestCancel(j) ==
    /\ saving = Free
    /\ jobs[j].status \in Active
    /\ jobs' = [jobs EXCEPT ![j].cancel = TRUE]
    /\ Persist(Caller)
    /\ UNCHANGED <<created, thread, runLock, restarts>>

---------------------------------------------------------------------------
(* The thread of a job: _execute.                                          *)

\* Mutant: pipelines are not serialised.
AcquireWithoutLock(j) ==
    /\ thread[j] = "waiting"
    /\ runLock' = j
    /\ thread' = [thread EXCEPT ![j] = IF jobs[j].cancel THEN "stopping" ELSE "admitted"]
    /\ UNCHANGED <<jobs, created, saving, file, restarts>>

\* Mutant: cancel_requested is only read in the progress callbacks.
AcquireIgnoresCancel(j) ==
    /\ thread[j] = "waiting"
    /\ runLock = Free
    /\ runLock' = j
    /\ thread' = [thread EXCEPT ![j] = "admitted"]
    /\ UNCHANGED <<jobs, created, saving, file, restarts>>

\* The run lock is taken and cancel_requested read, without the state lock.
Acquire(j) ==
    /\ thread[j] = "waiting"
    /\ runLock = Free
    /\ runLock' = j
    /\ thread' = [thread EXCEPT ![j] = IF jobs[j].cancel THEN "stopping" ELSE "admitted"]
    /\ UNCHANGED <<jobs, created, saving, file, restarts>>

Begin(j) ==
    /\ saving = Free
    /\ thread[j] = "admitted"
    /\ thread' = [thread EXCEPT ![j] = "running"]
    /\ jobs' = [jobs EXCEPT ![j].status = "running"]
    /\ Persist(j)
    /\ UNCHANGED <<created, runLock, restarts>>

\* Mutant: a late line rewinds the stage.
SetStageAlways(job, stage) == [job EXCEPT !.stage = stage]

SetStage(job, stage) ==
    [job EXCEPT !.stage = IF stage >= @ THEN stage ELSE @]

\* JobCancelled leaves the pipeline.
Stop(j) == thread' = [thread EXCEPT ![j] = "stopping"] /\ UNCHANGED jobs

\* _on_connect: the pipeline is about to contact a device.
OnConnect(j) ==
    /\ saving = Free
    /\ thread[j] = "running"
    /\ IF jobs[j].cancel
         THEN Stop(j)
         ELSE /\ jobs' = [jobs EXCEPT ![j] =
                   IF @.stage >= 4 THEN SetStage(@, 5)
                   ELSE [SetStage(@, IF @.seen THEN 3 ELSE 2) EXCEPT !.seen = TRUE]]
              /\ UNCHANGED thread
    /\ UNCHANGED <<created, runLock, saving, file, restarts>>

\* Mutant: the line callback does not look at cancel_requested.
OnLineIgnoresCancel(j, step) ==
    /\ saving = Free
    /\ thread[j] = "running"
    /\ jobs' = [jobs EXCEPT ![j] = SetStage(@, StepToStage[step])]
    /\ UNCHANGED <<created, thread, runLock, saving, file, restarts>>

\* _on_line: the pipeline printed the line of a step.
OnLine(j, step) ==
    /\ saving = Free
    /\ thread[j] = "running"
    /\ IF jobs[j].cancel
         THEN Stop(j)
         ELSE /\ jobs' = [jobs EXCEPT ![j] = SetStage(@, StepToStage[step])]
              /\ UNCHANGED thread
    /\ UNCHANGED <<created, runLock, saving, file, restarts>>

Finish(j, from, update) ==
    /\ saving = Free
    /\ thread[j] = from
    /\ thread' = [thread EXCEPT ![j] = "leaving"]
    /\ jobs' = [jobs EXCEPT ![j] = update]
    /\ Persist(j)
    /\ UNCHANGED <<created, runLock, restarts>>

\* Mutant: a completed job is one stage past the last.
FinishCompletedPastEnd(j) ==
    Finish(j, "running",
           [jobs[j] EXCEPT !.status = "completed", !.stage = TotalStages + 1])

\* The pipeline returned; cancel_requested is not read again.
FinishCompleted(j) ==
    Finish(j, "running",
           [jobs[j] EXCEPT !.status = "completed", !.stage = TotalStages])

\* The pipeline raised.
FinishFailed(j) == Finish(j, "running", [jobs[j] EXCEPT !.status = "failed"])

FinishCancelled(j) == Finish(j, "stopping", [jobs[j] EXCEPT !.status = "cancelled"])

\* Mutant: the run lock is not released.
LeaveKeepsLock(j) ==
    /\ thread[j] = "leaving"
    /\ saving # j
    /\ thread' = [thread EXCEPT ![j] = "done"]
    /\ UNCHANGED <<jobs, created, runLock, saving, file, restarts>>

\* The run lock is released.
Leave(j) ==
    /\ thread[j] = "leaving"
    /\ saving # j
    /\ thread' = [thread EXCEPT ![j] = "done"]
    /\ runLock' = Free
    /\ UNCHANGED <<jobs, created, saving, file, restarts>>

---------------------------------------------------------------------------
\* Mutant: a restored job keeps its status.
RestoredAsIs(entry) ==
    [profile |-> entry.profile, status |-> entry.status, cancel |-> FALSE,
     stage |-> entry.stage, seen |-> FALSE]

\* Mutant: every restored job that did not complete was interrupted.
RestoredForgetsResults(entry) ==
    [profile |-> entry.profile,
     status |-> IF entry.status = "completed" THEN "completed" ELSE "interrupted",
     cancel |-> FALSE, stage |-> entry.stage, seen |-> FALSE]

\* _restore of one persisted record: active jobs were interrupted.
Restored(entry) ==
    [profile |-> entry.profile,
     status |-> IF entry.status \in Active THEN "interrupted" ELSE entry.status,
     cancel |-> FALSE,
     stage |-> entry.stage,
     seen |-> FALSE]

\* The process dies, at any point, and a new manager is constructed.
Restart ==
    /\ restarts < MaxRestarts
    /\ restarts' = restarts + 1
    /\ jobs' = [j \in DOMAIN file.jobs |-> Restored(file.jobs[j])]
    /\ thread' = [j \in DOMAIN file.jobs |-> "none"]
    /\ runLock' = Free
    /\ IF \E j \in DOMAIN file.jobs : file.jobs[j].status \in Active
         THEN Persist(Caller)
         ELSE saving' = Free /\ UNCHANGED file
    /\ UNCHANGED created

Execute(j) ==
    \/ Acquire(j)
    \/ Begin(j)
    \/ OnConnect(j)
    \/ \E step \in Steps : OnLine(j, step)
    \/ FinishCompleted(j)
    \/ FinishFailed(j)
    \/ FinishCancelled(j)
    \/ Leave(j)

Next ==
    \/ \E p \in Profiles : Start(p)
    \/ \E j \in DOMAIN jobs : StartThread(j) \/ RequestCancel(j) \/ Execute(j)
    \/ Saved
    \/ Restart

Spec == Init /\ [][Next]_vars

\* The steps that bring a job nearer to its end.
Advance(j) ==
    /\ j \in DOMAIN jobs
    /\ \/ StartThread(j) \/ Acquire(j) \/ Begin(j) \/ FinishCompleted(j)
       \/ FinishFailed(j) \/ FinishCancelled(j) \/ Leave(j)

\* Threads are scheduled, file writes end, a pipeline run ends after finitely
\* many callbacks, and a thread that keeps asking for a lock gets it.
FairSpec == Spec /\ WF_vars(Saved) /\ \A j \in 1 .. MaxJobs : SF_vars(Advance(j))

---------------------------------------------------------------------------
(* Properties.                                                             *)

Job == [profile : Profiles, status : Active \cup Ended, cancel : BOOLEAN,
        stage : 1 .. TotalStages, seen : BOOLEAN]

ThreadLocations == {"none", "unstarted", "waiting", "admitted", "running",
                    "stopping", "leaving", "done"}

\* The types of the manager's fields and of its history file.
TypeOK ==
    /\ created \in 0 .. MaxJobs
    /\ DOMAIN jobs \subseteq 1 .. created
    /\ \A j \in DOMAIN jobs : jobs[j] \in Job
    /\ DOMAIN thread = DOMAIN jobs
    /\ \A j \in DOMAIN jobs : thread[j] \in ThreadLocations
    /\ runLock \in {Free} \cup DOMAIN jobs
    /\ saving \in {Free, Caller} \cup DOMAIN jobs
    /\ file.readable \in BOOLEAN
    /\ \A j \in DOMAIN file.jobs :
         file.jobs[j] \in [profile : Profiles, status : Active \cup Ended,
                          stage : 1 .. TotalStages]
    /\ restarts \in 0 .. MaxRestarts

\* "at most one discovery pipeline executes at a time": no two jobs are
\* running, and a pipeline runs only in the thread that holds the run lock.
OnePipeline ==
    \A i, j \in DOMAIN jobs :
      thread[i] = "running" =>
        /\ runLock = i
        /\ jobs[j].status = "running" => i = j

\* "double-clicks and concurrent tabs can never duplicate a discovery": a
\* profile never has two jobs that are queued or running.
OneActivePerProfile ==
    \A i, j \in DOMAIN jobs :
      /\ jobs[i].profile = jobs[j].profile
      /\ jobs[i].status \in Active
      /\ jobs[j].status \in Active
      => i = j

\* No job is shown as queued or running for ever: whatever was restored from
\* the file, an active job has a thread that has yet to end it.
ActiveHasThread ==
    \A j \in DOMAIN jobs :
      jobs[j].status \in Active =>
        thread[j] \in {"unstarted", "waiting", "admitted", "running", "stopping"}

\* The file may lag behind the manager, but a result it holds is the result
\* the job really had.
FileIsTruthful ==
    \A j \in DOMAIN file.jobs \cap DOMAIN jobs :
      file.jobs[j].status \in Ended => jobs[j].status = file.jobs[j].status

\* A job that was cancelled while it waited for the run lock never runs: the
\* pipeline never contacts a device for it.
CancelledWaiterNeverRuns ==
    \A j \in 1 .. MaxJobs :
      []( (j \in DOMAIN jobs /\ thread[j] = "waiting" /\ jobs[j].cancel)
          => [](j \in DOMAIN jobs => jobs[j].status # "running") )

\* A job that was asked to stop reports no further progress: its stage stays
\* where it was until the job ends.
NoProgressAfterCancel ==
    [][\A j \in DOMAIN jobs \cap DOMAIN jobs' :
         jobs[j].cancel /\ jobs'[j].status \in Active
           => jobs'[j].stage = jobs[j].stage]_vars

\* Visible progress never rewinds while a job is active.
StageMovesForward ==
    [][\A j \in DOMAIN jobs \cap DOMAIN jobs' :
         jobs'[j].status # "interrupted" => jobs'[j].stage >= jobs[j].stage]_vars

\* Every job ends, or is forgotten with the process.
EveryJobEnds ==
    \A j \in 1 .. MaxJobs :
      (j \in DOMAIN jobs /\ jobs[j].status \in Active)
        ~> (j \in DOMAIN jobs => jobs[j].status \in Ended)

\* The manager implements the job service its callers rely on.
Service ==
    INSTANCE JobService WITH
      known <- [j \in DOMAIN jobs |->
                  [profile |-> jobs[j].profile,
                   status |-> IF jobs[j].status \in Active THEN "active"
                              ELSE jobs[j].status,
                   cancel |-> jobs[j].cancel]]

\* start, request_cancel, the threads and a restart are, to a caller, steps of
\* a job service with one active job per profile and final results.
ImplementsJobService == Service!ServiceSpec

\* ATLAS_PRODUCTION_DEPLOYMENT.md: "discovery job records persist;
\* queued/running jobs are honestly marked interrupted after restart".
ActiveJobsAreRemembered ==
    [][\A j \in DOMAIN jobs :
         jobs[j].status \in Active => j \in DOMAIN jobs']_vars

\* What the manager shows is consistent with what its threads do and what its
\* file remembers: one pipeline at a time, one active job per profile, no
\* active job without a thread, no result that did not happen.
JobsConsistent ==
    /\ TypeOK
    /\ OnePipeline
    /\ OneActivePerProfile
    /\ ActiveHasThread
    /\ FileIsTruthful

\* A request to cancel is honoured wherever the job looks for it: one that
\* waits never runs, and one that runs reports nothing more.
CancelHolds ==
    /\ NoProgressAfterCancel
    /\ CancelledWaiterNeverRuns

============================================================================
