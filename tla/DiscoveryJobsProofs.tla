------------------------ MODULE DiscoveryJobsProofs ------------------------
(***************************************************************************)
(* For every set of profiles, every history length and any number of jobs  *)
(* and restarts: the safety properties of DiscoveryJobs, from one          *)
(* inductive invariant, and that it implements JobService.                 *)
(***************************************************************************)
EXTENDS DiscoveryJobs, TLAPS

\* A thread in one of these places is between taking the run lock and
\* releasing it.
Inside == {"admitted", "running", "stopping", "leaving"}

\* The run lock: its holder is the one thread that is inside.
LockInv ==
    \A j \in DOMAIN jobs : thread[j] \in Inside <=> runLock = j

\* What a job's status says of where its thread is, and the other way round.
\* Only a job that was asked to stop is stopping.
StatusOf(job, at) ==
    /\ at \in {"unstarted", "waiting", "admitted"} => job.status = "queued"
    /\ at = "running" => job.status = "running"
    /\ at = "stopping" => job.status \in Active /\ job.cancel
    /\ at \in {"none", "leaving", "done"} => job.status \in Ended

StatusInv ==
    \A j \in DOMAIN jobs : StatusOf(jobs[j], thread[j])

\* What the file says of a job: whose it is and, once it ended, how and where.
Remembers(entry, job) ==
    /\ entry.profile = job.profile
    /\ entry.status \in Ended => entry.status = job.status /\ entry.stage = job.stage

\* The file is unreadable while it is written, and knows no other jobs than
\* the manager does.
FileInv ==
    /\ saving # Free => file = Unreadable
    /\ DOMAIN file.jobs \subseteq DOMAIN jobs
    /\ \A j \in DOMAIN file.jobs : Remembers(file.jobs[j], jobs[j])

IndInv ==
    /\ TypeOK
    /\ LockInv
    /\ StatusInv
    /\ OneActivePerProfile
    /\ FileInv

---------------------------------------------------------------------------
(* What the history file holds.                                            *)

\* _persist leaves the file unreadable with its writer on the state lock, or
\* as it was with nobody on it.
LEMMA PersistFacts ==
    ASSUME saving = Free, NEW who, Persist(who)
    PROVE  \/ saving' = who /\ file' = Unreadable
           \/ saving' = saving /\ file' = file
  BY DEF Persist

\* An unreadable file tells nothing.
LEMMA UnreadableFacts ==
    Unreadable.readable \in BOOLEAN /\ DOMAIN Unreadable.jobs = {}
  BY DEF Unreadable

\* What the file says is about jobs the manager has, and typed.
LEMMA SnapshotFacts ==
    ASSUME IndInv
    PROVE  /\ Snapshot.readable \in BOOLEAN
           /\ DOMAIN Snapshot.jobs \subseteq DOMAIN jobs
           /\ \A j \in DOMAIN Snapshot.jobs :
                Snapshot.jobs[j] = Entry(jobs[j])
  BY DEF Snapshot, Newest

---------------------------------------------------------------------------
(* The inductive invariant.                                                *)

\* A step that changes one job and its thread: it keeps the job's profile,
\* makes no ended job active again and leaves a result alone; status, thread
\* and run lock change together; the file is kept or truncated.
LEMMA ChangeOne ==
    ASSUME IndInv, NEW j \in DOMAIN jobs,
           DOMAIN jobs' = DOMAIN jobs, DOMAIN thread' = DOMAIN jobs,
           \A i \in DOMAIN jobs \ {j} : jobs'[i] = jobs[i] /\ thread'[i] = thread[i],
           jobs'[j] \in Job, thread'[j] \in ThreadLocations,
           jobs'[j].profile = jobs[j].profile,
           jobs'[j].status \in Active => jobs[j].status \in Active,
           jobs[j].status \in Ended =>
             jobs'[j].status = jobs[j].status /\ jobs'[j].stage = jobs[j].stage,
           StatusOf(jobs'[j], thread'[j]),
           thread'[j] \in Inside <=> runLock' = j,
           \A i \in DOMAIN jobs \ {j} : runLock' = i <=> runLock = i,
           runLock' \in {Free} \cup DOMAIN jobs,
           \/ saving' \in {Free, Caller} \cup DOMAIN jobs /\ file' = Unreadable
           \/ saving' = saving /\ file' = file,
           UNCHANGED <<created, restarts>>
    PROVE  IndInv'
<1>1. TypeOK'
  BY UnreadableFacts DEF IndInv, TypeOK
<1>2. LockInv'
  BY DEF IndInv, LockInv
<1>3. StatusInv'
  BY DEF IndInv, StatusInv
<1>4. OneActivePerProfile'
  BY DEF IndInv, OneActivePerProfile
<1>5. FileInv'
  <2>1. CASE file' = Unreadable
    BY <2>1, UnreadableFacts DEF FileInv
  <2>2. CASE saving' = saving /\ file' = file
    <3>1. \A i \in DOMAIN file.jobs : Remembers(file.jobs[i], jobs'[i])
      BY DEF IndInv, FileInv, Remembers
    <3> QED
      BY <2>2, <3>1 DEF IndInv, FileInv
  <2> QED
    BY <2>1, <2>2
<1> QED
  BY <1>1, <1>2, <1>3, <1>4, <1>5 DEF IndInv

\* A job keeps its type when its stage, its status or its cancel flag is set.
LEMMA JobFacts ==
    ASSUME NEW job \in Job
    PROVE  /\ job.profile \in Profiles /\ job.status \in Active \cup Ended
           /\ job.cancel \in BOOLEAN /\ job.stage \in 1 .. 7 /\ job.seen \in BOOLEAN
           /\ Active \cap Ended = {}
  BY DEF Job, TotalStages, Active, Ended

\* _set_stage moves a job's stage to the given one, or leaves it where it is
\* when that would be a step back.
LEMMA SetStageFacts ==
    ASSUME NEW job \in Job, NEW stage \in 1 .. 7
    PROVE  /\ SetStage(job, stage) \in Job
           /\ SetStage(job, stage).stage >= job.stage
           /\ SetStage(job, stage).profile = job.profile
           /\ SetStage(job, stage).status = job.status
           /\ SetStage(job, stage).cancel = job.cancel
  BY DEF Job, SetStage, TotalStages

\* The stage of a step line is one of the seven.
LEMMA StepToStageFacts ==
    ASSUME NEW step \in Steps
    PROVE  StepToStage[step] \in 1 .. 7
<1>1. step \in 1 .. 9
  BY JobsAssumption
<1>2. step \in {1, 2, 3, 4, 5, 6, 7, 8, 9}
  BY <1>1
<1> QED
  BY <1>2 DEF StepToStage

\* What _on_connect makes of a job that was not asked to stop.
Connected(job) ==
    IF job.stage >= 4 THEN SetStage(job, 5)
    ELSE [SetStage(job, IF job.seen THEN 3 ELSE 2) EXCEPT !.seen = TRUE]

\* _on_connect moves a job's stage forward or not at all, and nothing else that
\* is shown of it.
LEMMA ConnectedFacts ==
    ASSUME NEW job \in Job
    PROVE  /\ Connected(job) \in Job
           /\ Connected(job).stage >= job.stage
           /\ Connected(job).profile = job.profile
           /\ Connected(job).status = job.status
           /\ Connected(job).cancel = job.cancel
<1> DEFINE base == SetStage(job, IF job.seen THEN 3 ELSE 2)
<1>1. base \in Job /\ base.stage >= job.stage /\ base.profile = job.profile
      /\ base.status = job.status /\ base.cancel = job.cancel
  BY SetStageFacts, JobFacts
<1>2. CASE job.stage >= 4
  BY <1>2, SetStageFacts DEF Connected
<1>3. CASE ~(job.stage >= 4)
  BY <1>1, <1>3 DEF Connected, Job
<1> QED
  BY <1>2, <1>3

\* The first state.
LEMMA InitIndInv == Init => IndInv
  BY JobsAssumption DEF Init, IndInv, TypeOK, LockInv, StatusInv, OneActivePerProfile,
     FileInv, Free

\* The end of a file write.
LEMMA SavedIndInv == IndInv /\ Saved => IndInv'
<1> SUFFICES ASSUME IndInv, Saved PROVE IndInv'
  OBVIOUS
<1>1. /\ file'.readable \in BOOLEAN
      /\ DOMAIN file'.jobs \subseteq DOMAIN jobs
      /\ \A j \in DOMAIN file'.jobs : file'.jobs[j] = Entry(jobs[j])
  BY SnapshotFacts, UnreadableFacts DEF Saved
<1>2. \A j \in DOMAIN jobs :
        /\ Entry(jobs[j]) \in [profile : Profiles, status : Active \cup Ended,
                               stage : 1 .. TotalStages]
        /\ Remembers(Entry(jobs[j]), jobs[j])
  BY DEF IndInv, TypeOK, Job, Entry, Remembers
<1>3. TypeOK'
  BY <1>1, <1>2 DEF Saved, IndInv, TypeOK
<1>4. FileInv'
  BY <1>1, <1>2 DEF Saved, IndInv, FileInv
<1> QED
  BY <1>3, <1>4 DEF Saved, IndInv, LockInv, StatusInv, OneActivePerProfile

\* start: the new job is the profile's only active one.
LEMMA StartIndInv ==
    ASSUME IndInv, NEW p \in Profiles, Start(p)
    PROVE  IndInv'
<1> DEFINE new == created + 1
<1>1. /\ created \in Nat /\ new \in Nat \ {0} /\ new \notin DOMAIN jobs
      /\ created' = new /\ new \in 0 .. MaxJobs
      /\ DOMAIN jobs \subseteq 1 .. created
  BY JobsAssumption DEF Start, IndInv, TypeOK
<1>2. /\ DOMAIN jobs' = DOMAIN jobs \cup {new}
      /\ DOMAIN thread' = DOMAIN jobs \cup {new}
      /\ \A j \in DOMAIN jobs : jobs'[j] = jobs[j] /\ thread'[j] = thread[j]
      /\ jobs'[new] = [profile |-> p, status |-> "queued", cancel |-> FALSE,
                       stage |-> 1, seen |-> FALSE]
      /\ thread'[new] = "unstarted"
  BY <1>1 DEF Start
<1>3. \/ saving' = Caller /\ file' = Unreadable
      \/ saving' = saving /\ file' = file
  BY PersistFacts DEF Start
<1>4. jobs'[new] \in Job
  BY <1>2 DEF Job, Active, TotalStages
<1>5. TypeOK'
  <2>1. DOMAIN jobs' \subseteq 1 .. created'
    BY <1>1, <1>2
  <2>2. \A j \in DOMAIN jobs' : jobs'[j] \in Job /\ thread'[j] \in ThreadLocations
    BY <1>2, <1>4 DEF IndInv, TypeOK, ThreadLocations
  <2>3. runLock' \in {Free} \cup DOMAIN jobs' /\ saving' \in {Free, Caller} \cup DOMAIN jobs'
    BY <1>2, <1>3 DEF IndInv, TypeOK, Start
  <2>4. /\ file'.readable \in BOOLEAN
        /\ \A j \in DOMAIN file'.jobs :
             file'.jobs[j] \in [profile : Profiles, status : Active \cup Ended,
                                stage : 1 .. TotalStages]
    BY <1>3, UnreadableFacts DEF IndInv, TypeOK
  <2> QED
    BY <1>1, <1>2, <2>1, <2>2, <2>3, <2>4 DEF IndInv, TypeOK, Start
<1>6. LockInv'
  <2>1. runLock \in {Free} \cup DOMAIN jobs /\ runLock' = runLock
    BY DEF IndInv, TypeOK, Start
  <2>2. runLock' # new
    BY <1>1, <2>1 DEF Free
  <2> QED
    BY <1>2, <2>1, <2>2 DEF IndInv, LockInv, Inside
<1>7. StatusInv'
  BY <1>2 DEF IndInv, StatusInv, StatusOf
<1>8. OneActivePerProfile'
  <2>1. \A j \in DOMAIN jobs : ~(jobs[j].profile = p /\ jobs[j].status \in Active)
    BY DEF Start, ActiveFor
  <2>2. jobs'[new].profile = p
    BY <1>2
  <2> QED
    BY <1>2, <2>1, <2>2 DEF IndInv, OneActivePerProfile
<1>9. FileInv'
  <2>1. CASE saving' = Caller /\ file' = Unreadable
    BY <2>1, UnreadableFacts DEF FileInv
  <2>2. CASE saving' = saving /\ file' = file
    BY <1>2, <2>2 DEF FileInv, IndInv
  <2> QED
    BY <1>3, <2>1, <2>2
<1> QED
  BY <1>5, <1>6, <1>7, <1>8, <1>9 DEF IndInv

\* worker.start()
LEMMA StartThreadIndInv ==
    ASSUME IndInv, NEW j \in DOMAIN jobs, StartThread(j)
    PROVE  IndInv'
<1>1. /\ DOMAIN thread = DOMAIN jobs /\ jobs[j] \in Job
      /\ runLock \in {Free} \cup DOMAIN jobs
  BY DEF IndInv, TypeOK
<1>2. /\ thread'[j] = "waiting" /\ DOMAIN thread' = DOMAIN jobs
      /\ \A i \in DOMAIN jobs \ {j} : thread'[i] = thread[i]
      /\ UNCHANGED <<jobs, created, runLock, saving, file, restarts>>
  BY <1>1 DEF StartThread
<1>3. runLock # j /\ StatusOf(jobs[j], thread'[j])
  BY <1>2 DEF StartThread, IndInv, LockInv, Inside, StatusInv, StatusOf
<1> QED
  BY <1>1, <1>2, <1>3, ChangeOne DEF Inside, ThreadLocations

\* request_cancel
LEMMA RequestCancelIndInv ==
    ASSUME IndInv, NEW j \in DOMAIN jobs, RequestCancel(j)
    PROVE  IndInv'
<1>1. jobs[j] \in Job /\ thread[j] \in ThreadLocations /\ DOMAIN thread = DOMAIN jobs
      /\ runLock \in {Free} \cup DOMAIN jobs
  BY DEF IndInv, TypeOK
<1>2. /\ jobs'[j] = [jobs[j] EXCEPT !.cancel = TRUE] /\ DOMAIN jobs' = DOMAIN jobs
      /\ \A i \in DOMAIN jobs \ {j} : jobs'[i] = jobs[i]
      /\ UNCHANGED <<created, thread, runLock, restarts>>
  BY DEF RequestCancel
<1>3. /\ jobs'[j] \in Job /\ jobs'[j].profile = jobs[j].profile
      /\ jobs'[j].status = jobs[j].status /\ jobs'[j].stage = jobs[j].stage
      /\ jobs'[j].cancel
  BY <1>1, <1>2 DEF Job
<1>4. StatusOf(jobs'[j], thread'[j])
  BY <1>2, <1>3 DEF IndInv, StatusInv, StatusOf
<1>5. \/ saving' = Caller /\ file' = Unreadable
      \/ saving' = saving /\ file' = file
  BY PersistFacts DEF RequestCancel
<1>6. thread'[j] \in Inside <=> runLock' = j
  BY <1>2 DEF IndInv, LockInv
<1> QED
  BY <1>1, <1>2, <1>3, <1>4, <1>5, <1>6, ChangeOne

\* The run lock is taken by a thread that waited for it.
LEMMA AcquireIndInv ==
    ASSUME IndInv, NEW j \in DOMAIN jobs, Acquire(j)
    PROVE  IndInv'
<1>1. jobs[j] \in Job /\ DOMAIN thread = DOMAIN jobs /\ DOMAIN jobs \subseteq 1 .. created
      /\ created \in Nat
  BY DEF IndInv, TypeOK
<1>2. /\ DOMAIN thread' = DOMAIN jobs /\ jobs' = jobs /\ runLock' = j
      /\ thread'[j] = IF jobs[j].cancel THEN "stopping" ELSE "admitted"
      /\ \A i \in DOMAIN jobs \ {j} : thread'[i] = thread[i]
      /\ UNCHANGED <<saving, file, created, restarts>>
  BY <1>1 DEF Acquire
<1>3. StatusOf(jobs[j], thread'[j])
  BY <1>1, <1>2 DEF Acquire, IndInv, StatusInv, StatusOf, Active
<1>4. \A i \in DOMAIN jobs \ {j} : runLock' = i <=> runLock = i
  BY <1>1, <1>2 DEF Acquire, Free
<1> QED
  BY <1>1, <1>2, <1>3, <1>4, ChangeOne DEF Inside, ThreadLocations

\* The thread writes its job and moves, without touching the run lock it holds
\* before and after.
LEMMA MoveInside ==
    ASSUME IndInv, NEW j \in DOMAIN jobs, NEW job \in Job, NEW at \in Inside,
           thread[j] \in Inside, StatusOf(job, at),
           job.profile = jobs[j].profile,
           jobs[j].status \in Active,
           jobs' = [jobs EXCEPT ![j] = job],
           thread' = [thread EXCEPT ![j] = at],
           \/ saving' = j /\ file' = Unreadable
           \/ saving' = saving /\ file' = file,
           UNCHANGED <<created, runLock, restarts>>
    PROVE  IndInv'
<1>1. DOMAIN thread = DOMAIN jobs /\ runLock \in {Free} \cup DOMAIN jobs
      /\ jobs[j] \in Job
  BY DEF IndInv, TypeOK
<1>2. runLock = j
  BY DEF IndInv, LockInv
<1>3. at \in ThreadLocations
  BY DEF Inside, ThreadLocations
<1>4. jobs[j].status \notin Ended
  BY <1>1, JobFacts
<1>5. /\ DOMAIN jobs' = DOMAIN jobs /\ DOMAIN thread' = DOMAIN jobs
      /\ jobs'[j] = job /\ thread'[j] = at
      /\ \A i \in DOMAIN jobs \ {j} : jobs'[i] = jobs[i] /\ thread'[i] = thread[i]
  BY <1>1
<1> QED
  BY <1>1, <1>2, <1>3, <1>4, <1>5, ChangeOne

\* The pipeline begins.
LEMMA BeginIndInv ==
    ASSUME IndInv, NEW j \in DOMAIN jobs, Begin(j)
    PROVE  IndInv'
<1> DEFINE job == [jobs[j] EXCEPT !.status = "running"]
<1>1. jobs[j] \in Job /\ jobs[j].status = "queued"
  BY DEF IndInv, TypeOK, StatusInv, StatusOf, Begin
<1>2. job \in Job /\ job.profile = jobs[j].profile /\ job.status = "running"
  BY <1>1 DEF Job, Active
<1>3. StatusOf(job, "running")
  BY <1>2 DEF StatusOf
<1>4. jobs' = [jobs EXCEPT ![j] = job]
  BY DEF Begin
<1>5. \/ saving' = j /\ file' = Unreadable
      \/ saving' = saving /\ file' = file
  BY PersistFacts DEF Begin
<1>6. jobs[j].status \in Active
  BY <1>1 DEF Active
<1>7. thread[j] \in Inside /\ "running" \in Inside
  BY DEF Inside, Begin
<1> HIDE DEF job
<1> QED
  BY <1>2, <1>3, <1>4, <1>5, <1>6, <1>7, MoveInside DEF Begin

\* JobCancelled leaves the pipeline.
LEMMA StopIndInv ==
    ASSUME IndInv, NEW j \in DOMAIN jobs, thread[j] = "running", jobs[j].cancel, Stop(j),
           UNCHANGED <<created, runLock, saving, file, restarts>>
    PROVE  IndInv'
<1>1. /\ DOMAIN thread = DOMAIN jobs /\ jobs[j] \in Job
      /\ runLock \in {Free} \cup DOMAIN jobs
  BY DEF IndInv, TypeOK
<1>2. jobs[j].status = "running" /\ runLock = j
  BY DEF IndInv, StatusInv, StatusOf, LockInv, Inside
<1>3. /\ DOMAIN thread' = DOMAIN jobs /\ thread'[j] = "stopping"
      /\ \A i \in DOMAIN jobs \ {j} : thread'[i] = thread[i]
      /\ jobs' = jobs
  BY <1>1 DEF Stop
<1>4. StatusOf(jobs[j], thread'[j])
  BY <1>2, <1>3 DEF StatusOf, Active
<1> QED
  BY <1>1, <1>2, <1>3, <1>4, ChangeOne DEF Inside, ThreadLocations

\* A progress callback of a job that was not asked to stop.
LEMMA ProgressIndInv ==
    ASSUME IndInv, NEW j \in DOMAIN jobs, thread[j] = "running",
           NEW job \in Job, job.profile = jobs[j].profile, job.status = jobs[j].status,
           jobs' = [jobs EXCEPT ![j] = job],
           UNCHANGED <<created, thread, runLock, saving, file, restarts>>
    PROVE  IndInv'
<1>1. /\ DOMAIN thread = DOMAIN jobs /\ jobs[j] \in Job
      /\ runLock \in {Free} \cup DOMAIN jobs
  BY DEF IndInv, TypeOK
<1>2. jobs[j].status = "running" /\ runLock = j
  BY DEF IndInv, StatusInv, StatusOf, LockInv, Inside
<1>3. jobs[j].status \notin Ended
  BY <1>2 DEF Ended
<1>4. /\ DOMAIN jobs' = DOMAIN jobs /\ jobs'[j] = job
      /\ \A i \in DOMAIN jobs \ {j} : jobs'[i] = jobs[i]
  OBVIOUS
<1>5. StatusOf(jobs'[j], thread'[j])
  BY <1>2, <1>4 DEF StatusOf
<1> QED
  BY <1>1, <1>2, <1>3, <1>4, <1>5, ChangeOne DEF Inside, ThreadLocations

\* _on_connect
LEMMA OnConnectIndInv ==
    ASSUME IndInv, NEW j \in DOMAIN jobs, OnConnect(j)
    PROVE  IndInv'
<1>1. CASE jobs[j].cancel
  BY <1>1, StopIndInv DEF OnConnect
<1>2. CASE ~jobs[j].cancel
  <2>1. jobs[j] \in Job
    BY DEF IndInv, TypeOK
  <2>2. jobs' = [jobs EXCEPT ![j] = Connected(jobs[j])]
    BY <1>2 DEF OnConnect, Connected
  <2> QED
    BY <1>2, <2>1, <2>2, ConnectedFacts, ProgressIndInv DEF OnConnect
<1> QED
  BY <1>1, <1>2

\* _on_line
LEMMA OnLineIndInv ==
    ASSUME IndInv, NEW j \in DOMAIN jobs, NEW step \in Steps, OnLine(j, step)
    PROVE  IndInv'
<1>1. CASE jobs[j].cancel
  BY <1>1, StopIndInv DEF OnLine
<1>2. CASE ~jobs[j].cancel
  <2>1. jobs[j] \in Job
    BY DEF IndInv, TypeOK
  <2>2. jobs' = [jobs EXCEPT ![j] = SetStage(jobs[j], StepToStage[step])]
    BY <1>2 DEF OnLine
  <2> QED
    BY <1>2, <2>1, <2>2, StepToStageFacts, SetStageFacts, ProgressIndInv DEF OnLine
<1> QED
  BY <1>1, <1>2

\* The end of a job, with any result.
LEMMA FinishIndInv ==
    ASSUME IndInv, NEW j \in DOMAIN jobs, NEW from \in {"running", "stopping"},
           NEW job \in Job, job.profile = jobs[j].profile, job.status \in Ended,
           Finish(j, from, job)
    PROVE  IndInv'
<1>1. jobs[j].status \in Active
  BY DEF Finish, IndInv, StatusInv, StatusOf, Active
<1>2. StatusOf(job, "leaving")
  BY DEF StatusOf
<1>3. thread[j] \in Inside /\ "leaving" \in Inside
  BY DEF Finish, Inside
<1>4. \/ saving' = j /\ file' = Unreadable
      \/ saving' = saving /\ file' = file
  BY PersistFacts DEF Finish
<1> QED
  BY <1>1, <1>2, <1>3, <1>4, MoveInside DEF Finish

\* The three results a thread ends its job with.
LEMMA ResultFacts ==
    ASSUME NEW job \in Job
    PROVE  /\ [job EXCEPT !.status = "completed", !.stage = TotalStages] \in Job
           /\ [job EXCEPT !.status = "failed"] \in Job
           /\ [job EXCEPT !.status = "cancelled"] \in Job
           /\ {"completed", "failed", "cancelled"} \subseteq Ended
<1>1. {"completed", "failed", "cancelled"} \subseteq Ended /\ TotalStages \in 1 .. TotalStages
  BY DEF Ended, TotalStages
<1>2. [job EXCEPT !.status = "completed", !.stage = TotalStages] \in Job
  BY <1>1 DEF Job
<1>3. [job EXCEPT !.status = "failed"] \in Job
  BY <1>1 DEF Job
<1>4. [job EXCEPT !.status = "cancelled"] \in Job
  BY <1>1 DEF Job
<1> QED
  BY <1>1, <1>2, <1>3, <1>4

\* The end of a pipeline and of a job.
LEMMA EndIndInv ==
    ASSUME IndInv, NEW j \in DOMAIN jobs,
           FinishCompleted(j) \/ FinishFailed(j) \/ FinishCancelled(j)
    PROVE  IndInv'
<1>1. jobs[j] \in Job
  BY DEF IndInv, TypeOK
<1>2. CASE FinishCompleted(j)
  <2> DEFINE job == [jobs[j] EXCEPT !.status = "completed", !.stage = TotalStages]
  <2>1. job \in Job /\ job.profile = jobs[j].profile /\ job.status \in Ended
    BY <1>1, ResultFacts DEF Job
  <2>2. Finish(j, "running", job)
    BY <1>2 DEF FinishCompleted
  <2> HIDE DEF job
  <2> QED
    BY <2>1, <2>2, FinishIndInv
<1>3. CASE FinishFailed(j)
  <2> DEFINE job == [jobs[j] EXCEPT !.status = "failed"]
  <2>1. job \in Job /\ job.profile = jobs[j].profile /\ job.status \in Ended
    BY <1>1, ResultFacts DEF Job
  <2>2. Finish(j, "running", job)
    BY <1>3 DEF FinishFailed
  <2> HIDE DEF job
  <2> QED
    BY <2>1, <2>2, FinishIndInv
<1>4. CASE FinishCancelled(j)
  <2> DEFINE job == [jobs[j] EXCEPT !.status = "cancelled"]
  <2>1. job \in Job /\ job.profile = jobs[j].profile /\ job.status \in Ended
    BY <1>1, ResultFacts DEF Job
  <2>2. Finish(j, "stopping", job)
    BY <1>4 DEF FinishCancelled
  <2> HIDE DEF job
  <2> QED
    BY <2>1, <2>2, FinishIndInv
<1> QED
  BY <1>2, <1>3, <1>4

\* The run lock is released.
LEMMA LeaveIndInv ==
    ASSUME IndInv, NEW j \in DOMAIN jobs, Leave(j)
    PROVE  IndInv'
<1>1. /\ DOMAIN thread = DOMAIN jobs /\ jobs[j] \in Job
      /\ DOMAIN jobs \subseteq 1 .. created /\ created \in Nat
  BY DEF IndInv, TypeOK
<1>2. runLock = j /\ jobs[j].status \in Ended
  BY DEF IndInv, LockInv, StatusInv, StatusOf, Leave, Inside
<1>3. /\ thread'[j] = "done" /\ DOMAIN thread' = DOMAIN jobs
      /\ \A i \in DOMAIN jobs \ {j} : thread'[i] = thread[i]
      /\ runLock' = Free
      /\ UNCHANGED <<jobs, created, saving, file, restarts>>
  BY <1>1 DEF Leave
<1>4. StatusOf(jobs[j], thread'[j])
  BY <1>2, <1>3 DEF StatusOf
<1>5. \A i \in DOMAIN jobs : i # Free
  BY <1>1 DEF Free
<1> QED
  BY <1>1, <1>2, <1>3, <1>4, <1>5, ChangeOne DEF Inside, ThreadLocations

\* _restore: what a new manager makes of the file it finds.
LEMMA RestoredFacts ==
    ASSUME IndInv, NEW j \in DOMAIN file.jobs
    PROVE  LET job == Restored(file.jobs[j])
           IN  /\ job \in Job
               /\ job.profile = jobs[j].profile
               /\ job.status \in Ended
               /\ job.status \in {jobs[j].status, "interrupted"}
               /\ job.status # "interrupted" => job.stage = jobs[j].stage
               /\ ~job.cancel
               /\ Remembers(file.jobs[j], job)
<1>1. /\ file.jobs[j] \in [profile : Profiles, status : Active \cup Ended,
                           stage : 1 .. TotalStages]
      /\ j \in DOMAIN jobs
      /\ Remembers(file.jobs[j], jobs[j])
  BY DEF IndInv, TypeOK, FileInv
<1>2. Active \cap Ended = {} /\ "interrupted" \in Ended
  BY DEF Active, Ended
<1> QED
  BY <1>1, <1>2 DEF Restored, Remembers, Job

\* A crash and the construction of a new manager.
LEMMA RestartIndInv == IndInv /\ Restart => IndInv'
<1> SUFFICES ASSUME IndInv, Restart PROVE IndInv'
  OBVIOUS
<1>1. /\ DOMAIN jobs' = DOMAIN file.jobs /\ DOMAIN thread' = DOMAIN jobs'
      /\ \A j \in DOMAIN jobs' : jobs'[j] = Restored(file.jobs[j]) /\ thread'[j] = "none"
      /\ runLock' = Free /\ created' = created /\ restarts' = restarts + 1
  BY DEF Restart
<1>2. \/ saving' = Caller /\ file' = Unreadable
      \/ saving' = Free /\ file' = file
  BY DEF Restart, Persist
<1>3. DOMAIN jobs' \subseteq DOMAIN jobs
  BY <1>1 DEF IndInv, FileInv
<1>4. TypeOK'
  <2>1. restarts' \in 0 .. MaxRestarts
    BY JobsAssumption, <1>1 DEF IndInv, TypeOK, Restart
  <2>2. \A j \in DOMAIN jobs' : jobs'[j] \in Job /\ thread'[j] \in ThreadLocations
    BY <1>1, RestoredFacts DEF ThreadLocations
  <2>3. /\ file'.readable \in BOOLEAN
        /\ \A j \in DOMAIN file'.jobs :
             file'.jobs[j] \in [profile : Profiles, status : Active \cup Ended,
                                stage : 1 .. TotalStages]
    BY <1>2, UnreadableFacts DEF IndInv, TypeOK
  <2> QED
    BY <1>1, <1>2, <1>3, <2>1, <2>2, <2>3 DEF IndInv, TypeOK
<1>5. LockInv'
  <2>1. \A j \in DOMAIN jobs' : j # Free
    BY <1>3 DEF IndInv, TypeOK, Free
  <2> QED
    BY <1>1, <2>1 DEF LockInv, Inside
<1>6. StatusInv'
  BY <1>1, RestoredFacts DEF StatusInv, StatusOf
<1>7. OneActivePerProfile'
  <2>1. \A j \in DOMAIN jobs' : jobs'[j].status \notin Active
    BY <1>1, RestoredFacts DEF Active, Ended
  <2> QED
    BY <2>1 DEF OneActivePerProfile
<1>8. FileInv'
  <2>1. CASE saving' = Caller /\ file' = Unreadable
    BY <2>1, UnreadableFacts DEF FileInv
  <2>2. CASE saving' = Free /\ file' = file
    BY <1>1, <2>2, RestoredFacts DEF FileInv
  <2> QED
    BY <1>2, <2>1, <2>2
<1> QED
  BY <1>4, <1>5, <1>6, <1>7, <1>8 DEF IndInv

\* Every step of the manager keeps the inductive invariant.
LEMMA NextIndInv == IndInv /\ [Next]_vars => IndInv'
<1> SUFFICES ASSUME IndInv, [Next]_vars PROVE IndInv'
  OBVIOUS
<1>1. CASE \E p \in Profiles : Start(p)
  BY <1>1, StartIndInv
<1>2. CASE \E j \in DOMAIN jobs : StartThread(j) \/ RequestCancel(j) \/ Execute(j)
  BY <1>2, StartThreadIndInv, RequestCancelIndInv, AcquireIndInv, BeginIndInv,
     OnConnectIndInv, OnLineIndInv, EndIndInv, LeaveIndInv DEF Execute
<1>3. CASE Saved
  BY <1>3, SavedIndInv
<1>4. CASE Restart
  BY <1>4, RestartIndInv
<1>5. CASE UNCHANGED vars
  BY <1>5 DEF vars, IndInv, TypeOK, LockInv, StatusInv, OneActivePerProfile, FileInv
<1> QED
  BY <1>1, <1>2, <1>3, <1>4, <1>5 DEF Next

---------------------------------------------------------------------------
(* The properties.                                                         *)

\* The inductive invariant holds in every state the manager reaches.
LEMMA SpecIndInv == Spec => []IndInv
  BY InitIndInv, NextIndInv, PTL DEF Spec

\* At most one pipeline executes, in the thread with the run lock; a profile has
\* at most one active job; an active job has a thread that has yet to end it;
\* and no result in the history file is one the job did not have: whatever
\* start, request_cancel, the threads, the file writes and crashes do.
THEOREM SpecJobsConsistent == Spec => []JobsConsistent
<1>1. ASSUME IndInv PROVE JobsConsistent
  <2>1. OnePipeline
    <3> SUFFICES ASSUME NEW i \in DOMAIN jobs, NEW j \in DOMAIN jobs, thread[i] = "running"
                 PROVE  runLock = i /\ (jobs[j].status = "running" => i = j)
      BY DEF OnePipeline
    <3>1. runLock = i
      BY <1>1 DEF IndInv, LockInv, Inside
    <3>2. ASSUME jobs[j].status = "running" PROVE i = j
      <4>1. thread[j] \in {"running", "stopping"}
        BY <1>1, <3>2 DEF IndInv, TypeOK, StatusInv, StatusOf, ThreadLocations, Ended
      <4> QED
        BY <1>1, <3>1, <4>1 DEF IndInv, LockInv, Inside
    <3> QED
      BY <3>1, <3>2
  <2>2. ActiveHasThread
    BY <1>1 DEF IndInv, TypeOK, StatusInv, StatusOf, ActiveHasThread, ThreadLocations,
                Active, Ended
  <2>3. FileIsTruthful
    BY <1>1 DEF IndInv, FileInv, Remembers, FileIsTruthful
  <2> QED
    BY <1>1, <2>1, <2>2, <2>3 DEF IndInv, JobsConsistent
<1> QED
  BY <1>1, SpecIndInv, PTL

\* What a step may do to a job it does not forget: its stage goes back only when
\* the job was interrupted, and stands still once the job was asked to stop.
Forward(old, new) ==
    /\ new.status # "interrupted" => new.stage >= old.stage
    /\ old.cancel /\ new.status \in Active => new.stage = old.stage

\* Every step of the manager moves every job forward or leaves it.
LEMMA NextForward ==
    ASSUME IndInv, [Next]_vars
    PROVE  \A j \in DOMAIN jobs \cap DOMAIN jobs' : Forward(jobs[j], jobs'[j])
<1>1. \A j \in DOMAIN jobs : jobs[j] \in Job /\ Forward(jobs[j], jobs[j])
  BY JobFacts DEF IndInv, TypeOK, Forward
<1>2. CASE jobs' = jobs
  BY <1>1, <1>2
<1>3. ASSUME NEW j \in DOMAIN jobs, NEW job, jobs' = [jobs EXCEPT ![j] = job],
             Forward(jobs[j], job)
      PROVE  \A i \in DOMAIN jobs \cap DOMAIN jobs' : Forward(jobs[i], jobs'[i])
  BY <1>1, <1>3
<1>4. CASE \E p \in Profiles : Start(p)
  BY <1>1, <1>4 DEF Start
<1>5. ASSUME NEW j \in DOMAIN jobs, StartThread(j) \/ RequestCancel(j) \/ Execute(j)
      PROVE  \A i \in DOMAIN jobs \cap DOMAIN jobs' : Forward(jobs[i], jobs'[i])
  <2>0. jobs[j] \in Job
    BY <1>1
  <2>1. CASE StartThread(j) \/ Acquire(j) \/ Leave(j)
    BY <1>2, <2>1 DEF StartThread, Acquire, Leave
  <2>2. CASE RequestCancel(j)
    <3>1. Forward(jobs[j], [jobs[j] EXCEPT !.cancel = TRUE])
      BY <2>0, JobFacts DEF Forward, Job
    <3> QED
      BY <1>3, <2>2, <3>1 DEF RequestCancel
  <2>3. CASE Begin(j)
    <3>1. Forward(jobs[j], [jobs[j] EXCEPT !.status = "running"])
      BY <2>0, JobFacts DEF Forward, Job
    <3> QED
      BY <1>3, <2>3, <3>1 DEF Begin
  <2>4. CASE OnConnect(j)
    <3>1. CASE jobs[j].cancel
      BY <1>2, <2>4, <3>1 DEF OnConnect, Stop
    <3>2. CASE ~jobs[j].cancel
      <4>1. Forward(jobs[j], Connected(jobs[j]))
        BY <2>0, <3>2, ConnectedFacts DEF Forward
      <4>2. jobs' = [jobs EXCEPT ![j] = Connected(jobs[j])]
        BY <2>4, <3>2 DEF OnConnect, Connected
      <4> QED
        BY <1>3, <4>1, <4>2
    <3> QED
      BY <3>1, <3>2
  <2>5. ASSUME NEW step \in Steps, OnLine(j, step)
        PROVE  \A i \in DOMAIN jobs \cap DOMAIN jobs' : Forward(jobs[i], jobs'[i])
    <3>1. CASE jobs[j].cancel
      BY <1>2, <2>5, <3>1 DEF OnLine, Stop
    <3>2. CASE ~jobs[j].cancel
      <4>1. Forward(jobs[j], SetStage(jobs[j], StepToStage[step]))
        BY <2>0, <3>2, StepToStageFacts, SetStageFacts DEF Forward
      <4> QED
        BY <1>3, <2>5, <3>2, <4>1 DEF OnLine
    <3> QED
      BY <3>1, <3>2
  <2>6. CASE FinishCompleted(j)
    <3>1. Forward(jobs[j],
                  [jobs[j] EXCEPT !.status = "completed", !.stage = TotalStages])
      BY <2>0, JobFacts DEF Forward, Job, TotalStages, Active
    <3> QED
      BY <1>3, <2>6, <3>1 DEF FinishCompleted, Finish
  <2>7. CASE FinishFailed(j) \/ FinishCancelled(j)
    <3>1. /\ Forward(jobs[j], [jobs[j] EXCEPT !.status = "failed"])
          /\ Forward(jobs[j], [jobs[j] EXCEPT !.status = "cancelled"])
      BY <2>0, JobFacts DEF Forward, Job, Active
    <3> QED
      BY <1>3, <2>7, <3>1 DEF FinishFailed, FinishCancelled, Finish
  <2> QED
    BY <1>5, <2>1, <2>2, <2>3, <2>4, <2>5, <2>6, <2>7 DEF Execute
<1>6. CASE Restart
  <2>1. \A j \in DOMAIN jobs' :
          /\ jobs'[j] = Restored(file.jobs[j]) /\ j \in DOMAIN file.jobs
          /\ j \in DOMAIN jobs
    BY <1>6 DEF Restart, IndInv, FileInv
  <2>2. \A j \in DOMAIN jobs' :
          /\ jobs'[j].status \notin Active /\ jobs[j].stage \in Int
          /\ jobs'[j].status # "interrupted" => jobs'[j].stage = jobs[j].stage
    BY <1>1, <2>1, RestoredFacts, JobFacts DEF Active, Ended
  <2> QED
    BY <2>2 DEF Forward
<1>7. CASE Saved \/ UNCHANGED vars
  BY <1>2, <1>7 DEF Saved, vars
<1> QED
  BY <1>4, <1>5, <1>6, <1>7 DEF Next

\* Visible progress never rewinds, not even when step lines come out of order or
\* the job is restored from the file with its result.
THEOREM SpecStageMovesForward == Spec => StageMovesForward
<1>1. IndInv /\ [Next]_vars =>
        [\A j \in DOMAIN jobs \cap DOMAIN jobs' :
           jobs'[j].status # "interrupted" => jobs'[j].stage >= jobs[j].stage]_vars
  BY NextForward DEF Forward
<1> QED
  BY <1>1, SpecIndInv, PTL DEF Spec, StageMovesForward

\* A job that will not run any more: it ended, or it was asked to stop before
\* its thread had the run lock, or it was forgotten, and its id with it.
NeverRuns(j) ==
    /\ j <= created
    /\ j \in DOMAIN jobs =>
         \/ jobs[j].status \in Ended
         \/ jobs[j].status = "queued" /\ jobs[j].cancel /\ thread[j] \in {"waiting", "stopping"}

\* Once that is so it stays so.
LEMMA NextNeverRuns ==
    ASSUME NEW j \in 1 .. MaxJobs, IndInv, NeverRuns(j), [Next]_vars
    PROVE  NeverRuns(j)'
<1>0. /\ DOMAIN thread = DOMAIN jobs /\ created \in Nat
      /\ \A i \in DOMAIN jobs : jobs[i] \in Job
      /\ Active \cap Ended = {} /\ "queued" \in Active
  BY DEF IndInv, TypeOK, Active, Ended
<1>1. ASSUME NEW i \in DOMAIN jobs, StartThread(i) \/ RequestCancel(i) \/ Execute(i)
      PROVE  NeverRuns(j)'
  <2>1. CASE i # j
    <3>1. /\ created' = created /\ DOMAIN jobs' = DOMAIN jobs
          /\ j \in DOMAIN jobs => jobs'[j] = jobs[j] /\ thread'[j] = thread[j]
      BY <1>0, <1>1, <2>1 DEF StartThread, RequestCancel, Execute, Acquire, Begin,
         OnConnect, OnLine, Stop, FinishCompleted, FinishFailed, FinishCancelled, Finish, Leave
    <3> QED
      BY <3>1 DEF NeverRuns
  <2>2. CASE i = j
    <3>1. CASE jobs[j].status \in Ended
      <4>1. thread[j] \in {"none", "leaving", "done"}
        BY <1>0, <2>2, <3>1 DEF IndInv, TypeOK, StatusInv, StatusOf, ThreadLocations, Ended, Active
      <4>2. jobs' = jobs /\ created' = created
        BY <1>0, <1>1, <2>2, <3>1, <4>1 DEF StartThread, RequestCancel, Execute, Acquire,
           Begin, OnConnect, OnLine, FinishCompleted, FinishFailed, FinishCancelled, Finish,
           Leave
      <4> QED
        BY <3>1, <4>2 DEF NeverRuns
    <3>2. CASE jobs[j].status \notin Ended
      <4>1. jobs[j].status = "queued" /\ jobs[j].cancel /\ thread[j] \in {"waiting", "stopping"}
        BY <2>2, <3>2 DEF NeverRuns
      <4>2. RequestCancel(j) \/ Acquire(j) \/ FinishCancelled(j)
        BY <1>1, <2>2, <4>1 DEF StartThread, Execute, Begin, OnConnect, OnLine,
           FinishCompleted, FinishFailed, Finish, Leave
      <4>3. CASE RequestCancel(j)
        <5>1. /\ jobs'[j] = [jobs[j] EXCEPT !.cancel = TRUE]
              /\ UNCHANGED <<created, thread>>
          BY <2>2, <4>3 DEF RequestCancel
        <5>2. jobs'[j].status = "queued" /\ jobs'[j].cancel
          BY <1>0, <2>2, <4>1, <5>1 DEF Job
        <5> QED
          BY <4>1, <5>1, <5>2 DEF NeverRuns
      <4>4. CASE Acquire(j)
        BY <1>0, <2>2, <4>1, <4>4 DEF NeverRuns, Acquire
      <4>5. CASE FinishCancelled(j)
        <5>1. jobs'[j] = [jobs[j] EXCEPT !.status = "cancelled"] /\ created' = created
          BY <2>2, <4>5 DEF FinishCancelled, Finish
        <5>2. jobs'[j].status \in Ended
          BY <1>0, <2>2, <5>1 DEF Job, Ended
        <5> QED
          BY <5>1, <5>2 DEF NeverRuns
      <4> QED
        BY <4>2, <4>3, <4>4, <4>5
    <3> QED
      BY <3>1, <3>2
  <2> QED
    BY <2>1, <2>2
<1>2. ASSUME NEW p \in Profiles, Start(p)
      PROVE  NeverRuns(j)'
  <2>1. j # created + 1 /\ j <= created'
    BY <1>0, <1>2 DEF NeverRuns, Start
  <2>2. j \in DOMAIN jobs' =>
          j \in DOMAIN jobs /\ jobs'[j] = jobs[j] /\ thread'[j] = thread[j]
    BY <1>2, <2>1 DEF Start
  <2> QED
    BY <2>1, <2>2 DEF NeverRuns
<1>3. CASE Restart
  <2>1. j \in DOMAIN jobs' => jobs'[j] = Restored(file.jobs[j]) /\ j \in DOMAIN file.jobs
    BY <1>3 DEF Restart
  <2>2. j \in DOMAIN jobs' => jobs'[j].status \in Ended
    BY <2>1, RestoredFacts
  <2> QED
    BY <1>3, <2>2 DEF NeverRuns, Restart
<1>4. CASE Saved \/ UNCHANGED vars
  BY <1>4 DEF Saved, vars, NeverRuns
<1> QED
  BY <1>1, <1>2, <1>3, <1>4 DEF Next

\* A request to cancel is honoured: a job that runs reports no more progress,
\* and a job that waits for the run lock never runs, however the request, the
\* lock, the callbacks and crashes interleave.
THEOREM SpecCancelHolds == Spec => CancelHolds
<1>1. Spec => NoProgressAfterCancel
  <2>1. IndInv /\ [Next]_vars =>
          [\A j \in DOMAIN jobs \cap DOMAIN jobs' :
             jobs[j].cancel /\ jobs'[j].status \in Active
               => jobs'[j].stage = jobs[j].stage]_vars
    BY NextForward DEF Forward
  <2> QED
    BY <2>1, SpecIndInv, PTL DEF Spec, NoProgressAfterCancel
<1>2. Spec => CancelledWaiterNeverRuns
  <2> SUFFICES ASSUME NEW j \in 1 .. MaxJobs
               PROVE  Spec => []( (j \in DOMAIN jobs /\ thread[j] = "waiting" /\ jobs[j].cancel)
                        => [](j \in DOMAIN jobs => jobs[j].status # "running") )
    BY DEF CancelledWaiterNeverRuns
  <2>1. IndInv /\ (j \in DOMAIN jobs /\ thread[j] = "waiting" /\ jobs[j].cancel) => NeverRuns(j)
    BY DEF IndInv, TypeOK, StatusInv, StatusOf, NeverRuns
  <2>2. IndInv /\ NeverRuns(j) /\ [Next]_vars => NeverRuns(j)'
    BY NextNeverRuns
  <2>3. NeverRuns(j) => (j \in DOMAIN jobs => jobs[j].status # "running")
    BY DEF NeverRuns, Ended
  <2> QED
    BY <2>1, <2>2, <2>3, SpecIndInv, PTL DEF Spec
<1> QED
  BY <1>1, <1>2 DEF CancelHolds

---------------------------------------------------------------------------
(* The manager implements the job service.                                 *)

\* What the service shows of a job.
Shown(job) ==
    [profile |-> job.profile,
     status |-> IF job.status \in Active THEN "active" ELSE job.status,
     cancel |-> job.cancel]

Known == [j \in DOMAIN jobs |-> Shown(jobs[j])]

\* A step that changes one job, or nothing that the service shows of it.
LEMMA KnownOne ==
    ASSUME NEW j \in DOMAIN jobs, NEW job, jobs' = [jobs EXCEPT ![j] = job]
    PROVE  Known' = [Known EXCEPT ![j] = Shown(job)]
  BY DEF Known

\* The end of a job is the end of a job of the service.
LEMMA EndRefines ==
    ASSUME IndInv, NEW j \in DOMAIN jobs,
           NEW status \in {"completed", "failed", "cancelled"}, NEW job,
           job.profile = jobs[j].profile, job.cancel = jobs[j].cancel, job.status = status,
           jobs[j].status \in Active, status = "cancelled" => jobs[j].cancel,
           jobs' = [jobs EXCEPT ![j] = job], created' = created
    PROVE  Service!End(j, status)
<1>1. Known' = [Known EXCEPT ![j] = Shown(job)]
  BY KnownOne
<1>2. Shown(job) = [Shown(jobs[j]) EXCEPT !.status = status]
  BY DEF Shown, Active
<1>3. Known' = [Known EXCEPT ![j].status = status]
  BY <1>1, <1>2 DEF Known
<1>4. Known[j].status = "active" /\ (status = "cancelled" => Known[j].cancel)
  BY DEF Known, Shown
<1> QED
  BY <1>3, <1>4 DEF Service!End, Known, Shown

\* Every step of the manager is a step of the service, or shows it no change.
LEMMA NextRefines ==
    ASSUME IndInv, [Next]_vars
    PROVE  [Service!ServiceNext]_(Service!serviceVars)
<1>0. DOMAIN Known = DOMAIN jobs /\ \A j \in DOMAIN jobs : jobs[j] \in Job
  BY DEF Known, IndInv, TypeOK
<1>1. ASSUME Known' = Known, created' = created
      PROVE  UNCHANGED Service!serviceVars
  BY <1>1 DEF Known, Shown, Service!serviceVars
<1>2. ASSUME jobs' = jobs, created' = created
      PROVE  UNCHANGED Service!serviceVars
  BY <1>1, <1>2 DEF Known
<1>3. ASSUME NEW j \in DOMAIN jobs, NEW job, jobs' = [jobs EXCEPT ![j] = job],
             Shown(job) = Shown(jobs[j]), created' = created
      PROVE  UNCHANGED Service!serviceVars
  <2>1. Known' = [Known EXCEPT ![j] = Shown(jobs[j])]
    BY <1>3, KnownOne
  <2>2. Known' = Known
    BY <2>1 DEF Known
  <2> QED
    BY <1>1, <1>3, <2>2
<1>4. ASSUME NEW p \in Profiles, Start(p)
      PROVE  Service!ServiceNext
  <2> DEFINE new == created + 1
  <2>1. new \notin DOMAIN jobs
    BY DEF IndInv, TypeOK
  <2>2. Known' = [j \in DOMAIN Known \cup {new} |->
                    IF j \in DOMAIN Known THEN Known[j]
                    ELSE [profile |-> p, status |-> "active", cancel |-> FALSE]]
    BY <1>0, <1>4, <2>1 DEF Start, Known, Shown, Active
  <2>3. {j \in DOMAIN Known : Known[j].profile = p /\ Known[j].status = "active"} = {}
    <3>1. \A j \in DOMAIN jobs : jobs[j].profile = p => jobs[j].status \notin Active
      BY <1>4 DEF Start, ActiveFor
    <3>2. \A j \in DOMAIN jobs : jobs[j].status # "active"
      BY <1>0 DEF Job, Active, Ended
    <3> QED
      BY <3>1, <3>2 DEF Known, Shown
  <2>4. Service!Create(p)
    BY <1>4, <2>2, <2>3 DEF Service!Create, Service!Busy, Start, Known, Shown
  <2> QED
    BY <2>4 DEF Service!ServiceNext
<1>5. ASSUME NEW j \in DOMAIN jobs, StartThread(j) \/ RequestCancel(j) \/ Execute(j)
      PROVE  [Service!ServiceNext]_(Service!serviceVars)
  <2>0. jobs[j] \in Job /\ j \in DOMAIN Known
    BY <1>0
  <2>1. CASE StartThread(j) \/ Acquire(j) \/ Leave(j)
    BY <1>2, <2>1 DEF StartThread, Acquire, Leave
  <2>2. CASE RequestCancel(j)
    <3> DEFINE job == [jobs[j] EXCEPT !.cancel = TRUE]
    <3>0. /\ job.profile = jobs[j].profile /\ job.status = jobs[j].status
          /\ job.cancel = TRUE
          /\ jobs' = [jobs EXCEPT ![j] = job]
      BY <2>0, <2>2 DEF Job, RequestCancel
    <3> HIDE DEF job
    <3>1. Shown(job) = [Shown(jobs[j]) EXCEPT !.cancel = TRUE]
      <4> DEFINE shown == Shown(jobs[j])
                 yes == TRUE
      <4>1. /\ shown = [profile |-> shown.profile, status |-> shown.status,
                        cancel |-> shown.cancel]
            /\ Shown(job) = [profile |-> shown.profile, status |-> shown.status,
                             cancel |-> yes]
        BY <3>0 DEF Shown
      <4>2. [shown EXCEPT !.cancel = yes]
              = [profile |-> shown.profile, status |-> shown.status, cancel |-> yes]
        <5> HIDE DEF shown, yes
        <5> QED
          BY <4>1
      <4> QED
        BY <4>1, <4>2, Zenon
    <3>2. Known' = [Known EXCEPT ![j].cancel = TRUE]
      BY <3>0, <3>1, KnownOne DEF Known
    <3>3. Known[j].status = "active" /\ created' = created
      BY <2>2 DEF RequestCancel, Known, Shown
    <3>4. Service!AskToCancel(j)
      BY <3>2, <3>3 DEF Service!AskToCancel, Known, Shown
    <3> QED
      BY <2>0, <3>4 DEF Service!ServiceNext, Known, Shown
  <2>3. CASE Begin(j)
    <3>1. jobs[j].status = "queued"
      BY <2>3 DEF Begin, IndInv, StatusInv, StatusOf
    <3>2. Shown([jobs[j] EXCEPT !.status = "running"]) = Shown(jobs[j])
      BY <2>0, <3>1 DEF Shown, Job, Active
    <3> QED
      BY <1>3, <2>3, <3>2 DEF Begin
  <2>4. CASE OnConnect(j)
    <3>1. CASE jobs[j].cancel
      BY <1>2, <2>4, <3>1 DEF OnConnect, Stop
    <3>2. CASE ~jobs[j].cancel
      <4>1. Shown(Connected(jobs[j])) = Shown(jobs[j])
        BY <2>0, ConnectedFacts DEF Shown
      <4>2. jobs' = [jobs EXCEPT ![j] = Connected(jobs[j])] /\ created' = created
        BY <2>4, <3>2 DEF OnConnect, Connected
      <4> QED
        BY <1>3, <4>1, <4>2
    <3> QED
      BY <3>1, <3>2
  <2>5. ASSUME NEW step \in Steps, OnLine(j, step)
        PROVE  UNCHANGED Service!serviceVars
    <3>1. CASE jobs[j].cancel
      BY <1>2, <2>5, <3>1 DEF OnLine, Stop
    <3>2. CASE ~jobs[j].cancel
      <4>1. Shown(SetStage(jobs[j], StepToStage[step])) = Shown(jobs[j])
        BY <2>0, StepToStageFacts, SetStageFacts DEF Shown
      <4> QED
        BY <1>3, <2>5, <3>2, <4>1 DEF OnLine
    <3> QED
      BY <3>1, <3>2
  <2>6. CASE FinishCompleted(j) \/ FinishFailed(j) \/ FinishCancelled(j)
    <3>1. /\ jobs[j].status \in Active /\ created' = created
          /\ thread[j] = "stopping" => jobs[j].cancel
      BY <2>6 DEF FinishCompleted, FinishFailed, FinishCancelled, Finish, IndInv, StatusInv,
         StatusOf, Active
    <3>2. \E status \in {"completed", "failed", "cancelled"} : Service!End(j, status)
      <4>1. CASE FinishCompleted(j)
        <5> DEFINE job == [jobs[j] EXCEPT !.status = "completed", !.stage = TotalStages]
        <5>1. job.profile = jobs[j].profile /\ job.cancel = jobs[j].cancel
              /\ job.status = "completed" /\ jobs' = [jobs EXCEPT ![j] = job]
          BY <2>0, <4>1 DEF Job, FinishCompleted, Finish
        <5> HIDE DEF job
        <5> QED
          BY <3>1, <5>1, EndRefines
      <4>2. CASE FinishFailed(j)
        <5> DEFINE job == [jobs[j] EXCEPT !.status = "failed"]
        <5>1. job.profile = jobs[j].profile /\ job.cancel = jobs[j].cancel
              /\ job.status = "failed" /\ jobs' = [jobs EXCEPT ![j] = job]
          BY <2>0, <4>2 DEF Job, FinishFailed, Finish
        <5> HIDE DEF job
        <5> QED
          BY <3>1, <5>1, EndRefines
      <4>3. CASE FinishCancelled(j)
        <5> DEFINE job == [jobs[j] EXCEPT !.status = "cancelled"]
        <5>1. job.profile = jobs[j].profile /\ job.cancel = jobs[j].cancel
              /\ job.status = "cancelled" /\ jobs' = [jobs EXCEPT ![j] = job]
              /\ jobs[j].cancel
          BY <2>0, <3>1, <4>3 DEF Job, FinishCancelled, Finish
        <5> HIDE DEF job
        <5> QED
          BY <3>1, <5>1, EndRefines
      <4> QED
        BY <2>6, <4>1, <4>2, <4>3
    <3> QED
      BY <2>0, <3>2 DEF Service!ServiceNext, Known, Shown
  <2> QED
    BY <1>5, <2>1, <2>2, <2>3, <2>4, <2>5, <2>6 DEF Execute
<1>6. CASE Restart
  <2>1. \A j \in DOMAIN jobs' :
          /\ jobs'[j] = Restored(file.jobs[j]) /\ j \in DOMAIN file.jobs
          /\ j \in DOMAIN jobs
    BY <1>6 DEF Restart, IndInv, FileInv
  <2>2. \A j \in DOMAIN jobs' :
          /\ jobs'[j].profile = jobs[j].profile
          /\ jobs'[j].status \in Ended
          /\ jobs'[j].status \in {jobs[j].status, "interrupted"}
    BY <2>1, RestoredFacts
  <2>3. \A j \in DOMAIN jobs' :
          /\ Known'[j].profile = Known[j].profile
          /\ Known'[j].status \in Ended
          /\ Known'[j].status \in {Known[j].status, "interrupted"}
    BY <2>1, <2>2 DEF Known, Shown, Active, Ended
  <2>4. Service!Restart
    BY <1>6, <2>1, <2>3 DEF Service!Restart, Service!Restarted, Service!Ended, Ended, Known,
       Shown, Restart
  <2> QED
    BY <2>4 DEF Service!ServiceNext
<1>7. CASE Saved \/ UNCHANGED vars
  BY <1>2, <1>7 DEF Saved, vars
<1> QED
  BY <1>4, <1>5, <1>6, <1>7 DEF Next

\* The manager, with its threads, locks, file and restarts, implements
\* JobService: one active job per profile, ids given out once, results that are
\* final, and nothing invented after a restart.
THEOREM SpecImplementsJobService == Spec => ImplementsJobService
<1>1. Init => Service!ServiceInit
  BY DEF Init, Service!ServiceInit
<1>2. IndInv /\ [Next]_vars => [Service!ServiceNext]_(Service!serviceVars)
  BY NextRefines
<1> QED
  BY <1>1, <1>2, SpecIndInv, PTL DEF Spec, ImplementsJobService, Service!ServiceSpec

============================================================================
