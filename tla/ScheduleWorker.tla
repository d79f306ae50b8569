--------------------------- MODULE ScheduleWorker ---------------------------
(***************************************************************************)
(* The scheduler at work: ScheduleWorker of src/founderos_atlas/           *)
(* scheduling.py between the catalog of ScheduleStore and the abstract job *)
(* service, with the clock, the schedules page of web/schedule_routes.py   *)
(* and restarts of the process.  A tick is not atomic: it reads the clock  *)
(* once and then makes one locked store call or one job service call per   *)
(* step, and everything else may happen in between.                        *)
(*                                                                         *)
(* The atlas web process runs one worker.  The lease protocol is written   *)
(* for several over one catalog (the tests drive it so), hence Workers.    *)
(***************************************************************************)
EXTENDS ScheduleStore, Sequences

CONSTANTS
    Workers,        \* worker ids
    Profiles,       \* profile ids
    Books,          \* the plans of the schedules that may exist at the start
    Offers,         \* the plans an operator may add
    MaxTime,        \* bound: the clock stops there
    MaxJobs,        \* bound: jobs ever created
    MaxSchedules,   \* bound: schedules an operator fills the catalog up to
    MaxTroubles     \* bound: restarts, clock corrections and pages opened

\* The plans that __post_init__ of DiscoverySchedule accepts.
Plans ==
    [profile : Profiles, recurrence : {"once", "interval", "daily"}, first : Nat,
     interval : Nat \ {0}, daily : Nat, misfire : {"run-once", "skip"}, retries : Nat,
     delay : Nat \ {0}]

ASSUME WorkerAssumption ==
    /\ Nobody \notin Workers
    /\ Books \subseteq Seq(Plans)
    /\ Offers \subseteq Plans

VARIABLES
    catalog,        \* schedules.json
    clock,          \* the wall clock
    known, created, \* the job service
    local,          \* worker -> the local state of its tick
    active,         \* worker -> _active, as <<job, run>> pairs
    launched,       \* history: the occurrences a job was started for
    page,           \* the schedules page in the operator's browser
    edits,          \* history: what the accepted edits were made on
    troubles        \* how many restarts, corrections and pages there were

storeVars == <<catalog>>
jobVars == <<known, created>>
workerVars == <<local, active, launched>>
operatorVars == <<page, edits>>
worldVars == <<clock, troubles>>
vars == <<storeVars, jobVars, workerVars, operatorVars, worldVars>>

Jobs == INSTANCE JobService

---------------------------------------------------------------------------
\* A page without the rows, and one that has them and not yet the revision.
NoPage == [rows |-> <<>>, revision |-> -2, torn |-> FALSE]
Unread == -1

Idle == [pc |-> "idle", now |-> NoTime, todo |-> {}, job |-> NoJob,
         verdict |-> "none", runs |-> {}, lost |-> {}, claims |-> {}, fresh |-> FALSE]

RunsOf(pairs, j) == {pair[2] : pair \in {q \in pairs : q[1] = j}}

JobsOf(pairs) == {pair[1] : pair \in pairs}

\* The first of the claims still to launch, in the order claim_due made them.
NextClaim(claims) == CHOOSE c \in claims : \A d \in claims : c.run <= d.run

\* Mutant: the catalog is used without being validated.
ReadableAnyway == TRUE

\* _read: every method raises on a catalog its validator rejects.
Readable == Valid(catalog)

\* The run can be completed: the catalog reads, and complete_run finds it.
CanComplete(r) == Readable /\ r \in DOMAIN catalog.runs

\* request_cancel on a job that is no longer active changes nothing.
CancelJob(j) ==
    IF j \in DOMAIN known /\ known[j].status = "active" THEN Jobs!AskToCancel(j)
    ELSE UNCHANGED jobVars

Terminal(status) ==
    CASE status = "completed" -> "succeeded"
      [] status = "cancelled" -> "cancelled"
      [] status \in {"failed", "interrupted"} -> "failed"

\* What the job service answers about a job: it may also fail to answer.
Verdicts(j) ==
    {"failed"} \cup
      IF j \notin DOMAIN known THEN {}
      ELSE IF known[j].status = "active" THEN {"renew"}
      ELSE {Terminal(known[j].status)}

---------------------------------------------------------------------------
(* One tick of worker w: reconcile the jobs it watches, claim, launch.     *)

BeginTick(w) ==
    /\ local[w].pc = "idle"
    /\ local' = [local EXCEPT ![w] = [Idle EXCEPT !.pc = "reconcile", !.now = clock,
                                                  !.todo = JobsOf(active[w])]]
    /\ UNCHANGED <<storeVars, jobVars, active, launched, operatorVars, worldVars>>

LookUp(w) ==
    /\ local[w].pc = "reconcile"
    /\ \E j \in local[w].todo : \E verdict \in Verdicts(j) :
         local' = [local EXCEPT ![w].pc = "settle", ![w].todo = @ \ {j}, ![w].job = j,
                                ![w].verdict = verdict, ![w].lost = {},
                                ![w].runs = RunsOf(active[w], j)]
    /\ UNCHANGED <<storeVars, jobVars, active, launched, operatorVars, worldVars>>

Settle(w) ==
    /\ local[w].pc = "settle" /\ local[w].verdict # "renew"
    /\ \E r \in local[w].runs :
         /\ CanComplete(r)
         /\ catalog' = CompleteRun(catalog, r, local[w].verdict, local[w].now)
         /\ local' = [local EXCEPT ![w].runs = @ \ {r}]
    /\ UNCHANGED <<jobVars, active, launched, operatorVars, worldVars>>

Renew(w) ==
    /\ local[w].pc = "settle" /\ local[w].verdict = "renew"
    /\ Readable
    /\ \E r \in local[w].runs :
         /\ catalog' = IF Owns(catalog, r, w) THEN Renewed(catalog, r, local[w].now)
                       ELSE catalog
         /\ local' = [local EXCEPT ![w].runs = @ \ {r},
                                   ![w].lost = IF Owns(catalog, r, w) THEN @
                                               ELSE @ \cup {r}]
    /\ UNCHANGED <<jobVars, active, launched, operatorVars, worldVars>>

\* A settled job is watched no more; neither is one whose runs were all lost
\* to another worker, and that one is asked to stop.
DoneWithJob(w) ==
    LET j == local[w].job
        watched == RunsOf(active[w], j)
        dropped == IF local[w].verdict = "renew" THEN local[w].lost ELSE watched
    IN  /\ local[w].pc = "settle" /\ local[w].runs = {}
        /\ active' = [active EXCEPT ![w] = @ \ ({j} \X dropped)]
        /\ IF local[w].verdict = "renew" /\ dropped = watched THEN CancelJob(j)
           ELSE UNCHANGED jobVars
        /\ local' = [local EXCEPT ![w] = [Idle EXCEPT !.pc = "reconcile", !.now = local[w].now,
                                                      !.todo = local[w].todo]]
        /\ UNCHANGED <<storeVars, launched, operatorVars, worldVars>>

Claim(w) ==
    LET now == local[w].now
    IN  /\ local[w].pc = "reconcile" /\ local[w].todo = {}
        /\ Readable
        /\ catalog' = ClaimDue(catalog, w, now)
        /\ local' = [local EXCEPT
             ![w].pc = "launch",
             ![w].claims = {[run |-> ClaimedRun(catalog, s, now), schedule |-> s,
                             due |-> catalog.schedules[s].next,
                             origin |-> Origin(catalog.schedules[s])] :
                              s \in Claimers(catalog, now)}]
        /\ UNCHANGED <<jobVars, active, launched, operatorVars, worldVars>>

\* The profile is gone, or the job service refuses to start it.
LaunchFails(w) ==
    LET claim == NextClaim(local[w].claims)
    IN  /\ local[w].pc = "launch" /\ local[w].claims # {}
        /\ CanComplete(claim.run)
        /\ catalog' = CompleteRun(catalog, claim.run, "failed", local[w].now)
        /\ local' = [local EXCEPT ![w].claims = @ \ {claim}]
        /\ UNCHANGED <<jobVars, active, launched, operatorVars, worldVars>>

\* start creates a job or returns the profile's active one.
LaunchStarts(w) ==
    LET claim == NextClaim(local[w].claims)
        p == catalog.schedules[claim.schedule].plan.profile
    IN  /\ local[w].pc = "launch" /\ local[w].claims # {}
        /\ \/ /\ Jobs!Create(p)
              /\ local' = [local EXCEPT ![w].pc = "attach", ![w].fresh = TRUE,
                                        ![w].job = created + 1]
           \/ \E j \in Jobs!Busy(p) :
                /\ local' = [local EXCEPT ![w].pc = "attach", ![w].fresh = FALSE,
                                          ![w].job = j]
                /\ UNCHANGED jobVars
        /\ launched' = launched \cup {claim}
        /\ UNCHANGED <<storeVars, active, operatorVars, worldVars>>

Attach(w) ==
    LET claim == NextClaim(local[w].claims)
    IN  /\ local[w].pc = "attach"
        /\ Readable /\ Owns(catalog, claim.run, w)
        /\ catalog' = AttachJob(catalog, claim.run, local[w].job, local[w].now)
        /\ active' = [active EXCEPT ![w] = @ \cup {<<local[w].job, claim.run>>}]
        /\ local' = [local EXCEPT ![w].pc = "launch", ![w].claims = @ \ {claim},
                                  ![w].job = NoJob, ![w].fresh = FALSE]
        /\ UNCHANGED <<jobVars, launched, operatorVars, worldVars>>

\* Another worker took the run over: a job started for it is asked to stop.
AttachRefused(w) ==
    LET claim == NextClaim(local[w].claims)
    IN  /\ local[w].pc = "attach"
        /\ ~(Readable /\ Owns(catalog, claim.run, w))
        /\ IF local[w].fresh THEN CancelJob(local[w].job) ELSE UNCHANGED jobVars
        /\ local' = [local EXCEPT ![w].pc = "giveup", ![w].job = NoJob, ![w].fresh = FALSE]
        /\ UNCHANGED <<storeVars, active, launched, operatorVars, worldVars>>

GiveUp(w) ==
    LET claim == NextClaim(local[w].claims)
    IN  /\ local[w].pc = "giveup"
        /\ CanComplete(claim.run)
        /\ catalog' = CompleteRun(catalog, claim.run, "failed", local[w].now)
        /\ local' = [local EXCEPT ![w].pc = "launch", ![w].claims = @ \ {claim}]
        /\ UNCHANGED <<jobVars, active, launched, operatorVars, worldVars>>

EndTick(w) ==
    /\ local[w].pc = "launch" /\ local[w].claims = {}
    /\ local' = [local EXCEPT ![w] = Idle]
    /\ UNCHANGED <<storeVars, jobVars, active, launched, operatorVars, worldVars>>

\* A store call raises: the pass is over, and the loop will try another.
TickFails(w) ==
    LET me == local[w]
    IN  /\ \/ me.pc = "reconcile" /\ me.todo = {} /\ ~Readable
           \/ me.pc = "settle" /\ me.verdict = "renew" /\ me.runs # {} /\ ~Readable
           \/ me.pc = "settle" /\ me.verdict # "renew" /\ \E r \in me.runs : ~CanComplete(r)
           \/ me.pc = "launch" /\ me.claims # {} /\ ~CanComplete(NextClaim(me.claims).run)
           \/ me.pc = "giveup" /\ ~CanComplete(NextClaim(me.claims).run)
        /\ local' = [local EXCEPT ![w] = Idle]
        /\ UNCHANGED <<storeVars, jobVars, active, launched, operatorVars, worldVars>>

Reconcile(w) == LookUp(w) \/ Settle(w) \/ Renew(w) \/ DoneWithJob(w)

Launch(w) == LaunchFails(w) \/ LaunchStarts(w) \/ Attach(w) \/ AttachRefused(w) \/ GiveUp(w)

Tick(w) ==
    BeginTick(w) \/ Reconcile(w) \/ Claim(w) \/ Launch(w) \/ EndTick(w) \/ TickFails(w)

---------------------------------------------------------------------------
(* The operator, in the schedules page.                                    *)

Trouble == troubles < MaxTroubles /\ troubles' = troubles + 1

Rows == [s \in DOMAIN catalog.schedules |->
           [enabled |-> catalog.schedules[s].enabled, next |-> catalog.schedules[s].next]]

\* The page reads the schedules, and in a later call the revision.
ReadRows ==
    /\ Readable
    /\ page' = [rows |-> Rows, revision |-> Unread, torn |-> FALSE]
    /\ Trouble
    /\ UNCHANGED <<storeVars, jobVars, workerVars, edits, clock>>

ReadRevision ==
    /\ page.revision = Unread
    /\ Readable
    /\ page' = [page EXCEPT !.revision = catalog.revision, !.torn = page.rows # Rows]
    /\ UNCHANGED <<storeVars, jobVars, workerVars, edits, worldVars>>

\* _check: the form is accepted if the revision it carries is the current one.
Accepted ==
    /\ Readable
    /\ page.revision = catalog.revision

Edited(after) ==
    /\ Accepted
    /\ catalog' = after
    /\ edits' = edits \cup {IF page.torn THEN "torn" ELSE IF page.rows = Rows THEN "current" ELSE "stale"}
    /\ UNCHANGED <<page, jobVars, workerVars, worldVars>>

SubmitCreate ==
    \E plan \in Offers :
      /\ Cardinality(DOMAIN catalog.schedules) < MaxSchedules
      /\ Edited(CreateSchedule(catalog, Cardinality(DOMAIN catalog.schedules) + 1, plan))

\* The button of a row carries the opposite of the state the row shows.
SubmitState ==
    \E s \in DOMAIN page.rows : Edited(SetEnabled(catalog, s, ~page.rows[s].enabled))

\* add_maintenance_window: no schedule and no run reads the windows, but the
\* catalog has a new revision, and every open page is out of date.
SubmitWindow == Edited(Revised(catalog))

---------------------------------------------------------------------------
(* The job service, the clock and the process.                             *)

ManualStart ==
    /\ \E p \in Profiles : Jobs!Create(p)
    /\ UNCHANGED <<storeVars, workerVars, operatorVars, worldVars>>

ManualCancel ==
    /\ \E j \in DOMAIN known : ~known[j].cancel /\ Jobs!AskToCancel(j)
    /\ UNCHANGED <<storeVars, workerVars, operatorVars, worldVars>>

JobEnds ==
    /\ \E j \in DOMAIN known : \E status \in Jobs!Ended \ {"interrupted"} :
         Jobs!End(j, status)
    /\ UNCHANGED <<storeVars, workerVars, operatorVars, worldVars>>

ClockTick ==
    /\ clock < MaxTime
    /\ clock' = clock + 1
    /\ UNCHANGED <<storeVars, jobVars, workerVars, operatorVars, troubles>>

ClockSetBack ==
    /\ clock > 0
    /\ clock' = clock - 1
    /\ Trouble
    /\ UNCHANGED <<storeVars, jobVars, workerVars, operatorVars>>

\* Mutant: a restarted worker starts with nothing to watch.
WatchedNothing == {}

\* __init__: what the catalog says is running.
Watched ==
    {<<catalog.runs[r].job, r>> :
       r \in {q \in DOMAIN catalog.runs :
                catalog.runs[q].status = "claimed" /\ catalog.runs[q].job # NoJob}}

\* The process dies, at any point of any tick, and comes back: the service
\* restores its jobs, the workers what the catalog says is running.  With a
\* catalog that does not read the constructor raises and nothing comes back.
Restart ==
    /\ Readable
    /\ \E kept \in SUBSET DOMAIN known : \E lost \in SUBSET kept :
         known' = [j \in kept |->
                     [known[j] EXCEPT
                        !.status = IF @ \in Jobs!Ended /\ j \notin lost THEN @
                                   ELSE "interrupted"]]
    /\ Jobs!Restarted(known')
    /\ active' = [w \in Workers |-> Watched]
    /\ local' = [w \in Workers |-> Idle]
    /\ Trouble
    /\ UNCHANGED <<storeVars, created, launched, operatorVars, clock>>

---------------------------------------------------------------------------
Init ==
    /\ \E book \in Books :
         catalog = [EmptyCatalog EXCEPT
                      !.revision = Len(book),
                      !.schedules = [s \in DOMAIN book |-> NewSchedule(book[s])]]
    /\ clock = 0
    /\ Jobs!ServiceInit
    /\ local = [w \in Workers |-> Idle]
    /\ active = [w \in Workers |-> {}]
    /\ launched = {}
    /\ page = NoPage
    /\ edits = {}
    /\ troubles = 0

Next ==
    \/ \E w \in Workers : Tick(w)
    \/ ReadRows \/ ReadRevision \/ SubmitCreate \/ SubmitState \/ SubmitWindow
    \/ ManualStart \/ ManualCancel \/ JobEnds
    \/ ClockTick \/ ClockSetBack \/ Restart

Spec == Init /\ [][Next]_vars

\* The polling thread keeps ticking, time passes, and every job ends (which
\* DiscoveryJobs shows of the real service).
Fairness ==
    /\ \A w \in Workers : WF_vars(Tick(w))
    /\ WF_vars(ClockTick)
    /\ WF_vars(JobEnds)

FairSpec == Spec /\ Fairness

---------------------------------------------------------------------------
(* Properties.                                                             *)

\* The types of the catalog's fields, of the watched jobs and of where a tick
\* can be; the attempt number stays within the retry policy.
TypeOK ==
    /\ catalog.revision \in Nat /\ catalog.last \in Nat
    /\ \A s \in DOMAIN catalog.schedules :
         LET schedule == catalog.schedules[s]
         IN  /\ schedule.next \in Nat /\ schedule.enabled \in BOOLEAN
             /\ schedule.attempt \in 1..(schedule.plan.retries + 1)
             /\ schedule.origin \in Nat \cup {NoTime}
             /\ schedule.until \in Nat \cup {NoTime}
             /\ schedule.owner \in Workers \cup {Nobody}
             /\ schedule.active \in 0..catalog.last
    /\ DOMAIN catalog.runs \subseteq 1..catalog.last
    /\ \A r \in DOMAIN catalog.runs :
         LET run == catalog.runs[r]
         IN  /\ run.schedule \in DOMAIN catalog.schedules
             /\ run.due \in Nat /\ run.attempt \in Nat \ {0}
             /\ run.status \in RunEnded \cup {"claimed"}
             /\ run.job \in 0..created
    /\ \A w \in Workers :
         /\ active[w] \subseteq (1..created) \X (1..catalog.last)
         /\ local[w].pc \in {"idle", "reconcile", "settle", "launch", "attach", "giveup"}
         /\ local[w].pc \in {"attach", "giveup"} => local[w].claims # {}

\* Every catalog a method writes is one the next read accepts
\* (validate_schedule_catalog): unique occurrences, and leases that belong to
\* a claimed run.
CatalogValid == Valid(catalog)

\* A claimed run is the active run of its schedule, so that somebody renews
\* it or its lease runs out: no run stays claimed with nobody to end it, also
\* when a late result meets a schedule another run has taken over.
ClaimedIsActive ==
    \A r \in DOMAIN catalog.runs :
      catalog.runs[r].status = "claimed" =>
        catalog.schedules[catalog.runs[r].schedule].active = r

\* A run linked to a job is watched by the worker that holds its lease, also
\* after a restart in the middle of a tick: nothing else reads the job's
\* result.
AttachedIsWatched ==
    \A r \in DOMAIN catalog.runs :
      LET run == catalog.runs[r]
          owner == catalog.schedules[run.schedule].owner
      IN  run.status = "claimed" /\ run.job # NoJob => <<run.job, r>> \in active[owner]

\* No due occurrence of a schedule is launched twice, whatever restarts, edits
\* and clock corrections come in between.
NeverLaunchedTwice ==
    \A c, d \in launched : c.schedule = d.schedule /\ c.due = d.due => c.run = d.run

\* The retry policy is bounded: at most 1 + max_retries runs are started for
\* one occurrence of the recurrence.
RetriesBounded ==
    \A c \in launched :
      Cardinality({d \in launched : d.schedule = c.schedule /\ d.origin = c.origin})
        <= catalog.schedules[c.schedule].plan.retries + 1

\* An interval schedule keeps the phase it was created with: neither retries
\* nor late completions nor downtime shift its occurrences.
CadenceKept ==
    \A s \in DOMAIN catalog.schedules :
      LET schedule == catalog.schedules[s]
      IN  schedule.plan.recurrence = "interval" =>
            (Origin(schedule) - schedule.plan.first) % schedule.plan.interval = 0

\* The result of a run is final: a late worker does not overwrite what the
\* lease recovery recorded.
ResultsAreFinal ==
    [][\A r \in DOMAIN catalog.runs \cap DOMAIN catalog'.runs :
         catalog.runs[r].status \in RunEnded => catalog'.runs[r] = catalog.runs[r]]_vars

\* "Schedules changed while you were editing. Reload and retry." (_check) is
\* answered to every edit made on other schedules than the catalog's: however
\* the worker, other pages and a form sent twice interleave, an accepted edit
\* was made on the schedules as they are, unless the catalog was written
\* between the two reads of its page.
EditsSeeTheCatalog == "stale" \notin edits

\* A catalog that does not read is left alone for the operator to recover.
UnreadableIsKept == [][~Valid(catalog) => UNCHANGED catalog]_vars

\* A claimed occurrence comes to a recorded result, whatever happens to the
\* process (while there is time left for its lease to run out): a run whose
\* worker died between claim and attach is closed by the lease recovery.
EveryRunEnds ==
    \A s \in UNION {DOMAIN book : book \in Books} : \A due \in 0..MaxTime :
      /\ \E r \in DOMAIN catalog.runs :
           /\ catalog.runs[r].schedule = s /\ catalog.runs[r].due = due
           /\ catalog.runs[r].status = "claimed"
      /\ catalog.schedules[s].until <= MaxTime
      ~> \E r \in DOMAIN catalog.runs :
           /\ catalog.runs[r].schedule = s /\ catalog.runs[r].due = due
           /\ catalog.runs[r].status \in RunEnded

\* Whatever a tick was interrupted by, the catalog reads back and every run that
\* is linked to a job is watched by a worker.
CatalogSound ==
    /\ TypeOK
    /\ CatalogValid
    /\ AttachedIsWatched

\* The lease protocol: a claimed run and the lease of its schedule are one
\* another's, and no occurrence is attempted more often than the retries allow.
LeasesSound ==
    /\ ClaimedIsActive
    /\ RetriesBounded

\* No late worker rewrites history: results are final, and a catalog that
\* stopped reading back is never overwritten.
HistoryKept ==
    /\ ResultsAreFinal
    /\ UnreadableIsKept

=============================================================================
