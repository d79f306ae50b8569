--------------------------- MODULE ScheduleStore ---------------------------
(***************************************************************************)
(* The durable schedule catalog: ScheduleStore of                          *)
(* src/founderos_atlas/scheduling.py.  Every method is one critical        *)
(* section of the catalog's lock that reads the file, computes a new       *)
(* catalog and replaces the file, so each is an operator from a catalog to *)
(* a catalog.  Time is counted in units; names, stamps and error texts are *)
(* left out.                                                               *)
(***************************************************************************)
EXTENDS Integers, FiniteSets, Functions

CONSTANTS
    Lease,      \* lease_seconds
    Grace,      \* how late a skip-policy occurrence may still start
    Day,        \* the length of a day
    RunsKept    \* how many runs the catalog keeps

ASSUME StoreAssumption ==
    /\ Lease \in Nat \ {0}
    /\ Grace \in Nat
    /\ Day \in Nat \ {0}
    /\ RunsKept \in Nat \ {0}

NoTime == -1
NoRun == 0
NoJob == 0
Nobody == "nobody"

(* A plan is what the operator chose for a schedule:                       *)
(*   [profile, recurrence, first, interval, daily, misfire, retries, delay] *)
(* A schedule is its plan and the fields the store updates; a run is one   *)
(* claimed occurrence.  Runs are numbered in the order they were claimed,  *)
(* which is their order in the file; catalog.last is the newest number.    *)

EmptyCatalog == [revision |-> 0, schedules |-> <<>>, last |-> 0, runs |-> <<>>]

NewSchedule(plan) ==
    [plan |-> plan, next |-> plan.first, enabled |-> TRUE, attempt |-> 1,
     origin |-> NoTime, owner |-> Nobody, until |-> NoTime, active |-> NoRun]

NewRun(s, schedule) ==
    [schedule |-> s, due |-> schedule.next, attempt |-> schedule.attempt,
     status |-> "claimed", job |-> NoJob]

RunEnded == {"succeeded", "failed", "cancelled"}

Released(schedule) ==
    [schedule EXCEPT !.owner = Nobody, !.until = NoTime, !.active = NoRun]

Revised(catalog) == [catalog EXCEPT !.revision = @ + 1]

---------------------------------------------------------------------------
(* Recurrence.                                                             *)

\* The occurrence a retry chain started from, or the next occurrence.
Origin(schedule) ==
    IF schedule.origin # NoTime THEN schedule.origin ELSE schedule.next

\* Mutant: the interval is counted from the moment of the last run.
NextIntervalFromMoment(from, interval, moment) == moment + interval

\* The first of from, from + interval, ... after the moment.
NextInterval(from, interval, moment) ==
    IF from > moment THEN from
    ELSE from + interval * ((moment - from) \div interval + 1)

\* _next_daily, in a zone without clock changes.
NextDaily(time, moment) ==
    LET today == (moment \div Day) * Day + time
    IN  IF today <= moment THEN today + Day ELSE today

\* Mutant: an interval is counted from the retry, not from its origin.
NextOccurrenceFromRetry(schedule, moment) ==
    IF schedule.plan.recurrence = "interval"
    THEN NextInterval(schedule.next, schedule.plan.interval, moment)
    ELSE IF schedule.plan.recurrence = "daily"
    THEN NextDaily(schedule.plan.daily, moment)
    ELSE schedule.next

NextOccurrence(schedule, moment) ==
    CASE schedule.plan.recurrence = "once" -> schedule.next
      [] schedule.plan.recurrence = "interval" ->
           NextInterval(Origin(schedule), schedule.plan.interval, moment)
      [] schedule.plan.recurrence = "daily" ->
           NextDaily(schedule.plan.daily, moment)

\* Mutant: the run is forgotten, its lease is not.
AdvanceKeepsLease(schedule, moment) ==
    [schedule EXCEPT
       !.active = NoRun,
       !.next = NextOccurrence(schedule, moment),
       !.enabled = @ /\ schedule.plan.recurrence # "once",
       !.attempt = 1,
       !.origin = NoTime]

\* _advance: back to the recurrence, lease released.
Advance(schedule, moment) ==
    [Released(schedule) EXCEPT
       !.next = NextOccurrence(schedule, moment),
       !.enabled = @ /\ schedule.plan.recurrence # "once",
       !.attempt = 1,
       !.origin = NoTime]

\* Mutant: one retry too many.
AfterTerminalOneMore(schedule, attempt, status, moment) ==
    IF status = "failed" /\ attempt <= schedule.plan.retries + 1
    THEN [Released(schedule) EXCEPT
            !.next = moment + schedule.plan.delay,
            !.enabled = TRUE,
            !.attempt = attempt + 1,
            !.origin = Origin(schedule)]
    ELSE Advance(schedule, moment)

\* _after_terminal: a failed attempt is retried while retries are left.
AfterTerminal(schedule, attempt, status, moment) ==
    IF status = "failed" /\ attempt <= schedule.plan.retries
    THEN [Released(schedule) EXCEPT
            !.next = moment + schedule.plan.delay,
            !.enabled = TRUE,
            !.attempt = attempt + 1,
            !.origin = Origin(schedule)]
    ELSE Advance(schedule, moment)

---------------------------------------------------------------------------
(* claim_due.                                                              *)

LeaseActive(schedule, moment) ==
    schedule.until # NoTime /\ schedule.until > moment

\* Mutant: an expired lease is dropped without closing its run.
AbandonedNever(catalog, s, moment) == FALSE

\* The run the schedule's expired lease was for is still claimed.
Abandoned(catalog, s, moment) ==
    LET schedule == catalog.schedules[s]
    IN  /\ schedule.active # NoRun
        /\ ~LeaseActive(schedule, moment)
        /\ schedule.active \in DOMAIN catalog.runs
        /\ catalog.runs[schedule.active].status = "claimed"

\* An expired lease for no claimed run is dropped before anything else.
Repaired(schedule, moment) ==
    IF LeaseActive(schedule, moment) THEN schedule ELSE Released(schedule)

Due(schedule, moment) ==
    schedule.enabled /\ schedule.next <= moment /\ ~LeaseActive(schedule, moment)

Misfired(schedule, moment) ==
    schedule.plan.misfire = "skip" /\ moment - schedule.next > Grace

\* Mutant: only a run still going counts as a duplicate.
DuplicatesRunning(catalog, s) ==
    {r \in DOMAIN catalog.runs : /\ catalog.runs[r].schedule = s
                                 /\ catalog.runs[r].due = catalog.schedules[s].next
                                 /\ catalog.runs[r].status = "claimed"}

\* The runs that carry the idempotency key of the schedule's next occurrence.
Duplicates(catalog, s) ==
    {r \in DOMAIN catalog.runs : /\ catalog.runs[r].schedule = s
                                 /\ catalog.runs[r].due = catalog.schedules[s].next}

Claimable(catalog, s, moment) ==
    LET schedule == catalog.schedules[s]
    IN  /\ ~Abandoned(catalog, s, moment)
        /\ Due(schedule, moment)
        /\ ~Misfired(schedule, moment)
        /\ Duplicates(catalog, s) = {}

Claimers(catalog, moment) ==
    {s \in DOMAIN catalog.schedules : Claimable(catalog, s, moment)}

\* Runs are appended in the order of the schedules.
ClaimedRun(catalog, s, moment) ==
    catalog.last + Cardinality({t \in Claimers(catalog, moment) : t <= s})

\* What the pass makes of one schedule.
Visited(catalog, s, w, moment) ==
    LET schedule == Repaired(catalog.schedules[s], moment)
        duplicate == catalog.runs[CHOOSE r \in Duplicates(catalog, s) : TRUE]
    IN  IF Abandoned(catalog, s, moment)
        THEN AfterTerminal(catalog.schedules[s],
                           catalog.runs[catalog.schedules[s].active].attempt,
                           "failed", moment)
        ELSE IF ~Due(schedule, moment) THEN schedule
        ELSE IF Misfired(schedule, moment) THEN Advance(schedule, moment)
        ELSE IF Duplicates(catalog, s) # {}
        THEN AfterTerminal(schedule, duplicate.attempt,
                           IF duplicate.status = "claimed" THEN "failed"
                           ELSE duplicate.status,
                           moment)
        ELSE [schedule EXCEPT !.owner = w, !.until = moment + Lease,
                              !.active = ClaimedRun(catalog, s, moment)]

\* The runs after the pass: abandoned ones failed, new ones appended.
VisitedRuns(catalog, moment) ==
    LET new == {ClaimedRun(catalog, s, moment) : s \in Claimers(catalog, moment)}
        lost == {catalog.schedules[s].active :
                   s \in {t \in DOMAIN catalog.schedules : Abandoned(catalog, t, moment)}}
    IN  [r \in DOMAIN catalog.runs \cup new |->
           IF r \in new
           THEN LET s == CHOOSE t \in Claimers(catalog, moment) :
                           ClaimedRun(catalog, t, moment) = r
                IN  NewRun(s, catalog.schedules[s])
           ELSE IF r \in lost THEN [catalog.runs[r] EXCEPT !.status = "failed"]
           ELSE catalog.runs[r]]

\* Only the newest runs are kept.
Trimmed(runs, last) == Restrict(runs, {r \in DOMAIN runs : r > last - RunsKept})

\* claim_due: a pass that changes nothing writes nothing.
ClaimDue(catalog, w, moment) ==
    LET schedules == [s \in DOMAIN catalog.schedules |-> Visited(catalog, s, w, moment)]
        last == catalog.last + Cardinality(Claimers(catalog, moment))
    IN  IF schedules = catalog.schedules THEN catalog
        ELSE Revised([catalog EXCEPT
               !.schedules = schedules,
               !.last = last,
               !.runs = Trimmed(VisitedRuns(catalog, moment), last)])

---------------------------------------------------------------------------
(* The other methods.                                                      *)

\* The run is claimed and this worker holds its schedule's lease.
Owns(catalog, r, w) ==
    /\ r \in DOMAIN catalog.runs
    /\ catalog.runs[r].status = "claimed"
    /\ LET schedule == catalog.schedules[catalog.runs[r].schedule]
       IN  schedule.active = r /\ schedule.owner = w

Renewed(catalog, r, moment) ==
    [catalog EXCEPT !.schedules[catalog.runs[r].schedule].until = moment + Lease]

\* attach_job, for a run the worker owns.
AttachJob(catalog, r, j, moment) ==
    [Renewed(catalog, r, moment) EXCEPT !.runs[r].job = j]

\* Mutant: a run that already ended takes the late result.
CompleteRunAgain(catalog, r, status, moment) ==
    LET run == catalog.runs[r]
        schedule == catalog.schedules[run.schedule]
    IN  Revised([catalog EXCEPT
          !.runs[r].status = status,
          !.schedules[run.schedule] =
            IF schedule.active = r
            THEN AfterTerminal(schedule, run.attempt, status, moment)
            ELSE schedule])

\* complete_run: a run that already ended keeps its result, and only the
\* schedule whose active run it is moves on.
CompleteRun(catalog, r, status, moment) ==
    LET run == catalog.runs[r]
        schedule == catalog.schedules[run.schedule]
    IN  IF run.status # "claimed" THEN catalog
        ELSE Revised([catalog EXCEPT
               !.runs[r].status = status,
               !.schedules[run.schedule] =
                 IF schedule.active = r
                 THEN AfterTerminal(schedule, run.attempt, status, moment)
                 ELSE schedule])

CreateSchedule(catalog, s, plan) ==
    Revised([catalog EXCEPT
      !.schedules = [t \in DOMAIN catalog.schedules \cup {s} |->
                       IF t = s THEN NewSchedule(plan)
                       ELSE catalog.schedules[t]]])

\* Mutant: the catalog revision is left as it was.
SetEnabledUnrevised(catalog, s, enabled) ==
    [catalog EXCEPT !.schedules[s].enabled = enabled]

SetEnabled(catalog, s, enabled) ==
    Revised([catalog EXCEPT !.schedules[s].enabled = enabled])

---------------------------------------------------------------------------
\* validate_schedule_catalog, which every read applies to the whole file.
Valid(catalog) ==
    /\ \A q, r \in DOMAIN catalog.runs :
         /\ catalog.runs[q].schedule = catalog.runs[r].schedule
         /\ catalog.runs[q].due = catalog.runs[r].due
         => q = r
    /\ \A s \in DOMAIN catalog.schedules :
         LET schedule == catalog.schedules[s]
         IN  IF schedule.active # NoRun
             THEN /\ schedule.active \in DOMAIN catalog.runs
                  /\ catalog.runs[schedule.active].schedule = s
                  /\ catalog.runs[schedule.active].status = "claimed"
                  /\ schedule.owner # Nobody
                  /\ schedule.until # NoTime
             ELSE schedule.owner = Nobody /\ schedule.until = NoTime

============================================================================
