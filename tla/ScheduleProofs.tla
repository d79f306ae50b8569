--------------------------- MODULE ScheduleProofs ---------------------------
(***************************************************************************)
(* For any number of workers, schedules, jobs, restarts and clock          *)
(* corrections: what the store's methods keep of a catalog, and with that  *)
(* the safety properties of ScheduleWorker.                                *)
(*                                                                         *)
(* Every method validates the catalog it reads (Valid), so its lemma may   *)
(* assume that.  That the catalog it writes is valid again is proved only  *)
(* for a history that was never cut: cutting it can drop a run that is     *)
(* still active (the run schedule_trimmed shows how).  The bound on retries*)
(* is proved for a clock that is not set back and a cut that remembers the *)
(* key of every schedule's next occurrence.                                *)
(***************************************************************************)
EXTENDS ScheduleWorker, FiniteSetTheorems, WellFoundedInduction, TLAPS

Schedule ==
    [plan : Plans, next : Nat, enabled : BOOLEAN, attempt : Nat \ {0},
     origin : Nat \cup {NoTime}, owner : Workers \cup {Nobody}, until : Nat \cup {NoTime},
     active : Nat]

Run ==
    [schedule : Nat, due : Nat, attempt : Nat \ {0}, status : RunEnded \cup {"claimed"}, job : Nat]

\* An interval schedule is in the phase it was created with.
InPhase(schedule) ==
    schedule.plan.recurrence = "interval" =>
      (Origin(schedule) - schedule.plan.first) % schedule.plan.interval = 0

\* A lease has an owner and an end, and is for a run.
LeaseWhole(schedule) ==
    IF schedule.active # NoRun THEN schedule.owner # Nobody /\ schedule.until # NoTime
    ELSE schedule.owner = Nobody /\ schedule.until = NoTime

SoundSchedule(schedule) ==
    /\ schedule \in Schedule
    /\ schedule.attempt <= schedule.plan.retries + 1
    /\ InPhase(schedule)
    /\ LeaseWhole(schedule)

IsCatalog(c) ==
    /\ c = [revision |-> c.revision, schedules |-> c.schedules, last |-> c.last, runs |-> c.runs]
    /\ c.revision \in Nat
    /\ c.last \in Nat
    /\ \E n \in Nat : DOMAIN c.schedules = 1 .. n
    /\ DOMAIN c.runs \subseteq 1 .. c.last

\* A claimed run is the active run of its schedule.
ClaimedActive(c) ==
    \A r \in DOMAIN c.runs :
      c.runs[r].status = "claimed" => c.schedules[c.runs[r].schedule].active = r

Sane(c) ==
    /\ IsCatalog(c)
    /\ \A s \in DOMAIN c.schedules :
         SoundSchedule(c.schedules[s]) /\ c.schedules[s].active <= c.last
    /\ \A r \in DOMAIN c.runs : c.runs[r] \in Run /\ c.runs[r].schedule \in DOMAIN c.schedules
    /\ ClaimedActive(c)

---------------------------------------------------------------------------
(* What may become of a catalog.                                           *)

RowsOf(c) ==
    [s \in DOMAIN c.schedules |->
       [enabled |-> c.schedules[s].enabled, next |-> c.schedules[s].next]]

OwnerOf(c, r) == c.schedules[c.runs[r].schedule].owner

\* What a method makes of the catalog it read: schedules are not dropped, what
\* the schedules page shows changes with the revision only, no run comes back,
\* a result stays, and a run that is still claimed was claimed by its owner.
Follows(c, d) ==
    /\ Sane(d)
    /\ DOMAIN c.schedules \subseteq DOMAIN d.schedules
    /\ d.last >= c.last
    /\ d.revision >= c.revision
    /\ d.revision = c.revision => RowsOf(d) = RowsOf(c)
    /\ \A r \in DOMAIN d.runs : r <= c.last =>
         /\ r \in DOMAIN c.runs
         /\ c.runs[r].status \in RunEnded => d.runs[r] = c.runs[r]
         /\ d.runs[r].schedule = c.runs[r].schedule /\ d.runs[r].due = c.runs[r].due
         /\ d.runs[r].status = "claimed" =>
              c.runs[r].status = "claimed" /\ OwnerOf(d, r) = OwnerOf(c, r)

\* Runs keep their jobs, and new runs have none.
JobsKept(c, d) ==
    \A r \in DOMAIN d.runs : d.runs[r].job = IF r <= c.last THEN c.runs[r].job ELSE NoJob

\* No run was dropped.
Uncut(c, d) == DOMAIN c.runs \subseteq DOMAIN d.runs

---------------------------------------------------------------------------
(* Recurrence.                                                             *)

\* A multiple of the interval keeps the phase.
LEMMA SamePhase ==
    ASSUME NEW a \in Int, NEW n \in Nat \ {0}, NEW k \in Int, a % n = 0
    PROVE  (a + n * k) % n = 0
<1>1. a = n * (a \div n) /\ a \div n \in Int
  OBVIOUS
<1>2. ASSUME NEW m \in Int PROVE (n * m) % n = 0
  OBVIOUS
<1>3. a + n * k = n * (a \div n + k) /\ a \div n + k \in Int
  BY <1>1
<1> QED
  BY <1>2, <1>3

\* The next occurrence of an interval is a time, in the phase of the last one.
LEMMA NextIntervalFacts ==
    ASSUME NEW from \in Nat, NEW interval \in Nat \ {0}, NEW moment \in Nat, NEW first \in Nat,
           (from - first) % interval = 0
    PROVE  /\ NextInterval(from, interval, moment) \in Nat
           /\ (NextInterval(from, interval, moment) - first) % interval = 0
<1>1. CASE from > moment
  BY <1>1 DEF NextInterval
<1>2. CASE ~(from > moment)
  <2> DEFINE k == (moment - from) \div interval + 1
  <2>1. moment - from \in Nat
    BY <1>2
  <2>2. k \in Nat
    BY <2>1
  <2>3. NextInterval(from, interval, moment) = from + interval * k
    BY <1>2 DEF NextInterval
  <2> HIDE DEF k
  <2>4. interval * k \in Nat
    BY <2>2
  <2>5. ((from - first) + interval * k) % interval = 0
    <3> DEFINE a == from - first
    <3>1. a \in Int /\ a % interval = 0 /\ k \in Int
      BY <2>2
    <3> HIDE DEF a
    <3>2. (a + interval * k) % interval = 0
      BY <3>1, SamePhase
    <3> QED
      BY <3>2 DEF a
  <2>6. (from - first) + interval * k = (from + interval * k) - first
    BY <2>4
  <2> QED
    BY <2>3, <2>4, <2>5, <2>6
<1> QED
  BY <1>1, <1>2

\* Where an occurrence comes from is a time.
LEMMA OriginFacts ==
    ASSUME NEW schedule \in Schedule
    PROVE  Origin(schedule) \in Nat
  BY DEF Origin, Schedule, NoTime

\* The next occurrence is a time, in phase.
LEMMA NextOccurrenceFacts ==
    ASSUME NEW schedule \in Schedule, InPhase(schedule), NEW moment \in Nat
    PROVE  /\ NextOccurrence(schedule, moment) \in Nat
           /\ schedule.plan.recurrence = "interval" =>
                (NextOccurrence(schedule, moment) - schedule.plan.first)
                  % schedule.plan.interval = 0
<1>1. schedule.plan \in Plans /\ schedule.next \in Nat
  BY DEF Schedule
<1>2. /\ schedule.plan.recurrence \in {"once", "interval", "daily"}
      /\ schedule.plan.interval \in Nat \ {0} /\ schedule.plan.first \in Nat
      /\ schedule.plan.daily \in Nat
  BY <1>1 DEF Plans
<1>3. CASE schedule.plan.recurrence = "once"
  BY <1>1, <1>3 DEF NextOccurrence
<1>4. CASE schedule.plan.recurrence = "interval"
  <2>1. NextOccurrence(schedule, moment)
          = NextInterval(Origin(schedule), schedule.plan.interval, moment)
    BY <1>4 DEF NextOccurrence
  <2>2. (Origin(schedule) - schedule.plan.first) % schedule.plan.interval = 0
    BY <1>4 DEF InPhase
  <2> DEFINE from == Origin(schedule)
             interval == schedule.plan.interval
             first == schedule.plan.first
  <2>3. from \in Nat /\ interval \in Nat \ {0} /\ first \in Nat /\ (from - first) % interval = 0
    BY <1>2, <2>2, OriginFacts
  <2> HIDE DEF from, interval, first
  <2>4. /\ NextInterval(from, interval, moment) \in Nat
        /\ (NextInterval(from, interval, moment) - first) % interval = 0
    BY <2>3, NextIntervalFacts
  <2> QED
    BY <2>1, <2>4 DEF from, interval, first
<1>5. CASE schedule.plan.recurrence = "daily"
  <2>1. NextOccurrence(schedule, moment) = NextDaily(schedule.plan.daily, moment)
    BY <1>5 DEF NextOccurrence
  <2>2. Day \in Nat \ {0}
    BY StoreAssumption
  <2>3. moment \div Day \in Nat
    BY <2>2
  <2>4. (moment \div Day) * Day \in Nat
    BY <2>2, <2>3
  <2>5. NextDaily(schedule.plan.daily, moment) \in Nat
    BY <1>2, <2>2, <2>4 DEF NextDaily
  <2> QED
    BY <1>5, <2>1, <2>5
<1> QED
  BY <1>2, <1>3, <1>4, <1>5

---------------------------------------------------------------------------
(* What becomes of a schedule.                                             *)

\* The fields of a schedule that is put back to a time, without a lease.
Rested(schedule, next, enabled, attempt, origin) ==
    [Released(schedule) EXCEPT !.next = next, !.enabled = enabled, !.attempt = attempt,
                               !.origin = origin]

\* Such a schedule is sound if it is in phase and has attempts left.
LEMMA RestedFacts ==
    ASSUME NEW schedule \in Schedule, NEW next \in Nat, NEW enabled \in BOOLEAN,
           NEW attempt \in Nat \ {0}, NEW origin \in Nat \cup {NoTime},
           attempt <= schedule.plan.retries + 1,
           schedule.plan.recurrence = "interval" =>
             ((IF origin # NoTime THEN origin ELSE next) - schedule.plan.first)
               % schedule.plan.interval = 0
    PROVE  LET rested == Rested(schedule, next, enabled, attempt, origin)
           IN  /\ SoundSchedule(rested)
               /\ rested.plan = schedule.plan
               /\ rested.owner = Nobody /\ rested.until = NoTime /\ rested.active = NoRun
<1> DEFINE rested == Rested(schedule, next, enabled, attempt, origin)
<1> DEFINE released == Released(schedule)
<1>0. /\ released \in Schedule /\ released.plan = schedule.plan /\ released.owner = Nobody
      /\ released.until = NoTime /\ released.active = NoRun
  BY DEF Released, Schedule, NoRun
<1>1. rested = [released EXCEPT !.next = next, !.enabled = enabled, !.attempt = attempt,
                                !.origin = origin]
  BY DEF Rested
<1> HIDE DEF released, rested
<1>2. /\ rested \in Schedule
      /\ rested.plan = schedule.plan /\ rested.next = next /\ rested.attempt = attempt
      /\ rested.origin = origin
      /\ rested.owner = Nobody /\ rested.until = NoTime /\ rested.active = NoRun
  BY <1>0, <1>1 DEF Schedule
<1>3. InPhase(rested)
  BY <1>2 DEF InPhase, Origin
<1>4. LeaseWhole(rested)
  BY <1>2 DEF LeaseWhole
<1> QED
  BY <1>2, <1>3, <1>4 DEF SoundSchedule, rested

\* _advance puts the schedule back to rest at its next occurrence.
LEMMA AdvanceFacts ==
    ASSUME NEW schedule \in Schedule, InPhase(schedule), NEW moment \in Nat
    PROVE  LET rested == Advance(schedule, moment)
           IN  /\ SoundSchedule(rested)
               /\ rested.plan = schedule.plan
               /\ rested.owner = Nobody /\ rested.until = NoTime /\ rested.active = NoRun
<1> DEFINE next == NextOccurrence(schedule, moment)
           enabled == Released(schedule).enabled /\ schedule.plan.recurrence # "once"
           tried == 1
           origin == NoTime
<1>1. /\ next \in Nat
      /\ schedule.plan.recurrence = "interval" =>
           (next - schedule.plan.first) % schedule.plan.interval = 0
  BY NextOccurrenceFacts
<1>2. enabled \in BOOLEAN
  OBVIOUS
<1>3. Advance(schedule, moment) = Rested(schedule, next, enabled, tried, origin)
  BY DEF Advance, Rested
<1>4. tried \in Nat \ {0} /\ tried <= schedule.plan.retries + 1
  BY DEF Schedule, Plans
<1>5. origin \in Nat \cup {NoTime} /\ origin = NoTime
  OBVIOUS
<1> HIDE DEF next, enabled, tried, origin
<1>6. schedule.plan.recurrence = "interval" =>
        ((IF origin # NoTime THEN origin ELSE next) - schedule.plan.first)
          % schedule.plan.interval = 0
  BY <1>1, <1>5
<1> QED
  BY <1>1, <1>2, <1>3, <1>4, <1>5, <1>6, RestedFacts

\* _after_terminal does so too, for another attempt or the next occurrence.
LEMMA AfterTerminalFacts ==
    ASSUME NEW schedule \in Schedule, InPhase(schedule), NEW attempt \in Nat \ {0},
           NEW status, NEW moment \in Nat
    PROVE  LET rested == AfterTerminal(schedule, attempt, status, moment)
           IN  /\ SoundSchedule(rested)
               /\ rested.plan = schedule.plan
               /\ rested.owner = Nobody /\ rested.until = NoTime /\ rested.active = NoRun
<1>1. CASE status = "failed" /\ attempt <= schedule.plan.retries
  <2> DEFINE next == moment + schedule.plan.delay
             tried == attempt + 1
             origin == Origin(schedule)
             enabled == TRUE
  <2>1. schedule.plan.delay \in Nat /\ schedule.plan.retries \in Nat
    BY DEF Schedule, Plans
  <2>2. next \in Nat /\ tried \in Nat \ {0} /\ tried <= schedule.plan.retries + 1
    BY <1>1, <2>1
  <2>3. origin \in Nat /\ origin # NoTime
    BY OriginFacts DEF NoTime
  <2>4. schedule.plan.recurrence = "interval" =>
          ((IF origin # NoTime THEN origin ELSE next) - schedule.plan.first)
            % schedule.plan.interval = 0
    BY <2>3 DEF InPhase
  <2>5. AfterTerminal(schedule, attempt, status, moment)
          = Rested(schedule, next, enabled, tried, origin)
    BY <1>1 DEF AfterTerminal, Rested
  <2>6. enabled \in BOOLEAN
    OBVIOUS
  <2> HIDE DEF next, tried, origin, enabled
  <2> QED
    BY <2>2, <2>3, <2>4, <2>5, <2>6, RestedFacts
<1>2. CASE ~(status = "failed" /\ attempt <= schedule.plan.retries)
  BY <1>2, AdvanceFacts DEF AfterTerminal
<1> QED
  BY <1>1, <1>2

---------------------------------------------------------------------------
(* claim_due.                                                              *)

\* The rank of a member of a finite set of numbers is between 1 and the size
\* of the set, and no two members have the same.
LEMMA RankFacts ==
    ASSUME NEW n \in Nat, NEW S \in SUBSET (1 .. n)
    PROVE  /\ IsFiniteSet(S) /\ Cardinality(S) \in Nat
           /\ \A s \in S : Cardinality({t \in S : t <= s}) \in 1 .. Cardinality(S)
           /\ \A s, q \in S :
                Cardinality({t \in S : t <= s}) = Cardinality({t \in S : t <= q}) => s = q
<1> DEFINE Below(s) == {t \in S : t <= s}
<1>1. IsFiniteSet(S)
  BY FS_Interval, FS_Subset, 1 \in Int, n \in Int
<1>2. ASSUME NEW s \in S
      PROVE  /\ IsFiniteSet(Below(s)) /\ Cardinality(Below(s)) \in Nat
             /\ Cardinality(Below(s)) <= Cardinality(S)
             /\ Cardinality(Below(s)) # 0
  <2>1. Below(s) \subseteq S /\ s \in Below(s)
    OBVIOUS
  <2>2. IsFiniteSet(Below(s)) /\ Cardinality(Below(s)) <= Cardinality(S)
    BY <1>1, <2>1, FS_Subset
  <2> QED
    BY <2>1, <2>2, FS_CardinalityType, FS_EmptySet
<1>3. ASSUME NEW s \in S, NEW q \in S, s < q
      PROVE  Cardinality(Below(s)) # Cardinality(Below(q))
  <2>0. s \in Int /\ q \in Int /\ \A t \in S : t \in Int
    OBVIOUS
  <2>1. Below(s) \subseteq Below(q)
    <3> SUFFICES ASSUME NEW t \in S, t <= s PROVE t <= q
      OBVIOUS
    <3> QED
      BY <1>3, <2>0
  <2>2. q \in Below(q) /\ q \notin Below(s)
    BY <1>3, <2>0
  <2> QED
    BY <1>2, <2>1, <2>2, FS_Subset
<1>4. Cardinality(S) \in Nat
  BY <1>1, FS_CardinalityType
<1>5. \A s, q \in S : s < q \/ q < s \/ s = q
  OBVIOUS
<1>6. \A s \in S : Cardinality(Below(s)) \in 1 .. Cardinality(S)
  BY <1>2, <1>4
<1>7. \A s, q \in S : Cardinality(Below(s)) = Cardinality(Below(q)) => s = q
  BY <1>3, <1>5
<1> QED
  BY <1>1, <1>4, <1>6, <1>7

\* The runs a pass claims are new and numbered one by one.
LEMMA ClaimedRunFacts ==
    ASSUME NEW c, IsCatalog(c), NEW moment
    PROVE  LET claimers == Claimers(c, moment)
           IN  /\ Cardinality(claimers) \in Nat
               /\ \A s \in claimers :
                    ClaimedRun(c, s, moment) \in (c.last + 1) .. (c.last + Cardinality(claimers))
               /\ \A s, t \in claimers :
                    ClaimedRun(c, s, moment) = ClaimedRun(c, t, moment) => s = t
               /\ claimers # {} => Cardinality(claimers) # 0
<1> DEFINE claimers == Claimers(c, moment)
           Rank(s) == Cardinality({t \in claimers : t <= s})
<1>1. PICK n \in Nat : DOMAIN c.schedules = 1 .. n
  BY DEF IsCatalog
<1>2. claimers \in SUBSET (1 .. n)
  BY <1>1 DEF Claimers
<1>3. \A s \in claimers : ClaimedRun(c, s, moment) = c.last + Rank(s)
  BY DEF ClaimedRun
<1>4. c.last \in Nat
  BY DEF IsCatalog
<1> HIDE DEF claimers
<1>5. /\ IsFiniteSet(claimers) /\ Cardinality(claimers) \in Nat
      /\ \A s \in claimers : Rank(s) \in 1 .. Cardinality(claimers)
      /\ \A s, q \in claimers : Rank(s) = Rank(q) => s = q
  BY <1>2, RankFacts
<1>6. claimers # {} => Cardinality(claimers) # 0
  BY <1>5, FS_EmptySet
<1> HIDE DEF Rank
<1>7. \A s \in claimers :
        ClaimedRun(c, s, moment) \in (c.last + 1) .. (c.last + Cardinality(claimers))
  BY <1>3, <1>4, <1>5
<1>8. \A s, t \in claimers : ClaimedRun(c, s, moment) = ClaimedRun(c, t, moment) => s = t
  BY <1>3, <1>4, <1>5
<1> QED
  BY <1>5, <1>6, <1>7, <1>8 DEF claimers

\* What a pass makes of one schedule of a valid catalog: it is claimed, put to
\* rest because its run is lost or it has nothing to run, or left alone.
LEMMA VisitedFacts ==
    ASSUME NEW c, Sane(c), Valid(c), NEW w \in Workers, NEW moment \in Nat,
           NEW s \in DOMAIN c.schedules
    PROVE  LET old == c.schedules[s]
               new == Visited(c, s, w, moment)
           IN  /\ SoundSchedule(new) /\ new.plan = old.plan
               /\ s \in Claimers(c, moment) =>
                    /\ old.active = NoRun /\ Duplicates(c, s) = {}
                    /\ new.active = ClaimedRun(c, s, moment)
                    /\ new.owner = w
               /\ s \notin Claimers(c, moment) /\ Abandoned(c, s, moment) => new.active = NoRun
               /\ s \notin Claimers(c, moment) /\ ~Abandoned(c, s, moment) =>
                    \/ new = old
                    \/ old.active = NoRun /\ new.active = NoRun
<1> DEFINE old == c.schedules[s]
           new == Visited(c, s, w, moment)
           run == c.runs[old.active]
<1>1. SoundSchedule(old) /\ old \in Schedule /\ InPhase(old) /\ LeaseWhole(old)
  BY DEF Sane, SoundSchedule
<1>2. old.active # NoRun =>
        old.active \in DOMAIN c.runs /\ run.status = "claimed"
  BY DEF Valid
<1>3. \A r \in DOMAIN c.runs : c.runs[r] \in Run /\ c.runs[r].attempt \in Nat \ {0}
  BY DEF Sane, Run
<1>4. CASE Abandoned(c, s, moment)
  <2>1. s \notin Claimers(c, moment)
    BY <1>4 DEF Claimers, Claimable
  <2>2. run.attempt \in Nat \ {0}
    BY <1>3, <1>4 DEF Abandoned
  <2>3. new = AfterTerminal(old, run.attempt, "failed", moment)
    BY <1>4 DEF Visited
  <2> DEFINE tried == run.attempt
             status == "failed"
  <2> HIDE DEF old, new, run, tried, status
  <2>4. SoundSchedule(new) /\ new.plan = old.plan /\ new.active = NoRun
    BY <1>1, <2>2, <2>3, AfterTerminalFacts DEF tried, status
  <2> QED
    BY <1>4, <2>1, <2>4 DEF old, new
<1>5. CASE ~Abandoned(c, s, moment)
  <2>1. old.active # NoRun => LeaseActive(old, moment)
    BY <1>2, <1>5 DEF Abandoned
  <2>2. ~LeaseActive(old, moment) => old.active = NoRun /\ old.owner = Nobody /\ old.until = NoTime
    BY <1>1, <2>1 DEF LeaseWhole
  <2>3. Repaired(old, moment) = old
    <3> DEFINE sch == old
    <3>1. sch \in Schedule
      BY <1>1
    <3> HIDE DEF old, sch
    <3>2. sch.active = NoRun /\ sch.owner = Nobody /\ sch.until = NoTime => Released(sch) = sch
      BY <3>1 DEF Released, Schedule
    <3> QED
      BY <2>2, <3>2 DEF Repaired, sch
  <2>4. CASE ~Due(old, moment)
    <3>1. new = old
      BY <1>5, <2>3, <2>4 DEF Visited
    <3>2. s \notin Claimers(c, moment)
      BY <2>4 DEF Claimers, Claimable
    <3> QED
      BY <1>1, <1>5, <3>1, <3>2
  <2>5. CASE Due(old, moment) /\ Misfired(old, moment)
    <3>1. new = Advance(old, moment)
      BY <1>5, <2>3, <2>5 DEF Visited
    <3>2. s \notin Claimers(c, moment)
      BY <2>5 DEF Claimers, Claimable
    <3>3. old.active = NoRun
      BY <2>1, <2>5 DEF Due
    <3> HIDE DEF old, new
    <3>4. SoundSchedule(new) /\ new.plan = old.plan /\ new.active = NoRun
      BY <1>1, <3>1, AdvanceFacts
    <3> QED
      BY <1>5, <3>2, <3>3, <3>4 DEF old, new
  <2>6. CASE Due(old, moment) /\ ~Misfired(old, moment) /\ Duplicates(c, s) # {}
    <3> DEFINE duplicate == c.runs[CHOOSE r \in Duplicates(c, s) : TRUE]
               tried == duplicate.attempt
               status == IF duplicate.status = "claimed" THEN "failed" ELSE duplicate.status
    <3>1. new = AfterTerminal(old, tried, status, moment)
      BY <1>5, <2>3, <2>6 DEF Visited
    <3>2. s \notin Claimers(c, moment)
      BY <2>6 DEF Claimers, Claimable
    <3>3. old.active = NoRun
      BY <2>1, <2>6 DEF Due
    <3>4. (CHOOSE r \in Duplicates(c, s) : TRUE) \in DOMAIN c.runs
      BY <2>6 DEF Duplicates
    <3>5. tried \in Nat \ {0}
      BY <1>3, <3>4
    <3> HIDE DEF old, new, tried, status
    <3>6. SoundSchedule(new) /\ new.plan = old.plan /\ new.active = NoRun
      BY <1>1, <3>1, <3>5, AfterTerminalFacts
    <3> QED
      BY <1>5, <3>2, <3>3, <3>6 DEF old, new
  <2>7. CASE Due(old, moment) /\ ~Misfired(old, moment) /\ Duplicates(c, s) = {}
    <3> DEFINE r == ClaimedRun(c, s, moment)
               t == moment + Lease
    <3>1. new = [old EXCEPT !.owner = w, !.until = t, !.active = r]
      BY <1>5, <2>3, <2>7 DEF Visited
    <3>2. s \in Claimers(c, moment)
      BY <1>5, <2>7 DEF Claimers, Claimable
    <3>3. old.active = NoRun
      BY <2>1, <2>7 DEF Due
    <3>4. r \in Nat /\ r # NoRun
      BY <3>2, ClaimedRunFacts DEF Sane, IsCatalog, NoRun
    <3>5. t \in Nat /\ t # NoTime /\ w # Nobody
      BY StoreAssumption, WorkerAssumption DEF NoTime
    <3>6. old.attempt <= old.plan.retries + 1
      BY <1>1 DEF SoundSchedule
    <3> HIDE DEF old, new, r, t
    <3>7. /\ new \in Schedule /\ new.plan = old.plan /\ new.origin = old.origin
          /\ new.next = old.next /\ new.attempt = old.attempt /\ new.owner = w /\ new.until = t
          /\ new.active = r
      BY <1>1, <3>1, <3>4, <3>5 DEF Schedule
    <3>8. InPhase(new)
      BY <1>1, <3>7 DEF InPhase, Origin
    <3>9. LeaseWhole(new)
      BY <3>4, <3>5, <3>7 DEF LeaseWhole
    <3>10. SoundSchedule(new)
      BY <3>6, <3>7, <3>8, <3>9 DEF SoundSchedule
    <3> QED
      BY <2>7, <3>2, <3>3, <3>7, <3>10 DEF old, new, r
  <2> QED
    BY <2>4, <2>5, <2>6, <2>7
<1> QED
  BY <1>4, <1>5

\* The fields of the catalog a pass writes.
LEMMA WrittenFacts ==
    ASSUME NEW c, IsCatalog(c), NEW schedules, NEW last, NEW runs
    PROVE  LET d == Revised([c EXCEPT !.schedules = schedules, !.last = last, !.runs = runs])
           IN  d = [revision |-> c.revision + 1, schedules |-> schedules, last |-> last,
                    runs |-> runs]
<1> DEFINE e == [c EXCEPT !.schedules = schedules, !.last = last, !.runs = runs]
<1>1. DOMAIN e = DOMAIN c /\ DOMAIN c = {"revision", "schedules", "last", "runs"}
  BY DEF IsCatalog
<1>2. e.revision = c.revision /\ e.schedules = schedules /\ e.last = last /\ e.runs = runs
  BY <1>1
<1>3. e = [x \in DOMAIN e |-> e[x]]
  OBVIOUS
<1> HIDE DEF e
<1>4. Revised(e) = [revision |-> c.revision + 1, schedules |-> schedules, last |-> last,
                    runs |-> runs]
  <2>1. e = [revision |-> e.revision, schedules |-> e.schedules, last |-> e.last, runs |-> e.runs]
    BY <1>1, <1>3
  <2> QED
    BY <1>2, <2>1 DEF Revised
<1> QED
  BY <1>4 DEF e

\* The runs whose lease ran out.
LostRuns(c, moment) ==
    {c.schedules[s].active : s \in {t \in DOMAIN c.schedules : Abandoned(c, t, moment)}}

\* The runs a pass leaves in the catalog: the new ones, the lost ones as
\* failed, and the others as they were.
LEMMA VisitedRunsFacts ==
    ASSUME NEW c, Sane(c), NEW moment
    PROVE  LET runs == VisitedRuns(c, moment)
           IN  /\ \A r \in DOMAIN runs : r > c.last =>
                    \E s \in Claimers(c, moment) :
                      r = ClaimedRun(c, s, moment) /\ runs[r] = NewRun(s, c.schedules[s])
               /\ \A r \in DOMAIN runs : r <= c.last =>
                    /\ r \in DOMAIN c.runs
                    /\ r \in LostRuns(c, moment) =>
                         /\ c.runs[r].status = "claimed"
                         /\ runs[r] = [c.runs[r] EXCEPT !.status = "failed"]
                    /\ r \notin LostRuns(c, moment) => runs[r] = c.runs[r]
               /\ DOMAIN runs \subseteq 1 .. (c.last + Cardinality(Claimers(c, moment)))
               /\ DOMAIN c.runs \subseteq DOMAIN runs
               /\ \A s \in Claimers(c, moment) : ClaimedRun(c, s, moment) \in DOMAIN runs
<1> DEFINE claimers == Claimers(c, moment)
           lost == LostRuns(c, moment)
           new == {ClaimedRun(c, s, moment) : s \in claimers}
           By(r) == CHOOSE t \in claimers : ClaimedRun(c, t, moment) = r
           runs == VisitedRuns(c, moment)
<1>1. /\ DOMAIN runs = DOMAIN c.runs \cup new
      /\ \A r \in DOMAIN runs :
           runs[r] = IF r \in new THEN NewRun(By(r), c.schedules[By(r)])
                     ELSE IF r \in lost THEN [c.runs[r] EXCEPT !.status = "failed"]
                     ELSE c.runs[r]
  BY DEF VisitedRuns, LostRuns
<1>2. c.last \in Nat /\ DOMAIN c.runs \subseteq 1 .. c.last
  BY DEF Sane, IsCatalog
<1>3. /\ Cardinality(claimers) \in Nat
      /\ \A s \in claimers :
           ClaimedRun(c, s, moment) \in (c.last + 1) .. (c.last + Cardinality(claimers))
  BY ClaimedRunFacts DEF Sane
<1>4. \A r \in lost : c.runs[r].status = "claimed"
  BY DEF LostRuns, Abandoned
<1>5. \A r \in new : By(r) \in claimers /\ ClaimedRun(c, By(r), moment) = r
  OBVIOUS
<1>6. \A r \in new : r \in Nat /\ r > c.last /\ r >= 1 /\ r <= c.last + Cardinality(claimers)
  BY <1>2, <1>3
<1> HIDE DEF claimers, lost, By, runs
<1>7. \A r \in DOMAIN runs : r > c.last => r \in new
  BY <1>1, <1>2
<1>8. \A r \in DOMAIN runs : r <= c.last => r \notin new /\ r \in DOMAIN c.runs
  BY <1>1, <1>2, <1>6
<1>9. DOMAIN runs \subseteq 1 .. (c.last + Cardinality(claimers))
  BY <1>1, <1>2, <1>3, <1>6
<1>10. \A s \in claimers : ClaimedRun(c, s, moment) \in DOMAIN runs
  BY <1>1
<1> HIDE DEF new
<1>11. \A r \in DOMAIN runs : r > c.last =>
         \E s \in claimers : r = ClaimedRun(c, s, moment) /\ runs[r] = NewRun(s, c.schedules[s])
  BY <1>1, <1>5, <1>7
<1>12. \A r \in DOMAIN runs : r <= c.last =>
         /\ r \in DOMAIN c.runs
         /\ r \in lost => /\ c.runs[r].status = "claimed"
                          /\ runs[r] = [c.runs[r] EXCEPT !.status = "failed"]
         /\ r \notin lost => runs[r] = c.runs[r]
  BY <1>1, <1>4, <1>8
<1>13. DOMAIN c.runs \subseteq DOMAIN runs
  BY <1>1
<1> QED
  BY <1>9, <1>10, <1>11, <1>12, <1>13 DEF claimers, lost, runs

\* A catalog is what it was.
LEMMA FollowsSelf ==
    ASSUME NEW c, Sane(c)
    PROVE  Follows(c, c) /\ JobsKept(c, c)
<1>1. c.last \in Nat /\ c.revision \in Nat /\ DOMAIN c.runs \subseteq 1 .. c.last
  BY DEF Sane, IsCatalog
<1>2. \A r \in DOMAIN c.runs : r <= c.last
  BY <1>1
<1> QED
  BY <1>1, <1>2 DEF Follows, JobsKept

\* The newest RunsKept runs include those that are still active: no cut has
\* dropped one.
InWindow(c) ==
    \A s \in DOMAIN c.schedules :
      c.schedules[s].active # NoRun => c.schedules[s].active > c.last - RunsKept

\* A pass that claims nothing and moves nothing writes nothing, and any other
\* writes the schedules and the runs it visited.
LEMMA ClaimDueShape ==
    ASSUME NEW c, Sane(c), Valid(c), NEW w \in Workers, NEW moment \in Nat
    PROVE  LET d == ClaimDue(c, w, moment)
               runs == VisitedRuns(c, moment)
           IN  \/ d = c /\ Claimers(c, moment) = {}
               \/ /\ d = [revision |-> d.revision, schedules |-> d.schedules, last |-> d.last,
                          runs |-> d.runs]
                  /\ d.revision = c.revision + 1
                  /\ DOMAIN d.schedules = DOMAIN c.schedules
                  /\ \A s \in DOMAIN c.schedules : d.schedules[s] = Visited(c, s, w, moment)
                  /\ d.last = c.last + Cardinality(Claimers(c, moment))
                  /\ \A r \in DOMAIN d.runs :
                       r \in DOMAIN runs /\ d.runs[r] = runs[r]
                  /\ \A r \in DOMAIN runs : r > d.last - RunsKept => r \in DOMAIN d.runs
<1> DEFINE d == ClaimDue(c, w, moment)
           runs == VisitedRuns(c, moment)
           schedules == [s \in DOMAIN c.schedules |-> Visited(c, s, w, moment)]
           last == c.last + Cardinality(Claimers(c, moment))
           kept == Trimmed(runs, last)
<1>1. CASE schedules = c.schedules
  <2>1. d = c
    BY <1>1 DEF ClaimDue
  <2>2. ASSUME NEW s \in Claimers(c, moment) PROVE FALSE
    <3>1. s \in DOMAIN c.schedules
      BY DEF Claimers
    <3>2. Visited(c, s, w, moment) = c.schedules[s]
      BY <1>1, <3>1
    <3>3. /\ c.schedules[s].active = NoRun
          /\ Visited(c, s, w, moment).active = ClaimedRun(c, s, moment)
      BY <3>1, VisitedFacts
    <3>4. ClaimedRun(c, s, moment) # NoRun
      BY ClaimedRunFacts DEF Sane, IsCatalog, NoRun
    <3> QED
      BY <3>2, <3>3, <3>4
  <2> QED
    BY <2>1, <2>2
<1>2. CASE schedules # c.schedules
  <2>1. d = Revised([c EXCEPT !.schedules = schedules, !.last = last, !.runs = kept])
    BY <1>2 DEF ClaimDue
  <2>2. /\ DOMAIN schedules = DOMAIN c.schedules
        /\ \A s \in DOMAIN c.schedules : schedules[s] = Visited(c, s, w, moment)
    OBVIOUS
  <2>3. DOMAIN kept = {r \in DOMAIN runs : r > last - RunsKept} /\ \A r \in DOMAIN kept : kept[r] = runs[r]
    BY DEF Trimmed, Restrict
  <2> HIDE DEF d, schedules, kept, last, runs
  <2>4. d = [revision |-> c.revision + 1, schedules |-> schedules, last |-> last, runs |-> kept]
    BY <2>1, WrittenFacts DEF Sane
  <2>5. /\ d.revision = c.revision + 1 /\ d.schedules = schedules /\ d.last = last
        /\ d.runs = kept
    BY <2>4
  <2>6. d = [revision |-> d.revision, schedules |-> d.schedules, last |-> d.last, runs |-> d.runs]
    BY <2>4, <2>5
  <2>7. \A r \in DOMAIN d.runs : r \in DOMAIN runs /\ d.runs[r] = runs[r]
    BY <2>3, <2>5
  <2>8. \A r \in DOMAIN runs : r > d.last - RunsKept => r \in DOMAIN d.runs
    BY <2>3, <2>5
  <2> QED
    BY <2>2, <2>5, <2>6, <2>7, <2>8 DEF d, last, runs
<1> QED
  BY <1>1, <1>2

\* What a claim makes of an occurrence is a run.
LEMMA NewRunFacts ==
    ASSUME NEW s \in Nat, NEW schedule \in Schedule
    PROVE  LET run == NewRun(s, schedule)
           IN  /\ run \in Run
               /\ run.schedule = s /\ run.due = schedule.next /\ run.status = "claimed"
               /\ run.job = NoJob
  BY DEF NewRun, Run, Schedule, NoJob

\* A lost run stays what it was, but for its status.
LEMMA LostRunFacts ==
    ASSUME NEW old \in Run
    PROVE  LET run == [old EXCEPT !.status = "failed"]
           IN  /\ run \in Run
               /\ run.schedule = old.schedule /\ run.due = old.due /\ run.status = "failed"
               /\ run.job = old.job
  BY DEF Run, RunEnded

\* What claim_due makes of a valid catalog.
LEMMA ClaimDueFacts ==
    ASSUME NEW c, Sane(c), Valid(c), NEW w \in Workers, NEW moment \in Nat
    PROVE  LET d == ClaimDue(c, w, moment)
           IN  Follows(c, d) /\ JobsKept(c, d)
<1> DEFINE d == ClaimDue(c, w, moment)
           claimers == Claimers(c, moment)
           lost == LostRuns(c, moment)
           Number(s) == ClaimedRun(c, s, moment)
<1>1. CASE d = c
  BY <1>1, FollowsSelf
<1>2. CASE d # c
  <2>1. /\ d = [revision |-> d.revision, schedules |-> d.schedules, last |-> d.last, runs |-> d.runs]
        /\ d.revision = c.revision + 1
        /\ DOMAIN d.schedules = DOMAIN c.schedules
        /\ \A s \in DOMAIN c.schedules : d.schedules[s] = Visited(c, s, w, moment)
        /\ d.last = c.last + Cardinality(claimers)
        /\ \A r \in DOMAIN d.runs :
             r \in DOMAIN VisitedRuns(c, moment) /\ d.runs[r] = VisitedRuns(c, moment)[r]
    BY <1>2, ClaimDueShape
  <2>2. /\ c.last \in Nat /\ c.revision \in Nat /\ \E n \in Nat : DOMAIN c.schedules = 1 .. n
        /\ DOMAIN c.schedules \subseteq Nat
    BY DEF Sane, IsCatalog
  <2>3. /\ Cardinality(claimers) \in Nat
        /\ \A s \in claimers : Number(s) \in (c.last + 1) .. (c.last + Cardinality(claimers))
        /\ claimers \subseteq DOMAIN c.schedules
    BY ClaimedRunFacts DEF Sane, Claimers
  <2>4. \A s \in DOMAIN c.schedules :
          /\ SoundSchedule(d.schedules[s]) /\ d.schedules[s].plan = c.schedules[s].plan
          /\ s \in claimers => d.schedules[s].active = Number(s) /\ d.schedules[s].owner = w
                               /\ c.schedules[s].active = NoRun
          /\ s \notin claimers /\ Abandoned(c, s, moment) => d.schedules[s].active = NoRun
          /\ s \notin claimers /\ ~Abandoned(c, s, moment) =>
               \/ d.schedules[s] = c.schedules[s]
               \/ c.schedules[s].active = NoRun /\ d.schedules[s].active = NoRun
    BY <2>1, VisitedFacts
  <2>5. /\ DOMAIN d.runs \subseteq 1 .. d.last
        /\ \A r \in DOMAIN d.runs : r > c.last =>
             \E s \in claimers : r = Number(s) /\ d.runs[r] = NewRun(s, c.schedules[s])
        /\ \A r \in DOMAIN d.runs : r <= c.last =>
             /\ r \in DOMAIN c.runs
             /\ r \in lost => /\ c.runs[r].status = "claimed"
                              /\ d.runs[r] = [c.runs[r] EXCEPT !.status = "failed"]
             /\ r \notin lost => d.runs[r] = c.runs[r]
    BY <2>1, VisitedRunsFacts
  <2>6. \A s \in DOMAIN c.schedules : c.schedules[s] \in Schedule /\ c.schedules[s].active <= c.last
    BY DEF Sane, SoundSchedule
  <2>7. \A r \in DOMAIN c.runs : c.runs[r] \in Run /\ c.runs[r].schedule \in DOMAIN c.schedules
    BY DEF Sane
  <2>8. \A s \in DOMAIN c.schedules : s \in Nat /\ c.schedules[s].active \in Nat
    BY <2>2, <2>6 DEF Schedule
  <2>9. \A r \in lost : \E s \in DOMAIN c.schedules : r = c.schedules[s].active /\ Abandoned(c, s, moment)
    BY DEF LostRuns
  <2>10. \A s \in DOMAIN c.schedules : Abandoned(c, s, moment) => c.schedules[s].active \in lost
    BY DEF LostRuns
  <2>11. ClaimedActive(c)
    BY DEF Sane
  <2> HIDE DEF d, claimers, lost, Number
  <2>12. d.last \in Nat /\ d.last >= c.last /\ d.revision \in Nat /\ d.revision > c.revision
    BY <2>1, <2>2, <2>3
  <2>13. IsCatalog(d)
    BY <2>1, <2>2, <2>5, <2>12 DEF IsCatalog
  <2>14. ASSUME NEW s \in DOMAIN d.schedules
         PROVE  SoundSchedule(d.schedules[s]) /\ d.schedules[s].active <= d.last
    <3>1. s \in DOMAIN c.schedules
      BY <2>1
    <3>2. CASE s \in claimers
      BY <2>1, <2>2, <2>3, <2>4, <3>1, <3>2
    <3>3. CASE d.schedules[s].active = NoRun
      BY <2>4, <2>12, <3>1, <3>3 DEF NoRun
    <3>4. CASE d.schedules[s] = c.schedules[s]
      BY <2>2, <2>4, <2>6, <2>8, <2>12, <3>1, <3>4
    <3> QED
      BY <2>4, <3>1, <3>2, <3>3, <3>4
  <2>15. ASSUME NEW r \in DOMAIN d.runs, r > c.last
         PROVE  /\ d.runs[r] \in Run /\ d.runs[r].schedule \in DOMAIN d.schedules
                /\ d.runs[r].job = NoJob
                /\ d.schedules[d.runs[r].schedule].active = r
    <3>1. PICK s \in claimers : r = Number(s) /\ d.runs[r] = NewRun(s, c.schedules[s])
      BY <2>5, <2>15
    <3>2. s \in DOMAIN c.schedules
      BY <2>3
    <3>3. d.runs[r] \in Run /\ d.runs[r].schedule = s /\ d.runs[r].job = NoJob
      BY <2>6, <2>8, <3>1, <3>2, NewRunFacts
    <3> QED
      BY <2>1, <2>4, <3>1, <3>2, <3>3
  <2>16. ASSUME NEW r \in DOMAIN d.runs, r <= c.last
         PROVE  /\ r \in DOMAIN c.runs
                /\ d.runs[r] \in Run /\ d.runs[r].schedule \in DOMAIN d.schedules
                /\ d.runs[r].schedule = c.runs[r].schedule /\ d.runs[r].due = c.runs[r].due
                /\ d.runs[r].job = c.runs[r].job
                /\ c.runs[r].status \in RunEnded => d.runs[r] = c.runs[r]
                /\ d.runs[r].status = "claimed" =>
                     /\ c.runs[r].status = "claimed"
                     /\ d.schedules[d.runs[r].schedule] = c.schedules[c.runs[r].schedule]
                     /\ d.schedules[d.runs[r].schedule].active = r
    <3> DEFINE old == c.runs[r]
    <3>1. r \in DOMAIN c.runs /\ old \in Run /\ old.schedule \in DOMAIN c.schedules
      BY <2>5, <2>7, <2>16
    <3>2. CASE r \in lost
      <4>1. d.runs[r] = [old EXCEPT !.status = "failed"] /\ old.status = "claimed"
        BY <2>5, <2>16, <3>2
      <4> HIDE DEF old
      <4>2. /\ d.runs[r] \in Run
            /\ d.runs[r].schedule = old.schedule /\ d.runs[r].due = old.due
            /\ d.runs[r].status = "failed" /\ d.runs[r].job = old.job
        BY <3>1, <4>1, LostRunFacts
      <4> QED
        BY <2>1, <3>1, <4>1, <4>2 DEF RunEnded, old
    <3>3. CASE r \notin lost
      <4>1. d.runs[r] = old
        BY <2>5, <2>16, <3>3
      <4>2. old.status = "claimed" => c.schedules[old.schedule].active = r
        BY <2>11, <3>1 DEF ClaimedActive
      <4>3. r # NoRun
        BY <3>1 DEF Sane, IsCatalog, NoRun
      <4>4. old.status = "claimed" => d.schedules[old.schedule] = c.schedules[old.schedule]
        BY <2>4, <2>10, <3>1, <3>3, <4>2, <4>3
      <4> QED
        BY <2>1, <3>1, <4>1, <4>2, <4>4
    <3> QED
      BY <3>2, <3>3
  <2>17. \A r \in DOMAIN d.runs : r > c.last \/ r <= c.last
    BY <2>2, <2>5
  <2>18. ClaimedActive(d)
    BY <2>15, <2>16, <2>17 DEF ClaimedActive
  <2>19. Sane(d)
    BY <2>13, <2>14, <2>15, <2>16, <2>17, <2>18 DEF Sane
  <2>20. Follows(c, d)
    <3>1. d.revision # c.revision /\ d.revision >= c.revision
      BY <2>2, <2>12
    <3>2. \A r \in DOMAIN d.runs :
            r <= c.last /\ d.runs[r].status = "claimed" => OwnerOf(d, r) = OwnerOf(c, r)
      BY <2>16 DEF OwnerOf
    <3> QED
      BY <2>1, <2>12, <2>16, <2>19, <3>1, <3>2 DEF Follows
  <2>21. \A r \in DOMAIN d.runs : r > c.last => ~(r <= c.last)
    BY <2>2, <2>5
  <2>22. JobsKept(c, d)
    BY <2>15, <2>16, <2>17, <2>21 DEF JobsKept
  <2> QED
    BY <2>20, <2>22 DEF d
<1> QED
  BY <1>1, <1>2

\* A run of each claim is in the catalog that is written, unless the pass cut
\* the history.
LEMMA ClaimedRuns ==
    ASSUME NEW c, Sane(c), Valid(c), NEW w \in Workers, NEW moment \in Nat
    PROVE  LET d == ClaimDue(c, w, moment)
           IN  /\ \A s \in Claimers(c, moment) :
                    ClaimedRun(c, s, moment) \in (c.last + 1) .. d.last
               /\ d.last <= RunsKept =>
                    /\ Uncut(c, d)
                    /\ \A s \in Claimers(c, moment) :
                         LET r == ClaimedRun(c, s, moment)
                         IN  /\ r \in DOMAIN d.runs
                             /\ d.runs[r].schedule = s
                             /\ d.runs[r].due = c.schedules[s].next
<1> DEFINE d == ClaimDue(c, w, moment)
           claimers == Claimers(c, moment)
           runs == VisitedRuns(c, moment)
           Number(s) == ClaimedRun(c, s, moment)
<1>1. c.last \in Nat /\ RunsKept \in Nat /\ DOMAIN c.runs \subseteq 1 .. c.last
  BY StoreAssumption DEF Sane, IsCatalog
<1>2. CASE d = c /\ claimers = {}
  BY <1>2 DEF Uncut
<1>3. CASE ~(d = c /\ claimers = {})
  <2>1. /\ d.last = c.last + Cardinality(claimers)
        /\ \A r \in DOMAIN d.runs : d.runs[r] = runs[r]
        /\ \A r \in DOMAIN runs : r > d.last - RunsKept => r \in DOMAIN d.runs
    BY <1>3, ClaimDueShape
  <2>2. /\ Cardinality(claimers) \in Nat
        /\ \A s \in claimers : Number(s) \in (c.last + 1) .. (c.last + Cardinality(claimers))
        /\ \A s, t \in claimers : Number(s) = Number(t) => s = t
    BY ClaimedRunFacts DEF Sane
  <2>3. /\ DOMAIN c.runs \subseteq DOMAIN runs
        /\ DOMAIN runs \subseteq 1 .. (c.last + Cardinality(claimers))
        /\ \A s \in claimers : Number(s) \in DOMAIN runs
        /\ \A r \in DOMAIN runs : r > c.last =>
             \E s \in claimers : r = Number(s) /\ runs[r] = NewRun(s, c.schedules[s])
    BY VisitedRunsFacts
  <2> HIDE DEF d, claimers, runs, Number
  <2>4. \A s \in claimers : Number(s) \in (c.last + 1) .. d.last
    BY <2>1, <2>2
  <2>5. ASSUME d.last <= RunsKept
        PROVE  DOMAIN runs \subseteq DOMAIN d.runs
    <3>1. d.last \in Nat
      BY <1>1, <2>1, <2>2
    <3>2. \A r \in DOMAIN runs : r > d.last - RunsKept
      BY <1>1, <2>3, <2>5, <3>1
    <3> QED
      BY <2>1, <3>2
  <2>6. ASSUME d.last <= RunsKept, NEW s \in claimers
        PROVE  /\ Number(s) \in DOMAIN d.runs
               /\ d.runs[Number(s)].schedule = s
               /\ d.runs[Number(s)].due = c.schedules[s].next
    <3>1. Number(s) \in DOMAIN d.runs /\ Number(s) \in DOMAIN runs
      BY <2>3, <2>5, <2>6
    <3>2. Number(s) > c.last
      BY <1>1, <2>2
    <3>3. PICK t \in claimers : Number(s) = Number(t) /\ runs[Number(s)] = NewRun(t, c.schedules[t])
      BY <2>3, <3>1, <3>2
    <3>4. t = s
      BY <2>2, <3>3
    <3>5. d.runs[Number(s)] = NewRun(s, c.schedules[s])
      BY <2>1, <3>1, <3>3, <3>4
    <3> QED
      BY <3>1, <3>5 DEF NewRun
  <2> QED
    BY <2>3, <2>4, <2>5, <2>6 DEF d, claimers, Number, Uncut
<1> QED
  BY <1>2, <1>3

\* The catalog a pass writes is one the next read accepts, unless the pass cut
\* a run that is still active out of the history.
LEMMA ClaimDueValid ==
    ASSUME NEW c, Sane(c), Valid(c), NEW w \in Workers, NEW moment \in Nat,
           InWindow(ClaimDue(c, w, moment))
    PROVE  Valid(ClaimDue(c, w, moment))
<1> DEFINE d == ClaimDue(c, w, moment)
           claimers == Claimers(c, moment)
           lost == LostRuns(c, moment)
           runs == VisitedRuns(c, moment)
           Number(s) == ClaimedRun(c, s, moment)
<1>1. CASE d = c
  BY <1>1
<1>2. CASE d # c
  <2>1. /\ DOMAIN d.schedules = DOMAIN c.schedules
        /\ \A s \in DOMAIN c.schedules : d.schedules[s] = Visited(c, s, w, moment)
        /\ d.last = c.last + Cardinality(claimers)
        /\ \A r \in DOMAIN d.runs : r \in DOMAIN runs /\ d.runs[r] = runs[r]
        /\ \A r \in DOMAIN runs : r > d.last - RunsKept => r \in DOMAIN d.runs
    BY <1>2, ClaimDueShape
  <2>2. /\ \A s \in claimers : Number(s) \in (c.last + 1) .. (c.last + Cardinality(claimers))
        /\ Cardinality(claimers) \in Nat
        /\ \A s, t \in claimers : Number(s) = Number(t) => s = t
        /\ claimers \subseteq DOMAIN c.schedules
        /\ \A s \in claimers : Duplicates(c, s) = {}
    BY ClaimedRunFacts DEF Sane, Claimers, Claimable
  <2>3. \A s \in DOMAIN c.schedules :
          /\ SoundSchedule(d.schedules[s])
          /\ s \in claimers => d.schedules[s].active = Number(s)
          /\ s \notin claimers /\ Abandoned(c, s, moment) => d.schedules[s].active = NoRun
          /\ s \notin claimers /\ ~Abandoned(c, s, moment) =>
               d.schedules[s] = c.schedules[s] \/ d.schedules[s].active = NoRun
    BY <2>1, VisitedFacts
  <2>4. /\ \A r \in DOMAIN runs : r > c.last =>
             \E s \in claimers : r = Number(s) /\ runs[r] = NewRun(s, c.schedules[s])
        /\ \A r \in DOMAIN runs : r <= c.last =>
             /\ r \in DOMAIN c.runs
             /\ r \in lost => runs[r] = [c.runs[r] EXCEPT !.status = "failed"]
             /\ r \notin lost => runs[r] = c.runs[r]
        /\ DOMAIN c.runs \subseteq DOMAIN runs
        /\ \A s \in claimers : Number(s) \in DOMAIN runs
        /\ DOMAIN runs \subseteq 1 .. (c.last + Cardinality(claimers))
    BY VisitedRunsFacts
  <2>5. /\ \A r \in DOMAIN c.runs : c.runs[r] \in Run
        /\ c.last \in Nat /\ DOMAIN c.runs \subseteq 1 .. c.last
        /\ DOMAIN c.schedules \subseteq Nat
        /\ \A s \in DOMAIN c.schedules : c.schedules[s] \in Schedule
    BY DEF Sane, IsCatalog, SoundSchedule
  <2>6. \A r \in lost : \E s \in DOMAIN c.schedules : r = c.schedules[s].active /\ Abandoned(c, s, moment)
    BY DEF LostRuns
  <2>7. InWindow(d)
    OBVIOUS
  <2> HIDE DEF d, claimers, lost, runs, Number
  <2>8. ASSUME NEW r \in DOMAIN runs, r > c.last
        PROVE  \E s \in claimers :
                 /\ r = Number(s)
                 /\ runs[r].schedule = s /\ runs[r].due = c.schedules[s].next
                 /\ runs[r].status = "claimed"
    <3>1. PICK s \in claimers : r = Number(s) /\ runs[r] = NewRun(s, c.schedules[s])
      BY <2>4, <2>8
    <3> QED
      BY <3>1 DEF NewRun
  <2>9. ASSUME NEW r \in DOMAIN runs, r <= c.last
        PROVE  /\ r \in DOMAIN c.runs
               /\ runs[r].schedule = c.runs[r].schedule /\ runs[r].due = c.runs[r].due
    <3> DEFINE old == c.runs[r]
    <3>1. r \in DOMAIN c.runs /\ old \in Run
      BY <2>4, <2>5, <2>9
    <3>2. runs[r] = [old EXCEPT !.status = "failed"] \/ runs[r] = old
      BY <2>4, <2>9
    <3> HIDE DEF old
    <3>3. runs[r].schedule = old.schedule /\ runs[r].due = old.due
      BY <3>1, <3>2, LostRunFacts
    <3> QED
      BY <3>1, <3>3 DEF old
  <2>10. \A r \in DOMAIN runs : (r > c.last \/ r <= c.last) /\ ~(r > c.last /\ r <= c.last)
    BY <2>2, <2>4, <2>5
  <2>11. ASSUME NEW q \in DOMAIN d.runs, NEW r \in DOMAIN d.runs,
                d.runs[q].schedule = d.runs[r].schedule, d.runs[q].due = d.runs[r].due
         PROVE  q = r
    <3>1. /\ q \in DOMAIN runs /\ r \in DOMAIN runs
          /\ runs[q].schedule = runs[r].schedule /\ runs[q].due = runs[r].due
      BY <2>1, <2>11
    <3>2. ASSUME NEW x \in DOMAIN runs, NEW y \in DOMAIN runs, x > c.last, y <= c.last,
                 runs[x].schedule = runs[y].schedule, runs[x].due = runs[y].due
          PROVE  FALSE
      <4>1. PICK s \in claimers :
              runs[x].schedule = s /\ runs[x].due = c.schedules[s].next
        BY <2>8, <3>2
      <4>2. y \in DOMAIN c.runs /\ c.runs[y].schedule = s /\ c.runs[y].due = c.schedules[s].next
        BY <2>9, <3>2, <4>1
      <4>3. y \in Duplicates(c, s)
        BY <4>2 DEF Duplicates
      <4> QED
        BY <2>2, <4>3
    <3>3. CASE q > c.last /\ r > c.last
      BY <2>8, <3>1, <3>3
    <3>4. CASE q <= c.last /\ r <= c.last
      <4>1. /\ q \in DOMAIN c.runs /\ r \in DOMAIN c.runs
            /\ c.runs[q].schedule = c.runs[r].schedule /\ c.runs[q].due = c.runs[r].due
        BY <2>9, <3>1, <3>4
      <4> QED
        BY <4>1 DEF Valid
    <3> QED
      BY <2>10, <3>1, <3>2, <3>3, <3>4
  <2>12. ASSUME NEW s \in DOMAIN d.schedules, d.schedules[s].active # NoRun
         PROVE  /\ d.schedules[s].active \in DOMAIN d.runs
                /\ d.runs[d.schedules[s].active].schedule = s
                /\ d.runs[d.schedules[s].active].status = "claimed"
    <3> DEFINE r == d.schedules[s].active
    <3>1. s \in DOMAIN c.schedules /\ r > d.last - RunsKept
      BY <2>1, <2>7, <2>12 DEF InWindow
    <3>2. CASE s \in claimers
      <4>1. r = Number(s) /\ r \in DOMAIN runs /\ r > c.last
        BY <2>2, <2>3, <2>4, <2>5, <3>1, <3>2
      <4>2. runs[r].schedule = s /\ runs[r].status = "claimed"
        BY <2>2, <2>8, <3>2, <4>1
      <4> QED
        BY <2>1, <3>1, <4>1, <4>2
    <3>3. CASE s \notin claimers
      <4>1. d.schedules[s] = c.schedules[s] /\ ~Abandoned(c, s, moment)
        BY <2>3, <2>12, <3>1, <3>3
      <4>2. r \in DOMAIN c.runs /\ c.runs[r].schedule = s /\ c.runs[r].status = "claimed"
        BY <2>12, <3>1, <4>1 DEF Valid
      <4>3. r \notin lost
        <5> SUFFICES ASSUME r \in lost PROVE FALSE
          OBVIOUS
        <5>1. PICK t \in DOMAIN c.schedules : r = c.schedules[t].active /\ Abandoned(c, t, moment)
          BY <2>6
        <5>2. c.runs[r].schedule = t
          BY <2>12, <5>1 DEF Valid
        <5> QED
          BY <4>1, <4>2, <5>1, <5>2
      <4>4. r <= c.last /\ r \in DOMAIN runs
        BY <2>4, <2>5, <4>2
      <4>5. runs[r] = c.runs[r]
        BY <2>4, <4>3, <4>4
      <4> QED
        BY <2>1, <3>1, <4>2, <4>4, <4>5
    <3> QED
      BY <3>2, <3>3
  <2>13. \A s \in DOMAIN d.schedules : LeaseWhole(d.schedules[s])
    BY <2>1, <2>3 DEF SoundSchedule
  <2>14. Valid(d)
    BY <2>11, <2>12, <2>13 DEF Valid, LeaseWhole
  <2> QED
    BY <2>14 DEF d
<1> QED
  BY <1>1, <1>2

---------------------------------------------------------------------------
(* The other methods.                                                      *)

\* A record with a catalog's fields is the record of its fields.
LEMMA ShapeFacts ==
    ASSUME NEW e, e = [x \in DOMAIN e |-> e[x]],
           DOMAIN e = {"revision", "schedules", "last", "runs"}
    PROVE  e = [revision |-> e.revision, schedules |-> e.schedules, last |-> e.last,
                runs |-> e.runs]
  OBVIOUS

\* A new revision changes nothing else.
LEMMA RevisedFacts ==
    ASSUME NEW c, IsCatalog(c)
    PROVE  LET d == Revised(c)
           IN  /\ d = [revision |-> d.revision, schedules |-> d.schedules, last |-> d.last,
                       runs |-> d.runs]
               /\ d.revision = c.revision + 1 /\ d.schedules = c.schedules
               /\ d.last = c.last /\ d.runs = c.runs
<1> DEFINE d == Revised(c)
<1>1. DOMAIN c = {"revision", "schedules", "last", "runs"}
  BY DEF IsCatalog
<1>2. /\ d.revision = c.revision + 1 /\ d.schedules = c.schedules
      /\ d.last = c.last /\ d.runs = c.runs
  BY <1>1 DEF Revised
<1>3. d = [x \in DOMAIN d |-> d[x]] /\ DOMAIN d = DOMAIN c
  BY DEF Revised
<1> HIDE DEF d
<1> QED
  BY <1>1, <1>2, <1>3, ShapeFacts DEF d

\* A method that writes at most one schedule and one run: leases and results
\* stay as they were, or the active run of the schedule gets its result.
LEMMA ChangeFacts ==
    ASSUME NEW c, Sane(c), Valid(c), NEW d, NEW s, NEW r,
           d = [revision |-> d.revision, schedules |-> d.schedules, last |-> d.last,
                runs |-> d.runs],
           d.revision \in {c.revision, c.revision + 1},
           d.last = c.last,
           DOMAIN d.schedules = DOMAIN c.schedules,
           DOMAIN d.runs = DOMAIN c.runs,
           \A t \in DOMAIN c.schedules : t # s => d.schedules[t] = c.schedules[t],
           \A q \in DOMAIN c.runs : q # r => d.runs[q] = c.runs[q],
           s \in DOMAIN c.schedules =>
             /\ SoundSchedule(d.schedules[s])
             /\ d.revision = c.revision =>
                  /\ d.schedules[s].enabled = c.schedules[s].enabled
                  /\ d.schedules[s].next = c.schedules[s].next,
           r \in DOMAIN c.runs =>
             /\ d.runs[r] \in Run
             /\ d.runs[r].schedule = c.runs[r].schedule /\ d.runs[r].due = c.runs[r].due
             /\ c.runs[r].status = "claimed" \/ d.runs[r] = c.runs[r],
           \/ /\ s \in DOMAIN c.schedules =>
                   /\ d.schedules[s].active = c.schedules[s].active
                   /\ d.schedules[s].owner = c.schedules[s].owner
              /\ r \in DOMAIN c.runs => d.runs[r].status = c.runs[r].status
           \/ /\ r \in DOMAIN c.runs /\ s = c.runs[r].schedule
              /\ c.schedules[s].active = r /\ d.schedules[s].active = NoRun
              /\ d.runs[r].status \in RunEnded
    PROVE  Follows(c, d) /\ Uncut(c, d) /\ Valid(d)
<1>1. /\ c.last \in Nat /\ c.revision \in Nat /\ \E n \in Nat : DOMAIN c.schedules = 1 .. n
      /\ DOMAIN c.runs \subseteq 1 .. c.last
  BY DEF Sane, IsCatalog
<1>2. \A t \in DOMAIN c.schedules :
        SoundSchedule(c.schedules[t]) /\ c.schedules[t].active <= c.last
  BY DEF Sane
<1>3. \A q \in DOMAIN c.runs : c.runs[q] \in Run /\ c.runs[q].schedule \in DOMAIN c.schedules
  BY DEF Sane
<1>4. \A q \in DOMAIN c.runs :
        c.runs[q].status = "claimed" => c.schedules[c.runs[q].schedule].active = q
  BY DEF Sane, ClaimedActive
<1>5. \A q \in DOMAIN c.runs :
        d.runs[q].schedule = c.runs[q].schedule /\ d.runs[q].due = c.runs[q].due
  OBVIOUS
<1>6. "claimed" \notin RunEnded
  BY DEF RunEnded
<1>7. IsCatalog(d)
  BY <1>1 DEF IsCatalog
<1>8. \A t \in DOMAIN d.schedules :
        /\ SoundSchedule(d.schedules[t])
        /\ d.schedules[t].active = c.schedules[t].active \/ d.schedules[t].active = NoRun
  BY <1>2
<1>9. \A t \in DOMAIN d.schedules : d.schedules[t].active <= d.last
  BY <1>1, <1>2, <1>8 DEF NoRun
<1>10. \A q \in DOMAIN d.runs : d.runs[q] \in Run /\ d.runs[q].schedule \in DOMAIN d.schedules
  BY <1>3, <1>5
<1>11. \A q \in DOMAIN c.runs : q # NoRun /\ q <= c.last
  BY <1>1 DEF NoRun
<1>12. ASSUME NEW q \in DOMAIN c.runs, d.runs[q].status = "claimed"
       PROVE  /\ c.runs[q].status = "claimed"
              /\ d.schedules[d.runs[q].schedule].active = q
              /\ OwnerOf(d, q) = OwnerOf(c, q)
  <2> DEFINE t == c.runs[q].schedule
  <2>1. t \in DOMAIN c.schedules /\ d.runs[q].schedule = t
    BY <1>3, <1>5
  <2>2. c.runs[q].status = "claimed"
    BY <1>6, <1>12
  <2>3. c.schedules[t].active = q
    BY <1>4, <2>2
  <2>4. d.schedules[t].active = c.schedules[t].active /\ d.schedules[t].owner = c.schedules[t].owner
    BY <1>6, <1>12, <2>1, <2>3
  <2> QED
    BY <2>1, <2>2, <2>3, <2>4 DEF OwnerOf
<1>13. ClaimedActive(d)
  BY <1>12 DEF ClaimedActive
<1>14. Sane(d)
  BY <1>7, <1>8, <1>9, <1>10, <1>13 DEF Sane
<1>15. d.revision = c.revision => RowsOf(d) = RowsOf(c)
  <2> SUFFICES ASSUME d.revision = c.revision PROVE RowsOf(d) = RowsOf(c)
    OBVIOUS
  <2>1. \A t \in DOMAIN c.schedules :
          /\ d.schedules[t].enabled = c.schedules[t].enabled
          /\ d.schedules[t].next = c.schedules[t].next
    OBVIOUS
  <2> QED
    BY <2>1 DEF RowsOf
<1>16. Follows(c, d)
  <2>1. d.revision >= c.revision /\ d.last >= c.last
    BY <1>1
  <2>2. \A q \in DOMAIN c.runs : c.runs[q].status \in RunEnded => d.runs[q] = c.runs[q]
    BY <1>6
  <2> QED
    BY <1>5, <1>12, <1>14, <1>15, <2>1, <2>2 DEF Follows
<1>17. \A t \in DOMAIN d.schedules : LeaseWhole(d.schedules[t])
  BY <1>8 DEF SoundSchedule
<1>18. \A q, p \in DOMAIN d.runs :
         d.runs[q].schedule = d.runs[p].schedule /\ d.runs[q].due = d.runs[p].due => q = p
  BY <1>5 DEF Valid
<1>19. ASSUME NEW t \in DOMAIN d.schedules, d.schedules[t].active # NoRun
       PROVE  /\ d.schedules[t].active \in DOMAIN d.runs
              /\ d.runs[d.schedules[t].active].schedule = t
              /\ d.runs[d.schedules[t].active].status = "claimed"
  <2> DEFINE q == c.schedules[t].active
  <2>1. d.schedules[t].active = q /\ t \in DOMAIN c.schedules
    BY <1>8, <1>19
  <2>2. q \in DOMAIN c.runs /\ c.runs[q].schedule = t /\ c.runs[q].status = "claimed"
    BY <1>19, <2>1 DEF Valid
  <2>3. d.runs[q].status = "claimed"
    BY <1>19, <2>1, <2>2
  <2> QED
    BY <1>5, <2>1, <2>2, <2>3
<1>20. Valid(d)
  BY <1>17, <1>18, <1>19 DEF Valid, LeaseWhole
<1> QED
  BY <1>16, <1>20 DEF Uncut

\* A run that is given a status keeps the rest.
LEMMA StatusFacts ==
    ASSUME NEW run \in Run, NEW status \in RunEnded
    PROVE  LET new == [run EXCEPT !.status = status]
           IN  /\ new \in Run /\ new.schedule = run.schedule /\ new.due = run.due
               /\ new.status = status /\ new.job = run.job
  BY DEF Run

\* A run that is given a job keeps the rest.
LEMMA JobFacts ==
    ASSUME NEW run \in Run, NEW job \in Nat
    PROVE  LET new == [run EXCEPT !.job = job]
           IN  /\ new \in Run /\ new.schedule = run.schedule /\ new.due = run.due
               /\ new.status = run.status /\ new.job = job
  BY DEF Run

\* complete_run gives a claimed run its result, and the schedule its rest.
LEMMA CompleteRunFacts ==
    ASSUME NEW c, Sane(c), Valid(c), NEW r \in DOMAIN c.runs, NEW status \in RunEnded,
           NEW moment \in Nat
    PROVE  LET d == CompleteRun(c, r, status, moment)
           IN  /\ Follows(c, d) /\ JobsKept(c, d) /\ Uncut(c, d) /\ Valid(d) /\ d.last = c.last
               /\ r \in DOMAIN d.runs => d.runs[r].status # "claimed"
<1> DEFINE d == CompleteRun(c, r, status, moment)
           run == c.runs[r]
           s == run.schedule
           old == c.schedules[s]
           new == AfterTerminal(old, run.attempt, status, moment)
           done == [run EXCEPT !.status = status]
           e == [c EXCEPT !.runs[r].status = status,
                          !.schedules[s] =
                            IF old.active = r THEN AfterTerminal(old, run.attempt, status, moment)
                            ELSE old]
<1>1. run \in Run /\ s \in DOMAIN c.schedules /\ run.attempt \in Nat \ {0} /\ run.job \in Nat
  BY DEF Sane, Run
<1>2. IsCatalog(c) /\ c.last \in Nat /\ DOMAIN c.runs \subseteq 1 .. c.last
  BY DEF Sane, IsCatalog
<1>3. \A q \in DOMAIN c.runs : q <= c.last
  BY <1>2
<1>4. CASE run.status # "claimed"
  <2>1. d = c
    BY <1>4 DEF CompleteRun
  <2> HIDE DEF d
  <2> QED
    BY <1>4, <2>1, FollowsSelf DEF Uncut, d
<1>5. CASE run.status = "claimed"
  <2>1. old.active = r
    BY <1>5 DEF Sane, ClaimedActive
  <2>2. d = Revised(e)
    BY <1>5 DEF CompleteRun
  <2>3. DOMAIN c = {"revision", "schedules", "last", "runs"}
    BY <1>2 DEF IsCatalog
  <2>4. DOMAIN e = DOMAIN c /\ e = [x \in DOMAIN e |-> e[x]]
    OBVIOUS
  <2>5. e.revision = c.revision /\ e.last = c.last
    BY <2>3
  <2>6. e.schedules = [c.schedules EXCEPT ![s] = new]
    BY <2>1, <2>3
  <2>7. e.runs = [c.runs EXCEPT ![r] = done]
    BY <2>3
  <2>8. SoundSchedule(old) /\ old \in Schedule /\ InPhase(old)
    BY <1>1 DEF Sane, SoundSchedule
  <2> HIDE DEF e, d, new, done, old
  <2>9. SoundSchedule(new) /\ new.active = NoRun
    BY <1>1, <2>8, AfterTerminalFacts DEF new
  <2>10. /\ done \in Run /\ done.schedule = run.schedule /\ done.due = run.due
         /\ done.status = status /\ done.job = run.job
    <3> DEFINE it == run
    <3>1. it \in Run /\ it.job \in Nat
      BY <1>1
    <3> HIDE DEF it
    <3>2. LET n == [it EXCEPT !.status = status]
          IN  /\ n \in Run /\ n.schedule = it.schedule /\ n.due = it.due
              /\ n.status = status /\ n.job = it.job
      BY <3>1, StatusFacts
    <3> QED
      BY <3>2 DEF it, done
  <2>11. e = [revision |-> e.revision, schedules |-> e.schedules, last |-> e.last, runs |-> e.runs]
    BY <2>3, <2>4, ShapeFacts
  <2>12. IsCatalog(e)
    <3>1. DOMAIN e.runs = DOMAIN c.runs /\ DOMAIN e.schedules = DOMAIN c.schedules
      BY <2>6, <2>7
    <3> QED
      BY <1>2, <2>5, <2>11, <3>1 DEF IsCatalog
  <2>13. /\ d = [revision |-> d.revision, schedules |-> d.schedules, last |-> d.last,
                 runs |-> d.runs]
         /\ d.revision = c.revision + 1 /\ d.schedules = e.schedules
         /\ d.last = c.last /\ d.runs = e.runs
    BY <2>2, <2>5, <2>12, RevisedFacts
  <2>14. /\ DOMAIN d.schedules = DOMAIN c.schedules /\ DOMAIN d.runs = DOMAIN c.runs
         /\ d.schedules[s] = new /\ d.runs[r] = done
         /\ \A t \in DOMAIN c.schedules : t # s => d.schedules[t] = c.schedules[t]
         /\ \A q \in DOMAIN c.runs : q # r => d.runs[q] = c.runs[q]
    BY <1>1, <2>6, <2>7, <2>13
  <2>15. d.revision # c.revision
    BY <1>2, <2>13 DEF IsCatalog
  <2>16. /\ d.runs[r] \in Run /\ d.runs[r].schedule = c.runs[r].schedule
         /\ d.runs[r].due = c.runs[r].due /\ d.runs[r].status \in RunEnded
         /\ d.runs[r].job = c.runs[r].job
    BY <2>10, <2>14
  <2>17. SoundSchedule(d.schedules[s]) /\ d.schedules[s].active = NoRun
    BY <2>9, <2>14
  <2>18. c.schedules[s].active = r
    BY <2>1 DEF old
  <2> DEFINE t == s
  <2>19. t = c.runs[r].schedule
    OBVIOUS
  <2> HIDE DEF t, run
  <2>20. Follows(c, d) /\ Uncut(c, d) /\ Valid(d)
    BY <1>1, <1>5, <2>13, <2>14, <2>15, <2>16, <2>17, <2>18, <2>19, ChangeFacts DEF run, t
  <2>21. JobsKept(c, d)
    BY <1>3, <2>14, <2>16 DEF JobsKept
  <2>22. d.runs[r].status # "claimed"
    BY <2>16 DEF RunEnded
  <2> QED
    BY <2>13, <2>20, <2>21, <2>22 DEF d
<1> QED
  BY <1>4, <1>5

\* A schedule whose lease is renewed keeps the rest.
LEMMA UntilFacts ==
    ASSUME NEW old \in Schedule, SoundSchedule(old), old.active # NoRun, NEW until \in Nat
    PROVE  LET new == [old EXCEPT !.until = until]
           IN  /\ SoundSchedule(new)
               /\ new.active = old.active /\ new.owner = old.owner
               /\ new.enabled = old.enabled /\ new.next = old.next
<1> DEFINE new == [old EXCEPT !.until = until]
<1>1. /\ new \in Schedule
      /\ new.plan = old.plan /\ new.active = old.active /\ new.owner = old.owner
      /\ new.enabled = old.enabled /\ new.next = old.next /\ new.origin = old.origin
      /\ new.until = until /\ new.attempt = old.attempt
  BY DEF Schedule
<1> HIDE DEF new
<1>2. until # NoTime
  BY DEF NoTime
<1>3. InPhase(new)
  BY <1>1 DEF SoundSchedule, InPhase, Origin
<1>4. LeaseWhole(new)
  BY <1>1, <1>2 DEF SoundSchedule, LeaseWhole
<1> QED
  BY <1>1, <1>3, <1>4 DEF SoundSchedule, new

\* heartbeat renews the lease of a run its owner still holds.
LEMMA RenewedFacts ==
    ASSUME NEW c, Sane(c), Valid(c), NEW r, NEW w, Owns(c, r, w), NEW moment \in Nat
    PROVE  LET d == Renewed(c, r, moment)
           IN  /\ Follows(c, d) /\ JobsKept(c, d) /\ Uncut(c, d) /\ Valid(d)
               /\ d.last = c.last /\ d.runs = c.runs /\ d.revision = c.revision
<1> DEFINE d == Renewed(c, r, moment)
           s == c.runs[r].schedule
           old == c.schedules[s]
           until == moment + Lease
           new == [old EXCEPT !.until = until]
<1>1. /\ r \in DOMAIN c.runs /\ s \in DOMAIN c.schedules
      /\ SoundSchedule(old) /\ old \in Schedule /\ old.active = r
  BY DEF Sane, SoundSchedule, Owns
<1>2. /\ IsCatalog(c) /\ c.last \in Nat /\ DOMAIN c.runs \subseteq 1 .. c.last
      /\ DOMAIN c = {"revision", "schedules", "last", "runs"}
  BY DEF Sane, IsCatalog
<1>3. (\A q \in DOMAIN c.runs : q <= c.last) /\ r # NoRun
  BY <1>1, <1>2 DEF NoRun
<1>4. until \in Nat
  BY StoreAssumption
<1>5. DOMAIN d = DOMAIN c /\ d = [x \in DOMAIN d |-> d[x]]
  BY DEF Renewed
<1>6. d.revision = c.revision /\ d.last = c.last /\ d.runs = c.runs
  BY DEF Renewed
<1>7. d.schedules = [c.schedules EXCEPT ![s] = new]
  BY <1>2 DEF Renewed
<1> HIDE DEF d, old, until, new
<1>8. /\ SoundSchedule(new)
      /\ new.active = old.active /\ new.owner = old.owner
      /\ new.enabled = old.enabled /\ new.next = old.next
  BY <1>1, <1>3, <1>4, UntilFacts DEF new
<1>9. d = [revision |-> d.revision, schedules |-> d.schedules, last |-> d.last, runs |-> d.runs]
  BY <1>2, <1>5, ShapeFacts
<1> DEFINE t == s
<1> HIDE DEF t
<1>10. /\ DOMAIN d.schedules = DOMAIN c.schedules
       /\ d.schedules[t] = new /\ t \in DOMAIN c.schedules
       /\ \A q \in DOMAIN c.schedules : q # t => d.schedules[q] = c.schedules[q]
  BY <1>1, <1>7 DEF t
<1>11. /\ d.schedules[t].active = c.schedules[t].active
       /\ d.schedules[t].owner = c.schedules[t].owner
       /\ d.schedules[t].enabled = c.schedules[t].enabled
       /\ d.schedules[t].next = c.schedules[t].next
       /\ SoundSchedule(d.schedules[t])
  BY <1>8, <1>10 DEF old, t
<1>12. NoRun \notin DOMAIN c.runs
  BY <1>2 DEF NoRun
<1> DEFINE none == NoRun
<1> HIDE DEF none
<1>13. none \notin DOMAIN c.runs
  BY <1>12 DEF none
<1>14. Follows(c, d) /\ Uncut(c, d) /\ Valid(d)
  BY <1>6, <1>9, <1>10, <1>11, <1>13, ChangeFacts
<1>15. JobsKept(c, d)
  BY <1>3, <1>6 DEF JobsKept
<1> QED
  BY <1>6, <1>14, <1>15 DEF d

\* attach_job links the run to the job and renews its lease.
LEMMA AttachJobFacts ==
    ASSUME NEW c, Sane(c), Valid(c), NEW r, NEW w, Owns(c, r, w), NEW moment \in Nat,
           NEW j \in Nat
    PROVE  LET d == AttachJob(c, r, j, moment)
           IN  /\ Follows(c, d) /\ Uncut(c, d) /\ Valid(d) /\ d.last = c.last
               /\ \A q \in DOMAIN d.runs : d.runs[q].job = IF q = r THEN j ELSE c.runs[q].job
<1> DEFINE d == AttachJob(c, r, j, moment)
           e == Renewed(c, r, moment)
           run == c.runs[r]
           s == run.schedule
           linked == [run EXCEPT !.job = j]
<1>1. /\ r \in DOMAIN c.runs /\ run.status = "claimed" /\ run \in Run
  BY DEF Sane, Owns
<1>2. /\ Sane(e) /\ Valid(e) /\ Follows(c, e)
      /\ e.last = c.last /\ e.runs = c.runs /\ e.revision = c.revision
  BY RenewedFacts DEF Follows
<1> HIDE DEF e, linked
<1>3. DOMAIN e = {"revision", "schedules", "last", "runs"} /\ e.last \in Nat /\ DOMAIN e.runs \subseteq 1 .. e.last
  BY <1>2 DEF Sane, IsCatalog
<1>4. d = [e EXCEPT !.runs[r].job = j]
  BY DEF AttachJob, e
<1>5. DOMAIN d = DOMAIN e /\ d = [x \in DOMAIN d |-> d[x]]
  BY <1>4
<1>6. d.revision = e.revision /\ d.last = e.last /\ d.schedules = e.schedules
  BY <1>4
<1>7. d.runs = [e.runs EXCEPT ![r] = linked]
  BY <1>2, <1>3, <1>4 DEF linked
<1> HIDE DEF d
<1>8. /\ linked \in Run /\ linked.schedule = run.schedule /\ linked.due = run.due
      /\ linked.status = run.status /\ linked.job = j
  <2> DEFINE it == run
  <2>1. it \in Run
    BY <1>1
  <2> HIDE DEF it
  <2>2. LET n == [it EXCEPT !.job = j]
        IN  /\ n \in Run /\ n.schedule = it.schedule /\ n.due = it.due
            /\ n.status = it.status /\ n.job = j
    BY <2>1, JobFacts
  <2> QED
    BY <2>2 DEF it, linked
<1>9. d = [revision |-> d.revision, schedules |-> d.schedules, last |-> d.last, runs |-> d.runs]
  BY <1>3, <1>5, ShapeFacts
<1>10. /\ DOMAIN d.runs = DOMAIN e.runs /\ d.runs[r] = linked
       /\ \A q \in DOMAIN e.runs : q # r => d.runs[q] = e.runs[q]
  BY <1>1, <1>2, <1>7
<1>11. /\ d.runs[r] \in Run /\ d.runs[r].schedule = e.runs[r].schedule
       /\ d.runs[r].due = e.runs[r].due /\ e.runs[r].status = "claimed"
       /\ d.runs[r].status = e.runs[r].status
  BY <1>1, <1>2, <1>8, <1>10
<1>12. \A t \in DOMAIN e.schedules : SoundSchedule(e.schedules[t])
  BY <1>2 DEF Sane
<1> DEFINE t == s
<1> HIDE DEF t
<1>13. Follows(e, d) /\ Uncut(e, d) /\ Valid(d)
  BY <1>2, <1>6, <1>9, <1>10, <1>11, <1>12, ChangeFacts
<1>14. Follows(c, d)
  <2>1. \A q \in DOMAIN d.runs : q <= c.last
    BY <1>2, <1>3, <1>10
  <2>2. \A q \in DOMAIN d.runs : d.runs[q].status = "claimed" =>
          OwnerOf(d, q) = OwnerOf(e, q) /\ OwnerOf(e, q) = OwnerOf(c, q)
    BY <1>2, <1>10, <1>13, <2>1 DEF Follows
  <2>3. Sane(d)
    BY <1>13 DEF Follows
  <2>4. /\ DOMAIN c.schedules \subseteq DOMAIN d.schedules
        /\ d.last >= c.last /\ d.revision >= c.revision
        /\ RowsOf(d) = RowsOf(c)
    BY <1>2, <1>3, <1>6, <1>13 DEF Follows
  <2>5. \A q \in DOMAIN d.runs :
          /\ q \in DOMAIN c.runs
          /\ c.runs[q].status \in RunEnded => d.runs[q] = c.runs[q]
          /\ d.runs[q].schedule = c.runs[q].schedule /\ d.runs[q].due = c.runs[q].due
          /\ d.runs[q].status = "claimed" => c.runs[q].status = "claimed"
    BY <1>2, <1>10, <1>13, <2>1 DEF Follows
  <2> QED
    BY <2>2, <2>3, <2>4, <2>5 DEF Follows
<1>15. \A q \in DOMAIN d.runs : d.runs[q].job = IF q = r THEN j ELSE c.runs[q].job
  BY <1>2, <1>8, <1>10
<1> QED
  BY <1>2, <1>6, <1>13, <1>14, <1>15 DEF d, Uncut

\* A write that changes no schedule and no run.
LEMMA RevisedFollows ==
    ASSUME NEW c, Sane(c), Valid(c)
    PROVE  LET d == Revised(c)
           IN  /\ Follows(c, d) /\ JobsKept(c, d) /\ Uncut(c, d) /\ Valid(d)
               /\ d.last = c.last /\ d.revision # c.revision
<1> DEFINE d == Revised(c)
           none == NoRun
<1>1. /\ IsCatalog(c) /\ c.revision \in Nat /\ c.last \in Nat
      /\ DOMAIN c.runs \subseteq 1 .. c.last /\ \E n \in Nat : DOMAIN c.schedules = 1 .. n
  BY DEF Sane, IsCatalog
<1>2. /\ d = [revision |-> d.revision, schedules |-> d.schedules, last |-> d.last,
              runs |-> d.runs]
      /\ d.revision = c.revision + 1 /\ d.schedules = c.schedules
      /\ d.last = c.last /\ d.runs = c.runs
  BY <1>1, RevisedFacts
<1>3. none \notin DOMAIN c.schedules /\ none \notin DOMAIN c.runs
  BY <1>1 DEF NoRun
<1> HIDE DEF d, none
<1>4. Follows(c, d) /\ Uncut(c, d) /\ Valid(d)
  BY <1>2, <1>3, ChangeFacts
<1>5. \A q \in DOMAIN c.runs : q <= c.last
  BY <1>1
<1>6. JobsKept(c, d)
  BY <1>2, <1>5 DEF JobsKept
<1> QED
  BY <1>1, <1>2, <1>4, <1>6 DEF d

\* A schedule that is switched on or off keeps the rest.
LEMMA EnabledFacts ==
    ASSUME NEW old \in Schedule, SoundSchedule(old), NEW enabled \in BOOLEAN
    PROVE  LET new == [old EXCEPT !.enabled = enabled]
           IN  SoundSchedule(new) /\ new.active = old.active /\ new.owner = old.owner
<1> DEFINE new == [old EXCEPT !.enabled = enabled]
<1>1. /\ new \in Schedule
      /\ new.plan = old.plan /\ new.active = old.active /\ new.owner = old.owner
      /\ new.until = old.until /\ new.next = old.next /\ new.origin = old.origin
      /\ new.attempt = old.attempt
  BY DEF Schedule
<1> HIDE DEF new
<1>2. InPhase(new)
  BY <1>1 DEF SoundSchedule, InPhase, Origin
<1>3. LeaseWhole(new)
  BY <1>1 DEF SoundSchedule, LeaseWhole
<1> QED
  BY <1>1, <1>2, <1>3 DEF SoundSchedule, new

\* set_schedule_enabled.
LEMMA SetEnabledFacts ==
    ASSUME NEW c, Sane(c), Valid(c), NEW s \in DOMAIN c.schedules, NEW enabled \in BOOLEAN
    PROVE  LET d == SetEnabled(c, s, enabled)
           IN  /\ Follows(c, d) /\ JobsKept(c, d) /\ Uncut(c, d) /\ Valid(d)
               /\ d.last = c.last /\ d.revision # c.revision
<1> DEFINE d == SetEnabled(c, s, enabled)
           e == [c EXCEPT !.schedules[s].enabled = enabled]
           old == c.schedules[s]
           new == [old EXCEPT !.enabled = enabled]
           none == NoRun
<1>1. /\ IsCatalog(c) /\ c.revision \in Nat /\ c.last \in Nat
      /\ DOMAIN c.runs \subseteq 1 .. c.last
      /\ DOMAIN c = {"revision", "schedules", "last", "runs"}
  BY DEF Sane, IsCatalog
<1>2. SoundSchedule(old) /\ old \in Schedule
  BY DEF Sane, SoundSchedule
<1>3. none \notin DOMAIN c.runs
  BY <1>1 DEF NoRun
<1>4. DOMAIN e = DOMAIN c /\ e = [x \in DOMAIN e |-> e[x]]
  OBVIOUS
<1>5. e.revision = c.revision /\ e.last = c.last /\ e.runs = c.runs
  OBVIOUS
<1>6. e.schedules = [c.schedules EXCEPT ![s] = new]
  BY <1>1
<1>7. d = Revised(e)
  BY DEF SetEnabled
<1> HIDE DEF d, e, old, new, none
<1>8. SoundSchedule(new) /\ new.active = old.active /\ new.owner = old.owner
  BY <1>2, EnabledFacts DEF new
<1>9. IsCatalog(e)
  <2>1. e = [revision |-> e.revision, schedules |-> e.schedules, last |-> e.last, runs |-> e.runs]
    BY <1>1, <1>4, ShapeFacts
  <2>2. DOMAIN e.schedules = DOMAIN c.schedules
    BY <1>6
  <2> QED
    BY <1>1, <1>5, <2>1, <2>2 DEF IsCatalog
<1>10. /\ d = [revision |-> d.revision, schedules |-> d.schedules, last |-> d.last,
               runs |-> d.runs]
       /\ d.revision = c.revision + 1 /\ d.schedules = e.schedules
       /\ d.last = c.last /\ d.runs = c.runs
  BY <1>5, <1>7, <1>9, RevisedFacts
<1>11. /\ DOMAIN d.schedules = DOMAIN c.schedules
       /\ d.schedules[s] = new
       /\ \A t \in DOMAIN c.schedules : t # s => d.schedules[t] = c.schedules[t]
  BY <1>6, <1>10
<1>12. d.revision # c.revision
  BY <1>1, <1>10
<1>13. /\ SoundSchedule(d.schedules[s])
       /\ d.schedules[s].active = c.schedules[s].active
       /\ d.schedules[s].owner = c.schedules[s].owner
  BY <1>8, <1>11 DEF old
<1>14. Follows(c, d) /\ Uncut(c, d) /\ Valid(d)
  BY <1>3, <1>10, <1>11, <1>12, <1>13, ChangeFacts
<1>15. \A q \in DOMAIN c.runs : q <= c.last
  BY <1>1
<1>16. JobsKept(c, d)
  BY <1>10, <1>15 DEF JobsKept
<1> QED
  BY <1>10, <1>12, <1>14, <1>16 DEF d

\* A schedule starts at rest, at its first occurrence.
LEMMA NewScheduleFacts ==
    ASSUME NEW plan \in Plans
    PROVE  LET new == NewSchedule(plan)
           IN  SoundSchedule(new) /\ new.active = NoRun /\ new.plan = plan
<1> DEFINE new == NewSchedule(plan)
<1>1. /\ new \in Schedule
      /\ new.plan = plan /\ new.next = plan.first /\ new.origin = NoTime /\ new.attempt = 1
      /\ new.owner = Nobody /\ new.until = NoTime /\ new.active = NoRun
  BY DEF NewSchedule, Schedule, Plans, NoRun
<1> HIDE DEF new
<1>2. plan.first \in Nat /\ plan.interval \in Nat \ {0} /\ plan.retries \in Nat
  BY DEF Plans
<1>3. InPhase(new)
  BY <1>1, <1>2 DEF InPhase, Origin
<1>4. LeaseWhole(new)
  BY <1>1 DEF LeaseWhole
<1> QED
  BY <1>1, <1>2, <1>3, <1>4 DEF SoundSchedule, new

\* create_schedule adds a schedule behind the others.
LEMMA CreateFacts ==
    ASSUME NEW c, Sane(c), Valid(c), NEW plan \in Plans, NEW s,
           s = Cardinality(DOMAIN c.schedules) + 1
    PROVE  LET d == CreateSchedule(c, s, plan)
           IN  /\ Follows(c, d) /\ JobsKept(c, d) /\ Uncut(c, d) /\ Valid(d)
               /\ d.last = c.last /\ d.revision # c.revision
<1> DEFINE d == CreateSchedule(c, s, plan)
           schedules == [t \in DOMAIN c.schedules \cup {s} |->
                           IF t = s THEN NewSchedule(plan) ELSE c.schedules[t]]
           e == [c EXCEPT !.schedules = schedules]
           new == NewSchedule(plan)
<1>1. /\ IsCatalog(c) /\ c.revision \in Nat /\ c.last \in Nat
      /\ DOMAIN c.runs \subseteq 1 .. c.last
      /\ DOMAIN c = {"revision", "schedules", "last", "runs"}
  BY DEF Sane, IsCatalog
<1>2. PICK n \in Nat : DOMAIN c.schedules = 1 .. n
  BY <1>1 DEF IsCatalog
<1>3. s = n + 1 /\ s \notin DOMAIN c.schedules
  <2>1. 1 \in Int /\ n \in Int
    OBVIOUS
  <2>2. Cardinality(1 .. n) = IF 1 > n THEN 0 ELSE n - 1 + 1
    BY <2>1, FS_Interval
  <2>3. Cardinality(1 .. n) = n
    BY <2>2
  <2> QED
    BY <1>2, <2>3
<1>4. DOMAIN c.schedules \cup {s} = 1 .. (n + 1)
  BY <1>2, <1>3
<1>5. DOMAIN e = DOMAIN c /\ e = [x \in DOMAIN e |-> e[x]]
  OBVIOUS
<1>6. e.revision = c.revision /\ e.last = c.last /\ e.runs = c.runs /\ e.schedules = schedules
  BY <1>1
<1>7. d = Revised(e)
  BY DEF CreateSchedule
<1>8. /\ DOMAIN schedules = 1 .. (n + 1)
      /\ schedules[s] = new
      /\ \A t \in DOMAIN c.schedules : schedules[t] = c.schedules[t]
  BY <1>3, <1>4
<1> HIDE DEF d, schedules, e, new
<1>9. SoundSchedule(new) /\ new.active = NoRun
  BY NewScheduleFacts DEF new
<1>10. IsCatalog(e)
  <2>1. e = [revision |-> e.revision, schedules |-> e.schedules, last |-> e.last, runs |-> e.runs]
    BY <1>1, <1>5, ShapeFacts
  <2>2. n + 1 \in Nat
    OBVIOUS
  <2> QED
    BY <1>1, <1>6, <1>8, <2>1, <2>2 DEF IsCatalog
<1>11. /\ d = [revision |-> d.revision, schedules |-> d.schedules, last |-> d.last,
               runs |-> d.runs]
       /\ d.revision = c.revision + 1 /\ d.schedules = schedules
       /\ d.last = c.last /\ d.runs = c.runs
  BY <1>6, <1>7, <1>10, RevisedFacts
<1>12. IsCatalog(d)
  BY <1>1, <1>6, <1>10, <1>11 DEF IsCatalog
<1>13. DOMAIN d.schedules = DOMAIN c.schedules \cup {s}
  BY <1>4, <1>8, <1>11
<1>14. \A t \in DOMAIN c.schedules : d.schedules[t] = c.schedules[t]
  BY <1>8, <1>11
<1>15. d.schedules[s] = new
  BY <1>8, <1>11
<1>16. \A q \in DOMAIN c.runs :
         c.runs[q] \in Run /\ c.runs[q].schedule \in DOMAIN c.schedules
  BY DEF Sane
<1>17. \A q \in DOMAIN c.runs : d.schedules[d.runs[q].schedule] = c.schedules[c.runs[q].schedule]
  BY <1>11, <1>14, <1>16
<1>18. Sane(d)
  <2>1. \A t \in DOMAIN c.schedules : SoundSchedule(c.schedules[t]) /\ c.schedules[t].active <= c.last
    BY DEF Sane
  <2>2. NoRun <= c.last
    BY <1>1 DEF NoRun
  <2>3. \A t \in DOMAIN d.schedules : SoundSchedule(d.schedules[t]) /\ d.schedules[t].active <= d.last
    BY <1>9, <1>11, <1>13, <1>14, <1>15, <2>1, <2>2
  <2>4. ClaimedActive(d)
    BY <1>11, <1>17 DEF Sane, ClaimedActive
  <2> QED
    BY <1>11, <1>12, <1>13, <1>16, <2>3, <2>4 DEF Sane
<1>19. d.revision # c.revision /\ d.revision >= c.revision /\ d.last >= c.last
  BY <1>1, <1>11
<1>20. Follows(c, d)
  <2>1. \A q \in DOMAIN c.runs : OwnerOf(d, q) = OwnerOf(c, q)
    BY <1>17 DEF OwnerOf
  <2> QED
    BY <1>11, <1>13, <1>18, <1>19, <2>1 DEF Follows
<1>21. \A q \in DOMAIN c.runs : q <= c.last
  BY <1>1
<1>22. JobsKept(c, d)
  BY <1>11, <1>21 DEF JobsKept
<1>23. Valid(d)
  <2>1. \A t \in DOMAIN c.schedules : d.schedules[t] = c.schedules[t]
    BY <1>14
  <2>2. LeaseWhole(new)
    BY <1>9 DEF SoundSchedule
  <2>3. new.active = NoRun /\ new.owner = Nobody /\ new.until = NoTime
    BY <1>9, <2>2 DEF LeaseWhole
  <2> QED
    BY <1>11, <1>13, <1>15, <2>1, <2>3 DEF Valid
<1> QED
  BY <1>11, <1>19, <1>20, <1>22, <1>23 DEF d, Uncut

---------------------------------------------------------------------------
(* The inductive invariant.                                                *)

Claims == [run : Nat, schedule : Nat, due : Nat, origin : Nat]

Ticks ==
    [pc : {"idle", "reconcile", "settle", "launch", "attach", "giveup"},
     now : Nat \cup {NoTime}, todo : SUBSET Nat, job : Nat,
     verdict : RunEnded \cup {"renew", "none"}, runs : SUBSET Nat, lost : SUBSET Nat,
     claims : SUBSET Claims, fresh : BOOLEAN]

\* The catalog is sane, and its runs are linked to jobs there were.
CatalogInv ==
    /\ Sane(catalog)
    /\ \A r \in DOMAIN catalog.runs : catalog.runs[r].job <= created

JobsInv ==
    /\ clock \in Nat
    /\ created \in Nat
    /\ DOMAIN known \subseteq 1 .. created
    /\ \A j \in DOMAIN known :
         /\ known[j] = [profile |-> known[j].profile, status |-> known[j].status,
                        cancel |-> known[j].cancel]
         /\ known[j].status \in {"active"} \cup Jobs!Ended

\* A tick has read the clock, settles with a verdict, and links a claim of its
\* own to a job there was.
TickOK(w) ==
    LET me == local[w]
    IN  /\ me.pc # "idle" => me.now # NoTime
        /\ me.pc = "settle" => me.verdict # "none"
        /\ me.pc = "attach" => me.job \in 1 .. created
        /\ me.pc \in {"attach", "giveup"} => me.claims # {}
        /\ \A claim \in me.claims : claim.run <= catalog.last

TicksInv == local \in [Workers -> Ticks] /\ \A w \in Workers : TickOK(w)

\* What the workers watch are runs linked to jobs, and every run that is still
\* claimed and linked to a job is watched by its owner.
WatchInv ==
    /\ active \in [Workers -> SUBSET (Nat \X Nat)]
    /\ \A w \in Workers : active[w] \subseteq (1 .. created) \X (1 .. catalog.last)
    /\ AttachedIsWatched

\* The run is still claimed, and this worker's.
Held(c, w, r) ==
    r \in DOMAIN c.runs /\ c.runs[r].status = "claimed" /\ OwnerOf(c, r) = w

\* What the worker will watch no longer once it is done with the job.
LetGo(w) ==
    IF local[w].verdict = "renew" THEN local[w].lost
    ELSE RunsOf(active[w], local[w].job) \ local[w].runs

\* It is no longer its to watch: the run ended, or another worker took it over.
SettleInv ==
    \A w \in Workers : local[w].pc = "settle" =>
      /\ local[w].runs \subseteq RunsOf(active[w], local[w].job)
      /\ LetGo(w) \subseteq RunsOf(active[w], local[w].job)
      /\ \A r \in LetGo(w) : ~Held(catalog, w, r)

\* A page that carries the catalog's revision shows the catalog's schedules,
\* unless it is torn.
PageInv ==
    /\ page = [rows |-> page.rows, revision |-> page.revision, torn |-> page.torn]
    /\ page.revision \in Int /\ page.revision <= catalog.revision
    /\ page.torn \in BOOLEAN
    /\ DOMAIN page.rows \subseteq DOMAIN catalog.schedules
    /\ \A s \in DOMAIN page.rows : page.rows[s].enabled \in BOOLEAN
    /\ page.revision = catalog.revision /\ ~page.torn => page.rows = Rows
    /\ EditsSeeTheCatalog

IndInv ==
    /\ CatalogInv
    /\ JobsInv
    /\ TicksInv
    /\ WatchInv
    /\ SettleInv
    /\ PageInv

---------------------------------------------------------------------------
(* What a step makes of the catalog.                                       *)

\* What a method that was called makes of the catalog: it follows, it is valid
\* again unless it was cut, and only attach_job links a run to a job.
Written(c, d, jobs) ==
    /\ Follows(c, d)
    /\ InWindow(d) => Valid(d)
    /\ d.last <= RunsKept => Uncut(c, d)
    /\ \A r \in DOMAIN d.runs : d.runs[r].job <= jobs
    /\ JobsKept(c, d) \/ \E w \in Workers : Attach(w)

LEMMA JobsOfRuns ==
    ASSUME NEW c, NEW d, NEW jobs \in Nat, Follows(c, d), JobsKept(c, d),
           \A r \in DOMAIN c.runs : c.runs[r].job <= jobs
    PROVE  \A r \in DOMAIN d.runs : d.runs[r].job <= jobs
  BY DEF Follows, JobsKept, NoJob

\* The claims that are left have a first one.
LEMMA NextClaimFacts ==
    ASSUME NEW claims \in SUBSET Claims, claims # {}
    PROVE  NextClaim(claims) \in claims
<1> DEFINE runs == {c.run : c \in claims}
<1>1. runs \in SUBSET Nat /\ runs # {}
  BY DEF Claims
<1> HIDE DEF runs
<1>2. PICK n \in runs : \A m \in runs : n <= m
  <2> DEFINE smaller == OpToRel(<, Nat)
  <2>1. IsWellFoundedOn(smaller, Nat)
    BY NatLessThanWellFounded, Zenon
  <2>2. \A x, y \in Nat : <<x, y>> \in smaller <=> x < y
    BY DEF OpToRel
  <2> HIDE DEF smaller
  <2>3. PICK n \in runs : \A m \in runs : ~(<<m, n>> \in smaller)
    BY <1>1, <2>1, WFMin
  <2>4. n \in Nat /\ \A m \in runs : m \in Nat /\ ~(m < n)
    BY <1>1, <2>2, <2>3
  <2> QED
    BY <2>4
<1> USE DEF runs
<1>3. \E c \in claims : \A d \in claims : c.run <= d.run
  BY <1>2
<1> QED
  BY <1>3 DEF NextClaim

\* A worker's call of complete_run.
LEMMA CompleteStep ==
    ASSUME IndInv, NEW r, CanComplete(r), NEW status \in RunEnded, NEW moment \in Nat,
           NEW d, d = CompleteRun(catalog, r, status, moment)
    PROVE  Written(catalog, d, created)
<1>1. /\ Sane(catalog) /\ created \in Nat
      /\ \A q \in DOMAIN catalog.runs : catalog.runs[q].job <= created
      /\ Valid(catalog) /\ r \in DOMAIN catalog.runs
  BY DEF IndInv, CatalogInv, JobsInv, CanComplete, Readable
<1>2. Follows(catalog, d) /\ JobsKept(catalog, d) /\ Valid(d) /\ Uncut(catalog, d)
  BY <1>1, CompleteRunFacts
<1> QED
  BY <1>1, <1>2, JobsOfRuns DEF Written

\* The state of a tick.
LEMMA TickFacts ==
    ASSUME IndInv, NEW w \in Workers
    PROVE  /\ local[w] \in Ticks
           /\ local[w].pc # "idle" => local[w].now \in Nat
           /\ local[w].pc = "settle" /\ local[w].verdict # "renew" => local[w].verdict \in RunEnded
           /\ local[w].pc = "attach" => local[w].job \in Nat /\ local[w].job <= created
           /\ local[w].claims # {} => NextClaim(local[w].claims) \in local[w].claims
<1>1. local[w] \in Ticks /\ TickOK(w) /\ created \in Nat
  BY DEF IndInv, TicksInv, JobsInv
<1>2. /\ local[w].now \in Nat \cup {NoTime} /\ local[w].verdict \in RunEnded \cup {"renew", "none"}
      /\ local[w].claims \in SUBSET Claims
  BY <1>1 DEF Ticks
<1>3. local[w].claims # {} => NextClaim(local[w].claims) \in local[w].claims
  BY <1>2, NextClaimFacts
<1> QED
  BY <1>1, <1>2, <1>3 DEF TickOK

\* Every step leaves the catalog alone or is one call of one of its methods.
LEMMA CatalogStep ==
    ASSUME IndInv, [Next]_vars
    PROVE  /\ catalog' = catalog \/ (Valid(catalog) /\ Written(catalog, catalog', created))
           /\ Follows(catalog, catalog')
           /\ JobsKept(catalog, catalog') \/ \E w \in Workers : Attach(w)
<1>1. /\ Sane(catalog) /\ created \in Nat /\ catalog.last \in Nat
      /\ \A q \in DOMAIN catalog.runs : catalog.runs[q].job <= created
  BY DEF IndInv, CatalogInv, JobsInv, Sane, IsCatalog
<1>2. Follows(catalog, catalog) /\ JobsKept(catalog, catalog)
  BY <1>1, FollowsSelf
<1> SUFFICES catalog' = catalog \/ (Valid(catalog) /\ Written(catalog, catalog', created))
  BY <1>2 DEF Written
<1>3. CASE UNCHANGED vars
  BY <1>3 DEF vars, storeVars
<1>4. ASSUME NEW w \in Workers, Tick(w)
      PROVE  catalog' = catalog \/ (Valid(catalog) /\ Written(catalog, catalog', created))
  <2>1. /\ local[w].pc # "idle" => local[w].now \in Nat
        /\ local[w].pc = "settle" /\ local[w].verdict # "renew" => local[w].verdict \in RunEnded
        /\ local[w].pc = "attach" => local[w].job \in Nat /\ local[w].job <= created
    BY TickFacts
  <2>2. CASE BeginTick(w) \/ LookUp(w) \/ DoneWithJob(w) \/ LaunchStarts(w)
             \/ AttachRefused(w) \/ EndTick(w) \/ TickFails(w)
    BY <2>2 DEF BeginTick, LookUp, DoneWithJob, LaunchStarts, AttachRefused, EndTick,
                TickFails, storeVars
  <2>3. CASE Settle(w)
    <3>1. PICK r \in local[w].runs :
            /\ CanComplete(r)
            /\ catalog' = CompleteRun(catalog, r, local[w].verdict, local[w].now)
      BY <2>3 DEF Settle
    <3>2. local[w].verdict \in RunEnded /\ local[w].now \in Nat
      BY <2>1, <2>3 DEF Settle
    <3> QED
      BY <3>1, <3>2, CompleteStep DEF CanComplete, Readable
  <2>4. CASE Renew(w)
    <3>1. Valid(catalog) /\ local[w].now \in Nat
      BY <2>1, <2>4 DEF Renew, Readable
    <3>2. PICK r \in local[w].runs :
            catalog' = IF Owns(catalog, r, w) THEN Renewed(catalog, r, local[w].now) ELSE catalog
      BY <2>4 DEF Renew
    <3>3. CASE Owns(catalog, r, w)
      <4>1. catalog' = Renewed(catalog, r, local[w].now)
        BY <3>2, <3>3
      <4>2. Follows(catalog, catalog') /\ JobsKept(catalog, catalog') /\ Valid(catalog') /\ Uncut(catalog, catalog')
        BY <1>1, <3>1, <3>3, <4>1, RenewedFacts
      <4> QED
        BY <1>1, <3>1, <4>2, JobsOfRuns DEF Written
    <3> QED
      BY <3>2, <3>3
  <2>5. CASE Claim(w)
    <3>1. /\ Valid(catalog) /\ local[w].now \in Nat
          /\ catalog' = ClaimDue(catalog, w, local[w].now)
      BY <2>1, <2>5 DEF Claim, Readable
    <3>2. Follows(catalog, catalog') /\ JobsKept(catalog, catalog')
      BY <1>1, <3>1, ClaimDueFacts
    <3>3. InWindow(catalog') => Valid(catalog')
      BY <1>1, <3>1, ClaimDueValid
    <3>4. catalog'.last <= RunsKept => Uncut(catalog, catalog')
      BY <1>1, <3>1, ClaimedRuns
    <3> QED
      BY <1>1, <3>1, <3>2, <3>3, <3>4, JobsOfRuns DEF Written
  <2>6. CASE LaunchFails(w)
    <3> DEFINE r == NextClaim(local[w].claims).run
               status == "failed"
    <3>1. /\ CanComplete(r) /\ local[w].now \in Nat
          /\ catalog' = CompleteRun(catalog, r, status, local[w].now)
      BY <2>1, <2>6 DEF LaunchFails
    <3>2. status \in RunEnded
      BY DEF RunEnded
    <3> HIDE DEF r, status
    <3> QED
      BY <3>1, <3>2, CompleteStep DEF CanComplete, Readable
  <2>7. CASE GiveUp(w)
    <3> DEFINE r == NextClaim(local[w].claims).run
               status == "failed"
    <3>1. /\ CanComplete(r) /\ local[w].now \in Nat
          /\ catalog' = CompleteRun(catalog, r, status, local[w].now)
      BY <2>1, <2>7 DEF GiveUp
    <3>2. status \in RunEnded
      BY DEF RunEnded
    <3> HIDE DEF r, status
    <3> QED
      BY <3>1, <3>2, CompleteStep DEF CanComplete, Readable
  <2>8. CASE Attach(w)
    <3> DEFINE r == NextClaim(local[w].claims).run
    <3>1. /\ Valid(catalog) /\ local[w].now \in Nat /\ Owns(catalog, r, w)
          /\ local[w].job \in Nat /\ local[w].job <= created
          /\ catalog' = AttachJob(catalog, r, local[w].job, local[w].now)
      BY <2>1, <2>8 DEF Attach, Readable
    <3> HIDE DEF r
    <3>2. /\ Follows(catalog, catalog') /\ Valid(catalog') /\ catalog'.last = catalog.last
          /\ Uncut(catalog, catalog')
          /\ \A q \in DOMAIN catalog'.runs :
               catalog'.runs[q].job = IF q = r THEN local[w].job ELSE catalog.runs[q].job
      BY <1>1, <3>1, AttachJobFacts
    <3>3. \A q \in DOMAIN catalog'.runs : q \in DOMAIN catalog.runs
      <4>1. DOMAIN catalog'.runs \subseteq 1 .. catalog'.last
        BY <3>2 DEF Follows, Sane, IsCatalog
      <4>2. \A q \in DOMAIN catalog'.runs : q <= catalog.last
        BY <1>1, <3>2, <4>1
      <4> QED
        BY <3>2, <4>2 DEF Follows
    <3> QED
      BY <1>1, <2>8, <3>1, <3>2, <3>3 DEF Written
  <2> QED
    BY <1>4, <2>2, <2>3, <2>4, <2>5, <2>6, <2>7, <2>8 DEF Tick, Reconcile, Launch
<1>5. CASE SubmitCreate
  <2>1. PICK plan \in Offers :
          /\ Valid(catalog)
          /\ catalog' = CreateSchedule(catalog, Cardinality(DOMAIN catalog.schedules) + 1, plan)
    BY <1>5 DEF SubmitCreate, Edited, Accepted, Readable
  <2>2. plan \in Plans
    BY WorkerAssumption
  <2>3. Follows(catalog, catalog') /\ JobsKept(catalog, catalog') /\ Valid(catalog') /\ Uncut(catalog, catalog')
    <3> DEFINE s == Cardinality(DOMAIN catalog.schedules) + 1
    <3>1. s = Cardinality(DOMAIN catalog.schedules) + 1 /\ catalog' = CreateSchedule(catalog, s, plan)
      BY <2>1
    <3> HIDE DEF s
    <3> QED
      BY <1>1, <2>1, <2>2, <3>1, CreateFacts
  <2> QED
    BY <1>1, <2>1, <2>3, JobsOfRuns DEF Written
<1>6. CASE SubmitState
  <2>1. PICK s \in DOMAIN page.rows :
          /\ Valid(catalog)
          /\ catalog' = SetEnabled(catalog, s, ~page.rows[s].enabled)
    BY <1>6 DEF SubmitState, Edited, Accepted, Readable
  <2>2. s \in DOMAIN catalog.schedules
    BY DEF IndInv, PageInv
  <2>3. Follows(catalog, catalog') /\ JobsKept(catalog, catalog') /\ Valid(catalog') /\ Uncut(catalog, catalog')
    <3> DEFINE enabled == ~page.rows[s].enabled
    <3>1. enabled \in BOOLEAN /\ catalog' = SetEnabled(catalog, s, enabled)
      BY <2>1
    <3> HIDE DEF enabled
    <3> QED
      BY <1>1, <2>1, <2>2, <3>1, SetEnabledFacts
  <2> QED
    BY <1>1, <2>1, <2>3, JobsOfRuns DEF Written
<1>7. CASE SubmitWindow
  <2>1. Valid(catalog) /\ catalog' = Revised(catalog)
    BY <1>7 DEF SubmitWindow, Edited, Accepted, Readable
  <2>2. Follows(catalog, catalog') /\ JobsKept(catalog, catalog') /\ Valid(catalog') /\ Uncut(catalog, catalog')
    BY <1>1, <2>1, RevisedFollows
  <2> QED
    BY <1>1, <2>1, <2>2, JobsOfRuns DEF Written
<1>8. CASE ReadRows \/ ReadRevision \/ ManualStart \/ ManualCancel \/ JobEnds \/ ClockTick
           \/ ClockSetBack \/ Restart
  BY <1>8 DEF ReadRows, ReadRevision, ManualStart, ManualCancel, JobEnds, ClockTick,
              ClockSetBack, Restart, storeVars
<1> QED
  BY <1>3, <1>4, <1>5, <1>6, <1>7, <1>8 DEF Next

---------------------------------------------------------------------------
(* What a step makes of the jobs.                                          *)

\* The jobs stay a service's jobs, and no id is given back.
JobsStay == JobsInv' /\ created' >= created

LEMMA CancelKeepsJobs ==
    ASSUME JobsInv, NEW j, CancelJob(j), UNCHANGED clock
    PROVE  JobsStay
<1>1. CASE UNCHANGED jobVars
  BY <1>1 DEF JobsInv, JobsStay, jobVars
<1>2. CASE j \in DOMAIN known /\ Jobs!AskToCancel(j)
  <2>1. /\ created' = created /\ DOMAIN known' = DOMAIN known
        /\ \A i \in DOMAIN known : i # j => known'[i] = known[i]
        /\ known'[j] = [known[j] EXCEPT !.cancel = TRUE]
    BY <1>2 DEF Jobs!AskToCancel
  <2>2. known[j] = [profile |-> known[j].profile, status |-> known[j].status,
                    cancel |-> known[j].cancel]
    BY <1>2 DEF JobsInv
  <2> DEFINE old == known[j]
             new == known'[j]
             yes == TRUE
  <2>3. new = [old EXCEPT !.cancel = yes]
        /\ old = [profile |-> old.profile, status |-> old.status, cancel |-> old.cancel]
    BY <2>1, <2>2
  <2> HIDE DEF old, new, yes
  <2>4. new.status = old.status
        /\ new = [profile |-> new.profile, status |-> new.status, cancel |-> new.cancel]
    BY <2>3
  <2> QED
    BY <1>2, <2>1, <2>4 DEF JobsInv, JobsStay, old, new
<1> QED
  BY <1>1, <1>2 DEF CancelJob

LEMMA CreateKeepsJobs ==
    ASSUME JobsInv, NEW p, Jobs!Create(p), UNCHANGED clock
    PROVE  JobsStay
<1> DEFINE j == created + 1
           new == [profile |-> p, status |-> "active", cancel |-> FALSE]
<1>1. /\ created' = j /\ DOMAIN known' = DOMAIN known \cup {j}
      /\ \A i \in DOMAIN known : known'[i] = known[i]
      /\ j \notin DOMAIN known => known'[j] = new
  BY DEF Jobs!Create
<1>2. created \in Nat /\ DOMAIN known \subseteq 1 .. created
  BY DEF JobsInv
<1>3. j \notin DOMAIN known /\ j \in Nat /\ j >= created /\ 1 .. created \subseteq 1 .. j /\ j \in 1 .. j
  BY <1>2
<1>4. /\ new = [profile |-> new.profile, status |-> new.status, cancel |-> new.cancel]
      /\ new.status = "active"
  OBVIOUS
<1> HIDE DEF j, new
<1>5. DOMAIN known' \subseteq 1 .. created'
  BY <1>1, <1>2, <1>3
<1>6. ASSUME NEW i \in DOMAIN known'
      PROVE  /\ known'[i] = [profile |-> known'[i].profile, status |-> known'[i].status,
                             cancel |-> known'[i].cancel]
             /\ known'[i].status \in {"active"} \cup Jobs!Ended
  <2>1. CASE i \in DOMAIN known
    BY <1>1, <2>1 DEF JobsInv
  <2>2. CASE i = j
    BY <1>1, <1>3, <1>4, <2>2
  <2> QED
    BY <1>1, <2>1, <2>2
<1> QED
  BY <1>1, <1>3, <1>5, <1>6 DEF JobsInv, JobsStay

LEMMA EndKeepsJobs ==
    ASSUME JobsInv, NEW j \in DOMAIN known, NEW status \in Jobs!Ended, Jobs!End(j, status),
           UNCHANGED clock
    PROVE  JobsStay
<1> DEFINE old == known[j]
           new == known'[j]
<1>1. /\ created' = created /\ DOMAIN known' = DOMAIN known
      /\ \A i \in DOMAIN known : i # j => known'[i] = known[i]
      /\ new = [old EXCEPT !.status = status]
  BY DEF Jobs!End
<1>2. old = [profile |-> old.profile, status |-> old.status, cancel |-> old.cancel]
  BY DEF JobsInv
<1> HIDE DEF old, new
<1>3. new.status = status
      /\ new = [profile |-> new.profile, status |-> new.status, cancel |-> new.cancel]
  BY <1>1, <1>2
<1> QED
  BY <1>1, <1>3 DEF JobsInv, JobsStay, new

LEMMA RestartKeepsJobs ==
    ASSUME JobsInv, Restart
    PROVE  JobsStay
<1>1. PICK kept \in SUBSET DOMAIN known : \E lost \in SUBSET kept :
        known' = [j \in kept |->
                    [known[j] EXCEPT
                       !.status = IF @ \in Jobs!Ended /\ j \notin lost THEN @
                                  ELSE "interrupted"]]
  BY DEF Restart
<1>2. PICK lost \in SUBSET kept :
        known' = [j \in kept |->
                    [known[j] EXCEPT
                       !.status = IF @ \in Jobs!Ended /\ j \notin lost THEN @
                                  ELSE "interrupted"]]
  BY <1>1
<1>3. DOMAIN known' = kept /\ UNCHANGED <<created, clock>>
  BY <1>2 DEF Restart
<1>4. ASSUME NEW j \in kept
      PROVE  /\ known'[j] = [profile |-> known'[j].profile, status |-> known'[j].status,
                             cancel |-> known'[j].cancel]
             /\ known'[j].status \in Jobs!Ended
  <2> DEFINE old == known[j]
             new == known'[j]
             status == IF old.status \in Jobs!Ended /\ j \notin lost THEN old.status
                       ELSE "interrupted"
  <2>1. new = [old EXCEPT !.status = status]
    BY <1>2
  <2>2. old = [profile |-> old.profile, status |-> old.status, cancel |-> old.cancel]
    BY DEF JobsInv
  <2>3. status \in Jobs!Ended
    BY DEF Jobs!Ended
  <2> HIDE DEF old, new, status
  <2>4. new.status = status
        /\ new = [profile |-> new.profile, status |-> new.status, cancel |-> new.cancel]
    BY <2>1, <2>2
  <2> QED
    BY <2>3, <2>4 DEF new
<1> QED
  BY <1>3, <1>4 DEF JobsInv, JobsStay

LEMMA JobsStep ==
    ASSUME JobsInv, [Next]_vars
    PROVE  JobsStay
<1>1. ASSUME UNCHANGED <<jobVars, clock>> PROVE JobsStay
  BY <1>1 DEF JobsInv, JobsStay, jobVars
<1>2. CASE UNCHANGED vars
  BY <1>1, <1>2 DEF vars, worldVars
<1>3. ASSUME NEW w \in Workers, Tick(w) PROVE JobsStay
  <2>1. CASE BeginTick(w) \/ LookUp(w) \/ Settle(w) \/ Renew(w) \/ Claim(w) \/ LaunchFails(w)
             \/ Attach(w) \/ GiveUp(w) \/ EndTick(w) \/ TickFails(w)
    BY <1>1, <2>1 DEF BeginTick, LookUp, Settle, Renew, Claim, LaunchFails, Attach, GiveUp,
                      EndTick, TickFails, worldVars
  <2>2. CASE DoneWithJob(w)
    <3>1. clock' = clock /\ (CancelJob(local[w].job) \/ UNCHANGED jobVars)
      BY <2>2 DEF DoneWithJob, worldVars
    <3> QED
      BY <1>1, <3>1, CancelKeepsJobs
  <2>3. CASE AttachRefused(w)
    <3>1. clock' = clock /\ (CancelJob(local[w].job) \/ UNCHANGED jobVars)
      BY <2>3 DEF AttachRefused, worldVars
    <3> QED
      BY <1>1, <3>1, CancelKeepsJobs
  <2>4. CASE LaunchStarts(w)
    <3> DEFINE p == catalog.schedules[NextClaim(local[w].claims).schedule].plan.profile
    <3>1. clock' = clock /\ (Jobs!Create(p) \/ UNCHANGED jobVars)
      BY <2>4 DEF LaunchStarts, worldVars
    <3> HIDE DEF p
    <3> QED
      BY <1>1, <3>1, CreateKeepsJobs
  <2> QED
    BY <1>3, <2>1, <2>2, <2>3, <2>4 DEF Tick, Reconcile, Launch
<1>4. CASE ReadRows \/ ReadRevision \/ SubmitCreate \/ SubmitState \/ SubmitWindow
  BY <1>1, <1>4 DEF ReadRows, ReadRevision, SubmitCreate, SubmitState, SubmitWindow, Edited,
                    worldVars
<1>5. CASE ManualStart
  BY <1>5, CreateKeepsJobs DEF ManualStart, worldVars
<1>6. CASE ManualCancel
  <2>1. PICK j \in DOMAIN known : Jobs!AskToCancel(j)
    BY <1>6 DEF ManualCancel
  <2>2. CancelJob(j)
    BY <2>1 DEF CancelJob, Jobs!AskToCancel
  <2> QED
    BY <1>6, <2>2, CancelKeepsJobs DEF ManualCancel, worldVars
<1>7. CASE JobEnds
  <2>1. PICK j \in DOMAIN known, status \in Jobs!Ended : Jobs!End(j, status)
    BY <1>7 DEF JobEnds
  <2> QED
    BY <1>7, <2>1, EndKeepsJobs DEF JobEnds, worldVars
<1>8. CASE ClockTick \/ ClockSetBack
  BY <1>8 DEF ClockTick, ClockSetBack, JobsInv, JobsStay, jobVars
<1>9. CASE Restart
  BY <1>9, RestartKeepsJobs
<1> QED
  BY <1>2, <1>3, <1>4, <1>5, <1>6, <1>7, <1>8, <1>9 DEF Next

---------------------------------------------------------------------------
(* What a step makes of the ticks.                                         *)

\* The other ticks are as they were.
OnlyTick(w, me) == local' = [local EXCEPT ![w] = me]

\* What TickOK asks of a tick, by itself.
Fit(me, jobs, last) ==
    /\ me \in Ticks
    /\ me.pc # "idle" => me.now # NoTime
    /\ me.pc = "settle" => me.verdict # "none"
    /\ me.pc = "attach" => me.job \in 1 .. jobs
    /\ me.pc \in {"attach", "giveup"} => me.claims # {}
    /\ \A claim \in me.claims : claim.run <= last

LEMMA FitLater ==
    ASSUME NEW me, NEW jobs \in Nat, NEW more \in Nat, more >= jobs, NEW last \in Nat,
           NEW later \in Nat, later >= last, Fit(me, jobs, last)
    PROVE  Fit(me, more, later)
<1>1. \A claim \in me.claims : claim.run \in Nat /\ claim.run <= last
  BY DEF Fit, Ticks, Claims
<1>2. \A claim \in me.claims : claim.run <= later
  BY <1>1
<1> QED
  BY <1>2 DEF Fit

LEMMA TicksFit ==
    TicksInv <=> /\ local \in [Workers -> Ticks]
                 /\ \A w \in Workers : Fit(local[w], created, catalog.last)
  BY DEF TicksInv, TickOK, Fit

LEMMA OneTick ==
    ASSUME TicksInv, NEW w \in Workers, NEW me, OnlyTick(w, me), Fit(me, created', catalog'.last),
           created \in Nat, created' \in Nat, created' >= created, catalog.last \in Nat,
           catalog'.last \in Nat, catalog'.last >= catalog.last
    PROVE  TicksInv'
<1>1. local \in [Workers -> Ticks] /\ \A v \in Workers : Fit(local[v], created, catalog.last)
  BY TicksFit
<1>2. me \in Ticks
  BY DEF Fit
<1>3. local' \in [Workers -> Ticks]
  BY <1>1, <1>2 DEF OnlyTick
<1>4. ASSUME NEW v \in Workers PROVE Fit(local'[v], created', catalog'.last)
  <2>1. CASE v = w
    BY <1>1, <2>1 DEF OnlyTick
  <2>2. CASE v # w
    <3>1. local'[v] = local[v]
      BY <1>1, <2>2 DEF OnlyTick
    <3> QED
      BY <1>1, <3>1, FitLater
  <2> QED
    BY <2>1, <2>2
<1> QED
  BY <1>3, <1>4 DEF Fit, TicksInv, TickOK

LEMMA IdleFits ==
    ASSUME NEW jobs, NEW last
    PROVE  Fit(Idle, jobs, last)
  BY DEF Fit, Idle, Ticks, NoTime, NoJob

\* A tick that reconciles.
LEMMA ReconcileFits ==
    ASSUME NEW now \in Nat, NEW todo \in SUBSET Nat, NEW jobs, NEW last
    PROVE  LET me == [Idle EXCEPT !.pc = "reconcile", !.now = now, !.todo = todo]
           IN  Fit(me, jobs, last)
<1> DEFINE idle == Idle
           pc == "reconcile"
           me == [idle EXCEPT !.pc = pc, !.now = now, !.todo = todo]
<1>1. idle \in Ticks /\ idle.claims = {} /\ pc = "reconcile"
  BY DEF Idle, Ticks, NoTime, NoJob
<1>2. pc \in {"idle", "reconcile", "settle", "launch", "attach", "giveup"}
  OBVIOUS
<1> HIDE DEF idle, pc
<1>3. me \in Ticks /\ me.pc = "reconcile" /\ me.now = now /\ me.claims = {}
  BY <1>1, <1>2 DEF Ticks
<1> HIDE DEF me
<1>4. now # NoTime
  BY DEF NoTime
<1> QED
  BY <1>3, <1>4 DEF Fit, me, idle, pc

\* What a step of the worker leaves of the counters.
Growing ==
    /\ created \in Nat /\ created' \in Nat /\ created' >= created
    /\ catalog.last \in Nat /\ catalog'.last \in Nat /\ catalog'.last >= catalog.last

LEMMA LookUpTick ==
    ASSUME IndInv, Growing, NEW w \in Workers, LookUp(w)
    PROVE  TicksInv'
<1> DEFINE old == local[w]
<1>0. PICK j \in old.todo : \E verdict \in Verdicts(j) :
        local' = [local EXCEPT ![w].pc = "settle", ![w].todo = @ \ {j}, ![w].job = j,
                               ![w].verdict = verdict, ![w].lost = {},
                               ![w].runs = RunsOf(active[w], j)]
  BY DEF LookUp
<1>1. PICK verdict \in Verdicts(j) :
        local' = [local EXCEPT ![w].pc = "settle", ![w].todo = @ \ {j}, ![w].job = j,
                               ![w].verdict = verdict, ![w].lost = {},
                               ![w].runs = RunsOf(active[w], j)]
  BY <1>0
<1>2. TicksInv /\ local \in [Workers -> Ticks] /\ Fit(old, created, catalog.last)
  BY TicksFit DEF IndInv
<1>3. verdict \in RunEnded \cup {"renew"}
  <2>1. \A i \in DOMAIN known : known[i].status \in {"active"} \cup Jobs!Ended
    BY DEF IndInv, JobsInv
  <2>2. ASSUME NEW i \in DOMAIN known, known[i].status # "active"
        PROVE  Terminal(known[i].status) \in RunEnded
    BY <2>1, <2>2 DEF Terminal, RunEnded, Jobs!Ended
  <2>3. "failed" \in RunEnded
    BY DEF RunEnded
  <2> QED
    BY <2>2, <2>3 DEF Verdicts
<1>4. verdict \in RunEnded \cup {"renew", "none"} /\ verdict # "none"
  BY <1>3 DEF RunEnded
<1>5. RunsOf(active[w], j) \in SUBSET Nat
  BY DEF IndInv, WatchInv, RunsOf
<1>6. j \in Nat /\ old.todo \in SUBSET Nat /\ old.now # NoTime
  BY <1>2 DEF LookUp, Fit, Ticks
<1> DEFINE runs == RunsOf(active[w], j)
           pc == "settle"
           none == {}
           todo == old.todo \ {j}
           me == [old EXCEPT !.pc = pc, !.todo = todo, !.job = j,
                             !.verdict = verdict, !.lost = none, !.runs = runs]
<1>7. OnlyTick(w, me)
  BY <1>1, <1>2 DEF OnlyTick
<1>8. /\ pc \in {"idle", "reconcile", "settle", "launch", "attach", "giveup"}
      /\ pc = "settle" /\ none \in SUBSET Nat
      /\ todo \in SUBSET Nat /\ runs \in SUBSET Nat
  BY <1>5, <1>6
<1> HIDE DEF pc, none, runs, todo, old
<1>9. /\ me \in Ticks /\ me.pc = pc /\ me.now = old.now /\ me.claims = old.claims
      /\ me.verdict = verdict
  BY <1>2, <1>4, <1>6, <1>8 DEF Fit, Ticks
<1> HIDE DEF me
<1>10. Fit(me, created, catalog.last)
  BY <1>2, <1>4, <1>6, <1>8, <1>9 DEF Fit
<1> QED
  BY <1>2, <1>7, <1>10, OneTick, FitLater DEF Growing

LEMMA SettleTick ==
    ASSUME IndInv, Growing, NEW w \in Workers, Settle(w) \/ Renew(w)
    PROVE  TicksInv'
<1> DEFINE old == local[w]
<1>1. TicksInv /\ local \in [Workers -> Ticks] /\ Fit(old, created, catalog.last)
  BY TicksFit DEF IndInv
<1>2. PICK r \in old.runs, lost \in SUBSET Nat :
        local' = [local EXCEPT ![w].runs = @ \ {r}, ![w].lost = lost]
  <2>1. old.lost \in SUBSET Nat /\ old.runs \in SUBSET Nat
    BY <1>1 DEF Fit, Ticks
  <2>2. CASE Settle(w)
    <3>1. PICK r \in old.runs : local' = [local EXCEPT ![w].runs = @ \ {r}]
      BY <2>2 DEF Settle
    <3> DEFINE lost == old.lost
    <3>2. local' = [local EXCEPT ![w].runs = @ \ {r}, ![w].lost = lost]
      BY <1>1, <3>1 DEF Fit, Ticks
    <3> QED
      BY <2>1, <3>2
  <2>3. CASE Renew(w)
    <3>1. PICK r \in old.runs :
            local' = [local EXCEPT ![w].runs = @ \ {r},
                                   ![w].lost = IF Owns(catalog, r, w) THEN @ ELSE @ \cup {r}]
      BY <2>3 DEF Renew
    <3> DEFINE lost == IF Owns(catalog, r, w) THEN old.lost ELSE old.lost \cup {r}
    <3>2. local' = [local EXCEPT ![w].runs = @ \ {r}, ![w].lost = lost]
      BY <1>1, <3>1 DEF Fit, Ticks
    <3>3. lost \in SUBSET Nat
      BY <2>1
    <3> QED
      BY <3>2, <3>3
  <2> QED
    BY <2>2, <2>3
<1> DEFINE runs == old.runs \ {r}
           me == [old EXCEPT !.runs = runs, !.lost = lost]
<1>3. OnlyTick(w, me)
  BY <1>1, <1>2 DEF OnlyTick
<1>4. runs \in SUBSET Nat
  BY <1>1 DEF Fit, Ticks
<1> HIDE DEF runs, old
<1>5. /\ me \in Ticks /\ me.pc = old.pc /\ me.now = old.now /\ me.claims = old.claims
      /\ me.verdict = old.verdict /\ me.job = old.job
  BY <1>1, <1>4 DEF Fit, Ticks
<1> HIDE DEF me
<1>6. Fit(me, created, catalog.last)
  BY <1>1, <1>5 DEF Fit
<1> QED
  BY <1>1, <1>3, <1>6, OneTick, FitLater DEF Growing

LEMMA ClaimTick ==
    ASSUME IndInv, Growing, NEW w \in Workers, Claim(w)
    PROVE  TicksInv'
<1> DEFINE old == local[w]
           now == old.now
           claims == {[run |-> ClaimedRun(catalog, s, now), schedule |-> s,
                       due |-> catalog.schedules[s].next,
                       origin |-> Origin(catalog.schedules[s])] :
                        s \in Claimers(catalog, now)}
           pc == "launch"
           me == [old EXCEPT !.pc = pc, !.claims = claims]
<1>1. TicksInv /\ local \in [Workers -> Ticks] /\ Fit(old, created, catalog.last)
  BY TicksFit DEF IndInv
<1>2. now \in Nat /\ Valid(catalog) /\ catalog' = ClaimDue(catalog, w, now) /\ Sane(catalog)
  BY TickFacts DEF Claim, Readable, IndInv, CatalogInv
<1>3. OnlyTick(w, me)
  BY <1>1 DEF Claim, OnlyTick
<1>4. ASSUME NEW s \in Claimers(catalog, now)
      PROVE  /\ ClaimedRun(catalog, s, now) \in Nat
             /\ ClaimedRun(catalog, s, now) <= catalog'.last
             /\ s \in Nat /\ catalog.schedules[s].next \in Nat
             /\ Origin(catalog.schedules[s]) \in Nat
  <2>1. s \in DOMAIN catalog.schedules /\ s \in Nat
    BY <1>2 DEF Claimers, Sane, IsCatalog
  <2>2. catalog.schedules[s] \in Schedule
    BY <1>2, <2>1 DEF Sane, SoundSchedule
  <2>3. catalog.schedules[s].next \in Nat /\ Origin(catalog.schedules[s]) \in Nat
    BY <2>2, OriginFacts DEF Schedule
  <2> HIDE DEF now
  <2>4. ClaimedRun(catalog, s, now) \in (catalog.last + 1) .. catalog'.last
    BY <1>2, ClaimedRuns
  <2> QED
    BY <2>1, <2>3, <2>4 DEF Growing
<1>5. claims \in SUBSET Claims /\ \A claim \in claims : claim.run <= catalog'.last
  BY <1>4 DEF Claims
<1>6. pc \in {"idle", "reconcile", "settle", "launch", "attach", "giveup"} /\ pc = "launch"
  OBVIOUS
<1>7. now # NoTime
  BY <1>2 DEF NoTime
<1> HIDE DEF pc, claims, old
<1>8. me \in Ticks /\ me.pc = pc /\ me.now = old.now /\ me.claims = claims
  BY <1>1, <1>5, <1>6 DEF Fit, Ticks
<1> HIDE DEF me
<1>9. Fit(me, created', catalog'.last)
  BY <1>5, <1>6, <1>7, <1>8 DEF Fit
<1> QED
  BY <1>1, <1>3, <1>9, OneTick DEF Growing

\* A step that launches: where the tick is, which job it links, which claims
\* are left.
LaunchedTick(old, pc, claims, job, fresh) ==
    [old EXCEPT !.pc = pc, !.claims = claims, !.job = job, !.fresh = fresh]

LEMMA LaunchedFits ==
    ASSUME NEW old, NEW jobs \in Nat, NEW last, Fit(old, jobs, last), old.now # NoTime,
           NEW pc \in {"launch", "attach", "giveup"}, NEW claims \in SUBSET old.claims,
           pc # "launch" => claims # {}, NEW job \in Nat, pc = "attach" => job \in 1 .. jobs,
           NEW fresh \in BOOLEAN
    PROVE  Fit(LaunchedTick(old, pc, claims, job, fresh), jobs, last)
<1> DEFINE me == LaunchedTick(old, pc, claims, job, fresh)
<1>1. claims \in SUBSET Claims
  BY DEF Fit, Ticks
<1>2. /\ me \in Ticks /\ me.pc = pc /\ me.now = old.now /\ me.claims = claims
      /\ me.job = job
  BY <1>1 DEF Fit, Ticks, LaunchedTick
<1> HIDE DEF me
<1>3. Fit(me, jobs, last)
  BY <1>2 DEF Fit
<1> QED
  BY <1>3 DEF me

LEMMA LaunchTick ==
    ASSUME IndInv, JobsInv', Growing, NEW w \in Workers, Launch(w)
    PROVE  TicksInv'
<1> DEFINE old == local[w]
           claim == NextClaim(old.claims)
           rest == old.claims \ {claim}
<1>1. TicksInv /\ local \in [Workers -> Ticks] /\ Fit(old, created, catalog.last)
  BY TicksFit DEF IndInv
<1>2. old.pc # "idle" /\ old.claims # {} /\ old.now # NoTime
  BY <1>1 DEF Launch, LaunchFails, LaunchStarts, Attach, AttachRefused, GiveUp, Fit
<1>3. Fit(old, created', catalog'.last)
  BY <1>1, FitLater DEF Growing
<1>4. \E pc \in {"launch", "attach", "giveup"} : \E claims \in SUBSET old.claims :
        \E job \in Nat : \E fresh \in BOOLEAN :
          /\ pc # "launch" => claims # {}
          /\ pc = "attach" => job \in 1 .. created'
          /\ OnlyTick(w, LaunchedTick(old, pc, claims, job, fresh))
  <2>0. old.job \in Nat /\ old.fresh \in BOOLEAN /\ old \in Ticks
    BY <1>1 DEF Fit, Ticks
  <2>1. CASE LaunchFails(w)
    <3>1. old.pc = "launch" /\ local' = [local EXCEPT ![w].claims = @ \ {claim}]
      BY <2>1 DEF LaunchFails
    <3>2. OnlyTick(w, LaunchedTick(old, old.pc, rest, old.job, old.fresh))
      <4>1. LaunchedTick(old, old.pc, rest, old.job, old.fresh) = [old EXCEPT !.claims = rest]
        <5> DEFINE all == rest
        <5> HIDE DEF all, old
        <5>1. LaunchedTick(old, old.pc, all, old.job, old.fresh) = [old EXCEPT !.claims = all]
          BY <2>0 DEF LaunchedTick, Ticks
        <5> QED
          BY <5>1 DEF all
      <4> QED
        BY <1>1, <3>1, <4>1 DEF OnlyTick
    <3> QED
      BY <2>0, <3>1, <3>2
  <2>2. CASE LaunchStarts(w)
    <3>1. PICK job \in 1 .. created', fresh \in BOOLEAN :
            local' = [local EXCEPT ![w].pc = "attach", ![w].fresh = fresh, ![w].job = job]
      <4> DEFINE p == catalog.schedules[claim.schedule].plan.profile
      <4>1. \/ /\ Jobs!Create(p)
               /\ local' = [local EXCEPT ![w].pc = "attach", ![w].fresh = TRUE,
                                         ![w].job = created + 1]
            \/ \E j \in Jobs!Busy(p) :
                 /\ local' = [local EXCEPT ![w].pc = "attach", ![w].fresh = FALSE,
                                           ![w].job = j]
                 /\ UNCHANGED jobVars
        BY <2>2 DEF LaunchStarts
      <4>2. CASE Jobs!Create(p) /\ local' = [local EXCEPT ![w].pc = "attach", ![w].fresh = TRUE,
                                                         ![w].job = created + 1]
        <5>1. created + 1 \in 1 .. created'
          BY <4>2 DEF Jobs!Create, Growing
        <5> QED
          BY <4>2, <5>1
      <4>3. ASSUME NEW j \in Jobs!Busy(p),
                   local' = [local EXCEPT ![w].pc = "attach", ![w].fresh = FALSE, ![w].job = j]
            PROVE  \E job \in 1 .. created', fresh \in BOOLEAN :
                     local' = [local EXCEPT ![w].pc = "attach", ![w].fresh = fresh, ![w].job = job]
        <5>1. j \in DOMAIN known
          BY DEF Jobs!Busy
        <5>2. j \in 1 .. created /\ j \in 1 .. created'
          BY <5>1 DEF IndInv, JobsInv, Growing
        <5> QED
          BY <4>3, <5>2
      <4> QED
        BY <4>1, <4>2, <4>3
    <3>2. OnlyTick(w, LaunchedTick(old, "attach", old.claims, job, fresh))
      <4>1. LaunchedTick(old, "attach", old.claims, job, fresh)
              = [old EXCEPT !.pc = "attach", !.fresh = fresh, !.job = job]
        BY <2>0 DEF LaunchedTick, Ticks
      <4> QED
        BY <1>1, <3>1, <4>1 DEF OnlyTick
    <3>3. job \in Nat
      BY DEF Growing
    <3> QED
      BY <1>2, <3>2, <3>3
  <2>3. CASE Attach(w)
    <3>1. local' = [local EXCEPT ![w].pc = "launch", ![w].claims = @ \ {claim},
                                 ![w].job = NoJob, ![w].fresh = FALSE]
      BY <2>3 DEF Attach
    <3>2. OnlyTick(w, LaunchedTick(old, "launch", rest, NoJob, FALSE))
      BY <1>1, <3>1 DEF OnlyTick, LaunchedTick
    <3>3. NoJob \in Nat
      BY DEF NoJob
    <3> QED
      BY <3>2, <3>3
  <2>4. CASE AttachRefused(w)
    <3>1. local' = [local EXCEPT ![w].pc = "giveup", ![w].job = NoJob, ![w].fresh = FALSE]
      BY <2>4 DEF AttachRefused
    <3>2. OnlyTick(w, LaunchedTick(old, "giveup", old.claims, NoJob, FALSE))
      <4>1. LaunchedTick(old, "giveup", old.claims, NoJob, FALSE)
              = [old EXCEPT !.pc = "giveup", !.job = NoJob, !.fresh = FALSE]
        BY <2>0 DEF LaunchedTick, Ticks
      <4> QED
        BY <1>1, <3>1, <4>1 DEF OnlyTick
    <3>3. NoJob \in Nat
      BY DEF NoJob
    <3> QED
      BY <1>2, <3>2, <3>3
  <2>5. CASE GiveUp(w)
    <3>1. local' = [local EXCEPT ![w].pc = "launch", ![w].claims = @ \ {claim}]
      BY <2>5 DEF GiveUp
    <3>2. OnlyTick(w, LaunchedTick(old, "launch", rest, old.job, old.fresh))
      <4>1. LaunchedTick(old, "launch", rest, old.job, old.fresh)
              = [old EXCEPT !.pc = "launch", !.claims = rest]
        BY <2>0 DEF LaunchedTick, Ticks
      <4> QED
        BY <1>1, <3>1, <4>1 DEF OnlyTick
    <3> QED
      BY <2>0, <3>2
  <2> QED
    BY <2>1, <2>2, <2>3, <2>4, <2>5 DEF Launch
<1>5. PICK pc \in {"launch", "attach", "giveup"}, claims \in SUBSET old.claims, job \in Nat,
           fresh \in BOOLEAN :
        /\ pc # "launch" => claims # {}
        /\ pc = "attach" => job \in 1 .. created'
        /\ OnlyTick(w, LaunchedTick(old, pc, claims, job, fresh))
  BY <1>4
<1> HIDE DEF old
<1>6. Fit(LaunchedTick(old, pc, claims, job, fresh), created', catalog'.last)
  BY <1>2, <1>3, <1>5, LaunchedFits DEF Growing
<1> QED
  BY <1>1, <1>5, <1>6, OneTick DEF Growing

LEMMA TicksStep ==
    ASSUME IndInv, JobsInv', Growing, [Next]_vars
    PROVE  TicksInv'
<1>1. TicksInv /\ local \in [Workers -> Ticks]
      /\ \A w \in Workers : Fit(local[w], created, catalog.last)
  BY TicksFit DEF IndInv
<1>2. ASSUME UNCHANGED local PROVE TicksInv'
  <2>1. \A w \in Workers : Fit(local'[w], created', catalog'.last)
    BY <1>1, <1>2, FitLater DEF Growing
  <2> QED
    BY <1>1, <1>2, <2>1 DEF TicksInv, TickOK, Fit
<1>3. CASE UNCHANGED vars
  BY <1>2, <1>3 DEF vars, workerVars
<1>4. ASSUME NEW w \in Workers, Tick(w) PROVE TicksInv'
  <2>1. CASE BeginTick(w)
    <3> DEFINE todo == JobsOf(active[w])
               now == clock
               me == [Idle EXCEPT !.pc = "reconcile", !.now = now, !.todo = todo]
    <3>1. OnlyTick(w, me)
      BY <2>1 DEF BeginTick, OnlyTick
    <3>2. now \in Nat /\ todo \in SUBSET Nat
      BY DEF IndInv, JobsInv, WatchInv, JobsOf
    <3> HIDE DEF todo, now
    <3>3. Fit(me, created', catalog'.last)
      BY <3>2, ReconcileFits
    <3> QED
      BY <1>1, <3>1, <3>3, OneTick DEF Growing
  <2>2. CASE DoneWithJob(w)
    <3> DEFINE todo == local[w].todo
               now == local[w].now
               me == [Idle EXCEPT !.pc = "reconcile", !.now = now, !.todo = todo]
    <3>1. OnlyTick(w, me)
      BY <2>2 DEF DoneWithJob, OnlyTick
    <3>2. now \in Nat /\ todo \in SUBSET Nat
      BY <1>1, <2>2, TickFacts DEF DoneWithJob, Fit, Ticks
    <3> HIDE DEF todo, now
    <3>3. Fit(me, created', catalog'.last)
      BY <3>2, ReconcileFits
    <3> QED
      BY <1>1, <3>1, <3>3, OneTick DEF Growing
  <2>3. CASE EndTick(w) \/ TickFails(w)
    <3>1. OnlyTick(w, Idle)
      BY <2>3 DEF EndTick, TickFails, OnlyTick
    <3>2. Fit(Idle, created', catalog'.last)
      BY IdleFits
    <3> QED
      BY <1>1, <3>1, <3>2, OneTick DEF Growing
  <2>4. CASE LookUp(w)
    BY <2>4, LookUpTick
  <2>5. CASE Settle(w) \/ Renew(w)
    BY <2>5, SettleTick
  <2>6. CASE Claim(w)
    BY <2>6, ClaimTick
  <2>7. CASE Launch(w)
    BY <2>7, LaunchTick
  <2> QED
    BY <1>4, <2>1, <2>2, <2>3, <2>4, <2>5, <2>6, <2>7 DEF Tick, Reconcile
<1>5. CASE Restart
  <2>1. local' = [w \in Workers |-> Idle]
    BY <1>5 DEF Restart
  <2>2. Fit(Idle, created', catalog'.last)
    BY IdleFits
  <2>3. Idle \in Ticks
    BY <2>2 DEF Fit
  <2>4. local' \in [Workers -> Ticks] /\ \A w \in Workers : Fit(local'[w], created', catalog'.last)
    BY <2>1, <2>2, <2>3
  <2> QED
    BY <2>4 DEF TicksInv, TickOK, Fit
<1>6. CASE ReadRows \/ ReadRevision \/ SubmitCreate \/ SubmitState \/ SubmitWindow \/ ManualStart
           \/ ManualCancel \/ JobEnds \/ ClockTick \/ ClockSetBack
  BY <1>2, <1>6 DEF ReadRows, ReadRevision, SubmitCreate, SubmitState, SubmitWindow, Edited,
                    ManualStart, ManualCancel, JobEnds, ClockTick, ClockSetBack, workerVars
<1> QED
  BY <1>3, <1>4, <1>5, <1>6 DEF Next

---------------------------------------------------------------------------
(* What a step makes of what the workers watch.                            *)

\* A run that is still a worker's after a step was its before the step.
LEMMA HeldBefore ==
    ASSUME NEW c, NEW d, Follows(c, d), NEW w, NEW r, r <= c.last, Held(d, w, r)
    PROVE  Held(c, w, r)
  BY DEF Follows, Held

\* AttachedIsWatched, of any catalog and any watched jobs.
Attached(c, watched) ==
    \A r \in DOMAIN c.runs :
      LET run == c.runs[r]
          owner == c.schedules[run.schedule].owner
      IN  run.status = "claimed" /\ run.job # NoJob => <<run.job, r>> \in watched[owner]

\* The owner of a claimed run is a worker.
LEMMA WatchedRuns ==
    ASSUME NEW c, Sane(c), NEW watched
    PROVE  Attached(c, watched) <=>
             \A w \in Workers : \A r \in DOMAIN c.runs :
               Held(c, w, r) /\ c.runs[r].job # NoJob => <<c.runs[r].job, r>> \in watched[w]
<1>1. ASSUME NEW r \in DOMAIN c.runs, c.runs[r].status = "claimed"
      PROVE  OwnerOf(c, r) \in Workers
  <2> DEFINE schedule == c.schedules[c.runs[r].schedule]
  <2>1. schedule.active = r /\ schedule \in Schedule /\ LeaseWhole(schedule)
    BY <1>1 DEF Sane, ClaimedActive, SoundSchedule
  <2>2. r # NoRun
    BY DEF Sane, IsCatalog, NoRun
  <2>3. schedule.owner # Nobody /\ schedule.owner \in Workers \cup {Nobody}
    BY <2>1, <2>2 DEF LeaseWhole, Schedule
  <2> QED
    BY <2>3 DEF OwnerOf
<1> QED
  BY <1>1 DEF Attached, Held, OwnerOf

\* Watching less: only runs that are not the worker's any more are dropped.
LEMMA KeepWatching ==
    ASSUME IndInv, Growing, Follows(catalog, catalog'), JobsKept(catalog, catalog'),
           active' \in [Workers -> SUBSET (Nat \X Nat)],
           \A w \in Workers :
             /\ active'[w] \subseteq active[w]
             /\ \A pair \in active[w] \ active'[w] : ~Held(catalog, w, pair[2])
    PROVE  WatchInv'
<1>1. /\ Sane(catalog) /\ Sane(catalog') /\ Attached(catalog, active)
      /\ \A w \in Workers : active[w] \subseteq (1 .. created) \X (1 .. catalog.last)
  BY DEF IndInv, CatalogInv, WatchInv, Follows, Attached, AttachedIsWatched
<1>2. \A w \in Workers : \A r \in DOMAIN catalog.runs :
        Held(catalog, w, r) /\ catalog.runs[r].job # NoJob =>
          <<catalog.runs[r].job, r>> \in active[w]
  BY <1>1, WatchedRuns
<1>3. ASSUME NEW w \in Workers, NEW r \in DOMAIN catalog'.runs, Held(catalog', w, r),
             catalog'.runs[r].job # NoJob
      PROVE  <<catalog'.runs[r].job, r>> \in active'[w]
  <2>1. r <= catalog.last /\ catalog'.runs[r].job = catalog.runs[r].job
    BY <1>3 DEF JobsKept
  <2>2. Held(catalog, w, r) /\ r \in DOMAIN catalog.runs
    BY <1>3, <2>1, HeldBefore DEF Held
  <2> DEFINE pair == <<catalog.runs[r].job, r>>
  <2>3. pair \in active[w] /\ pair[2] = r
    BY <1>2, <1>3, <2>1, <2>2
  <2> QED
    BY <2>1, <2>2, <2>3
<1>4. AttachedIsWatched'
  <2>1. Attached(catalog', active')
    BY <1>1, <1>3, WatchedRuns
  <2> QED
    BY <2>1 DEF Attached, AttachedIsWatched
<1>5. ASSUME NEW w \in Workers
      PROVE  active'[w] \subseteq (1 .. created') \X (1 .. catalog'.last)
  <2>1. 1 .. created \subseteq 1 .. created' /\ 1 .. catalog.last \subseteq 1 .. catalog'.last
    BY DEF Growing
  <2> QED
    BY <1>1, <2>1
<1> QED
  BY <1>4, <1>5 DEF WatchInv

LEMMA AttachWatches ==
    ASSUME IndInv, Growing, Follows(catalog, catalog'), NEW w \in Workers, Attach(w)
    PROVE  WatchInv'
<1> DEFINE r == NextClaim(local[w].claims).run
           j == local[w].job
<1>1. /\ Sane(catalog) /\ Sane(catalog') /\ Attached(catalog, active)
      /\ active \in [Workers -> SUBSET (Nat \X Nat)]
      /\ \A v \in Workers : active[v] \subseteq (1 .. created) \X (1 .. catalog.last)
  BY DEF IndInv, CatalogInv, WatchInv, Follows, Attached, AttachedIsWatched
<1>2. /\ Valid(catalog) /\ Owns(catalog, r, w) /\ local[w].now \in Nat
      /\ catalog' = AttachJob(catalog, r, j, local[w].now)
      /\ active' = [active EXCEPT ![w] = @ \cup {<<j, r>>}]
      /\ created' = created
  BY TickFacts DEF Attach, Readable, jobVars
<1>3. j \in Nat /\ j \in 1 .. created
  BY DEF IndInv, TicksInv, TickOK, Attach, Growing
<1> HIDE DEF r, j
<1>4. /\ catalog'.last = catalog.last
      /\ \A q \in DOMAIN catalog'.runs :
           catalog'.runs[q].job = IF q = r THEN j ELSE catalog.runs[q].job
  BY <1>1, <1>2, <1>3, AttachJobFacts
<1>5. r \in DOMAIN catalog.runs /\ OwnerOf(catalog, r) = w
  BY <1>2 DEF Owns, OwnerOf
<1>6. r \in 1 .. catalog.last
  BY <1>1, <1>5 DEF Sane, IsCatalog
<1>7. \A v \in Workers : \A q \in DOMAIN catalog.runs :
        Held(catalog, v, q) /\ catalog.runs[q].job # NoJob =>
          <<catalog.runs[q].job, q>> \in active[v]
  BY <1>1, WatchedRuns
<1>8. /\ active'[w] = active[w] \cup {<<j, r>>}
      /\ \A v \in Workers : active[v] \subseteq active'[v]
      /\ \A v \in Workers : v # w => active'[v] = active[v]
      /\ active' \in [Workers -> SUBSET (Nat \X Nat)]
  BY <1>1, <1>2, <1>3, <1>6
<1>9. ASSUME NEW v \in Workers, NEW q \in DOMAIN catalog'.runs, Held(catalog', v, q),
             catalog'.runs[q].job # NoJob
      PROVE  <<catalog'.runs[q].job, q>> \in active'[v]
  <2>1. q <= catalog.last
    BY <1>1, <1>4 DEF Sane, IsCatalog
  <2>2. Held(catalog, v, q) /\ q \in DOMAIN catalog.runs
    BY <1>9, <2>1, HeldBefore DEF Held
  <2>3. CASE q = r
    BY <1>4, <1>5, <1>8, <2>2, <2>3 DEF Held
  <2>4. CASE q # r
    BY <1>4, <1>7, <1>8, <1>9, <2>2, <2>4
  <2> QED
    BY <2>3, <2>4
<1>10. AttachedIsWatched'
  <2>1. Attached(catalog', active')
    BY <1>1, <1>9, WatchedRuns
  <2> QED
    BY <2>1 DEF Attached, AttachedIsWatched
<1>11. \A v \in Workers : active'[v] \subseteq (1 .. created') \X (1 .. catalog'.last)
  BY <1>1, <1>2, <1>3, <1>4, <1>6, <1>8
<1> QED
  BY <1>8, <1>10, <1>11 DEF WatchInv

LEMMA WatchStep ==
    ASSUME IndInv, Growing, CatalogInv', [Next]_vars, Follows(catalog, catalog'),
           JobsKept(catalog, catalog') \/ \E w \in Workers : Attach(w)
    PROVE  WatchInv'
<1>0. active \in [Workers -> SUBSET (Nat \X Nat)]
      /\ \A w \in Workers : active[w] \subseteq (1 .. created) \X (1 .. catalog.last)
  BY DEF IndInv, WatchInv
<1>1. ASSUME UNCHANGED active, JobsKept(catalog, catalog') PROVE WatchInv'
  BY <1>0, <1>1, KeepWatching
<1>2. ASSUME NEW w \in Workers, Attach(w) PROVE WatchInv'
  BY <1>2, AttachWatches
<1> SUFFICES ASSUME JobsKept(catalog, catalog') PROVE WatchInv'
  BY <1>2
<1>3. CASE UNCHANGED vars
  BY <1>1, <1>3 DEF vars, workerVars
<1>4. ASSUME NEW w \in Workers, Tick(w) PROVE WatchInv'
  <2>1. CASE BeginTick(w) \/ LookUp(w) \/ Settle(w) \/ Renew(w) \/ Claim(w) \/ LaunchFails(w)
             \/ LaunchStarts(w) \/ AttachRefused(w) \/ GiveUp(w) \/ EndTick(w) \/ TickFails(w)
    BY <1>1, <2>1 DEF BeginTick, LookUp, Settle, Renew, Claim, LaunchFails, LaunchStarts,
                      AttachRefused, GiveUp, EndTick, TickFails
  <2>2. CASE DoneWithJob(w)
    <3> DEFINE j == local[w].job
               dropped == IF local[w].verdict = "renew" THEN local[w].lost
                          ELSE RunsOf(active[w], j)
    <3>1. /\ active' = [active EXCEPT ![w] = @ \ ({j} \X dropped)]
          /\ local[w].pc = "settle" /\ local[w].runs = {}
      BY <2>2 DEF DoneWithJob
    <3>2. dropped = LetGo(w)
      BY <3>1 DEF LetGo
    <3>3. \A r \in dropped : ~Held(catalog, w, r)
      BY <3>1, <3>2 DEF IndInv, SettleInv
    <3> HIDE DEF dropped, j
    <3>4. active' \in [Workers -> SUBSET (Nat \X Nat)]
      BY <1>0, <3>1
    <3>5. ASSUME NEW v \in Workers
          PROVE  /\ active'[v] \subseteq active[v]
                 /\ \A pair \in active[v] \ active'[v] : ~Held(catalog, v, pair[2])
      <4>1. CASE v = w
        <5>1. active'[v] = active[w] \ ({j} \X dropped)
          BY <1>0, <3>1, <4>1
        <5>2. \A pair \in active[v] \ active'[v] : pair[2] \in dropped
          BY <4>1, <5>1
        <5> QED
          BY <3>3, <4>1, <5>1, <5>2
      <4>2. CASE v # w
        BY <1>0, <3>1, <4>2
      <4> QED
        BY <4>1, <4>2
    <3> QED
      BY <3>4, <3>5, KeepWatching
  <2>3. CASE Attach(w)
    BY <1>2, <2>3
  <2> QED
    BY <1>4, <2>1, <2>2, <2>3 DEF Tick, Reconcile, Launch
<1>5. CASE Restart
  <2>1. active' = [w \in Workers |-> Watched] /\ catalog' = catalog /\ created' = created
    BY <1>5 DEF Restart, storeVars
  <2>2. /\ DOMAIN catalog.runs \subseteq 1 .. catalog.last
        /\ \A r \in DOMAIN catalog.runs : catalog.runs[r].job \in Nat /\ catalog.runs[r].job <= created
    BY DEF IndInv, CatalogInv, Sane, IsCatalog, Run
  <2>3. Watched \subseteq (1 .. created) \X (1 .. catalog.last)
    BY <2>2 DEF Watched, NoJob, Growing
  <2>4. active' \in [Workers -> SUBSET (Nat \X Nat)]
    <3>1. 1 .. created \subseteq Nat /\ 1 .. catalog.last \subseteq Nat
      OBVIOUS
    <3> QED
      BY <2>1, <2>3, <3>1
  <2>5. \A w \in Workers : active'[w] \subseteq (1 .. created') \X (1 .. catalog'.last)
    BY <2>1, <2>3
  <2>6. Attached(catalog', active')
    <3>1. Sane(catalog')
      BY DEF CatalogInv
    <3>2. \A w \in Workers : \A r \in DOMAIN catalog'.runs :
            Held(catalog', w, r) /\ catalog'.runs[r].job # NoJob =>
              <<catalog'.runs[r].job, r>> \in active'[w]
      BY <2>1 DEF Held, Watched
    <3> QED
      BY <3>1, <3>2, WatchedRuns
  <2> QED
    BY <2>4, <2>5, <2>6 DEF WatchInv, Attached, AttachedIsWatched
<1>6. CASE ReadRows \/ ReadRevision \/ SubmitCreate \/ SubmitState \/ SubmitWindow \/ ManualStart
           \/ ManualCancel \/ JobEnds \/ ClockTick \/ ClockSetBack
  BY <1>1, <1>6 DEF ReadRows, ReadRevision, SubmitCreate, SubmitState, SubmitWindow, Edited,
                    ManualStart, ManualCancel, JobEnds, ClockTick, ClockSetBack, workerVars
<1> QED
  BY <1>3, <1>4, <1>5, <1>6 DEF Next

---------------------------------------------------------------------------
(* What a step makes of a job that is being settled.                       *)

\* The part of SettleInv that is about one worker.
Settling(w) ==
    local[w].pc = "settle" =>
      /\ local[w].runs \subseteq RunsOf(active[w], local[w].job)
      /\ LetGo(w) \subseteq RunsOf(active[w], local[w].job)
      /\ \A r \in LetGo(w) : ~Held(catalog, w, r)

\* A worker that does not move.
LEMMA SettlingWaits ==
    ASSUME IndInv, Follows(catalog, catalog'), NEW v \in Workers, local'[v] = local[v],
           active'[v] = active[v]
    PROVE  Settling(v)'
<1>1. Settling(v) /\ active[v] \subseteq (1 .. created) \X (1 .. catalog.last)
  BY DEF IndInv, SettleInv, Settling, WatchInv
<1>2. LetGo(v)' = LetGo(v)
  BY DEF LetGo
<1>3. ASSUME local[v].pc = "settle", NEW r \in LetGo(v) PROVE ~Held(catalog', v, r)
  <2>1. r \in RunsOf(active[v], local[v].job) /\ ~Held(catalog, v, r)
    BY <1>1, <1>3 DEF Settling
  <2>2. r <= catalog.last
    BY <1>1, <2>1 DEF RunsOf
  <2> QED
    BY <2>1, <2>2, HeldBefore
<1> QED
  BY <1>1, <1>2, <1>3 DEF Settling

\* A worker that is not settling a job.
LEMMA NotSettling ==
    ASSUME NEW v, local'[v].pc # "settle"
    PROVE  Settling(v)'
  BY DEF Settling

LEMMA LookUpSettles ==
    ASSUME IndInv, NEW w \in Workers, LookUp(w)
    PROVE  Settling(w)'
<1>1. local \in [Workers -> Ticks] /\ local[w] \in Ticks
  BY DEF IndInv, TicksInv
<1>2. PICK j, verdict :
        local' = [local EXCEPT ![w].pc = "settle", ![w].todo = @ \ {j}, ![w].job = j,
                               ![w].verdict = verdict, ![w].lost = {},
                               ![w].runs = RunsOf(active[w], j)]
  BY DEF LookUp
<1>3. /\ local'[w].runs = RunsOf(active[w], j) /\ local'[w].job = j /\ local'[w].lost = {}
  BY <1>1, <1>2 DEF Ticks
<1>4. active' = active
  BY DEF LookUp
<1>5. LetGo(w)' = {}
  BY <1>3, <1>4 DEF LetGo
<1> QED
  BY <1>3, <1>4, <1>5 DEF Settling

LEMMA SettleSettles ==
    ASSUME IndInv, Follows(catalog, catalog'), NEW w \in Workers, Settle(w)
    PROVE  Settling(w)'
<1> DEFINE old == local[w]
           new == local'[w]
<1>1. local \in [Workers -> Ticks] /\ old \in Ticks /\ old.pc = "settle" /\ old.verdict # "renew"
      /\ old.now \in Nat /\ old.verdict \in RunEnded /\ active' = active
  BY TickFacts DEF IndInv, TicksInv, Settle
<1>2. PICK r \in old.runs :
        /\ CanComplete(r)
        /\ catalog' = CompleteRun(catalog, r, old.verdict, old.now)
        /\ local' = [local EXCEPT ![w].runs = @ \ {r}]
  BY DEF Settle
<1>3. new.runs = old.runs \ {r} /\ new.verdict = old.verdict /\ new.job = old.job
  BY <1>1, <1>2 DEF Ticks
<1>4. Settling(w) /\ active[w] \subseteq (1 .. created) \X (1 .. catalog.last)
  BY DEF IndInv, SettleInv, Settling, WatchInv
<1>5. ~Held(catalog', w, r)
  <2>1. Sane(catalog) /\ Valid(catalog) /\ r \in DOMAIN catalog.runs
    BY <1>2 DEF IndInv, CatalogInv, CanComplete, Readable
  <2>2. r \in DOMAIN catalog'.runs => catalog'.runs[r].status # "claimed"
    BY <1>1, <1>2, <2>1, CompleteRunFacts
  <2> QED
    BY <2>2 DEF Held
<1>6. LetGo(w)' \subseteq LetGo(w) \cup {r}
  BY <1>1, <1>3 DEF LetGo
<1>7. r \in RunsOf(active[w], old.job) /\ new.runs \subseteq RunsOf(active[w], old.job)
  BY <1>1, <1>3, <1>4 DEF Settling
<1>8. \A q \in LetGo(w) : q <= catalog.last /\ ~Held(catalog, w, q)
  BY <1>1, <1>4 DEF Settling, RunsOf
<1>9. \A q \in LetGo(w)' : ~Held(catalog', w, q)
  BY <1>5, <1>6, <1>8, HeldBefore
<1>10. LetGo(w)' \subseteq RunsOf(active[w], old.job)
  BY <1>1, <1>4, <1>6, <1>7 DEF Settling
<1> QED
  BY <1>1, <1>3, <1>7, <1>9, <1>10 DEF Settling

LEMMA RenewSettles ==
    ASSUME IndInv, Follows(catalog, catalog'), NEW w \in Workers, Renew(w)
    PROVE  Settling(w)'
<1> DEFINE old == local[w]
           new == local'[w]
<1>1. local \in [Workers -> Ticks] /\ old \in Ticks /\ old.pc = "settle" /\ old.verdict = "renew"
      /\ active' = active
  BY TickFacts DEF IndInv, TicksInv, Renew
<1>2. PICK r \in old.runs :
        local' = [local EXCEPT ![w].runs = @ \ {r},
                               ![w].lost = IF Owns(catalog, r, w) THEN @ ELSE @ \cup {r}]
  BY DEF Renew
<1>3. /\ new.runs = old.runs \ {r} /\ new.verdict = old.verdict /\ new.job = old.job
      /\ new.lost = IF Owns(catalog, r, w) THEN old.lost ELSE old.lost \cup {r}
  BY <1>1, <1>2 DEF Ticks
<1>4. Settling(w) /\ active[w] \subseteq (1 .. created) \X (1 .. catalog.last)
  BY DEF IndInv, SettleInv, Settling, WatchInv
<1>5. ~Owns(catalog, r, w) => ~Held(catalog, w, r)
  BY DEF IndInv, CatalogInv, Sane, ClaimedActive, Held, Owns, OwnerOf
<1>6. r \in RunsOf(active[w], old.job) /\ new.runs \subseteq RunsOf(active[w], old.job)
  BY <1>1, <1>3, <1>4 DEF Settling
<1>7. \A q \in new.lost : q \in RunsOf(active[w], old.job) /\ ~Held(catalog, w, q)
  BY <1>1, <1>3, <1>4, <1>5, <1>6 DEF Settling, LetGo
<1>8. \A q \in new.lost : q <= catalog.last /\ ~Held(catalog, w, q)
  BY <1>4, <1>7 DEF RunsOf
<1>9. LetGo(w)' = new.lost
  BY <1>1, <1>3 DEF LetGo
<1>10. \A q \in LetGo(w)' : ~Held(catalog', w, q)
  BY <1>8, <1>9, HeldBefore
<1> QED
  BY <1>1, <1>3, <1>6, <1>7, <1>9, <1>10 DEF Settling

\* A tick moves its worker only.
LEMMA OthersWait ==
    ASSUME IndInv, NEW w \in Workers, Tick(w), NEW v \in Workers, v # w
    PROVE  local'[v] = local[v] /\ active'[v] = active[v]
<1>1. local \in [Workers -> Ticks] /\ active \in [Workers -> SUBSET (Nat \X Nat)]
  BY DEF IndInv, TicksInv, WatchInv
<1>2. CASE BeginTick(w) \/ Claim(w) \/ EndTick(w) \/ TickFails(w)
  BY <1>1, <1>2 DEF BeginTick, Claim, EndTick, TickFails
<1>3. CASE LookUp(w)
  BY <1>1, <1>3 DEF LookUp
<1>4. CASE Settle(w) \/ Renew(w)
  BY <1>1, <1>4 DEF Settle, Renew
<1>5. CASE DoneWithJob(w)
  BY <1>1, <1>5 DEF DoneWithJob
<1>6. CASE LaunchFails(w) \/ LaunchStarts(w)
  BY <1>1, <1>6 DEF LaunchFails, LaunchStarts
<1>7. CASE Attach(w) \/ AttachRefused(w) \/ GiveUp(w)
  BY <1>1, <1>7 DEF Attach, AttachRefused, GiveUp
<1> QED
  BY <1>2, <1>3, <1>4, <1>5, <1>6, <1>7 DEF Tick, Reconcile, Launch

LEMMA SettleStep ==
    ASSUME IndInv, [Next]_vars, Follows(catalog, catalog')
    PROVE  SettleInv'
<1> SUFFICES \A v \in Workers : Settling(v)'
  BY DEF SettleInv, Settling
<1>1. ASSUME UNCHANGED <<local, active>> PROVE \A v \in Workers : Settling(v)'
  BY <1>1, SettlingWaits
<1>2. CASE UNCHANGED vars
  BY <1>1, <1>2 DEF vars, workerVars
<1>3. ASSUME NEW w \in Workers, Tick(w) PROVE \A v \in Workers : Settling(v)'
  <2>1. ASSUME NEW v \in Workers, v # w PROVE Settling(v)'
    BY <1>3, <2>1, OthersWait, SettlingWaits
  <2>2. local \in [Workers -> Ticks] /\ local[w] \in Ticks
    BY DEF IndInv, TicksInv
  <2>3. CASE BeginTick(w) \/ DoneWithJob(w) \/ EndTick(w) \/ TickFails(w)
    <3>1. local'[w].pc # "settle"
      <4> DEFINE me(now, todo) == [Idle EXCEPT !.pc = "reconcile", !.now = now, !.todo = todo]
      <4>1. \A now, todo : me(now, todo).pc = "reconcile"
        BY DEF Idle
      <4>2. CASE BeginTick(w)
        <5>1. local'[w] = me(clock, JobsOf(active[w]))
          BY <2>2, <4>2 DEF BeginTick
        <5> QED
          BY <4>1, <5>1
      <4>3. CASE DoneWithJob(w)
        <5>1. local'[w] = me(local[w].now, local[w].todo)
          BY <2>2, <4>3 DEF DoneWithJob
        <5> QED
          BY <4>1, <5>1
      <4>4. CASE EndTick(w) \/ TickFails(w)
        BY <2>2, <4>4 DEF EndTick, TickFails, Idle
      <4> QED
        BY <2>3, <4>2, <4>3, <4>4
    <3> QED
      BY <2>1, <3>1, NotSettling
  <2>4. CASE LookUp(w)
    BY <2>1, <2>4, LookUpSettles
  <2>5. CASE Settle(w)
    BY <2>1, <2>5, SettleSettles
  <2>6. CASE Renew(w)
    BY <2>1, <2>6, RenewSettles
  <2>7. CASE Claim(w)
    <3>1. local'[w].pc # "settle"
      BY <2>2, <2>7 DEF Claim, Ticks
    <3> QED
      BY <2>1, <3>1, NotSettling
  <2>8. CASE Launch(w)
    <3>1. local'[w].pc # "settle"
      <4>1. CASE LaunchFails(w) \/ LaunchStarts(w)
        BY <2>2, <4>1 DEF LaunchFails, LaunchStarts, Ticks
      <4>2. CASE Attach(w) \/ AttachRefused(w) \/ GiveUp(w)
        BY <2>2, <4>2 DEF Attach, AttachRefused, GiveUp, Ticks
      <4> QED
        BY <2>8, <4>1, <4>2 DEF Launch
    <3> QED
      BY <2>1, <3>1, NotSettling
  <2> QED
    BY <1>3, <2>3, <2>4, <2>5, <2>6, <2>7, <2>8 DEF Tick, Reconcile
<1>4. CASE Restart
  <2>1. ASSUME NEW v \in Workers PROVE Settling(v)'
    <3>1. local'[v].pc # "settle"
      BY <1>4 DEF Restart, Idle
    <3> QED
      BY <3>1, NotSettling
  <2> QED
    BY <2>1
<1>5. CASE ReadRows \/ ReadRevision \/ SubmitCreate \/ SubmitState \/ SubmitWindow \/ ManualStart
           \/ ManualCancel \/ JobEnds \/ ClockTick \/ ClockSetBack
  BY <1>1, <1>5 DEF ReadRows, ReadRevision, SubmitCreate, SubmitState, SubmitWindow, Edited,
                    ManualStart, ManualCancel, JobEnds, ClockTick, ClockSetBack, workerVars
<1> QED
  BY <1>2, <1>3, <1>4, <1>5 DEF Next

---------------------------------------------------------------------------
(* What a step makes of the page.                                          *)

LEMMA PageStep ==
    ASSUME IndInv, [Next]_vars, Follows(catalog, catalog')
    PROVE  PageInv'
<1>1. PageInv /\ Rows = RowsOf(catalog) /\ Rows' = RowsOf(catalog')
  BY DEF IndInv, Rows, RowsOf
<1>2. /\ catalog.revision \in Int /\ catalog'.revision \in Int
      /\ catalog'.revision >= catalog.revision
      /\ catalog'.revision = catalog.revision => Rows' = Rows
      /\ DOMAIN catalog.schedules \subseteq DOMAIN catalog'.schedules
      /\ \A s \in DOMAIN catalog.schedules : catalog.schedules[s].enabled \in BOOLEAN
  BY <1>1 DEF IndInv, CatalogInv, Follows, Sane, IsCatalog, SoundSchedule, Schedule
<1>3. ASSUME page' = page, edits' = edits \/ edits' \subseteq edits \cup {"torn", "current"}
      PROVE  PageInv'
  <2>1. page.revision <= catalog'.revision
    BY <1>1, <1>2 DEF PageInv
  <2>2. page.revision = catalog'.revision => page.revision = catalog.revision /\ Rows' = Rows
    BY <1>1, <1>2, <2>1 DEF PageInv
  <2>3. "stale" \notin edits'
    BY <1>1, <1>3 DEF PageInv, EditsSeeTheCatalog
  <2> QED
    BY <1>1, <1>2, <1>3, <2>1, <2>2, <2>3 DEF PageInv, EditsSeeTheCatalog
<1>4. CASE UNCHANGED operatorVars
  BY <1>3, <1>4 DEF operatorVars
<1>5. CASE UNCHANGED vars
  BY <1>4, <1>5 DEF vars
<1>6. ASSUME NEW w \in Workers, Tick(w) PROVE PageInv'
  BY <1>4, <1>6 DEF Tick, Reconcile, Launch, BeginTick, LookUp, Settle, Renew, DoneWithJob, Claim,
                    LaunchFails, LaunchStarts, Attach, AttachRefused, GiveUp, EndTick, TickFails
<1>7. CASE ReadRows
  <2>1. /\ page' = [rows |-> Rows, revision |-> Unread, torn |-> FALSE]
        /\ catalog' = catalog /\ edits' = edits
    BY <1>7 DEF ReadRows, storeVars
  <2>2. Unread \in Int /\ Unread < catalog'.revision
    BY <2>1 DEF Unread, IndInv, CatalogInv, Sane, IsCatalog
  <2>3. DOMAIN Rows = DOMAIN catalog.schedules
        /\ \A s \in DOMAIN Rows : Rows[s].enabled \in BOOLEAN
    BY <1>2 DEF Rows
  <2> DEFINE rows == Rows
             no == FALSE
  <2>4. no \in BOOLEAN
    OBVIOUS
  <2> HIDE DEF rows, no
  <2>5. /\ page' = [rows |-> rows, revision |-> Unread, torn |-> no]
        /\ DOMAIN rows = DOMAIN catalog.schedules
        /\ \A s \in DOMAIN rows : rows[s].enabled \in BOOLEAN
    BY <2>1, <2>3 DEF rows, no
  <2>6. /\ page'.rows = rows /\ page'.revision = Unread /\ page'.torn = no
        /\ page' = [rows |-> page'.rows, revision |-> page'.revision, torn |-> page'.torn]
    BY <2>5
  <2>7. page'.revision <= catalog'.revision /\ page'.revision # catalog'.revision
    BY <1>2, <2>2, <2>6
  <2> QED
    BY <1>1, <2>1, <2>2, <2>4, <2>5, <2>6, <2>7 DEF PageInv, EditsSeeTheCatalog
<1>8. CASE ReadRevision
  <2> DEFINE revision == catalog.revision
             torn == page.rows # Rows
  <2>1. /\ page' = [page EXCEPT !.revision = revision, !.torn = torn]
        /\ catalog' = catalog /\ edits' = edits
    BY <1>8 DEF ReadRevision, storeVars
  <2>2. torn \in BOOLEAN /\ (~torn => page.rows = Rows) /\ revision = catalog'.revision
        /\ Rows' = Rows
    BY <1>2, <2>1
  <2>3. DOMAIN page = {"rows", "revision", "torn"}
    BY <1>1 DEF PageInv
  <2> HIDE DEF torn, revision
  <2>4. page'.rows = page.rows /\ page'.revision = revision /\ page'.torn = torn
    BY <2>1, <2>3
  <2>5. DOMAIN page' = DOMAIN page /\ page' = [x \in DOMAIN page' |-> page'[x]]
    BY <2>1
  <2>6. page' = [rows |-> page'.rows, revision |-> page'.revision, torn |-> page'.torn]
    BY <2>3, <2>5
  <2>7. page'.revision \in Int /\ page'.revision <= catalog'.revision
    BY <1>2, <2>2, <2>4
  <2> QED
    BY <1>1, <2>1, <2>2, <2>4, <2>6, <2>7 DEF PageInv, EditsSeeTheCatalog
<1>9. CASE SubmitCreate \/ SubmitState \/ SubmitWindow
  <2>1. PICK after : Edited(after)
    BY <1>9 DEF SubmitCreate, SubmitState, SubmitWindow
  <2>2. page' = page /\ page.revision = catalog.revision
    BY <2>1 DEF Edited, Accepted
  <2>3. page.torn \/ page.rows = Rows
    BY <1>1, <2>2 DEF PageInv
  <2>4. edits' \subseteq edits \cup {"torn", "current"}
    BY <2>1, <2>3 DEF Edited
  <2> QED
    BY <1>3, <2>2, <2>4
<1>10. CASE ManualStart \/ ManualCancel \/ JobEnds \/ ClockTick \/ ClockSetBack \/ Restart
  BY <1>4, <1>10 DEF ManualStart, ManualCancel, JobEnds, ClockTick, ClockSetBack, Restart
<1> QED
  BY <1>5, <1>6, <1>7, <1>8, <1>9, <1>10 DEF Next

---------------------------------------------------------------------------
(* The inductive invariant holds.                                          *)

LEMMA InitInv ==
    ASSUME Init
    PROVE  IndInv /\ Valid(catalog)
<1>1. PICK book \in Books :
        catalog = [EmptyCatalog EXCEPT
                     !.revision = Len(book),
                     !.schedules = [s \in DOMAIN book |-> NewSchedule(book[s])]]
  BY DEF Init
<1> DEFINE schedules == [s \in DOMAIN book |-> NewSchedule(book[s])]
<1>2. book \in Seq(Plans) /\ Len(book) \in Nat /\ DOMAIN book = 1 .. Len(book)
  BY WorkerAssumption
<1>3. \A s \in DOMAIN book : book[s] \in Plans
  BY <1>2
<1>4. /\ DOMAIN schedules = 1 .. Len(book)
      /\ \A s \in DOMAIN schedules : SoundSchedule(schedules[s]) /\ schedules[s].active = NoRun
  BY <1>2, <1>3, NewScheduleFacts
<1> HIDE DEF schedules
<1>5. catalog = [EmptyCatalog EXCEPT !.revision = Len(book), !.schedules = schedules]
  BY <1>1 DEF schedules
<1>6. DOMAIN catalog = {"revision", "schedules", "last", "runs"}
      /\ catalog = [x \in DOMAIN catalog |-> catalog[x]]
  BY <1>5 DEF EmptyCatalog
<1>7. /\ catalog.revision = Len(book) /\ catalog.schedules = schedules
      /\ catalog.last = 0 /\ catalog.runs = <<>>
  BY <1>5 DEF EmptyCatalog
<1>8. DOMAIN catalog.runs = {}
  BY <1>7
<1>9. IsCatalog(catalog)
  <2>1. catalog = [revision |-> catalog.revision, schedules |-> catalog.schedules,
                   last |-> catalog.last, runs |-> catalog.runs]
    BY <1>6, ShapeFacts
  <2> QED
    BY <1>2, <1>4, <1>7, <1>8, <2>1 DEF IsCatalog
<1>10. Sane(catalog)
  BY <1>4, <1>7, <1>8, <1>9 DEF Sane, ClaimedActive, NoRun
<1>11. Valid(catalog)
  BY <1>4, <1>7, <1>8 DEF Valid, SoundSchedule, LeaseWhole
<1>12. CatalogInv
  BY <1>8, <1>10 DEF CatalogInv
<1>13. known = <<>> /\ created = 0 /\ clock = 0
  BY DEF Init, Jobs!ServiceInit
<1>14. JobsInv
  BY <1>13 DEF JobsInv
<1>15. local = [w \in Workers |-> Idle] /\ active = [w \in Workers |-> {}]
  BY DEF Init
<1>16. TicksInv
  <2>1. Fit(Idle, created, catalog.last)
    BY IdleFits
  <2>2. Idle \in Ticks
    BY <2>1 DEF Fit
  <2>3. local \in [Workers -> Ticks] /\ \A w \in Workers : Fit(local[w], created, catalog.last)
    BY <1>15, <2>1, <2>2
  <2> QED
    BY <2>3, TicksFit
<1>17. WatchInv
  BY <1>8, <1>15 DEF WatchInv, AttachedIsWatched
<1>18. SettleInv
  BY <1>15 DEF SettleInv, Idle
<1>19. PageInv
  <2>1. page = NoPage /\ edits = {}
    BY DEF Init
  <2>2. DOMAIN page.rows = {} /\ page.revision = -2 /\ page.torn = FALSE
    BY <2>1 DEF NoPage
  <2>3. page = [rows |-> page.rows, revision |-> page.revision, torn |-> page.torn]
    BY <2>1 DEF NoPage
  <2>4. page.revision \in Int /\ page.revision < catalog.revision
    BY <1>2, <1>7, <2>2
  <2>5. page.revision <= catalog.revision /\ page.revision # catalog.revision
    BY <1>2, <1>7, <2>4
  <2>6. "stale" \notin edits
    BY <2>1
  <2> QED
    BY <2>2, <2>3, <2>4, <2>5, <2>6 DEF PageInv, EditsSeeTheCatalog
<1> QED
  BY <1>11, <1>12, <1>14, <1>16, <1>17, <1>18, <1>19 DEF IndInv

LEMMA StepInv ==
    ASSUME IndInv, [Next]_vars
    PROVE  IndInv'
<1>1. /\ Follows(catalog, catalog')
      /\ catalog' = catalog \/ (Valid(catalog) /\ Written(catalog, catalog', created))
      /\ JobsKept(catalog, catalog') \/ \E w \in Workers : Attach(w)
  BY CatalogStep
<1>2. JobsInv' /\ created' >= created
  BY JobsStep DEF IndInv, JobsStay
<1>3. Growing
  BY <1>1, <1>2 DEF Growing, IndInv, CatalogInv, JobsInv, Follows, Sane, IsCatalog
<1>4. CatalogInv'
  <2>1. \A r \in DOMAIN catalog'.runs : catalog'.runs[r].job <= created
    BY <1>1 DEF IndInv, CatalogInv, Written
  <2>2. \A r \in DOMAIN catalog'.runs : catalog'.runs[r].job \in Nat
    BY <1>1 DEF Follows, Sane, Run
  <2>3. \A r \in DOMAIN catalog'.runs : catalog'.runs[r].job <= created'
    BY <1>3, <2>1, <2>2 DEF Growing
  <2> QED
    BY <1>1, <2>3 DEF CatalogInv, Follows
<1>5. TicksInv'
  BY <1>2, <1>3, TicksStep
<1>6. WatchInv'
  BY <1>1, <1>3, <1>4, WatchStep
<1>7. SettleInv'
  BY <1>1, SettleStep
<1>8. PageInv'
  BY <1>1, PageStep
<1> QED
  BY <1>2, <1>4, <1>5, <1>6, <1>7, <1>8 DEF IndInv

LEMMA SpecIndInv == Spec => []IndInv
<1>1. Init => IndInv
  BY InitInv
<1>2. IndInv /\ [Next]_vars => IndInv'
  BY StepInv
<1> QED
  BY <1>1, <1>2, PTL DEF Spec

---------------------------------------------------------------------------
(* The theorems.                                                           *)

\* No late worker rewrites history: whoever completes a run after the lease
\* recovery did, the recorded result stays, and a catalog that stopped reading
\* back is not overwritten.
THEOREM SpecHistoryKept == Spec => HistoryKept
<1>1. ASSUME IndInv, [Next]_vars
      PROVE  /\ [\A r \in DOMAIN catalog.runs \cap DOMAIN catalog'.runs :
                   catalog.runs[r].status \in RunEnded => catalog'.runs[r] = catalog.runs[r]]_vars
             /\ [~Valid(catalog) => UNCHANGED catalog]_vars
  <2>1. /\ Follows(catalog, catalog')
        /\ catalog' = catalog \/ (Valid(catalog) /\ Written(catalog, catalog', created))
    BY <1>1, CatalogStep
  <2>2. \A r \in DOMAIN catalog.runs : r <= catalog.last
    BY <1>1 DEF IndInv, CatalogInv, Sane, IsCatalog
  <2>3. \A r \in DOMAIN catalog.runs \cap DOMAIN catalog'.runs :
          catalog.runs[r].status \in RunEnded => catalog'.runs[r] = catalog.runs[r]
    BY <2>1, <2>2 DEF Follows
  <2> QED
    BY <2>1, <2>3
<1>2. IndInv /\ [Next]_vars =>
        /\ [\A r \in DOMAIN catalog.runs \cap DOMAIN catalog'.runs :
              catalog.runs[r].status \in RunEnded => catalog'.runs[r] = catalog.runs[r]]_vars
        /\ [~Valid(catalog) => UNCHANGED catalog]_vars
  BY <1>1
<1> QED
  BY <1>2, SpecIndInv, PTL DEF Spec, HistoryKept, ResultsAreFinal, UnreadableIsKept

\* However many workers, pages and forms interleave, an edit the page's
\* revision check lets through was made on the schedules as they are, unless
\* its page was torn.
THEOREM SpecEditsSeeTheCatalog == Spec => []EditsSeeTheCatalog
  BY SpecIndInv, PTL DEF IndInv, PageInv

\* Retries, late completions, lost leases and clock corrections do not shift
\* the phase of an interval schedule.
THEOREM SpecCadenceKept == Spec => []CadenceKept
<1>1. IndInv => CadenceKept
  BY DEF IndInv, CatalogInv, Sane, SoundSchedule, InPhase, CadenceKept
<1> QED
  BY <1>1, SpecIndInv, PTL

\* A run that is still claimed is the active run of its schedule, whichever
\* worker completes, loses or takes over what, so that its lease is renewed or
\* runs out.
THEOREM SpecClaimedIsActive == Spec => []ClaimedIsActive
<1>1. IndInv => ClaimedIsActive
  BY DEF IndInv, CatalogInv, Sane, ClaimedActive, ClaimedIsActive
<1> QED
  BY <1>1, SpecIndInv, PTL

LEMMA SoundFacts ==
    ASSUME IndInv, Valid(catalog)
    PROVE  CatalogSound
<1>1. /\ Sane(catalog) /\ created \in Nat
      /\ \A r \in DOMAIN catalog.runs : catalog.runs[r].job <= created
  BY DEF IndInv, CatalogInv, JobsInv
<1>2. /\ catalog.revision \in Nat /\ catalog.last \in Nat
      /\ DOMAIN catalog.runs \subseteq 1 .. catalog.last
  BY <1>1 DEF Sane, IsCatalog
<1>3. ASSUME NEW s \in DOMAIN catalog.schedules
      PROVE  LET schedule == catalog.schedules[s]
             IN  /\ schedule.next \in Nat /\ schedule.enabled \in BOOLEAN
                 /\ schedule.attempt \in 1..(schedule.plan.retries + 1)
                 /\ schedule.origin \in Nat \cup {NoTime}
                 /\ schedule.until \in Nat \cup {NoTime}
                 /\ schedule.owner \in Workers \cup {Nobody}
                 /\ schedule.active \in 0..catalog.last
  <2> DEFINE schedule == catalog.schedules[s]
  <2>1. /\ schedule \in Schedule /\ schedule.attempt <= schedule.plan.retries + 1
        /\ schedule.active <= catalog.last
    BY <1>1 DEF Sane, SoundSchedule
  <2> HIDE DEF schedule
  <2>2. /\ schedule.next \in Nat /\ schedule.enabled \in BOOLEAN
        /\ schedule.attempt \in Nat \ {0} /\ schedule.plan.retries \in Nat
        /\ schedule.origin \in Nat \cup {NoTime}
        /\ schedule.until \in Nat \cup {NoTime}
        /\ schedule.owner \in Workers \cup {Nobody}
        /\ schedule.active \in Nat
    BY <2>1 DEF Schedule, Plans
  <2> QED
    BY <1>2, <2>1, <2>2 DEF schedule
<1>4. ASSUME NEW r \in DOMAIN catalog.runs
      PROVE  LET run == catalog.runs[r]
             IN  /\ run.schedule \in DOMAIN catalog.schedules
                 /\ run.due \in Nat /\ run.attempt \in Nat \ {0}
                 /\ run.status \in RunEnded \cup {"claimed"}
                 /\ run.job \in 0..created
  <2>1. catalog.runs[r] \in Run /\ catalog.runs[r].schedule \in DOMAIN catalog.schedules
    BY <1>1 DEF Sane
  <2> QED
    BY <1>1, <2>1 DEF Run
<1>5. ASSUME NEW w \in Workers
      PROVE  /\ active[w] \subseteq (1..created) \X (1..catalog.last)
             /\ local[w].pc \in {"idle", "reconcile", "settle", "launch", "attach", "giveup"}
             /\ local[w].pc \in {"attach", "giveup"} => local[w].claims # {}
  BY DEF IndInv, WatchInv, TicksInv, TickOK, Ticks
<1>6. TypeOK
  BY <1>2, <1>3, <1>4, <1>5 DEF TypeOK
<1> QED
  BY <1>6 DEF CatalogSound, CatalogValid, IndInv, WatchInv

\* Whatever a tick was interrupted by, the catalog a method wrote is accepted
\* by the next read, and every claimed run that is linked to a job is watched
\* by the worker that holds its lease, as long as the cut to the newest
\* RunsKept runs (runs[-1000:] in claim_due) never drops a run that is
\* still active.
THEOREM SpecCatalogSound == Spec /\ []InWindow(catalog) => []CatalogSound
<1>1. Init => IndInv /\ Valid(catalog)
  BY InitInv
<1>2. IndInv /\ Valid(catalog) /\ InWindow(catalog)' /\ [Next]_vars => IndInv' /\ Valid(catalog)'
  <2> SUFFICES ASSUME IndInv, Valid(catalog), InWindow(catalog'), [Next]_vars
               PROVE  IndInv' /\ Valid(catalog')
    OBVIOUS
  <2>1. catalog' = catalog \/ (Valid(catalog) /\ Written(catalog, catalog', created))
    BY CatalogStep
  <2>2. Valid(catalog')
    BY <2>1 DEF Written
  <2> QED
    BY <2>2, StepInv
<1>3. IndInv /\ Valid(catalog) => CatalogSound
  BY SoundFacts
<1> QED
  BY <1>1, <1>2, <1>3, PTL DEF Spec

\* The run of a claim is in the catalog.
Recorded(c, claim) ==
    /\ claim.run \in DOMAIN c.runs
    /\ c.runs[claim.run].schedule = claim.schedule
    /\ c.runs[claim.run].due = claim.due

LaunchInv ==
    /\ \A claim \in launched : Recorded(catalog, claim)
    /\ \A w \in Workers : \A claim \in local[w].claims : Recorded(catalog, claim)

\* A claim stays recorded when no run is dropped.
LEMMA RecordedLater ==
    ASSUME NEW c, NEW d, Sane(c), Follows(c, d), Uncut(c, d), NEW claim, Recorded(c, claim)
    PROVE  Recorded(d, claim)
<1>1. claim.run \in DOMAIN d.runs /\ claim.run <= c.last
  BY DEF Uncut, Recorded, Sane, IsCatalog
<1> QED
  BY <1>1 DEF Follows, Recorded

LEMMA LaunchStep ==
    ASSUME IndInv, Valid(catalog), LaunchInv, [Next]_vars, catalog'.last <= RunsKept
    PROVE  LaunchInv'
<1>1. /\ Sane(catalog) /\ Follows(catalog, catalog') /\ Uncut(catalog, catalog')
  <2>1. /\ Follows(catalog, catalog')
        /\ catalog' = catalog \/ (Valid(catalog) /\ Written(catalog, catalog', created))
    BY CatalogStep
  <2> QED
    BY <2>1 DEF Written, Uncut, IndInv, CatalogInv
<1>2. \A claim : Recorded(catalog, claim) => Recorded(catalog', claim)
  BY <1>1, RecordedLater
<1>3. local \in [Workers -> Ticks]
  BY DEF IndInv, TicksInv
<1>4. ASSUME UNCHANGED <<local, launched>> PROVE LaunchInv'
  BY <1>2, <1>4 DEF LaunchInv
<1>5. ASSUME NEW w \in Workers, launched' = launched,
             \A v \in Workers : v # w => local'[v] = local[v],
             local'[w].claims \subseteq local[w].claims
      PROVE  LaunchInv'
  BY <1>2, <1>5 DEF LaunchInv
<1>6. CASE UNCHANGED vars
  BY <1>4, <1>6 DEF vars, workerVars
<1>7. ASSUME NEW w \in Workers, Tick(w) PROVE LaunchInv'
  <2>1. \A v \in Workers : v # w => local'[v] = local[v]
    BY <1>7, OthersWait
  <2>2. CASE BeginTick(w) \/ DoneWithJob(w)
    <3>3. local'[w].claims \subseteq local[w].claims
      <4>1. CASE BeginTick(w)
        BY <1>3, <4>1 DEF BeginTick, Idle
      <4>2. CASE DoneWithJob(w)
        BY <1>3, <4>2 DEF DoneWithJob, Idle
      <4> QED
        BY <2>2, <4>1, <4>2
    <3>4. launched' = launched
      BY <2>2 DEF BeginTick, DoneWithJob
    <3> QED
      BY <1>5, <2>1, <3>3, <3>4
  <2>3. CASE EndTick(w) \/ TickFails(w)
    <3>1. local'[w].claims = {} /\ launched' = launched
      BY <1>3, <2>3 DEF EndTick, TickFails, Idle
    <3> QED
      BY <1>5, <2>1, <3>1
  <2>4. CASE LookUp(w) \/ Settle(w) \/ Renew(w)
    <3>1. launched' = launched
      BY <2>4 DEF LookUp, Settle, Renew
    <3>2. local'[w].claims = local[w].claims
      <4>1. CASE LookUp(w)
        BY <1>3, <4>1 DEF LookUp, Ticks
      <4>2. CASE Settle(w)
        BY <1>3, <4>2 DEF Settle, Ticks
      <4>3. CASE Renew(w)
        BY <1>3, <4>3 DEF Renew, Ticks
      <4> QED
        BY <2>4, <4>1, <4>2, <4>3
    <3> QED
      BY <1>5, <2>1, <3>1, <3>2
  <2>5. CASE LaunchFails(w) \/ Attach(w) \/ AttachRefused(w) \/ GiveUp(w)
    <3>1. launched' = launched
      BY <2>5 DEF LaunchFails, Attach, AttachRefused, GiveUp
    <3>2. local'[w].claims \subseteq local[w].claims
      <4>1. CASE LaunchFails(w)
        BY <1>3, <4>1 DEF LaunchFails, Ticks
      <4>2. CASE Attach(w)
        BY <1>3, <4>2 DEF Attach, Ticks
      <4>3. CASE AttachRefused(w)
        BY <1>3, <4>3 DEF AttachRefused, Ticks
      <4>4. CASE GiveUp(w)
        BY <1>3, <4>4 DEF GiveUp, Ticks
      <4> QED
        BY <2>5, <4>1, <4>2, <4>3, <4>4
    <3> QED
      BY <1>5, <2>1, <3>1, <3>2
  <2>6. CASE LaunchStarts(w)
    <3>1. launched' = launched \cup {NextClaim(local[w].claims)} /\ local[w].claims # {}
      BY <2>6 DEF LaunchStarts
    <3>2. NextClaim(local[w].claims) \in local[w].claims
      BY <3>1, TickFacts
    <3>3. local'[w].claims = local[w].claims
      BY <1>3, <2>6 DEF LaunchStarts, Ticks
    <3> QED
      BY <1>2, <2>1, <3>1, <3>2, <3>3 DEF LaunchInv
  <2>7. CASE Claim(w)
    <3> DEFINE now == local[w].now
               claims == {[run |-> ClaimedRun(catalog, s, now), schedule |-> s,
                           due |-> catalog.schedules[s].next,
                           origin |-> Origin(catalog.schedules[s])] :
                            s \in Claimers(catalog, now)}
    <3>1. launched' = launched /\ local'[w].claims = claims
      BY <1>3, <2>7 DEF Claim, Ticks
    <3>2. now \in Nat /\ catalog' = ClaimDue(catalog, w, now)
      BY <2>7, TickFacts DEF Claim
    <3>3. \A claim \in claims : Recorded(catalog', claim)
      <4>1. \A s \in Claimers(catalog, now) :
              LET r == ClaimedRun(catalog, s, now)
              IN  /\ r \in DOMAIN catalog'.runs
                  /\ catalog'.runs[r].schedule = s
                  /\ catalog'.runs[r].due = catalog.schedules[s].next
        <5> HIDE DEF now
        <5> QED
          BY <1>1, <3>2, ClaimedRuns
      <4> QED
        BY <4>1 DEF Recorded
    <3> HIDE DEF claims
    <3> QED
      BY <1>2, <2>1, <3>1, <3>3 DEF LaunchInv
  <2> QED
    BY <1>7, <2>2, <2>3, <2>4, <2>5, <2>6, <2>7 DEF Tick, Reconcile, Launch
<1>8. CASE Restart
  <2>1. launched' = launched /\ \A v \in Workers : local'[v].claims = {}
    BY <1>8 DEF Restart, Idle
  <2> QED
    BY <1>2, <2>1 DEF LaunchInv
<1>9. CASE ReadRows \/ ReadRevision \/ SubmitCreate \/ SubmitState \/ SubmitWindow \/ ManualStart
           \/ ManualCancel \/ JobEnds \/ ClockTick \/ ClockSetBack
  BY <1>4, <1>9 DEF ReadRows, ReadRevision, SubmitCreate, SubmitState, SubmitWindow, Edited,
                    ManualStart, ManualCancel, JobEnds, ClockTick, ClockSetBack, workerVars
<1> QED
  BY <1>6, <1>7, <1>8, <1>9 DEF Next

\* No due occurrence of a schedule is launched twice, whatever restarts, edits
\* and clock corrections come in between, as long as no run was cut from the
\* history that claim_due looks for duplicates in.
THEOREM SpecNeverLaunchedTwice ==
    Spec /\ [](catalog.last <= RunsKept) => []NeverLaunchedTwice
<1>1. Init => IndInv /\ Valid(catalog) /\ LaunchInv
  <2>1. ASSUME Init PROVE LaunchInv
    <3>1. launched = {} /\ local = [w \in Workers |-> Idle]
      BY <2>1 DEF Init
    <3>2. Idle.claims = {}
      BY DEF Idle
    <3> QED
      BY <3>1, <3>2 DEF LaunchInv
  <2> QED
    BY <2>1, InitInv
<1>2. IndInv /\ Valid(catalog) /\ LaunchInv /\ (catalog.last <= RunsKept)' /\ [Next]_vars
        => IndInv' /\ Valid(catalog)' /\ LaunchInv'
  <2> SUFFICES ASSUME IndInv, Valid(catalog), LaunchInv, catalog'.last <= RunsKept, [Next]_vars
               PROVE  IndInv' /\ Valid(catalog') /\ LaunchInv'
    OBVIOUS
  <2>1. catalog' = catalog \/ (Valid(catalog) /\ Written(catalog, catalog', created))
    BY CatalogStep
  <2>2. Follows(catalog, catalog')
    BY CatalogStep
  <2>3. InWindow(catalog')
    <3>1. catalog'.last \in Nat /\ RunsKept \in Nat
      BY <2>2, StoreAssumption DEF Follows, Sane, IsCatalog
    <3>2. \A s \in DOMAIN catalog'.schedules : catalog'.schedules[s].active \in Nat
      BY <2>2 DEF Follows, Sane, SoundSchedule, Schedule
    <3> QED
      BY <3>1, <3>2 DEF InWindow, NoRun
  <2>4. Valid(catalog')
    BY <2>1, <2>3 DEF Written
  <2> QED
    BY <2>4, StepInv, LaunchStep
<1>3. Valid(catalog) /\ LaunchInv => NeverLaunchedTwice
  BY DEF Valid, LaunchInv, Recorded, NeverLaunchedTwice
<1> QED
  BY <1>1, <1>2, <1>3, PTL DEF Spec

---------------------------------------------------------------------------
(* Retries, under a clock that goes forward.                               *)

\* A set is finite and has no more than so many elements.
AtMost(S, n) == IsFiniteSet(S) /\ Cardinality(S) <= n

\* The claims made so far of one occurrence of the recurrence.
Tried(claims, s, origin) == {x \in claims : x.schedule = s /\ x.origin = origin}

\* Where the retries of a schedule are: its occurrence comes after the one it
\* retries and after everything it ran, its lease runs out later than it is due,
\* and it is at the attempt that follows those that were claimed, which the
\* run that carries its next occurrence's key is one of.
ChainAt(c, claims, s) ==
    LET schedule == c.schedules[s]
        tried == Tried(claims, s, Origin(schedule))
    IN  /\ schedule.origin = NoTime => schedule.attempt = 1
        /\ schedule.origin # NoTime => schedule.origin < schedule.next
        /\ \A r \in DOMAIN c.runs : c.runs[r].schedule = s => c.runs[r].due <= schedule.next
        /\ schedule.active # NoRun =>
             c.runs[schedule.active].due = schedule.next /\ schedule.next < schedule.until
        /\ \A r \in Duplicates(c, s) : AtMost(tried, c.runs[r].attempt)
        /\ Duplicates(c, s) = {} => AtMost(tried, schedule.attempt - 1)

\* No claim is of a later occurrence than its schedule's, and none of the
\* occurrences was claimed more often than the plan allows.
Within(c, claims) ==
    /\ claims \subseteq Claims
    /\ \A x \in claims :
         LET schedule == c.schedules[x.schedule]
         IN  /\ x.schedule \in DOMAIN c.schedules
             /\ x.origin <= Origin(schedule)
             /\ AtMost(Tried(claims, x.schedule, x.origin), schedule.plan.retries + 1)

\* What may become of a schedule in a call that does not claim it: it keeps its
\* place, it is put to rest at an occurrence that is not earlier, or the attempt
\* that carries its next occurrence's key is retried.
Kept(old, new) ==
    /\ new.plan = old.plan /\ new.next = old.next /\ new.origin = old.origin
    /\ new.attempt = old.attempt
    /\ new.active # NoRun =>
         new.active = old.active /\ (new.until = old.until \/ old.next < new.until)

\* The schedule waits for an occurrence that is not earlier, as a first attempt.
Rests(old, new) ==
    /\ new.plan = old.plan /\ new.active = NoRun
    /\ new.origin = NoTime /\ new.attempt = 1 /\ new.next >= old.next

\* The schedule waits for the retry of the attempt it is at.
Retried(old, new, attempt) ==
    /\ new.plan = old.plan /\ new.active = NoRun
    /\ new.origin = Origin(old) /\ new.attempt = attempt + 1 /\ new.next > old.next

\* The three ways a schedule goes on.
Progress(c, s, new) ==
    \/ Kept(c.schedules[s], new)
    \/ Rests(c.schedules[s], new)
    \/ \E r \in Duplicates(c, s) : Retried(c.schedules[s], new, c.runs[r].attempt)

\* The runs are those there were.
RunsPersist(c, d) ==
    \A r \in DOMAIN d.runs :
      /\ r \in DOMAIN c.runs
      /\ d.runs[r].schedule = c.runs[r].schedule /\ d.runs[r].due = c.runs[r].due
      /\ d.runs[r].attempt = c.runs[r].attempt

\* What a call that claims nothing makes of a catalog.
Moved(c, d) ==
    /\ DOMAIN c.schedules \subseteq DOMAIN d.schedules
    /\ \A s \in DOMAIN c.schedules : Progress(c, s, d.schedules[s])
    /\ \A s \in DOMAIN d.schedules \ DOMAIN c.schedules :
         /\ d.schedules[s].origin = NoTime /\ d.schedules[s].attempt = 1
         /\ d.schedules[s].active = NoRun
    /\ RunsPersist(c, d)

\* Cutting the history does not drop a run that carries the key of its
\* schedule's next occurrence: claim_due still finds the duplicate.
Remembers(c, d) ==
    \A s \in DOMAIN c.schedules :
      Duplicates(c, s) # {} /\ d.schedules[s].next = c.schedules[s].next => Duplicates(d, s) # {}

\* An empty set is within any bound.
LEMMA AtMostNone == ASSUME NEW S, S = {}, NEW n \in Nat PROVE AtMost(S, n)
  BY FS_EmptySet DEF AtMost

\* A smaller set is within the bound too, and within a larger one.
LEMMA AtMostFewer ==
    ASSUME NEW S, NEW T, T \subseteq S, NEW n \in Nat, AtMost(S, n), NEW m \in Nat, n <= m
    PROVE  AtMost(T, m)
<1>1. IsFiniteSet(T) /\ Cardinality(T) <= Cardinality(S)
  BY FS_Subset DEF AtMost
<1>2. Cardinality(T) \in Nat /\ Cardinality(S) \in Nat
  BY <1>1, FS_CardinalityType DEF AtMost
<1> QED
  BY <1>1, <1>2 DEF AtMost

\* One element more takes the bound up by one.
LEMMA AtMostMore ==
    ASSUME NEW S, NEW x, NEW T, T \subseteq S \cup {x}, NEW n \in Nat, AtMost(S, n)
    PROVE  AtMost(T, n + 1)
<1>1. /\ IsFiniteSet(S \cup {x}) /\ Cardinality(S) \in Nat
      /\ Cardinality(S \cup {x}) = Cardinality(S) \/ Cardinality(S \cup {x}) = Cardinality(S) + 1
  BY FS_AddElement, FS_CardinalityType DEF AtMost
<1>2. AtMost(S \cup {x}, n + 1)
  BY <1>1 DEF AtMost
<1>3. n + 1 \in Nat
  OBVIOUS
<1> QED
  BY <1>2, <1>3, AtMostFewer

\* The next occurrence of an interval comes after the moment.
LEMMA NextIntervalLater ==
    ASSUME NEW from \in Nat, NEW interval \in Nat \ {0}, NEW moment \in Nat
    PROVE  NextInterval(from, interval, moment) > moment
<1>1. CASE from > moment
  BY <1>1 DEF NextInterval
<1>2. CASE ~(from > moment)
  <2> DEFINE a == moment - from
             k == a \div interval
  <2>1. a \in Nat
    BY <1>2
  <2>2. NextInterval(from, interval, moment) = from + interval * (k + 1)
    BY <1>2 DEF NextInterval
  <2>3. moment = from + a
    BY <2>1
  <2> HIDE DEF a
  <2>4. k \in Nat /\ a < interval * (k + 1)
    <3>1. k \in Nat /\ a = interval * k + (a % interval) /\ a % interval < interval
      BY <2>1
    <3>2. a % interval \in Nat
      BY <2>1
    <3>3. interval * (k + 1) = interval * k + interval /\ interval * k \in Nat
      BY <3>1
    <3> HIDE DEF k
    <3> QED
      BY <2>1, <3>1, <3>2, <3>3
  <2>5. interval * (k + 1) \in Nat
    BY <2>4
  <2> HIDE DEF k
  <2> QED
    BY <2>1, <2>2, <2>3, <2>4, <2>5
<1> QED
  BY <1>1, <1>2

\* So does the next day's.
LEMMA NextDailyLater ==
    ASSUME NEW time \in Nat, NEW moment \in Nat
    PROVE  NextDaily(time, moment) > moment
<1> DEFINE start == (moment \div Day) * Day
<1>1. Day \in Nat \ {0}
  BY StoreAssumption
<1>2. start \in Nat /\ moment < start + Day
  BY <1>1
<1>3. NextDaily(time, moment)
        = IF start + time <= moment THEN start + time + Day ELSE start + time
  BY DEF NextDaily
<1> HIDE DEF start
<1> QED
  BY <1>1, <1>2, <1>3

\* _advance rests the schedule at an occurrence that is not earlier.
LEMMA AdvanceRests ==
    ASSUME NEW old \in Schedule, NEW moment \in Nat, Origin(old) <= old.next, old.next <= moment
    PROVE  Rests(old, Advance(old, moment))
<1> DEFINE next == NextOccurrence(old, moment)
           enabled == Released(old).enabled /\ old.plan.recurrence # "once"
           new == Advance(old, moment)
<1>1. /\ old.plan.recurrence \in {"once", "interval", "daily"}
      /\ old.plan.interval \in Nat \ {0} /\ old.plan.daily \in Nat
      /\ old.next \in Nat /\ Origin(old) \in Nat
  BY OriginFacts DEF Schedule, Plans
<1>2. next >= old.next
  <2>1. CASE old.plan.recurrence = "once"
    <3>1. next = old.next
      BY <2>1 DEF NextOccurrence
    <3> HIDE DEF next
    <3> QED
      BY <1>1, <3>1
  <2>2. CASE old.plan.recurrence = "interval"
    <3> DEFINE later == NextInterval(Origin(old), old.plan.interval, moment)
    <3>1. next = later
      BY <2>2 DEF NextOccurrence
    <3>2. later > moment
      BY <1>1, NextIntervalLater
    <3>3. later \in Int
      BY <1>1 DEF NextInterval
    <3> HIDE DEF next, later
    <3> QED
      BY <1>1, <3>1, <3>2, <3>3
  <2>3. CASE old.plan.recurrence = "daily"
    <3> DEFINE later == NextDaily(old.plan.daily, moment)
    <3>1. next = later
      BY <2>3 DEF NextOccurrence
    <3>2. later > moment
      BY <1>1, NextDailyLater
    <3>3. later \in Int
      BY <1>1, StoreAssumption DEF NextDaily
    <3> HIDE DEF next, later
    <3> QED
      BY <1>1, <3>1, <3>2, <3>3
  <2> QED
    BY <1>1, <2>1, <2>2, <2>3
<1>3. new = [Released(old) EXCEPT !.next = next, !.enabled = enabled, !.attempt = 1,
                                  !.origin = NoTime]
  BY DEF Advance
<1> DEFINE released == Released(old)
<1>4. released \in Schedule /\ released.plan = old.plan /\ released.active = NoRun
  BY DEF Released, Schedule, NoRun
<1> HIDE DEF next, enabled, new, released
<1>5. /\ new.plan = old.plan /\ new.active = NoRun /\ new.next = next
      /\ new.origin = NoTime /\ new.attempt = 1
  BY <1>3, <1>4 DEF Schedule, released
<1> QED
  BY <1>2, <1>5 DEF Rests, new

\* _after_terminal does so, or retries the attempt.
LEMMA AfterTerminalProgress ==
    ASSUME NEW old \in Schedule, NEW moment \in Nat, Origin(old) <= old.next, old.next <= moment,
           NEW attempt \in Nat \ {0}, NEW status
    PROVE  LET new == AfterTerminal(old, attempt, status, moment)
           IN  Rests(old, new) \/ Retried(old, new, attempt)
<1> DEFINE new == AfterTerminal(old, attempt, status, moment)
<1>1. CASE status = "failed" /\ attempt <= old.plan.retries
  <2> DEFINE released == Released(old)
             next == moment + old.plan.delay
             tried == attempt + 1
             origin == Origin(old)
  <2>1. new = [released EXCEPT !.next = next, !.enabled = TRUE, !.attempt = tried,
                               !.origin = origin]
    BY <1>1 DEF AfterTerminal
  <2>2. released \in Schedule /\ released.plan = old.plan /\ released.active = NoRun
    BY DEF Released, Schedule, NoRun
  <2>3. old.plan.delay \in Nat \ {0} /\ old.next \in Nat
    BY DEF Schedule, Plans
  <2>4. next > old.next
    BY <2>3
  <2> HIDE DEF new, released, next, tried, origin
  <2>5. /\ new.plan = old.plan /\ new.active = NoRun /\ new.next = next
        /\ new.origin = origin /\ new.attempt = tried
    BY <2>1, <2>2 DEF Schedule
  <2> QED
    BY <2>4, <2>5 DEF Retried, new, tried, origin
<1>2. CASE ~(status = "failed" /\ attempt <= old.plan.retries)
  BY <1>2, AdvanceRests DEF AfterTerminal
<1> QED
  BY <1>1, <1>2

\* The occurrence a schedule retries is not later than its next one.
LEMMA OriginBefore ==
    ASSUME NEW c, Sane(c), NEW claims, NEW s \in DOMAIN c.schedules, ChainAt(c, claims, s)
    PROVE  LET schedule == c.schedules[s]
           IN  /\ schedule \in Schedule
               /\ Origin(schedule) \in Nat /\ schedule.next \in Nat
               /\ Origin(schedule) <= schedule.next
<1> DEFINE schedule == c.schedules[s]
<1>1. /\ schedule \in Schedule
      /\ schedule.origin # NoTime => schedule.origin < schedule.next
  BY DEF Sane, SoundSchedule, ChainAt
<1> HIDE DEF schedule
<1>2. schedule.next \in Nat /\ schedule.origin \in Nat \cup {NoTime}
  BY <1>1 DEF Schedule
<1> QED
  BY <1>1, <1>2, OriginFacts DEF Origin, schedule

\* A schedule that makes progress retries or moves on to a later occurrence.
LEMMA OriginAfter ==
    ASSUME NEW old \in Schedule, NEW new \in Schedule, Origin(old) <= old.next,
           NEW attempt \in Nat,
           Kept(old, new) \/ Rests(old, new) \/ Retried(old, new, attempt)
    PROVE  /\ Origin(new) \in Nat /\ Origin(old) <= Origin(new)
           /\ new.plan = old.plan
           /\ new.next >= old.next
<1>1. /\ old.next \in Nat /\ new.next \in Nat
      /\ Origin(old) \in Nat /\ Origin(new) \in Nat
      /\ old.origin \in Nat \cup {NoTime}
  BY OriginFacts DEF Schedule
<1>2. CASE Kept(old, new)
  BY <1>1, <1>2 DEF Kept, Origin
<1>3. CASE Rests(old, new)
  <2>1. Origin(new) = new.next
    BY <1>3 DEF Rests, Origin
  <2> QED
    BY <1>1, <1>3, <2>1 DEF Rests
<1>4. CASE Retried(old, new, attempt)
  <2>1. new.origin = Origin(old) /\ new.origin # NoTime
    BY <1>1, <1>4 DEF Retried, NoTime
  <2>2. Origin(new) = Origin(old)
    BY <2>1 DEF Origin
  <2> QED
    BY <1>1, <1>4, <2>2 DEF Retried
<1> QED
  BY <1>2, <1>3, <1>4

\* The runs that carry the key of an occurrence nothing changed are the same.
LEMMA DuplicatesPersist ==
    ASSUME NEW c, NEW d, NEW s, d.schedules[s].next = c.schedules[s].next,
           \A r \in DOMAIN d.runs : d.runs[r].schedule = s =>
             /\ r \in DOMAIN c.runs
             /\ c.runs[r].schedule = s /\ d.runs[r].due = c.runs[r].due
    PROVE  Duplicates(d, s) \subseteq Duplicates(c, s)
  BY DEF Duplicates

\* A schedule that makes progress has its retries where they belong.
LEMMA ChainMoves ==
    ASSUME NEW c, Sane(c), NEW d, Sane(d), Valid(d), NEW claims \in SUBSET Claims,
           NEW fewer \in SUBSET claims,
           NEW s \in DOMAIN c.schedules, s \in DOMAIN d.schedules,
           ChainAt(c, claims, s), Progress(c, s, d.schedules[s]),
           \A x \in claims : x.schedule = s => x.origin <= Origin(c.schedules[s]),
           \A r \in DOMAIN d.runs : d.runs[r].schedule = s =>
             /\ r \in DOMAIN c.runs /\ c.runs[r].schedule = s
             /\ d.runs[r].due = c.runs[r].due /\ d.runs[r].attempt = c.runs[r].attempt,
           Duplicates(c, s) # {} /\ d.schedules[s].next = c.schedules[s].next =>
             Duplicates(d, s) # {}
    PROVE  ChainAt(d, fewer, s)
<1> DEFINE old == c.schedules[s]
           new == d.schedules[s]
           tried == Tried(claims, s, Origin(old))
           still == Tried(fewer, s, Origin(new))
<1>1. /\ old \in Schedule /\ Origin(old) \in Nat /\ old.next \in Nat
      /\ Origin(old) <= old.next
  BY OriginBefore
<1>2. new \in Schedule
  BY DEF Sane, SoundSchedule
<1>3. /\ new.next \in Nat /\ new.attempt \in Nat \ {0} /\ old.attempt \in Nat \ {0}
      /\ old.origin \in Nat \cup {NoTime}
  BY <1>1, <1>2 DEF Schedule
<1>4. \A r \in DOMAIN c.runs : c.runs[r].attempt \in Nat \ {0} /\ c.runs[r].due \in Nat
  BY DEF Sane, Run
<1>5. \A r \in Duplicates(c, s) : r \in DOMAIN c.runs /\ c.runs[r].attempt \in Nat
  BY <1>4 DEF Duplicates
<1>6. PICK attempt \in Nat : \/ Kept(old, new) \/ Rests(old, new)
                             \/ Retried(old, new, attempt) /\ \E r \in Duplicates(c, s) : c.runs[r].attempt = attempt
  BY <1>5 DEF Progress
<1>7. Origin(new) \in Nat /\ Origin(old) <= Origin(new) /\ new.next >= old.next
  <2> HIDE DEF old, new
  <2> QED
    BY <1>1, <1>2, <1>6, OriginAfter
<1>8. \A r \in DOMAIN d.runs : d.runs[r].schedule = s => d.runs[r].due <= new.next
  <2>1. \A r \in DOMAIN c.runs : c.runs[r].schedule = s => c.runs[r].due <= old.next
    BY DEF ChainAt
  <2> HIDE DEF old, new
  <2> QED
    BY <1>1, <1>3, <1>4, <1>7, <2>1
<1>9. new.next # old.next => Duplicates(d, s) = {}
  <2> SUFFICES ASSUME new.next # old.next, NEW r \in Duplicates(d, s) PROVE FALSE
    OBVIOUS
  <2>1. r \in DOMAIN d.runs /\ d.runs[r].schedule = s /\ d.runs[r].due = new.next
    BY DEF Duplicates
  <2>2. r \in DOMAIN c.runs /\ d.runs[r].due = c.runs[r].due /\ c.runs[r].schedule = s
    BY <2>1
  <2>3. c.runs[r].due <= old.next
    BY <2>2 DEF ChainAt
  <2> HIDE DEF old, new
  <2> QED
    BY <1>1, <1>3, <1>7, <2>1, <2>2, <2>3
<1>10. new.next = old.next =>
         /\ Duplicates(d, s) \subseteq Duplicates(c, s)
         /\ Duplicates(d, s) = {} => Duplicates(c, s) = {}
         /\ \A r \in Duplicates(d, s) : d.runs[r].attempt = c.runs[r].attempt
  <2>1. \A r \in Duplicates(d, s) : r \in DOMAIN d.runs /\ d.runs[r].schedule = s
    BY DEF Duplicates
  <2> QED
    BY <2>1, DuplicatesPersist
<1>11. still \subseteq Tried(claims, s, Origin(new))
  BY DEF Tried
<1>12. Origin(new) > Origin(old) => still = {}
  <2> SUFFICES ASSUME Origin(new) > Origin(old), NEW x \in still PROVE FALSE
    OBVIOUS
  <2>1. x \in claims /\ x.schedule = s /\ x.origin = Origin(new)
    BY DEF Tried
  <2>2. x.origin <= Origin(old)
    BY <2>1
  <2> HIDE DEF old, new
  <2> QED
    BY <1>1, <1>7, <2>1, <2>2
<1>13. Origin(new) = Origin(old) => still \subseteq tried
  BY <1>11
<1>14. /\ \A r \in Duplicates(c, s) : AtMost(tried, c.runs[r].attempt)
       /\ Duplicates(c, s) = {} => AtMost(tried, old.attempt - 1)
  BY DEF ChainAt
<1>15. /\ old.origin = NoTime => old.attempt = 1
       /\ old.origin # NoTime => old.origin < old.next
       /\ old.active # NoRun => c.runs[old.active].due = old.next /\ old.next < old.until
  BY DEF ChainAt
<1>16. new.active # NoRun =>
         new.active \in DOMAIN d.runs /\ d.runs[new.active].schedule = s
  BY DEF Valid
<1>17. \A r \in Duplicates(d, s) : r \in DOMAIN d.runs /\ d.runs[r].attempt \in Nat
  BY DEF Duplicates, Sane, Run
<1>18. new.active # NoRun => d.runs[new.active].due = c.runs[new.active].due
  BY <1>16
<1> SUFFICES /\ new.origin = NoTime => new.attempt = 1
             /\ new.origin # NoTime => new.origin < new.next
             /\ new.active # NoRun => d.runs[new.active].due = new.next /\ new.next < new.until
             /\ \A r \in Duplicates(d, s) : AtMost(still, d.runs[r].attempt)
             /\ Duplicates(d, s) = {} => AtMost(still, new.attempt - 1)
  BY <1>8 DEF ChainAt
<1> HIDE DEF old, new, tried, still
<1>19. CASE Kept(old, new)
  <2>1. /\ new.next = old.next /\ new.origin = old.origin /\ new.attempt = old.attempt
        /\ new.active # NoRun => new.active = old.active
                                 /\ (new.until = old.until \/ old.next < new.until)
    BY <1>19 DEF Kept
  <2>2. Origin(new) = Origin(old)
    BY <2>1 DEF Origin
  <2>3. new.active # NoRun => d.runs[new.active].due = new.next /\ new.next < new.until
    BY <1>15, <1>18, <2>1
  <2>4. \A r \in Duplicates(d, s) : AtMost(still, d.runs[r].attempt)
    BY <1>10, <1>13, <1>14, <1>17, <2>1, <2>2, AtMostFewer
  <2>5. Duplicates(d, s) = {} => AtMost(still, new.attempt - 1)
    <3>1. new.attempt - 1 \in Nat
      BY <1>3
    <3> QED
      BY <1>10, <1>13, <1>14, <2>1, <2>2, <3>1, AtMostFewer
  <2> QED
    BY <1>15, <2>1, <2>3, <2>4, <2>5
<1>20. CASE Rests(old, new)
  <2>1. new.origin = NoTime /\ new.attempt = 1 /\ new.active = NoRun /\ Origin(new) = new.next
    BY <1>20 DEF Rests, Origin
  <2>2. CASE Origin(new) > Origin(old)
    <3>1. AtMost(still, 0) /\ \A r \in Duplicates(d, s) : AtMost(still, d.runs[r].attempt)
      BY <1>12, <1>17, <2>2, AtMostNone
    <3>2. new.attempt - 1 = 0
      BY <2>1
    <3> QED
      BY <2>1, <3>1, <3>2
  <2>3. CASE ~(Origin(new) > Origin(old))
    <3>1. Origin(new) = Origin(old)
      BY <1>1, <1>7, <2>3
    <3>2. new.next = old.next
      BY <1>1, <1>3, <1>7, <2>1, <3>1
    <3>3. old.attempt = 1
      <4>1. old.origin = NoTime
        BY <1>1, <1>3, <1>15, <2>1, <3>1, <3>2 DEF Origin
      <4> QED
        BY <1>15, <4>1
    <3>4. \A r \in Duplicates(d, s) : AtMost(still, d.runs[r].attempt)
      BY <1>10, <1>13, <1>14, <1>17, <3>1, <3>2, AtMostFewer
    <3>5. Duplicates(d, s) = {} => AtMost(still, new.attempt - 1)
      <4>1. new.attempt - 1 = 0 /\ old.attempt - 1 = 0
        BY <2>1, <3>3
      <4> QED
        BY <1>10, <1>13, <1>14, <3>1, <3>2, <4>1, AtMostFewer
    <3> QED
      BY <2>1, <3>4, <3>5
  <2> QED
    BY <2>2, <2>3
<1>21. CASE Retried(old, new, attempt) /\ \E r \in Duplicates(c, s) : c.runs[r].attempt = attempt
  <2>1. /\ new.origin = Origin(old) /\ new.attempt = attempt + 1 /\ new.next > old.next
        /\ new.active = NoRun
    BY <1>21 DEF Retried
  <2>2. new.origin # NoTime /\ Origin(new) = Origin(old)
    BY <1>1, <2>1 DEF NoTime, Origin
  <2>3. Duplicates(d, s) = {}
    BY <1>1, <1>3, <1>9, <2>1
  <2>4. AtMost(still, new.attempt - 1)
    <3>1. new.attempt - 1 = attempt
      BY <2>1
    <3>2. AtMost(tried, attempt)
      BY <1>14, <1>21
    <3> QED
      BY <1>13, <2>2, <3>1, <3>2, AtMostFewer
  <2>5. new.origin < new.next
    BY <1>1, <1>3, <2>1
  <2> QED
    BY <2>1, <2>2, <2>3, <2>4, <2>5
<1> QED
  BY <1>6, <1>19, <1>20, <1>21

\* Where the retries are, and how many there were.
Retries(c, claims) ==
    /\ Valid(c) => \A s \in DOMAIN c.schedules : ChainAt(c, claims, s)
    /\ Within(c, claims)

\* Other schedules' claims do not matter.
LEMMA ChainSame ==
    ASSUME NEW d, NEW s, NEW claims, NEW others, ChainAt(d, others, s),
           \A x : x \in claims /\ x.schedule = s <=> x \in others /\ x.schedule = s
    PROVE  ChainAt(d, claims, s)
<1>1. Tried(claims, s, Origin(d.schedules[s])) = Tried(others, s, Origin(d.schedules[s]))
  BY DEF Tried
<1> QED
  BY <1>1 DEF ChainAt

\* Fewer claims of schedules whose occurrences do not go back are as few as the
\* plan allows.
LEMMA WithinMoves ==
    ASSUME NEW c, Sane(c), NEW d, NEW claims, Within(c, claims), NEW fewer \in SUBSET claims,
           \A s \in DOMAIN c.schedules :
             /\ s \in DOMAIN d.schedules
             /\ d.schedules[s].plan = c.schedules[s].plan
             /\ Origin(d.schedules[s]) \in Nat
             /\ Origin(c.schedules[s]) <= Origin(d.schedules[s])
    PROVE  Within(d, fewer)
<1> SUFFICES ASSUME NEW x \in fewer
             PROVE  /\ x.schedule \in DOMAIN d.schedules
                    /\ x.origin <= Origin(d.schedules[x.schedule])
                    /\ AtMost(Tried(fewer, x.schedule, x.origin),
                              d.schedules[x.schedule].plan.retries + 1)
  BY DEF Within
<1> DEFINE s == x.schedule
           old == c.schedules[s]
           new == d.schedules[s]
<1>1. /\ x \in claims /\ s \in DOMAIN c.schedules /\ x.origin <= Origin(old)
      /\ AtMost(Tried(claims, s, x.origin), old.plan.retries + 1) /\ x.origin \in Nat
  BY DEF Within, Claims
<1>2. /\ s \in DOMAIN d.schedules /\ new.plan = old.plan
      /\ Origin(new) \in Nat /\ Origin(old) <= Origin(new)
  BY <1>1
<1>3. old \in Schedule
  BY <1>1 DEF Sane, SoundSchedule
<1>4. Origin(old) \in Nat /\ old.plan.retries + 1 \in Nat
  BY <1>3, OriginFacts DEF Schedule, Plans
<1>5. Tried(fewer, s, x.origin) \subseteq Tried(claims, s, x.origin)
  BY DEF Tried
<1> HIDE DEF s, old, new
<1>6. AtMost(Tried(fewer, s, x.origin), new.plan.retries + 1)
  BY <1>1, <1>2, <1>4, <1>5, AtMostFewer
<1>7. x.origin <= Origin(new)
  BY <1>1, <1>2, <1>4
<1> QED
  BY <1>2, <1>6, <1>7 DEF s, new

\* A call that claims nothing keeps the retries where they belong.
LEMMA MovedRetries ==
    ASSUME NEW c, Sane(c), Valid(c), NEW d, Sane(d), Moved(c, d), Remembers(c, d),
           NEW claims, Retries(c, claims), NEW fewer \in SUBSET claims
    PROVE  Retries(d, fewer)
<1>1. /\ \A s \in DOMAIN c.schedules : ChainAt(c, claims, s)
      /\ Within(c, claims) /\ claims \in SUBSET Claims
  BY DEF Retries, Within
<1>2. \A s \in DOMAIN c.schedules : s \in DOMAIN d.schedules /\ Progress(c, s, d.schedules[s])
  BY DEF Moved
<1>3. \A s \in DOMAIN d.schedules : d.schedules[s] \in Schedule
  BY DEF Sane, SoundSchedule
<1>4. \A r \in DOMAIN c.runs : c.runs[r].attempt \in Nat
  BY DEF Sane, Run
<1>5. ASSUME NEW s \in DOMAIN c.schedules
      PROVE  /\ d.schedules[s].plan = c.schedules[s].plan
             /\ Origin(d.schedules[s]) \in Nat
             /\ Origin(c.schedules[s]) <= Origin(d.schedules[s])
  <2> DEFINE old == c.schedules[s]
             new == d.schedules[s]
  <2>1. old \in Schedule /\ Origin(old) <= old.next
    BY <1>1, OriginBefore
  <2>2. new \in Schedule
    BY <1>2, <1>3
  <2>3. \E attempt \in Nat : Kept(old, new) \/ Rests(old, new) \/ Retried(old, new, attempt)
    <3>1. CASE Kept(old, new) \/ Rests(old, new)
      <4>1. 0 \in Nat
        OBVIOUS
      <4> QED
        BY <3>1, <4>1
    <3>2. CASE \E r \in Duplicates(c, s) : Retried(old, new, c.runs[r].attempt)
      BY <1>4, <3>2 DEF Duplicates
    <3> QED
      BY <1>2, <3>1, <3>2 DEF Progress
  <2> HIDE DEF old, new
  <2>4. new.plan = old.plan /\ Origin(new) \in Nat /\ Origin(old) <= Origin(new)
    BY <2>1, <2>2, <2>3, OriginAfter
  <2> QED
    BY <2>4 DEF old, new
<1>6. Within(d, fewer)
  BY <1>1, <1>2, <1>5, WithinMoves
<1>7. ASSUME Valid(d), NEW s \in DOMAIN d.schedules
      PROVE  ChainAt(d, fewer, s)
  <2>1. CASE s \in DOMAIN c.schedules
    <3>1. \A x \in claims : x.schedule = s => x.origin <= Origin(c.schedules[s])
      BY <1>1 DEF Within
    <3>2. \A r \in DOMAIN d.runs : d.runs[r].schedule = s =>
            /\ r \in DOMAIN c.runs /\ c.runs[r].schedule = s
            /\ d.runs[r].due = c.runs[r].due /\ d.runs[r].attempt = c.runs[r].attempt
      BY DEF Moved, RunsPersist
    <3>3. Duplicates(c, s) # {} /\ d.schedules[s].next = c.schedules[s].next =>
            Duplicates(d, s) # {}
      BY <2>1 DEF Remembers
    <3> QED
      BY <1>1, <1>2, <1>7, <2>1, <3>1, <3>2, <3>3, ChainMoves
  <2>2. CASE s \notin DOMAIN c.schedules
    <3> DEFINE new == d.schedules[s]
    <3>1. new.origin = NoTime /\ new.attempt = 1 /\ new.active = NoRun
      BY <1>7, <2>2 DEF Moved
    <3>2. \A r \in DOMAIN d.runs : d.runs[r].schedule # s
      BY <2>2 DEF Moved, RunsPersist, Sane
    <3>3. Duplicates(d, s) = {}
      BY <3>2 DEF Duplicates
    <3>4. Tried(fewer, s, Origin(new)) = {}
      BY <1>1, <2>2 DEF Tried, Within
    <3>5. AtMost(Tried(fewer, s, Origin(new)), new.attempt - 1)
      <4>1. new.attempt - 1 = 0
        BY <3>1
      <4> QED
        BY <3>4, <4>1, AtMostNone
    <3> QED
      BY <3>1, <3>2, <3>3, <3>5 DEF ChainAt
  <2> QED
    BY <2>1, <2>2
<1> QED
  BY <1>6, <1>7 DEF Retries

\* Claims that are dropped do not matter either.
LEMMA FewerRetries ==
    ASSUME NEW c, Sane(c), NEW claims, Retries(c, claims), NEW fewer \in SUBSET claims
    PROVE  Retries(c, fewer)
<1>1. CASE Valid(c)
  <2>1. Moved(c, c) /\ Remembers(c, c)
    BY DEF Moved, Remembers, Progress, Kept, RunsPersist
  <2> QED
    BY <1>1, <2>1, MovedRetries
<1>2. CASE ~Valid(c)
  <2>1. \A s \in DOMAIN c.schedules : c.schedules[s] \in Schedule
    BY DEF Sane, SoundSchedule
  <2>2. \A s \in DOMAIN c.schedules : Origin(c.schedules[s]) \in Nat
    BY <2>1, OriginFacts
  <2>3. \A s \in DOMAIN c.schedules : Origin(c.schedules[s]) <= Origin(c.schedules[s])
    BY <2>2
  <2>4. Within(c, fewer)
    BY <2>2, <2>3, WithinMoves DEF Retries
  <2> QED
    BY <1>2, <2>4 DEF Retries
<1> QED
  BY <1>1, <1>2

\* The claims a pass makes.
NewClaims(c, moment) ==
    {[run |-> ClaimedRun(c, s, moment), schedule |-> s, due |-> c.schedules[s].next,
      origin |-> Origin(c.schedules[s])] : s \in Claimers(c, moment)}

\* A schedule that is claimed keeps its place, and its lease outlives it.
LEMMA VisitedClaim ==
    ASSUME NEW c, Sane(c), Valid(c), NEW w \in Workers, NEW moment \in Nat,
           NEW s \in Claimers(c, moment)
    PROVE  LET old == c.schedules[s]
               new == Visited(c, s, w, moment)
           IN  /\ new.plan = old.plan /\ new.next = old.next /\ new.origin = old.origin
               /\ new.attempt = old.attempt
               /\ new.active = ClaimedRun(c, s, moment) /\ new.until = moment + Lease
               /\ Duplicates(c, s) = {}
               /\ old.next <= moment
<1> DEFINE old == c.schedules[s]
           new == Visited(c, s, w, moment)
           r == ClaimedRun(c, s, moment)
           t == moment + Lease
           repaired == Repaired(old, moment)
<1>1. /\ s \in DOMAIN c.schedules /\ ~Abandoned(c, s, moment) /\ Due(old, moment)
      /\ ~Misfired(old, moment) /\ Duplicates(c, s) = {}
  BY DEF Claimers, Claimable
<1>2. old \in Schedule
  BY <1>1 DEF Sane, SoundSchedule
<1>3. repaired = Released(old)
  BY <1>1 DEF Repaired, Due
<1>4. Due(repaired, moment) /\ ~Misfired(repaired, moment)
  <2> HIDE DEF old, repaired
  <2>1. /\ repaired \in Schedule /\ repaired.enabled = old.enabled /\ repaired.next = old.next
        /\ repaired.plan = old.plan /\ repaired.until = NoTime
    BY <1>2, <1>3 DEF Released, Schedule, NoRun
  <2> QED
    BY <1>1, <2>1 DEF Due, Misfired, LeaseActive
<1>5. new = [repaired EXCEPT !.owner = w, !.until = t, !.active = r]
  BY <1>1, <1>4 DEF Visited
<1>6. old.next <= moment
  BY <1>1 DEF Due
<1> HIDE DEF old, new, r, t, repaired
<1>7. /\ new.plan = old.plan /\ new.next = old.next /\ new.origin = old.origin
      /\ new.attempt = old.attempt /\ new.active = r /\ new.until = t
  BY <1>2, <1>3, <1>5 DEF Released, Schedule
<1> QED
  BY <1>1, <1>6, <1>7 DEF old, new, r, t

\* Any other makes progress: an attempt whose lease ran out is retried, a
\* duplicate or a misfire rests it, and the rest stay as they are.
LEMMA VisitedProgress ==
    ASSUME NEW c, Sane(c), Valid(c), NEW w \in Workers, NEW moment \in Nat, NEW claims,
           NEW s \in DOMAIN c.schedules, s \notin Claimers(c, moment), ChainAt(c, claims, s)
    PROVE  Progress(c, s, Visited(c, s, w, moment))
<1> DEFINE old == c.schedules[s]
           new == Visited(c, s, w, moment)
<1>1. /\ old \in Schedule /\ Origin(old) \in Nat /\ old.next \in Nat
      /\ Origin(old) <= old.next
  BY OriginBefore
<1>2. LeaseWhole(old)
  BY DEF Sane, SoundSchedule
<1>3. old.until \in Nat \cup {NoTime}
  BY <1>1 DEF Schedule
<1>4. \A r \in DOMAIN c.runs : c.runs[r].attempt \in Nat \ {0}
  BY DEF Sane, Run
<1>5. ASSUME NEW r \in Duplicates(c, s), NEW status, old.next <= moment,
             new = AfterTerminal(old, c.runs[r].attempt, status, moment)
      PROVE  Progress(c, s, new)
  <2> DEFINE attempt == c.runs[r].attempt
  <2>1. attempt \in Nat \ {0}
    BY <1>4 DEF Duplicates
  <2>2. new = AfterTerminal(old, attempt, status, moment)
    BY <1>5
  <2> HIDE DEF old, new, attempt
  <2>3. Rests(old, new) \/ Retried(old, new, attempt)
    BY <1>1, <1>5, <2>1, <2>2, AfterTerminalProgress
  <2> QED
    BY <2>3 DEF Progress, attempt, old
<1>6. CASE Abandoned(c, s, moment)
  <2> DEFINE r == old.active
             status == "failed"
  <2>1. r # NoRun /\ ~LeaseActive(old, moment)
    BY <1>6 DEF Abandoned
  <2>2. r \in DOMAIN c.runs /\ c.runs[r].schedule = s /\ old.until # NoTime
    BY <2>1 DEF Valid
  <2>3. c.runs[r].due = old.next /\ old.next < old.until
    BY <2>1 DEF ChainAt
  <2>4. old.next <= moment
    <3>1. ~(old.until > moment)
      BY <2>1, <2>2 DEF LeaseActive
    <3> HIDE DEF old
    <3> QED
      BY <1>1, <1>3, <2>2, <2>3, <3>1
  <2>5. r \in Duplicates(c, s)
    BY <2>2, <2>3 DEF Duplicates
  <2>6. new = AfterTerminal(old, c.runs[r].attempt, status, moment)
    BY <1>6 DEF Visited
  <2> HIDE DEF old, new, r, status
  <2> QED
    BY <1>5, <2>4, <2>5, <2>6 DEF new
<1>7. CASE ~Abandoned(c, s, moment)
  <2>1. Repaired(old, moment) = old
    <3>1. old.active # NoRun => old.active \in DOMAIN c.runs /\ c.runs[old.active].status = "claimed"
      BY DEF Valid
    <3>2. old.active # NoRun => LeaseActive(old, moment)
      BY <1>7, <3>1 DEF Abandoned
    <3> DEFINE schedule == old
    <3>3. schedule = old
      OBVIOUS
    <3> HIDE DEF old, schedule
    <3>4. ~LeaseActive(old, moment) =>
            schedule.active = NoRun /\ schedule.owner = Nobody /\ schedule.until = NoTime
      BY <1>2, <3>2, <3>3 DEF LeaseWhole
    <3>5. schedule.active = NoRun /\ schedule.owner = Nobody /\ schedule.until = NoTime
            => Released(schedule) = schedule
      BY <1>1, <3>3 DEF Released, Schedule
    <3> QED
      BY <3>3, <3>4, <3>5 DEF Repaired
  <2>2. CASE ~Due(old, moment)
    <3>1. new = old
      BY <1>7, <2>1, <2>2 DEF Visited
    <3> QED
      BY <3>1 DEF Progress, Kept
  <2>3. CASE Due(old, moment) /\ Misfired(old, moment)
    <3>1. new = Advance(old, moment)
      BY <1>7, <2>1, <2>3 DEF Visited
    <3>2. old.next <= moment
      BY <2>3 DEF Due
    <3> HIDE DEF old, new
    <3>3. Rests(old, new)
      BY <1>1, <3>1, <3>2, AdvanceRests
    <3> QED
      BY <3>3 DEF Progress, old, new
  <2>4. CASE Due(old, moment) /\ ~Misfired(old, moment)
    <3>1. Duplicates(c, s) # {}
      BY <1>7, <2>4 DEF Claimers, Claimable
    <3> DEFINE r == CHOOSE q \in Duplicates(c, s) : TRUE
               status == IF c.runs[r].status = "claimed" THEN "failed" ELSE c.runs[r].status
    <3>2. r \in Duplicates(c, s)
      BY <3>1
    <3>3. new = AfterTerminal(old, c.runs[r].attempt, status, moment)
      BY <1>7, <2>1, <2>4, <3>1 DEF Visited
    <3>4. old.next <= moment
      BY <2>4 DEF Due
    <3> HIDE DEF old, new, r, status
    <3> QED
      BY <1>5, <3>2, <3>3, <3>4 DEF new
  <2> QED
    BY <2>2, <2>3, <2>4
<1> QED
  BY <1>6, <1>7

\* The runs after a pass: those there were, and a new one for each claim.
LEMMA RunsAfterClaim ==
    ASSUME NEW c, Sane(c), Valid(c), NEW w \in Workers, NEW moment \in Nat
    PROVE  LET d == ClaimDue(c, w, moment)
           IN  \A r \in DOMAIN d.runs :
                 IF r <= c.last
                 THEN /\ r \in DOMAIN c.runs
                      /\ d.runs[r].schedule = c.runs[r].schedule
                      /\ d.runs[r].due = c.runs[r].due
                      /\ d.runs[r].attempt = c.runs[r].attempt
                 ELSE \E s \in Claimers(c, moment) :
                        /\ r = ClaimedRun(c, s, moment)
                        /\ d.runs[r].schedule = s
                        /\ d.runs[r].due = c.schedules[s].next
                        /\ d.runs[r].attempt = c.schedules[s].attempt
<1> DEFINE d == ClaimDue(c, w, moment)
           runs == VisitedRuns(c, moment)
<1>1. \A r \in DOMAIN c.runs : r <= c.last
  BY DEF Sane, IsCatalog
<1>2. CASE d = c
  BY <1>1, <1>2
<1>3. CASE d # c
  <2>1. \A r \in DOMAIN d.runs : r \in DOMAIN runs /\ d.runs[r] = runs[r]
    BY <1>3, ClaimDueShape
  <2>2. /\ \A r \in DOMAIN runs : r > c.last =>
             \E s \in Claimers(c, moment) :
               r = ClaimedRun(c, s, moment) /\ runs[r] = NewRun(s, c.schedules[s])
        /\ \A r \in DOMAIN runs : r <= c.last =>
             /\ r \in DOMAIN c.runs
             /\ r \in LostRuns(c, moment) =>
                  /\ c.runs[r].status = "claimed"
                  /\ runs[r] = [c.runs[r] EXCEPT !.status = "failed"]
             /\ r \notin LostRuns(c, moment) => runs[r] = c.runs[r]
        /\ DOMAIN runs \subseteq 1 .. (c.last + Cardinality(Claimers(c, moment)))
    BY VisitedRunsFacts
  <2>3. /\ c.last \in Nat /\ \A r \in DOMAIN c.runs : c.runs[r] \in Run
        /\ Cardinality(Claimers(c, moment)) \in Nat
    BY ClaimedRunFacts DEF Sane, IsCatalog
  <2>4. \A s : /\ NewRun(s, c.schedules[s]).schedule = s
               /\ NewRun(s, c.schedules[s]).due = c.schedules[s].next
               /\ NewRun(s, c.schedules[s]).attempt = c.schedules[s].attempt
    BY DEF NewRun
  <2>5. \A run \in Run : LET lost == [run EXCEPT !.status = "failed"]
                         IN  /\ lost.schedule = run.schedule /\ lost.due = run.due
                             /\ lost.attempt = run.attempt
    BY DEF Run
  <2> HIDE DEF d, runs
  <2> SUFFICES ASSUME NEW r \in DOMAIN d.runs
               PROVE  IF r <= c.last
                      THEN /\ r \in DOMAIN c.runs
                           /\ d.runs[r].schedule = c.runs[r].schedule
                           /\ d.runs[r].due = c.runs[r].due
                           /\ d.runs[r].attempt = c.runs[r].attempt
                      ELSE \E s \in Claimers(c, moment) :
                             /\ r = ClaimedRun(c, s, moment)
                             /\ d.runs[r].schedule = s
                             /\ d.runs[r].due = c.schedules[s].next
                             /\ d.runs[r].attempt = c.schedules[s].attempt
    BY DEF d
  <2>6. r \in DOMAIN runs /\ d.runs[r] = runs[r] /\ r \in Nat
    <3>1. r \in DOMAIN runs /\ d.runs[r] = runs[r]
      BY <2>1
    <3>2. r \in 1 .. (c.last + Cardinality(Claimers(c, moment)))
      BY <2>2, <3>1
    <3> QED
      BY <2>3, <3>1, <3>2
  <2>7. CASE r <= c.last
    <3>1. r \in DOMAIN c.runs /\ c.runs[r] \in Run
      BY <2>2, <2>3, <2>6, <2>7
    <3>2. CASE r \in LostRuns(c, moment)
      <4>1. d.runs[r] = [c.runs[r] EXCEPT !.status = "failed"]
        BY <2>2, <2>6, <2>7, <3>2
      <4> QED
        BY <2>5, <2>7, <3>1, <4>1
    <3>3. CASE r \notin LostRuns(c, moment)
      BY <2>2, <2>6, <2>7, <3>1, <3>3
    <3> QED
      BY <3>2, <3>3
  <2>8. CASE ~(r <= c.last)
    <3>1. r > c.last
      BY <2>3, <2>6, <2>8
    <3>2. PICK s \in Claimers(c, moment) :
            r = ClaimedRun(c, s, moment) /\ runs[r] = NewRun(s, c.schedules[s])
      BY <2>2, <2>6, <3>1
    <3> QED
      BY <2>4, <2>6, <2>8, <3>2
  <2> QED
    BY <2>7, <2>8
<1> QED
  BY <1>2, <1>3

\* A claimed schedule is at the attempt its new run is, and no other claim of
\* the occurrence was made meanwhile.
LEMMA ChainClaims ==
    ASSUME NEW c, Sane(c), Valid(c), NEW d, Sane(d), Valid(d), NEW w \in Workers,
           NEW moment \in Nat, d = ClaimDue(c, w, moment),
           NEW claims, NEW more, NEW x, NEW s \in Claimers(c, moment),
           d.schedules[s] = Visited(c, s, w, moment), ChainAt(c, claims, s),
           \A y \in more : y.schedule = s => y \in claims \cup {x}
    PROVE  ChainAt(d, more, s)
<1> DEFINE old == c.schedules[s]
           new == d.schedules[s]
           r == ClaimedRun(c, s, moment)
           tried == Tried(claims, s, Origin(old))
           now == Tried(more, s, Origin(new))
<1>1. /\ new.plan = old.plan /\ new.next = old.next /\ new.origin = old.origin
      /\ new.attempt = old.attempt /\ new.active = r /\ new.until = moment + Lease
      /\ Duplicates(c, s) = {} /\ old.next <= moment
  BY VisitedClaim
<1>2. s \in DOMAIN c.schedules
  BY DEF Claimers
<1>3. old \in Schedule
  BY <1>2 DEF Sane, SoundSchedule
<1>4. old.next \in Nat /\ old.attempt \in Nat \ {0} /\ Lease \in Nat \ {0}
  BY <1>3, StoreAssumption DEF Schedule
<1>5. /\ old.origin = NoTime => old.attempt = 1
      /\ old.origin # NoTime => old.origin < old.next
      /\ \A q \in DOMAIN c.runs : c.runs[q].schedule = s => c.runs[q].due <= old.next
      /\ AtMost(tried, old.attempt - 1)
  BY <1>1 DEF ChainAt
<1>6. \A q \in DOMAIN d.runs : d.runs[q].schedule = s =>
        \/ /\ q \in DOMAIN c.runs /\ c.runs[q].schedule = s /\ d.runs[q].due = c.runs[q].due
        \/ q = r /\ d.runs[q].due = old.next /\ d.runs[q].attempt = old.attempt
  BY RunsAfterClaim
<1>7. r # NoRun
  BY ClaimedRunFacts DEF Sane, IsCatalog, NoRun
<1>8. s \in DOMAIN d.schedules
  <2>1. Follows(c, d)
    BY ClaimDueFacts
  <2> QED
    BY <1>2, <2>1 DEF Follows
<1>9. r \in DOMAIN d.runs /\ d.runs[r].schedule = s
  BY <1>1, <1>7, <1>8 DEF Valid
<1>10. r \notin DOMAIN c.runs
  <2>1. r \in (c.last + 1) .. (c.last + Cardinality(Claimers(c, moment)))
        /\ Cardinality(Claimers(c, moment)) \in Nat
    BY ClaimedRunFacts DEF Sane
  <2>2. c.last \in Nat /\ DOMAIN c.runs \subseteq 1 .. c.last
    BY DEF Sane, IsCatalog
  <2> HIDE DEF r
  <2> QED
    BY <2>1, <2>2
<1>11. d.runs[r].due = old.next /\ d.runs[r].attempt = old.attempt
  BY <1>6, <1>9, <1>10
<1>12. \A q \in Duplicates(d, s) : q = r
  <2> SUFFICES ASSUME NEW q \in Duplicates(d, s), q # r PROVE FALSE
    OBVIOUS
  <2>1. q \in DOMAIN d.runs /\ d.runs[q].schedule = s /\ d.runs[q].due = new.next
    BY DEF Duplicates
  <2>2. q \in DOMAIN c.runs /\ c.runs[q].schedule = s /\ c.runs[q].due = old.next
    BY <1>1, <1>6, <2>1
  <2>3. q \in Duplicates(c, s)
    BY <2>2 DEF Duplicates
  <2> QED
    BY <1>1, <2>3
<1>13. r \in Duplicates(d, s)
  BY <1>1, <1>9, <1>11 DEF Duplicates
<1>14. AtMost(now, old.attempt)
  <2>1. Origin(new) = Origin(old)
    BY <1>1 DEF Origin
  <2>2. now \subseteq tried \cup {x}
    BY <2>1 DEF Tried
  <2> HIDE DEF now, tried
  <2> DEFINE n == old.attempt - 1
  <2>3. n \in Nat /\ n + 1 = old.attempt
    BY <1>4
  <2>4. AtMost(tried, n)
    BY <1>5
  <2> HIDE DEF n
  <2>5. AtMost(now, n + 1)
    BY <2>2, <2>3, <2>4, AtMostMore
  <2> QED
    BY <2>3, <2>5
<1>15. \A q \in DOMAIN d.runs : d.runs[q].schedule = s => d.runs[q].due <= new.next
  <2> HIDE DEF old, new, r
  <2> QED
    BY <1>1, <1>4, <1>5, <1>6
<1>16. new.next < new.until
  <2> HIDE DEF old, new, r
  <2> QED
    BY <1>1, <1>4
<1>17. \A q \in Duplicates(d, s) : AtMost(now, d.runs[q].attempt)
  BY <1>11, <1>12, <1>14
<1> QED
  BY <1>1, <1>5, <1>11, <1>13, <1>15, <1>16, <1>17 DEF ChainAt

\* The claims of a pass are claims, each of its schedule's occurrence.
LEMMA NewClaimFacts ==
    ASSUME NEW c, Sane(c), NEW moment, NEW x \in NewClaims(c, moment)
    PROVE  /\ x \in Claims
           /\ x.schedule \in Claimers(c, moment) /\ x.schedule \in DOMAIN c.schedules
           /\ x = [run |-> ClaimedRun(c, x.schedule, moment), schedule |-> x.schedule,
                   due |-> c.schedules[x.schedule].next,
                   origin |-> Origin(c.schedules[x.schedule])]
           /\ x.origin = Origin(c.schedules[x.schedule])
           /\ x.run = ClaimedRun(c, x.schedule, moment) /\ x.run > c.last
<1>1. PICK s \in Claimers(c, moment) :
        x = [run |-> ClaimedRun(c, s, moment), schedule |-> s, due |-> c.schedules[s].next,
             origin |-> Origin(c.schedules[s])]
  BY DEF NewClaims
<1>2. s \in DOMAIN c.schedules
  BY DEF Claimers
<1>3. c.schedules[s] \in Schedule
  BY <1>2 DEF Sane, SoundSchedule
<1>4. c.schedules[s].next \in Nat /\ Origin(c.schedules[s]) \in Nat
  BY <1>3, OriginFacts DEF Schedule
<1>5. s \in Nat
  BY <1>2 DEF Sane, IsCatalog
<1> DEFINE r == ClaimedRun(c, s, moment)
<1>6. r \in Nat /\ r > c.last
  <2>1. r \in (c.last + 1) .. (c.last + Cardinality(Claimers(c, moment)))
        /\ Cardinality(Claimers(c, moment)) \in Nat /\ c.last \in Nat
    BY ClaimedRunFacts DEF Sane, IsCatalog
  <2> HIDE DEF r
  <2> QED
    BY <2>1
<1> HIDE DEF r
<1>7. x \in Claims
  BY <1>1, <1>4, <1>5, <1>6 DEF Claims, r
<1> QED
  BY <1>1, <1>2, <1>6, <1>7 DEF r

\* claim_due keeps the retries where they belong, and the plan's number.
LEMMA ClaimedRetries ==
    ASSUME NEW c, Sane(c), Valid(c), NEW w \in Workers, NEW moment \in Nat,
           NEW d, d = ClaimDue(c, w, moment), Remembers(c, d),
           NEW claims, Retries(c, claims), NEW more, more \subseteq claims \cup NewClaims(c, moment)
    PROVE  Retries(d, more)
<1> DEFINE claimers == Claimers(c, moment)
<1>1. /\ \A s \in DOMAIN c.schedules : ChainAt(c, claims, s)
      /\ Within(c, claims) /\ claims \in SUBSET Claims
  BY DEF Retries, Within
<1>2. CASE d = c /\ claimers = {}
  <2>1. NewClaims(c, moment) = {}
    BY <1>2 DEF NewClaims
  <2>2. more \in SUBSET claims
    BY <2>1
  <2> QED
    BY <1>2, <2>2, FewerRetries
<1>3. CASE ~(d = c /\ claimers = {})
  <2>1. /\ DOMAIN d.schedules = DOMAIN c.schedules
        /\ \A s \in DOMAIN c.schedules : d.schedules[s] = Visited(c, s, w, moment)
    BY <1>3, ClaimDueShape
  <2>2. Sane(d)
    BY ClaimDueFacts DEF Follows
  <2>3. more \in SUBSET Claims
    BY <1>1, NewClaimFacts
  <2>4. ASSUME NEW s \in DOMAIN c.schedules
        PROVE  /\ d.schedules[s].plan = c.schedules[s].plan
               /\ Origin(d.schedules[s]) \in Nat
               /\ Origin(c.schedules[s]) \in Nat
               /\ Origin(c.schedules[s]) <= Origin(d.schedules[s])
               /\ c.schedules[s].attempt \in Nat \ {0}
               /\ c.schedules[s].plan.retries \in Nat
               /\ c.schedules[s].attempt <= c.schedules[s].plan.retries + 1
               /\ s \in claimers => Origin(d.schedules[s]) = Origin(c.schedules[s])
    <3> DEFINE old == c.schedules[s]
               new == d.schedules[s]
    <3>1. /\ old \in Schedule /\ Origin(old) \in Nat /\ Origin(old) <= old.next
          /\ old.attempt <= old.plan.retries + 1
      BY <1>1, OriginBefore DEF Sane, SoundSchedule
    <3>2. new \in Schedule /\ new = Visited(c, s, w, moment)
      BY <2>1, <2>2 DEF Sane, SoundSchedule
    <3>3. old.attempt \in Nat \ {0} /\ old.plan.retries \in Nat /\ Origin(new) \in Nat
      <4> HIDE DEF old, new
      <4> QED
        BY <3>1, <3>2, OriginFacts DEF Schedule, Plans
    <3>4. CASE s \in claimers
      <4>1. new.plan = old.plan /\ new.next = old.next /\ new.origin = old.origin
        BY <3>2, <3>4, VisitedClaim
      <4>2. Origin(new) = Origin(old)
        BY <4>1 DEF Origin
      <4> HIDE DEF old, new
      <4>3. Origin(old) <= Origin(new)
        BY <3>1, <4>2
      <4> QED
        BY <3>1, <3>3, <4>1, <4>2, <4>3 DEF old, new
    <3>5. CASE s \notin claimers
      <4>1. Progress(c, s, new)
        BY <1>1, <3>2, <3>5, VisitedProgress
      <4>2. \A r \in Duplicates(c, s) : c.runs[r].attempt \in Nat
        BY DEF Duplicates, Sane, Run
      <4>3. \E attempt \in Nat : Kept(old, new) \/ Rests(old, new) \/ Retried(old, new, attempt)
        <5>1. CASE Kept(old, new) \/ Rests(old, new)
          <6>1. 0 \in Nat
            OBVIOUS
          <6> QED
            BY <5>1, <6>1
        <5>2. CASE \E r \in Duplicates(c, s) : Retried(old, new, c.runs[r].attempt)
          BY <4>2, <5>2
        <5> QED
          BY <4>1, <5>1, <5>2 DEF Progress
      <4> HIDE DEF old, new
      <4>4. new.plan = old.plan /\ Origin(old) <= Origin(new)
        BY <3>1, <3>2, <4>3, OriginAfter
      <4> QED
        BY <3>1, <3>3, <3>5, <4>4 DEF old, new
    <3> QED
      BY <3>4, <3>5
  <2>5. \A y \in more : y.schedule \notin claimers => y \in claims
    BY NewClaimFacts
  <2>6. ASSUME NEW s \in claimers
        PROVE  \E x : \A y \in more : y.schedule = s =>
                 y \in claims \cup {x} /\ (y \in claims \/ y.origin = Origin(c.schedules[s]))
    <3> DEFINE x == [run |-> ClaimedRun(c, s, moment), schedule |-> s,
                     due |-> c.schedules[s].next, origin |-> Origin(c.schedules[s])]
    <3>1. \A y \in NewClaims(c, moment) :
            y.schedule = s => y = x /\ y.origin = Origin(c.schedules[s])
      BY NewClaimFacts
    <3> HIDE DEF x
    <3>2. \A y \in more : y.schedule = s =>
            y \in claims \cup {x} /\ (y \in claims \/ y.origin = Origin(c.schedules[s]))
      BY <3>1
    <3> QED
      BY <3>2
  <2>7. ASSUME NEW y \in more
        PROVE  /\ y.schedule \in DOMAIN d.schedules
               /\ y.origin <= Origin(d.schedules[y.schedule])
               /\ AtMost(Tried(more, y.schedule, y.origin),
                         d.schedules[y.schedule].plan.retries + 1)
    <3> DEFINE s == y.schedule
               old == c.schedules[s]
               new == d.schedules[s]
    <3>1. /\ y \in claims =>
               /\ s \in DOMAIN c.schedules /\ y.origin <= Origin(old)
               /\ AtMost(Tried(claims, s, y.origin), old.plan.retries + 1)
          /\ y \notin claims =>
               s \in claimers /\ s \in DOMAIN c.schedules /\ y.origin = Origin(old)
      <4>1. y \in claims => /\ s \in DOMAIN c.schedules /\ y.origin <= Origin(old)
                            /\ AtMost(Tried(claims, s, y.origin), old.plan.retries + 1)
        BY <1>1 DEF Within
      <4>2. y \notin claims => s \in claimers /\ s \in DOMAIN c.schedules /\ y.origin = Origin(old)
        BY NewClaimFacts
      <4> QED
        BY <4>1, <4>2
    <3>2. s \in DOMAIN c.schedules /\ y.origin \in Nat
      BY <2>3, <3>1 DEF Claims
    <3>3. /\ new.plan = old.plan /\ Origin(new) \in Nat /\ Origin(old) \in Nat
          /\ Origin(old) <= Origin(new)
          /\ old.attempt \in Nat \ {0} /\ old.plan.retries \in Nat
          /\ old.attempt <= old.plan.retries + 1
      BY <2>4, <3>2
    <3>4. y.origin <= Origin(old)
      <4> HIDE DEF s, old
      <4> QED
        BY <3>1, <3>2, <3>3
    <3>5. y.origin <= Origin(new)
      <4> HIDE DEF s, old, new
      <4> QED
        BY <3>2, <3>3, <3>4
    <3>6. old.plan.retries + 1 \in Nat
      <4> HIDE DEF s, old
      <4> QED
        BY <3>3
    <3>7. CASE s \notin claimers
      <4>1. Tried(more, s, y.origin) \subseteq Tried(claims, s, y.origin)
        BY <2>5, <3>7 DEF Tried
      <4>2. AtMost(Tried(claims, s, y.origin), old.plan.retries + 1)
        BY <3>1, <3>7
      <4> HIDE DEF s, old, new
      <4>3. AtMost(Tried(more, s, y.origin), old.plan.retries + 1)
        BY <3>6, <4>1, <4>2, AtMostFewer
      <4> QED
        BY <2>1, <3>2, <3>3, <3>5, <4>3 DEF s, old, new
    <3>8. CASE s \in claimers
      <4>1. PICK x : \A z \in more : z.schedule = s =>
               z \in claims \cup {x} /\ (z \in claims \/ z.origin = Origin(old))
        BY <2>6, <3>8
      <4>2. CASE y.origin = Origin(old)
        <5> DEFINE tried == Tried(claims, s, Origin(old))
                   now == Tried(more, s, y.origin)
                   n == old.attempt - 1
        <5>1. AtMost(tried, n)
          <6>1. Duplicates(c, s) = {}
            BY <3>8 DEF Claimers, Claimable
          <6> QED
            BY <1>1, <3>2, <6>1 DEF ChainAt
        <5>2. now \subseteq tried \cup {x}
          BY <4>1, <4>2 DEF Tried
        <5>3. n \in Nat /\ n + 1 <= old.plan.retries + 1 /\ n + 1 \in Nat
          <6>1. n + 1 = old.attempt /\ n \in Nat
            BY <3>3
          <6> HIDE DEF n
          <6> QED
            BY <3>3, <6>1
        <5> HIDE DEF tried, now, n
        <5>4. AtMost(now, n + 1)
          BY <5>1, <5>2, <5>3, AtMostMore
        <5> HIDE DEF s, old, new
        <5>5. AtMost(now, old.plan.retries + 1)
          BY <3>6, <5>3, <5>4, AtMostFewer
        <5> QED
          BY <2>1, <3>2, <3>3, <3>5, <5>5 DEF now, s, old, new
      <4>3. CASE y.origin # Origin(old)
        <5>1. Tried(more, s, y.origin) \subseteq Tried(claims, s, y.origin)
          BY <4>1, <4>3 DEF Tried
        <5>2. AtMost(Tried(claims, s, y.origin), old.plan.retries + 1)
          BY <3>1, <4>3
        <5> HIDE DEF s, old, new
        <5>3. AtMost(Tried(more, s, y.origin), old.plan.retries + 1)
          BY <3>6, <5>1, <5>2, AtMostFewer
        <5> QED
          BY <2>1, <3>2, <3>3, <3>5, <5>3 DEF s, old, new
      <4> QED
        BY <4>2, <4>3
    <3> QED
      BY <3>7, <3>8
  <2>8. ASSUME Valid(d), NEW s \in DOMAIN d.schedules
        PROVE  ChainAt(d, more, s)
    <3>1. s \in DOMAIN c.schedules /\ d.schedules[s] = Visited(c, s, w, moment)
      BY <2>1
    <3>2. CASE s \in claimers
      <4>1. PICK x : \A y \in more : y.schedule = s => y \in claims \cup {x}
        BY <2>6, <3>2
      <4> QED
        BY <1>1, <2>2, <2>8, <3>1, <3>2, <4>1, ChainClaims
    <3>3. CASE s \notin claimers
      <4> DEFINE fewer == more \cap claims
      <4>1. \A x \in claims : x.schedule = s => x.origin <= Origin(c.schedules[s])
        BY <1>1 DEF Within
      <4>2. \A r \in DOMAIN d.runs : d.runs[r].schedule = s =>
              /\ r \in DOMAIN c.runs /\ c.runs[r].schedule = s
              /\ d.runs[r].due = c.runs[r].due /\ d.runs[r].attempt = c.runs[r].attempt
        BY <3>3, RunsAfterClaim
      <4>3. Duplicates(c, s) # {} /\ d.schedules[s].next = c.schedules[s].next =>
              Duplicates(d, s) # {}
        BY <3>1 DEF Remembers
      <4>4. Progress(c, s, d.schedules[s])
        BY <1>1, <3>1, <3>3, VisitedProgress
      <4>5. fewer \in SUBSET claims
        OBVIOUS
      <4>6. \A y : y \in more /\ y.schedule = s <=> y \in fewer /\ y.schedule = s
        BY <2>5, <3>3
      <4> HIDE DEF fewer
      <4>7. ChainAt(d, fewer, s)
        BY <1>1, <2>2, <2>8, <3>1, <4>1, <4>2, <4>3, <4>4, <4>5, ChainMoves
      <4> QED
        BY <4>6, <4>7, ChainSame
    <3> QED
      BY <3>2, <3>3
  <2> QED
    BY <2>3, <2>7, <2>8 DEF Retries, Within
<1> QED
  BY <1>2, <1>3

\* A call that writes one schedule.
LEMMA OneMoves ==
    ASSUME NEW c, NEW d, NEW s, DOMAIN d.schedules = DOMAIN c.schedules,
           \A t \in DOMAIN c.schedules : t # s => d.schedules[t] = c.schedules[t],
           s \in DOMAIN c.schedules => Progress(c, s, d.schedules[s]),
           RunsPersist(c, d)
    PROVE  Moved(c, d)
<1>1. ASSUME NEW t \in DOMAIN c.schedules PROVE Progress(c, t, d.schedules[t])
  <2>1. CASE t = s
    BY <2>1
  <2>2. CASE t # s
    BY <2>2 DEF Progress, Kept
  <2> QED
    BY <2>1, <2>2
<1> QED
  BY <1>1 DEF Moved

\* A new revision leaves the schedules and the runs alone.
LEMMA RevisedFields ==
    ASSUME NEW c, DOMAIN c = {"revision", "schedules", "last", "runs"}
    PROVE  Revised(c).schedules = c.schedules /\ Revised(c).runs = c.runs
  BY DEF Revised

\* complete_run puts the schedule of the active run to rest or retries it.
LEMMA CompleteRunMoves ==
    ASSUME NEW c, Sane(c), Valid(c), NEW claims,
           \A s \in DOMAIN c.schedules : ChainAt(c, claims, s),
           NEW r \in DOMAIN c.runs, NEW status, NEW moment \in Nat, c.runs[r].due <= moment
    PROVE  Moved(c, CompleteRun(c, r, status, moment))
<1> DEFINE d == CompleteRun(c, r, status, moment)
           run == c.runs[r]
           s == run.schedule
           old == c.schedules[s]
           new == AfterTerminal(old, run.attempt, status, moment)
           done == [run EXCEPT !.status = status]
           e == [c EXCEPT !.runs[r].status = status,
                          !.schedules[s] =
                            IF old.active = r THEN AfterTerminal(old, run.attempt, status, moment)
                            ELSE old]
<1>1. /\ run \in Run /\ s \in DOMAIN c.schedules /\ run.attempt \in Nat \ {0}
      /\ DOMAIN c = {"revision", "schedules", "last", "runs"}
  BY DEF Sane, Run, IsCatalog
<1>2. CASE run.status # "claimed"
  <2>1. d = c
    BY <1>2 DEF CompleteRun
  <2> HIDE DEF d
  <2> QED
    BY <2>1 DEF d, Moved, Progress, Kept, RunsPersist
<1>3. CASE run.status = "claimed"
  <2>1. old.active = r /\ r # NoRun
    BY <1>3 DEF Sane, ClaimedActive, IsCatalog, NoRun
  <2>2. d = Revised(e)
    BY <1>3 DEF CompleteRun
  <2>3. DOMAIN e = DOMAIN c
    OBVIOUS
  <2>4. e.schedules = [c.schedules EXCEPT ![s] = new]
    BY <1>1, <2>1
  <2>5. e.runs = [c.runs EXCEPT ![r] = done]
    BY <1>1
  <2>6. /\ done.schedule = run.schedule /\ done.due = run.due /\ done.attempt = run.attempt
    BY <1>1 DEF Run
  <2> HIDE DEF e, d, new, done
  <2>7. d.schedules = e.schedules /\ d.runs = e.runs
    BY <1>1, <2>2, <2>3, RevisedFields
  <2>8. RunsPersist(c, d)
    BY <2>5, <2>6, <2>7 DEF RunsPersist
  <2>9. run.due = old.next
    BY <1>1, <2>1 DEF ChainAt
  <2>10. r \in Duplicates(c, s)
    BY <2>9 DEF Duplicates
  <2>11. Progress(c, s, new)
    <3> DEFINE attempt == run.attempt
    <3>1. /\ old \in Schedule /\ Origin(old) <= old.next /\ old.next <= moment
          /\ attempt \in Nat \ {0}
      BY <1>1, <2>9, OriginBefore
    <3>2. new = AfterTerminal(old, attempt, status, moment)
      BY DEF new
    <3> HIDE DEF old, attempt
    <3>3. Rests(old, new) \/ Retried(old, new, attempt)
      BY <3>1, <3>2, AfterTerminalProgress
    <3> QED
      BY <2>10, <3>3 DEF Progress, attempt, old
  <2>12. /\ DOMAIN d.schedules = DOMAIN c.schedules /\ d.schedules[s] = new
         /\ \A t \in DOMAIN c.schedules : t # s => d.schedules[t] = c.schedules[t]
    BY <1>1, <2>4, <2>7
  <2> DEFINE t == s
  <2> HIDE DEF run, old, t
  <2>13. Moved(c, d)
    BY <2>8, <2>11, <2>12, OneMoves
  <2> QED
    BY <2>13 DEF d
<1> QED
  BY <1>2, <1>3

\* heartbeat and attach_job put the end of the lease after the moment.
LEMMA RenewedMoves ==
    ASSUME NEW c, Sane(c), NEW claims, \A s \in DOMAIN c.schedules : ChainAt(c, claims, s),
           NEW r, NEW w, Owns(c, r, w), NEW moment \in Nat, c.runs[r].due <= moment
    PROVE  LET d == Renewed(c, r, moment)
           IN  Moved(c, d) /\ d.runs = c.runs
<1> DEFINE d == Renewed(c, r, moment)
           s == c.runs[r].schedule
           old == c.schedules[s]
           until == moment + Lease
           new == [old EXCEPT !.until = until]
<1>1. /\ r \in DOMAIN c.runs /\ s \in DOMAIN c.schedules /\ old \in Schedule /\ old.active = r
      /\ DOMAIN c = {"revision", "schedules", "last", "runs"} /\ r # NoRun
  BY DEF Sane, SoundSchedule, Owns, IsCatalog, NoRun
<1>2. d.runs = c.runs
  BY DEF Renewed
<1>3. d.schedules = [c.schedules EXCEPT ![s] = new]
  BY <1>1 DEF Renewed
<1>4. c.runs[r].due = old.next
  BY <1>1 DEF ChainAt
<1>5. old.next \in Nat /\ old.next < until
  <2>1. old.next \in Nat /\ Lease \in Nat \ {0}
    BY <1>1, StoreAssumption DEF Schedule
  <2>2. old.next <= moment
    BY <1>4
  <2> HIDE DEF old
  <2> QED
    BY <2>1, <2>2
<1> HIDE DEF d, until, new, old
<1>6. /\ new.plan = old.plan /\ new.next = old.next /\ new.origin = old.origin
      /\ new.attempt = old.attempt /\ new.active = old.active /\ new.until = until
  BY <1>1 DEF new, Schedule
<1>7. Progress(c, s, new)
  BY <1>5, <1>6 DEF Progress, Kept, old
<1> HIDE DEF s
<1>8. Moved(c, d)
  BY <1>1, <1>2, <1>3, <1>7, OneMoves DEF RunsPersist
<1> QED
  BY <1>2, <1>8 DEF d

\* attach_job extends the lease of its run.
LEMMA AttachJobMoves ==
    ASSUME NEW c, Sane(c), NEW claims, \A s \in DOMAIN c.schedules : ChainAt(c, claims, s),
           NEW r, NEW w, Owns(c, r, w), NEW j, NEW moment \in Nat, c.runs[r].due <= moment
    PROVE  Moved(c, AttachJob(c, r, j, moment))
<1> DEFINE d == AttachJob(c, r, j, moment)
           e == Renewed(c, r, moment)
           run == c.runs[r]
           linked == [run EXCEPT !.job = j]
<1>1. Moved(c, e) /\ e.runs = c.runs
  BY RenewedMoves
<1>2. DOMAIN e = DOMAIN c /\ DOMAIN c = {"revision", "schedules", "last", "runs"}
  BY DEF Renewed, Sane, IsCatalog
<1>3. run \in Run
  BY DEF Sane, Owns
<1> HIDE DEF e, linked
<1>4. d = [e EXCEPT !.runs[r].job = j]
  BY DEF AttachJob, e
<1>5. d.schedules = e.schedules /\ d.runs = [c.runs EXCEPT ![r] = linked]
  BY <1>1, <1>2, <1>4 DEF linked
<1>6. linked.schedule = run.schedule /\ linked.due = run.due /\ linked.attempt = run.attempt
  BY <1>3 DEF linked, Run
<1> HIDE DEF d
<1>7. RunsPersist(c, d)
  BY <1>5, <1>6 DEF RunsPersist
<1> QED
  BY <1>1, <1>5, <1>7 DEF Moved, d

\* The schedules page changes what is enabled, the revision and the plans there
\* are.
LEMMA SetEnabledMoves ==
    ASSUME NEW c, Sane(c), NEW s \in DOMAIN c.schedules, NEW enabled
    PROVE  Moved(c, SetEnabled(c, s, enabled))
<1> DEFINE d == SetEnabled(c, s, enabled)
           e == [c EXCEPT !.schedules[s].enabled = enabled]
           old == c.schedules[s]
           new == [old EXCEPT !.enabled = enabled]
<1>1. old \in Schedule /\ DOMAIN c = {"revision", "schedules", "last", "runs"}
  BY DEF Sane, SoundSchedule, IsCatalog
<1>2. DOMAIN e = DOMAIN c /\ e.schedules = [c.schedules EXCEPT ![s] = new] /\ e.runs = c.runs
  BY <1>1
<1>3. d = Revised(e)
  BY DEF SetEnabled
<1> HIDE DEF d, e, old, new
<1>4. d.schedules = [c.schedules EXCEPT ![s] = new] /\ d.runs = c.runs
  BY <1>1, <1>2, <1>3, RevisedFields
<1>5. /\ new.plan = old.plan /\ new.next = old.next /\ new.origin = old.origin
      /\ new.attempt = old.attempt /\ new.active = old.active /\ new.until = old.until
  BY <1>1 DEF new, Schedule
<1>6. Progress(c, s, new)
  BY <1>5 DEF Progress, Kept, old
<1>7. Moved(c, d)
  BY <1>4, <1>6, OneMoves DEF RunsPersist
<1> QED
  BY <1>7 DEF d

\* The maintenance windows are saved under a new revision.
LEMMA RevisedMoves ==
    ASSUME NEW c, Sane(c)
    PROVE  Moved(c, Revised(c))
<1>1. Revised(c).schedules = c.schedules /\ Revised(c).runs = c.runs
  BY RevisedFields DEF Sane, IsCatalog
<1> QED
  BY <1>1 DEF Moved, Progress, Kept, RunsPersist

\* A schedule that is created retries nothing and holds no lease.
LEMMA CreateMoves ==
    ASSUME NEW c, Sane(c), NEW plan, NEW s, s \notin DOMAIN c.schedules
    PROVE  Moved(c, CreateSchedule(c, s, plan))
<1> DEFINE d == CreateSchedule(c, s, plan)
           schedules == [t \in DOMAIN c.schedules \cup {s} |->
                           IF t = s THEN NewSchedule(plan) ELSE c.schedules[t]]
           e == [c EXCEPT !.schedules = schedules]
<1>1. DOMAIN c = {"revision", "schedules", "last", "runs"}
  BY DEF Sane, IsCatalog
<1>2. DOMAIN e = DOMAIN c /\ e.runs = c.runs /\ e.schedules = schedules
  BY <1>1
<1>3. d = Revised(e)
  BY DEF CreateSchedule
<1>4. /\ DOMAIN schedules = DOMAIN c.schedules \cup {s}
      /\ \A t \in DOMAIN c.schedules : schedules[t] = c.schedules[t]
      /\ schedules[s] = NewSchedule(plan)
  OBVIOUS
<1> HIDE DEF d, e, schedules
<1>5. d.schedules = schedules /\ d.runs = c.runs
  BY <1>1, <1>2, <1>3, RevisedFields
<1>6. /\ NewSchedule(plan).origin = NoTime /\ NewSchedule(plan).attempt = 1
      /\ NewSchedule(plan).active = NoRun
  BY DEF NewSchedule
<1>7. Moved(c, d)
  BY <1>4, <1>5, <1>6 DEF Moved, Progress, Kept, RunsPersist
<1> QED
  BY <1>7 DEF d

\* The claims that were launched or may still be.
Claimed == launched \cup UNION {local[w].claims : w \in Workers}

\* What is claimed is within the plans, and every schedule follows its claims.
RetryInv == Retries(catalog, Claimed)

\* The runs a worker holds on to.
Seen(w) == {pair[2] : pair \in active[w]} \cup {x.run : x \in local[w].claims}

\* No run was due later than it is now, and none that a worker holds on to
\* later than its tick began.
ClockInv ==
    /\ \A r \in DOMAIN catalog.runs : catalog.runs[r].due <= clock
    /\ \A w \in Workers : local[w].pc # "idle" =>
         /\ local[w].now <= clock
         /\ \A r \in Seen(w) : r \in DOMAIN catalog.runs => catalog.runs[r].due <= local[w].now

\* What becomes of the claims in a tick.
LEMMA TickClaims ==
    ASSUME IndInv, NEW w \in Workers, Tick(w)
    PROVE  \/ /\ local'[w].claims \subseteq local[w].claims
              /\ launched' \subseteq launched \cup local[w].claims
           \/ /\ Claim(w) /\ launched' = launched
              /\ local'[w].claims = NewClaims(catalog, local[w].now)
<1>1. local \in [Workers -> Ticks]
  BY DEF IndInv, TicksInv
<1>2. CASE BeginTick(w) \/ EndTick(w) \/ TickFails(w)
  <2>1. local'[w].claims = {} /\ launched' = launched
    <3>1. CASE BeginTick(w)
      BY <1>1, <3>1 DEF BeginTick, Idle
    <3>2. CASE EndTick(w)
      BY <1>1, <3>2 DEF EndTick, Idle
    <3>3. CASE TickFails(w)
      <4>1. local' = [local EXCEPT ![w] = Idle] /\ launched' = launched
        BY <3>3 DEF TickFails
      <4> QED
        BY <1>1, <4>1 DEF Idle
    <3> QED
      BY <1>2, <3>1, <3>2, <3>3
  <2> QED
    BY <2>1
<1>3. CASE LookUp(w) \/ Settle(w) \/ Renew(w)
  <2>1. launched' = launched
    BY <1>3 DEF LookUp, Settle, Renew
  <2>2. local'[w].claims = local[w].claims
    <3>1. CASE LookUp(w)
      BY <1>1, <3>1 DEF LookUp, Ticks
    <3>2. CASE Settle(w)
      BY <1>1, <3>2 DEF Settle, Ticks
    <3>3. CASE Renew(w)
      BY <1>1, <3>3 DEF Renew, Ticks
    <3> QED
      BY <1>3, <3>1, <3>2, <3>3
  <2> QED
    BY <2>1, <2>2
<1>4. CASE DoneWithJob(w)
  <2>1. local'[w].claims = {} /\ launched' = launched
    BY <1>1, <1>4 DEF DoneWithJob, Idle
  <2> QED
    BY <2>1
<1>5. CASE LaunchFails(w) \/ Attach(w) \/ AttachRefused(w) \/ GiveUp(w)
  <2>1. launched' = launched
    BY <1>5 DEF LaunchFails, Attach, AttachRefused, GiveUp
  <2>2. local'[w].claims \subseteq local[w].claims
    <3>1. CASE LaunchFails(w)
      BY <1>1, <3>1 DEF LaunchFails, Ticks
    <3>2. CASE Attach(w)
      BY <1>1, <3>2 DEF Attach, Ticks
    <3>3. CASE AttachRefused(w)
      BY <1>1, <3>3 DEF AttachRefused, Ticks
    <3>4. CASE GiveUp(w)
      BY <1>1, <3>4 DEF GiveUp, Ticks
    <3> QED
      BY <1>5, <3>1, <3>2, <3>3, <3>4
  <2> QED
    BY <2>1, <2>2
<1>6. CASE LaunchStarts(w)
  <2>1. launched' = launched \cup {NextClaim(local[w].claims)} /\ local[w].claims # {}
    BY <1>6 DEF LaunchStarts
  <2>2. NextClaim(local[w].claims) \in local[w].claims
    BY <2>1, TickFacts
  <2>3. local'[w].claims = local[w].claims
    BY <1>1, <1>6 DEF LaunchStarts, Ticks
  <2> QED
    BY <2>1, <2>2, <2>3
<1>7. CASE Claim(w)
  BY <1>1, <1>7 DEF Claim, Ticks, NewClaims
<1> QED
  BY <1>2, <1>3, <1>4, <1>5, <1>6, <1>7 DEF Tick, Reconcile, Launch

\* Only a pass makes claims.
LEMMA ClaimedStep ==
    ASSUME IndInv, [Next]_vars
    PROVE  \/ Claimed' \subseteq Claimed
           \/ \E w \in Workers :
                /\ Claim(w)
                /\ Claimed' \subseteq Claimed \cup NewClaims(catalog, local[w].now)
<1>1. ASSUME UNCHANGED <<local, launched>> PROVE Claimed' \subseteq Claimed
  BY <1>1 DEF Claimed
<1>2. CASE UNCHANGED vars
  BY <1>1, <1>2 DEF vars, workerVars
<1>3. ASSUME NEW w \in Workers, Tick(w)
      PROVE  \/ Claimed' \subseteq Claimed
             \/ Claim(w) /\ Claimed' \subseteq Claimed \cup NewClaims(catalog, local[w].now)
  <2>1. \A v \in Workers : v # w => local'[v] = local[v]
    BY <1>3, OthersWait
  <2>2. \/ /\ local'[w].claims \subseteq local[w].claims
           /\ launched' \subseteq launched \cup local[w].claims
        \/ /\ Claim(w) /\ launched' = launched
           /\ local'[w].claims = NewClaims(catalog, local[w].now)
    BY <1>3, TickClaims
  <2> QED
    BY <2>1, <2>2 DEF Claimed
<1>4. CASE Restart
  <2>1. launched' = launched /\ \A v \in Workers : local'[v].claims = {}
    BY <1>4 DEF Restart, Idle
  <2> QED
    BY <2>1 DEF Claimed
<1>5. CASE ReadRows \/ ReadRevision \/ SubmitCreate \/ SubmitState \/ SubmitWindow \/ ManualStart
           \/ ManualCancel \/ JobEnds \/ ClockTick \/ ClockSetBack
  BY <1>1, <1>5 DEF ReadRows, ReadRevision, SubmitCreate, SubmitState, SubmitWindow, Edited,
                    ManualStart, ManualCancel, JobEnds, ClockTick, ClockSetBack, workerVars
<1> QED
  BY <1>2, <1>3, <1>4, <1>5 DEF Next

\* A tick holds on to runs it held on to, or that it claims, and keeps the time
\* it began at.
LEMMA TickSeen ==
    ASSUME IndInv, NEW w \in Workers, Tick(w), local'[w].pc # "idle"
    PROVE  \/ BeginTick(w) /\ local'[w].now = clock
           \/ /\ local[w].pc # "idle" /\ local'[w].now = local[w].now
              /\ \/ Seen(w)' \subseteq Seen(w)
                 \/ /\ Claim(w)
                    /\ Seen(w)' \subseteq
                         Seen(w) \cup {x.run : x \in NewClaims(catalog, local[w].now)}
<1>1. local \in [Workers -> Ticks] /\ active \in [Workers -> SUBSET (Nat \X Nat)]
  BY DEF IndInv, TicksInv, WatchInv
<1>2. CASE BeginTick(w)
  BY <1>1, <1>2 DEF BeginTick, Idle
<1>3. CASE EndTick(w) \/ TickFails(w)
  BY <1>1, <1>3 DEF EndTick, TickFails, Idle
<1>4. CASE LookUp(w)
  BY <1>1, <1>4 DEF LookUp, Ticks, Seen
<1>5. CASE Settle(w)
  BY <1>1, <1>5 DEF Settle, Ticks, Seen
<1>6. CASE Renew(w)
  BY <1>1, <1>6 DEF Renew, Ticks, Seen
<1>7. CASE DoneWithJob(w)
  <2>1. /\ local[w].pc # "idle" /\ local'[w].now = local[w].now
        /\ local'[w].claims = {}
    BY <1>1, <1>7 DEF DoneWithJob, Idle
  <2>2. active'[w] \subseteq active[w]
    BY <1>1, <1>7 DEF DoneWithJob
  <2> QED
    BY <2>1, <2>2 DEF Seen
<1>8. CASE LaunchFails(w)
  BY <1>1, <1>8 DEF LaunchFails, Ticks, Seen
<1>9. CASE LaunchStarts(w)
  BY <1>1, <1>9 DEF LaunchStarts, Ticks, Seen
<1>10. CASE AttachRefused(w)
  BY <1>1, <1>10 DEF AttachRefused, Ticks, Seen
<1>11. CASE GiveUp(w)
  BY <1>1, <1>11 DEF GiveUp, Ticks, Seen
<1>12. CASE Attach(w)
  <2> DEFINE claim == NextClaim(local[w].claims)
  <2>1. claim \in local[w].claims
    <3>1. local[w].claims # {}
      BY <1>12 DEF Attach, IndInv, TicksInv, TickOK
    <3> QED
      BY <3>1, TickFacts
  <2>2. /\ local[w].pc # "idle" /\ local'[w].now = local[w].now
        /\ local'[w].claims \subseteq local[w].claims
    BY <1>1, <1>12 DEF Attach, Ticks
  <2>3. active'[w] = active[w] \cup {<<local[w].job, claim.run>>}
    BY <1>1, <1>12 DEF Attach
  <2> HIDE DEF claim
  <2> QED
    BY <2>1, <2>2, <2>3 DEF Seen
<1>13. CASE Claim(w)
  <2>1. /\ local[w].pc # "idle" /\ local'[w].now = local[w].now
        /\ local'[w].claims = NewClaims(catalog, local[w].now)
        /\ active' = active
    BY <1>1, <1>13 DEF Claim, Ticks, NewClaims
  <2> QED
    BY <1>13, <2>1 DEF Seen
<1> QED
  BY <1>2, <1>3, <1>4, <1>5, <1>6, <1>7, <1>8, <1>9, <1>10, <1>11, <1>12, <1>13
     DEF Tick, Reconcile, Launch

\* A step that is not a pass of claim_due claims nothing.
LEMMA MovedStep ==
    ASSUME IndInv, ClockInv, RetryInv, [Next]_vars
    PROVE  \/ catalog' = catalog
           \/ Valid(catalog) /\ Moved(catalog, catalog')
           \/ \E w \in Workers : Claim(w)
<1>1. /\ Sane(catalog)
      /\ Valid(catalog) => \A s \in DOMAIN catalog.schedules : ChainAt(catalog, Claimed, s)
  BY DEF IndInv, CatalogInv, RetryInv, Retries
<1>2. ASSUME NEW w \in Workers, Tick(w)
      PROVE  \/ catalog' = catalog
             \/ Valid(catalog) /\ Moved(catalog, catalog')
             \/ Claim(w)
  <2>1. /\ local[w].pc # "idle" => local[w].now \in Nat
        /\ local[w].claims # {} => NextClaim(local[w].claims) \in local[w].claims
    BY <1>2, TickFacts
  <2>2. local[w].pc # "idle" =>
          \A r \in Seen(w) : r \in DOMAIN catalog.runs => catalog.runs[r].due <= local[w].now
    BY DEF ClockInv
  <2>3. local[w].pc = "settle" => local[w].runs \subseteq Seen(w)
    BY DEF IndInv, SettleInv, RunsOf, Seen
  <2>4. local[w].claims # {} => NextClaim(local[w].claims).run \in Seen(w)
    BY <2>1 DEF Seen
  <2>5. local[w].pc \in {"attach", "giveup"} => local[w].claims # {}
    BY DEF IndInv, TicksInv, TickOK
  <2>6. ASSUME NEW r \in Seen(w), NEW status, CanComplete(r), local[w].pc # "idle",
               catalog' = CompleteRun(catalog, r, status, local[w].now)
        PROVE  Valid(catalog) /\ Moved(catalog, catalog')
    <3>1. Valid(catalog) /\ r \in DOMAIN catalog.runs
      BY <2>6 DEF CanComplete, Readable
    <3>2. catalog.runs[r].due <= local[w].now /\ local[w].now \in Nat
      BY <2>1, <2>2, <2>6, <3>1
    <3> QED
      BY <1>1, <2>6, <3>1, <3>2, CompleteRunMoves
  <2>7. CASE BeginTick(w) \/ LookUp(w) \/ DoneWithJob(w) \/ LaunchStarts(w)
             \/ AttachRefused(w) \/ EndTick(w) \/ TickFails(w)
    BY <2>7 DEF BeginTick, LookUp, DoneWithJob, LaunchStarts, AttachRefused, EndTick,
                TickFails, storeVars
  <2>8. CASE Settle(w)
    <3>1. local[w].pc = "settle"
      BY <2>8 DEF Settle
    <3>2. PICK r \in local[w].runs :
            /\ CanComplete(r)
            /\ catalog' = CompleteRun(catalog, r, local[w].verdict, local[w].now)
      BY <2>8 DEF Settle
    <3>3. r \in Seen(w)
      BY <2>3, <3>1
    <3> QED
      BY <2>6, <3>1, <3>2, <3>3
  <2>9. CASE Renew(w)
    <3>1. Valid(catalog) /\ local[w].pc = "settle" /\ local[w].now \in Nat
      BY <2>1, <2>9 DEF Renew, Readable
    <3>2. PICK r \in local[w].runs :
            catalog' = IF Owns(catalog, r, w) THEN Renewed(catalog, r, local[w].now) ELSE catalog
      BY <2>9 DEF Renew
    <3>3. CASE Owns(catalog, r, w)
      <4>1. r \in DOMAIN catalog.runs /\ r \in Seen(w)
        BY <2>3, <3>1, <3>3 DEF Owns
      <4>2. catalog.runs[r].due <= local[w].now
        BY <2>2, <3>1, <4>1
      <4>3. catalog' = Renewed(catalog, r, local[w].now)
        BY <3>2, <3>3
      <4>4. Moved(catalog, catalog')
        BY <1>1, <3>1, <3>3, <4>2, <4>3, RenewedMoves
      <4> QED
        BY <3>1, <4>4
    <3> QED
      BY <3>2, <3>3
  <2>10. CASE LaunchFails(w) \/ GiveUp(w)
    <3> DEFINE r == NextClaim(local[w].claims).run
               status == "failed"
    <3>1. /\ local[w].claims # {} /\ local[w].pc # "idle" /\ CanComplete(r)
          /\ catalog' = CompleteRun(catalog, r, status, local[w].now)
      BY <2>5, <2>10 DEF LaunchFails, GiveUp
    <3>2. r \in Seen(w)
      BY <2>4, <3>1
    <3> HIDE DEF r, status
    <3> QED
      BY <2>6, <3>1, <3>2
  <2>11. CASE Attach(w)
    <3> DEFINE r == NextClaim(local[w].claims).run
               j == local[w].job
               moment == local[w].now
    <3>1. /\ Valid(catalog) /\ Owns(catalog, r, w) /\ local[w].pc = "attach"
          /\ catalog' = AttachJob(catalog, r, j, moment)
      BY <2>11 DEF Attach, Readable
    <3>2. r \in Seen(w) /\ r \in DOMAIN catalog.runs /\ moment \in Nat
      BY <2>1, <2>4, <2>5, <3>1 DEF Owns
    <3>3. catalog.runs[r].due <= moment
      BY <2>2, <3>1, <3>2
    <3> HIDE DEF r, j, moment
    <3>4. Moved(catalog, catalog')
      BY <1>1, <3>1, <3>2, <3>3, AttachJobMoves
    <3> QED
      BY <3>1, <3>4
  <2> QED
    BY <1>2, <2>7, <2>8, <2>9, <2>10, <2>11 DEF Tick, Reconcile, Launch
<1>3. CASE SubmitCreate
  <2> DEFINE s == Cardinality(DOMAIN catalog.schedules) + 1
  <2>1. PICK plan \in Offers :
          Valid(catalog) /\ catalog' = CreateSchedule(catalog, s, plan)
    BY <1>3 DEF SubmitCreate, Edited, Accepted, Readable
  <2>2. s \notin DOMAIN catalog.schedules
    <3>1. PICK n \in Nat : DOMAIN catalog.schedules = 1 .. n
      BY <1>1 DEF Sane, IsCatalog
    <3>2. 1 \in Int /\ n \in Int
      OBVIOUS
    <3>3. Cardinality(1 .. n) = IF 1 > n THEN 0 ELSE n - 1 + 1
      BY <3>2, FS_Interval
    <3>4. Cardinality(1 .. n) = n
      BY <3>3
    <3> QED
      BY <3>1, <3>4
  <2> HIDE DEF s
  <2>3. Moved(catalog, catalog')
    BY <1>1, <2>1, <2>2, CreateMoves
  <2> QED
    BY <2>1, <2>3
<1>4. CASE SubmitState
  <2>1. PICK s \in DOMAIN page.rows :
          /\ Valid(catalog)
          /\ catalog' = SetEnabled(catalog, s, ~page.rows[s].enabled)
    BY <1>4 DEF SubmitState, Edited, Accepted, Readable
  <2>2. s \in DOMAIN catalog.schedules
    BY DEF IndInv, PageInv
  <2> DEFINE enabled == ~page.rows[s].enabled
  <2>3. catalog' = SetEnabled(catalog, s, enabled)
    BY <2>1
  <2> HIDE DEF enabled
  <2>4. Moved(catalog, catalog')
    BY <1>1, <2>2, <2>3, SetEnabledMoves
  <2> QED
    BY <2>1, <2>4
<1>5. CASE SubmitWindow
  <2>1. Valid(catalog) /\ catalog' = Revised(catalog)
    BY <1>5 DEF SubmitWindow, Edited, Accepted, Readable
  <2>2. Moved(catalog, catalog')
    BY <1>1, <2>1, RevisedMoves
  <2> QED
    BY <2>1, <2>2
<1>6. CASE ReadRows \/ ReadRevision \/ ManualStart \/ ManualCancel \/ JobEnds \/ ClockTick
           \/ ClockSetBack \/ Restart \/ UNCHANGED vars
  BY <1>6 DEF ReadRows, ReadRevision, ManualStart, ManualCancel, JobEnds, ClockTick,
              ClockSetBack, Restart, storeVars, vars
<1> QED
  BY <1>2, <1>3, <1>4, <1>5, <1>6 DEF Next

\* A pass at the moment its tick began.
LEMMA ClaimFacts ==
    ASSUME IndInv, NEW w \in Workers, Claim(w)
    PROVE  /\ Sane(catalog) /\ Valid(catalog) /\ local[w].now \in Nat /\ local[w].pc # "idle"
           /\ catalog' = ClaimDue(catalog, w, local[w].now)
<1>1. local[w].pc = "reconcile" /\ Valid(catalog) /\ catalog' = ClaimDue(catalog, w, local[w].now)
  BY DEF Claim, Readable
<1>2. local[w].now \in Nat
  BY <1>1, TickFacts
<1> QED
  BY <1>1, <1>2 DEF IndInv, CatalogInv

\* The retries stay within the plan whoever takes the step: a pass claims an
\* occurrence whose key no run carries, and only the run that carries the key
\* moves the schedule to its retry.
LEMMA RetryStep ==
    ASSUME IndInv, ClockInv, RetryInv, [Next]_vars, Remembers(catalog, catalog')
    PROVE  RetryInv'
<1>1. Sane(catalog) /\ Sane(catalog') /\ Retries(catalog, Claimed)
  BY StepInv DEF IndInv, CatalogInv, RetryInv
<1> SUFFICES Retries(catalog', Claimed')
  BY DEF RetryInv
<1> DEFINE claims == Claimed
           after == Claimed'
           later == catalog'
<1>2. CASE \E w \in Workers :
             Claim(w) /\ Claimed' \subseteq Claimed \cup NewClaims(catalog, local[w].now)
  <2>1. PICK w \in Workers :
          Claim(w) /\ Claimed' \subseteq Claimed \cup NewClaims(catalog, local[w].now)
    BY <1>2
  <2> DEFINE now == local[w].now
  <2>2. Valid(catalog) /\ now \in Nat /\ later = ClaimDue(catalog, w, now)
    BY <2>1, ClaimFacts
  <2>3. after \subseteq claims \cup NewClaims(catalog, now)
    BY <2>1
  <2>4. Retries(catalog, claims) /\ Remembers(catalog, later)
    BY <1>1
  <2> HIDE DEF now, claims, after, later
  <2>5. Retries(later, after)
    BY <1>1, <2>2, <2>3, <2>4, ClaimedRetries
  <2> QED
    BY <2>5 DEF later, after
<1>3. CASE Claimed' \subseteq Claimed /\ ~\E w \in Workers : Claim(w)
  <2>1. after \in SUBSET claims
    BY <1>3
  <2>2. catalog' = catalog \/ (Valid(catalog) /\ Moved(catalog, catalog'))
    BY <1>3, MovedStep
  <2>3. CASE later = catalog
    <3>1. Retries(catalog, claims)
      BY <1>1
    <3> HIDE DEF claims, after, later
    <3>2. Retries(later, after)
      BY <1>1, <2>1, <2>3, <3>1, FewerRetries
    <3> QED
      BY <3>2 DEF later, after
  <2>4. CASE Valid(catalog) /\ Moved(catalog, later)
    <3>1. Retries(catalog, claims) /\ Remembers(catalog, later) /\ Sane(later)
      BY <1>1
    <3> HIDE DEF claims, after, later
    <3>2. Retries(later, after)
      BY <1>1, <2>1, <2>4, <3>1, MovedRetries
    <3> QED
      BY <3>2 DEF later, after
  <2> QED
    BY <2>2, <2>3, <2>4
<1>4. CASE Claimed' \subseteq Claimed /\ \E w \in Workers : Claim(w)
  <2>1. PICK w \in Workers : Claim(w)
    BY <1>4
  <2>2. Claimed' \subseteq Claimed \cup NewClaims(catalog, local[w].now)
    BY <1>4
  <2> QED
    BY <1>2, <2>1, <2>2
<1> QED
  BY <1>2, <1>3, <1>4, ClaimedStep

\* No run is due later than the pass that claims it.
LEMMA DuesAfter ==
    ASSUME IndInv, ClockInv, RetryInv, [Next]_vars
    PROVE  \/ RunsPersist(catalog, catalog')
           \/ \E w \in Workers :
                /\ Claim(w)
                /\ \A r \in DOMAIN catalog'.runs :
                     IF r <= catalog.last
                     THEN r \in DOMAIN catalog.runs /\ catalog'.runs[r].due = catalog.runs[r].due
                     ELSE catalog'.runs[r].due <= local[w].now
<1>1. CASE \E w \in Workers : Claim(w)
  <2>1. PICK w \in Workers : Claim(w)
    BY <1>1
  <2> DEFINE now == local[w].now
  <2>2. Sane(catalog) /\ Valid(catalog) /\ now \in Nat /\ catalog' = ClaimDue(catalog, w, now)
    BY <2>1, ClaimFacts
  <2> HIDE DEF now
  <2>3. \A s \in Claimers(catalog, now) : catalog.schedules[s].next <= now
    BY <2>2, VisitedClaim
  <2>4. \A r \in DOMAIN catalog'.runs :
          IF r <= catalog.last
          THEN r \in DOMAIN catalog.runs /\ catalog'.runs[r].due = catalog.runs[r].due
          ELSE catalog'.runs[r].due <= now
    <3> SUFFICES ASSUME NEW r \in DOMAIN catalog'.runs
                 PROVE  IF r <= catalog.last
                        THEN /\ r \in DOMAIN catalog.runs
                             /\ catalog'.runs[r].due = catalog.runs[r].due
                        ELSE catalog'.runs[r].due <= now
      OBVIOUS
    <3>1. IF r <= catalog.last
          THEN r \in DOMAIN catalog.runs /\ catalog'.runs[r].due = catalog.runs[r].due
          ELSE \E s \in Claimers(catalog, now) : catalog'.runs[r].due = catalog.schedules[s].next
      BY <2>2, RunsAfterClaim
    <3> QED
      BY <2>3, <3>1
  <2> QED
    BY <2>1, <2>4 DEF now
<1>2. CASE ~\E w \in Workers : Claim(w)
  <2>1. catalog' = catalog \/ Moved(catalog, catalog')
    BY <1>2, MovedStep
  <2> QED
    BY <2>1 DEF Moved, RunsPersist
<1> QED
  BY <1>1, <1>2

\* While the clock goes forward, no run becomes one that is due later than now.
LEMMA ClockStep ==
    ASSUME IndInv, ClockInv, RetryInv, [Next]_vars, clock' >= clock
    PROVE  ClockInv'
<1>1. /\ Sane(catalog) /\ Sane(catalog') /\ clock \in Nat /\ clock' \in Nat
      /\ catalog.last \in Nat /\ DOMAIN catalog.runs \subseteq 1 .. catalog.last
      /\ \A r \in DOMAIN catalog.runs : catalog.runs[r].due \in Nat
      /\ \A r \in DOMAIN catalog'.runs : catalog'.runs[r].due \in Nat
      /\ IndInv'
  BY StepInv DEF IndInv, CatalogInv, JobsInv, Sane, Run, IsCatalog
<1>2. \A w \in Workers : local[w].pc # "idle" => local[w].now \in Nat /\ local[w].now <= clock
  BY TickFacts DEF ClockInv
<1>3. \A w \in Workers : \A r \in Seen(w) : r \in Nat /\ r <= catalog.last
  <2> SUFFICES ASSUME NEW w \in Workers, NEW r \in Seen(w)
               PROVE  r \in Nat /\ r <= catalog.last
    OBVIOUS
  <2>1. CASE \E pair \in active[w] : r = pair[2]
    <3>1. active[w] \subseteq (1 .. created) \X (1 .. catalog.last)
      BY DEF IndInv, WatchInv
    <3>2. r \in 1 .. catalog.last
      BY <2>1, <3>1
    <3> QED
      BY <1>1, <3>2
  <2>2. CASE \E x \in local[w].claims : r = x.run
    BY <2>2 DEF IndInv, TicksInv, TickOK, Ticks, Claims
  <2> QED
    BY <2>1, <2>2 DEF Seen
<1>4. \A r \in DOMAIN catalog'.runs : r <= catalog.last =>
        r \in DOMAIN catalog.runs /\ catalog'.runs[r].due = catalog.runs[r].due
  BY DuesAfter DEF RunsPersist
<1>5. ASSUME NEW r \in DOMAIN catalog'.runs
      PROVE  catalog'.runs[r].due <= clock'
  <2>1. CASE RunsPersist(catalog, catalog')
    <3>1. r \in DOMAIN catalog.runs /\ catalog'.runs[r].due = catalog.runs[r].due
      BY <2>1 DEF RunsPersist
    <3>2. catalog.runs[r].due <= clock
      BY <3>1 DEF ClockInv
    <3> QED
      BY <1>1, <3>1, <3>2
  <2>2. ASSUME NEW w \in Workers, Claim(w),
               IF r <= catalog.last
               THEN r \in DOMAIN catalog.runs /\ catalog'.runs[r].due = catalog.runs[r].due
               ELSE catalog'.runs[r].due <= local[w].now
        PROVE  catalog'.runs[r].due <= clock'
    <3>1. local[w].now \in Nat /\ local[w].now <= clock
      BY <1>2, <2>2, ClaimFacts
    <3>2. catalog'.runs[r].due <= clock
      BY <1>1, <2>2, <3>1 DEF ClockInv
    <3> QED
      BY <1>1, <3>2
  <2> QED
    BY <1>5, <2>1, <2>2, DuesAfter
<1>6. ASSUME NEW w \in Workers, local'[w].pc # "idle", local[w].pc # "idle",
             local'[w].now = local[w].now, Seen(w)' \subseteq Seen(w)
      PROVE  /\ local'[w].now <= clock'
             /\ \A r \in Seen(w)' : r \in DOMAIN catalog'.runs =>
                  catalog'.runs[r].due <= local'[w].now
  <2>1. local'[w].now <= clock'
    BY <1>1, <1>2, <1>6
  <2>2. \A r \in Seen(w) : r \in DOMAIN catalog.runs => catalog.runs[r].due <= local[w].now
    BY <1>6 DEF ClockInv
  <2> QED
    BY <1>3, <1>4, <1>6, <2>1, <2>2
<1>7. ASSUME NEW w \in Workers, local'[w].pc # "idle"
      PROVE  /\ local'[w].now <= clock'
             /\ \A r \in Seen(w)' : r \in DOMAIN catalog'.runs =>
                  catalog'.runs[r].due <= local'[w].now
  <2>1. ASSUME UNCHANGED <<local, active>>
        PROVE  /\ local'[w].now <= clock'
               /\ \A r \in Seen(w)' : r \in DOMAIN catalog'.runs =>
                    catalog'.runs[r].due <= local'[w].now
    BY <1>6, <1>7, <2>1 DEF Seen
  <2>2. CASE UNCHANGED vars \/ ReadRows \/ ReadRevision \/ SubmitCreate \/ SubmitState
             \/ SubmitWindow \/ ManualStart \/ ManualCancel \/ JobEnds \/ ClockTick
             \/ ClockSetBack
    BY <2>1, <2>2 DEF ReadRows, ReadRevision, SubmitCreate, SubmitState, SubmitWindow, Edited,
                      ManualStart, ManualCancel, JobEnds, ClockTick, ClockSetBack, workerVars,
                      vars
  <2>3. CASE Restart
    BY <1>7, <2>3 DEF Restart, Idle
  <2>4. ASSUME NEW v \in Workers, Tick(v), v # w
        PROVE  /\ local'[w].now <= clock'
               /\ \A r \in Seen(w)' : r \in DOMAIN catalog'.runs =>
                    catalog'.runs[r].due <= local'[w].now
    <3>1. local'[w] = local[w] /\ active'[w] = active[w]
      BY <2>4, OthersWait
    <3> QED
      BY <1>6, <1>7, <3>1 DEF Seen
  <2>5. ASSUME Tick(w)
        PROVE  /\ local'[w].now <= clock'
               /\ \A r \in Seen(w)' : r \in DOMAIN catalog'.runs =>
                    catalog'.runs[r].due <= local'[w].now
    <3>1. CASE BeginTick(w) /\ local'[w].now = clock
      <4>1. catalog' = catalog /\ clock' = clock
        BY <3>1 DEF BeginTick, storeVars, worldVars
      <4> QED
        BY <1>1, <3>1, <4>1 DEF ClockInv
    <3>2. CASE /\ local[w].pc # "idle" /\ local'[w].now = local[w].now
               /\ Seen(w)' \subseteq Seen(w)
      BY <1>6, <1>7, <3>2
    <3>3. CASE /\ local[w].pc # "idle" /\ local'[w].now = local[w].now /\ Claim(w)
               /\ Seen(w)' \subseteq Seen(w) \cup {x.run : x \in NewClaims(catalog, local[w].now)}
      <4> DEFINE now == local[w].now
      <4>1. now <= clock' /\ now \in Nat
        BY <1>1, <1>2, <3>3
      <4>2. Sane(catalog) /\ Valid(catalog) /\ catalog' = ClaimDue(catalog, w, now)
        BY <3>3, ClaimFacts
      <4>3. \A s \in Claimers(catalog, now) : catalog.schedules[s].next <= now
        BY <4>1, <4>2, VisitedClaim
      <4>4. \A r \in Seen(w) : r \in DOMAIN catalog.runs => catalog.runs[r].due <= now
        BY <3>3 DEF ClockInv
      <4>5. \A x \in NewClaims(catalog, now) : x.run > catalog.last /\ x.run \in Nat
        BY <4>2, NewClaimFacts DEF Claims
      <4>6. ASSUME NEW r \in Seen(w)', r \in DOMAIN catalog'.runs
            PROVE  catalog'.runs[r].due <= now
        <5>1. CASE r \in Seen(w)
          BY <1>3, <1>4, <4>4, <4>6, <5>1
        <5>2. CASE r \notin Seen(w)
          <6>1. ~(r <= catalog.last)
            <7>1. r \in {x.run : x \in NewClaims(catalog, now)}
              BY <3>3, <5>2
            <7>2. r > catalog.last /\ r \in Nat
              BY <4>5, <7>1
            <7> QED
              BY <1>1, <7>2
          <6> HIDE DEF now
          <6>2. \E s \in Claimers(catalog, now) : catalog'.runs[r].due = catalog.schedules[s].next
            BY <4>1, <4>2, <4>6, <6>1, RunsAfterClaim
          <6> QED
            BY <4>3, <6>2
        <5> QED
          BY <5>1, <5>2
      <4> QED
        BY <3>3, <4>1, <4>6
    <3> QED
      BY <1>7, <2>5, <3>1, <3>2, <3>3, TickSeen
  <2> QED
    BY <2>2, <2>3, <2>4, <2>5 DEF Next
<1> QED
  BY <1>5, <1>7 DEF ClockInv

\* The plan's retries bound the claims of an occurrence, and so the launches.
LEMMA BoundedFacts ==
    ASSUME IndInv, RetryInv
    PROVE  RetriesBounded
<1> SUFFICES ASSUME NEW x \in launched
             PROVE  Cardinality({y \in launched : y.schedule = x.schedule /\ y.origin = x.origin})
                      <= catalog.schedules[x.schedule].plan.retries + 1
  BY DEF RetriesBounded
<1> DEFINE s == x.schedule
           retries == catalog.schedules[s].plan.retries
           some == {y \in launched : y.schedule = s /\ y.origin = x.origin}
           all == Tried(Claimed, s, x.origin)
<1>1. s \in DOMAIN catalog.schedules /\ AtMost(all, retries + 1)
  BY DEF RetryInv, Retries, Within, Claimed
<1>2. retries \in Nat
  <2>1. catalog.schedules[s] \in Schedule
    BY <1>1 DEF IndInv, CatalogInv, Sane, SoundSchedule
  <2> QED
    BY <2>1 DEF Schedule, Plans
<1>3. some \subseteq all
  BY DEF Tried, Claimed
<1> HIDE DEF retries, some, all
<1>4. retries + 1 \in Nat
  BY <1>2
<1>5. AtMost(some, retries + 1)
  BY <1>1, <1>3, <1>4, AtMostFewer
<1> QED
  BY <1>5 DEF AtMost, some, retries

\* At the start nothing was claimed.
LEMMA InitRetries ==
    ASSUME Init
    PROVE  ClockInv /\ RetryInv
<1>1. PICK book \in Books :
        catalog = [EmptyCatalog EXCEPT
                     !.revision = Len(book),
                     !.schedules = [s \in DOMAIN book |-> NewSchedule(book[s])]]
  BY DEF Init
<1>2. /\ catalog.runs = <<>> /\ DOMAIN catalog.schedules = DOMAIN book
      /\ \A s \in DOMAIN book : catalog.schedules[s] = NewSchedule(book[s])
  BY <1>1 DEF EmptyCatalog
<1>3. local = [w \in Workers |-> Idle] /\ launched = {}
  BY DEF Init
<1>4. DOMAIN catalog.runs = {}
  BY <1>2
<1>5. ClockInv
  BY <1>3, <1>4 DEF ClockInv, Idle
<1>6. Claimed = {}
  BY <1>3 DEF Claimed, Idle
<1>7. Within(catalog, Claimed)
  BY <1>6 DEF Within
<1>8. ASSUME NEW s \in DOMAIN catalog.schedules
      PROVE  ChainAt(catalog, Claimed, s)
  <2> DEFINE schedule == catalog.schedules[s]
             tried == Tried(Claimed, s, Origin(schedule))
  <2>1. schedule.origin = NoTime /\ schedule.attempt = 1 /\ schedule.active = NoRun
    <3>1. schedule = NewSchedule(book[s])
      BY <1>2
    <3>2. \A plan : /\ NewSchedule(plan).origin = NoTime /\ NewSchedule(plan).attempt = 1
                    /\ NewSchedule(plan).active = NoRun
      BY DEF NewSchedule
    <3> HIDE DEF schedule
    <3> QED
      BY <3>1, <3>2
  <2>2. tried = {}
    BY <1>6 DEF Tried
  <2>3. AtMost(tried, schedule.attempt - 1)
    <3>1. schedule.attempt - 1 = 0
      BY <2>1
    <3> QED
      BY <2>2, <3>1, AtMostNone
  <2>4. Duplicates(catalog, s) = {}
    BY <1>4 DEF Duplicates
  <2> QED
    BY <1>4, <2>1, <2>3, <2>4 DEF ChainAt
<1> QED
  BY <1>5, <1>7, <1>8 DEF RetryInv, Retries

\* The lease protocol keeps what it promises, whatever restarts, takeovers, late
\* results and edits come in between: a claimed run and the lease of its
\* schedule are one another's (complete_run, claim_due), and no occurrence is
\* started more often than 1 + max_retries (_after_terminal), while the wall
\* clock is not set back and the cut to the newest runs (runs[-1000:]) does not
\* forget the run that carries the key of its schedule's next occurrence.
THEOREM SpecLeasesSound ==
    /\ Spec
    /\ [][clock' >= clock]_clock
    /\ [][Remembers(catalog, catalog')]_catalog
    => []LeasesSound
<1> DEFINE Inv == IndInv /\ ClockInv /\ RetryInv
<1>1. Init => Inv
  BY InitInv, InitRetries
<1>2. Inv /\ [Next]_vars /\ [clock' >= clock]_clock /\ [Remembers(catalog, catalog')]_catalog
        => Inv'
  <2> SUFFICES ASSUME Inv, [Next]_vars, [clock' >= clock]_clock,
                      [Remembers(catalog, catalog')]_catalog
               PROVE  Inv'
    OBVIOUS
  <2>1. IndInv'
    BY StepInv
  <2>2. clock' >= clock
    BY DEF IndInv, JobsInv
  <2>3. Remembers(catalog, catalog')
    BY DEF Remembers
  <2> QED
    BY <2>1, <2>2, <2>3, ClockStep, RetryStep
<1>3. Inv => LeasesSound
  <2>1. IndInv => ClaimedIsActive
    BY DEF IndInv, CatalogInv, Sane, ClaimedActive, ClaimedIsActive
  <2> QED
    BY <2>1, BoundedFacts DEF LeasesSound
<1> QED
  BY <1>1, <1>2, <1>3, PTL DEF Spec

============================================================================
