----------------------------- MODULE DailyTimes -----------------------------
(***************************************************************************)
(* When a daily schedule is due in a time zone whose clocks change:        *)
(* _next_daily, _daily_occurrence and _valid_local_instants of             *)
(* src/founderos_atlas/scheduling.py, and resolve_local_datetime, which    *)
(* the pages use for the times that operators enter.                       *)
(*                                                                         *)
(* An instant is a number, UTC; a wall time is a number too, the day times *)
(* DayLength plus the time of the day.  A zone changes its offset from     *)
(* UTC once, at the instant `at'.  ScheduleStore keeps the rest of a       *)
(* schedule, in days of one length.                                        *)
(***************************************************************************)
EXTENDS Integers, FiniteSetsExt

CONSTANTS
    Zones,        \* [at, before, after]: when the offset changes, from what to what
    DayLength,
    LongestGap,   \* how far after a wall time that does not exist a valid one is sought
    RetryDelay,   \* the schedule's retry_delay_minutes
    EnteredWalls, \* the wall times that an operator may enter for the first run
    MaxInstant    \* bound: the last instant

\* Python wants an offset to be less than a day.  No gap is longer than the
\* search, and no clock is set back from after midnight to before it (St.
\* John's did so until 2011).
ASSUME DailyAssumption ==
    /\ DayLength \in Nat \ {0}
    /\ {LongestGap, RetryDelay, MaxInstant} \subseteq Nat
    /\ EnteredWalls \subseteq Nat
    /\ \A z \in Zones :
         /\ z.at \in Int /\ {z.before, z.after} \subseteq 1 - DayLength .. DayLength - 1
         /\ z.after - z.before <= LongestGap
         /\ z.before > z.after => (z.at + z.before - 1) \div DayLength = (z.at + z.after) \div DayLength

VARIABLES
    wallZone,     \* the schedule's time zone
    dailyTime,    \* the schedule's time of the day
    instant,      \* now
    nextRun,      \* next_run_at; NoOccurrence until the schedule is created
    counted       \* the moment from which next_run_at was counted, or NoOccurrence

dailyVars == <<wallZone, dailyTime, instant, nextRun, counted>>

NoOccurrence == -1

---------------------------------------------------------------------------
(* Time zones, as Python's zoneinfo reads them (PEP 495)                   *)

Offset(z, u) == IF u < z.at THEN z.before ELSE z.after

\* astimezone: the wall time at an instant.
Local(z, u) == u + Offset(z, u)

\* The instant of a wall time: where the offset changes, fold 0 reads it with
\* the offset before the change and fold 1 with the one after.
Instant(z, wall, fold) ==
    LET turn == z.at + (IF fold = 0 THEN Max({z.before, z.after}) ELSE Min({z.before, z.after}))
    IN wall - (IF wall < turn THEN z.before ELSE z.after)

---------------------------------------------------------------------------
(* scheduling.py                                                           *)

\* Mutant: an instant is taken as it comes, without reading it back.
ValidLocalInstantsUnread(z, wall) == {Instant(z, wall, fold) : fold \in {0, 1}}

\* The instants that read back as the wall time: one, two where the clock is
\* set back, none where it is set forward.
ValidLocalInstants(z, wall) ==
    {u \in {Instant(z, wall, fold) : fold \in {0, 1}} : Local(z, u) = wall}

\* The time an operator entered, where it is the time of exactly one instant.
ResolveLocal(z, wall) ==
    LET instants == ValidLocalInstants(z, wall)
    IN IF Cardinality(instants) = 1 THEN Min(instants) ELSE NoOccurrence

\* The first valid wall time from the day's on, at its first instant.
DailyOccurrence(z, time, day) ==
    LET wall == day * DayLength + time
        valid == {k \in 0 .. LongestGap : ValidLocalInstants(z, wall + k) # {}}
    IN Min(ValidLocalInstants(z, wall + Min(valid)))

\* Mutant: an occurrence that is due at this very moment is found again.
NextDailyNotLater(z, time, moment) ==
    LET day == Local(z, moment) \div DayLength
        today == DailyOccurrence(z, time, day)
    IN IF today < moment THEN DailyOccurrence(z, time, day + 1) ELSE today

\* Today's occurrence, or tomorrow's when today's is over.
NextDailyIn(z, time, moment) ==
    LET day == Local(z, moment) \div DayLength
        today == DailyOccurrence(z, time, day)
    IN IF today <= moment THEN DailyOccurrence(z, time, day + 1) ELSE today

---------------------------------------------------------------------------
(* A daily schedule: the operator enters its first run, the later ones are *)
(* counted from the moment at which a run ends or a missed one is skipped. *)

DailyInit ==
    /\ wallZone \in Zones
    /\ dailyTime \in 0 .. DayLength - 1
    /\ instant = 0
    /\ nextRun = NoOccurrence
    /\ counted = NoOccurrence

InstantPasses ==
    /\ instant < MaxInstant
    /\ instant' = instant + 1
    /\ UNCHANGED <<wallZone, dailyTime, nextRun, counted>>

\* create_schedule with the time of the form; a time that is refused changes
\* nothing.
CreateDaily(wall) ==
    /\ nextRun = NoOccurrence
    /\ nextRun' = ResolveLocal(wallZone, wall)
    /\ UNCHANGED <<wallZone, dailyTime, instant, counted>>

\* The run ended, or it was missed and the policy skips it.
AdvanceDaily ==
    /\ nextRun \in 0 .. instant
    /\ nextRun' = NextDailyIn(wallZone, dailyTime, instant)
    /\ counted' = instant
    /\ UNCHANGED <<wallZone, dailyTime, instant>>

\* The run failed and is tried again.
RetryDaily ==
    /\ nextRun \in 0 .. instant
    /\ nextRun' = instant + RetryDelay
    /\ counted' = NoOccurrence
    /\ UNCHANGED <<wallZone, dailyTime, instant>>

DailyNext ==
    \/ InstantPasses
    \/ \E wall \in EnteredWalls : CreateDaily(wall)
    \/ AdvanceDaily
    \/ RetryDaily

DailySpec == DailyInit /\ [][DailyNext]_dailyVars

---------------------------------------------------------------------------
(* Properties                                                              *)

\* The days that are shown at the instants of the model, and the next one.
Days == -1 .. MaxInstant \div DayLength + 2

\* The instants at which those days and their neighbors are shown.
Instants == -2 * DayLength .. MaxInstant + 4 * DayLength

\* What the occurrence of a day is, without a word of offsets and folds: the
\* first instant at which the clock on the wall shows the time or a later one.
FirstShown(z, time, day) == Min({u \in Instants : Local(z, u) >= day * DayLength + time})

\* "A spring-forward gap runs at the first valid local minute after the gap.  A
\* fall-back fold runs once, at the first occurrence": the run after one that
\* ended or was skipped is the first occurrence of any day after that moment,
\* also where the clock changes at midnight, and at the end of a run that lasted
\* through the change or was tried again after it.
DailyNextIsFirst ==
    counted # NoOccurrence =>
        nextRun = Min({u \in {FirstShown(wallZone, dailyTime, day) : day \in Days} : u > counted})

\* "Ambiguous and nonexistent values are therefore rejected instead of silently
\* running an hour early or late": a time that an operator enters is taken for
\* the only instant that shows it, or refused.
DailyEnteredTimes ==
    LET wall == Local(wallZone, instant)
        shows == {u \in Instants : Local(wallZone, u) = wall}
    IN /\ ResolveLocal(wallZone, wall) = (IF shows = {instant} THEN instant ELSE NoOccurrence)
       /\ \A gap \in wallZone.at + wallZone.before .. wallZone.at + wallZone.after - 1 :
            ResolveLocal(wallZone, gap) = NoOccurrence

\* Daily occurrences and entered times through a change of the clocks.
DailySound ==
    /\ instant \in 0 .. MaxInstant
    /\ DailyNextIsFirst
    /\ DailyEnteredTimes

============================================================================
