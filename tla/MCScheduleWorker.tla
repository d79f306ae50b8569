-------------------------- MODULE MCScheduleWorker --------------------------
(***************************************************************************)
(* Small instances of the scheduler.  A plan's first occurrence is at 0.   *)
(***************************************************************************)
EXTENDS ScheduleWorker, TLC

CONSTANTS w1, w2

Plan(profile, recurrence, misfire, retries) ==
    [profile |-> profile, recurrence |-> recurrence, first |-> 0, interval |-> 2,
     daily |-> 1, misfire |-> misfire, retries |-> retries, delay |-> 1]

\* One interval schedule with a retry.
IntervalBook == <<Plan("core", "interval", "run-once", 1)>>

\* A one-time schedule.
OnceBook == <<Plan("core", "once", "run-once", 0)>>

\* A daily and an interval schedule that share a profile; the daily one skips
\* what it missed.
SharedBook == <<Plan("core", "daily", "skip", 0), Plan("core", "interval", "run-once", 0)>>

\* A one-time schedule and an interval schedule of another profile.
MixedBook == <<Plan("core", "once", "run-once", 0), Plan("edge", "interval", "run-once", 0)>>

SingleBooks == {IntervalBook, OnceBook, <<>>}
LeaseBooks == {IntervalBook, SharedBook, MixedBook}
IntervalOnly == {IntervalBook}
MixedOnly == {MixedBook}

\* What an operator may add.
OnceOffer == {Plan("core", "once", "skip", 0)}
NoOffer == {}

WorkerSymmetry == Permutations({w1, w2})
=============================================================================
