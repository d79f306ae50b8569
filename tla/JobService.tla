----------------------------- MODULE JobService -----------------------------
(***************************************************************************)
(* What a discovery job service promises its callers (the web routes and   *)
(* the schedule worker), whatever threads and files it is built from: the  *)
(* interface that web/jobs.py says a production job backend can be put     *)
(* behind.  DiscoveryJobs is shown to implement it.                        *)
(***************************************************************************)
EXTENDS Integers

CONSTANTS
    Profiles,   \* profile ids
    MaxJobs     \* bound: jobs ever created

VARIABLES
    known,      \* job id -> [profile, status, cancel], the jobs get() returns
    created     \* how many job ids were ever given out

serviceVars == <<known, created>>

Ended == {"completed", "failed", "cancelled", "interrupted"}

Busy(p) == {j \in DOMAIN known : known[j].profile = p /\ known[j].status = "active"}

ServiceInit == known = <<>> /\ created = 0

\* A profile has at most one active job; ids are never given out again.
Create(p) ==
    /\ created < MaxJobs
    /\ Busy(p) = {}
    /\ created' = created + 1
    /\ known' = [j \in DOMAIN known \cup {created + 1} |->
                   IF j \in DOMAIN known THEN known[j]
                   ELSE [profile |-> p, status |-> "active", cancel |-> FALSE]]

AskToCancel(j) ==
    /\ known[j].status = "active"
    /\ known' = [known EXCEPT ![j].cancel = TRUE]
    /\ UNCHANGED created

\* Only a job that was asked to stop ends cancelled.
End(j, status) ==
    /\ known[j].status = "active"
    /\ status = "cancelled" => known[j].cancel
    /\ known' = [known EXCEPT ![j].status = status]
    /\ UNCHANGED created

\* After a restart no job is active: the service may have forgotten jobs, and
\* may know less of the others than it did, but invents neither a job nor a
\* result.
Restarted(now) ==
    /\ DOMAIN now \subseteq DOMAIN known
    /\ \A j \in DOMAIN now :
         /\ now[j].profile = known[j].profile
         /\ now[j].status \in Ended
         /\ now[j].status \in {known[j].status, "interrupted"}

Restart == Restarted(known') /\ UNCHANGED created

ServiceNext ==
    \/ \E p \in Profiles : Create(p)
    \/ \E j \in DOMAIN known :
         \/ AskToCancel(j)
         \/ \E status \in {"completed", "failed", "cancelled"} : End(j, status)
    \/ Restart

ServiceSpec == ServiceInit /\ [][ServiceNext]_serviceVars
=============================================================================
