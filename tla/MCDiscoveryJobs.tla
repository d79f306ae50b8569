-------------------------- MODULE MCDiscoveryJobs --------------------------
(***************************************************************************)
(* DiscoveryJobs for TLC: two profiles, a short history file and a restart *)
(***************************************************************************)
EXTENDS DiscoveryJobs

CONSTANTS p, q

MCProfiles == {p, q}

\* Step lines the pipeline may print: none, or two that can come out of order.
MCNoSteps == {}
MCSomeSteps == {1, 4}

============================================================================
