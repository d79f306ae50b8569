-------------------------- MODULE MCDiscoveryPool --------------------------
(***************************************************************************)
(* DiscoveryPool with two worker threads and a candidate list that names   *)
(* one address twice and one that was completed earlier.                   *)
(***************************************************************************)
EXTENDS DiscoveryPool

MCWorkers == {0, 1}
MCCandidates == {"a", "b", "c", "d"}
MCAddresses == <<"a", "b", "a", "c", "d">>
MCCompleted == {"c"}

============================================================================
