----------------------------- MODULE MCStorage -----------------------------
(***************************************************************************)
(* The stores for TLC: the runtime's project store, the commands that fill *)
(* it, the workspace and the delivery outbox.  The modules share no state, *)
(* so one run checks all four:                                             *)
(* every behaviour is one of a single store (`store' says which) and the   *)
(* others stay as they were at first, in one of their initial states.      *)
(***************************************************************************)
EXTENDS LocalStore, FounderRuntime, WorkspaceStart, Outbox, TLC

CONSTANTS d1, d2

VARIABLE store

storageVars == <<store, storeVars, runtimeVars, workspaceVars, outboxVars>>

StorageInit ==
    /\ store \in {"project", "commands", "workspace", "outbox"}
    /\ StoreInit
    /\ RuntimeInit
    /\ WorkspaceInit
    /\ OutboxInit
    /\ store # "workspace" => ~existing

StorageNext ==
    /\ \/ store = "project" /\ StoreNext /\ UNCHANGED <<runtimeVars, workspaceVars, outboxVars>>
       \/ store = "commands" /\ RuntimeNext /\ UNCHANGED <<storeVars, workspaceVars, outboxVars>>
       \/ store = "workspace" /\ WorkspaceNext /\ UNCHANGED <<storeVars, runtimeVars, outboxVars>>
       \/ store = "outbox" /\ OutboxNext /\ UNCHANGED <<storeVars, runtimeVars, workspaceVars>>
    /\ UNCHANGED store

StorageSpec == StorageInit /\ [][StorageNext]_storageVars

\* Two processes that are interchangeable: the dispatchers, and the servers of a
\* workspace.
MCTwins == {d1, d2}
Symmetry == Permutations(MCTwins)

\* What p's operator takes for dead though it is not: q, of another account.
MCUnseen == {<<"p", "q">>}

NoFiles == [f \in {} |-> 0]

\* A workspace of an earlier version, in use, and an empty directory.
MCBeginnings ==
    {[files |-> [annotations |-> Holds(0, -1), exceptions |-> Holds(0, -1)], existing |-> TRUE],
     [files |-> NoFiles, existing |-> FALSE]}

\* An archive made at schema version 1, before there were manifests.
MCOldArchives ==
    {[hashed |-> NoFiles,
      members |-> [annotations |-> Holds(0, -2), exceptions |-> Holds(1, -2),
                   schema |-> Holds(1, 0)]]}

============================================================================
