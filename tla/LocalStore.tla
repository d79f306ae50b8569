----------------------------- MODULE LocalStore -----------------------------
(***************************************************************************)
(* The project store of the FounderOS runtime: LocalProjectStore of        *)
(* src/founderos_runtime/local_store.py, driven by the commands of         *)
(* application.py.                                                         *)
(*                                                                         *)
(* A command loads the project without a lock, executes in memory, and     *)
(* saves: under a lock file, with an optimistic revision check, it makes a *)
(* backup and then writes artifacts, events and state, in that order.  A   *)
(* process may fail (the lock is released) or die (it is left behind)      *)
(* between any two file operations.  An operator may clear a dead          *)
(* process's lock and recover the backup at any time; on POSIX a live      *)
(* process of another account looks dead, and its lock may be cleared too. *)
(*                                                                         *)
(* An executed command is an entry [cmd, id]; the id is fresh, as the ids  *)
(* of the events, records and artifacts it creates are.  The events file   *)
(* and the state file are the sequences of entries whose events and        *)
(* records they hold.                                                      *)
(***************************************************************************)
EXTENDS Integers, FiniteSets, SequencesExt

CONSTANTS
    Processes,     \* operating-system processes running the CLI
    Clearers,      \* those whose operator clears stale locks
    Unseen,        \* pairs of a clearer and a process of an account it may not signal
    Create,        \* the command that creates the project
    Commands,      \* the other commands, one per idempotency key
    Transitions,   \* those that change the project's state or revision
    MaxRuns,       \* bound: commands ever started
    MaxMishaps     \* bound: failures, crashes and recoveries

VARIABLES
    primary,   \* the three parts of the project directory
    backup,    \* the same three parts under backup/
    staged,    \* the same three parts under backup.tmp/
    lockFile,  \* .write.lock: the process that created it
    proc,      \* process -> what it is doing, its runtime and its entry
    commits,   \* history: the pairs of state and events that a save committed
    crossed,   \* history: a recovery and another's command overlapped
    stolen,    \* history: a lock was cleared that was not stale, or by two at once
    runs,      \* how many commands were started
    mishaps    \* how many failures, crashes and recoveries there were

storeVars == <<primary, backup, staged, lockFile, proc, commits, crossed, stolen,
               runs, mishaps>>

\* Markers of a missing file and of a lock file nobody alive holds.
Missing == [rev |-> -1, applied |-> <<>>]
NoEvents == <<[cmd |-> Create, id |-> 0]>>
Unlocked == "unlocked"
Ghost == "ghost"

ASSUME StoreAssumption ==
    /\ Processes \cap {Unlocked, Ghost} = {}
    /\ Clearers \subseteq Processes
    /\ Unseen \subseteq Clearers \X Processes
    /\ Create \notin Commands
    /\ Transitions \subseteq Commands
    /\ MaxRuns \in Nat
    /\ MaxMishaps \in Nat

Absent == [state |-> Missing, events |-> NoEvents, artifacts |-> {}]

Idle == [pc |-> "idle", state |-> Missing, events |-> <<>>,
         entry |-> [cmd |-> Create, id |-> 0]]

StoreInit ==
    /\ primary = Absent
    /\ backup = Absent
    /\ staged = Absent
    /\ lockFile = Unlocked
    /\ proc = [p \in Processes |-> Idle]
    /\ commits = {}
    /\ crossed = FALSE
    /\ stolen = FALSE
    /\ runs = 0
    /\ mishaps = 0

---------------------------------------------------------------------------
(* load                                                                    *)

\* replay_project_events: the state and revision derived from the events are
\* determined by the creation and by how many transitions were applied.
Replayed(entries) ==
    Cardinality({i \in DOMAIN entries : entries[i].cmd \in Transitions \cup {Create}})

\* _hydrate accepts what was read: the project matches the replay of the
\* events and every artifact on record has its content file.
Hydrates(state, events, artifacts) ==
    /\ state # Missing
    /\ events # NoEvents
    /\ Replayed(events) = Replayed(state.applied)
    /\ ToSet(state.applied) \subseteq artifacts

Loads(dir) == Hydrates(dir.state, dir.events, dir.artifacts)

\* A command starts: the state file is read, without the lock.
ReadState(p, c) ==
    /\ proc[p].pc = "idle"
    /\ runs < MaxRuns
    /\ primary.state # Missing
    /\ proc' = [proc EXCEPT ![p] = [Idle EXCEPT !.pc = "reading",
                                      !.state = primary.state,
                                      !.entry = [cmd |-> c, id |-> runs + 1]]]
    /\ runs' = runs + 1
    /\ UNCHANGED <<primary, backup, staged, lockFile, commits, mishaps>>

\* Mutant: a command whose key is on record executes again.
FreshAlways(state, c) == TRUE

\* _replay_command: a command on record is answered from the record.
Fresh(state, c) == \A i \in DOMAIN state.applied : state.applied[i].cmd # c

\* The events and artifacts are read, later; a load that fails, and a command
\* whose key is on record, end here; any other executes in memory.
ReadRest(p) ==
    LET me == proc[p] IN
    /\ me.pc = "reading"
    /\ proc' = [proc EXCEPT ![p] =
         IF Hydrates(me.state, primary.events, primary.artifacts) /\ Fresh(me.state, me.entry.cmd)
           THEN [me EXCEPT !.pc = "ready",
                           !.events = Append(primary.events, me.entry),
                           !.state.applied = Append(@, me.entry)]
           ELSE Idle]
    /\ UNCHANGED <<primary, backup, staged, lockFile, commits, runs, mishaps>>

\* new: there is no state file, and the runtime starts empty.
New(p) ==
    LET entry == [cmd |-> Create, id |-> runs + 1] IN
    /\ proc[p].pc = "idle"
    /\ runs < MaxRuns
    /\ primary.state = Missing
    /\ runs' = runs + 1
    /\ proc' = [proc EXCEPT ![p] =
         [pc |-> "ready", entry |-> entry, events |-> <<entry>>,
          state |-> [rev |-> 0, applied |-> <<entry>>]]]
    /\ UNCHANGED <<primary, backup, staged, lockFile, commits, mishaps>>

---------------------------------------------------------------------------
(* save                                                                    *)

Goto(p, pc) == proc' = [proc EXCEPT ![p].pc = pc]

CurrentRevision == IF primary.state = Missing THEN 0 ELSE primary.state.rev

\* Mutant: the revision is not checked again under the lock.
MaySaveUnchecked(p) == primary.state # Missing => Loads(primary)

\* The revision check, and the load with which _create_backup begins.
MaySave(p) ==
    /\ CurrentRevision = proc[p].state.rev
    /\ primary.state # Missing => Loads(primary)

\* Mutant: the lock file is opened without O_EXCL.
LockShared(p) ==
    /\ proc[p].pc = "ready"
    /\ IF MaySave(p)
         THEN /\ lockFile' = p
              /\ staged' = IF primary.state = Missing THEN staged ELSE primary
              /\ Goto(p, IF primary.state = Missing THEN "writing" ELSE "staged")
         ELSE /\ proc' = [proc EXCEPT ![p] = Idle]
              /\ UNCHANGED <<lockFile, staged>>
    /\ UNCHANGED <<primary, backup, commits, runs, mishaps>>

\* The lock is taken or the save fails at once; the revision is checked and
\* the directory copied to backup.tmp, or the save fails and unlocks.
Lock(p) ==
    /\ proc[p].pc = "ready"
    /\ IF lockFile = Unlocked /\ MaySave(p)
         THEN /\ lockFile' = p
              /\ staged' = IF primary.state = Missing THEN staged ELSE primary
              /\ Goto(p, IF primary.state = Missing THEN "writing" ELSE "staged")
         ELSE /\ proc' = [proc EXCEPT ![p] = Idle]
              /\ UNCHANGED <<lockFile, staged>>
    /\ UNCHANGED <<primary, backup, commits, runs, mishaps>>

\* rmtree deletes the parts of the old backup in no particular order.
DropPart(p) ==
    /\ proc[p].pc = "staged"
    /\ \/ backup.state # Missing /\ backup' = [backup EXCEPT !.state = Missing]
       \/ backup.events # NoEvents /\ backup' = [backup EXCEPT !.events = NoEvents]
       \/ backup.artifacts # {} /\ backup' = [backup EXCEPT !.artifacts = {}]
    /\ UNCHANGED <<primary, staged, lockFile, proc, commits, runs, mishaps>>

\* Mutant: a backup that exists is kept.
SwapKeepsOld(p) ==
    /\ proc[p].pc = "staged"
    /\ backup' = IF backup.state = Missing THEN staged ELSE backup
    /\ staged' = Absent
    /\ Goto(p, "writing")
    /\ UNCHANGED <<primary, lockFile, commits, runs, mishaps>>

\* backup.tmp is renamed to backup.
Swap(p) ==
    /\ proc[p].pc = "staged"
    /\ backup = Absent
    /\ staged # Absent
    /\ backup' = staged
    /\ staged' = Absent
    /\ Goto(p, "writing")
    /\ UNCHANGED <<primary, lockFile, commits, runs, mishaps>>

\* The rename raises: another writer renamed backup.tmp.
SwapFails(p) ==
    /\ proc[p].pc = "staged"
    /\ staged = Absent
    /\ lockFile' = Unlocked
    /\ proc' = [proc EXCEPT ![p] = Idle]
    /\ UNCHANGED <<primary, backup, staged, commits, runs, mishaps>>

\* Every artifact of the runtime is written.
WriteArtifacts(p) ==
    /\ proc[p].pc = "writing"
    /\ primary' = [primary EXCEPT !.artifacts = @ \cup ToSet(proc[p].state.applied)]
    /\ Goto(p, "artifacts")
    /\ UNCHANGED <<backup, staged, lockFile, commits, runs, mishaps>>

WriteEvents(p) ==
    /\ proc[p].pc = "artifacts"
    /\ primary' = [primary EXCEPT !.events = proc[p].events]
    /\ Goto(p, "events")
    /\ UNCHANGED <<backup, staged, lockFile, commits, runs, mishaps>>

\* Mutant: the events file may be left out.
WriteStateEarly(p) ==
    LET state == [rev |-> CurrentRevision + 1, applied |-> proc[p].state.applied] IN
    /\ proc[p].pc \in {"artifacts", "events"}
    /\ primary' = [primary EXCEPT !.state = state]
    /\ commits' = commits \cup {<<state, primary.events>>}
    /\ Goto(p, "state")
    /\ UNCHANGED <<backup, staged, lockFile, runs, mishaps>>

\* Mutant: the revision grows by two.
WriteStateSkips(p) ==
    LET state == [rev |-> CurrentRevision + 2, applied |-> proc[p].state.applied] IN
    /\ proc[p].pc = "events"
    /\ primary' = [primary EXCEPT !.state = state]
    /\ commits' = commits \cup {<<state, primary.events>>}
    /\ Goto(p, "state")
    /\ UNCHANGED <<backup, staged, lockFile, runs, mishaps>>

\* The commit: state, records, command journal and revision in one rename.
WriteState(p) ==
    LET state == [rev |-> CurrentRevision + 1, applied |-> proc[p].state.applied] IN
    /\ proc[p].pc = "events"
    /\ primary' = [primary EXCEPT !.state = state]
    /\ commits' = commits \cup {<<state, primary.events>>}
    /\ Goto(p, "state")
    /\ UNCHANGED <<backup, staged, lockFile, runs, mishaps>>

\* Files of artifacts that are not on record are deleted, and the lock with
\* them; other writers' lock files are not told apart.
Prune(p) ==
    /\ proc[p].pc = "state"
    /\ primary' = [primary EXCEPT !.artifacts = @ \cap ToSet(proc[p].state.applied)]
    /\ lockFile' = Unlocked
    /\ proc' = [proc EXCEPT ![p] = Idle]
    /\ UNCHANGED <<backup, staged, commits, runs, mishaps>>

---------------------------------------------------------------------------
(* recover                                                                 *)

\* The backup is validated, before the lock is taken.
CheckBackup(p) ==
    /\ proc[p].pc = "idle"
    /\ mishaps < MaxMishaps
    /\ mishaps' = mishaps + 1
    /\ Loads(backup)
    /\ Goto(p, "checked")
    /\ UNCHANGED <<primary, backup, staged, lockFile, commits, runs>>

LockToRecover(p) ==
    /\ proc[p].pc = "checked"
    /\ IF lockFile = Unlocked
         THEN /\ lockFile' = p
              /\ Goto(p, "restoring")
         ELSE proc' = [proc EXCEPT ![p] = Idle] /\ UNCHANGED lockFile
    /\ UNCHANGED <<primary, backup, staged, commits, runs, mishaps>>

\* The three parts are copied one after the other; a missing file ends it.
RestoreState(p) ==
    /\ proc[p].pc = "restoring"
    /\ backup.state # Missing
    /\ primary' = [primary EXCEPT !.state = backup.state]
    /\ Goto(p, "copying")
    /\ UNCHANGED <<backup, staged, lockFile, commits, runs, mishaps>>

RestoreEvents(p) ==
    /\ proc[p].pc = "copying"
    /\ backup.events # NoEvents
    /\ primary' = [primary EXCEPT !.events = backup.events]
    /\ Goto(p, "clearing")
    /\ UNCHANGED <<backup, staged, lockFile, commits, runs, mishaps>>

\* rmtree, then copytree.
ClearArtifacts(p) ==
    /\ proc[p].pc = "clearing"
    /\ primary' = [primary EXCEPT !.artifacts = {}]
    /\ Goto(p, "restored")
    /\ UNCHANGED <<backup, staged, lockFile, commits, runs, mishaps>>

RestoreArtifacts(p) ==
    /\ proc[p].pc = "restored"
    /\ primary' = [primary EXCEPT !.artifacts = backup.artifacts]
    /\ lockFile' = Unlocked
    /\ proc' = [proc EXCEPT ![p] = Idle]
    /\ UNCHANGED <<backup, staged, commits, runs, mishaps>>

\* _copy_file_atomic raises: a file of the backup is gone.
RestoreFails(p) ==
    /\ \/ proc[p].pc = "restoring" /\ backup.state = Missing
       \/ proc[p].pc = "copying" /\ backup.events = NoEvents
    /\ lockFile' = Unlocked
    /\ proc' = [proc EXCEPT ![p] = Idle]
    /\ UNCHANGED <<primary, backup, staged, commits, runs, mishaps>>

---------------------------------------------------------------------------
(* Failures, crashes and stale locks.                                      *)

Commanding == {"reading", "ready", "staged", "writing", "artifacts", "events", "state"}
Restoring == {"checked", "restoring", "copying", "clearing", "restored"}

\* With the lock held.
Writing == (Commanding \cup Restoring) \ {"reading", "ready", "checked"}

\* A file operation raises; the context manager unlinks the lock file.
Fail(p) ==
    /\ proc[p].pc \in Writing
    /\ mishaps < MaxMishaps
    /\ mishaps' = mishaps + 1
    /\ lockFile' = Unlocked
    /\ proc' = [proc EXCEPT ![p] = Idle]
    /\ UNCHANGED <<primary, backup, staged, commits, runs>>

\* The process dies with the lock held.
Die(p) ==
    /\ proc[p].pc \in Writing
    /\ mishaps < MaxMishaps
    /\ mishaps' = mishaps + 1
    /\ lockFile' = IF lockFile = p THEN Ghost ELSE lockFile
    /\ proc' = [proc EXCEPT ![p] = Idle]
    /\ UNCHANGED <<primary, backup, staged, commits, runs>>

\* clear_stale_lock: inspect_lock finds a lock whose owner is dead, or is not
\* to be signalled by this account: _pid_alive tells neither from the other ...
FindStale(p) ==
    /\ proc[p].pc = "idle"
    /\ \/ lockFile = Ghost /\ UNCHANGED mishaps
       \/ /\ <<p, lockFile>> \in Unseen
          /\ mishaps < MaxMishaps
          /\ mishaps' = mishaps + 1
    /\ Goto(p, "unlinking")
    /\ UNCHANGED <<primary, backup, staged, lockFile, commits, runs>>

\* ... and the file of that name is unlinked.
UnlinkStale(p) ==
    /\ proc[p].pc = "unlinking"
    /\ lockFile' = Unlocked
    /\ proc' = [proc EXCEPT ![p] = Idle]
    /\ UNCHANGED <<primary, backup, staged, commits, runs, mishaps>>

Save(p) ==
    \/ Lock(p) \/ DropPart(p) \/ Swap(p) \/ SwapFails(p)
    \/ WriteArtifacts(p) \/ WriteEvents(p) \/ WriteState(p) \/ Prune(p)

Recover(p) ==
    \/ CheckBackup(p) \/ LockToRecover(p)
    \/ RestoreState(p) \/ RestoreEvents(p)
    \/ ClearArtifacts(p) \/ RestoreArtifacts(p) \/ RestoreFails(p)

\* A recovery and another process's command are under way together.
Overlap ==
    \E p, q \in Processes : proc[p].pc \in Restoring /\ proc[q].pc \in Commanding

\* A clearer is about to unlink the lock of a writer it may not signal, or two
\* clearers found the same lock: the second unlinks whatever is there by then.
Misjudged ==
    \E p, q \in Processes :
      /\ proc[p].pc = "unlinking"
      /\ <<p, lockFile>> \in Unseen \/ (proc[q].pc = "unlinking" /\ p # q)

StoreNext ==
    /\ \/ \E p \in Processes :
            \/ New(p)
            \/ \E c \in Commands : ReadState(p, c)
            \/ ReadRest(p) \/ Save(p) \/ Recover(p) \/ Fail(p) \/ Die(p)
       \/ \E p \in Clearers : FindStale(p) \/ UnlinkStale(p)
    /\ crossed' = (crossed \/ Overlap')
    /\ stolen' = (stolen \/ Misjudged')

StoreSpec == StoreInit /\ [][StoreNext]_storeVars

---------------------------------------------------------------------------
(* Properties.                                                             *)

Entry == [cmd : Commands \cup {Create}, id : 0 .. MaxRuns]

StateFile == [rev : Nat, applied : Seq(Entry)] \cup {Missing}

Directory == [state : StateFile, events : Seq(Entry), artifacts : SUBSET Entry]

Locations == Writing \cup {"idle", "reading", "ready", "checked", "unlinking"}

\* The types of the files, of the lock and of the processes' runtimes.
StoreTypeOK ==
    /\ {primary, backup, staged} \subseteq Directory
    /\ lockFile \in Processes \cup {Unlocked, Ghost}
    /\ \A p \in Processes :
         /\ proc[p].pc \in Locations
         /\ proc[p].state \in StateFile
         /\ proc[p].events \in Seq(Entry)
         /\ proc[p].entry \in Entry
    /\ crossed \in BOOLEAN
    /\ stolen \in BOOLEAN
    /\ runs \in 0 .. MaxRuns
    /\ mishaps \in 0 .. MaxMishaps

\* Two processes never write the directory at once, whatever was left behind
\* by a dead one.
StoreOneWriter ==
    \A p, q \in Processes :
      proc[p].pc \in Writing /\ proc[q].pc \in Writing => p = q

\* From the first commit on, at every point at which a process may die or
\* fail, the directory or its backup loads.
StoreRecoverable ==
    commits # {} /\ ~crossed => Loads(primary) \/ Loads(backup)

\* What a recovery brings back is at most one commit old.
StoreBackupIsRecent ==
    backup.state # Missing /\ ~crossed
      => primary.state.rev \in {backup.state.rev, backup.state.rev + 1}

\* No idempotency key is applied twice, however often its command is retried
\* after failures, crashes and recoveries.
StoreAppliedOnce ==
    \A i, j \in DOMAIN primary.state.applied :
      primary.state.applied[i].cmd = primary.state.applied[j].cmd => i = j

\* Write-ahead: a directory that loads has the events of everything on record.
StoreWriteAhead ==
    Loads(primary) /\ ~crossed
      => ToSet(primary.state.applied) \subseteq ToSet(primary.events)

\* A commit never undoes another process's commit: what was on record stays.
StoreNoLostUpdate ==
    [][ ~crossed /\ ~stolen /\ primary'.state.rev > primary.state.rev
          => IsPrefix(primary.state.applied, primary'.state.applied) ]_storeVars

\* The directory through any mixture of saves, recoveries, failures and deaths:
\* no command on record twice; and until a live writer's lock is cleared, one
\* writer, always something that loads, a recent backup, and events ahead of
\* the state.
StoreSound ==
    /\ StoreTypeOK
    /\ StoreAppliedOnce
    /\ ~stolen => /\ StoreOneWriter
                  /\ StoreRecoverable
                  /\ StoreBackupIsRecent
                  /\ StoreWriteAhead

=============================================================================
