--------------------------- MODULE WorkspaceStart ---------------------------
(***************************************************************************)
(* A workspace on disk and the processes that serve it: the start-up order *)
(* of web/app.py, the instance lock (workspace/instance.py), the schema    *)
(* migrations (migrations.py), and the backup and the transactional        *)
(* restore of its metadata (backup.py, restore.py).                        *)
(*                                                                         *)
(* A process may die between any two file operations.  A file is absent,   *)
(* torn (opened for writing and not finished) or holds the operators' edit *)
(* number `edit' (below 0 from before the first start, 0 where there is    *)
(* none) in the format of schema version `form'.  The four files stand for *)
(* the ones that the three migrations and the version marker concern.      *)
(***************************************************************************)
EXTENDS Integers, Sequences

CONSTANTS
    Servers,       \* processes that may serve the workspace
    Beginnings,    \* what may be on disk before the first start: the files, and
                   \* whether they belong to a workspace that was in use
    OldArchives,   \* archives made by earlier versions of Atlas
    MaxEdits,      \* bound: operators' edits and job events
    MaxDeaths,     \* bound: processes that die
    MaxRestores    \* bound: restores begun

VARIABLES
    file,        \* file name -> content
    kept,        \* migration-backups/: file name -> content
    existing,    \* whether the workspace was in use before the first start
    activity,    \* a store that migration 2 takes for prior activity exists
    owner,       \* who holds the instance lock
    jobsFile,    \* jobs.json: the last known status of the last job
    at,          \* process -> where it is
    level,       \* process -> the version migrate_workspace has reached
    archive,     \* the archive at hand
    restore,     \* the restore under way
    edits,       \* edits so far
    deaths,      \* deaths so far
    restores,    \* restores so far
    made,        \* history: the last edit made to, or restored into, a file
    excuses      \* history: what happened that no start-up step repairs

workspaceVars == <<file, kept, existing, activity, owner, jobsFile, at, level,
                   archive, restore, edits, deaths, restores, made, excuses>>

Nobody == "nobody"

\* The files a restore replaces, in the order of sorted().
Order == <<"annotations", "exceptions", "schema">>

Files == {"annotations", "exceptions", "schema", "display"}

\* What each migration rewrites.
Target == <<"exceptions", "display", "annotations">>
CurrentSchemaVersion == 3

NoFile == [state |-> "absent", form |-> 0, edit |-> 0]
Torn == [state |-> "torn", form |-> 0, edit |-> 0]
Holds(form, edit) == [state |-> "ok", form |-> form, edit |-> edit]

Contents ==
    {c \in [state : {"absent", "torn", "ok"}, form : 0 .. CurrentSchemaVersion, edit : -2 .. MaxEdits] :
       c.state # "ok" => c.edit = 0}

\* A workspace at version v of the schema has file f, if it can be read, in at
\* least this form.
FormBy(f, v) ==
    IF f = "exceptions" /\ v >= 1 THEN 1 ELSE IF f = "annotations" /\ v >= 3 THEN 3 ELSE 0

UpTo(c, f, v) == c.state = "ok" => c.form >= FormBy(f, v)

\* Some of the files, with their contents.
Pieces == UNION {[names -> Contents] : names \in SUBSET Files}

\* The version that the marker among some files names.
MarkedIn(m) == IF "schema" \in DOMAIN m /\ m["schema"].state = "ok" THEN m["schema"].form ELSE 0

\* What is found on disk and what old archives hold is up to the marker there.
ASSUME WorkspaceAssumption ==
    /\ Nobody \notin Servers
    /\ {MaxEdits, MaxDeaths, MaxRestores} \subseteq Nat
    /\ \A b \in Beginnings :
         /\ b.files \in Pieces /\ b.existing \in BOOLEAN
         /\ \A f \in DOMAIN b.files : UpTo(b.files[f], f, MarkedIn(b.files))
         /\ b.existing /\ MarkedIn(b.files) >= 2
              => "display" \in DOMAIN b.files /\ b.files["display"].state # "absent"
         /\ ~b.existing => DOMAIN b.files = {}
    /\ OldArchives \subseteq [hashed : Pieces, members : Pieces]
    /\ \A m \in UNION {{a.hashed, a.members} : a \in OldArchives} :
         "display" \notin DOMAIN m /\ \A f \in DOMAIN m : UpTo(m[f], f, MarkedIn(m))

\* Nothing is being restored.
Settled == [phase |-> "none", members |-> <<>>, saved |-> <<>>, done |-> 0,
            undone |-> 0, before |-> <<>>]

WorkspaceInit ==
    /\ \E b \in Beginnings :
         /\ file = [f \in Files |-> IF f \in DOMAIN b.files THEN b.files[f] ELSE NoFile]
         /\ existing = b.existing
    /\ kept = [f \in Files |-> NoFile]
    /\ activity = existing
    /\ owner = Nobody
    /\ jobsFile = "ended"
    /\ at = [s \in Servers |-> "down"]
    /\ level = [s \in Servers |-> 0]
    /\ archive \in OldArchives
    /\ restore = Settled
    /\ edits = 0
    /\ deaths = 0
    /\ restores = 0
    /\ made = [f \in Files |-> file[f].edit]
    /\ excuses = {}

---------------------------------------------------------------------------
(* Start-up.                                                               *)

\* A start-up that has applied no migration yet is "checking".
Migrating == {"checking", "migrating", "rewriting", "marking", "stamping"}

Moved(s, place) == at' = [at EXCEPT ![s] = place]

\* create_app builds the job manager, whose _restore marks a job that the
\* file calls active as interrupted.
BuildJobManager(s) ==
    /\ at[s] = "down"
    /\ jobsFile' = IF jobsFile = "active" THEN "interrupted" ELSE jobsFile
    /\ Moved(s, "built")
    /\ UNCHANGED <<file, kept, activity, owner, level, archive, restore, edits,
                   deaths, restores, made, excuses>>

\* applied_version: a marker that does not parse counts as version 0.
AppliedVersion == IF file["schema"].state = "ok" THEN file["schema"].form ELSE 0

\* Mutant: a held lock is not an error.
AcquireInstanceLockAlways(s) ==
    /\ at[s] = "built"
    /\ owner' = s
    /\ Moved(s, "checking")
    /\ level' = [level EXCEPT ![s] = AppliedVersion]
    /\ UNCHANGED <<file, kept, activity, jobsFile, archive, restore, edits,
                   deaths, restores, made, excuses>>

\* acquire_instance_lock: taken, or WorkspaceInUseError ends the process.
AcquireInstanceLock(s) ==
    /\ at[s] = "built"
    /\ IF owner = Nobody
         THEN /\ owner' = s
              /\ Moved(s, "checking")
              /\ level' = [level EXCEPT ![s] = AppliedVersion]
         ELSE Moved(s, "down") /\ UNCHANGED <<owner, level>>
    /\ UNCHANGED <<file, kept, activity, jobsFile, archive, restore, edits,
                   deaths, restores, made, excuses>>

\* Mutant: migration 2 takes every workspace for an existing one.
PredatesDisplayAlways == file["display"].state = "absent"

\* Migration 2 writes its file once, and only where there was activity.
PredatesDisplay == file["display"].state = "absent" /\ activity

\* Whether a migration has something to rewrite: 1 and 3 leave a file alone
\* that is missing, does not parse, or is in the new form already.
Applies(k) ==
    IF k = 2 THEN PredatesDisplay
    ELSE file[Target[k]].state = "ok" /\ file[Target[k]].form < k

\* Mutant: the file is rewritten without a copy.
MigrateWithoutCopy(s) ==
    LET k == level[s] + 1 IN
    /\ at[s] \in {"checking", "migrating"}
    /\ k <= CurrentSchemaVersion
    /\ IF Applies(k)
         THEN /\ file' = [file EXCEPT ![Target[k]] = Torn]
              /\ Moved(s, "rewriting")
         ELSE Moved(s, "marking") /\ UNCHANGED file
    /\ UNCHANGED <<kept, activity, owner, jobsFile, level, archive, restore, edits,
                   deaths, restores, made, excuses>>

\* The next migration begins: the file is copied to migration-backups and
\* opened, which truncates it.  Migration 2 creates its file.
Migrate(s) ==
    LET k == level[s] + 1 IN
    /\ at[s] \in {"checking", "migrating"}
    /\ k <= CurrentSchemaVersion
    /\ IF Applies(k)
         THEN /\ kept' = [kept EXCEPT ![Target[k]] = file[Target[k]]]
              /\ file' = [file EXCEPT ![Target[k]] = Torn]
              /\ Moved(s, "rewriting")
         ELSE Moved(s, "marking") /\ UNCHANGED <<file, kept>>
    /\ UNCHANGED <<activity, owner, jobsFile, level, archive, restore, edits,
                   deaths, restores, made, excuses>>

\* The rewrite ends.  Migration 3 reports what it moved to the audit log.
Rewrite(s) ==
    LET k == level[s] + 1 IN
    /\ at[s] = "rewriting"
    /\ file' = [file EXCEPT ![Target[k]] = Holds(k, kept[Target[k]].edit)]
    /\ activity' = (activity \/ k = 3)
    /\ Moved(s, "marking")
    /\ UNCHANGED <<kept, owner, jobsFile, level, archive, restore, edits,
                   deaths, restores, made, excuses>>

\* The marker is opened ...
Mark(s) ==
    /\ at[s] = "marking"
    /\ file' = [file EXCEPT !["schema"] = Torn]
    /\ Moved(s, "stamping")
    /\ UNCHANGED <<kept, activity, owner, jobsFile, level, archive, restore, edits,
                   deaths, restores, made, excuses>>

\* Mutant: the marker is one version ahead.
StampAhead(s) ==
    /\ at[s] = "stamping"
    /\ level' = [level EXCEPT ![s] = @ + 1]
    /\ file' = [file EXCEPT !["schema"] = Holds(level[s] + 2, 0)]
    /\ Moved(s, "migrating")
    /\ UNCHANGED <<kept, activity, owner, jobsFile, archive, restore, edits,
                   deaths, restores, made, excuses>>

\* ... and written with the version that was just applied.
Stamp(s) ==
    /\ at[s] = "stamping"
    /\ level' = [level EXCEPT ![s] = @ + 1]
    /\ file' = [file EXCEPT !["schema"] = Holds(level[s] + 1, 0)]
    /\ Moved(s, "migrating")
    /\ UNCHANGED <<kept, activity, owner, jobsFile, archive, restore, edits,
                   deaths, restores, made, excuses>>

\* Every migration is applied; the audit log is written if one was, and the
\* pages are served.
Serve(s) ==
    /\ at[s] \in {"checking", "migrating"}
    /\ level[s] >= CurrentSchemaVersion
    /\ activity' = (activity \/ at[s] = "migrating")
    /\ Moved(s, "serving")
    /\ UNCHANGED <<file, kept, owner, jobsFile, level, archive, restore, edits,
                   deaths, restores, made, excuses>>

---------------------------------------------------------------------------
(* While the workspace is served.                                          *)

\* A store replaces its file and writes the audit log; the exception catalog is
\* written with a revision, in the form of migration 1, whatever form it had.
Edit(s, f) ==
    /\ at[s] = "serving"
    /\ edits < MaxEdits
    /\ file[f].state # "torn"
    /\ edits' = edits + 1
    /\ file' = [file EXCEPT ![f] =
         Holds(IF f = "exceptions" THEN 1
               ELSE IF file[f].state = "absent" THEN CurrentSchemaVersion ELSE file[f].form,
               edits + 1)]
    /\ activity' = TRUE
    /\ made' = [made EXCEPT ![f] = edits + 1]
    /\ excuses' = IF restore.phase = "none" THEN excuses ELSE excuses \cup {"raced"}
    /\ UNCHANGED <<kept, owner, jobsFile, at, level, archive, restore,
                   deaths, restores>>

\* A job starts, or the last one ends.
RunJob(s) ==
    /\ at[s] = "serving"
    /\ edits < MaxEdits
    /\ edits' = edits + 1
    /\ jobsFile' = IF jobsFile = "active" THEN "ended" ELSE "active"
    /\ UNCHANGED <<file, kept, activity, owner, at, level, archive, restore,
                   deaths, restores, made, excuses>>

\* The files a backup includes, of those on disk.
Members == {f \in {"annotations", "exceptions", "schema"} : file[f].state # "absent"}

Content(names) == [f \in names |-> file[f]]

\* build_manifest reads and hashes the files; archive.write reads them again,
\* and the page writes the audit log, as it does after a restore.
Hash(s) ==
    /\ at[s] = "serving"
    /\ archive' = [hashed |-> Content(Members), members |-> <<>>]
    /\ excuses' = IF restore.phase = "none" THEN excuses ELSE excuses \cup {"mixed"}
    /\ UNCHANGED <<file, kept, activity, owner, jobsFile, at, level, restore, edits,
                   deaths, restores, made>>

Archive(s) ==
    /\ at[s] = "serving"
    /\ archive.members = <<>>
    /\ archive' = [archive EXCEPT !.members = Content(DOMAIN archive.hashed)]
    /\ activity' = TRUE
    /\ UNCHANGED <<file, kept, owner, jobsFile, at, level, restore, edits,
                   deaths, restores, made, excuses>>

---------------------------------------------------------------------------
(* perform_restore                                                         *)

\* Mutant: the manifest is not compared with the members.
AcceptableUnhashed(a) == a.members # <<>> /\ \A f \in DOMAIN a.members : a.members[f].state = "ok"

\* Phase 1: something to restore, every member parses, the marker is not of a
\* newer version, and every file that a manifest names has the content it was
\* hashed with.
Acceptable(a) ==
    /\ a.members # <<>>
    /\ \A f \in DOMAIN a.members : a.members[f].state = "ok"
    /\ "schema" \in DOMAIN a.members => a.members["schema"].form <= CurrentSchemaVersion
    /\ \A f \in DOMAIN a.hashed : f \in DOMAIN a.members /\ a.members[f] = a.hashed[f]

\* Phases 1 to 3: the archive is validated and staged, the files snapshotted.
\* An archive without a marker leaves the live one in place.
BeginRestore(s, a) ==
    /\ at[s] = "serving"
    /\ restore.phase = "none"
    /\ restores < MaxRestores
    /\ Acceptable(a)
    /\ restores' = restores + 1
    /\ restore' = [phase |-> "committing", members |-> a.members, done |-> 0,
                   undone |-> 0, saved |-> Content(DOMAIN a.members), before |-> file]
    /\ excuses' = excuses
         \cup (IF "schema" \in DOMAIN a.members THEN {} ELSE {"markerless"})
         \cup (IF AppliedVersion = CurrentSchemaVersion THEN {} ELSE {"again"})
    /\ UNCHANGED <<file, kept, activity, owner, jobsFile, at, level, archive, edits,
                   deaths, made>>

\* Phase 4: the next file, in the order of sorted(), is renamed into place.
CommitFile(s) ==
    LET f == Order[restore.done + 1] IN
    /\ at[s] = "serving"
    /\ restore.phase = "committing"
    /\ restore.done < Len(Order)
    /\ IF f \in DOMAIN restore.members
         THEN /\ file' = [file EXCEPT ![f] = restore.members[f]]
              /\ made' = [made EXCEPT ![f] = restore.members[f].edit]
         ELSE UNCHANGED <<file, made>>
    /\ restore' = [restore EXCEPT !.done = @ + 1]
    /\ UNCHANGED <<kept, activity, owner, jobsFile, at, level, archive, edits,
                   deaths, restores, excuses>>

EndRestore(s) ==
    /\ at[s] = "serving"
    /\ restore.phase = "committing"
    /\ restore.done = Len(Order)
    /\ restore' = Settled
    /\ activity' = TRUE
    /\ UNCHANGED <<file, kept, owner, jobsFile, at, level, archive, edits,
                   deaths, restores, made, excuses>>

\* A rename raises: from here on every file already in place is put back.
FailCommit(s) ==
    /\ at[s] = "serving"
    /\ restore.phase = "committing"
    /\ restore.done < Len(Order)
    /\ restore' = [restore EXCEPT !.phase = "undoing"]
    /\ UNCHANGED <<file, kept, activity, owner, jobsFile, at, level, archive, edits,
                   deaths, restores, made, excuses>>

\* Mutant: a file that the snapshot lacks is left in place.
UndoFileIfSaved(s) ==
    LET f == Order[restore.undone + 1] IN
    /\ at[s] = "serving"
    /\ restore.phase = "undoing"
    /\ restore.undone < restore.done
    /\ IF f \in DOMAIN restore.members /\ restore.saved[f].state # "absent"
         THEN /\ file' = [file EXCEPT ![f] = restore.saved[f]]
              /\ made' = [made EXCEPT ![f] = restore.saved[f].edit]
         ELSE UNCHANGED <<file, made>>
    /\ restore' = [restore EXCEPT !.undone = @ + 1]
    /\ UNCHANGED <<kept, activity, owner, jobsFile, at, level, archive, edits,
                   deaths, restores, excuses>>

\* The next committed file is copied back from the snapshot, or unlinked when the
\* snapshot lacks it.  (A death inside the copy is not modelled: the snapshot
\* stays on disk.)
UndoFile(s) ==
    LET f == Order[restore.undone + 1] IN
    /\ at[s] = "serving"
    /\ restore.phase = "undoing"
    /\ restore.undone < restore.done
    /\ IF f \in DOMAIN restore.members
         THEN /\ file' = [file EXCEPT ![f] = restore.saved[f]]
              /\ made' = [made EXCEPT ![f] = restore.saved[f].edit]
         ELSE UNCHANGED <<file, made>>
    /\ restore' = [restore EXCEPT !.undone = @ + 1]
    /\ UNCHANGED <<kept, activity, owner, jobsFile, at, level, archive, edits,
                   deaths, restores, excuses>>

EndUndo(s) ==
    /\ at[s] = "serving"
    /\ restore.phase = "undoing"
    /\ restore.undone = restore.done
    /\ restore' = Settled
    /\ activity' = TRUE
    /\ UNCHANGED <<file, kept, owner, jobsFile, at, level, archive, edits,
                   deaths, restores, made, excuses>>

---------------------------------------------------------------------------
\* The process dies: the operating system releases the instance lock, and a
\* restore under way is abandoned where it was.
ServerDies(s) ==
    /\ at[s] \notin {"down", "built"}
    /\ deaths < MaxDeaths
    /\ deaths' = deaths + 1
    /\ Moved(s, "down")
    /\ owner' = IF owner = s THEN Nobody ELSE owner
    /\ restore' = IF at[s] = "serving" THEN Settled ELSE restore
    /\ excuses' = IF at[s] = "serving" /\ restore.phase # "none"
                  THEN excuses \cup {"abandoned"} ELSE excuses
    /\ UNCHANGED <<file, kept, activity, jobsFile, level, archive, edits, restores, made>>

StartUp(s) ==
    \/ BuildJobManager(s) \/ AcquireInstanceLock(s)
    \/ Migrate(s) \/ Rewrite(s) \/ Mark(s) \/ Stamp(s) \/ Serve(s)

PerformRestore(s) ==
    \/ \E a \in {archive} \cup OldArchives : BeginRestore(s, a)
    \/ CommitFile(s) \/ EndRestore(s)
    \/ FailCommit(s) \/ UndoFile(s) \/ EndUndo(s)

WorkspaceNext ==
    /\ \E s \in Servers :
         \/ StartUp(s)
         \/ \E f \in {"annotations", "exceptions"} : Edit(s, f)
         \/ RunJob(s) \/ Hash(s) \/ Archive(s)
         \/ PerformRestore(s)
         \/ ServerDies(s)
    /\ UNCHANGED existing

WorkspaceSpec == WorkspaceInit /\ [][WorkspaceNext]_workspaceVars

---------------------------------------------------------------------------
(* Properties.                                                             *)

\* The types of the files, of the processes and of the restore under way.
WorkspaceTypeOK ==
    /\ file \in [Files -> Contents]
    /\ kept \in [Files -> Contents]
    /\ {existing, activity} \subseteq BOOLEAN
    /\ owner \in Servers \cup {Nobody}
    /\ jobsFile \in {"active", "ended", "interrupted"}
    /\ at \in [Servers -> {"down", "built", "serving"} \cup Migrating]
    /\ level \in [Servers -> 0 .. CurrentSchemaVersion]
    /\ restore.phase \in {"none", "committing", "undoing"}
    /\ restore.done \in 0 .. Len(Order)
    /\ restore.undone \in 0 .. restore.done
    /\ excuses \subseteq {"raced", "markerless", "abandoned", "mixed", "again"}

\* "one process per workspace": two processes never migrate or serve it.
WorkspaceOneServer ==
    \A s, t \in Servers :
      at[s] \notin {"down", "built"} /\ at[t] \notin {"down", "built"} => s = t

\* Whenever a start-up dies, what the operators last wrote can be found: in
\* the file, or in the copy that the migration made of it.
WorkspaceNothingLost ==
    \A f \in {"annotations", "exceptions"} :
      made[f] # 0 =>
        \/ file[f].state = "ok" /\ file[f].edit = made[f]
        \/ file[f].state = "torn" /\ kept[f].edit = made[f]

\* A start-up that has reached version k left every file it can read in the
\* form of version k, through deaths in any migration and restores of older
\* archives, unless a restore was abandoned, its archive had no marker or was
\* made while another restore was under way, or what an earlier restore brought
\* back had not been migrated yet.
WorkspaceStartsMigrated ==
    \A s \in Servers :
      at[s] \in Migrating /\ excuses \subseteq {"raced"} =>
        \A f \in Files : UpTo(file[f], f, level[s])

\* "nobody's controls disappear on upgrade", and a new workspace starts
\* simple: the expert default is there once an existing workspace is served,
\* and never in one that only ever ran this version.
WorkspaceDisplayDefault ==
    /\ existing /\ (\E s \in Servers : at[s] = "serving") => file["display"].state # "absent"
    /\ ~existing /\ restores = 0 => file["display"].state = "absent"

\* "the workspace is unchanged": a restore that failed and was rolled back
\* leaves every file as it was, the missing ones missing, unless another
\* thread edited one meanwhile.
WorkspaceRollback ==
    restore.phase = "undoing" /\ restore.undone = restore.done /\ "raced" \notin excuses
      => file = restore.before

\* What is being committed is what the manifest described.
WorkspaceRestoresWhatWasHashed ==
    [][ restore.phase = "none" /\ restore'.phase = "committing"
          => \E a \in {archive} \cup OldArchives :
               /\ restore'.members = a.members
               /\ \A f \in DOMAIN a.hashed : a.members[f] = a.hashed[f] ]_workspaceVars

\* Starts, deaths, migrations and restores in any order: one server, nothing
\* the operators wrote is lost, and what is served is migrated.
WorkspaceSound ==
    /\ WorkspaceTypeOK
    /\ WorkspaceOneServer
    /\ WorkspaceNothingLost
    /\ WorkspaceStartsMigrated
    /\ WorkspaceDisplayDefault

\* A restore brings what the manifest described, or nothing.
WorkspaceRestores ==
    /\ []WorkspaceRollback
    /\ WorkspaceRestoresWhatWasHashed

=============================================================================
