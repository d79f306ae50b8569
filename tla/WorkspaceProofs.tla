--------------------------- MODULE WorkspaceProofs ---------------------------
(***************************************************************************)
(* Proofs about WorkspaceStart and FounderRuntime.                         *)
(*                                                                         *)
(* The workspace: through deaths inside any migration, restores that fail  *)
(* or are abandoned and edits that race them, one process serves it,       *)
(* nothing the operators wrote is lost, what a start-up read is migrated,  *)
(* and a restore brings back what its archive described or leaves the      *)
(* files as they were.  The commands: the project, its events and its      *)
(* records agree and the journey can always go on.                         *)
(***************************************************************************)
EXTENDS WorkspaceStart, FounderRuntime, FiniteSetTheorems, WellFoundedInduction, TLAPS

Archived == {"annotations", "exceptions", "schema"}

RestoreRecord ==
    [phase : {"none", "committing", "undoing"}, members : Pieces, saved : Pieces,
     done : 0 .. 3, undone : 0 .. 3, before : [Files -> Contents] \cup {<<>>}]

\* The type invariant, with the archive and what is being restored.
WorkspaceTypes ==
    /\ WorkspaceTypeOK
    /\ edits \in 0 .. MaxEdits
    /\ restores \in Nat
    /\ made \in [Files -> -2 .. MaxEdits]
    /\ archive \in [hashed : Pieces, members : Pieces]
    /\ restore \in RestoreRecord
    /\ "display" \notin DOMAIN archive.hashed \cup DOMAIN restore.members
    /\ DOMAIN restore.saved = DOMAIN restore.members

Active(s) == at[s] \notin {"down", "built"}

\* Whoever is past the lock holds it, and only a server restores.
LockHeld ==
    /\ \A s \in Servers : Active(s) => owner = s
    /\ restore.phase # "none" => \E s \in Servers : at[s] = "serving"

\* Only a restore of an archive without marker, or of one that is mixed, leaves
\* files that the marker is ahead of.
Clean == excuses \subseteq {"raced"}

HasDefault == file["display"].state # "absent"

\* Where a process stands: until it opens the marker again, the marker names the
\* version reached; a file is torn while it is rewritten; and what the next
\* marker will say is true before it is written.  Where the expert default is
\* called for, it is there; a new workspace is left alone.
Stage(s) ==
    /\ at[s] \in Migrating \ {"stamping"} => AppliedVersion = level[s]
    /\ at[s] \in {"rewriting", "marking", "stamping"} => level[s] < CurrentSchemaVersion
    /\ at[s] = "rewriting" => file[Target[level[s] + 1]].state = "torn"
    /\ at[s] \in {"marking", "stamping"} /\ Clean =>
         \A f \in Files : UpTo(file[f], f, level[s] + 1)
    /\ existing /\ \/ at[s] = "serving"
                   \/ at[s] \in Migrating /\ level[s] >= 2
                   \/ at[s] \in {"marking", "stamping"} /\ level[s] = 1
         => HasDefault
    /\ ~existing /\ restores = 0 =>
         /\ at[s] # "rewriting"
         /\ at[s] = "serving" => AppliedVersion = CurrentSchemaVersion
         /\ activity /\ at[s] \in Migrating =>
              at[s] \in {"checking", "migrating"} /\ level[s] = CurrentSchemaVersion

StageInv == \A s \in Servers : Stage(s)

\* Between start-ups: the default is there as soon as the marker says so, and a
\* new workspace without activity has no files to migrate.
DisplayInv ==
    /\ existing => activity /\ (AppliedVersion >= 2 => HasDefault)
    /\ ~existing /\ restores = 0 =>
         /\ ~HasDefault
         /\ ~activity => /\ file["annotations"].state = "absent"
                         /\ file["exceptions"].state = "absent"
         /\ activity => AppliedVersion = CurrentSchemaVersion

\* A restore writes files that parse, and puts back the ones that were there.
RestoreInv ==
    /\ restore.phase = "none" => restore.done = 0 /\ restore.undone = 0
    /\ restore.phase = "committing" => restore.undone = 0
    /\ restore.phase # "none" =>
         /\ restores # 0
         /\ restore.before \in [Files -> Contents]
         /\ \A f \in DOMAIN restore.members :
              restore.members[f].state = "ok" /\ restore.saved[f] = restore.before[f]

\* The files that restore r has replaced and not put back.
Replaced(r, f) ==
    f \in DOMAIN r.members /\ \E i \in r.undone + 1 .. r.done : Order[i] = f

\* What the marker says of the files, of the archive, and of what a restore has
\* replaced so far.
FilesUpTo == restore.phase = "none" => \A f \in Files : UpTo(file[f], f, AppliedVersion)
ArchiveUpTo == \A f \in DOMAIN archive.hashed : UpTo(archive.hashed[f], f, MarkedIn(archive.hashed))
RestUpTo ==
    restore.phase # "none" =>
      \A f \in Files :
        /\ ~Replaced(restore, f) => UpTo(file[f], f, CurrentSchemaVersion)
        /\ f \in DOMAIN restore.saved => UpTo(restore.saved[f], f, CurrentSchemaVersion)
RestoredUpTo ==
    restore.phase = "committing" =>
      /\ "schema" \in DOMAIN restore.members
      /\ \A f \in DOMAIN restore.members : UpTo(restore.members[f], f, MarkedIn(restore.members))
      /\ \A f \in Files : Replaced(restore, f) => UpTo(file[f], f, MarkedIn(restore.members))
      /\ restore.done = 3 => file["schema"] = restore.members["schema"]

MarkerInv == Clean => FilesUpTo /\ ArchiveUpTo /\ RestUpTo /\ RestoredUpTo

\* An archive that Atlas made holds no file that it did not hash.
ArchiveInv == archive \in OldArchives \/ DOMAIN archive.members \subseteq DOMAIN archive.hashed

\* As long as nobody edits a file, the restore can tell every file's content.
UndoInv ==
    restore.phase # "none" /\ "raced" \notin excuses =>
      \A f \in Files :
        file[f] = IF Replaced(restore, f) THEN restore.members[f] ELSE restore.before[f]

WorkspaceInv ==
    /\ WorkspaceTypes
    /\ LockHeld
    /\ StageInv
    /\ DisplayInv
    /\ RestoreInv
    /\ MarkerInv
    /\ ArchiveInv
    /\ UndoInv
    /\ WorkspaceNothingLost

---------------------------------------------------------------------------
(* Lemmas.                                                                 *)

\* The names of the files.
LEMMA Names ==
    /\ \A f : f \in Files <=> f \in {"annotations", "exceptions", "schema", "display"}
    /\ \A k \in 1 .. 3 : /\ Target[k] \in Files \ {"schema"}
                         /\ Target[k] = IF k = 1 THEN "exceptions" ELSE IF k = 2 THEN "display"
                                        ELSE "annotations"
    /\ \A i \in 1 .. 3 : /\ Order[i] \in Archived
                         /\ Order[i] = IF i = 1 THEN "annotations" ELSE IF i = 2 THEN "exceptions"
                                       ELSE "schema"
    /\ Len(Order) = 3
    /\ CurrentSchemaVersion = 3
    /\ Archived = {"annotations", "exceptions", "schema"}
    /\ Migrating = {"checking", "migrating", "rewriting", "marking", "stamping"}
  BY DEF Files, Target, Order, CurrentSchemaVersion, Archived, Migrating

\* What the forms say: the content of a file that cannot be read says nothing,
\* later versions ask for more, and one version asks one file for more.
LEMMA Forms ==
    ASSUME NEW c \in Contents, NEW f \in Files, NEW v \in 0 .. 3
    PROVE  /\ FormBy(f, v) \in 0 .. v
           /\ FormBy(f, v) <= FormBy(f, 3)
           /\ c.state # "ok" => UpTo(c, f, v)
           /\ c.state # "ok" => c.edit = 0
           /\ f \notin {"annotations", "exceptions"} => UpTo(c, f, v)
           /\ UpTo(c, f, 3) => UpTo(c, f, v)
           /\ UpTo(c, f, 0)
           /\ c.form >= v => UpTo(c, f, v)
           /\ v < 3 /\ f # Target[v + 1] /\ UpTo(c, f, v) => UpTo(c, f, v + 1)
           /\ v < 3 /\ UpTo(c, f, v + 1) => UpTo(c, f, v)
<1>1. c.form \in 0 .. 3 /\ (c.state # "ok" => c.edit = 0)
  BY Names DEF Contents
<1>2. v \in {0, 1, 2, 3} /\ f \in {"annotations", "exceptions", "schema", "display"}
  BY Names
<1>3. v < 3 => v + 1 \in 1 .. 3
  OBVIOUS
<1> QED
  BY <1>1, <1>2, <1>3, Names DEF FormBy, UpTo

LEMMA NewContents ==
    /\ NoFile \in Contents /\ NoFile.state = "absent" /\ NoFile.edit = 0
    /\ Torn \in Contents /\ Torn.state = "torn" /\ Torn.edit = 0
    /\ \A k \in 0 .. 3, e \in -2 .. MaxEdits :
         /\ Holds(k, e) \in Contents /\ Holds(k, e).state = "ok" /\ Holds(k, e).form = k
         /\ Holds(k, e).edit = e
<1>1. MaxEdits \in Nat
  BY WorkspaceAssumption DEF WorkspaceAssumption
<1> QED
  BY <1>1, Names DEF Contents, NoFile, Torn, Holds

LEMMA SomePieces ==
    /\ <<>> \in Pieces
    /\ DOMAIN <<>> = {}
    /\ \A m \in Pieces : /\ DOMAIN m \subseteq Files
                         /\ \A f \in DOMAIN m : m[f] \in Contents
                         /\ MarkedIn(m) \in 0 .. 3
    /\ file \in [Files -> Contents] =>
         \A names \in SUBSET Files :
           /\ Content(names) \in Pieces /\ DOMAIN Content(names) = names
           /\ \A f \in names : Content(names)[f] = file[f]
<1>1. <<>> \in [{} -> Contents]
  OBVIOUS
<1>2. ASSUME NEW m \in Pieces
      PROVE  DOMAIN m \subseteq Files /\ \A f \in DOMAIN m : m[f] \in Contents
  BY DEF Pieces
<1>3. ASSUME NEW m \in Pieces PROVE MarkedIn(m) \in 0 .. 3
  <2>1. CASE "schema" \in DOMAIN m
    <3>1. m["schema"] \in Contents
      BY <1>2, <2>1
    <3>2. m["schema"].form \in 0 .. 3
      BY <3>1, Names DEF Contents
    <3> QED
      BY <3>2 DEF MarkedIn
  <2> QED
    BY <2>1 DEF MarkedIn
<1>4. ASSUME file \in [Files -> Contents], NEW names \in SUBSET Files
      PROVE  /\ Content(names) \in Pieces /\ DOMAIN Content(names) = names
             /\ \A f \in names : Content(names)[f] = file[f]
  <2>1. Content(names) \in [names -> Contents]
    BY <1>4 DEF Content
  <2> QED
    BY <2>1 DEF Content, Pieces
<1> QED
  BY <1>1, <1>2, <1>3, <1>4 DEF Pieces

\* The types, one by one.
LEMMA Typing ==
    ASSUME WorkspaceTypes
    PROVE  /\ file \in [Files -> Contents] /\ kept \in [Files -> Contents]
           /\ \A f \in Files : file[f] \in Contents /\ kept[f] \in Contents
           /\ AppliedVersion \in 0 .. 3
           /\ at \in [Servers -> {"down", "built", "serving"} \cup Migrating]
           /\ \A s \in Servers : level[s] \in 0 .. 3
           /\ \A f \in Files : made[f] \in Int
           /\ restore.done \in 0 .. 3 /\ restore.undone \in 0 .. restore.done
           /\ restore.phase \in {"none", "committing", "undoing"}
           /\ restore.members \in Pieces /\ restore.saved \in Pieces
           /\ archive.members \in Pieces /\ archive.hashed \in Pieces
           /\ MaxEdits \in Nat /\ edits \in 0 .. MaxEdits
<1>1. file["schema"] \in Contents
  BY Names DEF WorkspaceTypes, WorkspaceTypeOK
<1>2. file["schema"].form \in 0 .. 3
  BY <1>1, Names DEF Contents
<1>3. AppliedVersion \in 0 .. 3
  BY <1>2 DEF AppliedVersion
<1>4. MaxEdits \in Nat
  BY WorkspaceAssumption DEF WorkspaceAssumption
<1> QED
  BY <1>3, <1>4, Names DEF WorkspaceTypes, WorkspaceTypeOK, RestoreRecord

\* One file is written.
LEMMA FileWritten ==
    ASSUME WorkspaceTypes, NEW f \in Files, NEW c \in Contents, file' = [file EXCEPT ![f] = c]
    PROVE  /\ file' \in [Files -> Contents] /\ file'[f] = c
           /\ \A g \in Files : g # f => file'[g] = file[g]
           /\ f # "schema" => AppliedVersion' = AppliedVersion
           /\ f = "schema" => AppliedVersion' = IF c.state = "ok" THEN c.form ELSE 0
<1>1. /\ file' \in [Files -> Contents] /\ file'[f] = c
      /\ \A g \in Files : g # f => file'[g] = file[g]
  BY Typing
<1> QED
  BY <1>1, Names DEF AppliedVersion

\* A step of a process moves that process only.
LEMMA ProcessMoved ==
    ASSUME WorkspaceTypes, NEW s \in Servers, NEW place \in {"down", "built", "serving"} \cup Migrating,
           Moved(s, place)
    PROVE  /\ at' \in [Servers -> {"down", "built", "serving"} \cup Migrating]
           /\ at'[s] = place /\ \A t \in Servers : t # s => at'[t] = at[t]
  BY Typing DEF Moved

\* Who is past the lock is alone, and who is not has nothing to keep.
LEMMA Alone ==
    ASSUME WorkspaceInv, NEW s \in Servers, Active(s), NEW t \in Servers, t # s
    PROVE  at[t] \in {"down", "built"}
  BY DEF WorkspaceInv, LockHeld, Active

LEMMA IdleStage == \A s \in Servers : at[s] \in {"down", "built"} => Stage(s)
  BY Names DEF Stage

\* A restore needs a server: there is none while somebody starts up.
LEMMA NoRestore ==
    ASSUME WorkspaceInv, NEW s \in Servers, Active(s), at[s] # "serving"
    PROVE  restore.phase = "none"
<1> SUFFICES ASSUME restore.phase # "none" PROVE FALSE
  OBVIOUS
<1>1. PICK t \in Servers : at[t] = "serving"
  BY DEF WorkspaceInv, LockHeld
<1> QED
  BY <1>1, Alone

\* A step that leaves the files, the copies, the archive and the restore alone.
StoreKept == UNCHANGED <<file, kept, existing, archive, restore, restores, made, excuses>>

LEMMA StoreKeptInv ==
    ASSUME WorkspaceInv, StoreKept
    PROVE  /\ RestoreInv' /\ MarkerInv' /\ ArchiveInv' /\ UndoInv' /\ WorkspaceNothingLost'
           /\ AppliedVersion' = AppliedVersion /\ HasDefault' = HasDefault /\ Clean' = Clean
<1>1. AppliedVersion' = AppliedVersion /\ HasDefault' = HasDefault /\ Clean' = Clean
  BY DEF StoreKept, AppliedVersion, HasDefault, Clean
<1>2. RestoreInv' /\ ArchiveInv' /\ UndoInv' /\ WorkspaceNothingLost'
  BY DEF StoreKept, WorkspaceInv, RestoreInv, ArchiveInv, UndoInv, WorkspaceNothingLost
<1>3. MarkerInv'
  BY <1>1 DEF StoreKept, WorkspaceInv, MarkerInv, FilesUpTo, ArchiveUpTo, RestUpTo, RestoredUpTo
<1> QED
  BY <1>1, <1>2, <1>3

\* A process that is past the lock takes a step: only its own stage matters, and
\* it holds the lock.
LEMMA OwnStage ==
    ASSUME WorkspaceInv, NEW s \in Servers, Active(s), UNCHANGED owner,
           \A t \in Servers : t # s => at'[t] = at[t],
           Stage(s)'
    PROVE  /\ StageInv'
           /\ \A t \in Servers : Active(t)' => owner' = t
<1>1. ASSUME NEW t \in Servers, t # s PROVE Stage(t)' /\ ~Active(t)'
  <2>1. at'[t] \in {"down", "built"}
    BY <1>1, Alone
  <2> QED
    BY <2>1, IdleStage DEF Active, Stage, Migrating
<1>2. owner = s
  BY DEF WorkspaceInv, LockHeld
<1> QED
  BY <1>1, <1>2 DEF StageInv

---------------------------------------------------------------------------
(* Start-up.                                                               *)

\* The job manager is built, or the lock is taken, or it is not.
LEMMA BeginStartUp ==
    ASSUME WorkspaceInv, NEW s \in Servers, BuildJobManager(s) \/ AcquireInstanceLock(s),
           UNCHANGED existing
    PROVE  WorkspaceInv'
<1>0. WorkspaceTypes /\ LockHeld /\ StageInv /\ DisplayInv
  BY DEF WorkspaceInv
<1>1. StoreKept
  BY DEF StoreKept, BuildJobManager, AcquireInstanceLock
<1>2. /\ RestoreInv' /\ MarkerInv' /\ ArchiveInv' /\ UndoInv' /\ WorkspaceNothingLost'
      /\ AppliedVersion' = AppliedVersion /\ HasDefault' = HasDefault /\ Clean' = Clean
  BY <1>1, StoreKeptInv
<1>3. UNCHANGED <<activity, existing, restores, file>>
  BY DEF BuildJobManager, AcquireInstanceLock
<1>4. DisplayInv'
  BY <1>0, <1>2, <1>3 DEF DisplayInv
<1>5. CASE BuildJobManager(s)
  <2>1. /\ at' \in [Servers -> {"down", "built", "serving"} \cup Migrating]
        /\ at'[s] = "built" /\ \A t \in Servers : t # s => at'[t] = at[t]
    BY <1>0, <1>5, ProcessMoved DEF BuildJobManager
  <2>2. at[s] = "down" /\ UNCHANGED <<owner, level, restore, edits, made, archive, excuses, kept>>
    BY <1>5 DEF BuildJobManager
  <2>3. jobsFile' \in {"active", "ended", "interrupted"}
    BY <1>0, <1>5 DEF BuildJobManager, WorkspaceTypes, WorkspaceTypeOK
  <2>4. WorkspaceTypes'
    BY <1>0, <1>3, <2>1, <2>2, <2>3 DEF WorkspaceTypes, WorkspaceTypeOK
  <2>5. LockHeld'
    BY <1>0, <2>1, <2>2 DEF LockHeld, Active
  <2>6. StageInv'
    <3> SUFFICES ASSUME NEW t \in Servers PROVE Stage(t)'
      BY DEF StageInv
    <3>1. CASE t = s
      BY <2>1, <3>1, IdleStage DEF Stage, Migrating
    <3>2. CASE t # s
      BY <1>0, <1>2, <1>3, <2>1, <2>2, <3>2 DEF StageInv, Stage
    <3> QED
      BY <3>1, <3>2
  <2> QED
    BY <1>2, <1>4, <2>4, <2>5, <2>6 DEF WorkspaceInv
<1>6. CASE AcquireInstanceLock(s) /\ owner # Nobody
  <2>1. /\ at' \in [Servers -> {"down", "built", "serving"} \cup Migrating]
        /\ at'[s] = "down" /\ \A t \in Servers : t # s => at'[t] = at[t]
    BY <1>0, <1>6, ProcessMoved DEF AcquireInstanceLock
  <2>2. at[s] = "built"
        /\ UNCHANGED <<owner, level, restore, edits, made, archive, excuses, kept, jobsFile>>
    BY <1>6 DEF AcquireInstanceLock
  <2>4. WorkspaceTypes'
    BY <1>0, <1>3, <2>1, <2>2 DEF WorkspaceTypes, WorkspaceTypeOK
  <2>5. LockHeld'
    BY <1>0, <2>1, <2>2 DEF LockHeld, Active
  <2>6. StageInv'
    <3> SUFFICES ASSUME NEW t \in Servers PROVE Stage(t)'
      BY DEF StageInv
    <3>1. CASE t = s
      BY <2>1, <3>1, IdleStage DEF Stage, Migrating
    <3>2. CASE t # s
      BY <1>0, <1>2, <1>3, <2>1, <2>2, <3>2 DEF StageInv, Stage
    <3> QED
      BY <3>1, <3>2
  <2> QED
    BY <1>2, <1>4, <2>4, <2>5, <2>6 DEF WorkspaceInv
<1>7. CASE AcquireInstanceLock(s) /\ owner = Nobody
  <2>1. /\ at' \in [Servers -> {"down", "built", "serving"} \cup Migrating]
        /\ at'[s] = "checking" /\ \A t \in Servers : t # s => at'[t] = at[t]
    BY <1>0, <1>7, Names, ProcessMoved DEF AcquireInstanceLock
  <2>2. at[s] = "built" /\ owner' = s /\ level' = [level EXCEPT ![s] = AppliedVersion]
        /\ UNCHANGED <<restore, edits, made, archive, excuses, kept, jobsFile>>
    BY <1>7 DEF AcquireInstanceLock
  <2>3. \A t \in Servers : ~Active(t)
    BY <1>0, <1>7, WorkspaceAssumption DEF LockHeld, WorkspaceAssumption
  <2>4. AppliedVersion \in 0 .. CurrentSchemaVersion
    BY <1>0, Typing, Names
  <2>5. WorkspaceTypes'
    BY <1>0, <1>3, <2>1, <2>2, <2>4 DEF WorkspaceTypes, WorkspaceTypeOK
  <2>6. LockHeld'
    BY <1>0, <2>1, <2>2, <2>3 DEF LockHeld, Active
  <2>7. level'[s] = AppliedVersion
    BY <1>0, <2>2 DEF WorkspaceTypes, WorkspaceTypeOK
  <2>8. StageInv'
    <3> SUFFICES ASSUME NEW t \in Servers PROVE Stage(t)'
      BY DEF StageInv
    <3>1. CASE t = s
      BY <1>0, <1>2, <1>3, <2>1, <2>7, <3>1 DEF Stage, DisplayInv
    <3>2. CASE t # s
      <4>1. at'[t] \in {"down", "built"}
        BY <2>1, <2>3, <3>2 DEF Active
      <4> QED
        BY <4>1, IdleStage DEF Stage, Migrating
    <3> QED
      BY <3>1, <3>2
  <2> QED
    BY <1>2, <1>4, <2>5, <2>6, <2>8 DEF WorkspaceInv
<1> QED
  BY <1>5, <1>6, <1>7

\* The steps of a migration touch neither the archive nor a restore.
MigrationFrame ==
    UNCHANGED <<existing, owner, jobsFile, archive, restore, edits, restores, made, excuses>>

\* What is left to show of such a step.
LEMMA MigrationInv ==
    ASSUME WorkspaceInv, NEW s \in Servers, at[s] \in Migrating, MigrationFrame,
           at' \in [Servers -> {"down", "built", "serving"} \cup Migrating],
           \A t \in Servers : t # s => at'[t] = at[t],
           file' \in [Files -> Contents], kept' \in [Files -> Contents],
           level' \in [Servers -> 0 .. 3], activity' \in BOOLEAN,
           Stage(s)', DisplayInv', WorkspaceNothingLost', Clean => FilesUpTo'
    PROVE  WorkspaceInv'
<1>1. Active(s) /\ restore.phase = "none"
  BY NoRestore, Names DEF Active
<1>2. WorkspaceTypes'
  BY Names DEF WorkspaceInv, WorkspaceTypes, WorkspaceTypeOK, MigrationFrame
<1>3. StageInv' /\ \A t \in Servers : Active(t)' => owner' = t
  BY <1>1, OwnStage DEF MigrationFrame
<1>4. LockHeld' /\ RestoreInv' /\ ArchiveInv' /\ UndoInv'
  BY <1>1, <1>3 DEF WorkspaceInv, MigrationFrame, LockHeld, RestoreInv, ArchiveInv, UndoInv
<1>5. MarkerInv'
  BY <1>1 DEF WorkspaceInv, MigrationFrame, MarkerInv, Clean, ArchiveUpTo, RestUpTo, RestoredUpTo
<1> QED
  BY <1>2, <1>3, <1>4, <1>5 DEF WorkspaceInv

\* A migration begins: it has something to rewrite, or it has not.
LEMMA MigrateStep ==
    ASSUME WorkspaceInv, NEW s \in Servers, Migrate(s), UNCHANGED existing
    PROVE  WorkspaceInv'
<1> DEFINE k == level[s] + 1
           f == Target[k]
<1>0. WorkspaceTypes /\ Stage(s) /\ DisplayInv /\ MarkerInv /\ WorkspaceNothingLost
  BY DEF WorkspaceInv, StageInv
<1>1. /\ at[s] \in {"checking", "migrating"} /\ MigrationFrame
      /\ UNCHANGED <<activity, level>> /\ k <= 3
  BY Names DEF Migrate, MigrationFrame
<1>2. level[s] \in 0 .. 2 /\ k \in 1 .. 3 /\ f \in Files \ {"schema"} /\ AppliedVersion = level[s]
      /\ file[f] \in Contents
  BY <1>0, <1>1, Typing, Names DEF Stage
<1>3. at[s] \in Migrating /\ Active(s) /\ restore.phase = "none"
  BY <1>1, Names, NoRestore DEF Active
<1>4. /\ file \in [Files -> Contents] /\ kept \in [Files -> Contents]
      /\ level \in [Servers -> 0 .. 3] /\ activity \in BOOLEAN
  BY <1>0, Names DEF WorkspaceTypes, WorkspaceTypeOK
<1>5. CASE Applies(k)
  <2>1. /\ kept' = [kept EXCEPT ![f] = file[f]] /\ file' = [file EXCEPT ![f] = Torn]
        /\ Moved(s, "rewriting")
    BY <1>5 DEF Migrate
  <2>2. /\ at' \in [Servers -> {"down", "built", "serving"} \cup Migrating]
        /\ at'[s] = "rewriting" /\ \A t \in Servers : t # s => at'[t] = at[t]
    BY <1>0, <2>1, Names, ProcessMoved
  <2>3. /\ file' \in [Files -> Contents] /\ file'[f] = Torn
        /\ (\A g \in Files : g # f => file'[g] = file[g]) /\ AppliedVersion' = AppliedVersion
    BY <1>0, <1>2, <2>1, NewContents, FileWritten
  <2>4. kept' \in [Files -> Contents] /\ kept'[f] = file[f]
        /\ \A g \in Files : g # f => kept'[g] = kept[g]
    BY <1>2, <1>4, <2>1
  <2>5. HasDefault => HasDefault'
    BY <2>3, NewContents, Names DEF HasDefault
  <2>6. k # 2 => file[f].state = "ok"
    BY <1>5 DEF Applies
  <2>7. existing \/ restores # 0
    <3> SUFFICES ASSUME ~existing, restores = 0 PROVE FALSE
      BY DEF WorkspaceInv, WorkspaceTypes, WorkspaceTypeOK
    <3>1. ~activity
      BY <1>0, <1>2, <1>3, Names DEF Stage
    <3>2. CASE k = 2
      BY <1>5, <3>1, <3>2 DEF Applies, PredatesDisplay
    <3>3. CASE k # 2
      <4>1. f \in {"annotations", "exceptions"}
        BY <1>2, <3>3, Names
      <4> QED
        BY <1>0, <2>6, <3>1, <3>3, <4>1 DEF DisplayInv
    <3> QED
      BY <3>2, <3>3
  <2>8. DisplayInv'
    BY <1>0, <1>1, <2>3, <2>5, <2>7 DEF DisplayInv, MigrationFrame
  <2>9. Stage(s)'
    <3>1. file'[f].state = "torn"
      BY <2>3, NewContents
    <3>2. existing /\ level[s] >= 2 => HasDefault'
      BY <1>0, <1>3, <2>5 DEF Stage
    <3> QED
      BY <1>1, <1>2, <2>2, <2>3, <2>7, <3>1, <3>2, Names DEF Stage, MigrationFrame
  <2>10. WorkspaceNothingLost'
    <3> SUFFICES ASSUME NEW g \in {"annotations", "exceptions"}, made'[g] # 0
                 PROVE  \/ file'[g].state = "ok" /\ file'[g].edit = made'[g]
                        \/ file'[g].state = "torn" /\ kept'[g].edit = made'[g]
      BY DEF WorkspaceNothingLost
    <3>0. g \in Files /\ made' = made
      BY <1>1, Names DEF MigrationFrame
    <3>1. CASE g = f
      <4>1. k # 2
        BY <1>2, <3>1, Names
      <4> QED
        BY <1>0, <2>3, <2>4, <2>6, <3>0, <3>1, <4>1, NewContents DEF WorkspaceNothingLost
    <3>2. CASE g # f
      BY <1>0, <2>3, <2>4, <3>0, <3>2 DEF WorkspaceNothingLost
    <3> QED
      BY <3>1, <3>2
  <2>11. Clean => FilesUpTo'
    <3> SUFFICES ASSUME Clean, NEW g \in Files PROVE UpTo(file'[g], g, AppliedVersion')
      BY DEF FilesUpTo
    <3>1. CASE g = f
      BY <1>2, <2>3, <3>1, Forms, NewContents
    <3>2. CASE g # f
      BY <1>0, <1>3, <2>3, <3>2 DEF MarkerInv, FilesUpTo
    <3> QED
      BY <3>1, <3>2
  <2> QED
    BY <1>1, <1>3, <1>4, <2>2, <2>3, <2>4, <2>8, <2>9, <2>10, <2>11, MigrationInv
<1>6. CASE ~Applies(k)
  <2>1. Moved(s, "marking") /\ UNCHANGED <<file, kept>>
    BY <1>6 DEF Migrate
  <2>2. /\ at' \in [Servers -> {"down", "built", "serving"} \cup Migrating]
        /\ at'[s] = "marking" /\ \A t \in Servers : t # s => at'[t] = at[t]
    BY <1>0, <2>1, Names, ProcessMoved
  <2>3. AppliedVersion' = AppliedVersion /\ HasDefault' = HasDefault /\ Clean' = Clean
    BY <1>1, <2>1 DEF AppliedVersion, HasDefault, Clean, MigrationFrame
  <2>4. DisplayInv' /\ WorkspaceNothingLost' /\ (Clean => FilesUpTo')
    BY <1>0, <1>1, <2>1, <2>3
      DEF DisplayInv, WorkspaceNothingLost, MarkerInv, FilesUpTo, MigrationFrame
  <2>5. ASSUME Clean, NEW g \in Files PROVE UpTo(file[g], g, k)
    <3>1. UpTo(file[g], g, level[s]) /\ file[g] \in Contents
      BY <1>0, <1>2, <1>3, <2>5, Typing DEF MarkerInv, FilesUpTo
    <3>2. CASE g # f
      BY <1>2, <3>1, <3>2, Forms
    <3>3. CASE g = f /\ k = 2
      BY <1>2, <3>1, <3>3, Forms, Names
    <3>4. CASE g = f /\ k # 2
      <4>1. file[g].state # "ok" \/ ~(file[g].form < k)
        BY <1>6, <3>4 DEF Applies
      <4>2. file[g].form \in Nat
        BY <3>1, Names DEF Contents
      <4>3. file[g].state # "ok" \/ file[g].form >= k
        BY <1>2, <4>1, <4>2
      <4> QED
        BY <1>2, <3>1, <4>3, Forms
    <3> QED
      BY <3>2, <3>3, <3>4
  <2>6. Stage(s)'
    <3>1. existing /\ (level[s] >= 2 \/ level[s] = 1) => HasDefault
      <4> SUFFICES ASSUME existing, level[s] >= 2 \/ level[s] = 1 PROVE HasDefault
        OBVIOUS
      <4>1. CASE level[s] >= 2
        BY <1>0, <1>3, <4>1 DEF Stage
      <4>2. CASE level[s] = 1
        BY <1>0, <1>6, <4>2 DEF Applies, PredatesDisplay, DisplayInv, HasDefault
      <4> QED
        BY <4>1, <4>2
    <3>2. ~existing /\ restores = 0 => ~activity
      BY <1>0, <1>2, <1>3, Names DEF Stage
    <3> QED
      BY <1>1, <1>2, <2>1, <2>2, <2>3, <2>5, <3>1, <3>2, Names DEF Stage, MigrationFrame
  <2> QED
    BY <1>1, <1>3, <1>4, <2>1, <2>2, <2>4, <2>6, MigrationInv
<1> QED
  BY <1>5, <1>6

\* A migration's rewrite ends.
LEMMA RewriteStep ==
    ASSUME WorkspaceInv, NEW s \in Servers, Rewrite(s), UNCHANGED existing
    PROVE  WorkspaceInv'
<1> DEFINE k == level[s] + 1
           f == Target[k]
           c == Holds(k, kept[f].edit)
<1>0. WorkspaceTypes /\ Stage(s) /\ DisplayInv /\ MarkerInv /\ WorkspaceNothingLost
  BY DEF WorkspaceInv, StageInv
<1>1. /\ at[s] = "rewriting" /\ MigrationFrame /\ UNCHANGED <<kept, level>>
      /\ activity' = (activity \/ k = 3) /\ file' = [file EXCEPT ![f] = c] /\ Moved(s, "marking")
  BY DEF Rewrite, MigrationFrame
<1>2. level[s] \in 0 .. 2 /\ k \in 1 .. 3 /\ f \in Files \ {"schema"} /\ AppliedVersion = level[s]
  BY <1>0, <1>1, Typing, Names DEF Stage
<1>3. at[s] \in Migrating /\ restore.phase = "none"
  BY <1>1, Names, NoRestore DEF Active
<1>4. kept \in [Files -> Contents] /\ level \in [Servers -> 0 .. 3] /\ activity' \in BOOLEAN
  BY <1>0, <1>1, Names DEF WorkspaceTypes, WorkspaceTypeOK
<1>5. kept[f].edit \in -2 .. MaxEdits
  BY <1>2, <1>4 DEF Contents
<1>6. c \in Contents /\ c.state = "ok" /\ c.form = k /\ c.edit = kept[f].edit
  BY <1>2, <1>5, NewContents
<1> HIDE DEF c
<1>7. /\ at' \in [Servers -> {"down", "built", "serving"} \cup Migrating]
      /\ at'[s] = "marking" /\ \A t \in Servers : t # s => at'[t] = at[t]
  BY <1>0, <1>1, Names, ProcessMoved
<1>8. /\ file' \in [Files -> Contents] /\ file'[f] = c
      /\ (\A g \in Files : g # f => file'[g] = file[g]) /\ AppliedVersion' = AppliedVersion
  BY <1>0, <1>1, <1>2, <1>6, FileWritten
<1>9. HasDefault => HasDefault'
  BY <1>6, <1>8, Names DEF HasDefault
<1>10. existing \/ restores # 0
  BY <1>0, <1>1 DEF Stage, WorkspaceTypes, WorkspaceTypeOK
<1>a. activity => activity'
  BY <1>1
<1>b. existing' = existing /\ restores' = restores
  BY <1>1 DEF MigrationFrame
<1>11. DisplayInv'
  BY <1>0, <1>8, <1>9, <1>10, <1>a, <1>b DEF DisplayInv
<1>12. WorkspaceNothingLost'
  <2> SUFFICES ASSUME NEW g \in {"annotations", "exceptions"}, made'[g] # 0
               PROVE  \/ file'[g].state = "ok" /\ file'[g].edit = made'[g]
                      \/ file'[g].state = "torn" /\ kept'[g].edit = made'[g]
    BY DEF WorkspaceNothingLost
  <2>0. g \in Files /\ made' = made /\ file[f].state = "torn"
    BY <1>0, <1>1, Names DEF MigrationFrame, Stage
  <2>1. CASE g = f
    BY <1>0, <1>6, <1>8, <2>0, <2>1 DEF WorkspaceNothingLost
  <2>2. CASE g # f
    BY <1>0, <1>1, <1>8, <2>0, <2>2 DEF WorkspaceNothingLost
  <2> QED
    BY <2>1, <2>2
<1>13. ASSUME Clean, NEW g \in Files
       PROVE  UpTo(file'[g], g, level[s]) /\ UpTo(file'[g], g, k)
  <2>1. CASE g = f
    <3>1. k >= level[s] /\ level[s] \in 0 .. 3 /\ k \in 0 .. 3 /\ f \in Files
      BY <1>2
    <3> QED
      BY <1>6, <1>8, <2>1, <3>1, Forms
  <2>2. CASE g # f
    <3>1. UpTo(file[g], g, level[s]) /\ file[g] \in Contents
      BY <1>0, <1>2, <1>3, <1>13, Typing DEF MarkerInv, FilesUpTo
    <3> QED
      BY <1>2, <1>8, <2>2, <3>1, Forms
  <2> QED
    BY <2>1, <2>2
<1>14. Clean => FilesUpTo'
  BY <1>2, <1>8, <1>13 DEF FilesUpTo
<1>15. Stage(s)'
  <2>1. existing /\ (level[s] >= 2 \/ level[s] = 1) => HasDefault'
    <3>1. level[s] >= 2 /\ existing => HasDefault'
      BY <1>0, <1>3, <1>9 DEF Stage
    <3>2. level[s] = 1 => HasDefault'
      BY <1>6, <1>8, Names DEF HasDefault
    <3> QED
      BY <3>1, <3>2
  <2>2. Clean' = Clean
    BY <1>1 DEF Clean, MigrationFrame
  <2> QED
    BY <1>1, <1>2, <1>7, <1>8, <1>10, <1>13, <2>1, <2>2, Names DEF Stage, MigrationFrame
<1> QED
  BY <1>1, <1>3, <1>4, <1>7, <1>8, <1>11, <1>12, <1>14, <1>15, MigrationInv

\* The marker is opened, or written: the files are as they were.
LEMMA MarkerStep ==
    ASSUME WorkspaceInv, NEW s \in Servers, Mark(s) \/ Stamp(s), UNCHANGED existing
    PROVE  WorkspaceInv'
<1> DEFINE k == level[s] + 1
<1>0. WorkspaceTypes /\ Stage(s) /\ DisplayInv /\ MarkerInv /\ WorkspaceNothingLost
  BY DEF WorkspaceInv, StageInv
<1>1. at[s] \in {"marking", "stamping"} /\ MigrationFrame /\ UNCHANGED <<kept, activity>>
  BY DEF Mark, Stamp, MigrationFrame
<1>2. level[s] \in 0 .. 2 /\ k \in 1 .. 3 /\ "schema" \in Files
  BY <1>0, <1>1, Typing, Names DEF Stage
<1>3. at[s] \in Migrating /\ restore.phase = "none"
  BY <1>1, Names, NoRestore DEF Active
<1>4. kept \in [Files -> Contents] /\ level \in [Servers -> 0 .. 3] /\ activity \in BOOLEAN
      /\ existing \in BOOLEAN
  BY <1>0, <1>1, Names DEF WorkspaceTypes, WorkspaceTypeOK
<1>5. ~existing /\ restores = 0 => ~activity
  BY <1>0, <1>1, <1>3, <1>4 DEF Stage
<1>6. existing /\ k >= 2 => HasDefault
  <2>1. CASE level[s] >= 2
    BY <1>0, <1>3, <2>1 DEF Stage
  <2>2. CASE level[s] = 1
    BY <1>0, <1>1, <2>2 DEF Stage
  <2> QED
    BY <1>2, <2>1, <2>2
<1>7. ASSUME NEW c \in Contents, file' = [file EXCEPT !["schema"] = c],
             c.state = "ok" => c.form = k
      PROVE  /\ file' \in [Files -> Contents]
             /\ AppliedVersion' = IF c.state = "ok" THEN k ELSE 0
             /\ HasDefault' = HasDefault /\ DisplayInv' /\ WorkspaceNothingLost'
             /\ Clean => FilesUpTo' /\ \A f \in Files : UpTo(file'[f], f, k)
  <2>1. /\ file' \in [Files -> Contents] /\ file'["schema"] = c
        /\ \A g \in Files : g # "schema" => file'[g] = file[g]
        /\ AppliedVersion' = IF c.state = "ok" THEN k ELSE 0
    BY <1>0, <1>2, <1>7, FileWritten
  <2>2. HasDefault' = HasDefault
    BY <2>1, Names DEF HasDefault
  <2>3. DisplayInv'
    BY <1>0, <1>1, <1>5, <1>6, <2>1, <2>2, Names DEF DisplayInv, MigrationFrame
  <2>4. WorkspaceNothingLost'
    BY <1>0, <1>1, <2>1, Names DEF WorkspaceNothingLost, MigrationFrame
  <2>5. ASSUME Clean, NEW f \in Files PROVE UpTo(file'[f], f, k) /\ UpTo(file'[f], f, 0)
    <3>1. CASE f = "schema"
      BY <1>2, <1>7, <2>1, <3>1, Forms
    <3>2. CASE f # "schema"
      <4>1. UpTo(file[f], f, k) /\ file[f] \in Contents
        BY <1>0, <1>1, <2>5, Typing DEF Stage
      <4> QED
        BY <2>1, <3>2, <4>1, Forms
    <3> QED
      BY <3>1, <3>2
  <2> QED
    BY <2>1, <2>2, <2>3, <2>4, <2>5 DEF FilesUpTo
<1>8. CASE Mark(s)
  <2>1. file' = [file EXCEPT !["schema"] = Torn] /\ Moved(s, "stamping") /\ UNCHANGED level
        /\ at[s] = "marking"
    BY <1>8 DEF Mark
  <2>2. /\ at' \in [Servers -> {"down", "built", "serving"} \cup Migrating]
        /\ at'[s] = "stamping" /\ \A t \in Servers : t # s => at'[t] = at[t]
    BY <1>0, <2>1, Names, ProcessMoved
  <2>3. /\ file' \in [Files -> Contents] /\ AppliedVersion' = 0
        /\ HasDefault' = HasDefault /\ DisplayInv' /\ WorkspaceNothingLost'
        /\ Clean => FilesUpTo' /\ \A f \in Files : UpTo(file'[f], f, k)
    BY <1>7, <2>1, NewContents
  <2>4. Stage(s)'
    BY <1>1, <1>2, <1>5, <1>6, <2>1, <2>2, <2>3, Names DEF Stage, MigrationFrame, Clean
  <2> QED
    BY <1>1, <1>3, <1>4, <2>1, <2>2, <2>3, <2>4, MigrationInv
<1>9. CASE Stamp(s)
  <2>1. file' = [file EXCEPT !["schema"] = Holds(k, 0)] /\ Moved(s, "migrating")
        /\ level' = [level EXCEPT ![s] = level[s] + 1] /\ at[s] = "stamping"
    BY <1>9 DEF Stamp
  <2>2. /\ at' \in [Servers -> {"down", "built", "serving"} \cup Migrating]
        /\ at'[s] = "migrating" /\ \A t \in Servers : t # s => at'[t] = at[t]
    BY <1>0, <2>1, Names, ProcessMoved
  <2>3. 0 \in -2 .. MaxEdits /\ k \in 0 .. 3
    BY <1>0, <1>2, Typing
  <2>4. Holds(k, 0) \in Contents /\ Holds(k, 0).state = "ok" /\ Holds(k, 0).form = k
    BY <2>3, NewContents
  <2>5. /\ file' \in [Files -> Contents] /\ AppliedVersion' = k
        /\ HasDefault' = HasDefault /\ DisplayInv' /\ WorkspaceNothingLost'
        /\ Clean => FilesUpTo' /\ \A f \in Files : UpTo(file'[f], f, k)
    BY <1>7, <2>1, <2>4
  <2>6. level' \in [Servers -> 0 .. 3] /\ level'[s] = k
    BY <1>2, <1>4, <2>1
  <2>7. Stage(s)'
    BY <1>1, <1>2, <1>5, <1>6, <2>2, <2>5, <2>6, Names DEF Stage, MigrationFrame
  <2> QED
    BY <1>1, <1>3, <1>4, <2>2, <2>5, <2>6, <2>7, MigrationInv
<1> QED
  BY <1>8, <1>9

\* Every migration is applied, and the pages are served.
LEMMA ServeStep ==
    ASSUME WorkspaceInv, NEW s \in Servers, Serve(s), UNCHANGED existing
    PROVE  WorkspaceInv'
<1>0. WorkspaceTypes /\ Stage(s) /\ DisplayInv /\ MarkerInv /\ WorkspaceNothingLost
  BY DEF WorkspaceInv, StageInv
<1>1. /\ at[s] \in {"checking", "migrating"} /\ MigrationFrame /\ UNCHANGED <<file, kept, level>>
      /\ level[s] >= 3 /\ activity' = (activity \/ at[s] = "migrating") /\ Moved(s, "serving")
      /\ StoreKept
  BY Names DEF Serve, MigrationFrame, StoreKept
<1>2. at[s] \in Migrating /\ level[s] = 3 /\ AppliedVersion = 3
  BY <1>0, <1>1, Typing, Names DEF Stage
<1>3. /\ file \in [Files -> Contents] /\ kept \in [Files -> Contents]
      /\ level \in [Servers -> 0 .. 3] /\ activity' \in BOOLEAN
  BY <1>0, <1>1, Names DEF WorkspaceTypes, WorkspaceTypeOK
<1>4. /\ at' \in [Servers -> {"down", "built", "serving"} \cup Migrating]
      /\ at'[s] = "serving" /\ \A t \in Servers : t # s => at'[t] = at[t]
  BY <1>0, <1>1, ProcessMoved
<1>5. /\ MarkerInv' /\ WorkspaceNothingLost'
      /\ AppliedVersion' = AppliedVersion /\ HasDefault' = HasDefault /\ Clean' = Clean
  BY <1>1, StoreKeptInv
<1>a. (activity => activity') /\ existing' = existing /\ restores' = restores
  BY <1>1 DEF MigrationFrame
<1>b. file' = file /\ AppliedVersion' = CurrentSchemaVersion
  BY <1>1, <1>2, <1>5, Names
<1>6. DisplayInv'
  BY <1>0, <1>2, <1>5, <1>a, <1>b, Names DEF DisplayInv
<1>7. Stage(s)'
  BY <1>0, <1>1, <1>2, <1>4, <1>5, Names DEF Stage, MigrationFrame
<1> QED
  BY <1>1, <1>2, <1>3, <1>4, <1>5, <1>6, <1>7, MigrationInv DEF MarkerInv

---------------------------------------------------------------------------
(* While the workspace is served.                                          *)

ServedFrame == UNCHANGED <<existing, kept, owner, at, level>>

\* What is left to show of such a step.
LEMMA ServedInv ==
    ASSUME WorkspaceInv, NEW s \in Servers, at[s] = "serving", ServedFrame,
           WorkspaceTypes', HasDefault => HasDefault', DisplayInv',
           ~existing /\ restores' = 0 => restores = 0 /\ AppliedVersion' = AppliedVersion,
           RestoreInv', MarkerInv', ArchiveInv', UndoInv', WorkspaceNothingLost'
    PROVE  WorkspaceInv'
<1>1. Active(s) /\ Stage(s)
  BY DEF Active, WorkspaceInv, StageInv
<1>2. Stage(s)'
  BY <1>1, Names DEF Stage, ServedFrame
<1>3. StageInv' /\ \A t \in Servers : Active(t)' => owner' = t
  BY <1>1, <1>2, OwnStage DEF ServedFrame
<1>4. LockHeld'
  BY <1>3 DEF LockHeld, ServedFrame
<1> QED
  BY <1>3, <1>4 DEF WorkspaceInv

\* An edit of a file, which may race a restore.
LEMMA EditStep ==
    ASSUME WorkspaceInv, NEW s \in Servers, NEW f \in {"annotations", "exceptions"}, Edit(s, f),
           UNCHANGED existing
    PROVE  WorkspaceInv'
<1> DEFINE form == IF f = "exceptions" THEN 1
                   ELSE IF file[f].state = "absent" THEN CurrentSchemaVersion ELSE file[f].form
           c == Holds(form, edits + 1)
<1>0. WorkspaceTypes /\ Stage(s) /\ DisplayInv /\ MarkerInv /\ WorkspaceNothingLost /\ RestoreInv
      /\ ArchiveInv
  BY DEF WorkspaceInv, StageInv
<1>1. /\ at[s] = "serving" /\ ServedFrame /\ edits < MaxEdits /\ edits' = edits + 1
      /\ file[f].state # "torn" /\ activity'
      /\ made' = [made EXCEPT ![f] = edits + 1]
      /\ UNCHANGED <<jobsFile, archive, restore, restores>>
      /\ excuses' = IF restore.phase = "none" THEN excuses ELSE excuses \cup {"raced"}
  BY DEF Edit, ServedFrame
<1>2. file' = [file EXCEPT ![f] = c]
  BY DEF Edit
<1>3. f \in Files \ {"schema", "display"} /\ file[f] \in Contents /\ edits + 1 \in -2 .. MaxEdits
      /\ edits + 1 \in 0 .. MaxEdits
  BY <1>0, <1>1, Names, Typing
<1>4. form \in 0 .. 3
  BY <1>3, Names DEF Contents
<1>5. c \in Contents /\ c.state = "ok" /\ c.form = form /\ c.edit = edits + 1
  BY <1>3, <1>4, NewContents
<1> HIDE DEF c
<1>6. /\ file' \in [Files -> Contents] /\ file'[f] = c
      /\ (\A g \in Files : g # f => file'[g] = file[g]) /\ AppliedVersion' = AppliedVersion
  BY <1>0, <1>2, <1>3, <1>5, FileWritten
<1>7. ASSUME NEW g \in Files, NEW v \in 0 .. 3, UpTo(file[g], g, v) PROVE UpTo(file'[g], g, v)
  <2>1. CASE g # f
    BY <1>6, <1>7, <2>1
  <2>2. CASE g = f
    BY <1>1, <1>3, <1>4, <1>5, <1>6, <1>7, <2>2, Names DEF UpTo, FormBy, Contents
  <2> QED
    BY <2>1, <2>2
<1>8. HasDefault' = HasDefault
  BY <1>3, <1>6, Names DEF HasDefault
<1>9. made' \in [Files -> -2 .. MaxEdits] /\ made'[f] = edits + 1
      /\ \A g \in Files : g # f => made'[g] = made[g]
  BY <1>0, <1>1, <1>3 DEF WorkspaceTypes
<1>10. excuses' \subseteq {"raced", "markerless", "abandoned", "mixed", "again"} /\ activity' \in BOOLEAN
  BY <1>0, <1>1 DEF WorkspaceTypes, WorkspaceTypeOK, Edit
<1>11. WorkspaceTypes'
  BY <1>0, <1>1, <1>3, <1>6, <1>9, <1>10 DEF WorkspaceTypes, WorkspaceTypeOK, ServedFrame
<1>12. DisplayInv'
  BY <1>0, <1>1, <1>6, <1>8, Names DEF DisplayInv, Stage, ServedFrame
<1>13. RestoreInv' /\ ArchiveInv'
  BY <1>0, <1>1 DEF RestoreInv, ArchiveInv
<1>14. MarkerInv'
  <2> SUFFICES ASSUME Clean' PROVE FilesUpTo' /\ ArchiveUpTo' /\ RestUpTo' /\ RestoredUpTo'
    BY DEF MarkerInv
  <2>1. FilesUpTo /\ ArchiveUpTo /\ RestUpTo /\ RestoredUpTo
    BY <1>0, <1>1 DEF MarkerInv, Clean
  <2>2. AppliedVersion \in 0 .. 3 /\ CurrentSchemaVersion \in 0 .. 3
        /\ MarkedIn(restore.members) \in 0 .. 3
    BY <1>0, Typing, SomePieces, Names
  <2>3. FilesUpTo' /\ ArchiveUpTo'
    BY <1>1, <1>6, <1>7, <2>1, <2>2 DEF FilesUpTo, ArchiveUpTo
  <2>4. RestUpTo'
    BY <1>1, <1>7, <2>1, <2>2 DEF RestUpTo
  <2>5. RestoredUpTo'
    BY <1>1, <1>3, <1>6, <1>7, <2>1, <2>2, Names DEF RestoredUpTo
  <2> QED
    BY <2>3, <2>4, <2>5
<1>15. UndoInv'
  BY <1>1 DEF UndoInv
<1>16. WorkspaceNothingLost'
  <2> SUFFICES ASSUME NEW g \in {"annotations", "exceptions"}, made'[g] # 0
               PROVE  \/ file'[g].state = "ok" /\ file'[g].edit = made'[g]
                      \/ file'[g].state = "torn" /\ kept'[g].edit = made'[g]
    BY DEF WorkspaceNothingLost
  <2>1. g \in Files /\ kept' = kept
    BY <1>1, Names DEF ServedFrame
  <2> QED
    BY <1>0, <1>5, <1>6, <1>9, <2>1 DEF WorkspaceNothingLost
<1> QED
  BY <1>1, <1>6, <1>8, <1>11, <1>12, <1>13, <1>14, <1>15, <1>16, ServedInv

\* A job starts or ends, or an archive is made: the files are as they were.
LEMMA ReadingStep ==
    ASSUME WorkspaceInv, NEW s \in Servers, RunJob(s) \/ Hash(s) \/ Archive(s), UNCHANGED existing
    PROVE  WorkspaceInv'
<1>0. WorkspaceTypes /\ Stage(s) /\ DisplayInv /\ MarkerInv /\ WorkspaceNothingLost /\ RestoreInv
      /\ ArchiveInv /\ UndoInv
  BY DEF WorkspaceInv, StageInv
<1>1. /\ at[s] = "serving" /\ ServedFrame /\ UNCHANGED <<file, made, restore, restores>>
      /\ activity => activity'
  BY DEF RunJob, Hash, Archive, ServedFrame
<1>2. AppliedVersion' = AppliedVersion /\ HasDefault' = HasDefault
  BY <1>1 DEF AppliedVersion, HasDefault
<1>3. DisplayInv' /\ RestoreInv' /\ WorkspaceNothingLost'
  BY <1>0, <1>1, <1>2, Names
     DEF DisplayInv, Stage, RestoreInv, WorkspaceNothingLost, ServedFrame
<1>4. excuses \subseteq excuses' /\ ("raced" \in excuses' => "raced" \in excuses)
      /\ excuses' \subseteq {"raced", "markerless", "abandoned", "mixed", "again"}
  BY <1>0 DEF RunJob, Hash, Archive, WorkspaceTypes, WorkspaceTypeOK
<1>5. UndoInv'
  BY <1>0, <1>1, <1>4 DEF UndoInv
<1>6. activity' \in BOOLEAN /\ jobsFile' \in {"active", "ended", "interrupted"}
      /\ edits' \in 0 .. MaxEdits
  <2>1. activity \in BOOLEAN /\ jobsFile \in {"active", "ended", "interrupted"}
        /\ edits \in 0 .. MaxEdits /\ MaxEdits \in Nat
    BY <1>0, Typing DEF WorkspaceTypes, WorkspaceTypeOK
  <2>2. CASE RunJob(s)
    BY <2>1, <2>2 DEF RunJob
  <2>3. CASE Hash(s) \/ Archive(s)
    BY <2>1, <2>3 DEF Hash, Archive
  <2> QED
    BY <2>2, <2>3
<1>7. /\ archive' \in [hashed : Pieces, members : Pieces]
      /\ "display" \notin DOMAIN archive'.hashed
      /\ ArchiveInv' /\ (Clean' => ArchiveUpTo')
  <2>1. CASE RunJob(s)
    BY <1>0, <1>4, <2>1
       DEF RunJob, WorkspaceTypes, ArchiveInv, MarkerInv, ArchiveUpTo, Clean
  <2>2. CASE Hash(s)
    <3>1. archive' = [hashed |-> Content(Members), members |-> <<>>]
          /\ excuses' = IF restore.phase = "none" THEN excuses ELSE excuses \cup {"mixed"}
      BY <2>2 DEF Hash
    <3>2. Members \subseteq Files /\ "display" \notin Members
          /\ ("schema" \notin Members => file["schema"].state = "absent")
      BY Names DEF Members
    <3>3. /\ Content(Members) \in Pieces /\ DOMAIN Content(Members) = Members
          /\ \A f \in Members : Content(Members)[f] = file[f]
      BY <1>0, <3>2, SomePieces, Typing
    <3>4. MarkedIn(Content(Members)) = AppliedVersion
      BY <3>2, <3>3 DEF MarkedIn, AppliedVersion
    <3> DEFINE hashed == Content(Members)
    <3> HIDE DEF hashed
    <3>5. archive' = [hashed |-> hashed, members |-> <<>>] /\ hashed \in Pieces
          /\ DOMAIN hashed = Members /\ (\A f \in Members : hashed[f] = file[f])
          /\ MarkedIn(hashed) = AppliedVersion
      BY <3>1, <3>3, <3>4 DEF hashed
    <3>6. ASSUME Clean' PROVE ArchiveUpTo'
      <4>1. restore.phase = "none" /\ Clean
        BY <1>4, <3>1, <3>6 DEF Clean
      <4>2. \A f \in Files : UpTo(file[f], f, AppliedVersion)
        BY <1>0, <4>1 DEF MarkerInv, FilesUpTo
      <4> QED
        BY <3>2, <3>5, <4>2 DEF ArchiveUpTo
    <3> QED
      BY <3>2, <3>5, <3>6, SomePieces DEF ArchiveInv
  <2>3. CASE Archive(s)
    <3>1. archive' = [archive EXCEPT !.members = Content(DOMAIN archive.hashed)] /\ excuses' = excuses
      BY <2>3 DEF Archive
    <3>2. DOMAIN archive.hashed \subseteq Files /\ file \in [Files -> Contents]
      BY <1>0, SomePieces, Typing
    <3>3. /\ Content(DOMAIN archive.hashed) \in Pieces
          /\ DOMAIN Content(DOMAIN archive.hashed) = DOMAIN archive.hashed
      BY <3>2, SomePieces
    <3> DEFINE members == Content(DOMAIN archive.hashed)
    <3> HIDE DEF members
    <3>4. archive' = [archive EXCEPT !.members = members] /\ members \in Pieces
          /\ DOMAIN members = DOMAIN archive.hashed
      BY <3>1, <3>3 DEF members
    <3>5. archive' \in [hashed : Pieces, members : Pieces] /\ archive'.hashed = archive.hashed
          /\ archive'.members = members
      BY <1>0, <3>4 DEF WorkspaceTypes
    <3> QED
      BY <1>0, <3>1, <3>4, <3>5 DEF WorkspaceTypes, ArchiveInv, MarkerInv, ArchiveUpTo, Clean
  <2> QED
    BY <2>1, <2>2, <2>3
<1>8. MarkerInv'
  <2>1. Clean' => Clean
    BY <1>4 DEF Clean
  <2> QED
    BY <1>0, <1>1, <1>2, <1>7, <2>1 DEF MarkerInv, FilesUpTo, RestUpTo, RestoredUpTo
<1>9. WorkspaceTypes'
  BY <1>0, <1>1, <1>4, <1>6, <1>7 DEF WorkspaceTypes, WorkspaceTypeOK, ServedFrame
<1> QED
  BY <1>1, <1>2, <1>3, <1>5, <1>7, <1>8, <1>9, ServedInv

---------------------------------------------------------------------------
(* A restore.                                                              *)

\* Committing a file, and putting one back, move one name in or out of what is
\* replaced: no name occurs twice in the order.
LEMMA ReplacedNext ==
    ASSUME NEW r \in RestoreRecord, r.undone <= r.done
    PROVE  /\ r.undone = r.done => \A f : ~Replaced(r, f)
           /\ \A f : Replaced(r, f) => f \in DOMAIN r.members
           /\ \A q : r.done < 3 /\ q = [r EXCEPT !.done = @ + 1] =>
                /\ q \in RestoreRecord /\ q.done = r.done + 1
                /\ q.phase = r.phase /\ q.members = r.members /\ q.saved = r.saved
                /\ q.undone = r.undone /\ q.before = r.before
                /\ \A f : Replaced(q, f) <=>
                     Replaced(r, f) \/ (f \in DOMAIN r.members /\ f = Order[r.done + 1])
           /\ \A q : r.undone < r.done /\ q = [r EXCEPT !.undone = @ + 1] =>
                /\ q \in RestoreRecord /\ q.undone = r.undone + 1
                /\ q.phase = r.phase /\ q.members = r.members /\ q.saved = r.saved
                /\ q.done = r.done /\ q.before = r.before
                /\ \A f : Replaced(q, f) <=> Replaced(r, f) /\ f # Order[r.undone + 1]
<1>0. r.done \in 0 .. 3 /\ r.undone \in 0 .. 3
  BY DEF RestoreRecord
<1>1. r.undone = r.done => \A f : ~Replaced(r, f)
  BY <1>0 DEF Replaced
<1>2. ASSUME r.done < 3, NEW q, q = [r EXCEPT !.done = @ + 1]
      PROVE  /\ q \in RestoreRecord /\ q.done = r.done + 1
             /\ q.phase = r.phase /\ q.members = r.members /\ q.saved = r.saved
             /\ q.undone = r.undone /\ q.before = r.before
             /\ \A f : Replaced(q, f) <=>
                  Replaced(r, f) \/ (f \in DOMAIN r.members /\ f = Order[r.done + 1])
  <2>1. /\ q \in RestoreRecord /\ q.done = r.done + 1
        /\ q.phase = r.phase /\ q.members = r.members /\ q.saved = r.saved
        /\ q.undone = r.undone /\ q.before = r.before
    BY <1>0, <1>2 DEF RestoreRecord
  <2>2. q.undone + 1 .. q.done = (r.undone + 1 .. r.done) \cup {r.done + 1}
    BY <1>0, <2>1
  <2> QED
    BY <2>1, <2>2 DEF Replaced
<1>3. ASSUME r.undone < r.done, NEW q, q = [r EXCEPT !.undone = @ + 1]
      PROVE  /\ q \in RestoreRecord /\ q.undone = r.undone + 1
             /\ q.phase = r.phase /\ q.members = r.members /\ q.saved = r.saved
             /\ q.done = r.done /\ q.before = r.before
             /\ \A f : Replaced(q, f) <=> Replaced(r, f) /\ f # Order[r.undone + 1]
  <2>1. /\ q \in RestoreRecord /\ q.undone = r.undone + 1
        /\ q.phase = r.phase /\ q.members = r.members /\ q.saved = r.saved
        /\ q.done = r.done /\ q.before = r.before
    BY <1>0, <1>3 DEF RestoreRecord
  <2>2. r.undone + 1 .. r.done = (q.undone + 1 .. q.done) \cup {r.undone + 1}
        /\ r.undone + 1 \notin q.undone + 1 .. q.done
    BY <1>0, <1>3, <2>1
  <2>3. \A i, j \in 1 .. 3 : Order[i] = Order[j] => i = j
    BY Names
  <2>4. r.undone + 1 \in 1 .. 3 /\ q.undone + 1 .. q.done \subseteq 1 .. 3
    BY <1>0, <1>3, <2>1
  <2> QED
    BY <2>1, <2>2, <2>3, <2>4 DEF Replaced
<1> QED
  BY <1>1, <1>2, <1>3 DEF Replaced

\* An archive is accepted.
LEMMA BeginRestoreStep ==
    ASSUME WorkspaceInv, NEW s \in Servers, NEW a \in {archive} \cup OldArchives,
           BeginRestore(s, a), UNCHANGED existing
    PROVE  WorkspaceInv'
<1> DEFINE backup == Content(DOMAIN a.members)
<1>0. WorkspaceTypes /\ Stage(s) /\ DisplayInv /\ MarkerInv /\ WorkspaceNothingLost /\ RestoreInv
      /\ ArchiveInv
  BY DEF WorkspaceInv, StageInv
<1>1. /\ at[s] = "serving" /\ ServedFrame /\ restore.phase = "none" /\ Acceptable(a)
      /\ restores' = restores + 1
      /\ UNCHANGED <<file, activity, jobsFile, archive, edits, made>>
      /\ restore' = [phase |-> "committing", members |-> a.members, done |-> 0,
                     undone |-> 0, saved |-> backup, before |-> file]
  BY DEF BeginRestore, ServedFrame
<1>2. excuses' = excuses
         \cup (IF "schema" \in DOMAIN a.members THEN {} ELSE {"markerless"})
         \cup (IF AppliedVersion = CurrentSchemaVersion THEN {} ELSE {"again"})
  BY DEF BeginRestore
<1>3. restores \in Nat /\ restores' # 0 /\ restores' \in Nat
  BY <1>0, <1>1 DEF WorkspaceTypes
<1>4. a.members \in Pieces /\ "display" \notin DOMAIN a.members
  <2>1. CASE a \in OldArchives
    <3>1. a.members \in UNION {{b.hashed, b.members} : b \in OldArchives}
      BY <2>1
    <3> QED
      BY <2>1, <3>1, WorkspaceAssumption DEF WorkspaceAssumption
  <2>2. CASE a = archive /\ a \notin OldArchives
    BY <1>0, <2>2 DEF WorkspaceTypes, ArchiveInv
  <2> QED
    BY <2>1, <2>2
<1>5. file \in [Files -> Contents] /\ DOMAIN a.members \subseteq Files
  BY <1>0, <1>4, Typing, SomePieces
<1>6. backup \in Pieces /\ DOMAIN backup = DOMAIN a.members
      /\ \A f \in DOMAIN a.members : backup[f] = file[f]
  BY <1>5, SomePieces
<1> HIDE DEF backup
<1>7. /\ restore' \in RestoreRecord /\ restore'.phase = "committing"
      /\ restore'.members = a.members /\ restore'.saved = backup /\ restore'.done = 0
      /\ restore'.undone = 0 /\ restore'.before = file
  <2> DEFINE members == a.members
  <2>1. restore' = [phase |-> "committing", members |-> members, done |-> 0,
                    undone |-> 0, saved |-> backup, before |-> file]
    BY <1>1
  <2>2. members \in Pieces
    BY <1>4
  <2>3. a.members = members
    OBVIOUS
  <2> HIDE DEF members
  <2>4. /\ restore'.phase = "committing" /\ restore'.members = members /\ restore'.saved = backup
        /\ restore'.done = 0 /\ restore'.undone = 0 /\ restore'.before = file
    BY <2>1
  <2>5. restore' \in RestoreRecord
    BY <1>5, <1>6, <2>1, <2>2 DEF RestoreRecord
  <2> QED
    BY <2>3, <2>4, <2>5
<1>8. \A f : ~Replaced(restore', f)
  BY <1>7 DEF Replaced
<1>9. excuses \subseteq excuses'
      /\ excuses' \subseteq {"raced", "markerless", "abandoned", "mixed", "again"}
  BY <1>0, <1>2 DEF WorkspaceTypes, WorkspaceTypeOK
<1>10. WorkspaceTypes'
  BY <1>0, <1>1, <1>3, <1>4, <1>6, <1>7, <1>9, Names
     DEF WorkspaceTypes, WorkspaceTypeOK, ServedFrame
<1>11. AppliedVersion' = AppliedVersion /\ HasDefault' = HasDefault
  BY <1>1 DEF AppliedVersion, HasDefault
<1>12. DisplayInv' /\ WorkspaceNothingLost'
  BY <1>0, <1>1, <1>3, <1>11 DEF DisplayInv, WorkspaceNothingLost, ServedFrame
<1>13. RestoreInv' /\ ArchiveInv'
  <2>1. \A f \in DOMAIN a.members : a.members[f].state = "ok"
    BY <1>1 DEF Acceptable
  <2> QED
    BY <1>0, <1>1, <1>3, <1>5, <1>6, <1>7, <2>1 DEF RestoreInv, ArchiveInv
<1>14. UndoInv'
  BY <1>1, <1>7, <1>8 DEF UndoInv
<1>15. MarkerInv'
  <2> SUFFICES ASSUME Clean' PROVE FilesUpTo' /\ ArchiveUpTo' /\ RestUpTo' /\ RestoredUpTo'
    BY DEF MarkerInv
  <2>1. Clean /\ "schema" \in DOMAIN a.members /\ AppliedVersion = CurrentSchemaVersion
    BY <1>2 DEF Clean
  <2>2. FilesUpTo /\ ArchiveUpTo
    BY <1>0, <2>1 DEF MarkerInv
  <2>3. \A f \in Files : UpTo(file[f], f, CurrentSchemaVersion)
    BY <1>1, <2>1, <2>2 DEF FilesUpTo
  <2>4. \A f \in DOMAIN a.members : UpTo(a.members[f], f, MarkedIn(a.members))
    <3>1. CASE a \in OldArchives
      <4>1. a.members \in UNION {{b.hashed, b.members} : b \in OldArchives}
        BY <3>1
      <4> QED
        BY <4>1, WorkspaceAssumption DEF WorkspaceAssumption
    <3>2. CASE a = archive /\ a \notin OldArchives
      <4>1. DOMAIN a.members \subseteq DOMAIN a.hashed
        BY <1>0, <3>2 DEF ArchiveInv
      <4>2. \A f \in DOMAIN a.hashed : a.members[f] = a.hashed[f]
        BY <1>1 DEF Acceptable
      <4>3. MarkedIn(a.members) = MarkedIn(a.hashed)
        BY <2>1, <4>1, <4>2 DEF MarkedIn
      <4> QED
        BY <2>2, <3>2, <4>1, <4>2, <4>3 DEF ArchiveUpTo
    <3> QED
      BY <3>1, <3>2
  <2>5. FilesUpTo' /\ ArchiveUpTo'
    BY <1>1, <1>7, <2>2 DEF FilesUpTo, ArchiveUpTo
  <2>6. RestUpTo' /\ RestoredUpTo'
    BY <1>1, <1>5, <1>6, <1>7, <1>8, <2>1, <2>3, <2>4 DEF RestUpTo, RestoredUpTo
  <2> QED
    BY <2>5, <2>6
<1> QED
  BY <1>1, <1>3, <1>10, <1>11, <1>12, <1>13, <1>14, <1>15, ServedInv

\* What every step of a restore under way leaves alone.
RestoreFrame ==
    ServedFrame /\ UNCHANGED <<activity, jobsFile, archive, edits, restores, excuses>>

\* A file is put into place, or put back, if the restore concerns it.
LEMMA FilePlaced ==
    ASSUME WorkspaceInv, NEW s \in Servers, at[s] = "serving", RestoreFrame,
           restore.phase # "none", NEW f \in Archived, NEW c,
           f \in DOMAIN restore.members => c \in Contents,
           IF f \in DOMAIN restore.members
             THEN file' = [file EXCEPT ![f] = c] /\ made' = [made EXCEPT ![f] = c.edit]
             ELSE UNCHANGED <<file, made>>,
           restore' \in RestoreRecord, restore'.undone <= restore'.done,
           restore'.members = restore.members, restore'.saved = restore.saved
    PROVE  /\ WorkspaceTypes' /\ HasDefault' = HasDefault /\ DisplayInv' /\ WorkspaceNothingLost'
           /\ restores # 0
           /\ f \in DOMAIN restore.members => file'[f] = c
           /\ \A g \in Files : g # f \/ f \notin DOMAIN restore.members => file'[g] = file[g]
<1>0. WorkspaceTypes /\ Stage(s) /\ DisplayInv /\ RestoreInv /\ WorkspaceNothingLost
  BY DEF WorkspaceInv, StageInv
<1>1. f \in Files \ {"display"}
  BY Names
<1>2. restores # 0
  BY <1>0 DEF RestoreInv
<1>3. UNCHANGED <<existing, kept, owner, at, level, activity, jobsFile, archive, edits, restores,
                 excuses>>
  BY DEF RestoreFrame, ServedFrame
<1>4. file \in [Files -> Contents] /\ made \in [Files -> -2 .. MaxEdits]
  BY <1>0 DEF WorkspaceTypes, WorkspaceTypeOK
<1>5. /\ file' \in [Files -> Contents] /\ made' \in [Files -> -2 .. MaxEdits]
      /\ f \in DOMAIN restore.members => file'[f] = c /\ made'[f] = c.edit
      /\ \A g \in Files : g # f \/ f \notin DOMAIN restore.members =>
           file'[g] = file[g] /\ made'[g] = made[g]
  <2>1. CASE f \in DOMAIN restore.members
    <3>1. c \in Contents /\ c.edit \in -2 .. MaxEdits
      BY <2>1 DEF Contents
    <3> QED
      BY <1>1, <1>4, <2>1, <3>1
  <2>2. CASE f \notin DOMAIN restore.members
    BY <1>4, <2>2
  <2> QED
    BY <2>1, <2>2
<1>6. HasDefault' = HasDefault
  BY <1>1, <1>5, Names DEF HasDefault
<1>7. restore'.phase \in {"none", "committing", "undoing"} /\ restore'.done \in 0 .. 3
      /\ restore'.undone \in 0 .. restore'.done
  BY DEF RestoreRecord
<1>8. WorkspaceTypes'
  BY <1>0, <1>3, <1>5, <1>7, Names DEF WorkspaceTypes, WorkspaceTypeOK
<1>9. DisplayInv'
  BY <1>0, <1>2, <1>3, <1>6 DEF DisplayInv, Stage
<1>10. WorkspaceNothingLost'
  <2> SUFFICES ASSUME NEW g \in {"annotations", "exceptions"}, made'[g] # 0
               PROVE  \/ file'[g].state = "ok" /\ file'[g].edit = made'[g]
                      \/ file'[g].state = "torn" /\ kept'[g].edit = made'[g]
    BY DEF WorkspaceNothingLost
  <2>1. g \in Files
    BY Names
  <2>2. CASE g = f /\ f \in DOMAIN restore.members
    <3>1. c \in Contents /\ file'[g] = c /\ made'[g] = c.edit
      BY <1>5, <2>2
    <3>2. c.state # "ok" => c.edit = 0
      BY <3>1 DEF Contents
    <3> QED
      BY <3>1, <3>2
  <2>3. CASE g # f \/ f \notin DOMAIN restore.members
    BY <1>0, <1>3, <1>5, <2>1, <2>3 DEF WorkspaceNothingLost
  <2> QED
    BY <2>2, <2>3
<1> QED
  BY <1>2, <1>5, <1>6, <1>8, <1>9, <1>10

\* The next file is renamed into place.
LEMMA CommitFileStep ==
    ASSUME WorkspaceInv, NEW s \in Servers, CommitFile(s), UNCHANGED existing
    PROVE  WorkspaceInv'
<1> DEFINE f == Order[restore.done + 1]
           c == restore.members[f]
<1>0. WorkspaceTypes /\ MarkerInv /\ RestoreInv /\ ArchiveInv /\ UndoInv
  BY DEF WorkspaceInv
<1>1. /\ at[s] = "serving" /\ RestoreFrame /\ restore.phase = "committing" /\ restore.done < 3
      /\ restore' = [restore EXCEPT !.done = @ + 1]
      /\ IF f \in DOMAIN restore.members
           THEN file' = [file EXCEPT ![f] = c] /\ made' = [made EXCEPT ![f] = c.edit]
           ELSE UNCHANGED <<file, made>>
  BY Names DEF CommitFile, RestoreFrame, ServedFrame
<1>2. restore \in RestoreRecord /\ restore.done \in 0 .. 2 /\ restore.undone \in 0 .. restore.done
      /\ DOMAIN restore.members \subseteq Files
      /\ (f \in DOMAIN restore.members => c \in Contents)
  BY <1>0, <1>1, Typing, SomePieces DEF WorkspaceTypes
<1>3. f \in Archived /\ (restore.done = 2 => f = "schema")
  <2>1. restore.done + 1 \in 1 .. 3 /\ (restore.done = 2 => restore.done + 1 = 3)
    BY <1>2
  <2> QED
    BY <2>1, Names
<1>4. /\ restore' \in RestoreRecord /\ restore'.done = restore.done + 1
      /\ restore'.phase = restore.phase /\ restore'.members = restore.members
      /\ restore'.saved = restore.saved
      /\ restore'.undone = restore.undone /\ restore'.before = restore.before
      /\ \A g : Replaced(restore', g) <=>
           Replaced(restore, g) \/ (g \in DOMAIN restore.members /\ g = f)
  BY <1>1, <1>2, ReplacedNext
<1>5. restore'.undone <= restore'.done
  BY <1>2, <1>4
<1> HIDE DEF f, c
<1>6. /\ WorkspaceTypes' /\ HasDefault' = HasDefault /\ DisplayInv' /\ WorkspaceNothingLost'
      /\ restores # 0
      /\ f \in DOMAIN restore.members => file'[f] = c
      /\ \A g \in Files : g # f \/ f \notin DOMAIN restore.members => file'[g] = file[g]
  BY <1>1, <1>2, <1>3, <1>4, <1>5, FilePlaced
<1>7. c = restore.members[f] /\ \A g : Replaced(restore, g) => g \in DOMAIN restore.members
  BY DEF c, Replaced
<1>8. RestoreInv' /\ ArchiveInv'
  BY <1>0, <1>1, <1>4 DEF RestoreInv, ArchiveInv, RestoreFrame
<1>9. UndoInv'
  <2> SUFFICES ASSUME "raced" \notin excuses, NEW g \in Files
               PROVE  file'[g] = IF Replaced(restore', g) THEN restore'.members[g]
                                 ELSE restore'.before[g]
    BY <1>1 DEF UndoInv, RestoreFrame
  <2>1. file[g] = IF Replaced(restore, g) THEN restore.members[g] ELSE restore.before[g]
    BY <1>0, <1>1 DEF UndoInv
  <2> QED
    BY <1>4, <1>6, <1>7, <2>1
<1>10. MarkerInv'
  <2> SUFFICES ASSUME Clean PROVE FilesUpTo' /\ ArchiveUpTo' /\ RestUpTo' /\ RestoredUpTo'
    BY <1>1 DEF MarkerInv, Clean, RestoreFrame
  <2>1. ArchiveUpTo /\ RestUpTo /\ RestoredUpTo
    BY <1>0 DEF MarkerInv
  <2>2. FilesUpTo' /\ ArchiveUpTo'
    BY <1>1, <1>4, <2>1 DEF FilesUpTo, ArchiveUpTo, RestoreFrame
  <2>3. RestUpTo'
    <3> SUFFICES ASSUME NEW g \in Files
                 PROVE  /\ ~Replaced(restore', g) => UpTo(file'[g], g, CurrentSchemaVersion)
                        /\ g \in DOMAIN restore'.saved =>
                             UpTo(restore'.saved[g], g, CurrentSchemaVersion)
      BY DEF RestUpTo
    <3>1. /\ ~Replaced(restore, g) => UpTo(file[g], g, CurrentSchemaVersion)
          /\ g \in DOMAIN restore.saved => UpTo(restore.saved[g], g, CurrentSchemaVersion)
      BY <1>1, <2>1 DEF RestUpTo
    <3> QED
      BY <1>4, <1>6, <3>1
  <2>4. RestoredUpTo'
    <3>1. /\ "schema" \in DOMAIN restore.members
          /\ \A g \in DOMAIN restore.members :
               UpTo(restore.members[g], g, MarkedIn(restore.members))
          /\ \A g \in Files : Replaced(restore, g) => UpTo(file[g], g, MarkedIn(restore.members))
      BY <1>1, <2>1 DEF RestoredUpTo
    <3>2. \A g \in Files : Replaced(restore', g) => UpTo(file'[g], g, MarkedIn(restore.members))
      BY <1>4, <1>6, <1>7, <3>1
    <3>3. restore'.done = 3 => file'["schema"] = restore.members["schema"]
      BY <1>2, <1>3, <1>4, <1>6, <1>7, <3>1
    <3> QED
      BY <1>4, <3>1, <3>2, <3>3 DEF RestoredUpTo
  <2> QED
    BY <2>2, <2>3, <2>4
<1> QED
  BY <1>1, <1>6, <1>8, <1>9, <1>10, ServedInv DEF RestoreFrame

\* A file that was replaced is put back, as the snapshot has it.
LEMMA UndoFileStep ==
    ASSUME WorkspaceInv, NEW s \in Servers, UndoFile(s), UNCHANGED existing
    PROVE  WorkspaceInv'
<1> DEFINE f == Order[restore.undone + 1]
           c == restore.saved[f]
<1>0. WorkspaceTypes /\ MarkerInv /\ RestoreInv /\ ArchiveInv /\ UndoInv
  BY DEF WorkspaceInv
<1>1. /\ at[s] = "serving" /\ RestoreFrame /\ restore.phase = "undoing"
      /\ restore.undone < restore.done
      /\ restore' = [restore EXCEPT !.undone = @ + 1]
      /\ IF f \in DOMAIN restore.members
           THEN file' = [file EXCEPT ![f] = c] /\ made' = [made EXCEPT ![f] = c.edit]
           ELSE UNCHANGED <<file, made>>
  BY Names DEF UndoFile, RestoreFrame, ServedFrame
<1>2. restore \in RestoreRecord /\ restore.done \in 0 .. 3 /\ restore.undone \in 0 .. 2
      /\ DOMAIN restore.saved = DOMAIN restore.members
      /\ (f \in DOMAIN restore.members => c \in Contents)
  BY <1>0, <1>1, Typing, SomePieces DEF WorkspaceTypes
<1>3. f \in Archived
  <2>1. restore.undone + 1 \in 1 .. 3
    BY <1>2
  <2> QED
    BY <2>1, Names
<1>4. /\ restore' \in RestoreRecord /\ restore'.undone = restore.undone + 1
      /\ restore'.phase = restore.phase /\ restore'.members = restore.members
      /\ restore'.saved = restore.saved
      /\ restore'.done = restore.done /\ restore'.before = restore.before
      /\ \A g : Replaced(restore', g) <=> Replaced(restore, g) /\ g # f
  BY <1>1, <1>2, ReplacedNext
<1>5. restore'.undone <= restore'.done
  BY <1>1, <1>2, <1>4
<1>6. c = restore.saved[f] /\ \A g : Replaced(restore, g) => g \in DOMAIN restore.members
  BY DEF Replaced
<1> HIDE DEF f, c
<1>7. /\ WorkspaceTypes' /\ HasDefault' = HasDefault /\ DisplayInv' /\ WorkspaceNothingLost'
      /\ restores # 0
      /\ f \in DOMAIN restore.members => file'[f] = c
      /\ \A g \in Files : g # f \/ f \notin DOMAIN restore.members => file'[g] = file[g]
  BY <1>1, <1>2, <1>3, <1>4, <1>5, FilePlaced
<1>8. RestoreInv' /\ ArchiveInv'
  BY <1>0, <1>1, <1>4 DEF RestoreInv, ArchiveInv, RestoreFrame
<1>9. UndoInv'
  <2> SUFFICES ASSUME "raced" \notin excuses, NEW g \in Files
               PROVE  file'[g] = IF Replaced(restore', g) THEN restore'.members[g]
                                 ELSE restore'.before[g]
    BY <1>1 DEF UndoInv, RestoreFrame
  <2>1. file[g] = IF Replaced(restore, g) THEN restore.members[g] ELSE restore.before[g]
    BY <1>0, <1>1 DEF UndoInv
  <2>2. f \in DOMAIN restore.members => c = restore.before[f]
    BY <1>0, <1>1, <1>6 DEF RestoreInv
  <2> QED
    BY <1>4, <1>6, <1>7, <2>1, <2>2
<1>10. MarkerInv'
  <2> SUFFICES ASSUME Clean PROVE FilesUpTo' /\ ArchiveUpTo' /\ RestUpTo' /\ RestoredUpTo'
    BY <1>1 DEF MarkerInv, Clean, RestoreFrame
  <2>1. ArchiveUpTo /\ RestUpTo
    BY <1>0 DEF MarkerInv
  <2>2. FilesUpTo' /\ ArchiveUpTo' /\ RestoredUpTo'
    BY <1>1, <1>4, <2>1 DEF FilesUpTo, ArchiveUpTo, RestoredUpTo, RestoreFrame
  <2>3. RestUpTo'
    <3> SUFFICES ASSUME NEW g \in Files
                 PROVE  /\ ~Replaced(restore', g) => UpTo(file'[g], g, CurrentSchemaVersion)
                        /\ g \in DOMAIN restore'.saved =>
                             UpTo(restore'.saved[g], g, CurrentSchemaVersion)
      BY DEF RestUpTo
    <3>1. /\ ~Replaced(restore, g) => UpTo(file[g], g, CurrentSchemaVersion)
          /\ g \in DOMAIN restore.saved => UpTo(restore.saved[g], g, CurrentSchemaVersion)
      BY <1>1, <2>1 DEF RestUpTo
    <3> QED
      BY <1>2, <1>4, <1>6, <1>7, <3>1
  <2> QED
    BY <2>2, <2>3
<1> QED
  BY <1>1, <1>7, <1>8, <1>9, <1>10, ServedInv DEF RestoreFrame

\* A rename fails: from here on files are put back.
LEMMA FailCommitStep ==
    ASSUME WorkspaceInv, NEW s \in Servers, FailCommit(s), UNCHANGED existing
    PROVE  WorkspaceInv'
<1>0. WorkspaceTypes /\ MarkerInv /\ RestoreInv /\ ArchiveInv /\ UndoInv /\ DisplayInv
      /\ WorkspaceNothingLost
  BY DEF WorkspaceInv
<1>1. /\ at[s] = "serving" /\ RestoreFrame /\ restore.phase = "committing"
      /\ restore' = [restore EXCEPT !.phase = "undoing"] /\ UNCHANGED <<file, made>>
  BY DEF FailCommit, RestoreFrame, ServedFrame
<1>2. restore \in RestoreRecord /\ restore.undone \in 0 .. restore.done
  BY <1>0, Typing DEF WorkspaceTypes
<1>3. /\ restore' \in RestoreRecord /\ restore'.phase = "undoing"
      /\ restore'.members = restore.members /\ restore'.saved = restore.saved
      /\ restore'.done = restore.done /\ restore'.undone = restore.undone
      /\ restore'.before = restore.before
  BY <1>1, <1>2 DEF RestoreRecord
<1>4. \A g : Replaced(restore', g) <=> Replaced(restore, g)
  BY <1>3 DEF Replaced
<1>5. HasDefault' = HasDefault /\ AppliedVersion' = AppliedVersion
  BY <1>1 DEF HasDefault, AppliedVersion
<1>6. WorkspaceTypes'
  BY <1>0, <1>1, <1>2, <1>3 DEF WorkspaceTypes, WorkspaceTypeOK, RestoreFrame, ServedFrame
<1>7. DisplayInv' /\ WorkspaceNothingLost'
  BY <1>0, <1>1, <1>5 DEF DisplayInv, WorkspaceNothingLost, RestoreFrame, ServedFrame
<1>8. RestoreInv' /\ ArchiveInv'
  BY <1>0, <1>1, <1>3 DEF RestoreInv, ArchiveInv, RestoreFrame
<1>9. UndoInv'
  BY <1>0, <1>1, <1>3, <1>4 DEF UndoInv, RestoreFrame
<1>10. MarkerInv'
  BY <1>0, <1>1, <1>3, <1>4
     DEF MarkerInv, Clean, FilesUpTo, ArchiveUpTo, RestUpTo, RestoredUpTo, RestoreFrame
<1> QED
  BY <1>1, <1>5, <1>6, <1>7, <1>8, <1>9, <1>10, ServedInv DEF RestoreFrame

\* Nothing is being restored.
LEMMA SettledRestore ==
    /\ Settled \in RestoreRecord /\ Settled.phase = "none" /\ Settled.done = 0
    /\ Settled.undone = 0 /\ DOMAIN Settled.members = {} /\ DOMAIN Settled.saved = {}
<1> DEFINE nothing == <<>>
<1>1. nothing \in Pieces /\ DOMAIN nothing = {} /\ nothing = <<>>
  BY SomePieces
<1> HIDE DEF nothing
<1>2. Settled = [phase |-> "none", members |-> nothing, saved |-> nothing, done |-> 0,
                 undone |-> 0, before |-> nothing]
  BY <1>1 DEF Settled
<1> QED
  BY <1>1, <1>2 DEF RestoreRecord

\* A restore ends: every file is in place, or every file was put back.
LEMMA EndRestoreStep ==
    ASSUME WorkspaceInv, NEW s \in Servers, EndRestore(s) \/ EndUndo(s), UNCHANGED existing
    PROVE  WorkspaceInv'
<1>0. WorkspaceTypes /\ MarkerInv /\ RestoreInv /\ ArchiveInv /\ Stage(s)
      /\ WorkspaceNothingLost
  BY DEF WorkspaceInv, StageInv
<1>1. /\ at[s] = "serving" /\ ServedFrame /\ restore.phase # "none" /\ restore' = Settled
      /\ activity' = TRUE
      /\ UNCHANGED <<file, jobsFile, archive, edits, restores, made, excuses>>
  BY DEF EndRestore, EndUndo, ServedFrame
<1>2. HasDefault' = HasDefault /\ AppliedVersion' = AppliedVersion /\ Clean' = Clean
  BY <1>1 DEF HasDefault, AppliedVersion, Clean
<1>3. /\ restore' \in RestoreRecord /\ restore'.phase = "none" /\ restore'.done = 0
      /\ restore'.undone = 0 /\ DOMAIN restore'.members = {} /\ DOMAIN restore'.saved = {}
  BY <1>1, SettledRestore
<1>4. WorkspaceTypes'
  BY <1>0, <1>1, <1>3, Names DEF WorkspaceTypes, WorkspaceTypeOK, ServedFrame
<1>5. restores # 0 /\ (existing => HasDefault)
  BY <1>0, <1>1 DEF RestoreInv, Stage
<1>6. DisplayInv' /\ WorkspaceNothingLost'
  BY <1>0, <1>1, <1>2, <1>5 DEF DisplayInv, WorkspaceNothingLost, ServedFrame
<1>7. RestoreInv' /\ ArchiveInv' /\ UndoInv'
  BY <1>0, <1>1, <1>3 DEF RestoreInv, ArchiveInv, UndoInv
<1>8. ASSUME Clean, NEW g \in Files PROVE UpTo(file[g], g, AppliedVersion)
  <2>1. file[g] \in Contents /\ AppliedVersion \in 0 .. 3
        /\ (~Replaced(restore, g) => UpTo(file[g], g, 3))
    BY <1>0, <1>1, <1>8, Typing, Names DEF MarkerInv, RestUpTo
  <2>2. ~Replaced(restore, g) => UpTo(file[g], g, AppliedVersion)
    BY <2>1, Forms
  <2>3. CASE EndRestore(s)
    <3>1. restore.phase = "committing" /\ restore.done = 3
      BY <2>3, Names DEF EndRestore
    <3>2. /\ "schema" \in DOMAIN restore.members /\ file["schema"] = restore.members["schema"]
          /\ Replaced(restore, g) => UpTo(file[g], g, MarkedIn(restore.members))
      BY <1>0, <1>8, <3>1 DEF MarkerInv, RestoredUpTo
    <3>3. MarkedIn(restore.members) = AppliedVersion
      BY <3>2 DEF MarkedIn, AppliedVersion
    <3> QED
      BY <2>2, <3>2, <3>3
  <2>4. CASE EndUndo(s)
    <3>1. restore.undone = restore.done /\ restore.done \in 0 .. 3
      BY <1>0, <2>4, Typing DEF EndUndo
    <3>2. ~Replaced(restore, g)
      BY <3>1 DEF Replaced
    <3> QED
      BY <2>2, <3>2
  <2> QED
    BY <2>3, <2>4
<1>9. MarkerInv'
  BY <1>0, <1>1, <1>2, <1>3, <1>8
     DEF MarkerInv, FilesUpTo, ArchiveUpTo, RestUpTo, RestoredUpTo
<1> QED
  BY <1>1, <1>2, <1>4, <1>5, <1>6, <1>7, <1>9, ServedInv

---------------------------------------------------------------------------
\* A process dies, and with it the restore it was performing.
LEMMA ServerDiesStep ==
    ASSUME WorkspaceInv, NEW s \in Servers, ServerDies(s), UNCHANGED existing
    PROVE  WorkspaceInv'
<1>0. WorkspaceTypes /\ LockHeld /\ MarkerInv /\ RestoreInv /\ ArchiveInv /\ DisplayInv
      /\ WorkspaceNothingLost
  BY DEF WorkspaceInv
<1>1. /\ Active(s) /\ Moved(s, "down")
      /\ owner' = IF owner = s THEN Nobody ELSE owner
      /\ restore' = IF at[s] = "serving" THEN Settled ELSE restore
      /\ excuses' = IF at[s] = "serving" /\ restore.phase # "none"
                    THEN excuses \cup {"abandoned"} ELSE excuses
      /\ UNCHANGED <<existing, file, kept, activity, jobsFile, level, archive, edits, restores, made>>
  BY DEF ServerDies, Active
<1>2. /\ at' \in [Servers -> {"down", "built", "serving"} \cup Migrating]
      /\ at'[s] = "down" /\ \A t \in Servers : t # s => at'[t] = at[t]
  BY <1>0, <1>1, ProcessMoved
<1>3. \A t \in Servers : at'[t] \in {"down", "built"}
  BY <1>1, <1>2, Alone
<1>4. /\ restore' \in RestoreRecord /\ restore'.phase = "none" /\ restore'.done = 0
      /\ restore'.undone = 0 /\ DOMAIN restore'.saved = DOMAIN restore'.members
      /\ "display" \notin DOMAIN restore'.members
  <2>1. CASE at[s] = "serving"
    BY <1>1, <2>1, SettledRestore
  <2>2. CASE at[s] # "serving"
    <3>1. restore.phase = "none" /\ restore' = restore
      BY <1>1, <2>2, NoRestore
    <3> QED
      BY <1>0, <3>1 DEF WorkspaceTypes, RestoreInv
  <2> QED
    BY <2>1, <2>2
<1>5. /\ excuses' \subseteq {"raced", "markerless", "abandoned", "mixed", "again"}
      /\ owner' \in Servers \cup {Nobody}
      /\ Clean' => Clean /\ (at[s] = "serving" => restore.phase = "none")
  BY <1>0, <1>1 DEF WorkspaceTypes, WorkspaceTypeOK, Clean
<1>6. WorkspaceTypes'
  BY <1>0, <1>1, <1>2, <1>4, <1>5, Names DEF WorkspaceTypes, WorkspaceTypeOK
<1>7. LockHeld' /\ StageInv'
  <2>1. StageInv'
    BY <1>3, IdleStage DEF StageInv, Stage, Migrating
  <2>2. LockHeld'
    BY <1>3, <1>4 DEF LockHeld, Active
  <2> QED
    BY <2>1, <2>2
<1>8. HasDefault' = HasDefault /\ AppliedVersion' = AppliedVersion
  BY <1>1 DEF HasDefault, AppliedVersion
<1>9. DisplayInv' /\ WorkspaceNothingLost'
  BY <1>0, <1>1, <1>8 DEF DisplayInv, WorkspaceNothingLost
<1>10. RestoreInv' /\ ArchiveInv' /\ UndoInv'
  BY <1>0, <1>1, <1>4 DEF RestoreInv, ArchiveInv, UndoInv
<1>11. MarkerInv'
  <2> SUFFICES ASSUME Clean' PROVE FilesUpTo' /\ ArchiveUpTo' /\ RestUpTo' /\ RestoredUpTo'
    BY DEF MarkerInv
  <2>1. Clean /\ restore.phase = "none"
    BY <1>1, <1>5, NoRestore
  <2>2. FilesUpTo /\ ArchiveUpTo
    BY <1>0, <2>1 DEF MarkerInv
  <2> QED
    BY <1>1, <1>4, <1>8, <2>1, <2>2 DEF FilesUpTo, ArchiveUpTo, RestUpTo, RestoredUpTo
<1> QED
  BY <1>6, <1>7, <1>9, <1>10, <1>11 DEF WorkspaceInv

---------------------------------------------------------------------------
(* The invariant, and what follows from it.                                *)

LEMMA InitialWorkspace == WorkspaceInit => WorkspaceInv
<1> SUFFICES ASSUME WorkspaceInit PROVE WorkspaceInv
  OBVIOUS
<1>1. PICK b \in Beginnings :
        /\ file = [f \in Files |-> IF f \in DOMAIN b.files THEN b.files[f] ELSE NoFile]
        /\ existing = b.existing
  BY DEF WorkspaceInit
<1>2. /\ kept = [f \in Files |-> NoFile] /\ activity = existing /\ owner = Nobody
      /\ jobsFile = "ended" /\ at = [s \in Servers |-> "down"] /\ level = [s \in Servers |-> 0]
      /\ archive \in OldArchives /\ restore = Settled /\ edits = 0 /\ restores = 0
      /\ made = [f \in Files |-> file[f].edit] /\ excuses = {}
  BY DEF WorkspaceInit
<1>3. /\ b.files \in Pieces /\ b.existing \in BOOLEAN
      /\ \A f \in DOMAIN b.files : UpTo(b.files[f], f, MarkedIn(b.files))
      /\ b.existing /\ MarkedIn(b.files) >= 2
           => "display" \in DOMAIN b.files /\ b.files["display"].state # "absent"
      /\ ~b.existing => DOMAIN b.files = {}
      /\ archive \in [hashed : Pieces, members : Pieces]
      /\ "display" \notin DOMAIN archive.hashed
      /\ \A f \in DOMAIN archive.hashed : UpTo(archive.hashed[f], f, MarkedIn(archive.hashed))
      /\ MaxEdits \in Nat
  <2>1. archive.hashed \in UNION {{a.hashed, a.members} : a \in OldArchives}
    BY <1>2
  <2> QED
    BY <1>2, <2>1, WorkspaceAssumption DEF WorkspaceAssumption
<1>4. \A f \in DOMAIN b.files : b.files[f] \in Contents
  BY <1>3, SomePieces
<1>5. /\ file \in [Files -> Contents]
      /\ \A f \in Files : file[f] = IF f \in DOMAIN b.files THEN b.files[f] ELSE NoFile
  BY <1>1, <1>4, NewContents
<1>6. AppliedVersion = MarkedIn(b.files) /\ MarkedIn(b.files) \in 0 .. 3
  BY <1>3, <1>5, SomePieces, NewContents, Names DEF AppliedVersion, MarkedIn
<1>7. /\ restore \in RestoreRecord /\ restore.phase = "none" /\ restore.done = 0
      /\ restore.undone = 0 /\ DOMAIN restore.members = {} /\ DOMAIN restore.saved = {}
  BY <1>2, SettledRestore
<1>8. WorkspaceTypes
  <2>1. kept \in [Files -> Contents] /\ made \in [Files -> -2 .. MaxEdits]
    BY <1>2, <1>5, NewContents DEF Contents
  <2>2. at \in [Servers -> {"down", "built", "serving"} \cup Migrating]
        /\ level \in [Servers -> 0 .. 3] /\ {existing, activity} \subseteq BOOLEAN
        /\ edits \in 0 .. MaxEdits
    BY <1>1, <1>2, <1>3
  <2> QED
    BY <1>2, <1>3, <1>5, <1>7, <2>1, <2>2, Names DEF WorkspaceTypes, WorkspaceTypeOK
<1>9. LockHeld /\ StageInv
  BY <1>2, <1>7, IdleStage DEF LockHeld, StageInv, Active
<1>10. DisplayInv
  <2>1. existing => activity /\ (AppliedVersion >= 2 => HasDefault)
    BY <1>1, <1>2, <1>3, <1>5, <1>6, Names DEF HasDefault
  <2>2. ~existing => ~activity /\ \A f \in Files : file[f].state = "absent"
    BY <1>1, <1>2, <1>3, <1>5, NewContents
  <2> QED
    BY <2>1, <2>2, Names DEF DisplayInv, HasDefault
<1>11. RestoreInv /\ ArchiveInv /\ UndoInv
  BY <1>2, <1>7 DEF RestoreInv, ArchiveInv, UndoInv
<1>12. MarkerInv
  <2>1. ASSUME NEW f \in Files PROVE UpTo(file[f], f, AppliedVersion)
    BY <1>3, <1>5, <1>6, NewContents, Forms
  <2> QED
    BY <1>3, <1>7, <2>1 DEF MarkerInv, FilesUpTo, ArchiveUpTo, RestUpTo, RestoredUpTo
<1>13. WorkspaceNothingLost
  BY <1>2, <1>5, Names DEF WorkspaceNothingLost, Contents
<1> QED
  BY <1>8, <1>9, <1>10, <1>11, <1>12, <1>13 DEF WorkspaceInv

\* Every step keeps the invariant, and so does a stutter.
LEMMA WorkspaceStep == WorkspaceInv /\ [WorkspaceNext]_workspaceVars => WorkspaceInv'
<1> SUFFICES ASSUME WorkspaceInv, [WorkspaceNext]_workspaceVars PROVE WorkspaceInv'
  OBVIOUS
<1>1. CASE UNCHANGED workspaceVars
  <2>1. StoreKept /\ UNCHANGED <<activity, owner, jobsFile, at, level, edits, deaths>>
    BY <1>1 DEF workspaceVars, StoreKept
  <2>2. /\ RestoreInv' /\ MarkerInv' /\ ArchiveInv' /\ UndoInv' /\ WorkspaceNothingLost'
        /\ AppliedVersion' = AppliedVersion /\ HasDefault' = HasDefault /\ Clean' = Clean
    BY <2>1, StoreKeptInv
  <2>3. WorkspaceTypes'
    BY <2>1 DEF StoreKept, WorkspaceInv, WorkspaceTypes, WorkspaceTypeOK
  <2>4. LockHeld' /\ DisplayInv'
    BY <2>1, <2>2 DEF StoreKept, WorkspaceInv, LockHeld, DisplayInv, Active
  <2>5. StageInv'
    BY <2>1, <2>2 DEF StoreKept, WorkspaceInv, StageInv, Stage
  <2> QED
    BY <2>2, <2>3, <2>4, <2>5 DEF WorkspaceInv
<1>2. CASE WorkspaceNext
  <2>1. PICK s \in Servers :
          \/ StartUp(s)
          \/ \E f \in {"annotations", "exceptions"} : Edit(s, f)
          \/ RunJob(s) \/ Hash(s) \/ Archive(s)
          \/ PerformRestore(s)
          \/ ServerDies(s)
    BY <1>2 DEF WorkspaceNext
  <2>2. existing' = existing
    BY <1>2 DEF WorkspaceNext
  <2>3. CASE StartUp(s)
    BY <2>2, <2>3, BeginStartUp, MigrateStep, RewriteStep, MarkerStep, ServeStep DEF StartUp
  <2>4. CASE \E f \in {"annotations", "exceptions"} : Edit(s, f)
    BY <2>2, <2>4, EditStep
  <2>5. CASE RunJob(s) \/ Hash(s) \/ Archive(s)
    BY <2>2, <2>5, ReadingStep
  <2>6. CASE PerformRestore(s)
    BY <2>2, <2>6, BeginRestoreStep, CommitFileStep, EndRestoreStep, FailCommitStep, UndoFileStep
       DEF PerformRestore
  <2>7. CASE ServerDies(s)
    BY <2>2, <2>7, ServerDiesStep
  <2> QED
    BY <2>1, <2>3, <2>4, <2>5, <2>6, <2>7
<1> QED
  BY <1>1, <1>2

\* The invariant gives the safety properties of the workspace.
LEMMA InvariantSound == WorkspaceInv => WorkspaceSound /\ WorkspaceRollback
<1> SUFFICES ASSUME WorkspaceInv PROVE WorkspaceSound /\ WorkspaceRollback
  OBVIOUS
<1>0. WorkspaceTypes /\ LockHeld /\ StageInv /\ DisplayInv /\ MarkerInv /\ UndoInv
      /\ WorkspaceNothingLost
  BY DEF WorkspaceInv
<1>1. WorkspaceTypeOK
  BY <1>0 DEF WorkspaceTypes
<1>2. WorkspaceOneServer
  BY <1>0 DEF LockHeld, Active, WorkspaceOneServer
<1>3. WorkspaceStartsMigrated
  <2> SUFFICES ASSUME NEW s \in Servers, at[s] \in Migrating, Clean, NEW f \in Files
               PROVE  UpTo(file[f], f, level[s])
    BY DEF WorkspaceStartsMigrated, Clean
  <2>1. restore.phase = "none" /\ level[s] \in 0 .. 3 /\ file[f] \in Contents /\ Stage(s)
    BY <1>0, Names, NoRestore, Typing DEF Active, StageInv
  <2>2. CASE at[s] = "stamping"
    <3>1. level[s] < 3 /\ UpTo(file[f], f, level[s] + 1)
      BY <2>1, <2>2, Names DEF Stage
    <3> QED
      BY <2>1, <3>1, Forms
  <2>3. CASE at[s] # "stamping"
    <3>1. AppliedVersion = level[s]
      BY <2>1, <2>3 DEF Stage
    <3> QED
      BY <1>0, <2>1, <3>1 DEF MarkerInv, FilesUpTo
  <2> QED
    BY <2>2, <2>3
<1>4. WorkspaceDisplayDefault
  BY <1>0 DEF StageInv, Stage, DisplayInv, HasDefault, WorkspaceDisplayDefault,
              WorkspaceTypes, WorkspaceTypeOK
<1>5. WorkspaceRollback
  <2> SUFFICES ASSUME restore.phase = "undoing", restore.undone = restore.done,
                      "raced" \notin excuses
               PROVE  file = restore.before
    BY DEF WorkspaceRollback
  <2>1. restore.done \in 0 .. 3 /\ file \in [Files -> Contents]
        /\ restore.before \in [Files -> Contents]
    BY <1>0, Typing DEF WorkspaceInv, RestoreInv
  <2>2. \A f : ~Replaced(restore, f)
    BY <2>1 DEF Replaced
  <2>3. \A f \in Files : file[f] = restore.before[f]
    BY <1>0, <2>2 DEF UndoInv
  <2> QED
    BY <2>1, <2>3
<1> QED
  BY <1>0, <1>1, <1>2, <1>3, <1>4, <1>5 DEF WorkspaceSound

\* A restore begins with an archive whose files are the ones its manifest names.
LEMMA RestoreBegins ==
    ASSUME WorkspaceInv, [WorkspaceNext]_workspaceVars, restore.phase = "none",
           restore'.phase = "committing"
    PROVE  \E a \in {archive} \cup OldArchives :
             /\ restore'.members = a.members
             /\ \A f \in DOMAIN a.hashed : a.members[f] = a.hashed[f]
<1>1. restore' # restore
  OBVIOUS
<1>2. PICK s \in Servers :
        \/ StartUp(s)
        \/ \E f \in {"annotations", "exceptions"} : Edit(s, f)
        \/ RunJob(s) \/ Hash(s) \/ Archive(s)
        \/ PerformRestore(s)
        \/ ServerDies(s)
  BY <1>1 DEF WorkspaceNext, workspaceVars
<1>3. ~StartUp(s)
  BY <1>1 DEF StartUp, BuildJobManager, AcquireInstanceLock, Migrate, Rewrite, Mark, Stamp, Serve
<1>4. ~(\E f \in {"annotations", "exceptions"} : Edit(s, f))
      /\ ~RunJob(s) /\ ~Hash(s) /\ ~Archive(s)
  BY <1>1 DEF Edit, RunJob, Hash, Archive
<1>5. ~ServerDies(s)
  BY <1>1, SettledRestore DEF ServerDies
<1>6. ~CommitFile(s) /\ ~EndRestore(s) /\ ~FailCommit(s) /\ ~UndoFile(s) /\ ~EndUndo(s)
  BY DEF CommitFile, EndRestore, FailCommit, UndoFile, EndUndo
<1>7. PICK a \in {archive} \cup OldArchives : BeginRestore(s, a)
  BY <1>2, <1>3, <1>4, <1>5, <1>6 DEF PerformRestore
<1>8. restore'.members = a.members /\ \A f \in DOMAIN a.hashed : a.members[f] = a.hashed[f]
  BY <1>7 DEF BeginRestore, Acceptable
<1> QED
  BY <1>8

\* The invariant is one: whatever dies, is edited or is restored, and when.
LEMMA WorkspaceInvariant == WorkspaceSpec => []WorkspaceInv
  BY InitialWorkspace, WorkspaceStep, PTL DEF WorkspaceSpec

\* One process past the instance lock, nothing the operators wrote lost in a
\* migration or a restore, every start-up served migrated, and the expert display
\* kept exactly where it was: web/app.py, migrations.py and restore.py.
THEOREM SpecWorkspaceSound == WorkspaceSpec => []WorkspaceSound
<1>1. WorkspaceInv => WorkspaceSound
  BY InvariantSound
<1> QED
  BY <1>1, WorkspaceInvariant, PTL

\* perform_restore brings what the manifest described, and a restore that was
\* rolled back leaves every file as it was, unless one was edited meanwhile.
THEOREM SpecWorkspaceRestores == WorkspaceSpec => WorkspaceRestores
<1>1. WorkspaceInv => WorkspaceRollback
  BY InvariantSound
<1>2. WorkspaceInv /\ [WorkspaceNext]_workspaceVars =>
        [ restore.phase = "none" /\ restore'.phase = "committing"
            => \E a \in {archive} \cup OldArchives :
                 /\ restore'.members = a.members
                 /\ \A f \in DOMAIN a.hashed : a.members[f] = a.hashed[f] ]_workspaceVars
  BY RestoreBegins
<1>3. WorkspaceSpec => WorkspaceRestoresWhatWasHashed
  BY <1>2, WorkspaceInvariant, PTL DEF WorkspaceSpec, WorkspaceRestoresWhatWasHashed
<1>4. WorkspaceSpec => []WorkspaceRollback
  BY <1>1, WorkspaceInvariant, PTL
<1> QED
  BY <1>3, <1>4 DEF WorkspaceRestores

(***************************************************************************)
(* The commands.  A founder's project is always in one of five forms, one  *)
(* for each state: how many runs there are, which of the records are       *)
(* approved, and that the events tell the state.  Each command takes one   *)
(* form to the next or raises.                                             *)
(***************************************************************************)

\* A nonempty set of naturals has a least member.
LEMMA LeastOf ==
    ASSUME NEW free \in SUBSET Nat, free # {}
    PROVE  \E i \in free : \A j \in free : i <= j
<1> DEFINE smaller == OpToRel(<, Nat)
<1>1. IsWellFoundedOn(smaller, Nat)
  BY NatLessThanWellFounded, Zenon
<1>2. \A x, y \in Nat : <<x, y>> \in smaller <=> x < y
  BY DEF OpToRel
<1> HIDE DEF smaller
<1>3. PICK n \in free : \A m \in free : ~(<<m, n>> \in smaller)
  BY <1>1, WFMin
<1>4. n \in Nat /\ \A m \in free : m \in Nat /\ ~(m < n)
  BY <1>2, <1>3
<1>5. \A m \in free : n <= m
  BY <1>4
<1> QED BY <1>4, <1>5

---------------------------------------------------------------------------
(* The replay                                                              *)

NothingReplayed == [state |-> "none", revision |-> 0, raised |-> FALSE]

\* The summaries after each of the first n events.
Summaries(events, n, g) ==
    g = [k \in 0 .. n |-> IF k = 0 THEN NothingReplayed ELSE ReplayEvent(g[k - 1], events[k])]

\* What the first and the later of the summaries are.
LEMMA SummariesAt ==
  ASSUME NEW events, NEW n \in Nat, NEW g, Summaries(events, n, g)
  PROVE  /\ g[0] = NothingReplayed
         /\ \A k \in 1 .. n : g[k] = ReplayEvent(g[k - 1], events[k])
  <1>1. \A k \in 0 .. n : g[k] = IF k = 0 THEN NothingReplayed ELSE ReplayEvent(g[k - 1], events[k])
    BY Zenon DEF Summaries
  <1>2. 0 \in 0 .. n
    OBVIOUS
  <1>3. \A k \in 1 .. n : k \in 0 .. n /\ k # 0
    OBVIOUS
  <1> HIDE DEF NothingReplayed
  <1> QED
    BY <1>1, <1>2, <1>3, Zenon

\* There are summaries for any number of events: the least number without them
\* would follow one that has them.
LEMMA SummariesExist ==
  ASSUME NEW events, NEW n \in Nat
  PROVE  \E g : Summaries(events, n, g)
  <1> DEFINE Without == {k \in Nat : ~ \E g : Summaries(events, k, g)}
  <1> SUFFICES ASSUME Without # {} PROVE FALSE
    OBVIOUS
  <1>1. PICK k \in Without : \A j \in Without : k <= j
    <2> HIDE DEF Without
    <2>1. Without \in SUBSET Nat
      BY DEF Without
    <2> QED
      BY <2>1, LeastOf
  <1>2. CASE k = 0
    <2>1. PICK g : g = [i \in 0 .. 0 |-> NothingReplayed]
      OBVIOUS
    <2>2. \A i \in 0 .. 0 : i = 0
      OBVIOUS
    <2>3. g = [i \in 0 .. 0 |-> IF i = 0 THEN NothingReplayed ELSE ReplayEvent(g[i - 1], events[i])]
      BY <2>1, <2>2, Zenon
    <2> QED
      BY <1>1, <1>2, <2>3 DEF Summaries
  <1>3. CASE k # 0
    <2>1. k - 1 \in Nat /\ k - 1 \notin Without
      BY <1>1, <1>3
    <2>2. PICK g : Summaries(events, k - 1, g)
      BY <2>1
    <2>3. PICK h : h = [i \in 0 .. k |-> IF i = k THEN ReplayEvent(g[k - 1], events[k]) ELSE g[i]]
      OBVIOUS
    <2>4. \A i \in 0 .. k : h[i] = IF i = 0 THEN NothingReplayed ELSE ReplayEvent(h[i - 1], events[i])
      <3> SUFFICES ASSUME NEW i \in 0 .. k
                   PROVE  h[i] = IF i = 0 THEN NothingReplayed ELSE ReplayEvent(h[i - 1], events[i])
        OBVIOUS
      <3>1. \A j \in 0 .. k - 1 : j \in 0 .. k /\ j # k /\ h[j] = g[j]
        BY <2>1, <2>3
      <3>2. /\ g[0] = NothingReplayed
            /\ \A j \in 1 .. k - 1 : g[j] = ReplayEvent(g[j - 1], events[j])
        BY <2>1, <2>2, SummariesAt
      <3>3. CASE i = 0
        BY <2>1, <3>1, <3>2, <3>3
      <3>4. CASE i # 0 /\ i # k
        <4>1. i \in 1 .. k - 1 /\ i - 1 \in 0 .. k - 1 /\ i \in 0 .. k - 1
          BY <1>1, <3>4
        <4> QED
          BY <3>1, <3>2, <3>4, <4>1, Zenon
      <3>5. CASE i = k
        <4>1. k - 1 \in 0 .. k - 1 /\ h[k] = ReplayEvent(g[k - 1], events[k])
          BY <2>1, <2>3, <3>5
        <4> QED
          BY <1>3, <3>1, <3>5, <4>1, Zenon
      <3> QED
        BY <3>3, <3>4, <3>5
    <2>5. h = [i \in 0 .. k |-> h[i]]
      BY <2>3
    <2>6. Summaries(events, k, h)
      BY <2>4, <2>5, Zenon DEF Summaries
    <2> QED
      BY <1>1, <2>6
  <1> QED
    BY <1>2, <1>3

\* Sequences with the same first events.
Alike(s, t, n) == \A i \in 1 .. n : s[i] = t[i]

\* Sequences that begin alike have the same summaries there.
LEMMA SummariesAgree ==
  ASSUME NEW s, NEW t, NEW n \in Nat, NEW m \in Nat, n <= m,
         Alike(s, t, n),
         NEW g, Summaries(s, n, g), NEW h, Summaries(t, m, h)
  PROVE  g[n] = h[n]
  <1> DEFINE Differ == {k \in 0 .. n : g[k] # h[k]}
  <1> SUFFICES ASSUME Differ # {} PROVE FALSE
    <2>1. n \in 0 .. n
      OBVIOUS
    <2> QED
      BY <2>1
  <1>1. PICK k \in Differ : \A j \in Differ : k <= j
    <2> HIDE DEF Differ
    <2>1. Differ \in SUBSET Nat
      BY DEF Differ
    <2> QED
      BY <2>1, LeastOf
  <1>2. /\ g[0] = h[0]
        /\ \A i \in 1 .. n : g[i] = ReplayEvent(g[i - 1], s[i])
        /\ \A i \in 1 .. m : h[i] = ReplayEvent(h[i - 1], t[i])
    BY SummariesAt
  <1>3. k \in 1 .. n /\ k \in 1 .. m /\ k - 1 \in 0 .. n /\ k - 1 \notin Differ
    BY <1>1, <1>2
  <1>4. g[k - 1] = h[k - 1]
    BY <1>3
  <1>5. g[k] = h[k]
    BY <1>2, <1>3, <1>4, Zenon DEF Alike
  <1> QED
    BY <1>1, <1>5

\* The replay is the last of the summaries.
LEMMA ReplayIs ==
  ASSUME NEW s, Len(s) \in Nat, NEW g, Summaries(s, Len(s), g)
  PROVE  ReplayProjectEvents(s) = g[Len(s)]
  <1>1. PICK h : Summaries(s, Len(s), h) /\ ReplayProjectEvents(s) = h[Len(s)]
    <2> DEFINE h == CHOOSE x : x = [n \in 0 .. Len(s) |->
                       IF n = 0 THEN [state |-> "none", revision |-> 0, raised |-> FALSE]
                       ELSE ReplayEvent(x[n - 1], s[n])]
    <2>1. ReplayProjectEvents(s) = h[Len(s)]
      BY DEF ReplayProjectEvents
    <2>2. Summaries(s, Len(s), h)
      BY Zenon DEF Summaries, NothingReplayed
    <2> QED
      BY <2>1, <2>2
  <1>2. Alike(s, s, Len(s)) /\ Len(s) <= Len(s)
    BY DEF Alike
  <1> QED
    BY <1>1, <1>2, SummariesAgree

\* The replay of no event.
LEMMA ReplayOfNothing == ReplayProjectEvents(<<>>) = NothingReplayed
  <1>1. PICK g : Summaries(<<>>, 0, g)
    BY SummariesExist
  <1>2. Len(<<>>) = 0
    OBVIOUS
  <1>3. g[0] = NothingReplayed
    BY <1>1, SummariesAt
  <1> QED
    BY <1>1, <1>2, <1>3, ReplayIs

\* One event more changes the replay by what that event says.
LEMMA ReplayOfOneMore ==
  ASSUME NEW T, NEW s \in Seq(T), NEW e \in T
  PROVE  ReplayProjectEvents(Append(s, e)) = ReplayEvent(ReplayProjectEvents(s), e)
  <1>0. PICK n : n = Len(s) /\ n \in Nat
    OBVIOUS
  <1>9. PICK t : t = Append(s, e)
    OBVIOUS
  <1>1. n = Len(s) /\ n \in Nat /\ n + 1 \in Nat /\ t = Append(s, e) /\ n <= n + 1
    BY <1>0, <1>9
  <1>2. Len(t) = n + 1 /\ t[n + 1] = e /\ \A i \in 1 .. n : s[i] = t[i]
    BY <1>1
  <1>3. PICK g : Summaries(s, n, g)
    BY <1>1, SummariesExist
  <1>4. PICK h : Summaries(t, n + 1, h)
    BY <1>1, SummariesExist
  <1>5. g[n] = h[n]
    <2>1. n <= n + 1 /\ Alike(s, t, n)
      BY <1>1, <1>2 DEF Alike
    <2> QED
      BY <1>1, <1>3, <1>4, <2>1, SummariesAgree
  <1>6. h[n + 1] = ReplayEvent(h[n], e)
    <2>1. n + 1 \in 1 .. n + 1 /\ (n + 1) - 1 = n /\ n + 1 \in Nat
      BY <1>1
    <2> QED
      BY <1>2, <1>4, <2>1, SummariesAt
  <1>7. ReplayProjectEvents(s) = g[n]
    BY <1>1, <1>3, ReplayIs
  <1>8. ReplayProjectEvents(t) = h[n + 1]
    BY <1>1, <1>2, <1>4, ReplayIs
  <1> QED
    BY <1>1, <1>5, <1>6, <1>7, <1>8

---------------------------------------------------------------------------
(* The records                                                             *)

ProjectStates ==
    {"none", "NO_PROJECT", "FOUNDER_SETUP", "FOUNDER_BRIEF_COMPLETE", "DISCOVERY_RUNNING", "OPPORTUNITY_SELECTED"}

\* The events that say nothing of the project's state.
PlainEvents ==
    {"workflow.started", "workflow.completed", "agent.started", "agent.completed", "artifact.created",
     "evaluation.completed", "approval.requested", "approval.decided", "artifact.approved", "decision.approved"}

Stories ==
    [type : PlainEvents]
    \cup [type : {"transition.applied"}, from : ProjectStates, to : ProjectStates, revision : Nat]
    \cup [type : {"project.created"}, state : ProjectStates, revision : Nat]

RunRecord == [workflow : {Setup, Discovery}, status : {"queued", "running", "succeeded"}]

ArtifactRecord ==
    [type : {"founder_brief", "opportunity_report"}, status : {"under_review", "approved"}, approval : Nat]

EvaluationRecord == [artifact : Nat, outcome : {"pass"}]

ApprovalRecord == [artifact : Nat, status : {"pending", "approved"}]

DecisionRecord == [artifact : Nat, approval : Nat]

RunOf(workflow, status) == [workflow |-> workflow, status |-> status]

ArtifactOf(type, approval) ==
    [type |-> type, status |-> IF approval = 0 THEN "under_review" ELSE "approved", approval |-> approval]

EvaluationOf(i) == [artifact |-> i, outcome |-> "pass"]

ApprovalOf(i, status) == [artifact |-> i, status |-> status]

Projects ==
    [state : ProjectStates, revision : Nat, lastEvent : Nat, raised : BOOLEAN,
     events : Seq(Stories), runs : Seq(RunRecord), artifacts : Seq(ArtifactRecord),
     evaluations : Seq(EvaluationRecord), approvals : Seq(ApprovalRecord), decisions : Seq(DecisionRecord)]

\* The events give the state, and none that changed it came after the last.
Told(r) ==
    /\ r.revision # 0
    /\ ReplayProjectEvents(r.events) = [state |-> r.state, revision |-> r.revision, raised |-> FALSE]
    /\ r.lastEvent \in DOMAIN r.events
    /\ \A e \in DOMAIN r.events :
         r.events[e].type \in {"project.created", "transition.applied"} => e <= r.lastEvent

\* What no record changes.
SameState(q, r) == q.state = r.state /\ q.revision = r.revision /\ (Told(r) => Told(q))

SameRuns(q, r) == q.runs = r.runs

SameRecords(q, r) ==
    q.artifacts = r.artifacts /\ q.evaluations = r.evaluations /\ q.approvals = r.approvals

\* A plain event is an event, and not one that changes the project.
LEMMA PlainStory ==
  ASSUME NEW type \in PlainEvents
  PROVE  /\ Event(type) \in Stories /\ Event(type).type = type
         /\ type \notin {"project.created", "transition.applied"}
  BY DEF Event, Stories, PlainEvents

\* A sequence with one element more.
LEMMA AppendIs ==
  ASSUME NEW T, NEW s \in Seq(T), NEW e \in T
  PROVE  /\ Append(s, e) \in Seq(T) /\ Len(Append(s, e)) = Len(s) + 1 /\ Len(s) \in Nat
         /\ DOMAIN Append(s, e) = 1 .. Len(s) + 1 /\ DOMAIN s = 1 .. Len(s)
         /\ \A i \in 1 .. Len(s) : Append(s, e)[i] = s[i] /\ s[i] \in T
         /\ Append(s, e)[Len(s) + 1] = e
  OBVIOUS

\* A plain event leaves the summary of a created project as it is.
LEMMA PlainReplay ==
  ASSUME NEW state \in ProjectStates, NEW revision \in Nat \ {0}, NEW type \in PlainEvents, NEW s,
         s = [state |-> state, revision |-> revision, raised |-> FALSE]
  PROVE  ReplayEvent(s, Event(type)) = s
  <1>1. s.raised = FALSE /\ s.revision # 0
    BY Zenon
  <1>2. PICK e : e = Event(type) /\ e.type = type
    BY PlainStory
  <1>3. e.type # "project.created" /\ e.type # "transition.applied"
    BY <1>2, PlainStory
  <1>4. ~(\/ s.raised
          \/ e.type = "project.created" <=> s.revision # 0
          \/ e.type = "transition.applied" /\ e.from # s.state)
    BY <1>1, <1>3, Zenon
  <1>5. ReplayEvent(s, e) =
          CASE e.type = "project.created" -> [s EXCEPT !.state = e.state, !.revision = e.revision]
            [] e.type = "transition.applied" -> [s EXCEPT !.state = e.to, !.revision = e.revision]
            [] OTHER -> s
    BY <1>4, Zenon DEF ReplayEvent
  <1> QED
    BY <1>2, <1>3, <1>5

\* Emitting a plain event leaves the project and its records as they are, and
\* the events still tell its state.
LEMMA EmitIs ==
  ASSUME NEW r \in Projects, NEW type \in PlainEvents, NEW q, q = Emit(r, Event(type))
  PROVE  /\ q \in Projects /\ q.raised = r.raised /\ q.decisions = r.decisions
         /\ SameState(q, r) /\ SameRuns(q, r) /\ SameRecords(q, r)
  <1>1. q = [r EXCEPT !.events = Append(@, Event(type))]
    BY DEF Emit
  <1>2. /\ q.state = r.state /\ q.revision = r.revision /\ q.lastEvent = r.lastEvent
        /\ q.raised = r.raised /\ q.decisions = r.decisions /\ q.runs = r.runs
        /\ q.artifacts = r.artifacts /\ q.evaluations = r.evaluations /\ q.approvals = r.approvals
        /\ q.events = Append(r.events, Event(type))
    BY <1>1 DEF Projects
  <1>3. r.events \in Seq(Stories) /\ Event(type) \in Stories
    BY PlainStory DEF Projects
  <1>4. q \in Projects
    <2>1. Append(r.events, Event(type)) \in Seq(Stories)
      BY <1>3
    <2> QED
      BY <1>1, <2>1 DEF Projects
  <1>5. ASSUME Told(r) PROVE Told(q)
    <2>1. q.revision # 0
      BY <1>2, <1>5 DEF Told
    <2>2. ReplayProjectEvents(q.events) = [state |-> q.state, revision |-> q.revision, raised |-> FALSE]
      <3>1. ReplayProjectEvents(q.events) = ReplayEvent(ReplayProjectEvents(r.events), Event(type))
        BY <1>2, <1>3, ReplayOfOneMore
      <3>2. ReplayProjectEvents(r.events) = [state |-> r.state, revision |-> r.revision, raised |-> FALSE]
        BY <1>5 DEF Told
      <3>3. r.state \in ProjectStates /\ r.revision \in Nat \ {0}
        BY <1>2, <2>1 DEF Projects
      <3>4. PICK s : s = [state |-> r.state, revision |-> r.revision, raised |-> FALSE]
        OBVIOUS
      <3>5. ReplayEvent(s, Event(type)) = s
        BY <3>3, <3>4, PlainReplay
      <3> QED
        BY <1>2, <3>1, <3>2, <3>4, <3>5
    <2>3. PICK n : n = Len(r.events) /\ n \in Nat
      BY <1>3
    <2>4. /\ DOMAIN r.events = 1 .. n /\ DOMAIN q.events = 1 .. n + 1
          /\ \A i \in 1 .. n : q.events[i] = r.events[i]
          /\ q.events[n + 1].type = type
      BY <1>2, <1>3, <2>3, AppendIs, PlainStory
    <2>5. r.lastEvent \in 1 .. n
      BY <1>5, <2>4 DEF Told
    <2>6. q.lastEvent \in DOMAIN q.events
      BY <1>2, <2>3, <2>4, <2>5
    <2>7. \A e \in DOMAIN q.events :
            q.events[e].type \in {"project.created", "transition.applied"} => e <= q.lastEvent
      <3> SUFFICES ASSUME NEW e \in 1 .. n + 1, q.events[e].type \in {"project.created", "transition.applied"}
                   PROVE  e <= q.lastEvent
        BY <2>4
      <3>1. e # n + 1
        BY <2>4, PlainStory
      <3>2. e \in 1 .. n
        BY <2>3, <3>1
      <3> QED
        BY <1>2, <1>5, <2>4, <3>2 DEF Told
    <2> QED
      BY <2>1, <2>2, <2>6, <2>7 DEF Told
  <1> QED
    BY <1>2, <1>4, <1>5 DEF SameState, SameRuns, SameRecords

\* A requirement changes nothing but whether the command raised.
LEMMA RequireIs ==
  ASSUME NEW r \in Projects, NEW cond \in BOOLEAN, NEW q, q = Require(r, cond)
  PROVE  /\ q \in Projects /\ q.decisions = r.decisions /\ q.events = r.events /\ q.lastEvent = r.lastEvent
         /\ SameState(q, r) /\ SameRuns(q, r) /\ SameRecords(q, r)
         /\ cond => q.raised = r.raised
         /\ ~cond => q.raised = TRUE
  <1>1. q = [r EXCEPT !.raised = r.raised \/ ~cond]
    BY Zenon DEF Require
  <1>2. r.raised \in BOOLEAN
    BY DEF Projects
  <1>3. PICK b \in BOOLEAN : b = (r.raised \/ ~cond)
    BY Zenon
  <1>4. (cond => b = r.raised) /\ (~cond => b = TRUE)
    <2>1. CASE cond = TRUE
      BY <1>2, <1>3, <2>1, Zenon
    <2>2. CASE cond = FALSE
      BY <1>2, <1>3, <2>2, Zenon
    <2> QED
      BY <2>1, <2>2
  <1>5. q = [r EXCEPT !.raised = b]
    BY <1>1, <1>3, Zenon
  <1>6. /\ q \in Projects
        /\ q.state = r.state /\ q.revision = r.revision /\ q.lastEvent = r.lastEvent
        /\ q.raised = b /\ q.decisions = r.decisions /\ q.runs = r.runs
        /\ q.artifacts = r.artifacts /\ q.evaluations = r.evaluations /\ q.approvals = r.approvals
        /\ q.events = r.events
    BY <1>5 DEF Projects
  <1>7. Told(r) => Told(q)
    BY <1>6, Zenon DEF Told
  <1> QED
    BY <1>4, <1>6, <1>7, Zenon DEF SameState, SameRuns, SameRecords

\* An applied transition from the state it found moves the summary.
LEMMA TransitionReplay ==
  ASSUME NEW from \in ProjectStates, NEW to \in ProjectStates, NEW revision \in Nat \ {0}
  PROVE  ReplayEvent([state |-> from, revision |-> revision, raised |-> FALSE],
                     [type |-> "transition.applied", from |-> from, to |-> to, revision |-> revision + 1])
           = [state |-> to, revision |-> revision + 1, raised |-> FALSE]
  <1>0. PICK s : s = [state |-> from, revision |-> revision, raised |-> FALSE]
    OBVIOUS
  <1>9. PICK e : e = [type |-> "transition.applied", from |-> from, to |-> to, revision |-> revision + 1]
    OBVIOUS
  <1>1. s.raised = FALSE /\ s.revision # 0 /\ s.state = from
    BY <1>0
  <1>2. e.type = "transition.applied" /\ e.from = from /\ e.to = to /\ e.revision = revision + 1
    BY <1>9
  <1>3. e.type # "project.created"
    BY <1>2
  <1>4. ~(\/ s.raised
          \/ e.type = "project.created" <=> s.revision # 0
          \/ e.type = "transition.applied" /\ e.from # s.state)
    BY <1>1, <1>2, <1>3, Zenon
  <1>5. ReplayEvent(s, e) =
          CASE e.type = "project.created" -> [s EXCEPT !.state = e.state, !.revision = e.revision]
            [] e.type = "transition.applied" -> [s EXCEPT !.state = e.to, !.revision = e.revision]
            [] OTHER -> s
    BY <1>4, Zenon DEF ReplayEvent
  <1>6. ReplayEvent(s, e) = [s EXCEPT !.state = e.to, !.revision = e.revision]
    BY <1>2, <1>3, <1>5
  <1>7. ReplayEvent(s, e) = [state |-> to, revision |-> revision + 1, raised |-> FALSE]
    BY <1>0, <1>2, <1>6
  <1> QED
    BY <1>0, <1>7, <1>9

\* A transition from the project's state moves the project; the events tell it,
\* and it raises only when a guard fails.
LEMMA TransitionIs ==
  ASSUME NEW r \in Projects, NEW from \in ProjectStates, NEW to \in ProjectStates, NEW w, NEW evidence,
         NEW q, q = Transition(r, from, to, w, evidence)
  PROVE  /\ q \in Projects /\ q.decisions = r.decisions /\ SameRuns(q, r) /\ SameRecords(q, r)
         /\ q.state = to /\ q.revision = r.revision + 1
         /\ Guards(r, from, to, w, evidence) => q.raised = r.raised
         /\ Told(r) /\ r.state = from => Told(q)
  <1>1. PICK g : g = Require(r, Guards(r, from, to, w, evidence))
    OBVIOUS
  <1>2. PICK e : e = [type |-> "transition.applied", from |-> from, to |-> to, revision |-> r.revision + 1]
    OBVIOUS
  <1>3. q = Emit([g EXCEPT !.state = to, !.revision = r.revision + 1, !.lastEvent = Len(r.events) + 1], e)
    BY <1>1, <1>2, Zenon DEF Transition
  <1>4. Guards(r, from, to, w, evidence) \in BOOLEAN
    BY Zenon DEF Guards
  <1>5. /\ g \in Projects /\ g.decisions = r.decisions /\ g.events = r.events
        /\ SameState(g, r) /\ SameRuns(g, r) /\ SameRecords(g, r)
        /\ Guards(r, from, to, w, evidence) => g.raised = r.raised
        /\ ~Guards(r, from, to, w, evidence) => g.raised = TRUE
    BY <1>1, <1>4, RequireIs, Zenon
  <1>6. /\ r.revision \in Nat /\ r.events \in Seq(Stories) /\ g.events \in Seq(Stories)
        /\ Len(r.events) \in Nat
    BY <1>5 DEF Projects
  <1>0. PICK v, n : v = r.revision + 1 /\ n = Len(r.events) + 1 /\ v \in Nat /\ n \in Nat
    BY <1>6
  <1>7. PICK m : m = [g EXCEPT !.state = to, !.revision = v, !.lastEvent = n]
    OBVIOUS
  <1>8. /\ m \in Projects
        /\ m.state = to /\ m.revision = v /\ m.lastEvent = n
        /\ m.raised = g.raised /\ m.events = g.events /\ m.decisions = g.decisions
        /\ m.runs = g.runs /\ m.artifacts = g.artifacts /\ m.evaluations = g.evaluations
        /\ m.approvals = g.approvals
    BY <1>0, <1>5, <1>7 DEF Projects
  <1>9. q = [m EXCEPT !.events = Append(m.events, e)]
    BY <1>0, <1>3, <1>7 DEF Emit
  <1>10. e \in Stories /\ e.type = "transition.applied"
    BY <1>2, <1>6 DEF Stories
  <1>11. Append(m.events, e) \in Seq(Stories)
    BY <1>5, <1>6, <1>8, <1>10
  <1>12. /\ q \in Projects
         /\ q.state = to /\ q.revision = r.revision + 1 /\ q.lastEvent = Len(r.events) + 1
         /\ q.raised = g.raised /\ q.events = Append(r.events, e) /\ q.decisions = r.decisions
         /\ q.runs = g.runs /\ q.artifacts = g.artifacts /\ q.evaluations = g.evaluations
         /\ q.approvals = g.approvals
    BY <1>0, <1>5, <1>8, <1>9, <1>11 DEF Projects
  <1>13. ASSUME Told(r), r.state = from PROVE Told(q)
    <2>1. q.revision # 0
      BY <1>6, <1>12
    <2>2. ReplayProjectEvents(q.events) = [state |-> q.state, revision |-> q.revision, raised |-> FALSE]
      <3>1. ReplayProjectEvents(q.events) = ReplayEvent(ReplayProjectEvents(r.events), e)
        BY <1>6, <1>10, <1>12, ReplayOfOneMore
      <3>2. ReplayProjectEvents(r.events) = [state |-> r.state, revision |-> r.revision, raised |-> FALSE]
        BY <1>13 DEF Told
      <3>3. r.revision \in Nat \ {0}
        BY <1>6, <1>13 DEF Told
      <3>4. PICK s : s = [state |-> from, revision |-> r.revision, raised |-> FALSE]
        OBVIOUS
      <3>5. ReplayEvent(s, e) = [state |-> to, revision |-> r.revision + 1, raised |-> FALSE]
        <4>1. PICK was : was = r.revision
          OBVIOUS
        <4>2. /\ was \in Nat \ {0} /\ s = [state |-> from, revision |-> was, raised |-> FALSE]
              /\ e = [type |-> "transition.applied", from |-> from, to |-> to, revision |-> was + 1]
          BY <1>2, <3>3, <3>4, <4>1
        <4>3. ReplayEvent(s, e) = [state |-> to, revision |-> was + 1, raised |-> FALSE]
          BY <4>2, TransitionReplay
        <4> QED
          BY <4>1, <4>3
      <3> QED
        BY <1>12, <1>13, <3>1, <3>2, <3>4, <3>5
    <2>4. /\ DOMAIN r.events = 1 .. n - 1 /\ DOMAIN q.events = 1 .. n
          /\ q.lastEvent = n /\ n \in Nat \ {0}
      BY <1>0, <1>6, <1>10, <1>12, AppendIs
    <2>5. q.lastEvent \in DOMAIN q.events
      BY <2>4
    <2>6. \A i \in DOMAIN q.events : i <= q.lastEvent
      BY <2>4
    <2> QED
      BY <2>1, <2>2, <2>5, <2>6 DEF Told
  <1> QED
    BY <1>5, <1>12, <1>13, Zenon DEF SameRuns, SameRecords

\* A queued run is added when the project is in the workflow's entry state.
LEMMA CreateRunIs ==
  ASSUME NEW r \in Projects, NEW workflow \in {Setup, Discovery}, NEW entry, r.state = entry,
         NEW q, q = CreateRun(r, workflow, entry)
  PROVE  /\ q \in Projects /\ q.decisions = r.decisions /\ q.raised = r.raised
         /\ SameState(q, r) /\ SameRecords(q, r)
         /\ Len(q.runs) = Len(r.runs) + 1
         /\ \A w \in 1 .. Len(r.runs) : q.runs[w] = r.runs[w]
         /\ q.runs[Len(r.runs) + 1] = RunOf(workflow, "queued")
  <1>1. PICK g : g = Require(r, r.state = entry)
    OBVIOUS
  <1>2. /\ g \in Projects /\ g.decisions = r.decisions /\ g.events = r.events /\ g.lastEvent = r.lastEvent
        /\ SameState(g, r) /\ SameRuns(g, r) /\ SameRecords(g, r) /\ g.raised = r.raised
    <2>1. PICK here \in BOOLEAN : here = (r.state = entry)
      OBVIOUS
    <2>2. here = TRUE
      BY <2>1
    <2>3. g = Require(r, here)
      BY <1>1, <2>1
    <2> QED
      BY <2>2, <2>3, RequireIs, Zenon
  <1>0. PICK new : new = [workflow |-> workflow, status |-> "queued"]
    OBVIOUS
  <1>3. new = [workflow |-> workflow, status |-> "queued"] /\ new \in RunRecord
    BY <1>0 DEF RunRecord
  <1>4. q = [g EXCEPT !.runs = Append(g.runs, new)]
    BY <1>1, <1>3, Zenon DEF CreateRun
  <1>5. g.runs \in Seq(RunRecord) /\ g.runs = r.runs
    BY <1>2 DEF Projects, SameRuns
  <1>6. Append(g.runs, new) \in Seq(RunRecord)
    BY <1>3, <1>5
  <1>7. /\ q \in Projects
        /\ q.state = g.state /\ q.revision = g.revision /\ q.lastEvent = g.lastEvent
        /\ q.raised = g.raised /\ q.events = g.events /\ q.decisions = g.decisions
        /\ q.runs = Append(r.runs, new) /\ q.artifacts = g.artifacts /\ q.evaluations = g.evaluations
        /\ q.approvals = g.approvals
    BY <1>2, <1>4, <1>5, <1>6 DEF Projects
  <1>8. Told(r) => Told(q)
    BY <1>2, <1>7, Zenon DEF Told, SameState
  <1>9. /\ Len(q.runs) = Len(r.runs) + 1
        /\ \A w \in 1 .. Len(r.runs) : q.runs[w] = r.runs[w]
        /\ q.runs[Len(r.runs) + 1] = new
    BY <1>3, <1>5, <1>7, AppendIs
  <1> QED
    BY <1>2, <1>3, <1>7, <1>8, <1>9, Zenon DEF SameState, SameRecords, RunOf

\* A run goes from queued to running or from running to succeeded, and no other
\* run changes.
LEMMA SetStatusIs ==
  ASSUME NEW r \in Projects, NEW w \in DOMAIN r.runs, NEW status,
         \/ r.runs[w].status = "queued" /\ status = "running"
         \/ r.runs[w].status = "running" /\ status = "succeeded",
         NEW q, q = SetStatus(r, w, status)
  PROVE  /\ q \in Projects /\ q.decisions = r.decisions /\ q.raised = r.raised
         /\ SameState(q, r) /\ SameRecords(q, r)
         /\ Len(q.runs) = Len(r.runs)
         /\ \A v \in DOMAIN r.runs : v # w => q.runs[v] = r.runs[v]
         /\ q.runs[w] = RunOf(r.runs[w].workflow, status)
  <1>1. (status \in WorkflowAllowed[r.runs[w].status]) = TRUE
    BY DEF WorkflowAllowed
  <1>2. PICK g : g = Require(r, status \in WorkflowAllowed[r.runs[w].status])
    OBVIOUS
  <1>3. /\ g \in Projects /\ g.decisions = r.decisions /\ g.events = r.events /\ g.lastEvent = r.lastEvent
        /\ SameState(g, r) /\ SameRuns(g, r) /\ SameRecords(g, r) /\ g.raised = r.raised
    BY <1>1, <1>2, RequireIs, Zenon
  <1>4. PICK new : new = [r.runs[w] EXCEPT !.status = status]
    OBVIOUS
  <1>5. r.runs \in Seq(RunRecord) /\ g.runs = r.runs /\ r.runs[w] \in RunRecord
    BY <1>3 DEF Projects, SameRuns
  <1>6. new = [workflow |-> r.runs[w].workflow, status |-> status] /\ new \in RunRecord
    BY <1>4, <1>5 DEF RunRecord
  <1>7. PICK m : m = [g EXCEPT !.runs[w].status = status]
    OBVIOUS
  <1>8. m = [g EXCEPT !.runs = [r.runs EXCEPT ![w] = new]]
    BY <1>4, <1>5, <1>7
  <1>9. [r.runs EXCEPT ![w] = new] \in Seq(RunRecord)
    BY <1>5, <1>6
  <1>10. /\ m \in Projects
         /\ m.state = g.state /\ m.revision = g.revision /\ m.lastEvent = g.lastEvent
         /\ m.raised = g.raised /\ m.events = g.events /\ m.decisions = g.decisions
         /\ m.runs = [r.runs EXCEPT ![w] = new] /\ m.artifacts = g.artifacts
         /\ m.evaluations = g.evaluations /\ m.approvals = g.approvals
    BY <1>3, <1>8, <1>9 DEF Projects
  <1>11. Told(r) => Told(m)
    BY <1>3, <1>10, Zenon DEF Told, SameState
  <1>12. PICK type \in PlainEvents : q = Emit(m, Event(type))
    <2>1. (IF status = "running" THEN "workflow.started" ELSE "workflow.completed") \in PlainEvents
      BY DEF PlainEvents
    <2> QED
      BY <1>2, <1>7, <2>1, Zenon DEF SetStatus
  <1>13. /\ q \in Projects /\ q.raised = m.raised /\ q.decisions = m.decisions
         /\ SameState(q, m) /\ SameRuns(q, m) /\ SameRecords(q, m)
    BY <1>10, <1>12, EmitIs
  <1>14. q.runs = [r.runs EXCEPT ![w] = new]
    BY <1>10, <1>13 DEF SameRuns
  <1>15. /\ Len(q.runs) = Len(r.runs)
         /\ \A v \in DOMAIN r.runs : v # w => q.runs[v] = r.runs[v]
         /\ q.runs[w] = new
    BY <1>5, <1>6, <1>14
  <1> QED
    BY <1>3, <1>6, <1>10, <1>11, <1>13, <1>15, Zenon DEF SameState, SameRecords, RunOf

\* The newest of a set of places is its greatest member.
LEMMA NewestIs ==
  ASSUME NEW places \in SUBSET Nat, NEW m \in places, \A j \in places : j <= m
  PROVE  Newest(places) = m
  <1>1. PICK i : i = (CHOOSE k \in places : \A j \in places : j <= k)
    OBVIOUS
  <1>2. i \in places /\ \A j \in places : j <= i
    BY <1>1, Zenon
  <1>3. i = m
    BY <1>2
  <1>4. places # {}
    OBVIOUS
  <1> QED
    BY <1>1, <1>3, <1>4, Zenon DEF Newest

\* There is no newest of no places.
LEMMA NewestOfNone == Newest({}) = 0
  BY Zenon DEF Newest

\* A running workflow adds an artifact, its evaluation and the request for its
\* approval.
LEMMA ProduceIs ==
  ASSUME NEW r \in Projects, NEW w \in DOMAIN r.runs, r.runs[w].status = "running",
         NEW type \in {"founder_brief", "opportunity_report"}, NEW q, q = Produce(r, w, type)
  PROVE  /\ q \in Projects /\ q.decisions = r.decisions /\ q.raised = r.raised
         /\ SameState(q, r) /\ SameRuns(q, r)
         /\ q.artifacts = Append(r.artifacts, ArtifactOf(type, 0))
         /\ q.evaluations = Append(r.evaluations, EvaluationOf(Len(r.artifacts) + 1))
         /\ q.approvals = Append(r.approvals, ApprovalOf(Len(r.artifacts) + 1, "pending"))
  <1>1. PICK g : g = Require(r, r.runs[w].status \in {"running", "waiting_for_input"})
    OBVIOUS
  <1>2. /\ g \in Projects /\ g.decisions = r.decisions /\ g.events = r.events /\ g.lastEvent = r.lastEvent
        /\ SameState(g, r) /\ SameRuns(g, r) /\ SameRecords(g, r) /\ g.raised = r.raised
    <2>1. (r.runs[w].status \in {"running", "waiting_for_input"}) = TRUE
      OBVIOUS
    <2> QED
      BY <1>1, <2>1, RequireIs, Zenon
  <1>3. PICK started : started = Emit(g, Event("agent.started"))
    OBVIOUS
  <1>4. /\ started \in Projects /\ started.raised = g.raised /\ started.decisions = g.decisions
        /\ SameState(started, g) /\ SameRuns(started, g) /\ SameRecords(started, g)
    <2>1. "agent.started" \in PlainEvents
      BY DEF PlainEvents
    <2> QED
      BY <1>2, <1>3, <2>1, EmitIs
  <1>5. PICK i : i = Len(r.artifacts) + 1
    OBVIOUS
  <1>6. PICK art : art = [type |-> type, status |-> "under_review", approval |-> 0]
    OBVIOUS
  <1>7. PICK ev : ev = [artifact |-> i, outcome |-> "pass"]
    OBVIOUS
  <1>8. PICK app : app = [artifact |-> i, status |-> "pending"]
    OBVIOUS
  <1>9. /\ r.artifacts \in Seq(ArtifactRecord) /\ r.evaluations \in Seq(EvaluationRecord)
        /\ r.approvals \in Seq(ApprovalRecord) /\ i \in Nat
        /\ started.artifacts = r.artifacts /\ started.evaluations = r.evaluations
        /\ started.approvals = r.approvals
    BY <1>2, <1>4, <1>5 DEF Projects, SameRecords
  <1>10. art \in ArtifactRecord /\ ev \in EvaluationRecord /\ app \in ApprovalRecord
    BY <1>6, <1>7, <1>8, <1>9 DEF ArtifactRecord, EvaluationRecord, ApprovalRecord
  <1>11. /\ Append(r.artifacts, art) \in Seq(ArtifactRecord) /\ Len(Append(r.artifacts, art)) = i
         /\ Append(r.evaluations, ev) \in Seq(EvaluationRecord)
         /\ Append(r.approvals, app) \in Seq(ApprovalRecord)
    BY <1>5, <1>9, <1>10
  <1>12. PICK m1 : m1 = [started EXCEPT !.artifacts = Append(started.artifacts, art)]
    OBVIOUS
  <1>13. /\ m1 \in Projects
         /\ m1.state = started.state /\ m1.revision = started.revision /\ m1.lastEvent = started.lastEvent
         /\ m1.raised = started.raised /\ m1.events = started.events /\ m1.decisions = started.decisions
         /\ m1.runs = started.runs /\ m1.artifacts = Append(r.artifacts, art)
         /\ m1.evaluations = r.evaluations /\ m1.approvals = r.approvals
    BY <1>4, <1>9, <1>11, <1>12 DEF Projects
  <1>14. PICK artifact : artifact = Emit(m1, Event("artifact.created"))
    OBVIOUS
  <1>15. /\ artifact \in Projects /\ artifact.raised = m1.raised /\ artifact.decisions = m1.decisions
         /\ SameState(artifact, m1) /\ SameRuns(artifact, m1) /\ SameRecords(artifact, m1)
    <2>1. "artifact.created" \in PlainEvents
      BY DEF PlainEvents
    <2> QED
      BY <1>13, <1>14, <2>1, EmitIs
  <1>16. Len(artifact.artifacts) = i /\ artifact.evaluations = r.evaluations /\ artifact.approvals = r.approvals
    BY <1>11, <1>13, <1>15 DEF SameRecords
  <1>17. PICK m2 : m2 = [artifact EXCEPT !.evaluations = Append(artifact.evaluations, ev)]
    OBVIOUS
  <1>18. /\ m2 \in Projects
         /\ m2.state = artifact.state /\ m2.revision = artifact.revision /\ m2.lastEvent = artifact.lastEvent
         /\ m2.raised = artifact.raised /\ m2.events = artifact.events /\ m2.decisions = artifact.decisions
         /\ m2.runs = artifact.runs /\ m2.artifacts = artifact.artifacts
         /\ m2.evaluations = Append(r.evaluations, ev) /\ m2.approvals = r.approvals
    BY <1>15, <1>16, <1>11, <1>17 DEF Projects
  <1>19. PICK evaluated : evaluated = Emit(m2, Event("evaluation.completed"))
    OBVIOUS
  <1>20. /\ evaluated \in Projects /\ evaluated.raised = m2.raised /\ evaluated.decisions = m2.decisions
         /\ SameState(evaluated, m2) /\ SameRuns(evaluated, m2) /\ SameRecords(evaluated, m2)
    <2>1. "evaluation.completed" \in PlainEvents
      BY DEF PlainEvents
    <2> QED
      BY <1>18, <1>19, <2>1, EmitIs
  <1>21. evaluated.approvals = r.approvals
    BY <1>18, <1>20 DEF SameRecords
  <1>22. PICK m3 : m3 = [evaluated EXCEPT !.approvals = Append(evaluated.approvals, app)]
    OBVIOUS
  <1>23. /\ m3 \in Projects
         /\ m3.state = evaluated.state /\ m3.revision = evaluated.revision
         /\ m3.lastEvent = evaluated.lastEvent
         /\ m3.raised = evaluated.raised /\ m3.events = evaluated.events
         /\ m3.decisions = evaluated.decisions
         /\ m3.runs = evaluated.runs /\ m3.artifacts = evaluated.artifacts
         /\ m3.evaluations = evaluated.evaluations /\ m3.approvals = Append(r.approvals, app)
    BY <1>20, <1>21, <1>11, <1>22 DEF Projects
  <1>24. PICK requested : requested = Emit(m3, Event("approval.requested"))
    OBVIOUS
  <1>25. /\ requested \in Projects /\ requested.raised = m3.raised /\ requested.decisions = m3.decisions
         /\ SameState(requested, m3) /\ SameRuns(requested, m3) /\ SameRecords(requested, m3)
    <2>1. "approval.requested" \in PlainEvents
      BY DEF PlainEvents
    <2> QED
      BY <1>23, <1>24, <2>1, EmitIs
  <1>26. q = Emit(requested, Event("agent.completed"))
    <2>1. m1 = [started EXCEPT !.artifacts = Append(@, art)]
      BY <1>12
    <2>2. m2 = [artifact EXCEPT !.evaluations = Append(@, [artifact |-> Len(artifact.artifacts), outcome |-> "pass"])]
      BY <1>7, <1>16, <1>17
    <2>3. m3 = [evaluated EXCEPT !.approvals = Append(@, [artifact |-> Len(artifact.artifacts), status |-> "pending"])]
      BY <1>8, <1>16, <1>22
    <2> QED
      BY <1>1, <1>3, <1>6, <1>14, <1>19, <1>24, <2>1, <2>2, <2>3, Zenon DEF Produce
  <1>27. /\ q \in Projects /\ q.raised = requested.raised /\ q.decisions = requested.decisions
         /\ SameState(q, requested) /\ SameRuns(q, requested) /\ SameRecords(q, requested)
    <2>1. "agent.completed" \in PlainEvents
      BY DEF PlainEvents
    <2> QED
      BY <1>25, <1>26, <2>1, EmitIs
  <1>28. SameState(q, r)
    <2>1. SameState(m1, started) /\ SameState(m2, artifact) /\ SameState(m3, evaluated)
      BY <1>13, <1>18, <1>23, Zenon DEF SameState, Told
    <2> QED
      BY <1>2, <1>4, <1>15, <1>20, <1>25, <1>27, <2>1, Zenon DEF SameState
  <1>29. SameRuns(q, r) /\ q.decisions = r.decisions /\ q.raised = r.raised
    <2>1. q.runs = r.runs
      BY <1>2, <1>4, <1>13, <1>15, <1>18, <1>20, <1>23, <1>25, <1>27, Zenon DEF SameRuns
    <2>2. q.decisions = r.decisions
      BY <1>2, <1>4, <1>13, <1>15, <1>18, <1>20, <1>23, <1>25, <1>27, Zenon
    <2>3. q.raised = r.raised
      BY <1>2, <1>4, <1>13, <1>15, <1>18, <1>20, <1>23, <1>25, <1>27, Zenon
    <2> QED
      BY <2>1, <2>2, <2>3 DEF SameRuns
  <1>30. /\ q.artifacts = Append(r.artifacts, art) /\ q.evaluations = Append(r.evaluations, ev)
         /\ q.approvals = Append(r.approvals, app)
    BY <1>13, <1>15, <1>18, <1>20, <1>23, <1>25, <1>27, Zenon DEF SameRecords
  <1> QED
    <2>1. art = ArtifactOf(type, 0) /\ ev = EvaluationOf(i) /\ app = ApprovalOf(i, "pending")
      BY <1>6, <1>7, <1>8, Zenon DEF ArtifactOf, EvaluationOf, ApprovalOf
    <2> QED
      BY <1>5, <1>27, <1>28, <1>29, <1>30, <2>1, Zenon

\* The brief or report with place i is approved by the approval with place a.
LEMMA ApproveIs ==
  ASSUME NEW r \in Projects, NEW a \in DOMAIN r.approvals, r.approvals[a].status = "pending",
         NEW i \in DOMAIN r.artifacts, NEW q, q = ApproveArtifact(ApproveApproval(r, a), i, a)
  PROVE  /\ q \in Projects /\ q.decisions = r.decisions /\ q.raised = r.raised
         /\ SameState(q, r) /\ SameRuns(q, r) /\ q.evaluations = r.evaluations
         /\ Len(q.artifacts) = Len(r.artifacts) /\ Len(q.approvals) = Len(r.approvals)
         /\ \A j \in DOMAIN r.artifacts : j # i => q.artifacts[j] = r.artifacts[j]
         /\ q.artifacts[i] = ArtifactOf(r.artifacts[i].type, a)
         /\ \A j \in DOMAIN r.approvals : j # a => q.approvals[j] = r.approvals[j]
         /\ q.approvals[a] = ApprovalOf(r.approvals[a].artifact, "approved")
  <1>1. /\ r.artifacts \in Seq(ArtifactRecord) /\ r.artifacts[i] \in ArtifactRecord
        /\ r.approvals \in Seq(ApprovalRecord) /\ r.approvals[a] \in ApprovalRecord /\ a \in Nat
    BY DEF Projects
  <1>2. PICK g : g = Require(r, r.approvals[a].status = "pending")
    OBVIOUS
  <1>3. /\ g \in Projects /\ g.decisions = r.decisions /\ g.events = r.events /\ g.lastEvent = r.lastEvent
        /\ SameState(g, r) /\ SameRuns(g, r) /\ SameRecords(g, r) /\ g.raised = r.raised
    <2>1. (r.approvals[a].status = "pending") = TRUE
      OBVIOUS
    <2>2. PICK here \in BOOLEAN : here = (r.approvals[a].status = "pending") /\ here = TRUE
      BY <2>1
    <2>3. g = Require(r, here)
      BY <1>2, <2>2
    <2> QED
      BY <2>2, <2>3, RequireIs
  <1>4. PICK app : app = [artifact |-> r.approvals[a].artifact, status |-> "approved"]
    OBVIOUS
  <1>5. app \in ApprovalRecord /\ app = [r.approvals[a] EXCEPT !.status = "approved"]
    <2>1. PICK old \in ApprovalRecord : old = r.approvals[a]
      BY <1>1
    <2>2. app = [artifact |-> old.artifact, status |-> "approved"]
      BY <1>4, <2>1
    <2>3. app = [old EXCEPT !.status = "approved"]
      BY <2>2 DEF ApprovalRecord
    <2>4. app \in ApprovalRecord
      BY <2>2 DEF ApprovalRecord
    <2> QED
      BY <2>1, <2>3, <2>4
  <1>6. PICK m1 : m1 = [g EXCEPT !.approvals[a].status = "approved"]
    OBVIOUS
  <1>7. m1 = [g EXCEPT !.approvals = [r.approvals EXCEPT ![a] = app]]
    BY <1>3, <1>5, <1>6 DEF SameRecords
  <1>8. [r.approvals EXCEPT ![a] = app] \in Seq(ApprovalRecord)
    BY <1>1, <1>5
  <1>9. /\ m1 \in Projects
        /\ m1.state = g.state /\ m1.revision = g.revision /\ m1.lastEvent = g.lastEvent
        /\ m1.raised = g.raised /\ m1.events = g.events /\ m1.decisions = g.decisions
        /\ m1.runs = g.runs /\ m1.artifacts = g.artifacts
        /\ m1.evaluations = g.evaluations /\ m1.approvals = [r.approvals EXCEPT ![a] = app]
    BY <1>3, <1>7, <1>8 DEF Projects
  <1>10. PICK approval : approval = Emit(m1, Event("approval.decided"))
    OBVIOUS
  <1>11. /\ approval \in Projects /\ approval.raised = m1.raised /\ approval.decisions = m1.decisions
         /\ SameState(approval, m1) /\ SameRuns(approval, m1) /\ SameRecords(approval, m1)
    <2>1. "approval.decided" \in PlainEvents
      BY DEF PlainEvents
    <2> QED
      BY <1>9, <1>10, <2>1, EmitIs
  <1>12. ApproveApproval(r, a) = approval
    BY <1>2, <1>6, <1>10 DEF ApproveApproval
  <1>13. PICK art : art = [type |-> r.artifacts[i].type, status |-> "approved", approval |-> a]
    OBVIOUS
  <1>14. art \in ArtifactRecord /\ art = [r.artifacts[i] EXCEPT !.status = "approved", !.approval = a]
    <2>1. PICK old \in ArtifactRecord : old = r.artifacts[i]
      BY <1>1
    <2>2. art = [type |-> old.type, status |-> "approved", approval |-> a]
      BY <1>13, <2>1
    <2>3. art = [old EXCEPT !.status = "approved", !.approval = a]
      <3>1. PICK new : new = [old EXCEPT !.status = "approved", !.approval = a]
        OBVIOUS
      <3>2. new.type = old.type /\ new.status = "approved" /\ new.approval = a
        BY <3>1 DEF ArtifactRecord
      <3>3. new = [type |-> new.type, status |-> new.status, approval |-> new.approval]
        BY <3>1 DEF ArtifactRecord
      <3> QED
        BY <2>2, <3>1, <3>2, <3>3
    <2>4. art \in ArtifactRecord
      BY <1>1, <2>2 DEF ArtifactRecord
    <2> QED
      BY <2>1, <2>3, <2>4
  <1>15. approval.artifacts = r.artifacts
    BY <1>3, <1>9, <1>11 DEF SameRecords
  <1>16. PICK m2 : m2 = [approval EXCEPT !.artifacts = [r.artifacts EXCEPT ![i] = art]]
    OBVIOUS
  <1>17. [r.artifacts EXCEPT ![i] = art] \in Seq(ArtifactRecord)
    BY <1>1, <1>14
  <1>18. /\ m2 \in Projects
         /\ m2.state = approval.state /\ m2.revision = approval.revision /\ m2.lastEvent = approval.lastEvent
         /\ m2.raised = approval.raised /\ m2.events = approval.events /\ m2.decisions = approval.decisions
         /\ m2.runs = approval.runs /\ m2.artifacts = [r.artifacts EXCEPT ![i] = art]
         /\ m2.evaluations = approval.evaluations /\ m2.approvals = approval.approvals
    BY <1>11, <1>16, <1>17 DEF Projects
  <1>19. q = Emit(m2, Event("artifact.approved"))
    <2>1. m2 = [approval EXCEPT !.artifacts[i] = [@ EXCEPT !.status = "approved", !.approval = a]]
      BY <1>14, <1>15, <1>16
    <2> QED
      BY <1>12, <2>1, Zenon DEF ApproveArtifact
  <1>20. /\ q \in Projects /\ q.raised = m2.raised /\ q.decisions = m2.decisions
         /\ SameState(q, m2) /\ SameRuns(q, m2) /\ SameRecords(q, m2)
    <2>1. "artifact.approved" \in PlainEvents
      BY DEF PlainEvents
    <2> QED
      BY <1>18, <1>19, <2>1, EmitIs
  <1>21. SameState(q, r)
    <2>1. SameState(m1, g) /\ SameState(m2, approval)
      BY <1>9, <1>18, Zenon DEF SameState, Told
    <2> QED
      BY <1>3, <1>11, <1>20, <2>1, Zenon DEF SameState
  <1>22. SameRuns(q, r) /\ q.decisions = r.decisions /\ q.raised = r.raised /\ q.evaluations = r.evaluations
    BY <1>3, <1>9, <1>11, <1>18, <1>20, Zenon DEF SameRuns, SameRecords
  <1>23. q.artifacts = [r.artifacts EXCEPT ![i] = art] /\ q.approvals = [r.approvals EXCEPT ![a] = app]
    BY <1>9, <1>11, <1>18, <1>20, Zenon DEF SameRecords
  <1>24. /\ Len(q.artifacts) = Len(r.artifacts) /\ Len(q.approvals) = Len(r.approvals)
         /\ \A j \in DOMAIN r.artifacts : j # i => q.artifacts[j] = r.artifacts[j]
         /\ q.artifacts[i] = art
         /\ \A j \in DOMAIN r.approvals : j # a => q.approvals[j] = r.approvals[j]
         /\ q.approvals[a] = app
    BY <1>1, <1>5, <1>14, <1>23
  <1> QED
    <2>1. a # 0
      BY <1>1
    <2>2. art = ArtifactOf(r.artifacts[i].type, a)
      BY <1>13, <2>1 DEF ArtifactOf
    <2>3. app = ApprovalOf(r.approvals[a].artifact, "approved")
      BY <1>4, Zenon DEF ApprovalOf
    <2> QED
      BY <1>20, <1>21, <1>22, <1>24, <2>2, <2>3

\* A decision is added and nothing else changes.
LEMMA DecideIs ==
  ASSUME NEW r \in Projects, NEW i \in Nat, NEW a \in Nat, NEW q, q = Decide(r, i, a)
  PROVE  /\ q \in Projects /\ q.raised = r.raised
         /\ SameState(q, r) /\ SameRuns(q, r) /\ SameRecords(q, r)
         /\ Len(q.decisions) = Len(r.decisions) + 1
  <1>1. PICK d : d = [artifact |-> i, approval |-> a]
    OBVIOUS
  <1>2. d \in DecisionRecord /\ r.decisions \in Seq(DecisionRecord)
    BY <1>1 DEF DecisionRecord, Projects
  <1>3. Append(r.decisions, d) \in Seq(DecisionRecord) /\ Len(Append(r.decisions, d)) = Len(r.decisions) + 1
    BY <1>2
  <1>4. PICK m : m = [r EXCEPT !.decisions = Append(r.decisions, d)]
    OBVIOUS
  <1>5. /\ m \in Projects
        /\ m.state = r.state /\ m.revision = r.revision /\ m.lastEvent = r.lastEvent
        /\ m.raised = r.raised /\ m.events = r.events /\ m.decisions = Append(r.decisions, d)
        /\ m.runs = r.runs /\ m.artifacts = r.artifacts
        /\ m.evaluations = r.evaluations /\ m.approvals = r.approvals
    BY <1>3, <1>4 DEF Projects
  <1>6. q = Emit(m, Event("decision.approved"))
    BY <1>1, <1>4 DEF Decide
  <1>7. /\ q \in Projects /\ q.raised = m.raised /\ q.decisions = m.decisions
        /\ SameState(q, m) /\ SameRuns(q, m) /\ SameRecords(q, m)
    <2>1. "decision.approved" \in PlainEvents
      BY DEF PlainEvents
    <2> QED
      BY <1>5, <1>6, <2>1, EmitIs
  <1>8. SameState(m, r)
    BY <1>5, Zenon DEF SameState, Told
  <1>9. SameState(q, r) /\ SameRuns(q, r) /\ SameRecords(q, r)
    BY <1>5, <1>7, <1>8, Zenon DEF SameState, SameRuns, SameRecords
  <1> QED
    BY <1>3, <1>5, <1>7, <1>9

---------------------------------------------------------------------------
(* The five forms of a project                                             *)

NoRuns(r) == Len(r.runs) = 0

\* The Setup run and nothing else.
OneRun(r, status) ==
    Len(r.runs) = 1 /\ r.runs[1] = RunOf(Setup, status)

\* The Discovery run after the Setup run.
TwoRuns(r, status) ==
    /\ Len(r.runs) = 2
    /\ r.runs[1] = RunOf(Setup, "succeeded")
    /\ r.runs[2] = RunOf(Discovery, status)

TypeAt(n, i) == IF i <= n THEN "founder_brief" ELSE "opportunity_report"

\* The records with place i, of which briefs are the first n.
RecordAt(r, n, i, approved) ==
    /\ r.artifacts[i] = ArtifactOf(TypeAt(n, i), IF i \in approved THEN i ELSE 0)
    /\ r.evaluations[i] = EvaluationOf(i)
    /\ r.approvals[i] = ApprovalOf(i, IF i \in approved THEN "approved" ELSE "pending")

\* There are m artifacts with an evaluation and an approval each; the first n
\* are briefs, the others reports.
Records(r, n, m, approved) ==
    /\ Len(r.artifacts) = m /\ Len(r.evaluations) = m /\ Len(r.approvals) = m
    /\ \A i \in 1 .. m : RecordAt(r, n, i, approved)

\* A project for which n briefs were handed in.
Form(r, n) ==
    \/ /\ r.state = "NO_PROJECT" /\ n = 0
       /\ NoRuns(r) /\ Records(r, n, n, {}) /\ Len(r.decisions) = 0
    \/ /\ r.state = "FOUNDER_SETUP" /\ n > 0
       /\ OneRun(r, "running") /\ Records(r, n, n, {}) /\ Len(r.decisions) = 0
    \/ /\ r.state = "FOUNDER_BRIEF_COMPLETE" /\ n > 0
       /\ OneRun(r, "succeeded") /\ Records(r, n, n, {n}) /\ Len(r.decisions) = 0
    \/ /\ r.state = "DISCOVERY_RUNNING" /\ n > 0
       /\ TwoRuns(r, "running") /\ Records(r, n, n + 1, {n}) /\ Len(r.decisions) = 0
    \/ /\ r.state = "OPPORTUNITY_SELECTED" /\ n > 0
       /\ TwoRuns(r, "succeeded") /\ Records(r, n, n + 1, {n, n + 1}) /\ Len(r.decisions) = 1

\* The records are in order when they are those of a project where they are.
LEMMA RecordsSame ==
  ASSUME NEW r, NEW q, SameRecords(q, r), NEW n, NEW m, NEW approved, Records(r, n, m, approved)
  PROVE  Records(q, n, m, approved)
  BY Zenon DEF SameRecords, Records, RecordAt

\* With the Setup run alone, the last run of a status is that one or none.
LEMMA OneRunLast ==
  ASSUME NEW r \in Projects, NEW status, OneRun(r, status), NEW statuses
  PROVE  /\ 1 \in DOMAIN r.runs
         /\ status \in statuses => LastRun(r, statuses) = 1
         /\ status \notin statuses => LastRun(r, statuses) = 0
  <1>1. r.runs \in Seq(RunRecord) /\ Len(r.runs) = 1 /\ r.runs[1].status = status
    BY DEF Projects, OneRun, RunOf
  <1>2. DOMAIN r.runs = 1 .. 1
    BY <1>1
  <1>3. PICK places : places = {w \in DOMAIN r.runs : r.runs[w].status \in statuses}
    OBVIOUS
  <1>4. places \in SUBSET Nat /\ \A w \in places : w = 1
    BY <1>2, <1>3
  <1>5. ASSUME status \in statuses PROVE LastRun(r, statuses) = 1
    <2>1. 1 \in places /\ \A j \in places : j <= 1
      BY <1>1, <1>2, <1>3, <1>4, <1>5
    <2>2. Newest(places) = 1
      BY <1>4, <2>1, NewestIs
    <2> QED
      BY <1>3, <2>2, Zenon DEF LastRun
  <1>6. ASSUME status \notin statuses PROVE LastRun(r, statuses) = 0
    <2>1. places = {}
      BY <1>1, <1>3, <1>4, <1>6
    <2> QED
      BY <1>3, <2>1, NewestOfNone, Zenon DEF LastRun
  <1> QED
    BY <1>2, <1>5, <1>6

\* With both runs, the Setup run over, the last run of a status is the second
\* or none.
LEMMA TwoRunsLast ==
  ASSUME NEW r \in Projects, NEW status, TwoRuns(r, status), NEW statuses, "succeeded" \notin statuses
  PROVE  /\ DOMAIN r.runs = {1, 2}
         /\ status \in statuses => LastRun(r, statuses) = 2
         /\ status \notin statuses => LastRun(r, statuses) = 0
  <1>1. /\ r.runs \in Seq(RunRecord) /\ Len(r.runs) = 2 /\ r.runs[2].status = status
        /\ r.runs[1].status = "succeeded"
    BY DEF Projects, TwoRuns, RunOf
  <1>2. DOMAIN r.runs = {1, 2}
    BY <1>1
  <1>3. PICK places : places = {w \in DOMAIN r.runs : r.runs[w].status \in statuses}
    OBVIOUS
  <1>4. places \in SUBSET Nat /\ \A w \in places : w = 2
    BY <1>1, <1>2, <1>3
  <1>5. ASSUME status \in statuses PROVE LastRun(r, statuses) = 2
    <2>1. 2 \in places /\ \A j \in places : j <= 2
      BY <1>1, <1>2, <1>3, <1>4, <1>5
    <2>2. Newest(places) = 2
      BY <1>4, <2>1, NewestIs
    <2> QED
      BY <1>3, <2>2, Zenon DEF LastRun
  <1>6. ASSUME status \notin statuses PROVE LastRun(r, statuses) = 0
    <2>1. places = {}
      BY <1>1, <1>3, <1>4, <1>6
    <2> QED
      BY <1>3, <2>1, NewestOfNone, Zenon DEF LastRun
  <1> QED
    BY <1>2, <1>5, <1>6

\* The places of two runs.
LEMMA TwoRunsAre ==
  ASSUME NEW r \in Projects, NEW status, TwoRuns(r, status)
  PROVE  DOMAIN r.runs = {1, 2}
  <1>1. "succeeded" \notin {}
    OBVIOUS
  <1> QED
    BY <1>1, TwoRunsLast

\* Without runs there is no last run.
LEMMA NoRunsLast ==
  ASSUME NEW r \in Projects, NoRuns(r), NEW statuses
  PROVE  LastRun(r, statuses) = 0
  <1>1. r.runs \in Seq(RunRecord) /\ Len(r.runs) = 0
    BY DEF Projects, NoRuns
  <1>2. DOMAIN r.runs = {}
    BY <1>1
  <1>3. {w \in DOMAIN r.runs : r.runs[w].status \in statuses} = {}
    BY <1>2
  <1> QED
    BY <1>3, NewestOfNone, Zenon DEF LastRun

\* What the commands look for in the records.
LEMMA RecordsAre ==
  ASSUME NEW r \in Projects, NEW n \in Nat, NEW m \in Nat, n <= m, NEW approved, Records(r, n, m, approved)
  PROVE  /\ DOMAIN r.artifacts = 1 .. m /\ DOMAIN r.evaluations = 1 .. m /\ DOMAIN r.approvals = 1 .. m
         /\ \A i \in 1 .. m : RecordAt(r, n, i, approved)
         /\ \A i \in 1 .. m : EvaluationsOf(r, i) = {i}
         /\ PendingApprovals(r) = (1 .. m) \ approved
  <1>1. /\ r.artifacts \in Seq(ArtifactRecord) /\ r.evaluations \in Seq(EvaluationRecord)
        /\ r.approvals \in Seq(ApprovalRecord)
        /\ Len(r.artifacts) = m /\ Len(r.evaluations) = m /\ Len(r.approvals) = m
    BY DEF Projects, Records
  <1>2. DOMAIN r.artifacts = 1 .. m /\ DOMAIN r.evaluations = 1 .. m /\ DOMAIN r.approvals = 1 .. m
    BY <1>1
  <1>3. \A i \in 1 .. m : RecordAt(r, n, i, approved)
    BY DEF Records
  <1>4. ASSUME NEW i \in 1 .. m
        PROVE  /\ r.evaluations[i].artifact = i
               /\ r.approvals[i].status = "pending" <=> i \notin approved
    <2>1. /\ r.evaluations[i] = EvaluationOf(i)
          /\ r.approvals[i] = ApprovalOf(i, IF i \in approved THEN "approved" ELSE "pending")
      BY <1>3, Zenon DEF RecordAt
    <2> QED
      BY <2>1 DEF EvaluationOf, ApprovalOf
  <1>6. \A i \in 1 .. m : EvaluationsOf(r, i) = {i}
    BY <1>2, <1>4 DEF EvaluationsOf
  <1>7. PendingApprovals(r) = (1 .. m) \ approved
    BY <1>2, <1>4 DEF PendingApprovals
  <1> QED
    BY <1>2, <1>3, <1>6, <1>7

\* Records in order stay so when a brief or a report is added.
LEMMA RecordsProduced ==
  ASSUME NEW r \in Projects, NEW q \in Projects, NEW m \in Nat, NEW approved \in SUBSET (1 .. m),
         Records(r, m, m, approved), NEW type \in {"founder_brief", "opportunity_report"},
         q.artifacts = Append(r.artifacts, ArtifactOf(type, 0)),
         q.evaluations = Append(r.evaluations, EvaluationOf(Len(r.artifacts) + 1)),
         q.approvals = Append(r.approvals, ApprovalOf(Len(r.artifacts) + 1, "pending"))
  PROVE  Records(q, IF type = "founder_brief" THEN m + 1 ELSE m, m + 1, approved)
  <1>1. PICK n : n = IF type = "founder_brief" THEN m + 1 ELSE m
    OBVIOUS
  <1>2. /\ r.artifacts \in Seq(ArtifactRecord) /\ r.evaluations \in Seq(EvaluationRecord)
        /\ r.approvals \in Seq(ApprovalRecord)
        /\ Len(r.artifacts) = m /\ Len(r.evaluations) = m /\ Len(r.approvals) = m
    BY DEF Projects, Records
  <1>3. PICK art, ev, app :
          /\ art = ArtifactOf(type, 0)
          /\ ev = EvaluationOf(m + 1)
          /\ app = ApprovalOf(m + 1, "pending")
    OBVIOUS
  <1>4. art \in ArtifactRecord /\ ev \in EvaluationRecord /\ app \in ApprovalRecord
    BY <1>3 DEF ArtifactRecord, EvaluationRecord, ApprovalRecord, ArtifactOf, EvaluationOf, ApprovalOf
  <1>5. /\ q.artifacts = Append(r.artifacts, art) /\ q.evaluations = Append(r.evaluations, ev)
        /\ q.approvals = Append(r.approvals, app)
    BY <1>2, <1>3
  <1>6. /\ Len(q.artifacts) = m + 1 /\ q.artifacts[m + 1] = art
        /\ \A i \in 1 .. m : q.artifacts[i] = r.artifacts[i]
    BY <1>2, <1>4, <1>5, AppendIs
  <1>7. /\ Len(q.evaluations) = m + 1 /\ q.evaluations[m + 1] = ev
        /\ \A i \in 1 .. m : q.evaluations[i] = r.evaluations[i]
    BY <1>2, <1>4, <1>5, AppendIs
  <1>8. /\ Len(q.approvals) = m + 1 /\ q.approvals[m + 1] = app
        /\ \A i \in 1 .. m : q.approvals[i] = r.approvals[i]
    BY <1>2, <1>4, <1>5, AppendIs
  <1>9. \A i \in 1 .. m + 1 : RecordAt(q, n, i, approved)
    <2> SUFFICES ASSUME NEW i \in 1 .. m + 1 PROVE RecordAt(q, n, i, approved)
      OBVIOUS
    <2>1. CASE i \in 1 .. m
      <3>1. RecordAt(r, m, i, approved) /\ i <= m /\ i <= n
        BY <1>1, <2>1 DEF Records
      <3>2. /\ q.artifacts[i] = r.artifacts[i] /\ q.evaluations[i] = r.evaluations[i]
            /\ q.approvals[i] = r.approvals[i]
        BY <1>6, <1>7, <1>8, <2>1
      <3>3. TypeAt(n, i) = TypeAt(m, i)
        BY <3>1 DEF TypeAt
      <3> QED
        BY <3>1, <3>2, <3>3, Zenon DEF RecordAt
    <2>2. CASE i = m + 1
      <3>1. i \notin approved /\ TypeAt(n, i) = type
        BY <1>1, <2>2 DEF TypeAt
      <3> QED
        BY <1>3, <1>6, <1>7, <1>8, <2>2, <3>1 DEF RecordAt
    <2> QED
      BY <2>1, <2>2
  <1> QED
    BY <1>1, <1>6, <1>7, <1>8, <1>9 DEF Records

\* What approving the brief or report with place i leaves, the approval having
\* the same place.
LEMMA ApprovedAre ==
  ASSUME NEW r \in Projects, NEW n \in Nat, NEW m \in Nat, n <= m, NEW approved, Records(r, n, m, approved),
         NEW i \in 1 .. m, i \notin approved, NEW q, q = ApproveArtifact(ApproveApproval(r, i), i, i)
  PROVE  /\ q \in Projects /\ q.decisions = r.decisions /\ q.raised = r.raised
         /\ SameState(q, r) /\ SameRuns(q, r) /\ q.evaluations = r.evaluations
         /\ Len(q.artifacts) = Len(r.artifacts) /\ Len(q.approvals) = Len(r.approvals)
         /\ \A j \in DOMAIN r.artifacts : j # i => q.artifacts[j] = r.artifacts[j]
         /\ q.artifacts[i] = ArtifactOf(r.artifacts[i].type, i)
         /\ \A j \in DOMAIN r.approvals : j # i => q.approvals[j] = r.approvals[j]
         /\ q.approvals[i] = ApprovalOf(i, "approved")
  <1>1. /\ DOMAIN r.artifacts = 1 .. m /\ DOMAIN r.evaluations = 1 .. m /\ DOMAIN r.approvals = 1 .. m
        /\ \A j \in 1 .. m : RecordAt(r, n, j, approved)
    BY RecordsAre
  <1>2. r.approvals[i].status = "pending" /\ r.approvals[i].artifact = i
    <2>1. r.approvals[i] = ApprovalOf(i, "pending")
      BY <1>1, Zenon DEF RecordAt
    <2> QED
      BY <2>1 DEF ApprovalOf
  <1>5. i \in DOMAIN r.artifacts /\ i \in DOMAIN r.approvals
    BY <1>1
  <1>3. /\ q \in Projects /\ q.decisions = r.decisions /\ q.raised = r.raised
        /\ SameState(q, r) /\ SameRuns(q, r) /\ q.evaluations = r.evaluations
        /\ Len(q.artifacts) = Len(r.artifacts) /\ Len(q.approvals) = Len(r.approvals)
        /\ \A j \in DOMAIN r.artifacts : j # i => q.artifacts[j] = r.artifacts[j]
        /\ q.artifacts[i] = ArtifactOf(r.artifacts[i].type, i)
        /\ \A j \in DOMAIN r.approvals : j # i => q.approvals[j] = r.approvals[j]
        /\ q.approvals[i] = ApprovalOf(i, "approved")
    <2>1. PICK a : a = i
      OBVIOUS
    <2>2. a \in DOMAIN r.approvals /\ r.approvals[a].status = "pending" /\ r.approvals[a].artifact = i
      BY <1>2, <1>5, <2>1
    <2>3. q = ApproveArtifact(ApproveApproval(r, a), i, a)
      BY <2>1
    <2>4. /\ q \in Projects /\ q.decisions = r.decisions /\ q.raised = r.raised
          /\ SameState(q, r) /\ SameRuns(q, r) /\ q.evaluations = r.evaluations
          /\ Len(q.artifacts) = Len(r.artifacts) /\ Len(q.approvals) = Len(r.approvals)
          /\ \A j \in DOMAIN r.artifacts : j # i => q.artifacts[j] = r.artifacts[j]
          /\ q.artifacts[i] = ArtifactOf(r.artifacts[i].type, a)
          /\ \A j \in DOMAIN r.approvals : j # a => q.approvals[j] = r.approvals[j]
          /\ q.approvals[a] = ApprovalOf(r.approvals[a].artifact, "approved")
      BY <1>5, <2>2, <2>3, ApproveIs
    <2> QED
      BY <2>1, <2>2, <2>4
  <1> QED
    BY <1>3

\* What that approval leaves as it was.
LEMMA ApprovedKeeps ==
  ASSUME NEW r \in Projects, NEW n \in Nat, NEW m \in Nat, n <= m, NEW approved, Records(r, n, m, approved),
         NEW i \in 1 .. m, i \notin approved, NEW q, q = ApproveArtifact(ApproveApproval(r, i), i, i)
  PROVE  /\ q \in Projects /\ q.decisions = r.decisions /\ q.raised = r.raised
         /\ SameState(q, r) /\ SameRuns(q, r)
  BY ApprovedAre

\* Records in order stay so, with one approved more.
LEMMA RecordsApproved ==
  ASSUME NEW r \in Projects, NEW n \in Nat, NEW m \in Nat, n <= m, NEW approved, Records(r, n, m, approved),
         NEW i \in 1 .. m, i \notin approved, NEW q, q = ApproveArtifact(ApproveApproval(r, i), i, i)
  PROVE  /\ q \in Projects /\ q.decisions = r.decisions /\ q.raised = r.raised
         /\ SameState(q, r) /\ SameRuns(q, r)
         /\ Records(q, n, m, approved \cup {i})
  <1>1. /\ DOMAIN r.artifacts = 1 .. m /\ DOMAIN r.evaluations = 1 .. m /\ DOMAIN r.approvals = 1 .. m
        /\ \A j \in 1 .. m : RecordAt(r, n, j, approved)
    BY RecordsAre
  <1>2. r.approvals[i].status = "pending" /\ r.approvals[i].artifact = i
    <2>1. r.approvals[i] = ApprovalOf(i, "pending")
      BY <1>1, Zenon DEF RecordAt
    <2> QED
      BY <2>1 DEF ApprovalOf
  <1>5. i \in DOMAIN r.artifacts /\ i \in DOMAIN r.approvals
    BY <1>1
  <1>3. /\ q \in Projects /\ q.decisions = r.decisions /\ q.raised = r.raised
        /\ SameState(q, r) /\ SameRuns(q, r) /\ q.evaluations = r.evaluations
        /\ Len(q.artifacts) = Len(r.artifacts) /\ Len(q.approvals) = Len(r.approvals)
        /\ \A j \in DOMAIN r.artifacts : j # i => q.artifacts[j] = r.artifacts[j]
        /\ q.artifacts[i] = ArtifactOf(r.artifacts[i].type, i)
        /\ \A j \in DOMAIN r.approvals : j # i => q.approvals[j] = r.approvals[j]
        /\ q.approvals[i] = ApprovalOf(i, "approved")
    BY ApprovedAre
  <1>4. \A j \in 1 .. m : RecordAt(q, n, j, approved \cup {i})
    <2> SUFFICES ASSUME NEW j \in 1 .. m PROVE RecordAt(q, n, j, approved \cup {i})
      OBVIOUS
    <2>1. RecordAt(r, n, j, approved) /\ q.evaluations[j] = r.evaluations[j]
      BY <1>1, <1>3
    <2>2. CASE j # i
      <3>1. q.artifacts[j] = r.artifacts[j] /\ q.approvals[j] = r.approvals[j]
        BY <1>1, <1>3, <2>2
      <3>2. (j \in approved \cup {i}) = (j \in approved)
        BY <2>2
      <3> QED
        BY <2>1, <3>1, <3>2, Zenon DEF RecordAt
    <2>3. CASE j = i
      <3>1. r.artifacts[i].type = TypeAt(n, i)
        <4>1. r.artifacts[i] = ArtifactOf(TypeAt(n, i), 0)
          BY <2>1, <2>3, Zenon DEF RecordAt
        <4> QED
          BY <4>1 DEF ArtifactOf
      <3>2. (i \in approved \cup {i}) = TRUE
        OBVIOUS
      <3> QED
        BY <1>2, <1>3, <2>1, <2>3, <3>1, <3>2, Zenon DEF RecordAt
    <2> QED
      BY <2>2, <2>3
  <1> QED
    BY <1>3, <1>4 DEF Records

---------------------------------------------------------------------------
(* The commands                                                            *)

\* A project that is as its events and its form say.
Orderly(r, n) == r \in Projects /\ r.raised = FALSE /\ Told(r) /\ n \in Nat /\ Form(r, n)

\* `new' leaves a project in order.
LEMMA CreateIs ==
  ASSUME NEW q, q = CreateProject(Empty)
  PROVE  Orderly(q, 0) /\ q.state = "NO_PROJECT"
  <1>1. PICK e : e = [type |-> "project.created", state |-> "NO_PROJECT", revision |-> 1]
    OBVIOUS
  <1>2. e \in Stories /\ e.type = "project.created" /\ e.state = "NO_PROJECT" /\ e.revision = 1
    BY <1>1 DEF Stories, ProjectStates
  <1>3. PICK events : events = Append(<<>>, e)
    OBVIOUS
  <1>4. events \in Seq(Stories) /\ Len(events) = 1 /\ DOMAIN events = 1 .. 1
    BY <1>2, <1>3
  <1>5. q = [state |-> "NO_PROJECT", revision |-> 1, lastEvent |-> 1, raised |-> FALSE,
             events |-> events, runs |-> <<>>, artifacts |-> <<>>, evaluations |-> <<>>,
             approvals |-> <<>>, decisions |-> <<>>]
    <2>1. PICK m : m = [Empty EXCEPT !.state = "NO_PROJECT", !.revision = 1, !.lastEvent = 1]
      OBVIOUS
    <2>2. m = [state |-> "NO_PROJECT", revision |-> 1, lastEvent |-> 1, raised |-> FALSE,
               events |-> <<>>, runs |-> <<>>, artifacts |-> <<>>, evaluations |-> <<>>,
               approvals |-> <<>>, decisions |-> <<>>]
      BY <2>1 DEF Empty
    <2>3. q = [m EXCEPT !.events = Append(m.events, e)]
      BY <1>1, <2>1 DEF CreateProject, Emit
    <2> QED
      BY <1>3, <2>2, <2>3
  <1>6. /\ q.state = "NO_PROJECT" /\ q.revision = 1 /\ q.lastEvent = 1 /\ q.raised = FALSE
        /\ q.events = events /\ q.runs = <<>> /\ q.artifacts = <<>> /\ q.evaluations = <<>>
        /\ q.approvals = <<>> /\ q.decisions = <<>>
    BY <1>5
  <1>7. q \in Projects
    BY <1>4, <1>5 DEF Projects, ProjectStates
  <1>8. Told(q)
    <2>1. ReplayProjectEvents(events) = ReplayEvent(NothingReplayed, e)
      <3>1. <<>> \in Seq(Stories)
        OBVIOUS
      <3> QED
        BY <1>2, <1>3, <3>1, ReplayOfNothing, ReplayOfOneMore
    <2>9. PICK s : s = NothingReplayed
      OBVIOUS
    <2>2. s = NothingReplayed /\ s.raised = FALSE /\ s.revision = 0
      BY <2>9 DEF NothingReplayed
    <2>3. ~(\/ s.raised
            \/ e.type = "project.created" <=> s.revision # 0
            \/ e.type = "transition.applied" /\ e.from # s.state)
      <3>1. e.type # "transition.applied"
        BY <1>2
      <3> QED
        BY <1>2, <2>2, <3>1, Zenon
    <2>4. ReplayEvent(s, e) =
            CASE e.type = "project.created" -> [s EXCEPT !.state = e.state, !.revision = e.revision]
              [] e.type = "transition.applied" -> [s EXCEPT !.state = e.to, !.revision = e.revision]
              [] OTHER -> s
      BY <2>3, Zenon DEF ReplayEvent
    <2>5. ReplayEvent(s, e) = [s EXCEPT !.state = e.state, !.revision = e.revision]
      BY <1>2, <2>4
    <2>6. ReplayEvent(s, e) = [state |-> "NO_PROJECT", revision |-> 1, raised |-> FALSE]
      BY <1>2, <2>2, <2>5 DEF NothingReplayed
    <2>7. ReplayProjectEvents(q.events) = [state |-> q.state, revision |-> q.revision, raised |-> FALSE]
      BY <1>6, <2>1, <2>2, <2>6
    <2> QED
      BY <1>4, <1>6, <2>7 DEF Told
  <1>9. Form(q, 0)
    BY <1>6 DEF Form, NoRuns, Records
  <1> QED
    BY <1>6, <1>7, <1>8, <1>9 DEF Orderly

\* A brief, once the Setup run is running.
LEMMA BriefProduced ==
  ASSUME NEW r \in Projects, r.raised = FALSE, Told(r), NEW n \in Nat,
         r.state = "FOUNDER_SETUP", OneRun(r, "running"), Records(r, n, n, {}), Len(r.decisions) = 0,
         NEW q, q = Produce(r, LastRun(r, {"queued", "running"}), "founder_brief")
  PROVE  Orderly(q, n + 1) /\ q.state = "FOUNDER_SETUP"
  <1>1. LastRun(r, {"queued", "running"}) = 1 /\ 1 \in DOMAIN r.runs /\ r.runs[1].status = "running"
    BY OneRunLast DEF OneRun, RunOf
  <1>2. q = Produce(r, 1, "founder_brief")
    BY <1>1
  <1>3. /\ q \in Projects /\ q.decisions = r.decisions /\ q.raised = r.raised
        /\ SameState(q, r) /\ SameRuns(q, r)
        /\ q.artifacts = Append(r.artifacts, ArtifactOf("founder_brief", 0))
        /\ q.evaluations = Append(r.evaluations, EvaluationOf(Len(r.artifacts) + 1))
        /\ q.approvals = Append(r.approvals, ApprovalOf(Len(r.artifacts) + 1, "pending"))
    BY <1>1, <1>2, ProduceIs
  <1>4. Records(q, n + 1, n + 1, {})
    <2>1. {} \in SUBSET (1 .. n)
      OBVIOUS
    <2>2. PICK type \in {"founder_brief", "opportunity_report"} : type = "founder_brief"
      OBVIOUS
    <2>3. Records(q, IF type = "founder_brief" THEN n + 1 ELSE n, n + 1, {})
      BY <1>3, <2>1, <2>2, RecordsProduced
    <2> QED
      BY <2>2, <2>3
  <1>5. OneRun(q, "running")
    BY <1>3, Zenon DEF SameRuns, OneRun
  <1>6. q.state = "FOUNDER_SETUP" /\ Told(q) /\ Len(q.decisions) = 0 /\ q.raised = FALSE
    BY <1>3 DEF SameState
  <1>7. n + 1 \in Nat /\ n + 1 > 0
    OBVIOUS
  <1>8. Form(q, n + 1)
    BY <1>4, <1>5, <1>6, <1>7 DEF Form
  <1> QED
    BY <1>3, <1>6, <1>7, <1>8 DEF Orderly

\* The first brief opens the Setup run and moves the project.
LEMMA FirstBriefIs ==
  ASSUME NEW r, Orderly(r, 0), r.state = "NO_PROJECT", NEW q, q = FounderBrief(r)
  PROVE  Orderly(q, 1) /\ q.state = "FOUNDER_SETUP"
  <1>1. /\ r \in Projects /\ r.raised = FALSE /\ Told(r)
        /\ NoRuns(r) /\ Records(r, 0, 0, {}) /\ Len(r.decisions) = 0
    BY DEF Orderly, Form
  <1>2. LastRun(r, {"queued", "running"}) = 0
    BY <1>1, NoRunsLast
  <1>3. PICK queued : queued = CreateRun(r, Setup, r.state)
    OBVIOUS
  <1>4. /\ queued \in Projects /\ queued.decisions = r.decisions /\ queued.raised = r.raised
        /\ SameState(queued, r) /\ SameRecords(queued, r)
        /\ Len(queued.runs) = Len(r.runs) + 1
        /\ queued.runs[Len(r.runs) + 1] = RunOf(Setup, "queued")
    BY <1>1, <1>3, CreateRunIs
  <1>5. OneRun(queued, "queued")
    BY <1>1, <1>4 DEF OneRun, NoRuns
  <1>6. PICK moved : moved = Transition(queued, "NO_PROJECT", "FOUNDER_SETUP", Len(queued.runs), NoEvidence)
    OBVIOUS
  <1>7. Guards(queued, "NO_PROJECT", "FOUNDER_SETUP", Len(queued.runs), NoEvidence)
    <2>1. PICK requirement : requirement = Route("NO_PROJECT", "FOUNDER_SETUP")
      OBVIOUS
    <2>2. requirement = [types |-> {}, statuses |-> {"queued", "running"},
                         evaluation |-> FALSE, decision |-> FALSE, approval |-> FALSE]
      BY <2>1 DEF Route
    <2>3. /\ requirement.types = {} /\ requirement.statuses = {"queued", "running"}
          /\ ~requirement.evaluation /\ ~requirement.decision /\ ~requirement.approval
      BY <2>2, Zenon
    <2>4. queued.state = "NO_PROJECT" /\ queued.runs[Len(queued.runs)].status \in requirement.statuses
      BY <1>4, <1>5, <2>3 DEF SameState, OneRun, RunOf
    <2>5. requirement.types \subseteq
            {queued.artifacts[i].type : i \in {j \in NoEvidence.artifacts : queued.artifacts[j].status = "approved"}}
      BY <2>3
    <2> QED
      BY <2>1, <2>3, <2>4, <2>5, Zenon DEF Guards
  <1>8. /\ moved \in Projects /\ moved.decisions = queued.decisions
        /\ SameRuns(moved, queued) /\ SameRecords(moved, queued)
        /\ moved.state = "FOUNDER_SETUP" /\ moved.raised = queued.raised /\ Told(moved)
    <2>1. "NO_PROJECT" \in ProjectStates /\ "FOUNDER_SETUP" \in ProjectStates
      BY DEF ProjectStates
    <2>2. Told(queued) /\ queued.state = "NO_PROJECT"
      BY <1>1, <1>4 DEF SameState
    <2> QED
      BY <1>4, <1>6, <1>7, <2>1, <2>2, TransitionIs
  <1>9. OneRun(moved, "queued")
    BY <1>5, <1>8, Zenon DEF SameRuns, OneRun
  <1>10. LastRun(moved, {"queued", "running"}) = 1 /\ 1 \in DOMAIN moved.runs
    BY <1>8, <1>9, OneRunLast
  <1>11. PICK started : started = SetStatus(moved, 1, "running")
    OBVIOUS
  <1>12. Start(r) = started
    <2>1. moved.runs[1].status = "queued"
      BY <1>9 DEF OneRun, RunOf
    <2> QED
      BY <1>2, <1>3, <1>6, <1>10, <1>11, <2>1, Zenon DEF Start
  <1>13. /\ started \in Projects /\ started.decisions = moved.decisions /\ started.raised = moved.raised
         /\ SameState(started, moved) /\ SameRecords(started, moved)
         /\ Len(started.runs) = Len(moved.runs)
         /\ started.runs[1] = RunOf(moved.runs[1].workflow, "running")
    <2>1. moved.runs[1].status = "queued"
      BY <1>9 DEF OneRun, RunOf
    <2> QED
      BY <1>8, <1>10, <1>11, <2>1, SetStatusIs
  <1>14. OneRun(started, "running")
    BY <1>9, <1>13 DEF OneRun, RunOf
  <1>15. Records(started, 0, 0, {})
    BY <1>1, <1>4, <1>8, <1>13, RecordsSame
  <1>16. /\ started.state = "FOUNDER_SETUP" /\ Told(started) /\ started.raised = FALSE
         /\ Len(started.decisions) = 0
    BY <1>1, <1>4, <1>8, <1>13 DEF SameState
  <1>17. q = Produce(started, LastRun(started, {"queued", "running"}), "founder_brief")
    BY <1>12 DEF FounderBrief
  <1>18. 0 \in Nat /\ 0 + 1 = 1
    OBVIOUS
  <1>19. PICK n : n = 0
    OBVIOUS
  <1>20. Orderly(q, n + 1) /\ q.state = "FOUNDER_SETUP"
    BY <1>13, <1>14, <1>15, <1>16, <1>17, <1>18, <1>19, BriefProduced
  <1> QED
    BY <1>18, <1>19, <1>20

\* A later brief goes on with the run that is open.
LEMMA NextBriefIs ==
  ASSUME NEW r, NEW n, Orderly(r, n), r.state = "FOUNDER_SETUP", NEW q, q = FounderBrief(r)
  PROVE  Orderly(q, n + 1) /\ q.state = "FOUNDER_SETUP"
  <1>1. /\ r \in Projects /\ r.raised = FALSE /\ Told(r) /\ n \in Nat
        /\ OneRun(r, "running") /\ Records(r, n, n, {}) /\ Len(r.decisions) = 0
    BY DEF Orderly, Form
  <1>2. LastRun(r, {"queued", "running"}) = 1 /\ r.runs[1].status = "running"
    BY <1>1, OneRunLast DEF OneRun, RunOf
  <1>3. Start(r) = r
    <2>1. r.state # "NO_PROJECT" /\ r.runs[1].status # "queued" /\ 1 # 0
      BY <1>2
    <2> QED
      BY <1>2, <2>1, Zenon DEF Start
  <1>4. q = Produce(r, LastRun(r, {"queued", "running"}), "founder_brief")
    BY <1>3 DEF FounderBrief
  <1> QED
    BY <1>1, <1>4, BriefProduced

\* Approving ends Founder Setup with the newest brief, however many there are.
LEMMA ApproveBriefIs ==
  ASSUME NEW r, NEW n, Orderly(r, n), r.state = "FOUNDER_SETUP", NEW q, q = ApproveBrief(r)
  PROVE  Orderly(q, n) /\ q.state = "FOUNDER_BRIEF_COMPLETE"
  <1>1. /\ r \in Projects /\ r.raised = FALSE /\ Told(r) /\ n \in Nat /\ n > 0
        /\ OneRun(r, "running") /\ Records(r, n, n, {}) /\ Len(r.decisions) = 0
    BY DEF Orderly, Form
  <1>2. /\ DOMAIN r.artifacts = 1 .. n /\ DOMAIN r.approvals = 1 .. n
        /\ RecordAt(r, n, n, {}) /\ EvaluationsOf(r, n) = {n} /\ PendingApprovals(r) = 1 .. n
    <2>1. PICK none, m : none = {} /\ m = n
      OBVIOUS
    <2>2. r \in Projects /\ n \in Nat /\ m \in Nat /\ n <= m /\ Records(r, n, m, none)
      BY <1>1, <2>1
    <2>3. /\ DOMAIN r.artifacts = 1 .. m /\ DOMAIN r.approvals = 1 .. m
          /\ \A i \in 1 .. m : RecordAt(r, n, i, none)
          /\ \A i \in 1 .. m : EvaluationsOf(r, i) = {i}
          /\ PendingApprovals(r) = (1 .. m) \ none
      BY <2>2, RecordsAre
    <2>4. n \in 1 .. m /\ (1 .. m) \ none = 1 .. m
      BY <1>1, <2>1
    <2> QED
      BY <2>1, <2>3, <2>4
  <1>3. r.artifacts[n].type = "founder_brief" /\ r.approvals[n].artifact = n
    <2>1. r.artifacts[n] = ArtifactOf("founder_brief", 0) /\ r.approvals[n] = ApprovalOf(n, "pending")
      BY <1>1, <1>2 DEF RecordAt, TypeAt
    <2> QED
      BY <2>1 DEF ArtifactOf, ApprovalOf
  <1>4. LastRun(r, {"running"}) = 1 /\ 1 \in DOMAIN r.runs /\ r.runs[1] = RunOf(Setup, "running")
    BY <1>1, OneRunLast DEF OneRun
  <1>5. Newest(1 .. n) = n /\ Newest({n}) = n
    <2>1. /\ 1 .. n \in SUBSET Nat /\ n \in 1 .. n /\ \A j \in 1 .. n : j <= n
          /\ {n} \in SUBSET Nat /\ n \in {n} /\ \A j \in {n} : j <= n
      BY <1>1
    <2> QED
      BY <2>1, NewestIs
  <1>6. PendingBrief(r) = n
    <2>1. n # 0 /\ 1 # 0 /\ EvaluationsOf(r, n) # {}
      BY <1>1, <1>2
    <2>2. Newest(PendingApprovals(r)) = n
      BY <1>2, <1>5
    <2> QED
      BY <1>3, <1>4, <2>1, <2>2, Zenon DEF PendingBrief
  <1>7. PICK approved : approved = ApproveArtifact(ApproveApproval(r, n), n, n)
    OBVIOUS
  <1>8. /\ approved \in Projects /\ approved.decisions = r.decisions /\ approved.raised = r.raised
        /\ SameState(approved, r) /\ SameRuns(approved, r) /\ Records(approved, n, n, {n})
    <2>1. n <= n /\ n \in 1 .. n /\ n \notin {} /\ {} \cup {n} = {n}
      BY <1>1
    <2>2. PICK none, m : none = {} /\ m = n
      OBVIOUS
    <2>5. m \in Nat /\ n <= m /\ Records(r, n, m, none) /\ n \in 1 .. m /\ n \notin none
      BY <1>1, <2>1, <2>2
    <2>3. Records(approved, n, m, none \cup {n})
      BY <1>1, <1>7, <2>5, RecordsApproved
    <2>6. /\ r \in Projects /\ n \in Nat /\ m \in Nat /\ n <= m /\ Records(r, n, m, none)
          /\ n \in 1 .. m /\ n \notin none
      BY <1>1, <2>5
    <2>7. PICK i : i = n
      OBVIOUS
    <2>8. i \in 1 .. m /\ i \notin none /\ approved = ApproveArtifact(ApproveApproval(r, i), i, i)
      BY <1>7, <2>6, <2>7
    <2>4. /\ approved \in Projects /\ approved.decisions = r.decisions /\ approved.raised = r.raised
          /\ SameState(approved, r) /\ SameRuns(approved, r)
      BY <2>6, <2>8, ApprovedKeeps
    <2> QED
      BY <2>1, <2>2, <2>3, <2>4
  <1>9. PICK ended : ended = SetStatus(approved, 1, "succeeded")
    OBVIOUS
  <1>10. 1 \in DOMAIN approved.runs /\ approved.runs[1] = RunOf(Setup, "running") /\ Len(approved.runs) = 1
    BY <1>1, <1>4, <1>8 DEF SameRuns, OneRun
  <1>11. /\ ended \in Projects /\ ended.decisions = approved.decisions /\ ended.raised = approved.raised
         /\ SameState(ended, approved) /\ SameRecords(ended, approved)
         /\ Len(ended.runs) = Len(approved.runs)
         /\ ended.runs[1] = RunOf(approved.runs[1].workflow, "succeeded")
    <2>1. approved.runs[1].status = "running"
      BY <1>10 DEF RunOf
    <2> QED
      BY <1>8, <1>9, <1>10, <2>1, SetStatusIs
  <1>12. OneRun(ended, "succeeded")
    BY <1>10, <1>11 DEF OneRun, RunOf
  <1>13. Records(ended, n, n, {n})
    BY <1>8, <1>11, RecordsSame
  <1>14. PICK evidence : evidence = [NoEvidence EXCEPT !.artifacts = {n}, !.approvals = {n}, !.evaluations = {n}]
    OBVIOUS
  <1>15. evidence.artifacts = {n} /\ evidence.approvals = {n} /\ evidence.evaluations = {n}
    BY <1>14 DEF NoEvidence
  <1>16. q = Transition(ended, "FOUNDER_SETUP", "FOUNDER_BRIEF_COMPLETE", 1, evidence)
    <2>1. n # 0 /\ Newest(EvaluationsOf(r, n)) = n
      BY <1>1, <1>2, <1>5
    <2> QED
      BY <1>3, <1>4, <1>6, <1>7, <1>9, <1>14, <2>1, Zenon DEF ApproveBrief
  <1>17. Guards(ended, "FOUNDER_SETUP", "FOUNDER_BRIEF_COMPLETE", 1, evidence)
    <2>1. PICK requirement : requirement = Route("FOUNDER_SETUP", "FOUNDER_BRIEF_COMPLETE")
      OBVIOUS
    <2>2. requirement = [types |-> {"founder_brief"}, statuses |-> {"succeeded"},
                         evaluation |-> TRUE, decision |-> FALSE, approval |-> TRUE]
      BY <2>1 DEF Route
    <2>3. requirement.types = {"founder_brief"} /\ requirement.statuses = {"succeeded"} /\ ~requirement.decision
      BY <2>2, Zenon
    <2>4. ended.state = "FOUNDER_SETUP" /\ ended.runs[1].status \in requirement.statuses
      BY <1>8, <1>11, <1>12, <2>3 DEF SameState, OneRun, RunOf
    <2>5. /\ ended.artifacts[n] = ArtifactOf("founder_brief", n) /\ ended.evaluations[n] = EvaluationOf(n)
          /\ ended.approvals[n] = ApprovalOf(n, "approved")
      <3>1. n \in 1 .. n /\ TypeAt(n, n) = "founder_brief" /\ n \in {n}
        BY <1>1 DEF TypeAt
      <3> QED
        BY <1>13, <3>1, Zenon DEF Records, RecordAt
    <2>6. /\ ended.artifacts[n].type = "founder_brief" /\ ended.artifacts[n].status = "approved"
          /\ ended.evaluations[n].outcome = "pass" /\ ended.approvals[n].status = "approved"
      BY <1>1, <2>5 DEF ArtifactOf, EvaluationOf, ApprovalOf
    <2>7. requirement.types \subseteq
            {ended.artifacts[i].type : i \in {j \in evidence.artifacts : ended.artifacts[j].status = "approved"}}
      BY <1>15, <2>3, <2>6
    <2>8. evidence.evaluations # {} /\ \A e \in evidence.evaluations : ended.evaluations[e].outcome = "pass"
      BY <1>15, <2>6
    <2>9. evidence.approvals # {} /\ \A a \in evidence.approvals : ended.approvals[a].status = "approved"
      BY <1>15, <2>6
    <2> QED
      BY <2>1, <2>3, <2>4, <2>7, <2>8, <2>9, Zenon DEF Guards
  <1>18. /\ q \in Projects /\ q.decisions = ended.decisions /\ SameRuns(q, ended) /\ SameRecords(q, ended)
         /\ q.state = "FOUNDER_BRIEF_COMPLETE" /\ q.raised = ended.raised /\ Told(q)
    <2>1. "FOUNDER_SETUP" \in ProjectStates /\ "FOUNDER_BRIEF_COMPLETE" \in ProjectStates
      BY DEF ProjectStates
    <2>2. Told(ended) /\ ended.state = "FOUNDER_SETUP"
      BY <1>1, <1>8, <1>11 DEF SameState
    <2> QED
      BY <1>11, <1>16, <1>17, <2>1, <2>2, TransitionIs
  <1>19. OneRun(q, "succeeded") /\ Records(q, n, n, {n})
    <2>1. OneRun(q, "succeeded")
      BY <1>12, <1>18, Zenon DEF SameRuns, OneRun
    <2> QED
      BY <1>13, <1>18, <2>1, RecordsSame
  <1>20. q.raised = FALSE /\ Len(q.decisions) = 0
    BY <1>1, <1>8, <1>11, <1>18
  <1>21. Form(q, n)
    BY <1>1, <1>18, <1>19, <1>20 DEF Form
  <1> QED
    BY <1>1, <1>18, <1>20, <1>21 DEF Orderly

\* Discovery starts from the one approved brief and leaves its report pending.
LEMMA DiscoverIs ==
  ASSUME NEW r, NEW n, Orderly(r, n), r.state = "FOUNDER_BRIEF_COMPLETE", NEW q, q = Discover(r)
  PROVE  Orderly(q, n) /\ q.state = "DISCOVERY_RUNNING"
  <1>1. /\ r \in Projects /\ r.raised = FALSE /\ Told(r) /\ n \in Nat /\ n > 0
        /\ OneRun(r, "succeeded") /\ Records(r, n, n, {n}) /\ Len(r.decisions) = 0
    BY DEF Orderly, Form
  <1>2. DOMAIN r.artifacts = 1 .. n /\ \A i \in 1 .. n : RecordAt(r, n, i, {n})
    <2>1. n <= n
      BY <1>1
    <2> QED
      BY <1>1, <2>1, RecordsAre
  <1>3. \A i \in 1 .. n : /\ r.artifacts[i].type = "founder_brief"
                          /\ r.artifacts[i].status = "approved" <=> i = n
    <2> SUFFICES ASSUME NEW i \in 1 .. n
                 PROVE  /\ r.artifacts[i].type = "founder_brief"
                        /\ r.artifacts[i].status = "approved" <=> i = n
      OBVIOUS
    <2>1. r.artifacts[i] = ArtifactOf(TypeAt(n, i), IF i \in {n} THEN i ELSE 0)
      BY <1>2, Zenon DEF RecordAt
    <2>2. TypeAt(n, i) = "founder_brief"
      BY <1>1 DEF TypeAt
    <2> QED
      BY <1>1, <2>1, <2>2 DEF ArtifactOf
  <1>4. r.artifacts[n].approval = n
    <2>1. n \in 1 .. n
      BY <1>1
    <2>2. r.artifacts[n] = ArtifactOf(TypeAt(n, n), n)
      BY <1>2, <2>1, Zenon DEF RecordAt
    <2> QED
      BY <2>2 DEF ArtifactOf
  <1>5. ApprovedBrief(r) = n
    <2>1. PICK briefs : briefs = {i \in DOMAIN r.artifacts : /\ r.artifacts[i].type = "founder_brief"
                                                             /\ r.artifacts[i].status = "approved"}
      OBVIOUS
    <2>2. briefs = {n}
      BY <1>1, <1>2, <1>3, <2>1
    <2>3. {n} \in SUBSET Nat /\ n \in {n} /\ \A j \in {n} : j <= n
      BY <1>1
    <2>4. Newest({n}) = n
      BY <2>3, NewestIs
    <2> QED
      BY <2>1, <2>2, <2>4, Zenon DEF ApprovedBrief
  <1>6. PICK opened : opened = CreateRun(r, Discovery, "FOUNDER_BRIEF_COMPLETE")
    OBVIOUS
  <1>7. Len(r.runs) = 1 /\ r.runs[1] = RunOf(Setup, "succeeded")
    BY <1>1 DEF OneRun
  <1>8. /\ opened \in Projects /\ opened.decisions = r.decisions /\ opened.raised = r.raised
        /\ SameState(opened, r) /\ SameRecords(opened, r)
        /\ Len(opened.runs) = 2 /\ opened.runs[1] = RunOf(Setup, "succeeded")
        /\ opened.runs[2] = RunOf(Discovery, "queued") /\ DOMAIN opened.runs = {1, 2}
    <2>1. /\ opened \in Projects /\ opened.decisions = r.decisions /\ opened.raised = r.raised
          /\ SameState(opened, r) /\ SameRecords(opened, r)
          /\ Len(opened.runs) = Len(r.runs) + 1
          /\ \A w \in 1 .. Len(r.runs) : opened.runs[w] = r.runs[w]
          /\ opened.runs[Len(r.runs) + 1] = RunOf(Discovery, "queued")
      BY <1>1, <1>6, CreateRunIs
    <2>2. opened.runs \in Seq(RunRecord) /\ Len(opened.runs) = 2
      BY <1>7, <2>1 DEF Projects
    <2>3. DOMAIN opened.runs = {1, 2}
      BY <2>2
    <2>4. opened.runs[1] = RunOf(Setup, "succeeded") /\ opened.runs[2] = RunOf(Discovery, "queued")
      BY <1>7, <2>1
    <2> QED
      BY <2>1, <2>2, <2>3, <2>4
  <1>9. PICK running : running = SetStatus(opened, 2, "running")
    OBVIOUS
  <1>10. /\ running \in Projects /\ running.decisions = opened.decisions /\ running.raised = opened.raised
         /\ SameState(running, opened) /\ SameRecords(running, opened)
         /\ Len(running.runs) = Len(opened.runs)
         /\ \A v \in DOMAIN opened.runs : v # 2 => running.runs[v] = opened.runs[v]
         /\ running.runs[2] = RunOf(opened.runs[2].workflow, "running")
    <2>1. opened.runs[2].status = "queued" /\ 2 \in DOMAIN opened.runs
      BY <1>8 DEF RunOf
    <2> QED
      BY <1>8, <1>9, <2>1, SetStatusIs
  <1>11. TwoRuns(running, "running")
    <2>1. running.runs[1] = RunOf(Setup, "succeeded")
      BY <1>8, <1>10
    <2>2. opened.runs[2].workflow = Discovery
      BY <1>8 DEF RunOf
    <2> QED
      BY <1>8, <1>10, <2>1, <2>2 DEF TwoRuns
  <1>12. Records(running, n, n, {n})
    BY <1>1, <1>8, <1>10, RecordsSame
  <1>13. PICK evidence : evidence = [NoEvidence EXCEPT !.approvals = {n}]
    OBVIOUS
  <1>14. evidence.approvals = {n}
    BY <1>13 DEF NoEvidence
  <1>15. PICK moved : moved = Transition(running, "FOUNDER_BRIEF_COMPLETE", "DISCOVERY_RUNNING", 2, evidence)
    OBVIOUS
  <1>16. Guards(running, "FOUNDER_BRIEF_COMPLETE", "DISCOVERY_RUNNING", 2, evidence)
    <2>1. PICK requirement : requirement = Route("FOUNDER_BRIEF_COMPLETE", "DISCOVERY_RUNNING")
      OBVIOUS
    <2>2. requirement = [types |-> {}, statuses |-> {"running"},
                         evaluation |-> FALSE, decision |-> FALSE, approval |-> TRUE]
      BY <2>1 DEF Route
    <2>3. /\ requirement.types = {} /\ requirement.statuses = {"running"}
          /\ ~requirement.evaluation /\ ~requirement.decision
      BY <2>2, Zenon
    <2>4. running.state = "FOUNDER_BRIEF_COMPLETE" /\ running.runs[2].status \in requirement.statuses
      BY <1>8, <1>10, <1>11, <2>3 DEF SameState, TwoRuns, RunOf
    <2>5. running.approvals[n] = ApprovalOf(n, "approved")
      <3>1. n \in 1 .. n /\ n \in {n}
        BY <1>1
      <3> QED
        BY <1>12, <3>1, Zenon DEF Records, RecordAt
    <2>6. requirement.types \subseteq
            {running.artifacts[i].type : i \in {j \in evidence.artifacts : running.artifacts[j].status = "approved"}}
      BY <2>3
    <2>7. evidence.approvals # {} /\ \A a \in evidence.approvals : running.approvals[a].status = "approved"
      BY <1>14, <2>5 DEF ApprovalOf
    <2> QED
      BY <2>1, <2>3, <2>4, <2>6, <2>7, Zenon DEF Guards
  <1>17. /\ moved \in Projects /\ moved.decisions = running.decisions
         /\ SameRuns(moved, running) /\ SameRecords(moved, running)
         /\ moved.state = "DISCOVERY_RUNNING" /\ moved.raised = running.raised /\ Told(moved)
    <2>1. "FOUNDER_BRIEF_COMPLETE" \in ProjectStates /\ "DISCOVERY_RUNNING" \in ProjectStates
      BY DEF ProjectStates
    <2>2. Told(running) /\ running.state = "FOUNDER_BRIEF_COMPLETE"
      BY <1>1, <1>8, <1>10 DEF SameState
    <2> QED
      BY <1>10, <1>15, <1>16, <2>1, <2>2, TransitionIs
  <1>18. TwoRuns(moved, "running") /\ Records(moved, n, n, {n})
    <2>1. TwoRuns(moved, "running")
      BY <1>11, <1>17, Zenon DEF SameRuns, TwoRuns
    <2> QED
      BY <1>12, <1>17, <2>1, RecordsSame
  <1>19. q = Produce(moved, 2, "opportunity_report")
    <2>1. Len(r.runs) + 1 = 2 /\ Len(running.runs) = 2 /\ Len(moved.runs) = 2
      BY <1>7, <1>8, <1>10, <1>18 DEF TwoRuns
    <2>2. n # 0
      BY <1>1
    <2> QED
      BY <1>4, <1>5, <1>6, <1>9, <1>13, <1>15, <2>1, <2>2, Zenon DEF Discover
  <1>20. /\ q \in Projects /\ q.decisions = moved.decisions /\ q.raised = moved.raised
         /\ SameState(q, moved) /\ SameRuns(q, moved)
         /\ q.artifacts = Append(moved.artifacts, ArtifactOf("opportunity_report", 0))
         /\ q.evaluations = Append(moved.evaluations, EvaluationOf(Len(moved.artifacts) + 1))
         /\ q.approvals = Append(moved.approvals, ApprovalOf(Len(moved.artifacts) + 1, "pending"))
    <2>1. 2 \in DOMAIN moved.runs /\ moved.runs[2].status = "running"
      BY <1>17, <1>18, TwoRunsLast DEF TwoRuns, RunOf
    <2> QED
      BY <1>17, <1>19, <2>1, ProduceIs
  <1>21. Records(q, n, n + 1, {n})
    <2>1. {n} \in SUBSET (1 .. n)
      BY <1>1
    <2>2. PICK type \in {"founder_brief", "opportunity_report"} : type = "opportunity_report"
      OBVIOUS
    <2>3. Records(q, IF type = "founder_brief" THEN n + 1 ELSE n, n + 1, {n})
      BY <1>1, <1>17, <1>18, <1>20, <2>1, <2>2, RecordsProduced
    <2> QED
      BY <2>2, <2>3
  <1>22. TwoRuns(q, "running")
    BY <1>18, <1>20, Zenon DEF SameRuns, TwoRuns
  <1>23. q.state = "DISCOVERY_RUNNING" /\ Told(q) /\ q.raised = FALSE /\ Len(q.decisions) = 0
    BY <1>1, <1>8, <1>10, <1>17, <1>20 DEF SameState
  <1>24. Form(q, n)
    BY <1>1, <1>21, <1>22, <1>23 DEF Form
  <1> QED
    BY <1>1, <1>20, <1>23, <1>24 DEF Orderly

\* Approving the opportunity ends Discovery with the one pending report; the
\* briefs that were passed over are pending too and are not chosen.
LEMMA ApproveOpportunityIs ==
  ASSUME NEW r, NEW n, Orderly(r, n), r.state = "DISCOVERY_RUNNING", NEW q, q = ApproveOpportunity(r)
  PROVE  Orderly(q, n) /\ q.state = "OPPORTUNITY_SELECTED"
  <1>1. /\ r \in Projects /\ r.raised = FALSE /\ Told(r) /\ n \in Nat /\ n > 0
        /\ TwoRuns(r, "running") /\ Records(r, n, n + 1, {n}) /\ Len(r.decisions) = 0
    BY DEF Orderly, Form
  <1>2. PICK m, first : m = n + 1 /\ first = {n}
    OBVIOUS
  <1>3. /\ m \in Nat /\ n <= m /\ Records(r, n, m, first) /\ m \in 1 .. m /\ m \notin first /\ m # 0
        /\ first \cup {m} = {n, n + 1} /\ ~(m <= n)
    BY <1>1, <1>2
  <1>4. /\ DOMAIN r.artifacts = 1 .. m /\ DOMAIN r.approvals = 1 .. m
        /\ \A i \in 1 .. m : RecordAt(r, n, i, first)
        /\ \A i \in 1 .. m : EvaluationsOf(r, i) = {i}
        /\ PendingApprovals(r) = (1 .. m) \ first
    <2>1. m \in Nat /\ n <= m /\ Records(r, n, m, first) /\ r \in Projects /\ n \in Nat
      BY <1>1, <1>3
    <2> QED
      BY <2>1, RecordsAre
  <1>5. r.artifacts[m] = ArtifactOf("opportunity_report", 0) /\ r.approvals[m] = ApprovalOf(m, "pending")
    <2>1. TypeAt(n, m) = "opportunity_report"
      BY <1>3 DEF TypeAt
    <2> QED
      BY <1>3, <1>4, <2>1, Zenon DEF RecordAt
  <1>6. r.artifacts[m].type = "opportunity_report" /\ r.approvals[m].artifact = m
    BY <1>5 DEF ArtifactOf, ApprovalOf
  <1>7. \A i \in 1 .. m : r.approvals[i].artifact = i /\ (i # m => r.artifacts[i].type = "founder_brief")
    <2> SUFFICES ASSUME NEW i \in 1 .. m
                 PROVE  r.approvals[i].artifact = i /\ (i # m => r.artifacts[i].type = "founder_brief")
      OBVIOUS
    <2>1. /\ r.approvals[i] = ApprovalOf(i, IF i \in first THEN "approved" ELSE "pending")
          /\ r.artifacts[i] = ArtifactOf(TypeAt(n, i), IF i \in first THEN i ELSE 0)
      BY <1>4, Zenon DEF RecordAt
    <2>2. i # m => TypeAt(n, i) = "founder_brief"
      BY <1>1, <1>2 DEF TypeAt
    <2> QED
      BY <2>1, <2>2 DEF ApprovalOf, ArtifactOf
  <1>8. Newest({m}) = m
    <2>1. {m} \in SUBSET Nat /\ m \in {m} /\ \A j \in {m} : j <= m
      BY <1>3
    <2> QED
      BY <2>1, NewestIs
  <1>9. PendingReport(r) = m
    <2>1. PICK reports : reports = {a \in PendingApprovals(r) :
                                      /\ r.artifacts[r.approvals[a].artifact].type = "opportunity_report"
                                      /\ EvaluationsOf(r, r.approvals[a].artifact) # {}}
      OBVIOUS
    <2>2. \A a \in reports : a = m
      <3> SUFFICES ASSUME NEW a \in reports, a # m PROVE FALSE
        OBVIOUS
      <3>1. a \in 1 .. m /\ r.artifacts[r.approvals[a].artifact].type = "opportunity_report"
        BY <1>4, <2>1
      <3>2. r.approvals[a].artifact = a /\ r.artifacts[a].type = "founder_brief"
        BY <1>7, <3>1
      <3> QED
        BY <3>1, <3>2
    <2>3. m \in reports
      <3>1. m \in PendingApprovals(r)
        BY <1>3, <1>4
      <3>2. EvaluationsOf(r, m) # {}
        BY <1>3, <1>4
      <3> QED
        BY <1>6, <2>1, <3>1, <3>2
    <2>4. reports = {m}
      BY <2>2, <2>3
    <2> QED
      BY <1>8, <2>1, <2>4, Zenon DEF PendingReport
  <1>10. DiscoveryRun(r) = 2
    <2>1. PICK places : places = {w \in DOMAIN r.runs : r.runs[w].status = "running" /\ r.runs[w].workflow = Discovery}
      OBVIOUS
    <2>2. DOMAIN r.runs = {1, 2}
      BY <1>1, TwoRunsAre
    <2>3. /\ r.runs[1].status = "succeeded" /\ r.runs[2].status = "running"
          /\ r.runs[2].workflow = Discovery
      BY <1>1 DEF TwoRuns, RunOf
    <2>4. places = {2}
      BY <2>1, <2>2, <2>3
    <2>5. {2} \in SUBSET Nat /\ 2 \in {2} /\ \A j \in {2} : j <= 2
      OBVIOUS
    <2>6. Newest({2}) = 2
      BY <2>5, NewestIs
    <2> QED
      BY <2>1, <2>4, <2>6, Zenon DEF DiscoveryRun
  <1>11. PICK approved : approved = ApproveArtifact(ApproveApproval(r, m), m, m)
    OBVIOUS
  <1>12. /\ approved \in Projects /\ approved.decisions = r.decisions /\ approved.raised = r.raised
         /\ SameState(approved, r) /\ SameRuns(approved, r) /\ Records(approved, n, m, first \cup {m})
    BY <1>1, <1>3, <1>11, RecordsApproved
  <1>13. PICK decided : decided = Decide(approved, m, m)
    OBVIOUS
  <1>14. /\ decided \in Projects /\ decided.raised = approved.raised
         /\ SameState(decided, approved) /\ SameRuns(decided, approved) /\ SameRecords(decided, approved)
         /\ Len(decided.decisions) = Len(approved.decisions) + 1
    <2>1. PICK i, a : i = m /\ a = m
      OBVIOUS
    <2>2. i \in Nat /\ a \in Nat /\ decided = Decide(approved, i, a)
      BY <1>3, <1>13, <2>1
    <2> QED
      BY <1>12, <2>2, DecideIs
  <1>15. PICK ended : ended = SetStatus(decided, 2, "succeeded")
    OBVIOUS
  <1>16. /\ DOMAIN decided.runs = {1, 2} /\ Len(decided.runs) = 2
         /\ decided.runs[1] = RunOf(Setup, "succeeded") /\ decided.runs[2] = RunOf(Discovery, "running")
    <2>1. decided.runs = r.runs
      BY <1>12, <1>14 DEF SameRuns
    <2>2. DOMAIN r.runs = {1, 2}
      BY <1>1, TwoRunsAre
    <2> QED
      BY <1>1, <2>1, <2>2 DEF TwoRuns
  <1>17. /\ ended \in Projects /\ ended.decisions = decided.decisions /\ ended.raised = decided.raised
         /\ SameState(ended, decided) /\ SameRecords(ended, decided)
         /\ Len(ended.runs) = Len(decided.runs)
         /\ \A v \in DOMAIN decided.runs : v # 2 => ended.runs[v] = decided.runs[v]
         /\ ended.runs[2] = RunOf(decided.runs[2].workflow, "succeeded")
    <2>1. decided.runs[2].status = "running" /\ 2 \in DOMAIN decided.runs
      BY <1>16 DEF RunOf
    <2> QED
      BY <1>14, <1>15, <2>1, SetStatusIs
  <1>18. TwoRuns(ended, "succeeded")
    <2>1. ended.runs[1] = RunOf(Setup, "succeeded")
      BY <1>16, <1>17
    <2>2. decided.runs[2].workflow = Discovery
      BY <1>16 DEF RunOf
    <2> QED
      BY <1>16, <1>17, <2>1, <2>2 DEF TwoRuns
  <1>19. Records(ended, n, m, first \cup {m})
    <2>1. Records(decided, n, m, first \cup {m})
      BY <1>12, <1>14, RecordsSame
    <2> QED
      BY <1>17, <2>1, RecordsSame
  <1>20. PICK evidence : evidence = [artifacts |-> {m}, approvals |-> {m},
                                     decisions |-> {Len(decided.decisions)}, evaluations |-> {m}]
    OBVIOUS
  <1>21. q = Transition(ended, "DISCOVERY_RUNNING", "OPPORTUNITY_SELECTED", 2, evidence)
    <2>1. Newest(EvaluationsOf(r, m)) = m
      BY <1>3, <1>4, <1>8
    <2>2. 2 # 0 /\ m # 0
      BY <1>3
    <2> QED
      BY <1>6, <1>9, <1>10, <1>11, <1>13, <1>15, <1>20, <2>1, <2>2, Zenon DEF ApproveOpportunity
  <1>22. Guards(ended, "DISCOVERY_RUNNING", "OPPORTUNITY_SELECTED", 2, evidence)
    <2>1. PICK requirement : requirement = Route("DISCOVERY_RUNNING", "OPPORTUNITY_SELECTED")
      OBVIOUS
    <2>2. requirement = [types |-> {"opportunity_report"}, statuses |-> {"succeeded"},
                         evaluation |-> FALSE, decision |-> TRUE, approval |-> TRUE]
      BY <2>1 DEF Route
    <2>3. requirement.types = {"opportunity_report"} /\ requirement.statuses = {"succeeded"} /\ ~requirement.evaluation
      BY <2>2, Zenon
    <2>4. ended.state = "DISCOVERY_RUNNING" /\ ended.runs[2].status \in requirement.statuses
      BY <1>12, <1>14, <1>17, <1>18, <2>3 DEF SameState, TwoRuns, RunOf
    <2>5. /\ ended.artifacts[m] = ArtifactOf("opportunity_report", m)
          /\ ended.approvals[m] = ApprovalOf(m, "approved")
      <3>1. TypeAt(n, m) = "opportunity_report" /\ m \in first \cup {m}
        BY <1>3 DEF TypeAt
      <3> QED
        BY <1>3, <1>19, <3>1, Zenon DEF Records, RecordAt
    <2>6. /\ ended.artifacts[m].type = "opportunity_report" /\ ended.artifacts[m].status = "approved"
          /\ ended.approvals[m].status = "approved"
      BY <1>3, <2>5 DEF ArtifactOf, ApprovalOf
    <2>7. evidence.artifacts = {m} /\ evidence.approvals = {m} /\ evidence.decisions = {Len(decided.decisions)}
      BY <1>20
    <2>8. requirement.types \subseteq
            {ended.artifacts[i].type : i \in {j \in evidence.artifacts : ended.artifacts[j].status = "approved"}}
      BY <2>3, <2>6, <2>7
    <2>9. evidence.approvals # {} /\ \A a \in evidence.approvals : ended.approvals[a].status = "approved"
      BY <2>6, <2>7
    <2>10. evidence.decisions # {}
      BY <2>7
    <2> QED
      BY <2>1, <2>3, <2>4, <2>8, <2>9, <2>10, Zenon DEF Guards
  <1>23. /\ q \in Projects /\ q.decisions = ended.decisions /\ SameRuns(q, ended) /\ SameRecords(q, ended)
         /\ q.state = "OPPORTUNITY_SELECTED" /\ q.raised = ended.raised /\ Told(q)
    <2>1. "DISCOVERY_RUNNING" \in ProjectStates /\ "OPPORTUNITY_SELECTED" \in ProjectStates
      BY DEF ProjectStates
    <2>2. Told(ended) /\ ended.state = "DISCOVERY_RUNNING"
      BY <1>1, <1>12, <1>14, <1>17 DEF SameState
    <2> QED
      BY <1>17, <1>21, <1>22, <2>1, <2>2, TransitionIs
  <1>24. TwoRuns(q, "succeeded")
    BY <1>18, <1>23, Zenon DEF SameRuns, TwoRuns
  <1>25. Records(q, n, n + 1, {n, n + 1})
    <2>1. Records(q, n, m, first \cup {m})
      BY <1>19, <1>23, RecordsSame
    <2>2. PICK both : both = first \cup {m}
      OBVIOUS
    <2>3. both = {n, n + 1} /\ m = n + 1
      BY <1>2, <1>3, <2>2
    <2>4. Records(q, n, m, both)
      BY <2>1, <2>2
    <2>5. PICK two : two = {n, n + 1}
      OBVIOUS
    <2>6. PICK k : k = n + 1
      OBVIOUS
    <2>7. Records(q, n, k, two)
      BY <2>3, <2>4, <2>5, <2>6
    <2> QED
      BY <2>5, <2>6, <2>7, Zenon
  <1>26. q.raised = FALSE /\ Len(q.decisions) = 1
    <2>1. q.raised = r.raised
      BY <1>12, <1>14, <1>17, <1>23, Zenon
    <2>2. Len(r.decisions) = 0 /\ r.raised = FALSE
      BY <1>1
    <2>3. Len(q.decisions) = Len(r.decisions) + 1
      <3>1. q.decisions = decided.decisions
        BY <1>17, <1>23, Zenon
      <3>2. Len(decided.decisions) = Len(r.decisions) + 1
        BY <1>12, <1>14
      <3> QED
        BY <3>1, <3>2, Zenon
    <2> QED
      BY <2>1, <2>2, <2>3
  <1>27. Form(q, n)
    BY <1>1, <1>23, <1>24, <1>25, <1>26 DEF Form
  <1> QED
    BY <1>1, <1>23, <1>26, <1>27 DEF Orderly

\* A command that its phase does not want raises.
LEMMA Refused ==
  ASSUME NEW r \in Projects, NEW q, q = Require(r, FALSE)
  PROVE  q.raised = TRUE
  <1>1. PICK cond \in BOOLEAN : cond = FALSE
    OBVIOUS
  <1>2. q = Require(r, cond) /\ ~cond
    BY <1>1
  <1> QED
    BY <1>2, RequireIs

\* `approve' raises in every other phase: no workflow is running, or the newest
\* pending approval is about a report.
LEMMA ApproveBriefRefused ==
  ASSUME NEW r, NEW n, Orderly(r, n), r.state # "FOUNDER_SETUP", NEW q, q = ApproveBrief(r)
  PROVE  q.raised = TRUE
  <1>1. r \in Projects /\ n \in Nat /\ Form(r, n)
    BY DEF Orderly
  <1>2. PendingBrief(r) = 0
    <2>1. CASE NoRuns(r) \/ OneRun(r, "succeeded") \/ TwoRuns(r, "succeeded")
      <3>1. LastRun(r, {"running"}) = 0
        <4>1. "succeeded" \notin {"running"}
          OBVIOUS
        <4> QED
          BY <1>1, <2>1, <4>1, NoRunsLast, OneRunLast, TwoRunsLast
      <3> QED
        BY <3>1, Zenon DEF PendingBrief
    <2>2. CASE n > 0 /\ Records(r, n, n + 1, {n})
      <3>1. PICK m, first : m = n + 1 /\ first = {n}
        OBVIOUS
      <3>2. /\ m \in Nat /\ n <= m /\ Records(r, n, m, first) /\ m \in 1 .. m /\ m \notin first
            /\ ~(m <= n)
        BY <1>1, <2>2, <3>1
      <3>3. /\ RecordAt(r, n, m, first) /\ PendingApprovals(r) = (1 .. m) \ first
        BY <1>1, <3>2, RecordsAre
      <3>4. Newest(PendingApprovals(r)) = m
        <4>1. PICK pending : pending = PendingApprovals(r)
          OBVIOUS
        <4>2. pending \in SUBSET Nat /\ m \in pending /\ \A j \in pending : j <= m
          BY <3>2, <3>3, <4>1
        <4> QED
          BY <4>1, <4>2, NewestIs
      <3>5. r.artifacts[m] = ArtifactOf("opportunity_report", 0) /\ r.approvals[m] = ApprovalOf(m, "pending")
        <4>1. TypeAt(n, m) = "opportunity_report"
          BY <3>2 DEF TypeAt
        <4> QED
          BY <3>2, <3>3, <4>1, Zenon DEF RecordAt
      <3>6. r.artifacts[m].type # "founder_brief" /\ r.approvals[m].artifact = m
        BY <3>5 DEF ArtifactOf, ApprovalOf
      <3> QED
        BY <3>4, <3>6, Zenon DEF PendingBrief
    <2> QED
      BY <1>1, <2>1, <2>2 DEF Form
  <1>3. q = Require(r, FALSE)
    BY <1>2, Zenon DEF ApproveBrief
  <1> QED
    BY <1>1, <1>3, Refused

---------------------------------------------------------------------------
(* What a command leaves is in order, and no phase is without a way on     *)

\* A command that does not raise leaves a project in order.
LEMMA CommandsKeepOrder ==
  ASSUME NEW r, NEW n, Orderly(r, n), NEW operation \in Operations \ {"new"},
         NEW q, q = Perform(r, operation), q.raised # TRUE
  PROVE  \E k \in Nat : Orderly(q, k)
  <1>1. r \in Projects /\ n \in Nat
    BY DEF Orderly
  <1>2. CASE operation = "founder-brief"
    <2>1. q = FounderBrief(r)
      BY <1>2 DEF Perform
    <2>2. CASE r.state = "NO_PROJECT"
      <3>1. n = 0
        BY <2>2 DEF Orderly, Form
      <3>2. Orderly(q, 1) /\ 1 \in Nat
        BY <2>1, <2>2, <3>1, FirstBriefIs
      <3> QED
        BY <3>2
    <2>3. CASE r.state = "FOUNDER_SETUP"
      <3>1. Orderly(q, n + 1) /\ n + 1 \in Nat
        BY <1>1, <2>1, <2>3, NextBriefIs
      <3> QED
        BY <3>1
    <2>4. CASE r.state \notin {"NO_PROJECT", "FOUNDER_SETUP"}
      <3>1. q = Require(r, FALSE)
        BY <2>1, <2>4, Zenon DEF FounderBrief
      <3> QED
        BY <1>1, <3>1, Refused
    <2> QED
      BY <2>2, <2>3, <2>4
  <1>3. CASE operation = "approve"
    <2>1. q = ApproveBrief(r)
      BY <1>3 DEF Perform
    <2> QED
      BY <1>1, <2>1, ApproveBriefIs, ApproveBriefRefused
  <1>4. CASE operation = "discovery"
    <2>1. q = Discover(r)
      BY <1>4 DEF Perform
    <2>2. CASE r.state # "FOUNDER_BRIEF_COMPLETE"
      <3>1. q = Require(r, FALSE)
        BY <2>1, <2>2, Zenon DEF Discover
      <3> QED
        BY <1>1, <3>1, Refused
    <2> QED
      BY <1>1, <2>1, <2>2, DiscoverIs
  <1>5. CASE operation = "approve-opportunity"
    <2>1. q = ApproveOpportunity(r)
      BY <1>5 DEF Perform
    <2>2. CASE r.state # "DISCOVERY_RUNNING"
      <3>1. q = Require(r, FALSE)
        BY <2>1, <2>2, Zenon DEF ApproveOpportunity
      <3> QED
        BY <1>1, <3>1, Refused
    <2> QED
      BY <1>1, <2>1, <2>2, ApproveOpportunityIs
  <1> QED
    BY <1>2, <1>3, <1>4, <1>5 DEF Operations

---------------------------------------------------------------------------
(* What a project in order promises                                        *)

\* The open runs are those that the phase asks for.
LEMMA OpenRunsAre ==
  ASSUME NEW r, NEW n, Orderly(r, n),
         NEW open, open = {w \in DOMAIN r.runs : r.runs[w].status \in {"queued", "running"}}
  PROVE  /\ r.state \in {"NO_PROJECT", "FOUNDER_BRIEF_COMPLETE", "OPPORTUNITY_SELECTED"} => open = {}
         /\ r.state = "FOUNDER_SETUP" => open = {1} /\ r.runs[1].workflow = Setup
         /\ r.state = "DISCOVERY_RUNNING" => open = {2} /\ r.runs[2].workflow = Discovery
  <1>1. r \in Projects /\ n \in Nat /\ Form(r, n) /\ r.runs \in Seq(RunRecord)
    BY DEF Orderly, Projects
  <1>2. CASE r.state = "NO_PROJECT"
    <2>1. Len(r.runs) = 0
      BY <1>1, <1>2 DEF Form, NoRuns
    <2>2. DOMAIN r.runs = {}
      BY <1>1, <2>1
    <2> QED
      BY <1>2, <2>2
  <1>3. CASE r.state = "FOUNDER_SETUP"
    <2>1. OneRun(r, "running")
      BY <1>1, <1>3 DEF Form
    <2>2. Len(r.runs) = 1 /\ r.runs[1].status = "running" /\ r.runs[1].workflow = Setup
      BY <2>1 DEF OneRun, RunOf
    <2>3. DOMAIN r.runs = {1}
      BY <1>1, <2>2
    <2> QED
      BY <1>3, <2>2, <2>3
  <1>4. CASE r.state = "FOUNDER_BRIEF_COMPLETE"
    <2>1. OneRun(r, "succeeded")
      BY <1>1, <1>4 DEF Form
    <2>2. Len(r.runs) = 1 /\ r.runs[1].status = "succeeded"
      BY <2>1 DEF OneRun, RunOf
    <2>3. DOMAIN r.runs = {1}
      BY <1>1, <2>2
    <2> QED
      BY <1>4, <2>2, <2>3
  <1>5. CASE r.state = "DISCOVERY_RUNNING"
    <2>1. TwoRuns(r, "running")
      BY <1>1, <1>5 DEF Form
    <2>2. /\ DOMAIN r.runs = {1, 2} /\ r.runs[1].status = "succeeded"
          /\ r.runs[2].status = "running" /\ r.runs[2].workflow = Discovery
      BY <1>1, <2>1, TwoRunsAre DEF TwoRuns, RunOf
    <2> QED
      BY <1>5, <2>2
  <1>6. CASE r.state = "OPPORTUNITY_SELECTED"
    <2>1. TwoRuns(r, "succeeded")
      BY <1>1, <1>6 DEF Form
    <2>2. DOMAIN r.runs = {1, 2} /\ r.runs[1].status = "succeeded" /\ r.runs[2].status = "succeeded"
      BY <1>1, <2>1, TwoRunsAre DEF TwoRuns, RunOf
    <2> QED
      BY <1>6, <2>2
  <1> QED
    BY <1>2, <1>3, <1>4, <1>5, <1>6

\* The records of a type that are approved.
ApprovedOf(r, type) ==
    {i \in DOMAIN r.artifacts : r.artifacts[i].type = type /\ r.artifacts[i].status = "approved"}

\* Records refer to one another, and the approved ones are those counted.
LEMMA RecordsSay ==
  ASSUME NEW r \in Projects, NEW n \in Nat, NEW m \in Nat, n <= m,
         NEW approved \in SUBSET (1 .. m), Records(r, n, m, approved)
  PROVE  /\ DOMAIN r.artifacts = 1 .. m /\ DOMAIN r.evaluations = 1 .. m /\ DOMAIN r.approvals = 1 .. m
         /\ ApprovedOf(r, "founder_brief") = {i \in approved : i <= n}
         /\ ApprovedOf(r, "opportunity_report") = {i \in approved : ~(i <= n)}
         /\ \A i \in 1 .. m : r.artifacts[i].approval \in {0} \cup 1 .. m
         /\ \A i \in 1 .. m : r.evaluations[i].artifact = i /\ r.approvals[i].artifact = i
         /\ \A i \in 1 .. m : r.approvals[i].status = "approved" <=>
                                r.artifacts[i].status = "approved" /\ r.artifacts[i].approval = i
  <1>1. /\ DOMAIN r.artifacts = 1 .. m /\ DOMAIN r.evaluations = 1 .. m /\ DOMAIN r.approvals = 1 .. m
        /\ \A i \in 1 .. m : RecordAt(r, n, i, approved)
    BY RecordsAre
  <1>2. ASSUME NEW i \in 1 .. m
        PROVE  /\ r.artifacts[i].type = TypeAt(n, i) /\ r.evaluations[i].artifact = i
               /\ r.approvals[i].artifact = i
               /\ r.artifacts[i].approval = IF i \in approved THEN i ELSE 0
               /\ r.artifacts[i].status = IF i \in approved THEN "approved" ELSE "under_review"
               /\ r.approvals[i].status = IF i \in approved THEN "approved" ELSE "pending"
    <2>1. /\ r.artifacts[i] = ArtifactOf(TypeAt(n, i), IF i \in approved THEN i ELSE 0)
          /\ r.evaluations[i] = EvaluationOf(i)
          /\ r.approvals[i] = ApprovalOf(i, IF i \in approved THEN "approved" ELSE "pending")
      BY <1>1, Zenon DEF RecordAt
    <2>2. i # 0
      OBVIOUS
    <2> QED
      BY <2>1, <2>2 DEF ArtifactOf, EvaluationOf, ApprovalOf
  <1>3. \A i \in 1 .. m : r.artifacts[i].approval \in {0} \cup 1 .. m
    BY <1>2
  <1>4. \A i \in 1 .. m : r.approvals[i].status = "approved" <=>
                            r.artifacts[i].status = "approved" /\ r.artifacts[i].approval = i
    BY <1>2
  <1>5. ApprovedOf(r, "founder_brief") = {i \in approved : i <= n}
    BY <1>1, <1>2 DEF ApprovedOf, TypeAt
  <1>6. ApprovedOf(r, "opportunity_report") = {i \in approved : ~(i <= n)}
    BY <1>1, <1>2 DEF ApprovedOf, TypeAt
  <1> QED
    BY <1>1, <1>2, <1>3, <1>4, <1>5, <1>6

\* In each phase the approved records are those that carried the project there.
LEMMA FormRecords ==
  ASSUME NEW r, NEW n, Orderly(r, n)
  PROVE  \E m \in Nat : \E approved \in SUBSET (1 .. m) :
           /\ n <= m /\ Records(r, n, m, approved)
           /\ r.state \in {"NO_PROJECT", "FOUNDER_SETUP"} => {i \in approved : i <= n} = {}
           /\ r.state \notin {"NO_PROJECT", "FOUNDER_SETUP"} => {i \in approved : i <= n} = {n}
           /\ r.state # "OPPORTUNITY_SELECTED" => {i \in approved : ~(i <= n)} = {}
           /\ r.state = "OPPORTUNITY_SELECTED" => {i \in approved : ~(i <= n)} = {n + 1}
  <1>1. r \in Projects /\ n \in Nat /\ Form(r, n)
    BY DEF Orderly
  <1>2. CASE r.state \in {"NO_PROJECT", "FOUNDER_SETUP"}
    <2>1. Records(r, n, n, {})
      BY <1>1, <1>2 DEF Form
    <2>2. PICK none : none = {}
      OBVIOUS
    <2>3. Records(r, n, n, none)
      BY <2>1, <2>2
    <2>4. n <= n /\ none \in SUBSET (1 .. n) /\ {i \in none : i <= n} = {} /\ {i \in none : ~(i <= n)} = {}
      BY <1>1, <2>2
    <2>5. r.state # "OPPORTUNITY_SELECTED"
      BY <1>2
    <2> QED
      BY <1>1, <1>2, <2>3, <2>4, <2>5, Zenon
  <1>3. CASE r.state = "FOUNDER_BRIEF_COMPLETE"
    <2>1. Records(r, n, n, {n}) /\ n > 0
      BY <1>1, <1>3 DEF Form
    <2>2. PICK one : one = {n}
      OBVIOUS
    <2>3. Records(r, n, n, one)
      BY <2>1, <2>2
    <2>4. n <= n /\ one \in SUBSET (1 .. n) /\ {i \in one : i <= n} = {n} /\ {i \in one : ~(i <= n)} = {}
      BY <1>1, <2>1, <2>2
    <2>5. r.state # "OPPORTUNITY_SELECTED" /\ r.state \notin {"NO_PROJECT", "FOUNDER_SETUP"}
      BY <1>3
    <2> QED
      BY <1>1, <2>3, <2>4, <2>5, Zenon
  <1>4. CASE r.state = "DISCOVERY_RUNNING"
    <2>1. Records(r, n, n + 1, {n}) /\ n > 0
      BY <1>1, <1>4 DEF Form
    <2>2. PICK one, m : one = {n} /\ m = n + 1
      OBVIOUS
    <2>3. Records(r, n, m, one)
      BY <2>1, <2>2
    <2>4. /\ m \in Nat /\ n <= m /\ one \in SUBSET (1 .. m)
          /\ {i \in one : i <= n} = {n} /\ {i \in one : ~(i <= n)} = {}
      BY <1>1, <2>1, <2>2
    <2>5. r.state # "OPPORTUNITY_SELECTED" /\ r.state \notin {"NO_PROJECT", "FOUNDER_SETUP"}
      BY <1>4
    <2> QED
      BY <2>3, <2>4, <2>5, Zenon
  <1>5. CASE r.state = "OPPORTUNITY_SELECTED"
    <2>1. Records(r, n, n + 1, {n, n + 1}) /\ n > 0
      BY <1>1, <1>5 DEF Form
    <2>2. PICK two, m : two = {n, n + 1} /\ m = n + 1
      OBVIOUS
    <2>3. Records(r, n, m, two)
      BY <2>1, <2>2
    <2>4. /\ m \in Nat /\ n <= m /\ two \in SUBSET (1 .. m)
          /\ {i \in two : i <= n} = {n} /\ {i \in two : ~(i <= n)} = {n + 1}
      BY <1>1, <2>1, <2>2
    <2>5. r.state \notin {"NO_PROJECT", "FOUNDER_SETUP"}
      BY <1>5
    <2> QED
      BY <1>5, <2>3, <2>4, <2>5, Zenon
  <1> QED
    BY <1>1, <1>2, <1>3, <1>4, <1>5 DEF Form

\* The state of a project in order, and its decision.
LEMMA StatesOfOrder ==
  ASSUME NEW r, NEW n, Orderly(r, n)
  PROVE  /\ r.state \in {"NO_PROJECT", "FOUNDER_SETUP", "FOUNDER_BRIEF_COMPLETE", "DISCOVERY_RUNNING",
                         "OPPORTUNITY_SELECTED"}
         /\ Len(r.decisions) = IF r.state = "OPPORTUNITY_SELECTED" THEN 1 ELSE 0
  BY DEF Orderly, Form

\* How many records are approved, and that records refer to records.
LEMMA EvidenceIs ==
  ASSUME NEW r, NEW n, Orderly(r, n)
  PROVE  /\ Cardinality(ApprovedOf(r, "founder_brief")) =
              IF r.state \in {"none", "NO_PROJECT", "FOUNDER_SETUP"} THEN 0 ELSE 1
         /\ Cardinality(ApprovedOf(r, "opportunity_report")) =
              IF r.state = "OPPORTUNITY_SELECTED" THEN 1 ELSE 0
         /\ \A a \in DOMAIN r.approvals :
              r.approvals[a].status = "approved" <=>
                /\ r.artifacts[r.approvals[a].artifact].status = "approved"
                /\ r.artifacts[r.approvals[a].artifact].approval = a
         /\ \A i \in DOMAIN r.artifacts : r.artifacts[i].approval \in {0} \cup DOMAIN r.approvals
         /\ \A a \in DOMAIN r.approvals : r.approvals[a].artifact \in DOMAIN r.artifacts
         /\ \A e \in DOMAIN r.evaluations : r.evaluations[e].artifact \in DOMAIN r.artifacts
  <1>1. r \in Projects /\ n \in Nat
    BY DEF Orderly
  <1>2. PICK m \in Nat : \E approved \in SUBSET (1 .. m) :
           /\ n <= m /\ Records(r, n, m, approved)
           /\ r.state \in {"NO_PROJECT", "FOUNDER_SETUP"} => {i \in approved : i <= n} = {}
           /\ r.state \notin {"NO_PROJECT", "FOUNDER_SETUP"} => {i \in approved : i <= n} = {n}
           /\ r.state # "OPPORTUNITY_SELECTED" => {i \in approved : ~(i <= n)} = {}
           /\ r.state = "OPPORTUNITY_SELECTED" => {i \in approved : ~(i <= n)} = {n + 1}
    BY FormRecords
  <1>3. PICK approved \in SUBSET (1 .. m) :
           /\ n <= m /\ Records(r, n, m, approved)
           /\ r.state \in {"NO_PROJECT", "FOUNDER_SETUP"} => {i \in approved : i <= n} = {}
           /\ r.state \notin {"NO_PROJECT", "FOUNDER_SETUP"} => {i \in approved : i <= n} = {n}
           /\ r.state # "OPPORTUNITY_SELECTED" => {i \in approved : ~(i <= n)} = {}
           /\ r.state = "OPPORTUNITY_SELECTED" => {i \in approved : ~(i <= n)} = {n + 1}
    BY <1>2
  <1>4. /\ DOMAIN r.artifacts = 1 .. m /\ DOMAIN r.evaluations = 1 .. m /\ DOMAIN r.approvals = 1 .. m
        /\ ApprovedOf(r, "founder_brief") = {i \in approved : i <= n}
        /\ ApprovedOf(r, "opportunity_report") = {i \in approved : ~(i <= n)}
        /\ \A i \in 1 .. m : r.artifacts[i].approval \in {0} \cup 1 .. m
        /\ \A i \in 1 .. m : r.evaluations[i].artifact = i /\ r.approvals[i].artifact = i
        /\ \A i \in 1 .. m : r.approvals[i].status = "approved" <=>
                               r.artifacts[i].status = "approved" /\ r.artifacts[i].approval = i
    BY <1>1, <1>3, RecordsSay
  <1>5. Cardinality({}) = 0 /\ Cardinality({n}) = 1 /\ Cardinality({n + 1}) = 1
    BY FS_EmptySet, FS_Singleton
  <1>6. r.state # "none"
    BY StatesOfOrder
  <1>7. Cardinality(ApprovedOf(r, "founder_brief")) =
              IF r.state \in {"none", "NO_PROJECT", "FOUNDER_SETUP"} THEN 0 ELSE 1
    <2>1. CASE r.state \in {"NO_PROJECT", "FOUNDER_SETUP"}
      <3>1. ApprovedOf(r, "founder_brief") = {}
        BY <1>3, <1>4, <2>1, Zenon
      <3> QED
        BY <1>5, <2>1, <3>1
    <2>2. CASE r.state \notin {"NO_PROJECT", "FOUNDER_SETUP"}
      <3>1. ApprovedOf(r, "founder_brief") = {n}
        BY <1>3, <1>4, <2>2, Zenon
      <3> QED
        BY <1>5, <1>6, <2>2, <3>1
    <2> QED
      BY <2>1, <2>2
  <1>8. Cardinality(ApprovedOf(r, "opportunity_report")) =
              IF r.state = "OPPORTUNITY_SELECTED" THEN 1 ELSE 0
    <2>1. CASE r.state = "OPPORTUNITY_SELECTED"
      <3>1. ApprovedOf(r, "opportunity_report") = {n + 1}
        BY <1>3, <1>4, <2>1, Zenon
      <3> QED
        BY <1>5, <2>1, <3>1
    <2>2. CASE r.state # "OPPORTUNITY_SELECTED"
      <3>1. ApprovedOf(r, "opportunity_report") = {}
        BY <1>3, <1>4, <2>2, Zenon
      <3> QED
        BY <1>5, <2>2, <3>1
    <2> QED
      BY <2>1, <2>2
  <1> QED
    BY <1>4, <1>7, <1>8

\* Every run has a status that the tables know.
LEMMA RunsKnown ==
  ASSUME NEW r \in Projects, NEW w \in DOMAIN r.runs
  PROVE  r.runs[w].status \in DOMAIN WorkflowAllowed
  <1>1. r.runs \in Seq(RunRecord)
    BY DEF Projects
  <1>2. r.runs[w] \in RunRecord
    BY <1>1
  <1> QED
    BY <1>2 DEF RunRecord, WorkflowAllowed

\* The command that ends the phase does not raise.
LEMMA WayForward ==
  ASSUME NEW r, NEW n, Orderly(r, n)
  PROVE  /\ r.state = "NO_PROJECT" => Perform(r, "founder-brief").raised = FALSE
         /\ r.state = "FOUNDER_SETUP" => Perform(r, "approve").raised = FALSE
         /\ r.state = "FOUNDER_BRIEF_COMPLETE" => Perform(r, "discovery").raised = FALSE
         /\ r.state = "DISCOVERY_RUNNING" => Perform(r, "approve-opportunity").raised = FALSE
  <1>1. ASSUME r.state = "NO_PROJECT" PROVE Perform(r, "founder-brief").raised = FALSE
    <2>1. PICK q : q = FounderBrief(r)
      OBVIOUS
    <2>2. n = 0
      BY <1>1 DEF Orderly, Form
    <2>3. Orderly(q, 1)
      BY <1>1, <2>1, <2>2, FirstBriefIs
    <2> QED
      BY <2>1, <2>3 DEF Orderly, Perform
  <1>2. ASSUME r.state = "FOUNDER_SETUP" PROVE Perform(r, "approve").raised = FALSE
    <2>1. PICK q : q = ApproveBrief(r)
      OBVIOUS
    <2>2. Orderly(q, n)
      BY <1>2, <2>1, ApproveBriefIs
    <2> QED
      BY <2>1, <2>2 DEF Orderly, Perform
  <1>3. ASSUME r.state = "FOUNDER_BRIEF_COMPLETE" PROVE Perform(r, "discovery").raised = FALSE
    <2>1. PICK q : q = Discover(r)
      OBVIOUS
    <2>2. Orderly(q, n)
      BY <1>3, <2>1, DiscoverIs
    <2> QED
      BY <2>1, <2>2 DEF Orderly, Perform
  <1>4. ASSUME r.state = "DISCOVERY_RUNNING" PROVE Perform(r, "approve-opportunity").raised = FALSE
    <2>1. PICK q : q = ApproveOpportunity(r)
      OBVIOUS
    <2>2. Orderly(q, n)
      BY <1>4, <2>1, ApproveOpportunityIs
    <2> QED
      BY <2>1, <2>2 DEF Orderly, Perform
  <1> QED
    BY <1>1, <1>2, <1>3, <1>4

---------------------------------------------------------------------------
(* The invariant                                                           *)

\* What is on record for a key.
Recorded ==
    {Unrecorded} \cup
    [operation : Operations, state : ProjectStates, artifact : Nat, approval : Nat, events : Nat]

\* The saved project is in order.
ProjectOrder == IF saved = 0 THEN runtime = Empty ELSE \E n \in Nat : Orderly(runtime, n)

\* A key without an answer has had no effect; every retry was given the answer
\* on record.
JournalOrder ==
    /\ journal \in [CommandKeys -> Recorded]
    /\ effects \in [CommandKeys -> {0, 1}]
    /\ answers \in [CommandKeys -> SUBSET Recorded]
    /\ \A k \in CommandKeys :
         /\ journal[k] = Unrecorded => effects[k] = 0 /\ answers[k] = {}
         /\ answers[k] \subseteq {journal[k]}

RuntimeInv ==
    /\ saved \in 0 .. MaxSaved
    /\ ProjectOrder
    /\ JournalOrder

\* A command's answer is an answer, and not the mark of an unrecorded key.
LEMMA ResultIs ==
  ASSUME NEW r \in Projects, NEW operation \in Operations, NEW result, result = Result(r, operation)
  PROVE  result \in Recorded /\ result # Unrecorded
  <1>1. /\ Len(r.artifacts) \in Nat /\ Len(r.approvals) \in Nat /\ Len(r.events) \in Nat
        /\ r.state \in ProjectStates
    BY DEF Projects
  <1>2. PICK a, b, c : a = Len(r.artifacts) /\ b = Len(r.approvals) /\ c = Len(r.events)
    OBVIOUS
  <1>3. PICK state : state = r.state
    OBVIOUS
  <1>4. result = [operation |-> operation, state |-> state, artifact |-> a, approval |-> b, events |-> c]
    BY <1>2, <1>3 DEF Result
  <1>5. a \in Nat /\ b \in Nat /\ c \in Nat /\ state \in ProjectStates
    BY <1>1, <1>2, <1>3
  <1>6. result \in [operation : Operations, state : ProjectStates, artifact : Nat, approval : Nat, events : Nat]
    BY <1>4, <1>5
  <1>7. result.operation = operation /\ operation # "none"
    BY <1>4 DEF Operations
  <1>8. Unrecorded.operation = "none"
    BY DEF Unrecorded
  <1> QED
    BY <1>6, <1>7, <1>8 DEF Recorded

\* The invariant holds at first.
LEMMA InitRuntimeInv == RuntimeInit => RuntimeInv
  <1> SUFFICES ASSUME RuntimeInit PROVE RuntimeInv
    OBVIOUS
  <1>1. saved \in 0 .. MaxSaved
    BY RuntimeAssumption DEF RuntimeInit
  <1>2. ProjectOrder
    BY DEF RuntimeInit, ProjectOrder
  <1>3. Unrecorded \in Recorded
    BY Zenon DEF Recorded
  <1>4. JournalOrder
    BY <1>3 DEF RuntimeInit, JournalOrder
  <1> QED
    BY <1>1, <1>2, <1>4 DEF RuntimeInv

\* A command that is saved keeps the invariant: `new' finds no project and the
\* others one in order; the key, if any, was unrecorded.
LEMMA ExecuteKeeps ==
  ASSUME RuntimeInv, NEW operation \in Operations, NEW k \in CommandKeys \cup {NoKey}, Execute(operation, k)
  PROVE  RuntimeInv'
  <1>1. PICK r : r = runtime
    OBVIOUS
  <1>2. PICK q : q = Perform(r, operation)
    OBVIOUS
  <1>3. PICK result : result = Result(q, operation)
    OBVIOUS
  <1>4. /\ saved < MaxSaved /\ StoreFits(operation) /\ OnRecord(operation, k) = Unrecorded
        /\ ~q.raised /\ runtime' = q /\ saved' = saved + 1
        /\ IF k = NoKey THEN UNCHANGED <<journal, effects>>
           ELSE /\ journal' = [journal EXCEPT ![k] = result]
                /\ effects' = [effects EXCEPT ![k] = @ + 1]
        /\ answers' = answers
    BY <1>1, <1>2, <1>3, Zenon DEF Execute
  <1>5. saved' \in 0 .. MaxSaved /\ saved' # 0
    BY <1>4, RuntimeAssumption DEF RuntimeInv
  <1>6. \E n \in Nat : Orderly(q, n)
    <2>1. CASE operation = "new"
      <3>1. saved = 0
        BY <1>4, <2>1 DEF StoreFits
      <3>2. r = Empty
        BY <1>1, <3>1 DEF RuntimeInv, ProjectOrder
      <3>3. q = CreateProject(Empty)
        BY <1>2, <2>1, <3>2 DEF Perform
      <3>4. Orderly(q, 0)
        BY <3>3, CreateIs
      <3> QED
        BY <3>4
    <2>2. CASE operation # "new"
      <3>1. saved # 0
        BY <1>4, <2>2 DEF StoreFits
      <3>2. \E n \in Nat : Orderly(r, n)
        BY <1>1, <3>1 DEF RuntimeInv, ProjectOrder
      <3>3. PICK n \in Nat : Orderly(r, n)
        BY <3>2
      <3>4. operation \in Operations \ {"new"} /\ q.raised # TRUE
        BY <1>4, <2>2
      <3> QED
        BY <1>2, <3>3, <3>4, CommandsKeepOrder
    <2> QED
      BY <2>1, <2>2
  <1>7. ProjectOrder'
    BY <1>4, <1>5, <1>6 DEF ProjectOrder
  <1>8. result \in Recorded /\ result # Unrecorded
    <2>1. q \in Projects
      BY <1>6 DEF Orderly
    <2> QED
      BY <1>3, <2>1, ResultIs
  <1>9. JournalOrder'
    <2>1. CASE k = NoKey
      <3>1. journal' = journal /\ effects' = effects /\ answers' = answers
        BY <1>4, <2>1
      <3> QED
        BY <3>1 DEF RuntimeInv, JournalOrder
    <2>2. CASE k # NoKey
      <3>1. k \in CommandKeys /\ journal[k] = Unrecorded
        BY <1>4, <2>2 DEF OnRecord
      <3>2. effects[k] = 0 /\ answers[k] = {}
        BY <3>1 DEF RuntimeInv, JournalOrder
      <3>3. /\ journal' = [journal EXCEPT ![k] = result]
            /\ effects' = [effects EXCEPT ![k] = 1]
            /\ answers' = answers
        BY <1>4, <2>2, <3>2
      <3>4. /\ journal \in [CommandKeys -> Recorded] /\ effects \in [CommandKeys -> {0, 1}]
            /\ answers \in [CommandKeys -> SUBSET Recorded]
        BY DEF RuntimeInv, JournalOrder
      <3>5. /\ journal' \in [CommandKeys -> Recorded] /\ effects' \in [CommandKeys -> {0, 1}]
            /\ answers' \in [CommandKeys -> SUBSET Recorded]
        BY <1>8, <3>1, <3>3, <3>4
      <3>6. ASSUME NEW j \in CommandKeys
            PROVE  /\ journal'[j] = Unrecorded => effects'[j] = 0 /\ answers'[j] = {}
                   /\ answers'[j] \subseteq {journal'[j]}
        <4>1. CASE j = k
          <5>1. journal'[j] = result /\ answers'[j] = {}
            BY <3>1, <3>2, <3>3, <3>4, <4>1
          <5> QED
            BY <1>8, <5>1
        <4>2. CASE j # k
          <5>1. journal'[j] = journal[j] /\ effects'[j] = effects[j] /\ answers'[j] = answers[j]
            BY <3>3, <3>4, <4>2
          <5> QED
            BY <5>1 DEF RuntimeInv, JournalOrder
        <4> QED
          BY <4>1, <4>2
      <3> QED
        BY <3>5, <3>6 DEF JournalOrder
    <2> QED
      BY <2>1, <2>2
  <1> QED
    BY <1>5, <1>7, <1>9 DEF RuntimeInv

\* A retry keeps it: it is given what is on record.
LEMMA ReplayCommandKeeps ==
  ASSUME RuntimeInv, NEW operation \in Operations, NEW k \in CommandKeys, ReplayCommand(operation, k)
  PROVE  RuntimeInv'
  <1>1. /\ journal[k].operation = operation
        /\ answers' = [answers EXCEPT ![k] = @ \cup {journal[k]}]
        /\ runtime' = runtime /\ journal' = journal /\ saved' = saved /\ effects' = effects
    BY DEF ReplayCommand
  <1>2. /\ journal \in [CommandKeys -> Recorded] /\ effects \in [CommandKeys -> {0, 1}]
        /\ answers \in [CommandKeys -> SUBSET Recorded]
    BY DEF RuntimeInv, JournalOrder
  <1>3. journal[k] # Unrecorded
    <2>1. Unrecorded.operation = "none" /\ operation # "none"
      BY DEF Unrecorded, Operations
    <2> QED
      BY <1>1, <2>1
  <1>4. answers' \in [CommandKeys -> SUBSET Recorded]
    BY <1>1, <1>2
  <1>5. ASSUME NEW j \in CommandKeys
        PROVE  /\ journal'[j] = Unrecorded => effects'[j] = 0 /\ answers'[j] = {}
               /\ answers'[j] \subseteq {journal'[j]}
    <2>1. CASE j = k
      <3>1. answers'[j] = answers[j] \cup {journal[j]} /\ answers[j] \subseteq {journal[j]}
        BY <1>1, <1>2, <2>1 DEF RuntimeInv, JournalOrder
      <3> QED
        BY <1>1, <1>3, <2>1, <3>1
    <2>2. CASE j # k
      <3>1. answers'[j] = answers[j]
        BY <1>1, <1>2, <2>2
      <3> QED
        BY <1>1, <3>1 DEF RuntimeInv, JournalOrder
    <2> QED
      BY <2>1, <2>2
  <1>6. JournalOrder'
    BY <1>1, <1>2, <1>4, <1>5 DEF JournalOrder
  <1>7. ProjectOrder' /\ saved' \in 0 .. MaxSaved
    BY <1>1 DEF RuntimeInv, ProjectOrder
  <1> QED
    BY <1>6, <1>7 DEF RuntimeInv

\* Every step keeps the invariant.
LEMMA NextRuntimeInv == RuntimeInv /\ [RuntimeNext]_runtimeVars => RuntimeInv'
  <1> SUFFICES ASSUME RuntimeInv, [RuntimeNext]_runtimeVars PROVE RuntimeInv'
    OBVIOUS
  <1>1. ASSUME NEW operation \in Operations, NEW k \in CommandKeys \cup {NoKey}, Execute(operation, k)
        PROVE  RuntimeInv'
    BY <1>1, ExecuteKeeps
  <1>2. ASSUME NEW operation \in Operations, NEW k \in CommandKeys, ReplayCommand(operation, k)
        PROVE  RuntimeInv'
    BY <1>2, ReplayCommandKeeps
  <1>3. CASE UNCHANGED runtimeVars
    BY <1>3 DEF runtimeVars, RuntimeInv, ProjectOrder, JournalOrder
  <1> QED
    BY <1>1, <1>2, <1>3 DEF RuntimeNext

---------------------------------------------------------------------------
(* Soundness                                                               *)

\* Before `new' there is nothing that could disagree.
LEMMA EmptyIsSound ==
  ASSUME runtime = Empty, saved = 0
  PROVE  /\ ~runtime.raised
         /\ \A w \in DOMAIN runtime.runs : runtime.runs[w].status \in DOMAIN WorkflowAllowed
         /\ \A i \in DOMAIN runtime.artifacts : runtime.artifacts[i].approval \in {0} \cup DOMAIN runtime.approvals
         /\ \A a \in DOMAIN runtime.approvals : runtime.approvals[a].artifact \in DOMAIN runtime.artifacts
         /\ \A e \in DOMAIN runtime.evaluations : runtime.evaluations[e].artifact \in DOMAIN runtime.artifacts
         /\ ReplayAgrees /\ PhaseHasItsRun /\ EvidenceFitsState /\ NeverStuck
  <1>1. /\ runtime.state = "none" /\ runtime.raised = FALSE /\ runtime.runs = <<>>
        /\ runtime.artifacts = <<>> /\ runtime.evaluations = <<>> /\ runtime.approvals = <<>>
        /\ runtime.decisions = <<>>
    BY DEF Empty
  <1>2. DOMAIN <<>> = {} /\ Len(<<>>) = 0
    OBVIOUS
  <1>3. /\ DOMAIN runtime.runs = {} /\ DOMAIN runtime.artifacts = {} /\ DOMAIN runtime.evaluations = {}
        /\ DOMAIN runtime.approvals = {} /\ Len(runtime.decisions) = 0
    BY <1>1, <1>2
  <1>4. ReplayAgrees
    BY DEF ReplayAgrees
  <1>5. PhaseHasItsRun
    BY <1>1, <1>3 DEF PhaseHasItsRun
  <1>6. EvidenceFitsState
    <2>1. \A type : {i \in DOMAIN runtime.artifacts :
                       runtime.artifacts[i].type = type /\ runtime.artifacts[i].status = "approved"} = {}
      BY <1>3
    <2>2. Cardinality({}) = 0
      BY FS_EmptySet
    <2> QED
      BY <1>1, <1>3, <2>1, <2>2 DEF EvidenceFitsState
  <1>7. NeverStuck
    BY <1>1 DEF NeverStuck
  <1> QED
    BY <1>1, <1>3, <1>4, <1>5, <1>6, <1>7

\* A saved project that is in order agrees with its events and records, has
\* the runs its phase asks for and a way forward.
LEMMA OrderIsSound ==
  ASSUME NEW n, Orderly(runtime, n)
  PROVE  /\ ~runtime.raised
         /\ \A w \in DOMAIN runtime.runs : runtime.runs[w].status \in DOMAIN WorkflowAllowed
         /\ \A i \in DOMAIN runtime.artifacts : runtime.artifacts[i].approval \in {0} \cup DOMAIN runtime.approvals
         /\ \A a \in DOMAIN runtime.approvals : runtime.approvals[a].artifact \in DOMAIN runtime.artifacts
         /\ \A e \in DOMAIN runtime.evaluations : runtime.evaluations[e].artifact \in DOMAIN runtime.artifacts
         /\ ReplayAgrees /\ PhaseHasItsRun /\ EvidenceFitsState /\ NeverStuck
  <1>1. PICK r : r = runtime
    OBVIOUS
  <1>2. Orderly(r, n) /\ r \in Projects /\ r.raised = FALSE /\ Told(r)
    BY <1>1 DEF Orderly
  <1>3. \A w \in DOMAIN runtime.runs : runtime.runs[w].status \in DOMAIN WorkflowAllowed
    BY <1>1, <1>2, RunsKnown
  <1>4. ReplayAgrees
    BY <1>1, <1>2 DEF Told, ReplayAgrees
  <1>5. PhaseHasItsRun
    <2>1. PICK open : open = {w \in DOMAIN r.runs : r.runs[w].status \in {"queued", "running"}}
      OBVIOUS
    <2>2. /\ r.state \in {"NO_PROJECT", "FOUNDER_BRIEF_COMPLETE", "OPPORTUNITY_SELECTED"} => open = {}
          /\ r.state = "FOUNDER_SETUP" => open = {1} /\ r.runs[1].workflow = Setup
          /\ r.state = "DISCOVERY_RUNNING" => open = {2} /\ r.runs[2].workflow = Discovery
      BY <1>2, <2>1, OpenRunsAre
    <2>3. r.state \in {"NO_PROJECT", "FOUNDER_SETUP", "FOUNDER_BRIEF_COMPLETE", "DISCOVERY_RUNNING",
                       "OPPORTUNITY_SELECTED"}
      BY <1>2, StatesOfOrder
    <2>4. Setup # Discovery
      BY DEF Setup, Discovery
    <2>5. IF r.state \in {"FOUNDER_SETUP", "DISCOVERY_RUNNING"}
          THEN \E w \in open : open = {w} /\ (r.runs[w].workflow = Discovery <=> r.state = "DISCOVERY_RUNNING")
          ELSE open = {}
      BY <2>2, <2>3, <2>4
    <2> QED
      BY <1>1, <2>1, <2>5 DEF PhaseHasItsRun
  <1>6. /\ Cardinality(ApprovedOf(r, "founder_brief")) =
              IF r.state \in {"none", "NO_PROJECT", "FOUNDER_SETUP"} THEN 0 ELSE 1
        /\ Cardinality(ApprovedOf(r, "opportunity_report")) =
              IF r.state = "OPPORTUNITY_SELECTED" THEN 1 ELSE 0
        /\ \A a \in DOMAIN r.approvals :
              r.approvals[a].status = "approved" <=>
                /\ r.artifacts[r.approvals[a].artifact].status = "approved"
                /\ r.artifacts[r.approvals[a].artifact].approval = a
        /\ \A i \in DOMAIN r.artifacts : r.artifacts[i].approval \in {0} \cup DOMAIN r.approvals
        /\ \A a \in DOMAIN r.approvals : r.approvals[a].artifact \in DOMAIN r.artifacts
        /\ \A e \in DOMAIN r.evaluations : r.evaluations[e].artifact \in DOMAIN r.artifacts
    BY <1>2, EvidenceIs
  <1>7. EvidenceFitsState
    <2>1. Len(r.decisions) = IF r.state = "OPPORTUNITY_SELECTED" THEN 1 ELSE 0
      BY <1>2, StatesOfOrder
    <2>2. /\ \A type : ApprovedOf(r, type) = {i \in DOMAIN runtime.artifacts :
                          runtime.artifacts[i].type = type /\ runtime.artifacts[i].status = "approved"}
          /\ r.state = runtime.state /\ r.approvals = runtime.approvals /\ r.artifacts = runtime.artifacts
          /\ r.decisions = runtime.decisions
      BY <1>1, Zenon DEF ApprovedOf
    <2>3. PICK briefs : briefs = IF r.state \in {"none", "NO_PROJECT", "FOUNDER_SETUP"} THEN 0 ELSE 1
      OBVIOUS
    <2>4. PICK reports : reports = IF r.state = "OPPORTUNITY_SELECTED" THEN 1 ELSE 0
      OBVIOUS
    <2>5. /\ Cardinality({i \in DOMAIN runtime.artifacts : runtime.artifacts[i].type = "founder_brief"
                                                        /\ runtime.artifacts[i].status = "approved"}) = briefs
          /\ Cardinality({i \in DOMAIN runtime.artifacts : runtime.artifacts[i].type = "opportunity_report"
                                                        /\ runtime.artifacts[i].status = "approved"}) = reports
          /\ Len(runtime.decisions) = reports
      BY <1>6, <2>1, <2>2, <2>3, <2>4, Zenon
    <2>6. ASSUME NEW a \in DOMAIN runtime.approvals
          PROVE  runtime.approvals[a].status = "approved" <=>
                   /\ runtime.artifacts[runtime.approvals[a].artifact].status = "approved"
                   /\ runtime.artifacts[runtime.approvals[a].artifact].approval = a
      BY <1>1, <1>6
    <2>7. /\ briefs = IF runtime.state \in {"none", "NO_PROJECT", "FOUNDER_SETUP"} THEN 0 ELSE 1
          /\ reports = IF runtime.state = "OPPORTUNITY_SELECTED" THEN 1 ELSE 0
      BY <2>2, <2>3, <2>4, Zenon
    <2> QED
      BY <2>5, <2>6, <2>7, Zenon DEF EvidenceFitsState
  <1>8. NeverStuck
    <2>1. PICK next : next = [NO_PROJECT |-> "founder-brief", FOUNDER_SETUP |-> "approve",
                 FOUNDER_BRIEF_COMPLETE |-> "discovery", DISCOVERY_RUNNING |-> "approve-opportunity"]
      OBVIOUS
    <2>2. /\ DOMAIN next = {"NO_PROJECT", "FOUNDER_SETUP", "FOUNDER_BRIEF_COMPLETE", "DISCOVERY_RUNNING"}
          /\ next["NO_PROJECT"] = "founder-brief" /\ next["FOUNDER_SETUP"] = "approve"
          /\ next["FOUNDER_BRIEF_COMPLETE"] = "discovery"
          /\ next["DISCOVERY_RUNNING"] = "approve-opportunity"
      BY <2>1
    <2>3. /\ r.state = "NO_PROJECT" => Perform(r, "founder-brief").raised = FALSE
          /\ r.state = "FOUNDER_SETUP" => Perform(r, "approve").raised = FALSE
          /\ r.state = "FOUNDER_BRIEF_COMPLETE" => Perform(r, "discovery").raised = FALSE
          /\ r.state = "DISCOVERY_RUNNING" => Perform(r, "approve-opportunity").raised = FALSE
      BY <1>2, WayForward
    <2>4. r.state \in DOMAIN next => ~Perform(r, next[r.state]).raised
      BY <2>2, <2>3
    <2> QED
      BY <1>1, <2>1, <2>4, Zenon DEF NeverStuck
  <1> QED
    BY <1>1, <1>2, <1>3, <1>4, <1>5, <1>6, <1>7, <1>8

\* The invariant is what soundness needs.
LEMMA InvIsSound == RuntimeInv => RuntimeSound
  <1> SUFFICES ASSUME RuntimeInv PROVE RuntimeSound
    OBVIOUS
  <1>1. /\ ~runtime.raised
        /\ \A w \in DOMAIN runtime.runs : runtime.runs[w].status \in DOMAIN WorkflowAllowed
        /\ \A i \in DOMAIN runtime.artifacts : runtime.artifacts[i].approval \in {0} \cup DOMAIN runtime.approvals
        /\ \A a \in DOMAIN runtime.approvals : runtime.approvals[a].artifact \in DOMAIN runtime.artifacts
        /\ \A e \in DOMAIN runtime.evaluations : runtime.evaluations[e].artifact \in DOMAIN runtime.artifacts
        /\ ReplayAgrees /\ PhaseHasItsRun /\ EvidenceFitsState /\ NeverStuck
    <2>1. CASE saved = 0
      <3>1. runtime = Empty
        BY <2>1 DEF RuntimeInv, ProjectOrder
      <3> QED
        BY <2>1, <3>1, EmptyIsSound
    <2>2. CASE saved # 0
      <3>1. \E n \in Nat : Orderly(runtime, n)
        BY <2>2 DEF RuntimeInv, ProjectOrder
      <3>2. PICK n \in Nat : Orderly(runtime, n)
        BY <3>1
      <3> QED
        BY <3>2, OrderIsSound
    <2> QED
      BY <2>1, <2>2
  <1>2. \A k \in CommandKeys : journal[k].operation \in Operations \cup {"none"}
    <2> SUFFICES ASSUME NEW k \in CommandKeys PROVE journal[k].operation \in Operations \cup {"none"}
      OBVIOUS
    <2>1. journal[k] \in Recorded
      BY DEF RuntimeInv, JournalOrder
    <2>2. CASE journal[k] = Unrecorded
      BY <2>2 DEF Unrecorded
    <2>3. CASE journal[k] # Unrecorded
      BY <2>1, <2>3 DEF Recorded
    <2> QED
      BY <2>2, <2>3
  <1>3. RuntimeTypeOK
    BY <1>1, <1>2 DEF RuntimeTypeOK, RuntimeInv
  <1>4. KeyAppliedOnce
    BY DEF KeyAppliedOnce, RuntimeInv, JournalOrder
  <1> QED
    BY <1>1, <1>3, <1>4 DEF RuntimeSound

\* Whatever sequence of commands, repeated, retried and refused, the founder
\* gives: the events give the project's state, a phase has its one open run, the
\* approved records are those that carried the project, the command that ends a
\* phase never raises and a key takes effect once (RuntimeSound).
THEOREM SpecRuntimeSound == RuntimeSpec => []RuntimeSound
  <1>1. RuntimeSpec => []RuntimeInv
    BY InitRuntimeInv, NextRuntimeInv, PTL DEF RuntimeSpec
  <1> QED
    BY <1>1, InvIsSound, PTL

============================================================================
