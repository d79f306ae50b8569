----------------------------- MODULE StoreProofs -----------------------------
(***************************************************************************)
(* Proofs about LocalStore: whatever processes save, fail, die and recover *)
(* at once, no command is on record twice; until the lock of a live writer *)
(* is cleared, one writes the directory at a time; and as long as no       *)
(* recovery overlaps a command either, the directory or its backup loads,  *)
(* the backup is at most one commit old and no commit loses another's.  And*)
(* about Outbox: the file of messages tells the truth, and every call of a *)
(* provider has a reason.                                                  *)
(***************************************************************************)
EXTENDS LocalStore, Outbox, FiniteSetTheorems, SequenceTheorems, TLAPS

Steps == {"idle", "reading", "ready", "checked", "unlinking", "staged", "writing", "artifacts",
          "events", "state", "restoring", "copying", "clearing", "restored"}

Runtime == [pc : Steps, state : StateFile, events : Seq(Entry), entry : Entry]

\* The files and the processes' runtimes; no revision is ahead of the commands
\* that were started.
StoreTypes ==
    /\ primary \in Directory /\ backup \in Directory /\ staged \in Directory
    /\ proc \in [Processes -> Runtime]
    /\ runs \in 0 .. MaxRuns
    /\ mishaps \in 0 .. MaxMishaps
    /\ crossed \in BOOLEAN
    /\ \A dir \in {primary, backup, staged} :
         dir.state # Missing => dir.state.rev \in 1 .. runs

\* Who writes holds the lock file; one clearer at most is about to unlink it, and
\* it is a dead process's.
LockInv ==
    /\ lockFile \in Processes \cup {Unlocked, Ghost}
    /\ \A p \in Processes :
         /\ proc[p].pc \in Writing => lockFile = p
         /\ proc[p].pc = "unlinking" => lockFile = Ghost
    /\ \A p, q \in Processes :
         proc[p].pc = "unlinking" /\ proc[q].pc = "unlinking" => p = q

Once(entries) == \A i, j \in DOMAIN entries : entries[i].cmd = entries[j].cmd => i = j

\* Every state file there is, or that a process has in memory, has a command once.
OnceInv ==
    /\ \A dir \in {primary, backup, staged} : Once(dir.state.applied)
    /\ \A p \in Processes : Once(proc[p].state.applied)

Executed == {"ready", "staged", "writing", "artifacts", "events"}

\* A runtime in memory: its entry is newer than what it read, and what it is
\* going to write can be loaded again.
RuntimeOf(me) ==
    /\ me.pc \in {"reading"} \cup Executed =>
         /\ me.state # Missing
         /\ me.state.rev < me.entry.id /\ me.entry.id <= runs
    /\ me.pc \in Executed \cup {"state"} =>
         /\ me.events # NoEvents
         /\ Replayed(me.events) = Replayed(me.state.applied)

\* With the lock, the revision is the one that was read; the backup is made
\* while the directory loads, and then loads until the state is written.
WriterOf(me) ==
    /\ me.pc \in {"staged", "writing", "artifacts", "events"} =>
         CurrentRevision = me.state.rev
    /\ me.pc = "staged" => Loads(primary) /\ staged = primary
    /\ me.pc \in {"writing", "artifacts", "events"} /\ primary.state # Missing =>
         backup.state = primary.state /\ Loads(backup)
    /\ me.pc \in {"artifacts", "events", "state"} =>
         ToSet(me.state.applied) \subseteq primary.artifacts
    /\ me.pc \in {"events", "state"} => primary.events = me.events
    /\ me.pc = "state" => primary.state.applied = me.state.applied
                          /\ primary.state # Missing

\* Before the first commit there is nothing to lose.
FirstInv == primary.state = Missing => commits = {} /\ backup.state = Missing

\* Without an overlap, a runtime that is not out of date is what the directory
\* holds, with the new entry appended once it is executed.
ReadOf(me) ==
    /\ me.pc \in {"reading"} \cup Executed => me.state.rev <= CurrentRevision
    /\ me.pc = "reading" /\ me.state.rev = CurrentRevision => me.state = primary.state
    /\ me.pc \in Executed /\ me.state.rev = CurrentRevision =>
         /\ me.state.applied = Append(primary.state.applied, me.entry)
         /\ ToSet(me.state.applied) \subseteq ToSet(me.events)

\* Without an overlap, the backup that is being copied back loads.
RecoveryOf(me) ==
    /\ me.pc \in Restoring => Loads(backup)
    /\ me.pc \in {"copying", "clearing", "restored"} => primary.state = backup.state

Ahead(dir) == dir.events # NoEvents => ToSet(dir.state.applied) \subseteq ToSet(dir.events)

\* Without an overlap: events ahead of the state, and a backup that the state
\* extends by at most one commit and that loads whenever the directory does not.
FilesInv ==
    /\ ToSet(primary.state.applied) \subseteq ToSet(primary.events)
    /\ Ahead(backup)
    /\ Ahead(staged)
    /\ backup.state # Missing =>
         /\ primary.state.rev \in {backup.state.rev, backup.state.rev + 1}
         /\ ToSet(backup.state.applied) \subseteq ToSet(primary.state.applied)
    /\ commits # {} => Loads(primary) \/ Loads(backup)

StoreInv ==
    /\ StoreTypes
    /\ LockInv
    /\ OnceInv
    /\ \A p \in Processes : RuntimeOf(proc[p]) /\ WriterOf(proc[p])
    /\ FirstInv
    /\ ~crossed => /\ ~Overlap
                   /\ FilesInv
                   /\ \A p \in Processes : ReadOf(proc[p]) /\ RecoveryOf(proc[p])

---------------------------------------------------------------------------
(* Operators.                                                              *)

\* One more entry counts alike on both sides of the comparison of _hydrate.
LEMMA ReplayedOneMore ==
    ASSUME NEW s \in Seq(Entry), NEW e \in Entry
    PROVE  Replayed(Append(s, e)) =
             Replayed(s) + (IF e.cmd \in Transitions \cup {Create} THEN 1 ELSE 0)
<1> DEFINE counted(t) == {i \in DOMAIN t : t[i].cmd \in Transitions \cup {Create}}
           t == Append(s, e)
           last == Len(s) + 1
<1>1. /\ Len(t) = last
      /\ t[last] = e
      /\ \A i \in 1 .. Len(s) : t[i] = s[i]
      /\ DOMAIN t = 1 .. last /\ DOMAIN s = 1 .. Len(s)
      /\ Len(s) \in Nat
  BY SMT
<1>2. IsFiniteSet(counted(s)) /\ Cardinality(counted(s)) \in Nat
  <2>1. IsFiniteSet(1 .. Len(s))
    BY <1>1, FS_Interval
  <2>2. counted(s) \subseteq 1 .. Len(s)
    BY <1>1
  <2> QED BY <2>1, <2>2, FS_Subset, FS_CardinalityType
<1> HIDE DEF t
<1>0. Replayed(s) = Cardinality(counted(s)) /\ Replayed(t) = Cardinality(counted(t))
  BY DEF Replayed
<1> HIDE DEF counted
<1>3. CASE e.cmd \in Transitions \cup {Create}
  <2>1. counted(t) = counted(s) \cup {last} /\ last \notin counted(s)
    BY <1>1, <1>3 DEF counted
  <2>2. Cardinality(counted(s) \cup {last}) = Cardinality(counted(s)) + 1
    BY <1>2, <2>1, FS_AddElement
  <2> QED BY <1>0, <1>3, <2>1, <2>2 DEF t
<1>4. CASE e.cmd \notin Transitions \cup {Create}
  <2>1. counted(t) = counted(s)
    BY <1>1, <1>4 DEF counted
  <2> QED BY <1>0, <1>2, <1>4, <2>1 DEF t
<1> QED BY <1>3, <1>4

LEMMA AppendedSet ==
    ASSUME NEW s \in Seq(Entry), NEW e \in Entry
    PROVE  ToSet(Append(s, e)) = ToSet(s) \cup {e}
<1> DEFINE t == Append(s, e)
<1>1. /\ DOMAIN t = 1 .. Len(s) + 1 /\ DOMAIN s = 1 .. Len(s)
      /\ \A i \in 1 .. Len(s) : t[i] = s[i]
      /\ t[Len(s) + 1] = e /\ Len(s) \in Nat
  BY SMT
<1> HIDE DEF t
<1>2. {t[i] : i \in DOMAIN t} = {s[i] : i \in DOMAIN s} \cup {e}
  BY <1>1
<1> QED BY <1>2 DEF ToSet, t

LEMMA AppendedPrefix ==
    ASSUME NEW s \in Seq(Entry), NEW e \in Entry
    PROVE  IsPrefix(s, Append(s, e))
<1> DEFINE t == Append(s, e)
<1>1. Len(s) \in Nat /\ Len(t) = Len(s) + 1 /\ \A i \in 1 .. Len(s) : t[i] = s[i]
  BY SMT
<1>2. SubSeq(s, 1, Len(s)) = SubSeq(t, 1, Len(s))
  BY SMT
<1> QED BY <1>1, <1>2 DEF IsPrefix

\* A fresh entry makes an events file that is there, in which no command is
\* twice if the record had it once and did not have this one.
LEMMA AppendedFresh ==
    ASSUME NEW s \in Seq(Entry), NEW e \in Entry
    PROVE  /\ Append(s, e) \in Seq(Entry)
           /\ e.id # 0 => Append(s, e) # NoEvents
           /\ Once(s) /\ (\A i \in DOMAIN s : s[i].cmd # e.cmd) => Once(Append(s, e))
<1> DEFINE t == Append(s, e)
<1>1. /\ DOMAIN t = 1 .. Len(s) + 1 /\ DOMAIN s = 1 .. Len(s)
      /\ \A i \in 1 .. Len(s) : t[i] = s[i]
      /\ t[Len(s) + 1] = e /\ Len(s) \in Nat
      /\ t \in Seq(Entry) /\ Len(t) = Len(s) + 1
  BY SMT
<1> HIDE DEF t
<1>2. ASSUME e.id # 0, t = NoEvents
      PROVE  FALSE
  <2>1. Len(t) = 1 /\ t[1].id = 0
    BY <1>2 DEF NoEvents
  <2>2. t[1] = e
    BY <1>1, <2>1
  <2> QED BY <1>2, <2>1, <2>2
<1>3. ASSUME Once(s), \A i \in DOMAIN s : s[i].cmd # e.cmd
      PROVE  Once(t)
  BY <1>1, <1>3 DEF Once
<1> QED BY <1>1, <1>2, <1>3 DEF t

LEMMA Markers ==
    /\ Missing \in StateFile /\ Missing.rev = -1 /\ Missing.applied = <<>>
    /\ NoEvents \in Seq(Entry) /\ <<>> \in Seq(Entry)
    /\ ToSet(<<>>) = {}
    /\ Once(<<>>)
    /\ Absent \in Directory
    /\ Absent.state = Missing /\ Absent.events = NoEvents /\ Absent.artifacts = {}
    /\ Idle \in Runtime
    /\ Idle.pc = "idle" /\ Idle.state = Missing
<1>1. Missing \in StateFile /\ Missing.rev = -1 /\ Missing.applied = <<>>
  BY DEF Missing, StateFile
<1>2. [cmd |-> Create, id |-> 0] \in Entry
  BY StoreAssumption DEF Entry
<1>3. NoEvents \in Seq(Entry) /\ <<>> \in Seq(Entry)
  BY <1>2 DEF NoEvents
<1>4. ToSet(<<>>) = {} /\ Once(<<>>)
  BY DEF ToSet, Once
<1>5. Idle \in Runtime /\ Idle.pc = "idle" /\ Idle.state = Missing
  BY <1>1, <1>2, <1>3 DEF Idle, Runtime, Steps
<1>6. Absent \in Directory /\ Absent.state = Missing /\ Absent.events = NoEvents
      /\ Absent.artifacts = {}
  BY <1>1, <1>3 DEF Absent, Directory
<1> QED BY <1>1, <1>3, <1>4, <1>5, <1>6

\* A state file with a revision is not the marker of a missing one.
LEMMA StateFiles ==
    ASSUME NEW s \in StateFile
    PROVE  /\ s.applied \in Seq(Entry)
           /\ s.rev \in Int
           /\ s # Missing <=> s.rev >= 0
           /\ s # Missing => s \in [rev : Nat, applied : Seq(Entry)]
<1>1. CASE s = Missing
  BY <1>1, Markers
<1>2. CASE s \in [rev : Nat, applied : Seq(Entry)]
  BY <1>2, Markers, StoreAssumption
<1> QED BY <1>1, <1>2 DEF StateFile

---------------------------------------------------------------------------
(* One process moves.                                                      *)

\* The lock file and the move of one process.
LEMMA LockMoves ==
    ASSUME StoreTypes, LockInv,
           NEW p \in Processes, NEW new \in Runtime,
           proc' = [proc EXCEPT ![p] = new]
    PROVE  /\ lockFile' = lockFile /\ new.pc \in Writing /\ proc[p].pc \in Writing => LockInv'
           /\ lockFile' = Unlocked /\ new.pc = "idle" /\ proc[p].pc \in Writing => LockInv'
           /\ lockFile = p /\ lockFile' = Ghost /\ new.pc = "idle" => LockInv'
           /\ lockFile' = lockFile /\ new.pc \notin Writing \cup {"unlinking"} => LockInv'
           /\ lockFile = Unlocked /\ lockFile' = p /\ new.pc \in Writing => LockInv'
           /\ lockFile = Ghost /\ lockFile' = Ghost /\ new.pc = "unlinking"
              /\ (\A q \in Processes : proc[q].pc = "unlinking" => q = p) => LockInv'
           /\ proc[p].pc = "unlinking" /\ lockFile' = Unlocked /\ new.pc = "idle" => LockInv'
<1>1. /\ proc'[p] = new
      /\ \A q \in Processes : q # p => proc'[q] = proc[q]
  BY DEF StoreTypes
<1>2. Ghost \notin Processes /\ Unlocked \notin Processes /\ Ghost # Unlocked
  BY StoreAssumption DEF Ghost, Unlocked
<1>3. "idle" \notin Writing /\ "unlinking" \notin Writing
  BY DEF Writing, Commanding, Restoring
<1>4. /\ lockFile \in Processes \cup {Unlocked, Ghost}
      /\ \A q \in Processes :
           /\ proc[q].pc \in Writing => lockFile = q
           /\ proc[q].pc = "unlinking" => lockFile = Ghost
      /\ \A q, o \in Processes :
           proc[q].pc = "unlinking" /\ proc[o].pc = "unlinking" => q = o
  BY DEF LockInv
<1>5. ASSUME /\ lockFile' \in Processes \cup {Unlocked, Ghost}
             /\ new.pc \in Writing => lockFile' = p
             /\ new.pc = "unlinking" =>
                  /\ lockFile' = Ghost
                  /\ \A q \in Processes : proc[q].pc = "unlinking" => q = p
             /\ \A q \in Processes : q # p =>
                  /\ proc[q].pc \in Writing => lockFile' = q
                  /\ proc[q].pc = "unlinking" => lockFile' = Ghost
      PROVE  LockInv'
  BY <1>1, <1>4, <1>5 DEF LockInv
<1>6. lockFile' = lockFile /\ new.pc \in Writing /\ proc[p].pc \in Writing => LockInv'
  BY <1>2, <1>3, <1>4, <1>5
<1>7. lockFile' = Unlocked /\ new.pc = "idle" /\ proc[p].pc \in Writing => LockInv'
  BY <1>2, <1>3, <1>4, <1>5
<1>8. lockFile = p /\ lockFile' = Ghost /\ new.pc = "idle" => LockInv'
  BY <1>2, <1>3, <1>4, <1>5
<1>9. lockFile' = lockFile /\ new.pc \notin Writing \cup {"unlinking"} => LockInv'
  BY <1>2, <1>3, <1>4, <1>5
<1>10. lockFile = Unlocked /\ lockFile' = p /\ new.pc \in Writing => LockInv'
  BY <1>2, <1>3, <1>4, <1>5
<1>11. lockFile = Ghost /\ lockFile' = Ghost /\ new.pc = "unlinking"
        /\ (\A q \in Processes : proc[q].pc = "unlinking" => q = p) => LockInv'
  BY <1>2, <1>3, <1>4, <1>5
<1>12. proc[p].pc = "unlinking" /\ lockFile' = Unlocked /\ new.pc = "idle" => LockInv'
  BY <1>2, <1>3, <1>4, <1>5
<1> QED BY <1>6, <1>7, <1>8, <1>9, <1>10, <1>11, <1>12

\* A process reads, executes, waits, gives up or stops, and leaves the files
\* as they are.
LEMMA FilesKept ==
    ASSUME StoreInv,
           NEW p \in Processes, NEW new \in Runtime,
           proc' = [proc EXCEPT ![p] = new],
           UNCHANGED <<primary, backup, staged, commits>>,
           runs <= runs', runs' \in 0 .. MaxRuns,
           mishaps' \in 0 .. MaxMishaps,
           crossed' = (crossed \/ Overlap'),
           LockInv',
           Once(new.state.applied),
           RuntimeOf(new)', WriterOf(new)',
           ~crossed => ReadOf(new)' /\ RecoveryOf(new)'
    PROVE  StoreInv'
<1>1. /\ proc'[p] = new
      /\ \A q \in Processes : q # p => proc'[q] = proc[q]
      /\ proc' \in [Processes -> Runtime]
  BY DEF StoreInv, StoreTypes
<1>2. runs \in 0 .. MaxRuns /\ MaxRuns \in Nat
  BY StoreAssumption DEF StoreInv, StoreTypes
<1>3. StoreTypes'
  <2>1. primary' \in Directory /\ backup' \in Directory /\ staged' \in Directory
    BY DEF StoreInv, StoreTypes
  <2>2. crossed' \in BOOLEAN
    BY DEF StoreInv, StoreTypes
  <2>3. \A dir \in {primary', backup', staged'} :
          dir.state # Missing => dir.state.rev \in 1 .. runs'
    BY <1>2 DEF StoreInv, StoreTypes
  <2> QED BY <1>1, <2>1, <2>2, <2>3 DEF StoreTypes
<1>4. OnceInv'
  <2>1. \A dir \in {primary', backup', staged'} : Once(dir.state.applied)
    BY DEF StoreInv, OnceInv
  <2>2. \A q \in Processes : Once(proc'[q].state.applied)
    BY <1>1 DEF StoreInv, OnceInv
  <2> QED BY <2>1, <2>2 DEF OnceInv
<1>5. \A q \in Processes : RuntimeOf(proc[q])'
  <2>1. \A q \in Processes : q # p => RuntimeOf(proc[q])'
    <3> SUFFICES ASSUME NEW q \in Processes, q # p
                 PROVE  RuntimeOf(proc[q])'
      OBVIOUS
    <3>1. RuntimeOf(proc[q]) /\ proc'[q] = proc[q] /\ proc[q].entry.id \in Int
      BY <1>1 DEF StoreInv, StoreTypes, Runtime, Entry
    <3> QED BY <1>2, <3>1 DEF RuntimeOf
  <2> QED BY <1>1, <2>1 DEF RuntimeOf
<1>6. \A q \in Processes : WriterOf(proc[q])'
  <2>1. \A q \in Processes : q # p => WriterOf(proc[q])'
    BY <1>1 DEF StoreInv, WriterOf, CurrentRevision, Loads
  <2> QED BY <1>1, <2>1 DEF WriterOf
<1>7. FirstInv'
  BY DEF StoreInv, FirstInv
<1>8. ASSUME ~crossed'
      PROVE  ~Overlap' /\ FilesInv'
             /\ \A q \in Processes : ReadOf(proc[q])' /\ RecoveryOf(proc[q])'
  <2>1. ~crossed /\ ~Overlap'
    BY <1>8
  <2>2. FilesInv'
    BY <2>1 DEF StoreInv, FilesInv, Ahead, Loads
  <2>3. \A q \in Processes : q # p => ReadOf(proc[q])' /\ RecoveryOf(proc[q])'
    BY <1>1, <2>1 DEF StoreInv, ReadOf, RecoveryOf, CurrentRevision, Loads
  <2>4. ReadOf(proc[p])' /\ RecoveryOf(proc[p])'
    BY <1>1, <2>1 DEF ReadOf, RecoveryOf
  <2> QED BY <2>1, <2>2, <2>3, <2>4
<1> QED BY <1>3, <1>4, <1>5, <1>6, <1>7, <1>8 DEF StoreInv

\* A process gives up, fails or dies: the files stay as they are.
LEMMA BackToIdle ==
    ASSUME StoreInv,
           NEW p \in Processes,
           proc' = [proc EXCEPT ![p] = Idle],
           UNCHANGED <<primary, backup, staged, commits, runs>>,
           mishaps' \in 0 .. MaxMishaps,
           crossed' = (crossed \/ Overlap'),
           LockInv'
    PROVE  StoreInv'
<1> DEFINE new == Idle
<1>1. new \in Runtime /\ new.pc = "idle" /\ Once(new.state.applied)
  BY Markers
<1>2. runs <= runs' /\ runs' \in 0 .. MaxRuns
  BY DEF StoreInv, StoreTypes
<1>3. proc' = [proc EXCEPT ![p] = new]
  OBVIOUS
<1> HIDE DEF new
<1>4. RuntimeOf(new)' /\ WriterOf(new)' /\ ReadOf(new)' /\ RecoveryOf(new)'
  BY <1>1 DEF RuntimeOf, WriterOf, ReadOf, RecoveryOf, Executed, Restoring
<1> QED BY <1>1, <1>2, <1>3, <1>4, FilesKept

LEMMA GoesTo ==
    ASSUME StoreTypes, NEW p \in Processes, NEW pc \in Steps, Goto(p, pc)
    PROVE  \E new \in Runtime :
             /\ proc' = [proc EXCEPT ![p] = new]
             /\ new.pc = pc
             /\ new.state = proc[p].state /\ new.events = proc[p].events
             /\ new.entry = proc[p].entry
<1>1. proc[p] \in Runtime
  BY DEF StoreTypes
<1>2. [proc[p] EXCEPT !.pc = pc] \in Runtime
  BY <1>1 DEF Runtime
<1>3. /\ [proc[p] EXCEPT !.pc = pc].pc = pc
      /\ [proc[p] EXCEPT !.pc = pc].state = proc[p].state
      /\ [proc[p] EXCEPT !.pc = pc].events = proc[p].events
      /\ [proc[p] EXCEPT !.pc = pc].entry = proc[p].entry
  BY <1>1 DEF Runtime
<1> QED BY <1>2, <1>3 DEF Goto

\* A process goes on to a place at which it neither reads nor writes.
LEMMA GoesOn ==
    ASSUME StoreInv,
           NEW p \in Processes, NEW pc \in {"checked", "unlinking", "restoring"},
           Goto(p, pc),
           UNCHANGED <<primary, backup, staged, commits, runs>>,
           mishaps' \in 0 .. MaxMishaps,
           crossed' = (crossed \/ Overlap'),
           LockInv',
           pc # "unlinking" /\ ~crossed => Loads(backup)
    PROVE  StoreInv'
<1>1. proc[p] \in Runtime
  BY DEF StoreInv, StoreTypes
<1>2. pc \in Steps
  BY DEF Steps
<1>3. PICK new \in Runtime : new = [proc[p] EXCEPT !.pc = pc]
  BY <1>1, <1>2 DEF Runtime
<1>4. /\ new.pc = pc /\ new.state = proc[p].state
      /\ proc' = [proc EXCEPT ![p] = new]
  BY <1>1, <1>3 DEF Goto, Runtime
<1>5. Once(new.state.applied)
  BY <1>4 DEF StoreInv, OnceInv
<1>6. runs <= runs' /\ runs' \in 0 .. MaxRuns
  BY DEF StoreInv, StoreTypes
<1>7. Loads(backup)' = Loads(backup)
  BY DEF Loads
<1>8. RuntimeOf(new)' /\ WriterOf(new)'
  BY <1>4 DEF RuntimeOf, WriterOf, Executed
<1>9. ~crossed => ReadOf(new)' /\ RecoveryOf(new)'
  BY <1>4, <1>7 DEF ReadOf, RecoveryOf, Executed, Restoring
<1> QED BY <1>4, <1>5, <1>6, <1>8, <1>9, FilesKept

\* A command that creates the project starts with its own entry.
LEMMA NewKeepsInv ==
    ASSUME StoreInv, NEW p \in Processes, New(p),
           crossed' = (crossed \/ Overlap')
    PROVE  StoreInv'
<1>1. /\ runs \in 0 .. MaxRuns /\ runs < MaxRuns /\ MaxRuns \in Nat
      /\ mishaps' \in 0 .. MaxMishaps
  BY StoreAssumption DEF New, StoreInv, StoreTypes
<1>2. PICK entry \in Entry : entry = [cmd |-> Create, id |-> runs + 1]
  <2>1. [cmd |-> Create, id |-> runs + 1] \in Entry
    BY <1>1 DEF Entry
  <2> QED BY <2>1
<1>3. PICK state \in StateFile : state = [rev |-> 0, applied |-> <<entry>>]
  <2>1. <<entry>> \in Seq(Entry)
    BY <1>2
  <2>2. [rev |-> 0, applied |-> <<entry>>] \in StateFile
    BY <1>1, <2>1 DEF StateFile
  <2> QED BY <2>2
<1>4. PICK new \in Runtime :
        new = [pc |-> "ready", entry |-> entry, events |-> <<entry>>, state |-> state]
  <2>1. <<entry>> \in Seq(Entry)
    BY <1>2
  <2>2. [pc |-> "ready", entry |-> entry, events |-> <<entry>>, state |-> state] \in Runtime
    BY <1>2, <1>3, <2>1 DEF Runtime, Steps
  <2> QED BY <2>2
<1>5. /\ new.pc = "ready" /\ new.entry = entry /\ new.state = state
      /\ new.events = <<entry>>
      /\ state.rev = 0 /\ state.applied = <<entry>>
      /\ entry.id = runs + 1
  BY <1>2, <1>3, <1>4
<1>6. proc' = [proc EXCEPT ![p] = new]
  BY <1>2, <1>3, <1>4 DEF New
<1>7. <<entry>> = Append(<<>>, entry)
  BY <1>2
<1>8. Append(<<>>, entry) # NoEvents /\ Once(Append(<<>>, entry))
  <2>1. <<>> \in Seq(Entry) /\ \A i \in DOMAIN <<>> : <<>>[i].cmd # entry.cmd
    OBVIOUS
  <2>2. entry.id # 0
    BY <1>1, <1>5
  <2>3. Append(<<>>, entry) # NoEvents
    BY <2>1, <2>2, AppendedFresh
  <2>4. Once(Append(<<>>, entry))
    BY <2>1, Markers, AppendedFresh
  <2> QED BY <2>3, <2>4
<1>9. Missing # state
  BY <1>5, Markers
<1>10. LockInv'
  <2>1. lockFile' = lockFile /\ new.pc \notin Writing \cup {"unlinking"}
    BY <1>5 DEF New, Writing, Commanding
  <2> QED BY <1>6, <2>1, LockMoves DEF StoreInv
<1>11. primary.state = Missing /\ primary' = primary /\ runs' = runs + 1
  BY DEF New
<1>12. RuntimeOf(new)'
  BY <1>1, <1>5, <1>7, <1>8, <1>9, <1>11 DEF RuntimeOf, Executed
<1>13. WriterOf(new)'
  BY <1>5 DEF WriterOf
<1>14. ReadOf(new)' /\ RecoveryOf(new)'
  <2>1. CurrentRevision' = 0
    BY <1>11 DEF CurrentRevision
  <2>2. primary'.state.applied = <<>>
    BY <1>11, Markers
  <2>3. ReadOf(new)'
    BY <1>5, <1>7, <2>1, <2>2 DEF ReadOf
  <2> QED BY <1>5, <2>3 DEF RecoveryOf, Restoring
<1>15. Once(new.state.applied)
  BY <1>5, <1>7, <1>8
<1>16. UNCHANGED <<primary, backup, staged, commits>> /\ runs <= runs' /\ runs' \in 0 .. MaxRuns
  BY <1>1, <1>11 DEF New
<1> QED BY <1>1, <1>6, <1>10, <1>12, <1>13, <1>14, <1>15, <1>16, FilesKept

\* A command that reads the state has it as it is.
LEMMA ReadStateKeepsInv ==
    ASSUME StoreInv, NEW p \in Processes, NEW c \in Commands, ReadState(p, c),
           crossed' = (crossed \/ Overlap')
    PROVE  StoreInv'
<1>1. /\ runs \in 0 .. MaxRuns /\ runs < MaxRuns /\ MaxRuns \in Nat
      /\ mishaps' \in 0 .. MaxMishaps
  BY StoreAssumption DEF ReadState, StoreInv, StoreTypes
<1>2. PICK entry \in Entry : entry = [cmd |-> c, id |-> runs + 1]
  <2>1. [cmd |-> c, id |-> runs + 1] \in Entry
    BY <1>1 DEF Entry
  <2> QED BY <2>1
<1>3. PICK state \in StateFile : state = primary.state
  BY DEF StoreInv, StoreTypes, Directory
<1>4. state # Missing /\ state.rev \in 1 .. runs /\ Once(state.applied)
  BY <1>3 DEF ReadState, StoreInv, StoreTypes, OnceInv
<1>5. UNCHANGED <<primary, backup, staged, commits, lockFile>> /\ runs' = runs + 1
  BY DEF ReadState
<1>6. PICK new \in Runtime :
        new = [Idle EXCEPT !.pc = "reading", !.state = state, !.entry = entry]
  BY Markers DEF Runtime, Steps
<1>13. /\ proc' = [proc EXCEPT ![p] = new]
       /\ new.pc = "reading" /\ new.entry = entry /\ new.state = state
       /\ entry.id = runs + 1
  BY <1>2, <1>3, <1>6, Markers DEF ReadState, Runtime
<1>7. LockInv'
  <2>1. lockFile' = lockFile /\ new.pc \notin Writing \cup {"unlinking"}
    BY <1>5, <1>13 DEF Writing, Commanding, Restoring
  <2> QED BY <1>13, <2>1, LockMoves DEF StoreInv
<1>8. RuntimeOf(new)'
  BY <1>1, <1>4, <1>5, <1>13 DEF RuntimeOf, Executed
<1>9. WriterOf(new)'
  BY <1>13 DEF WriterOf
<1>10. ReadOf(new)'
  <2>1. CurrentRevision' = state.rev
    BY <1>3, <1>4, <1>5 DEF CurrentRevision
  <2> QED BY <1>1, <1>3, <1>4, <1>5, <1>13, <2>1 DEF ReadOf, Executed
<1>11. RecoveryOf(new)'
  BY <1>13 DEF RecoveryOf, Restoring
<1>12. Once(new.state.applied) /\ runs <= runs' /\ runs' \in 0 .. MaxRuns
  BY <1>1, <1>4, <1>5, <1>13
<1> QED BY <1>1, <1>5, <1>7, <1>8, <1>9, <1>10, <1>11, <1>12, <1>13, FilesKept

\* What was read whole executes; a command on record, or a torn read, ends.
LEMMA ReadRestKeepsInv ==
    ASSUME StoreInv, NEW p \in Processes, ReadRest(p),
           crossed' = (crossed \/ Overlap')
    PROVE  StoreInv'
<1> DEFINE me == proc[p]
           goes == Hydrates(me.state, primary.events, primary.artifacts)
                   /\ Fresh(me.state, me.entry.cmd)
<1>1. /\ mishaps' \in 0 .. MaxMishaps /\ runs \in 0 .. MaxRuns /\ MaxRuns \in Nat
      /\ UNCHANGED <<primary, backup, staged, commits, runs, lockFile>>
      /\ runs <= runs' /\ runs' \in 0 .. MaxRuns
      /\ me \in Runtime /\ me.pc = "reading"
  BY StoreAssumption DEF ReadRest, StoreInv, StoreTypes
<1>2. CASE ~goes
  <2>1. proc' = [proc EXCEPT ![p] = Idle]
    BY <1>2 DEF ReadRest
  <2>2. LockInv'
    <3>1. Idle \in Runtime /\ Idle.pc \notin Writing \cup {"unlinking"}
      BY Markers DEF Writing, Commanding, Restoring
    <3> QED BY <1>1, <2>1, <3>1, LockMoves DEF StoreInv
  <2> QED BY <1>1, <2>1, <2>2, BackToIdle
<1>3. CASE goes
  <2> DEFINE entry == me.entry
             state == [me.state EXCEPT !.applied = Append(@, entry)]
             events == Append(primary.events, entry)
  <2>1. /\ me.state \in StateFile /\ me.state # Missing /\ entry \in Entry
        /\ primary.events \in Seq(Entry) /\ primary.state \in StateFile
        /\ Once(me.state.applied)
    BY <1>1, <1>3 DEF Hydrates, StoreInv, StoreTypes, OnceInv, Runtime, Directory
  <2>2. /\ me.state \in [rev : Nat, applied : Seq(Entry)]
        /\ me.state.applied \in Seq(Entry)
        /\ me.state.rev \in Nat
    BY <2>1, StateFiles
  <2>3. /\ me.state.rev < entry.id /\ entry.id <= runs /\ entry.id \in Int
        /\ entry.id # 0
    BY <1>1, <2>1, <2>2 DEF StoreInv, RuntimeOf, Entry
  <2>4. /\ Append(me.state.applied, entry) \in Seq(Entry)
        /\ events \in Seq(Entry)
        /\ events # NoEvents
        /\ Once(Append(me.state.applied, entry))
    <3>1. \A i \in DOMAIN me.state.applied : me.state.applied[i].cmd # entry.cmd
      BY <1>3 DEF Fresh
    <3> QED BY <2>1, <2>2, <2>3, <3>1, AppendedFresh
  <2>5. /\ state \in StateFile /\ state.rev = me.state.rev
        /\ state.applied = Append(me.state.applied, entry)
    BY <2>2, <2>4 DEF StateFile
  <2>6. state # Missing
    <3>1. state.rev >= 0 /\ Missing.rev = -1
      BY <1>1, <2>2, <2>5, Markers
    <3> HIDE DEF state
    <3> QED BY <3>1
  <2>7. Replayed(events) = Replayed(Append(me.state.applied, entry))
    <3>1. Replayed(primary.events) = Replayed(me.state.applied)
      BY <1>3 DEF Hydrates
    <3> QED BY <2>1, <2>2, <3>1, ReplayedOneMore
  <2>8. ToSet(Append(me.state.applied, entry)) = ToSet(me.state.applied) \cup {entry}
        /\ ToSet(events) = ToSet(primary.events) \cup {entry}
    BY <2>1, <2>2, AppendedSet
  <2>9. proc' = [proc EXCEPT ![p] =
                   [me EXCEPT !.pc = "ready", !.events = events, !.state = state]]
    <3>1. [me EXCEPT !.pc = "ready", !.events = Append(primary.events, me.entry),
                     !.state.applied = Append(@, me.entry)]
          = [me EXCEPT !.pc = "ready", !.events = events, !.state = state]
      OBVIOUS
    <3> QED BY <1>3, <3>1 DEF ReadRest
  <2> HIDE DEF state, events
  <2>10. PICK new \in Runtime :
           /\ proc' = [proc EXCEPT ![p] = new]
           /\ new.pc = "ready" /\ new.events = events /\ new.state = state /\ new.entry = entry
    <3> DEFINE now == [me EXCEPT !.pc = "ready", !.events = events, !.state = state]
    <3>1. now \in Runtime /\ now.pc = "ready" /\ now.events = events /\ now.state = state
          /\ now.entry = entry
      BY <1>1, <2>4, <2>5 DEF Runtime, Steps, events
    <3> HIDE DEF now
    <3> QED BY <2>9, <3>1 DEF now
  <2>11. LockInv'
    <3>1. new.pc \notin Writing \cup {"unlinking"}
      BY <2>10 DEF Writing, Commanding, Restoring
    <3> QED BY <1>1, <2>10, <3>1, LockMoves DEF StoreInv
  <2>12. RuntimeOf(new)'
    BY <1>1, <2>3, <2>4, <2>5, <2>6, <2>7, <2>10 DEF RuntimeOf, Executed, events
  <2>13. WriterOf(new)'
    BY <2>10 DEF WriterOf
  <2>14. ~crossed => ReadOf(new)' /\ RecoveryOf(new)'
    <3> SUFFICES ASSUME ~crossed
                 PROVE  ReadOf(new)' /\ RecoveryOf(new)'
      OBVIOUS
    <3>1. /\ me.state.rev <= CurrentRevision
          /\ me.state.rev = CurrentRevision => me.state = primary.state
      BY <1>1 DEF StoreInv, ReadOf
    <3>2. ToSet(primary.state.applied) \subseteq ToSet(primary.events)
      BY DEF StoreInv, FilesInv
    <3>3. CurrentRevision' = CurrentRevision
      BY <1>1 DEF CurrentRevision
    <3>4. new.state.rev = CurrentRevision =>
            /\ new.state.applied = Append(primary.state.applied, new.entry)
            /\ ToSet(new.state.applied) \subseteq ToSet(new.events)
      BY <2>5, <2>8, <2>10, <3>1, <3>2 DEF events
    <3>5. ReadOf(new)'
      BY <1>1, <2>5, <2>10, <3>1, <3>3, <3>4 DEF ReadOf
    <3> QED BY <2>10, <3>5 DEF RecoveryOf, Restoring
  <2>15. Once(new.state.applied)
    BY <2>4, <2>5, <2>10
  <2> QED BY <1>1, <2>10, <2>11, <2>12, <2>13, <2>14, <2>15, FilesKept
<1> QED BY <1>2, <1>3

\* The backup loads; the lock for the recovery is taken, or it ends there.
LEMMA CheckBackupKeepsInv ==
    ASSUME StoreInv, NEW p \in Processes, CheckBackup(p),
           crossed' = (crossed \/ Overlap')
    PROVE  StoreInv'
<1>1. /\ mishaps' \in 0 .. MaxMishaps /\ Loads(backup) /\ lockFile' = lockFile
      /\ UNCHANGED <<primary, backup, staged, commits, runs>> /\ Goto(p, "checked")
  BY StoreAssumption DEF CheckBackup, StoreInv, StoreTypes
<1>2. LockInv'
  <2>1. PICK new \in Runtime : proc' = [proc EXCEPT ![p] = new] /\ new.pc = "checked"
    BY <1>1, GoesTo DEF StoreInv, Steps
  <2>2. new.pc \notin Writing \cup {"unlinking"}
    BY <2>1 DEF Writing
  <2> QED BY <1>1, <2>1, <2>2, LockMoves DEF StoreInv
<1> QED BY <1>1, <1>2, GoesOn

LEMMA LockToRecoverKeepsInv ==
    ASSUME StoreInv, NEW p \in Processes, LockToRecover(p),
           crossed' = (crossed \/ Overlap')
    PROVE  StoreInv'
<1>1. /\ mishaps' \in 0 .. MaxMishaps
      /\ UNCHANGED <<primary, backup, staged, commits, runs>>
  BY DEF LockToRecover, StoreInv, StoreTypes
<1>2. CASE lockFile = Unlocked
  <2>1. lockFile' = p /\ Goto(p, "restoring")
    BY <1>2 DEF LockToRecover
  <2>2. LockInv'
    <3>1. PICK new \in Runtime : proc' = [proc EXCEPT ![p] = new] /\ new.pc = "restoring"
      BY <2>1, GoesTo DEF StoreInv, Steps
    <3>2. new.pc \in Writing
      BY <3>1 DEF Writing, Restoring
    <3> QED BY <1>2, <2>1, <3>1, <3>2, LockMoves DEF StoreInv
  <2>3. ~crossed => Loads(backup)
    BY DEF LockToRecover, StoreInv, RecoveryOf, Restoring
  <2> QED BY <1>1, <2>1, <2>2, <2>3, GoesOn
<1>3. CASE lockFile # Unlocked
  <2>1. lockFile' = lockFile /\ proc' = [proc EXCEPT ![p] = Idle]
    BY <1>3 DEF LockToRecover
  <2>2. Idle \in Runtime /\ Idle.pc \notin Writing \cup {"unlinking"}
    BY Markers DEF Writing, Commanding, Restoring
  <2>3. LockInv'
    BY <2>1, <2>2, LockMoves DEF StoreInv
  <2> QED BY <1>1, <2>1, <2>3, BackToIdle
<1> QED BY <1>2, <1>3

\* The lock of a dead process is found, and later unlinked, by one clearer.
LEMMA ClearingKeepsInv ==
    ASSUME StoreInv, NEW p \in Clearers, FindStale(p) \/ UnlinkStale(p),
           crossed' = (crossed \/ Overlap'), ~Misjudged'
    PROVE  StoreInv'
<1>1. /\ mishaps' \in 0 .. MaxMishaps /\ p \in Processes
      /\ UNCHANGED <<primary, backup, staged, commits, runs>>
  BY StoreAssumption DEF FindStale, UnlinkStale, StoreInv, StoreTypes
<1>2. CASE FindStale(p)
  <2>1. lockFile' = lockFile /\ Goto(p, "unlinking")
        /\ (lockFile = Ghost \/ <<p, lockFile>> \in Unseen)
    BY <1>2 DEF FindStale
  <2>2. PICK new \in Runtime : proc' = [proc EXCEPT ![p] = new] /\ new.pc = "unlinking"
    BY <1>1, <2>1, GoesTo DEF StoreInv, Steps
  <2>3. proc'[p].pc = "unlinking" /\ \A q \in Processes : q # p => proc'[q] = proc[q]
    BY <1>1, <2>2 DEF StoreInv, StoreTypes
  <2>4. lockFile = Ghost /\ \A q \in Processes : proc[q].pc = "unlinking" => q = p
    BY <1>1, <2>1, <2>3 DEF Misjudged
  <2>5. LockInv'
    BY <1>1, <2>1, <2>2, <2>4, LockMoves DEF StoreInv
  <2> QED BY <1>1, <2>1, <2>5, GoesOn
<1>3. CASE UnlinkStale(p)
  <2>1. proc[p].pc = "unlinking" /\ lockFile' = Unlocked /\ proc' = [proc EXCEPT ![p] = Idle]
    BY <1>3 DEF UnlinkStale
  <2>2. LockInv'
    BY <1>1, <2>1, Markers, LockMoves DEF StoreInv
  <2> QED BY <1>1, <2>1, <2>2, BackToIdle
<1> QED BY <1>2, <1>3

\* A file operation raises, a file it needs is gone, or the process dies.
LEMMA StopsKeepInv ==
    ASSUME StoreInv, NEW p \in Processes,
           Fail(p) \/ Die(p) \/ RestoreFails(p) \/ SwapFails(p),
           crossed' = (crossed \/ Overlap')
    PROVE  StoreInv'
<1>1. /\ mishaps' \in 0 .. MaxMishaps
      /\ UNCHANGED <<primary, backup, staged, commits, runs>>
      /\ proc' = [proc EXCEPT ![p] = Idle]
      /\ proc[p].pc \in Writing
  BY StoreAssumption DEF Fail, Die, RestoreFails, SwapFails, StoreInv, StoreTypes, Writing,
                         Commanding, Restoring
<1>2. lockFile = p
  BY <1>1 DEF StoreInv, LockInv
<1>3. lockFile' = Unlocked \/ lockFile' = Ghost
  BY <1>2 DEF Fail, Die, RestoreFails, SwapFails
<1>4. LockInv'
  BY <1>1, <1>2, <1>3, Markers, LockMoves DEF StoreInv
<1> QED BY <1>1, <1>4, BackToIdle

---------------------------------------------------------------------------
(* One process writes.                                                     *)

\* A process holds the lock: no other one writes.
Alone(p) == \A q \in Processes : q # p => proc[q].pc \notin Writing

LEMMA WriterIsAlone ==
    ASSUME StoreInv, NEW p \in Processes
    PROVE  /\ proc[p].pc \in Writing => Alone(p)
           /\ lockFile = Unlocked => Alone(p)
  BY StoreAssumption DEF StoreInv, LockInv, Alone

\* A process changes a part of the directory, of the backup or of its copy,
\* while nobody else writes: what the others need is untouched.
LEMMA FilesChange ==
    ASSUME StoreInv,
           NEW p \in Processes, NEW new \in Runtime,
           proc' = [proc EXCEPT ![p] = new],
           Alone(p),
           runs' = runs, mishaps' = mishaps,
           crossed' = (crossed \/ Overlap'),
           primary' \in Directory, backup' \in Directory, staged' \in Directory,
           \A dir \in {primary', backup', staged'} :
             /\ dir.state # Missing => dir.state.rev \in 1 .. runs
             /\ Once(dir.state.applied),
           LockInv',
           Once(new.state.applied),
           RuntimeOf(new)', WriterOf(new)',
           FirstInv',
           ~crossed' => ReadOf(new)' /\ RecoveryOf(new)' /\ FilesInv',
           \/ primary'.state = primary.state
           \/ CurrentRevision' > CurrentRevision
           \/ new.pc \in Restoring,
           backup' = backup \/ new.pc \in Commanding
    PROVE  StoreInv'
<1>1. /\ proc'[p] = new
      /\ \A q \in Processes : q # p => proc'[q] = proc[q]
      /\ proc' \in [Processes -> Runtime]
  BY DEF StoreInv, StoreTypes
<1>2. StoreTypes'
  <2>1. runs' \in 0 .. MaxRuns /\ mishaps' \in 0 .. MaxMishaps /\ crossed' \in BOOLEAN
    BY DEF StoreInv, StoreTypes
  <2> QED BY <1>1, <2>1 DEF StoreTypes
<1>3. OnceInv'
  <2>1. \A q \in Processes : Once(proc'[q].state.applied)
    BY <1>1 DEF StoreInv, OnceInv
  <2> QED BY <2>1 DEF OnceInv
<1>4. \A q \in Processes : RuntimeOf(proc[q])'
  BY <1>1 DEF StoreInv, RuntimeOf
<1>5. \A q \in Processes : WriterOf(proc[q])'
  <2>1. \A q \in Processes : q # p => WriterOf(proc[q])'
    <3>1. {"staged", "writing", "artifacts", "events", "state"} \subseteq Writing
      BY DEF Writing, Commanding
    <3> QED BY <1>1, <3>1 DEF WriterOf, Alone
  <2> QED BY <1>1, <2>1 DEF WriterOf
<1>6. ASSUME ~crossed'
      PROVE  ~Overlap' /\ FilesInv'
             /\ \A q \in Processes : ReadOf(proc[q])' /\ RecoveryOf(proc[q])'
  <2>1. ~crossed /\ ~Overlap'
    BY <1>6
  <2>2. \A q \in Processes : q # p => ReadOf(proc[q])'
    <3> SUFFICES ASSUME NEW q \in Processes, q # p
                 PROVE  ReadOf(proc[q])'
      OBVIOUS
    <3>1. proc'[q] = proc[q] /\ ReadOf(proc[q])
      BY <1>1, <2>1 DEF StoreInv
    <3>2. \/ primary'.state = primary.state
          \/ CurrentRevision' > CurrentRevision
          \/ proc[q].pc \notin Commanding
      BY <1>1, <2>1 DEF Overlap
    <3>3. CASE primary'.state = primary.state
      BY <3>1, <3>3 DEF ReadOf, CurrentRevision
    <3>4. CASE CurrentRevision' > CurrentRevision
      <4>1. CurrentRevision \in Int /\ CurrentRevision' \in Int
        BY StateFiles DEF StoreInv, StoreTypes, Directory, CurrentRevision
      <4>2. proc[q].state.rev \in Int
        BY StateFiles DEF StoreInv, StoreTypes, Runtime
      <4> HIDE DEF CurrentRevision
      <4>3. proc[q].pc \in {"reading"} \cup Executed => proc[q].state.rev <= CurrentRevision
        BY <3>1 DEF ReadOf
      <4>4. proc[q].pc \in {"reading"} \cup Executed => proc[q].state.rev < CurrentRevision'
        BY <3>4, <4>1, <4>2, <4>3
      <4> QED BY <3>1, <4>1, <4>2, <4>4 DEF ReadOf
    <3>5. CASE proc[q].pc \notin Commanding
      <4>1. {"reading"} \cup Executed \subseteq Commanding
        BY DEF Executed, Commanding
      <4> QED BY <3>1, <3>5, <4>1 DEF ReadOf
    <3> QED BY <3>2, <3>3, <3>4, <3>5
  <2>3. \A q \in Processes : q # p => RecoveryOf(proc[q])'
    <3> SUFFICES ASSUME NEW q \in Processes, q # p
                 PROVE  RecoveryOf(proc[q])'
      OBVIOUS
    <3>1. proc'[q] = proc[q] /\ RecoveryOf(proc[q]) /\ proc[q].pc \notin Writing
      BY <1>1, <2>1 DEF StoreInv, Alone
    <3>2. backup' = backup \/ proc[q].pc \notin Restoring
      BY <1>1, <2>1 DEF Overlap
    <3>3. {"copying", "clearing", "restored"} \subseteq Writing
      BY DEF Writing, Restoring
    <3> QED BY <3>1, <3>2, <3>3 DEF RecoveryOf, Loads
  <2>4. ReadOf(proc[p])' /\ RecoveryOf(proc[p])'
    BY <1>1, <1>6 DEF ReadOf, RecoveryOf
  <2> QED BY <1>6, <2>1, <2>2, <2>3, <2>4
<1> QED BY <1>2, <1>3, <1>4, <1>5, <1>6 DEF StoreInv

\* The lock is taken and the copy of the directory made, or the save ends.
LEMMA LockKeepsInv ==
    ASSUME StoreInv, NEW p \in Processes, Lock(p),
           crossed' = (crossed \/ Overlap')
    PROVE  StoreInv'
<1>1. /\ UNCHANGED <<primary, backup, commits, runs, mishaps>>
      /\ mishaps' \in 0 .. MaxMishaps /\ proc[p].pc = "ready"
  BY DEF Lock, StoreInv, StoreTypes
<1>2. CASE ~(lockFile = Unlocked /\ MaySave(p))
  <2>1. UNCHANGED <<lockFile, staged>> /\ proc' = [proc EXCEPT ![p] = Idle]
    BY <1>2 DEF Lock
  <2>2. Idle \in Runtime /\ Idle.pc \notin Writing \cup {"unlinking"}
    BY Markers DEF Writing, Commanding, Restoring
  <2>3. LockInv'
    BY <2>1, <2>2, LockMoves DEF StoreInv
  <2> QED BY <1>1, <2>1, <2>3, BackToIdle
<1>3. CASE lockFile = Unlocked /\ MaySave(p)
  <2> DEFINE pc == IF primary.state = Missing THEN "writing" ELSE "staged"
  <2>1. /\ lockFile' = p /\ Goto(p, pc)
        /\ staged' = IF primary.state = Missing THEN staged ELSE primary
        /\ CurrentRevision = proc[p].state.rev
        /\ primary.state # Missing => Loads(primary)
    BY <1>3 DEF Lock, MaySave
  <2>2. PICK new \in Runtime :
          /\ proc' = [proc EXCEPT ![p] = new]
          /\ new.pc = pc
          /\ new.state = proc[p].state /\ new.events = proc[p].events
          /\ new.entry = proc[p].entry
    <3>1. pc \in Steps
      BY DEF Steps
    <3> HIDE DEF pc
    <3> QED BY <2>1, <3>1, GoesTo DEF StoreInv
  <2>3. Alone(p)
    BY <1>3, WriterIsAlone
  <2>4. /\ primary' \in Directory /\ backup' \in Directory /\ staged' \in Directory
        /\ \A dir \in {primary', backup', staged'} :
             /\ dir.state # Missing => dir.state.rev \in 1 .. runs
             /\ Once(dir.state.applied)
    BY <1>1, <2>1 DEF StoreInv, StoreTypes, OnceInv
  <2>5. LockInv'
    <3>1. new.pc \in Writing
      BY <2>2 DEF Writing, Commanding
    <3> QED BY <1>3, <2>1, <2>2, <3>1, LockMoves DEF StoreInv
  <2>6. Once(new.state.applied)
    BY <2>2 DEF StoreInv, OnceInv
  <2>7. RuntimeOf(new)'
    BY <1>1, <2>2 DEF StoreInv, RuntimeOf, Executed
  <2>8. WriterOf(new)'
    BY <1>1, <2>1, <2>2 DEF WriterOf, CurrentRevision, Loads
  <2>9. FirstInv'
    BY <1>1 DEF StoreInv, FirstInv
  <2>10. ASSUME ~crossed'
         PROVE  ReadOf(new)' /\ RecoveryOf(new)' /\ FilesInv'
    <3>1. ReadOf(proc[p]) /\ FilesInv
      BY <2>10 DEF StoreInv
    <3>2. ReadOf(new)'
      BY <1>1, <2>2, <3>1 DEF ReadOf, Executed, CurrentRevision
    <3>3. RecoveryOf(new)'
      BY <2>2 DEF RecoveryOf, Restoring
    <3>4. FilesInv'
      BY <1>1, <2>1, <3>1 DEF FilesInv, Ahead, Loads
    <3> QED BY <3>2, <3>3, <3>4
  <2> QED BY <1>1, <2>2, <2>3, <2>4, <2>5, <2>6, <2>7, <2>8, <2>9, <2>10, FilesChange
<1> QED BY <1>2, <1>3

\* The old backup goes, part by part, while the directory and the copy load.
LEMMA DropPartKeepsInv ==
    ASSUME StoreInv, NEW p \in Processes, DropPart(p),
           crossed' = (crossed \/ Overlap')
    PROVE  StoreInv'
<1>1. /\ UNCHANGED <<primary, staged, lockFile, proc, commits, runs, mishaps>>
      /\ mishaps' \in 0 .. MaxMishaps
      /\ proc[p].pc = "staged" /\ proc[p] \in Runtime
  BY DEF DropPart, StoreInv, StoreTypes
<1>2. /\ backup \in Directory
      /\ \/ backup' = [backup EXCEPT !.state = Missing]
         \/ backup' = [backup EXCEPT !.events = NoEvents]
         \/ backup' = [backup EXCEPT !.artifacts = {}]
  BY DEF DropPart, StoreInv, StoreTypes
<1>3. /\ backup' \in Directory
      /\ backup'.state \in {backup.state, Missing}
      /\ backup'.events \in {backup.events, NoEvents}
  BY <1>2, Markers DEF Directory
<1>4. Alone(p) /\ proc[p].pc \in Writing
  BY <1>1, WriterIsAlone DEF Writing, Commanding
<1>5. \A dir \in {primary', backup', staged'} :
        /\ dir.state # Missing => dir.state.rev \in 1 .. runs
        /\ Once(dir.state.applied)
  BY <1>1, <1>3, Markers DEF StoreInv, StoreTypes, OnceInv
<1>6. PICK new \in Runtime : new = proc[p]
  BY <1>1
<1>7. proc' = [proc EXCEPT ![p] = new]
  BY <1>1, <1>6 DEF StoreInv, StoreTypes
<1>8. LockInv'
  BY <1>1 DEF StoreInv, LockInv
<1>9. Once(new.state.applied) /\ RuntimeOf(new)'
  BY <1>1, <1>6 DEF StoreInv, OnceInv, RuntimeOf
<1>10. WriterOf(new)'
  <2>1. WriterOf(proc[p])
    BY DEF StoreInv
  <2> QED BY <1>1, <1>6, <2>1 DEF WriterOf, CurrentRevision, Loads
<1>11. FirstInv'
  BY <1>1, <1>3 DEF StoreInv, FirstInv
<1>12. ASSUME ~crossed'
       PROVE  ReadOf(new)' /\ RecoveryOf(new)' /\ FilesInv'
  <2>1. ReadOf(proc[p]) /\ FilesInv /\ Loads(primary)
    BY <1>1, <1>12 DEF StoreInv, WriterOf
  <2>2. ReadOf(new)'
    BY <1>1, <1>6, <2>1 DEF ReadOf, CurrentRevision
  <2>3. RecoveryOf(new)'
    BY <1>1, <1>6 DEF RecoveryOf, Restoring
  <2>4. FilesInv'
    <3>1. Ahead(backup)'
      BY <1>3, <2>1, Markers DEF FilesInv, Ahead
    <3> QED BY <1>1, <1>3, <2>1, <3>1 DEF FilesInv, Ahead, Loads
  <2> QED BY <2>2, <2>3, <2>4
<1>13. new.pc \in Commanding
  BY <1>1, <1>6 DEF Commanding
<1> QED BY <1>1, <1>3, <1>4, <1>5, <1>7, <1>8, <1>9, <1>10, <1>11, <1>12, <1>13, FilesChange
           DEF StoreInv, StoreTypes

\* The copy becomes the backup: it is the directory as it is.
LEMMA SwapKeepsInv ==
    ASSUME StoreInv, NEW p \in Processes, Swap(p),
           crossed' = (crossed \/ Overlap')
    PROVE  StoreInv'
<1>1. /\ UNCHANGED <<primary, lockFile, commits, runs, mishaps>>
      /\ backup' = staged /\ staged' = Absent /\ Goto(p, "writing")
      /\ proc[p].pc = "staged"
  BY DEF Swap
<1>2. Loads(primary) /\ staged = primary /\ CurrentRevision = proc[p].state.rev
  BY <1>1 DEF StoreInv, WriterOf
<1>3. PICK new \in Runtime :
        /\ proc' = [proc EXCEPT ![p] = new]
        /\ new.pc = "writing"
        /\ new.state = proc[p].state /\ new.events = proc[p].events
        /\ new.entry = proc[p].entry
  BY <1>1, GoesTo DEF StoreInv, Steps
<1>4. Alone(p) /\ proc[p].pc \in Writing /\ new.pc \in Writing /\ new.pc \in Commanding
  BY <1>1, <1>3, WriterIsAlone DEF Writing, Commanding
<1>5. /\ primary' \in Directory /\ backup' \in Directory /\ staged' \in Directory
      /\ \A dir \in {primary', backup', staged'} :
           /\ dir.state # Missing => dir.state.rev \in 1 .. runs
           /\ Once(dir.state.applied)
  BY <1>1, Markers DEF StoreInv, StoreTypes, OnceInv
<1>6. LockInv'
  BY <1>1, <1>3, <1>4, LockMoves DEF StoreInv
<1>7. Once(new.state.applied)
  BY <1>3 DEF StoreInv, OnceInv
<1>8. RuntimeOf(new)'
  BY <1>1, <1>3 DEF StoreInv, RuntimeOf, Executed
<1>9. WriterOf(new)'
  BY <1>1, <1>2, <1>3 DEF WriterOf, CurrentRevision, Loads
<1>10. FirstInv'
  BY <1>1, <1>2 DEF StoreInv, FirstInv
<1>11. ASSUME ~crossed'
       PROVE  ReadOf(new)' /\ RecoveryOf(new)' /\ FilesInv'
  <2>1. ReadOf(proc[p]) /\ FilesInv
    BY <1>11 DEF StoreInv
  <2>2. ReadOf(new)'
    BY <1>1, <1>3, <2>1 DEF ReadOf, Executed, CurrentRevision
  <2>3. RecoveryOf(new)'
    BY <1>3 DEF RecoveryOf, Restoring
  <2>4. FilesInv'
    <3>1. Ahead(backup)' /\ Ahead(staged)'
      BY <1>1, <1>2, <2>1, Markers DEF FilesInv, Ahead
    <3>2. primary.state.rev \in Int
      BY StateFiles DEF StoreInv, StoreTypes, Directory
    <3> QED BY <1>1, <1>2, <2>1, <3>1, <3>2 DEF FilesInv, Loads
  <2> QED BY <2>2, <2>3, <2>4
<1> QED BY <1>1, <1>3, <1>4, <1>5, <1>6, <1>7, <1>8, <1>9, <1>10, <1>11, FilesChange

\* More artifacts: what loaded still loads.
LEMMA WriteArtifactsKeepsInv ==
    ASSUME StoreInv, NEW p \in Processes, WriteArtifacts(p),
           crossed' = (crossed \/ Overlap')
    PROVE  StoreInv'
<1>1. /\ UNCHANGED <<backup, staged, lockFile, commits, runs, mishaps>>
      /\ Goto(p, "artifacts") /\ proc[p].pc = "writing"
      /\ primary' = [primary EXCEPT !.artifacts = @ \cup ToSet(proc[p].state.applied)]
  BY DEF WriteArtifacts
<1>2. PICK new \in Runtime :
        /\ proc' = [proc EXCEPT ![p] = new]
        /\ new.pc = "artifacts"
        /\ new.state = proc[p].state /\ new.events = proc[p].events
        /\ new.entry = proc[p].entry
  BY <1>1, GoesTo DEF StoreInv, Steps
<1>3. ToSet(proc[p].state.applied) \subseteq Entry
  <2>1. proc[p].state.applied \in Seq(Entry)
    BY StateFiles DEF StoreInv, StoreTypes, Runtime
  <2> QED BY <2>1 DEF ToSet
<1>4. /\ primary' \in Directory
      /\ primary'.state = primary.state /\ primary'.events = primary.events
      /\ primary'.artifacts = primary.artifacts \cup ToSet(proc[p].state.applied)
  BY <1>1, <1>3 DEF StoreInv, StoreTypes, Directory
<1>5. Loads(primary) => Loads(primary)'
  BY <1>4 DEF Loads, Hydrates
<1>6. Alone(p) /\ proc[p].pc \in Writing /\ new.pc \in Writing
  BY <1>1, <1>2, WriterIsAlone DEF Writing, Commanding
<1>7. /\ backup' \in Directory /\ staged' \in Directory
      /\ \A dir \in {primary', backup', staged'} :
           /\ dir.state # Missing => dir.state.rev \in 1 .. runs
           /\ Once(dir.state.applied)
  BY <1>1, <1>4 DEF StoreInv, StoreTypes, OnceInv
<1>8. LockInv'
  BY <1>1, <1>2, <1>6, LockMoves DEF StoreInv
<1>9. Once(new.state.applied)
  BY <1>2 DEF StoreInv, OnceInv
<1>10. RuntimeOf(new)'
  BY <1>1, <1>2 DEF StoreInv, RuntimeOf, Executed
<1>11. WriterOf(new)'
  <2>1. WriterOf(proc[p])
    BY DEF StoreInv
  <2>2. Loads(backup)' = Loads(backup)
    BY <1>1 DEF Loads
  <2> QED BY <1>1, <1>2, <1>4, <2>1, <2>2 DEF WriterOf, CurrentRevision
<1>12. FirstInv'
  BY <1>1, <1>4 DEF StoreInv, FirstInv
<1>13. ASSUME ~crossed'
       PROVE  ReadOf(new)' /\ RecoveryOf(new)' /\ FilesInv'
  <2>1. ReadOf(proc[p]) /\ FilesInv
    BY <1>13 DEF StoreInv
  <2>2. ReadOf(new)'
    BY <1>1, <1>2, <1>4, <2>1 DEF ReadOf, Executed, CurrentRevision
  <2>3. RecoveryOf(new)'
    BY <1>2 DEF RecoveryOf, Restoring
  <2>4. Loads(backup)' = Loads(backup) /\ Ahead(backup)' = Ahead(backup)
        /\ Ahead(staged)' = Ahead(staged)
    BY <1>1 DEF Loads, Ahead
  <2>5. FilesInv'
    BY <1>1, <1>4, <1>5, <2>1, <2>4 DEF FilesInv
  <2> QED BY <2>2, <2>3, <2>5
<1> QED BY <1>1, <1>2, <1>4, <1>6, <1>7, <1>8, <1>9, <1>10, <1>11, <1>12, <1>13, FilesChange

\* The events go ahead of the state: from here the backup is what loads.
LEMMA WriteEventsKeepsInv ==
    ASSUME StoreInv, NEW p \in Processes, WriteEvents(p),
           crossed' = (crossed \/ Overlap')
    PROVE  StoreInv'
<1>1. /\ UNCHANGED <<backup, staged, lockFile, commits, runs, mishaps>>
      /\ Goto(p, "events") /\ proc[p].pc = "artifacts"
      /\ primary' = [primary EXCEPT !.events = proc[p].events]
  BY DEF WriteEvents
<1>2. PICK new \in Runtime :
        /\ proc' = [proc EXCEPT ![p] = new]
        /\ new.pc = "events"
        /\ new.state = proc[p].state /\ new.events = proc[p].events
        /\ new.entry = proc[p].entry
  BY <1>1, GoesTo DEF StoreInv, Steps
<1>3. proc[p].events \in Seq(Entry)
  BY DEF StoreInv, StoreTypes, Runtime
<1>4. /\ primary' \in Directory
      /\ primary'.state = primary.state /\ primary'.events = proc[p].events
      /\ primary'.artifacts = primary.artifacts
  BY <1>1, <1>3 DEF StoreInv, StoreTypes, Directory
<1>5. WriterOf(proc[p])
  BY DEF StoreInv
<1>6. Loads(backup)' = Loads(backup)
  BY <1>1 DEF Loads
<1>7. Alone(p) /\ proc[p].pc \in Writing /\ new.pc \in Writing
  BY <1>1, <1>2, WriterIsAlone DEF Writing, Commanding
<1>8. /\ backup' \in Directory /\ staged' \in Directory
      /\ \A dir \in {primary', backup', staged'} :
           /\ dir.state # Missing => dir.state.rev \in 1 .. runs
           /\ Once(dir.state.applied)
  BY <1>1, <1>4 DEF StoreInv, StoreTypes, OnceInv
<1>9. LockInv'
  BY <1>1, <1>2, <1>7, LockMoves DEF StoreInv
<1>10. Once(new.state.applied)
  BY <1>2 DEF StoreInv, OnceInv
<1>11. RuntimeOf(new)'
  BY <1>1, <1>2 DEF StoreInv, RuntimeOf, Executed
<1>12. WriterOf(new)'
  BY <1>1, <1>2, <1>4, <1>5, <1>6 DEF WriterOf, CurrentRevision
<1>13. FirstInv'
  BY <1>1, <1>4 DEF StoreInv, FirstInv
<1>14. ASSUME ~crossed'
       PROVE  ReadOf(new)' /\ RecoveryOf(new)' /\ FilesInv'
  <2>1. ReadOf(proc[p]) /\ FilesInv
    BY <1>14 DEF StoreInv
  <2>2. ReadOf(new)'
    BY <1>1, <1>2, <1>4, <2>1 DEF ReadOf, Executed, CurrentRevision
  <2>3. RecoveryOf(new)'
    BY <1>2 DEF RecoveryOf, Restoring
  <2>4. ToSet(primary.state.applied) \subseteq ToSet(proc[p].events)
    <3>1. /\ proc[p].state.applied = Append(primary.state.applied, proc[p].entry)
          /\ ToSet(proc[p].state.applied) \subseteq ToSet(proc[p].events)
      BY <1>1, <1>5, <2>1 DEF ReadOf, WriterOf, Executed
    <3>2. primary.state.applied \in Seq(Entry) /\ proc[p].entry \in Entry
      BY StateFiles DEF StoreInv, StoreTypes, Directory, Runtime
    <3> QED BY <3>1, <3>2, AppendedSet
  <2>5. Ahead(backup)' = Ahead(backup) /\ Ahead(staged)' = Ahead(staged)
    BY <1>1 DEF Ahead
  <2>6. commits' # {} => Loads(backup)'
    BY <1>1, <1>5, <1>6 DEF StoreInv, FirstInv, WriterOf
  <2>7. FilesInv'
    BY <1>1, <1>4, <2>1, <2>4, <2>5, <2>6 DEF FilesInv
  <2> QED BY <2>2, <2>3, <2>7
<1> QED BY <1>1, <1>2, <1>4, <1>7, <1>8, <1>9, <1>10, <1>11, <1>12, <1>13, <1>14, FilesChange

\* What the commit writes: the revision read plus one, over the entries read
\* plus the new one unless a recovery overlapped.
LEMMA CommitWrites ==
    ASSUME StoreInv, NEW p \in Processes, WriteState(p)
    PROVE  /\ primary' \in Directory
           /\ primary'.state # Missing /\ primary'.state.rev \in 1 .. runs
           /\ primary'.state.rev = CurrentRevision + 1 /\ CurrentRevision \in Nat
           /\ primary'.state.applied = proc[p].state.applied
           /\ primary'.events = proc[p].events /\ primary'.artifacts = primary.artifacts
           /\ Loads(primary)'
           /\ ~crossed =>
                /\ primary'.state.applied = Append(primary.state.applied, proc[p].entry)
                /\ ToSet(proc[p].state.applied) \subseteq ToSet(proc[p].events)
                /\ ToSet(primary.state.applied) \subseteq ToSet(primary'.state.applied)
<1> DEFINE state == [rev |-> CurrentRevision + 1, applied |-> proc[p].state.applied]
<1>1. /\ proc[p].pc = "events"
      /\ primary' = [primary EXCEPT !.state = state]
  BY DEF WriteState
<1>2. /\ WriterOf(proc[p]) /\ RuntimeOf(proc[p])
      /\ proc[p].state \in StateFile /\ proc[p].entry \in Entry
      /\ primary \in Directory /\ primary.state \in StateFile
      /\ runs \in 0 .. MaxRuns /\ MaxRuns \in Nat
      /\ primary.state # Missing => primary.state.rev \in 1 .. runs
  BY StoreAssumption DEF StoreInv, StoreTypes, Runtime, Directory
<1>3. CurrentRevision = proc[p].state.rev /\ CurrentRevision \in Nat
  BY <1>1, <1>2 DEF WriterOf, CurrentRevision
<1>4. CurrentRevision < runs
  <2>1. proc[p].state.rev < proc[p].entry.id /\ proc[p].entry.id <= runs
    BY <1>1, <1>2 DEF RuntimeOf, Executed
  <2>2. proc[p].entry.id \in Int
    BY <1>2 DEF Entry
  <2> QED BY <1>2, <1>3, <2>1, <2>2
<1>5. proc[p].state.applied \in Seq(Entry)
  BY <1>2, StateFiles
<1>6. state \in StateFile /\ state.rev = CurrentRevision + 1 /\ state.rev \in 1 .. runs
      /\ state.applied = proc[p].state.applied
  BY <1>2, <1>3, <1>4, <1>5 DEF StateFile
<1> HIDE DEF state
<1>7. state # Missing
  BY <1>2, <1>6, Markers
<1>8. /\ primary' \in Directory /\ primary'.state = state
      /\ primary'.events = primary.events /\ primary'.artifacts = primary.artifacts
  BY <1>1, <1>2, <1>6 DEF Directory
<1>9. /\ primary.events = proc[p].events /\ proc[p].events # NoEvents
      /\ Replayed(proc[p].events) = Replayed(proc[p].state.applied)
      /\ ToSet(proc[p].state.applied) \subseteq primary.artifacts
  BY <1>1, <1>2 DEF WriterOf, RuntimeOf, Executed
<1>10. Loads(primary)'
  BY <1>6, <1>7, <1>8, <1>9 DEF Loads, Hydrates
<1>11. ASSUME ~crossed
       PROVE  /\ state.applied = Append(primary.state.applied, proc[p].entry)
              /\ ToSet(proc[p].state.applied) \subseteq ToSet(proc[p].events)
              /\ ToSet(primary.state.applied) \subseteq ToSet(state.applied)
  <2>1. /\ proc[p].state.applied = Append(primary.state.applied, proc[p].entry)
        /\ ToSet(proc[p].state.applied) \subseteq ToSet(proc[p].events)
    BY <1>1, <1>3, <1>11 DEF StoreInv, ReadOf, Executed
  <2>2. primary.state.applied \in Seq(Entry)
    BY <1>2, StateFiles
  <2> QED BY <1>2, <1>6, <2>1, <2>2, AppendedSet
<1> QED BY <1>3, <1>6, <1>7, <1>8, <1>9, <1>10, <1>11

LEMMA WriteStateKeepsInv ==
    ASSUME StoreInv, NEW p \in Processes, WriteState(p),
           crossed' = (crossed \/ Overlap')
    PROVE  StoreInv'
<1>1. /\ UNCHANGED <<backup, staged, lockFile, runs, mishaps>>
      /\ Goto(p, "state") /\ proc[p].pc = "events"
  BY DEF WriteState
<1>2. PICK new \in Runtime :
        /\ proc' = [proc EXCEPT ![p] = new]
        /\ new.pc = "state"
        /\ new.state = proc[p].state /\ new.events = proc[p].events
        /\ new.entry = proc[p].entry
  BY <1>1, GoesTo DEF StoreInv, Steps
<1>3. /\ primary' \in Directory
      /\ primary'.state # Missing /\ primary'.state.rev \in 1 .. runs
      /\ primary'.state.rev = CurrentRevision + 1 /\ CurrentRevision \in Nat
      /\ primary'.state.applied = proc[p].state.applied
      /\ primary'.events = proc[p].events /\ primary'.artifacts = primary.artifacts
      /\ Loads(primary)'
  BY CommitWrites
<1>4. WriterOf(proc[p]) /\ RuntimeOf(proc[p])
  BY DEF StoreInv
<1>5. Alone(p) /\ proc[p].pc \in Writing /\ new.pc \in Writing
  BY <1>1, <1>2, WriterIsAlone DEF Writing, Commanding
<1>6. Once(new.state.applied) /\ Once(primary'.state.applied)
  BY <1>2, <1>3 DEF StoreInv, OnceInv
<1>7. /\ backup' \in Directory /\ staged' \in Directory
      /\ \A dir \in {primary', backup', staged'} :
           /\ dir.state # Missing => dir.state.rev \in 1 .. runs
           /\ Once(dir.state.applied)
  BY <1>1, <1>3, <1>6 DEF StoreInv, StoreTypes, OnceInv
<1>8. LockInv'
  BY <1>1, <1>2, <1>5, LockMoves DEF StoreInv
<1>9. RuntimeOf(new)'
  BY <1>1, <1>2, <1>4 DEF RuntimeOf, Executed
<1>10. WriterOf(new)'
  BY <1>1, <1>2, <1>3, <1>4 DEF WriterOf
<1>11. FirstInv'
  BY <1>3 DEF FirstInv
<1>12. CurrentRevision' > CurrentRevision
  <2>1. CurrentRevision' = CurrentRevision + 1
    BY <1>3 DEF CurrentRevision
  <2> QED BY <1>3, <2>1
<1>13. ASSUME ~crossed'
       PROVE  ReadOf(new)' /\ RecoveryOf(new)' /\ FilesInv'
  <2>1. FilesInv /\ ~crossed
    BY <1>13 DEF StoreInv
  <2>2. ReadOf(new)' /\ RecoveryOf(new)'
    BY <1>2 DEF ReadOf, RecoveryOf, Executed, Restoring
  <2>3. /\ ToSet(primary'.state.applied) \subseteq ToSet(primary'.events)
        /\ ToSet(primary.state.applied) \subseteq ToSet(primary'.state.applied)
    BY <1>3, <2>1, CommitWrites
  <2>4. backup.state # Missing =>
          /\ primary'.state.rev \in {backup.state.rev, backup.state.rev + 1}
          /\ ToSet(backup.state.applied) \subseteq ToSet(primary'.state.applied)
    <3>1. backup.state # Missing => primary.state # Missing /\ backup.state = primary.state
      BY <1>1, <1>4 DEF StoreInv, FirstInv, WriterOf
    <3> QED BY <1>3, <2>3, <3>1 DEF CurrentRevision
  <2>5. Ahead(backup)' /\ Ahead(staged)'
    BY <1>1, <2>1 DEF FilesInv, Ahead
  <2>6. FilesInv'
    BY <1>1, <1>3, <2>3, <2>4, <2>5 DEF FilesInv
  <2> QED BY <2>2, <2>6
<1> QED BY <1>1, <1>2, <1>3, <1>5, <1>6, <1>7, <1>8, <1>9, <1>10, <1>11, <1>12, <1>13, FilesChange

\* The artifacts that are not on record go, and the lock: what loads, loads.
LEMMA PruneKeepsInv ==
    ASSUME StoreInv, NEW p \in Processes, Prune(p),
           crossed' = (crossed \/ Overlap')
    PROVE  StoreInv'
<1>1. /\ UNCHANGED <<backup, staged, commits, runs, mishaps>>
      /\ proc[p].pc = "state" /\ lockFile' = Unlocked
      /\ proc' = [proc EXCEPT ![p] = Idle]
      /\ primary' = [primary EXCEPT !.artifacts = @ \cap ToSet(proc[p].state.applied)]
  BY DEF Prune
<1>2. /\ primary' \in Directory
      /\ primary'.state = primary.state /\ primary'.events = primary.events
      /\ primary'.artifacts = primary.artifacts \cap ToSet(proc[p].state.applied)
  BY <1>1 DEF StoreInv, StoreTypes, Directory
<1>3. Idle \in Runtime /\ Idle.pc = "idle" /\ Once(Idle.state.applied)
  BY Markers
<1>4. Alone(p) /\ proc[p].pc \in Writing
  BY <1>1, WriterIsAlone DEF Writing, Commanding
<1>5. /\ backup' \in Directory /\ staged' \in Directory
      /\ \A dir \in {primary', backup', staged'} :
           /\ dir.state # Missing => dir.state.rev \in 1 .. runs
           /\ Once(dir.state.applied)
  BY <1>1, <1>2 DEF StoreInv, StoreTypes, OnceInv
<1>6. LockInv'
  BY <1>1, <1>3, <1>4, LockMoves DEF StoreInv
<1>7. RuntimeOf(Idle)' /\ WriterOf(Idle)' /\ ReadOf(Idle)' /\ RecoveryOf(Idle)'
  BY <1>3 DEF RuntimeOf, WriterOf, ReadOf, RecoveryOf, Executed, Restoring
<1>8. FirstInv'
  BY <1>1, <1>2 DEF StoreInv, FirstInv
<1>9. Loads(primary) => Loads(primary)'
  <2>1. primary.state.applied = proc[p].state.applied
    BY <1>1 DEF StoreInv, WriterOf
  <2> QED BY <1>2, <2>1 DEF Loads, Hydrates
<1>10. ASSUME ~crossed'
       PROVE  FilesInv'
  <2>1. FilesInv
    BY <1>10 DEF StoreInv
  <2>2. Loads(backup)' = Loads(backup) /\ Ahead(backup)' = Ahead(backup)
        /\ Ahead(staged)' = Ahead(staged)
    BY <1>1 DEF Loads, Ahead
  <2> QED BY <1>1, <1>2, <1>9, <2>1, <2>2 DEF FilesInv
<1> QED BY <1>1, <1>2, <1>3, <1>4, <1>5, <1>6, <1>7, <1>8, <1>10, FilesChange

\* The state comes back from the backup: never newer than it was, and with
\* no command of another process under way unless the two overlap.
LEMMA RestoreStateKeepsInv ==
    ASSUME StoreInv, NEW p \in Processes, RestoreState(p),
           crossed' = (crossed \/ Overlap')
    PROVE  StoreInv'
<1>1. /\ UNCHANGED <<backup, staged, lockFile, commits, runs, mishaps>>
      /\ Goto(p, "copying") /\ proc[p].pc = "restoring" /\ backup.state # Missing
      /\ primary' = [primary EXCEPT !.state = backup.state]
  BY DEF RestoreState
<1>2. PICK new \in Runtime :
        /\ proc' = [proc EXCEPT ![p] = new]
        /\ new.pc = "copying"
        /\ new.state = proc[p].state /\ new.events = proc[p].events
        /\ new.entry = proc[p].entry
  BY <1>1, GoesTo DEF StoreInv, Steps
<1>3. /\ primary' \in Directory
      /\ primary'.state = backup.state /\ primary'.events = primary.events
      /\ primary'.artifacts = primary.artifacts
  BY <1>1 DEF StoreInv, StoreTypes, Directory
<1>4. /\ Alone(p) /\ proc[p].pc \in Writing /\ new.pc \in Writing
      /\ new.pc \in Restoring /\ proc[p].pc \in Restoring
  BY <1>1, <1>2, WriterIsAlone DEF Writing, Commanding, Restoring
<1>5. /\ backup' \in Directory /\ staged' \in Directory
      /\ \A dir \in {primary', backup', staged'} :
           /\ dir.state # Missing => dir.state.rev \in 1 .. runs
           /\ Once(dir.state.applied)
  BY <1>1, <1>3 DEF StoreInv, StoreTypes, OnceInv
<1>6. LockInv'
  BY <1>1, <1>2, <1>4, LockMoves DEF StoreInv
<1>7. Once(new.state.applied)
  BY <1>2 DEF StoreInv, OnceInv
<1>8. RuntimeOf(new)' /\ WriterOf(new)' /\ ReadOf(new)'
  BY <1>2 DEF RuntimeOf, WriterOf, ReadOf, Executed
<1>9. FirstInv'
  BY <1>1, <1>3 DEF FirstInv
<1>10. ASSUME ~crossed'
       PROVE  RecoveryOf(new)' /\ FilesInv'
  <2>1. FilesInv /\ RecoveryOf(proc[p])
    BY <1>10 DEF StoreInv
  <2>2. Loads(backup)' /\ Ahead(backup)' /\ Ahead(staged)'
    BY <1>1, <1>4, <2>1 DEF RecoveryOf, Loads, FilesInv, Ahead
  <2>3. RecoveryOf(new)'
    BY <1>1, <1>3, <2>2 DEF RecoveryOf
  <2>4. FilesInv'
    BY <1>1, <1>3, <2>1, <2>2 DEF FilesInv
  <2> QED BY <2>3, <2>4
<1> QED BY <1>1, <1>2, <1>3, <1>4, <1>5, <1>6, <1>7, <1>8, <1>9, <1>10, FilesChange

\* The events and the artifacts follow, while the state is the backup's.
LEMMA RestoreRestKeepsInv ==
    ASSUME StoreInv, NEW p \in Processes,
           RestoreEvents(p) \/ ClearArtifacts(p) \/ RestoreArtifacts(p),
           crossed' = (crossed \/ Overlap')
    PROVE  StoreInv'
<1>1. /\ UNCHANGED <<backup, staged, commits, runs, mishaps>>
      /\ proc[p].pc \in {"copying", "clearing", "restored"}
  BY DEF RestoreEvents, ClearArtifacts, RestoreArtifacts
<1>2. /\ primary \in Directory /\ backup \in Directory /\ staged \in Directory
      /\ StoreTypes
  BY DEF StoreInv, StoreTypes
<1>3. \/ primary' = [primary EXCEPT !.events = backup.events] /\ backup.events # NoEvents
      \/ primary' = [primary EXCEPT !.artifacts = {}]
      \/ primary' = [primary EXCEPT !.artifacts = backup.artifacts]
  BY DEF RestoreEvents, ClearArtifacts, RestoreArtifacts
<1>4. /\ primary' \in Directory
      /\ primary'.state = primary.state
      /\ \/ primary'.events = primary.events
         \/ primary'.events = backup.events /\ backup.events # NoEvents
  BY <1>2, <1>3 DEF Directory
<1>5. PICK new \in Runtime :
        /\ proc' = [proc EXCEPT ![p] = new]
        /\ new.pc \in {"clearing", "restored", "idle"}
        /\ Once(new.state.applied)
        /\ new.pc # "idle" => lockFile' = lockFile
        /\ new.pc = "idle" => lockFile' = Unlocked
  <2>1. Once(proc[p].state.applied)
    BY DEF StoreInv, OnceInv
  <2>2. CASE RestoreEvents(p)
    <3>1. Goto(p, "clearing") /\ lockFile' = lockFile
      BY <2>2 DEF RestoreEvents
    <3>2. "clearing" \in Steps
      BY DEF Steps
    <3> QED BY <1>2, <2>1, <3>1, <3>2, GoesTo
  <2>3. CASE ClearArtifacts(p)
    <3>1. Goto(p, "restored") /\ lockFile' = lockFile
      BY <2>3 DEF ClearArtifacts
    <3>2. "restored" \in Steps
      BY DEF Steps
    <3> QED BY <1>2, <2>1, <3>1, <3>2, GoesTo
  <2>4. CASE RestoreArtifacts(p)
    BY <2>4, Markers DEF RestoreArtifacts
  <2> QED BY <2>2, <2>3, <2>4
<1>6. Alone(p) /\ proc[p].pc \in Writing /\ (new.pc # "idle" => new.pc \in Writing)
  BY <1>1, <1>5, WriterIsAlone DEF Writing, Commanding, Restoring
<1>7. /\ backup' \in Directory /\ staged' \in Directory
      /\ \A dir \in {primary', backup', staged'} :
           /\ dir.state # Missing => dir.state.rev \in 1 .. runs
           /\ Once(dir.state.applied)
  BY <1>1, <1>4 DEF StoreInv, StoreTypes, OnceInv
<1>8. LockInv'
  BY <1>5, <1>6, LockMoves DEF StoreInv
<1>9. RuntimeOf(new)' /\ WriterOf(new)' /\ ReadOf(new)'
  BY <1>5 DEF RuntimeOf, WriterOf, ReadOf, Executed
<1>10. FirstInv'
  BY <1>1, <1>4 DEF StoreInv, FirstInv
<1>11. ASSUME ~crossed'
       PROVE  RecoveryOf(new)' /\ FilesInv'
  <2>1. FilesInv /\ RecoveryOf(proc[p])
    BY <1>11 DEF StoreInv
  <2>2. Loads(backup) /\ primary.state = backup.state
    BY <1>1, <2>1 DEF RecoveryOf, Restoring
  <2>3. Loads(backup)' /\ Ahead(backup)' /\ Ahead(staged)'
    BY <1>1, <2>1, <2>2 DEF Loads, FilesInv, Ahead
  <2>4. RecoveryOf(new)'
    BY <1>1, <1>4, <2>2, <2>3 DEF RecoveryOf
  <2>5. ToSet(primary'.state.applied) \subseteq ToSet(primary'.events)
    BY <1>4, <2>1, <2>2 DEF FilesInv, Ahead
  <2>6. FilesInv'
    BY <1>1, <1>4, <2>1, <2>3, <2>5 DEF FilesInv
  <2> QED BY <2>4, <2>6
<1>12. runs' = runs /\ mishaps' = mishaps /\ backup' = backup
  BY <1>1
<1> QED BY <1>4, <1>5, <1>6, <1>7, <1>8, <1>9, <1>10, <1>11, <1>12, FilesChange

---------------------------------------------------------------------------
(* The theorems.                                                           *)

\* An empty project directory, no backup, nobody at work.
LEMMA InitStoreInv == StoreInit => StoreInv
<1> SUFFICES ASSUME StoreInit
             PROVE  StoreInv
  OBVIOUS
<1>1. /\ primary = Absent /\ backup = Absent /\ staged = Absent
      /\ lockFile = Unlocked /\ commits = {} /\ crossed = FALSE /\ runs = 0 /\ mishaps = 0
      /\ MaxRuns \in Nat /\ MaxMishaps \in Nat
  BY StoreAssumption DEF StoreInit
<1>2. proc \in [Processes -> Runtime] /\ \A p \in Processes : proc[p] = Idle
  BY Markers DEF StoreInit
<1>3. StoreTypes
  <2>1. runs \in 0 .. MaxRuns /\ mishaps \in 0 .. MaxMishaps
    BY <1>1
  <2>3. crossed \in BOOLEAN
    BY <1>1
  <2>2. \A dir \in {primary, backup, staged} : dir \in Directory /\ dir.state = Missing
    BY <1>1, Markers
  <2> QED BY <1>2, <2>1, <2>2, <2>3 DEF StoreTypes
<1>4. LockInv
  BY <1>1, <1>2, Markers DEF LockInv, Writing, Commanding, Restoring
<1>5. OnceInv
  BY <1>1, <1>2, Markers DEF OnceInv
<1>6. \A p \in Processes : RuntimeOf(proc[p]) /\ WriterOf(proc[p])
                           /\ ReadOf(proc[p]) /\ RecoveryOf(proc[p])
  BY <1>2, Markers DEF RuntimeOf, WriterOf, ReadOf, RecoveryOf, Executed, Restoring
<1>7. FirstInv
  BY <1>1, Markers DEF FirstInv
<1>8. ~Overlap
  BY <1>2, Markers DEF Overlap, Restoring
<1>9. FilesInv
  BY <1>1, Markers DEF FilesInv, Ahead
<1> QED BY <1>3, <1>4, <1>5, <1>6, <1>7, <1>8, <1>9 DEF StoreInv

LEMMA NextStoreInv ==
    ASSUME StoreInv, [StoreNext]_storeVars, ~stolen'
    PROVE  StoreInv'
<1>1. CASE UNCHANGED storeVars
  BY <1>1 DEF storeVars, StoreInv, StoreTypes, LockInv, OnceInv, RuntimeOf, WriterOf,
              FirstInv, ReadOf, RecoveryOf, FilesInv, Ahead, Overlap, Loads, CurrentRevision
<1>2. CASE StoreNext
  <2>1. crossed' = (crossed \/ Overlap') /\ ~Misjudged'
    BY <1>2 DEF StoreNext
  <2>2. ASSUME NEW p \in Processes,
               \/ New(p)
               \/ \E c \in Commands : ReadState(p, c)
               \/ ReadRest(p) \/ Save(p) \/ Recover(p) \/ Fail(p) \/ Die(p)
        PROVE  StoreInv'
    <3>1. CASE New(p)
      BY <2>1, <3>1, NewKeepsInv
    <3>2. CASE \E c \in Commands : ReadState(p, c)
      BY <2>1, <3>2, ReadStateKeepsInv
    <3>3. CASE ReadRest(p)
      BY <2>1, <3>3, ReadRestKeepsInv
    <3>4. CASE Save(p)
      <4>1. CASE Lock(p)
        BY <2>1, <4>1, LockKeepsInv
      <4>2. CASE DropPart(p)
        BY <2>1, <4>2, DropPartKeepsInv
      <4>3. CASE Swap(p)
        BY <2>1, <4>3, SwapKeepsInv
      <4>4. CASE WriteArtifacts(p)
        BY <2>1, <4>4, WriteArtifactsKeepsInv
      <4>5. CASE WriteEvents(p)
        BY <2>1, <4>5, WriteEventsKeepsInv
      <4>6. CASE WriteState(p)
        BY <2>1, <4>6, WriteStateKeepsInv
      <4>7. CASE Prune(p)
        BY <2>1, <4>7, PruneKeepsInv
      <4>8. CASE SwapFails(p)
        BY <2>1, <4>8, StopsKeepInv
      <4> QED BY <3>4, <4>1, <4>2, <4>3, <4>4, <4>5, <4>6, <4>7, <4>8 DEF Save
    <3>5. CASE Recover(p)
      <4>1. CASE CheckBackup(p)
        BY <2>1, <4>1, CheckBackupKeepsInv
      <4>2. CASE LockToRecover(p)
        BY <2>1, <4>2, LockToRecoverKeepsInv
      <4>3. CASE RestoreState(p)
        BY <2>1, <4>3, RestoreStateKeepsInv
      <4>4. CASE RestoreEvents(p) \/ ClearArtifacts(p) \/ RestoreArtifacts(p)
        BY <2>1, <4>4, RestoreRestKeepsInv
      <4>5. CASE RestoreFails(p)
        BY <2>1, <4>5, StopsKeepInv
      <4> QED BY <3>5, <4>1, <4>2, <4>3, <4>4, <4>5 DEF Recover
    <3>6. CASE Fail(p) \/ Die(p)
      BY <2>1, <3>6, StopsKeepInv
    <3> QED BY <2>2, <3>1, <3>2, <3>3, <3>4, <3>5, <3>6
  <2>3. ASSUME NEW p \in Clearers, FindStale(p) \/ UnlinkStale(p)
        PROVE  StoreInv'
    BY <2>1, <2>3, ClearingKeepsInv
  <2> QED BY <1>2, <2>2, <2>3 DEF StoreNext
<1> QED BY <1>1, <1>2

---------------------------------------------------------------------------
(* What holds whosever lock is cleared: the files and the runtimes are of  *)
(* their types and have a command once.  The rest holds until a lock is    *)
(* stolen.                                                                 *)

Kinds ==
    /\ primary \in Directory /\ backup \in Directory /\ staged \in Directory
    /\ lockFile \in Processes \cup {Unlocked, Ghost}
    /\ proc \in [Processes -> Runtime]
    /\ runs \in 0 .. MaxRuns
    /\ mishaps \in 0 .. MaxMishaps
    /\ crossed \in BOOLEAN
    /\ stolen \in BOOLEAN

StoreAlways ==
    /\ Kinds
    /\ OnceInv
    /\ ~stolen => StoreInv

\* A process has a new runtime and the directories new files.
LEMMA KindsAfter ==
    ASSUME Kinds, OnceInv,
           NEW p \in Processes, NEW new \in Runtime,
           proc' = [proc EXCEPT ![p] = new], Once(new.state.applied),
           \A dir \in {primary', backup', staged'} :
             dir \in Directory /\ Once(dir.state.applied),
           lockFile' \in Processes \cup {Unlocked, Ghost},
           runs' \in 0 .. MaxRuns, mishaps' \in 0 .. MaxMishaps,
           crossed' \in BOOLEAN, stolen' \in BOOLEAN
    PROVE  Kinds' /\ OnceInv'
<1>1. proc' \in [Processes -> Runtime]
  BY DEF Kinds
<1>2. \A q \in Processes : Once(proc'[q].state.applied)
  BY DEF Kinds, OnceInv
<1> QED BY <1>1, <1>2 DEF Kinds, OnceInv

\* A process goes on or ends, with the runtime it has.
LEMMA KeepsRuntime ==
    ASSUME Kinds, OnceInv, NEW p \in Processes,
           \/ proc' = proc
           \/ proc' = [proc EXCEPT ![p] = Idle]
           \/ \E pc \in Steps : Goto(p, pc)
    PROVE  \E new \in Runtime :
             proc' = [proc EXCEPT ![p] = new] /\ Once(new.state.applied)
<1>1. proc \in [Processes -> Runtime] /\ Once(proc[p].state.applied)
  BY DEF Kinds, OnceInv
<1>2. CASE proc' = proc
  BY <1>1, <1>2
<1>3. CASE proc' = [proc EXCEPT ![p] = Idle]
  BY <1>3, Markers
<1>4. ASSUME NEW pc \in Steps, Goto(p, pc)
      PROVE  \E new \in Runtime :
               proc' = [proc EXCEPT ![p] = new] /\ Once(new.state.applied)
  <2>1. /\ [proc[p] EXCEPT !.pc = pc] \in Runtime
        /\ [proc[p] EXCEPT !.pc = pc].state = proc[p].state
    BY <1>1 DEF Runtime
  <2> QED BY <1>1, <1>4, <2>1 DEF Goto
<1> QED BY <1>2, <1>3, <1>4

\* A command that starts has no runtime yet, or its own entry.
LEMMA StartKinds ==
    ASSUME Kinds, OnceInv, NEW p \in Processes,
           New(p) \/ \E c \in Commands : ReadState(p, c)
    PROVE  /\ \E new \in Runtime :
                proc' = [proc EXCEPT ![p] = new] /\ Once(new.state.applied)
           /\ UNCHANGED <<primary, backup, staged, lockFile>>
           /\ runs' \in 0 .. MaxRuns /\ mishaps' = mishaps
<1>1. runs \in 0 .. MaxRuns /\ runs < MaxRuns /\ MaxRuns \in Nat
  BY StoreAssumption DEF Kinds, New, ReadState
<1>2. /\ UNCHANGED <<primary, backup, staged, lockFile>>
      /\ runs' = runs + 1 /\ mishaps' = mishaps
  BY DEF New, ReadState
<1>3. ASSUME New(p)
      PROVE  \E new \in Runtime :
               proc' = [proc EXCEPT ![p] = new] /\ Once(new.state.applied)
  <2>1. PICK entry \in Entry : entry = [cmd |-> Create, id |-> runs + 1]
    <3>1. [cmd |-> Create, id |-> runs + 1] \in Entry
      BY <1>1 DEF Entry
    <3> QED BY <3>1
  <2>2. <<entry>> \in Seq(Entry)
    OBVIOUS
  <2>3. PICK state \in StateFile : state = [rev |-> 0, applied |-> <<entry>>]
    BY <2>2 DEF StateFile
  <2>4. PICK new \in Runtime :
          new = [pc |-> "ready", entry |-> entry, events |-> <<entry>>, state |-> state]
    BY <2>1, <2>2, <2>3 DEF Runtime, Steps
  <2>5. new.state.applied = <<entry>>
    BY <2>3, <2>4
  <2>6. Once(<<entry>>)
    <3>1. DOMAIN <<entry>> = {1}
      OBVIOUS
    <3> QED BY <3>1 DEF Once
  <2>7. proc' = [proc EXCEPT ![p] = new]
    BY <1>3, <2>1, <2>3, <2>4 DEF New
  <2> QED BY <2>5, <2>6, <2>7
<1>4. ASSUME NEW c \in Commands, ReadState(p, c)
      PROVE  \E new \in Runtime :
               proc' = [proc EXCEPT ![p] = new] /\ Once(new.state.applied)
  <2>1. PICK entry \in Entry : entry = [cmd |-> c, id |-> runs + 1]
    <3>1. [cmd |-> c, id |-> runs + 1] \in Entry
      BY <1>1 DEF Entry
    <3> QED BY <3>1
  <2>2. PICK state \in StateFile : state = primary.state
    BY DEF Kinds, Directory
  <2>3. PICK new \in Runtime :
          new = [Idle EXCEPT !.pc = "reading", !.state = state, !.entry = entry]
    BY Markers DEF Runtime, Steps
  <2>4. proc' = [proc EXCEPT ![p] = new] /\ new.state = state
    BY <1>4, <2>1, <2>2, <2>3, Markers DEF ReadState, Runtime
  <2>5. Once(state.applied)
    BY <2>2 DEF OnceInv
  <2> QED BY <2>4, <2>5
<1> QED BY <1>1, <1>2, <1>3, <1>4

\* A command that executes is not on record.
LEMMA ExecuteKinds ==
    ASSUME Kinds, OnceInv, NEW p \in Processes, ReadRest(p)
    PROVE  \E new \in Runtime :
             proc' = [proc EXCEPT ![p] = new] /\ Once(new.state.applied)
<1> DEFINE me == proc[p]
           goes == Hydrates(me.state, primary.events, primary.artifacts)
                   /\ Fresh(me.state, me.entry.cmd)
<1>1. CASE ~goes
  <2>1. proc' = [proc EXCEPT ![p] = Idle]
    BY <1>1 DEF ReadRest
  <2> QED BY <2>1, KeepsRuntime
<1>2. CASE goes
  <2> DEFINE state == [me.state EXCEPT !.applied = Append(@, me.entry)]
             events == Append(primary.events, me.entry)
             now == [me EXCEPT !.pc = "ready", !.events = events, !.state = state]
  <2>1. /\ me \in Runtime
        /\ me.state \in StateFile /\ me.state # Missing /\ me.entry \in Entry
        /\ primary.events \in Seq(Entry) /\ Once(me.state.applied)
    BY <1>2 DEF Hydrates, Kinds, OnceInv, Runtime, Directory
  <2>2. me.state \in [rev : Nat, applied : Seq(Entry)] /\ me.state.applied \in Seq(Entry)
    BY <2>1 DEF StateFile
  <2>3. \A i \in DOMAIN me.state.applied : me.state.applied[i].cmd # me.entry.cmd
    BY <1>2 DEF Fresh
  <2>4. /\ Append(me.state.applied, me.entry) \in Seq(Entry)
        /\ events \in Seq(Entry)
        /\ Once(Append(me.state.applied, me.entry))
    BY <2>1, <2>2, <2>3, AppendedFresh
  <2>5. state \in StateFile /\ state.applied = Append(me.state.applied, me.entry)
    BY <2>2, <2>4 DEF StateFile
  <2>6. proc' = [proc EXCEPT ![p] = now]
    <3>1. [me EXCEPT !.pc = "ready", !.events = Append(primary.events, me.entry),
                     !.state.applied = Append(@, me.entry)] = now
      OBVIOUS
    <3> QED BY <1>2, <3>1 DEF ReadRest
  <2> HIDE DEF state, events
  <2>7. now \in Runtime /\ now.state = state
    BY <2>1, <2>4, <2>5 DEF Runtime, Steps
  <2> HIDE DEF now
  <2> QED BY <2>4, <2>5, <2>6, <2>7
<1> QED BY <1>1, <1>2

\* A save or a recovery writes what its process read, or what another directory
\* holds.
LEMMA WriteKinds ==
    ASSUME Kinds, OnceInv, NEW p \in Processes, Save(p) \/ Recover(p)
    PROVE  /\ \E new \in Runtime :
                proc' = [proc EXCEPT ![p] = new] /\ Once(new.state.applied)
           /\ \A dir \in {primary', backup', staged'} :
                dir \in Directory /\ Once(dir.state.applied)
           /\ lockFile' \in Processes \cup {Unlocked, Ghost}
           /\ runs' = runs /\ mishaps' \in 0 .. MaxMishaps
<1>1. /\ primary \in Directory /\ backup \in Directory /\ staged \in Directory
      /\ \A dir \in {primary, backup, staged} : Once(dir.state.applied)
      /\ proc[p] \in Runtime /\ Once(proc[p].state.applied)
      /\ proc[p].state.applied \in Seq(Entry) /\ proc[p].events \in Seq(Entry)
      /\ lockFile \in Processes \cup {Unlocked, Ghost}
      /\ mishaps \in 0 .. MaxMishaps /\ MaxMishaps \in Nat
  BY StateFiles, StoreAssumption DEF Kinds, OnceInv, Runtime
<1>2. {"writing", "staged", "artifacts", "events", "state", "checked", "restoring", "copying",
       "clearing", "restored"} \subseteq Steps
  BY DEF Steps
<1>3. /\ \/ proc' = proc
         \/ proc' = [proc EXCEPT ![p] = Idle]
         \/ \E pc \in Steps : Goto(p, pc)
      /\ lockFile' \in {lockFile, p, Unlocked}
      /\ runs' = runs /\ mishaps' \in {mishaps, mishaps + 1}
      /\ mishaps' = mishaps \/ mishaps < MaxMishaps
  <2>1. CASE Lock(p)
    <3>1. CASE lockFile = Unlocked /\ MaySave(p)
      BY <1>2, <2>1, <3>1 DEF Lock
    <3>2. CASE ~(lockFile = Unlocked /\ MaySave(p))
      BY <2>1, <3>2 DEF Lock
    <3> QED BY <3>1, <3>2
  <2>2. CASE DropPart(p) \/ SwapFails(p) \/ Prune(p)
    BY <2>2 DEF DropPart, SwapFails, Prune
  <2>3. CASE Swap(p)
    BY <1>2, <2>3 DEF Swap
  <2>4. CASE WriteArtifacts(p)
    BY <1>2, <2>4 DEF WriteArtifacts
  <2>5. CASE WriteEvents(p)
    BY <1>2, <2>5 DEF WriteEvents
  <2>6. CASE WriteState(p)
    BY <1>2, <2>6 DEF WriteState
  <2>7. CASE CheckBackup(p)
    BY <1>2, <2>7 DEF CheckBackup
  <2>8. CASE LockToRecover(p)
    BY <1>2, <2>8 DEF LockToRecover
  <2>9. CASE RestoreState(p)
    BY <1>2, <2>9 DEF RestoreState
  <2>10. CASE RestoreEvents(p)
    BY <1>2, <2>10 DEF RestoreEvents
  <2>11. CASE ClearArtifacts(p)
    BY <1>2, <2>11 DEF ClearArtifacts
  <2>12. CASE RestoreArtifacts(p) \/ RestoreFails(p)
    BY <2>12 DEF RestoreArtifacts, RestoreFails
  <2> QED BY <2>1, <2>2, <2>3, <2>4, <2>5, <2>6, <2>7, <2>8, <2>9, <2>10, <2>11, <2>12
          DEF Save, Recover
<1>4. \E new \in Runtime : proc' = [proc EXCEPT ![p] = new] /\ Once(new.state.applied)
  BY <1>3, KeepsRuntime
<1>5. primary' \in Directory /\ Once(primary'.state.applied)
  <2>1. CASE primary' = primary
    BY <1>1, <2>1
  <2>2. CASE WriteArtifacts(p)
    <3>1. ToSet(proc[p].state.applied) \subseteq Entry
      BY <1>1 DEF ToSet
    <3> QED BY <1>1, <2>2, <3>1 DEF WriteArtifacts, Directory
  <2>3. CASE WriteEvents(p)
    BY <1>1, <2>3 DEF WriteEvents, Directory
  <2>4. CASE WriteState(p)
    <3> DEFINE state == [rev |-> CurrentRevision + 1, applied |-> proc[p].state.applied]
    <3>1. CurrentRevision \in Nat
      BY <1>1 DEF CurrentRevision, Directory, StateFile
    <3>2. state \in StateFile /\ state.applied = proc[p].state.applied
      BY <1>1, <3>1 DEF StateFile
    <3>3. primary' = [primary EXCEPT !.state = state]
      BY <2>4 DEF WriteState
    <3> HIDE DEF state
    <3> QED BY <1>1, <3>2, <3>3 DEF Directory
  <2>5. CASE Prune(p)
    BY <1>1, <2>5 DEF Prune, Directory
  <2>6. CASE RestoreState(p)
    BY <1>1, <2>6 DEF RestoreState, Directory
  <2>7. CASE RestoreEvents(p)
    BY <1>1, <2>7 DEF RestoreEvents, Directory
  <2>8. CASE ClearArtifacts(p) \/ RestoreArtifacts(p)
    BY <1>1, <2>8 DEF ClearArtifacts, RestoreArtifacts, Directory
  <2>9. \/ WriteArtifacts(p) \/ WriteEvents(p) \/ WriteState(p) \/ Prune(p)
        \/ RestoreState(p) \/ RestoreEvents(p) \/ ClearArtifacts(p) \/ RestoreArtifacts(p)
        \/ primary' = primary
    BY DEF Save, Recover, Lock, DropPart, Swap, SwapFails, CheckBackup, LockToRecover,
           RestoreFails
  <2> QED BY <2>1, <2>2, <2>3, <2>4, <2>5, <2>6, <2>7, <2>8, <2>9
<1>6. \A dir \in {backup', staged'} : dir \in Directory /\ Once(dir.state.applied)
  <2>1. CASE DropPart(p)
    <3>1. /\ staged' = staged
          /\ \/ backup' = [backup EXCEPT !.state = Missing]
             \/ backup' = [backup EXCEPT !.events = NoEvents]
             \/ backup' = [backup EXCEPT !.artifacts = {}]
      BY <2>1 DEF DropPart
    <3>2. backup' \in Directory /\ backup'.state \in {backup.state, Missing}
      BY <1>1, <3>1, Markers DEF Directory
    <3> QED BY <1>1, <3>1, <3>2, Markers
  <2>2. CASE Swap(p)
    BY <1>1, <2>2, Markers DEF Swap
  <2>3. CASE Lock(p)
    BY <1>1, <2>3 DEF Lock
  <2>4. DropPart(p) \/ Swap(p) \/ Lock(p) \/ UNCHANGED <<backup, staged>>
    BY DEF Save, Recover, SwapFails, WriteArtifacts, WriteEvents, WriteState, Prune,
           CheckBackup, LockToRecover, RestoreState, RestoreEvents, ClearArtifacts,
           RestoreArtifacts, RestoreFails
  <2> QED BY <1>1, <2>1, <2>2, <2>3, <2>4
<1>7. mishaps' \in 0 .. MaxMishaps
  BY <1>1, <1>3
<1> QED BY <1>1, <1>3, <1>4, <1>5, <1>6, <1>7

LEMMA InitStoreAlways == StoreInit => StoreAlways
<1> SUFFICES ASSUME StoreInit
             PROVE  StoreAlways
  OBVIOUS
<1>1. StoreInv
  BY InitStoreInv
<1> QED BY <1>1 DEF StoreInit, StoreInv, StoreTypes, LockInv, StoreAlways, Kinds

LEMMA NextStoreAlways ==
    ASSUME StoreAlways, [StoreNext]_storeVars
    PROVE  StoreAlways'
<1>1. Kinds /\ OnceInv /\ (~stolen => StoreInv)
  BY DEF StoreAlways
<1>2. Kinds' /\ OnceInv'
  <2>1. CASE UNCHANGED storeVars
    BY <1>1, <2>1 DEF storeVars, Kinds, OnceInv
  <2>2. CASE StoreNext
    <3>1. crossed' \in BOOLEAN /\ stolen' \in BOOLEAN
      BY <1>1, <2>2 DEF StoreNext, Kinds
    <3>2. ASSUME NEW p \in Processes, New(p) \/ \E c \in Commands : ReadState(p, c)
          PROVE  Kinds' /\ OnceInv'
      <4>1. /\ UNCHANGED <<primary, backup, staged, lockFile>>
            /\ runs' \in 0 .. MaxRuns /\ mishaps' = mishaps
        BY <1>1, <3>2, StartKinds
      <4>2. PICK new \in Runtime : proc' = [proc EXCEPT ![p] = new] /\ Once(new.state.applied)
        BY <1>1, <3>2, StartKinds
      <4> QED BY <1>1, <3>1, <4>1, <4>2, KindsAfter DEF Kinds, OnceInv
    <3>3. ASSUME NEW p \in Processes, ReadRest(p)
          PROVE  Kinds' /\ OnceInv'
      <4>1. UNCHANGED <<primary, backup, staged, lockFile, runs, mishaps>>
        BY <3>3 DEF ReadRest
      <4>2. PICK new \in Runtime : proc' = [proc EXCEPT ![p] = new] /\ Once(new.state.applied)
        BY <1>1, <3>3, ExecuteKinds
      <4> QED BY <1>1, <3>1, <4>1, <4>2, KindsAfter DEF Kinds, OnceInv
    <3>4. ASSUME NEW p \in Processes, Save(p) \/ Recover(p)
          PROVE  Kinds' /\ OnceInv'
      <4>1. /\ \A dir \in {primary', backup', staged'} :
                 dir \in Directory /\ Once(dir.state.applied)
            /\ lockFile' \in Processes \cup {Unlocked, Ghost}
            /\ runs' = runs /\ mishaps' \in 0 .. MaxMishaps
        BY <1>1, <3>4, WriteKinds
      <4>2. PICK new \in Runtime : proc' = [proc EXCEPT ![p] = new] /\ Once(new.state.applied)
        BY <1>1, <3>4, WriteKinds
      <4>3. runs' \in 0 .. MaxRuns
        BY <1>1, <4>1 DEF Kinds
      <4> QED BY <1>1, <3>1, <4>1, <4>2, <4>3, KindsAfter
    <3>5. ASSUME NEW p \in Processes, Fail(p) \/ Die(p) \/ FindStale(p) \/ UnlinkStale(p)
          PROVE  Kinds' /\ OnceInv'
      <4>1. /\ UNCHANGED <<primary, backup, staged, runs>>
            /\ lockFile' \in {lockFile, Ghost, Unlocked}
            /\ \/ proc' = [proc EXCEPT ![p] = Idle]
               \/ Goto(p, "unlinking")
        BY <3>5 DEF Fail, Die, FindStale, UnlinkStale
      <4>2. mishaps' \in 0 .. MaxMishaps
        BY <1>1, <3>5, StoreAssumption DEF Fail, Die, FindStale, UnlinkStale, Kinds
      <4>3. "unlinking" \in Steps
        BY DEF Steps
      <4>4. PICK new \in Runtime : proc' = [proc EXCEPT ![p] = new] /\ Once(new.state.applied)
        BY <1>1, <4>1, <4>3, KeepsRuntime
      <4>5. lockFile' \in Processes \cup {Unlocked, Ghost} /\ runs' \in 0 .. MaxRuns
        BY <1>1, <4>1 DEF Kinds
      <4> QED BY <1>1, <3>1, <4>1, <4>2, <4>4, <4>5, KindsAfter DEF Kinds, OnceInv
    <3>6. Clearers \subseteq Processes
      BY StoreAssumption
    <3> QED BY <2>2, <3>2, <3>3, <3>4, <3>5, <3>6 DEF StoreNext
  <2> QED BY <2>1, <2>2
<1>3. ASSUME ~stolen'
      PROVE  StoreInv'
  <2>1. ~stolen
    BY <1>3 DEF StoreNext, storeVars
  <2> QED BY <1>1, <1>3, <2>1, NextStoreInv
<1> QED BY <1>2, <1>3 DEF StoreAlways

LEMMA StoreAlwaysIsSound == StoreAlways => StoreSound
<1> SUFFICES ASSUME StoreAlways
             PROVE  StoreSound
  OBVIOUS
<1>1. Kinds /\ OnceInv /\ (~stolen => StoreInv)
  BY DEF StoreAlways
<1>2. StoreTypeOK
  <2>1. Steps = Locations
    BY DEF Steps, Locations, Writing, Commanding, Restoring
  <2>2. \A p \in Processes :
          /\ proc[p].pc \in Locations /\ proc[p].state \in StateFile
          /\ proc[p].events \in Seq(Entry) /\ proc[p].entry \in Entry
    BY <1>1, <2>1 DEF Kinds, Runtime
  <2> QED BY <1>1, <2>2 DEF Kinds, StoreTypeOK
<1>3. StoreAppliedOnce
  <2>1. Once(primary.state.applied)
    BY <1>1 DEF OnceInv
  <2> QED BY <2>1 DEF Once, StoreAppliedOnce
<1>4. ASSUME ~stolen
      PROVE  StoreOneWriter /\ StoreRecoverable /\ StoreBackupIsRecent /\ StoreWriteAhead
  <2>1. StoreInv
    BY <1>1, <1>4
  <2>2. StoreOneWriter
    BY <2>1 DEF StoreInv, LockInv, StoreOneWriter
  <2> QED BY <2>1, <2>2 DEF StoreInv, FilesInv, StoreRecoverable, StoreBackupIsRecent,
                            StoreWriteAhead
<1> QED BY <1>2, <1>3, <1>4 DEF StoreSound

\* Without an overlap, only a commit raises the revision, and it appends.
LEMMA CommitAppends ==
    ASSUME StoreInv, [StoreNext]_storeVars,
           ~crossed, primary'.state.rev > primary.state.rev
    PROVE  IsPrefix(primary.state.applied, primary'.state.applied)
<1>1. primary \in Directory /\ primary.state.rev \in Int /\ primary.state.applied \in Seq(Entry)
  BY StateFiles DEF StoreInv, StoreTypes, Directory
<1>2. PICK p \in Processes : RestoreState(p) \/ WriteState(p)
  <2>1. ASSUME NEW p \in Processes,
               ReadRest(p) \/ Save(p) \/ Recover(p) \/ Fail(p) \/ Die(p)
        PROVE  RestoreState(p) \/ WriteState(p) \/ primary'.state = primary.state
    <3>1. CASE ReadRest(p) \/ Fail(p) \/ Die(p)
      BY <3>1 DEF ReadRest, Fail, Die
    <3>2. CASE Save(p)
      <4>1. CASE Lock(p) \/ DropPart(p) \/ Swap(p) \/ SwapFails(p)
        BY <4>1 DEF Lock, DropPart, Swap, SwapFails
      <4>2. CASE WriteArtifacts(p) \/ WriteEvents(p) \/ Prune(p)
        BY <1>1, <4>2 DEF WriteArtifacts, WriteEvents, Prune, Directory
      <4> QED BY <3>2, <4>1, <4>2 DEF Save
    <3>3. CASE Recover(p)
      <4>1. CASE CheckBackup(p) \/ LockToRecover(p) \/ RestoreFails(p)
        BY <4>1 DEF CheckBackup, LockToRecover, RestoreFails
      <4>2. CASE RestoreEvents(p) \/ ClearArtifacts(p) \/ RestoreArtifacts(p)
        BY <1>1, <4>2 DEF RestoreEvents, ClearArtifacts, RestoreArtifacts, Directory
      <4> QED BY <3>3, <4>1, <4>2 DEF Recover
    <3> QED BY <2>1, <3>1, <3>2, <3>3
  <2>2. ASSUME NEW p \in Processes, New(p) \/ \E c \in Commands : ReadState(p, c)
        PROVE  primary' = primary
    BY <2>2 DEF New, ReadState
  <2>3. ASSUME NEW p \in Clearers, FindStale(p) \/ UnlinkStale(p)
        PROVE  primary' = primary
    BY <2>3 DEF FindStale, UnlinkStale
  <2>4. primary'.state # primary.state
    BY <1>1
  <2> QED BY <2>1, <2>2, <2>3, <2>4 DEF StoreNext, storeVars
<1>3. CASE RestoreState(p)
  <2>1. backup.state # Missing /\ primary' = [primary EXCEPT !.state = backup.state]
    BY <1>3 DEF RestoreState
  <2>2. primary'.state = backup.state
    BY <1>1, <2>1 DEF Directory
  <2>3. primary.state.rev \in {backup.state.rev, backup.state.rev + 1}
    BY <2>1 DEF StoreInv, FilesInv
  <2>4. backup.state.rev \in Int
    BY StateFiles DEF StoreInv, StoreTypes, Directory
  <2> QED BY <1>1, <2>2, <2>3, <2>4
<1>4. CASE WriteState(p)
  <2>1. primary'.state.applied = Append(primary.state.applied, proc[p].entry)
    BY <1>4, CommitWrites
  <2>2. proc[p].entry \in Entry
    BY DEF StoreInv, StoreTypes, Runtime
  <2> QED BY <1>1, <2>1, <2>2, AppendedPrefix
<1> QED BY <1>2, <1>3, <1>4

\* Through any mixture of saves, recoveries, failures and deaths of any number
\* of processes no command is on record twice; and until a live writer's lock is
\* cleared, or one lock by two clearers, one process writes at a time and, until
\* a recovery overlaps a command, the directory or its backup loads, the backup
\* is at most one commit old and the events are ahead of the state.
THEOREM SpecStoreSound == StoreSpec => []StoreSound
<1>1. StoreInit => StoreAlways
  BY InitStoreAlways
<1>2. StoreAlways /\ [StoreNext]_storeVars => StoreAlways'
  BY NextStoreAlways
<1>3. StoreAlways => StoreSound
  BY StoreAlwaysIsSound
<1> QED BY <1>1, <1>2, <1>3, PTL DEF StoreSpec

\* Until a recovery overlaps a command or a live writer's lock is cleared, what a
\* commit writes extends what was on record: the revision check under the lock
\* loses no other commit.
THEOREM SpecStoreNoLostUpdate == StoreSpec => StoreNoLostUpdate
<1>1. StoreInit => StoreAlways
  BY InitStoreAlways
<1>2. StoreAlways /\ [StoreNext]_storeVars => StoreAlways'
  BY NextStoreAlways
<1>3. StoreAlways /\ [StoreNext]_storeVars =>
        [~crossed /\ ~stolen /\ primary'.state.rev > primary.state.rev
           => IsPrefix(primary.state.applied, primary'.state.applied)]_storeVars
  BY CommitAppends DEF StoreAlways
<1> QED BY <1>1, <1>2, <1>3, PTL DEF StoreSpec, StoreNoLostUpdate

-----------------------------------------------------------------------------
(* The notification outbox.                                                *)

Sender == [pc : {"resting", "looked", "sending"}, due : Seq(Message), age : 0 .. LongestWait,
           results : Seq(Message)]

OutboxTypes ==
    /\ outbox \in Seq(Message)
    /\ issued \in 0 .. MaxIssued
    /\ outboxLock \in Dispatchers \cup {NoSender}
    /\ sender \in [Dispatchers -> Sender]
    /\ tries \in [1 .. MaxIssued -> Nat]
    /\ sent \in [1 .. MaxIssued -> Nat]
    /\ slips \in [1 .. MaxIssued -> Nat]

\* A message that may still be sent has attempts left.
HasAttempts(m) == m.status \in {"pending", "retry"} => m.attempts < MaxAttempts

\* Records of one message have one key.
SameMessage(m, n) == m.id = n.id => m.key = n.key

\* Who sends has the lock and alone has results, all of messages that come
\* before those still due.
SenderSound(d) ==
    /\ sender[d].pc = "sending" => outboxLock = d
    /\ sender[d].pc # "sending" => sender[d].results = <<>>
    /\ \A i, j \in DOMAIN sender[d].due : i < j => sender[d].due[i].id < sender[d].due[j].id
    /\ \A i \in DOMAIN sender[d].due :
         /\ sender[d].due[i].id <= issued
         /\ sender[d].due[i].status \in {"pending", "retry"}
         /\ sender[d].due[i].attempts < MaxAttempts
         /\ \A j \in DOMAIN outbox : SameMessage(sender[d].due[i], outbox[j])
    /\ \A r \in DOMAIN sender[d].results :
         /\ sender[d].results[r].id <= issued
         /\ HasAttempts(sender[d].results[r])
         /\ \A j \in DOMAIN outbox : SameMessage(sender[d].results[r], outbox[j])
         /\ \A i \in DOMAIN sender[d].due : sender[d].results[r].id < sender[d].due[i].id

SenderInv == \A d \in Dispatchers : SenderSound(d)

\* What the record of a message says of the calls made for it: delivered only
\* if it was, not delivered only if it was not, up to the slips, and every call
\* counted as an attempt.
Truthful(m) ==
    /\ m.status = "delivered" => sent[m.id] > 0
    /\ m.status # "delivered" => sent[m.id] <= slips[m.id]
    /\ tries[m.id] <= m.attempts + MaxAttempts * slips[m.id]

\* A dispatcher has a result that the file does not have yet.
Unwritten(id) ==
    \E d \in Dispatchers : \E r \in DOMAIN sender[d].results : sender[d].results[r].id = id

RecordInv ==
    /\ \A i \in DOMAIN outbox :
         /\ HasAttempts(outbox[i])
         /\ outbox[i].status = "delivered" => sent[outbox[i].id] > 0
         /\ ~Unwritten(outbox[i].id) => Truthful(outbox[i])
    /\ \A d \in Dispatchers :
         /\ sender[d].pc = "sending" =>
              \A i \in DOMAIN sender[d].due : Truthful(sender[d].due[i])
         /\ \A r \in DOMAIN sender[d].results : Truthful(sender[d].results[r])

CountInv ==
    \A i \in 1 .. MaxIssued :
      /\ sent[i] <= 1 + slips[i]
      /\ tries[i] <= MaxAttempts * (1 + slips[i])
      /\ i > issued => sent[i] = 0 /\ tries[i] = 0

NoSlips == \A i \in 1 .. MaxIssued : slips[i] = 0

\* Without slips, whatever a dispatcher sends was live in the file all the time.
LiveInv ==
    NoSlips =>
      /\ OutboxOneLivePerKey
      /\ \A d \in Dispatchers : sender[d].pc = "sending" =>
           \A j \in DOMAIN outbox :
             /\ \A i \in DOMAIN sender[d].due :
                  sender[d].due[i].id = outbox[j].id => outbox[j].status \in Live
             /\ \A r \in DOMAIN sender[d].results :
                  sender[d].results[r].id = outbox[j].id => outbox[j].status \in Live

OutboxInv ==
    /\ OutboxTypes
    /\ OutboxKeepsNewest
    /\ SenderInv
    /\ RecordInv
    /\ CountInv
    /\ LiveInv

\* Len is at least 0, and a sequence is a function on 1 to its length.
LEMMA MessagesAre ==
  ASSUME NEW s \in Seq(Message)
  PROVE  /\ Len(s) \in Nat /\ DOMAIN s = 1 .. Len(s)
         /\ \A i \in DOMAIN s : s[i] \in Message
         /\ \A i \in 1 .. Len(s) : s[i] \in Message
  OBVIOUS

\* A function on 1 .. n to messages is a sequence of n messages.
LEMMA MessageFunction ==
  ASSUME NEW n \in Nat, NEW f \in [1 .. n -> Message]
  PROVE  f \in Seq(Message) /\ Len(f) = n /\ DOMAIN f = 1 .. n
  BY IsASeq

\* As long as the file is not over its bound it is written whole.
LEMMA AllKept ==
  ASSUME NEW s \in Seq(Message), Len(s) <= MaxKept
  PROVE  NewestKept(s) = s
  <1>1. Len(s) \in Nat /\ MaxKept \in Nat
    BY OutboxAssumption
  <1>2. (IF Len(s) < MaxKept THEN Len(s) ELSE MaxKept) = Len(s)
    BY <1>1
  <1>3. PICK from : from = Len(s) - (IF Len(s) < MaxKept THEN Len(s) ELSE MaxKept) + 1
    OBVIOUS
  <1>5. from = 1
    BY <1>1, <1>2, <1>3
  <1>6. NewestKept(s) = SubSeq(s, 1, Len(s))
    BY <1>3, <1>5 DEF NewestKept
  <1>4. SubSeq(s, 1, Len(s)) = s
    BY SubSeqFull
  <1> QED
    BY <1>4, <1>6

\* One message over its bound, the file loses its oldest.
LEMMA OldestDropped ==
  ASSUME NEW s \in Seq(Message), Len(s) = MaxKept + 1
  PROVE  /\ NewestKept(s) \in Seq(Message)
         /\ Len(NewestKept(s)) = MaxKept
         /\ \A i \in 1 .. MaxKept : NewestKept(s)[i] = s[i + 1]
  <1>1. Len(s) \in Nat /\ MaxKept \in Nat \ {0}
    BY OutboxAssumption
  <1>2. (IF Len(s) < MaxKept THEN Len(s) ELSE MaxKept) = MaxKept
    BY <1>1
  <1>3. NewestKept(s) = SubSeq(s, 2, MaxKept + 1)
    BY <1>1, <1>2 DEF NewestKept
  <1>4. 2 \in 1 .. Len(s) + 1 /\ MaxKept + 1 \in 1 .. Len(s)
    BY <1>1
  <1>5. SubSeq(s, 2, MaxKept + 1) = [i \in 1 .. MaxKept |-> s[i + 1]]
    BY <1>1, <1>4
  <1>6. [i \in 1 .. MaxKept |-> s[i + 1]] \in [1 .. MaxKept -> Message]
    BY <1>1, MessagesAre
  <1> QED
    BY <1>1, <1>3, <1>5, <1>6, MessageFunction

\* The message that enqueue makes.
NewMessage(k) == [id |-> issued + 1, key |-> k, status |-> "pending", attempts |-> 0, wait |-> 0]

\* enqueue appends a message; the file may lose its oldest one.
LEMMA Enqueued ==
  ASSUME OutboxTypes, OutboxKeepsNewest, NEW k \in Keys, Enqueue(k)
  PROVE  /\ NewMessage(k) \in Message
         /\ outbox' \in Seq(Message)
         /\ \E shift \in 0 .. 1 :
              /\ Len(outbox') = Len(outbox) + 1 - shift
              /\ Len(outbox') = IF issued + 1 < MaxKept THEN issued + 1 ELSE MaxKept
              /\ \A i \in 1 .. Len(outbox') :
                   outbox'[i] = IF i + shift <= Len(outbox) THEN outbox[i + shift] ELSE NewMessage(k)
  <1>1. MaxKept \in Nat \ {0} /\ MaxIssued \in Nat /\ MaxAttempts \in Nat \ {0} /\ issued \in 0 .. MaxIssued
    BY OutboxAssumption DEF OutboxTypes
  <1>2. LongestWait \in Nat
    <2>1. CASE MaxAttempts = 1
      BY <2>1 DEF LongestWait
    <2>2. CASE MaxAttempts # 1
      <3>1. MaxAttempts - 1 \in 1 .. MaxAttempts - 1
        BY <1>1, <2>2
      <3>2. LongestWait \in 0 .. LongestWait
        BY <2>2, <3>1, BackoffGrows DEF LongestWait
      <3> QED
        BY <3>2
    <2> QED
      BY <2>1, <2>2
  <1>3. NewMessage(k) \in Message
    <2>1. issued + 1 \in 1 .. MaxIssued
      BY <1>1 DEF Enqueue
    <2> QED
      BY <1>1, <1>2, <2>1 DEF NewMessage, Message, Live
  <1>4. outbox \in Seq(Message) /\ Len(outbox) \in Nat
    BY DEF OutboxTypes
  <1>5. PICK s : s = Append(outbox, NewMessage(k))
    OBVIOUS
  <1>6. /\ s \in Seq(Message) /\ Len(s) = Len(outbox) + 1
        /\ \A i \in 1 .. Len(s) : s[i] = IF i <= Len(outbox) THEN outbox[i] ELSE NewMessage(k)
    BY <1>3, <1>4, <1>5
  <1>7. outbox' = NewestKept(s)
    BY <1>5 DEF Enqueue, NewMessage
  <1>8. Len(outbox) = IF issued < MaxKept THEN issued ELSE MaxKept
    BY DEF OutboxKeepsNewest
  <1>9. CASE issued < MaxKept
    <2>1. outbox' = s
      BY <1>1, <1>6, <1>7, <1>8, <1>9, AllKept
    <2>2. /\ Len(outbox') = Len(outbox) + 1 - 0
          /\ Len(outbox') = IF issued + 1 < MaxKept THEN issued + 1 ELSE MaxKept
          /\ \A i \in 1 .. Len(outbox') :
               outbox'[i] = IF i + 0 <= Len(outbox) THEN outbox[i + 0] ELSE NewMessage(k)
      BY <1>1, <1>4, <1>6, <1>8, <1>9, <2>1
    <2> QED
      BY <1>3, <1>6, <2>1, <2>2
  <1>10. CASE ~(issued < MaxKept)
    <2>1. Len(s) = MaxKept + 1
      BY <1>6, <1>8, <1>10
    <2>2. /\ outbox' \in Seq(Message) /\ Len(outbox') = MaxKept
          /\ \A i \in 1 .. MaxKept : outbox'[i] = s[i + 1]
      BY <1>6, <1>7, <2>1, OldestDropped
    <2>3. \A i \in 1 .. MaxKept :
            outbox'[i] = IF i + 1 <= Len(outbox) THEN outbox[i + 1] ELSE NewMessage(k)
      BY <1>1, <1>6, <2>1, <2>2
    <2>4. /\ Len(outbox') = Len(outbox) + 1 - 1
          /\ Len(outbox') = IF issued + 1 < MaxKept THEN issued + 1 ELSE MaxKept
          /\ \A i \in 1 .. Len(outbox') :
               outbox'[i] = IF i + 1 <= Len(outbox) THEN outbox[i + 1] ELSE NewMessage(k)
      BY <1>1, <1>4, <1>8, <1>10, <2>2, <2>3
    <2> QED
      BY <1>3, <2>2, <2>4
  <1> QED
    BY <1>9, <1>10

\* The written file has the result of each message that has one.
LEMMA ResultsWritten ==
  ASSUME OutboxTypes, OutboxKeepsNewest, NEW d \in Dispatchers, WriteResults(d)
  PROVE  /\ outbox' \in Seq(Message)
         /\ DOMAIN outbox' = DOMAIN outbox
         /\ Len(outbox') = Len(outbox)
         /\ \A i \in DOMAIN outbox :
              \/ \E r \in DOMAIN sender[d].results :
                   /\ outbox'[i] = sender[d].results[r]
                   /\ sender[d].results[r].id = outbox[i].id
              \/ /\ outbox'[i] = outbox[i]
                 /\ \A r \in DOMAIN sender[d].results : sender[d].results[r].id # outbox[i].id
  <1>1. /\ outbox \in Seq(Message) /\ Len(outbox) \in Nat /\ DOMAIN outbox = 1 .. Len(outbox)
        /\ sender[d].results \in Seq(Message)
    BY DEF OutboxTypes, Sender
  <1>2. ASSUME NEW i \in DOMAIN outbox
        PROVE  /\ ResultFor(d, outbox[i]) \in Message
               /\ \/ \E r \in DOMAIN sender[d].results :
                       /\ ResultFor(d, outbox[i]) = sender[d].results[r]
                       /\ sender[d].results[r].id = outbox[i].id
                  \/ /\ ResultFor(d, outbox[i]) = outbox[i]
                     /\ \A r \in DOMAIN sender[d].results :
                          sender[d].results[r].id # outbox[i].id
    <2>1. PICK found : found = {r \in ToSet(sender[d].results) : r.id = outbox[i].id}
      OBVIOUS
    <2>2. ResultFor(d, outbox[i]) = IF found = {} THEN outbox[i] ELSE CHOOSE r \in found : TRUE
      BY <2>1 DEF ResultFor
    <2>3. \A m : m \in ToSet(sender[d].results) <=>
                   \E r \in DOMAIN sender[d].results : m = sender[d].results[r]
      BY DEF ToSet
    <2>4. CASE found = {}
      BY <1>1, <2>1, <2>2, <2>3, <2>4, MessagesAre
    <2>5. CASE found # {}
      <3>1. ResultFor(d, outbox[i]) \in found
        BY <2>2, <2>5
      <3> QED
        BY <1>1, <2>1, <2>3, <3>1, MessagesAre
    <2> QED
      BY <2>4, <2>5
  <1>3. PICK s : s = [i \in DOMAIN outbox |-> ResultFor(d, outbox[i])]
    OBVIOUS
  <1>4. s \in [1 .. Len(outbox) -> Message]
    BY <1>1, <1>2, <1>3
  <1>5. s \in Seq(Message) /\ Len(s) = Len(outbox) /\ DOMAIN s = DOMAIN outbox
    BY <1>1, <1>4, MessageFunction
  <1>6. Len(outbox) <= MaxKept
    BY OutboxAssumption DEF OutboxKeepsNewest, OutboxTypes
  <1>7. outbox' = s
    BY <1>3, <1>5, <1>6, AllKept DEF WriteResults
  <1> QED
    BY <1>2, <1>3, <1>5, <1>7

\* One more result is recorded, for the first message that is due.
LEMMA RecordedIs ==
  ASSUME OutboxTypes, NEW d \in Dispatchers, NEW m \in Message,
         sender[d].due # <<>>, Recorded(d, m)
  PROVE  /\ sender' \in [Dispatchers -> Sender]
         /\ \A e \in Dispatchers \ {d} : sender'[e] = sender[e]
         /\ sender'[d].pc = sender[d].pc /\ sender'[d].age = sender[d].age
         /\ Len(sender[d].due) \in Nat \ {0} /\ DOMAIN sender[d].due = 1 .. Len(sender[d].due)
         /\ Head(sender[d].due) = sender[d].due[1] /\ sender[d].due[1] \in Message
         /\ DOMAIN sender'[d].due = 1 .. Len(sender[d].due) - 1
         /\ \A i \in DOMAIN sender'[d].due :
              i + 1 \in DOMAIN sender[d].due /\ sender'[d].due[i] = sender[d].due[i + 1]
         /\ Len(sender[d].results) \in Nat
         /\ DOMAIN sender[d].results = 1 .. Len(sender[d].results)
         /\ DOMAIN sender'[d].results = 1 .. Len(sender[d].results) + 1
         /\ \A r \in DOMAIN sender'[d].results :
              \/ r \in DOMAIN sender[d].results /\ sender'[d].results[r] = sender[d].results[r]
              \/ r = Len(sender[d].results) + 1 /\ sender'[d].results[r] = m
  <1>1. sender \in [Dispatchers -> Sender] /\ sender[d] \in Sender
    BY DEF OutboxTypes
  <1>2. sender[d].due \in Seq(Message) /\ sender[d].results \in Seq(Message)
    BY <1>1 DEF Sender
  <1>3. PICK due : due = Tail(sender[d].due)
    OBVIOUS
  <1>4. PICK results : results = Append(sender[d].results, m)
    OBVIOUS
  <1>5. sender' = [sender EXCEPT ![d].due = due, ![d].results = results]
    BY <1>3, <1>4 DEF Recorded
  <1>6. due \in Seq(Message) /\ results \in Seq(Message)
    BY <1>2, <1>3, <1>4
  <1>7. /\ sender'[d].due = due /\ sender'[d].results = results
        /\ sender'[d].pc = sender[d].pc /\ sender'[d].age = sender[d].age
        /\ sender' \in [Dispatchers -> Sender]
        /\ \A e \in Dispatchers \ {d} : sender'[e] = sender[e]
    BY <1>1, <1>5, <1>6 DEF Sender
  <1>8. /\ Len(sender[d].due) \in Nat \ {0} /\ DOMAIN sender[d].due = 1 .. Len(sender[d].due)
        /\ Head(sender[d].due) = sender[d].due[1] /\ sender[d].due[1] \in Message
        /\ DOMAIN due = 1 .. Len(sender[d].due) - 1
        /\ \A i \in DOMAIN due : i + 1 \in DOMAIN sender[d].due /\ due[i] = sender[d].due[i + 1]
    BY <1>2, <1>3
  <1>9. /\ Len(sender[d].results) \in Nat
        /\ DOMAIN sender[d].results = 1 .. Len(sender[d].results)
        /\ DOMAIN results = 1 .. Len(sender[d].results) + 1
        /\ \A r \in DOMAIN results :
              \/ r \in DOMAIN sender[d].results /\ results[r] = sender[d].results[r]
              \/ r = Len(sender[d].results) + 1 /\ results[r] = m
    BY <1>2, <1>4
  <1> QED
    BY <1>7, <1>8, <1>9

\* The records of a message that no provider takes, and of one that arrived.
GivenUp(m) == [m EXCEPT !.status = "failed", !.attempts = @ + 1]
Arrived(m) == [m EXCEPT !.status = "delivered", !.attempts = @ + 1, !.wait = 0]

\* A record with another status, count of attempts and wait is one of the same message.
Changed(m, st, att, w) == [m EXCEPT !.status = st, !.attempts = att, !.wait = w]

LEMMA ChangedRecord ==
  ASSUME NEW m \in Message, NEW st \in Live \cup {"failed"}, NEW att \in 0 .. MaxAttempts,
         NEW w \in 0 .. LongestWait
  PROVE  /\ Changed(m, st, att, w) \in Message
         /\ Changed(m, st, att, w).id = m.id /\ Changed(m, st, att, w).key = m.key
         /\ Changed(m, st, att, w).status = st /\ Changed(m, st, att, w).attempts = att
  <1>1. PICK Ids : Ids = 1 .. MaxIssued
    OBVIOUS
  <1>2. PICK Statuses : Statuses = Live \cup {"failed"}
    OBVIOUS
  <1>3. PICK Counts : Counts = 0 .. MaxAttempts
    OBVIOUS
  <1>4. PICK Waits : Waits = 0 .. LongestWait
    OBVIOUS
  <1>5. Message = [id : Ids, key : Keys, status : Statuses, attempts : Counts, wait : Waits]
    BY <1>1, <1>2, <1>3, <1>4 DEF Message
  <1> QED
    BY <1>2, <1>3, <1>4, <1>5 DEF Changed

LEMMA LongestWaitNat == LongestWait \in Nat
  <1>1. MaxAttempts \in Nat \ {0}
    BY OutboxAssumption
  <1>2. CASE MaxAttempts = 1
    BY <1>2 DEF LongestWait
  <1>3. CASE MaxAttempts # 1
    <2>1. MaxAttempts - 1 \in 1 .. MaxAttempts - 1
      BY <1>1, <1>3
    <2>2. LongestWait \in 0 .. LongestWait
      BY <1>3, <2>1, BackoffGrows DEF LongestWait
    <2> QED
      BY <2>2
  <1> QED
    BY <1>2, <1>3

\* The next message of a dispatcher and its three possible results.
LEMMA ResultsAre ==
  ASSUME OutboxTypes, SenderInv, NEW d \in Dispatchers, sender[d].due # <<>>,
         NEW m, m = Head(sender[d].due)
  PROVE  /\ m \in Message /\ m.id <= issued /\ m.status \in {"pending", "retry"}
         /\ m = sender[d].due[1]
         /\ m.attempts + 1 \in 1 .. MaxAttempts
         /\ \A r \in {GivenUp(m), Arrived(m), AfterFailure(m, sender[d].age)} :
              /\ r \in Message /\ HasAttempts(r)
              /\ r.id = m.id /\ r.key = m.key /\ r.attempts = m.attempts + 1
         /\ GivenUp(m).status = "failed"
         /\ Arrived(m).status = "delivered"
         /\ AfterFailure(m, sender[d].age).status \in {"failed", "retry"}
  <1>1. sender[d] \in Sender /\ sender[d].due \in Seq(Message) /\ sender[d].age \in 0 .. LongestWait
    BY DEF OutboxTypes, Sender
  <1>3. /\ m \in Message /\ m = sender[d].due[1] /\ 1 \in DOMAIN sender[d].due
    BY <1>1
  <1>4. m.id <= issued /\ m.status \in {"pending", "retry"} /\ m.attempts < MaxAttempts
    BY <1>3 DEF SenderInv, SenderSound
  <1>5. m.attempts \in 0 .. MaxAttempts /\ MaxAttempts \in Nat /\ m.wait \in 0 .. LongestWait
    BY <1>3, OutboxAssumption DEF Message
  <1>21. m.attempts + 1 \in 1 .. MaxAttempts
    BY <1>4, <1>5
  <1>6. PICK attempt \in 1 .. MaxAttempts : attempt = m.attempts + 1
    BY <1>21
  <1>7. LongestWait \in Nat /\ 0 \in 0 .. LongestWait /\ attempt \in 0 .. MaxAttempts
    BY <1>5, LongestWaitNat
  <1>8. PICK Status : Status = Live \cup {"failed"}
    OBVIOUS
  <1>19. "failed" \in Status /\ "delivered" \in Status /\ "retry" \in Status
    BY <1>8 DEF Live
  <1>20. ASSUME NEW st \in Status, NEW w \in 0 .. LongestWait,
                NEW r, r = Changed(m, st, attempt, w)
         PROVE  /\ r \in Message /\ r.id = m.id /\ r.key = m.key
                /\ r.status = st /\ r.attempts = attempt
    <2>1. st \in Live \cup {"failed"}
      BY <1>8
    <2>2. /\ Changed(m, st, attempt, w) \in Message
          /\ Changed(m, st, attempt, w).id = m.id /\ Changed(m, st, attempt, w).key = m.key
          /\ Changed(m, st, attempt, w).status = st /\ Changed(m, st, attempt, w).attempts = attempt
      BY <1>3, <1>7, <2>1, ChangedRecord
    <2> QED
      BY <1>20, <2>2
  <1>9. PICK failed : failed = Changed(m, "failed", attempt, m.wait)
    OBVIOUS
  <1>10. /\ failed \in Message /\ failed.id = m.id /\ failed.key = m.key
         /\ failed.attempts = attempt /\ failed.status = "failed"
    BY <1>5, <1>9, <1>19, <1>20
  <1>11. GivenUp(m) = failed
    BY <1>3, <1>6, <1>9 DEF GivenUp, Message, Changed
  <1>12. PICK arrived : arrived = Changed(m, "delivered", attempt, 0)
    OBVIOUS
  <1>13. /\ arrived \in Message /\ arrived.id = m.id /\ arrived.key = m.key
         /\ arrived.attempts = attempt /\ arrived.status = "delivered"
    BY <1>7, <1>12, <1>19, <1>20
  <1>14. Arrived(m) = arrived
    BY <1>6, <1>12 DEF Arrived, Changed
  <1>15. PICK after : after = AfterFailure(m, sender[d].age)
    OBVIOUS
  <1>16. /\ after \in Message /\ after.id = m.id /\ after.key = m.key
         /\ after.attempts = attempt /\ after.status \in {"failed", "retry"}
         /\ after.status = "retry" => attempt < MaxAttempts
    <2>1. CASE attempt >= MaxAttempts
      <3>1. after = Changed(m, "failed", attempt, 0)
        BY <1>6, <1>15, <2>1 DEF AfterFailure, Changed
      <3>2. after \in Message /\ after.id = m.id /\ after.key = m.key
            /\ after.status = "failed" /\ after.attempts = attempt
        BY <1>7, <1>19, <1>20, <3>1
      <3> QED
        BY <3>2
    <2>2. CASE ~(attempt >= MaxAttempts)
      <3>1. PICK wait : wait = IF Backoff(attempt) > sender[d].age THEN Backoff(attempt) - sender[d].age
                               ELSE 0
        OBVIOUS
      <3>2. Backoff(attempt) \in 0 .. LongestWait
        BY <1>5, <1>6, <2>2, BackoffGrows
      <3>3. wait \in 0 .. LongestWait
        BY <1>1, <1>7, <3>1, <3>2
      <3>4. after = Changed(m, "retry", attempt, wait)
        BY <1>6, <1>15, <2>2, <3>1 DEF AfterFailure, Changed
      <3>5. after \in Message /\ after.id = m.id /\ after.key = m.key
            /\ after.status = "retry" /\ after.attempts = attempt
        BY <1>19, <1>20, <3>3, <3>4
      <3> QED
        BY <1>5, <1>6, <2>2, <3>5
    <2> QED
      BY <2>1, <2>2
  <1>17. HasAttempts(failed) /\ HasAttempts(arrived) /\ HasAttempts(after)
    BY <1>10, <1>13, <1>16 DEF HasAttempts
  <1>18. \A r \in {failed, arrived, after} :
           /\ r \in Message /\ HasAttempts(r)
           /\ r.id = m.id /\ r.key = m.key /\ r.attempts = m.attempts + 1
    BY <1>6, <1>10, <1>13, <1>16, <1>17
  <1> QED
    BY <1>3, <1>4, <1>6, <1>10, <1>11, <1>13, <1>14, <1>15, <1>16, <1>18

LEMMA OutboxInitInv == ASSUME OutboxInit PROVE OutboxInv
  <1>1. MaxKept \in Nat \ {0} /\ MaxIssued \in Nat /\ MaxAttempts \in Nat \ {0}
    BY OutboxAssumption
  <1>2. <<>> \in Seq(Message) /\ Len(<<>>) = 0 /\ DOMAIN <<>> = {}
    OBVIOUS
  <1>3. Resting \in Sender
    BY <1>2, LongestWaitNat DEF Resting, Sender
  <1>4. OutboxTypes
    BY <1>1, <1>2, <1>3 DEF OutboxInit, OutboxTypes
  <1>5. OutboxKeepsNewest
    BY <1>1, <1>2 DEF OutboxInit, OutboxKeepsNewest
  <1>6. \A d \in Dispatchers : /\ sender[d].pc = "resting"
                               /\ sender[d].due = <<>> /\ sender[d].results = <<>>
    BY DEF OutboxInit, Resting
  <1>7. SenderInv
    BY <1>2, <1>6 DEF SenderInv, SenderSound
  <1>8. RecordInv
    BY <1>2, <1>6 DEF RecordInv, OutboxInit
  <1>9. CountInv
    BY <1>1 DEF CountInv, OutboxInit
  <1>10. LiveInv
    BY <1>2, <1>6 DEF LiveInv, OutboxOneLivePerKey, OutboxInit
  <1> QED
    BY <1>4, <1>5, <1>7, <1>8, <1>9, <1>10 DEF OutboxInv

\* The due list that a dispatcher reads is of records in the file, oldest first.
LEMMA BatchIs ==
  ASSUME OutboxTypes, OutboxKeepsNewest, NEW d \in Dispatchers, Look(d)
  PROVE  /\ sender' \in [Dispatchers -> Sender]
         /\ \A e \in Dispatchers \ {d} : sender'[e] = sender[e]
         /\ sender'[d].pc = "looked" /\ sender'[d].results = <<>>
         /\ \A i \in DOMAIN sender'[d].due : \E p \in Pending : sender'[d].due[i] = outbox[p]
         /\ \A i, j \in DOMAIN sender'[d].due : i < j => sender'[d].due[i].id < sender'[d].due[j].id
  <1>1. PICK n \in 1 .. BatchLimit : \E at \in [1 .. n -> Pending] :
           /\ IsBatch(at)
           /\ sender' = [sender EXCEPT ![d] =
                [Resting EXCEPT !.pc = "looked", !.due = [i \in 1 .. n |-> outbox[at[i]]]]]
    BY DEF Look
  <1>2. PICK at \in [1 .. n -> Pending] :
           /\ IsBatch(at)
           /\ sender' = [sender EXCEPT ![d] =
                [Resting EXCEPT !.pc = "looked", !.due = [i \in 1 .. n |-> outbox[at[i]]]]]
    BY <1>1
  <1>3. PICK due : due = [i \in 1 .. n |-> outbox[at[i]]]
    OBVIOUS
  <1>4. n \in Nat /\ BatchLimit \in Nat
    BY OutboxAssumption
  <1>5. outbox \in Seq(Message) /\ Pending \subseteq DOMAIN outbox /\ DOMAIN outbox = 1 .. Len(outbox)
    BY DEF OutboxTypes, Pending
  <1>6. \A i \in 1 .. n : at[i] \in Pending /\ due[i] = outbox[at[i]] /\ due[i] \in Message
    BY <1>2, <1>3, <1>5, MessagesAre
  <1>7. due \in [1 .. n -> Message]
    BY <1>3, <1>6
  <1>8. due \in Seq(Message) /\ DOMAIN due = 1 .. n
    BY <1>4, <1>7, MessageFunction
  <1>9. PICK looked : looked = [Resting EXCEPT !.pc = "looked", !.due = due]
    OBVIOUS
  <1>10. looked = [pc |-> "looked", due |-> due, age |-> 0, results |-> <<>>]
    <2>1. PICK before : before = [pc |-> "resting", due |-> <<>>, age |-> 0, results |-> <<>>]
      OBVIOUS
    <2>2. looked = [before EXCEPT !.pc = "looked", !.due = due]
      BY <1>9, <2>1 DEF Resting
    <2> QED
      BY <2>1, <2>2
  <1>11. looked \in Sender
    BY <1>8, <1>10, LongestWaitNat DEF Sender
  <1>12. sender' = [sender EXCEPT ![d] = looked]
    BY <1>2, <1>3, <1>9
  <1>13. sender \in [Dispatchers -> Sender]
    BY DEF OutboxTypes
  <1>14. /\ sender' \in [Dispatchers -> Sender] /\ sender'[d] = looked
         /\ \A e \in Dispatchers \ {d} : sender'[e] = sender[e]
    BY <1>11, <1>12, <1>13
  <1>15. ASSUME NEW i \in 1 .. n, NEW j \in 1 .. n, i < j
         PROVE  due[i].id < due[j].id
    <2>1. DOMAIN at = 1 .. n
      BY <1>2
    <2>2. at[i] < at[j]
      BY <1>2, <1>15, <2>1 DEF IsBatch
    <2>3. at[i] \in DOMAIN outbox /\ at[j] \in DOMAIN outbox
      BY <1>5, <1>6
    <2>4. /\ outbox[at[i]].id = issued - Len(outbox) + at[i]
          /\ outbox[at[j]].id = issued - Len(outbox) + at[j]
      BY <2>3 DEF OutboxKeepsNewest
    <2>5. issued \in Int /\ Len(outbox) \in Int /\ at[i] \in Int /\ at[j] \in Int
      BY <1>5, <2>3 DEF OutboxTypes
    <2> QED
      BY <1>6, <2>2, <2>4, <2>5
  <1> QED
    BY <1>6, <1>8, <1>10, <1>14, <1>15

\* A minute later the messages of a list are the same but for the wait.
LEMMA OlderIs ==
  ASSUME NEW s \in Seq(Message)
  PROVE  /\ Older(s) \in Seq(Message) /\ DOMAIN Older(s) = DOMAIN s /\ Len(Older(s)) = Len(s)
         /\ \A i \in DOMAIN s :
              /\ Older(s)[i].id = s[i].id /\ Older(s)[i].key = s[i].key
              /\ Older(s)[i].status = s[i].status /\ Older(s)[i].attempts = s[i].attempts
  <1>1. Len(s) \in Nat /\ DOMAIN s = 1 .. Len(s) /\ \A i \in DOMAIN s : s[i] \in Message
    OBVIOUS
  <1>2. ASSUME NEW i \in DOMAIN s
        PROVE  /\ Older(s)[i] \in Message
               /\ Older(s)[i].id = s[i].id /\ Older(s)[i].key = s[i].key
               /\ Older(s)[i].status = s[i].status /\ Older(s)[i].attempts = s[i].attempts
    <2>1. PICK m \in Message : m = s[i]
      BY <1>1
    <2>2. PICK wait : wait = IF m.wait > 0 THEN m.wait - 1 ELSE 0
      OBVIOUS
    <2>3. Older(s)[i] = [m EXCEPT !.wait = wait]
      BY <2>1, <2>2 DEF Older
    <2>4. m.wait \in 0 .. LongestWait
      BY DEF Message
    <2>5. wait \in 0 .. LongestWait
      BY <2>2, <2>4, LongestWaitNat
    <2>6. PICK Ids : Ids = 1 .. MaxIssued
      OBVIOUS
    <2>7. PICK Statuses : Statuses = Live \cup {"failed"}
      OBVIOUS
    <2>8. PICK Counts : Counts = 0 .. MaxAttempts
      OBVIOUS
    <2>9. PICK Waits : Waits = 0 .. LongestWait
      OBVIOUS
    <2>10. Message = [id : Ids, key : Keys, status : Statuses, attempts : Counts, wait : Waits]
      BY <2>6, <2>7, <2>8, <2>9 DEF Message
    <2>11. PICK old : old = [m EXCEPT !.wait = wait]
      OBVIOUS
    <2>12. /\ old \in Message /\ old.id = m.id /\ old.key = m.key
           /\ old.status = m.status /\ old.attempts = m.attempts
      BY <2>5, <2>9, <2>10, <2>11
    <2> QED
      BY <2>1, <2>3, <2>11, <2>12
  <1>3. Older(s) \in [1 .. Len(s) -> Message]
    BY <1>1, <1>2 DEF Older
  <1> QED
    BY <1>1, <1>2, <1>3, MessageFunction

\* A minute changes nothing but waits and ages.
LEMMA MinuteIs ==
  ASSUME OutboxTypes, Minute
  PROVE  /\ outbox' = Older(outbox)
         /\ sender' \in [Dispatchers -> Sender]
         /\ \A d \in Dispatchers :
              /\ sender'[d].pc = sender[d].pc /\ sender'[d].due = sender[d].due
              /\ \/ sender'[d].results = sender[d].results /\ sender[d].pc = "resting"
                 \/ sender'[d].results = Older(sender[d].results)
  <1>1. outbox' = Older(outbox)
    BY DEF Minute
  <1>2. sender \in [Dispatchers -> Sender]
    BY DEF OutboxTypes
  <1>3. ASSUME NEW d \in Dispatchers
        PROVE  /\ sender'[d] \in Sender
               /\ sender'[d].pc = sender[d].pc /\ sender'[d].due = sender[d].due
               /\ \/ sender'[d].results = sender[d].results /\ sender[d].pc = "resting"
                  \/ sender'[d].results = Older(sender[d].results)
    <2>1. CASE sender[d].pc = "resting"
      <3>1. sender'[d] = sender[d]
        BY <2>1 DEF Minute
      <3> QED
        BY <1>2, <2>1, <3>1
    <2>2. CASE sender[d].pc # "resting"
      <3>1. PICK age : age = IF sender[d].age < LongestWait THEN sender[d].age + 1 ELSE sender[d].age
        OBVIOUS
      <3>2. PICK results : results = Older(sender[d].results)
        OBVIOUS
      <3>3. sender'[d] = [sender[d] EXCEPT !.age = age, !.results = results]
        <4>1. PICK r \in Sender : r = sender[d]
          BY <1>2
        <4>2. sender'[d] = [r EXCEPT !.age = IF @ < LongestWait THEN @ + 1 ELSE @,
                                    !.results = Older(@)]
          BY <2>2, <4>1 DEF Minute
        <4>3. PICK aged : aged = [r EXCEPT !.age = age]
          OBVIOUS
        <4>4. aged.results = r.results
          BY <4>3 DEF Sender
        <4>5. sender'[d] = [aged EXCEPT !.results = results]
          BY <3>1, <3>2, <4>1, <4>2, <4>3, <4>4
        <4> QED
          BY <4>1, <4>3, <4>5
      <3>4. sender[d] \in Sender /\ sender[d].results \in Seq(Message) /\ sender[d].age \in 0 .. LongestWait
        BY <1>2 DEF Sender
      <3>5. results \in Seq(Message)
        BY <3>2, <3>4, OlderIs
      <3>6. age \in 0 .. LongestWait
        BY <3>1, <3>4, LongestWaitNat
      <3>7. PICK Ages : Ages = 0 .. LongestWait
        OBVIOUS
      <3>8. PICK Lists : Lists = Seq(Message)
        OBVIOUS
      <3>9. PICK Steps_ : Steps_ = {"resting", "looked", "sending"}
        OBVIOUS
      <3>10. Sender = [pc : Steps_, due : Lists, age : Ages, results : Lists]
        BY <3>7, <3>8, <3>9 DEF Sender
      <3>11. /\ sender'[d] \in Sender /\ sender'[d].pc = sender[d].pc
             /\ sender'[d].due = sender[d].due /\ sender'[d].results = results
        BY <3>3, <3>4, <3>5, <3>6, <3>7, <3>8, <3>10
      <3> QED
        BY <3>2, <3>11
    <2> QED
      BY <2>1, <2>2
  <1>4. sender' \in [Dispatchers -> Sender]
    BY <1>3 DEF Minute
  <1> QED
    BY <1>1, <1>3, <1>4

\* A dispatcher has called the provider for its next message m, or found none,
\* and recorded r.
SendStep(d, m, r) ==
    /\ sender[d].pc = "sending" /\ sender[d].due # <<>>
    /\ m = sender[d].due[1] /\ m = Head(sender[d].due) /\ m.id <= issued
    /\ m.status \in {"pending", "retry"}
    /\ r.id = m.id /\ r.key = m.key /\ HasAttempts(r)
    /\ r.attempts = m.attempts + 1 /\ r.attempts \in 1 .. MaxAttempts
    /\ Recorded(d, r)
    /\ UNCHANGED <<outbox, issued, outboxLock, slips>>
    /\ \/ r.status = "failed" /\ UNCHANGED <<tries, sent>>
       \/ /\ r.status = "delivered"
          /\ tries' = [tries EXCEPT ![m.id] = @ + 1]
          /\ sent' = [sent EXCEPT ![m.id] = @ + 1]
       \/ /\ r.status \in {"failed", "retry"}
          /\ tries' = [tries EXCEPT ![m.id] = @ + 1]
          /\ UNCHANGED sent

LEMMA OneSend ==
  ASSUME OutboxTypes, SenderInv, NEW d \in Dispatchers,
         Unavailable(d) \/ Accepted(d) \/ Refused(d)
  PROVE  \E m, r \in Message : SendStep(d, m, r)
  <1>1. sender[d].due # <<>> /\ sender[d].pc = "sending"
    BY DEF Unavailable, Accepted, Refused
  <1>2. PICK m : m = Head(sender[d].due)
    OBVIOUS
  <1>3. /\ m \in Message /\ m.id <= issued /\ m.status \in {"pending", "retry"}
        /\ m = sender[d].due[1]
        /\ m.attempts + 1 \in 1 .. MaxAttempts
        /\ \A r \in {GivenUp(m), Arrived(m), AfterFailure(m, sender[d].age)} :
             /\ r \in Message /\ HasAttempts(r)
             /\ r.id = m.id /\ r.key = m.key /\ r.attempts = m.attempts + 1
        /\ GivenUp(m).status = "failed"
        /\ Arrived(m).status = "delivered"
        /\ AfterFailure(m, sender[d].age).status \in {"failed", "retry"}
    BY <1>1, <1>2, ResultsAre
  <1>4. CASE Unavailable(d)
    <2>1. Recorded(d, GivenUp(m)) /\ UNCHANGED <<outbox, issued, outboxLock, slips, tries, sent>>
      BY <1>2, <1>4 DEF Unavailable, GivenUp
    <2>2. SendStep(d, m, GivenUp(m))
      BY <1>1, <1>2, <1>3, <2>1 DEF SendStep
    <2> QED
      BY <1>3, <2>2
  <1>5. CASE Accepted(d)
    <2>1. /\ Recorded(d, Arrived(m)) /\ UNCHANGED <<outbox, issued, outboxLock, slips>>
          /\ tries' = [tries EXCEPT ![m.id] = @ + 1]
          /\ sent' = [sent EXCEPT ![m.id] = @ + 1]
      BY <1>2, <1>5 DEF Accepted, Arrived
    <2>2. SendStep(d, m, Arrived(m))
      BY <1>1, <1>2, <1>3, <2>1 DEF SendStep
    <2> QED
      BY <1>3, <2>2
  <1>6. CASE Refused(d)
    <2>1. PICK r \in Message : r = AfterFailure(m, sender[d].age)
      BY <1>3
    <2>2. /\ Recorded(d, r) /\ UNCHANGED <<outbox, issued, outboxLock, slips, sent>>
          /\ tries' = [tries EXCEPT ![m.id] = @ + 1]
      BY <1>2, <1>6, <2>1 DEF Refused
    <2>3. SendStep(d, m, r)
      BY <1>1, <1>2, <1>3, <2>1, <2>2 DEF SendStep
    <2> QED
      BY <1>3, <2>3
  <1> QED
    BY <1>4, <1>5, <1>6

\* A death of the process costs a slip for each result nobody wrote.
LEMMA SlipsOfDeath ==
  ASSUME OutboxTypes, SenderInv, ProcessEnds, NEW i \in 1 .. MaxIssued
  PROVE  slips'[i] = slips[i] + (IF Unwritten(i) THEN 1 ELSE 0)
  <1>1. PICK lost : lost = {d \in Dispatchers : \E m \in ToSet(sender[d].results) : m.id = i}
    OBVIOUS
  <1>2. slips'[i] = slips[i] + Cardinality(lost)
    BY <1>1 DEF ProcessEnds
  <1>3. \A d \in Dispatchers :
          d \in lost <=> \E r \in DOMAIN sender[d].results : sender[d].results[r].id = i
    BY <1>1 DEF ToSet
  <1>4. slips[i] \in Nat
    BY DEF OutboxTypes
  <1>5. CASE ~Unwritten(i)
    <2>1. lost = {}
      BY <1>1, <1>3, <1>5 DEF Unwritten
    <2> QED
      BY <1>2, <1>4, <1>5, <2>1, FS_EmptySet
  <1>6. CASE Unwritten(i)
    <2>1. PICK d \in Dispatchers : d \in lost
      BY <1>3, <1>6 DEF Unwritten
    <2>2. ASSUME NEW e \in lost PROVE e = d
      <3>1. e \in Dispatchers /\ DOMAIN sender[e].results # {} /\ DOMAIN sender[d].results # {}
        BY <1>1, <1>3, <2>1, <2>2
      <3>2. DOMAIN <<>> = {}
        OBVIOUS
      <3>3. sender[e].pc = "sending" /\ sender[d].pc = "sending"
        BY <3>1, <3>2 DEF SenderInv, SenderSound
      <3> QED
        BY <3>1, <3>3 DEF SenderInv, SenderSound
    <2>3. lost = {d}
      BY <2>1, <2>2
    <2>4. Cardinality(lost) = 1
      BY <2>3, FS_Singleton
    <2> QED
      BY <1>2, <1>6, <2>4
  <1> QED
    BY <1>5, <1>6

\* Every due record that a dispatcher takes up is in the file, or costs a slip.
LEMMA SlipsOfTake ==
  ASSUME OutboxTypes, NEW d \in Dispatchers, Take(d)
  PROVE  /\ \A i \in 1 .. MaxIssued : slips'[i] \in {slips[i], slips[i] + 1}
         /\ \A i \in DOMAIN sender[d].due :
              \/ \E j \in DOMAIN outbox : sender[d].due[i] = outbox[j]
              \/ slips'[sender[d].due[i].id] = slips[sender[d].due[i].id] + 1
         /\ sender' \in [Dispatchers -> Sender]
         /\ \A e \in Dispatchers : /\ sender'[e].due = sender[e].due
                                   /\ sender'[e].results = sender[e].results
         /\ sender'[d].pc = "sending"
         /\ \A e \in Dispatchers \ {d} : sender'[e].pc = sender[e].pc
  <1>1. PICK stale : stale = Stale(sender[d].due)
    OBVIOUS
  <1>2. \A i \in 1 .. MaxIssued : slips'[i] = slips[i] + (IF i \in stale THEN 1 ELSE 0)
    BY <1>1 DEF Take
  <1>3. \A i \in 1 .. MaxIssued : slips[i] \in Nat
    BY DEF OutboxTypes
  <1>4. sender \in [Dispatchers -> Sender] /\ sender[d] \in Sender /\ sender[d].due \in Seq(Message)
    BY DEF OutboxTypes, Sender
  <1>5. ASSUME NEW i \in DOMAIN sender[d].due
        PROVE  \/ \E j \in DOMAIN outbox : sender[d].due[i] = outbox[j]
               \/ slips'[sender[d].due[i].id] = slips[sender[d].due[i].id] + 1
    <2>1. PICK m \in Message : m = sender[d].due[i]
      BY <1>4
    <2>2. m \in ToSet(sender[d].due)
      BY <2>1 DEF ToSet
    <2>3. CASE m \in ToSet(outbox)
      BY <2>1, <2>3 DEF ToSet
    <2>4. CASE m \notin ToSet(outbox)
      <3>1. m.id \in stale
        BY <1>1, <2>2, <2>4 DEF Stale
      <3>2. m.id \in 1 .. MaxIssued
        BY DEF Message
      <3> QED
        BY <1>2, <2>1, <3>1, <3>2
    <2> QED
      BY <2>3, <2>4
  <1>6. sender' = [sender EXCEPT ![d].pc = "sending"]
    BY DEF Take
  <1>7. /\ sender' \in [Dispatchers -> Sender]
        /\ \A e \in Dispatchers : /\ sender'[e].due = sender[e].due
                                  /\ sender'[e].results = sender[e].results
        /\ sender'[d].pc = "sending"
        /\ \A e \in Dispatchers \ {d} : sender'[e].pc = sender[e].pc
    BY <1>4, <1>6 DEF Sender
  <1>8. \A i \in 1 .. MaxIssued : slips'[i] \in {slips[i], slips[i] + 1}
    BY <1>2, <1>3
  <1> QED
    BY <1>5, <1>7, <1>8

\* The results written are those of one dispatcher, which is done then.
LEMMA WrittenIs ==
  ASSUME OutboxTypes, NEW d \in Dispatchers, WriteResults(d)
  PROVE  /\ sender' \in [Dispatchers -> Sender]
         /\ \A e \in Dispatchers \ {d} : sender'[e] = sender[e]
         /\ sender'[d].pc = "resting" /\ sender'[d].due = <<>> /\ sender'[d].results = <<>>
  <1>1. <<>> \in Seq(Message)
    OBVIOUS
  <1>2. Resting \in Sender
    BY <1>1, LongestWaitNat DEF Resting, Sender
  <1>3. /\ Resting.pc = "resting" /\ Resting.due = <<>> /\ Resting.results = <<>>
    BY DEF Resting
  <1>4. sender' = [sender EXCEPT ![d] = Resting] /\ sender \in [Dispatchers -> Sender]
    BY DEF WriteResults, OutboxTypes
  <1> QED
    BY <1>2, <1>3, <1>4

LEMMA DeathIs ==
  ASSUME OutboxTypes, ProcessEnds
  PROVE  /\ sender' \in [Dispatchers -> Sender]
         /\ \A e \in Dispatchers :
              sender'[e].pc = "resting" /\ sender'[e].due = <<>> /\ sender'[e].results = <<>>
  <1>1. <<>> \in Seq(Message)
    OBVIOUS
  <1>2. Resting \in Sender
    BY <1>1, LongestWaitNat DEF Resting, Sender
  <1>3. /\ Resting.pc = "resting" /\ Resting.due = <<>> /\ Resting.results = <<>>
    BY DEF Resting
  <1> QED
    BY <1>2, <1>3 DEF ProcessEnds

LEMMA OutboxTypesKept ==
  ASSUME OutboxInv, OutboxNext
  PROVE  OutboxTypes' /\ OutboxKeepsNewest'
  <1>1. OutboxTypes /\ OutboxKeepsNewest /\ SenderInv
    BY DEF OutboxInv
  <1>2. MaxKept \in Nat \ {0} /\ MaxIssued \in Nat
    BY OutboxAssumption
  <1>3. /\ outbox \in Seq(Message) /\ issued \in 0 .. MaxIssued
        /\ Len(outbox) \in Nat /\ DOMAIN outbox = 1 .. Len(outbox)
        /\ Len(outbox) = (IF issued < MaxKept THEN issued ELSE MaxKept)
        /\ \A i \in DOMAIN outbox : outbox[i].id = issued - Len(outbox) + i
    BY <1>1 DEF OutboxTypes, OutboxKeepsNewest
  <1>4. ASSUME NEW k \in Keys, Enqueue(k)
        PROVE  OutboxTypes' /\ OutboxKeepsNewest'
    <2>1. /\ outbox' \in Seq(Message)
          /\ \E shift \in 0 .. 1 :
               /\ Len(outbox') = Len(outbox) + 1 - shift
               /\ Len(outbox') = IF issued + 1 < MaxKept THEN issued + 1 ELSE MaxKept
               /\ \A i \in 1 .. Len(outbox') :
                    outbox'[i] = IF i + shift <= Len(outbox) THEN outbox[i + shift] ELSE NewMessage(k)
      BY <1>1, <1>4, Enqueued
    <2>2. issued' = issued + 1 /\ issued' \in 0 .. MaxIssued
          /\ UNCHANGED <<outboxLock, sender, tries, sent, slips>>
      BY <1>2, <1>3, <1>4 DEF Enqueue
    <2>3. OutboxTypes'
      BY <1>1, <2>1, <2>2 DEF OutboxTypes
    <2>4. PICK shift \in 0 .. 1 :
            /\ Len(outbox') = Len(outbox) + 1 - shift
            /\ Len(outbox') = IF issued + 1 < MaxKept THEN issued + 1 ELSE MaxKept
            /\ \A i \in 1 .. Len(outbox') :
                 outbox'[i] = IF i + shift <= Len(outbox) THEN outbox[i + shift] ELSE NewMessage(k)
      BY <2>1
    <2>5. ASSUME NEW i \in DOMAIN outbox'
          PROVE  outbox'[i].id = issued' - Len(outbox') + i
      <3>1. i \in 1 .. Len(outbox') /\ i \in Nat /\ Len(outbox') \in Nat /\ shift \in {0, 1} /\ issued \in Nat
        BY <1>2, <1>3, <2>1
      <3>4. outbox'[i] = IF i + shift <= Len(outbox) THEN outbox[i + shift] ELSE NewMessage(k)
        BY <2>4, <3>1
      <3>5. Len(outbox') = Len(outbox) + 1 - shift
        BY <2>4
      <3>2. CASE i + shift <= Len(outbox)
        <4>1. i + shift \in DOMAIN outbox /\ outbox'[i] = outbox[i + shift]
          BY <1>3, <3>1, <3>2, <3>4
        <4>2. outbox[i + shift].id = issued - Len(outbox) + (i + shift)
          BY <1>3, <4>1
        <4>3. issued' = issued + 1 /\ Len(outbox) \in Nat
          BY <1>3, <2>2
        <4> QED
          BY <3>1, <3>5, <4>1, <4>2, <4>3
      <3>3. CASE ~(i + shift <= Len(outbox))
        <4>1. outbox'[i] = NewMessage(k) /\ i = Len(outbox')
          BY <1>3, <3>1, <3>3, <3>4, <3>5
        <4>2. NewMessage(k).id = issued + 1
          BY DEF NewMessage
        <4> QED
          BY <1>3, <2>2, <3>1, <4>1, <4>2
      <3> QED
        BY <3>2, <3>3
    <2>6. OutboxKeepsNewest'
      BY <2>2, <2>4, <2>5 DEF OutboxKeepsNewest
    <2> QED
      BY <2>3, <2>6
  <1>5. ASSUME NEW d \in Dispatchers, Look(d)
        PROVE  OutboxTypes' /\ OutboxKeepsNewest'
    <2>1. sender' \in [Dispatchers -> Sender]
      BY <1>1, <1>5, BatchIs
    <2>2. UNCHANGED <<outbox, issued, outboxLock, tries, sent, slips>>
      BY <1>5 DEF Look
    <2> QED
      BY <1>1, <2>1, <2>2 DEF OutboxTypes, OutboxKeepsNewest
  <1>6. ASSUME NEW d \in Dispatchers, Take(d)
        PROVE  OutboxTypes' /\ OutboxKeepsNewest'
    <2>1. sender' \in [Dispatchers -> Sender] /\ \A i \in 1 .. MaxIssued : slips'[i] \in {slips[i], slips[i] + 1}
      BY <1>1, <1>6, SlipsOfTake
    <2>2. \A i \in 1 .. MaxIssued : slips'[i] \in Nat
      BY <1>1, <2>1 DEF OutboxTypes
    <2>3. PICK new : new = [i \in 1 .. MaxIssued |-> slips'[i]]
      OBVIOUS
    <2>4. slips' = new
      BY <1>6, <2>3 DEF Take
    <2>5. slips' \in [1 .. MaxIssued -> Nat]
      BY <2>2, <2>3, <2>4
    <2>6. outboxLock' \in Dispatchers /\ UNCHANGED <<outbox, issued, tries, sent>>
      BY <1>6 DEF Take
    <2> QED
      BY <1>1, <2>1, <2>5, <2>6 DEF OutboxTypes, OutboxKeepsNewest
  <1>7. ASSUME NEW d \in Dispatchers, Unavailable(d) \/ Accepted(d) \/ Refused(d)
        PROVE  OutboxTypes' /\ OutboxKeepsNewest'
    <2>1. PICK m, r \in Message : SendStep(d, m, r)
      BY <1>1, <1>7, OneSend
    <2>2. sender' \in [Dispatchers -> Sender]
      BY <1>1, <2>1, RecordedIs DEF SendStep
    <2>3. m.id \in 1 .. MaxIssued
      BY DEF Message
    <2>4. tries' \in [1 .. MaxIssued -> Nat] /\ sent' \in [1 .. MaxIssued -> Nat]
      <3>1. tries \in [1 .. MaxIssued -> Nat] /\ sent \in [1 .. MaxIssued -> Nat]
        BY <1>1 DEF OutboxTypes
      <3>2. tries' = tries \/ tries' = [tries EXCEPT ![m.id] = tries[m.id] + 1]
        BY <2>1 DEF SendStep
      <3>3. sent' = sent \/ sent' = [sent EXCEPT ![m.id] = sent[m.id] + 1]
        BY <2>1 DEF SendStep
      <3> QED
        BY <2>3, <3>1, <3>2, <3>3
    <2>5. UNCHANGED <<outbox, issued, outboxLock, slips>>
      BY <2>1 DEF SendStep
    <2> QED
      BY <1>1, <2>2, <2>4, <2>5 DEF OutboxTypes, OutboxKeepsNewest
  <1>8. ASSUME NEW d \in Dispatchers, WriteResults(d)
        PROVE  OutboxTypes' /\ OutboxKeepsNewest'
    <2>1. /\ outbox' \in Seq(Message) /\ DOMAIN outbox' = DOMAIN outbox /\ Len(outbox') = Len(outbox)
          /\ \A i \in DOMAIN outbox : outbox'[i].id = outbox[i].id
      BY <1>1, <1>8, ResultsWritten
    <2>2. sender' \in [Dispatchers -> Sender]
      BY <1>1, <1>8, WrittenIs
    <2>3. outboxLock' = NoSender /\ UNCHANGED <<issued, tries, sent, slips>>
      BY <1>8 DEF WriteResults
    <2> QED
      BY <1>1, <2>1, <2>2, <2>3 DEF OutboxTypes, OutboxKeepsNewest
  <1>9. ASSUME Minute
        PROVE  OutboxTypes' /\ OutboxKeepsNewest'
    <2>1. outbox' = Older(outbox) /\ sender' \in [Dispatchers -> Sender]
      BY <1>1, <1>9, MinuteIs
    <2>2. /\ outbox' \in Seq(Message) /\ DOMAIN outbox' = DOMAIN outbox /\ Len(outbox') = Len(outbox)
          /\ \A i \in DOMAIN outbox : outbox'[i].id = outbox[i].id
      BY <1>3, <2>1, OlderIs
    <2>3. UNCHANGED <<issued, outboxLock, tries, sent, slips>>
      BY <1>9 DEF Minute
    <2> QED
      BY <1>1, <2>1, <2>2, <2>3 DEF OutboxTypes, OutboxKeepsNewest
  <1>10. ASSUME ProcessEnds
         PROVE  OutboxTypes' /\ OutboxKeepsNewest'
    <2>1. sender' \in [Dispatchers -> Sender]
      BY <1>1, <1>10, DeathIs
    <2>2. ASSUME NEW i \in 1 .. MaxIssued PROVE slips'[i] \in Nat
      BY <1>1, <1>10, SlipsOfDeath DEF OutboxTypes
    <2>3. PICK new : new = [i \in 1 .. MaxIssued |-> slips'[i]]
      OBVIOUS
    <2>4. slips' = new
      BY <1>10, <2>3 DEF ProcessEnds
    <2>5. slips' \in [1 .. MaxIssued -> Nat]
      BY <2>2, <2>3, <2>4
    <2>6. outboxLock' = NoSender /\ UNCHANGED <<outbox, issued, tries, sent>>
      BY <1>10 DEF ProcessEnds
    <2> QED
      BY <1>1, <2>1, <2>5, <2>6 DEF OutboxTypes, OutboxKeepsNewest
  <1> QED
    BY <1>4, <1>5, <1>6, <1>7, <1>8, <1>9, <1>10 DEF OutboxNext

\* What a step leaves in the file are messages that were there, with their
\* keys, and new ones.
LEMMA KeysKept ==
  ASSUME OutboxInv, OutboxNext
  PROVE  /\ issued \in Nat /\ issued' \in Nat /\ issued <= issued'
         /\ \A j \in DOMAIN outbox' :
              \/ outbox'[j].id > issued
              \/ \E i \in DOMAIN outbox : outbox'[j].id = outbox[i].id /\ outbox'[j].key = outbox[i].key
  <1>1. OutboxTypes /\ OutboxKeepsNewest /\ SenderInv
    BY DEF OutboxInv
  <1>2. issued \in Nat /\ MaxIssued \in Nat
    BY <1>1, OutboxAssumption DEF OutboxTypes
  <1>3. /\ outbox \in Seq(Message) /\ Len(outbox) \in Nat /\ DOMAIN outbox = 1 .. Len(outbox)
    BY <1>1 DEF OutboxTypes
  <1>4. ASSUME NEW k \in Keys, Enqueue(k)
        PROVE  /\ issued' \in Nat /\ issued <= issued'
               /\ \A j \in DOMAIN outbox' :
                    \/ outbox'[j].id > issued
                    \/ \E i \in DOMAIN outbox : outbox'[j].id = outbox[i].id /\ outbox'[j].key = outbox[i].key
    <2>1. issued' = issued + 1
      BY <1>4 DEF Enqueue
    <2>2. /\ outbox' \in Seq(Message)
          /\ \E shift \in 0 .. 1 :
               /\ Len(outbox') = Len(outbox) + 1 - shift
               /\ Len(outbox') = IF issued + 1 < MaxKept THEN issued + 1 ELSE MaxKept
               /\ \A i \in 1 .. Len(outbox') :
                    outbox'[i] = IF i + shift <= Len(outbox) THEN outbox[i + shift] ELSE NewMessage(k)
      BY <1>1, <1>4, Enqueued
    <2>3. PICK shift \in 0 .. 1 : \A i \in 1 .. Len(outbox') :
            outbox'[i] = IF i + shift <= Len(outbox) THEN outbox[i + shift] ELSE NewMessage(k)
      BY <2>2
    <2>4. ASSUME NEW j \in DOMAIN outbox'
          PROVE  \/ outbox'[j].id > issued
                 \/ \E i \in DOMAIN outbox : outbox'[j].id = outbox[i].id /\ outbox'[j].key = outbox[i].key
      <3>1. j \in 1 .. Len(outbox') /\ j \in Nat /\ j >= 1
        BY <2>2
      <3>2. CASE j + shift <= Len(outbox)
        <4>1. j + shift \in DOMAIN outbox
          BY <1>3, <3>1, <3>2
        <4>2. outbox'[j] = outbox[j + shift]
          BY <2>3, <3>1, <3>2
        <4> QED
          BY <4>1, <4>2
      <3>3. CASE ~(j + shift <= Len(outbox))
        <4>1. outbox'[j] = NewMessage(k)
          BY <2>3, <3>1, <3>3
        <4>2. NewMessage(k).id = issued + 1
          BY DEF NewMessage
        <4> QED
          BY <1>2, <4>1, <4>2
      <3> QED
        BY <3>2, <3>3
    <2> QED
      BY <1>2, <2>1, <2>4
  <1>5. ASSUME NEW d \in Dispatchers, WriteResults(d)
        PROVE  /\ issued' = issued
               /\ \A j \in DOMAIN outbox' :
                    \E i \in DOMAIN outbox : outbox'[j].id = outbox[i].id /\ outbox'[j].key = outbox[i].key
    <2>1. /\ DOMAIN outbox' = DOMAIN outbox
          /\ \A i \in DOMAIN outbox :
              \/ \E r \in DOMAIN sender[d].results :
                   /\ outbox'[i] = sender[d].results[r]
                   /\ sender[d].results[r].id = outbox[i].id
              \/ outbox'[i] = outbox[i]
      BY <1>1, <1>5, ResultsWritten
    <2>2. issued' = issued
      BY <1>5 DEF WriteResults
    <2>3. ASSUME NEW i \in DOMAIN outbox
          PROVE  outbox'[i].id = outbox[i].id /\ outbox'[i].key = outbox[i].key
      <3>1. CASE outbox'[i] = outbox[i]
        BY <3>1
      <3>2. CASE outbox'[i] # outbox[i]
        <4>1. PICK r \in DOMAIN sender[d].results :
                /\ outbox'[i] = sender[d].results[r]
                /\ sender[d].results[r].id = outbox[i].id
          BY <2>1, <3>2
        <4>2. SameMessage(sender[d].results[r], outbox[i])
          BY <1>1, <4>1 DEF SenderInv, SenderSound
        <4> QED
          BY <4>1, <4>2 DEF SameMessage
      <3> QED
        BY <3>1, <3>2
    <2> QED
      BY <2>1, <2>2, <2>3
  <1>6. ASSUME Minute
        PROVE  /\ issued' = issued
               /\ \A j \in DOMAIN outbox' :
                    \E i \in DOMAIN outbox : outbox'[j].id = outbox[i].id /\ outbox'[j].key = outbox[i].key
    <2>1. outbox' = Older(outbox)
      BY <1>1, <1>6, MinuteIs
    <2>2. /\ DOMAIN outbox' = DOMAIN outbox
          /\ \A i \in DOMAIN outbox : outbox'[i].id = outbox[i].id /\ outbox'[i].key = outbox[i].key
      BY <1>3, <2>1, OlderIs
    <2>3. issued' = issued
      BY <1>6 DEF Minute
    <2> QED
      BY <2>2, <2>3
  <1>7. ASSUME NEW d \in Dispatchers, Look(d) \/ Take(d) \/ Unavailable(d) \/ Accepted(d) \/ Refused(d)
        PROVE  UNCHANGED <<outbox, issued>>
    BY <1>7 DEF Look, Take, Unavailable, Accepted, Refused
  <1>8. ASSUME ProcessEnds PROVE UNCHANGED <<outbox, issued>>
    BY <1>8 DEF ProcessEnds
  <1> QED
    BY <1>2, <1>4, <1>5, <1>6, <1>7, <1>8 DEF OutboxNext

\* What a dispatcher holds stays sound as long as it holds the same records.
LEMMA SameHeld ==
  ASSUME OutboxInv, OutboxNext, NEW d \in Dispatchers,
         sender'[d].due = sender[d].due,
         DOMAIN sender'[d].results = DOMAIN sender[d].results,
         \A r \in DOMAIN sender[d].results :
           /\ sender'[d].results[r].id = sender[d].results[r].id
           /\ sender'[d].results[r].key = sender[d].results[r].key
           /\ sender'[d].results[r].status = sender[d].results[r].status
           /\ sender'[d].results[r].attempts = sender[d].results[r].attempts,
         sender'[d].pc = "sending" => outboxLock' = d,
         sender'[d].pc # "sending" => sender'[d].results = <<>>
  PROVE  SenderSound(d)'
  <1>1. OutboxTypes /\ SenderSound(d)
    BY DEF OutboxInv, SenderInv
  <1>2. /\ issued \in Nat /\ issued' \in Nat /\ issued <= issued'
        /\ \A j \in DOMAIN outbox' :
             \/ outbox'[j].id > issued
             \/ \E i \in DOMAIN outbox : outbox'[j].id = outbox[i].id /\ outbox'[j].key = outbox[i].key
    BY KeysKept
  <1>3. sender[d].due \in Seq(Message) /\ sender[d].results \in Seq(Message)
    BY <1>1 DEF OutboxTypes, Sender
  <1>4. ASSUME NEW m \in Message, m.id <= issued,
               \A j \in DOMAIN outbox : SameMessage(m, outbox[j])
        PROVE  m.id <= issued' /\ \A j \in DOMAIN outbox' : SameMessage(m, outbox'[j])
    <2>1. m.id \in Int
      BY DEF Message
    <2> QED
      BY <1>2, <1>4, <2>1 DEF SameMessage
  <1>5. \A i \in DOMAIN sender[d].due :
          /\ sender[d].due[i].id <= issued'
          /\ \A j \in DOMAIN outbox' : SameMessage(sender[d].due[i], outbox'[j])
    BY <1>1, <1>3, <1>4 DEF SenderSound
  <1>6. \A r \in DOMAIN sender[d].results :
          /\ sender[d].results[r].id <= issued'
          /\ \A j \in DOMAIN outbox' : SameMessage(sender[d].results[r], outbox'[j])
    BY <1>1, <1>3, <1>4 DEF SenderSound
  <1>7. \A r \in DOMAIN sender[d].results :
          /\ sender'[d].results[r].id <= issued'
          /\ HasAttempts(sender'[d].results[r])
          /\ \A j \in DOMAIN outbox' : SameMessage(sender'[d].results[r], outbox'[j])
          /\ \A i \in DOMAIN sender[d].due : sender'[d].results[r].id < sender[d].due[i].id
    BY <1>1, <1>6 DEF SenderSound, SameMessage, HasAttempts
  <1> QED
    BY <1>1, <1>5, <1>7 DEF SenderSound

LEMMA SenderKept ==
  ASSUME OutboxInv, OutboxNext
  PROVE  SenderInv'
  <1>1. OutboxTypes /\ OutboxKeepsNewest /\ SenderInv /\ RecordInv
    BY DEF OutboxInv
  <1>2. NoSender \notin Dispatchers
    BY OutboxAssumption DEF NoSender
  <1>3. OutboxTypes' /\ OutboxKeepsNewest'
    BY OutboxTypesKept
  <1>4. ASSUME NEW e \in Dispatchers, sender'[e] = sender[e],
               sender[e].pc = "sending" => outboxLock' = e
        PROVE  SenderSound(e)'
    <2>1. sender[e].pc # "sending" => sender[e].results = <<>>
      BY <1>1 DEF SenderInv, SenderSound
    <2>2. /\ sender'[e].due = sender[e].due
          /\ DOMAIN sender'[e].results = DOMAIN sender[e].results
          /\ \A r \in DOMAIN sender[e].results :
               /\ sender'[e].results[r].id = sender[e].results[r].id
               /\ sender'[e].results[r].key = sender[e].results[r].key
               /\ sender'[e].results[r].status = sender[e].results[r].status
               /\ sender'[e].results[r].attempts = sender[e].results[r].attempts
          /\ sender'[e].pc = "sending" => outboxLock' = e
          /\ sender'[e].pc # "sending" => sender'[e].results = <<>>
      BY <1>4, <2>1
    <2> QED
      BY <2>2, SameHeld
  <1>5. ASSUME NEW k \in Keys, Enqueue(k)
        PROVE  SenderInv'
    <2>1. UNCHANGED <<sender, outboxLock>>
      BY <1>5 DEF Enqueue
    <2>2. ASSUME NEW e \in Dispatchers PROVE SenderSound(e)'
      <3>1. sender[e].pc = "sending" => outboxLock' = e
        BY <1>1, <2>1 DEF SenderInv, SenderSound
      <3> QED
        BY <1>4, <2>1, <3>1
    <2> QED
      BY <2>2 DEF SenderInv
  <1>6. ASSUME NEW d \in Dispatchers, Look(d)
        PROVE  SenderInv'
    <2>1. UNCHANGED <<outbox, issued, outboxLock>>
      BY <1>6 DEF Look
    <2>2. /\ \A e \in Dispatchers \ {d} : sender'[e] = sender[e]
          /\ sender'[d].pc = "looked" /\ sender'[d].results = <<>>
          /\ \A i \in DOMAIN sender'[d].due : \E p \in Pending : sender'[d].due[i] = outbox[p]
          /\ \A i, j \in DOMAIN sender'[d].due :
               i < j => sender'[d].due[i].id < sender'[d].due[j].id
      BY <1>1, <1>6, BatchIs
    <2>3. ASSUME NEW i \in DOMAIN sender'[d].due
          PROVE  /\ sender'[d].due[i].id <= issued'
                 /\ sender'[d].due[i].status \in {"pending", "retry"}
                 /\ sender'[d].due[i].attempts < MaxAttempts
                 /\ \A j \in DOMAIN outbox' : SameMessage(sender'[d].due[i], outbox'[j])
      <3>1. PICK p \in Pending : sender'[d].due[i] = outbox[p]
        BY <2>2
      <3>2. p \in DOMAIN outbox /\ outbox[p].status \in {"pending", "retry"}
        BY <3>1 DEF Pending
      <3>3. outbox[p].attempts < MaxAttempts
        BY <1>1, <3>2 DEF RecordInv, HasAttempts
      <3>4. /\ Len(outbox) \in Nat /\ DOMAIN outbox = 1 .. Len(outbox) /\ issued \in Int
            /\ \A j \in DOMAIN outbox : outbox[j].id = issued - Len(outbox) + j
        BY <1>1 DEF OutboxTypes, OutboxKeepsNewest
      <3>5. outbox[p].id <= issued
        BY <3>2, <3>4
      <3>6. ASSUME NEW j \in DOMAIN outbox PROVE SameMessage(outbox[p], outbox[j])
        BY <3>2, <3>4 DEF SameMessage
      <3> QED
        BY <2>1, <3>1, <3>2, <3>3, <3>5, <3>6
    <2>4. DOMAIN <<>> = {}
      OBVIOUS
    <2>5. SenderSound(d)'
      BY <2>2, <2>3, <2>4 DEF SenderSound
    <2>6. ASSUME NEW e \in Dispatchers, e # d PROVE SenderSound(e)'
      <3>1. sender'[e] = sender[e] /\ (sender[e].pc = "sending" => outboxLock' = e)
        BY <1>1, <2>1, <2>2, <2>6 DEF SenderInv, SenderSound
      <3> QED
        BY <1>4, <3>1
    <2> QED
      BY <2>5, <2>6 DEF SenderInv
  <1>7. ASSUME NEW d \in Dispatchers, Take(d)
        PROVE  SenderInv'
    <2>1. outboxLock = NoSender /\ outboxLock' = d
      BY <1>7 DEF Take
    <2>2. /\ \A e \in Dispatchers : /\ sender'[e].due = sender[e].due
                                    /\ sender'[e].results = sender[e].results
          /\ sender'[d].pc = "sending"
          /\ \A e \in Dispatchers \ {d} : sender'[e].pc = sender[e].pc
      BY <1>1, <1>7, SlipsOfTake
    <2>3. ASSUME NEW e \in Dispatchers PROVE SenderSound(e)'
      <3>1. sender[e].pc # "sending"
        BY <1>1, <1>2, <2>1 DEF SenderInv, SenderSound
      <3>2. sender[e].results = <<>>
        BY <1>1, <3>1 DEF SenderInv, SenderSound
      <3>3. sender'[e].pc = "sending" => e = d
        BY <2>2, <3>1
      <3>4. sender'[e].pc = "sending" => outboxLock' = e
        BY <2>1, <3>3
      <3>5. /\ sender'[e].due = sender[e].due
            /\ sender'[e].results = sender[e].results
        BY <2>2
      <3>6. /\ DOMAIN sender'[e].results = DOMAIN sender[e].results
            /\ \A r \in DOMAIN sender[e].results :
               /\ sender'[e].results[r].id = sender[e].results[r].id
               /\ sender'[e].results[r].key = sender[e].results[r].key
               /\ sender'[e].results[r].status = sender[e].results[r].status
               /\ sender'[e].results[r].attempts = sender[e].results[r].attempts
            /\ sender'[e].pc # "sending" => sender'[e].results = <<>>
        BY <3>2, <3>5
      <3> QED
        BY <3>4, <3>5, <3>6, SameHeld
    <2> QED
      BY <2>3 DEF SenderInv
  <1>8. ASSUME NEW d \in Dispatchers, Unavailable(d) \/ Accepted(d) \/ Refused(d)
        PROVE  SenderInv'
    <2>1. PICK m, r \in Message : SendStep(d, m, r)
      BY <1>1, <1>8, OneSend
    <2>2. /\ \A e \in Dispatchers \ {d} : sender'[e] = sender[e]
          /\ sender'[d].pc = sender[d].pc
          /\ Len(sender[d].due) \in Nat \ {0} /\ DOMAIN sender[d].due = 1 .. Len(sender[d].due)
          /\ DOMAIN sender'[d].due = 1 .. Len(sender[d].due) - 1
          /\ \A i \in DOMAIN sender'[d].due :
               i + 1 \in DOMAIN sender[d].due /\ sender'[d].due[i] = sender[d].due[i + 1]
          /\ \A q \in DOMAIN sender'[d].results :
               \/ q \in DOMAIN sender[d].results /\ sender'[d].results[q] = sender[d].results[q]
               \/ sender'[d].results[q] = r
      BY <1>1, <2>1, RecordedIs DEF SendStep
    <2>3. UNCHANGED <<outbox, issued, outboxLock>>
      BY <2>1 DEF SendStep
    <2>4. /\ m = sender[d].due[1] /\ 1 \in DOMAIN sender[d].due
          /\ r.id = m.id /\ r.key = m.key /\ HasAttempts(r) /\ sender[d].pc = "sending"
      BY <2>1, <2>2 DEF SendStep
    <2>5. SenderSound(d)
      BY <1>1 DEF SenderInv
    <2>6. \A i \in DOMAIN sender'[d].due :
            /\ i \in Nat /\ i + 1 \in DOMAIN sender[d].due /\ 1 < i + 1
            /\ sender'[d].due[i] = sender[d].due[i + 1]
      BY <2>2
    <2>7. ASSUME NEW i \in DOMAIN sender'[d].due, NEW j \in DOMAIN sender'[d].due, i < j
          PROVE  sender'[d].due[i].id < sender'[d].due[j].id
      <3>1. i + 1 < j + 1
        BY <2>6, <2>7
      <3> QED
        BY <2>5, <2>6, <3>1 DEF SenderSound
    <2>8. ASSUME NEW i \in DOMAIN sender'[d].due
          PROVE  /\ sender'[d].due[i].id <= issued'
                 /\ sender'[d].due[i].status \in {"pending", "retry"}
                 /\ sender'[d].due[i].attempts < MaxAttempts
                 /\ \A j \in DOMAIN outbox' : SameMessage(sender'[d].due[i], outbox'[j])
      BY <2>3, <2>5, <2>6 DEF SenderSound
    <2>9. ASSUME NEW q \in DOMAIN sender'[d].results
          PROVE  /\ sender'[d].results[q].id <= issued'
                 /\ HasAttempts(sender'[d].results[q])
                 /\ \A j \in DOMAIN outbox' : SameMessage(sender'[d].results[q], outbox'[j])
                 /\ \A i \in DOMAIN sender'[d].due : sender'[d].results[q].id < sender'[d].due[i].id
      <3>1. CASE q \in DOMAIN sender[d].results /\ sender'[d].results[q] = sender[d].results[q]
        BY <2>3, <2>5, <2>6, <3>1 DEF SenderSound
      <3>2. CASE sender'[d].results[q] = r
        <4>1. m.id <= issued /\ \A j \in DOMAIN outbox : SameMessage(m, outbox[j])
          BY <2>4, <2>5 DEF SenderSound
        <4>2. \A i \in DOMAIN sender'[d].due : m.id < sender'[d].due[i].id
          BY <2>4, <2>5, <2>6 DEF SenderSound
        <4>3. \A j \in DOMAIN outbox' : SameMessage(r, outbox'[j])
          BY <2>3, <2>4, <4>1 DEF SameMessage
        <4> QED
          BY <2>3, <2>4, <3>2, <4>1, <4>2, <4>3
      <3> QED
        BY <2>2, <3>1, <3>2
    <2>10. outboxLock' = d /\ sender'[d].pc = "sending"
      BY <2>2, <2>3, <2>4, <2>5 DEF SenderSound
    <2>11. SenderSound(d)'
      BY <2>7, <2>8, <2>9, <2>10 DEF SenderSound
    <2>12. ASSUME NEW e \in Dispatchers, e # d PROVE SenderSound(e)'
      <3>1. sender'[e] = sender[e] /\ (sender[e].pc = "sending" => outboxLock' = e)
        BY <1>1, <2>2, <2>3, <2>12 DEF SenderInv, SenderSound
      <3> QED
        BY <1>4, <3>1
    <2> QED
      BY <2>11, <2>12 DEF SenderInv
  <1>9. ASSUME NEW d \in Dispatchers, WriteResults(d)
        PROVE  SenderInv'
    <2>1. /\ \A e \in Dispatchers \ {d} : sender'[e] = sender[e]
          /\ sender'[d].pc = "resting" /\ sender'[d].due = <<>> /\ sender'[d].results = <<>>
      BY <1>1, <1>9, WrittenIs
    <2>2. DOMAIN <<>> = {}
      OBVIOUS
    <2>3. SenderSound(d)'
      BY <2>1, <2>2 DEF SenderSound
    <2>4. ASSUME NEW e \in Dispatchers, e # d PROVE SenderSound(e)'
      <3>1. sender[d].pc = "sending"
        BY <1>9 DEF WriteResults
      <3>2. sender[e].pc # "sending"
        BY <1>1, <2>4, <3>1 DEF SenderInv, SenderSound
      <3> QED
        BY <1>4, <2>1, <2>4, <3>2
    <2> QED
      BY <2>3, <2>4 DEF SenderInv
  <1>10. ASSUME Minute
         PROVE  SenderInv'
    <2>1. ASSUME NEW e \in Dispatchers PROVE SenderSound(e)'
      <3>1. /\ sender'[e].pc = sender[e].pc /\ sender'[e].due = sender[e].due
            /\ \/ sender'[e].results = sender[e].results /\ sender[e].pc = "resting"
               \/ sender'[e].results = Older(sender[e].results)
        BY <1>1, <1>10, MinuteIs
      <3>2. sender[e].results \in Seq(Message)
        BY <1>1 DEF OutboxTypes, Sender
      <3>3. /\ DOMAIN sender'[e].results = DOMAIN sender[e].results
            /\ \A r \in DOMAIN sender[e].results :
                 /\ sender'[e].results[r].id = sender[e].results[r].id
                 /\ sender'[e].results[r].key = sender[e].results[r].key
                 /\ sender'[e].results[r].status = sender[e].results[r].status
                 /\ sender'[e].results[r].attempts = sender[e].results[r].attempts
        BY <3>1, <3>2, OlderIs
      <3>4. sender[e].pc = "sending" => outboxLock' = e
        BY <1>1, <1>10 DEF SenderInv, SenderSound, Minute
      <3>5. ASSUME sender[e].pc # "sending" PROVE sender'[e].results = <<>>
        <4>1. sender[e].results = <<>>
          BY <1>1, <3>5 DEF SenderInv, SenderSound
        <4>2. sender'[e].results \in Seq(Message)
          BY <1>3 DEF OutboxTypes, Sender
        <4>3. DOMAIN sender'[e].results = {}
          BY <3>3, <4>1
        <4>4. Len(sender'[e].results) \in Nat /\ DOMAIN sender'[e].results = 1 .. Len(sender'[e].results)
          BY <4>2
        <4>5. Len(sender'[e].results) = 0
          <5>1. ASSUME Len(sender'[e].results) # 0 PROVE FALSE
            <6>1. 1 \in 1 .. Len(sender'[e].results)
              BY <4>4, <5>1
            <6> QED
              BY <4>3, <4>4, <6>1
          <5> QED
            BY <5>1
        <4> QED
          BY <4>2, <4>5, EmptySeq
      <3> QED
        BY <3>1, <3>3, <3>4, <3>5, SameHeld
    <2> QED
      BY <2>1 DEF SenderInv
  <1>11. ASSUME ProcessEnds
         PROVE  SenderInv'
    <2>1. \A e \in Dispatchers :
            sender'[e].pc = "resting" /\ sender'[e].due = <<>> /\ sender'[e].results = <<>>
      BY <1>1, <1>11, DeathIs
    <2>2. DOMAIN <<>> = {}
      OBVIOUS
    <2> QED
      BY <2>1, <2>2 DEF SenderInv, SenderSound
  <1> QED
    BY <1>5, <1>6, <1>7, <1>8, <1>9, <1>10, <1>11 DEF OutboxNext

\* What the counters of one message say after one more call.
LEMMA Budget ==
  ASSUME NEW slip \in Nat
  PROVE  /\ MaxAttempts * slip \in Nat
         /\ MaxAttempts * (1 + slip) = MaxAttempts + MaxAttempts * slip
         /\ MaxAttempts * (1 + (slip + 1)) = MaxAttempts + MaxAttempts + MaxAttempts * slip
         /\ MaxAttempts * (slip + 1) = MaxAttempts + MaxAttempts * slip
  BY OutboxAssumption

LEMMA CountsAre ==
  ASSUME OutboxInv, NEW i \in 1 .. MaxIssued
  PROVE  /\ sent[i] \in Nat /\ tries[i] \in Nat /\ slips[i] \in Nat
         /\ sent[i] <= 1 + slips[i]
         /\ tries[i] <= MaxAttempts + MaxAttempts * slips[i]
         /\ MaxAttempts * slips[i] \in Nat /\ MaxAttempts \in Nat
  <1>1. sent[i] \in Nat /\ tries[i] \in Nat /\ slips[i] \in Nat
    BY DEF OutboxInv, OutboxTypes
  <1>2. sent[i] <= 1 + slips[i] /\ tries[i] <= MaxAttempts * (1 + slips[i])
    BY DEF OutboxInv, CountInv
  <1> QED
    BY <1>1, <1>2, Budget, OutboxAssumption

LEMMA CountKept ==
  ASSUME OutboxInv, OutboxNext
  PROVE  CountInv'
  <1>1. OutboxTypes /\ OutboxKeepsNewest /\ SenderInv /\ RecordInv /\ CountInv
    BY DEF OutboxInv
  <1>2. /\ MaxIssued \in Nat /\ MaxAttempts \in Nat \ {0} /\ issued \in 0 .. MaxIssued
        /\ issued' \in Nat /\ issued <= issued'
    BY <1>1, OutboxAssumption, KeysKept DEF OutboxTypes
  <1>3. SUFFICES ASSUME NEW i \in 1 .. MaxIssued
                 PROVE  /\ sent'[i] <= 1 + slips'[i]
                        /\ tries'[i] <= MaxAttempts * (1 + slips'[i])
                        /\ i > issued' => sent'[i] = 0 /\ tries'[i] = 0
    BY DEF CountInv
  <1>4. /\ sent[i] \in Nat /\ tries[i] \in Nat /\ slips[i] \in Nat
        /\ sent[i] <= 1 + slips[i]
        /\ tries[i] <= MaxAttempts + MaxAttempts * slips[i]
        /\ MaxAttempts * slips[i] \in Nat
        /\ i > issued => sent[i] = 0 /\ tries[i] = 0
    BY <1>1, CountsAre DEF CountInv
  <1>5. CASE UNCHANGED <<tries, sent, slips>>
    BY <1>1, <1>2, <1>4, <1>5 DEF CountInv
  <1>6. CASE UNCHANGED <<tries, sent, issued>> /\ slips'[i] \in {slips[i], slips[i] + 1}
    <2>1. tries[i] <= MaxAttempts * (1 + slips'[i])
      BY <1>2, <1>4, <1>6, Budget
    <2> QED
      BY <1>4, <1>6, <2>1
  <1>7. ASSUME NEW d \in Dispatchers, Take(d)
        PROVE  UNCHANGED <<tries, sent, issued>> /\ slips'[i] \in {slips[i], slips[i] + 1}
    BY <1>1, <1>7, SlipsOfTake DEF Take
  <1>8. ASSUME ProcessEnds
        PROVE  UNCHANGED <<tries, sent, issued>> /\ slips'[i] \in {slips[i], slips[i] + 1}
    BY <1>1, <1>4, <1>8, SlipsOfDeath DEF ProcessEnds
  <1>9. ASSUME NEW d \in Dispatchers, Unavailable(d) \/ Accepted(d) \/ Refused(d)
        PROVE  /\ sent'[i] <= 1 + slips'[i]
               /\ tries'[i] <= MaxAttempts * (1 + slips'[i])
               /\ i > issued' => sent'[i] = 0 /\ tries'[i] = 0
    <2>1. PICK m, r \in Message : SendStep(d, m, r)
      BY <1>1, <1>9, OneSend
    <2>2. /\ slips' = slips /\ issued' = issued /\ m.id <= issued
          /\ sender[d].pc = "sending" /\ sender[d].due # <<>> /\ m = sender[d].due[1]
          /\ m.status \in {"pending", "retry"} /\ m.attempts + 1 \in 1 .. MaxAttempts
          /\ tries' = tries \/ tries' = [tries EXCEPT ![m.id] = @ + 1]
          /\ sent' = sent \/ sent' = [sent EXCEPT ![m.id] = @ + 1]
      BY <2>1 DEF SendStep
    <2>3. CASE i = m.id
      <3>1. 1 \in DOMAIN sender[d].due
        BY <1>1, <2>1, RecordedIs DEF SendStep
      <3>2. Truthful(m)
        BY <1>1, <2>2, <3>1 DEF RecordInv
      <3>3. sent[i] <= slips[i] /\ tries[i] <= m.attempts + MaxAttempts * slips[i]
        BY <2>2, <2>3, <3>2 DEF Truthful
      <3>4. m.attempts \in Nat
        BY OutboxAssumption DEF Message
      <3>5. tries[i] + 1 <= MaxAttempts + MaxAttempts * slips[i]
        <4>1. PICK p \in Nat : p = MaxAttempts * slips[i]
          BY <1>4
        <4>2. tries[i] <= m.attempts + p /\ m.attempts + 1 <= MaxAttempts
          BY <1>2, <2>2, <3>3, <4>1
        <4>3. tries[i] + 1 <= MaxAttempts + p
          BY <1>2, <1>4, <3>4, <4>2
        <4> QED
          BY <4>1, <4>3
      <3>6. tries \in [1 .. MaxIssued -> Nat] /\ sent \in [1 .. MaxIssued -> Nat]
        BY <1>1 DEF OutboxTypes
      <3>7. tries'[i] \in {tries[i], tries[i] + 1}
        BY <2>2, <2>3, <3>6
      <3>8. sent'[i] \in {sent[i], sent[i] + 1}
        BY <2>2, <2>3, <3>6
      <3>9. tries'[i] <= MaxAttempts + MaxAttempts * slips[i]
        BY <1>2, <1>4, <3>5, <3>7
      <3>10. sent'[i] <= 1 + slips[i]
        BY <1>4, <3>3, <3>8
      <3>11. ~(i > issued')
        BY <1>2, <2>2, <2>3
      <3> QED
        BY <1>4, <2>2, <3>9, <3>10, <3>11, Budget
    <2>4. CASE i # m.id
      <3>1. tries \in [1 .. MaxIssued -> Nat] /\ sent \in [1 .. MaxIssued -> Nat]
        BY <1>1 DEF OutboxTypes
      <3>2. tries'[i] = tries[i]
        BY <2>2, <2>4, <3>1
      <3>3. sent'[i] = sent[i]
        BY <2>2, <2>4, <3>1
      <3> QED
        BY <1>4, <2>2, <3>2, <3>3, Budget
    <2> QED
      BY <2>3, <2>4
  <1>10. ASSUME (\E k \in Keys : Enqueue(k)) \/ (\E d \in Dispatchers : Look(d) \/ WriteResults(d)) \/ Minute
         PROVE  UNCHANGED <<tries, sent, slips>>
    BY <1>10 DEF Enqueue, Look, WriteResults, Minute
  <1> QED
    BY <1>5, <1>6, <1>7, <1>8, <1>9, <1>10 DEF OutboxNext

\* Truth does not depend on the wait, and slips only help.
LEMMA StillTruthful ==
  ASSUME OutboxInv, NEW m \in Message, NEW n, Truthful(m),
         n.id = m.id, n.status = m.status, n.attempts = m.attempts,
         UNCHANGED <<tries, sent>>, slips'[m.id] \in {slips[m.id], slips[m.id] + 1}
  PROVE  /\ n.status = "delivered" => sent'[n.id] > 0
         /\ n.status # "delivered" => sent'[n.id] <= slips'[n.id]
         /\ tries'[n.id] <= n.attempts + MaxAttempts * slips'[n.id]
  <1>1. m.id \in 1 .. MaxIssued /\ m.attempts \in Nat
    BY OutboxAssumption DEF Message
  <1>2. PICK i \in 1 .. MaxIssued : i = m.id
    BY <1>1
  <1>3. /\ sent[i] \in Nat /\ tries[i] \in Nat /\ slips[i] \in Nat
        /\ MaxAttempts * slips[i] \in Nat /\ MaxAttempts \in Nat
    BY CountsAre
  <1>4. /\ m.status = "delivered" => sent[i] > 0
        /\ m.status # "delivered" => sent[i] <= slips[i]
        /\ tries[i] <= m.attempts + MaxAttempts * slips[i]
    BY <1>2 DEF Truthful
  <1>5. MaxAttempts * slips'[i] = MaxAttempts * slips[i] \/ MaxAttempts * slips'[i] = MaxAttempts + MaxAttempts * slips[i]
    BY <1>2, <1>3, Budget
  <1>6. tries[i] <= m.attempts + MaxAttempts * slips'[i]
    <2>1. PICK p \in Nat : p = MaxAttempts * slips[i]
      BY <1>3
    <2>2. PICK q : q = MaxAttempts * slips'[i]
      OBVIOUS
    <2>3. q = p \/ q = MaxAttempts + p
      BY <1>5, <2>1, <2>2
    <2>4. tries[i] <= m.attempts + p
      BY <1>4, <2>1
    <2>5. tries[i] <= m.attempts + q
      BY <1>1, <1>3, <2>3, <2>4
    <2> QED
      BY <2>2, <2>5
  <1>7. m.status # "delivered" => sent[i] <= slips'[i]
    BY <1>2, <1>3, <1>4
  <1> QED
    BY <1>2, <1>4, <1>6, <1>7

\* A slip makes room for a record that is not delivered and any count of attempts.
LEMMA SlipMakesRoom ==
  ASSUME OutboxInv, NEW m \in Message, UNCHANGED <<tries, sent>>,
         slips'[m.id] = slips[m.id] + 1
  PROVE  /\ sent'[m.id] <= slips'[m.id]
         /\ tries'[m.id] <= m.attempts + MaxAttempts * slips'[m.id]
  <1>1. m.id \in 1 .. MaxIssued /\ m.attempts \in Nat
    BY OutboxAssumption DEF Message
  <1>2. PICK i \in 1 .. MaxIssued : i = m.id
    BY <1>1
  <1>3. /\ sent[i] \in Nat /\ tries[i] \in Nat /\ slips[i] \in Nat
        /\ sent[i] <= 1 + slips[i]
        /\ tries[i] <= MaxAttempts + MaxAttempts * slips[i]
        /\ MaxAttempts * slips[i] \in Nat /\ MaxAttempts \in Nat
    BY CountsAre
  <1>4. MaxAttempts * slips'[i] = MaxAttempts + MaxAttempts * slips[i]
    BY <1>2, <1>3, Budget
  <1>5. PICK p : p = MaxAttempts * slips'[i]
    OBVIOUS
  <1>6. tries[i] <= p /\ p \in Nat
    BY <1>3, <1>4, <1>5
  <1>7. tries[i] <= m.attempts + p
    BY <1>1, <1>3, <1>6
  <1>8. sent[i] <= slips'[i]
    BY <1>2, <1>3
  <1> QED
    BY <1>2, <1>5, <1>7, <1>8

\* Truthful after the step, of a given record.
TruthfulThen(m) ==
    /\ m.status = "delivered" => sent'[m.id] > 0
    /\ m.status # "delivered" => sent'[m.id] <= slips'[m.id]
    /\ tries'[m.id] <= m.attempts + MaxAttempts * slips'[m.id]

LEMMA EmptyHanded ==
  ASSUME SenderInv, NEW e \in Dispatchers, sender[e].pc # "sending"
  PROVE  DOMAIN sender[e].results = {}
  <1>1. sender[e].results = <<>>
    BY DEF SenderInv, SenderSound
  <1> QED
    BY <1>1

\* Calls made for one message leave the counters of the others alone.
LEMMA CallIs ==
  ASSUME OutboxInv, NEW d \in Dispatchers, NEW m \in Message, NEW r \in Message, SendStep(d, m, r)
  PROVE  /\ m.id \in 1 .. MaxIssued
         /\ slips' = slips
         /\ \A i \in 1 .. MaxIssued :
              /\ sent[i] > 0 => sent'[i] > 0
              /\ i # m.id => sent'[i] = sent[i] /\ tries'[i] = tries[i]
         /\ TruthfulThen(r)
  <1>1. OutboxTypes /\ SenderInv /\ RecordInv
    BY DEF OutboxInv
  <1>2. tries \in [1 .. MaxIssued -> Nat] /\ sent \in [1 .. MaxIssued -> Nat]
    BY <1>1 DEF OutboxTypes
  <1>3. m.id \in 1 .. MaxIssued /\ m.attempts \in Nat /\ MaxAttempts \in Nat
    BY OutboxAssumption DEF Message
  <1>4. /\ slips' = slips /\ r.id = m.id /\ r.attempts = m.attempts + 1
        /\ sender[d].pc = "sending" /\ m = sender[d].due[1] /\ m.status \in {"pending", "retry"}
        /\ \/ r.status = "failed" /\ UNCHANGED <<tries, sent>>
           \/ /\ r.status = "delivered"
              /\ tries' = [tries EXCEPT ![m.id] = @ + 1]
              /\ sent' = [sent EXCEPT ![m.id] = @ + 1]
           \/ /\ r.status \in {"failed", "retry"}
              /\ tries' = [tries EXCEPT ![m.id] = @ + 1]
              /\ UNCHANGED sent
    BY DEF SendStep
  <1>5. 1 \in DOMAIN sender[d].due
    BY <1>1, RecordedIs DEF SendStep
  <1>6. Truthful(m)
    BY <1>1, <1>4, <1>5 DEF RecordInv
  <1>7. PICK i \in 1 .. MaxIssued : i = m.id
    BY <1>3
  <1>8. /\ sent[i] \in Nat /\ tries[i] \in Nat /\ slips[i] \in Nat
        /\ MaxAttempts * slips[i] \in Nat
    BY CountsAre
  <1>9. sent[i] <= slips[i] /\ tries[i] <= m.attempts + MaxAttempts * slips[i]
    BY <1>4, <1>6, <1>7 DEF Truthful
  <1>10. \A j \in 1 .. MaxIssued :
           /\ sent[j] > 0 => sent'[j] > 0
           /\ j # m.id => sent'[j] = sent[j] /\ tries'[j] = tries[j]
    <2>1. CASE UNCHANGED <<tries, sent>>
      BY <2>1
    <2>2. CASE tries' = [tries EXCEPT ![m.id] = @ + 1]
      <3>1. \A j \in 1 .. MaxIssued : j # m.id => tries'[j] = tries[j]
        BY <1>2, <2>2
      <3>2. CASE UNCHANGED sent
        BY <3>1, <3>2
      <3>3. CASE sent' = [sent EXCEPT ![m.id] = @ + 1]
        BY <1>2, <3>1, <3>3
      <3> QED
        BY <1>4, <2>2, <3>2, <3>3
    <2> QED
      BY <1>4, <2>1, <2>2
  <1>11. tries'[i] \in {tries[i], tries[i] + 1}
    BY <1>2, <1>4, <1>7
  <1>12. PICK p \in Nat : p = MaxAttempts * slips[i]
    BY <1>8
  <1>13. tries'[i] <= (m.attempts + 1) + p
    BY <1>3, <1>8, <1>9, <1>11, <1>12
  <1>14. r.status = "delivered" => sent'[i] > 0
    <2>1. ASSUME r.status = "delivered" PROVE sent'[i] = sent[i] + 1
      BY <1>2, <1>4, <1>7, <2>1
    <2> QED
      BY <1>8, <2>1
  <1>15. r.status # "delivered" => sent'[i] <= slips[i]
    <2>1. ASSUME r.status # "delivered" PROVE sent' = sent
      BY <1>4, <2>1
    <2> QED
      BY <1>9, <2>1
  <1>16. TruthfulThen(r)
    BY <1>4, <1>7, <1>12, <1>13, <1>14, <1>15 DEF TruthfulThen
  <1> QED
    BY <1>3, <1>4, <1>10, <1>16

LEMMA RecordKept ==
  ASSUME OutboxInv, OutboxNext
  PROVE  RecordInv'
  <1>1. OutboxTypes /\ OutboxKeepsNewest /\ SenderInv /\ RecordInv /\ CountInv
    BY DEF OutboxInv
  <1>2. NoSender \notin Dispatchers
    BY OutboxAssumption DEF NoSender
  <1>3. outbox \in Seq(Message) /\ (\A i \in DOMAIN outbox : outbox[i] \in Message /\ outbox[i].id \in 1 .. MaxIssued)
    <2>1. outbox \in Seq(Message)
      BY <1>1 DEF OutboxTypes
    <2>2. \A m \in Message : m.id \in 1 .. MaxIssued
      BY DEF Message
    <2> QED
      BY <2>1, <2>2
  <1>4. ASSUME NEW d \in Dispatchers
        PROVE  /\ \A i \in DOMAIN sender[d].due : sender[d].due[i] \in Message /\ sender[d].due[i].id \in 1 .. MaxIssued
               /\ \A r \in DOMAIN sender[d].results :
                    sender[d].results[r] \in Message /\ sender[d].results[r].id \in 1 .. MaxIssued
    <2>1. sender[d].due \in Seq(Message) /\ sender[d].results \in Seq(Message)
      BY <1>1 DEF OutboxTypes, Sender
    <2>2. \A m \in Message : m.id \in 1 .. MaxIssued
      BY DEF Message
    <2> QED
      BY <2>1, <2>2
  <1>5. ASSUME \A i \in DOMAIN outbox' :
                 /\ HasAttempts(outbox'[i])
                 /\ outbox'[i].status = "delivered" => sent'[outbox'[i].id] > 0
                 /\ ~Unwritten(outbox[i].id)' => TruthfulThen(outbox'[i]),
               \A d \in Dispatchers :
                 /\ sender'[d].pc = "sending" =>
                      \A i \in DOMAIN sender'[d].due : TruthfulThen(sender'[d].due[i])
                 /\ \A r \in DOMAIN sender'[d].results : TruthfulThen(sender'[d].results[r])
        PROVE  RecordInv'
    BY <1>5 DEF RecordInv, Truthful, TruthfulThen, HasAttempts
  <1>6. ASSUME NEW m \in Message, NEW n, Truthful(m),
               n.id = m.id, n.status = m.status, n.attempts = m.attempts,
               UNCHANGED <<tries, sent>>, slips'[m.id] \in {slips[m.id], slips[m.id] + 1}
        PROVE  TruthfulThen(n)
    BY <1>6, StillTruthful DEF TruthfulThen
  <1>7. ASSUME UNCHANGED <<tries, sent, slips>>, NEW m \in Message, Truthful(m)
        PROVE  TruthfulThen(m)
    BY <1>6, <1>7
  <1>8. ASSUME NEW k \in Keys, Enqueue(k)
        PROVE  RecordInv'
    <2>1. UNCHANGED <<sender, tries, sent, slips>> /\ issued < MaxIssued
      BY <1>8 DEF Enqueue
    <2>2. PICK shift \in 0 .. 1 : \A i \in 1 .. Len(outbox') :
            outbox'[i] = IF i + shift <= Len(outbox) THEN outbox[i + shift] ELSE NewMessage(k)
      BY <1>1, <1>8, Enqueued
    <2>3. outbox' \in Seq(Message) /\ DOMAIN outbox' = 1 .. Len(outbox') /\ NewMessage(k) \in Message
      BY <1>1, <1>8, Enqueued
    <2>4. \A id : Unwritten(id)' <=> Unwritten(id)
      BY <2>1 DEF Unwritten
    <2>5. /\ HasAttempts(NewMessage(k)) /\ NewMessage(k).status # "delivered" /\ TruthfulThen(NewMessage(k))
      <3>1. /\ NewMessage(k).id = issued + 1 /\ NewMessage(k).status = "pending" /\ NewMessage(k).attempts = 0
        BY DEF NewMessage
      <3>2. issued + 1 \in 1 .. MaxIssued /\ issued \in Nat /\ MaxAttempts \in Nat \ {0}
        BY <1>1, <2>1, OutboxAssumption DEF OutboxTypes
      <3>3. sent[issued + 1] = 0 /\ tries[issued + 1] = 0
        BY <1>1, <3>2 DEF CountInv
      <3>4. slips[issued + 1] \in Nat /\ MaxAttempts * slips[issued + 1] \in Nat
        BY <3>2, CountsAre
      <3> QED
        BY <2>1, <3>1, <3>2, <3>3, <3>4 DEF HasAttempts, TruthfulThen
    <2>6. ASSUME NEW i \in DOMAIN outbox'
          PROVE  /\ HasAttempts(outbox'[i])
                 /\ outbox'[i].status = "delivered" => sent'[outbox'[i].id] > 0
                 /\ ~Unwritten(outbox[i].id)' => TruthfulThen(outbox'[i])
      <3>1. i \in 1 .. Len(outbox') /\ i \in Nat /\ i >= 1
        BY <2>3
      <3>2. CASE i + shift <= Len(outbox)
        <4>1. i + shift \in DOMAIN outbox
          BY <1>3, <3>1, <3>2
        <4>2. outbox'[i] = outbox[i + shift]
          BY <2>2, <3>1, <3>2
        <4>3. /\ HasAttempts(outbox[i + shift])
              /\ outbox[i + shift].status = "delivered" => sent[outbox[i + shift].id] > 0
              /\ ~Unwritten(outbox[i + shift].id) => Truthful(outbox[i + shift])
          BY <1>1, <4>1 DEF RecordInv
        <4>4. ~Unwritten(outbox[i].id)' => TruthfulThen(outbox[i + shift])
          BY <1>3, <1>7, <2>1, <2>4, <4>1, <4>2, <4>3
        <4> QED
          BY <2>1, <4>2, <4>3, <4>4
      <3>3. CASE ~(i + shift <= Len(outbox))
        <4>1. outbox'[i] = NewMessage(k)
          BY <2>2, <3>1, <3>3
        <4> QED
          BY <2>5, <4>1
      <3> QED
        BY <3>2, <3>3
    <2>7. ASSUME NEW d \in Dispatchers
          PROVE  /\ sender'[d].pc = "sending" =>
                      \A i \in DOMAIN sender'[d].due : TruthfulThen(sender'[d].due[i])
                 /\ \A r \in DOMAIN sender'[d].results : TruthfulThen(sender'[d].results[r])
      BY <1>1, <1>4, <1>7, <2>1 DEF RecordInv
    <2> QED
      BY <1>5, <2>6, <2>7
  <1>9. ASSUME NEW d \in Dispatchers, Look(d)
        PROVE  RecordInv'
    <2>1. UNCHANGED <<outbox, tries, sent, slips>> /\ sender[d].pc = "resting"
      BY <1>9 DEF Look
    <2>2. /\ \A e \in Dispatchers \ {d} : sender'[e] = sender[e]
          /\ sender'[d].pc = "looked" /\ DOMAIN sender'[d].results = {}
      BY <1>1, <1>9, BatchIs
    <2>3. DOMAIN sender[d].results = {}
      BY <1>1, <2>1, EmptyHanded
    <2>4. \A id : Unwritten(id)' <=> Unwritten(id)
      BY <2>2, <2>3 DEF Unwritten
    <2>5. ASSUME NEW i \in DOMAIN outbox
          PROVE  /\ HasAttempts(outbox[i])
                 /\ outbox[i].status = "delivered" => sent[outbox[i].id] > 0
                 /\ ~Unwritten(outbox[i].id) => TruthfulThen(outbox[i])
      BY <1>1, <1>3, <1>7, <2>1 DEF RecordInv
    <2>6. ASSUME NEW e \in Dispatchers
          PROVE  /\ sender'[e].pc = "sending" =>
                      \A i \in DOMAIN sender'[e].due : TruthfulThen(sender'[e].due[i])
                 /\ \A r \in DOMAIN sender'[e].results : TruthfulThen(sender'[e].results[r])
      <3>1. CASE e = d
        BY <2>2, <3>1
      <3>2. CASE e # d
        <4>1. sender'[e] = sender[e]
          BY <2>2, <3>2
        <4> QED
          BY <1>1, <1>4, <1>7, <2>1, <4>1 DEF RecordInv
      <3> QED
        BY <3>1, <3>2
    <2>7. \A i \in DOMAIN outbox' :
            /\ HasAttempts(outbox'[i])
            /\ outbox'[i].status = "delivered" => sent'[outbox'[i].id] > 0
            /\ ~Unwritten(outbox[i].id)' => TruthfulThen(outbox'[i])
      BY <2>1, <2>4, <2>5
    <2> QED
      BY <1>5, <2>6, <2>7
  <1>10. ASSUME NEW d \in Dispatchers, Take(d)
         PROVE  RecordInv'
    <2>1. UNCHANGED <<outbox, tries, sent>> /\ outboxLock = NoSender
      BY <1>10 DEF Take
    <2>2. /\ \A i \in 1 .. MaxIssued : slips'[i] \in {slips[i], slips[i] + 1}
          /\ \A i \in DOMAIN sender[d].due :
              \/ \E j \in DOMAIN outbox : sender[d].due[i] = outbox[j]
              \/ slips'[sender[d].due[i].id] = slips[sender[d].due[i].id] + 1
          /\ \A e \in Dispatchers : /\ sender'[e].due = sender[e].due
                                    /\ sender'[e].results = sender[e].results
          /\ \A e \in Dispatchers \ {d} : sender'[e].pc = sender[e].pc
      BY <1>1, <1>10, SlipsOfTake
    <2>3. \A e \in Dispatchers : sender[e].pc # "sending" /\ DOMAIN sender[e].results = {}
      BY <1>1, <1>2, <2>1, EmptyHanded DEF SenderInv, SenderSound
    <2>4. \A id : ~Unwritten(id)
      BY <2>3 DEF Unwritten
    <2>5. ASSUME NEW i \in DOMAIN outbox
          PROVE  /\ HasAttempts(outbox[i])
                 /\ outbox[i].status = "delivered" => sent[outbox[i].id] > 0
                 /\ TruthfulThen(outbox[i])
      <3>1. HasAttempts(outbox[i]) /\ (outbox[i].status = "delivered" => sent[outbox[i].id] > 0)
        BY <1>1 DEF RecordInv
      <3>2. Truthful(outbox[i])
        BY <1>1, <2>4 DEF RecordInv
      <3>3. outbox[i] \in Message /\ slips'[outbox[i].id] \in {slips[outbox[i].id], slips[outbox[i].id] + 1}
        BY <1>3, <2>2
      <3> QED
        BY <1>6, <2>1, <3>1, <3>2, <3>3
    <2>6. ASSUME NEW i \in DOMAIN sender[d].due
          PROVE  TruthfulThen(sender[d].due[i])
      <3>1. CASE \E j \in DOMAIN outbox : sender[d].due[i] = outbox[j]
        BY <2>5, <3>1
      <3>2. CASE slips'[sender[d].due[i].id] = slips[sender[d].due[i].id] + 1
        <4>1. PICK m \in Message : m = sender[d].due[i]
          BY <1>4
        <4>2. m.status # "delivered"
          BY <1>1, <4>1 DEF SenderInv, SenderSound
        <4>3. sent'[m.id] <= slips'[m.id] /\ tries'[m.id] <= m.attempts + MaxAttempts * slips'[m.id]
          BY <2>1, <3>2, <4>1, SlipMakesRoom
        <4> QED
          BY <4>1, <4>2, <4>3 DEF TruthfulThen
      <3> QED
        BY <2>2, <3>1, <3>2
    <2>7. ASSUME NEW e \in Dispatchers
          PROVE  /\ sender'[e].pc = "sending" =>
                      \A i \in DOMAIN sender'[e].due : TruthfulThen(sender'[e].due[i])
                 /\ \A r \in DOMAIN sender'[e].results : TruthfulThen(sender'[e].results[r])
      BY <2>2, <2>3, <2>6
    <2>8. \A i \in DOMAIN outbox' :
            /\ HasAttempts(outbox'[i])
            /\ outbox'[i].status = "delivered" => sent'[outbox'[i].id] > 0
            /\ ~Unwritten(outbox[i].id)' => TruthfulThen(outbox'[i])
      BY <2>1, <2>5
    <2> QED
      BY <1>5, <2>7, <2>8
  <1>11. ASSUME NEW d \in Dispatchers, Unavailable(d) \/ Accepted(d) \/ Refused(d)
         PROVE  RecordInv'
    <2>1. PICK m, r \in Message : SendStep(d, m, r)
      BY <1>1, <1>11, OneSend
    <2>2. /\ m.id \in 1 .. MaxIssued
          /\ slips' = slips
          /\ \A i \in 1 .. MaxIssued :
               /\ sent[i] > 0 => sent'[i] > 0
               /\ i # m.id => sent'[i] = sent[i] /\ tries'[i] = tries[i]
          /\ TruthfulThen(r)
      BY <2>1, CallIs
    <2>3. /\ outbox' = outbox /\ r.id = m.id /\ sender[d].pc = "sending" /\ m = sender[d].due[1]
      BY <2>1 DEF SendStep
    <2>4. /\ \A e \in Dispatchers \ {d} : sender'[e] = sender[e]
          /\ Len(sender[d].due) \in Nat \ {0} /\ DOMAIN sender[d].due = 1 .. Len(sender[d].due)
          /\ DOMAIN sender'[d].due = 1 .. Len(sender[d].due) - 1
          /\ \A i \in DOMAIN sender'[d].due :
               i + 1 \in DOMAIN sender[d].due /\ sender'[d].due[i] = sender[d].due[i + 1]
          /\ \A q \in DOMAIN sender'[d].results :
               \/ q \in DOMAIN sender[d].results /\ sender'[d].results[q] = sender[d].results[q]
               \/ q = Len(sender[d].results) + 1 /\ sender'[d].results[q] = r
          /\ Len(sender[d].results) \in Nat
          /\ DOMAIN sender[d].results = 1 .. Len(sender[d].results)
          /\ DOMAIN sender'[d].results = 1 .. Len(sender[d].results) + 1
      BY <1>1, <2>1, RecordedIs DEF SendStep
    <2>5. ASSUME NEW n \in Message, Truthful(n), n.id # m.id
          PROVE  TruthfulThen(n)
      <3>1. n.id \in 1 .. MaxIssued
        BY DEF Message
      <3> QED
        BY <2>2, <2>5, <3>1 DEF Truthful, TruthfulThen
    <2>6. /\ 1 \in DOMAIN sender[d].due
          /\ \A i \in DOMAIN sender[d].due : i > 1 => m.id < sender[d].due[i].id
          /\ \A q \in DOMAIN sender[d].results : sender[d].results[q].id < m.id
      BY <1>1, <2>3, <2>4 DEF SenderInv, SenderSound
    <2>7. ASSUME NEW i \in DOMAIN sender'[d].due
          PROVE  TruthfulThen(sender'[d].due[i])
      <3>1. /\ i + 1 \in DOMAIN sender[d].due /\ i + 1 > 1
            /\ sender'[d].due[i] = sender[d].due[i + 1]
        BY <2>4
      <3>2. m.id < sender[d].due[i + 1].id /\ sender[d].due[i + 1].id \in 1 .. MaxIssued
        BY <1>4, <2>6, <3>1
      <3>3. Truthful(sender[d].due[i + 1]) /\ sender[d].due[i + 1] \in Message
        BY <1>1, <1>4, <2>3, <3>1 DEF RecordInv
      <3>4. sender[d].due[i + 1].id # m.id
        BY <2>2, <3>2
      <3> QED
        BY <2>5, <3>1, <3>3, <3>4
    <2>8. ASSUME NEW q \in DOMAIN sender'[d].results
          PROVE  TruthfulThen(sender'[d].results[q])
      <3>1. CASE q \in DOMAIN sender[d].results /\ sender'[d].results[q] = sender[d].results[q]
        <4>1. sender[d].results[q].id < m.id /\ sender[d].results[q].id \in 1 .. MaxIssued
          BY <1>4, <2>6, <3>1
        <4>2. Truthful(sender[d].results[q]) /\ sender[d].results[q] \in Message
          BY <1>1, <1>4, <3>1 DEF RecordInv
        <4>3. sender[d].results[q].id # m.id
          BY <2>2, <4>1
        <4> QED
          BY <2>5, <3>1, <4>2, <4>3
      <3>2. CASE sender'[d].results[q] = r
        BY <2>2, <3>2
      <3> QED
        BY <2>4, <3>1, <3>2
    <2>9. ASSUME NEW e \in Dispatchers
          PROVE  /\ sender'[e].pc = "sending" =>
                      \A i \in DOMAIN sender'[e].due : TruthfulThen(sender'[e].due[i])
                 /\ \A q \in DOMAIN sender'[e].results : TruthfulThen(sender'[e].results[q])
      <3>1. CASE e = d
        BY <2>7, <2>8, <3>1
      <3>2. CASE e # d
        <4>1. sender'[e] = sender[e]
          BY <2>4, <3>2
        <4>2. sender[e].pc # "sending"
          BY <1>1, <2>3, <3>2 DEF SenderInv, SenderSound
        <4>3. DOMAIN sender[e].results = {}
          BY <1>1, <4>2, EmptyHanded
        <4> QED
          BY <4>1, <4>2, <4>3
      <3> QED
        BY <3>1, <3>2
    <2>10. ASSUME NEW i \in DOMAIN outbox
           PROVE  /\ HasAttempts(outbox[i])
                  /\ outbox[i].status = "delivered" => sent'[outbox[i].id] > 0
                  /\ ~Unwritten(outbox[i].id)' => TruthfulThen(outbox[i])
      <3>1. outbox[i] \in Message /\ outbox[i].id \in 1 .. MaxIssued
        BY <1>3
      <3>2. /\ HasAttempts(outbox[i])
            /\ outbox[i].status = "delivered" => sent[outbox[i].id] > 0
            /\ ~Unwritten(outbox[i].id) => Truthful(outbox[i])
        BY <1>1 DEF RecordInv
      <3>3. PICK last : last = Len(sender[d].results) + 1
        OBVIOUS
      <3>4. last \in DOMAIN sender'[d].results /\ sender'[d].results[last] = r
        BY <2>4, <3>3
      <3>5. ASSUME NEW id, Unwritten(id) PROVE Unwritten(id)'
        <4>1. PICK e \in Dispatchers : \E q \in DOMAIN sender[e].results : sender[e].results[q].id = id
          BY <3>5 DEF Unwritten
        <4>2. e = d
          <5>1. sender[e].pc = "sending"
            BY <1>1, <4>1, EmptyHanded
          <5> QED
            BY <1>1, <2>3, <5>1 DEF SenderInv, SenderSound
        <4>3. PICK q \in DOMAIN sender[d].results : sender[d].results[q].id = id
          BY <4>1, <4>2
        <4>4. q \in DOMAIN sender'[d].results /\ sender'[d].results[q] = sender[d].results[q]
          BY <2>4, <4>3
        <4> QED
          BY <4>3, <4>4 DEF Unwritten
      <3>6. Unwritten(m.id)'
        BY <2>3, <3>4 DEF Unwritten
      <3>7. ASSUME ~Unwritten(outbox[i].id)' PROVE TruthfulThen(outbox[i])
        <4>1. outbox'[i] = outbox[i]
          BY <2>3
        <4>2. outbox[i].id # m.id
          BY <3>6, <3>7, <4>1
        <4>3. Truthful(outbox[i])
          BY <3>2, <3>5, <3>7, <4>1
        <4> QED
          BY <2>5, <3>1, <4>2, <4>3
      <3> QED
        BY <2>2, <3>1, <3>2, <3>7
    <2>11. \A i \in DOMAIN outbox' :
             /\ HasAttempts(outbox'[i])
             /\ outbox'[i].status = "delivered" => sent'[outbox'[i].id] > 0
             /\ ~Unwritten(outbox[i].id)' => TruthfulThen(outbox'[i])
      BY <2>3, <2>10
    <2> QED
      BY <1>5, <2>9, <2>11
  <1>12. ASSUME NEW d \in Dispatchers, WriteResults(d)
         PROVE  RecordInv'
    <2>1. UNCHANGED <<tries, sent, slips>> /\ sender[d].pc = "sending"
      BY <1>12 DEF WriteResults
    <2>2. /\ DOMAIN outbox' = DOMAIN outbox
          /\ \A i \in DOMAIN outbox :
              \/ \E r \in DOMAIN sender[d].results :
                   /\ outbox'[i] = sender[d].results[r]
                   /\ sender[d].results[r].id = outbox[i].id
              \/ /\ outbox'[i] = outbox[i]
                 /\ \A r \in DOMAIN sender[d].results : sender[d].results[r].id # outbox[i].id
      BY <1>1, <1>12, ResultsWritten
    <2>3. /\ \A e \in Dispatchers \ {d} : sender'[e] = sender[e]
          /\ sender'[d].pc = "resting" /\ DOMAIN sender'[d].due = {} /\ DOMAIN sender'[d].results = {}
      BY <1>1, <1>12, WrittenIs
    <2>4. \A e \in Dispatchers \ {d} : sender[e].pc # "sending" /\ DOMAIN sender[e].results = {}
      BY <1>1, <2>1, EmptyHanded DEF SenderInv, SenderSound
    <2>5. ASSUME NEW i \in DOMAIN outbox
          PROVE  /\ HasAttempts(outbox'[i])
                 /\ outbox'[i].status = "delivered" => sent'[outbox'[i].id] > 0
                 /\ TruthfulThen(outbox'[i])
      <3>1. CASE \E r \in DOMAIN sender[d].results : outbox'[i] = sender[d].results[r]
        <4>1. PICK r \in DOMAIN sender[d].results : outbox'[i] = sender[d].results[r]
          BY <3>1
        <4>2. Truthful(sender[d].results[r]) /\ sender[d].results[r] \in Message
          BY <1>1, <1>4 DEF RecordInv
        <4>3. HasAttempts(sender[d].results[r])
          BY <1>1 DEF SenderInv, SenderSound
        <4>4. TruthfulThen(sender[d].results[r])
          BY <1>7, <2>1, <4>2
        <4> QED
          BY <4>1, <4>3, <4>4 DEF TruthfulThen
      <3>2. CASE /\ outbox'[i] = outbox[i]
                 /\ \A r \in DOMAIN sender[d].results : sender[d].results[r].id # outbox[i].id
        <4>1. ~Unwritten(outbox[i].id)
          BY <2>4, <3>2 DEF Unwritten
        <4>2. Truthful(outbox[i]) /\ HasAttempts(outbox[i]) /\ outbox[i] \in Message
          BY <1>1, <1>3, <4>1 DEF RecordInv
        <4>3. TruthfulThen(outbox[i])
          BY <1>7, <2>1, <4>2
        <4> QED
          BY <3>2, <4>2, <4>3 DEF TruthfulThen
      <3> QED
        BY <2>2, <3>1, <3>2
    <2>6. ASSUME NEW e \in Dispatchers
          PROVE  /\ sender'[e].pc = "sending" =>
                      \A i \in DOMAIN sender'[e].due : TruthfulThen(sender'[e].due[i])
                 /\ \A r \in DOMAIN sender'[e].results : TruthfulThen(sender'[e].results[r])
      BY <2>3, <2>4
    <2> QED
      BY <1>5, <2>2, <2>5, <2>6
  <1>13. ASSUME Minute
         PROVE  RecordInv'
    <2>1. UNCHANGED <<tries, sent, slips>>
      BY <1>13 DEF Minute
    <2>2. /\ outbox' = Older(outbox)
          /\ \A d \in Dispatchers :
               /\ sender'[d].pc = sender[d].pc /\ sender'[d].due = sender[d].due
               /\ \/ sender'[d].results = sender[d].results /\ sender[d].pc = "resting"
                  \/ sender'[d].results = Older(sender[d].results)
      BY <1>1, <1>13, MinuteIs
    <2>3. /\ DOMAIN outbox' = DOMAIN outbox
          /\ \A i \in DOMAIN outbox :
               /\ outbox'[i].id = outbox[i].id /\ outbox'[i].status = outbox[i].status
               /\ outbox'[i].attempts = outbox[i].attempts
      BY <1>3, <2>2, OlderIs
    <2>4. ASSUME NEW d \in Dispatchers
          PROVE  /\ DOMAIN sender'[d].results = DOMAIN sender[d].results
                 /\ \A r \in DOMAIN sender[d].results :
                      /\ sender'[d].results[r].id = sender[d].results[r].id
                      /\ sender'[d].results[r].status = sender[d].results[r].status
                      /\ sender'[d].results[r].attempts = sender[d].results[r].attempts
      <3>1. sender[d].results \in Seq(Message)
        BY <1>1 DEF OutboxTypes, Sender
      <3> QED
        BY <2>2, <3>1, OlderIs
    <2>5. \A id : Unwritten(id)' <=> Unwritten(id)
      BY <2>4 DEF Unwritten
    <2>6. ASSUME NEW m \in Message, NEW n, Truthful(m),
                 n.id = m.id, n.status = m.status, n.attempts = m.attempts
          PROVE  TruthfulThen(n)
      BY <1>6, <2>1, <2>6
    <2>7. ASSUME NEW i \in DOMAIN outbox
          PROVE  /\ HasAttempts(outbox'[i])
                 /\ outbox'[i].status = "delivered" => sent'[outbox'[i].id] > 0
                 /\ ~Unwritten(outbox[i].id)' => TruthfulThen(outbox'[i])
      <3>1. /\ HasAttempts(outbox[i])
            /\ outbox[i].status = "delivered" => sent[outbox[i].id] > 0
            /\ ~Unwritten(outbox[i].id) => Truthful(outbox[i])
        BY <1>1 DEF RecordInv
      <3>2. ASSUME ~Unwritten(outbox[i].id)' PROVE TruthfulThen(outbox'[i])
        <4>1. Truthful(outbox[i]) /\ outbox[i] \in Message
          BY <1>3, <2>3, <2>5, <3>1, <3>2
        <4> QED
          BY <2>3, <2>6, <4>1
      <3> QED
        BY <2>1, <2>3, <3>1, <3>2 DEF HasAttempts
    <2>8. ASSUME NEW d \in Dispatchers, NEW r \in DOMAIN sender[d].results
          PROVE  TruthfulThen(sender'[d].results[r])
      <3>1. Truthful(sender[d].results[r]) /\ sender[d].results[r] \in Message
        BY <1>1, <1>4 DEF RecordInv
      <3> QED
        BY <2>4, <2>6, <3>1
    <2>9. ASSUME NEW d \in Dispatchers, sender[d].pc = "sending", NEW i \in DOMAIN sender[d].due
          PROVE  TruthfulThen(sender[d].due[i])
      BY <1>1, <1>4, <1>7, <2>1, <2>9 DEF RecordInv
    <2> QED
      BY <1>5, <2>2, <2>3, <2>4, <2>7, <2>8, <2>9
  <1>14. ASSUME ProcessEnds
         PROVE  RecordInv'
    <2>1. UNCHANGED <<outbox, tries, sent>>
      BY <1>14 DEF ProcessEnds
    <2>2. \A e \in Dispatchers :
            sender'[e].pc = "resting" /\ DOMAIN sender'[e].results = {}
      BY <1>1, <1>14, DeathIs
    <2>3. ASSUME NEW i \in DOMAIN outbox
          PROVE  /\ HasAttempts(outbox[i])
                 /\ outbox[i].status = "delivered" => sent[outbox[i].id] > 0
                 /\ TruthfulThen(outbox[i])
      <3>1. PICK m \in Message : m = outbox[i] /\ m.id \in 1 .. MaxIssued
        BY <1>3
      <3>2. /\ HasAttempts(m)
            /\ m.status = "delivered" => sent[m.id] > 0
            /\ ~Unwritten(m.id) => Truthful(m)
        BY <1>1, <3>1 DEF RecordInv
      <3>3. slips'[m.id] = slips[m.id] + (IF Unwritten(m.id) THEN 1 ELSE 0) /\ slips[m.id] \in Nat
        BY <1>1, <1>14, <3>1, SlipsOfDeath DEF OutboxTypes
      <3>4. CASE Unwritten(m.id)
        <4>1. sent'[m.id] <= slips'[m.id] /\ tries'[m.id] <= m.attempts + MaxAttempts * slips'[m.id]
          BY <2>1, <3>3, <3>4, SlipMakesRoom
        <4>2. TruthfulThen(m)
          BY <2>1, <3>2, <4>1 DEF TruthfulThen
        <4> QED
          BY <3>1, <3>2, <4>2
      <3>5. CASE ~Unwritten(m.id)
        <4>1. slips'[m.id] \in {slips[m.id], slips[m.id] + 1}
          BY <3>3, <3>5
        <4>2. TruthfulThen(m)
          BY <1>6, <2>1, <3>2, <3>5, <4>1
        <4> QED
          BY <3>1, <3>2, <4>2
      <3> QED
        BY <3>4, <3>5
    <2> QED
      BY <1>5, <2>1, <2>2, <2>3
  <1> QED
    BY <1>8, <1>9, <1>10, <1>11, <1>12, <1>13, <1>14 DEF OutboxNext

LEMMA SlipsGrow ==
  ASSUME OutboxInv, OutboxNext, NoSlips'
  PROVE  NoSlips
  <1>1. OutboxTypes /\ SenderInv
    BY DEF OutboxInv
  <1>2. SUFFICES ASSUME NEW i \in 1 .. MaxIssued PROVE slips[i] = 0
    BY DEF NoSlips
  <1>3. slips[i] \in Nat /\ slips'[i] = 0
    BY <1>1 DEF OutboxTypes, NoSlips
  <1>4. ASSUME NEW d \in Dispatchers, Take(d) PROVE slips'[i] \in {slips[i], slips[i] + 1}
    BY <1>1, <1>4, SlipsOfTake
  <1>5. ASSUME ProcessEnds PROVE slips'[i] \in {slips[i], slips[i] + 1}
    BY <1>1, <1>3, <1>5, SlipsOfDeath
  <1>6. ASSUME NEW d \in Dispatchers, Unavailable(d) \/ Accepted(d) \/ Refused(d) PROVE slips' = slips
    BY <1>6 DEF Unavailable, Accepted, Refused
  <1>7. ASSUME (\E k \in Keys : Enqueue(k)) \/ (\E d \in Dispatchers : Look(d) \/ WriteResults(d)) \/ Minute
        PROVE  slips' = slips
    BY <1>7 DEF Enqueue, Look, WriteResults, Minute
  <1> QED
    BY <1>3, <1>4, <1>5, <1>6, <1>7 DEF OutboxNext

LEMMA LiveKept ==
  ASSUME OutboxInv, OutboxNext
  PROVE  LiveInv'
  <1>1. OutboxTypes /\ OutboxKeepsNewest /\ SenderInv
    BY DEF OutboxInv
  <1>2. NoSender \notin Dispatchers
    BY OutboxAssumption DEF NoSender
  <1>3. SUFFICES ASSUME NoSlips'
                 PROVE  /\ OutboxOneLivePerKey'
                        /\ \A d \in Dispatchers : sender'[d].pc = "sending" =>
                             \A j \in DOMAIN outbox' :
                               /\ \A i \in DOMAIN sender'[d].due :
                                    sender'[d].due[i].id = outbox'[j].id => outbox'[j].status \in Live
                               /\ \A r \in DOMAIN sender'[d].results :
                                    sender'[d].results[r].id = outbox'[j].id => outbox'[j].status \in Live
    BY DEF LiveInv
  <1>4. NoSlips
    BY <1>3, SlipsGrow
  <1>5. /\ \A i, j \in DOMAIN outbox :
             /\ outbox[i].key = outbox[j].key
             /\ outbox[i].status \in Live
             /\ outbox[j].status \in Live
             => i = j
        /\ \A d \in Dispatchers : sender[d].pc = "sending" =>
             \A j \in DOMAIN outbox :
               /\ \A i \in DOMAIN sender[d].due :
                    sender[d].due[i].id = outbox[j].id => outbox[j].status \in Live
               /\ \A r \in DOMAIN sender[d].results :
                    sender[d].results[r].id = outbox[j].id => outbox[j].status \in Live
    BY <1>4 DEF OutboxInv, LiveInv, OutboxOneLivePerKey, NoSlips
  <1>6. \A i, j \in DOMAIN outbox' :
          /\ outbox'[i].key = outbox'[j].key
          /\ outbox'[i].status \in Live
          /\ outbox'[j].status \in Live
          => i = j
    <2>1. CASE UNCHANGED outbox
      BY <1>5, <2>1
    <2>2. ASSUME DOMAIN outbox' = DOMAIN outbox,
                 \A i \in DOMAIN outbox :
                   /\ outbox'[i].key = outbox[i].key
                   /\ outbox'[i].status \in Live => outbox[i].status \in Live
          PROVE  \A i, j \in DOMAIN outbox' :
                   /\ outbox'[i].key = outbox'[j].key
                   /\ outbox'[i].status \in Live
                   /\ outbox'[j].status \in Live
                   => i = j
      BY <1>5, <2>2
    <2>3. ASSUME NEW k \in Keys, Enqueue(k), NEW i \in DOMAIN outbox', NEW j \in DOMAIN outbox',
                 outbox'[i].key = outbox'[j].key,
                 outbox'[i].status \in Live, outbox'[j].status \in Live
          PROVE  i = j
      <3>1. PICK shift \in 0 .. 1 :
              /\ Len(outbox') = Len(outbox) + 1 - shift
              /\ \A p \in 1 .. Len(outbox') :
                   outbox'[p] = IF p + shift <= Len(outbox) THEN outbox[p + shift] ELSE NewMessage(k)
        BY <1>1, <2>3, Enqueued
      <3>2. /\ outbox' \in Seq(Message) /\ DOMAIN outbox' = 1 .. Len(outbox')
            /\ Len(outbox) \in Nat /\ DOMAIN outbox = 1 .. Len(outbox)
        BY <1>1, <2>3, Enqueued DEF OutboxTypes
      <3>3. ASSUME NEW p \in DOMAIN outbox'
            PROVE  /\ p \in Nat /\ p + shift \in Nat
                   /\ \/ p + shift \in DOMAIN outbox /\ outbox'[p] = outbox[p + shift]
                      \/ p + shift = Len(outbox) + 1 /\ outbox'[p] = NewMessage(k)
        <4>1. p \in 1 .. Len(outbox') /\ p \in Nat /\ p >= 1 /\ p <= Len(outbox') /\ Len(outbox') \in Nat
          BY <3>2
        <4>2. outbox'[p] = IF p + shift <= Len(outbox) THEN outbox[p + shift] ELSE NewMessage(k)
          BY <3>1, <4>1
        <4>3. p + shift <= Len(outbox) + 1
          BY <3>1, <3>2, <4>1
        <4>4. CASE p + shift <= Len(outbox)
          BY <3>2, <4>1, <4>2, <4>4
        <4>5. CASE ~(p + shift <= Len(outbox))
          BY <3>2, <4>1, <4>2, <4>3, <4>5
        <4> QED
          BY <4>4, <4>5
      <3>4. NewMessage(k).key = k
        BY DEF NewMessage
      <3>5. \A p \in DOMAIN outbox : ~(outbox[p].key = k /\ outbox[p].status \in Live)
        BY <2>3 DEF Enqueue, Busy
      <3>6. CASE outbox'[i] = outbox[i + shift] /\ i + shift \in DOMAIN outbox
                 /\ outbox'[j] = outbox[j + shift] /\ j + shift \in DOMAIN outbox
        <4>1. i + shift = j + shift
          BY <1>5, <2>3, <3>6
        <4> QED
          BY <3>3, <4>1
      <3>7. CASE outbox'[i] = outbox[i + shift] /\ i + shift \in DOMAIN outbox /\ outbox'[j] = NewMessage(k)
        BY <2>3, <3>4, <3>5, <3>7
      <3>8. CASE outbox'[j] = outbox[j + shift] /\ j + shift \in DOMAIN outbox /\ outbox'[i] = NewMessage(k)
        BY <2>3, <3>4, <3>5, <3>8
      <3>9. CASE i + shift = Len(outbox) + 1 /\ j + shift = Len(outbox) + 1
        BY <3>3, <3>9
      <3> QED
        BY <3>3, <3>6, <3>7, <3>8, <3>9
    <2>4. ASSUME NEW d \in Dispatchers, WriteResults(d)
          PROVE  /\ DOMAIN outbox' = DOMAIN outbox
                 /\ \A i \in DOMAIN outbox :
                      /\ outbox'[i].key = outbox[i].key
                      /\ outbox'[i].status \in Live => outbox[i].status \in Live
      <3>1. /\ DOMAIN outbox' = DOMAIN outbox
            /\ \A i \in DOMAIN outbox :
                \/ \E r \in DOMAIN sender[d].results :
                     /\ outbox'[i] = sender[d].results[r]
                     /\ sender[d].results[r].id = outbox[i].id
                \/ outbox'[i] = outbox[i]
        BY <1>1, <2>4, ResultsWritten
      <3>2. sender[d].pc = "sending"
        BY <2>4 DEF WriteResults
      <3>3. ASSUME NEW i \in DOMAIN outbox
            PROVE  outbox'[i].key = outbox[i].key /\ (outbox'[i].status \in Live => outbox[i].status \in Live)
        <4>1. CASE outbox'[i] = outbox[i]
          BY <4>1
        <4>2. ASSUME NEW r \in DOMAIN sender[d].results,
                     outbox'[i] = sender[d].results[r], sender[d].results[r].id = outbox[i].id
              PROVE  outbox'[i].key = outbox[i].key /\ outbox[i].status \in Live
          <5>1. SameMessage(sender[d].results[r], outbox[i])
            BY <1>1 DEF SenderInv, SenderSound
          <5>2. outbox[i].status \in Live
            BY <1>5, <3>2, <4>2
          <5> QED
            BY <4>2, <5>1, <5>2 DEF SameMessage
        <4> QED
          BY <3>1, <4>1, <4>2
      <3> QED
        BY <3>1, <3>3
    <2>5. ASSUME Minute
          PROVE  /\ DOMAIN outbox' = DOMAIN outbox
                 /\ \A i \in DOMAIN outbox :
                      /\ outbox'[i].key = outbox[i].key
                      /\ outbox'[i].status \in Live => outbox[i].status \in Live
      <3>1. outbox' = Older(outbox) /\ outbox \in Seq(Message)
        BY <1>1, <2>5, MinuteIs DEF OutboxTypes
      <3> QED
        BY <3>1, OlderIs
    <2>6. ASSUME NEW d \in Dispatchers, Look(d) \/ Take(d) \/ Unavailable(d) \/ Accepted(d) \/ Refused(d)
          PROVE  UNCHANGED outbox
      BY <2>6 DEF Look, Take, Unavailable, Accepted, Refused
    <2>7. ASSUME ProcessEnds PROVE UNCHANGED outbox
      BY <2>7 DEF ProcessEnds
    <2> QED
      BY <2>1, <2>2, <2>3, <2>4, <2>5, <2>6, <2>7 DEF OutboxNext
  <1>7. OutboxOneLivePerKey'
    BY <1>6 DEF OutboxOneLivePerKey
  <1>8. SUFFICES ASSUME NEW d \in Dispatchers, sender'[d].pc = "sending", NEW j \in DOMAIN outbox'
                 PROVE  /\ \A i \in DOMAIN sender'[d].due :
                             sender'[d].due[i].id = outbox'[j].id => outbox'[j].status \in Live
                        /\ \A r \in DOMAIN sender'[d].results :
                             sender'[d].results[r].id = outbox'[j].id => outbox'[j].status \in Live
    BY <1>7
  <1>9. CASE \E k \in Keys : Enqueue(k)
    <2>1. UNCHANGED sender /\ outboxLock = NoSender
      BY <1>9 DEF Enqueue
    <2>2. sender[d].pc # "sending"
      BY <1>1, <1>2, <2>1 DEF SenderInv, SenderSound
    <2> QED
      BY <1>8, <2>1, <2>2
  <1>10. ASSUME NEW e \in Dispatchers, Look(e)
         PROVE  /\ UNCHANGED outbox /\ sender'[d] = sender[d]
    BY <1>1, <1>8, <1>10, BatchIs DEF Look
  <1>11. CASE UNCHANGED outbox /\ sender'[d] = sender[d]
    BY <1>5, <1>8, <1>11
  <1>12. ASSUME NEW e \in Dispatchers, Take(e)
         PROVE  /\ \A i \in DOMAIN sender'[d].due :
                     sender'[d].due[i].id = outbox'[j].id => outbox'[j].status \in Live
                /\ \A r \in DOMAIN sender'[d].results :
                     sender'[d].results[r].id = outbox'[j].id => outbox'[j].status \in Live
    <2>1. outbox' = outbox /\ outboxLock = NoSender
      BY <1>12 DEF Take
    <2>2. /\ \A i \in DOMAIN sender[e].due :
               \/ \E p \in DOMAIN outbox : sender[e].due[i] = outbox[p]
               \/ slips'[sender[e].due[i].id] = slips[sender[e].due[i].id] + 1
          /\ \A f \in Dispatchers : /\ sender'[f].due = sender[f].due
                                    /\ sender'[f].results = sender[f].results
          /\ \A f \in Dispatchers \ {e} : sender'[f].pc = sender[f].pc
      BY <1>1, <1>12, SlipsOfTake
    <2>3. \A f \in Dispatchers : sender[f].pc # "sending" /\ DOMAIN sender[f].results = {}
      BY <1>1, <1>2, <2>1, EmptyHanded DEF SenderInv, SenderSound
    <2>4. d = e
      BY <1>8, <2>2, <2>3
    <2>5. ASSUME NEW i \in DOMAIN sender[d].due, sender[d].due[i].id = outbox[j].id
          PROVE  outbox[j].status \in Live
      <3>1. sender[d].due \in Seq(Message)
        BY <1>1 DEF OutboxTypes, Sender
      <3>2. PICK m \in Message : m = sender[d].due[i]
        BY <3>1
      <3>3. m.id \in 1 .. MaxIssued
        BY DEF Message
      <3>4. slips[m.id] = 0 /\ slips'[m.id] = 0
        BY <1>3, <1>4, <3>3 DEF NoSlips
      <3>5. PICK p \in DOMAIN outbox : m = outbox[p]
        BY <2>2, <2>4, <3>2, <3>4
      <3>6. /\ Len(outbox) \in Nat /\ DOMAIN outbox = 1 .. Len(outbox) /\ issued \in Int
            /\ \A q \in DOMAIN outbox : outbox[q].id = issued - Len(outbox) + q
        BY <1>1 DEF OutboxTypes, OutboxKeepsNewest
      <3>7. j \in DOMAIN outbox
        BY <2>1
      <3>8. p = j
        BY <2>5, <3>2, <3>5, <3>6, <3>7
      <3>9. m.status \in {"pending", "retry"}
        BY <1>1, <3>2 DEF SenderInv, SenderSound
      <3> QED
        BY <3>5, <3>8, <3>9 DEF Live
    <2> QED
      BY <2>1, <2>2, <2>3, <2>5
  <1>13. ASSUME NEW e \in Dispatchers, Unavailable(e) \/ Accepted(e) \/ Refused(e)
         PROVE  /\ \A i \in DOMAIN sender'[d].due :
                     sender'[d].due[i].id = outbox'[j].id => outbox'[j].status \in Live
                /\ \A r \in DOMAIN sender'[d].results :
                     sender'[d].results[r].id = outbox'[j].id => outbox'[j].status \in Live
    <2>1. PICK m, r \in Message : SendStep(e, m, r)
      BY <1>1, <1>13, OneSend
    <2>2. /\ outbox' = outbox /\ r.id = m.id /\ sender[e].pc = "sending" /\ m = sender[e].due[1]
      BY <2>1 DEF SendStep
    <2>3. /\ \A f \in Dispatchers \ {e} : sender'[f] = sender[f]
          /\ Len(sender[e].due) \in Nat \ {0} /\ DOMAIN sender[e].due = 1 .. Len(sender[e].due)
          /\ \A i \in DOMAIN sender'[e].due :
               i + 1 \in DOMAIN sender[e].due /\ sender'[e].due[i] = sender[e].due[i + 1]
          /\ \A q \in DOMAIN sender'[e].results :
               \/ q \in DOMAIN sender[e].results /\ sender'[e].results[q] = sender[e].results[q]
               \/ sender'[e].results[q] = r
      BY <1>1, <2>1, RecordedIs DEF SendStep
    <2>4. d = e
      <3>1. ASSUME d # e PROVE FALSE
        <4>1. sender[d].pc = "sending"
          BY <1>8, <2>3, <3>1
        <4> QED
          BY <1>1, <2>2, <3>1, <4>1 DEF SenderInv, SenderSound
      <3> QED
        BY <3>1
    <2>5. 1 \in DOMAIN sender[d].due
      BY <2>3, <2>4
    <2> QED
      BY <1>5, <2>2, <2>3, <2>4, <2>5
  <1>14. ASSUME NEW e \in Dispatchers, WriteResults(e)
         PROVE  FALSE
    <2>1. sender[e].pc = "sending"
      BY <1>14 DEF WriteResults
    <2>2. sender'[e].pc = "resting" /\ \A f \in Dispatchers \ {e} : sender'[f] = sender[f]
      BY <1>1, <1>14, WrittenIs
    <2> QED
      BY <1>1, <1>8, <2>1, <2>2 DEF SenderInv, SenderSound
  <1>15. CASE Minute
    <2>1. /\ outbox' = Older(outbox) /\ sender'[d].pc = sender[d].pc /\ sender'[d].due = sender[d].due
          /\ \/ sender'[d].results = sender[d].results
             \/ sender'[d].results = Older(sender[d].results)
      BY <1>1, <1>15, MinuteIs
    <2>2. outbox \in Seq(Message) /\ sender[d].results \in Seq(Message)
      BY <1>1 DEF OutboxTypes, Sender
    <2>3. /\ DOMAIN outbox' = DOMAIN outbox
          /\ outbox'[j].id = outbox[j].id /\ outbox'[j].status = outbox[j].status
      BY <2>1, <2>2, OlderIs
    <2>4. /\ DOMAIN sender'[d].results = DOMAIN sender[d].results
          /\ \A r \in DOMAIN sender[d].results : sender'[d].results[r].id = sender[d].results[r].id
      BY <2>1, <2>2, OlderIs
    <2> QED
      BY <1>5, <1>8, <2>1, <2>3, <2>4
  <1>16. ASSUME ProcessEnds PROVE FALSE
    BY <1>1, <1>8, <1>16, DeathIs
  <1> QED
    BY <1>9, <1>10, <1>11, <1>12, <1>13, <1>14, <1>15, <1>16 DEF OutboxNext

LEMMA OutboxStepInv == OutboxInv /\ [OutboxNext]_outboxVars => OutboxInv'
  <1> SUFFICES ASSUME OutboxInv, [OutboxNext]_outboxVars PROVE OutboxInv'
    OBVIOUS
  <1>1. CASE OutboxNext
    BY <1>1, OutboxTypesKept, SenderKept, RecordKept, CountKept, LiveKept DEF OutboxInv
  <1>2. CASE UNCHANGED outboxVars
    <2> USE <1>2 DEF outboxVars
    <2>1. OutboxTypes' /\ OutboxKeepsNewest'
      BY DEF OutboxInv, OutboxTypes, OutboxKeepsNewest
    <2>2. SenderInv'
      BY DEF OutboxInv, SenderInv, SenderSound
    <2>3. RecordInv'
      BY DEF OutboxInv, RecordInv, Truthful, Unwritten
    <2>4. CountInv'
      BY DEF OutboxInv, CountInv
    <2>5. LiveInv'
      BY DEF OutboxInv, LiveInv, NoSlips, OutboxOneLivePerKey
    <2> QED
      BY <2>1, <2>2, <2>3, <2>4, <2>5 DEF OutboxInv
  <1> QED
    BY <1>1, <1>2

LEMMA OutboxInvariant == OutboxSpec => []OutboxInv
  BY OutboxInitInv, OutboxStepInv, PTL DEF OutboxSpec

LEMMA OutboxSoundFollows == ASSUME OutboxInv PROVE OutboxSound
  <1>1. OutboxTypes /\ OutboxKeepsNewest /\ SenderInv /\ RecordInv /\ LiveInv
    BY DEF OutboxInv
  <1>2. OutboxTypeOK
    BY <1>1 DEF OutboxTypes, OutboxTypeOK, Sender
  <1>3. ASSUME NEW i \in DOMAIN outbox, slips[outbox[i].id] = 0,
               \A d \in Dispatchers : \A r \in ToSet(sender[d].results) : r.id # outbox[i].id
        PROVE  outbox[i].status = "delivered" <=> sent[outbox[i].id] > 0
    <2>1. ~Unwritten(outbox[i].id)
      BY <1>3 DEF Unwritten, ToSet
    <2>2. Truthful(outbox[i])
      BY <1>1, <2>1 DEF RecordInv
    <2>3. outbox \in Seq(Message)
      BY <1>1 DEF OutboxTypes
    <2>4. PICK m \in Message : m = outbox[i]
      BY <2>3
    <2>5. m.id \in 1 .. MaxIssued
      BY DEF Message
    <2>6. sent[m.id] \in Nat
      BY <1>1, <2>5 DEF OutboxTypes
    <2> QED
      BY <1>3, <2>2, <2>4, <2>6 DEF Truthful
  <1>4. OutboxRecordIsTrue
    BY <1>3 DEF OutboxRecordIsTrue
  <1>5. OutboxOneLivePerKey
    BY <1>1 DEF LiveInv, NoSlips, OutboxOneLivePerKey
  <1> QED
    BY <1>1, <1>2, <1>4, <1>5 DEF OutboxSound

\* The file of messages is sound: however dispatchers read due lists, wait for
\* the lock, send and write results while others enqueue, time passes and the
\* process dies, the file holds the newest messages, says delivered of what was
\* and of nothing else, and has one live message per key, unless a record was
\* stale when it was sent or its result was lost.
THEOREM SpecOutboxSound == OutboxSpec => []OutboxSound
  BY OutboxInvariant, OutboxSoundFollows, PTL

\* Every call of a provider has a reason: dispatch sends a message once and once
\* more for each slip, and calls a provider at most max_attempts times per
\* record that it started from.
THEOREM SpecOutboxSends == OutboxSpec => []OutboxSends
  <1>1. ASSUME OutboxInv PROVE OutboxSends
    <2>1. \A i \in 1 .. issued : i \in 1 .. MaxIssued
      BY <1>1, OutboxAssumption DEF OutboxInv, OutboxTypes
    <2> QED
      BY <1>1, <2>1 DEF OutboxInv, CountInv, OutboxSends, OutboxDeliveriesExplained, OutboxTriesBounded
  <1> QED
    BY <1>1, OutboxInvariant, PTL

=============================================================================
