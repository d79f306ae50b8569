--------------------------- MODULE DiscoveryPool ---------------------------
(***************************************************************************)
(* The discovery execution engine: DiscoveryExecution and run_pool of      *)
(* src/founderos_atlas/discovery/executor.py.                              *)
(*                                                                         *)
(* Three kinds of threads share one DiscoveryExecution: the thread inside  *)
(* run_pool (main), the pool's worker threads, and an operator calling     *)
(* pause, resume and cancel.  Every step between two acquisitions of the   *)
(* execution's lock, and every read of the unlocked paused and cancelled   *)
(* events, is an action of its own.                                        *)
(***************************************************************************)
EXTENDS Integers, Sequences, FiniteSets

CONSTANTS
    Workers,     \* the worker ids, range(worker_count)
    Candidates,  \* every address that can be named
    Addresses,   \* the constructor's list argument, duplicates included
    Completed    \* the constructor's completed set: already discovered

ASSUME PoolAssumption ==
    /\ Workers # {}
    /\ IsFiniteSet(Workers)
    /\ Addresses \in Seq(Candidates)
    /\ Completed \subseteq Candidates
    /\ "none" \notin Candidates

VARIABLES
    state,        \* _state, the lifecycle state
    paused,       \* the _paused event
    cancelled,    \* the _cancelled event
    cursor,       \* _queue_index, as the last list position handed out
    outcomes,     \* _outcomes
    completed,    \* _completed_addresses
    results,      \* the keys of _results
    recorded,     \* the keys of _metrics
    main,         \* program counter of the thread in run_pool
    pc,           \* program counter of each worker thread
    holds,        \* the address a worker thread is processing
    attempts,     \* history: how often an address was given to a worker
    late          \* history: what was dequeued since the last pause/cancel

vars == <<state, paused, cancelled, cursor, outcomes, completed, results,
          recorded, main, pc, holds, attempts, late>>

queueVars == <<cursor, outcomes, completed, results, recorded, attempts>>
threadVars == <<main, pc, holds>>

None == "none"

---------------------------------------------------------------------------
(* The queue.  The constructor keeps the first occurrence of each address  *)
(* and queues the ones that are not completed; list positions stand for    *)
(* the entries of _pending, in order.                                      *)

\* Mutant: the constructor forgets its seen set.
FirstAtWithDuplicates == DOMAIN Addresses

FirstAt == {i \in DOMAIN Addresses :
              \A j \in 1 .. (i - 1) : Addresses[j] # Addresses[i]}

PendingAt == {i \in FirstAt : Addresses[i] \notin Completed}

Pending == {Addresses[i] : i \in PendingAt}

Left == {i \in PendingAt : i > cursor}

IsNextAt(i) == i \in Left /\ \A j \in Left : i <= j

---------------------------------------------------------------------------
(* The lifecycle.                                                          *)

States == {"queued", "starting", "inventory-pass", "deep-discovery-pass",
           "paused", "running", "completed", "cancelled", "failed"}

Terminal == {"completed", "cancelled", "failed"}

Pausable == {"inventory-pass", "deep-discovery-pass", "running"}

CanTransition(current, target) ==
    \/ current = "queued" /\ target \in {"starting", "cancelled"}
    \/ current = "starting" /\ target \in {"inventory-pass", "cancelled", "failed"}
    \/ /\ current = "inventory-pass"
       /\ target \in {"deep-discovery-pass", "paused"} \cup Terminal
    \/ /\ current = "deep-discovery-pass"
       /\ target \in {"running", "paused"} \cup Terminal
    \/ current = "running" /\ target \in {"paused"} \cup Terminal
    \/ current = "paused" /\ target \in {"running", "deep-discovery-pass", "cancelled"}

\* transition(target): a refused move leaves the state as it is, and
\* run_pool ignores the answer.
Transition(target) ==
    state' = IF CanTransition(state, target) THEN target ELSE state

---------------------------------------------------------------------------
Outcomes == {"queued", "running", "discovered", "authentication-failed",
             "unsupported-platform", "unreachable"}

Failures == {"authentication-failed", "unsupported-platform", "unreachable"}

Init ==
    /\ state = "queued"
    /\ paused = FALSE
    /\ cancelled = FALSE
    /\ cursor = 0
    /\ outcomes = [a \in Completed \cup Pending |->
                     IF a \in Completed THEN "discovered" ELSE "queued"]
    /\ completed = Completed
    /\ results = {}
    /\ recorded = {}
    /\ main = "start"
    /\ pc = [w \in Workers |-> "unborn"]
    /\ holds = [w \in Workers |-> None]
    /\ attempts = [a \in Candidates |-> 0]
    /\ late = {}

---------------------------------------------------------------------------
(* The operator.                                                           *)

\* Mutant: pause() does not look at the state it leaves.
PauseAnyState ==
    /\ paused' = TRUE
    /\ state' = "paused"
    /\ late' = IF paused THEN late ELSE {}
    /\ UNCHANGED <<cancelled, queueVars, threadVars>>

\* pause() can be called again; only an actual change of the event starts a
\* new episode of the history variable.
Pause ==
    /\ paused' = TRUE
    /\ state' = IF state \in Pausable THEN "paused" ELSE state
    /\ late' = IF paused THEN late ELSE {}
    /\ UNCHANGED <<cancelled, queueVars, threadVars>>

Resume ==
    /\ paused' = FALSE
    /\ state' = IF state = "paused" THEN "running" ELSE state
    /\ UNCHANGED <<cancelled, late, queueVars, threadVars>>

Cancel ==
    /\ cancelled' = TRUE
    /\ paused' = FALSE
    /\ late' = IF cancelled THEN late ELSE {}
    /\ UNCHANGED <<state, queueVars, threadVars>>

---------------------------------------------------------------------------
(* The thread in run_pool.                                                 *)

MainStep(from, to) == main = from /\ main' = to

Starting ==
    /\ MainStep("start", "inventory")
    /\ Transition("starting")
    /\ UNCHANGED <<paused, cancelled, queueVars, pc, holds, late>>

Inventory ==
    /\ MainStep("inventory", "deep")
    /\ Transition("inventory-pass")
    /\ UNCHANGED <<paused, cancelled, queueVars, pc, holds, late>>

Deep ==
    /\ MainStep("deep", "look")
    /\ Transition("deep-discovery-pass")
    /\ UNCHANGED <<paused, cancelled, queueVars, pc, holds, late>>

\* The state is read, then transition() takes the lock again.
Look ==
    /\ MainStep("look", IF state = "deep-discovery-pass" THEN "run" ELSE "spawn")
    /\ UNCHANGED <<state, paused, cancelled, queueVars, pc, holds, late>>

Run ==
    /\ MainStep("run", "spawn")
    /\ Transition("running")
    /\ UNCHANGED <<paused, cancelled, queueVars, pc, holds, late>>

\* thread.start() of every worker, then join().
Spawn ==
    /\ MainStep("spawn", "join")
    /\ pc' = [w \in Workers |-> "cancel?"]
    /\ UNCHANGED <<state, paused, cancelled, queueVars, holds, late>>

\* Mutant: is_cancelled is not read after the joins.
JoinIgnoresCancel ==
    /\ \A w \in Workers : pc[w] = "exited"
    /\ MainStep("join", "to completed")
    /\ UNCHANGED <<state, paused, cancelled, queueVars, pc, holds, late>>

\* The last join returns and is_cancelled is read.
Join ==
    /\ \A w \in Workers : pc[w] = "exited"
    /\ MainStep("join", IF cancelled THEN "to cancelled" ELSE "to completed")
    /\ UNCHANGED <<state, paused, cancelled, queueVars, pc, holds, late>>

Finish ==
    \/ /\ MainStep("to cancelled", "returned")
       /\ Transition("cancelled")
       /\ UNCHANGED <<paused, cancelled, queueVars, pc, holds, late>>
    \/ /\ MainStep("to completed", "returned")
       /\ Transition("completed")
       /\ UNCHANGED <<paused, cancelled, queueVars, pc, holds, late>>

---------------------------------------------------------------------------
(* A worker thread: worker_loop around next_address.                       *)

Goto(w, from, to) == pc[w] = from /\ pc' = [pc EXCEPT ![w] = to]

\* Mutant: a paused worker does not look at the cancelled event.
CheckCancelUnlessPaused(w) ==
    /\ Goto(w, "cancel?", IF cancelled /\ ~paused THEN "exited" ELSE "pause?")
    /\ UNCHANGED <<state, paused, cancelled, queueVars, main, holds, late>>

\* next_address: the cancelled event, read without the lock.
CheckCancel(w) ==
    /\ Goto(w, "cancel?", IF cancelled THEN "exited" ELSE "pause?")
    /\ UNCHANGED <<state, paused, cancelled, queueVars, main, holds, late>>

\* Mutant: the paused event is not read.
CheckPauseNever(w) ==
    /\ Goto(w, "pause?", "take")
    /\ UNCHANGED <<state, paused, cancelled, queueVars, main, holds, late>>

\* next_address: the paused event, read without the lock; a paused worker
\* goes round its loop.
CheckPause(w) ==
    /\ Goto(w, "pause?", IF paused THEN "cancel?" ELSE "take")
    /\ UNCHANGED <<state, paused, cancelled, queueVars, main, holds, late>>

\* next_address: the queue, under the lock; neither event is read again.
Take(w) ==
    \E i \in PendingAt :
      /\ IsNextAt(i)
      /\ Goto(w, "take", "busy")
      /\ cursor' = i
      /\ outcomes' = [outcomes EXCEPT ![Addresses[i]] = "running"]
      /\ holds' = [holds EXCEPT ![w] = Addresses[i]]
      /\ attempts' = [attempts EXCEPT ![Addresses[i]] = @ + 1]
      /\ late' = late \cup {<<w, i>>}
      /\ UNCHANGED <<state, paused, cancelled, completed, results, recorded,
                     main>>

\* Mutant: an idle worker waits for more work until it is cancelled.
DrainedWaits(w) ==
    /\ Left = {} /\ cancelled
    /\ Goto(w, "take", "exited")
    /\ UNCHANGED <<state, paused, cancelled, queueVars, main, holds, late>>

\* next_address: the queue is drained.
Drained(w) ==
    /\ Left = {}
    /\ Goto(w, "take", "exited")
    /\ UNCHANGED <<state, paused, cancelled, queueVars, main, holds, late>>

\* Mutant: the worker's address is cleared before it is recorded.
RecordAfterClear(w, outcome) ==
    /\ Goto(w, "busy", "cancel?")
    /\ recorded' = recorded \cup {None}
    /\ holds' = [holds EXCEPT ![w] = None]
    /\ UNCHANGED <<state, paused, cancelled, cursor, outcomes, completed,
                   results, main, attempts, late>>

\* Mutant: a candidate that failed is remembered as completed.
RecordAlwaysCompletes(w, outcome) ==
    LET a == holds[w] IN
      /\ Goto(w, "busy", "cancel?")
      /\ outcomes' = [outcomes EXCEPT ![a] = outcome]
      /\ recorded' = recorded \cup {a}
      /\ results' = results \cup {a}
      /\ completed' = completed \cup {a}
      /\ holds' = [holds EXCEPT ![w] = None]
      /\ UNCHANGED <<state, paused, cancelled, cursor, main, attempts, late>>

\* The candidate worker returned, or raised and was recorded unreachable;
\* record() stores what came of it.
Record(w, outcome) ==
    LET a == holds[w] IN
      /\ Goto(w, "busy", "cancel?")
      /\ outcomes' = [outcomes EXCEPT ![a] = outcome]
      /\ recorded' = recorded \cup {a}
      /\ IF outcome = "discovered"
           THEN /\ results' = results \cup {a}
                /\ completed' = completed \cup {a}
           ELSE UNCHANGED <<results, completed>>
      /\ holds' = [holds EXCEPT ![w] = None]
      /\ UNCHANGED <<state, paused, cancelled, cursor, main, attempts, late>>

Worker(w) ==
    \/ CheckCancel(w)
    \/ CheckPause(w)
    \/ Take(w)
    \/ Drained(w)
    \/ \E outcome \in Failures \cup {"discovered"} : Record(w, outcome)

Main ==
    Starting \/ Inventory \/ Deep \/ Look \/ Run \/ Spawn \/ Join \/ Finish

Operator == Pause \/ Resume \/ Cancel

Next == Main \/ Operator \/ \E w \in Workers : Worker(w)

Spec == Init /\ [][Next]_vars

\* Threads are scheduled by the interpreter; the operator is not obliged to
\* do anything.
FairSpec == Spec /\ WF_vars(Main) /\ \A w \in Workers : WF_vars(Worker(w))

---------------------------------------------------------------------------
(* Properties.                                                             *)

MainLocations == {"start", "inventory", "deep", "look", "run", "spawn", "join",
                  "to cancelled", "to completed", "returned"}

WorkerLocations == {"unborn", "cancel?", "pause?", "take", "busy", "exited"}

\* The types of the execution's fields and of the threads' locations.
TypeOK ==
    /\ state \in States
    /\ paused \in BOOLEAN
    /\ cancelled \in BOOLEAN
    /\ cursor \in 0 .. Len(Addresses)
    /\ outcomes \in [Completed \cup Pending -> Outcomes]
    /\ completed \subseteq Completed \cup Pending
    /\ results \subseteq Pending
    /\ recorded \subseteq Pending
    /\ main \in MainLocations
    /\ pc \in [Workers -> WorkerLocations]
    /\ holds \in [Workers -> Pending \cup {None}]
    /\ attempts \in [Candidates -> Nat]
    /\ late \subseteq Workers \X PendingAt

\* run_pool's contract, "every pending candidate is processed exactly once":
\* whatever the threads' interleaving, and however often an address is
\* listed, no candidate is dequeued twice, none that was completed earlier
\* is dequeued at all, and two workers never work on one address.
AtMostOnce ==
    /\ \A a \in Candidates : attempts[a] <= (IF a \in Pending THEN 1 ELSE 0)
    /\ \A v, w \in Workers :
         v # w /\ holds[v] # None => holds[v] # holds[w]

\* The other half of that contract: when run_pool returns with the lifecycle
\* completed, no pending candidate was left queued or in flight, and the
\* results are exactly the candidates whose outcome is discovered, even if
\* cancel() arrived after the last is_cancelled check.
CompletedMeansAll ==
    state = "completed" =>
      /\ recorded = Pending
      /\ \A a \in Pending : /\ outcomes[a] \in Failures \cup {"discovered"}
                             /\ (a \in results) <=> (outcomes[a] = "discovered")
      /\ completed = Completed \cup results

\* What a resumed execution is built from (completed_addresses of the
\* interrupted one) never names a candidate that was not really discovered,
\* at any moment a snapshot may be taken.
ResumeSetIsHonest ==
    completed \ Completed = {a \in Pending : outcomes[a] = "discovered"}

\* pause and cancel complete current work only: after either, a worker that
\* had already passed the unlocked checks of next_address dequeues at most
\* one more candidate, and no worker dequeues two.
AtMostOneLate ==
    paused \/ cancelled =>
      \A w \in Workers, i, j \in PendingAt :
        <<w, i>> \in late /\ <<w, j>> \in late => i = j

\* A terminal lifecycle state is final: no late pause, resume, cancel or
\* worker moves the execution out of it.
TerminalIsFinal == [][(state \in Terminal) => (state' = state)]_vars

\* The pool drains: run_pool returns unless the operator keeps the execution
\* paused for ever, or pauses it again and again.
PoolReturns == (<>[]~paused) => <>(main = "returned")

\* Cancelling alone is enough for run_pool to return: workers read the
\* cancelled event before the paused one, so no pause can hold them.
CancelReturns == cancelled ~> (main = "returned")

\* run_pool returns: when the operator eventually leaves the pool unpaused, and
\* in any case after a cancel, also one that races a pause.
PoolWindsDown ==
    /\ PoolReturns
    /\ CancelReturns

============================================================================
