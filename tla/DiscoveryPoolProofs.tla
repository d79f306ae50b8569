------------------------ MODULE DiscoveryPoolProofs ------------------------
(***************************************************************************)
(* For every number of worker threads and every candidate list: the safety *)
(* properties of DiscoveryPool, from one inductive invariant.              *)
(***************************************************************************)
EXTENDS DiscoveryPool, TLAPS

\* The address was given to a worker.
Handed(a) == \E i \in PendingAt : i <= cursor /\ Addresses[i] = a

\* The address is being processed.
InFlight(a) == \E w \in Workers : pc[w] = "busy" /\ holds[w] = a

Final == Failures \cup {"discovered"}

\* The queue: what was handed out was handed out once, and a busy worker
\* holds something handed out, not yet recorded, that no other worker holds.
QueueInv ==
    /\ \A a \in Candidates : attempts[a] = IF Handed(a) THEN 1 ELSE 0
    /\ \A w \in Workers :
         IF pc[w] = "busy"
           THEN holds[w] \in Pending /\ Handed(holds[w]) /\ holds[w] \notin recorded
           ELSE holds[w] = None
    /\ \A v, w \in Workers :
         v # w /\ pc[v] = "busy" /\ pc[w] = "busy" => holds[v] # holds[w]

\* The books: nothing handed out is lost, and outcomes, results and completed
\* agree about what was recorded.
BooksInv ==
    /\ \A a \in Pending : Handed(a) => a \in recorded \/ InFlight(a)
    /\ \A a \in recorded : Handed(a)
    /\ \A a \in Pending : a \in recorded <=> outcomes[a] \in Final
    /\ \A a \in Pending : a \in results <=> outcomes[a] = "discovered"
    /\ completed = Completed \cup results

\* The threads: where main is bounds where the workers are, and a worker that
\* left without being cancelled left a drained queue.
ControlInv ==
    /\ main \in {"start", "inventory", "deep", "look", "run", "spawn"} =>
         \A w \in Workers : pc[w] = "unborn"
    /\ main \in {"to cancelled", "to completed", "returned"} =>
         \A w \in Workers : pc[w] = "exited"
    /\ ~cancelled => \A w \in Workers : pc[w] = "exited" => Left = {}
    /\ main = "to completed" => Left = {}
    /\ state = "completed" => Left = {} /\ main = "returned"

\* The history of late dequeues: a worker that may still dequeue has not done
\* so since the last pause or cancel.
LateInv ==
    /\ AtMostOneLate
    /\ paused => \A w \in Workers, i \in PendingAt :
                   pc[w] = "take" => <<w, i>> \notin late
    /\ cancelled => \A w \in Workers, i \in PendingAt :
                      pc[w] \in {"pause?", "take"} => <<w, i>> \notin late

IndInv == TypeOK /\ QueueInv /\ BooksInv /\ ControlInv /\ LateInv

---------------------------------------------------------------------------
(* The list.                                                               *)

\* Queue positions are list positions, a pending address is a candidate that
\* was not completed, and it has exactly one queue position.
LEMMA ListFacts ==
    /\ PendingAt \subseteq 1 .. Len(Addresses)
    /\ Len(Addresses) \in Nat
    /\ \A i \in PendingAt : Addresses[i] \in Pending
    /\ Pending \subseteq Candidates
    /\ Pending \cap Completed = {}
    /\ None \notin Pending
    /\ \A i, j \in PendingAt : Addresses[i] = Addresses[j] => i = j
<1>1. /\ Len(Addresses) \in Nat
      /\ DOMAIN Addresses = 1 .. Len(Addresses)
      /\ \A i \in 1 .. Len(Addresses) : Addresses[i] \in Candidates
  BY PoolAssumption
<1>2. PendingAt \subseteq 1 .. Len(Addresses)
  BY <1>1 DEF PendingAt, FirstAt
<1>3. \A i, j \in PendingAt : Addresses[i] = Addresses[j] => i = j
  <2> SUFFICES ASSUME NEW i \in PendingAt, NEW j \in PendingAt, i < j
               PROVE  Addresses[i] # Addresses[j]
    BY <1>1, <1>2
  <2>1. i \in 1 .. (j - 1)
    BY <1>1, <1>2
  <2> QED
    BY <2>1 DEF PendingAt, FirstAt
<1>4. Pending \subseteq Candidates /\ Pending \cap Completed = {}
  BY <1>1, <1>2 DEF Pending, PendingAt
<1>5. None \notin Pending
  BY <1>4, PoolAssumption DEF None
<1> QED
  BY <1>1, <1>2, <1>3, <1>4, <1>5 DEF Pending

\* What dequeuing position i changes: exactly Addresses[i], which had not been
\* handed out, becomes handed out.
LEMMA DequeueFacts ==
    ASSUME cursor \in 0 .. Len(Addresses), NEW i \in PendingAt, IsNextAt(i),
           cursor' = i
    PROVE  /\ ~Handed(Addresses[i])
           /\ Handed(Addresses[i])'
           /\ \A a : a # Addresses[i] => (Handed(a)' <=> Handed(a))
           /\ cursor < i
<1>1. /\ cursor < i
      /\ \A j \in PendingAt : j > cursor => i <= j
  BY DEF IsNextAt, Left
<1>2. /\ PendingAt \subseteq Int
      /\ cursor \in Int
  BY ListFacts
<1>3. ~Handed(Addresses[i])
  BY <1>1, <1>2, ListFacts DEF Handed
<1>4. Handed(Addresses[i])'
  BY <1>2 DEF Handed
<1>5. ASSUME NEW a, a # Addresses[i]
      PROVE  Handed(a)' <=> Handed(a)
  BY <1>1, <1>2, <1>5 DEF Handed
<1> QED
  BY <1>1, <1>3, <1>4, <1>5

LEMMA HandedUnchanged ==
    ASSUME UNCHANGED cursor
    PROVE  (\A a : Handed(a)' <=> Handed(a)) /\ Left' = Left
  BY DEF Handed, Left

LEMMA InitInd == Init => IndInv
<1> SUFFICES ASSUME Init PROVE IndInv
  OBVIOUS
<1> USE DEF Init
<1>1. TypeOK
  <2>1. outcomes \in [Completed \cup Pending -> Outcomes]
    BY DEF Outcomes
  <2>2. cursor \in 0 .. Len(Addresses)
    BY ListFacts
  <2>3. /\ pc \in [Workers -> WorkerLocations]
        /\ holds \in [Workers -> Pending \cup {None}]
        /\ attempts \in [Candidates -> Nat]
    BY DEF WorkerLocations
  <2>4. state \in States /\ main \in MainLocations
    BY DEF States, MainLocations
  <2> QED
    BY <2>1, <2>2, <2>3, <2>4, Zenon DEF TypeOK
<1>2. \A a : ~Handed(a)
  BY ListFacts DEF Handed
<1>3. QueueInv
  BY <1>2 DEF QueueInv
<1>4. BooksInv
  <2>1. \A a \in Pending : outcomes[a] = "queued"
    BY ListFacts
  <2> QED
    BY <1>2, <2>1 DEF BooksInv, Final, Failures
<1>5. ControlInv
  BY DEF ControlInv
<1>6. LateInv
  BY DEF LateInv, AtMostOneLate
<1> QED
  BY <1>1, <1>3, <1>4, <1>5, <1>6 DEF IndInv

---------------------------------------------------------------------------
(* The steps that leave the queue and the books alone.                     *)

\* pause, resume and cancel.
LEMMA OperatorInd == IndInv /\ Operator => IndInv'
<1> SUFFICES ASSUME IndInv, Operator PROVE IndInv'
  OBVIOUS
<1>0. UNCHANGED <<queueVars, threadVars>>
  BY DEF Operator, Pause, Resume, Cancel
<1>1. TypeOK'
  BY <1>0 DEF IndInv, TypeOK, Operator, Pause, Resume, Cancel, States,
              queueVars, threadVars
<1>2. QueueInv'
  BY <1>0, HandedUnchanged DEF IndInv, QueueInv, queueVars, threadVars
<1>3. BooksInv'
  BY <1>0, HandedUnchanged DEF IndInv, BooksInv, InFlight, queueVars, threadVars
<1>4. ControlInv'
  BY <1>0, HandedUnchanged
     DEF IndInv, ControlInv, Operator, Pause, Resume, Cancel, Pausable,
         queueVars, threadVars
<1>5. LateInv'
  <2>1. CASE Pause
    BY <1>0, <2>1 DEF IndInv, LateInv, AtMostOneLate, Pause, threadVars
  <2>2. CASE Resume
    BY <1>0, <2>2 DEF IndInv, LateInv, AtMostOneLate, Resume, threadVars
  <2>3. CASE Cancel
    BY <1>0, <2>3 DEF IndInv, LateInv, AtMostOneLate, Cancel, threadVars
  <2> QED
    BY <2>1, <2>2, <2>3 DEF Operator
<1> QED
  BY <1>1, <1>2, <1>3, <1>4, <1>5 DEF IndInv

\* The thread in run_pool: it moves the lifecycle and starts the workers.
LEMMA MainInd == IndInv /\ Main => IndInv'
<1> SUFFICES ASSUME IndInv, Main PROVE IndInv'
  OBVIOUS
<1>0. UNCHANGED <<queueVars, holds, paused, cancelled, late>>
  BY DEF Main, Starting, Inventory, Deep, Look, Run, Spawn, Join, Finish
<1>1. state' \in States
  BY DEF IndInv, TypeOK, Main, Starting, Inventory, Deep, Look, Run, Spawn,
         Join, Finish, Transition, States
<1>2. TypeOK'
  <2>1. main' \in MainLocations
    BY DEF Main, Starting, Inventory, Deep, Look, Run, Spawn, Join, Finish,
           MainStep, MainLocations
  <2>2. pc' \in [Workers -> WorkerLocations]
    BY DEF IndInv, TypeOK, Main, Starting, Inventory, Deep, Look, Run, Spawn,
           Join, Finish, WorkerLocations
  <2> QED
    BY <1>0, <1>1, <2>1, <2>2 DEF IndInv, TypeOK, queueVars
<1>3. \A w \in Workers : /\ pc'[w] = "busy" <=> pc[w] = "busy"
                         /\ pc'[w] = pc[w] \/ pc'[w] = "cancel?"
  BY DEF IndInv, ControlInv, TypeOK, Main, Starting, Inventory, Deep, Look,
         Run, Spawn, Join, Finish, MainStep
<1>4. QueueInv'
  BY <1>0, <1>3, HandedUnchanged DEF IndInv, QueueInv, queueVars
<1>5. BooksInv'
  BY <1>0, <1>3, HandedUnchanged DEF IndInv, BooksInv, InFlight, queueVars
<1>6. ControlInv'
  <2>0. Left' = Left /\ cancelled' = cancelled
    BY <1>0, HandedUnchanged DEF queueVars
  <2>1. CASE Starting \/ Inventory \/ Deep \/ Look \/ Run
    BY <2>0, <2>1
       DEF IndInv, ControlInv, Starting, Inventory, Deep, Look, Run, MainStep,
           Transition, CanTransition
  <2>2. CASE Spawn
    BY <2>0, <2>2 DEF IndInv, ControlInv, Spawn, MainStep
  <2>3. CASE Join
    <3>1. UNCHANGED <<state, pc>> /\ (main' = "to completed" => ~cancelled)
      BY <2>3 DEF Join, MainStep
    <3>2. \A w \in Workers : pc[w] = "exited"
      BY <2>3 DEF Join
    <3>3. main' \in {"to cancelled", "to completed"} /\ main = "join"
      BY <2>3 DEF Join, MainStep
    <3>4. ~cancelled => Left = {}
      BY <3>2, PoolAssumption, Zenon DEF IndInv, ControlInv
    <3> QED
      BY <2>0, <3>1, <3>2, <3>3, <3>4 DEF IndInv, ControlInv
  <2>4. CASE Finish
    BY <2>0, <2>4 DEF IndInv, ControlInv, Finish, MainStep, Transition
  <2> QED
    BY <2>1, <2>2, <2>3, <2>4 DEF Main
<1>7. LateInv'
  BY <1>0, <1>3 DEF IndInv, LateInv, AtMostOneLate
<1> QED
  BY <1>2, <1>4, <1>5, <1>6, <1>7 DEF IndInv

---------------------------------------------------------------------------
(* The worker threads.                                                     *)

\* A worker that looks at an event or finds the queue drained moves only its
\* own program counter, and neither from nor to busy.
LEMMA LookInd ==
    ASSUME IndInv, NEW w \in Workers, CheckCancel(w) \/ CheckPause(w) \/ Drained(w)
    PROVE  IndInv'
<1>0. /\ UNCHANGED <<state, paused, cancelled, queueVars, main, holds, late>>
      /\ pc \in [Workers -> WorkerLocations]
      /\ pc' = [pc EXCEPT ![w] = pc'[w]]
      /\ pc[w] \in {"cancel?", "pause?", "take"}
      /\ pc'[w] \in {"cancel?", "pause?", "take", "exited"}
  BY DEF IndInv, TypeOK, CheckCancel, CheckPause, Drained, Goto
<1>1. TypeOK'
  BY <1>0 DEF IndInv, TypeOK, queueVars, WorkerLocations
<1>2. \A v \in Workers : pc'[v] = "busy" <=> pc[v] = "busy"
  BY <1>0
<1>3. QueueInv'
  BY <1>0, <1>2, HandedUnchanged DEF IndInv, QueueInv, queueVars
<1>4. BooksInv'
  BY <1>0, <1>2, HandedUnchanged DEF IndInv, BooksInv, InFlight, queueVars
<1>5. ControlInv'
  <2>1. main = "join" \/ main \in {"start", "inventory", "deep", "look", "run", "spawn",
                                   "to cancelled", "to completed", "returned"}
    BY DEF IndInv, TypeOK, MainLocations
  <2>2. main = "join"
    BY <1>0, <2>1 DEF IndInv, ControlInv
  <2>3. ~cancelled /\ pc'[w] = "exited" => Left = {}
    BY <1>0 DEF CheckCancel, CheckPause, Drained, Goto
  <2> QED
    BY <1>0, <2>2, <2>3, HandedUnchanged DEF IndInv, ControlInv, queueVars
<1>6. LateInv'
  <2>1. pc'[w] = "take" => ~paused /\ pc[w] = "pause?"
    BY <1>0 DEF CheckCancel, CheckPause, Drained, Goto
  <2>2. pc'[w] = "pause?" => ~cancelled
    BY <1>0 DEF CheckCancel, CheckPause, Drained, Goto
  <2> QED
    BY <1>0, <2>1, <2>2 DEF IndInv, LateInv, AtMostOneLate
<1> QED
  BY <1>1, <1>3, <1>4, <1>5, <1>6 DEF IndInv

\* A worker dequeues the next candidate.
LEMMA TakeInd ==
    ASSUME IndInv, NEW w \in Workers, Take(w)
    PROVE  IndInv'
<1> PICK i \in PendingAt :
      /\ IsNextAt(i)
      /\ Goto(w, "take", "busy")
      /\ cursor' = i
      /\ outcomes' = [outcomes EXCEPT ![Addresses[i]] = "running"]
      /\ holds' = [holds EXCEPT ![w] = Addresses[i]]
      /\ attempts' = [attempts EXCEPT ![Addresses[i]] = @ + 1]
      /\ late' = late \cup {<<w, i>>}
      /\ UNCHANGED <<state, paused, cancelled, completed, results, recorded,
                     main>>
  BY DEF Take
<1> DEFINE a == Addresses[i]
<1>0. /\ pc \in [Workers -> WorkerLocations]
      /\ pc[w] = "take"
      /\ pc' = [pc EXCEPT ![w] = "busy"]
      /\ holds \in [Workers -> Pending \cup {None}]
      /\ attempts \in [Candidates -> Nat]
      /\ outcomes \in [Completed \cup Pending -> Outcomes]
      /\ recorded \subseteq Pending
      /\ cursor \in 0 .. Len(Addresses)
  BY DEF IndInv, TypeOK, Goto
<1>1. a \in Pending /\ a \in Candidates /\ a # None
  BY ListFacts
<1>2. /\ ~Handed(a)
      /\ Handed(a)'
      /\ \A b : b # a => (Handed(b)' <=> Handed(b))
      /\ cursor < i
  BY <1>0, DequeueFacts
<1>3. a \notin recorded
  BY <1>2 DEF IndInv, BooksInv
<1>4. TypeOK'
  <2>1. cursor' \in 0 .. Len(Addresses)
    BY ListFacts
  <2>2. outcomes' \in [Completed \cup Pending -> Outcomes]
    BY <1>0 DEF Outcomes
  <2>3. /\ pc' \in [Workers -> WorkerLocations]
        /\ holds' \in [Workers -> Pending \cup {None}]
        /\ attempts' \in [Candidates -> Nat]
    BY <1>0, <1>1 DEF WorkerLocations
  <2> QED
    BY <2>1, <2>2, <2>3 DEF IndInv, TypeOK
<1>5. QueueInv'
  <2>1. \A b \in Candidates : attempts'[b] = IF Handed(b)' THEN 1 ELSE 0
    BY <1>0, <1>1, <1>2 DEF IndInv, QueueInv
  <2>2. \A v \in Workers : v # w /\ pc[v] = "busy" => holds[v] # a
    BY <1>2 DEF IndInv, QueueInv
  <2>3. \A v \in Workers :
          IF pc'[v] = "busy"
            THEN /\ holds'[v] \in Pending
                 /\ Handed(holds[v])' \/ v = w
                 /\ holds'[v] \notin recorded'
            ELSE holds'[v] = None
    BY <1>0, <1>1, <1>2, <1>3 DEF IndInv, QueueInv
  <2>4. \A v \in Workers : pc'[v] = "busy" => Handed(holds[v])' \/ v = w
    BY <2>3
  <2>5. \A v \in Workers : holds'[v] = IF v = w THEN a ELSE holds[v]
    BY <1>0
  <2>6. \A u, v \in Workers :
          u # v /\ pc'[u] = "busy" /\ pc'[v] = "busy" => holds'[u] # holds'[v]
    BY <1>0, <2>2, <2>5 DEF IndInv, QueueInv
  <2>7. ASSUME NEW v \in Workers, pc'[v] = "busy"
        PROVE  Handed(holds[v])'
    <3>1. CASE v = w
      BY <3>1, <2>5, <1>2 DEF Handed
    <3>2. CASE v # w
      BY <3>2, <2>5, <2>4, <2>7 DEF Handed
    <3> QED
      BY <3>1, <3>2
  <2> QED
    BY <2>1, <2>3, <2>6, <2>7 DEF QueueInv
<1>6. BooksInv'
  <2>1. \A b \in Pending : Handed(b)' => b \in recorded' \/ InFlight(b)'
    <3> SUFFICES ASSUME NEW b \in Pending, Handed(b)', b \notin recorded
                 PROVE  InFlight(b)'
      OBVIOUS
    <3>1. CASE b = a
      BY <3>1, <1>0 DEF InFlight
    <3>2. CASE b # a
      <4>1. InFlight(b)
        BY <3>2, <1>2 DEF IndInv, BooksInv
      <4>2. PICK v \in Workers : pc[v] = "busy" /\ holds[v] = b
        BY <4>1 DEF InFlight
      <4> QED
        BY <4>2, <1>0 DEF InFlight
    <3> QED
      BY <3>1, <3>2
  <2>2. \A b \in recorded' : Handed(b)'
    BY <1>2, <1>3 DEF IndInv, BooksInv
  <2>3. /\ \A b \in Pending : b \in recorded' <=> outcomes'[b] \in Final
        /\ \A b \in Pending : b \in results' <=> outcomes'[b] = "discovered"
    BY <1>0, <1>1, <1>3 DEF IndInv, BooksInv, Final, Failures
  <2> QED
    BY <2>1, <2>2, <2>3 DEF IndInv, BooksInv
<1>7. ControlInv'
  <2>1. main = "join"
    BY <1>0 DEF IndInv, TypeOK, MainLocations, ControlInv
  <2>2. Left # {}
    BY DEF IsNextAt
  <2>3. state # "completed" /\ (~cancelled => \A v \in Workers : pc[v] # "exited")
    BY <2>2 DEF IndInv, ControlInv
  <2> QED
    BY <1>0, <2>1, <2>3 DEF ControlInv
<1>8. LateInv'
  BY <1>0 DEF IndInv, LateInv, AtMostOneLate
<1> QED
  BY <1>4, <1>5, <1>6, <1>7, <1>8 DEF IndInv

\* A worker records what came of its candidate.
LEMMA RecordInd ==
    ASSUME IndInv, NEW w \in Workers, NEW outcome \in Final, Record(w, outcome)
    PROVE  IndInv'
<1> DEFINE a == holds[w]
<1>0. /\ pc \in [Workers -> WorkerLocations]
      /\ pc[w] = "busy"
      /\ pc' = [pc EXCEPT ![w] = "cancel?"]
      /\ holds \in [Workers -> Pending \cup {None}]
      /\ holds' = [holds EXCEPT ![w] = None]
      /\ outcomes \in [Completed \cup Pending -> Outcomes]
      /\ outcomes' = [outcomes EXCEPT ![a] = outcome]
      /\ recorded' = recorded \cup {a}
      /\ results' = IF outcome = "discovered" THEN results \cup {a} ELSE results
      /\ completed' = IF outcome = "discovered" THEN completed \cup {a} ELSE completed
      /\ UNCHANGED <<state, paused, cancelled, cursor, main, attempts, late>>
  BY DEF IndInv, TypeOK, Record, Goto
<1>1. a \in Pending /\ Handed(a) /\ a \notin recorded
  BY <1>0 DEF IndInv, QueueInv
<1>2. a \notin results
  BY <1>1 DEF IndInv, BooksInv, Final
<1>3. TypeOK'
  <2>1. outcomes' \in [Completed \cup Pending -> Outcomes]
    BY <1>0, <1>1 DEF Final, Failures, Outcomes
  <2>2. /\ pc' \in [Workers -> WorkerLocations]
        /\ holds' \in [Workers -> Pending \cup {None}]
    BY <1>0 DEF WorkerLocations
  <2>3. /\ recorded' \subseteq Pending
        /\ results' \subseteq Pending
        /\ completed' \subseteq Completed \cup Pending
    BY <1>0, <1>1 DEF IndInv, TypeOK
  <2> QED
    BY <1>0, <2>1, <2>2, <2>3 DEF IndInv, TypeOK
<1>4. \A v \in Workers : v # w /\ pc[v] = "busy" => holds[v] # a
  BY <1>0 DEF IndInv, QueueInv
<1>5. QueueInv'
  BY <1>0, <1>4, HandedUnchanged DEF IndInv, QueueInv
<1>6. BooksInv'
  <2>1. \A b \in Pending : Handed(b)' => b \in recorded' \/ InFlight(b)'
    <3> SUFFICES ASSUME NEW b \in Pending, Handed(b), b \notin recorded, b # a
                 PROVE  InFlight(b)'
      BY <1>0, HandedUnchanged
    <3>1. PICK v \in Workers : pc[v] = "busy" /\ holds[v] = b
      BY DEF IndInv, BooksInv, InFlight
    <3> QED
      BY <3>1, <1>0 DEF InFlight
  <2>2. \A b \in recorded' : Handed(b)'
    BY <1>0, <1>1, HandedUnchanged DEF IndInv, BooksInv
  <2>3. \A b \in Pending : outcomes'[b] = IF b = a THEN outcome ELSE outcomes[b]
    BY <1>0, <1>1
  <2>4. \A b \in Pending : b \in recorded' <=> outcomes'[b] \in Final
    BY <1>0, <2>3 DEF IndInv, BooksInv
  <2>5. \A b \in Pending : b \in results' <=> outcomes'[b] = "discovered"
    BY <1>0, <1>2, <2>3 DEF IndInv, BooksInv
  <2>6. completed' = Completed \cup results'
    BY <1>0 DEF IndInv, BooksInv
  <2> QED
    BY <2>1, <2>2, <2>4, <2>5, <2>6 DEF BooksInv
<1>7. ControlInv'
  <2>1. main = "join"
    BY <1>0 DEF IndInv, TypeOK, MainLocations, ControlInv
  <2>2. \A v \in Workers : pc'[v] = "exited" => pc[v] = "exited"
    BY <1>0
  <2> QED
    BY <1>0, <2>1, <2>2, HandedUnchanged DEF IndInv, ControlInv
<1>8. LateInv'
  BY <1>0 DEF IndInv, LateInv, AtMostOneLate
<1> QED
  BY <1>3, <1>5, <1>6, <1>7, <1>8 DEF IndInv

---------------------------------------------------------------------------
(* The theorems.                                                           *)

LEMMA NextInd == IndInv /\ [Next]_vars => IndInv'
<1> SUFFICES ASSUME IndInv, [Next]_vars PROVE IndInv'
  OBVIOUS
<1>1. CASE Main
  BY <1>1, MainInd
<1>2. CASE Operator
  BY <1>2, OperatorInd
<1>3. ASSUME NEW w \in Workers, Worker(w)
      PROVE  IndInv'
  <2>1. CASE CheckCancel(w) \/ CheckPause(w) \/ Drained(w)
    BY <2>1, LookInd
  <2>2. CASE Take(w)
    BY <2>2, TakeInd
  <2>3. CASE \E outcome \in Failures \cup {"discovered"} : Record(w, outcome)
    BY <2>3, RecordInd DEF Final
  <2> QED
    BY <1>3, <2>1, <2>2, <2>3 DEF Worker
<1>4. CASE UNCHANGED vars
  <2>1. TypeOK' /\ LateInv'
    BY <1>4 DEF IndInv, TypeOK, LateInv, AtMostOneLate, vars
  <2>2. QueueInv' /\ BooksInv'
    BY <1>4, HandedUnchanged DEF IndInv, QueueInv, BooksInv, InFlight, vars
  <2>3. ControlInv'
    BY <1>4, HandedUnchanged DEF IndInv, ControlInv, vars
  <2> QED
    BY <2>1, <2>2, <2>3 DEF IndInv
<1> QED
  BY <1>1, <1>2, <1>3, <1>4 DEF Next

THEOREM IndInvHolds == Spec => []IndInv
  BY InitInd, NextInd, PTL DEF Spec

\* The fields of a DiscoveryExecution keep their types, for every pool size
\* and every candidate list.
THEOREM TypesHold == Spec => []TypeOK
<1>1. IndInv => TypeOK
  BY DEF IndInv
<1> QED
  BY <1>1, IndInvHolds, PTL

\* next_address hands out every pending candidate at most once, and no two
\* workers ever process the same one.
THEOREM ProcessedAtMostOnce == Spec => []AtMostOnce
<1>1. IndInv => AtMostOnce
  <2> SUFFICES ASSUME IndInv PROVE AtMostOnce
    OBVIOUS
  <2>1. ASSUME NEW a \in Candidates
        PROVE  attempts[a] <= IF a \in Pending THEN 1 ELSE 0
    <3>1. Handed(a) => a \in Pending
      BY ListFacts DEF Handed
    <3> QED
      BY <3>1 DEF IndInv, QueueInv
  <2>2. \A v, w \in Workers : v # w /\ holds[v] # None => holds[v] # holds[w]
    BY DEF IndInv, QueueInv
  <2> QED
    BY <2>1, <2>2 DEF AtMostOnce
<1> QED
  BY <1>1, IndInvHolds, PTL

\* run_pool reports completed only when every pending candidate was recorded
\* and the results agree with the outcomes.
THEOREM CompletedIsComplete == Spec => []CompletedMeansAll
<1>1. IndInv => CompletedMeansAll
  <2> SUFFICES ASSUME IndInv, state = "completed" PROVE CompletedMeansAll
    BY DEF CompletedMeansAll
  <2>1. Left = {} /\ \A w \in Workers : pc[w] = "exited"
    BY DEF IndInv, ControlInv
  <2>2. \A a : ~InFlight(a)
    BY <2>1 DEF InFlight
  <2>3. \A a \in Pending : Handed(a)
    <3> SUFFICES ASSUME NEW i \in PendingAt PROVE Handed(Addresses[i])
      BY DEF Pending
    <3>1. i \in Int /\ cursor \in Int
      BY ListFacts DEF IndInv, TypeOK
    <3>2. i <= cursor
      BY <2>1, <3>1 DEF Left
    <3> QED
      BY <3>2 DEF Handed
  <2>4. recorded = Pending
    BY <2>2, <2>3 DEF IndInv, BooksInv, TypeOK
  <2> QED
    BY <2>4 DEF IndInv, BooksInv, CompletedMeansAll, Final
<1> QED
  BY <1>1, IndInvHolds, PTL

\* completed_addresses, the seed of a resumed execution, never names a
\* candidate that was not discovered.
THEOREM ResumeSetHonest == Spec => []ResumeSetIsHonest
<1>1. IndInv => ResumeSetIsHonest
  BY ListFacts DEF IndInv, BooksInv, TypeOK, ResumeSetIsHonest
<1> QED
  BY <1>1, IndInvHolds, PTL

\* After pause() or cancel() each worker dequeues at most one candidate.
THEOREM LateDequeuesBounded == Spec => []AtMostOneLate
<1>1. IndInv => AtMostOneLate
  BY DEF IndInv, LateInv
<1> QED
  BY <1>1, IndInvHolds, PTL

\* No call and no thread moves an execution out of a terminal state.
THEOREM TerminalStatesFinal == Spec => TerminalIsFinal
<1>1. [Next]_vars => [(state \in Terminal) => (state' = state)]_vars
  <2> SUFFICES ASSUME Next, state \in Terminal PROVE state' = state
    BY DEF vars
  <2>1. CASE Main
    BY <2>1 DEF Main, Starting, Inventory, Deep, Look, Run, Spawn, Join, Finish,
                Transition, CanTransition, Terminal
  <2>2. CASE Operator
    BY <2>2 DEF Operator, Pause, Resume, Cancel, Pausable, Terminal
  <2>3. ASSUME NEW w \in Workers, Worker(w) PROVE state' = state
    BY <2>3 DEF Worker, CheckCancel, CheckPause, Take, Drained, Record
  <2> QED
    BY <2>1, <2>2, <2>3 DEF Next
<1> QED
  BY <1>1, PTL DEF Spec, TerminalIsFinal

============================================================================
