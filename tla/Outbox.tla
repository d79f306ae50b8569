------------------------------- MODULE Outbox -------------------------------
(***************************************************************************)
(* The notification delivery outbox: DeliveryOutbox of                     *)
(* src/founderos_atlas/notification_delivery.py.                           *)
(*                                                                         *)
(* Callers enqueue messages; dispatchers deliver the due ones.  A          *)
(* dispatcher reads the due messages before it takes the lock that all     *)
(* handles of one process share, calls the providers one message at a time *)
(* and writes all results in one replacement of the file at the end.  Time *)
(* is kept as minutes left to the next attempt.                            *)
(***************************************************************************)
EXTENDS Integers, FiniteSets, SequencesExt

CONSTANTS
    Keys,           \* idempotency keys: action, provider and destination
    Dispatchers,    \* threads that call dispatch
    MaxAttempts,    \* max_attempts
    MaxKept,        \* max_messages
    BatchLimit,     \* batch_limit
    MaxIssued,      \* bound: messages ever enqueued
    MaxStumbles     \* bound: stale due lists taken up and deaths of the process

ASSUME OutboxAssumption ==
    /\ {MaxAttempts, MaxKept, BatchLimit} \subseteq Nat \ {0}
    /\ {MaxIssued, MaxStumbles} \subseteq Nat
    /\ "none" \notin Dispatchers

VARIABLES
    outbox,      \* the messages of the file, oldest first
    issued,      \* how many messages were enqueued; the last one's id
    outboxLock,  \* the dispatcher that holds the lock
    sender,      \* dispatcher -> [pc, due, age, results]
    stumbles,    \* stale due lists taken up and deaths of the process
    tries,       \* history: id -> how often a provider was called for it
    sent,        \* history: id -> how often a provider accepted it
    slips        \* history: id -> calls made on a stale record or not recorded

outboxVars == <<outbox, issued, outboxLock, sender, stumbles, tries, sent, slips>>

NoSender == "none"
Resting == [pc |-> "resting", due |-> <<>>, age |-> 0, results |-> <<>>]

\* The statuses that make enqueue refuse a key.
Live == {"pending", "retry", "delivered"}

\* 2 ** (attempt - 1) minutes.
Backoff(attempt) == 2 ^ (attempt - 1)

LongestWait == IF MaxAttempts = 1 THEN 0 ELSE Backoff(MaxAttempts - 1)

\* A fact of arithmetic: powers of two grow.
ASSUME BackoffGrows == \A attempt \in 1 .. MaxAttempts - 1 : Backoff(attempt) \in 0 .. LongestWait

OutboxInit ==
    /\ outbox = <<>>
    /\ issued = 0
    /\ outboxLock = NoSender
    /\ sender = [d \in Dispatchers |-> Resting]
    /\ stumbles = 0
    /\ tries = [i \in 1 .. MaxIssued |-> 0]
    /\ sent = [i \in 1 .. MaxIssued |-> 0]
    /\ slips = [i \in 1 .. MaxIssued |-> 0]

\* messages[-max_messages:], as _write cuts the list.
NewestKept(messages) ==
    SubSeq(messages, Len(messages) - (IF Len(messages) < MaxKept THEN Len(messages) ELSE MaxKept) + 1,
           Len(messages))

\* Mutant: only undelivered messages make a key busy.
BusyUndelivered(k) == \E i \in DOMAIN outbox : outbox[i].key = k /\ outbox[i].status \in {"pending", "retry"}

\* A message with this key is on its way or has arrived.
Busy(k) == \E i \in DOMAIN outbox : outbox[i].key = k /\ outbox[i].status \in Live

Enqueue(k) ==
    /\ outboxLock = NoSender
    /\ issued < MaxIssued
    /\ ~Busy(k)
    /\ issued' = issued + 1
    /\ outbox' = NewestKept(Append(outbox,
         [id |-> issued + 1, key |-> k, status |-> "pending", attempts |-> 0, wait |-> 0]))
    /\ UNCHANGED <<outboxLock, sender, stumbles, tries, sent, slips>>

---------------------------------------------------------------------------
(* dispatch                                                                *)

\* pending: where the due messages are in the file, which keeps the order in
\* which they were created.
Pending ==
    {i \in DOMAIN outbox : \/ outbox[i].status = "pending"
                           \/ outbox[i].status = "retry" /\ outbox[i].wait = 0}

\* at enumerates the oldest places of Pending, as many as a batch takes.
IsBatch(at) ==
    /\ \A i, j \in DOMAIN at : i < j => at[i] < at[j]
    /\ \A p \in Pending : \/ \E i \in DOMAIN at : at[i] = p
                          \/ Len(at) = BatchLimit /\ at[BatchLimit] < p

\* The due list is computed from the file, without the lock.
Look(d) ==
    /\ sender[d].pc = "resting"
    /\ \E n \in 1 .. BatchLimit : \E at \in [1 .. n -> Pending] :
         /\ IsBatch(at)
         /\ sender' = [sender EXCEPT ![d] =
              [Resting EXCEPT !.pc = "looked", !.due = [i \in 1 .. n |-> outbox[at[i]]]]]
    /\ UNCHANGED <<outbox, issued, outboxLock, stumbles, tries, sent, slips>>

\* The records of the due list that are no longer what the file holds.
Stale(due) == {m.id : m \in {x \in ToSet(due) : x \notin ToSet(outbox)}}

\* The lock is taken and the file read again; the due list is not.
Take(d) ==
    /\ sender[d].pc = "looked"
    /\ outboxLock = NoSender
    /\ stumbles < MaxStumbles \/ Stale(sender[d].due) = {}
    /\ stumbles' = stumbles + (IF Stale(sender[d].due) = {} THEN 0 ELSE 1)
    /\ outboxLock' = d
    /\ sender' = [sender EXCEPT ![d].pc = "sending"]
    /\ slips' = [i \in 1 .. MaxIssued |->
                   slips[i] + (IF i \in Stale(sender[d].due) THEN 1 ELSE 0)]
    /\ UNCHANGED <<outbox, issued, tries, sent>>

Recorded(d, m) ==
    sender' = [sender EXCEPT ![d].due = Tail(@), ![d].results = Append(@, m)]

\* The provider of the next message is missing or not available.
Unavailable(d) ==
    LET m == Head(sender[d].due) IN
    /\ sender[d].pc = "sending"
    /\ sender[d].due # <<>>
    /\ Recorded(d, [m EXCEPT !.status = "failed", !.attempts = @ + 1])
    /\ UNCHANGED <<outbox, issued, outboxLock, stumbles, tries, sent, slips>>

\* Mutant: only failures are recorded.
AcceptedUnrecorded(d) ==
    LET m == Head(sender[d].due) IN
    /\ sender[d].pc = "sending"
    /\ sender[d].due # <<>>
    /\ sender' = [sender EXCEPT ![d].due = Tail(@)]
    /\ tries' = [tries EXCEPT ![m.id] = @ + 1]
    /\ sent' = [sent EXCEPT ![m.id] = @ + 1]
    /\ UNCHANGED <<outbox, issued, outboxLock, stumbles, slips>>

\* The provider accepts the next message.
Accepted(d) ==
    LET m == Head(sender[d].due) IN
    /\ sender[d].pc = "sending"
    /\ sender[d].due # <<>>
    /\ Recorded(d, [m EXCEPT !.status = "delivered", !.attempts = @ + 1, !.wait = 0])
    /\ tries' = [tries EXCEPT ![m.id] = @ + 1]
    /\ sent' = [sent EXCEPT ![m.id] = @ + 1]
    /\ UNCHANGED <<outbox, issued, outboxLock, stumbles, slips>>

\* Mutant: one attempt too many.
AfterFailureOffByOne(m, age) ==
    LET attempt == m.attempts + 1 IN
    IF attempt > MaxAttempts
      THEN [m EXCEPT !.status = "failed", !.attempts = attempt, !.wait = 0]
      ELSE [m EXCEPT !.status = "retry", !.attempts = attempt, !.wait = 1]

\* The record of a message whose provider raised: retried with exponential
\* backoff, counted from the moment dispatch was called, or given up.
AfterFailure(m, age) ==
    LET attempt == m.attempts + 1 IN
    IF attempt >= MaxAttempts
      THEN [m EXCEPT !.status = "failed", !.attempts = attempt, !.wait = 0]
      ELSE [m EXCEPT !.status = "retry", !.attempts = attempt,
                     !.wait = IF Backoff(attempt) > age THEN Backoff(attempt) - age ELSE 0]

Refused(d) ==
    LET m == Head(sender[d].due) IN
    /\ sender[d].pc = "sending"
    /\ sender[d].due # <<>>
    /\ Recorded(d, AfterFailure(m, sender[d].age))
    /\ tries' = [tries EXCEPT ![m.id] = @ + 1]
    /\ UNCHANGED <<outbox, issued, outboxLock, stumbles, sent, slips>>

\* replacements.get(item.message_id, item)
ResultFor(d, m) ==
    LET found == {r \in ToSet(sender[d].results) : r.id = m.id}
    IN IF found = {} THEN m ELSE CHOOSE r \in found : TRUE

\* Mutant: only the messages of the batch are written back.
WriteResultsOfBatch(d) ==
    /\ sender[d].pc = "sending"
    /\ sender[d].due = <<>>
    /\ outbox' = sender[d].results
    /\ outboxLock' = NoSender
    /\ sender' = [sender EXCEPT ![d] = Resting]
    /\ UNCHANGED <<issued, stumbles, tries, sent, slips>>

\* Every result is written, in one replacement of the file.
WriteResults(d) ==
    /\ sender[d].pc = "sending"
    /\ sender[d].due = <<>>
    /\ outbox' = NewestKept([i \in DOMAIN outbox |-> ResultFor(d, outbox[i])])
    /\ outboxLock' = NoSender
    /\ sender' = [sender EXCEPT ![d] = Resting]
    /\ UNCHANGED <<issued, stumbles, tries, sent, slips>>

---------------------------------------------------------------------------
\* A minute later the next attempts are a minute closer.
Older(messages) ==
    [i \in DOMAIN messages |-> [messages[i] EXCEPT !.wait = IF @ > 0 THEN @ - 1 ELSE 0]]

\* A minute passes.
Minute ==
    /\ \/ \E i \in DOMAIN outbox : outbox[i].wait > 0
       \/ \E d \in Dispatchers : sender[d].pc # "resting" /\ sender[d].age < LongestWait
    /\ outbox' = Older(outbox)
    /\ sender' = [d \in Dispatchers |->
         IF sender[d].pc = "resting" THEN sender[d]
         ELSE [sender[d] EXCEPT !.age = IF @ < LongestWait THEN @ + 1 ELSE @,
                                !.results = Older(@)]]
    /\ UNCHANGED <<issued, outboxLock, stumbles, tries, sent, slips>>

\* The process dies: the results nobody wrote are lost.
ProcessEnds ==
    /\ stumbles < MaxStumbles
    /\ stumbles' = stumbles + 1
    /\ sender' = [d \in Dispatchers |-> Resting]
    /\ outboxLock' = NoSender
    /\ slips' = [i \in 1 .. MaxIssued |->
         slips[i] + Cardinality({d \in Dispatchers :
                      \E m \in ToSet(sender[d].results) : m.id = i})]
    /\ UNCHANGED <<outbox, issued, tries, sent>>

OutboxNext ==
    \/ \E k \in Keys : Enqueue(k)
    \/ \E d \in Dispatchers :
         \/ Look(d) \/ Take(d)
         \/ Unavailable(d) \/ Accepted(d) \/ Refused(d)
         \/ WriteResults(d)
    \/ Minute
    \/ ProcessEnds

OutboxSpec == OutboxInit /\ [][OutboxNext]_outboxVars

---------------------------------------------------------------------------
(* Properties.                                                             *)

Message == [id : 1 .. MaxIssued, key : Keys, status : Live \cup {"failed"},
            attempts : 0 .. MaxAttempts, wait : 0 .. LongestWait]

\* The types of the outbox, of the dispatchers and of the counters.
OutboxTypeOK ==
    /\ outbox \in Seq(Message)
    /\ issued \in 0 .. MaxIssued
    /\ outboxLock \in Dispatchers \cup {NoSender}
    /\ \A d \in Dispatchers :
         /\ sender[d].pc \in {"resting", "looked", "sending"}
         /\ sender[d].due \in Seq(Message)
         /\ sender[d].results \in Seq(Message)
         /\ sender[d].age \in 0 .. LongestWait

\* No message is forgotten and none comes back, whatever dispatchers write
\* while others enqueue: the file holds exactly the newest messages, in order.
OutboxKeepsNewest ==
    /\ Len(outbox) = IF issued < MaxKept THEN issued ELSE MaxKept
    /\ \A i \in DOMAIN outbox : outbox[i].id = issued - Len(outbox) + i

\* A message is delivered once, and once more only for each time that its
\* record was stale when a dispatcher took the lock, or its result was lost
\* with the process.
OutboxDeliveriesExplained == \A i \in 1 .. issued : sent[i] <= 1 + slips[i]

\* max_attempts bounds the calls of the provider; each of those exceptions may
\* rewind the count of attempts, and starts it again at most once.
OutboxTriesBounded == \A i \in 1 .. issued : tries[i] <= MaxAttempts * (1 + slips[i])

\* Without those exceptions the record tells the truth: a message that no
\* dispatcher is working on is marked delivered exactly when it was accepted.
OutboxRecordIsTrue ==
    \A i \in DOMAIN outbox :
      LET m == outbox[i] IN
      /\ slips[m.id] = 0
      /\ \A d \in Dispatchers : \A r \in ToSet(sender[d].results) : r.id # m.id
      => (m.status = "delivered" <=> sent[m.id] > 0)

\* A key has at most one message that is on its way or has arrived.
OutboxOneLivePerKey ==
    (\A i \in 1 .. MaxIssued : slips[i] = 0) =>
      \A i, j \in DOMAIN outbox :
        /\ outbox[i].key = outbox[j].key
        /\ outbox[i].status \in Live
        /\ outbox[j].status \in Live
        => i = j

\* The file of messages tells the truth: the newest ones, one live message per
\* key, delivered when they were.
OutboxSound ==
    /\ OutboxTypeOK
    /\ OutboxKeepsNewest
    /\ OutboxRecordIsTrue
    /\ OutboxOneLivePerKey

\* Every call of a provider has a reason: a first attempt, a retry, or a record
\* that was stale or lost.
OutboxSends ==
    /\ OutboxDeliveriesExplained
    /\ OutboxTriesBounded

=============================================================================
