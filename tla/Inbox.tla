-------------------------------- MODULE Inbox --------------------------------
(***************************************************************************)
(* The action center: NotificationStore of                                 *)
(* src/founderos_atlas/notifications.py, the telemetry collections that    *)
(* report and close conditions in it (telemetry/orchestration.py,          *)
(* telemetry/intelligence.py), the discovery failure hook of web/app.py    *)
(* and the operators' form of web/ops.py.                                  *)
(*                                                                         *)
(* Every operation of the store is one critical section of its lock.  A    *)
(* collection is several of them: it reads the provider's facts, notifies  *)
(* each signal in them and then reconciles.  An operator's form carries    *)
(* the revision of the item as it was displayed.                           *)
(*                                                                         *)
(* A subject is what an item is about: a condition of the network or the   *)
(* discovery failures of a profile.  The dedupe key of a condition holds   *)
(* the digest of the fact, and the digest covers the time of observation:  *)
(* every poll of the network gives the condition another key.              *)
(***************************************************************************)
EXTENDS Integers, SequencesExt

CONSTANTS
    Conditions,   \* what telemetry can report of one scope
    Profiles,     \* whose discoveries can fail
    Collectors,   \* threads that run a telemetry collection
    Operators,    \* people with the inbox open
    Moves,        \* the statuses the operators choose from
    Legacy,       \* conditions whose item, in the first file, has no dedupe key
    MaxItems,     \* MAX_NOTIFICATIONS
    MaxLag,       \* bound: how many polls old a provider's answer may be
    MaxPolls,     \* bound: polls of the network
    MaxWrites     \* bound: writes of the file

VARIABLES
    inbox,        \* the items of the file, oldest first
    polls,        \* what each poll of the network found
    collection,   \* collector -> the collection it runs
    form,         \* operator -> the item as it was displayed
    writes,       \* writes of the file so far
    standing,     \* history: subject -> the poll of the newest evidence for
                  \*   it, 0 when none stands
    heard,        \* history: subject -> the newest poll that was notified of it
    overtaken     \* history: subjects about which an answer came too late

inboxVars == <<inbox, polls, collection, form, writes, standing, heard, overtaken>>

Subjects == Conditions \cup Profiles

\* _TRANSITIONS
Transition ==
    LET close == {"done", "resolved", "suppressed"} IN
    [unread |-> close \cup {"read", "acknowledged", "in_progress", "snoozed"},
     read |-> close \cup {"acknowledged", "in_progress", "unread", "snoozed"},
     acknowledged |-> close \cup {"in_progress", "unread", "snoozed"},
     in_progress |-> close \cup {"acknowledged", "snoozed"},
     snoozed |-> close \cup {"unread", "acknowledged", "in_progress"},
     done |-> {"unread"},
     resolved |-> {"unread"},
     suppressed |-> {"unread"}]

TerminalStatuses == {"done", "resolved", "suppressed"}
ActiveStatuses == DOMAIN Transition \ TerminalStatuses

ASSUME InboxAssumption ==
    /\ Conditions \cap Profiles = {}
    /\ Moves \subseteq DOMAIN Transition
    /\ Legacy \subseteq Conditions /\ IsFiniteSet(Legacy) /\ Cardinality(Legacy) <= MaxItems
    /\ MaxItems \in Nat \ {0}
    /\ MaxLag \in Nat /\ MaxPolls \in Nat /\ MaxWrites \in Nat

\* A dedupe key, without its constant text: the poll is 0 in the key of a
\* profile, and -1 stands for a key of None.
Key(s, poll) == [about |-> s, poll |-> poll]
NoKey(s) == Key(s, -1)

\* `asleep' says that due_at is in the future.
NewItem(id, key) ==
    [id |-> id, key |-> key, status |-> "unread", rev |-> 0,
     recurrences |-> 0, asleep |-> FALSE]

NoForm == [id |-> 0, rev |-> 0]
Resting == [pc |-> "rest", poll |-> 0, told |-> {}, todo |-> {},
            complete |-> FALSE, stale |-> FALSE]

InboxInit ==
    /\ inbox = [i \in 1 .. Cardinality(Legacy) |-> NewItem(-i, NoKey(SetToSeq(Legacy)[i]))]
    /\ polls = <<>>
    /\ collection = [c \in Collectors |-> Resting]
    /\ form = [o \in Operators |-> NoForm]
    /\ writes = 0
    /\ standing = [s \in Subjects |-> 0]
    /\ heard = standing
    /\ overtaken = {}

---------------------------------------------------------------------------
(* The store.                                                              *)

Open(item) == item.status \in ActiveStatuses

\* Mutant: an item that was closed is not found again.
MatchesOpen(item, key) == Open(item) /\ item.key = key

\* An item without a dedupe key is found by its link, which for a condition
\* names its entity and for a profile a job that is over.
Matches(item, key) ==
    \/ item.key = key
    \/ item.key = NoKey(key.about) /\ key.about \in Conditions

\* Mutant: one item too many is kept.
ExcessOffByOne(items) == Max({Len(items) - MaxItems - 1, 0})

\* How many of the oldest items the slice items[-MAX_NOTIFICATIONS:] leaves out.
Excess(items) == Max({Len(items) - MaxItems, 0})

\* _write keeps the newest items, whatever their status.  `evidence' is what
\* stands after the call; a subject whose last open item is pushed out of the
\* file has no evidence left.
Write(items, evidence) ==
    LET cut  == Excess(items)
        kept == SubSeq(items, cut + 1, Len(items))
        PushedOut(s) ==
            /\ \E i \in 1 .. cut : Open(items[i]) /\ items[i].key.about = s
            /\ ~ \E i \in DOMAIN kept : Open(kept[i]) /\ kept[i].key.about = s
    IN  /\ writes < MaxWrites
        /\ writes' = writes + 1
        /\ inbox' = kept
        /\ standing' = [s \in Subjects |-> IF PushedOut(s) THEN 0 ELSE evidence[s]]

\* An open item counts one more occurrence; a closed one is opened again.
Reported(item, key) ==
    IF Open(item)
    THEN [item EXCEPT !.key = key, !.rev = @ + 1]
    ELSE [item EXCEPT !.key = key, !.rev = @ + 1, !.status = "unread",
                      !.recurrences = @ + 1, !.asleep = FALSE]

\* notify.  A report is overtaken when a newer one of its subject came before.
Notify(key) ==
    LET at == SelectInSeq(inbox, LAMBDA item : Matches(item, key))
    IN  /\ Write(IF at # 0 THEN [inbox EXCEPT ![at] = Reported(@, key)]
                           ELSE Append(inbox, NewItem(writes + 1, key)),
                 [standing EXCEPT ![key.about] = Max({@, key.poll, 1})])
        /\ heard' = [heard EXCEPT ![key.about] = Max({@, key.poll})]
        /\ overtaken' = overtaken \cup IF key.poll < heard[key.about] THEN {key.about} ELSE {}

\* Mutant: an item closed by a collection keeps its revision.
ClosedQuietly(item) == [item EXCEPT !.status = "resolved"]

Closed(item) == [item EXCEPT !.status = "resolved", !.rev = @ + 1]

\* reconcile closes an open item of its kind that has a key which is not active.
Absent(item, keys) ==
    /\ item.key.about \in Conditions
    /\ Open(item)
    /\ item.key # NoKey(item.key.about)
    /\ item.key \notin keys

---------------------------------------------------------------------------
(* Telemetry and discovery.                                                *)

\* External: the network is observed, with new times of observation.
Poll(found) ==
    /\ Len(polls) < MaxPolls
    /\ polls' = Append(polls, found)
    /\ UNCHANGED <<inbox, collection, form, writes, standing, heard, overtaken>>

\* collect: the adapter answers with the signals `told' of a poll, all of them
\* if it says that its evidence is complete.  The answer of an earlier poll is
\* stale, and so may that of the last one be.  Only signals are tested for
\* staleness: an answer without one is never stale.
Collect(c, poll, told, complete, stale) ==
    /\ collection[c].pc = "rest"
    /\ complete => told = polls[poll]
    /\ poll < Len(polls) => stale
    /\ collection' = [collection EXCEPT ![c] =
         [pc |-> "notify", poll |-> poll, told |-> told, todo |-> told,
          complete |-> complete, stale |-> stale /\ told # {}]]
    /\ UNCHANGED <<inbox, polls, form, writes, standing, heard, overtaken>>

\* reconcile_action_center: one signal is notified.
NotifySignal(c, s) ==
    /\ collection[c].pc = "notify"
    /\ s \in collection[c].todo
    /\ Notify(Key(s, collection[c].poll))
    /\ collection' = [collection EXCEPT ![c].todo = @ \ {s}]
    /\ UNCHANGED <<polls, form>>

\* An error of the adapter or of the store ends a collection as failed.
CollectFails(c) ==
    /\ collection[c].pc = "notify"
    /\ collection' = [collection EXCEPT ![c] = Resting]
    /\ UNCHANGED <<inbox, polls, form, writes, standing, heard, overtaken>>

\* Mutant: an incomplete answer is evidence too.
ProvesRecoveryAlways(run) == ~run.stale

\* reconcile's early return
ProvesRecovery(run) == run.complete /\ ~run.stale

\* reconcile, after the last signal.  It is overtaken by the newer reports whose
\* items it closes.
Reconcile(c) ==
    LET run  == collection[c]
        keys == {Key(s, run.poll) : s \in run.told}
        gone == {i \in DOMAIN inbox : Absent(inbox[i], keys)}
    IN  /\ run.pc = "notify"
        /\ run.todo = {}
        /\ collection' = [collection EXCEPT ![c] = Resting]
        /\ IF ProvesRecovery(run) /\ gone # {}
           THEN /\ Write([i \in DOMAIN inbox |-> IF i \in gone THEN Closed(inbox[i]) ELSE inbox[i]],
                         [s \in Subjects |->
                            IF run.complete /\ s \in Conditions \ run.told /\ standing[s] <= run.poll
                            THEN 0 ELSE standing[s]])
                /\ overtaken' = overtaken \cup
                     {inbox[i].key.about : i \in {i \in gone : inbox[i].key.poll > run.poll}}
           ELSE UNCHANGED <<inbox, writes, standing, overtaken>>
        /\ UNCHANGED <<polls, form, heard>>

\* _notify_discovery_failure, outside a maintenance window that mutes it
ReportFailure(p) ==
    /\ Notify(Key(p, 0))
    /\ UNCHANGED <<polls, collection, form>>

---------------------------------------------------------------------------
(* Operators.                                                              *)

\* inbox: an item is displayed, with its revision in the form.
OpenForm(o, i) ==
    /\ form[o] = NoForm
    /\ form' = [form EXCEPT ![o] = inbox[i]]
    /\ UNCHANGED <<inbox, polls, collection, writes, standing, heard, overtaken>>

\* for_principal does not list an item that sleeps, so its form is answered
\* with 404.
Listed(item) == ~(item.status = "snoozed" /\ item.asleep)

CurrentForm(o, i) == inbox[i].id = form[o].id /\ inbox[i].rev = form[o].rev

\* set_status
Moved(item, status) ==
    [item EXCEPT !.status = status, !.rev = @ + 1,
                 !.asleep = IF status = "snoozed" THEN TRUE
                            ELSE IF item.status = "snoozed" THEN FALSE ELSE @]

MayMove(o, i, status) ==
    /\ CurrentForm(o, i)
    /\ Listed(inbox[i])
    /\ status = inbox[i].status \/ status \in Transition[inbox[i].status]

\* inbox_update: the form is accepted ...
Submit(o, i, status) ==
    /\ form[o] # NoForm
    /\ MayMove(o, i, status)
    /\ Write([inbox EXCEPT ![i] = Moved(@, status)],
             IF status \in TerminalStatuses
             THEN [standing EXCEPT ![inbox[i].key.about] = 0] ELSE standing)
    /\ form' = [form EXCEPT ![o] = NoForm]
    /\ UNCHANGED <<polls, collection, heard, overtaken>>

\* ... or refused: another revision, no such item, asleep, no such transition.
Refuse(o, status) ==
    /\ form[o] # NoForm
    /\ \A i \in DOMAIN inbox : ~MayMove(o, i, status)
    /\ form' = [form EXCEPT ![o] = NoForm]
    /\ UNCHANGED <<inbox, polls, collection, writes, standing, heard, overtaken>>

\* Time passes: the item's due_at is reached.
Wake(i) ==
    /\ inbox[i].asleep
    /\ inbox' = [inbox EXCEPT ![i].asleep = FALSE]
    /\ UNCHANGED <<polls, collection, form, writes, standing, heard, overtaken>>

InboxNext ==
    \/ \E found \in SUBSET Conditions : Poll(found)
    \/ \E c \in Collectors :
         \/ \E poll \in Max({1, Len(polls) - MaxLag}) .. Len(polls), complete, stale \in BOOLEAN :
              \E told \in SUBSET polls[poll] : Collect(c, poll, told, complete, stale)
         \/ \E s \in Conditions : NotifySignal(c, s)
         \/ CollectFails(c)
         \/ Reconcile(c)
    \/ \E p \in Profiles : ReportFailure(p)
    \/ \E o \in Operators :
         \/ \E i \in DOMAIN inbox : OpenForm(o, i)
         \/ \E status \in Moves :
              \/ \E i \in DOMAIN inbox : Submit(o, i, status)
              \/ Refuse(o, status)
    \/ \E i \in DOMAIN inbox : Wake(i)

InboxSpec == InboxInit /\ [][InboxNext]_inboxVars

---------------------------------------------------------------------------
(* Properties.                                                             *)

\* The file holds at most MAX_NOTIFICATIONS items, each with its own id, and
\* a condition cannot have recurred more often than its item was written.
InboxTypeOK ==
    /\ Len(inbox) <= MaxItems
    /\ \A i, j \in DOMAIN inbox : inbox[i].id = inbox[j].id => i = j
    /\ \A i \in DOMAIN inbox :
         /\ inbox[i].status \in DOMAIN Transition
         /\ inbox[i].rev \in 0 .. writes
         /\ inbox[i].recurrences \in 0 .. inbox[i].rev
    /\ standing \in [Subjects -> 0 .. Max({MaxPolls, 1})]

\* "A condition that returns after it was resolved reopens the same durable
\* item": however reports, closings by hand and by reconcile interleave, one
\* dedupe key never has two items.
InboxOneItemPerKey ==
    \A i, j \in DOMAIN inbox :
        inbox[i].key = inbox[j].key /\ inbox[i].key # NoKey(inbox[i].key.about) => i = j

\* The revision in an operator's form is enough to tell that the item changed
\* since it was displayed: at an equal revision, nothing but the passing of
\* the wake-up time did.
InboxRevisionIdentifies ==
    \A o \in Operators, i \in DOMAIN inbox :
        form[o] # NoForm /\ CurrentForm(o, i) =>
            [inbox[i] EXCEPT !.asleep = FALSE] = [form[o] EXCEPT !.asleep = FALSE]

\* "Missing or stale evidence is never treated as recovery": what the newest
\* evidence reports (telemetry of a condition, a failed discovery) and nobody
\* closed by hand has an open item, unless newer items pushed it out.
InboxOpenWhileObserved ==
    \A s \in Subjects :
        standing[s] # 0 => \E i \in DOMAIN inbox : Open(inbox[i]) /\ inbox[i].key.about = s

\* The same with several collections at once and answers that are late: what is
\* observed goes unnoticed only where a report came after a newer one of its
\* subject, or a reconcile closed the item of a poll newer than its own.
InboxOpenUnlessOvertaken ==
    \A s \in Subjects \ overtaken :
        standing[s] # 0 => \E i \in DOMAIN inbox : Open(inbox[i]) /\ inbox[i].key.about = s

\* The items agree with what was reported and with what operators look at: one
\* item per key, and a revision that tells every change.
InboxSound ==
    /\ InboxTypeOK
    /\ InboxOneItemPerKey
    /\ InboxRevisionIdentifies

=============================================================================
