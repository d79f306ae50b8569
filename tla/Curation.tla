------------------------------ MODULE Curation ------------------------------
(***************************************************************************)
(* The operators' corrections of discovered evidence: the site overrides   *)
(* (sites/overrides.py), the peer identities (identity/resolutions.py) and *)
(* the dispositions of the evidence queue (evidence_resolution.py) of      *)
(* src/founderos_atlas, three catalogs with one storage contract.          *)
(*                                                                         *)
(* A catalog and its audit trail are two files.  An operation holds the    *)
(* catalog's lock, compares the revision of the page it was sent from,     *)
(* replaces the catalog and then the trail; the second replacement may     *)
(* fail, or the process may end before it.  Pages read the catalog without *)
(* the lock.  An undo takes its target from the trail, not the catalog.    *)
(* `contract' says which of the three catalogs a behaviour is about; a     *)
(* site override matches a device by keys from strong to weak, a peer and  *)
(* a queue item have one key.                                              *)
(***************************************************************************)
EXTENDS Naturals, FiniteSets, SequencesExt

CONSTANTS
    Curators,         \* pages operators have open
    Described,        \* contract -> how its devices, peers or items are described: keys, strong to weak
    CurationValues,   \* sites, host names or dispositions
    MaxCurations,     \* bound: the catalog's revision
    MaxLost           \* bound: trails that were not written

ASSUME CurationAssumption ==
    /\ {MaxCurations, MaxLost} \subseteq Nat
    /\ \A c \in {"sites", "peers", "queue"} : \A d \in Described[c] :
         d \in Seq(ToSet(d)) /\ d # <<>> /\ IsInjective(d)
    /\ \A c \in {"peers", "queue"} : \A d \in Described[c] : Len(d) = 1
    /\ "none" \notin CurationValues

VARIABLES
    contract,   \* "sites", "peers" or "queue"
    curated,    \* the catalog: [revision, entries]
    trail,      \* the audit events, oldest first
    writing,    \* events of the operation that replaced the catalog and not yet the trail
    shown,      \* page -> the catalog as it was when the page was built
    lost,       \* history: revisions whose event was never written
    past        \* history: per revision, the subject changed and the entries after it

curationVars == <<contract, curated, trail, writing, shown, lost, past>>

NoChoice == "none"
NoEntry == [subject |-> "none", keys |-> {}, value |-> NoChoice]

CurationInit ==
    /\ contract \in {"sites", "peers", "queue"}
    /\ curated = [revision |-> 0, entries |-> {}]
    /\ trail = <<>>
    /\ writing = <<>>
    /\ shown = [p \in Curators |-> [revision |-> 0, entries |-> {}]]
    /\ lost = {}
    /\ past = <<>>

---------------------------------------------------------------------------
(* Looking up and changing the entries                                     *)

\* The strongest key that any entry has decides; when several have it, none
\* is chosen.
Find(entries, d) ==
    LET matching(k) == {e \in entries : k \in e.keys}
        hits == {i \in DOMAIN d : matching(d[i]) # {}}
        first == matching(d[CHOOSE i \in hits : \A j \in hits : i <= j])
    IN IF hits = {} THEN NoEntry
       ELSE IF Cardinality(first) = 1 THEN CHOOSE e \in first : TRUE ELSE NoEntry

EntriesWithout(entries, subject) == {e \in entries : e.subject # subject}

OfSubject(entries, subject) ==
    IF \E e \in entries : e.subject = subject THEN CHOOSE e \in entries : e.subject = subject ELSE NoEntry

\* An operation's outcome: the entry it is about before and after, and its
\* kind; the entry after may be none.
Step(action, before, after) == [action |-> action, before |-> before, after |-> after]

SubjectOf(step) == IF step.after # NoEntry THEN step.after.subject ELSE step.before.subject

Applied(entries, step) ==
    EntriesWithout(entries, SubjectOf(step)) \cup (IF step.after.value = NoChoice THEN {} ELSE {step.after})

\* assign, resolve and decide: the entry found keeps its subject and its keys.
AssignStep(entries, d, v) ==
    LET existing == Find(entries, d)
    IN Step("assign", existing,
            [subject |-> IF existing = NoEntry THEN d[1] ELSE existing.subject,
             keys |-> ToSet(d) \cup existing.keys, value |-> v])

\* revert, and undo of a disposition: the entry goes.
RemoveStep(action, existing) == Step(action, existing, [existing EXCEPT !.value = NoChoice])

\* Where the trail has the events of a subject.
History(subject) == {i \in DOMAIN trail : trail[i].subject = subject}

LastOf(places) == CHOOSE i \in places : \A j \in places : j <= i

\* Mutant: the change before the last one is taken back.
UndoStepEarlier(entries, subject) ==
    LET earlier == History(subject) \ {LastOf(History(subject))}
        previous == trail[LastOf(IF earlier = {} THEN History(subject) ELSE earlier)]
        restored == [subject |-> subject, keys |-> previous.keys, value |-> previous.before]
        current == OfSubject(entries, subject)
    IN Step("undo", current,
            IF previous.before # NoChoice \/ current = NoEntry THEN restored
            ELSE [current EXCEPT !.value = NoChoice])

\* undo of an override or an identity: back to where the last event in the
\* trail came from, with the keys that event has.
UndoStep(entries, subject) ==
    LET previous == trail[LastOf(History(subject))]
        restored == [subject |-> subject, keys |-> previous.keys, value |-> previous.before]
        current == OfSubject(entries, subject)
    IN Step("undo", current,
            IF previous.before # NoChoice \/ current = NoEntry THEN restored
            ELSE [current EXCEPT !.value = NoChoice])

---------------------------------------------------------------------------
(* Operations                                                              *)

EventOf(step, revision) ==
    [action |-> step.action, subject |-> SubjectOf(step), keys |-> step.after.keys,
     before |-> step.before.value, after |-> step.after.value, revision |-> revision]

\* The entries after the first i steps of an operation, which are applied one
\* after the other.
EntriesAfter(steps, i) ==
    LET first == Applied(curated.entries, steps[1])
    IN IF i = 1 THEN first ELSE Applied(first, steps[2])

\* Mutant: only what puts an entry in place counts as a revision.
CommitAssignments(steps) ==
    LET grown == IF steps[1].action = "assign" THEN Len(steps) ELSE 0
    IN /\ writing = <<>>
       /\ curated.revision + Len(steps) <= MaxCurations /\ Len(past) < MaxCurations
       /\ curated' = [revision |-> curated.revision + grown, entries |-> EntriesAfter(steps, Len(steps))]
       /\ writing' = [i \in DOMAIN steps |-> EventOf(steps[i], curated.revision + i)]
       /\ past' = past \o [i \in DOMAIN steps |->
                    [subject |-> SubjectOf(steps[i]), entries |-> EntriesAfter(steps, i)]]
       /\ UNCHANGED <<contract, trail, shown, lost>>

\* The first half of _commit: the steps of one operation, one or two, are
\* applied and the catalog is replaced.
Commit(steps) ==
    /\ writing = <<>>
    /\ curated.revision + Len(steps) <= MaxCurations
    /\ curated' = [revision |-> curated.revision + Len(steps), entries |-> EntriesAfter(steps, Len(steps))]
    /\ writing' = [i \in DOMAIN steps |-> EventOf(steps[i], curated.revision + i)]
    /\ past' = past \o [i \in DOMAIN steps |->
                 [subject |-> SubjectOf(steps[i]), entries |-> EntriesAfter(steps, i)]]
    /\ UNCHANGED <<contract, trail, shown, lost>>

\* Mutant: of an operation on several peers only the last event is kept.
WriteTrailLast ==
    /\ writing # <<>>
    /\ trail' = Append(trail, Last(writing))
    /\ writing' = <<>>
    /\ UNCHANGED <<contract, curated, shown, lost, past>>

\* The second half: the trail with the new events replaces the old one.
WriteTrail ==
    /\ writing # <<>>
    /\ trail' = trail \o writing
    /\ writing' = <<>>
    /\ UNCHANGED <<contract, curated, shown, lost, past>>

\* The trail cannot be replaced, or the process ends before it is.
LoseTrail ==
    /\ writing # <<>>
    /\ Cardinality(lost) + Len(writing) <= MaxLost
    /\ lost' = lost \cup {writing[i].revision : i \in DOMAIN writing}
    /\ writing' = <<>>
    /\ UNCHANGED <<contract, curated, trail, shown, past>>

\* A page is built from the catalog, whatever is being written.
ShowPage(p) ==
    /\ shown[p] # curated
    /\ shown' = [shown EXCEPT ![p] = curated]
    /\ UNCHANGED <<contract, curated, trail, writing, lost, past>>

\* _check_revision, with the revision that the page sends.
PageIsCurrent(p) == shown[p].revision = curated.revision

Assign(p, d, v) ==
    /\ PageIsCurrent(p)
    /\ Commit(<<AssignStep(curated.entries, d, v)>>)

\* Several peers in one catalog write, each with its own event.
ResolveMany(p, d, v, e, w) ==
    /\ contract = "peers"
    /\ PageIsCurrent(p)
    /\ d # e
    /\ Commit(<<AssignStep(curated.entries, d, v), AssignStep(curated.entries, e, w)>>)

Revert(p, d) ==
    /\ contract \in {"sites", "peers"}
    /\ PageIsCurrent(p)
    /\ Find(curated.entries, d) # NoEntry
    /\ Commit(<<RemoveStep("revert", Find(curated.entries, d))>>)

\* Undo is offered for an entry on the page.  The form of the topology page
\* sends no revision, so an identity may have changed since.
Undo(p, subject) ==
    /\ contract \in {"sites", "peers"}
    /\ contract = "peers" \/ PageIsCurrent(p)
    /\ \E e \in shown[p].entries : e.subject = subject
    /\ History(subject) # {}
    /\ Commit(<<UndoStep(curated.entries, subject)>>)

UndoDisposition(p, d) ==
    /\ contract = "queue"
    /\ PageIsCurrent(p)
    /\ Find(curated.entries, d) # NoEntry
    /\ Commit(<<RemoveStep("undo", Find(curated.entries, d))>>)

CurationNext ==
    \/ WriteTrail
    \/ LoseTrail
    \/ \E p \in Curators :
         \/ ShowPage(p)
         \/ \E d \in Described[contract], v \in CurationValues :
              \/ Assign(p, d, v)
              \/ \E e \in Described[contract], w \in CurationValues : ResolveMany(p, d, v, e, w)
         \/ \E d \in Described[contract] : Revert(p, d) \/ UndoDisposition(p, d)
         \/ \E e \in shown[p].entries : Undo(p, e.subject)

CurationSpec == CurationInit /\ [][CurationNext]_curationVars

---------------------------------------------------------------------------
(* Properties                                                              *)

CurationTypeOK ==
    /\ curated.revision = Len(past)
    /\ \A e \in curated.entries : e.value \in CurationValues /\ e.subject \in e.keys
    /\ \A p \in Curators : shown[p].revision <= curated.revision
    /\ lost \subseteq 1..curated.revision

ValueAt(r, subject) == IF r = 0 THEN NoChoice ELSE OfSubject(past[r].entries, subject).value

\* The subject's key was one of several entries', so that the entry of the
\* subject was not found when it was assigned.
Ambiguous(r, subject) == r > 0 /\ Cardinality({e \in past[r].entries : subject \in e.keys}) > 1

\* Between operations the trail has the event of every revision, in order,
\* except of those whose second file was not replaced, and it says what the
\* subject's value was before and after (before: unless its entry could not
\* be told from another one's).
TrailAccounts ==
    writing = <<>> =>
        /\ {trail[i].revision : i \in DOMAIN trail} = (1..curated.revision) \ lost
        /\ \A i \in DOMAIN trail :
             LET e == trail[i]
             IN /\ i > 1 => trail[i - 1].revision < e.revision
                /\ e.after = ValueAt(e.revision, e.subject)
                /\ e.before = ValueAt(e.revision - 1, e.subject) \/ Ambiguous(e.revision - 1, e.subject)

\* A page that has the catalog's revision shows the catalog, so what an
\* operator decided on it is decided about what is there.
PagesTell == \A p \in Curators : PageIsCurrent(p) => shown[p] = curated

\* A subject has one entry, and a peer or a queue item is its only key.
OneEntryPerSubject ==
    \A e, f \in curated.entries : e.subject = f.subject \/ (contract # "sites" /\ e.keys \cap f.keys # {}) => e = f

CurationSound == CurationTypeOK /\ TrailAccounts /\ PagesTell /\ OneEntryPerSubject

\* Undo takes back the last change of its subject: the subject gets the value
\* that it had before it, however many changes of other subjects, reverts and
\* undos came in between.  Not when the trail lacks the event of that change,
\* or when the change was of an entry that could not be told from another.
CurationUndoTakesBack ==
    [][(Len(past') > Len(past) /\ writing'[1].action = "undo" /\ contract # "queue") =>
         LET subject == writing'[1].subject
             changes == {r \in DOMAIN past : past[r].subject = subject}
             last == CHOOSE r \in changes : \A q \in changes : q <= r
         IN last \notin lost /\ ~Ambiguous(last - 1, subject) =>
                OfSubject(curated'.entries, subject).value = ValueAt(last - 1, subject)]_curationVars

============================================================================
