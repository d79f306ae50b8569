---------------------------- MODULE PolicyReview ----------------------------
(***************************************************************************)
(* The policy pages: the cache of reports of                               *)
(* src/founderos_atlas/web/routes.py, the baselines of                     *)
(* policy/governance.py and the exceptions of policy/exceptions.py.        *)
(*                                                                         *)
(* Every request runs in a thread of its own and shares the cache without  *)
(* a lock.  The baselines, the exceptions and the evidence of a scope are  *)
(* numbers that change with every write; they stand for the file and for   *)
(* its stamp.  A report is what it was evaluated from.  The verdicts, the  *)
(* owners, the posture history, and the device contexts, which no key      *)
(* mentions, are left out, and so is the second look into the cache, for   *)
(* the sites of devices.                                                   *)
(***************************************************************************)
EXTENDS Naturals, SequencesExt

CONSTANTS
    Reviewers,      \* operators, each with one request at a time
    Views,          \* the views of the page: sequences of scopes
    CacheEntries,   \* _POLICY_REPORT_CACHE_ENTRIES
    MaxEvidence,    \* bound: collections that change the evidence
    MaxReviews,     \* bound: requests
    MaxBaselines,   \* bound: baselines saved
    MaxExceptions   \* bound: exceptions granted or revoked

Scopes == UNION {Range(view) : view \in Views}

ASSUME PolicyAssumption ==
    /\ CacheEntries \in Nat \ {0}
    /\ IsFiniteSet(Reviewers)
    /\ Views \subseteq Seq(Scopes)

VARIABLES
    evidence,       \* the evidence of each scope
    baselines,      \* the baselines and their revision
    exceptions,     \* the exceptions and their revision
    reports,        \* _policy_report_cache: entries [key, report], the oldest first
    review,         \* each operator's request
    policyForm,     \* each operator's last page: what it showed, and its revisions
    blindEdits,     \* history: edits of what the form did not show, by their excuse
    reviewsOpened   \* how many requests there were

policyVars == <<evidence, baselines, exceptions, reports, review, policyForm, blindEdits, reviewsOpened>>

\* `key' and `report' are sequences that are filled in as the request reads:
\* the evidence of each scope, then the baselines' revision; the baselines,
\* then the evidence of each scope.
NoReview == [at |-> "idle", goal |-> "page", view |-> <<>>, key |-> <<>>, report |-> <<>>, began |-> <<>>]

\* The page of the first state.
FirstForm == [exceptions |-> 0, exceptionRevision |-> 0, baselines |-> 0, baselineRevision |-> 0]

PolicyInit ==
    /\ evidence = [s \in Scopes |-> 0]
    /\ baselines = 0
    /\ exceptions = 0
    /\ reports = <<>>
    /\ review = [o \in Reviewers |-> NoReview]
    /\ policyForm = [o \in Reviewers |-> FirstForm]
    /\ blindEdits = {}
    /\ reviewsOpened = 0

At(o, step) == review[o].at = step
Goes(o, step) == review' = [review EXCEPT ![o].at = step]
Opens(o) == At(o, "idle") /\ reviewsOpened < MaxReviews /\ reviewsOpened' = reviewsOpened + 1
Ends(o) == review' = [review EXCEPT ![o] = NoReview]
stores == <<evidence, baselines, exceptions>>

---------------------------------------------------------------------------
(* _policy_report_dict                                                     *)

EvidenceOf(view) == [i \in DOMAIN view |-> evidence[view[i]]]

\* A page, or a baseline to save: its preview starts with a report, too.
OpenReport(o, goal, view) ==
    /\ Opens(o)
    /\ review' = [review EXCEPT ![o] = [NoReview EXCEPT !.at = "key", !.goal = goal, !.view = view,
                                                    !.began = Append(EvidenceOf(view), baselines)]]
    /\ UNCHANGED <<stores, reports, policyForm, blindEdits>>

\* Mutant: the baselines are left to _policy_cache_invalidate.
KeyPartUngoverned(view, part) ==
    IF part <= Len(view) THEN evidence[view[part]] ELSE 0

\* _policy_cache_key: the stamps of each scope in turn, then the revision.
KeyPart(view, part) ==
    IF part <= Len(view) THEN evidence[view[part]] ELSE baselines

ReadKey(o) ==
    LET part == Len(review[o].key) + 1
    IN /\ At(o, "key")
       /\ review' = [review EXCEPT
                       ![o].key = Append(@, KeyPart(review[o].view, part)),
                       ![o].at = IF part > Len(review[o].view) THEN "lookup" ELSE "key"]
       /\ UNCHANGED <<stores, reports, policyForm, blindEdits, reviewsOpened>>

KeyOf(o) == <<review[o].view, review[o].key>>

Entries(key) == {i \in DOMAIN reports : reports[i].key = key}

LookUpReport(o) ==
    /\ At(o, "lookup")
    /\ \/ /\ Entries(KeyOf(o)) = {}
          /\ Goes(o, "evaluate")
       \/ \E i \in Entries(KeyOf(o)) :
            review' = [review EXCEPT ![o].at = "hit", ![o].report = reports[i].report]
    /\ UNCHANGED <<stores, reports, policyForm, blindEdits, reviewsOpened>>

\* move_to_end.  An entry that another request dropped since is a KeyError.
TouchReport(o) ==
    /\ At(o, "hit")
    /\ \/ /\ Entries(KeyOf(o)) = {}
          /\ Ends(o)
          /\ UNCHANGED reports
       \/ \E i \in Entries(KeyOf(o)) :
            /\ reports' = Append(RemoveAt(reports, i), reports[i])
            /\ Goes(o, "report")
    /\ UNCHANGED <<stores, policyForm, blindEdits, reviewsOpened>>

\* governance.active(), then the memory of each scope.
EvaluateReport(o) ==
    LET part == Len(review[o].report)
    IN /\ At(o, "evaluate")
       /\ review' = [review EXCEPT
                       ![o].report = Append(@, IF part = 0 THEN baselines ELSE evidence[review[o].view[part]]),
                       ![o].at = IF part = Len(review[o].view) THEN "store" ELSE "evaluate"]
       /\ UNCHANGED <<stores, reports, policyForm, blindEdits, reviewsOpened>>

\* Mutant: the key is read again when the report is ready.
StoredEntryReread(o) ==
    [key |-> <<review[o].view, Append(EvidenceOf(review[o].view), baselines)>>, report |-> review[o].report]

StoredEntry(o) == [key |-> KeyOf(o), report |-> review[o].report]

\* An entry that another request stored meanwhile keeps its place.
StoreReport(o) ==
    LET entry == StoredEntry(o)
    IN /\ At(o, "store")
       /\ reports' = IF Entries(entry.key) = {} THEN Append(reports, entry)
                     ELSE [i \in DOMAIN reports |-> IF i \in Entries(entry.key) THEN entry ELSE reports[i]]
       /\ Goes(o, "bound")
       /\ UNCHANGED <<stores, policyForm, blindEdits, reviewsOpened>>

\* The loop that evicts: its condition, and the eviction, which fails on a
\* cache that another request emptied in between.
BoundCache(o) ==
    /\ At(o, "bound")
    /\ Goes(o, IF Len(reports) > CacheEntries THEN "evict" ELSE "report")
    /\ UNCHANGED <<stores, reports, policyForm, blindEdits, reviewsOpened>>

EvictReport(o) ==
    /\ At(o, "evict")
    /\ IF reports = <<>> THEN Ends(o) /\ UNCHANGED reports
       ELSE reports' = Tail(reports) /\ Goes(o, "bound")
    /\ UNCHANGED <<stores, policyForm, blindEdits, reviewsOpened>>

---------------------------------------------------------------------------
(* policy_result_page reads the exception, the exceptions' revision, the   *)
(* baseline and the baselines' revision, one after the other.              *)

Shows(o, step, field, value, next) ==
    /\ At(o, step)
    /\ policyForm' = [policyForm EXCEPT ![o][field] = value]
    /\ IF next = "idle" THEN Ends(o) ELSE Goes(o, next)
    /\ UNCHANGED <<stores, reports, blindEdits, reviewsOpened>>

ShowResult(o) ==
    \/ review[o].goal = "page" /\ Shows(o, "report", "exceptions", exceptions, "exceptionRevision")
    \/ Shows(o, "exceptionRevision", "exceptionRevision", exceptions, "baselines")
    \/ Shows(o, "baselines", "baselines", baselines, "baselineRevision")
    \/ Shows(o, "baselineRevision", "baselineRevision", baselines, "idle")

---------------------------------------------------------------------------
(* The forms                                                               *)

\* Why an edit was accepted of what its form did not show: the page read the
\* record and the revision around a write, or the record changed after the
\* revision was checked.
Excuse(shown, revision, current) ==
    IF shown = current THEN {} ELSE
    IF shown # revision THEN {"torn"} ELSE
    IF revision # current THEN {"raced"} ELSE {"none"}

\* Mutant: a form is accepted whatever its revision.
BaselineConflictUnchecked(o) == FALSE

\* check_revision, with the lock held.
BaselineConflict(o) == policyForm[o].baselineRevision # baselines

\* PolicyGovernanceRepository.save, with the lock held throughout.
SaveBaseline(o) ==
    /\ At(o, "report")
    /\ review[o].goal = "save"
    /\ IF BaselineConflict(o)
       THEN Ends(o) /\ UNCHANGED <<baselines, blindEdits>>
       ELSE /\ baselines < MaxBaselines
            /\ baselines' = baselines + 1
            /\ blindEdits' = blindEdits \cup
                 {<<"baseline", e>> : e \in Excuse(policyForm[o].baselines, policyForm[o].baselineRevision, baselines)}
            /\ Goes(o, "invalidate")
    /\ UNCHANGED <<evidence, exceptions, reports, policyForm, reviewsOpened>>

\* _policy_cache_invalidate
Invalidate(o) ==
    /\ At(o, "invalidate")
    /\ reports' = <<>>
    /\ Ends(o)
    /\ UNCHANGED <<stores, policyForm, blindEdits, reviewsOpened>>

\* _check_exception_revision, before the lock is taken.
PostException(o) ==
    /\ Opens(o)
    /\ policyForm[o].exceptionRevision = exceptions
    /\ Goes(o, "except")
    /\ UNCHANGED <<stores, reports, policyForm, blindEdits>>

\* grant or revoke, with the lock held throughout.
WriteException(o) ==
    /\ At(o, "except")
    /\ exceptions < MaxExceptions
    /\ exceptions' = exceptions + 1
    /\ blindEdits' = blindEdits \cup
         {<<"exception", e>> : e \in Excuse(policyForm[o].exceptions, policyForm[o].exceptionRevision, exceptions)}
    /\ Ends(o)
    /\ UNCHANGED <<evidence, baselines, reports, policyForm, reviewsOpened>>

\* A discovery stores evidence.
CollectEvidence(s) ==
    /\ MapThenSumSet(LAMBDA t : evidence[t], Scopes) < MaxEvidence
    /\ evidence' = [evidence EXCEPT ![s] = @ + 1]
    /\ UNCHANGED <<baselines, exceptions, reports, review, policyForm, blindEdits, reviewsOpened>>

PolicyNext ==
    \/ \E o \in Reviewers :
         \/ \E view \in Views, goal \in {"page", "save"} : OpenReport(o, goal, view)
         \/ ReadKey(o) \/ LookUpReport(o) \/ TouchReport(o) \/ EvaluateReport(o)
         \/ StoreReport(o) \/ BoundCache(o) \/ EvictReport(o)
         \/ ShowResult(o)
         \/ SaveBaseline(o) \/ Invalidate(o)
         \/ PostException(o) \/ WriteException(o)
    \/ \E s \in Scopes : CollectEvidence(s)

PolicySpec == PolicyInit /\ [][PolicyNext]_policyVars

---------------------------------------------------------------------------
(* Properties                                                              *)

\* What a report is evaluated from is at least as new as `stamps', the evidence
\* of each scope followed by the baselines.
NotOlder(report, stamps) ==
    /\ Head(report) >= Last(stamps)
    /\ \A i \in DOMAIN Front(stamps) : report[i + 1] >= stamps[i]

\* "a report computed by an older Atlas must never be served as if it were
\* current", and neither is one of older evidence or older baselines: whatever
\* the cache held, whoever emptied it, the report of a page is not older than the
\* stores were when the page was asked for, and no entry of the cache is older
\* than its key.
ReportsCurrent ==
    /\ \A o \in Reviewers : At(o, "report") => NotOlder(review[o].report, review[o].began)
    /\ \A i \in DOMAIN reports : NotOlder(reports[i].report, reports[i].key[2])

\* "the bound is small and predictable": the cache exceeds it only by the entries
\* of the requests that are about to evict one, and has one entry per key.
CacheBounded ==
    /\ Len(reports) <= CacheEntries + Cardinality({o \in Reviewers : At(o, "bound") \/ At(o, "evict")})
    /\ \A i, j \in DOMAIN reports : reports[i].key = reports[j].key => i = j

\* "Nothing was overwritten": no edit replaces what its form did not show, except
\* for a page that was read around a write and, where the revision is checked
\* outside the lock, for an exception that changed since the check.
EditsExcused ==
    blindEdits \subseteq {<<"baseline", "torn">>, <<"exception", "torn">>, <<"exception", "raced">>}

\* Reports are current, the cache is bounded, and edits see what they replace.
PolicySound ==
    /\ baselines \in Nat /\ exceptions \in Nat
    /\ ReportsCurrent
    /\ CacheBounded
    /\ EditsExcused

============================================================================
