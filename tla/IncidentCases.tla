---------------------------- MODULE IncidentCases ----------------------------
(***************************************************************************)
(* Incident cases: IncidentCaseRepository (incidents/records.py) and the   *)
(* pages that use it (incident_case_* of web/lifecycle_routes.py and       *)
(* incidents_* of web/routes.py).                                          *)
(*                                                                         *)
(* Every change of the catalog is one critical section, under a revision   *)
(* of the whole catalog; a page reads the case and the revision in two     *)
(* steps, an investigation looks for a case and then opens or refreshes    *)
(* one, and the audit event of a change is appended after the lock is      *)
(* released: an append that fails, or a death of the server before it,     *)
(* leaves a change without its event.  Texts, links, owners and            *)
(* participants are data: an operation that changes only them leaves its   *)
(* mark in `touched'.                                                      *)
(***************************************************************************)
EXTENDS Integers, FiniteSets, Sequences

CONSTANTS
    Clerks,            \* operators with a request or a page of their own
    CaseTitles,        \* what is investigated; a title in one scope
    FirstCases,        \* the catalog at first: cases and revision
    MaxCaseRevision,   \* bound: revisions of the catalog
    MaxLostEvents      \* bound: audit events that are lost

VARIABLES
    cases,             \* incidents.json: the cases, in the order they were opened
    caseRevision,      \* incidents.json: the catalog's revision
    clerk,             \* operator -> its page, and where its request stands
    caseAudit,         \* audit.jsonl: the revisions whose change has an event
    caseLost           \* history: the revisions whose event will never be there

caseVars == <<cases, caseRevision, clerk, caseAudit, caseLost>>

CaseTransitions ==
    [open          |-> {"acknowledged", "investigating", "suppressed"},
     acknowledged  |-> {"investigating", "mitigating", "suppressed"},
     investigating |-> {"mitigating", "monitoring", "suppressed"},
     mitigating    |-> {"monitoring", "resolved", "suppressed"},
     monitoring    |-> {"investigating", "mitigating", "resolved", "suppressed"},
     resolved      |-> {"closed", "open"},
     closed        |-> {"open"},
     suppressed    |-> {"open"}]

\* open_case: the new case.
OpenedCase(title) ==
    [title |-> title, status |-> "open", resolution |-> FALSE, evidence |-> FALSE,
     excuse |-> FALSE, touched |-> 0]

\* `case' is 0 while no page is displayed; `seen' is the catalog that the page
\* shows, and empty when its two reads saw different catalogs.
NoPage == [case |-> 0, rev |-> 0, seen |-> {}]
RestingClerk ==
    [pc |-> "rest", page |-> NoPage, title |-> "", found |-> 0, bulk |-> {}, event |-> 0]

CaseRecord ==
    [title : CaseTitles, status : DOMAIN CaseTransitions, resolution : BOOLEAN, evidence : BOOLEAN,
     excuse : BOOLEAN, touched : Nat]

\* The first catalog is one that these operations left.
ASSUME CaseAssumption ==
    /\ MaxCaseRevision \in Nat /\ FirstCases.rev \in 0 .. MaxCaseRevision
    /\ MaxLostEvents \in Nat
    /\ FirstCases.cases \in Seq(CaseRecord)
    /\ \A i \in DOMAIN FirstCases.cases :
         LET c == FirstCases.cases[i]
         IN  /\ c.touched <= FirstCases.rev
             /\ c.status \in {"resolved", "closed"} => c.resolution

CaseInit ==
    /\ cases = FirstCases.cases
    /\ caseRevision = FirstCases.rev
    /\ clerk = [o \in Clerks |-> RestingClerk]
    /\ caseAudit = 1 .. caseRevision
    /\ caseLost = {}

-----------------------------------------------------------------------------
(* What the operations make of a case.                                     *)

\* acknowledge and suppress, from any status.
Acknowledged(c) == [c EXCEPT !.status = "acknowledged"]
Suppressed(c) == [c EXCEPT !.status = "suppressed"]

\* Mutant: the resolution is cleared, and the status forgotten.
ReopenedInPlace(c) == [c EXCEPT !.resolution = FALSE]

\* reopen, from any status.
Reopened(c) == [c EXCEPT !.status = "open", !.resolution = FALSE]

\* transition: through the table, and to resolved only with a resolution.
MayMoveCase(c, target) ==
    /\ target \in CaseTransitions[c.status]
    /\ target = "resolved" => c.resolution

MovedCase(c, target) == [c EXCEPT !.status = target]

\* resolve, from any status: with new validation evidence, with a reason why
\* there is none, or with neither; earlier evidence stays, an earlier reason
\* does not.
Resolved(c, validation) ==
    [c EXCEPT !.status = "resolved", !.resolution = TRUE,
              !.evidence = @ \/ validation = "evidence", !.excuse = validation = "excuse"]

\* close.
MayClose(c) == c.status = "resolved" /\ c.resolution /\ (c.evidence \/ c.excuse)

\* annotate, assign, set_participants, set_severity, link, unlink and, with a
\* new report, refresh_evidence.
Touched(c) == [c EXCEPT !.touched = @ + 1]

-----------------------------------------------------------------------------
(* The repository.                                                         *)

\* Mutant: a change of a case keeps the revision.
WriteCasesSameRevision(changed) ==
    /\ caseRevision < MaxCaseRevision
    /\ cases' = changed
    /\ caseRevision' = caseRevision + IF Len(changed) > Len(cases) THEN 1 ELSE 0

\* _write, with the next revision.
WriteCases(changed) ==
    /\ caseRevision < MaxCaseRevision
    /\ cases' = changed
    /\ caseRevision' = caseRevision + 1

\* _mutate: the case is replaced in the catalog as it is under the lock.
MutateCase(i, c) == WriteCases([cases EXCEPT ![i] = c])

\* The request's thread then owes the audit log an event.
OweEvent(o, request) ==
    clerk' = [clerk EXCEPT ![o] = [request EXCEPT !.pc = "auditing", !.event = caseRevision + 1]]

\* Mutant: a request that works on several cases records the last one only.
AppendEventAtTheEnd(o) ==
    IF clerk[o].bulk = {} THEN caseAudit' = caseAudit \cup {clerk[o].event} ELSE UNCHANGED caseAudit

\* AuditLog.append.
AppendEvent(o) == caseAudit' = caseAudit \cup {clerk[o].event}

\* The request ends, or goes on with the cases that a bulk request has left.
Proceeds(o, todo) ==
    clerk' = [clerk EXCEPT ![o].pc = IF todo = {} THEN "rest" ELSE "bulk",
                           ![o].bulk = todo, ![o].event = 0]

\* _audit_case: after the lock was released.
AuditChange(o) ==
    /\ clerk[o].pc = "auditing"
    /\ AppendEvent(o)
    /\ Proceeds(o, clerk[o].bulk)
    /\ UNCHANGED <<cases, caseRevision, caseLost>>

\* The append fails, while the change stays.  A log that cannot be decoded is a
\* ValueError, over which a bulk request goes on; any other error ends a request.
LoseEvent(o) ==
    /\ clerk[o].pc = "auditing"
    /\ Cardinality(caseLost) < MaxLostEvents
    /\ caseLost' = caseLost \cup {clerk[o].event}
    /\ Proceeds(o, clerk[o].bulk) \/ Proceeds(o, {})
    /\ UNCHANGED <<cases, caseRevision, caseAudit>>

\* The server dies: requests end where they are, and pages stay in browsers.
Owing == {o \in Clerks : clerk[o].pc = "auditing"}
OwedEvents == {clerk[o].event : o \in Owing}

CaseServerDies ==
    /\ Cardinality(caseLost) + Cardinality(Owing) <= MaxLostEvents
    /\ \E o \in Clerks : clerk[o].pc # "rest"
    /\ caseLost' = caseLost \cup OwedEvents
    /\ clerk' = [o \in Clerks |-> IF clerk[o].pc = "rest" THEN clerk[o] ELSE RestingClerk]
    /\ UNCHANGED <<cases, caseRevision, caseAudit>>

-----------------------------------------------------------------------------
(* incidents_run: an investigation.                                        *)

\* find_active: the newest active case of that title.
ActiveCase(c, title) ==
    /\ c.title = title
    /\ c.status \in {"open", "acknowledged", "investigating", "mitigating", "monitoring"}

Newest(found) == IF found = {} THEN 0 ELSE CHOOSE i \in found : \A j \in found : j <= i

FindActive(o, title) ==
    /\ clerk[o].pc = "rest"
    /\ clerk' = [clerk EXCEPT ![o] =
         [RestingClerk EXCEPT !.pc = "found", !.title = title,
                              !.found = Newest({i \in DOMAIN cases : ActiveCase(cases[i], title)})]]
    /\ UNCHANGED <<cases, caseRevision, caseAudit, caseLost>>

\* refresh_evidence of the case that was found, or open_case.
Conclude(o) ==
    LET i == clerk[o].found IN
    /\ clerk[o].pc = "found"
    /\ IF i # 0 THEN MutateCase(i, Touched(cases[i]))
                ELSE WriteCases(Append(cases, OpenedCase(clerk[o].title)))
    /\ OweEvent(o, RestingClerk)
    /\ UNCHANGED <<caseAudit, caseLost>>

-----------------------------------------------------------------------------
(* The page of a case, and the forms on it.                                *)

\* incident_case_page: the case is read, and later the revision.
DisplayCase(o, i) ==
    /\ clerk[o].pc = "rest"
    /\ clerk' = [clerk EXCEPT ![o] = [RestingClerk EXCEPT !.pc = "display",
                                       !.page = [case |-> i, rev |-> 0, seen |-> {cases}]]]
    /\ UNCHANGED <<cases, caseRevision, caseAudit, caseLost>>

DisplayCaseRevision(o) ==
    /\ clerk[o].pc = "display"
    /\ clerk' = [clerk EXCEPT ![o].pc = "rest",
                              ![o].page = [case |-> @.case, rev |-> caseRevision,
                                           seen |-> @.seen \cap {cases}]]
    /\ UNCHANGED <<cases, caseRevision, caseAudit, caseLost>>

\* check_revision: the forms carry the revision of the page.
Submits(o) ==
    /\ clerk[o].pc = "rest"
    /\ clerk[o].page.case # 0
    /\ clerk[o].page.rev = caseRevision

\* incident_case_action, incident_case_link and incident_case_unlink.
PostForm(o, c) ==
    /\ Submits(o)
    /\ MutateCase(clerk[o].page.case, c)
    /\ OweEvent(o, RestingClerk)
    /\ UNCHANGED <<caseAudit, caseLost>>

PostMove(o) ==
    LET c == cases[clerk[o].page.case]
    IN  Submits(o) /\ \E target \in CaseTransitions[c.status] :
            MayMoveCase(c, target) /\ PostForm(o, MovedCase(c, target))

PostClose(o) ==
    LET c == cases[clerk[o].page.case]
    IN  Submits(o) /\ MayClose(c) /\ PostForm(o, MovedCase(c, "closed"))

PostResolve(o) ==
    LET c == cases[clerk[o].page.case]
    IN  Submits(o) /\ \E v \in {"evidence", "excuse", "none"} : PostForm(o, Resolved(c, v))

PostOther(o) ==
    LET c == cases[clerk[o].page.case]
    IN  /\ Submits(o)
        /\ \/ PostForm(o, Acknowledged(c))
           \/ PostForm(o, Suppressed(c))
           \/ PostForm(o, Reopened(c))
           \/ PostForm(o, Touched(c))

\* "Nothing was overwritten -- reload and reapply your change."
RefuseStale(o) ==
    /\ clerk[o].pc = "rest"
    /\ clerk[o].page.case # 0
    /\ clerk[o].page.rev # caseRevision
    /\ clerk' = [clerk EXCEPT ![o].page = NoPage]
    /\ UNCHANGED <<cases, caseRevision, caseAudit, caseLost>>

\* incidents_bulk: several cases of the list are resolved or suppressed, one
\* after the other and without a revision.
SelectCases(o) ==
    /\ clerk[o].pc = "rest"
    /\ Cardinality(DOMAIN cases) > 1
    /\ clerk' = [clerk EXCEPT ![o] = [RestingClerk EXCEPT !.pc = "bulk", !.bulk = DOMAIN cases]]
    /\ UNCHANGED <<cases, caseRevision, caseAudit, caseLost>>

BulkStep(o) ==
    /\ clerk[o].pc = "bulk"
    /\ \E i \in clerk[o].bulk :
         /\ \/ MutateCase(i, Resolved(cases[i], "none"))
            \/ MutateCase(i, Suppressed(cases[i]))
         /\ OweEvent(o, [RestingClerk EXCEPT !.bulk = clerk[o].bulk \ {i}])
    /\ UNCHANGED <<caseAudit, caseLost>>

CaseNext ==
    \/ CaseServerDies
    \/ \E o \in Clerks :
         \/ \E title \in CaseTitles : FindActive(o, title)
         \/ Conclude(o)
         \/ \E i \in DOMAIN cases : DisplayCase(o, i)
         \/ DisplayCaseRevision(o)
         \/ PostMove(o)
         \/ PostClose(o)
         \/ PostResolve(o)
         \/ PostOther(o)
         \/ RefuseStale(o)
         \/ SelectCases(o)
         \/ BulkStep(o)
         \/ AuditChange(o)
         \/ LoseEvent(o)

CaseSpec == CaseInit /\ [][CaseNext]_caseVars

-----------------------------------------------------------------------------
(* Properties.                                                             *)

\* Cases have the statuses of the table, and a clerk works on cases there are.
CaseTypeOK ==
    /\ \A i \in DOMAIN cases :
         cases[i].status \in DOMAIN CaseTransitions /\ cases[i].touched \in 0 .. caseRevision
    /\ caseRevision \in 0 .. MaxCaseRevision
    /\ \A o \in Clerks : clerk[o].bulk \cup {clerk[o].page.case, clerk[o].found}
                            \subseteq {0} \cup DOMAIN cases

\* A form is accepted only for the catalog that its page showed: an equal
\* revision means that nothing changed, unless the page is torn.
CaseRevisionIdentifies ==
    \A o \in Clerks :
        clerk[o].pc = "rest" /\ clerk[o].page.case # 0 /\ clerk[o].page.rev = caseRevision
            => clerk[o].page.seen \in {{}, {cases}}

\* "record a resolution before moving the case to resolved", "a closed case
\* needs a resolution": by whichever of the ways a case came there.
CaseEndsResolved ==
    \A i \in DOMAIN cases : cases[i].status \in {"resolved", "closed"} => cases[i].resolution

\* "one audit event per mutation", as far as it goes: a change has its one
\* event, or a request of its own that is about to record it, or that request
\* failed or died between the two.
CaseChangesAudited ==
    /\ caseAudit \cup OwedEvents \cup caseLost = 1 .. caseRevision
    /\ OwedEvents \cap (caseAudit \cup caseLost) = {}
    /\ caseAudit \cap caseLost = {}
    /\ \A o, p \in Owing : clerk[o].event = clerk[p].event => o = p

\* The case catalog through investigations, forms and bulk requests at once.
CasesSound ==
    /\ CaseTypeOK
    /\ CaseRevisionIdentifies
    /\ CaseEndsResolved
    /\ CaseChangesAudited

=============================================================================
