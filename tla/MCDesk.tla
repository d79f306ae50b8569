------------------------------- MODULE MCDesk -------------------------------
(***************************************************************************)
(* What operators and administrators share, for TLC: the action center,    *)
(* the accounts, the incident cases, the change plans, the curation and    *)
(* the policy pages.                                                       *)
(* They share no state, so one run checks them all: every behaviour is one *)
(* of a single component (`desk' says which), and the others stay in an    *)
(* initial state.  Of the action center there are behaviours of one        *)
(* collector whose answers are of the latest poll, and of several          *)
(* collectors without operators and failed discoveries.                    *)
(***************************************************************************)
EXTENDS Inbox, Access, IncidentCases, ChangePlans, Curation, PolicyReview, TLC

CONSTANTS o1, o2

VARIABLE desk

deskVars == <<desk, inboxVars, accessVars, caseVars, planVars, curationVars, policyVars>>

DeskInit ==
    /\ desk \in {"inbox", "collections", "accounts", "cases", "plans", "curation", "policy"}
    /\ InboxInit
    /\ AccessInit
    /\ CaseInit
    /\ PlanInit
    /\ CurationInit
    /\ PolicyInit
    /\ desk # "accounts" => authMode = "local"
    /\ desk # "plans" => plan.status = "scheduled"
    /\ desk # "curation" => contract = "sites"

\* No poll is taken while the one collector is at work on another.
LatestPoll == collection["t"] # Resting => collection["t"].poll = Len(polls)

DeskNext ==
    /\ \/ /\ \/ desk = "inbox" /\ InboxNext /\ collection'["x"] = Resting /\ LatestPoll'
             \/ desk = "collections" /\ InboxNext /\ UNCHANGED <<form, standing["p"]>>
          /\ UNCHANGED <<accessVars, caseVars, planVars, curationVars, policyVars>>
       \/ desk = "accounts" /\ AccessNext
          /\ UNCHANGED <<inboxVars, caseVars, planVars, curationVars, policyVars>>
       \/ desk = "cases" /\ CaseNext
          /\ UNCHANGED <<inboxVars, accessVars, planVars, curationVars, policyVars>>
       \/ desk = "plans" /\ PlanNext
          /\ UNCHANGED <<inboxVars, accessVars, caseVars, curationVars, policyVars>>
       \/ desk = "curation" /\ CurationNext
          /\ UNCHANGED <<inboxVars, accessVars, caseVars, planVars, policyVars>>
       \/ desk = "policy" /\ PolicyNext
          /\ UNCHANGED <<inboxVars, accessVars, caseVars, planVars, curationVars>>
    /\ UNCHANGED desk

DeskSpec == DeskInit /\ [][DeskNext]_deskVars

\* Those who work on the same accounts, case, plan, catalog or report are
\* interchangeable.
MCOperators == {o1, o2}
MCAdmins == {o1, o2, "l"}
Symmetry == Permutations(MCOperators)

\* Two administrators with passwords.
MCFirstUsers == [u \in Users |-> [admin |-> u \in Admins, password |-> TRUE, disabled |-> FALSE]]

\* A new account without a password, a demotion, an account disabled, a new
\* role with a new password, and a deletion.
MCRequests ==
    {Form("create", "yes", "no", FALSE),
     Form("update", "no", "keep", FALSE), Form("update", "keep", "yes", FALSE),
     Form("update", "yes", "no", TRUE), Form("delete", "keep", "keep", FALSE)}

\* A case that was resolved, opened again and worked on up to its mitigation.
MCFirstCases ==
    [cases |-> <<[OpenedCase("t") EXCEPT !.status = "mitigating", !.resolution = TRUE]>>, rev |-> 5]

\* A plan of one change, in review, scheduled or running.  A crash may lose it,
\* so that plans are also created.
MCPlan(status, pre) ==
    [NewPlan EXCEPT !.status = status, !.rev = 9, !.changes = [c \in {1} |-> 1], !.ready = TRUE,
                    !.pre = pre, !.post = "pending", !.incident = status # "running",
                    !.assessed = {[c \in {1} |-> 1]},
                    !.approval = IF status = "in-review" THEN {} ELSE {[c \in {1} |-> 1]}]

MCFirstPlans ==
    {MCPlan("in-review", "pending"), MCPlan("scheduled", "passed"), MCPlan("running", "passed")}

\* A device known by its serial number, before and after its host name is
\* known, and one known by that host name only; two peers, two queue items.
MCDescribed ==
    [sites |-> {<<"t">>, <<"t", "h">>, <<"h">>}, peers |-> {<<"x">>, <<"y">>}, queue |-> {<<"x">>, <<"y">>}]

\* Two views, of a scope each.
MCViews == {<<"s">>, <<"t">>}

============================================================================
