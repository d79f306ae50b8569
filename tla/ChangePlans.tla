----------------------------- MODULE ChangePlans -----------------------------
(***************************************************************************)
(* Compass change plans: PlanRepository and the editing functions of       *)
(* compass/service.py, the lifecycle of compass/lifecycle.py, and the      *)
(* requests that use them (compass_* of web/routes.py and                  *)
(* web/lifecycle_routes.py, compass_approve of web/ops.py).                *)
(*                                                                         *)
(* The plans file has no lock.  A request reads the plan and checks the    *)
(* revision of its form, computes a new plan, and saves it: the entries    *)
(* are read again, the file is truncated, and written.  Another request    *)
(* may take a step in between, and the server may die.  The module follows *)
(* one plan; what is planned in a change is a number of its own, and of    *)
(* texts, windows and reviewers only whether they are there is kept.       *)
(***************************************************************************)
EXTENDS Integers, FiniteSets

CONSTANTS
    Planners,          \* who works on the plan, each in a browser of its own
    FirstPlans,        \* what the file may hold at first
    ChangeIds,         \* c1, c2, ... as numbers
    MaxPlanSaves,      \* bound: saves of the plan, and overlaps of requests
    MaxChanges,        \* bound: changes ever added
    MaxMishaps         \* bound: overlaps of requests and deaths of the server

VARIABLES
    plan,              \* plans.json: the plan, NoPlan, or TornPlan
    planner,           \* planner -> its page, and where its request stands
    told,              \* the statuses that the incident case was told of
    added,             \* changes added so far
    saves,             \* saves so far
    planDeaths,        \* deaths of the server so far
    planCrossed        \* requests so far that began while another was under way

planVars == <<plan, planner, told, added, saves, planDeaths, planCrossed>>

\* The lifecycle, and where a decision to approve has taken the plan.
Finished == {"completed", "rolled-back", "cancelled"}
PlanStatuses ==
    {"draft", "analysed", "in-review", "approved", "rejected", "scheduled", "running", "failed"}
        \cup Finished
Approved == {"approved", "scheduled", "running", "completed", "failed", "rolled-back"}

NoPlan == [status |-> "absent", rev |-> 0]
TornPlan == [status |-> "torn", rev |-> 0]

\* load: a file that cannot be read has no entries.
HasPlan == plan \notin {NoPlan, TornPlan}

\* A plan as create_plan makes it.  `changes' maps ids to what is planned, and
\* `log' the ids with a checkpoint to the latest one; `ordered' says that
\* validate_order finds no problem, `ready' that rollback plan, criteria and
\* checks are there, `pre' and `post' how the checks stand and `checks' which
\* ones they are.  `assessed' and `approval' hold the changes that the
\* assessment is about and the ones on the approver's page, if there is one.
NewPlan ==
    [status |-> "draft", rev |-> 0, changes |-> <<>>, ordered |-> TRUE, ready |-> FALSE,
     pre |-> "none", post |-> "none", checks |-> 0, log |-> <<>>, incident |-> FALSE,
     assessed |-> {}, approval |-> {}]

ChangeMaps == UNION {[ids -> 1 .. MaxChanges] : ids \in SUBSET ChangeIds}
Checkpoints == UNION {[ids -> {"done", "failed"}] : ids \in SUBSET ChangeIds}
CheckResults == {"none", "pending", "passed", "failed"}
PlanRecord ==
    [status : PlanStatuses, rev : Nat, changes : ChangeMaps, ordered : BOOLEAN, ready : BOOLEAN,
     pre : CheckResults, post : CheckResults, checks : Nat,
     log : Checkpoints,
     incident : BOOLEAN, assessed : SUBSET ChangeMaps, approval : SUBSET ChangeMaps]

\* What is there at first has been saved, and has not come to an end; if it is
\* executed already, then not for a case.
SavedBefore(p) ==
    /\ p \in PlanRecord /\ p.rev >= 1 /\ p.checks = 0
    /\ p.status \notin Finished \cup {"failed"}
    /\ p.status = "running" => ~p.incident /\ p.pre \in {"none", "passed"}
    /\ p.status \in {"analysed", "in-review"} \cup Approved => p.assessed = {p.changes}
    /\ p.status \in Approved => p.approval = {p.changes}

ASSUME PlanAssumption ==
    /\ ChangeIds \subseteq Nat /\ IsFiniteSet(ChangeIds)
    /\ \A p \in FirstPlans : p \in {NoPlan, TornPlan} \/ SavedBefore(p)
    /\ MaxPlanSaves \in Nat /\ MaxChanges \in Nat /\ MaxMishaps \in Nat

\* What the page shows of a plan that its forms depend on.
Shown(p) ==
    [status |-> p.status, rev |-> p.rev, changes |-> p.changes,
     checks |-> p.checks, due |-> {phase \in {"pre", "post"} : p[phase] = "pending"},
     open |-> DOMAIN p.changes \ DOMAIN p.log]
NothingShown ==
    [status |-> "absent", rev |-> 0, changes |-> <<>>, checks |-> 0, due |-> {}, open |-> {}]

\* `work' is the plan to be saved, `fresh' the assessment to be saved with it,
\* `tell' the status to tell the case.
RestingPlanner ==
    [pc |-> "rest", page |-> NothingShown, work |-> NoPlan, fresh |-> {}, tell |-> "none"]

PlanInit ==
    /\ plan \in FirstPlans
    /\ planner = [u \in Planners |-> RestingPlanner]
    /\ told = {}
    /\ added = IF HasPlan THEN Cardinality(DOMAIN plan.changes) ELSE 0
    /\ saves = 0
    /\ planDeaths = 0
    /\ planCrossed = 0

-----------------------------------------------------------------------------
(* What the operations make of the plan p that a request read; the empty   *)
(* set when they refuse.                                                   *)

When(allowed, p) == IF allowed THEN {p} ELSE {}

With(f, c, v) == [d \in DOMAIN f \cup {c} |-> IF d = c THEN v ELSE f[d]]

\* compass_add_change gives out the first id that is not taken.
FreeIds(p) == ChangeIds \ DOMAIN p.changes
FirstFree(p) == CHOOSE c \in FreeIds(p) : \A d \in FreeIds(p) : c <= d

\* add_change.
AddChange(p) == {[p EXCEPT !.changes = With(@, FirstFree(p), added + 1), !.status = "draft"]}

\* remove_change: other changes may have depended on this one.
RemoveChange(p, c) ==
    LET rest == DOMAIN p.changes \ {c} IN
    {[p EXCEPT !.changes = [d \in rest |-> p.changes[d]], !.ordered = ok, !.status = "draft"] :
        ok \in IF rest = {} THEN {TRUE} ELSE {p.ordered, FALSE}}

\* analyse_plan_for_workspace; the assessment goes to the save.
AnalysePlan(p) == [p EXCEPT !.status = "analysed"]

\* reorder_change and set_dependencies: what does not validate is refused, and
\* an order that stays as it was makes the plan a draft all the same.
Arrange(p) ==
    When(p.status \in {"draft", "analysed"} /\ p.changes # <<>>,
         [p EXCEPT !.ordered = TRUE, !.status = "draft"])

\* update_readiness: the checks start anew, with ids that no other save gives out;
\* all texts are there, or not.
UpdateReadiness(p) ==
    UNION {When(p.status \in {"draft", "analysed", "in-review"},
                [p EXCEPT !.ready = there, !.pre = IF there THEN "pending" ELSE "none",
                          !.post = IF there THEN "pending" ELSE "none", !.checks = saves + 1]) :
              there \in BOOLEAN}

\* submit_for_review, with readiness_gaps.
SubmitForReview(p) ==
    When(p.status = "analysed" /\ p.changes # <<>> /\ p.ready /\ p.ordered,
         [p EXCEPT !.status = "in-review"])

\* decide_review and decide_plan, by an approver whose page shows `seen'.
DecideReview(p, seen) ==
    UNION {When(p.status = "in-review", [p EXCEPT !.status = decision, !.approval = {seen}]) :
              decision \in {"approved", "draft"}}

DecidePlan(p, seen) ==
    UNION {When(p.status = "analysed", [p EXCEPT !.status = decision, !.approval = {seen}]) :
              decision \in {"approved", "rejected"}}

\* schedule.
Schedule(p) == When(p.status = "approved", [p EXCEPT !.status = "scheduled"])

\* record_check, for the checks of a phase together, by their ids.
RecordCheck(p, phase, checks) ==
    UNION {When(/\ p.checks = checks
                /\ p.status \in IF phase = "pre" THEN {"scheduled", "running"} ELSE {"running"}
                /\ p[phase] # "none", [p EXCEPT ![phase] = r]) : r \in {"passed", "failed"}}

StartExecution(p) ==
    When(p.status = "scheduled" /\ p.pre \notin {"failed", "pending"}, [p EXCEPT !.status = "running"])

\* checkpoint_change; a change that is skipped counts as done.
Checkpoint(p, c) ==
    UNION {When(p.status = "running" /\ c \in DOMAIN p.changes, [p EXCEPT !.log = With(@, c, r)]) :
              r \in {"done", "failed"}}

\* Mutant: changes without a checkpoint are not looked for.
CompleteUnrecorded(p) ==
    When(/\ p.status = "running"
         /\ \A c \in DOMAIN p.log : p.log[c] # "failed"
         /\ p.post \notin {"pending", "failed"},
         [p EXCEPT !.status = "completed"])

Complete(p) ==
    When(/\ p.status = "running"
         /\ DOMAIN p.changes \subseteq DOMAIN p.log
         /\ \A c \in DOMAIN p.log : p.log[c] # "failed"
         /\ p.post \notin {"pending", "failed"},
         [p EXCEPT !.status = "completed"])

\* fail and rollback.
Fail(p) == When(p.status = "running", [p EXCEPT !.status = "failed"])
Rollback(p) == When(p.status = "failed", [p EXCEPT !.status = "rolled-back"])

\* cancel.
Cancel(p) == When(p.status \notin Finished, [p EXCEPT !.status = "cancelled"])

-----------------------------------------------------------------------------
(* Requests.                                                               *)

\* A request begins: its thread has read the plan and computed another one.
InFlight == {u \in Planners : planner[u].pc # "rest"}

Begins(u, pc, work, fresh, tell) ==
    /\ planner[u].pc = "rest"
    /\ planner' = [planner EXCEPT ![u].pc = pc, ![u].work = work, ![u].fresh = fresh, ![u].tell = tell]
    /\ IF InFlight = {} THEN UNCHANGED planCrossed
       ELSE planCrossed + planDeaths < MaxMishaps /\ planCrossed' = planCrossed + 1
    /\ saves + planCrossed' < MaxPlanSaves
    /\ UNCHANGED <<plan, told, saves, planDeaths>>

\* compass_plan_page.
DisplayPlan(u) ==
    /\ planner[u].pc = "rest"
    /\ HasPlan
    /\ planner' = [planner EXCEPT ![u].page = Shown(plan)]
    /\ UNCHANGED <<plan, told, added, saves, planDeaths, planCrossed>>

\* Mutant: forms are not checked against the plan.
FormIsAny(u) == planner[u].page # NothingShown /\ HasPlan

\* check_revision of the form that the page carries.
FormIsCurrent(u) == planner[u].page # NothingShown /\ HasPlan /\ planner[u].page.rev = plan.rev

\* The page shows the forms that its plan's status calls for.
Offered(u, statuses) == planner[u].page.status \in statuses

Editable == {"draft", "analysed"}

\* compass_approve.
Decide(p, seen) == DecideReview(p, seen) \cup DecidePlan(p, seen)

\* compass_readiness, compass_reorder, compass_dependencies, compass_submit,
\* compass_approve and compass_schedule.
Review(u) ==
    LET page == planner[u].page IN
    /\ FormIsCurrent(u)
    /\ \E p \in UNION {IF Offered(u, Editable) THEN Arrange(plan) ELSE {},
                       IF Offered(u, Editable \cup {"in-review"}) THEN UpdateReadiness(plan) ELSE {},
                       IF Offered(u, {"analysed"}) THEN SubmitForReview(plan) ELSE {},
                       IF Offered(u, {"in-review"}) THEN Decide(plan, page.changes) ELSE {},
                       IF Offered(u, {"approved"}) THEN Schedule(plan) ELSE {}} :
         Begins(u, "loading", p, {}, "none")
    /\ UNCHANGED added

\* compass_execution: the case is told of a new status.
Execute(u) ==
    LET page == planner[u].page IN
    /\ FormIsCurrent(u)
    /\ \E p \in UNION {IF Offered(u, {"scheduled", "running"})
                         THEN UNION {RecordCheck(plan, phase, page.checks) : phase \in page.due} ELSE {},
                       IF Offered(u, {"scheduled"}) THEN StartExecution(plan) ELSE {},
                       IF Offered(u, {"running"})
                         THEN Complete(plan) \cup Fail(plan)
                              \cup UNION {Checkpoint(plan, c) : c \in page.open}
                         ELSE {},
                       IF Offered(u, {"failed"}) THEN Rollback(plan) ELSE {},
                       IF page.status \notin Finished THEN Cancel(plan) ELSE {}} :
         Begins(u, "loading", p, {}, IF plan.incident /\ p.status # plan.status THEN p.status ELSE "none")
    /\ UNCHANGED added

\* compass_add_change, compass_remove_change and compass_analyse read the plan,
\* whatever its status, and then read it again to check the form.
EditChanges(u) ==
    /\ Offered(u, Editable)
    /\ HasPlan
    /\ \/ /\ FreeIds(plan) # {} /\ added < MaxChanges
          /\ \E p \in AddChange(plan) : Begins(u, "checking", p, {}, "none")
          /\ added' = added + 1
       \/ /\ \E c \in DOMAIN planner[u].page.changes : \E p \in RemoveChange(plan, c) :
               Begins(u, "checking", p, {}, "none")
          /\ UNCHANGED added
       \/ /\ plan.changes # <<>>
          /\ Begins(u, "checking", AnalysePlan(plan), {plan.changes}, "none")
          /\ UNCHANGED added

\* A plan that is gone by now has no revision to disagree with.
CheckEdit(u) ==
    /\ planner[u].pc = "checking"
    /\ planner' = [planner EXCEPT ![u].pc = IF HasPlan => FormIsCurrent(u) THEN "loading" ELSE "rest"]
    /\ UNCHANGED <<plan, told, added, saves, planDeaths, planCrossed>>

\* compass_archive, from the list of plans: no revision is checked.  The marker
\* that it sets or removes is read by lists only.
Archive(u) ==
    /\ HasPlan
    /\ Begins(u, "loading", plan, plan.assessed, "none")
    /\ UNCHANGED added

\* compass_new, for an incident case; a plan that exists would get another id.
CreatePlan(u) ==
    /\ ~HasPlan
    /\ Begins(u, "loading", NewPlan, {}, "none")
    /\ UNCHANGED added

\* ... which saves the new plan once more, with the case's id, if it is there.
LinkPlan(u) ==
    /\ planner[u].pc = "linking"
    /\ planner' = [planner EXCEPT
         ![u].pc = IF HasPlan THEN "loading" ELSE "rest",
         ![u].work = IF HasPlan THEN [plan EXCEPT !.incident = TRUE] ELSE NoPlan,
         ![u].tell = IF HasPlan THEN "linked" ELSE "none"]
    /\ UNCHANGED <<plan, told, added, saves, planDeaths, planCrossed>>

-----------------------------------------------------------------------------
(* save.                                                                   *)

\* The entry's assessment stays unless the request has one; the revision is
\* the one after that of the plan that the request read.
LoadEntries(u) ==
    /\ planner[u].pc = "loading"
    /\ planner' = [planner EXCEPT
         ![u].pc = "truncating",
         ![u].work.rev = @ + 1,
         ![u].work.assessed = IF planner[u].fresh # {} THEN planner[u].fresh
                              ELSE IF HasPlan THEN plan.assessed ELSE {}]
    /\ UNCHANGED <<plan, told, added, saves, planDeaths, planCrossed>>

\* write_text opens the file, and so empties it,
TruncatePlans(u) ==
    /\ planner[u].pc = "truncating"
    /\ plan' = TornPlan
    /\ planner' = [planner EXCEPT ![u].pc = "writing"]
    /\ UNCHANGED <<told, added, saves, planDeaths, planCrossed>>

\* and writes it from its start: over what another request wrote meanwhile,
\* whose end stays if that was longer.
WritePlan(u) ==
    LET p == planner[u].work IN
    /\ planner[u].pc = "writing"
    /\ plan' \in IF plan = TornPlan THEN {p} ELSE {p, TornPlan}
    /\ saves' = saves + 1
    /\ planner' = [planner EXCEPT
         ![u].pc = IF p.rev = 1 THEN "linking" ELSE IF planner[u].tell # "none" THEN "telling" ELSE "rest",
         ![u].work = NoPlan, ![u].fresh = {}]
    /\ UNCHANGED <<told, added, planDeaths, planCrossed>>

\* annotate, or link, of the case (IncidentCases has them).
TellCase(u) ==
    /\ planner[u].pc = "telling"
    /\ told' = told \cup {planner[u].tell}
    /\ planner' = [planner EXCEPT ![u].pc = "rest", ![u].tell = "none"]
    /\ UNCHANGED <<plan, added, saves, planDeaths, planCrossed>>

\* The server dies and is started again; the pages stay open.  A death before
\* the file is truncated is no different from a request that was never sent.
PlanServerDies ==
    /\ \E u \in Planners : planner[u].pc \in {"writing", "linking", "telling"}
    /\ planCrossed + planDeaths < MaxMishaps
    /\ planner' = [u \in Planners |-> [RestingPlanner EXCEPT !.page = planner[u].page]]
    /\ planDeaths' = planDeaths + 1
    /\ UNCHANGED <<plan, told, added, saves, planCrossed>>

PlanNext ==
    \/ \E u \in Planners :
          \/ DisplayPlan(u)
          \/ Review(u)
          \/ Execute(u)
          \/ EditChanges(u)
          \/ CheckEdit(u)
          \/ Archive(u)
          \/ CreatePlan(u)
          \/ LinkPlan(u)
          \/ LoadEntries(u)
          \/ TruncatePlans(u)
          \/ WritePlan(u)
          \/ TellCase(u)
    \/ PlanServerDies

PlanSpec == PlanInit /\ [][PlanNext]_planVars

-----------------------------------------------------------------------------
(* Properties.                                                             *)

\* The plan has a status of the lifecycle, and a request in flight a plan to save.
PlanTypeOK ==
    /\ plan.status \in PlanStatuses \cup {"absent", "torn"}
    /\ HasPlan => DOMAIN plan.changes \subseteq ChangeIds /\ plan.rev \in Nat
    /\ \A u \in Planners : planner[u].pc \in {"checking", "loading", "truncating", "writing"}
                              => planner[u].work.status \in PlanStatuses

\* "an approval can never silently cover changes the approver never saw": the
\* changes of an approved plan are the ones on the page of its approver.  A plan
\* that was lost with its file and made again starts from revision 1 anew, and
\* pages of the lost one may be taken for its own.
PlanApprovalSeen ==
    planDeaths = 0 /\ plan.status \in Approved => plan.approval = {plan.changes}

\* "so the decision covers a concrete assessment": the assessment stored with an
\* approved plan is one of exactly its changes, even after a crash.
PlanApprovalAssessed == plan.status \in Approved => plan.assessed = {plan.changes}

\* "Completing requires every change checkpointed and every post-check
\* recorded", after an approval and with no pre-check left open: whatever
\* requests overlapped, got lost or came from a stale page on the way there.
PlanExecutionRecorded ==
    /\ plan.status \in Approved => plan.approval # {}
    /\ plan.status \in {"running", "completed", "failed", "rolled-back"} => plan.pre # "pending"
    /\ plan.status = "completed" =>
         /\ \A c \in DOMAIN plan.changes : c \in DOMAIN plan.log /\ plan.log[c] = "done"
         /\ plan.post \in {"none", "passed"}

\* "A pre-check failed -- resolve it (or cancel the plan) before starting": and
\* none fails, or is reset, once the plan runs.
PlanChecksPassed == plan.status \in {"running", "completed"} => plan.pre \in {"none", "passed"}

\* "Terminal states feed evidence back to the incident": once no request is in
\* flight, the case has been told of the status its plan executed to.
PlanCaseTold ==
    planDeaths = 0 /\ InFlight = {} /\ HasPlan =>
        (plan.incident /\ plan.status \in Finished \cup {"running", "failed"} => plan.status \in told)

\* The plan through edits, review and execution from pages that may be stale,
\* and through deaths of the server.  The file has no lock: what relates the
\* plan to its approval, its checks and its case holds while requests follow
\* one another, and what is recorded of an execution even when they overlap.
PlansSound ==
    /\ PlanTypeOK
    /\ PlanExecutionRecorded
    /\ planCrossed = 0 =>
         /\ PlanApprovalSeen
         /\ PlanApprovalAssessed
         /\ PlanChecksPassed
         /\ PlanCaseTold

=============================================================================
