--------------------------- MODULE FounderRuntime ---------------------------
(***************************************************************************)
(* What the runtime's commands do to a project: FounderOSApplication of    *)
(* src/founderos_runtime/application.py with the Founder Setup and         *)
(* Discovery services, the run and lifecycle services and the guarded      *)
(* state machine they call.                                                *)
(*                                                                         *)
(* A command loads the project, works on it in memory and saves it once at *)
(* the end; when any service raises, nothing is saved.  LocalStore models  *)
(* the load, the save and the processes that compete for them; here one    *)
(* command is one step.  A record's id is its place in its repository,     *)
(* which keeps the order of creation through a save and a load; an event's *)
(* sequence number is its place in the stream.  What a brief or a report   *)
(* says is left out, and so are the agent runs: each is created, runs and  *)
(* succeeds within the command that produces its artifact, and no command  *)
(* reads one again.                                                        *)
(***************************************************************************)
EXTENDS Naturals, SequencesExt

CONSTANTS
    CommandKeys,    \* idempotency keys a caller may give
    MaxSaved        \* bound: commands ever saved

ASSUME RuntimeAssumption == MaxSaved \in Nat

VARIABLES
    runtime,    \* the saved project and its records
    journal,    \* key -> the operation and the result recorded for it
    saved,      \* how many commands were saved; the store's revision
    effects,    \* history: key -> how often a command with it was saved
    answers     \* history: key -> the results that retries were given

runtimeVars == <<runtime, journal, saved, effects, answers>>

NoKey == "no key"
Unrecorded == [operation |-> "none"]

Operations == {"new", "founder-brief", "approve", "discovery", "approve-opportunity"}
Setup == "Founder Setup Workflow"
Discovery == "Discovery Workflow"

\* empty_runtime, with no project in it.
Empty == [state |-> "none", revision |-> 0, lastEvent |-> 0, raised |-> FALSE,
          events |-> <<>>, runs |-> <<>>, artifacts |-> <<>>, evaluations |-> <<>>,
          approvals |-> <<>>, decisions |-> <<>>]

RuntimeInit ==
    /\ runtime = Empty
    /\ journal = [k \in CommandKeys |-> Unrecorded]
    /\ saved = 0
    /\ effects = [k \in CommandKeys |-> 0]
    /\ answers = [k \in CommandKeys |-> {}]

\* A service raises unless cond holds; the command then saves nothing.
Require(r, cond) == [r EXCEPT !.raised = @ \/ ~cond]

Event(type) == [type |-> type]
Emit(r, event) == [r EXCEPT !.events = Append(@, event)]

---------------------------------------------------------------------------
(* Runs, artifacts, evaluations, approvals and decisions                   *)

WorkflowAllowed ==
    [queued    |-> {"running", "cancelled"},
     running   |-> {"waiting_for_input", "waiting_for_approval", "succeeded", "failed", "cancelled"},
     succeeded |-> {}]

CreateRun(r, workflow, entry) ==
    [Require(r, r.state = entry) EXCEPT !.runs = Append(@, [workflow |-> workflow, status |-> "queued"])]

SetStatus(r, w, status) ==
    Emit([Require(r, status \in WorkflowAllowed[r.runs[w].status]) EXCEPT !.runs[w].status = status],
         Event(IF status = "running" THEN "workflow.started" ELSE "workflow.completed"))

\* The newest of the records with these places; 0 when there is none.
Newest(places) == IF places = {} THEN 0 ELSE CHOOSE i \in places : \A j \in places : j <= i

\* The place of the last run that is in one of these statuses.
LastRun(r, statuses) == Newest({w \in DOMAIN r.runs : r.runs[w].status \in statuses})

\* An agent run for workflow run w produces an artifact, its evaluation, which
\* always passes, and the request for its approval.
Produce(r, w, type) ==
    LET started == Emit(Require(r, r.runs[w].status \in {"running", "waiting_for_input"}),
                        Event("agent.started"))
        artifact == Emit([started EXCEPT !.artifacts =
                            Append(@, [type |-> type, status |-> "under_review", approval |-> 0])],
                         Event("artifact.created"))
        evaluated == Emit([artifact EXCEPT !.evaluations =
                             Append(@, [artifact |-> Len(artifact.artifacts), outcome |-> "pass"])],
                          Event("evaluation.completed"))
        requested == Emit([evaluated EXCEPT !.approvals =
                             Append(@, [artifact |-> Len(artifact.artifacts), status |-> "pending"])],
                          Event("approval.requested"))
    IN Emit(requested, Event("agent.completed"))

\* ApprovalLifecycleService.approve; the callers of the commands are human.
ApproveApproval(r, a) ==
    IF r.approvals[a].status = "approved" THEN r
    ELSE Emit([Require(r, r.approvals[a].status = "pending") EXCEPT !.approvals[a].status = "approved"],
              Event("approval.decided"))

ApproveArtifact(r, i, a) ==
    Emit([r EXCEPT !.artifacts[i] = [@ EXCEPT !.status = "approved", !.approval = a]],
         Event("artifact.approved"))

Decide(r, i, a) ==
    Emit([r EXCEPT !.decisions = Append(@, [artifact |-> i, approval |-> a])], Event("decision.approved"))

---------------------------------------------------------------------------
(* The state machine                                                       *)

\* The routes the commands take and what each of them requires.
Route(from, to) ==
    CASE from = "NO_PROJECT" /\ to = "FOUNDER_SETUP" ->
           [types |-> {}, statuses |-> {"queued", "running"},
            evaluation |-> FALSE, decision |-> FALSE, approval |-> FALSE]
      [] from = "FOUNDER_SETUP" /\ to = "FOUNDER_BRIEF_COMPLETE" ->
           [types |-> {"founder_brief"}, statuses |-> {"succeeded"},
            evaluation |-> TRUE, decision |-> FALSE, approval |-> TRUE]
      [] from = "FOUNDER_BRIEF_COMPLETE" /\ to = "DISCOVERY_RUNNING" ->
           [types |-> {}, statuses |-> {"running"},
            evaluation |-> FALSE, decision |-> FALSE, approval |-> TRUE]
      [] from = "DISCOVERY_RUNNING" /\ to = "OPPORTUNITY_SELECTED" ->
           [types |-> {"opportunity_report"}, statuses |-> {"succeeded"},
            evaluation |-> FALSE, decision |-> TRUE, approval |-> TRUE]

\* Nothing of the evidence a command may name.
NoEvidence == [artifacts |-> {}, evaluations |-> {}, decisions |-> {}, approvals |-> {}]

\* Every guard of transition.  The expected revision and the transition's
\* correlation id are always new: the command has just loaded the project.
Guards(r, from, to, w, evidence) ==
    LET requirement == Route(from, to)
    IN /\ r.state = from
       /\ r.runs[w].status \in requirement.statuses
       /\ requirement.types \subseteq
            {r.artifacts[i].type : i \in {j \in evidence.artifacts : r.artifacts[j].status = "approved"}}
       /\ requirement.evaluation =>
            /\ evidence.evaluations # {}
            /\ \A e \in evidence.evaluations : r.evaluations[e].outcome = "pass"
       /\ requirement.decision => evidence.decisions # {}
       /\ requirement.approval =>
            /\ evidence.approvals # {}
            /\ \A a \in evidence.approvals : r.approvals[a].status = "approved"

\* Mutant: the event carries the revision the project had.
TransitionUncounted(r, from, to, w, evidence) ==
    LET guarded == Require(r, Guards(r, from, to, w, evidence))
    IN Emit([guarded EXCEPT !.state = to, !.revision = r.revision + 1, !.lastEvent = Len(r.events) + 1],
            [type |-> "transition.applied", from |-> from, to |-> to, revision |-> r.revision])

\* _apply.  A rejected transition makes every command raise.
Transition(r, from, to, w, evidence) ==
    LET guarded == Require(r, Guards(r, from, to, w, evidence))
    IN Emit([guarded EXCEPT !.state = to, !.revision = r.revision + 1, !.lastEvent = Len(r.events) + 1],
            [type |-> "transition.applied", from |-> from, to |-> to, revision |-> r.revision + 1])

---------------------------------------------------------------------------
(* The commands                                                            *)

CreateProject(r) ==
    Emit([r EXCEPT !.state = "NO_PROJECT", !.revision = 1, !.lastEvent = 1],
         [type |-> "project.created", state |-> "NO_PROJECT", revision |-> 1])

\* Mutant: a second brief opens a run of its own.
StartAnew(r) ==
    LET queued == CreateRun(r, Setup, r.state)
        moved == IF r.state = "NO_PROJECT"
                 THEN Transition(queued, "NO_PROJECT", "FOUNDER_SETUP", Len(queued.runs), NoEvidence)
                 ELSE queued
    IN SetStatus(moved, Len(moved.runs), "running")

\* FounderSetupService.start: open the run and move the project, or go on with
\* the run that is open.
Start(r) ==
    LET open == LastRun(r, {"queued", "running"})
        queued == IF r.state = "NO_PROJECT" \/ open = 0 THEN CreateRun(r, Setup, r.state) ELSE r
        moved == IF r.state = "NO_PROJECT"
                 THEN Transition(queued, "NO_PROJECT", "FOUNDER_SETUP", Len(queued.runs), NoEvidence)
                 ELSE queued
        w == LastRun(moved, {"queued", "running"})
    IN IF moved.runs[w].status = "queued" THEN SetStatus(moved, w, "running") ELSE moved

\* The planner recommends Founder Setup in these states only.
FounderBrief(r) ==
    IF r.state \notin {"NO_PROJECT", "FOUNDER_SETUP"} THEN Require(r, FALSE)
    ELSE LET started == Start(r)
         IN Produce(started, LastRun(started, {"queued", "running"}), "founder_brief")

PendingApprovals(r) == {a \in DOMAIN r.approvals : r.approvals[a].status = "pending"}

EvaluationsOf(r, i) == {e \in DOMAIN r.evaluations : r.evaluations[e].artifact = i}

\* The approval that `approve' is about: the newest pending one, when it is
\* about a brief and a workflow is running; 0 when it raises.
PendingBrief(r) ==
    LET a == Newest(PendingApprovals(r))
        i == r.approvals[a].artifact
    IN IF a = 0 \/ LastRun(r, {"running"}) = 0 THEN 0
       ELSE IF r.artifacts[i].type # "founder_brief" \/ EvaluationsOf(r, i) = {} THEN 0 ELSE a

\* approve_founder_brief, then complete.
ApproveBrief(r) ==
    LET a == PendingBrief(r)
        i == r.approvals[a].artifact
        w == LastRun(r, {"running"})
    IN IF a = 0 THEN Require(r, FALSE)
       ELSE Transition(SetStatus(ApproveArtifact(ApproveApproval(r, a), i, a), w, "succeeded"),
              "FOUNDER_SETUP", "FOUNDER_BRIEF_COMPLETE", w,
              [NoEvidence EXCEPT !.artifacts = {i}, !.approvals = {a},
                                 !.evaluations = {Newest(EvaluationsOf(r, i))}])

ApprovedBrief(r) ==
    Newest({i \in DOMAIN r.artifacts : r.artifacts[i].type = "founder_brief" /\ r.artifacts[i].status = "approved"})

\* discover, with candidates that score_candidates accepts.
Discover(r) ==
    LET brief == ApprovedBrief(r)
        running == SetStatus(CreateRun(r, Discovery, "FOUNDER_BRIEF_COMPLETE"), Len(r.runs) + 1, "running")
        moved == Transition(running, "FOUNDER_BRIEF_COMPLETE", "DISCOVERY_RUNNING", Len(running.runs),
                   [NoEvidence EXCEPT !.approvals = {r.artifacts[brief].approval}])
    IN IF r.state # "FOUNDER_BRIEF_COMPLETE" \/ brief = 0 THEN Require(r, FALSE)
       ELSE IF r.artifacts[brief].approval = 0 THEN Require(r, FALSE)
       ELSE Produce(moved, Len(moved.runs), "opportunity_report")

\* Mutant: only the oldest pending approval is looked at.
PendingReportOldest(r) ==
    LET oldest == {a \in PendingApprovals(r) : \A b \in PendingApprovals(r) : a <= b}
    IN Newest({a \in oldest : r.artifacts[r.approvals[a].artifact].type = "opportunity_report"})

\* The newest pending approval of an evaluated report; 0 when there is none.
PendingReport(r) ==
    Newest({a \in PendingApprovals(r) :
              LET i == r.approvals[a].artifact
              IN r.artifacts[i].type = "opportunity_report" /\ EvaluationsOf(r, i) # {}})

\* The place of the last running Discovery workflow run.
DiscoveryRun(r) ==
    Newest({w \in DOMAIN r.runs : r.runs[w].status = "running" /\ r.runs[w].workflow = Discovery})

ApproveOpportunity(r) ==
    LET a == PendingReport(r)
        i == r.approvals[a].artifact
        w == DiscoveryRun(r)
        decided == Decide(ApproveArtifact(ApproveApproval(r, a), i, a), i, a)
    IN IF a = 0 \/ w = 0 \/ r.state # "DISCOVERY_RUNNING" THEN Require(r, FALSE)
       ELSE Transition(SetStatus(decided, w, "succeeded"), "DISCOVERY_RUNNING", "OPPORTUNITY_SELECTED", w,
              [artifacts |-> {i}, approvals |-> {a}, decisions |-> {Len(decided.decisions)},
               evaluations |-> {Newest(EvaluationsOf(r, i))}])

Perform(r, operation) ==
    CASE operation = "new" -> CreateProject(r)
      [] operation = "founder-brief" -> FounderBrief(r)
      [] operation = "approve" -> ApproveBrief(r)
      [] operation = "discovery" -> Discover(r)
      [] operation = "approve-opportunity" -> ApproveOpportunity(r)

\* What a command answers: the newest records and the state it left.
Result(r, operation) ==
    [operation |-> operation, state |-> r.state, artifact |-> Len(r.artifacts),
     approval |-> Len(r.approvals), events |-> Len(r.events)]

\* Mutant: a key is not looked up when the operation may be repeated.
OnRecordUnlessRepeatable(operation, k) ==
    IF k = NoKey \/ operation = "founder-brief" THEN Unrecorded ELSE journal[k]

\* _replay_command: what is on record for this key.
OnRecord(operation, k) == IF k = NoKey THEN Unrecorded ELSE journal[k]

\* `new' wants no project, every other command wants one.
StoreFits(operation) == (operation = "new") <=> (saved = 0)

\* A command runs and is saved.
Execute(operation, k) ==
    LET after == Perform(runtime, operation)
        result == Result(after, operation)
    IN /\ saved < MaxSaved
       /\ StoreFits(operation)
       /\ OnRecord(operation, k) = Unrecorded
       /\ ~after.raised
       /\ runtime' = after
       /\ saved' = saved + 1
       /\ IF k = NoKey THEN UNCHANGED <<journal, effects>>
          ELSE /\ journal' = [journal EXCEPT ![k] = result]
               /\ effects' = [effects EXCEPT ![k] = @ + 1]
       /\ UNCHANGED answers

\* A command whose key is on record for the same operation answers what it
\* answered then and saves nothing.
ReplayCommand(operation, k) ==
    /\ saved > 0
    /\ journal[k].operation = operation
    /\ answers' = [answers EXCEPT ![k] = @ \cup {journal[k]}]
    /\ UNCHANGED <<runtime, journal, saved, effects>>

RuntimeNext ==
    \/ \E operation \in Operations, k \in CommandKeys \cup {NoKey} : Execute(operation, k)
    \/ \E operation \in Operations, k \in CommandKeys : ReplayCommand(operation, k)

RuntimeSpec == RuntimeInit /\ [][RuntimeNext]_runtimeVars

---------------------------------------------------------------------------
(* Properties                                                              *)

\* One event's effect on the summary that replay_project_events builds: a
\* second creation, an event before the creation and a transition from another
\* state make it raise.
ReplayEvent(summary, event) ==
    LET bad == \/ summary.raised
               \/ event.type = "project.created" <=> summary.revision # 0
               \/ event.type = "transition.applied" /\ event.from # summary.state
    IN IF bad THEN [summary EXCEPT !.raised = TRUE]
       ELSE CASE event.type = "project.created" ->
                   [summary EXCEPT !.state = event.state, !.revision = event.revision]
              [] event.type = "transition.applied" ->
                   [summary EXCEPT !.state = event.to, !.revision = event.revision]
              [] OTHER -> summary

\* replay_project_events
ReplayProjectEvents(events) ==
    LET after[n \in 0 .. Len(events)] ==
          IF n = 0 THEN [state |-> "none", revision |-> 0, raised |-> FALSE]
          ELSE ReplayEvent(after[n - 1], events[n])
    IN after[Len(events)]

\* The events alone give the project's state and revision; every load and
\* resume compares the two and refuses a project for which they differ.  The
\* project knows the place of the last event that changed it.
ReplayAgrees ==
    saved > 0 =>
        /\ ReplayProjectEvents(runtime.events) =
             [state |-> runtime.state, revision |-> runtime.revision, raised |-> FALSE]
        /\ runtime.lastEvent \in DOMAIN runtime.events
        /\ \A e \in DOMAIN runtime.events :
             runtime.events[e].type \in {"project.created", "transition.applied"} => e <= runtime.lastEvent

\* A workflow run is open exactly while its phase lasts, however many briefs
\* the founder hands in: a phase that is over leaves no run behind.
PhaseHasItsRun ==
    LET open == {w \in DOMAIN runtime.runs : runtime.runs[w].status \in {"queued", "running"}}
    IN IF runtime.state \in {"FOUNDER_SETUP", "DISCOVERY_RUNNING"}
       THEN \E w \in open : open = {w} /\ (runtime.runs[w].workflow = Discovery <=> runtime.state = "DISCOVERY_RUNNING")
       ELSE open = {}

\* The records that count as approved are those that carried the project
\* forward: one brief, then one report with its decision, each with the
\* approval that was about it.  Briefs that were handed in and passed over
\* stay under review for good.
EvidenceFitsState ==
    LET approved(type) == {i \in DOMAIN runtime.artifacts :
                             runtime.artifacts[i].type = type /\ runtime.artifacts[i].status = "approved"}
        briefs == IF runtime.state \in {"none", "NO_PROJECT", "FOUNDER_SETUP"} THEN 0 ELSE 1
        reports == IF runtime.state = "OPPORTUNITY_SELECTED" THEN 1 ELSE 0
    IN /\ Cardinality(approved("founder_brief")) = briefs
       /\ Cardinality(approved("opportunity_report")) = reports
       /\ Len(runtime.decisions) = reports
       /\ \A a \in DOMAIN runtime.approvals :
            LET i == runtime.approvals[a].artifact
            IN runtime.approvals[a].status = "approved" <=>
                 runtime.artifacts[i].status = "approved" /\ runtime.artifacts[i].approval = a

\* The commands always have a way forward: no number of briefs, approvals left
\* pending or retries makes the command that ends a phase raise.
NeverStuck ==
    LET next == [NO_PROJECT |-> "founder-brief", FOUNDER_SETUP |-> "approve",
                 FOUNDER_BRIEF_COMPLETE |-> "discovery", DISCOVERY_RUNNING |-> "approve-opportunity"]
    IN runtime.state \in DOMAIN next => ~Perform(runtime, next[runtime.state]).raised

\* A key takes effect once, and whoever gives it again gets the answer of the
\* command that took effect.
KeyAppliedOnce ==
    \A k \in CommandKeys : effects[k] <= 1 /\ answers[k] \subseteq {journal[k]}

\* Every record refers to records that exist.
RuntimeTypeOK ==
    LET artifacts == DOMAIN runtime.artifacts
    IN /\ saved \in 0 .. MaxSaved
       /\ ~runtime.raised
       /\ \A w \in DOMAIN runtime.runs : runtime.runs[w].status \in DOMAIN WorkflowAllowed
       /\ \A i \in artifacts : runtime.artifacts[i].approval \in {0} \cup DOMAIN runtime.approvals
       /\ \A a \in DOMAIN runtime.approvals : runtime.approvals[a].artifact \in artifacts
       /\ \A e \in DOMAIN runtime.evaluations : runtime.evaluations[e].artifact \in artifacts
       /\ \A k \in CommandKeys : journal[k].operation \in Operations \cup {"none"}

\* Whatever sequence of commands, repeated and retried, the founder gives, the
\* project, its events and its records agree and the journey can go on.
RuntimeSound ==
    /\ RuntimeTypeOK
    /\ ReplayAgrees
    /\ PhaseHasItsRun
    /\ EvidenceFitsState
    /\ NeverStuck
    /\ KeyAppliedOnce

============================================================================
