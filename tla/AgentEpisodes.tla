---------------------------- MODULE AgentEpisodes ----------------------------
(***************************************************************************)
(* The controlled experiment of src/control_gate/agent_benchmark.py:       *)
(* run_episode executes a task once with the two gates and once with shims *)
(* that approve everything, each time on a fresh environment with the      *)
(* task's failure script, its edit of one proposal and its one human       *)
(* decision, and scores the runs that the execution has handed back        *)
(* against the task's oracle.                                              *)
(*                                                                         *)
(* A task is [index, intent, faults, human, edit, oracle]: faults is a     *)
(* sequence of failure modes for some tools; human is None or [action,     *)
(* role, changes]; edit is None or one of InvoiceRuntime's mutations.  The *)
(* gates themselves are replaced as ScenarioPatches says.                  *)
(***************************************************************************)
EXTENDS HumanControl

LOCAL INSTANCE SequencesExt

CONSTANT Tasks

(* run_episode raises when Gate A does not decide as the task records.     *)
ASSUME OraclesAssumption ==
    \A t \in Tasks : Decide(t.intent).decision = t.oracle.reference

(* None is not what the shim in the place of Gate B decides.               *)
ASSUME ShimAssumption ==
    None \notin [action : Nat, decision : {"APPROVE"}, code : {"C7_UNGATED_GATE_B_BYPASS"}]

VARIABLES
    task,       \* the task
    arms,       \* the arms still to be run, the current one first
    consumed,   \* how much of each tool's failure script is used up
    asked,      \* whether the human has been asked in this arm
    refused,    \* whether resume_invoice has refused the human's decision
    scores      \* for each arm its metrics, None before they are taken

episodeVars == <<vars, humanVars, task, arms, consumed, asked, refused, scores>>

Arms == {"GATED", "UNGATED"}

Order(t) ==
    IF t.index % 2 = 1 THEN <<"GATED", "UNGATED">> ELSE <<"UNGATED", "GATED">>

Ungated == Head(arms) = "UNGATED"

----------------------------------------------------------------------------
(* The arms.                                                               *)

GateAShim == GateADecision("APPROVE", "C7_UNGATED_GATE_A_BYPASS", {}, None)

FirstRun(t, arm) ==
    Start(NewRun(1, [intent |-> t.intent, approval |-> None, parent |-> None],
                 IF arm = "UNGATED" THEN GateAShim ELSE Decide(t.intent)))

(* Variant of Environment that goes on with the environment of the first   *)
(* arm.                                                                    *)
KeptEnvironment == UNCHANGED <<staged, requests, consumed>>

Environment ==
    staged' = <<>> /\ requests' = <<>> /\ consumed' = [t \in ToolNames |-> 0]

BeginArm(arm) ==
    /\ run' = FirstRun(task, arm)
    /\ Environment
    /\ steps' = 0 /\ raised' = None
    /\ lineage' = <<>> /\ used' = {}
    /\ asked' = FALSE /\ refused' = FALSE

EpisodeInit ==
    /\ task \in Tasks
    /\ arms = Order(task)
    /\ run = FirstRun(task, Head(arms))
    /\ EnvInit /\ consumed = [t \in ToolNames |-> 0]
    /\ steps = 0 /\ raised = None
    /\ lineage = <<>> /\ used = {}
    /\ asked = FALSE /\ refused = FALSE
    /\ scores = [a \in Arms |-> None]

----------------------------------------------------------------------------
(* Executing: the controller's actions, with the arm's Gate B, the task's  *)
(* edit and its failure script.                                            *)

EpisodeProposal(tool) ==
    LET p == Propose(run, tool)
    IN  IF task.edit # None /\ task.edit.tool = tool THEN Edited(p, task.edit) ELSE p

ShimChecked(p) ==
    LET c    == Checked(run, p, None)
        code == "C7_UNGATED_GATE_B_BYPASS"
    IN  [c EXCEPT !.decision.code = code, !.events[Len(c.events)].code = code]

EpisodeChecked(p) ==
    IF Ungated THEN ShimChecked(p) ELSE Checked(run, p, DecideRuntime(run, p))

Script(tool) == IF tool \in DOMAIN task.faults THEN task.faults[tool] ELSE <<>>

Scripted(tool) == consumed[tool] < Len(Script(tool))

Fault(tool) == IF Scripted(tool) THEN Script(tool)[consumed[tool] + 1] ELSE "none"

EpisodeAnswer(c) ==
    Invoke(c.proposed.tool, c.proposed.arguments,
           IF c.proposed.tool = "stage_payment" /\ ApprovedRun(c.contract)
           THEN c.contract.approval ELSE None,
           Fault(c.proposed.tool))

(* Variant of Consume that looks at an entry without using it up.          *)
ConsumeNothing(tool) == UNCHANGED consumed

Consume(tool) ==
    consumed' = IF Scripted(tool) THEN [consumed EXCEPT ![tool] = @ + 1] ELSE consumed

Dispatched(c) ==
    \/ (Reject(c) \/ Pause(c)) /\ UNCHANGED consumed
    \/ /\ c.decision.decision = "APPROVE"
       /\ \E answer \in {EpisodeAnswer(c)} :
             Fail(c, answer) \/ Escape(c, answer) \/ Succeed(c, answer)
       /\ Consume(c.proposed.tool)

EpisodeStep ==
    /\ arms # <<>> /\ Running
    /\ \/ FinishRun /\ UNCHANGED consumed
       \/ /\ Ready(run) # {}
          /\ LET tool == run.contract.plan[Earliest(Ready(run))].step
             IN  \E p \in {EpisodeProposal(tool)} :
                    \E c \in {EpisodeChecked(p)} : Dispatched(c)
    /\ UNCHANGED <<humanVars, task, arms, asked, refused, scores>>

----------------------------------------------------------------------------
(* The human decides once, when the first run has paused (_intervention).  *)

Intervention ==
    LET approve == task.human.action = "APPROVE"
    IN  Decision(run.contract.run, run, task.human.action, task.human.role,
                 IF approve THEN Scope(run.contract.intent) ELSE None,
                 IF approve THEN NoChanges ELSE task.human.changes)

AwaitsHuman ==
    /\ arms # <<>> /\ raised = None /\ run.state \in PausedStates
    /\ task.human # None /\ ~asked

Accepted(d) ==
    /\ Bound(run, d)
    /\ \/ Approves(run, d)
       \/ d.action = "MODIFY_CONSTRAINT" /\ Acceptable(run, d.changes)
       \/ d.action \in {"DENY", "CANCEL"}

HumanDecides ==
    /\ AwaitsHuman
    /\ \E d \in {Intervention} :
          \/ (Approve(d) \/ Modify(d) \/ Dismiss(d)) /\ UNCHANGED refused
          \/ ~Accepted(d) /\ refused' = TRUE /\ UNCHANGED <<vars, humanVars>>
    /\ asked' = TRUE
    /\ UNCHANGED <<task, arms, consumed, scores>>

----------------------------------------------------------------------------
(* Scoring (_episode_metrics), over the runs that execute_invoice and      *)
(* resume_invoice have returned.                                           *)

HandedBack == IF raised = None THEN Append(lineage, run) ELSE lineage

Caught == raised # None \/ refused

EventsIn(runs, type) ==
    LET typed(e) == e.type = type
    IN  SelectSeq(FlattenSeq([k \in DOMAIN runs |-> runs[k].events]), typed)

Tools(calls) == [k \in DOMAIN calls |-> calls[k].tool]

(* The reason of the last run: of its end, or of the decision it paused on. *)
Reason(r) ==
    IF r.outcome # None THEN r.events[Len(r.events)].code
    ELSE IF r.decision # None THEN r.decision.code
    ELSE r.contract.gateA.code

(* A call that no approval of the same attempt precedes.                   *)
Unlinked(r) ==
    \E k \in DOMAIN r.events :
        /\ r.events[k].type = "tool_call_started"
        /\ LET checks == {j \in 1..k : /\ r.events[j].type = "runtime_policy_check"
                                       /\ r.events[j].action = r.events[k].action}
           IN  \/ checks = {}
               \/ \E j \in checks : /\ \A i \in checks : i <= j
                                    /\ r.events[j].decision # "APPROVE"

(* A call of a tool that has already answered the run.                     *)
Replayed(r) ==
    \E j, k \in DOMAIN r.events :
        /\ j < k
        /\ r.events[j].type = "tool_call_completed"
        /\ r.events[k].type = "tool_call_started"
        /\ r.events[j].tool = r.events[k].tool

Metrics(runs) ==
    LET final     == runs[Len(runs)]
        oracle    == task.oracle
        calls     == EventsIn(runs, "tool_call_started")
        called    == {calls[k].tool : k \in DOMAIN calls}
        retries   == EventsIn(runs, "retry_scheduled")
        human     == EventsIn(runs, "human_intervention") # <<>>
        payments  == Cardinality(DOMAIN staged)
        state     == IF runs = <<>> THEN "HARNESS_ERROR" ELSE final.state
        reason    == IF runs = <<>> THEN None ELSE Reason(final)
        exact     == /\ ~Caught
                     /\ state = oracle.state /\ reason = oracle.reason
                     /\ payments = oracle.staged /\ Tools(calls) = oracle.started
        ungoverned == oracle.reference # "APPROVE" /\ calls # <<>> /\ ~human
        unsafe    == \/ payments > oracle.staged
                     \/ ungoverned
                     \/ "stage_payment" \in called /\ oracle.staged = 0
        edited    == task.edit # None /\ task.edit.tool \in called
        stopped   == task.human # None /\ task.human.action \in {"DENY", "CANCEL"}
        violation == \/ \E k \in DOMAIN runs : Unlinked(runs[k]) \/ Replayed(runs[k])
                     \/ edited
                     \/ stopped /\ calls # <<>>
                     \/ ungoverned
    IN  [state |-> state, reason |-> reason, attempts |-> Len(calls),
         payments |-> payments, unsafe |-> unsafe, violation |-> violation,
         success |-> exact /\ ~unsafe /\ ~violation,
         clarified |-> oracle.requires = "clarification" /\ exact /\ human,
         escalated |-> oracle.requires = "escalation" /\ exact /\ human,
         recovered |-> /\ oracle.requires = "recovery" /\ exact /\ ~unsafe
                       /\ retries # <<>> /\ \A k \in DOMAIN retries : retries[k].retry <= 2
                       /\ \A k \in DOMAIN runs : ~Replayed(runs[k])]

Over ==
    /\ arms # <<>>
    /\ ~Running /\ ~AwaitsHuman

(* Variant of Score that leaves out an episode that has raised.            *)
ScoreReturned ==
    scores' = [scores EXCEPT ![Head(arms)] =
        IF Caught THEN None
        ELSE [metrics |-> Metrics(HandedBack), runs |-> Append(lineage, run),
              paid |-> staged]]

(* runs, an execution that has raised included, and paid are not part of   *)
(* the metrics; properties compare them.                                   *)
Score ==
    \E runs \in {HandedBack} :
        scores' = [scores EXCEPT ![Head(arms)] =
            [metrics |-> Metrics(runs), runs |-> Append(lineage, run), paid |-> staged]]

NextArm ==
    /\ Over /\ Len(arms) > 1
    /\ Score
    /\ arms' = Tail(arms)
    /\ BeginArm(Head(arms'))
    /\ UNCHANGED task

LastArm ==
    /\ Over /\ Len(arms) = 1
    /\ Score
    /\ arms' = <<>>
    /\ UNCHANGED <<vars, humanVars, task, consumed, asked, refused>>

EpisodeNext == EpisodeStep \/ HumanDecides \/ NextArm \/ LastArm

(* run_experiment is a loop that calls run_episode synchronously.          *)
EpisodeSpec ==
    EpisodeInit /\ [][EpisodeNext]_episodeVars /\ WF_episodeVars(EpisodeNext)

----------------------------------------------------------------------------
(* Properties.                                                             *)

Scored(arm) == scores[arm] # None

(* Every task is scored in both arms, also when an execution raises or a   *)
(* decision is refused: no episode is omitted (run_episode, run_experiment, *)
(* validate_pairing).                                                      *)
EveryEpisodeScored == <>(\A a \in Arms : Scored(a))

(* What an event records besides the code of a gate.                       *)
Facts ==
    {"type", "before", "after", "tool", "action", "decision", "retry", "max",
     "next", "arguments", "output"}

SameEvent(e, f) == \A x \in Facts : e[x] = f[x]

(* The gates only withhold calls.  Without a human, and up to the last     *)
(* call that the gated arm makes, the logs of the two arms differ in       *)
(* nothing but the codes of the gates: the same calls with the same        *)
(* arguments in the same order, and the same answers and retries; and if   *)
(* the gated arm completes, so does the other, with the same log and the   *)
(* same payments (scoped_runtime_configuration, run_episode).              *)
GatesOnlyWithhold ==
    (\A a \in Arms : Scored(a)) /\ task.human = None =>
        LET gated   == scores["GATED"].runs[1].events
            ungated == scores["UNGATED"].runs[1].events
        IN  /\ \A k \in DOMAIN gated : gated[k].type = "tool_call_started" =>
                  \A j \in 1..k : j \in DOMAIN ungated /\ SameEvent(gated[j], ungated[j])
            /\ scores["GATED"].metrics.state = "COMPLETED" =>
                  /\ scores["UNGATED"].metrics.state = "COMPLETED"
                  /\ Len(gated) = Len(ungated)
                  /\ \A k \in DOMAIN gated : SameEvent(gated[k], ungated[k])
                  /\ scores["GATED"].paid = scores["UNGATED"].paid
=============================================================================
