--------------------------- MODULE InvoiceRuntime ---------------------------
(***************************************************************************)
(* The controller of src/control_gate/invoice_runtime.py.  An execution    *)
(* takes an intent through Gate A, fixes a plan of six tools, and advances *)
(* one LangGraph superstep at a time: propose the next tool, let Gate B    *)
(* decide, call the tool, record what happened, retry a transient failure  *)
(* of a read.  Executions follow each other on one tool environment, whose *)
(* staged payments they share.                                             *)
(*                                                                         *)
(* run is the ExecutionRun; contract holds its fields that no handler      *)
(* changes.  The handlers are operators that map a run to a run and log    *)
(* their events in the order of the code.                                  *)
(***************************************************************************)
EXTENDS ToolEnvironment, GateB

CONSTANTS
    Orders,     \* what _execute is called with: [intent, approval, parent]
    Faults,     \* what may go wrong in a call; "none" when nothing does
    Mutations,  \* edits [tool, argument, key, value] of the proposal made for
                \* a tool, as a scenario injects them; {} in production
    MaxRuns     \* bound: executions on one environment

VARIABLES
    run,        \* the ExecutionRun of the latest execution
    steps,      \* supersteps that its graph has taken
    raised      \* None, or why the exception left execute_invoice

vars == <<run, steps, raised, staged, requests>>

(* What the gates and _execute read of an IntentSpec.                      *)
IntentFields ==
    {"version", "goal", "actor_resolved", "role", "inputs", "ambiguous",
     "approval_rules", "requirements", "currency", "allowed",
     "unbounded_scope", "assumptions", "success", "irreversible", "claims",
     "cap", "prohibited", "failures"}

(* Every intent has them, and None for an input that the request lacks.    *)
ASSUME IntentsAssumption ==
    \A o \in Orders : /\ DOMAIN o.intent = IntentFields
                      /\ ScopeKeys \subseteq DOMAIN o.intent.inputs

(* What resume_invoice has checked before it passes an approval on: a      *)
(* finance manager approved exactly the action of the parent's intent, the *)
(* parent was escalated, which Gate A does itself or leaves to Gate B by   *)
(* its own approval, and the child executes the next version.              *)
Resumes(o) ==
    /\ o.approval.run = o.parent
    /\ o.approval.version = o.approval.digest.version
    /\ Decide(o.approval.digest).decision \in {"APPROVE", "ESCALATE"}
    /\ o.intent = NextVersion(o.approval.digest)
    /\ ScopedApproval(o.approval, Scope(o.intent))

ASSUME OrdersAssumption == \A o \in Orders : o.approval # None => Resumes(o)

ASSUME MaxRunsAssumption == MaxRuns \in Nat

(* What an InjectedFailureMode makes of a call, and what the controller    *)
(* makes of any other ValueError, TypeError or TimeoutError.               *)
ASSUME FaultsAssumption ==
    Faults \subseteq {"none", "TOOL_TIMEOUT", "MALFORMED_TOOL_RESPONSE",
                      "PERMISSION_DENIED", "TOOL_EXECUTION_FAILED"}

(* Arguments that an edit puts in the place of a proposal's are a mapping. *)
ASSUME MutationsAssumption ==
    \A m \in Mutations :
        ~m.argument /\ m.key = "arguments" =>
            m.value = [k \in DOMAIN m.value |-> m.value[k]]

(* The exceptions that may leave execute_invoice, which None is not.       *)
Escapes == {"GRAPH_RECURSION", "UNCAUGHT"}

ASSUME EscapesAssumption == None \notin Escapes

RunFields ==
    {"contract", "state", "approvalState", "questions", "proposed",
     "decision", "history", "evidence", "observations", "retry", "events",
     "outcome"}

----------------------------------------------------------------------------
(* Recording.                                                              *)

Log(r, event) == [r EXCEPT !.events = Append(@, event)]

(* The success conditions that _finish knows how to evidence.              *)
Supported(r) ==
    LET paid == "stage_payment" \in DOMAIN r.evidence
    IN  {c \in {"invoice_validated"} :
            /\ "inspect_invoice" \in DOMAIN r.evidence
            /\ r.evidence["inspect_invoice"].validated}
        \cup {c \in {"payment_authorized"} :
            /\ paid
            /\ r.contract.gateA.decision = "APPROVE" \/ ApprovedRun(r.contract)
            /\ r.decision # None /\ r.decision.decision = "APPROVE"}
        \cup {c \in {"audit_event_written"} :
            \E k \in DOMAIN r.events : /\ r.events[k].type = "tool_call_completed"
                                       /\ r.events[k].tool = "stage_payment"}

FailureCondition(reason) ==
    CASE reason = "DUPLICATE_INVOICE" -> {"duplicate_invoice"}
      [] reason = "INVOICE_PURCHASE_ORDER_MISMATCH" -> {"purchase_order_mismatch"}
      [] OTHER -> {}

Outcome(status, reason, satisfied, failures) ==
    [status |-> status, reason |-> reason, satisfied |-> satisfied,
     failures |-> failures]

(* Variant of Close that reads the state only after it has set it.         *)
CloseWithoutBefore(r, outcome) ==
    LET ended == [r EXCEPT !.state = outcome.status, !.outcome = outcome]
        type  == IF outcome.status = "COMPLETED" THEN "run_completed" ELSE "run_failed"
    IN  Log(ended, [Event(type, ended.state, ended.state) EXCEPT !.code = outcome.reason])

Close(r, outcome) ==
    LET ended == [r EXCEPT !.state = outcome.status, !.outcome = outcome]
        type  == IF outcome.status = "COMPLETED" THEN "run_completed" ELSE "run_failed"
    IN  Log(ended, [Event(type, r.state, outcome.status) EXCEPT !.code = outcome.reason])

(* _finish with a reason, and without one.                                 *)
FinishWith(r, reason, status) ==
    Close(r, Outcome(status, reason, {},
                     FailureCondition(reason) \cap r.contract.intent.failures))

(* Variant of FinishPlan that is content with any success condition.       *)
FinishPlanOnAny(r) ==
    LET satisfied == r.contract.intent.success \cap Supported(r)
    IN  Close(r, IF satisfied # {}
                 THEN Outcome("COMPLETED", None, satisfied, {})
                 ELSE Outcome("FAILED", "SUCCESS_CONDITIONS_NOT_SATISFIED",
                              satisfied, {}))

FinishPlan(r) ==
    LET wanted    == r.contract.intent.success
        satisfied == wanted \cap Supported(r)
    IN  Close(r, IF satisfied = wanted
                 THEN Outcome("COMPLETED", None, satisfied, {})
                 ELSE Outcome("FAILED", "SUCCESS_CONDITIONS_NOT_SATISFIED",
                              satisfied, {}))

----------------------------------------------------------------------------
(* Starting an execution (_execute).                                       *)

PlanStep(k) ==
    [step |-> InvoiceTools[k],
     depends |-> IF k = 1 THEN {} ELSE {InvoiceTools[k - 1]},
     max |-> IF InvoiceTools[k] = "stage_payment" THEN 0 ELSE ReadRetries,
     conditions |-> IF InvoiceTools[k] = "stage_payment" THEN {}
                    ELSE {"TOOL_TIMEOUT", "MALFORMED_TOOL_RESPONSE"}]

BuildPlan == [k \in 1..6 |-> PlanStep(k)]

(* What an outcome may say: its reason is a code of Gate A, of Gate B, of  *)
(* a tool, of _finish itself or of a human's decision.                     *)
ToolCodes ==
    ActionProblems
        \cup {"RECORD_NOT_FOUND", "DUPLICATE_INVOICE", "APPROVAL_REQUIRED",
              "TOOL_TIMEOUT", "MALFORMED_TOOL_RESPONSE", "PERMISSION_DENIED",
              "TOOL_EXECUTION_FAILED"}

Reasons ==
    {RejectOrder[k] : k \in DOMAIN RejectOrder}
        \cup RuntimeCodes \cup {"RUNTIME_ACTION_ADMISSIBLE"} \cup ToolCodes
        \cup {"INVOICE_INPUT_MISMATCH", "SUCCESS_CONDITIONS_NOT_SATISFIED",
              "HUMAN_DENIED", "HUMAN_CANCELLED", "HUMAN_CONTINUATION_CREATED"}

Outcomes ==
    [status : TerminalStates, reason : Reasons \cup {None},
     satisfied : SUBSET {"invoice_validated", "payment_authorized",
                         "audit_event_written"},
     failures : SUBSET {"duplicate_invoice", "purchase_order_mismatch"}]

(* None is neither a code, nor an outcome, nor the plan, nor what Gate B   *)
(* decides.                                                                *)
ASSUME OutcomesAssumption ==
    /\ None \notin ToolCodes /\ None \notin Outcomes
    /\ None # BuildPlan /\ None \notin RuntimeDecisions

(* Variant of RecursionLimit that counts the steps without their retries.  *)
RecursionLimitOfSteps(plan) == Len(plan) + 3

(* The plan's attempts, and three supersteps to spare.                     *)
RecursionLimit(plan) ==
    6 + plan[1].max + plan[2].max + plan[3].max + plan[4].max + plan[5].max
      + plan[6].max + 3

Authorised(gateA, approval) ==
    gateA.decision = "APPROVE" \/ (approval # None /\ Approvable(gateA))

NewRun(id, order, gateA) ==
    [contract |->
        [run |-> id, intent |-> order.intent, approval |-> order.approval,
         parent |-> order.parent, gateA |-> gateA,
         plan |-> IF Authorised(gateA, order.approval) THEN BuildPlan ELSE None],
     state |-> "AWAITING_DECISION",
     approvalState |-> IF order.approval # None THEN "APPROVED_BY_HUMAN"
                       ELSE IF gateA.decision = "ESCALATE" THEN "REQUIRED"
                       ELSE "NOT_REQUESTED",
     questions |-> gateA.questions, proposed |-> None, decision |-> None,
     history |-> <<>>, evidence |-> <<>>, observations |-> <<>>,
     retry |-> NoRetry, events |-> <<>>, outcome |-> None]

Enter(r, type, state) ==
    Log([r EXCEPT !.state = state], Event(type, r.state, state))

Judged(r, state) ==
    LET gateA == r.contract.gateA
    IN  Log([r EXCEPT !.state = state],
            [Event("control_decision", r.state, state) EXCEPT
                !.decision = gateA.decision, !.code = gateA.code])

Start(r) ==
    LET gateA == r.contract.gateA
    IN  IF r.contract.plan # None
        THEN Enter(Enter(Judged(r, "APPROVED"), "plan_created", "PLANNED"),
                   "run_started", "RUNNING")
        ELSE IF gateA.decision = "CLARIFY" THEN Judged(r, "CLARIFICATION_REQUIRED")
        ELSE IF gateA.decision = "ESCALATE" THEN Judged(r, "ESCALATION_REQUIRED")
        ELSE FinishWith(Judged(r, "REJECTED"), gateA.code, "REJECTED")

(* What an execution numbered id may begin with: the one run that follows  *)
(* from Gate A's decision.                                                 *)
Beginnings(id, order) ==
    {Start(NewRun(id, order, gateA)) : gateA \in {Decide(order.intent)}}

----------------------------------------------------------------------------
(* Proposing.  The first step of the plan that has no evidence yet and     *)
(* whose dependencies have.                                                *)

Ready(r) ==
    {k \in DOMAIN r.contract.plan :
        /\ r.contract.plan[k].step \notin DOMAIN r.evidence
        /\ r.contract.plan[k].depends \subseteq DOMAIN r.evidence}

Arguments(r, tool) ==
    LET inputs  == r.contract.intent.inputs
        invoice == r.evidence["inspect_invoice"]
    IN  [k \in ArgumentKeys(tool) |->
            CASE k = "policy_version" -> r.contract.gateA.policy_version
              [] k \in {"amount", "currency"} -> inputs[k]
              [] tool = "inspect_invoice" -> inputs[k]
              [] tool = "stage_payment" /\ k = "purchase_order_id" ->
                     r.evidence["lookup_purchase_order"].purchase_order_id
              [] OTHER -> invoice[k]]

Propose(r, tool) ==
    [action_id |-> Len(r.history), run_id |-> r.contract.run,
     version |-> r.contract.intent.version, goal |-> r.contract.intent.goal,
     role |-> r.contract.intent.role,
     assumptions |-> r.contract.intent.assumptions,
     tool |-> tool, arguments |-> Arguments(r, tool)]

(* The proposals that may reach Gate B: the controller's own, and those a  *)
(* scenario has edited.                                                    *)
Edited(p, m) ==
    IF m.argument THEN [p EXCEPT !.arguments = Put(@, m.key, m.value)]
    ELSE Put(p, m.key, m.value)

Proposals(r, tool) ==
    {Propose(r, tool)}
        \cup {Edited(Propose(r, tool), m) : m \in {e \in Mutations : e.tool = tool}}

----------------------------------------------------------------------------
(* Dispatching (_dispatch).                                                *)

(* A proposal with the code for which Gate B refuses it, if it does.       *)
Judgements(r, tool) ==
    {[proposal |-> p, refusal |-> DecideRuntime(r, p)] : p \in Proposals(r, tool)}

Checked(r, p, refusal) ==
    LET d == Result(r, p, refusal)
    IN  Log([r EXCEPT !.proposed = p, !.decision = d],
            [Event("runtime_policy_check", r.state, r.state) EXCEPT
                !.tool = p.tool, !.action = d.action,
                !.decision = d.decision, !.code = d.code])

(* CLARIFY and ESCALATE stop the run until a human intervenes.             *)
Paused(r) ==
    LET clarify == r.decision.decision = "CLARIFY"
        state   == IF clarify THEN "CLARIFICATION_REQUIRED" ELSE "ESCALATION_REQUIRED"
        stopped == [r EXCEPT
                      !.state = state,
                      !.questions = IF clarify THEN {<<"EVIDENCE", r.decision.code>>} ELSE @,
                      !.approvalState = IF clarify THEN @ ELSE "REQUIRED"]
    IN  Log(stopped, [Event("control_decision", r.state, state) EXCEPT
                        !.tool = r.proposed.tool, !.action = r.decision.action,
                        !.decision = r.decision.decision, !.code = r.decision.code])

Started(r) ==
    Log([r EXCEPT !.history = Append(@, r.decision.action)],
        [Event("tool_call_started", r.state, r.state) EXCEPT
            !.tool = r.proposed.tool, !.action = r.decision.action,
            !.arguments = r.proposed.arguments])

Observation(r, code, output) ==
    [action |-> r.decision.action, tool |-> r.proposed.tool, code |-> code,
     output |-> output]

FailedCall(r, code) ==
    Log([r EXCEPT !.observations = Append(@, Observation(r, code, None))],
        [Event("tool_call_failed", r.state, r.state) EXCEPT
            !.tool = r.proposed.tool, !.action = r.decision.action, !.code = code])

(* Attempts already retried for the tool that has just failed.             *)
Attempts(r, tool) == IF r.retry.tool = tool THEN r.retry.attempts ELSE 0

(* Variants of MayRetry: one retry too many, and a retry of any failure.   *)
MayRetryOnceMore(r, tool, result) ==
    LET rule == StepOf(r.contract.plan, tool)
    IN  /\ result.retryable
        /\ result.code \in rule.conditions
        /\ Attempts(r, tool) <= rule.max

MayRetryAnything(r, tool, result) ==
    Attempts(r, tool) < StepOf(r.contract.plan, tool).max

MayRetry(r, tool, result) ==
    LET rule == StepOf(r.contract.plan, tool)
    IN  /\ result.retryable
        /\ result.code \in rule.conditions
        /\ Attempts(r, tool) < rule.max

ScheduleRetry(r, tool, code) ==
    LET max   == StepOf(r.contract.plan, tool).max
        retry == [attempts |-> Attempts(r, tool) + 1, tool |-> tool,
                  error |-> code, failed |-> r.decision.action, max |-> max]
    IN  Log([r EXCEPT !.retry = retry],
            [Event("retry_scheduled", r.state, r.state) EXCEPT
                !.tool = tool, !.action = r.decision.action, !.code = code,
                !.retry = retry.attempts, !.max = max, !.next = Len(r.history)])

(* Variant of CompletedCall that leaves the live retry in place.           *)
CompletedWithoutReset(r, output) ==
    Log([r EXCEPT !.evidence = Put(@, r.proposed.tool, output),
                  !.observations = Append(@, Observation(r, None, output))],
        [Event("tool_call_completed", r.state, r.state) EXCEPT
            !.tool = r.proposed.tool, !.action = r.decision.action,
            !.output = output])

CompletedCall(r, output) ==
    Log([r EXCEPT !.evidence = Put(@, r.proposed.tool, output),
                  !.observations = Append(@, Observation(r, None, output)),
                  !.retry = NoRetry],
        [Event("tool_call_completed", r.state, r.state) EXCEPT
            !.tool = r.proposed.tool, !.action = r.decision.action,
            !.output = output])

(* The observed invoice must be the requested one.                         *)
InvoiceMismatch(inputs, invoice) ==
    \E k \in {"invoice_id", "supplier_id", "purchase_order_id", "currency", "amount"} :
        invoice[k] # inputs[k]

Settled(r, tool, output) ==
    IF tool = "inspect_invoice" /\ InvoiceMismatch(r.contract.intent.inputs, output)
    THEN FinishWith(r, "INVOICE_INPUT_MISMATCH", "FAILED")
    ELSE IF tool = "check_duplicate" /\ output.is_duplicate
    THEN FinishWith(r, "DUPLICATE_INVOICE", "FAILED")
    ELSE r

(* What the tool may answer to the frozen, evaluated arguments of a call   *)
(* that Gate B has approved.                                               *)
Answers(r) ==
    {Invoke(r.proposed.tool, r.proposed.arguments,
            IF r.proposed.tool = "stage_payment" /\ ApprovedRun(r.contract)
            THEN r.contract.approval ELSE None,
            fault) : fault \in {f \in Faults : r.decision.decision = "APPROVE"}}

----------------------------------------------------------------------------
(* The actions.                                                            *)

Init ==
    /\ \E order \in Orders : run \in Beginnings(1, order)
    /\ steps = 0 /\ raised = None
    /\ EnvInit

Running == run.state = "RUNNING" /\ run.outcome = None /\ raised = None

Execute(order) ==
    /\ ~Running
    /\ run.contract.run < MaxRuns
    /\ run' \in Beginnings(run.contract.run + 1, order)
    /\ steps' = 0 /\ raised' = None
    /\ UNCHANGED envVars

(* LangGraph raises GraphRecursionError when it would need a step beyond   *)
(* the limit, the one that finds the graph finished included.              *)
Superstep ==
    /\ Running
    /\ steps' = steps + 1
    /\ raised' = IF steps' < RecursionLimit(run.contract.plan) THEN None
                 ELSE "GRAPH_RECURSION"

FinishRun ==
    /\ Superstep
    /\ Ready(run) = {}
    /\ run' = FinishPlan(run)
    /\ UNCHANGED envVars

(* The run after Gate B has judged a proposal for the plan's next tool.    *)
CheckedRuns ==
    IF Running /\ Ready(run) # {}
    THEN {Checked(run, j.proposal, j.refusal) :
             j \in Judgements(run, run.contract.plan[Earliest(Ready(run))].step)}
    ELSE {}

Reject(c) ==
    /\ Superstep
    /\ c.decision.decision = "REJECT"
    /\ run' = FinishWith(c, c.decision.code, "REJECTED")
    /\ UNCHANGED envVars

Pause(c) ==
    /\ Superstep
    /\ c.decision.decision \in {"CLARIFY", "ESCALATE"}
    /\ run' = Paused(c)
    /\ UNCHANGED envVars

(* Variant of Fail in which a staging call that times out has had its      *)
(* effect.                                                                 *)
FailAfterEffect(c, answer) ==
    LET failed == FailedCall(Started(c), answer.code)
        tool   == c.proposed.tool
        late   == Invoke(tool, c.proposed.arguments, c.contract.approval, "none")
    IN  /\ Superstep
        /\ answer.kind = "error"
        /\ run' = IF MayRetry(c, tool, answer)
                  THEN ScheduleRetry(failed, tool, answer.code)
                  ELSE FinishWith(failed, answer.code, "FAILED")
        /\ staged' = IF tool = "stage_payment" /\ late.kind = "record"
                     THEN WithStaged(late.output) ELSE staged
        /\ UNCHANGED requests

(* The tool is called and raises an error that the controller catches.     *)
Fail(c, answer) ==
    LET failed == FailedCall(Started(c), answer.code)
        tool   == c.proposed.tool
    IN  /\ Superstep
        /\ answer.kind = "error"
        /\ run' = IF MayRetry(c, tool, answer)
                  THEN ScheduleRetry(failed, tool, answer.code)
                  ELSE FinishWith(failed, answer.code, "FAILED")
        /\ UNCHANGED envVars

(* It raises an error of another class, which leaves execute_invoice.      *)
Escape(c, answer) ==
    /\ Running
    /\ answer.kind = "uncaught"
    /\ run' = Started(c)
    /\ raised' = "UNCAUGHT"
    /\ UNCHANGED <<steps, staged, requests>>

Succeed(c, answer) ==
    /\ Superstep
    /\ answer.kind = "record"
    /\ run' = Settled(CompletedCall(Started(c), answer.output), c.proposed.tool,
                      answer.output)
    /\ staged' = IF c.proposed.tool = "stage_payment" THEN WithStaged(answer.output)
                 ELSE staged
    /\ UNCHANGED requests

Advance ==
    \/ FinishRun
    \/ \E c \in CheckedRuns :
        \/ Reject(c)
        \/ Pause(c)
        \/ \E answer \in Answers(c) :
                Fail(c, answer) \/ Escape(c, answer) \/ Succeed(c, answer)

Next == Advance \/ \E order \in Orders : Execute(order)

(* invoke() takes superstep after superstep, synchronously, until the run  *)
(* is no longer running; nobody has to ask for another execution.          *)
Fairness == WF_vars(Advance)

Spec == Init /\ [][Next]_vars /\ Fairness
=============================================================================
