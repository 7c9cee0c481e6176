------------------------------- MODULE GateB -------------------------------
(***************************************************************************)
(* Gate B: src/control_gate/runtime_admissibility.py.  Before every tool   *)
(* call decide_runtime judges the proposed action p against the run r, and *)
(* audits the run's own record of what happened so far: every attempt in   *)
(* the history, its events, its observation and its retry.                 *)
(*                                                                         *)
(* r is an ExecutionRun as InvoiceRuntime keeps it.  An action identifier  *)
(* run_id:action:n is the number n; run_id stands for the intent_id and    *)
(* plan_id that travel with it, and the role for the actor_id.             *)
(* That the check and the start of one attempt carry the same proposal and *)
(* decision, and that evidence still parses as its model, are not modelled. *)
(***************************************************************************)
EXTENDS HumanAuthority, GateA

Permission(tool) ==
    CASE tool = "lookup_supplier" -> "vendor.lookup"
      [] tool = "lookup_purchase_order" -> "po.lookup"
      [] tool = "stage_payment" -> "payment.submit"
      [] OTHER -> "invoice.parse"

ArgumentKeys(tool) ==
    CASE tool = "inspect_invoice" -> {"invoice_id"}
      [] tool = "lookup_supplier" -> {"supplier_id"}
      [] tool = "lookup_purchase_order" -> {"purchase_order_id"}
      [] tool = "check_duplicate" -> {"invoice_id"}
      [] tool = "retrieve_policy" -> {"policy_version"}
      [] OTHER -> {"invoice_id", "purchase_order_id", "amount", "currency"}

(* The codes of decide_runtime's refusals.                                 *)
RuntimeCodes ==
    {"RUNTIME_NOT_AUTHORIZED", "RUNTIME_PROPOSAL_INVALID",
     "RUNTIME_LINKAGE_MISMATCH", "RUNTIME_SCOPE_VIOLATION",
     "RUNTIME_ACTOR_UNAUTHORIZED", "RUNTIME_UNSAFE_ASSUMPTION",
     "RUNTIME_TOOL_PROHIBITED", "RUNTIME_TOOL_UNAUTHORIZED",
     "RUNTIME_ARGUMENTS_INVALID", "RUNTIME_RESOURCE_UNAUTHORIZED",
     "RUNTIME_PRIOR_CONTROL_STOP", "RUNTIME_CLARIFICATION_PENDING",
     "RUNTIME_HUMAN_AUTHORITY_REQUIRED", "RUNTIME_PLAN_MISMATCH",
     "RUNTIME_RETRY_NOT_AUTHORIZED", "RUNTIME_PRIOR_TOOL_FAILURE",
     "RUNTIME_EVIDENCE_MISSING", "RUNTIME_ACTION_REPLAY",
     "RUNTIME_EVIDENCE_INVALID", "RUNTIME_AMOUNT_INVALID",
     "RUNTIME_AMOUNT_OUTSIDE_CONTRACT", "RUNTIME_CURRENCY_OUTSIDE_CONTRACT",
     "RUNTIME_EVIDENCE_CONTRADICTION", "RUNTIME_VALIDATIONS_INCOMPLETE",
     "RUNTIME_POLICY_MISMATCH", "RUNTIME_APPROVAL_REQUIRED",
     "INACTIVE_SUPPLIER", "DUPLICATE_INVOICE", "AMOUNT_MISMATCH"}

(* None is no text.  The provers know of no member of STRING, so the texts *)
(* that must differ from None are named.                                   *)
ASSUME CodesAssumption == None \notin RuntimeCodes

ProposalFields ==
    {"action_id", "run_id", "version", "goal", "role", "assumptions", "tool",
     "arguments"}

(* A finite positive decimal (_amount); values that parse as none are      *)
(* outside Int.                                                            *)
IsAmount(v) == v \in Int /\ v > 0

(* The plan Gate B accepts, and no other.                                  *)
ExpectedStep(k) ==
    [step |-> InvoiceTools[k],
     depends |-> IF k = 1 THEN {} ELSE {InvoiceTools[k - 1]},
     max |-> IF InvoiceTools[k] = "stage_payment" THEN 0
             ELSE FinancePolicy.max_retries,
     conditions |-> IF InvoiceTools[k] = "stage_payment" THEN {}
                    ELSE {"TOOL_TIMEOUT", "MALFORMED_TOOL_RESPONSE"}]

StepOf(plan, tool) == plan[CHOOSE k \in DOMAIN plan : plan[k].step = tool]

----------------------------------------------------------------------------
(* The audit of the run's record.                                          *)

EventsOf(r, type, action) ==
    {k \in DOMAIN r.events : r.events[k].type = type /\ r.events[k].action = action}

Completed(r, action) == EventsOf(r, "tool_call_completed", action) # {}

Failures(r, action) == EventsOf(r, "tool_call_failed", action)

Schedules(r, action) == EventsOf(r, "retry_scheduled", action)

Observed(r, action) ==
    {k \in DOMAIN r.observations : r.observations[k].action = action}

Only(S) == CHOOSE k \in S : TRUE

Succeeded(r) == {i \in DOMAIN r.history : Completed(r, r.history[i])}

(* Among the first i attempts, of which those in done completed: how many  *)
(* did, and how many have failed since the last that did.                  *)
CompletedAttempts(done, i) == Cardinality(done \cap 1..i)

ConsecutiveFailures(done, i) ==
    Cardinality({j \in 1..i : j..i \cap done = {}})

(* A completed attempt: no retry was scheduled for it, and the evidence,   *)
(* the observation and the event agree on what the tool returned.          *)
CompletionAgrees(r, tool, action) ==
    LET observed == r.observations[Only(Observed(r, action))].output
        end      == r.events[Only(EventsOf(r, "tool_call_completed", action))]
    IN  /\ Schedules(r, action) = {}
        /\ tool \in DOMAIN r.evidence
        /\ observed = r.evidence[tool]
        /\ end.output = r.evidence[tool]

(* A failed attempt is acceptable only when exactly one retry was          *)
(* scheduled for it, after it, within the step's rule.                     *)
RetryAgrees(r, done, tool, i) ==
    LET action   == r.history[i]
        code     == r.observations[Only(Observed(r, action))].code
        failure  == Only(Failures(r, action))
        failures == ConsecutiveFailures(done, i)
        rule     == StepOf(r.contract.plan, tool)
        schedule == r.events[Only(Schedules(r, action))]
    IN  /\ Cardinality(Schedules(r, action)) = 1
        /\ code \in rule.conditions
        /\ r.events[failure].code = code
        /\ failures <= rule.max
        /\ failure < Only(Schedules(r, action))
        /\ schedule.tool = tool
        /\ schedule.retry = failures
        /\ schedule.code = code
        /\ schedule.max = rule.max
        /\ schedule.next = i

(* What is wrong with attempt i, given that the earlier ones are sound.    *)
AttemptProblem(r, done, i) ==
    LET action == r.history[i]
        checks == EventsOf(r, "runtime_policy_check", action)
        starts == EventsOf(r, "tool_call_started", action)
        ends   == EventsOf(r, "tool_call_completed", action) \cup Failures(r, action)
        prior  == CompletedAttempts(done, i - 1)
        tool   == InvoiceTools[prior + 1]
        agreed == /\ r.events[Only(checks)].decision = "APPROVE"
                  /\ Only(checks) < Only(starts) /\ Only(starts) < Only(ends)
                  /\ \A k \in checks \cup starts \cup ends : r.events[k].tool = tool
                  /\ r.observations[Only(Observed(r, action))].tool = tool
    IN  IF \E S \in {checks, starts, ends, Observed(r, action)} : Cardinality(S) # 1
        THEN "RUNTIME_EVIDENCE_INVALID"
        ELSE IF prior >= Len(InvoiceTools) THEN "RUNTIME_ACTION_REPLAY"
        ELSE IF ~agreed THEN "RUNTIME_EVIDENCE_INVALID"
        ELSE IF i \in done
        THEN IF CompletionAgrees(r, tool, action) THEN None
             ELSE "RUNTIME_EVIDENCE_INVALID"
        ELSE IF RetryAgrees(r, done, tool, i) THEN None
        ELSE "RUNTIME_PRIOR_TOOL_FAILURE"

(* Events of attempts that the history does not know.                      *)
Orphans(r) ==
    {k \in DOMAIN r.events :
        /\ r.events[k].type \in {"runtime_policy_check", "tool_call_started",
                                 "tool_call_completed", "tool_call_failed"}
        /\ \A i \in DOMAIN r.history : r.history[i] # r.events[k].action}

Earliest(S) == CHOOSE k \in S : \A j \in S : k <= j

(* _evidence_problem.                                                      *)
EvidenceProblem(r, required) ==
    LET done == Succeeded(r)
        bad  == {i \in DOMAIN r.history : AttemptProblem(r, done, i) # None}
    IN  IF ~(required \subseteq DOMAIN r.evidence) THEN "RUNTIME_EVIDENCE_MISSING"
        ELSE IF \/ DOMAIN r.evidence # required
                \/ \E i \in DOMAIN r.history : r.history[i] # i - 1
        THEN "RUNTIME_ACTION_REPLAY"
        ELSE IF Orphans(r) # {}
        THEN IF r.events[Earliest(Orphans(r))].type = "tool_call_failed"
             THEN "RUNTIME_PRIOR_TOOL_FAILURE" ELSE "RUNTIME_EVIDENCE_INVALID"
        ELSE IF bad # {} THEN AttemptProblem(r, done, Earliest(bad))
        ELSE IF Cardinality(done) # Cardinality(required)
        THEN "RUNTIME_EVIDENCE_INVALID"
        ELSE None

(* _retry_problem: the live retry state against the last recorded failure. *)
RetryProblem(r, tool) ==
    LET n    == Len(r.history)
        last == r.history[n]
        rule == StepOf(r.contract.plan, tool)
        live == /\ r.retry.tool = tool
                /\ r.retry.attempts >= 1
                /\ r.retry.error \in rule.conditions
                /\ r.retry.max = rule.max
                /\ r.retry.attempts <= rule.max
                /\ n > 0
                /\ r.retry.failed = last
                /\ Cardinality(Failures(r, last)) = 1
                /\ Schedules(r, last) = {Len(r.events)}
                /\ r.events[Len(r.events)].retry = r.retry.attempts
                /\ r.events[Len(r.events)].code = r.retry.error
                /\ r.events[Len(r.events)].next = n
                /\ Cardinality({j \in 1..n : \A k \in j..n :
                       \E e \in Failures(r, r.history[k]) : r.events[e].tool = tool})
                   = r.retry.attempts
    IN  IF r.retry = NoRetry
        THEN IF n > 0 /\ Failures(r, last) # {}
             THEN "RUNTIME_PRIOR_TOOL_FAILURE" ELSE None
        ELSE IF live THEN None ELSE "RUNTIME_RETRY_NOT_AUTHORIZED"

----------------------------------------------------------------------------
(* The checks of decide_runtime in three groups.  Each is the first code   *)
(* that applies, or None.                                                  *)

MayRun(r) ==
    /\ r.state = "RUNNING" /\ r.outcome = None
    /\ r.contract.plan # None
    /\ \/ r.contract.gateA.decision = "APPROVE"
       \/ ApprovedRun(r.contract) /\ Approvable(r.contract.gateA)

Prohibited(intent, tool) ==
    \/ {tool, Permission(tool), intent.goal} \cap intent.prohibited # {}
    \/ /\ tool = "stage_payment"
       /\ \/ "submit_payment" \in intent.prohibited
          \/ "do_not_submit_payment" \in intent.requirements

(* Variant of OutsideScope that binds the invoice and the currency only.   *)
OutsideInvoice(r, p) ==
    \E k \in {"invoice_id", "currency"} \cap DOMAIN p.arguments :
        p.arguments[k] # r.contract.intent.inputs[k]

OutsideScope(r, p) ==
    \/ \E k \in {"invoice_id", "supplier_id", "purchase_order_id", "currency"}
               \cap DOMAIN p.arguments : p.arguments[k] # r.contract.intent.inputs[k]
    \/ /\ p.tool = "retrieve_policy"
       /\ p.arguments["policy_version"] # r.contract.gateA.policy_version

ScopeProblem(r, p) ==
    LET c == r.contract
        i == c.intent
    IN  IF ~MayRun(r) THEN "RUNTIME_NOT_AUTHORIZED"
        ELSE IF DOMAIN p # ProposalFields THEN "RUNTIME_PROPOSAL_INVALID"
        ELSE IF \/ p.action_id # Len(r.history)
                \/ p.run_id # c.run \/ p.version # i.version
        THEN "RUNTIME_LINKAGE_MISMATCH"
        ELSE IF p.goal # i.goal \/ i.goal \notin FrozenActions
        THEN "RUNTIME_SCOPE_VIOLATION"
        ELSE IF p.role # i.role \/ i.role \notin AuthorizedRoles
        THEN "RUNTIME_ACTOR_UNAUTHORIZED"
        ELSE IF p.assumptions # i.assumptions \/ i.assumptions \cap UnsafeAssumptions # {}
        THEN "RUNTIME_UNSAFE_ASSUMPTION"
        ELSE IF p.tool \notin ToolNames \/ Prohibited(i, p.tool)
        THEN "RUNTIME_TOOL_PROHIBITED"
        ELSE IF Permission(p.tool) \notin i.allowed THEN "RUNTIME_TOOL_UNAUTHORIZED"
        ELSE IF DOMAIN p.arguments # ArgumentKeys(p.tool)
        THEN "RUNTIME_ARGUMENTS_INVALID"
        ELSE IF OutsideScope(r, p) THEN "RUNTIME_RESOURCE_UNAUTHORIZED"
        ELSE None

StateProblem(r, p) ==
    LET checkedOtherwise == {k \in DOMAIN r.events :
            /\ r.events[k].type = "runtime_policy_check"
            /\ r.events[k].decision # "APPROVE"}
        retry == RetryProblem(r, p.tool)
    IN  IF \/ r.decision # None /\ r.decision.decision # "APPROVE"
           \/ checkedOtherwise # {}
        THEN "RUNTIME_PRIOR_CONTROL_STOP"
        ELSE IF r.questions # {} THEN "RUNTIME_CLARIFICATION_PENDING"
        ELSE IF \/ /\ r.approvalState # "NOT_REQUESTED"
                   /\ ~(ApprovedRun(r.contract) /\ r.approvalState = "APPROVED_BY_HUMAN")
                \/ \E k \in DOMAIN r.events : r.events[k].type = "human_intervention"
        THEN "RUNTIME_HUMAN_AUTHORITY_REQUIRED"
        ELSE IF r.contract.plan # [k \in 1..6 |-> ExpectedStep(k)]
        THEN "RUNTIME_PLAN_MISMATCH"
        ELSE IF retry # None THEN retry
        ELSE EvidenceProblem(r, Required(p.tool))

(* The observed records name the requested entities.                       *)
EvidenceNamesTarget(evidence, inputs) ==
    /\ \A k \in {"invoice_id", "supplier_id", "purchase_order_id"} :
           evidence["inspect_invoice"][k] = inputs[k]
    /\ evidence["lookup_supplier"].supplier_id = inputs["supplier_id"]
    /\ \A k \in {"purchase_order_id", "supplier_id"} :
           evidence["lookup_purchase_order"][k] = inputs[k]
    /\ evidence["check_duplicate"].invoice_id = inputs["invoice_id"]

(* Variant of NeedsApproval that leaves the intent's own rules to Gate A.  *)
NeedsApprovalByLimit(intent, amount) == amount > FinancePolicy.max_autonomous

(* What an autonomous run may not pay.                                     *)
NeedsApproval(intent, amount) ==
    \/ amount > FinancePolicy.max_autonomous
    \/ \E rule \in intent.approval_rules : rule.always

StageProblem(r, p) ==
    LET i        == r.contract.intent
        amount   == p.arguments["amount"]
        currency == p.arguments["currency"]
        invoice  == r.evidence["inspect_invoice"]
        supplier == r.evidence["lookup_supplier"]
        po       == r.evidence["lookup_purchase_order"]
        approved == ApprovedRun(r.contract)
    IN  IF ~(IsAmount(amount) /\ IsAmount(i.inputs["amount"]) /\ IsAmount(i.cap))
        THEN "RUNTIME_AMOUNT_INVALID"
        ELSE IF amount # i.inputs["amount"] \/ (amount > i.cap /\ ~approved)
        THEN "RUNTIME_AMOUNT_OUTSIDE_CONTRACT"
        ELSE IF currency # i.currency THEN "RUNTIME_CURRENCY_OUTSIDE_CONTRACT"
        ELSE IF ~EvidenceNamesTarget(r.evidence, i.inputs)
        THEN "RUNTIME_EVIDENCE_CONTRADICTION"
        ELSE IF ~supplier.active THEN "INACTIVE_SUPPLIER"
        ELSE IF ~po.open \/ ~invoice.validated THEN "RUNTIME_VALIDATIONS_INCOMPLETE"
        ELSE IF r.evidence["check_duplicate"].is_duplicate THEN "DUPLICATE_INVOICE"
        ELSE IF amount # invoice.amount \/ amount > po.remaining THEN "AMOUNT_MISMATCH"
        ELSE IF \/ currency # invoice.currency \/ currency # po.currency
                \/ currency \notin supplier.currencies
        THEN "RUNTIME_EVIDENCE_CONTRADICTION"
        ELSE IF r.evidence["retrieve_policy"] # FinancePolicy
        THEN "RUNTIME_POLICY_MISMATCH"
        ELSE IF ~approved /\ NeedsApproval(i, amount)
        THEN "RUNTIME_APPROVAL_REQUIRED"
        ELSE None

Verdict(code) ==
    CASE code = None -> "APPROVE"
      [] code \in {"RUNTIME_CLARIFICATION_PENDING", "RUNTIME_EVIDENCE_MISSING"} -> "CLARIFY"
      [] code \in {"RUNTIME_HUMAN_AUTHORITY_REQUIRED", "RUNTIME_APPROVAL_REQUIRED"} -> "ESCALATE"
      [] OTHER -> "REJECT"

RuntimeDecisions ==
    [action : Nat, decision : Decisions,
     code : RuntimeCodes \cup {"RUNTIME_ACTION_ADMISSIBLE"}]

(* decide_runtime: the code with which it refuses a proposal, or None when *)
(* it approves, and the decision that it returns with that code (result).  *)
DecideRuntime(r, p) ==
    LET scope == ScopeProblem(r, p)
        state == StateProblem(r, p)
    IN  IF scope # None THEN scope
        ELSE IF state # None THEN state
        ELSE IF p.tool = "stage_payment" THEN StageProblem(r, p)
        ELSE None

Result(r, p, code) ==
    [action |-> IF p.action_id = None THEN Len(r.history) ELSE p.action_id,
     decision |-> Verdict(code),
     code |-> IF code = None THEN "RUNTIME_ACTION_ADMISSIBLE" ELSE code]
=============================================================================
