------------------------- MODULE InvoiceProperties -------------------------
(***************************************************************************)
(* What the controller of InvoiceRuntime promises, with Gate B in front of *)
(* every call and one tool environment under all executions.               *)
(***************************************************************************)
EXTENDS InvoiceRuntime, DriftRelations

(* Every piece of the controller's state has its type, in a run that a     *)
(* human has closed as well.                                               *)
TypeOK ==
    /\ DOMAIN run = RunFields
    /\ run.state \in RunStates
    /\ run.approvalState \in {"NOT_REQUESTED", "REQUIRED", "APPROVED_BY_HUMAN",
                              "CONSUMED_BY_HUMAN", "DENY", "CANCEL"}
    /\ DOMAIN run.evidence \subseteq ToolNames
    /\ run.history \in Seq(Nat)
    /\ DOMAIN run.retry = DOMAIN NoRetry
    /\ run.retry.attempts \in 0..ReadRetries
    /\ run.retry.tool \in ReadTools \cup {None}
    /\ run.decision # None =>
          run.decision.code \in RuntimeCodes \cup {"RUNTIME_ACTION_ADMISSIBLE"}
    /\ run.outcome # None => run.outcome.status \in TerminalStates
    /\ steps \in Nat
    /\ raised \in Escapes \cup {None}
    /\ DOMAIN staged \subseteq DOMAIN Invoices

EventsOfType(type) == {k \in DOMAIN run.events : run.events[k].type = type}

CallsOf(tool) ==
    {k \in EventsOfType("tool_call_started") : run.events[k].tool = tool}

----------------------------------------------------------------------------
(* What the bound rests on.  While a run is running, the tools that have   *)
(* answered are a prefix of the plan, every superstep has been one attempt, *)
(* each answered tool has used at most its own retries, and the live retry *)
(* belongs to the next tool, which is a read.                              *)
Prefix(k) == {InvoiceTools[j] : j \in 1..k}

Budget(k) ==
    IF k <= 5 THEN k * (ReadRetries + 1) ELSE 5 * (ReadRetries + 1) + 1

RetryBudget ==
    Running =>
        /\ run.contract.plan = BuildPlan
        /\ steps = Len(run.history)
        /\ \E k \in 0..6 :
              /\ DOMAIN run.evidence = Prefix(k)
              /\ Len(run.history) <= Budget(k) + run.retry.attempts
              /\ run.retry.attempts > 0 => k < 5 /\ run.retry.tool = InvoiceTools[k + 1]

(* The recursion limit that _execute computes from the plan is never what  *)
(* stops a run: with every retry of every read spent and every call        *)
(* approved, the last superstep still fits.                                *)
NoGraphRecursion == raised # "GRAPH_RECURSION"

(* The codes that judge the request, the master data or the authority; any *)
(* other code says that the run's own record is inconsistent, that the     *)
(* proposal is not the controller's, or that the run may not run at all.   *)
BusinessCodes ==
    {"RUNTIME_TOOL_PROHIBITED", "RUNTIME_TOOL_UNAUTHORIZED",
     "RUNTIME_AMOUNT_INVALID", "RUNTIME_AMOUNT_OUTSIDE_CONTRACT",
     "RUNTIME_CURRENCY_OUTSIDE_CONTRACT", "RUNTIME_EVIDENCE_CONTRADICTION",
     "INACTIVE_SUPPLIER", "RUNTIME_VALIDATIONS_INCOMPLETE",
     "DUPLICATE_INVOICE", "AMOUNT_MISMATCH", "RUNTIME_POLICY_MISMATCH",
     "RUNTIME_APPROVAL_REQUIRED", "RUNTIME_ACTION_ADMISSIBLE"}

(* No purchase order is filed under an identifier that _lookup would       *)
(* strip.  _index_unique does not see to it; the records are so.           *)
OrdersTrimmed == \A p \in DOMAIN PurchaseOrders \cap DOMAIN Strip : Strip[p] = p

(* Gate B's audit and the controller's bookkeeping agree: while proposals  *)
(* are the controller's own, no history of failures, retries and results   *)
(* makes _evidence_problem, _retry_problem or the linkage checks refuse a  *)
(* call.  decide_runtime recomputes from the events what _dispatch wrote.  *)
AuditAgrees ==
    run.decision # None => run.decision.code \in BusinessCodes

(* Gate A fails closed.  decide sorts the findings of validate_intent into *)
(* reasons to reject and questions to ask, and an unbounded permission     *)
(* hides the unknown tools that it comes with; yet no finding falls        *)
(* between the two.  What is admitted or escalated has none, what has none *)
(* is neither refused nor questioned, a question is asked whenever one is  *)
(* waited for, and no tool ever runs for an intent with a finding.         *)
FindingsBlock ==
    LET findings == ValidateIntent(run.contract.intent)
        gateA    == run.contract.gateA
    IN  /\ findings = {} <=> gateA.decision \in {"APPROVE", "ESCALATE"}
        /\ gateA.decision = "CLARIFY" <=> gateA.questions # {}
        /\ EventsOfType("tool_call_started") # {} => findings = {}

(* What controlled_drift.py and metamorphic.py count as a regression of    *)
(* Gate A on their corpora happens to no intent: a higher price never      *)
(* admits what was stopped, a supplier that is gone is always refused, a   *)
(* safe assumption changes nothing, and what is approved stays so up to    *)
(* the limit.  Above it the request escalates if its rules name the        *)
(* finance manager; metamorphic.py expects that of every request, and one  *)
(* without such a rule is asked for it.                                    *)
DriftNeverLicenses ==
    LET i        == run.contract.intent
        approved == Decide(i).decision = "APPROVE"
    IN  /\ Decide(i).decision \in {"REJECT", "CLARIFY"} =>
              Decide(Inflated(i)).decision \notin {"APPROVE", "ESCALATE"}
        /\ Decide(VendorGone(i)).decision = "REJECT"
        /\ Decide(WithSafeAssumption(i)) = Decide(i)
        /\ approved =>
              /\ Decide(AtLimit(i)) = Decide(i)
              /\ AutonomousLimit > 0 => Decide(BelowLimit(i)) = Decide(i)
              /\ Decide(OverLimit(i)).code =
                    IF \E rule \in i.approval_rules :
                           rule.require = FinancePolicy.approver
                    THEN "PAYMENT_ABOVE_AUTONOMOUS_LIMIT"
                    ELSE "APPROVAL_RULE_MISSING"

(* An approval that resume_invoice accepted is enough: neither Gate A,     *)
(* Gate B nor stage_payment, which each judge it afresh, stops the approved *)
(* child for want of authority.                                            *)
ApprovalSuffices ==
    run.contract.approval # None =>
        /\ run.contract.plan # None
        /\ run.state # "ESCALATION_REQUIRED"
        /\ run.decision # None =>
              run.decision.code \notin {"RUNTIME_NOT_AUTHORIZED",
                                        "RUNTIME_AMOUNT_OUTSIDE_CONTRACT"}
        /\ run.outcome # None => run.outcome.reason # "APPROVAL_REQUIRED"

(* Whatever is proposed, a call that starts is the plan's next one, with   *)
(* the arguments that the contract and the evidence determine, and the     *)
(* event before it is Gate B's approval of this very attempt (_dispatch).  *)
OnlyAuthorisedCalls ==
    \A k \in EventsOfType("tool_call_started") :
        LET before == {j \in EventsOfType("tool_call_completed") : j < k}
            tool   == InvoiceTools[Cardinality(before) + 1]
            check  == run.events[k - 1]
        IN  /\ run.events[k].tool = tool
            /\ run.events[k].arguments = Arguments(run, tool)
            /\ check.type = "runtime_policy_check" /\ check.decision = "APPROVE"
            /\ check.tool = tool /\ check.action = run.events[k].action

(* A run that has staged a payment had the authority to: the payment is    *)
(* the one the intent asks for, the master data allow it, and the amount   *)
(* is within the intent's cap and the policy's limit with no standing      *)
(* demand for approval, unless a human approved it (decide_runtime).       *)
StagedWithinAuthority ==
    "stage_payment" \in DOMAIN run.evidence =>
        LET payment == run.evidence["stage_payment"]
            intent  == run.contract.intent
            po      == PurchaseOrders[payment.purchase_order_id]
        IN  /\ \A k \in ScopeKeys : payment[k] = intent.inputs[k]
            /\ payment.invoice_id \notin DOMAIN DuplicateOf
            /\ Suppliers[payment.supplier_id].active
            /\ po.open /\ payment.amount <= po.remaining
            /\ "payment.submit" \in intent.allowed
            /\ intent.prohibited \cap {"stage_payment", "payment.submit", "submit_payment"} = {}
            /\ \/ run.contract.approval # None
               \/ /\ payment.amount <= AutonomousLimit
                  /\ payment.amount <= intent.cap
                  /\ \A rule \in intent.approval_rules : ~rule.always

(* What a run has evidence of paying is staged as the evidence says, and   *)
(* the first execution has nothing staged that it has no evidence of: a    *)
(* failed or refused call stages nothing (_dispatch, stage_payment).  A    *)
(* later execution finds the payments of the ones before it in the ledger; *)
(* of these StagedOnce speaks.  Nothing but a success condition that the   *)
(* code cannot evidence then keeps the run from COMPLETED (_finish).       *)
PaymentAccounted ==
    LET supported == {"invoice_validated", "payment_authorized", "audit_event_written"}
        paid      == "stage_payment" \in DOMAIN run.evidence
    IN  /\ paid => LET payment == run.evidence["stage_payment"]
                   IN  /\ payment.invoice_id \in DOMAIN staged
                       /\ staged[payment.invoice_id] = payment
        /\ run.contract.run = 1 =>
              \A invoice \in DOMAIN staged :
                  paid /\ staged[invoice] = run.evidence["stage_payment"]
        /\ run.outcome # None =>
              /\ run.outcome.status = "COMPLETED" <=>
                    paid /\ run.contract.intent.success \subseteq supported
              /\ paid /\ run.outcome.status # "COMPLETED" =>
                    run.outcome.reason = "SUCCESS_CONDITIONS_NOT_SATISFIED"

(* Every failed call is followed at once by one retry or by the end of the *)
(* run.  Only a transient failure of a read is retried, and it is retried  *)
(* ReadRetries times before the run gives up; staging is called once.      *)
RetryDiscipline ==
    /\ \A k \in EventsOfType("tool_call_failed") :
          LET failure   == run.events[k]
              next      == run.events[k + 1]
              earlier   == Cardinality({j \in EventsOfType("tool_call_failed") :
                                           j < k /\ run.events[j].tool = failure.tool})
              transient == /\ failure.tool \in ReadTools
                           /\ failure.code \in {"TOOL_TIMEOUT", "MALFORMED_TOOL_RESPONSE"}
          IN  /\ k < Len(run.events)
              /\ next.code = failure.code
              /\ IF transient /\ earlier < ReadRetries
                 THEN next.type = "retry_scheduled" /\ next.retry = earlier + 1
                 ELSE next.type = "run_failed"
    /\ \A tool \in ReadTools : Cardinality(CallsOf(tool)) <= ReadRetries + 1
    /\ Cardinality(CallsOf("stage_payment")) <= 1

(* The event log is a complete account: each event starts in the state in  *)
(* which the one before it ended, and the log alone yields the run's       *)
(* state, history, evidence, live retry and outcome.                       *)
TrailReplays ==
    LET events == run.events
        last   == events[Len(events)]
        starts == EventsOfType("tool_call_started")
        ends   == EventsOfType("tool_call_completed")
    IN  /\ \A k \in 1..(Len(events) - 1) : events[k].after = events[k + 1].before
        /\ events[1].before = "AWAITING_DECISION"
        /\ last.after = run.state
        /\ Len(run.history) = Cardinality(starts)
        /\ \A k \in starts :
              run.history[Cardinality({j \in starts : j <= k})] = events[k].action
        /\ DOMAIN run.evidence = {events[k].tool : k \in ends}
        /\ \A k \in ends : run.evidence[events[k].tool] = events[k].output
        /\ Running => (run.retry # NoRetry <=> last.type = "retry_scheduled")
        /\ (run.outcome # None) = (last.type \in {"run_completed", "run_failed"})
        /\ run.outcome # None => last.code = run.outcome.reason

(* A staged payment appears only with a call to stage_payment that its     *)
(* run's Gate B approved in the same superstep, and is never replaced or   *)
(* withdrawn, whichever execution comes next.                              *)
StagedOnce ==
    [][ /\ \A v \in DOMAIN staged : v \in DOMAIN staged' /\ staged'[v] = staged[v]
        /\ \A v \in DOMAIN staged' \ DOMAIN staged :
              /\ v = run.contract.intent.inputs["invoice_id"]
              /\ "stage_payment" \notin DOMAIN run.evidence
              /\ run'.evidence["stage_payment"] = staged'[v]
              /\ run'.decision.decision = "APPROVE" ]_vars

(* How an execution looks from outside.                                    *)
RunStatus ==
    IF raised # None THEN "RAISED"
    ELSE IF Running THEN "WORKING"
    ELSE IF run.state \in PausedStates THEN "PAUSED"
    ELSE run.state

Governed ==
    INSTANCE GovernedExecution WITH
        status <- RunStatus, contract <- run.contract,
        answered <- DOMAIN run.evidence, ledger <- staged,
        Tools <- InvoiceTools, Terms <- ScopeKeys, Limit <- AutonomousLimit

(* The controller, its gates, retries and tools implement a governed       *)
(* execution: tools answer in the plan's order, only an execution that all *)
(* of them have answered has paid, the payment is the one its contract     *)
(* asks for and allows, and having paid it neither pauses nor is rejected  *)
(* (_execute, _advance, _dispatch, _finish).                               *)
ImplementsGoverned == Governed!Spec

(* An execution that an exception leaves has come to an end: its run has a *)
(* terminal outcome.                                                       *)
EscapesAreTerminal == raised = "UNCAUGHT" => run.outcome # None

(* Every execution of an intent whose identifiers are texts reaches a      *)
(* pause or an end, however its tools fail and are retried.                *)
Termination == run.state = "RUNNING" ~> run.state # "RUNNING"
=============================================================================
