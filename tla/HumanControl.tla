---------------------------- MODULE HumanControl ----------------------------
(***************************************************************************)
(* Human decisions about paused runs: resume_invoice of                    *)
(* src/control_gate/invoice_runtime.py and changed_intent of               *)
(* src/control_gate/human_control.py.  A decision closes the run it is     *)
(* about; an approval or a change of constraints starts a child run with   *)
(* the next version of the intent, on the same environment.                *)
(*                                                                         *)
(* run is the latest run of a lineage, lineage its closed ancestors, oldest *)
(* first.  Whether the handle of a pause is live is the subject of         *)
(* PauseHandles; here the handle of run is, and those of its ancestors are *)
(* consumed.  Timestamps, actor names and reasons are well formed.         *)
(***************************************************************************)
EXTENDS InvoiceProperties

CONSTANTS
    DecisionIds,    \* intervention identifiers
    Amendments,     \* the constraint changes that humans ask for
    ApprovedScopes  \* actions that an approval may name besides the run's own

VARIABLES
    lineage,        \* the closed ancestors of run
    used            \* used_ids: identifiers of the decisions that made them

humanVars == <<lineage, used>>

HumanActions == {"APPROVE", "DENY", "MODIFY_CONSTRAINT", "CANCEL"}

(* constraint_changes without its digest; None for a key that is absent.   *)
NoChanges ==
    [inputs |-> <<>>, cap |-> None, currency |-> None, allowed |-> None,
     prohibited |-> None, reacquire |-> None]

----------------------------------------------------------------------------
(* changed_intent.                                                         *)

(* The amount of an intent is never the empty text.                        *)
Blank(intent, k) ==
    intent.inputs[k] = None \/ (k # "amount" /\ intent.inputs[k] = "")

WellFormedInput(k, value) ==
    IF k = "amount" THEN IsAmount(value)
    ELSE /\ value \in DOMAIN Strip \ {""}
         /\ Strip[value] = value
         /\ k = "currency" => value = "USD"

(* Variant of FillsInputs that lets a human correct an input.              *)
RewritesInputs(intent, inputs) ==
    \A k \in DOMAIN inputs : k \in ScopeKeys /\ WellFormedInput(k, inputs[k])

FillsInputs(intent, inputs) ==
    \A k \in DOMAIN inputs :
        k \in ScopeKeys /\ Blank(intent, k) /\ WellFormedInput(k, inputs[k])

(* Variant of NarrowsCap that accepts any amount.                          *)
SetsCap(intent, cap) == cap # None => IsAmount(cap)

NarrowsCap(intent, cap) ==
    cap # None =>
        /\ IsAmount(cap)
        /\ intent.cap # None => intent.cap \in Int /\ cap <= intent.cap

KeepsCurrency(intent, currency) ==
    currency # None => currency = "USD" /\ intent.currency \in {None, "", "USD"}

(* What a new prohibition may name: an operation that Gate B enforces.     *)
Enforceable(intent) ==
    ToolNames \cup {Permission(t) : t \in ToolNames}
        \cup {intent.goal, "submit_payment"}

(* Variant of NarrowsAuthority that takes any list of tools.               *)
ReplacesAuthority(intent, changes) ==
    changes.prohibited # None =>
        /\ intent.prohibited \subseteq changes.prohibited
        /\ changes.prohibited \ intent.prohibited \subseteq Enforceable(intent)

NarrowsAuthority(intent, changes) ==
    /\ changes.allowed # None => changes.allowed \subseteq intent.allowed
    /\ changes.prohibited # None =>
          /\ intent.prohibited \subseteq changes.prohibited
          /\ changes.prohibited \ intent.prohibited \subseteq Enforceable(intent)

(* Only the evidence whose lack stopped the proposed call.                 *)
AsksForMissingEvidence(r, names) ==
    names # None =>
        /\ names # {}
        /\ r.decision # None /\ r.decision.code = "RUNTIME_EVIDENCE_MISSING"
        /\ r.contract.plan # None
        /\ r.proposed.tool \in ToolNames
        /\ names \subseteq Required(r.proposed.tool) \ DOMAIN r.evidence

ChangedIntent(intent, changes) ==
    [intent EXCEPT
        !.version = @ + 1,
        !.inputs = [k \in DOMAIN @ |->
                      IF k \in DOMAIN changes.inputs THEN changes.inputs[k] ELSE @[k]],
        !.cap = IF changes.cap = None THEN @ ELSE changes.cap,
        !.currency = IF changes.currency = None THEN @ ELSE changes.currency,
        !.allowed = IF changes.allowed = None THEN @ ELSE changes.allowed,
        !.prohibited = IF changes.prohibited = None THEN @ ELSE changes.prohibited]

(* The tools that Gate B would let a run of the intent call.               *)
ExecutableTools(intent) ==
    {t \in ToolNames : Permission(t) \in intent.allowed /\ ~Prohibited(intent, t)}

(* An acknowledgement, or an edit that changes nothing, is not a change.   *)
ChangesExecution(intent, changes) ==
    LET next == ChangedIntent(intent, changes)
    IN  \/ [next EXCEPT !.version = intent.version, !.allowed = intent.allowed,
                        !.prohibited = intent.prohibited] # intent
        \/ ExecutableTools(next) # ExecutableTools(intent)
        \/ changes.reacquire # None

Acceptable(r, changes) ==
    LET intent == r.contract.intent
    IN  /\ FillsInputs(intent, changes.inputs)
        /\ NarrowsCap(intent, changes.cap)
        /\ KeepsCurrency(intent, changes.currency)
        /\ NarrowsAuthority(intent, changes)
        /\ AsksForMissingEvidence(r, changes.reacquire)
        /\ ChangesExecution(intent, changes)

----------------------------------------------------------------------------
(* The decisions that a human may submit, each made about some run.        *)

Roles == {"finance_manager", "accounts_payable_operator", "intern"}

Decision(id, about, action, role, approved, changes) ==
    [id |-> id, run |-> about.contract.run, version |-> about.contract.intent.version,
     digest |-> about.contract.intent, action |-> action, role |-> role,
     scope |-> approved, changes |-> changes]

Submitted(about) ==
    {Decision(id, about, "APPROVE", role, approved, NoChanges) :
        id \in DecisionIds, role \in Roles,
        approved \in {Scope(about.contract.intent)} \cup ApprovedScopes}
    \cup {Decision(id, about, "MODIFY_CONSTRAINT", role, None, changes) :
        id \in DecisionIds, role \in Roles, changes \in Amendments}
    \cup {Decision(id, about, action, role, None, NoChanges) :
        id \in DecisionIds, role \in Roles, action \in {"DENY", "CANCEL"}}

(* A decision may be one that was meant for an earlier run.                *)
Pending == UNION {Submitted(about) : about \in {run} \cup {lineage[k] : k \in DOMAIN lineage}}

LivePause(r) == r.state \in PausedStates /\ r.outcome = None /\ raised = None

(* Variant of Bound that trusts the digest to tell the runs apart.         *)
BoundByIdentifier(r, d) ==
    d.id \notin used /\ d.role \in {"finance_manager", "accounts_payable_operator"}

Bound(r, d) ==
    /\ d.run = r.contract.run /\ d.version = r.contract.intent.version
    /\ d.id \notin used
    /\ d.role \in {"finance_manager", "accounts_payable_operator"}
    /\ d.digest = r.contract.intent

----------------------------------------------------------------------------
(* resume_invoice.                                                         *)

(* The run with a decision on record; child is None for none.              *)
Told(r, d, child) ==
    Log([r EXCEPT !.approvalState =
            IF child # None THEN "CONSUMED_BY_HUMAN" ELSE d.action],
        [Event("human_intervention", r.state, r.state) EXCEPT
            !.decision = d.action, !.next = child])

FinishedBy(r, d) ==
    CASE d.action = "DENY" -> FinishWith(r, "HUMAN_DENIED", "REJECTED")
      [] d.action = "CANCEL" -> FinishWith(r, "HUMAN_CANCELLED", "CANCELLED")
      [] OTHER -> FinishWith(r, "HUMAN_CONTINUATION_CREATED", "CANCELLED")

(* Variant of Closed that records the decision after the run has ended.    *)
ClosedThenTold(r, d, child) == Told(FinishedBy(r, d), d, child)

Closed(r, d, child) == FinishedBy(Told(r, d, child), d)

Continue(d, intent, approval) ==
    LET child == run.contract.run + 1
    IN  /\ lineage' = Append(lineage, Closed(run, d, child))
        /\ used' = used \cup {d.id}
        /\ run' \in Beginnings(child, [intent |-> intent, approval |-> approval,
                                       parent |-> run.contract.run])
        /\ steps' = 0 /\ raised' = None
        /\ UNCHANGED envVars

(* Variant of Approves that does not look at the state of the run.         *)
ApprovesAnyPause(r, d) ==
    d.action = "APPROVE" /\ ScopedApproval(d, Scope(r.contract.intent))

Approves(r, d) ==
    /\ d.action = "APPROVE"
    /\ r.state = "ESCALATION_REQUIRED"
    /\ ScopedApproval(d, Scope(r.contract.intent))

Approve(d) ==
    /\ LivePause(run) /\ Bound(run, d)
    /\ Approves(run, d)
    /\ Continue(d, NextVersion(run.contract.intent), d)

(* The approval that the child of a changed contract carries: none.  The   *)
(* variant hands on the one that the parent has.                           *)
HandedOn(r) == r.contract.approval

Inherited(r) == None

Modify(d) ==
    /\ LivePause(run) /\ Bound(run, d)
    /\ d.action = "MODIFY_CONSTRAINT"
    /\ Acceptable(run, d.changes)
    /\ Continue(d, ChangedIntent(run.contract.intent, d.changes), Inherited(run))

Dismiss(d) ==
    /\ LivePause(run) /\ Bound(run, d)
    /\ d.action \in {"DENY", "CANCEL"}
    /\ run' = Closed(run, d, None)
    /\ used' = used \cup {d.id}
    /\ UNCHANGED <<steps, raised, staged, requests, lineage>>

----------------------------------------------------------------------------
(* A lineage begins with an order that has no parent, and the next one may *)
(* begin once its run no longer runs.                                      *)

HumanInit == Init /\ lineage = <<>> /\ used = {}

Begin(order) == Execute(order) /\ lineage' = <<>> /\ used' = {}

Work == Advance /\ UNCHANGED humanVars

HumanNext ==
    \/ Work
    \/ \E order \in Orders : Begin(order)
    \/ \E d \in Pending : Approve(d) \/ Modify(d) \/ Dismiss(d)

HumanSpec == HumanInit /\ [][HumanNext]_<<vars, humanVars>>

----------------------------------------------------------------------------
(* Properties.                                                             *)

LineageContracts == {lineage[k].contract : k \in DOMAIN lineage} \cup {run.contract}

(* What changes of constraints and approvals together can reach is within  *)
(* every contract of the lineage: every call ever started is executable    *)
(* under each of them, and a payment agrees with each on every input it    *)
(* had, and with its cap unless the run that staged it was approved        *)
(* (changed_intent, decide_runtime).                                       *)
AuthorityNarrows ==
    \A c \in LineageContracts :
        /\ \A k \in EventsOfType("tool_call_started") :
              run.events[k].tool \in ExecutableTools(c.intent)
        /\ "stage_payment" \in DOMAIN run.evidence =>
              LET payment == run.evidence["stage_payment"]
              IN  /\ \A k \in ScopeKeys :
                        Blank(c.intent, k) \/ c.intent.inputs[k] = payment[k]
                  /\ \/ run.contract.approval # None
                     \/ c.intent.cap = None
                     \/ payment.amount <= c.intent.cap

(* A request that was once escalated is paid only by a run that carries an *)
(* approval of its own: no change of constraints takes an escalation back  *)
(* (resume_invoice, decide).                                               *)
EscalationAnswered ==
    /\ \E k \in DOMAIN lineage :
          \E j \in DOMAIN lineage[k].events :
              lineage[k].events[j].after = "ESCALATION_REQUIRED"
    /\ "stage_payment" \in DOMAIN run.evidence
    => run.contract.approval # None

(* An approval reaches exactly the child of the escalated run it was made  *)
(* about, and what it hands to _execute is what Orders assumes of every    *)
(* approved order (resume_invoice).                                        *)
ApprovalsAreOrders ==
    run.contract.approval # None =>
        LET c == run.contract
        IN  /\ Resumes([intent |-> c.intent, approval |-> c.approval, parent |-> c.parent])
            /\ lineage # <<>> =>
                  /\ c.parent = lineage[Len(lineage)].contract.run
                  /\ lineage[Len(lineage)].events[Len(lineage[Len(lineage)].events)].before
                        = "ESCALATION_REQUIRED"
=============================================================================
