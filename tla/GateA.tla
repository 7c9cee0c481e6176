------------------------------- MODULE GateA -------------------------------
(***************************************************************************)
(* Gate A: the static checks of src/control_gate/validation.py and the     *)
(* decision that src/control_gate/admissibility.py takes from them, before *)
(* anything runs.  An intent is a record of the fields those two files     *)
(* read; lists the code turns into sets are sets here, and a finding keeps *)
(* its code, its field and (for a policy conflict) its rule.               *)
(***************************************************************************)
EXTENDS Contracts

AuthorizedRoles ==
    {"automated_finance_operator", "accounts_payable_operator",
     "finance_manager"}

FrozenActions == {"process_supplier_invoice", "submit_payment"}

HighImpactActions == {"submit_payment", "vendor.modify_bank_details"}

KnownTools ==
    {"invoice.parse", "vendor.lookup", "po.lookup", "payment.submit",
     "audit.write"}

UnsafeAssumptions ==
    {"assume_vendor_exists_without_lookup", "assume_po_valid_without_lookup",
     "assume_payment_succeeded_without_confirmation"}

ContradictoryPairs ==
    {{"submit_payment", "do_not_submit_payment"},
     {"require_approval", "bypass_approval"}}

Finding(code, field) == [code |-> code, field |-> field, rule |-> None]

----------------------------------------------------------------------------
(* The checks of validate_intent, in the order of the code.                *)

MissingFields(i) ==
    {Finding("REQUIRED_FIELD_MISSING", f) :
        f \in {g \in {"goal.type"} : i.goal = "unresolved"}
              \cup {g \in {"actor"} :
                       ~i.actor_resolved \/ i.role = "unresolved"}
              \cup {k \in ScopeKeys : i.inputs[k] = None}}

AmbiguousEntities(i) ==
    {Finding("AMBIGUOUS_ENTITY_REFERENCE", e) : e \in i.ambiguous}

Amount(i) == IF i.inputs["amount"] \in Int THEN i.inputs["amount"] ELSE None

(* Variant of AboveLimit that takes the limit itself to be above it.       *)
AtOrAboveLimit(i) == Amount(i) # None /\ Amount(i) >= AutonomousLimit

AboveLimit(i) == Amount(i) # None /\ Amount(i) > AutonomousLimit

ApprovalRuleMissing(i) ==
    {Finding("APPROVAL_RULE_MISSING", f) :
        f \in {g \in {"approval_rules"} :
                 /\ AboveLimit(i)
                 /\ \A rule \in i.approval_rules :
                        rule.require # FinancePolicy.approver}}

Contradictions(i) ==
    {Finding("CONTRADICTORY_REQUIREMENTS", f) :
        f \in {g \in {"requirements"} :
                  \E pair \in ContradictoryPairs : pair \subseteq i.requirements}
              \cup {g \in {"constraints.currency"} :
                       /\ i.currency # None
                       /\ i.inputs["currency"] # None
                       /\ i.currency # i.inputs["currency"]}
              \cup {g \in {"inputs.amount"} :
                       \/ i.inputs["amount"] # None /\ Amount(i) = None
                       \/ Amount(i) # None /\ Amount(i) < 0}}

UnboundedPermissions(i) ==
    {Finding("UNBOUNDED_PERMISSIONS", f) :
        f \in {g \in {"permissions.allowed_tools"} :
                  "*" \in i.allowed \/ i.unbounded_scope}}

UnknownTools(i) ==
    {Finding("UNKNOWN_OR_DISALLOWED_TOOL", t) : t \in i.allowed \ KnownTools}

UnsafeAssumptionsMade(i) ==
    {Finding("UNSAFE_ASSUMPTION", a) : a \in i.assumptions \cap UnsafeAssumptions}

SuccessConditionMissing(i) ==
    {Finding("SUCCESS_CONDITION_MISSING", f) :
        f \in {g \in {"success_conditions"} : i.success = {}}}

NonReversible(i) ==
    {Finding("NON_REVERSIBLE_HIGH_IMPACT_ACTION", f) :
        f \in {g \in {"constraints.reversible"} :
                  i.goal \in HighImpactActions /\ i.irreversible}}

(* claims holds the rules P1, P3, P4, P7 and P8 whose flag among the inputs *)
(* says the request breaks them (supplier_exists is False and so on).      *)
PolicyConflicts(i) ==
    {[code |-> "POLICY_CONFLICT", field |-> None, rule |-> r] :
        r \in i.claims
              \cup {g \in {"FROZEN_WORKFLOW"} :
                       i.goal \notin FrozenActions \cup {"unresolved"}}
              \cup {g \in {"ACTOR_AUTHORITY"} :
                       i.role \notin AuthorizedRoles \cup {"unresolved"}}
              \cup {g \in {"P2"} : i.goal = "vendor.modify_bank_details"}}

ValidateIntent(i) ==
    MissingFields(i) \cup AmbiguousEntities(i) \cup ApprovalRuleMissing(i)
        \cup Contradictions(i) \cup UnboundedPermissions(i)
        \cup UnknownTools(i) \cup UnsafeAssumptionsMade(i)
        \cup SuccessConditionMissing(i) \cup NonReversible(i)
        \cup PolicyConflicts(i)

----------------------------------------------------------------------------
(* The decision.                                                           *)

RejectOrder ==
    <<"VENDOR_BANK_DETAILS_MODIFICATION_PROHIBITED", "DUPLICATE_INVOICE",
      "APPROVAL_BYPASS_PROHIBITED", "VENDOR_NOT_FOUND",
      "PURCHASE_ORDER_INVALID", "REQUIRED_VALIDATIONS_NOT_PASSED",
      "ACTOR_UNAUTHORIZED", "ACTION_OUTSIDE_FROZEN_WORKFLOW",
      "CONTRADICTORY_REQUIREMENTS", "UNBOUNDED_PERMISSIONS",
      "UNKNOWN_OR_DISALLOWED_TOOL", "UNSAFE_ASSUMPTION",
      "NON_REVERSIBLE_HIGH_IMPACT_ACTION", "POLICY_CONFLICT">>

(* Variant of ClarifyOrder that leaves unbounded permissions to the        *)
(* reasons for a rejection.                                                *)
ClarifyOrderWithoutPermissions ==
    <<"REQUIRED_FIELD_MISSING", "AMBIGUOUS_ENTITY_REFERENCE",
      "APPROVAL_RULE_MISSING", "CONTRADICTORY_REQUIREMENTS",
      "SUCCESS_CONDITION_MISSING">>

ClarifyOrder ==
    <<"REQUIRED_FIELD_MISSING", "AMBIGUOUS_ENTITY_REFERENCE",
      "APPROVAL_RULE_MISSING", "CONTRADICTORY_REQUIREMENTS",
      "UNBOUNDED_PERMISSIONS", "SUCCESS_CONDITION_MISSING">>

First(order, reasons) ==
    order[CHOOSE k \in DOMAIN order :
             /\ order[k] \in reasons
             /\ \A j \in 1..(k - 1) : order[j] \notin reasons]

PolicyReason(rule) ==
    CASE rule = "P1" -> "VENDOR_NOT_FOUND"
      [] rule = "P2" -> "VENDOR_BANK_DETAILS_MODIFICATION_PROHIBITED"
      [] rule = "P3" -> "PURCHASE_ORDER_INVALID"
      [] rule = "P4" -> "DUPLICATE_INVOICE"
      [] rule = "P7" -> "APPROVAL_BYPASS_PROHIBITED"
      [] rule = "P8" -> "REQUIRED_VALIDATIONS_NOT_PASSED"
      [] rule = "ACTOR_AUTHORITY" -> "ACTOR_UNAUTHORIZED"
      [] rule = "FROZEN_WORKFLOW" -> "ACTION_OUTSIDE_FROZEN_WORKFLOW"
      [] OTHER -> "POLICY_CONFLICT"

(* A wildcard permission hides the unknown-tool findings it also causes,   *)
(* and only a wildcard, not an unbounded scope, is refused outright.       *)
RejectReasons(i, findings) ==
    {f.code : f \in {g \in findings :
        \/ g.code = "UNKNOWN_OR_DISALLOWED_TOOL" /\ UnboundedPermissions(i) = {}
        \/ g.code = "CONTRADICTORY_REQUIREMENTS" /\ g.field = "requirements"
        \/ g.code = "UNBOUNDED_PERMISSIONS" /\ "*" \in i.allowed
        \/ g.code \in {"UNSAFE_ASSUMPTION", "NON_REVERSIBLE_HIGH_IMPACT_ACTION"}}}
    \cup {PolicyReason(f.rule) : f \in {g \in findings : g.code = "POLICY_CONFLICT"}}

Askable(findings) ==
    {f \in findings : \E k \in DOMAIN ClarifyOrder : ClarifyOrder[k] = f.code}

GateADecision(decision, code, questions, approver) ==
    [decision |-> decision, code |-> code, questions |-> questions,
     approver |-> approver, policy_version |-> FinancePolicy.policy_version]

RequiresManager(i) ==
    \E rule \in i.approval_rules :
        rule.always /\ rule.require = FinancePolicy.approver

Decide(i) ==
    LET findings == ValidateIntent(i)
        rejects  == RejectReasons(i, findings)
        asks     == Askable(findings)
    IN  IF rejects # {}
        THEN GateADecision("REJECT", First(RejectOrder, rejects), {}, None)
        ELSE IF asks # {}
        THEN GateADecision("CLARIFY", First(ClarifyOrder, {f.code : f \in asks}),
                           {<<f.code, f.field>> : f \in asks}, None)
        ELSE IF AboveLimit(i)
        THEN GateADecision("ESCALATE", "PAYMENT_ABOVE_AUTONOMOUS_LIMIT", {},
                           FinancePolicy.approver)
        ELSE IF RequiresManager(i)
        THEN GateADecision("ESCALATE", "FINANCE_MANAGER_APPROVAL_REQUIRED", {},
                           FinancePolicy.approver)
        ELSE GateADecision("APPROVE", "REQUEST_ADMISSIBLE", {}, None)

(* The only escalations an approval can answer (_execute, decide_runtime). *)
Approvable(gate) ==
    /\ gate.decision = "ESCALATE"
    /\ gate.code \in {"PAYMENT_ABOVE_AUTONOMOUS_LIMIT",
                      "FINANCE_MANAGER_APPROVAL_REQUIRED"}
=============================================================================
