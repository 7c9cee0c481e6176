----------------------------- MODULE Contracts -----------------------------
(***************************************************************************)
(* The vocabulary of src/control_gate/contracts.py that every component    *)
(* shares: the alphabets of decisions, run states and event types, the     *)
(* finance-v1 policy, the fixed plan of six tools, and the records of the  *)
(* trajectory.  Free text (summaries, explanations), timestamps, latencies *)
(* and digests of tool inputs are left out.                                *)
(***************************************************************************)
EXTENDS Integers, Sequences, FiniteSets

CONSTANTS
    None,             \* Python's None
    AutonomousLimit,  \* FINANCE_V1_POLICY.max_autonomous_payment_usd
    ReadRetries       \* FINANCE_V1_POLICY.transient_read_max_retries

ASSUME PolicyAssumption ==
    /\ AutonomousLimit \in Nat
    /\ ReadRetries \in Nat

ASSUME NoneAssumption == None \notin Int

Decisions == {"APPROVE", "CLARIFY", "ESCALATE", "REJECT"}

PausedStates == {"CLARIFICATION_REQUIRED", "ESCALATION_REQUIRED"}

TerminalStates == {"COMPLETED", "REJECTED", "FAILED", "CANCELLED"}

(* CREATED, COMPILING, VALIDATING and WAITING_FOR_HUMAN are declared by the *)
(* contract and assigned by no code.                                       *)
RunStates ==
    {"AWAITING_DECISION", "APPROVED", "PLANNED", "RUNNING"}
        \cup PausedStates \cup TerminalStates

EventTypes ==
    {"control_decision", "plan_created", "run_started",
     "runtime_policy_check", "tool_call_started", "tool_call_completed",
     "tool_call_failed", "retry_scheduled", "human_intervention",
     "run_completed", "run_failed"}

FinancePolicy ==
    [policy_version |-> "finance-v1", max_autonomous |-> AutonomousLimit,
     max_retries |-> ReadRetries, approver |-> "finance_manager"]

----------------------------------------------------------------------------
(* The six tools in the order of the plan.                                 *)

InvoiceTools ==
    <<"inspect_invoice", "lookup_supplier", "lookup_purchase_order",
      "check_duplicate", "retrieve_policy", "stage_payment">>

ToolNames == {InvoiceTools[k] : k \in 1..6}

ReadTools == ToolNames \ {"stage_payment"}

ToolIndex(tool) == CHOOSE k \in 1..6 : InvoiceTools[k] = tool

(* INVOICE_TOOLS[:INVOICE_TOOLS.index(tool)]: what must have been observed *)
(* before the tool may run.                                                *)
Required(tool) == {InvoiceTools[k] : k \in 1..(ToolIndex(tool) - 1)}

(* The five inputs that bind a request to its target (SCOPE_KEYS).         *)
ScopeKeys ==
    {"invoice_id", "supplier_id", "purchase_order_id", "amount", "currency"}

----------------------------------------------------------------------------
(* One TrajectoryEvent.  sequence_number is the event's position in the    *)
(* run's log.  For retry_scheduled, action is metadata.failed_action_id    *)
(* and next is metadata.next_action_id; output is metadata.observation of  *)
(* a completed call, arguments those of a started one.                     *)

Event(type, before, after) ==
    [type |-> type, before |-> before, after |-> after, tool |-> None,
     action |-> None, decision |-> None, code |-> None, retry |-> 0,
     max |-> None, next |-> None, arguments |-> None, output |-> None]

(* f with v at k, the key added where f has none: {**f, k: v}.             *)
Put(f, k, v) == [x \in DOMAIN f \cup {k} |-> IF x = k THEN v ELSE f[x]]

(* ExecutionRun.retry_state as the constructor and every success leave it. *)
NoRetry ==
    [attempts |-> 0, tool |-> None, error |-> None, failed |-> None,
     max |-> None]
=============================================================================
