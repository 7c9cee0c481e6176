----------------------------- MODULE MCInvoice -----------------------------
(***************************************************************************)
(* Instances of InvoiceProperties for TLC: the intents that the tests and  *)
(* scenarios execute on the records of MCFixtures, and the edits they make *)
(* to proposals.                                                           *)
(***************************************************************************)
EXTENDS InvoiceProperties, MCFixtures

CONSTANT NonText    \* an identifier that is a number instead of a text

(* What the theorem about AuditAgrees asks of the records.                 *)
ASSUME RecordsTrimmed == OrdersTrimmed

----------------------------------------------------------------------------
(* Intents.                                                                *)

Inputs(invoice) ==
    [k \in ScopeKeys |-> MCInvoices[invoice][k]]

(* What the compiler makes of a complete request for the invoice.          *)
Request(invoice) ==
    [version |-> 1, goal |-> "process_supplier_invoice",
     actor_resolved |-> TRUE, role |-> "automated_finance_operator",
     inputs |-> Inputs(invoice), ambiguous |-> {},
     approval_rules |-> {[always |-> FALSE, require |-> "finance_manager"]},
     requirements |-> {}, currency |-> "USD",
     allowed |-> KnownTools, unbounded_scope |-> FALSE, assumptions |-> {},
     success |-> {"invoice_validated", "payment_authorized", "audit_event_written"},
     irreversible |-> FALSE, claims |-> {}, cap |-> 10000,
     prohibited |-> {"vendor.modify_bank_details"},
     failures |-> {"duplicate_invoice", "purchase_order_mismatch"}]

(* A standing rule that asks someone else than the finance manager: Gate A *)
(* lets it pass, Gate B does not.                                          *)
StandingRule ==
    [Request("INV-1001") EXCEPT
        !.approval_rules = {[always |-> TRUE, require |-> "controller"]}]

LowCap == [Request("INV-1001") EXCEPT !.cap = 5000]

UnknownSuccess == [Request("INV-1001") EXCEPT !.success = @ \cup {"archived"}]

NoPermission == [Request("INV-1001") EXCEPT !.allowed = @ \ {"payment.submit"}]

WrongPO == [Request("INV-1001") EXCEPT !.inputs["purchase_order_id"] = "PO-4001"]

Incomplete == [Request("INV-1001") EXCEPT !.inputs["amount"] = None]

Padded == [Request("INV-1001") EXCEPT !.inputs["invoice_id"] = " INV-1001"]

Numbered == [Request("INV-1001") EXCEPT !.inputs["invoice_id"] = NonText]

Bypass == [Request("INV-1001") EXCEPT !.claims = {"P7"}]

(* No bounds but no wildcard either: what a request with a tool of its own *)
(* is refused for is only asked about.                                     *)
Unbounded ==
    [Request("INV-1001") EXCEPT !.unbounded_scope = TRUE,
                                !.allowed = @ \cup {"shell.exec"}]

Overreach == [Request("INV-1001") EXCEPT !.allowed = @ \cup {"shell.exec"}]

Fresh(intent) == [intent |-> intent, approval |-> None, parent |-> None]

(* The continuation of an escalated run of the intent, numbered 0.         *)
Approved(intent) ==
    [intent |-> NextVersion(intent), parent |-> 0,
     approval |-> [action |-> "APPROVE", role |-> "finance_manager", run |-> 0,
                   version |-> intent.version, digest |-> intent,
                   scope |-> Scope(intent)]]

AllOrders ==
    {Fresh(Request(v)) : v \in DOMAIN MCInvoices}
        \cup {Fresh(i) : i \in {StandingRule, LowCap, UnknownSuccess, WrongPO,
                                NoPermission, Incomplete, Padded, Numbered,
                                Bypass, Unbounded, Overreach}}
        \cup {Approved(Request("INV-2001")), Approved(StandingRule)}

(* The orders that reach staging, for executions that follow each other.   *)
SharedOrders ==
    {Fresh(Request("INV-1001")), Fresh(UnknownSuccess),
     Fresh(Request("INV-2001")), Approved(Request("INV-2001")),
     Fresh(StandingRule), Approved(StandingRule)}

NumberedOrders == {Fresh(Numbered), Fresh(Request("INV-1001"))}

(* One that completes, two that pause, and one that is resumed.            *)
AdversaryOrders ==
    {Fresh(Request("INV-1001")), Fresh(Request("INV-2001")),
     Fresh(StandingRule), Approved(Request("INV-2001"))}

----------------------------------------------------------------------------
(* Faults and edits.                                                       *)

ReadFaults == {"none", "TOOL_TIMEOUT", "PERMISSION_DENIED"}

TimeoutFaults == {"none", "TOOL_TIMEOUT"}

TransientFaults == {"none", "TOOL_TIMEOUT", "MALFORMED_TOOL_RESPONSE"}

NoMutations == {}

EditField(tool, key, value) ==
    [tool |-> tool, argument |-> FALSE, key |-> key, value |-> value]

EditArgument(tool, key, value) ==
    [tool |-> tool, argument |-> TRUE, key |-> key, value |-> value]

(* Another action, another tool, more fields, other resources and amounts. *)
MCMutations ==
    UNION {{EditField(t, "action_id", 0), EditField(t, "action_id", None),
            EditField(t, "version", 7), EditField(t, "role", "intern"),
            EditField(t, "note", "extra"),
            EditField(t, "assumptions", {"assume_vendor_exists_without_lookup"})}
           : t \in ToolNames}
    \cup {EditField(t, "tool", u) : t \in ToolNames, u \in ToolNames \cup {"submit_payment"}}
    \cup {EditArgument(t, "invoice_id", "INV-4001") : t \in ToolNames}
    \cup {EditArgument("lookup_supplier", "supplier_id", "SUP-3001"),
          EditArgument("lookup_purchase_order", "purchase_order_id", "PO-4001"),
          EditArgument("retrieve_policy", "policy_version", "finance-v0"),
          EditArgument("stage_payment", "purchase_order_id", "PO-4001"),
          EditArgument("stage_payment", "amount", 999999),
          EditArgument("stage_payment", "amount", None),
          EditArgument("stage_payment", "currency", "EUR")}
=============================================================================
