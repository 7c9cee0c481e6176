------------------------------ MODULE MCHuman ------------------------------
(***************************************************************************)
(* Instances of HumanControl for TLC: requests that pause in each way the  *)
(* code knows, and amendments of every kind, acceptable and not.           *)
(***************************************************************************)
EXTENDS HumanControl, MCFixtures, TLC

(* What the compiler makes of a complete request for the invoice.          *)
Request(invoice) ==
    [version |-> 1, goal |-> "process_supplier_invoice",
     actor_resolved |-> TRUE, role |-> "automated_finance_operator",
     inputs |-> [k \in ScopeKeys |-> MCInvoices[invoice][k]], ambiguous |-> {},
     approval_rules |-> {[always |-> FALSE, require |-> "finance_manager"]},
     requirements |-> {}, currency |-> "USD",
     allowed |-> KnownTools, unbounded_scope |-> FALSE, assumptions |-> {},
     success |-> {"invoice_validated", "payment_authorized", "audit_event_written"},
     irreversible |-> FALSE, claims |-> {}, cap |-> 10000,
     prohibited |-> {"vendor.modify_bank_details"},
     failures |-> {"duplicate_invoice", "purchase_order_mismatch"}]

Fresh(intent) == [intent |-> intent, approval |-> None, parent |-> None]

WithoutAmount(intent) == [intent EXCEPT !.inputs["amount"] = None]

(* Gate A asks for a missing amount, escalates a large one, or leaves to   *)
(* Gate B a standing rule that names somebody else than the manager; an    *)
(* unlimited request, and one that may not pay; one that is simply paid.   *)
MCOrders ==
    {Fresh(Request("INV-1001")), Fresh(Request("INV-2001")),
     Fresh([WithoutAmount(Request("INV-1001")) EXCEPT !.cap = None]),
     Fresh([WithoutAmount(Request("INV-1001")) EXCEPT !.currency = None,
                !.allowed = @ \ {"payment.submit"}]),
     Fresh([Request("INV-1001") EXCEPT !.inputs = [k \in ScopeKeys |-> None]]),
     Fresh([Request("INV-1001") EXCEPT
                !.approval_rules = {[always |-> TRUE, require |-> "controller"]}])}

Filled(invoice) == [NoChanges EXCEPT !.inputs = [k \in ScopeKeys |-> MCInvoices[invoice][k]]]

AmountFilled(amount) == [NoChanges EXCEPT !.inputs = [k \in {"amount"} |-> amount]]

MCAmendments ==
    {NoChanges, Filled("INV-1001"), Filled("INV-2001"),
     AmountFilled(7500), AmountFilled(0),
     [AmountFilled(7500) EXCEPT !.cap = 5000],
     [AmountFilled(7500) EXCEPT !.currency = "USD", !.allowed = KnownTools],
     [NoChanges EXCEPT !.cap = 20000], [NoChanges EXCEPT !.cap = 5000],
     [NoChanges EXCEPT !.allowed = KnownTools \ {"payment.submit"}],
     [NoChanges EXCEPT !.prohibited = {}],
     [NoChanges EXCEPT !.prohibited = {"vendor.modify_bank_details", "stage_payment"}],
     [NoChanges EXCEPT !.prohibited = {"vendor.modify_bank_details", "archive"}],
     [NoChanges EXCEPT !.reacquire = {"inspect_invoice"}],
     [NoChanges EXCEPT !.reacquire = {"stage_payment"}]}

(* An approval that names another invoice.                                 *)
MCScopes == {Scope(Request("INV-4001"))}

(* A duplicate check proposed before anything is observed.                 *)
MCEarlyCheck ==
    {[tool |-> "inspect_invoice", argument |-> FALSE, key |-> "tool",
      value |-> "check_duplicate"]}

NoFaults == {"none"}

DecisionSymmetry == Permutations(DecisionIds)
=============================================================================
