-------------------------- MODULE ToolEnvironment --------------------------
(***************************************************************************)
(* SupplierInvoiceToolEnvironment of src/control_gate/tool_environment.py: *)
(* read-only master data, five reads, the idempotent local staging of a    *)
(* payment, the idempotent request for a human approval, and the wrapper   *)
(* that injects failures in front of a tool.  A tool either returns a      *)
(* record or raises; both are a Result here.                               *)
(***************************************************************************)
EXTENDS HumanAuthority

CONSTANTS
    Suppliers,       \* supplier_id -> [supplier_id, active, currencies]
    PurchaseOrders,  \* purchase_order_id -> [purchase_order_id, supplier_id,
                     \*                       remaining, currency, open]
    Invoices,        \* invoice_id -> [invoice_id, supplier_id,
                     \*   purchase_order_id, amount, currency, validated]
    DuplicateOf,     \* some invoice ids -> the invoice they duplicate
    Policies,        \* policy_version -> policy
    Strip,           \* str.strip on the texts callers use; the texts are its
                     \* domain, "" is the blank text
    Canonical        \* str.strip().upper() on the currency texts

(* What _index_unique and _validate_fixture_links establish, and what the  *)
(* record models require of each field.                                    *)
ASSUME FixtureAssumption ==
    /\ \A s \in DOMAIN Suppliers : Suppliers[s].supplier_id = s
    /\ \A p \in DOMAIN PurchaseOrders :
          /\ PurchaseOrders[p].purchase_order_id = p
          /\ PurchaseOrders[p].supplier_id \in DOMAIN Suppliers
          /\ PurchaseOrders[p].remaining \in Nat
    /\ \A v \in DOMAIN Invoices :
          /\ Invoices[v].invoice_id = v
          /\ Invoices[v].supplier_id \in DOMAIN Suppliers
          /\ Invoices[v].purchase_order_id \in DOMAIN PurchaseOrders
          /\ Invoices[v].amount \in Nat \ {0}
    /\ DOMAIN DuplicateOf \subseteq DOMAIN Invoices
    /\ \A v \in DOMAIN DuplicateOf : DuplicateOf[v] \in DOMAIN Invoices
    /\ \A p \in DOMAIN Policies :
          /\ Policies[p].policy_version = p
          /\ Policies[p].max_autonomous \in Nat
    /\ \A t \in DOMAIN Strip : Strip[t] \in DOMAIN Strip /\ Strip[Strip[t]] = Strip[t]

(* No supplier is filed under a padded identifier: it would be looked up   *)
(* under the trimmed one.  Nothing enforces it; the fixtures are so.       *)
ASSUME TrimmedAssumption ==
    \A s \in DOMAIN Suppliers \cap DOMAIN Strip : Strip[s] = s

VARIABLES
    staged,          \* _staged_payments, keyed by invoice
    requests         \* _approval_requests, keyed by invoice

envVars == <<staged, requests>>

----------------------------------------------------------------------------
(* Results.  A raise of a LocalToolError carries its code; an exception of *)
(* a class the controller does not catch has the kind "uncaught".          *)

Returned(record) ==
    [kind |-> "record", code |-> None, retryable |-> FALSE, output |-> record]

Raised(code) ==
    [kind |-> "error", code |-> code, retryable |-> FALSE, output |-> None]

Retryable(code) == [Raised(code) EXCEPT !.retryable = TRUE]

Uncaught ==
    [kind |-> "uncaught", code |-> None, retryable |-> FALSE, output |-> None]

(* An id that is not a text has no strip(): AttributeError.                *)
Lookup(records, id) ==
    IF id \notin DOMAIN Strip THEN Uncaught
    ELSE IF Strip[id] = "" THEN Raised("INVALID_ARGUMENT")
    ELSE IF Strip[id] \notin DOMAIN records THEN Raised("RECORD_NOT_FOUND")
    ELSE Returned(records[Strip[id]])

CheckDuplicate(id) ==
    LET found == Lookup(Invoices, id)
    IN  IF found.kind # "record" THEN found
        ELSE Returned([invoice_id |-> id, is_duplicate |-> id \in DOMAIN DuplicateOf])

ParsesAsAmount(v) == v \in Int /\ v > 0

(* Variant of WrongAmount that forgets the invoice's own amount.           *)
WrongAmountOfOrder(amount, invoice, po) == amount > po.remaining

WrongAmount(amount, invoice, po) ==
    amount # invoice.amount \/ amount > po.remaining

ActionProblems ==
    {"INVALID_ARGUMENT", "INACTIVE_SUPPLIER", "PURCHASE_ORDER_CLOSED",
     "INVOICE_NOT_VALIDATED", "INVOICE_PURCHASE_ORDER_MISMATCH", "AMOUNT_MISMATCH",
     "CURRENCY_MISMATCH"}

ASSUME ProblemsAssumption == None \notin ActionProblems

(* _validated_action: the first of its checks that fails, or None.         *)
ActionProblem(invoice, po, supplier, amount, currency) ==
    IF ~ParsesAsAmount(amount) THEN "INVALID_ARGUMENT"
    ELSE IF ~supplier.active THEN "INACTIVE_SUPPLIER"
    ELSE IF ~po.open THEN "PURCHASE_ORDER_CLOSED"
    ELSE IF ~invoice.validated THEN "INVOICE_NOT_VALIDATED"
    ELSE IF \/ invoice.purchase_order_id # po.purchase_order_id
            \/ invoice.supplier_id # po.supplier_id
         THEN "INVOICE_PURCHASE_ORDER_MISMATCH"
    ELSE IF WrongAmount(amount, invoice, po) THEN "AMOUNT_MISMATCH"
    ELSE IF \/ Canonical[currency] # invoice.currency
            \/ Canonical[currency] # po.currency
            \/ Canonical[currency] \notin supplier.currencies
         THEN "CURRENCY_MISMATCH"
    ELSE None

ValidatedAction(args) ==
    LET invoice  == Lookup(Invoices, args["invoice_id"])
        po       == Lookup(PurchaseOrders, args["purchase_order_id"])
        supplier == Lookup(Suppliers, invoice.output.supplier_id)
        problem  == ActionProblem(invoice.output, po.output, supplier.output,
                                  args["amount"], args["currency"])
    IN  IF invoice.kind # "record" THEN invoice
        ELSE IF po.kind # "record" THEN po
        ELSE IF supplier.kind # "record" THEN supplier
        ELSE IF problem # None THEN Raised(problem)
        ELSE invoice

StagedPayment(invoice, amount) ==
    [invoice_id |-> invoice.invoice_id,
     purchase_order_id |-> invoice.purchase_order_id,
     supplier_id |-> invoice.supplier_id, amount |-> amount,
     currency |-> invoice.currency]

(* stage_payment: what the call returns, given what is staged already.     *)
StagePayment(args, approval) ==
    LET valid   == ValidatedAction(args)
        invoice == valid.output
        policy  == Lookup(Policies, "finance-v1")
        action  == [k \in ScopeKeys |->
                       IF k = "supplier_id" THEN invoice.supplier_id
                       ELSE IF k = "invoice_id" THEN invoice.invoice_id
                       ELSE IF k = "purchase_order_id" THEN invoice.purchase_order_id
                       ELSE args[k]]
    IN  IF valid.kind # "record" THEN valid
        ELSE IF invoice.invoice_id \in DOMAIN DuplicateOf
             THEN Raised("DUPLICATE_INVOICE")
        ELSE IF policy.kind # "record" THEN policy
        ELSE IF /\ args["amount"] > policy.output.max_autonomous
                /\ ~ScopedApproval(approval, action)
             THEN Raised("APPROVAL_REQUIRED")
        ELSE IF invoice.invoice_id \in DOMAIN staged
             THEN Returned(staged[invoice.invoice_id])
        ELSE Returned(StagedPayment(invoice, args["amount"]))

(* Variant of WithStaged keyed by purchase order.                          *)
WithStagedByOrder(payment) ==
    [v \in DOMAIN staged \cup {payment.purchase_order_id} |->
        IF v \in DOMAIN staged THEN staged[v] ELSE payment]

(* The dictionary after a successful staging; an existing entry stays.     *)
WithStaged(payment) ==
    [v \in DOMAIN staged \cup {payment.invoice_id} |->
        IF v \in DOMAIN staged THEN staged[v] ELSE payment]

----------------------------------------------------------------------------
(* One call of a tool, without injected failures.                          *)
Call(tool, args, approval) ==
    CASE tool = "inspect_invoice" -> Lookup(Invoices, args["invoice_id"])
      [] tool = "lookup_supplier" -> Lookup(Suppliers, args["supplier_id"])
      [] tool = "lookup_purchase_order" ->
             Lookup(PurchaseOrders, args["purchase_order_id"])
      [] tool = "check_duplicate" -> CheckDuplicate(args["invoice_id"])
      [] tool = "retrieve_policy" -> Lookup(Policies, args["policy_version"])
      [] tool = "stage_payment" -> StagePayment(args, approval)

(* FailureInjectingToolEnvironment raises, or returns a record of no tool, *)
(* before the real tool is reached.  "TOOL_EXECUTION_FAILED" stands for    *)
(* any unclassified ValueError, TypeError or TimeoutError out of a tool.   *)
InjectedFailure(fault) ==
    IF fault \in {"TOOL_TIMEOUT", "MALFORMED_TOOL_RESPONSE"}
    THEN Retryable(fault)
    ELSE Raised(fault)

Invoke(tool, args, approval, fault) ==
    IF fault = "none" THEN Call(tool, args, approval) ELSE InjectedFailure(fault)

EnvInit == staged = <<>> /\ requests = <<>>
=============================================================================
