--------------------------- MODULE MCEnvironment ---------------------------
(***************************************************************************)
(* An instance of EnvironmentClients for TLC: every pairing of invoices    *)
(* and purchase orders, right and wrong amounts, and approvals that fail   *)
(* one condition of scoped_approval each.                                  *)
(***************************************************************************)
EXTENDS EnvironmentClients, MCFixtures

(* A second large payment, for which callers do hold a manager's approval. *)
EnvInvoices == Put(MCInvoices, "INV-2002", Invoice("INV-2002", "SUP-2001", "PO-2002", 12000))

EnvPurchaseOrders == Put(MCPurchaseOrders, "PO-2002", PO("PO-2002", "SUP-2001", 12000))

EnvStrip == Put(Put(MCStrip, "INV-2002", "INV-2002"), "PO-2002", "PO-2002")

(* str.strip().upper().                                                    *)
EnvCanonical == Put(MCCanonical, "usd", "USD")

Amounts == {0, 4000, 4200, 7500, 12000, 18400}

MCStageCalls ==
    {[k \in {"invoice_id", "purchase_order_id", "amount", "currency"} |->
         CASE k = "invoice_id" -> v [] k = "purchase_order_id" -> p
           [] k = "amount" -> a [] k = "currency" -> c] :
        v \in DOMAIN EnvInvoices \cup {" INV-1001", " INV-3001", ""}, p \in DOMAIN EnvPurchaseOrders,
        a \in Amounts, c \in {"USD", "usd", "EUR"}}

Exact(invoice) ==
    [action |-> "APPROVE", role |-> "finance_manager", run |-> 0, version |-> 1,
     digest |-> "digest", scope |-> [k \in ScopeKeys |-> EnvInvoices[invoice][k]]]

WrongRole(v) == [Exact(v) EXCEPT !.role = "accounts_payable_operator"]

MCApprovals ==
    {None, WrongRole("INV-2001"), [Exact("INV-2001") EXCEPT !.action = "DENY"],
     [Exact("INV-2001") EXCEPT !.scope["amount"] = 18000], Exact("INV-1001"),
     Exact("INV-2002"), [Exact("INV-2002") EXCEPT !.scope["currency"] = "usd"]}

MCRequesters == {"agent", "manager", "   "}
=============================================================================
