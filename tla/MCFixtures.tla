----------------------------- MODULE MCFixtures -----------------------------
(***************************************************************************)
(* The synthetic records of build_local_tool_environment in                *)
(* src/control_gate/tool_environment.py, for TLC.                          *)
(***************************************************************************)
EXTENDS Contracts

MCSuppliers ==
    [s \in {"SUP-1001", "SUP-2001", "SUP-3001"} |->
        [supplier_id |-> s, active |-> s # "SUP-3001", currencies |-> {"USD"}]]

PO(id, supplier, remaining) ==
    [purchase_order_id |-> id, supplier_id |-> supplier,
     remaining |-> remaining, currency |-> "USD", open |-> TRUE]

MCPurchaseOrders ==
    [p \in {"PO-1001", "PO-2001", "PO-3001", "PO-4001"} |->
        CASE p = "PO-1001" -> PO(p, "SUP-1001", 7500)
          [] p = "PO-2001" -> PO(p, "SUP-2001", 18400)
          [] p = "PO-3001" -> PO(p, "SUP-3001", 2500)
          [] p = "PO-4001" -> PO(p, "SUP-1001", 4000)]

Invoice(id, supplier, po, amount) ==
    [invoice_id |-> id, supplier_id |-> supplier, purchase_order_id |-> po,
     amount |-> amount, currency |-> "USD", validated |-> TRUE]

MCInvoices ==
    [v \in {"INV-1001", "INV-2001", "INV-3001", "INV-3002", "INV-4001"} |->
        CASE v = "INV-1001" -> Invoice(v, "SUP-1001", "PO-1001", 7500)
          [] v = "INV-2001" -> Invoice(v, "SUP-2001", "PO-2001", 18400)
          [] v = "INV-3001" -> Invoice(v, "SUP-1001", "PO-1001", 7500)
          [] v = "INV-3002" -> Invoice(v, "SUP-3001", "PO-3001", 2500)
          [] v = "INV-4001" -> Invoice(v, "SUP-1001", "PO-4001", 4200)]

MCDuplicateOf == [v \in {"INV-3001"} |-> "INV-1001"]

MCPolicies == [p \in {"finance-v1"} |-> FinancePolicy]

(* The texts that occur, and two with padding.                             *)
Texts ==
    DOMAIN MCSuppliers \cup DOMAIN MCPurchaseOrders \cup DOMAIN MCInvoices
        \cup {"finance-v1", "agent", "manager", "USD", "EUR", "", "   ", " INV-1001",
              " INV-3001", "INV-9999"}

MCStrip == [t \in Texts |-> CASE t = " INV-1001" -> "INV-1001"
                              [] t = " INV-3001" -> "INV-3001"
                              [] t = "   " -> ""
                              [] OTHER -> t]

MCCanonical == MCStrip
=============================================================================
