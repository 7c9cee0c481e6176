-------------------------- MODULE DriftRelations --------------------------
(***************************************************************************)
(* How the corpora of src/control_gate/controlled_drift.py and             *)
(* metamorphic.py change a request.  They edit a field of the context that *)
(* FixtureCompiler copies into the intent and that it reads for nothing    *)
(* else that Gate A judges, so each edit is one of the intent.             *)
(***************************************************************************)
EXTENDS GateA

(* Inflation: every amount that is a number, ten times as high.            *)
Inflated(i) == [i EXCEPT !.inputs["amount"] = IF @ \in Int THEN 10 * @ ELSE @]

(* Vendor attrition: the inputs say that the supplier does not exist.      *)
VendorGone(i) == [i EXCEPT !.claims = @ \cup {"P1"}]

WithSafeAssumption(i) ==
    [i EXCEPT !.assumptions = @ \cup {"assume_invoice_date_is_today"}]

WithAmount(i, amount) == [i EXCEPT !.inputs["amount"] = amount]

(* boundary_amount_below, _exact and _above: 9999.99, 10000.00 and 10000.01 *)
(* in the code, the limit and its neighbours among whole amounts here.     *)
BelowLimit(i) == WithAmount(i, AutonomousLimit - 1)
AtLimit(i) == WithAmount(i, AutonomousLimit)
OverLimit(i) == WithAmount(i, AutonomousLimit + 1)
=============================================================================
