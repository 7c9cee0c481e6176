------------------------- MODULE EnvironmentClients -------------------------
(***************************************************************************)
(* The tool environment on its own, under callers that may call its two    *)
(* recording tools with any arguments and any approval, in any order, as   *)
(* its tests and the un-gated arm of the benchmark do.                     *)
(***************************************************************************)
EXTENDS ToolEnvironment

CONSTANTS
    StageCalls,      \* the arguments callers may pass
    Approvals,       \* the approvals callers may pass, None among them
    Requesters       \* the requested_by texts of approval requests

(* An environment is built with FINANCE_V1_POLICY.                         *)
ASSUME LimitAssumption ==
    \A p \in DOMAIN Policies : Policies[p].max_autonomous <= AutonomousLimit

(* A call that raises or returns an existing record changes nothing.       *)
Stage(args, approval) ==
    LET answer == StagePayment(args, approval)
    IN  /\ answer.kind = "record"
        /\ staged' = WithStaged(answer.output)
        /\ UNCHANGED requests

(* Variant of WithRequest that records the latest request.                 *)
WithLatestRequest(id, payment, requester) ==
    [v \in DOMAIN requests \cup {id} |->
        IF v = id THEN [payment |-> payment, requested_by |-> requester,
                        approver |-> Policies["finance-v1"].approver]
        ELSE requests[v]]

(* The dictionary after a valid request; an existing entry stays.          *)
WithRequest(id, payment, requester) ==
    [v \in DOMAIN requests \cup {id} |->
        IF v \in DOMAIN requests THEN requests[v]
        ELSE [payment |-> payment, requested_by |-> requester,
              approver |-> Policies["finance-v1"].approver]]

RequestHumanApproval(args, requester) ==
    LET valid == ValidatedAction(args)
    IN  /\ valid.kind = "record"
        /\ Strip[requester] # ""
        /\ \/ valid.output.invoice_id \in DOMAIN requests
           \/ Lookup(Policies, "finance-v1").kind = "record"
        /\ requests' = WithRequest(valid.output.invoice_id,
                                   StagedPayment(valid.output, args["amount"]),
                                   requester)
        /\ UNCHANGED staged

EnvNext ==
    \E args \in StageCalls :
        \/ \E approval \in Approvals : Stage(args, approval)
        \/ \E requester \in Requesters : RequestHumanApproval(args, requester)

EnvSpec == EnvInit /\ [][EnvNext]_envVars

----------------------------------------------------------------------------
(* Whatever callers pass, a recorded payment or request is the one that    *)
(* the master data describe and allow (_validated_action), and no staged   *)
(* payment is for a duplicate, however its identifier is spelt: the lookup *)
(* trims it, the duplicate index does not (check_duplicate).               *)
RecordsArePayable ==
    /\ \A v \in DOMAIN staged : staged[v].invoice_id \notin DOMAIN DuplicateOf
    /\ \A payment \in {staged[v] : v \in DOMAIN staged}
                        \cup {requests[v].payment : v \in DOMAIN requests} :
          LET invoice == Invoices[payment.invoice_id]
              po      == PurchaseOrders[payment.purchase_order_id]
          IN  /\ \A k \in ScopeKeys : payment[k] = invoice[k]
              /\ Suppliers[payment.supplier_id].active
              /\ po.open /\ po.supplier_id = payment.supplier_id
              /\ payment.amount <= po.remaining

FinanceApproval(a, payment) ==
    /\ a # None
    /\ a.action = "APPROVE" /\ a.role = "finance_manager"
    /\ \A k \in ScopeKeys \ {"currency"} : a.scope[k] = payment[k]
    /\ Canonical[a.scope["currency"]] = payment.currency

CallsNeedApproval ==
    \A args \in StageCalls, approval \in Approvals :
        args["amount"] > AutonomousLimit =>
            LET answer == StagePayment(args, approval)
            IN  answer.kind = "record" => FinanceApproval(approval, answer.output)

PaymentsHaveApproval ==
    \A v \in DOMAIN staged :
        staged[v].amount > AutonomousLimit =>
            \E a \in Approvals : FinanceApproval(a, staged[v])

(* Whatever has been staged before, a call for an amount above the limit   *)
(* returns a payment only when the approval passed with that very call is  *)
(* a finance manager's, for exactly that payment; so every such payment    *)
(* that stands is one that some caller had an approval for.  The currency  *)
(* may be spelt as the caller spelt it (stage_payment).                    *)
LargePaymentsApproved == CallsNeedApproval /\ PaymentsHaveApproval

(* Both tools are idempotent: later calls, by anyone and with any amount,  *)
(* leave every recorded payment and request as it was first recorded.      *)
RecordsStand ==
    [][ /\ \A v \in DOMAIN staged : v \in DOMAIN staged' /\ staged'[v] = staged[v]
        /\ \A v \in DOMAIN requests :
              v \in DOMAIN requests' /\ requests'[v] = requests[v] ]_envVars
=============================================================================
