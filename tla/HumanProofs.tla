----------------------------- MODULE HumanProofs -----------------------------
(***************************************************************************)
(* What is paid, on whose authority, and what human decisions can and      *)
(* cannot do, for any master data, limit, number of retries, set of        *)
(* faults, set of orders, set of proposal edits, set of decisions and set  *)
(* of constraint changes.                                                  *)
(*                                                                         *)
(* First the tool environment by itself: what it records is payable,       *)
(* approved where it must be, and permanent, whoever calls.  EnvInv says   *)
(* more than the properties do: a recorded payment is the one that the     *)
(* master data determine, so that which of two calls recorded it does not  *)
(* matter.                                                                 *)
(*                                                                         *)
(* Then the controller on top of it: a run that has paid had the authority *)
(* to.  The two guards in front of a payment are brought together: Gate    *)
(* B's judgement of the proposal gives the request's terms and its         *)
(* permissions, the tool's own validation gives what the master data       *)
(* allow, and nothing that follows a payment changes its evidence or the   *)
(* contract it was judged by.                                              *)
(*                                                                         *)
(* Then the controller under an approval: everything that judges the       *)
(* approved child afresh (Gate A, Gate B, stage_payment) finds the         *)
(* authority that resume_invoice found.  Then lineages.  What a decision   *)
(* hands to the child is said about the latest run only, and an ancestor   *)
(* only by what relates it to that run: HumanInv says that the contract is *)
(* within those of all ancestors, and that whatever was escalated must     *)
(* still be asked.                                                         *)
(*                                                                         *)
(* Gate A is treated by itself, as operators on any intent: what an intent *)
(* without findings is, that the decision passes over no finding, and what *)
(* an edit of the request can make of it.  That a run's contract is Gate   *)
(* A's judgement (Licensed) carries this over to executions and lineages.  *)
(***************************************************************************)
EXTENDS TrailProofs, EnvironmentClients, HumanControl


(* What _validated_action demands of an invoice on record.                 *)
Payable(v) ==
    LET invoice == Invoices[v]
        po      == PurchaseOrders[invoice.purchase_order_id]
    IN  /\ v \in DOMAIN Invoices
        /\ Suppliers[invoice.supplier_id].active
        /\ po.open /\ po.supplier_id = invoice.supplier_id
        /\ invoice.amount <= po.remaining

Due(v) == StagedPayment(Invoices[v], Invoices[v].amount)

PaymentsAreDue ==
    /\ \A v \in DOMAIN staged :
          Payable(v) /\ v \notin DOMAIN DuplicateOf /\ staged[v] = Due(v)
    /\ \A v \in DOMAIN requests : Payable(v) /\ requests[v].payment = Due(v)

EnvInv == PaymentsAreDue /\ PaymentsHaveApproval

----------------------------------------------------------------------------
(* The tools.                                                              *)

LEMMA FoundRecord ==
    ASSUME NEW records, NEW id, Lookup(records, id).kind = "record"
    PROVE  /\ id \in DOMAIN Strip /\ Strip[id] \in DOMAIN records
           /\ Lookup(records, id).output = records[Strip[id]]
BY DEF Lookup, Uncaught, Raised, Returned

(* No code is None, so that a problem is never taken for none.             *)
LEMMA NoProblem ==
    ASSUME NEW invoice, NEW po, NEW supplier, NEW amount, NEW currency,
           ActionProblem(invoice, po, supplier, amount, currency) = None
    PROVE  /\ supplier.active /\ po.open
           /\ invoice.purchase_order_id = po.purchase_order_id
           /\ invoice.supplier_id = po.supplier_id
           /\ amount = invoice.amount /\ ~(amount > po.remaining)
           /\ Canonical[currency] = invoice.currency
BY ProblemsAssumption DEF ActionProblem, ActionProblems, WrongAmount

(* Arguments that pass _validated_action name an invoice that can be paid, *)
(* its order and its amount.                                               *)
LEMMA ValidatedRecord ==
    ASSUME NEW args, ValidatedAction(args).kind = "record"
    PROVE  LET v == Strip[args["invoice_id"]]
           IN  /\ ValidatedAction(args).output = Invoices[v]
               /\ Payable(v)
               /\ Strip[args["purchase_order_id"]] = Invoices[v].purchase_order_id
               /\ args["amount"] = Invoices[v].amount
               /\ Canonical[args["currency"]] = Invoices[v].currency
<1> DEFINE invoice  == Lookup(Invoices, args["invoice_id"])
           po       == Lookup(PurchaseOrders, args["purchase_order_id"])
           supplier == Lookup(Suppliers, invoice.output.supplier_id)
           v        == Strip[args["invoice_id"]]
           p        == Strip[args["purchase_order_id"]]
           s        == Invoices[v].supplier_id
<1>1. /\ invoice.kind = "record" /\ po.kind = "record" /\ supplier.kind = "record"
      /\ ActionProblem(invoice.output, po.output, supplier.output,
                       args["amount"], args["currency"]) = None
      /\ ValidatedAction(args) = invoice
  BY DEF ValidatedAction, Raised
<1>2. /\ v \in DOMAIN Invoices /\ invoice.output = Invoices[v]
      /\ p \in DOMAIN PurchaseOrders /\ po.output = PurchaseOrders[p]
      /\ s \in DOMAIN Strip /\ supplier.output = Suppliers[Strip[s]]
  BY <1>1, FoundRecord
<1>3. s \in DOMAIN Suppliers /\ PurchaseOrders[p].purchase_order_id = p
      /\ Invoices[v].amount \in Nat /\ PurchaseOrders[p].remaining \in Nat
  BY <1>2, FixtureAssumption
<1>4. supplier.output = Suppliers[s]
  BY <1>2, <1>3, TrimmedAssumption
<1> HIDE DEF invoice, po, supplier, v, p, s
<1>5. /\ Suppliers[s].active /\ PurchaseOrders[p].open
      /\ Invoices[v].purchase_order_id = PurchaseOrders[p].purchase_order_id
      /\ Invoices[v].supplier_id = PurchaseOrders[p].supplier_id
      /\ args["amount"] = Invoices[v].amount
      /\ ~(args["amount"] > PurchaseOrders[p].remaining)
      /\ Canonical[args["currency"]] = Invoices[v].currency
  BY <1>1, <1>2, <1>4, NoProblem
<1>6. Payable(v)
  BY <1>2, <1>3, <1>5 DEF Payable, s
<1> QED
  BY <1>1, <1>2, <1>3, <1>5, <1>6 DEF v, p

(* What stage_payment returns without raising.                             *)
LEMMA StagedAnswer ==
    ASSUME NEW args, NEW approval, StagePayment(args, approval).kind = "record"
    PROVE  LET v      == Strip[args["invoice_id"]]
               output == StagePayment(args, approval).output
           IN  /\ ValidatedAction(args).kind = "record"
               /\ v \notin DOMAIN DuplicateOf
               /\ output = IF v \in DOMAIN staged THEN staged[v] ELSE Due(v)
               /\ Invoices[v].amount > AutonomousLimit => FinanceApproval(approval, Due(v))
<1> DEFINE valid  == ValidatedAction(args)
           v      == Strip[args["invoice_id"]]
           policy == Lookup(Policies, "finance-v1")
<1>1. valid.kind = "record"
  BY DEF StagePayment
<1>2. /\ valid.output = Invoices[v] /\ Payable(v)
      /\ args["amount"] = Invoices[v].amount
      /\ Canonical[args["currency"]] = Invoices[v].currency
  BY <1>1, ValidatedRecord
<1>3. /\ v \in DOMAIN Invoices /\ Invoices[v].invoice_id = v
      /\ Invoices[v].amount \in Nat
  BY <1>2, FixtureAssumption DEF Payable
<1> HIDE DEF v
<1> DEFINE action == [k \in ScopeKeys |->
                        IF k = "supplier_id" THEN valid.output.supplier_id
                        ELSE IF k = "invoice_id" THEN valid.output.invoice_id
                        ELSE IF k = "purchase_order_id" THEN valid.output.purchase_order_id
                        ELSE args[k]]
<1>4. /\ valid.output.invoice_id \notin DOMAIN DuplicateOf
      /\ policy.kind = "record"
      /\ \/ ~(args["amount"] > policy.output.max_autonomous)
         \/ ScopedApproval(approval, action)
      /\ StagePayment(args, approval).output =
            IF valid.output.invoice_id \in DOMAIN staged
            THEN staged[valid.output.invoice_id]
            ELSE StagedPayment(valid.output, args["amount"])
  BY <1>1 DEF StagePayment, Raised, Returned
<1>5. policy.output.max_autonomous \in Nat /\ policy.output.max_autonomous <= AutonomousLimit
  BY <1>4, FoundRecord, FixtureAssumption, LimitAssumption
<1> HIDE DEF valid, policy
<1>6. ASSUME Invoices[v].amount > AutonomousLimit
      PROVE  FinanceApproval(approval, Due(v))
  <2>1. ScopedApproval(approval, action)
    BY <1>2, <1>3, <1>4, <1>5, <1>6, PolicyAssumption
  <2>2. \A k \in ScopeKeys : approval.scope[k] = action[k]
    BY <2>1 DEF ScopedApproval
  <2>3. \A k \in ScopeKeys \ {"currency"} : action[k] = Due(v)[k]
    BY <1>2 DEF Due, StagedPayment, ScopeKeys
  <2>4. action["currency"] = args["currency"] /\ Due(v).currency = Invoices[v].currency
    BY DEF Due, StagedPayment, ScopeKeys
  <2> QED
    BY <1>2, <2>1, <2>2, <2>3, <2>4 DEF ScopedApproval, ScopeKeys, FinanceApproval
<1> QED
  BY <1>1, <1>2, <1>3, <1>4, <1>6 DEF Due, v, valid

----------------------------------------------------------------------------
(* The steps.                                                              *)

(* Both dictionaries only grow, by one entry.                              *)
LEMMA StageRecords ==
    ASSUME EnvInv, NEW args \in StageCalls, NEW approval \in Approvals,
           Stage(args, approval)
    PROVE  LET v == Strip[args["invoice_id"]]
           IN  /\ DOMAIN staged' = DOMAIN staged \cup {v}
               /\ \A w \in DOMAIN staged : staged'[w] = staged[w]
               /\ staged'[v] = Due(v) /\ Payable(v) /\ v \notin DOMAIN DuplicateOf
               /\ requests' = requests
<1> DEFINE v      == Strip[args["invoice_id"]]
           output == StagePayment(args, approval).output
<1>1. StagePayment(args, approval).kind = "record"
  BY DEF Stage
<1>2. Payable(v) /\ v \notin DOMAIN DuplicateOf
  BY <1>1, StagedAnswer, ValidatedRecord
<1>3. output = Due(v)
  BY <1>1, StagedAnswer DEF EnvInv, PaymentsAreDue
<1>4. Due(v).invoice_id = v
  BY <1>2, FixtureAssumption DEF Due, StagedPayment, Payable
<1>5. staged' = WithStaged(output) /\ requests' = requests
  BY DEF Stage
<1> HIDE DEF v, output
<1>6. staged' = [w \in DOMAIN staged \cup {v} |->
                   IF w \in DOMAIN staged THEN staged[w] ELSE Due(v)]
  BY <1>3, <1>4, <1>5 DEF WithStaged
<1>7. staged'[v] = Due(v)
  BY <1>6 DEF EnvInv, PaymentsAreDue
<1> QED
  BY <1>2, <1>5, <1>6, <1>7 DEF v

LEMMA RequestRecords ==
    ASSUME EnvInv, NEW args \in StageCalls, NEW requester \in Requesters,
           RequestHumanApproval(args, requester)
    PROVE  LET v == Strip[args["invoice_id"]]
           IN  /\ DOMAIN requests' = DOMAIN requests \cup {v}
               /\ \A w \in DOMAIN requests : requests'[w] = requests[w]
               /\ requests'[v].payment = Due(v) /\ Payable(v)
               /\ staged' = staged
<1> DEFINE v       == Strip[args["invoice_id"]]
           valid   == ValidatedAction(args)
           payment == StagedPayment(valid.output, args["amount"])
<1>1. /\ valid.kind = "record" /\ staged' = staged
      /\ requests' = WithRequest(valid.output.invoice_id, payment, requester)
  BY DEF RequestHumanApproval
<1>2. /\ valid.output = Invoices[v] /\ Payable(v)
      /\ args["amount"] = Invoices[v].amount
  BY <1>1, ValidatedRecord
<1>3. valid.output.invoice_id = v /\ payment = Due(v)
  BY <1>2, FixtureAssumption DEF Payable, Due
<1> HIDE DEF v, valid, payment
<1>4. /\ DOMAIN requests' = DOMAIN requests \cup {v}
      /\ \A w \in DOMAIN requests : requests'[w] = requests[w]
      /\ v \notin DOMAIN requests => requests'[v].payment = Due(v)
  BY <1>1, <1>3 DEF WithRequest
<1>5. requests'[v].payment = Due(v)
  BY <1>4 DEF EnvInv, PaymentsAreDue
<1> QED
  BY <1>1, <1>2, <1>4, <1>5 DEF v

(* What is not staged before is staged on the manager's approval.          *)
LEMMA StageIsApproved ==
    ASSUME EnvInv, NEW args \in StageCalls, NEW approval \in Approvals,
           Stage(args, approval)
    PROVE  PaymentsHaveApproval'
<1> DEFINE v == Strip[args["invoice_id"]]
<1>1. /\ DOMAIN staged' = DOMAIN staged \cup {v}
      /\ \A w \in DOMAIN staged : staged'[w] = staged[w]
      /\ staged'[v] = Due(v)
  BY StageRecords
<1>2. StagePayment(args, approval).kind = "record"
  BY DEF Stage
<1>3. Invoices[v].amount > AutonomousLimit => FinanceApproval(approval, Due(v))
  BY <1>2, StagedAnswer
<1>4. Due(v).amount = Invoices[v].amount
  BY DEF Due, StagedPayment
<1> HIDE DEF v
<1> SUFFICES ASSUME NEW w \in DOMAIN staged', staged'[w].amount > AutonomousLimit
             PROVE  \E a \in Approvals : FinanceApproval(a, staged'[w])
  BY DEF PaymentsHaveApproval, FinanceApproval
<1>5. CASE w = v
  BY <1>1, <1>3, <1>4, <1>5
<1>6. CASE w # v
  BY <1>1, <1>6 DEF EnvInv, PaymentsHaveApproval
<1> QED
  BY <1>5, <1>6

LEMMA EnvStepKeeps ==
    ASSUME EnvInv, [EnvNext]_envVars
    PROVE  /\ EnvInv'
           /\ \A v \in DOMAIN staged : v \in DOMAIN staged' /\ staged'[v] = staged[v]
           /\ \A v \in DOMAIN requests :
                 v \in DOMAIN requests' /\ requests'[v] = requests[v]
<1>1. ASSUME NEW args \in StageCalls, NEW approval \in Approvals, Stage(args, approval)
      PROVE  /\ PaymentsAreDue' /\ requests' = requests
             /\ \A v \in DOMAIN staged : v \in DOMAIN staged' /\ staged'[v] = staged[v]
  <2> DEFINE v == Strip[args["invoice_id"]]
  <2>1. /\ DOMAIN staged' = DOMAIN staged \cup {v}
        /\ \A w \in DOMAIN staged : staged'[w] = staged[w]
        /\ staged'[v] = Due(v) /\ Payable(v) /\ v \notin DOMAIN DuplicateOf
        /\ requests' = requests
    BY <1>1, StageRecords
  <2> HIDE DEF v
  <2>2. \A w \in DOMAIN staged' :
           Payable(w) /\ w \notin DOMAIN DuplicateOf /\ staged'[w] = Due(w)
    BY <2>1 DEF EnvInv, PaymentsAreDue
  <2>3. \A w \in DOMAIN requests' : Payable(w) /\ requests'[w].payment = Due(w)
    BY <2>1 DEF EnvInv, PaymentsAreDue
  <2>4. PaymentsAreDue'
    BY <2>2, <2>3 DEF PaymentsAreDue, Payable, Due, StagedPayment
  <2> QED
    BY <2>1, <2>4
<1>2. ASSUME NEW args \in StageCalls, NEW requester \in Requesters,
             RequestHumanApproval(args, requester)
      PROVE  /\ EnvInv' /\ staged' = staged
             /\ \A v \in DOMAIN requests :
                   v \in DOMAIN requests' /\ requests'[v] = requests[v]
  <2> DEFINE v == Strip[args["invoice_id"]]
  <2>1. /\ DOMAIN requests' = DOMAIN requests \cup {v}
        /\ \A w \in DOMAIN requests : requests'[w] = requests[w]
        /\ requests'[v].payment = Due(v) /\ Payable(v)
        /\ staged' = staged
    BY <1>2, RequestRecords
  <2> HIDE DEF v
  <2>2. \A w \in DOMAIN requests' : Payable(w) /\ requests'[w].payment = Due(w)
    BY <2>1 DEF EnvInv, PaymentsAreDue
  <2>3. \A w \in DOMAIN staged' :
           Payable(w) /\ w \notin DOMAIN DuplicateOf /\ staged'[w] = Due(w)
    BY <2>1 DEF EnvInv, PaymentsAreDue
  <2>4. PaymentsAreDue'
    BY <2>2, <2>3 DEF PaymentsAreDue, Payable, Due, StagedPayment
  <2>5. PaymentsHaveApproval'
    BY <2>1 DEF EnvInv, PaymentsHaveApproval, FinanceApproval
  <2> QED
    BY <2>1, <2>4, <2>5 DEF EnvInv
<1>3. CASE UNCHANGED envVars
  BY <1>3 DEF envVars, EnvInv, PaymentsAreDue, Payable, Due, StagedPayment,
              PaymentsHaveApproval, FinanceApproval
<1> QED
  BY <1>1, <1>2, <1>3, StageIsApproved DEF EnvNext, EnvInv

LEMMA EnvInitHolds == EnvInit => EnvInv
BY DEF EnvInit, EnvInv, PaymentsAreDue, PaymentsHaveApproval

LEMMA EnvInvariant == EnvSpec => []EnvInv
BY EnvInitHolds, EnvStepKeeps, PTL DEF EnvSpec

----------------------------------------------------------------------------
(* Whatever callers pass, what the environment records is what the master  *)
(* data describe and allow, and what it stages is no duplicate             *)
(* (_validated_action, stage_payment, request_human_approval).             *)
THEOREM RecordsAlwaysPayable == EnvSpec => []RecordsArePayable
<1>1. ASSUME EnvInv, NEW v \in DOMAIN staged
      PROVE  staged[v].invoice_id \notin DOMAIN DuplicateOf
  <2>1. Payable(v) /\ v \notin DOMAIN DuplicateOf /\ staged[v] = Due(v)
    BY <1>1 DEF EnvInv, PaymentsAreDue
  <2>2. Due(v).invoice_id = v
    BY <2>1, FixtureAssumption DEF Payable, Due, StagedPayment
  <2> QED
    BY <2>1, <2>2
<1>2. ASSUME EnvInv,
             NEW payment \in {staged[v] : v \in DOMAIN staged}
                    \cup {requests[v].payment : v \in DOMAIN requests}
      PROVE  LET invoice == Invoices[payment.invoice_id]
                 po      == PurchaseOrders[payment.purchase_order_id]
             IN  /\ \A k \in ScopeKeys : payment[k] = invoice[k]
                 /\ Suppliers[payment.supplier_id].active
                 /\ po.open /\ po.supplier_id = payment.supplier_id
                 /\ payment.amount <= po.remaining
  <2> PICK v : Payable(v) /\ payment = Due(v)
    BY <1>2 DEF EnvInv, PaymentsAreDue
  <2>1. /\ Due(v).invoice_id = v /\ Invoices[v].invoice_id = v
        /\ Due(v).supplier_id = Invoices[v].supplier_id
        /\ Due(v).purchase_order_id = Invoices[v].purchase_order_id
        /\ Due(v).amount = Invoices[v].amount /\ Due(v).currency = Invoices[v].currency
    BY FixtureAssumption DEF Payable, Due, StagedPayment
  <2>2. \A k \in ScopeKeys : Due(v)[k] = Invoices[v][k]
    BY <2>1 DEF ScopeKeys
  <2>3. /\ Suppliers[Due(v).supplier_id].active
        /\ PurchaseOrders[Due(v).purchase_order_id].open
        /\ PurchaseOrders[Due(v).purchase_order_id].supplier_id = Due(v).supplier_id
        /\ Due(v).amount <= PurchaseOrders[Due(v).purchase_order_id].remaining
    BY <2>1 DEF Payable
  <2> QED
    BY <2>1, <2>2, <2>3
<1>3. EnvInv => RecordsArePayable
  BY <1>1, <1>2 DEF RecordsArePayable
<1> QED
  BY <1>3, EnvInvariant, PTL

(* No call for an amount above the limit returns a payment, new or old,    *)
(* without a finance manager's approval of exactly that payment            *)
(* (stage_payment).                                                        *)
THEOREM LargePaymentsAlwaysApproved == EnvSpec => []LargePaymentsApproved
<1>1. EnvInv => LargePaymentsApproved
  <2> SUFFICES ASSUME EnvInv, NEW args \in StageCalls, NEW approval \in Approvals,
                      args["amount"] > AutonomousLimit,
                      StagePayment(args, approval).kind = "record"
               PROVE  FinanceApproval(approval, StagePayment(args, approval).output)
    BY DEF EnvInv, LargePaymentsApproved, CallsNeedApproval
  <2> DEFINE v == Strip[args["invoice_id"]]
  <2>1. StagePayment(args, approval).output = Due(v)
    BY StagedAnswer DEF EnvInv, PaymentsAreDue
  <2>2. args["amount"] = Invoices[v].amount
    BY StagedAnswer, ValidatedRecord
  <2>3. FinanceApproval(approval, Due(v))
    BY <2>2, StagedAnswer
  <2> QED
    BY <2>1, <2>3
<1> QED
  BY <1>1, EnvInvariant, PTL

(* No later call replaces or withdraws what is recorded (stage_payment,    *)
(* request_human_approval).                                                *)
THEOREM RecordsAlwaysStand == EnvSpec => RecordsStand
<1> DEFINE Stand ==
      /\ \A v \in DOMAIN staged : v \in DOMAIN staged' /\ staged'[v] = staged[v]
      /\ \A v \in DOMAIN requests :
            v \in DOMAIN requests' /\ requests'[v] = requests[v]
<1>1. EnvInv /\ [EnvNext]_envVars => Stand
  BY EnvStepKeeps
<1>2. RecordsStand <=> [][Stand]_envVars
  BY DEF RecordsStand
<1> HIDE DEF Stand
<1> QED
  BY <1>1, <1>2, EnvInvariant, PTL DEF EnvSpec
----------------------------------------------------------------------------
(* What one step makes of a run.                                           *)

(* Why a run ends in the step that checks a proposal.                      *)
Stopped(c, outcome) ==
    /\ outcome.status \in {"REJECTED", "FAILED"}
    /\ \/ c.decision.decision = "REJECT" /\ outcome.reason = c.decision.code
       \/ outcome.reason \in {"INVOICE_INPUT_MISMATCH", "DUPLICATE_INVOICE"}
       \/ \E answer \in Answers(c) : answer.kind = "error" /\ outcome.reason = answer.code

LEMMA ReasonShape ==
    ASSUME NEW r, NEW reason, NEW status, DOMAIN r = RunFields
    PROVE  LET s == FinishWith(r, reason, status)
           IN  /\ Differs(r, s, {"events", "state", "outcome"})
               /\ s.state = status
               /\ s.outcome.status = status /\ s.outcome.reason = reason
BY CloseShape DEF FinishWith, Outcome

LEMMA CheckedStep ==
    ASSUME IInv, NEW c \in CheckedRuns,
           \/ Reject(c)
           \/ Pause(c)
           \/ \E answer \in Answers(c) :
                  Fail(c, answer) \/ Escape(c, answer) \/ Succeed(c, answer)
    PROVE  /\ Running
           /\ run'.contract = run.contract /\ run'.decision = c.decision
           /\ run'.state = "ESCALATION_REQUIRED" => c.decision.decision = "ESCALATE"
           /\ Running' => run'.approvalState = run.approvalState
           /\ run'.outcome = None \/ Stopped(c, run'.outcome)
<1>1. Running
  BY DEF Reject, Pause, Fail, Escape, Succeed, Superstep
<1>2. DOMAIN run = RunFields /\ run.outcome = None /\ run.state = "RUNNING"
  BY <1>1 DEF IInv, TypeOK, Running
<1>3. Differs(run, c, {"events", "proposed", "decision"})
  BY <1>1, CheckedRun
<1>4. /\ DOMAIN c = RunFields /\ c.contract = run.contract /\ c.outcome = None
      /\ c.approvalState = run.approvalState /\ c.state = "RUNNING"
  BY <1>2, <1>3 DEF Differs, RunFields
<1>5. CASE Reject(c)
  <2>1. /\ Differs(c, run', {"events", "state", "outcome"})
        /\ run'.state = "REJECTED" /\ run'.outcome.status = "REJECTED"
        /\ run'.outcome.reason = c.decision.code /\ c.decision.decision = "REJECT"
    BY <1>4, <1>5, ReasonShape DEF Reject
  <2> QED
    BY <1>1, <1>4, <2>1 DEF Differs, RunFields, Stopped
<1>6. CASE Pause(c)
  <2>1. /\ Differs(c, run', {"events", "state", "questions", "approvalState"})
        /\ run'.state \in PausedStates
    BY <1>4, <1>6, PausedShape DEF Pause
  <2>2. run'.state = "ESCALATION_REQUIRED" => c.decision.decision # "CLARIFY"
    <3>1. run'.state = IF c.decision.decision = "CLARIFY" THEN "CLARIFICATION_REQUIRED"
                       ELSE "ESCALATION_REQUIRED"
      BY <1>4, <1>6 DEF Pause, Paused, Log, RunFields
    <3> QED
      BY <3>1
  <2> QED
    BY <1>1, <1>4, <1>6, <2>1, <2>2 DEF Differs, RunFields, Pause, Running, PausedStates
<1>7. ASSUME NEW answer \in Answers(c),
             Fail(c, answer) \/ Escape(c, answer) \/ Succeed(c, answer)
      PROVE  /\ run'.contract = run.contract /\ run'.decision = c.decision
             /\ run'.state # "ESCALATION_REQUIRED"
             /\ run'.approvalState = run.approvalState
             /\ run'.outcome = None \/ Stopped(c, run'.outcome)
  <2> DEFINE begun == Started(c)
  <2>1. Differs(c, begun, {"events", "history"})
    BY <1>4, StartedShape
  <2> HIDE DEF begun
  <2>2. /\ DOMAIN begun = RunFields /\ begun.contract = run.contract
        /\ begun.outcome = None /\ begun.approvalState = run.approvalState
        /\ begun.state = "RUNNING" /\ begun.decision = c.decision
    BY <1>4, <2>1 DEF Differs, RunFields
  <2>3. CASE Escape(c, answer)
    BY <2>2, <2>3 DEF Escape, begun
  <2>4. CASE Fail(c, answer)
    <3> DEFINE failed == FailedCall(begun, answer.code)
               tool   == c.proposed.tool
    <3>1. Differs(begun, failed, {"events", "observations"})
      BY <2>2, FailedCallShape
    <3>2. \/ run' = ScheduleRetry(failed, tool, answer.code)
          \/ run' = FinishWith(failed, answer.code, "FAILED")
      BY <2>4 DEF Fail, begun
    <3> HIDE DEF failed, tool
    <3>3. /\ DOMAIN failed = RunFields /\ failed.contract = run.contract
          /\ failed.outcome = None /\ failed.approvalState = run.approvalState
          /\ failed.state = "RUNNING" /\ failed.decision = c.decision
      BY <2>2, <3>1 DEF Differs, RunFields
    <3>4. CASE run' = ScheduleRetry(failed, tool, answer.code)
      <4>1. Differs(failed, run', {"events", "retry"})
        BY <3>3, <3>4, ScheduleRetryShape
      <4> QED
        BY <3>3, <4>1 DEF Differs, RunFields
    <3>5. CASE run' = FinishWith(failed, answer.code, "FAILED")
      <4>1. /\ Differs(failed, run', {"events", "state", "outcome"})
            /\ run'.state = "FAILED"
            /\ run'.outcome.status = "FAILED" /\ run'.outcome.reason = answer.code
        BY <3>3, <3>5, ReasonShape
      <4>2. Stopped(c, run'.outcome)
        BY <2>4, <4>1 DEF Stopped, Fail
      <4> QED
        BY <3>3, <4>1, <4>2 DEF Differs, RunFields
    <3> QED
      BY <3>2, <3>4, <3>5
  <2>5. CASE Succeed(c, answer)
    <3> DEFINE done == CompletedCall(begun, answer.output)
    <3>1. Differs(begun, done, {"events", "evidence", "observations", "retry"})
      BY <2>2, CompletedCallShape
    <3>2. run' = Settled(done, c.proposed.tool, answer.output)
      BY <2>5 DEF Succeed, begun
    <3> HIDE DEF done
    <3>3. /\ DOMAIN done = RunFields /\ done.contract = run.contract
          /\ done.outcome = None /\ done.approvalState = run.approvalState
          /\ done.state = "RUNNING" /\ done.decision = c.decision
      BY <2>2, <3>1 DEF Differs, RunFields
    <3>4. \/ run' = done
          \/ run' = FinishWith(done, "INVOICE_INPUT_MISMATCH", "FAILED")
          \/ run' = FinishWith(done, "DUPLICATE_INVOICE", "FAILED")
      BY <3>2 DEF Settled
    <3>5. ASSUME NEW reason \in {"INVOICE_INPUT_MISMATCH", "DUPLICATE_INVOICE"},
                 run' = FinishWith(done, reason, "FAILED")
          PROVE  /\ Differs(done, run', {"events", "state", "outcome"})
                 /\ run'.state = "FAILED" /\ Stopped(c, run'.outcome)
      <4>1. /\ Differs(done, run', {"events", "state", "outcome"})
            /\ run'.state = "FAILED"
            /\ run'.outcome.status = "FAILED" /\ run'.outcome.reason = reason
        BY <3>3, <3>5, ReasonShape
      <4> QED
        BY <4>1 DEF Stopped
    <3> QED
      BY <3>3, <3>4, <3>5 DEF Differs, RunFields
  <2> QED
    BY <1>7, <2>3, <2>4, <2>5
<1> QED
  BY <1>1, <1>5, <1>6, <1>7

----------------------------------------------------------------------------
(* The controller.                                                         *)

AuthorityInv == GInv /\ StagedWithinAuthority

(* Gate B approves a payment only of a run that may submit payments.       *)
LEMMA ApprovedPermission ==
    ASSUME IInv, Running, NEW c \in CheckedRuns, c.decision.decision = "APPROVE",
           c.proposed.tool = "stage_payment"
    PROVE  LET intent == run.contract.intent
           IN  /\ "payment.submit" \in intent.allowed
               /\ intent.prohibited \cap
                     {"stage_payment", "payment.submit", "submit_payment"} = {}
<1>1. DOMAIN run = RunFields /\ Len(run.history) \in Nat
  BY DEF IInv, TypeOK
<1>2. PICK p : c = Checked(run, p, DecideRuntime(run, p))
  BY DEF CheckedRuns, Judgements
<1>3. c.proposed = p /\ c.decision = Result(run, p, DecideRuntime(run, p))
  BY <1>1, <1>2, CheckedShape
<1>4. DecideRuntime(run, p) = None
  BY <1>3 DEF Result, Verdict
<1>5. ScopeProblem(run, p) = None
  BY <1>4 DEF DecideRuntime
<1>6. /\ ~Prohibited(run.contract.intent, p.tool)
      /\ Permission(p.tool) \in run.contract.intent.allowed
  BY <1>5, CodesAssumption, SMT DEF ScopeProblem, RuntimeCodes
<1>7. p.tool = "stage_payment" /\ Permission(p.tool) = "payment.submit"
  BY <1>3 DEF Permission
<1> QED
  BY <1>6, <1>7 DEF Prohibited

(* What stage_payment answers is the payment of an invoice that the master *)
(* data allow to be paid.                                                  *)
LEMMA PaidRecord ==
    ASSUME LedgerOfRecords, NEW args, NEW approval, NEW fault,
           Invoke("stage_payment", args, approval, fault).kind = "record"
    PROVE  LET payment == Invoke("stage_payment", args, approval, fault).output
               po      == PurchaseOrders[payment.purchase_order_id]
           IN  /\ payment.invoice_id \notin DOMAIN DuplicateOf
               /\ Suppliers[payment.supplier_id].active
               /\ po.open /\ payment.amount <= po.remaining
<1> DEFINE v == Strip[args["invoice_id"]]
<1>1. fault = "none"
  BY DEF Invoke, InjectedFailure, Raised, Retryable
<1>2. /\ Invoke("stage_payment", args, approval, fault) = StagePayment(args, approval)
      /\ StagePayment(args, approval).kind = "record"
  BY <1>1 DEF Invoke, Call
<1>3. /\ ValidatedAction(args).kind = "record" /\ v \notin DOMAIN DuplicateOf
      /\ StagePayment(args, approval).output =
            IF v \in DOMAIN staged THEN staged[v] ELSE Due(v)
  BY <1>2, StagedAnswer
<1>4. Payable(v)
  BY <1>3, ValidatedRecord
<1> HIDE DEF v
<1>5. StagePayment(args, approval).output = Due(v)
  BY <1>3 DEF LedgerOfRecords, Due
<1>6. /\ Due(v).invoice_id = v /\ Due(v).supplier_id = Invoices[v].supplier_id
      /\ Due(v).purchase_order_id = Invoices[v].purchase_order_id
      /\ Due(v).amount = Invoices[v].amount
  BY <1>4, FixtureAssumption DEF Payable, Due, StagedPayment
<1>7. /\ Due(v).invoice_id \notin DOMAIN DuplicateOf
      /\ Suppliers[Due(v).supplier_id].active
      /\ PurchaseOrders[Due(v).purchase_order_id].open
      /\ Due(v).amount <= PurchaseOrders[Due(v).purchase_order_id].remaining
  BY <1>3, <1>4, <1>6 DEF Payable
<1> QED
  BY <1>2, <1>5, <1>7

(* The step that pays.                                                     *)
LEMMA PaysWithinAuthority ==
    ASSUME GInv, NEW c \in CheckedRuns, NEW answer \in Answers(c), Succeed(c, answer),
           c.proposed.tool = "stage_payment"
    PROVE  StagedWithinAuthority'
<1> DEFINE intent  == run.contract.intent
           payment == run'.evidence["stage_payment"]
           po      == PurchaseOrders[payment.purchase_order_id]
<1>1. /\ Running /\ c.decision.decision = "APPROVE" /\ run'.contract = run.contract
      /\ payment = answer.output
  <2>1. run'.evidence = Put(run.evidence, "stage_payment", answer.output)
    BY SuccessShape
  <2> QED
    BY <2>1, SuccessShape DEF Put
<1>2. Governed!Asked(payment) /\ Governed!Allowed(payment)
  <2>1. payment = staged'[intent.inputs["invoice_id"]] /\ Governed!Pay
    BY StagePays
  <2> QED
    BY <2>1 DEF Governed!Pay
<1>3. /\ "payment.submit" \in intent.allowed
      /\ intent.prohibited \cap
            {"stage_payment", "payment.submit", "submit_payment"} = {}
  BY <1>1, ApprovedPermission DEF GInv
<1>4. /\ payment.invoice_id \notin DOMAIN DuplicateOf
      /\ Suppliers[payment.supplier_id].active
      /\ po.open /\ payment.amount <= po.remaining
  <2>1. answer.kind = "record"
    BY DEF Succeed
  <2> QED
    BY <1>1, <2>1, PaidRecord DEF GInv, Answers
<1> HIDE DEF payment
<1> QED
  BY <1>1, <1>2, <1>3, <1>4
  DEF StagedWithinAuthority, Governed!Asked, Governed!Allowed, payment

(* No other call pays.                                                     *)
LEMMA UnpaidSteps ==
    ASSUME GInv, NEW c \in CheckedRuns,
           \/ Reject(c)
           \/ Pause(c)
           \/ \E answer \in Answers(c) :
                  Fail(c, answer) \/ Escape(c, answer) \/ Succeed(c, answer),
           ~\E answer \in Answers(c) : Succeed(c, answer) /\ c.proposed.tool = "stage_payment"
    PROVE  "stage_payment" \notin DOMAIN run.evidence \cup DOMAIN run'.evidence
<1>1. \A k \in 0..5 : "stage_payment" \notin Prefix(k)
  <2>1. InvoiceTools[6] = "stage_payment" /\ 6 \in 1..6
    BY DEF InvoiceTools
  <2>2. \A k \in 0..5 : \A j \in 1..k : j \in 1..6 /\ j # 6
    OBVIOUS
  <2> QED
    BY <2>1, <2>2, ToolsDiffer DEF Prefix
<1>2. ASSUME Running, DOMAIN run.evidence # Governed!All
      PROVE  "stage_payment" \notin DOMAIN run.evidence
  <2>1. PICK k \in 0..6 : DOMAIN run.evidence = Prefix(k)
    BY <1>2 DEF GInv, IInv, RetryBudget
  <2>2. k \in 0..5
    BY <1>2, <2>1, Plan
  <2> QED
    BY <1>1, <2>1, <2>2
<1>4. ASSUME Reject(c) \/ Pause(c)
      PROVE  "stage_payment" \notin DOMAIN run.evidence \cup DOMAIN run'.evidence
  <2>1. Governed!Stop /\ Running
    BY <1>4, RejectStops, PauseStops DEF Reject, Pause, Superstep
  <2> QED
    BY <1>2, <2>1 DEF Governed!Stop
<1>5. ASSUME NEW answer \in Answers(c),
             Fail(c, answer) \/ Escape(c, answer)
      PROVE  "stage_payment" \notin DOMAIN run.evidence \cup DOMAIN run'.evidence
  <2>1. Running /\ DOMAIN run.evidence # Governed!All
    BY <1>5, NotYetPaid DEF Fail, Escape, Superstep, GInv
  <2>2. DOMAIN run'.evidence = DOMAIN run.evidence
    BY <1>5, FailStopsOrStutters, EscapeStops DEF Governed!Stop, Governed!vars
  <2> QED
    BY <1>2, <2>1, <2>2
<1>6. ASSUME NEW answer \in Answers(c), Succeed(c, answer),
             c.proposed.tool # "stage_payment"
      PROVE  "stage_payment" \notin DOMAIN run.evidence \cup DOMAIN run'.evidence
  <2>1. PICK k \in 0..5 : /\ c.proposed.tool = InvoiceTools[k + 1]
                         /\ DOMAIN run.evidence = Prefix(k)
                         /\ DOMAIN run'.evidence = Prefix(k + 1)
    BY <1>6, SuccessShape
  <2>2. k # 5
    BY <1>6, <2>1 DEF InvoiceTools
  <2> QED
    BY <1>1, <2>1, <2>2
<1> QED
  BY <1>4, <1>5, <1>6

(* Every other step leaves a payment and its contract alone, or leaves a   *)
(* run that has not paid.                                                  *)
LEMMA OthersDoNotPay ==
    ASSUME GInv, [Next]_vars
    PROVE  \/ "stage_payment" \notin DOMAIN run'.evidence
           \/ run'.contract = run.contract /\ run'.evidence = run.evidence
           \/ \E c \in CheckedRuns : \E answer \in Answers(c) :
                 Succeed(c, answer) /\ c.proposed.tool = "stage_payment"
<1>1. CASE FinishRun
  <2>1. DOMAIN run = RunFields
    BY DEF GInv, IInv, TypeOK
  <2>2. Differs(run, run', {"events", "state", "outcome"})
    BY <1>1, <2>1, FinishPlanShape DEF FinishRun
  <2> QED
    BY <2>2 DEF Differs, RunFields
<1>2. ASSUME NEW c \in CheckedRuns,
             \/ Reject(c)
             \/ Pause(c)
             \/ \E answer \in Answers(c) :
                    Fail(c, answer) \/ Escape(c, answer) \/ Succeed(c, answer)
      PROVE  \/ "stage_payment" \notin DOMAIN run'.evidence
             \/ \E answer \in Answers(c) : /\ Succeed(c, answer)
                                           /\ c.proposed.tool = "stage_payment"
  BY <1>2, UnpaidSteps
<1>3. ASSUME NEW order \in Orders, Execute(order)
      PROVE  "stage_payment" \notin DOMAIN run'.evidence
  BY <1>3, ExecuteBegins DEF Governed!Begin, Governed!Beginning
<1>4. CASE UNCHANGED vars
  BY <1>4 DEF vars
<1> QED
  BY <1>1, <1>2, <1>3, <1>4 DEF Next, Advance

LEMMA StepKeepsAuthority ==
    ASSUME AuthorityInv, [Next]_vars
    PROVE  AuthorityInv'
<1>1. GInv'
  BY StepIsGoverned DEF AuthorityInv
<1>2. CASE "stage_payment" \notin DOMAIN run'.evidence
  BY <1>1, <1>2 DEF AuthorityInv, StagedWithinAuthority
<1>3. CASE run'.contract = run.contract /\ run'.evidence = run.evidence
  BY <1>1, <1>3 DEF AuthorityInv, StagedWithinAuthority
<1>4. ASSUME NEW c \in CheckedRuns, NEW answer \in Answers(c), Succeed(c, answer),
             c.proposed.tool = "stage_payment"
      PROVE  StagedWithinAuthority'
  BY <1>4, PaysWithinAuthority DEF AuthorityInv
<1> QED
  BY <1>1, <1>2, <1>3, <1>4, OthersDoNotPay DEF AuthorityInv

----------------------------------------------------------------------------
(* Whatever the intent, the fixture, the failures and the edited proposals *)
(* are: a run that has paid was asked to, was permitted to, was free of    *)
(* prohibitions, stayed within the intent's cap and the policy's limit     *)
(* unless a human approved it, and paid what the master data allow         *)
(* (decide_runtime, stage_payment).                                        *)
THEOREM PaymentsAlwaysAuthorised == Spec => []StagedWithinAuthority
<1>1. Init => AuthorityInv
  <2> SUFFICES ASSUME Init PROVE AuthorityInv
    OBVIOUS
  <2>1. GInv /\ DOMAIN run.evidence = {}
    BY InitBegins DEF Governed!Init, Governed!Beginning
  <2> QED
    BY <2>1 DEF AuthorityInv, StagedWithinAuthority
<1>2. AuthorityInv /\ [Next]_vars => AuthorityInv'
  BY StepKeepsAuthority
<1>3. AuthorityInv => StagedWithinAuthority
  BY DEF AuthorityInv
<1> QED
  BY <1>1, <1>2, <1>3, PTL DEF Spec

----------------------------------------------------------------------------
(* What a run that has paid ends in.                                       *)

SuccessConditions == {"invoice_validated", "payment_authorized", "audit_event_written"}

Paid == "stage_payment" \in DOMAIN run.evidence

(* What Gate B saw when it let the payment pass, and _finish looks for.    *)
PaidOnEvidence ==
    Running /\ Paid =>
        /\ run.evidence["inspect_invoice"].validated
        /\ run.contract.gateA.decision = "APPROVE" \/ ApprovedRun(run.contract)
        /\ run.decision # None /\ run.decision.decision = "APPROVE"

PaidInv ==
    TrailInv /\ PaymentAccounted /\ PaidOnEvidence /\ run.contract.run \in Nat \ {0}

(* Nothing that the code can evidence is missing once it has paid.         *)
LEMMA PaidSupports ==
    ASSUME TrailInv, PaidOnEvidence, Running, Paid
    PROVE  Supported(run) = SuccessConditions
<1>1. "inspect_invoice" \in DOMAIN run.evidence
  <2>1. PICK k \in 0..6 : DOMAIN run.evidence = Prefix(k)
    BY DEF TrailInv, GInv, IInv, RetryBudget
  <2>2. k = 6
    <3>1. \A j \in 0..5 : InvoiceTools[6] \notin Prefix(j)
      <4>1. \A j \in 0..5 : \A m \in 1..j : m \in 1..6 /\ m # 6
        OBVIOUS
      <4>2. 6 \in 1..6
        OBVIOUS
      <4> QED
        BY <4>1, <4>2, ToolsDiffer DEF Prefix
    <3> QED
      BY <2>1, <3>1, ToolsDiffer DEF Paid
  <2>3. InvoiceTools[1] \in Prefix(6) /\ InvoiceTools[1] = "inspect_invoice"
    BY DEF Prefix, InvoiceTools
  <2> QED
    BY <2>1, <2>2, <2>3
<1>2. \E k \in DOMAIN run.events : /\ run.events[k].type = "tool_call_completed"
                                   /\ run.events[k].tool = "stage_payment"
  <2>1. "stage_payment" \in {run.events[k].tool : k \in Typed(run, "tool_call_completed")}
    BY DEF Paid, TrailInv, Sound, Account, EvidenceLogged
  <2> QED
    BY <2>1 DEF Typed
<1> QED
  BY <1>1, <1>2 DEF PaidOnEvidence, Paid, Supported, SuccessConditions

(* A run that has not paid has not succeeded either, and a first one has   *)
(* found the ledger empty.                                                 *)
LEMMA UnpaidAccounted ==
    ASSUME ~Paid', run'.outcome = None \/ run'.outcome.status # "COMPLETED",
           run'.contract.run = 1 => DOMAIN staged' = {}
    PROVE  PaymentAccounted' /\ PaidOnEvidence'
BY DEF Paid, PaymentAccounted, PaidOnEvidence

LEMMA FinishAccounted ==
    ASSUME PaidInv, FinishRun
    PROVE  PaymentAccounted' /\ PaidOnEvidence' /\ run'.contract = run.contract
<1> DEFINE wanted    == run.contract.intent.success
           satisfied == wanted \cap Supported(run)
<1>1. Running /\ staged' = staged /\ DOMAIN run = RunFields
  BY DEF FinishRun, Superstep, envVars, PaidInv, TrailInv, GInv, IInv, TypeOK
<1>2. Paid
  <2>1. DOMAIN run.evidence = Prefix(6)
    BY <1>1, ReadyWhileIncomplete DEF FinishRun, PaidInv, TrailInv, GInv
  <2> QED
    BY <2>1 DEF Paid, Prefix, InvoiceTools
<1>3. Supported(run) = SuccessConditions
  BY <1>1, <1>2, PaidSupports DEF PaidInv
<1>4. \E o : /\ run' = Close(run, o)
             /\ \/ o.status = "COMPLETED" /\ satisfied = wanted
                \/ /\ o.status = "FAILED" /\ satisfied # wanted
                   /\ o.reason = "SUCCESS_CONDITIONS_NOT_SATISFIED"
  BY DEF FinishRun, FinishPlan, Outcome
<1>5. /\ Differs(run, run', {"events", "state", "outcome"})
      /\ run'.state = run'.outcome.status
      /\ \/ run'.outcome.status = "COMPLETED" /\ satisfied = wanted
         \/ /\ run'.outcome.status = "FAILED" /\ satisfied # wanted
            /\ run'.outcome.reason = "SUCCESS_CONDITIONS_NOT_SATISFIED"
  BY <1>1, <1>4, CloseShape
<1>6. run'.contract = run.contract /\ run'.evidence = run.evidence
  BY <1>5 DEF Differs, RunFields
<1>7. satisfied = wanted <=> wanted \subseteq SuccessConditions
  BY <1>3
<1> HIDE DEF wanted, satisfied
<1>8. ~Running'
  BY <1>5 DEF Running
<1>9. run'.outcome.status = "COMPLETED" <=> wanted \subseteq SuccessConditions
  BY <1>5, <1>7
<1>10. PaymentAccounted'
  BY <1>1, <1>2, <1>5, <1>6, <1>9
  DEF PaymentAccounted, PaidInv, Paid, SuccessConditions, wanted
<1> QED
  BY <1>6, <1>8, <1>10 DEF PaidOnEvidence

(* Gate B lets a payment pass on a validated invoice and on authority.     *)
LEMMA ApprovedOnEvidence ==
    ASSUME IInv, Running, NEW c \in CheckedRuns, c.decision.decision = "APPROVE",
           c.proposed.tool = "stage_payment"
    PROVE  /\ run.evidence["inspect_invoice"].validated
           /\ run.contract.gateA.decision = "APPROVE" \/ ApprovedRun(run.contract)
<1>1. DOMAIN run = RunFields
  BY DEF IInv, TypeOK
<1>2. PICK p : c = Checked(run, p, DecideRuntime(run, p))
  BY DEF CheckedRuns, Judgements
<1>3. c.proposed = p /\ c.decision = Result(run, p, DecideRuntime(run, p))
  BY <1>1, <1>2, CheckedShape
<1>4. DecideRuntime(run, p) = None
  BY <1>3 DEF Result, Verdict
<1>5. ScopeProblem(run, p) = None /\ StageProblem(run, p) = None
  BY <1>3, <1>4 DEF DecideRuntime
<1>6. MayRun(run)
  BY <1>5, CodesAssumption DEF ScopeProblem, RuntimeCodes
<1>7. run.evidence["inspect_invoice"].validated
  BY <1>5, CodesAssumption, SMT DEF StageProblem, RuntimeCodes
<1> QED
  BY <1>6, <1>7 DEF MayRun

LEMMA ApprovedIsDecision ==
    ASSUME IInv, Running, NEW c \in CheckedRuns, c.decision.decision = "APPROVE"
    PROVE  c.decision # None
<1>1. DOMAIN run = RunFields /\ Len(run.history) \in Nat
  BY DEF IInv, TypeOK
<1>2. PICK p : c = Checked(run, p, DecideRuntime(run, p))
  BY DEF CheckedRuns, Judgements
<1>3. c.decision = Result(run, p, DecideRuntime(run, p))
  BY <1>1, <1>2, CheckedShape
<1>4. c.decision.action \in Nat
  BY <1>1, CheckedRun
<1>5. c.decision.code \in RuntimeCodes \cup {"RUNTIME_ACTION_ADMISSIBLE"}
  BY <1>3, DecisionCode
<1> DEFINE d == [action |-> c.decision.action, decision |-> c.decision.decision,
                 code |-> c.decision.code]
<1>6. c.decision = d
  BY <1>3 DEF Result
<1>7. d \in RuntimeDecisions
  BY <1>4, <1>5 DEF RuntimeDecisions, Decisions
<1> QED
  BY <1>6, <1>7, OutcomesAssumption

LEMMA PaidAccounted ==
    ASSUME PaidInv, NEW c \in CheckedRuns, NEW answer \in Answers(c), Succeed(c, answer),
           c.proposed.tool = "stage_payment"
    PROVE  PaymentAccounted' /\ PaidOnEvidence'
<1> DEFINE id      == run.contract.intent.inputs["invoice_id"]
           payment == run'.evidence["stage_payment"]
<1>1. /\ Running /\ c.decision.decision = "APPROVE"
      /\ run'.contract = run.contract /\ run'.decision = c.decision
      /\ run'.evidence = Put(run.evidence, "stage_payment", answer.output)
      /\ RunStatus' = "WORKING" /\ raised' = None
  BY SuccessShape DEF PaidInv, TrailInv
<1>2. /\ DOMAIN staged' = DOMAIN staged \cup {id} /\ payment = staged'[id]
      /\ Governed!Asked(staged'[id])
  BY StagePays DEF PaidInv, TrailInv, Governed!Pay
<1>3. payment.invoice_id = id
  BY <1>2 DEF Governed!Asked, ScopeKeys
<1>4. run'.outcome = None
  <2>1. run'.state # "WORKING"
    <3>1. TypeOK'
      BY StepIsGoverned DEF PaidInv, TrailInv, GInv, IInv, Next, Advance
    <3> QED
      BY <3>1 DEF TypeOK, RunStates, PausedStates, TerminalStates
  <2> QED
    BY <1>1, <2>1 DEF RunStatus, Running
<1>9. run'.contract.run = 1 => DOMAIN staged' = {id}
  <2>1. run.contract.run = 1 => DOMAIN staged = {}
    BY StagePays DEF PaidInv, TrailInv, PaymentAccounted
  <2> QED
    BY <1>1, <1>2, <2>1
<1> HIDE DEF payment, id
<1>5. PaymentAccounted'
  BY <1>1, <1>2, <1>3, <1>4, <1>9 DEF PaymentAccounted, payment, Put
<1>6. run'.evidence["inspect_invoice"] = run.evidence["inspect_invoice"]
  <2>1. "inspect_invoice" \in DOMAIN run.evidence
    <3>1. PICK k \in 0..5 : /\ c.proposed.tool = InvoiceTools[k + 1]
                            /\ DOMAIN run.evidence = Prefix(k)
      BY SuccessShape DEF PaidInv, TrailInv
    <3>2. k = 5
      <4>1. k + 1 \in 1..6 /\ 6 \in 1..6 /\ InvoiceTools[k + 1] = InvoiceTools[6]
        BY <3>1, ToolsDiffer
      <4> QED
        BY <4>1, ToolsDiffer
    <3> QED
      BY <3>1, <3>2 DEF Prefix, InvoiceTools
  <2> QED
    BY <1>1, <2>1 DEF Put
<1>7. c.decision # None
  BY <1>1, ApprovedIsDecision DEF PaidInv, TrailInv, GInv
<1>8. PaidOnEvidence'
  BY <1>1, <1>6, <1>7, ApprovedOnEvidence DEF PaidOnEvidence, PaidInv, TrailInv, GInv
<1> QED
  BY <1>5, <1>8

LEMMA StepKeepsAccounted == PaidInv /\ [Next]_vars => PaidInv'
<1> SUFFICES ASSUME PaidInv, [Next]_vars PROVE PaidInv'
  OBVIOUS
<1>1. TrailInv'
  BY TrailStep DEF PaidInv
<1>2. GInv /\ IInv
  BY DEF PaidInv, TrailInv, GInv
<1>3. CASE FinishRun
  BY <1>1, <1>3, FinishAccounted DEF PaidInv
<1>4. ASSUME NEW c \in CheckedRuns,
             \/ Reject(c)
             \/ Pause(c)
             \/ \E answer \in Answers(c) :
                    Fail(c, answer) \/ Escape(c, answer) \/ Succeed(c, answer)
      PROVE  PaymentAccounted' /\ PaidOnEvidence' /\ run'.contract = run.contract
  <2>1. /\ run'.outcome = None \/ run'.outcome.status # "COMPLETED"
        /\ run'.contract = run.contract
    BY <1>2, <1>4, CheckedStep DEF Stopped
  <2>2. CASE \E answer \in Answers(c) : /\ Succeed(c, answer)
                                        /\ c.proposed.tool = "stage_payment"
    BY <2>1, <2>2, PaidAccounted
  <2>3. CASE ~\E answer \in Answers(c) : /\ Succeed(c, answer)
                                         /\ c.proposed.tool = "stage_payment"
    <3>1. "stage_payment" \notin DOMAIN run.evidence \cup DOMAIN run'.evidence
      BY <1>2, <1>4, <2>3, UnpaidSteps
    <3>2. ~Paid'
      BY <3>1 DEF Paid
    <3>3. staged' = staged
      BY <1>4, <2>3 DEF Reject, Pause, Fail, Escape, Succeed, envVars
    <3>4. run'.contract.run = 1 => DOMAIN staged' = {}
      BY <2>1, <3>1, <3>3 DEF PaidInv, PaymentAccounted
    <3> QED
      BY <2>1, <3>2, <3>4, UnpaidAccounted
  <2> QED
    BY <2>2, <2>3
<1>5. ASSUME NEW order \in Orders, Execute(order)
      PROVE  PaymentAccounted' /\ PaidOnEvidence' /\ run'.contract.run \in Nat \ {0}
  <2>1. run' \in Beginnings(run.contract.run + 1, order)
    BY <1>5 DEF Execute
  <2>2. /\ DOMAIN run'.evidence = {}
        /\ run'.outcome # None => run'.outcome.status = "REJECTED"
        /\ run'.contract.run = run.contract.run + 1
    BY <2>1, FreshRun
  <2>3. ~Paid'
    BY <2>2 DEF Paid
  <2>4. run'.contract.run # 1 /\ run'.contract.run \in Nat \ {0}
    BY <2>2 DEF PaidInv
  <2> QED
    BY <2>2, <2>3, <2>4, UnpaidAccounted
<1>6. CASE UNCHANGED vars
  <2>1. run' = run /\ staged' = staged /\ raised' = raised
    BY <1>6 DEF vars
  <2>2. PaymentAccounted'
    BY <2>1 DEF PaymentAccounted, PaidInv
  <2>3. PaidOnEvidence'
    BY <2>1 DEF PaidOnEvidence, PaidInv, Paid, Running
  <2> QED
    BY <1>1, <2>1, <2>2, <2>3 DEF PaidInv
<1> QED
  BY <1>1, <1>3, <1>4, <1>5, <1>6 DEF Next, Advance, PaidInv

(* What a run has evidence of paying is staged as the evidence says, and   *)
(* whatever the first execution has staged it has evidence of.  A run that *)
(* has paid ends COMPLETED unless its intent asks for a success condition  *)
(* that the code has no evidence for; no other run does (_dispatch,        *)
(* _finish, stage_payment).                                                *)
THEOREM PaymentsAlwaysAccounted == Spec => []PaymentAccounted
<1>1. Init => PaidInv
  <2> SUFFICES ASSUME Init PROVE PaidInv
    OBVIOUS
  <2>1. PICK order \in Orders : run \in Beginnings(1, order)
    BY DEF Init
  <2>2. /\ DOMAIN run.evidence = {} /\ run.contract.run = 1
        /\ run.outcome # None => run.outcome.status = "REJECTED"
    BY <2>1, FreshRun
  <2>3. DOMAIN staged = {}
    BY DEF Init, EnvInit
  <2>4. PaymentAccounted /\ PaidOnEvidence
    BY <2>2, <2>3 DEF PaymentAccounted, PaidOnEvidence, Paid
  <2> QED
    BY <2>2, <2>4, TrailInit DEF PaidInv
<1>2. PaidInv /\ [Next]_vars => PaidInv'
  BY StepKeepsAccounted
<1>3. PaidInv => PaymentAccounted
  BY DEF PaidInv
<1> QED
  BY <1>1, <1>2, <1>3, PTL DEF Spec


----------------------------------------------------------------------------
(* Gate A judges the terms of an intent, whatever its version, and of its  *)
(* assumptions only the unsafe ones.                                       *)

LEMMA SameJudgement ==
    ASSUME NEW i, NEW j,
           \A f \in IntentFields \ {"version", "assumptions"} : i[f] = j[f],
           i.assumptions \cap UnsafeAssumptions = j.assumptions \cap UnsafeAssumptions
    PROVE  Decide(i) = Decide(j)
<1>1. /\ i.goal = j.goal /\ i.actor_resolved = j.actor_resolved /\ i.role = j.role
      /\ i.inputs = j.inputs /\ i.ambiguous = j.ambiguous
      /\ i.approval_rules = j.approval_rules /\ i.requirements = j.requirements
      /\ i.currency = j.currency /\ i.allowed = j.allowed
      /\ i.unbounded_scope = j.unbounded_scope
      /\ i.success = j.success /\ i.irreversible = j.irreversible
      /\ i.claims = j.claims
  BY DEF IntentFields
<1>2. MissingFields(i) = MissingFields(j) /\ AmbiguousEntities(i) = AmbiguousEntities(j)
  BY <1>1 DEF MissingFields, AmbiguousEntities
<1>3. Amount(i) = Amount(j)
  BY <1>1 DEF Amount
<1>4. AboveLimit(i) = AboveLimit(j) /\ RequiresManager(i) = RequiresManager(j)
  BY <1>1, <1>3 DEF AboveLimit, RequiresManager
<1>5. ApprovalRuleMissing(i) = ApprovalRuleMissing(j)
  BY <1>1, <1>4 DEF ApprovalRuleMissing
<1>6. Contradictions(i) = Contradictions(j)
  BY <1>1, <1>3 DEF Contradictions
<1>7. UnboundedPermissions(i) = UnboundedPermissions(j) /\ UnknownTools(i) = UnknownTools(j)
  BY <1>1 DEF UnboundedPermissions, UnknownTools
<1>8. /\ UnsafeAssumptionsMade(i) = UnsafeAssumptionsMade(j)
      /\ SuccessConditionMissing(i) = SuccessConditionMissing(j)
      /\ NonReversible(i) = NonReversible(j)
  BY <1>1 DEF UnsafeAssumptionsMade, SuccessConditionMissing, NonReversible
<1>9. PolicyConflicts(i) = PolicyConflicts(j)
  BY <1>1 DEF PolicyConflicts
<1>10. ValidateIntent(i) = ValidateIntent(j)
  BY <1>2, <1>5, <1>6, <1>7, <1>8, <1>9 DEF ValidateIntent
<1>11. RejectReasons(i, ValidateIntent(i)) = RejectReasons(j, ValidateIntent(j))
  BY <1>1, <1>7, <1>10 DEF RejectReasons
<1> QED
  BY <1>4, <1>10, <1>11 DEF Decide

LEMMA SameTerms ==
    ASSUME NEW i, NEW j, \A f \in IntentFields \ {"version"} : i[f] = j[f]
    PROVE  Decide(i) = Decide(j)
<1>1. i.assumptions = j.assumptions
  BY DEF IntentFields
<1> QED
  BY <1>1, SameJudgement

LEMMA NextTerms ==
    ASSUME NEW i, DOMAIN i = IntentFields
    PROVE  /\ DOMAIN NextVersion(i) = IntentFields
           /\ NextVersion(i).version = i.version + 1
           /\ \A f \in IntentFields \ {"version"} : NextVersion(i)[f] = i[f]
           /\ Decide(NextVersion(i)) = Decide(i)
<1>1. /\ DOMAIN NextVersion(i) = IntentFields
      /\ NextVersion(i).version = i.version + 1
      /\ \A f \in IntentFields \ {"version"} : NextVersion(i)[f] = i[f]
  BY DEF NextVersion, IntentFields
<1>2. Decide(NextVersion(i)) = Decide(i)
  BY <1>1, SameTerms
<1> QED
  BY <1>1, <1>2

LEMMA GateDecision ==
    ASSUME NEW i
    PROVE  /\ Decide(i).decision \in Decisions
           /\ Decide(i).decision = "ESCALATE" => Approvable(Decide(i))
           /\ Decide(i).decision \in {"APPROVE", "ESCALATE"} => Decide(i).questions = {}
BY DEF Decide, GateADecision, Decisions, Approvable

----------------------------------------------------------------------------
(* What Gate A finds in an intent.                                         *)

HasApprover(i) ==
    \E rule \in i.approval_rules : rule.require = FinancePolicy.approver

(* What validate_intent looks for, as what an intent without findings is.  *)
Flawless(i) ==
    /\ i.goal \in FrozenActions /\ i.goal # "unresolved"
    /\ i.goal # "vendor.modify_bank_details"
    /\ i.role \in AuthorizedRoles /\ i.role # "unresolved" /\ i.actor_resolved
    /\ \A k \in ScopeKeys : i.inputs[k] # None
    /\ i.inputs["amount"] \in Nat /\ (AboveLimit(i) => HasApprover(i))
    /\ i.ambiguous = {} /\ i.claims = {} /\ i.success # {}
    /\ \A pair \in ContradictoryPairs : ~(pair \subseteq i.requirements)
    /\ i.currency = None \/ i.currency = i.inputs["currency"]
    /\ i.allowed \subseteq KnownTools /\ "*" \notin i.allowed /\ ~i.unbounded_scope
    /\ i.assumptions \cap UnsafeAssumptions = {}
    /\ ~(i.goal \in HighImpactActions /\ i.irreversible)

LEMMA NothingFound ==
    ASSUME NEW i
    PROVE  ValidateIntent(i) = {} <=> Flawless(i)
<1>1. MissingFields(i) = {} <=>
         /\ i.goal # "unresolved" /\ i.role # "unresolved" /\ i.actor_resolved
         /\ \A k \in ScopeKeys : i.inputs[k] # None
  BY DEF MissingFields
<1>2. AmbiguousEntities(i) = {} <=> i.ambiguous = {}
  BY DEF AmbiguousEntities
<1>3. ApprovalRuleMissing(i) = {} <=> (AboveLimit(i) => HasApprover(i))
  BY DEF ApprovalRuleMissing, HasApprover
<1>4. (\A k \in ScopeKeys : i.inputs[k] # None) =>
         (Contradictions(i) = {} <=>
            /\ \A pair \in ContradictoryPairs : ~(pair \subseteq i.requirements)
            /\ i.currency = None \/ i.currency = i.inputs["currency"]
            /\ i.inputs["amount"] \in Nat)
  <2> SUFFICES ASSUME \A k \in ScopeKeys : i.inputs[k] # None
               PROVE  Contradictions(i) = {} <=>
                        /\ \A pair \in ContradictoryPairs : ~(pair \subseteq i.requirements)
                        /\ i.currency = None \/ i.currency = i.inputs["currency"]
                        /\ i.inputs["amount"] \in Nat
    OBVIOUS
  <2>1. i.inputs["amount"] # None /\ i.inputs["currency"] # None
    BY DEF ScopeKeys
  <2> DEFINE clash == \E pair \in ContradictoryPairs : pair \subseteq i.requirements
             other == i.currency # None /\ i.currency # i.inputs["currency"]
             wrong == \/ i.inputs["amount"] # None /\ Amount(i) = None
                      \/ Amount(i) # None /\ Amount(i) < 0
  <2>2. Contradictions(i) = {} <=> ~clash /\ ~other /\ ~wrong
    <3>1. Contradictions(i) =
            {Finding("CONTRADICTORY_REQUIREMENTS", f) :
                f \in {g \in {"requirements"} : clash}
                      \cup {g \in {"constraints.currency"} : other}
                      \cup {g \in {"inputs.amount"} : wrong}}
      BY <2>1 DEF Contradictions
    <3> HIDE DEF clash, other, wrong
    <3> QED
      BY <3>1
  <2>3. ~wrong <=> i.inputs["amount"] \in Nat
    BY <2>1, NoneAssumption DEF Amount
  <2> QED
    BY <2>2, <2>3
<1>5. UnboundedPermissions(i) = {} <=> "*" \notin i.allowed /\ ~i.unbounded_scope
  BY DEF UnboundedPermissions
<1>6. UnknownTools(i) = {} <=> i.allowed \subseteq KnownTools
  BY DEF UnknownTools
<1>7. UnsafeAssumptionsMade(i) = {} <=> i.assumptions \cap UnsafeAssumptions = {}
  BY DEF UnsafeAssumptionsMade
<1>8. SuccessConditionMissing(i) = {} <=> i.success # {}
  BY DEF SuccessConditionMissing
<1>9. NonReversible(i) = {} <=> ~(i.goal \in HighImpactActions /\ i.irreversible)
  BY DEF NonReversible
<1>10. PolicyConflicts(i) = {} <=>
          /\ i.claims = {} /\ i.goal # "vendor.modify_bank_details"
          /\ i.goal \in FrozenActions \cup {"unresolved"}
          /\ i.role \in AuthorizedRoles \cup {"unresolved"}
  BY DEF PolicyConflicts
<1>11. ValidateIntent(i) = {} <=>
          /\ MissingFields(i) = {} /\ AmbiguousEntities(i) = {}
          /\ ApprovalRuleMissing(i) = {} /\ Contradictions(i) = {}
          /\ UnboundedPermissions(i) = {} /\ UnknownTools(i) = {}
          /\ UnsafeAssumptionsMade(i) = {} /\ SuccessConditionMissing(i) = {}
          /\ NonReversible(i) = {} /\ PolicyConflicts(i) = {}
  BY DEF ValidateIntent
<1> QED
  BY <1>1, <1>2, <1>3, <1>4, <1>5, <1>6, <1>7, <1>8, <1>9, <1>10, <1>11 DEF Flawless

(* Every finding is a reason to reject or a question: the one that the     *)
(* rejections pass over, a tool unknown under an unbounded permission, has *)
(* that permission to ask about.                                           *)
LEMMA FindingsCount ==
    ASSUME NEW i
    PROVE  ValidateIntent(i) # {} <=>
              \/ RejectReasons(i, ValidateIntent(i)) # {}
              \/ Askable(ValidateIntent(i)) # {}
<1> DEFINE findings == ValidateIntent(i)
           rejects  == RejectReasons(i, findings)
           asks     == Askable(findings)
           Refused  == {"UNSAFE_ASSUMPTION", "NON_REVERSIBLE_HIGH_IMPACT_ACTION"}
           Asked    == {"REQUIRED_FIELD_MISSING", "AMBIGUOUS_ENTITY_REFERENCE",
                        "APPROVAL_RULE_MISSING", "CONTRADICTORY_REQUIREMENTS",
                        "UNBOUNDED_PERMISSIONS", "SUCCESS_CONDITION_MISSING"}
<1>1. rejects # {} \/ asks # {} => findings # {}
  BY DEF RejectReasons, Askable
<1>2. \A f \in findings : f.code \in Asked => asks # {}
  <2>1. \A code \in Asked : \E k \in DOMAIN ClarifyOrder : ClarifyOrder[k] = code
    <3>1. /\ DOMAIN ClarifyOrder = 1..6
          /\ ClarifyOrder[1] = "REQUIRED_FIELD_MISSING"
          /\ ClarifyOrder[2] = "AMBIGUOUS_ENTITY_REFERENCE"
          /\ ClarifyOrder[3] = "APPROVAL_RULE_MISSING"
          /\ ClarifyOrder[4] = "CONTRADICTORY_REQUIREMENTS"
          /\ ClarifyOrder[5] = "UNBOUNDED_PERMISSIONS"
          /\ ClarifyOrder[6] = "SUCCESS_CONDITION_MISSING"
      BY DEF ClarifyOrder
    <3> QED
      BY <3>1
  <2> HIDE DEF findings, Asked
  <2> QED
    BY <2>1 DEF Askable
<1>3. \A f \in findings : f.code \in Refused \cup {"POLICY_CONFLICT"} => rejects # {}
  <2> HIDE DEF findings
  <2> QED
    BY DEF RejectReasons
<1>4. \A f \in findings :
         f.code = "UNKNOWN_OR_DISALLOWED_TOOL" /\ UnboundedPermissions(i) = {} =>
            rejects # {}
  <2> HIDE DEF findings
  <2> QED
    BY DEF RejectReasons
<1>5. UnboundedPermissions(i) # {} => asks # {}
  <2>1. \A f \in UnboundedPermissions(i) : f \in findings /\ f.code \in Asked
    BY DEF UnboundedPermissions, ValidateIntent, Finding
  <2> HIDE DEF findings, asks, Asked
  <2> QED
    BY <1>2, <2>1
<1>6. \A f \in findings : \/ f.code \in Asked \cup Refused \cup {"POLICY_CONFLICT"}
                          \/ f.code = "UNKNOWN_OR_DISALLOWED_TOOL"
  BY DEF ValidateIntent, Finding, MissingFields, AmbiguousEntities, ApprovalRuleMissing,
         Contradictions, UnboundedPermissions, UnknownTools, UnsafeAssumptionsMade,
         SuccessConditionMissing, NonReversible, PolicyConflicts
<1> HIDE DEF findings, rejects, asks, Asked, Refused
<1> QED
  BY <1>1, <1>2, <1>3, <1>4, <1>5, <1>6 DEF findings, rejects, asks

(* Gate A fails closed, for every intent there is.                         *)
LEMMA GateFailsClosed ==
    ASSUME NEW i
    PROVE  /\ ValidateIntent(i) = {} <=> Decide(i).decision \in {"APPROVE", "ESCALATE"}
           /\ Decide(i).decision = "CLARIFY" <=> Decide(i).questions # {}
<1> DEFINE findings == ValidateIntent(i)
           rejects  == RejectReasons(i, findings)
           asks     == Askable(findings)
           questions == {<<f.code, f.field>> : f \in asks}
<1>1. findings # {} <=> rejects # {} \/ asks # {}
  BY FindingsCount
<1>2. asks # {} <=> questions # {}
  <2> HIDE DEF asks
  <2> QED
    OBVIOUS
<1>3. /\ rejects # {} => Decide(i).decision = "REJECT" /\ Decide(i).questions = {}
      /\ rejects = {} /\ asks # {} =>
            Decide(i).decision = "CLARIFY" /\ Decide(i).questions = questions
      /\ rejects = {} /\ asks = {} => /\ Decide(i).decision \in {"APPROVE", "ESCALATE"}
                                      /\ Decide(i).questions = {}
  BY DEF Decide, GateADecision
<1> HIDE DEF findings, rejects, asks, questions
<1> QED
  BY <1>1, <1>2, <1>3 DEF findings

----------------------------------------------------------------------------
(* What a drift of the request can make of Gate A's decision.              *)

(* A request whose price has been raised tenfold and that has no finding   *)
(* had none before.                                                        *)
LEMMA InflationHidesNothing ==
    ASSUME NEW i, DOMAIN i = IntentFields, ScopeKeys \subseteq DOMAIN i.inputs,
           Decide(i).decision \in {"REJECT", "CLARIFY"}
    PROVE  Decide(Inflated(i)).decision \notin {"APPROVE", "ESCALATE"}
<1> DEFINE j == Inflated(i)
           a == i.inputs["amount"]
           b == j.inputs["amount"]
<1>1. /\ \A f \in IntentFields \ {"inputs"} : j[f] = i[f]
      /\ \A k \in ScopeKeys \ {"amount"} : j.inputs[k] = i.inputs[k]
      /\ b = IF a \in Int THEN 10 * a ELSE a
  BY DEF Inflated, IntentFields, ScopeKeys
<1>2. /\ j.goal = i.goal /\ j.actor_resolved = i.actor_resolved /\ j.role = i.role
      /\ j.ambiguous = i.ambiguous /\ j.approval_rules = i.approval_rules
      /\ j.requirements = i.requirements /\ j.currency = i.currency
      /\ j.allowed = i.allowed /\ j.unbounded_scope = i.unbounded_scope
      /\ j.assumptions = i.assumptions /\ j.success = i.success
      /\ j.irreversible = i.irreversible /\ j.claims = i.claims
      /\ j.inputs["currency"] = i.inputs["currency"]
  BY <1>1 DEF IntentFields, ScopeKeys
<1> SUFFICES ASSUME Flawless(Inflated(i)) PROVE Flawless(i)
  <2>1. Decide(i).decision \notin {"APPROVE", "ESCALATE"}
    OBVIOUS
  <2>2. ~Flawless(i)
    BY <2>1, GateFailsClosed, NothingFound
  <2> QED
    BY <2>2, GateFailsClosed, NothingFound
<1>0. Flawless(j)
  OBVIOUS
<1> HIDE DEF j
<1>3. a \in Nat /\ b = 10 * a
  <2>1. b \in Nat
    BY <1>0 DEF Flawless
  <2>2. a \in Int
    BY <1>1, <2>1
  <2> QED
    BY <1>1, <2>1, <2>2
<1>4. AboveLimit(i) => AboveLimit(j)
  BY <1>3, PolicyAssumption, NoneAssumption DEF AboveLimit, Amount
<1>5. HasApprover(j) => HasApprover(i)
  BY <1>2 DEF HasApprover
<1>6. \A k \in ScopeKeys : i.inputs[k] # None
  BY <1>0, <1>1, <1>3, NoneAssumption DEF Flawless
<1> QED
  BY <1>0, <1>2, <1>3, <1>4, <1>5, <1>6 DEF Flawless

LEMMA GoneVendorRefused ==
    ASSUME NEW i, DOMAIN i = IntentFields
    PROVE  Decide(VendorGone(i)).decision = "REJECT"
<1> DEFINE j == VendorGone(i)
           f == [code |-> "POLICY_CONFLICT", field |-> None, rule |-> "P1"]
<1>1. "P1" \in j.claims
  BY DEF VendorGone, IntentFields
<1> HIDE DEF j
<1>2. f \in ValidateIntent(j) /\ f.code = "POLICY_CONFLICT"
  BY <1>1 DEF ValidateIntent, PolicyConflicts
<1> HIDE DEF f
<1>3. RejectReasons(j, ValidateIntent(j)) # {}
  BY <1>2 DEF RejectReasons
<1> QED
  BY <1>3 DEF Decide, GateADecision, j

LEMMA SafeAssumptionIgnored ==
    ASSUME NEW i, DOMAIN i = IntentFields
    PROVE  Decide(WithSafeAssumption(i)) = Decide(i)
<1> DEFINE j == WithSafeAssumption(i)
<1>1. /\ \A f \in IntentFields \ {"version", "assumptions"} : j[f] = i[f]
      /\ j.assumptions = i.assumptions \cup {"assume_invoice_date_is_today"}
  BY DEF WithSafeAssumption, IntentFields
<1>2. j.assumptions \cap UnsafeAssumptions = i.assumptions \cap UnsafeAssumptions
  BY <1>1 DEF UnsafeAssumptions
<1> HIDE DEF j
<1> QED
  BY <1>1, <1>2, SameJudgement DEF j

(* The decision about an intent without findings.                          *)
LEMMA Admission ==
    ASSUME NEW i
    PROVE  /\ Flawless(i) =>
                 Decide(i) =
                    IF AboveLimit(i)
                    THEN GateADecision("ESCALATE", "PAYMENT_ABOVE_AUTONOMOUS_LIMIT",
                                       {}, FinancePolicy.approver)
                    ELSE IF RequiresManager(i)
                    THEN GateADecision("ESCALATE", "FINANCE_MANAGER_APPROVAL_REQUIRED",
                                       {}, FinancePolicy.approver)
                    ELSE GateADecision("APPROVE", "REQUEST_ADMISSIBLE", {}, None)
           /\ Decide(i).decision = "APPROVE" =>
                 Flawless(i) /\ ~AboveLimit(i) /\ ~RequiresManager(i)
<1>1. Flawless(i) => /\ RejectReasons(i, ValidateIntent(i)) = {}
                     /\ Askable(ValidateIntent(i)) = {}
  BY NothingFound, FindingsCount
<1>2. Decide(i).decision = "APPROVE" => Flawless(i)
  BY GateFailsClosed, NothingFound
<1>3. Decide(i).decision = "APPROVE" => ~AboveLimit(i) /\ ~RequiresManager(i)
  BY DEF Decide, GateADecision
<1> QED
  BY <1>1, <1>2, <1>3 DEF Decide

LEMMA Repriced ==
    ASSUME NEW i, NEW a \in Nat, DOMAIN i = IntentFields,
           ScopeKeys \subseteq DOMAIN i.inputs, Flawless(i)
    PROVE  LET j == WithAmount(i, a)
           IN  /\ AboveLimit(j) <=> a > AutonomousLimit
               /\ RequiresManager(j) <=> RequiresManager(i)
               /\ HasApprover(j) <=> HasApprover(i)
               /\ (AboveLimit(j) => HasApprover(i)) => Flawless(j)
               /\ ~HasApprover(i) => \A f \in ValidateIntent(j) :
                                        f = Finding("APPROVAL_RULE_MISSING", "approval_rules")
               /\ AboveLimit(j) /\ ~HasApprover(i) => ValidateIntent(j) # {}
<1> DEFINE j == WithAmount(i, a)
<1>1. /\ \A f \in IntentFields \ {"inputs"} : j[f] = i[f]
      /\ \A k \in ScopeKeys \ {"amount"} : j.inputs[k] = i.inputs[k]
      /\ j.inputs["amount"] = a
  BY DEF WithAmount, IntentFields, ScopeKeys
<1>2. /\ j.goal = i.goal /\ j.actor_resolved = i.actor_resolved /\ j.role = i.role
      /\ j.ambiguous = i.ambiguous /\ j.approval_rules = i.approval_rules
      /\ j.requirements = i.requirements /\ j.currency = i.currency
      /\ j.allowed = i.allowed /\ j.unbounded_scope = i.unbounded_scope
      /\ j.assumptions = i.assumptions /\ j.success = i.success
      /\ j.irreversible = i.irreversible /\ j.claims = i.claims
      /\ j.inputs["currency"] = i.inputs["currency"]
  BY <1>1 DEF IntentFields, ScopeKeys
<1> HIDE DEF j
<1>3. AboveLimit(j) <=> a > AutonomousLimit
  BY <1>1, NoneAssumption DEF AboveLimit, Amount
<1>4. /\ RequiresManager(j) <=> RequiresManager(i)
      /\ HasApprover(j) <=> HasApprover(i)
  BY <1>2 DEF RequiresManager, HasApprover
<1>5. \A k \in ScopeKeys : j.inputs[k] # None
  BY <1>1, NoneAssumption DEF Flawless
<1>6. (AboveLimit(j) => HasApprover(i)) => Flawless(j)
  BY <1>1, <1>2, <1>4, <1>5 DEF Flawless
<1>7. /\ MissingFields(j) = {} /\ AmbiguousEntities(j) = {} /\ Contradictions(j) = {}
      /\ UnboundedPermissions(j) = {} /\ UnknownTools(j) = {}
      /\ UnsafeAssumptionsMade(j) = {} /\ SuccessConditionMissing(j) = {}
      /\ NonReversible(j) = {} /\ PolicyConflicts(j) = {}
  <2>1. /\ MissingFields(j) = {} /\ AmbiguousEntities(j) = {}
    BY <1>2, <1>5 DEF MissingFields, AmbiguousEntities, Flawless
  <2>2. Contradictions(j) = {}
    <3>1. Amount(j) = a /\ a # None
      BY <1>1, NoneAssumption DEF Amount
    <3>2. /\ \A pair \in ContradictoryPairs : ~(pair \subseteq j.requirements)
          /\ j.currency = None \/ j.currency = j.inputs["currency"]
      BY <1>2 DEF Flawless
    <3> QED
      BY <1>1, <3>1, <3>2 DEF Contradictions
  <2>3. /\ UnboundedPermissions(j) = {} /\ UnknownTools(j) = {}
        /\ UnsafeAssumptionsMade(j) = {} /\ SuccessConditionMissing(j) = {}
    BY <1>2 DEF UnboundedPermissions, UnknownTools, UnsafeAssumptionsMade,
                SuccessConditionMissing, Flawless
  <2>4. NonReversible(j) = {} /\ PolicyConflicts(j) = {}
    BY <1>2 DEF NonReversible, PolicyConflicts, Flawless
  <2> QED
    BY <2>1, <2>2, <2>3, <2>4
<1>8. ValidateIntent(j) = ApprovalRuleMissing(j)
  BY <1>7 DEF ValidateIntent
<1>9. \A f \in ValidateIntent(j) : f = Finding("APPROVAL_RULE_MISSING", "approval_rules")
  BY <1>8 DEF ApprovalRuleMissing
<1>10. AboveLimit(j) /\ ~HasApprover(i) => ValidateIntent(j) # {}
  BY <1>4, NothingFound DEF Flawless
<1> QED
  BY <1>3, <1>4, <1>6, <1>9, <1>10 DEF j

(* What is approved stays approved at every amount up to the limit.        *)
LEMMA ApprovedToTheLimit ==
    ASSUME NEW i, NEW a \in Nat, a <= AutonomousLimit, DOMAIN i = IntentFields,
           ScopeKeys \subseteq DOMAIN i.inputs, Decide(i).decision = "APPROVE"
    PROVE  Decide(WithAmount(i, a)) = Decide(i)
<1>1. Flawless(i) /\ ~AboveLimit(i) /\ ~RequiresManager(i)
  BY Admission
<1>2. /\ ~AboveLimit(WithAmount(i, a)) /\ ~RequiresManager(WithAmount(i, a))
      /\ Flawless(WithAmount(i, a))
  BY <1>1, Repriced, PolicyAssumption
<1> QED
  BY <1>1, <1>2, Admission

(* Above the limit it is escalated, or asked for the rule that says so.    *)
LEMMA StoppedAboveTheLimit ==
    ASSUME NEW i, NEW a \in Nat, a > AutonomousLimit, DOMAIN i = IntentFields,
           ScopeKeys \subseteq DOMAIN i.inputs, Decide(i).decision = "APPROVE"
    PROVE  Decide(WithAmount(i, a)).code =
              IF HasApprover(i) THEN "PAYMENT_ABOVE_AUTONOMOUS_LIMIT"
              ELSE "APPROVAL_RULE_MISSING"
<1> DEFINE j == WithAmount(i, a)
           missing == Finding("APPROVAL_RULE_MISSING", "approval_rules")
<1>1. Flawless(i)
  BY Admission
<1>2. /\ AboveLimit(j)
      /\ HasApprover(i) => Flawless(j)
      /\ ~HasApprover(i) => /\ ValidateIntent(j) # {}
                            /\ \A f \in ValidateIntent(j) : f = missing
  BY <1>1, Repriced, PolicyAssumption
<1> HIDE DEF j
<1>3. CASE HasApprover(i)
  BY <1>2, <1>3, Admission DEF GateADecision, j
<1>4. CASE ~HasApprover(i)
  <2>1. ValidateIntent(j) = {missing}
    BY <1>2, <1>4
  <2>2. RejectReasons(j, {missing}) = {}
    BY DEF RejectReasons, Finding
  <2>3. /\ DOMAIN ClarifyOrder = 1..6
        /\ ClarifyOrder[1] = "REQUIRED_FIELD_MISSING"
        /\ ClarifyOrder[2] = "AMBIGUOUS_ENTITY_REFERENCE"
        /\ ClarifyOrder[3] = "APPROVAL_RULE_MISSING"
        /\ ClarifyOrder[4] = "CONTRADICTORY_REQUIREMENTS"
        /\ ClarifyOrder[5] = "UNBOUNDED_PERMISSIONS"
        /\ ClarifyOrder[6] = "SUCCESS_CONDITION_MISSING"
    BY DEF ClarifyOrder
  <2>4. Askable({missing}) = {missing}
    BY <2>3 DEF Askable, Finding
  <2>5. {f.code : f \in {missing}} = {"APPROVAL_RULE_MISSING"}
    BY DEF Finding
  <2>6. First(ClarifyOrder, {"APPROVAL_RULE_MISSING"}) = "APPROVAL_RULE_MISSING"
    <3>1. \A k \in 1..6 : ClarifyOrder[k] \in {"APPROVAL_RULE_MISSING"} <=> k = 3
      BY <2>3
    <3>2. \E k \in 1..6 : /\ ClarifyOrder[k] \in {"APPROVAL_RULE_MISSING"}
                          /\ \A n \in 1..(k - 1) : ClarifyOrder[n] \notin {"APPROVAL_RULE_MISSING"}
      BY <3>1
    <3> QED
      BY <2>3, <3>2 DEF First
  <2> HIDE DEF missing
  <2>7. Decide(j).code = "APPROVAL_RULE_MISSING"
    BY <2>1, <2>2, <2>4, <2>5, <2>6 DEF Decide, GateADecision
  <2> QED
    BY <1>4, <2>7 DEF j
<1> QED
  BY <1>3, <1>4

----------------------------------------------------------------------------
(* An approved execution.                                                  *)

(* The authority of a run that carries an approval.                        *)
Backed(contract) ==
    /\ contract.plan # None
    /\ contract.gateA.decision = "APPROVE" \/ Approvable(contract.gateA)
    /\ ApprovedRun(contract)

(* No human has intervened in a run that is still running.                 *)
Unattended(r) == Typed(r, "human_intervention") = {}

ApprovalKept ==
    /\ Running => Unattended(run)
    /\ run.contract.approval # None =>
          /\ Backed(run.contract)
          /\ Running => run.approvalState = "APPROVED_BY_HUMAN"

ApprovalInv == TrailInv /\ ApprovalKept /\ ApprovalSuffices

(* A log that says that its run has been escalated.                        *)
EscalatedIn(r) == \E k \in DOMAIN r.events : r.events[k].after = "ESCALATION_REQUIRED"

LEMMA Escalates ==
    ASSUME NEW r, NEW s, NEW e, Recorded(r.events), Logs(r, s, e), EscalatedIn(s)
    PROVE  EscalatedIn(r) \/ s.state = "ESCALATION_REQUIRED"
<1> DEFINE n == Len(r.events)
<1>1. /\ DOMAIN s.events = 1..(n + 1) /\ n \in Nat /\ DOMAIN r.events = 1..n
      /\ \A k \in 1..n : s.events[k] = r.events[k]
      /\ s.events[n + 1] = e
  BY Appending DEF Logs
<1>2. PICK k \in 1..(n + 1) : s.events[k].after = "ESCALATION_REQUIRED"
  BY <1>1 DEF EscalatedIn
<1>3. CASE k \in 1..n
  BY <1>1, <1>2, <1>3 DEF EscalatedIn
<1>4. CASE k = n + 1
  BY <1>1, <1>2, <1>4 DEF Logs
<1> QED
  BY <1>1, <1>3, <1>4

(* Nobody has had a say in a run yet.                                      *)
Plain(r) == Recorded(r.events) /\ Unattended(r) /\ ~EscalatedIn(r)

LEMMA StillPlain ==
    ASSUME NEW r, NEW s, NEW e, Plain(r), Logs(r, s, e),
           ~Is(e, "human_intervention"), s.state # "ESCALATION_REQUIRED"
    PROVE  Plain(s)
<1>1. Recorded(s.events)
  BY Appending DEF Logs, Plain
<1>2. Unattended(s)
  BY TypedStands DEF Unattended, Plain
<1>3. ~EscalatedIn(s)
  BY Escalates DEF Plain
<1> QED
  BY <1>1, <1>2, <1>3 DEF Plain

LEMMA StartMoves ==
    ASSUME NEW id, NEW order, NEW r \in Beginnings(id, order)
    PROVE  LET gateA == Decide(order.intent)
               new   == NewRun(id, order, gateA)
           IN  /\ r.contract = new.contract /\ r.approvalState = new.approvalState
               /\ r.questions = gateA.questions /\ r.decision = None
               /\ r.state = "RUNNING" => Unattended(r) /\ new.contract.plan # None
               /\ new.contract.plan # None => r.state = "RUNNING" /\ r.outcome = None
               /\ EscalatedIn(r) =>
                     new.contract.plan = None /\ gateA.decision = "ESCALATE"
<1> DEFINE gateA == Decide(order.intent)
           new   == NewRun(id, order, gateA)
           human == "human_intervention"
<1>1. r = Start(new)
  BY DEF Beginnings
<1>2. /\ DOMAIN new = RunFields /\ new.events = <<>> /\ new.outcome = None
      /\ new.questions = gateA.questions /\ new.decision = None
      /\ new.contract.gateA = gateA
  BY DEF NewRun, RunFields
<1>3. Plain(new)
  BY <1>2 DEF Unattended, Typed, Recorded, Plain, EscalatedIn
<1> HIDE DEF new
<1>4. ASSUME NEW state
      PROVE  /\ Differs(new, Judged(new, state), {"events", "state"})
             /\ Judged(new, state).state = state
             /\ \E e : Logs(new, Judged(new, state), e) /\ ~Is(e, human)
  <2>1. PICK e : Logs(new, Judged(new, state), e) /\ e.type = "control_decision"
    BY <1>2, JudgedLog
  <2>2. ~Is(e, human)
    BY <2>1 DEF Is
  <2> QED
    BY <1>2, <2>1, <2>2, JudgedLog DEF Judged, Log, RunFields
<1>5. CASE new.contract.plan # None
  <2> DEFINE approved == Judged(new, "APPROVED")
             planned  == Enter(approved, "plan_created", "PLANNED")
             running  == Enter(planned, "run_started", "RUNNING")
  <2>1. r = running
    BY <1>1, <1>5 DEF Start
  <2>2. Differs(new, approved, {"events", "state"}) /\ Plain(approved)
    <3>1. PICK e : Logs(new, approved, e) /\ ~Is(e, human)
      BY <1>4
    <3>2. Differs(new, approved, {"events", "state"}) /\ approved.state = "APPROVED"
      BY <1>4
    <3> HIDE DEF approved
    <3> QED
      BY <1>3, <3>1, <3>2, StillPlain
  <2> HIDE DEF approved
  <2>3. DOMAIN approved = RunFields
    BY <1>2, <2>2 DEF Differs
  <2>4. ASSUME NEW x, NEW type, NEW state, DOMAIN x = RunFields, Plain(x),
               type # human, state # "ESCALATION_REQUIRED"
        PROVE  LET y == Enter(x, type, state)
               IN  /\ Differs(x, y, {"events", "state"}) /\ Plain(y)
                   /\ y.state = state
    <3> DEFINE y == Enter(x, type, state)
    <3>1. PICK e : Logs(x, y, e) /\ e.type = type
      BY <2>4, EnteredLog
    <3>2. Differs(x, y, {"events", "state"}) /\ y.state = state
      BY <2>4, EnteredLog DEF Enter, Log, RunFields
    <3>3. ~Is(e, human)
      BY <2>4, <3>1 DEF Is
    <3> HIDE DEF y
    <3>4. Plain(y)
      BY <2>4, <3>1, <3>2, <3>3, StillPlain
    <3> QED
      BY <3>2, <3>4 DEF y
  <2>5. Differs(approved, planned, {"events", "state"}) /\ Plain(planned)
    BY <2>2, <2>3, <2>4
  <2> HIDE DEF planned
  <2>6. DOMAIN planned = RunFields
    BY <2>3, <2>5 DEF Differs
  <2>7. /\ Differs(planned, running, {"events", "state"})
        /\ running.state = "RUNNING" /\ Plain(running)
    BY <2>4, <2>5, <2>6
  <2> HIDE DEF running
  <2> QED
    BY <1>2, <1>5, <2>1, <2>2, <2>5, <2>7 DEF Differs, RunFields, new, Plain
<1>6. CASE new.contract.plan = None
  <2>1. /\ Differs(new, r, {"events", "state", "outcome"})
        /\ r.state # "RUNNING"
        /\ EscalatedIn(r) => gateA.decision = "ESCALATE"
    <3>1. PICK state \in {"CLARIFICATION_REQUIRED", "ESCALATION_REQUIRED", "REJECTED"} :
            /\ \/ r = Judged(new, state)
               \/ r = FinishWith(Judged(new, state), gateA.code, "REJECTED")
            /\ state = "ESCALATION_REQUIRED" => gateA.decision = "ESCALATE"
      BY <1>1, <1>2, <1>6 DEF Start
    <3> DEFINE j == Judged(new, state)
    <3>2. Differs(new, j, {"events", "state"}) /\ j.state = state
      BY <1>4
    <3>3. PICK e : Logs(new, j, e) /\ ~Is(e, human)
      BY <1>4
    <3> HIDE DEF j, gateA
    <3>4. /\ DOMAIN j = RunFields /\ Recorded(j.events)
          /\ EscalatedIn(j) => gateA.decision = "ESCALATE"
      <4>1. DOMAIN j = RunFields
        BY <1>2, <3>2 DEF Differs
      <4>2. Recorded(new.events) /\ ~EscalatedIn(new)
        BY <1>3 DEF Plain
      <4>3. Recorded(j.events)
        BY <3>3, <4>2, Appending DEF Logs
      <4>4. EscalatedIn(j) => j.state = "ESCALATION_REQUIRED"
        BY <3>3, <4>2, Escalates
      <4> QED
        BY <3>1, <3>2, <4>1, <4>3, <4>4
    <3> DEFINE s == FinishWith(j, gateA.code, "REJECTED")
    <3>5. Differs(j, s, {"events", "state", "outcome"}) /\ s.state = "REJECTED"
      BY <3>4, FinishWithShape
    <3>6. PICK o : s = Close(j, o)
      BY DEF FinishWith
    <3>7. PICK f : Logs(j, s, f)
      BY <3>4, <3>6, ClosedLog
    <3> HIDE DEF s
    <3>8. EscalatedIn(s) => gateA.decision = "ESCALATE"
      <4>1. EscalatedIn(s) => EscalatedIn(j) \/ s.state = "ESCALATION_REQUIRED"
        BY <3>4, <3>7, Escalates
      <4> QED
        BY <3>4, <3>5, <4>1
    <3>9. r = j \/ r = s
      BY <3>1 DEF j, s
    <3> QED
      BY <3>2, <3>4, <3>5, <3>8, <3>9 DEF Differs
  <2> QED
    BY <1>2, <1>6, <2>1 DEF Differs, RunFields, new
<1> QED
  BY <1>5, <1>6

(* What resume_invoice hands to _execute begins to run.                    *)
LEMMA ApprovedBeginning ==
    ASSUME NEW id, NEW order, DOMAIN order.intent = IntentFields,
           order.approval # None, Resumes(order), NEW r \in Beginnings(id, order)
    PROVE  /\ Backed(r.contract) /\ r.approvalState = "APPROVED_BY_HUMAN"
           /\ r.state = "RUNNING" /\ r.outcome = None
<1> DEFINE digest == order.approval.digest
           gateA  == Decide(order.intent)
           new    == NewRun(id, order, gateA)
<1>1. /\ order.approval.run = order.parent
      /\ order.approval.version = digest.version
      /\ Decide(digest).decision \in {"APPROVE", "ESCALATE"}
      /\ order.intent = NextVersion(digest)
      /\ ScopedApproval(order.approval, Scope(order.intent))
  BY DEF Resumes
<1>2. DOMAIN digest = IntentFields
  BY <1>1 DEF NextVersion
<1>3. gateA = Decide(digest) /\ order.intent.version = digest.version + 1
  BY <1>1, <1>2, NextTerms
<1>4. gateA.decision = "APPROVE" \/ Approvable(gateA)
  BY <1>1, <1>3, GateDecision
<1>5. order.approval.digest # None
  BY <1>1 DEF ScopedApproval
<1> HIDE DEF digest, gateA
<1>6. /\ new.contract.approval = order.approval /\ new.contract.parent = order.parent
      /\ new.contract.intent = order.intent /\ new.contract.gateA = gateA
      /\ new.approvalState = "APPROVED_BY_HUMAN"
      /\ new.contract.plan = IF Authorised(gateA, order.approval) THEN BuildPlan ELSE None
  BY DEF NewRun
<1>7. new.contract.plan # None
  BY <1>4, <1>6, OutcomesAssumption DEF Authorised
<1> HIDE DEF new
<1>8. ApprovedRun(new.contract)
  BY <1>1, <1>3, <1>5, <1>6 DEF ApprovedRun, digest
<1>9. Backed(new.contract)
  BY <1>4, <1>6, <1>7, <1>8 DEF Backed
<1> QED
  BY <1>6, <1>7, <1>9, StartMoves DEF new, gateA

LEMMA BeginningApproved ==
    ASSUME NEW id, NEW order, DOMAIN order.intent = IntentFields,
           order.approval # None => Resumes(order), run' \in Beginnings(id, order)
    PROVE  ApprovalKept' /\ ApprovalSuffices'
<1> DEFINE gateA == Decide(order.intent)
           new   == NewRun(id, order, gateA)
<1>1. /\ run'.contract = new.contract /\ run'.decision = None
      /\ run'.state = "RUNNING" => Unattended(run')
  BY StartMoves
<1>2. new.contract.approval = order.approval
  BY DEF NewRun
<1> HIDE DEF new
<1>3. Running' => Unattended(run')
  BY <1>1 DEF Running
<1>4. ASSUME run'.contract.approval # None
      PROVE  /\ Backed(run'.contract) /\ run'.approvalState = "APPROVED_BY_HUMAN"
             /\ run'.state = "RUNNING" /\ run'.outcome = None
  BY <1>1, <1>2, <1>4, ApprovedBeginning
<1>5. ApprovalKept'
  BY <1>3, <1>4 DEF ApprovalKept, Unattended, Typed
<1>6. ApprovalSuffices'
  BY <1>1, <1>4 DEF ApprovalSuffices, Backed
<1> QED
  BY <1>5, <1>6

(* No step of the controller intervenes as a human.                        *)
LEMMA StillUnattended ==
    ASSUME NEW r, NEW s, NEW e, NEW type, Recorded(r.events), Unattended(r),
           Logs(r, s, e), e.type = type, type # "human_intervention"
    PROVE  Recorded(s.events) /\ Unattended(s)
<1>1. ~Is(e, "human_intervention")
  BY DEF Is
<1>2. Recorded(s.events)
  BY Appending DEF Logs
<1> QED
  BY <1>1, <1>2, TypedStands DEF Unattended

LEMMA CallsUnattended ==
    ASSUME TrailInv, Unattended(run), NEW c \in CheckedRuns, NEW answer \in Answers(c),
           Fail(c, answer) \/ Escape(c, answer) \/ Succeed(c, answer), Running'
    PROVE  Unattended(run')
<1> DEFINE begun == Started(c)
<1>1. Running /\ DOMAIN run = RunFields /\ Recorded(run.events)
  BY DEF Fail, Escape, Succeed, Superstep, TrailInv, Sound, Account
<1>2. DOMAIN c = RunFields /\ Recorded(c.events) /\ Unattended(c)
  <2>1. PICK p : c = Checked(run, p, DecideRuntime(run, p))
    BY DEF CheckedRuns, Judgements
  <2>2. Differs(run, c, {"events", "proposed", "decision"})
    BY <1>1, <2>1, CheckedShape
  <2>3. PICK e : Logs(run, c, e) /\ e.type = "runtime_policy_check"
    BY <1>1, <2>1, CheckedLog
  <2> QED
    BY <1>1, <2>2, <2>3, StillUnattended DEF Differs
<1>3. DOMAIN begun = RunFields /\ Recorded(begun.events) /\ Unattended(begun)
  <2>1. Differs(c, begun, {"events", "history"})
    BY <1>2, StartedShape
  <2>2. PICK e : Logs(c, begun, e) /\ e.type = "tool_call_started"
    BY <1>2, StartedLog
  <2> HIDE DEF begun
  <2> QED
    BY <1>2, <2>1, <2>2, StillUnattended DEF Differs
<1> HIDE DEF begun
<1>4. CASE Escape(c, answer)
  BY <1>3, <1>4 DEF Escape, begun
<1>5. CASE Fail(c, answer)
  <2> DEFINE failed == FailedCall(begun, answer.code)
             tool   == c.proposed.tool
  <2>1. Differs(begun, failed, {"events", "observations"})
    BY <1>3, FailedCallShape
  <2>2. PICK e : Logs(begun, failed, e) /\ e.type = "tool_call_failed"
    BY <1>3, FailedLog
  <2>3. \/ run' = ScheduleRetry(failed, tool, answer.code)
        \/ run' = FinishWith(failed, answer.code, "FAILED")
    BY <1>5 DEF Fail, begun
  <2> HIDE DEF failed, tool
  <2>4. DOMAIN failed = RunFields /\ Recorded(failed.events) /\ Unattended(failed)
    BY <1>3, <2>1, <2>2, StillUnattended DEF Differs
  <2>5. CASE run' = ScheduleRetry(failed, tool, answer.code)
    <3>1. PICK f : Logs(failed, run', f) /\ f.type = "retry_scheduled"
      BY <2>4, <2>5, ScheduledLog
    <3> QED
      BY <2>4, <3>1, StillUnattended
  <2>6. CASE run' = FinishWith(failed, answer.code, "FAILED")
    <3>1. run'.state = "FAILED"
      BY <2>4, <2>6, ReasonShape
    <3> QED
      BY <3>1 DEF Running
  <2> QED
    BY <2>3, <2>5, <2>6
<1>6. CASE Succeed(c, answer)
  <2> DEFINE done == CompletedCall(begun, answer.output)
  <2>1. Differs(begun, done, {"events", "evidence", "observations", "retry"})
    BY <1>3, CompletedCallShape
  <2>2. PICK e : Logs(begun, done, e) /\ e.type = "tool_call_completed"
    BY <1>3, CompletedLog
  <2>3. run' = Settled(done, c.proposed.tool, answer.output)
    BY <1>6 DEF Succeed, begun
  <2> HIDE DEF done
  <2>4. DOMAIN done = RunFields /\ Unattended(done)
    BY <1>3, <2>1, <2>2, StillUnattended DEF Differs
  <2>5. run' = done \/ run'.state = "FAILED"
    BY <2>3, <2>4, SettledShape
  <2> QED
    BY <2>4, <2>5 DEF Running
<1> QED
  BY <1>4, <1>5, <1>6

----------------------------------------------------------------------------
(* What judges an approved run once more.                                  *)

(* The refusals that say that authority is missing.                        *)
Unauthorised ==
    {"RUNTIME_NOT_AUTHORIZED", "RUNTIME_AMOUNT_OUTSIDE_CONTRACT",
     "RUNTIME_HUMAN_AUTHORITY_REQUIRED", "RUNTIME_APPROVAL_REQUIRED"}

(* Gate B: the audit of the record never asks for authority, and the       *)
(* checks that do find the approval.                                       *)
LEMMA ApprovedJudgement ==
    ASSUME Mutations = {}, IInv, ApprovalKept, Running, run.contract.approval # None,
           NEW c \in CheckedRuns
    PROVE  /\ c.decision.code \notin Unauthorised
           /\ c.decision.decision # "ESCALATE"
           /\ c.decision.code \in RuntimeCodes \cup {"RUNTIME_ACTION_ADMISSIBLE"}
<1>1. DOMAIN run = RunFields
  BY DEF IInv, TypeOK
<1>2. PICK tool : \E p \in Proposals(run, tool) : c = Checked(run, p, DecideRuntime(run, p))
  BY DEF CheckedRuns, Judgements
<1>3. Proposals(run, tool) = {Propose(run, tool)}
  BY DEF Proposals
<1> DEFINE p == Propose(run, tool)
<1>4. c.decision = Result(run, p, DecideRuntime(run, p))
  BY <1>1, <1>2, <1>3, CheckedShape
<1>5. /\ Backed(run.contract) /\ run.approvalState = "APPROVED_BY_HUMAN"
      /\ Unattended(run)
  BY DEF ApprovalKept
<1>6. p.tool = tool /\ p.arguments = Arguments(run, tool)
  BY DEF Propose
<1> HIDE DEF p
<1>7. None \notin Unauthorised
  BY CodesAssumption DEF Unauthorised, RuntimeCodes
<1>8. ScopeProblem(run, p) \notin Unauthorised
  <2>1. MayRun(run)
    BY <1>5 DEF MayRun, Running, Backed
  <2> QED
    BY <1>7, <2>1 DEF ScopeProblem, Unauthorised
<1>9. RetryProblem(run, p.tool) \notin Unauthorised
  BY <1>7 DEF RetryProblem, Unauthorised
<1>10. EvidenceProblem(run, Required(p.tool)) \notin Unauthorised
  <2>1. \A done, i : AttemptProblem(run, done, i) \notin Unauthorised
    BY <1>7 DEF AttemptProblem, Unauthorised
  <2> QED
    BY <1>7, <2>1 DEF EvidenceProblem, Unauthorised
<1>11. StateProblem(run, p) \notin Unauthorised
  <2>1. ~\E k \in DOMAIN run.events : run.events[k].type = "human_intervention"
    BY <1>5 DEF Unattended, Typed
  <2>2. ~(\/ /\ run.approvalState # "NOT_REQUESTED"
            /\ ~(ApprovedRun(run.contract) /\ run.approvalState = "APPROVED_BY_HUMAN")
         \/ \E k \in DOMAIN run.events : run.events[k].type = "human_intervention")
    BY <1>5, <2>1 DEF Backed
  <2> QED
    BY <1>7, <1>9, <1>10, <2>2 DEF StateProblem, Unauthorised
<1>12. p.tool = "stage_payment" => StageProblem(run, p) \notin Unauthorised
  <2> SUFFICES ASSUME p.tool = "stage_payment"
               PROVE  StageProblem(run, p) \notin Unauthorised
    OBVIOUS
  <2>1. p.arguments["amount"] = run.contract.intent.inputs["amount"]
    BY <1>6 DEF Arguments, ArgumentKeys
  <2>2. ApprovedRun(run.contract)
    BY <1>5 DEF Backed
  <2> QED
    BY <1>7, <2>1, <2>2 DEF StageProblem, Unauthorised
<1>13. DecideRuntime(run, p) \notin Unauthorised
  BY <1>7, <1>8, <1>11, <1>12 DEF DecideRuntime
<1>14. c.decision.code \notin Unauthorised
  BY <1>4, <1>13 DEF Result, Unauthorised
<1>15. c.decision.decision # "ESCALATE"
  BY <1>4, <1>13 DEF Result, Verdict, Unauthorised
<1> QED
  BY <1>4, <1>14, <1>15, DecisionCode

LEMMA LookupErrors ==
    ASSUME NEW records, NEW id
    PROVE  Lookup(records, id).kind = "error" => Lookup(records, id).code # "APPROVAL_REQUIRED"
BY LookupErrs DEF Errs, ReadCodes, ActionProblems

(* stage_payment: the payment of the request is the one approved.          *)
LEMMA ApprovedCall ==
    ASSUME GInv, ApprovalKept, Running, run.contract.approval # None,
           NEW c \in CheckedRuns, NEW answer \in Answers(c), answer.kind = "error"
    PROVE  answer.code # "APPROVAL_REQUIRED"
<1> DEFINE inputs   == run.contract.intent.inputs
           tool     == c.proposed.tool
           args     == c.proposed.arguments
           approval == IF tool = "stage_payment" /\ ApprovedRun(c.contract)
                       THEN c.contract.approval ELSE None
<1>1. PICK fault \in Faults : /\ c.decision.decision = "APPROVE"
                             /\ answer = Invoke(tool, args, approval, fault)
  BY DEF Answers
<1>2. tool \in ToolNames /\ c.contract = run.contract
  BY <1>1, StartedCall DEF GInv
<1>3. ApprovedRun(run.contract)
  BY DEF ApprovalKept, Backed
<1>4. CASE fault # "none"
  BY <1>1, <1>4, FaultsAssumption DEF Invoke, InjectedFailure, Retryable, Raised
<1>5. CASE fault = "none" /\ tool # "stage_payment"
  <2>1. tool \in {"inspect_invoice", "lookup_supplier", "lookup_purchase_order",
                  "check_duplicate", "retrieve_policy", "stage_payment"}
    BY <1>2, ToolsDiffer DEF ToolNames, InvoiceTools
  <2>2. answer = Call(tool, args, approval)
    BY <1>1, <1>5 DEF Invoke
  <2> HIDE DEF tool, args, approval
  <2>3. CheckDuplicate(args["invoice_id"]).kind = "error"
           => CheckDuplicate(args["invoice_id"]).code # "APPROVAL_REQUIRED"
    BY LookupErrors DEF CheckDuplicate, Returned
  <2> QED
    BY <1>5, <2>1, <2>2, <2>3, LookupErrors DEF Call
<1>6. CASE fault = "none" /\ tool = "stage_payment"
  <2> DEFINE id      == inputs["invoice_id"]
             valid   == ValidatedAction(args)
             invoice == valid.output
             policy  == Lookup(Policies, "finance-v1")
             action  == [k \in ScopeKeys |->
                           IF k = "supplier_id" THEN invoice.supplier_id
                           ELSE IF k = "invoice_id" THEN invoice.invoice_id
                           ELSE IF k = "purchase_order_id" THEN invoice.purchase_order_id
                           ELSE args[k]]
  <2>1. answer = StagePayment(args, run.contract.approval)
    BY <1>1, <1>2, <1>3, <1>6 DEF Invoke, Call
  <2>2. /\ \A k \in {"invoice_id", "purchase_order_id", "currency", "amount"} :
              args[k] = inputs[k]
        /\ \A k \in ScopeKeys : run.evidence["inspect_invoice"][k] = inputs[k]
        /\ Strip[id] = id /\ run.evidence["inspect_invoice"] = Invoices[id]
    BY <1>1, <1>6, ApprovedPayment, RequestedInvoice DEF GInv
  <2>3. valid.kind = "error" => valid.code # "APPROVAL_REQUIRED"
    BY ActionErrs DEF Errs, ReadCodes, ActionProblems
  <2>4. policy.kind = "error" => policy.code # "APPROVAL_REQUIRED"
    BY LookupErrors
  <2>5. ASSUME valid.kind = "record"
        PROVE  ScopedApproval(run.contract.approval, action)
    <3>1. valid.output = Invoices[id]
      BY <2>2, <2>5, ValidatedRecord
    <3> HIDE DEF valid, id, args, inputs
    <3>2. \A k \in ScopeKeys : action[k] = inputs[k]
      BY <2>2, <3>1 DEF ScopeKeys
    <3>3. \A k \in ScopeKeys : Scope(run.contract.intent)[k] = inputs[k]
      BY DEF Scope, inputs
    <3> HIDE DEF action
    <3>4. ScopedApproval(run.contract.approval, Scope(run.contract.intent))
      BY <1>3 DEF ApprovedRun
    <3> QED
      BY <3>2, <3>3, <3>4 DEF ScopedApproval
  <2>6. valid.kind = "record" =>
          \/ answer = Raised("DUPLICATE_INVOICE") \/ answer = policy
          \/ \E record : answer = Returned(record)
    BY <2>1, <2>5 DEF StagePayment
  <2>7. valid.kind # "record" => answer = valid
    BY <2>1 DEF StagePayment
  <2> HIDE DEF valid, policy
  <2> QED
    BY <2>3, <2>4, <2>6, <2>7 DEF Raised, Returned
<1> QED
  BY <1>4, <1>5, <1>6

----------------------------------------------------------------------------
(* One step more.                                                          *)

(* A step that keeps the contract keeps its authority.                     *)
LEMMA BackedStands ==
    ASSUME ApprovalKept, run'.contract = run.contract,
           Running' => Unattended(run') /\ Running /\ run'.approvalState = run.approvalState
    PROVE  ApprovalKept'
<1>1. Unattended(run)' <=> Unattended(run')
  BY DEF Unattended, Typed
<1>2. Backed(run.contract)' <=> Backed(run.contract)
  OBVIOUS
<1> QED
  BY <1>1, <1>2 DEF ApprovalKept

LEMMA FinishKept ==
    ASSUME TrailInv, ApprovalKept, FinishRun
    PROVE  /\ Running /\ ~Running' /\ ApprovalKept'
           /\ Differs(run, run', {"events", "state", "outcome"})
           /\ run'.state \in {"COMPLETED", "FAILED"}
           /\ run'.outcome.reason \in {None, "SUCCESS_CONDITIONS_NOT_SATISFIED"}
<1>1. Running /\ DOMAIN run = RunFields
  BY DEF FinishRun, Superstep, TrailInv, GInv, IInv, TypeOK
<1>2. \E o : /\ run' = Close(run, o)
             /\ o.status \in {"COMPLETED", "FAILED"}
             /\ o.reason \in {None, "SUCCESS_CONDITIONS_NOT_SATISFIED"}
  BY DEF FinishRun, FinishPlan, Outcome
<1>3. /\ Differs(run, run', {"events", "state", "outcome"})
      /\ run'.state \in {"COMPLETED", "FAILED"}
      /\ run'.outcome.reason \in {None, "SUCCESS_CONDITIONS_NOT_SATISFIED"}
  BY <1>1, <1>2, CloseShape
<1>4. run'.contract = run.contract
  BY <1>3 DEF Differs, RunFields
<1>5. ~Running'
  BY <1>3 DEF Running
<1> QED
  BY <1>1, <1>3, <1>4, <1>5, BackedStands

LEMMA CheckedKept ==
    ASSUME TrailInv, ApprovalKept, NEW c \in CheckedRuns,
           \/ Reject(c)
           \/ Pause(c)
           \/ \E answer \in Answers(c) :
                  Fail(c, answer) \/ Escape(c, answer) \/ Succeed(c, answer)
    PROVE  ApprovalKept'
<1>1. IInv /\ DOMAIN run = RunFields
  BY DEF TrailInv, GInv, IInv, TypeOK
<1>2. /\ Running /\ run'.contract = run.contract
      /\ Running' => run'.approvalState = run.approvalState
  BY <1>1, CheckedStep
<1>3. Unattended(run)
  BY <1>2 DEF ApprovalKept
<1>4. Running' => Unattended(run')
  <2>1. Differs(run, c, {"events", "proposed", "decision"})
    BY <1>1, <1>2, CheckedRun
  <2>2. DOMAIN c = RunFields
    BY <1>1, <2>1 DEF Differs
  <2>3. CASE Reject(c)
    <3>1. run'.state = "REJECTED"
      BY <2>2, <2>3, ReasonShape DEF Reject
    <3> QED
      BY <3>1 DEF Running
  <2>4. CASE Pause(c)
    <3>1. run'.state \in PausedStates
      BY <2>2, <2>4, PausedShape DEF Pause
    <3> QED
      BY <3>1 DEF Running, PausedStates
  <2>5. CASE \E answer \in Answers(c) :
                 Fail(c, answer) \/ Escape(c, answer) \/ Succeed(c, answer)
    BY <1>3, <2>5, CallsUnattended
  <2> QED
    BY <2>3, <2>4, <2>5
<1> QED
  BY <1>2, <1>4, BackedStands

LEMMA FinishApproved ==
    ASSUME ApprovalInv, FinishRun
    PROVE  ApprovalSuffices'
<1>1. /\ Differs(run, run', {"events", "state", "outcome"})
      /\ run'.state \in {"COMPLETED", "FAILED"}
      /\ run'.outcome.reason \in {None, "SUCCESS_CONDITIONS_NOT_SATISFIED"}
  BY FinishKept DEF ApprovalInv
<1>2. run'.contract = run.contract /\ run'.decision = run.decision
  BY <1>1 DEF Differs, RunFields
<1>3. None # "APPROVAL_REQUIRED"
  BY OutcomesAssumption DEF ToolCodes
<1> QED
  BY <1>1, <1>2, <1>3 DEF ApprovalSuffices, ApprovalInv

LEMMA CheckedApproved ==
    ASSUME Mutations = {}, ApprovalInv, NEW c \in CheckedRuns,
           \/ Reject(c)
           \/ Pause(c)
           \/ \E answer \in Answers(c) :
                  Fail(c, answer) \/ Escape(c, answer) \/ Succeed(c, answer)
    PROVE  ApprovalSuffices'
<1>1. IInv /\ GInv
  BY DEF ApprovalInv, TrailInv, GInv
<1>2. /\ Running
      /\ run'.contract = run.contract /\ run'.decision = c.decision
      /\ run'.state = "ESCALATION_REQUIRED" => c.decision.decision = "ESCALATE"
      /\ run'.outcome = None \/ Stopped(c, run'.outcome)
  BY <1>1, CheckedStep
<1> SUFFICES ASSUME run.contract.approval # None
             PROVE  ApprovalSuffices'
  BY <1>2 DEF ApprovalSuffices
<1>3. /\ c.decision.code \notin Unauthorised
      /\ c.decision.decision # "ESCALATE"
      /\ c.decision.code \in RuntimeCodes \cup {"RUNTIME_ACTION_ADMISSIBLE"}
  BY <1>1, <1>2, ApprovedJudgement DEF ApprovalInv
<1>4. \A answer \in Answers(c) : answer.kind = "error" => answer.code # "APPROVAL_REQUIRED"
  BY <1>1, <1>2, ApprovedCall DEF ApprovalInv
<1>5. run'.outcome # None => run'.outcome.reason # "APPROVAL_REQUIRED"
  BY <1>2, <1>3, <1>4 DEF Stopped, RuntimeCodes
<1>6. run.contract.plan # None
  BY DEF ApprovalInv, ApprovalSuffices
<1> QED
  BY <1>2, <1>3, <1>5, <1>6 DEF ApprovalSuffices, Unauthorised

LEMMA ApprovalStep ==
    ASSUME Mutations = {}, ApprovalInv, [Next]_vars
    PROVE  ApprovalInv'
<1>1. TrailInv'
  BY TrailStep DEF ApprovalInv
<1>2. ASSUME NEW order \in Orders, Execute(order)
      PROVE  ApprovalKept' /\ ApprovalSuffices'
  BY <1>2, BeginningApproved, OrdersAssumption, IntentsAssumption DEF Execute
<1>3. CASE UNCHANGED vars
  <2>1. run' = run /\ raised' = raised
    BY <1>3 DEF vars
  <2>2. ApprovalKept'
    BY <2>1, BackedStands DEF ApprovalInv, ApprovalKept, Running
  <2>3. ApprovalSuffices'
    BY <2>1 DEF ApprovalInv, ApprovalSuffices
  <2> QED
    BY <1>1, <2>2, <2>3 DEF ApprovalInv
<1> QED
  BY <1>1, <1>2, <1>3, FinishKept, CheckedKept, FinishApproved, CheckedApproved
  DEF Next, Advance, ApprovalInv

LEMMA ApprovalInit == Init => ApprovalInv
<1> SUFFICES ASSUME Init PROVE ApprovalInv
  OBVIOUS
<1>1. PICK order \in Orders : run \in Beginnings(1, order)
  BY DEF Init
<1> DEFINE new == NewRun(1, order, Decide(order.intent))
<1>2. /\ run.contract = new.contract /\ run.decision = None
      /\ run.state = "RUNNING" => Unattended(run)
  BY <1>1, StartMoves
<1>3. new.contract.approval = order.approval
  BY DEF NewRun
<1> HIDE DEF new
<1>4. ASSUME run.contract.approval # None
      PROVE  /\ Backed(run.contract) /\ run.approvalState = "APPROVED_BY_HUMAN"
             /\ run.state = "RUNNING" /\ run.outcome = None
  BY <1>1, <1>2, <1>3, <1>4, ApprovedBeginning, OrdersAssumption, IntentsAssumption
<1>5. ApprovalKept
  BY <1>2, <1>4 DEF ApprovalKept, Running
<1>6. ApprovalSuffices
  BY <1>2, <1>4 DEF ApprovalSuffices, Backed
<1> QED
  BY <1>5, <1>6, TrailInit DEF ApprovalInv

(* In production, where nobody edits what the controller proposes, an      *)
(* approval that resume_invoice accepted is enough, whatever the intent    *)
(* and the limit: Gate A lets the approved child run, decide_runtime       *)
(* neither escalates it again nor misses its authority, and stage_payment  *)
(* does not ask for another approval.                                      *)
THEOREM ApprovalsSuffice ==
    ASSUME Mutations = {}
    PROVE  Spec => []ApprovalSuffices
<1>1. Init => ApprovalInv
  BY ApprovalInit
<1>2. ApprovalInv /\ [Next]_vars => ApprovalInv'
  BY ApprovalStep
<1>3. ApprovalInv => ApprovalSuffices
  BY DEF ApprovalInv
<1> QED
  BY <1>1, <1>2, <1>3, PTL DEF Spec

----------------------------------------------------------------------------
(* A lineage.                                                              *)

(* The contract of run is what Gate A has judged, and no run came to run,  *)
(* to be escalated or to call a tool that Gate A had stopped.              *)
Licensed ==
    /\ DOMAIN run.contract.intent = IntentFields
    /\ ScopeKeys \subseteq DOMAIN run.contract.intent.inputs
    /\ run.contract.gateA = Decide(run.contract.intent)
    /\ \/ run.state \in {"RUNNING", "ESCALATION_REQUIRED"}
       \/ Typed(run, "tool_call_started") # {}
       => run.contract.gateA.decision \in {"APPROVE", "ESCALATE"}

(* Why nobody but a human can let an intent be paid.  No change of         *)
(* constraints takes it back: it rewrites no amount and no rule.           *)
MustAsk(intent) ==
    \/ intent.inputs["amount"] \in Int /\ intent.inputs["amount"] > AutonomousLimit
    \/ \E rule \in intent.approval_rules : rule.always

(* Only what must be asked is ever escalated.                              *)
Escalations ==
    /\ EscalatedIn(run) \/ (\E k \in DOMAIN lineage : EscalatedIn(lineage[k])) =>
          MustAsk(run.contract.intent)
    /\ Running /\ run.contract.approval = None => run.approvalState = "NOT_REQUESTED"

CallsExecutable ==
    \A k \in Typed(run, "tool_call_started") :
        run.events[k].tool \in ExecutableTools(run.contract.intent)

PaidAmount == Paid => run.evidence["stage_payment"].amount \in Int

(* The terms of i are those of j or narrower.                              *)
Within(i, j) ==
    /\ ExecutableTools(i) \subseteq ExecutableTools(j)
    /\ \A k \in ScopeKeys : Blank(j, k) \/ j.inputs[k] = i.inputs[k]
    /\ \/ j.cap = None
       \/ i.cap = j.cap
       \/ i.cap \in Int /\ j.cap \in Int /\ i.cap <= j.cap

Narrowed ==
    \A k \in DOMAIN lineage : Within(run.contract.intent, lineage[k].contract.intent)

RunInv ==
    /\ TrailInv /\ StagedWithinAuthority /\ ApprovalKept
    /\ Licensed /\ CallsExecutable /\ PaidAmount

HumanInv ==
    RunInv /\ Recorded(lineage) /\ Escalations /\ Narrowed /\ ApprovalsAreOrders

----------------------------------------------------------------------------
(* What escalates must be asked.                                           *)

LEMMA GateEscalates ==
    ASSUME NEW i, Decide(i).decision = "ESCALATE"
    PROVE  MustAsk(i)
<1>1. AboveLimit(i) \/ RequiresManager(i)
  BY DEF Decide, GateADecision
<1>2. AboveLimit(i) => i.inputs["amount"] \in Int /\ i.inputs["amount"] > AutonomousLimit
  BY DEF AboveLimit, Amount
<1>3. RequiresManager(i) => \E rule \in i.approval_rules : rule.always
  BY DEF RequiresManager
<1> QED
  BY <1>1, <1>2, <1>3 DEF MustAsk

(* Gate B escalates for its own reason, the want of an approval: that of   *)
(* an approval that it does not recognise never arises.                    *)
LEMMA EscalatedAsks ==
    ASSUME IInv, ApprovalKept, Running, NEW c \in CheckedRuns,
           c.decision.decision = "ESCALATE",
           run.contract.approval = None => run.approvalState = "NOT_REQUESTED"
    PROVE  MustAsk(run.contract.intent)
<1> DEFINE asks == {"RUNTIME_HUMAN_AUTHORITY_REQUIRED", "RUNTIME_APPROVAL_REQUIRED"}
<1>1. DOMAIN run = RunFields
  BY DEF IInv, TypeOK
<1>2. PICK p : c = Checked(run, p, DecideRuntime(run, p))
  BY DEF CheckedRuns, Judgements
<1>3. c.decision = Result(run, p, DecideRuntime(run, p))
  BY <1>1, <1>2, CheckedShape
<1>4. DecideRuntime(run, p) \in asks
  BY <1>3 DEF Result, Verdict
<1>5. None \notin asks
  BY CodesAssumption DEF RuntimeCodes
<1>6. ScopeProblem(run, p) \notin asks
  BY <1>5 DEF ScopeProblem
<1>7. StateProblem(run, p) \notin asks
  <2>1. RetryProblem(run, p.tool) \notin asks
    BY <1>5 DEF RetryProblem
  <2>2. EvidenceProblem(run, Required(p.tool)) \notin asks
    <3>1. \A done, i : AttemptProblem(run, done, i) \notin asks
      BY <1>5 DEF AttemptProblem
    <3> QED
      BY <1>5, <3>1 DEF EvidenceProblem
  <2>3. ~\E k \in DOMAIN run.events : run.events[k].type = "human_intervention"
    BY DEF ApprovalKept, Unattended, Typed
  <2>4. ~(\/ /\ run.approvalState # "NOT_REQUESTED"
            /\ ~(ApprovedRun(run.contract) /\ run.approvalState = "APPROVED_BY_HUMAN")
         \/ \E k \in DOMAIN run.events : run.events[k].type = "human_intervention")
    BY <2>3 DEF ApprovalKept, Backed
  <2> QED
    BY <1>5, <2>1, <2>2, <2>4 DEF StateProblem
<1>8. StageProblem(run, p) = "RUNTIME_APPROVAL_REQUIRED"
  <2>1. StageProblem(run, p) \in asks
    BY <1>4, <1>5, <1>6, <1>7 DEF DecideRuntime
  <2>2. StageProblem(run, p) # "RUNTIME_HUMAN_AUTHORITY_REQUIRED"
    BY <1>5 DEF StageProblem
  <2> QED
    BY <2>1, <2>2
<1> DEFINE intent == run.contract.intent
           amount == p.arguments["amount"]
<1>9. /\ NeedsApproval(intent, amount) /\ IsAmount(intent.inputs["amount"])
      /\ amount = intent.inputs["amount"]
  BY <1>5, <1>8, SMT DEF StageProblem
<1> QED
  BY <1>9 DEF NeedsApproval, MustAsk, IsAmount, FinancePolicy

(* A call that Gate B lets pass is one of the executable tools.            *)
LEMMA ApprovedExecutable ==
    ASSUME IInv, Running, NEW c \in CheckedRuns, c.decision.decision = "APPROVE"
    PROVE  c.proposed.tool \in ExecutableTools(run.contract.intent)
<1>1. DOMAIN run = RunFields
  BY DEF IInv, TypeOK
<1>2. PICK p : c = Checked(run, p, DecideRuntime(run, p))
  BY DEF CheckedRuns, Judgements
<1>3. c.proposed = p /\ c.decision = Result(run, p, DecideRuntime(run, p))
  BY <1>1, <1>2, CheckedShape
<1>4. DecideRuntime(run, p) = None
  BY <1>3 DEF Result, Verdict
<1>5. ScopeProblem(run, p) = None
  BY <1>4 DEF DecideRuntime
<1>6. /\ p.tool \in ToolNames /\ ~Prohibited(run.contract.intent, p.tool)
      /\ Permission(p.tool) \in run.contract.intent.allowed
  BY <1>5, CodesAssumption, SMT DEF ScopeProblem, RuntimeCodes
<1> QED
  BY <1>3, <1>6 DEF ExecutableTools

----------------------------------------------------------------------------
(* What an execution adds to the log.                                      *)

(* s continues the log of r with calls of one tool, and was not escalated  *)
(* on the way.                                                             *)
Continues(r, s, tool) ==
    /\ DOMAIN s = RunFields /\ Recorded(s.events)
    /\ EscalatedIn(s) => EscalatedIn(r) \/ s.state = "ESCALATION_REQUIRED"
    /\ \A k \in Typed(s, "tool_call_started") :
          \/ k \in Typed(r, "tool_call_started") /\ s.events[k] = r.events[k]
          \/ Names(s.events[k], tool)

LEMMA LogContinues ==
    ASSUME NEW r, NEW s, NEW e, NEW tool, Recorded(r.events), Logs(r, s, e),
           DOMAIN s = RunFields, Is(e, "tool_call_started") => Names(e, tool)
    PROVE  Continues(r, s, tool)
<1> DEFINE n == Len(r.events)
           starts == "tool_call_started"
<1>1. /\ Recorded(s.events) /\ n \in Nat /\ DOMAIN r.events = 1..n
      /\ DOMAIN s.events = 1..(n + 1)
      /\ \A k \in 1..n : s.events[k] = r.events[k]
      /\ s.events[n + 1] = e
  BY Appending DEF Logs
<1>2. ASSUME NEW k \in Typed(s, starts)
      PROVE  \/ k \in Typed(r, starts) /\ s.events[k] = r.events[k]
             \/ Names(s.events[k], tool)
  <2>1. k \in 1..(n + 1) /\ Is(s.events[k], starts)
    BY <1>1, <1>2 DEF Typed, Is
  <2>2. CASE k \in 1..n
    BY <1>1, <2>1, <2>2 DEF Typed, Is
  <2>3. CASE k = n + 1
    BY <1>1, <2>1, <2>3
  <2> QED
    BY <1>1, <2>1, <2>2, <2>3
<1> QED
  BY <1>1, <1>2, Escalates DEF Continues

LEMMA ContinuesOn ==
    ASSUME NEW q, NEW r, NEW s, NEW tool, Continues(q, r, tool), Continues(r, s, tool),
           r.state # "ESCALATION_REQUIRED"
    PROVE  Continues(q, s, tool)
<1>1. ASSUME NEW k \in Typed(s, "tool_call_started")
      PROVE  \/ k \in Typed(q, "tool_call_started") /\ s.events[k] = q.events[k]
             \/ Names(s.events[k], tool)
  <2>1. CASE k \in Typed(r, "tool_call_started") /\ s.events[k] = r.events[k]
    BY <2>1 DEF Continues
  <2> QED
    BY <1>1, <2>1 DEF Continues
<1> QED
  BY <1>1 DEF Continues

(* A step of the controller calls at most the tool that Gate B has let     *)
(* pass.                                                                   *)
LEMMA CheckedContinues ==
    ASSUME TrailInv, NEW c \in CheckedRuns, NEW tool,
           c.decision.decision = "APPROVE" => tool = c.proposed.tool,
           \/ Reject(c)
           \/ Pause(c)
           \/ \E answer \in Answers(c) :
                  Fail(c, answer) \/ Escape(c, answer) \/ Succeed(c, answer)
    PROVE  Continues(run, run', tool)
<1> DEFINE starts == "tool_call_started"
<1>1. Running /\ DOMAIN run = RunFields /\ Recorded(run.events) /\ IInv
  BY DEF Reject, Pause, Fail, Escape, Succeed, Superstep, TrailInv, Sound, Account, GInv
<1>2. /\ Continues(run, c, tool) /\ c.state = "RUNNING"
      /\ DOMAIN c = RunFields /\ Recorded(c.events)
  <2>1. PICK p : c = Checked(run, p, DecideRuntime(run, p))
    BY DEF CheckedRuns, Judgements
  <2>2. Differs(run, c, {"events", "proposed", "decision"})
    BY <1>1, CheckedRun
  <2>3. PICK e : Logs(run, c, e) /\ e.type = "runtime_policy_check"
    BY <1>1, <2>1, CheckedLog
  <2>4. ~Is(e, starts)
    BY <2>3 DEF Is
  <2>5. DOMAIN c = RunFields /\ c.state = "RUNNING"
    BY <1>1, <2>2 DEF Differs, RunFields, Running
  <2>6. Continues(run, c, tool)
    BY <1>1, <2>3, <2>4, <2>5, LogContinues
  <2> QED
    BY <2>5, <2>6 DEF Continues
<1>3. ASSUME NEW r, NEW s, NEW e, Continues(run, r, tool), r.state = "RUNNING",
             Logs(r, s, e), DOMAIN s = RunFields,
             Is(e, starts) => Names(e, tool)
      PROVE  Continues(run, s, tool)
  <2>1. Recorded(r.events) /\ r.state # "ESCALATION_REQUIRED"
    BY <1>3 DEF Continues
  <2>2. Continues(r, s, tool)
    BY <1>3, <2>1, LogContinues
  <2> QED
    BY <1>3, <2>1, <2>2, ContinuesOn
<1>4. ASSUME NEW r, NEW o, Continues(run, r, tool), r.state = "RUNNING",
             run' = Close(r, o)
      PROVE  Continues(run, run', tool)
  <2>1. DOMAIN r = RunFields
    BY <1>4 DEF Continues
  <2>2. PICK e : /\ Logs(r, run', e)
                 /\ e.type = IF o.status = "COMPLETED" THEN "run_completed"
                             ELSE "run_failed"
    BY <1>4, <2>1, ClosedLog
  <2>3. ~Is(e, starts)
    BY <2>2 DEF Is
  <2>4. DOMAIN run' = RunFields
    BY <1>4, <2>1, CloseShape DEF Differs
  <2> QED
    BY <1>3, <1>4, <2>2, <2>3, <2>4
<1>5. CASE Reject(c)
  BY <1>2, <1>4, <1>5 DEF Reject, FinishWith
<1>6. CASE Pause(c)
  <2>1. PICK e : Logs(c, run', e) /\ e.type = "control_decision"
    BY <1>2, <1>6, PausedLog DEF Pause
  <2>2. ~Is(e, starts)
    BY <2>1 DEF Is
  <2>3. DOMAIN run' = RunFields
    BY <1>2, <1>6, PausedShape DEF Pause, Differs
  <2> QED
    BY <1>2, <1>3, <2>1, <2>2, <2>3
<1>7. ASSUME NEW answer \in Answers(c),
             Fail(c, answer) \/ Escape(c, answer) \/ Succeed(c, answer)
      PROVE  Continues(run, run', tool)
  <2> DEFINE begun == Started(c)
  <2>1. Continues(run, begun, tool) /\ begun.state = "RUNNING" /\ DOMAIN begun = RunFields
    <3>1. tool = c.proposed.tool
      BY DEF Answers
    <3>2. PICK e : Logs(c, begun, e) /\ e.tool = c.proposed.tool
      BY <1>2, StartedLog
    <3>3. Differs(c, begun, {"events", "history"})
      BY <1>2, StartedShape
    <3> HIDE DEF begun
    <3>4. DOMAIN begun = RunFields /\ begun.state = "RUNNING"
      BY <1>2, <3>3 DEF Differs, RunFields
    <3>5. Is(e, starts) => Names(e, tool)
      BY <3>1, <3>2 DEF Names
    <3> QED
      BY <1>2, <1>3, <3>2, <3>4, <3>5
  <2> HIDE DEF begun
  <2>2. CASE Escape(c, answer)
    BY <2>1, <2>2 DEF Escape, begun
  <2>3. CASE Fail(c, answer)
    <3> DEFINE failed == FailedCall(begun, answer.code)
    <3>1. \/ run' = ScheduleRetry(failed, c.proposed.tool, answer.code)
          \/ run' = FinishWith(failed, answer.code, "FAILED")
      BY <2>3 DEF Fail, begun
    <3>2. PICK e : Logs(begun, failed, e) /\ e.type = "tool_call_failed"
      BY <2>1, FailedLog
    <3>3. Differs(begun, failed, {"events", "observations"})
      BY <2>1, FailedCallShape
    <3> HIDE DEF failed
    <3>4. DOMAIN failed = RunFields /\ failed.state = "RUNNING"
      BY <2>1, <3>3 DEF Differs, RunFields
    <3>5. ~Is(e, starts)
      BY <3>2 DEF Is
    <3>6. Continues(run, failed, tool)
      BY <1>3, <2>1, <3>2, <3>4, <3>5
    <3>7. CASE run' = ScheduleRetry(failed, c.proposed.tool, answer.code)
      <4>1. PICK f : Logs(failed, run', f) /\ f.type = "retry_scheduled"
        BY <3>4, <3>7, ScheduledLog
      <4>2. ~Is(f, starts)
        BY <4>1 DEF Is
      <4>3. DOMAIN run' = RunFields
        BY <3>4, <3>7, ScheduleRetryShape DEF Differs
      <4> QED
        BY <1>3, <3>4, <3>6, <4>1, <4>2, <4>3
    <3>8. CASE run' = FinishWith(failed, answer.code, "FAILED")
      BY <1>4, <3>4, <3>6, <3>8 DEF FinishWith
    <3> QED
      BY <3>1, <3>7, <3>8
  <2>4. CASE Succeed(c, answer)
    <3> DEFINE done == CompletedCall(begun, answer.output)
    <3>1. \/ run' = done
          \/ run' = FinishWith(done, "INVOICE_INPUT_MISMATCH", "FAILED")
          \/ run' = FinishWith(done, "DUPLICATE_INVOICE", "FAILED")
      BY <2>4 DEF Succeed, Settled, begun
    <3>2. PICK e : Logs(begun, done, e) /\ e.type = "tool_call_completed"
      BY <2>1, CompletedLog
    <3>3. Differs(begun, done, {"events", "evidence", "observations", "retry"})
      BY <2>1, CompletedCallShape
    <3> HIDE DEF done
    <3>4. DOMAIN done = RunFields /\ done.state = "RUNNING"
      BY <2>1, <3>3 DEF Differs, RunFields
    <3>5. ~Is(e, starts)
      BY <3>2 DEF Is
    <3>6. Continues(run, done, tool)
      BY <1>3, <2>1, <3>2, <3>4, <3>5
    <3> QED
      BY <1>4, <3>1, <3>4, <3>6 DEF FinishWith
  <2> QED
    BY <1>7, <2>2, <2>3, <2>4
<1> QED
  BY <1>5, <1>6, <1>7

LEMMA FinishContinues ==
    ASSUME TrailInv, FinishRun, NEW tool
    PROVE  Continues(run, run', tool)
<1>1. DOMAIN run = RunFields /\ Recorded(run.events)
  BY DEF TrailInv, Sound, Account
<1>2. PICK o : run' = Close(run, o)
  BY FinishedPlan DEF FinishRun
<1>3. PICK e : /\ Logs(run, run', e)
               /\ e.type = IF o.status = "COMPLETED" THEN "run_completed" ELSE "run_failed"
  BY <1>1, <1>2, ClosedLog
<1>4. ~Is(e, "tool_call_started")
  BY <1>3 DEF Is
<1>5. DOMAIN run' = RunFields
  BY <1>1, <1>2, CloseShape DEF Differs
<1> QED
  BY <1>1, <1>3, <1>4, <1>5, LogContinues

----------------------------------------------------------------------------
(* A step of the controller.                                               *)

LEMMA PaidAmountKept ==
    ASSUME TrailInv, PaidAmount, [Next]_vars
    PROVE  PaidAmount'
<1>1. TrailInv' /\ GInv
  BY TrailStep DEF TrailInv
<1>2. CASE "stage_payment" \notin DOMAIN run'.evidence
  BY <1>2 DEF PaidAmount, Paid
<1>3. CASE run'.contract = run.contract /\ run'.evidence = run.evidence
  BY <1>3 DEF PaidAmount, Paid
<1>4. ASSUME NEW c \in CheckedRuns, NEW answer \in Answers(c), Succeed(c, answer),
             c.proposed.tool = "stage_payment"
      PROVE  PaidAmount'
  <2> DEFINE id == run.contract.intent.inputs["invoice_id"]
             payment == run'.evidence["stage_payment"]
  <2>1. DOMAIN staged' = DOMAIN staged \cup {id} /\ payment = staged'[id]
    BY <1>1, <1>4, StagePays DEF Governed!Pay
  <2>2. /\ DOMAIN staged' \subseteq DOMAIN Invoices
        /\ \A v \in DOMAIN staged' : staged'[v] = StagedPayment(Invoices[v], Invoices[v].amount)
    BY <1>1 DEF TrailInv, GInv, IInv, TypeOK, LedgerOfRecords
  <2> HIDE DEF id, payment
  <2>3. payment.amount = Invoices[id].amount /\ Invoices[id].amount \in Nat
    <3>1. id \in DOMAIN Invoices /\ payment = StagedPayment(Invoices[id], Invoices[id].amount)
      BY <2>1, <2>2
    <3>2. payment.amount = Invoices[id].amount
      BY <3>1 DEF StagedPayment
    <3> QED
      BY <3>1, <3>2, FixtureAssumption
  <2> QED
    BY <2>3 DEF PaidAmount, payment
<1> QED
  BY <1>1, <1>2, <1>3, <1>4, OthersDoNotPay

(* A checked step leaves the contract alone, and where it escalates the    *)
(* request it had to.                                                      *)
LEMMA CheckedHuman ==
    ASSUME RunInv, NEW c \in CheckedRuns,
           Running /\ run.contract.approval = None => run.approvalState = "NOT_REQUESTED",
           \/ Reject(c)
           \/ Pause(c)
           \/ \E answer \in Answers(c) :
                  Fail(c, answer) \/ Escape(c, answer) \/ Succeed(c, answer)
    PROVE  /\ Running /\ run'.contract = run.contract
           /\ Running' => run'.approvalState = run.approvalState
           /\ EscalatedIn(run') => EscalatedIn(run) \/ MustAsk(run.contract.intent)
           /\ CallsExecutable'
<1>1. TrailInv /\ IInv /\ ApprovalKept
  BY DEF RunInv, TrailInv, GInv
<1>2. /\ Running /\ run'.contract = run.contract
      /\ run'.state = "ESCALATION_REQUIRED" => c.decision.decision = "ESCALATE"
      /\ Running' => run'.approvalState = run.approvalState
  BY <1>1, CheckedStep
<1>3. c.decision.decision = "ESCALATE" => MustAsk(run.contract.intent)
  BY <1>1, <1>2, EscalatedAsks
<1>4. Continues(run, run', c.proposed.tool)
  BY <1>1, CheckedContinues
<1>5. EscalatedIn(run') => EscalatedIn(run) \/ MustAsk(run.contract.intent)
  BY <1>2, <1>3, <1>4 DEF Continues
<1> DEFINE intent == run.contract.intent
           starts == "tool_call_started"
<1>6. \A k \in Typed(run, starts) : run.events[k].tool \in ExecutableTools(intent)
  BY DEF RunInv, CallsExecutable
<1>7. \A k \in Typed(run', starts) : run'.events[k].tool \in ExecutableTools(intent)
  <2> SUFFICES ASSUME NEW k \in Typed(run', starts)
               PROVE  run'.events[k].tool \in ExecutableTools(intent)
    OBVIOUS
  <2>1. CASE k \in Typed(run, starts) /\ run'.events[k] = run.events[k]
    BY <1>6, <2>1
  <2>2. CASE ~(k \in Typed(run, starts) /\ run'.events[k] = run.events[k])
    <3>1. Names(run'.events[k], c.proposed.tool)
      BY <1>4, <2>2 DEF Continues
    <3>2. c.decision.decision = "APPROVE"
      <4>1. ASSUME c.decision.decision # "APPROVE" PROVE FALSE
        <5>1. Continues(run, run', 1) /\ Continues(run, run', 2)
          BY <1>1, <4>1, CheckedContinues
        <5>2. Names(run'.events[k], 1) /\ Names(run'.events[k], 2)
          BY <2>2, <5>1 DEF Continues
        <5> QED
          BY <5>2 DEF Names
      <4> QED
        BY <4>1
    <3> QED
      BY <1>1, <1>2, <3>1, <3>2, ApprovedExecutable DEF Names
  <2> QED
    BY <2>1, <2>2
<1>8. CallsExecutable'
  BY <1>2, <1>7 DEF CallsExecutable, Typed
<1> QED
  BY <1>2, <1>5, <1>8

LEMMA AdvanceKeeps ==
    ASSUME RunInv, Advance,
           Running /\ run.contract.approval = None => run.approvalState = "NOT_REQUESTED"
    PROVE  /\ RunInv' /\ run'.contract = run.contract
           /\ Running' => run'.approvalState = run.approvalState
           /\ Running
           /\ EscalatedIn(run') => EscalatedIn(run) \/ MustAsk(run.contract.intent)
<1>1. TrailInv /\ ApprovalKept /\ Next /\ AuthorityInv
  BY DEF RunInv, Next, AuthorityInv, TrailInv
<1>2. TrailInv' /\ StagedWithinAuthority' /\ PaidAmount'
  BY <1>1, TrailStep, StepKeepsAuthority, PaidAmountKept DEF RunInv, AuthorityInv
<1>3. CASE FinishRun
  <2>1. /\ Running /\ ~Running' /\ ApprovalKept'
        /\ Differs(run, run', {"events", "state", "outcome"})
        /\ run'.state \in {"COMPLETED", "FAILED"}
    BY <1>1, <1>3, FinishKept
  <2>2. run'.contract = run.contract
    BY <2>1 DEF Differs, RunFields
  <2>3. Continues(run, run', 1) /\ Continues(run, run', 2)
    BY <1>1, <1>3, FinishContinues
  <2>4. \A k \in Typed(run', "tool_call_started") :
           k \in Typed(run, "tool_call_started") /\ run'.events[k] = run.events[k]
    BY <2>3 DEF Continues, Names
  <2>5. CallsExecutable'
    BY <2>2, <2>4 DEF CallsExecutable, Typed, RunInv
  <2>6. EscalatedIn(run') => EscalatedIn(run)
    BY <2>1, <2>3 DEF Continues
  <2>7. Licensed'
    BY <2>1, <2>2 DEF Licensed, RunInv, Running
  <2> QED
    BY <1>2, <2>1, <2>2, <2>5, <2>6, <2>7 DEF RunInv
<1>4. ASSUME NEW c \in CheckedRuns,
             \/ Reject(c)
             \/ Pause(c)
             \/ \E answer \in Answers(c) :
                    Fail(c, answer) \/ Escape(c, answer) \/ Succeed(c, answer)
      PROVE  /\ RunInv' /\ run'.contract = run.contract /\ Running
             /\ Running' => run'.approvalState = run.approvalState
             /\ EscalatedIn(run') => EscalatedIn(run) \/ MustAsk(run.contract.intent)
  <2>1. /\ Running /\ run'.contract = run.contract
        /\ Running' => run'.approvalState = run.approvalState
        /\ EscalatedIn(run') => EscalatedIn(run) \/ MustAsk(run.contract.intent)
        /\ CallsExecutable'
    BY <1>4, CheckedHuman
  <2>2. ApprovalKept'
    BY <1>1, <1>4, CheckedKept
  <2>3. Licensed'
    BY <2>1 DEF Licensed, RunInv, Running
  <2> QED
    BY <1>2, <2>1, <2>2, <2>3 DEF RunInv
<1> QED
  BY <1>3, <1>4 DEF Advance

----------------------------------------------------------------------------
(* How the run of a lineage begins.                                        *)

LEMMA FreshContract ==
    ASSUME NEW id, NEW order, NEW r \in Beginnings(id, order)
    PROVE  /\ r.contract.intent = order.intent /\ r.contract.approval = order.approval
           /\ r.contract.parent = order.parent /\ r.contract.run = id
           /\ r.contract.gateA = Decide(order.intent)
           /\ r.state \in {"RUNNING", "ESCALATION_REQUIRED"} =>
                 r.contract.gateA.decision \in {"APPROVE", "ESCALATE"}
           /\ r.state = "RUNNING" /\ order.approval = None =>
                 r.approvalState = "NOT_REQUESTED"
           /\ EscalatedIn(r) => MustAsk(order.intent)
           /\ Typed(r, "tool_call_started") = {} /\ DOMAIN r.evidence = {}
<1> DEFINE gateA == Decide(order.intent)
           new   == NewRun(id, order, gateA)
<1>1. /\ r.contract = new.contract /\ r.approvalState = new.approvalState
      /\ r.state = "RUNNING" => new.contract.plan # None
      /\ EscalatedIn(r) => gateA.decision = "ESCALATE"
  BY StartMoves
<1>2. /\ new.contract.intent = order.intent /\ new.contract.approval = order.approval
      /\ new.contract.parent = order.parent /\ new.contract.run = id
      /\ new.contract.gateA = gateA
      /\ new.contract.plan = IF Authorised(gateA, order.approval) THEN BuildPlan ELSE None
      /\ order.approval = None /\ gateA.decision = "APPROVE" =>
            new.approvalState = "NOT_REQUESTED"
  BY DEF NewRun
<1>3. /\ Sound(r) /\ Len(r.events) # 0
      /\ DOMAIN r.evidence = {} /\ r.history = <<>>
  BY FreshTrail, FreshRun DEF Begun
<1>4. EscalatedIn(r) => MustAsk(order.intent)
  BY <1>1, GateEscalates DEF gateA
<1> HIDE DEF gateA, new
<1>5. r.state = "ESCALATION_REQUIRED" => EscalatedIn(r)
  <2>1. DOMAIN r.events = 1..Len(r.events) /\ Len(r.events) \in Nat /\ Continuous(r)
    BY <1>3 DEF Sound, Account, Recorded
  <2>2. Len(r.events) \in DOMAIN r.events /\ r.events[Len(r.events)].after = r.state
    BY <1>3, <2>1 DEF Continuous
  <2> QED
    BY <2>2 DEF EscalatedIn
<1>6. r.state = "RUNNING" => Authorised(gateA, order.approval)
  BY <1>1, <1>2
<1>7. Typed(r, "tool_call_started") = {}
  <2>1. Cardinality(Typed(r, "tool_call_started")) = 0
    BY <1>3 DEF Sound, Account, HistoryLogged
  <2>2. IsFiniteSet(Typed(r, "tool_call_started"))
    BY <1>3, Counted DEF Sound, Account
  <2> QED
    BY <2>1, <2>2, FS_EmptySet
<1> QED
  BY <1>1, <1>2, <1>3, <1>4, <1>5, <1>6, <1>7 DEF Authorised, Approvable, gateA

LEMMA Opening ==
    ASSUME TrailInv, NEW id, NEW order, DOMAIN order.intent = IntentFields,
           ScopeKeys \subseteq DOMAIN order.intent.inputs,
           order.approval # None => Resumes(order), run' \in Beginnings(id, order),
           steps' = 0, raised' = None, UNCHANGED staged
    PROVE  /\ RunInv'
           /\ EscalatedIn(run') => MustAsk(run'.contract.intent)
           /\ Running' /\ run'.contract.approval = None =>
                 run'.approvalState = "NOT_REQUESTED"
           /\ run'.contract.intent = order.intent
           /\ run'.contract.approval = order.approval
           /\ run'.contract.parent = order.parent
<1>1. /\ run'.contract.intent = order.intent /\ run'.contract.approval = order.approval
      /\ run'.contract.parent = order.parent
      /\ run'.contract.gateA = Decide(order.intent)
      /\ run'.state \in {"RUNNING", "ESCALATION_REQUIRED"} =>
            run'.contract.gateA.decision \in {"APPROVE", "ESCALATE"}
      /\ run'.state = "RUNNING" /\ order.approval = None =>
            run'.approvalState = "NOT_REQUESTED"
      /\ EscalatedIn(run') => MustAsk(order.intent)
      /\ Typed(run', "tool_call_started") = {} /\ DOMAIN run'.evidence = {}
  BY FreshContract
<1>2. TrailInv' /\ ApprovalKept'
  BY BeginningTrail, BeginningApproved
<1>3. StagedWithinAuthority' /\ PaidAmount'
  BY <1>1 DEF StagedWithinAuthority, PaidAmount, Paid
<1>4. Licensed'
  BY <1>1 DEF Licensed, Typed
<1>5. CallsExecutable'
  BY <1>1 DEF CallsExecutable, Typed
<1> QED
  BY <1>1, <1>2, <1>3, <1>4, <1>5 DEF RunInv, Running

----------------------------------------------------------------------------
(* How a decision closes its run.                                          *)

LEMMA ToldShape ==
    ASSUME NEW r, NEW d, NEW child, DOMAIN r = RunFields
    PROVE  LET s == Told(r, d, child)
           IN  /\ Differs(r, s, {"events", "approvalState"})
               /\ s.approvalState \in {"CONSUMED_BY_HUMAN", d.action}
               /\ child = None => s.approvalState = d.action
               /\ \E e : Logs(r, s, e) /\ e.type = "human_intervention"
<1> DEFINE state == IF child # None THEN "CONSUMED_BY_HUMAN" ELSE d.action
           marked == [r EXCEPT !.approvalState = state]
           e == [Event("human_intervention", r.state, r.state) EXCEPT
                   !.decision = d.action, !.next = child]
           s == Told(r, d, child)
<1>1. s = Log(marked, e)
  BY DEF Told
<1>2. Differs(r, marked, {"approvalState"}) /\ marked.approvalState = state
  BY DEF Differs, RunFields
<1>3. e.type = "human_intervention" /\ e.before = r.state /\ e.after = r.state
  BY DEF Event
<1>4. state \in {"CONSUMED_BY_HUMAN", d.action} /\ (child = None => state = d.action)
  OBVIOUS
<1> HIDE DEF marked, e, state, s
<1>5. s.events = Append(marked.events, e)
  BY <1>1, <1>2 DEF Log, Differs, RunFields
<1>6. Differs(r, s, {"events", "approvalState"}) /\ s.approvalState = state
  <2>1. Differs(marked, s, {"events"})
    BY <1>1, <1>2, LogShape DEF Differs
  <2> QED
    BY <1>2, <2>1 DEF Differs, RunFields
<1>7. marked.events = r.events /\ s.state = r.state
  BY <1>2, <1>6 DEF Differs, RunFields
<1>8. Logs(r, s, e)
  BY <1>3, <1>5, <1>7 DEF Logs
<1> QED
  BY <1>3, <1>4, <1>6, <1>8 DEF s

LEMMA FinishedByCloses ==
    ASSUME NEW r, NEW d
    PROVE  \E o \in Outcomes : /\ FinishedBy(r, d) = Close(r, o)
                               /\ o.status \in {"REJECTED", "CANCELLED"}
<1>1. {"HUMAN_DENIED", "HUMAN_CANCELLED", "HUMAN_CONTINUATION_CREATED"} \subseteq Reasons
  BY DEF Reasons
<1>2. {"REJECTED", "CANCELLED"} \subseteq TerminalStates
  BY DEF TerminalStates
<1>3. PICK reason \in {"HUMAN_DENIED", "HUMAN_CANCELLED", "HUMAN_CONTINUATION_CREATED"},
           status \in {"REJECTED", "CANCELLED"} :
        FinishedBy(r, d) = FinishWith(r, reason, status)
  BY DEF FinishedBy
<1> QED
  BY <1>1, <1>2, <1>3, FinishedWith

(* The decision is the last thing that the run records before it ends, in  *)
(* the state in which it was paused.                                       *)
LEMMA ClosedRun ==
    ASSUME TrailInv, LivePause(run), NEW d, NEW child
    PROVE  LET s == Closed(run, d, child)
           IN  /\ Differs(run, s, {"events", "state", "approvalState", "outcome"})
               /\ s.state \in {"REJECTED", "CANCELLED"} /\ s.outcome.status = s.state
               /\ child = None => s.approvalState = d.action
               /\ Sound(s) /\ Ended(s)
               /\ Last(s).before = run.state
               /\ EscalatedIn(s) => EscalatedIn(run)
               /\ \A k \in Typed(s, "tool_call_started") :
                     /\ k \in Typed(run, "tool_call_started")
                     /\ s.events[k] = run.events[k]
<1> DEFINE t == Told(run, d, child)
           s == Closed(run, d, child)
           starts == "tool_call_started"
<1>1. DOMAIN run = RunFields /\ Recorded(run.events) /\ Sound(run) /\ Open(run)
  BY DEF TrailInv, Sound, Account, Settlement, Settles, Open, Is, Last
<1>2. /\ Differs(run, t, {"events", "approvalState"})
      /\ child = None => t.approvalState = d.action
  BY <1>1, ToldShape
<1>3. PICK e : Logs(run, t, e) /\ e.type = "human_intervention"
  BY <1>1, ToldShape
<1>4. PICK o \in Outcomes : s = Close(t, o) /\ o.status \in {"REJECTED", "CANCELLED"}
  BY FinishedByCloses DEF Closed
<1> HIDE DEF t, s
<1>5. /\ DOMAIN t = RunFields /\ t.contract = run.contract /\ t.history = run.history
      /\ t.evidence = run.evidence /\ t.state = run.state
  BY <1>2 DEF Differs, RunFields
<1>6. /\ ~Is(e, starts) /\ ~Is(e, "tool_call_completed") /\ ~Is(e, "tool_call_failed")
  BY <1>3 DEF Is
<1>7. Sound(t)
  BY <1>1, <1>3, <1>5, <1>6, OpenAnswered, QuietSound
<1>8. Open(t) /\ Recorded(t.events)
  BY <1>1, <1>3, <1>6, <1>7, LastLogged DEF Open, Sound, Account
<1>9. Sound(s) /\ Ended(s)
  BY <1>4, <1>7, <1>8, OpenAnswered, ClosedSound
<1>10. /\ Differs(t, s, {"events", "state", "outcome"})
       /\ s.state = o.status /\ s.outcome = o
  BY <1>4, <1>5, CloseShape
<1>11. PICK f : /\ Logs(t, s, f)
                /\ f.type = IF o.status = "COMPLETED" THEN "run_completed" ELSE "run_failed"
  BY <1>4, <1>5, ClosedLog
<1>12. Last(s).before = run.state
  BY <1>5, <1>8, <1>11, LastLogged DEF Logs
<1>13. DOMAIN s = RunFields /\ ~Is(f, starts)
  BY <1>4, <1>10, <1>11 DEF Differs, Is
<1>14. /\ Continues(run, t, 1) /\ Continues(run, t, 2)
       /\ Continues(t, s, 1) /\ Continues(t, s, 2)
  BY <1>1, <1>3, <1>5, <1>6, <1>8, <1>11, <1>13, LogContinues
<1>15. \A k \in Typed(s, starts) : k \in Typed(run, starts) /\ s.events[k] = run.events[k]
  BY <1>14 DEF Continues, Names
<1>16. EscalatedIn(s) => EscalatedIn(run)
  <2>1. EscalatedIn(s) => EscalatedIn(t)
    BY <1>4, <1>10, <1>14 DEF Continues
  <2>2. EscalatedIn(t) => EscalatedIn(run) \/ run.state = "ESCALATION_REQUIRED"
    BY <1>5, <1>14 DEF Continues
  <2>3. run.state = "ESCALATION_REQUIRED" => EscalatedIn(run)
    <3>1. /\ DOMAIN run.events = 1..Len(run.events) /\ Len(run.events) \in Nat
          /\ Len(run.events) # 0 /\ Continuous(run)
      BY <1>1 DEF TrailInv, Settlement, Settles, Sound, Account, Recorded
    <3>2. /\ Len(run.events) \in DOMAIN run.events
          /\ run.events[Len(run.events)].after = run.state
      BY <3>1 DEF Continuous
    <3> QED
      BY <3>2 DEF EscalatedIn
  <2> QED
    BY <2>1, <2>2, <2>3
<1>17. Differs(run, s, {"events", "state", "approvalState", "outcome"})
  BY <1>2, <1>10 DEF Differs, RunFields
<1>18. child = None => s.approvalState = d.action
  BY <1>2, <1>10 DEF Differs, RunFields
<1> QED
  BY <1>4, <1>9, <1>10, <1>12, <1>15, <1>16, <1>17, <1>18 DEF s

(* A denied or cancelled run promises what it promised.                    *)
LEMMA DismissedKeeps ==
    ASSUME RunInv, NEW d, Dismiss(d)
    PROVE  /\ RunInv' /\ run'.contract = run.contract
           /\ ~Running' /\ (EscalatedIn(run') => EscalatedIn(run))
<1>1. /\ TrailInv /\ LivePause(run) /\ d.action \in {"DENY", "CANCEL"}
      /\ run' = Closed(run, d, None)
      /\ steps' = steps /\ raised' = raised /\ staged' = staged
  BY DEF RunInv, Dismiss
<1>2. /\ Differs(run, run', {"events", "state", "approvalState", "outcome"})
      /\ run'.state \in {"REJECTED", "CANCELLED"} /\ run'.outcome.status = run'.state
      /\ run'.approvalState = d.action
      /\ Sound(run') /\ Ended(run')
      /\ EscalatedIn(run') => EscalatedIn(run)
      /\ \A k \in Typed(run', "tool_call_started") :
            k \in Typed(run, "tool_call_started") /\ run'.events[k] = run.events[k]
  BY <1>1, ClosedRun
<1>3. /\ DOMAIN run' = RunFields /\ run'.contract = run.contract
      /\ run'.evidence = run.evidence /\ run'.history = run.history
      /\ run'.retry = run.retry /\ run'.decision = run.decision
  BY <1>2 DEF Differs, RunFields
<1>4. ~Running'
  BY <1>2 DEF Running
<1>5. IInv'
  <2>1. TypeOK /\ StagedKeyed /\ NoGraphRecursion
    BY DEF RunInv, TrailInv, GInv, IInv
  <2>2. TypeOK'
    BY <1>1, <1>2, <1>3, <2>1 DEF TypeOK, RunStates, TerminalStates
  <2>3. StagedKeyed' /\ NoGraphRecursion' /\ RetryBudget'
    BY <1>1, <1>4, <2>1 DEF StagedKeyed, NoGraphRecursion, RetryBudget
  <2> QED
    BY <2>2, <2>3 DEF IInv
<1>6. GInv'
  BY <1>1, <1>3, <1>5 DEF RunInv, TrailInv, GInv, InvoiceSeen, LedgerOfRecords
<1>7. TrailInv'
  BY <1>2, <1>6, EndedSettles DEF TrailInv
<1>8. ApprovalKept'
  BY <1>3, <1>4, BackedStands DEF RunInv, ApprovalKept
<1>9. StagedWithinAuthority' /\ PaidAmount'
  BY <1>3 DEF RunInv, StagedWithinAuthority, PaidAmount, Paid
<1>10. Licensed'
  BY <1>2, <1>3 DEF RunInv, Licensed, Typed
<1>11. CallsExecutable'
  BY <1>2, <1>3 DEF RunInv, CallsExecutable, Typed
<1> QED
  BY <1>2, <1>3, <1>4, <1>7, <1>8, <1>9, <1>10, <1>11 DEF RunInv

----------------------------------------------------------------------------
(* What decisions make of an intent.                                       *)

LEMMA SameBlank ==
    ASSUME NEW i, NEW j, NEW k, i.inputs[k] = j.inputs[k]
    PROVE  Blank(i, k) <=> Blank(j, k)
BY Zenon DEF Blank

LEMMA WithinItself == \A i : Within(i, i)
BY DEF Within

LEMMA WithinOnward ==
    ASSUME NEW i, NEW j, NEW k, Within(i, j), Within(j, k)
    PROVE  Within(i, k)
<1>1. ExecutableTools(i) \subseteq ExecutableTools(k)
  BY DEF Within
<1>2. ASSUME NEW key \in ScopeKeys, ~Blank(k, key)
      PROVE  k.inputs[key] = i.inputs[key]
  <2>1. k.inputs[key] = j.inputs[key]
    BY <1>2 DEF Within
  <2>2. ~Blank(j, key)
    BY <1>2, <2>1, SameBlank
  <2> QED
    BY <2>1, <2>2 DEF Within
<1>3. \/ k.cap = None
      \/ i.cap = k.cap
      \/ i.cap \in Int /\ k.cap \in Int /\ i.cap <= k.cap
  BY NoneAssumption DEF Within
<1> QED
  BY <1>1, <1>2, <1>3 DEF Within

(* The next version of an intent has its terms.                            *)
LEMMA NextWithin ==
    ASSUME NEW i, DOMAIN i = IntentFields, ScopeKeys \subseteq DOMAIN i.inputs
    PROVE  LET j == NextVersion(i)
           IN  /\ DOMAIN j = IntentFields /\ ScopeKeys \subseteq DOMAIN j.inputs
               /\ Within(j, i) /\ (MustAsk(i) => MustAsk(j))
               /\ Scope(j) = Scope(i)
<1> DEFINE j == NextVersion(i)
<1>1. /\ DOMAIN j = IntentFields
      /\ \A f \in IntentFields \ {"version"} : j[f] = i[f]
  BY NextTerms
<1> HIDE DEF j
<1>2. /\ j.inputs = i.inputs /\ j.cap = i.cap /\ j.allowed = i.allowed
      /\ j.prohibited = i.prohibited /\ j.goal = i.goal
      /\ j.requirements = i.requirements /\ j.approval_rules = i.approval_rules
  BY <1>1 DEF IntentFields
<1>3. ExecutableTools(j) = ExecutableTools(i)
  BY <1>2 DEF ExecutableTools, Prohibited
<1>4. Within(j, i)
  BY <1>2, <1>3 DEF Within
<1>5. MustAsk(i) => MustAsk(j)
  BY <1>2 DEF MustAsk
<1>6. Scope(j) = Scope(i)
  BY <1>2 DEF Scope
<1> QED
  BY <1>1, <1>2, <1>4, <1>5, <1>6 DEF j

(* A change of constraints that is accepted narrows them, and takes back   *)
(* nothing that must be asked.                                             *)
LEMMA ChangedWithin ==
    ASSUME NEW r, NEW changes, Acceptable(r, changes),
           DOMAIN r.contract.intent = IntentFields,
           ScopeKeys \subseteq DOMAIN r.contract.intent.inputs
    PROVE  LET i == r.contract.intent
               j == ChangedIntent(i, changes)
           IN  /\ DOMAIN j = IntentFields /\ ScopeKeys \subseteq DOMAIN j.inputs
               /\ Within(j, i) /\ (MustAsk(i) => MustAsk(j))
<1> DEFINE i == r.contract.intent
           j == ChangedIntent(i, changes)
<1>1. /\ FillsInputs(i, changes.inputs) /\ NarrowsCap(i, changes.cap)
      /\ NarrowsAuthority(i, changes)
  BY DEF Acceptable
<1>2. /\ DOMAIN j = IntentFields
      /\ j.inputs = [k \in DOMAIN i.inputs |->
                        IF k \in DOMAIN changes.inputs THEN changes.inputs[k]
                        ELSE i.inputs[k]]
      /\ j.cap = IF changes.cap = None THEN i.cap ELSE changes.cap
      /\ j.allowed = IF changes.allowed = None THEN i.allowed ELSE changes.allowed
      /\ j.prohibited = IF changes.prohibited = None THEN i.prohibited
                        ELSE changes.prohibited
      /\ j.goal = i.goal /\ j.requirements = i.requirements
      /\ j.approval_rules = i.approval_rules
  BY DEF ChangedIntent, IntentFields
<1> HIDE DEF i, j
<1>3. j.allowed \subseteq i.allowed /\ i.prohibited \subseteq j.prohibited
  BY <1>1, <1>2 DEF NarrowsAuthority
<1>4. ExecutableTools(j) \subseteq ExecutableTools(i)
  BY <1>2, <1>3 DEF ExecutableTools, Prohibited
<1>5. ASSUME NEW k \in ScopeKeys, ~Blank(i, k)
      PROVE  i.inputs[k] = j.inputs[k]
  <2>1. k \notin DOMAIN changes.inputs
    BY <1>1, <1>5 DEF FillsInputs
  <2>2. k \in DOMAIN i.inputs
    BY <1>5 DEF i
  <2> QED
    BY <1>2, <2>1, <2>2
<1>6. \/ i.cap = None
      \/ j.cap = i.cap
      \/ j.cap \in Int /\ i.cap \in Int /\ j.cap <= i.cap
  BY <1>1, <1>2 DEF NarrowsCap, IsAmount
<1>7. Within(j, i)
  BY <1>4, <1>5, <1>6 DEF Within
<1>8. MustAsk(i) => MustAsk(j)
  <2>1. i.inputs["amount"] # None => i.inputs["amount"] = j.inputs["amount"]
    <3>1. "amount" \in ScopeKeys
      BY DEF ScopeKeys
    <3>2. i.inputs["amount"] # None => ~Blank(i, "amount")
      BY Zenon DEF Blank
    <3> QED
      BY <1>5, <3>1, <3>2
  <2> QED
    BY <1>2, <2>1, NoneAssumption DEF MustAsk
<1>9. ScopeKeys \subseteq DOMAIN j.inputs
  BY <1>2 DEF i
<1> QED
  BY <1>2, <1>7, <1>8, <1>9 DEF i, j

----------------------------------------------------------------------------
(* A decision that continues its run in a child.                           *)

LEMMA ContinueKeeps ==
    ASSUME HumanInv, LivePause(run), NEW d, NEW intent, NEW approval,
           Continue(d, intent, approval),
           DOMAIN intent = IntentFields, ScopeKeys \subseteq DOMAIN intent.inputs,
           Within(intent, run.contract.intent),
           MustAsk(run.contract.intent) => MustAsk(intent),
           approval # None =>
               /\ run.state = "ESCALATION_REQUIRED"
               /\ Resumes([intent |-> intent, approval |-> approval,
                           parent |-> run.contract.run])
    PROVE  HumanInv'
<1> DEFINE order  == [intent |-> intent, approval |-> approval,
                      parent |-> run.contract.run]
           child  == run.contract.run + 1
           closed == Closed(run, d, child)
           n      == Len(lineage)
<1>1. /\ lineage' = Append(lineage, closed)
      /\ run' \in Beginnings(child, order)
      /\ steps' = 0 /\ raised' = None /\ UNCHANGED staged
  BY DEF Continue, envVars
<1>2. /\ RunInv /\ TrailInv /\ Recorded(lineage) /\ Escalations /\ Narrowed
  BY DEF HumanInv, RunInv
<1>3. /\ order.intent = intent /\ order.approval = approval
      /\ order.parent = run.contract.run
  OBVIOUS
<1>4. /\ closed.contract = run.contract
      /\ Last(closed).before = run.state
      /\ EscalatedIn(closed) => EscalatedIn(run)
  BY <1>2, ClosedRun DEF Differs, RunFields
<1>5. approval # None => run.state = "ESCALATION_REQUIRED" /\ Resumes(order)
  OBVIOUS
<1> HIDE DEF order, child, closed
<1>6. /\ RunInv'
      /\ EscalatedIn(run') => MustAsk(intent)
      /\ Running' /\ run'.contract.approval = None =>
            run'.approvalState = "NOT_REQUESTED"
      /\ run'.contract.intent = intent
      /\ run'.contract.approval = approval
      /\ run'.contract.parent = run.contract.run
  BY <1>1, <1>2, <1>3, <1>5, Opening
<1>7. /\ Recorded(lineage') /\ n \in Nat /\ Len(lineage') = n + 1
      /\ DOMAIN lineage = 1..n /\ DOMAIN lineage' = 1..(n + 1)
      /\ \A k \in 1..n : lineage'[k] = lineage[k]
      /\ lineage'[n + 1] = closed
  BY <1>1, <1>2, Appending
<1> HIDE DEF n
<1>8. Narrowed'
  <2>1. ASSUME NEW k \in 1..(n + 1)
        PROVE  Within(intent, lineage'[k].contract.intent)
    <3>1. CASE k \in 1..n
      <4>1. Within(run.contract.intent, lineage[k].contract.intent)
        BY <1>2, <1>7, <3>1 DEF Narrowed
      <4> QED
        BY <1>7, <3>1, <4>1, WithinOnward
    <3>2. CASE k = n + 1
      BY <1>4, <1>7, <3>2
    <3> QED
      BY <1>7, <3>1, <3>2
  <2> QED
    BY <1>6, <1>7, <2>1 DEF Narrowed
<1>9. Escalations'
  <2>1. ASSUME NEW k \in 1..(n + 1), EscalatedIn(lineage'[k])
        PROVE  MustAsk(intent)
    <3>1. CASE k \in 1..n
      BY <1>2, <1>7, <2>1, <3>1 DEF Escalations
    <3>2. CASE k = n + 1
      BY <1>2, <1>4, <1>7, <2>1, <3>2 DEF Escalations
    <3> QED
      BY <1>7, <3>1, <3>2
  <2> QED
    BY <1>6, <1>7, <2>1 DEF Escalations, EscalatedIn, MustAsk
<1>10. ApprovalsAreOrders'
  <2>1. approval # None => Last(lineage'[n + 1]).before = "ESCALATION_REQUIRED"
    BY <1>4, <1>5, <1>7
  <2>2. approval # None => Resumes([intent |-> run'.contract.intent,
                                    approval |-> run'.contract.approval,
                                    parent |-> run'.contract.parent])
    BY <1>5, <1>6 DEF order
  <2>3. run'.contract.parent = lineage'[n + 1].contract.run
    BY <1>4, <1>6, <1>7
  <2> QED
    BY <1>6, <1>7, <2>1, <2>2, <2>3 DEF ApprovalsAreOrders, Last
<1> QED
  BY <1>6, <1>7, <1>8, <1>9, <1>10 DEF HumanInv

----------------------------------------------------------------------------
(* Every step of a lineage.                                                *)

LEMMA OrderedIntent ==
    ASSUME NEW order \in Orders
    PROVE  /\ DOMAIN order.intent = IntentFields
           /\ ScopeKeys \subseteq DOMAIN order.intent.inputs
           /\ order.approval # None =>
                 Resumes(order) /\ Resumes([intent |-> order.intent,
                                            approval |-> order.approval,
                                            parent |-> order.parent])
<1>1. ASSUME Resumes(order)
      PROVE  Resumes([intent |-> order.intent, approval |-> order.approval,
                      parent |-> order.parent])
  BY <1>1 DEF Resumes
<1> QED
  BY <1>1, OrdersAssumption, IntentsAssumption

LEMMA WorkKeeps ==
    ASSUME HumanInv, Work
    PROVE  HumanInv'
<1>1. RunInv /\ Escalations /\ Advance /\ lineage' = lineage
  BY DEF HumanInv, Work, humanVars
<1>2. /\ RunInv' /\ run'.contract = run.contract
      /\ Running' => run'.approvalState = run.approvalState
      /\ Running
      /\ EscalatedIn(run') => EscalatedIn(run) \/ MustAsk(run.contract.intent)
  BY <1>1, AdvanceKeeps DEF Escalations
<1>3. Escalations'
  BY <1>1, <1>2 DEF Escalations, EscalatedIn, MustAsk
<1>4. Recorded(lineage') /\ Narrowed' /\ ApprovalsAreOrders'
  BY <1>1, <1>2 DEF HumanInv, Narrowed, ApprovalsAreOrders
<1> QED
  BY <1>2, <1>3, <1>4 DEF HumanInv

LEMMA DismissHuman ==
    ASSUME HumanInv, NEW d, Dismiss(d)
    PROVE  HumanInv'
<1>1. RunInv /\ Escalations /\ lineage' = lineage
  BY DEF HumanInv, Dismiss
<1>2. /\ RunInv' /\ run'.contract = run.contract
      /\ ~Running' /\ (EscalatedIn(run') => EscalatedIn(run))
  BY <1>1, DismissedKeeps
<1>3. Escalations'
  BY <1>1, <1>2 DEF Escalations, EscalatedIn, MustAsk
<1>4. Recorded(lineage') /\ Narrowed' /\ ApprovalsAreOrders'
  BY <1>1, <1>2 DEF HumanInv, Narrowed, ApprovalsAreOrders
<1> QED
  BY <1>2, <1>3, <1>4 DEF HumanInv

LEMMA BeginHuman ==
    ASSUME HumanInv, NEW order \in Orders, Begin(order)
    PROVE  HumanInv'
<1>1. /\ TrailInv /\ run' \in Beginnings(run.contract.run + 1, order)
      /\ steps' = 0 /\ raised' = None /\ UNCHANGED staged /\ lineage' = <<>>
  BY DEF HumanInv, RunInv, Begin, Execute, envVars
<1>2. /\ DOMAIN order.intent = IntentFields
      /\ ScopeKeys \subseteq DOMAIN order.intent.inputs
      /\ order.approval # None =>
            Resumes(order) /\ Resumes([intent |-> order.intent,
                                       approval |-> order.approval,
                                       parent |-> order.parent])
  BY OrderedIntent
<1>3. /\ RunInv'
      /\ EscalatedIn(run') => MustAsk(run'.contract.intent)
      /\ Running' /\ run'.contract.approval = None =>
            run'.approvalState = "NOT_REQUESTED"
      /\ run'.contract.intent = order.intent
      /\ run'.contract.approval = order.approval
      /\ run'.contract.parent = order.parent
  BY <1>1, <1>2, Opening
<1>4. DOMAIN lineage' = {} /\ Recorded(lineage')
  BY <1>1 DEF Recorded
<1>5. Narrowed'
  BY <1>4 DEF Narrowed
<1>6. Escalations'
  BY <1>3, <1>4 DEF Escalations, EscalatedIn, MustAsk
<1>7. ApprovalsAreOrders'
  BY <1>1, <1>2, <1>3 DEF ApprovalsAreOrders
<1> QED
  BY <1>3, <1>4, <1>5, <1>6, <1>7 DEF HumanInv

LEMMA ApproveHuman ==
    ASSUME HumanInv, NEW d, Approve(d)
    PROVE  HumanInv'
<1> DEFINE i == run.contract.intent
           j == NextVersion(i)
           order == [intent |-> j, approval |-> d, parent |-> run.contract.run]
<1>1. /\ LivePause(run) /\ Bound(run, d) /\ run.state = "ESCALATION_REQUIRED"
      /\ ScopedApproval(d, Scope(i)) /\ Continue(d, j, d)
  BY DEF Approve, Approves
<1>2. /\ DOMAIN i = IntentFields /\ ScopeKeys \subseteq DOMAIN i.inputs
      /\ Decide(i).decision \in {"APPROVE", "ESCALATE"}
  BY <1>1 DEF HumanInv, RunInv, Licensed
<1>3. /\ DOMAIN j = IntentFields /\ ScopeKeys \subseteq DOMAIN j.inputs
      /\ Within(j, i) /\ (MustAsk(i) => MustAsk(j))
      /\ Scope(j) = Scope(i)
  BY <1>2, NextWithin
<1>4. d.run = run.contract.run /\ d.version = i.version /\ d.digest = i
  BY <1>1 DEF Bound
<1>5. Resumes(order)
  <2>1. /\ order.approval = d /\ order.parent = run.contract.run
        /\ order.intent = NextVersion(i)
    OBVIOUS
  <2> HIDE DEF order
  <2> QED
    BY <1>1, <1>2, <1>3, <1>4, <2>1 DEF Resumes
<1> HIDE DEF j
<1> QED
  BY <1>1, <1>3, <1>5, ContinueKeeps DEF order

LEMMA ModifyHuman ==
    ASSUME HumanInv, NEW d, Modify(d)
    PROVE  HumanInv'
<1> DEFINE i == run.contract.intent
           j == ChangedIntent(i, d.changes)
<1>1. /\ LivePause(run) /\ Acceptable(run, d.changes) /\ Continue(d, j, None)
  BY DEF Modify, Inherited
<1>2. /\ DOMAIN i = IntentFields /\ ScopeKeys \subseteq DOMAIN i.inputs
  BY DEF HumanInv, RunInv, Licensed
<1>3. /\ DOMAIN j = IntentFields /\ ScopeKeys \subseteq DOMAIN j.inputs
      /\ Within(j, i) /\ (MustAsk(i) => MustAsk(j))
  BY <1>1, <1>2, ChangedWithin
<1> HIDE DEF j
<1> QED
  BY <1>1, <1>3, ContinueKeeps

LEMMA HumanInitHolds == HumanInit => HumanInv
<1> SUFFICES ASSUME HumanInit PROVE HumanInv
  OBVIOUS
<1>1. PICK order \in Orders : run \in Beginnings(1, order)
  BY DEF HumanInit, Init
<1>2. Init /\ lineage = <<>>
  BY DEF HumanInit
<1>3. /\ DOMAIN order.intent = IntentFields
      /\ ScopeKeys \subseteq DOMAIN order.intent.inputs
      /\ order.approval # None =>
            Resumes(order) /\ Resumes([intent |-> order.intent,
                                       approval |-> order.approval,
                                       parent |-> order.parent])
  BY OrderedIntent
<1>4. /\ run.contract.intent = order.intent /\ run.contract.approval = order.approval
      /\ run.contract.parent = order.parent
      /\ run.contract.gateA = Decide(order.intent)
      /\ run.state \in {"RUNNING", "ESCALATION_REQUIRED"} =>
            run.contract.gateA.decision \in {"APPROVE", "ESCALATE"}
      /\ run.state = "RUNNING" /\ order.approval = None =>
            run.approvalState = "NOT_REQUESTED"
      /\ EscalatedIn(run) => MustAsk(order.intent)
      /\ Typed(run, "tool_call_started") = {} /\ DOMAIN run.evidence = {}
  BY <1>1, FreshContract
<1>5. TrailInv /\ ApprovalKept
  BY <1>2, ApprovalInit DEF ApprovalInv
<1>6. StagedWithinAuthority /\ PaidAmount /\ CallsExecutable /\ Licensed
  BY <1>3, <1>4 DEF StagedWithinAuthority, PaidAmount, Paid, CallsExecutable, Licensed
<1>7. DOMAIN lineage = {} /\ Recorded(lineage)
  BY <1>2 DEF Recorded
<1>8. Narrowed /\ Escalations
  BY <1>4, <1>7 DEF Narrowed, Escalations, Running
<1>9. ApprovalsAreOrders
  BY <1>2, <1>3, <1>4 DEF ApprovalsAreOrders
<1> QED
  BY <1>5, <1>6, <1>7, <1>8, <1>9 DEF HumanInv, RunInv

LEMMA HumanStep == HumanInv /\ [HumanNext]_<<vars, humanVars>> => HumanInv'
<1> SUFFICES ASSUME HumanInv, [HumanNext]_<<vars, humanVars>> PROVE HumanInv'
  OBVIOUS
<1>1. CASE UNCHANGED <<vars, humanVars>>
  <2>1. /\ UNCHANGED vars /\ run' = run /\ raised' = raised /\ lineage' = lineage
    BY <1>1 DEF vars, humanVars
  <2>2. TrailInv' /\ PaidAmount'
    BY <2>1, TrailStep, PaidAmountKept DEF HumanInv, RunInv
  <2>3. ApprovalKept'
    BY <2>1, BackedStands DEF HumanInv, RunInv, ApprovalKept, Running
  <2>4. StagedWithinAuthority' /\ Licensed' /\ CallsExecutable'
    BY <2>1 DEF HumanInv, RunInv, StagedWithinAuthority, Licensed, CallsExecutable, Typed
  <2>5. Narrowed' /\ ApprovalsAreOrders' /\ Recorded(lineage')
    BY <2>1 DEF HumanInv, Narrowed, ApprovalsAreOrders
  <2>6. Escalations'
    BY <2>1 DEF HumanInv, Escalations, EscalatedIn, MustAsk, Running
  <2> QED
    BY <2>2, <2>3, <2>4, <2>5, <2>6 DEF HumanInv, RunInv
<1> QED
  BY <1>1, WorkKeeps, BeginHuman, ApproveHuman, ModifyHuman, DismissHuman DEF HumanNext

(* The invariant that the theorems about lineages are read from.           *)
LEMMA HumanInductive == HumanSpec => []HumanInv
BY HumanInitHolds, HumanStep, PTL DEF HumanSpec

----------------------------------------------------------------------------
(* What human decisions can and cannot do.                                 *)

(* resume_invoice hands an approval to the child of the escalated run that *)
(* it is about and to no other, and the order that it hands to _execute is *)
(* what Orders assumes of every approved one: the theorems about single    *)
(* executions hold of every child as well.                                 *)
THEOREM ApprovalsReachTheirRun == HumanSpec => []ApprovalsAreOrders
<1>1. HumanInv => ApprovalsAreOrders
  BY DEF HumanInv
<1> QED
  BY <1>1, HumanInductive, PTL

(* Whatever changes of constraints follow an escalation, only a run with   *)
(* an approval of its own pays: what made Gate A or Gate B escalate, an    *)
(* amount above the limit or a standing rule, is out of reach of           *)
(* changed_intent, and whoever has no approval is not let past it.         *)
THEOREM EscalationsAreAnswered == HumanSpec => []EscalationAnswered
<1>1. HumanInv => EscalationAnswered
  <2> SUFFICES ASSUME HumanInv, "stage_payment" \in DOMAIN run.evidence,
                      NEW k \in DOMAIN lineage, EscalatedIn(lineage[k])
               PROVE  run.contract.approval # None
    BY DEF EscalationAnswered, EscalatedIn
  <2> DEFINE intent  == run.contract.intent
             payment == run.evidence["stage_payment"]
  <2>1. MustAsk(intent) /\ StagedWithinAuthority
    BY DEF HumanInv, RunInv, Escalations
  <2>2. payment["amount"] = intent.inputs["amount"]
    BY <2>1 DEF StagedWithinAuthority, ScopeKeys
  <2>3. \/ run.contract.approval # None
        \/ /\ payment.amount <= AutonomousLimit
           /\ \A rule \in intent.approval_rules : ~rule.always
    BY <2>1 DEF StagedWithinAuthority
  <2> QED
    BY <2>1, <2>2, <2>3, PolicyAssumption DEF MustAsk
<1> QED
  BY <1>1, HumanInductive, PTL

(* No sequence of approvals and changes of constraints widens what the     *)
(* first request allowed: every call of the latest run is executable under *)
(* every earlier contract, and its payment is the one that each of them    *)
(* asked for, within each cap unless a human approved it (changed_intent,  *)
(* decide_runtime).                                                        *)
THEOREM AuthorityOnlyNarrows == HumanSpec => []AuthorityNarrows
<1>1. HumanInv => AuthorityNarrows
  <2> SUFFICES ASSUME HumanInv, NEW c \in LineageContracts
               PROVE  /\ \A k \in EventsOfType("tool_call_started") :
                            run.events[k].tool \in ExecutableTools(c.intent)
                      /\ "stage_payment" \in DOMAIN run.evidence =>
                            LET payment == run.evidence["stage_payment"]
                            IN  /\ \A k \in ScopeKeys :
                                      \/ Blank(c.intent, k)
                                      \/ c.intent.inputs[k] = payment[k]
                                /\ \/ run.contract.approval # None
                                   \/ c.intent.cap = None
                                   \/ payment.amount <= c.intent.cap
    BY Zenon DEF AuthorityNarrows
  <2> DEFINE intent  == run.contract.intent
             payment == run.evidence["stage_payment"]
  <2>1. Within(intent, c.intent)
    <3>1. CASE c = run.contract
      BY <3>1, WithinItself
    <3>2. ASSUME NEW k \in DOMAIN lineage, c = lineage[k].contract
          PROVE  Within(intent, c.intent)
      BY <3>2 DEF HumanInv, Narrowed
    <3> QED
      BY <3>1, <3>2 DEF LineageContracts
  <2>2. \A k \in EventsOfType("tool_call_started") :
           run.events[k].tool \in ExecutableTools(c.intent)
    BY <2>1, TypedEvents DEF HumanInv, RunInv, CallsExecutable, Within
  <2>3. ASSUME "stage_payment" \in DOMAIN run.evidence, NEW k \in ScopeKeys
        PROVE  Blank(c.intent, k) \/ c.intent.inputs[k] = payment[k]
    <3>1. payment[k] = intent.inputs[k]
      BY <2>3 DEF HumanInv, RunInv, StagedWithinAuthority
    <3> QED
      BY <2>1, <3>1 DEF Within
  <2>4. ASSUME "stage_payment" \in DOMAIN run.evidence, run.contract.approval = None,
               c.intent.cap # None
        PROVE  payment.amount <= c.intent.cap
    <3>1. payment.amount <= intent.cap
      BY <2>4 DEF HumanInv, RunInv, StagedWithinAuthority
    <3>2. payment.amount \in Int
      BY <2>4 DEF HumanInv, RunInv, PaidAmount, Paid
    <3> QED
      BY <2>1, <2>4, <3>1, <3>2 DEF Within
  <2> QED
    BY <2>2, <2>3, <2>4
<1> QED
  BY <1>1, HumanInductive, PTL

(* A decision is logged where it was made, before its run ends, and a      *)
(* child begins a log of its own: the log stays a complete account of its  *)
(* run through any sequence of decisions (resume_invoice, _event).         *)
THEOREM DecisionsAreLogged == HumanSpec => []TrailReplays
<1>1. HumanInv => TrailReplays
  BY LogReplays DEF HumanInv, RunInv
<1> QED
  BY <1>1, HumanInductive, PTL

----------------------------------------------------------------------------
(* What Gate A's judgement means for an execution and for a lineage.       *)

(* RunInv by itself, for executions that follow each other with nobody to  *)
(* decide between them.                                                    *)
ExecutionInv ==
    /\ RunInv
    /\ Running /\ run.contract.approval = None => run.approvalState = "NOT_REQUESTED"

LEMMA ExecutionInit == Init => ExecutionInv
<1> SUFFICES ASSUME Init PROVE ExecutionInv
  OBVIOUS
<1>1. PICK order \in Orders : run \in Beginnings(1, order)
  BY DEF Init
<1>2. /\ DOMAIN order.intent = IntentFields
      /\ ScopeKeys \subseteq DOMAIN order.intent.inputs
  BY OrderedIntent
<1>3. /\ run.contract.intent = order.intent /\ run.contract.approval = order.approval
      /\ run.contract.gateA = Decide(order.intent)
      /\ run.state \in {"RUNNING", "ESCALATION_REQUIRED"} =>
            run.contract.gateA.decision \in {"APPROVE", "ESCALATE"}
      /\ run.state = "RUNNING" /\ order.approval = None =>
            run.approvalState = "NOT_REQUESTED"
      /\ Typed(run, "tool_call_started") = {} /\ DOMAIN run.evidence = {}
  BY <1>1, FreshContract
<1>4. TrailInv /\ ApprovalKept
  BY ApprovalInit DEF ApprovalInv
<1>5. StagedWithinAuthority /\ PaidAmount /\ CallsExecutable /\ Licensed
  BY <1>2, <1>3 DEF StagedWithinAuthority, PaidAmount, Paid, CallsExecutable, Licensed
<1> QED
  BY <1>3, <1>4, <1>5 DEF ExecutionInv, RunInv, Running

LEMMA ExecutionStep == ExecutionInv /\ [Next]_vars => ExecutionInv'
<1> SUFFICES ASSUME ExecutionInv, [Next]_vars PROVE ExecutionInv'
  OBVIOUS
<1>1. CASE UNCHANGED vars
  <2>1. /\ UNCHANGED vars /\ run' = run /\ raised' = raised
    BY <1>1 DEF vars
  <2>2. TrailInv' /\ PaidAmount'
    BY <2>1, TrailStep, PaidAmountKept DEF ExecutionInv, RunInv
  <2>3. ApprovalKept'
    BY <2>1, BackedStands DEF ExecutionInv, RunInv, ApprovalKept, Running
  <2>4. StagedWithinAuthority' /\ Licensed' /\ CallsExecutable'
    BY <2>1
    DEF ExecutionInv, RunInv, StagedWithinAuthority, Licensed, CallsExecutable, Typed
  <2>5. (Running /\ run.contract.approval = None =>
            run.approvalState = "NOT_REQUESTED")'
    BY <2>1 DEF ExecutionInv, Running
  <2> QED
    BY <2>2, <2>3, <2>4, <2>5 DEF ExecutionInv, RunInv
<1>2. ASSUME NEW order \in Orders, Execute(order)
      PROVE  ExecutionInv'
  <2>1. /\ run' \in Beginnings(run.contract.run + 1, order)
        /\ steps' = 0 /\ raised' = None /\ UNCHANGED staged /\ TrailInv
    BY <1>2 DEF Execute, envVars, ExecutionInv, RunInv
  <2>2. /\ DOMAIN order.intent = IntentFields
        /\ ScopeKeys \subseteq DOMAIN order.intent.inputs
        /\ order.approval # None => Resumes(order)
    BY OrderedIntent
  <2>3. /\ RunInv'
        /\ Running' /\ run'.contract.approval = None =>
              run'.approvalState = "NOT_REQUESTED"
    BY <2>1, <2>2, Opening
  <2> QED
    BY <2>3 DEF ExecutionInv
<1>3. CASE Advance
  <2>1. /\ RunInv' /\ run'.contract = run.contract /\ Running
        /\ Running' => run'.approvalState = run.approvalState
    BY <1>3, AdvanceKeeps DEF ExecutionInv
  <2> QED
    BY <2>1 DEF ExecutionInv
<1> QED
  BY <1>1, <1>2, <1>3 DEF Next

LEMMA ExecutionInductive == Spec => []ExecutionInv
BY ExecutionInit, ExecutionStep, PTL DEF Spec

LEMMA LicensedBlocks == Licensed => FindingsBlock
<1> SUFFICES ASSUME Licensed PROVE FindingsBlock
  OBVIOUS
<1> DEFINE i == run.contract.intent
<1>1. /\ run.contract.gateA = Decide(i)
      /\ EventsOfType("tool_call_started") # {} =>
            Decide(i).decision \in {"APPROVE", "ESCALATE"}
  BY DEF Licensed, EventsOfType, Typed
<1>2. /\ ValidateIntent(i) = {} <=> Decide(i).decision \in {"APPROVE", "ESCALATE"}
      /\ Decide(i).decision = "CLARIFY" <=> Decide(i).questions # {}
  BY GateFailsClosed
<1> QED
  BY <1>1, <1>2 DEF FindingsBlock

LEMMA LicensedDrifts == Licensed => DriftNeverLicenses
<1> SUFFICES ASSUME Licensed PROVE DriftNeverLicenses
  OBVIOUS
<1> DEFINE i == run.contract.intent
<1>1. DOMAIN i = IntentFields /\ ScopeKeys \subseteq DOMAIN i.inputs
  BY DEF Licensed
<1>2. Decide(i).decision \in {"REJECT", "CLARIFY"} =>
         Decide(Inflated(i)).decision \notin {"APPROVE", "ESCALATE"}
  BY <1>1, InflationHidesNothing
<1>3. /\ Decide(VendorGone(i)).decision = "REJECT"
      /\ Decide(WithSafeAssumption(i)) = Decide(i)
  BY <1>1, GoneVendorRefused, SafeAssumptionIgnored
<1>4. ASSUME Decide(i).decision = "APPROVE"
      PROVE  /\ Decide(AtLimit(i)) = Decide(i)
             /\ AutonomousLimit > 0 => Decide(BelowLimit(i)) = Decide(i)
             /\ Decide(OverLimit(i)).code =
                   IF HasApprover(i) THEN "PAYMENT_ABOVE_AUTONOMOUS_LIMIT"
                   ELSE "APPROVAL_RULE_MISSING"
  <2>1. /\ AutonomousLimit \in Nat /\ AutonomousLimit <= AutonomousLimit
        /\ AutonomousLimit > 0 =>
              AutonomousLimit - 1 \in Nat /\ AutonomousLimit - 1 <= AutonomousLimit
        /\ AutonomousLimit + 1 \in Nat /\ AutonomousLimit + 1 > AutonomousLimit
    BY PolicyAssumption
  <2> HIDE DEF i
  <2> QED
    BY <1>1, <1>4, <2>1, ApprovedToTheLimit, StoppedAboveTheLimit
    DEF AtLimit, BelowLimit, OverLimit
<1> QED
  BY <1>2, <1>3, <1>4 DEF DriftNeverLicenses, HasApprover

(* Gate A fails closed for every intent, also for those that human changes *)
(* of constraints make: decide passes over no finding of validate_intent,  *)
(* asks whenever it waits for an answer, and no tool is ever called for an *)
(* intent with a finding.                                                  *)
THEOREM GateAlwaysFailsClosed ==
    /\ Spec => []FindingsBlock
    /\ HumanSpec => []FindingsBlock
<1>1. ExecutionInv => FindingsBlock
  BY LicensedBlocks DEF ExecutionInv, RunInv
<1>2. HumanInv => FindingsBlock
  BY LicensedBlocks DEF HumanInv, RunInv
<1>3. Spec => []FindingsBlock
  BY <1>1, ExecutionInductive, PTL
<1>4. HumanSpec => []FindingsBlock
  BY <1>2, HumanInductive, PTL
<1> QED
  BY <1>3, <1>4

(* What the drift and metamorphic batches test on their corpora holds of   *)
(* every intent and every limit: inflation admits nothing that was         *)
(* stopped, a missing supplier is always refused, a safe assumption is     *)
(* ignored, and an approval lasts up to the limit and no further           *)
(* (measure_drift, generate_metamorphic_cases).                            *)
THEOREM DriftIsHarmless ==
    /\ Spec => []DriftNeverLicenses
    /\ HumanSpec => []DriftNeverLicenses
<1>1. ExecutionInv => DriftNeverLicenses
  BY LicensedDrifts DEF ExecutionInv, RunInv
<1>2. HumanInv => DriftNeverLicenses
  BY LicensedDrifts DEF HumanInv, RunInv
<1>3. Spec => []DriftNeverLicenses
  BY <1>1, ExecutionInductive, PTL
<1>4. HumanSpec => []DriftNeverLicenses
  BY <1>2, HumanInductive, PTL
<1> QED
  BY <1>3, <1>4
=============================================================================
