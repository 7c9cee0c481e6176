------------------------- MODULE GovernedExecution -------------------------
(***************************************************************************)
(* What src/control_gate/invoice_runtime.py promises of its executions,    *)
(* whatever the two gates, the retries and the tools do in between: tools  *)
(* answer in the order of the plan, nothing is paid before the last of     *)
(* them answers, what is paid is what the contract asks for and allows,    *)
(* nothing is paid twice or withdrawn, and an execution that has paid can  *)
(* neither pause nor be rejected.                                          *)
(***************************************************************************)
EXTENDS Integers, Sequences

CONSTANTS
    None,
    Tools,      \* the tools of the plan, in order; the last one pays
    Terms,      \* the fields of a payment that an intent determines
    Limit       \* what policy lets an execution pay without a human

VARIABLES
    status,     \* of the current execution
    contract,   \* what it is bound by: its number, intent and approval
    answered,   \* the tools that have answered it
    ledger      \* invoice -> its payment, in all executions

vars == <<status, contract, answered, ledger>>

First(k) == {Tools[j] : j \in 1..k}

All == First(Len(Tools))

Asked(payment) == \A k \in Terms : payment[k] = contract.intent.inputs[k]

(* The mandate without a human: the intent's cap, no standing demand for   *)
(* an approval, and the policy's limit.                                    *)
Allowed(payment) ==
    \/ contract.approval # None
    \/ /\ payment.amount <= contract.intent.cap
       /\ payment.amount <= Limit
       /\ \A rule \in contract.intent.approval_rules : ~rule.always

Beginning == answered = {} /\ status \in {"WORKING", "PAUSED", "REJECTED"}

Init == Beginning /\ ledger = <<>>

(* The next execution, of any contract.                                    *)
Begin ==
    /\ status # "WORKING"
    /\ contract'.run = contract.run + 1
    /\ Beginning'
    /\ UNCHANGED ledger

(* A tool answers, and its answer may be the end of the execution.         *)
Answer ==
    /\ status = "WORKING"
    /\ \E k \in 1..(Len(Tools) - 1) :
          answered = First(k - 1) /\ answered' = First(k)
    /\ status' \in {"WORKING", "FAILED"}
    /\ UNCHANGED <<contract, ledger>>

(* The last one answers: the invoice is paid, now or long since.           *)
Pay ==
    LET invoice == contract.intent.inputs["invoice_id"]
    IN  /\ status = "WORKING"
        /\ answered = First(Len(Tools) - 1) /\ answered' = All
        /\ DOMAIN ledger' = DOMAIN ledger \cup {invoice}
        /\ \A v \in DOMAIN ledger : ledger'[v] = ledger[v]
        /\ Asked(ledger'[invoice]) /\ Allowed(ledger'[invoice])
        /\ UNCHANGED <<status, contract>>

(* An execution may stop at any time before it has paid.                   *)
Stop ==
    /\ status = "WORKING" /\ answered # All
    /\ status' \in {"PAUSED", "REJECTED", "FAILED", "RAISED"}
    /\ UNCHANGED <<contract, answered, ledger>>

(* Once it has paid, all that is left is to say whether that is success.   *)
Conclude ==
    /\ status = "WORKING" /\ answered = All
    /\ status' \in {"COMPLETED", "FAILED"}
    /\ UNCHANGED <<contract, answered, ledger>>

Next == Begin \/ Answer \/ Pay \/ Stop \/ Conclude

Spec == Init /\ [][Next]_vars
=============================================================================
