--------------------------- MODULE HumanAuthority ---------------------------
(***************************************************************************)
(* The part of src/control_gate/human_control.py that says what a recorded *)
(* human approval authorises: the exact action of the exact next version   *)
(* of the escalated intent.  A digest of an intent is the intent itself    *)
(* (SHA-256 of its canonical JSON), so equality of digests is equality of  *)
(* contracts.                                                              *)
(***************************************************************************)
EXTENDS Contracts

(* The inputs that name the action an approval is about (scope).           *)
Scope(intent) == [k \in ScopeKeys |-> intent.inputs[k]]

(* Variant of ScopedApproval that lets any role approve.                   *)
ScopedApprovalByAnyone(approval, action) ==
    /\ approval # None
    /\ approval.action = "APPROVE"
    /\ approval.digest # None
    /\ approval.scope = [k \in ScopeKeys |-> action[k]]

(* C1's own guard (scoped_approval): a finance manager approved this exact *)
(* invoice, supplier, purchase order, amount and currency.                 *)
ScopedApproval(approval, action) ==
    /\ approval # None
    /\ approval.action = "APPROVE"
    /\ approval.role = "finance_manager"
    /\ approval.digest # None
    /\ approval.scope # None
    /\ \A k \in ScopeKeys : approval.scope[k] = action[k]
    /\ approval.scope["amount"] \in Int
    /\ approval.scope["amount"] > 0

(* The contract a resumed approval creates: the same terms, next version.  *)
NextVersion(intent) == [intent EXCEPT !.version = @ + 1]

(* Variant of ApprovedRun that takes the approval to be of this version.   *)
ApprovedRunOfSameVersion(c) ==
    /\ c.approval # None
    /\ c.parent = c.approval.run
    /\ c.approval.version = c.intent.version
    /\ ScopedApproval(c.approval, Scope(c.intent))

(* Whether the run c (a contract record) carries the approval of its own   *)
(* parent, of its own previous version and of its own action (approved_run). *)
ApprovedRun(c) ==
    /\ c.approval # None
    /\ c.parent = c.approval.run
    /\ c.approval.version + 1 = c.intent.version
    /\ c.approval.digest # None
    /\ NextVersion(c.approval.digest) = c.intent
    /\ ScopedApproval(c.approval, Scope(c.intent))
=============================================================================
