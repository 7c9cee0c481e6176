---------------------------- MODULE PauseHandles ----------------------------
(***************************************************************************)
(* The live handle of one pause: _PauseContext, _pause, _live_pause and    *)
(* the order of the steps of resume_invoice, in                            *)
(* src/control_gate/invoice_runtime.py.  The run that paused can be copied *)
(* (copies share its context), serialized (the context is lost) and edited *)
(* by whoever holds it.  A caller checks the pause, validates its decision, *)
(* consumes the pause, records the decision in the run and then executes   *)
(* the child, in this order and without a lock.                            *)
(*                                                                         *)
(* What a decision must contain is the subject of HumanControl.            *)
(***************************************************************************)
EXTENDS Integers, Sequences, FiniteSets

CONSTANTS
    None,
    Callers,    \* threads that call resume_invoice
    Copies,     \* names of copies of the paused run
    Pauses      \* the states in which runs pause

ASSUME PausesAssumption ==
    Pauses \subseteq {"CLARIFICATION_REQUIRED", "ESCALATION_REQUIRED"}

VARIABLES
    handles,    \* the runs that exist: the paused one and its copies
    consumed,   \* the flag of the context they share
    calls,      \* for each caller, the call it is in
    accepted,   \* the decisions that have consumed the pause
    children    \* the decisions whose child has been executed

vars == <<handles, consumed, calls, accepted, children>>

Original == "run"

ASSUME CopiesAssumption == Original \notin Copies

Terminal == {"REJECTED", "CANCELLED"}

(* The reviewed content of a run is the one whose digest _pause kept.      *)
Handle(state) == [state |-> state, edited |-> FALSE, context |-> TRUE]

Idle == [pc |-> "idle", handle |-> None, action |-> None]

Init ==
    /\ \E state \in Pauses :
          handles = [h \in {Original} \cup Copies |->
                        IF h = Original THEN Handle(state) ELSE None]
    /\ consumed = FALSE
    /\ calls = [c \in Callers |-> Idle]
    /\ accepted = <<>> /\ children = {}

Exists(h) == handles[h] # None

AllIdle == \A c \in Callers : calls[c] = Idle

----------------------------------------------------------------------------
(* What holders of a run may do with it between calls.                     *)

(* model_copy and deepcopy keep the context, __deepcopy__ returns itself;  *)
(* model_validate_json makes a run without one.                            *)
Copy(h, copy) ==
    /\ AllIdle /\ Exists(h) /\ ~Exists(copy)
    /\ \E context \in {handles[h].context, FALSE} :
          handles' = [handles EXCEPT ![copy] = [handles[h] EXCEPT !.context = context]]
    /\ UNCHANGED <<consumed, calls, accepted, children>>

(* Change a field of the run, or change it back.                           *)
Edit(h) ==
    /\ AllIdle /\ Exists(h)
    /\ handles' = [handles EXCEPT ![h].edited = ~@]
    /\ UNCHANGED <<consumed, calls, accepted, children>>

----------------------------------------------------------------------------
(* resume_invoice.                                                         *)

(* Variants of LivePause: the owner may always resume, and any holder of   *)
(* the context is the owner.                                               *)
LiveForOwner(h) == handles[h].context /\ h = Original

LiveForAnyHolder(h) ==
    /\ handles[h].context /\ ~consumed
    /\ handles[h].state \notin Terminal /\ ~handles[h].edited

LivePause(h) ==
    /\ handles[h].context
    /\ h = Original
    /\ ~consumed
    /\ handles[h].state \notin Terminal
    /\ ~handles[h].edited

HumanActions == {"APPROVE", "DENY", "MODIFY_CONSTRAINT", "CANCEL"}

Call(c, h, action) ==
    /\ calls[c] = Idle /\ Exists(h)
    /\ LivePause(h)
    /\ calls' = [calls EXCEPT ![c] = [pc |-> "live", handle |-> h, action |-> action]]
    /\ UNCHANGED <<handles, consumed, accepted, children>>

(* An approval looks at the run's state again.                             *)
Stands(call) ==
    call.action = "APPROVE" => handles[call.handle].state = "ESCALATION_REQUIRED"

Validate(c) ==
    /\ calls[c].pc = "live"
    /\ calls' = [calls EXCEPT ![c] =
                    IF Stands(@) THEN [@ EXCEPT !.pc = "valid"] ELSE Idle]
    /\ UNCHANGED <<handles, consumed, accepted, children>>

Consume(c) ==
    /\ calls[c].pc = "valid"
    /\ consumed' = TRUE
    /\ accepted' = Append(accepted, [caller |-> c, handle |-> calls[c].handle,
                                     action |-> calls[c].action])
    /\ calls' = [calls EXCEPT ![c].pc = "consumed"]
    /\ UNCHANGED <<handles, children>>

ClosedState(action) == IF action = "DENY" THEN "REJECTED" ELSE "CANCELLED"

HasChild(action) == action \in {"APPROVE", "MODIFY_CONSTRAINT"}

(* Variant of Recorded that closes the parent only when it has no child.   *)
RecordedUnlessChild(run, action) ==
    IF HasChild(action) THEN run ELSE [run EXCEPT !.state = ClosedState(action)]

Recorded(run, action) == [run EXCEPT !.state = ClosedState(action)]

Record(c) ==
    LET call == calls[c]
    IN  /\ call.pc = "consumed"
        /\ handles' = [handles EXCEPT ![call.handle] = Recorded(@, call.action)]
        /\ calls' = [calls EXCEPT ![c] = IF HasChild(call.action)
                                         THEN [@ EXCEPT !.pc = "recorded"] ELSE Idle]
        /\ UNCHANGED <<consumed, accepted, children>>

(* The child runs to its pause or end, or raises: to the parent it is the  *)
(* same.                                                                   *)
Dispatch(c) ==
    /\ calls[c].pc = "recorded"
    /\ children' = children \cup {[caller |-> c, action |-> calls[c].action]}
    /\ calls' = [calls EXCEPT ![c] = Idle]
    /\ UNCHANGED <<handles, consumed, accepted>>

Next ==
    \/ \E h \in DOMAIN handles : Edit(h) \/ \E copy \in Copies : Copy(h, copy)
    \/ \E c \in Callers :
        \/ \E h \in DOMAIN handles, action \in HumanActions : Call(c, h, action)
        \/ Validate(c) \/ Consume(c) \/ Record(c) \/ Dispatch(c)

Spec == Init /\ [][Next]_vars

----------------------------------------------------------------------------
(* Properties.                                                             *)

(* A pause takes one decision, whatever is copied, serialized, edited and  *)
(* called in between (_live_pause).                                        *)
SingleUse == Len(accepted) <= 1

(* A decision is only ever recorded in the run that paused, and as long as *)
(* nobody calls, that run has ended exactly when a decision was accepted:  *)
(* no copy ends in its place and leaves it open (_PauseContext).           *)
DecisionEndsTheRun ==
    /\ AllIdle => (handles[Original].state \in Terminal <=> accepted # <<>>)
    /\ \A k \in DOMAIN accepted : accepted[k].handle = Original

(* When a child executes, its parent is consumed and closed: nothing the   *)
(* child does or raises can bring the pause back (resume_invoice).         *)
ParentClosedFirst ==
    children # {} =>
        /\ consumed /\ handles[Original].state = "CANCELLED"
        /\ \A h \in DOMAIN handles : Exists(h) => ~LivePause(h)
=============================================================================
