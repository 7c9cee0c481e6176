---------------------------- MODULE PauseProofs ----------------------------
(***************************************************************************)
(* With one caller at a time, and any number of copies, edits and          *)
(* serializations, a pause takes one decision and its run ends with it.    *)
(* Without a lock nothing of this holds for two callers: that is what the  *)
(* hypothesis OneCaller marks.                                             *)
(***************************************************************************)
EXTENDS PauseHandles, TLAPS

OneCaller == \A c, d \in Callers : c = d

(* The state of the run that paused.                                       *)
State == handles[Original].state

HandlesExist ==
    /\ DOMAIN handles = {Original} \cup Copies
    /\ "state" \in DOMAIN handles[Original]
    /\ calls \in [Callers -> [pc : {"idle", "live", "valid", "consumed", "recorded"},
                              handle : {Original, None},
                              action : HumanActions \cup {None}]]

(* Where a call stands, what it has done so far.                           *)
CallsInOrder ==
    \A c \in Callers :
        /\ calls[c].pc = "idle" => calls[c] = Idle
        /\ calls[c].pc # "idle" => /\ calls[c].handle = Original
                                   /\ calls[c].action \in HumanActions
        /\ calls[c].pc \in {"live", "valid"} => ~consumed
        /\ calls[c].pc = "consumed" => consumed /\ children = {}
        /\ calls[c].pc = "recorded" => consumed /\ State = "CANCELLED"

(* The pause, the decision accepted and the end of the run go together.    *)
DecisionsCounted ==
    /\ consumed \in BOOLEAN
    /\ ~consumed => accepted = <<>> /\ children = {} /\ State \notin Terminal
    /\ consumed => \E a : accepted = <<a>> /\ a.handle = Original
    /\ consumed /\ (\A c \in Callers : calls[c].pc # "consumed") => State \in Terminal
    /\ children # {} => consumed /\ State = "CANCELLED"

PauseInv == HandlesExist /\ CallsInOrder /\ DecisionsCounted

----------------------------------------------------------------------------
LEMMA PauseInitHolds == Init => PauseInv
<1> SUFFICES ASSUME Init PROVE PauseInv
  OBVIOUS
<1>1. PICK state \in Pauses :
        handles = [h \in {Original} \cup Copies |->
                      IF h = Original THEN Handle(state) ELSE None]
  BY DEF Init
<1>2. /\ DOMAIN handles = {Original} \cup Copies
      /\ handles[Original] = Handle(state)
  BY <1>1
<1>3. State = state /\ "state" \in DOMAIN handles[Original]
  BY <1>2 DEF State, Handle
<1>4. State \notin Terminal
  BY <1>3, PausesAssumption DEF Terminal
<1>5. /\ consumed = FALSE /\ accepted = <<>> /\ children = {}
      /\ calls = [c \in Callers |-> Idle]
  BY DEF Init
<1> QED
  BY <1>2, <1>3, <1>4, <1>5
  DEF PauseInv, HandlesExist, CallsInOrder, DecisionsCounted, Idle

(* Holders of copies do not touch the state of the run that paused.        *)
LEMMA EditKeeps ==
    ASSUME PauseInv, NEW h \in DOMAIN handles, Edit(h)
    PROVE  PauseInv'
<1>1. /\ DOMAIN handles' = DOMAIN handles
      /\ State' = State /\ "state" \in DOMAIN handles'[Original]
  BY DEF Edit, PauseInv, HandlesExist, State
<1> QED
  BY <1>1 DEF Edit, PauseInv, HandlesExist, CallsInOrder, DecisionsCounted

LEMMA CopyKeeps ==
    ASSUME PauseInv, NEW h \in DOMAIN handles, NEW copy \in Copies, Copy(h, copy)
    PROVE  PauseInv'
<1>1. /\ DOMAIN handles' = DOMAIN handles
      /\ State' = State /\ "state" \in DOMAIN handles'[Original]
  BY CopiesAssumption DEF Copy, PauseInv, HandlesExist, State
<1> QED
  BY <1>1 DEF Copy, PauseInv, HandlesExist, CallsInOrder, DecisionsCounted

LEMMA CallKeeps ==
    ASSUME PauseInv, OneCaller, NEW c \in Callers, NEW h \in DOMAIN handles,
           NEW action \in HumanActions, Call(c, h, action)
    PROVE  PauseInv'
<1>1. /\ h = Original /\ ~consumed
      /\ calls' = [calls EXCEPT ![c] = [pc |-> "live", handle |-> h, action |-> action]]
      /\ UNCHANGED <<handles, consumed, accepted, children>>
  BY DEF Call, LivePause
<1> QED
  BY <1>1 DEF PauseInv, HandlesExist, CallsInOrder, DecisionsCounted, State

LEMMA ValidateKeeps ==
    ASSUME PauseInv, OneCaller, NEW c \in Callers, Validate(c)
    PROVE  PauseInv'
<1>1. /\ calls[c].pc = "live" /\ UNCHANGED <<handles, consumed, accepted, children>>
      /\ \/ calls' = [calls EXCEPT ![c] = [@ EXCEPT !.pc = "valid"]]
         \/ calls' = [calls EXCEPT ![c] = Idle]
  BY DEF Validate
<1> QED
  BY <1>1
  DEF PauseInv, HandlesExist, CallsInOrder, DecisionsCounted, State, Idle

LEMMA ConsumeKeeps ==
    ASSUME PauseInv, OneCaller, NEW c \in Callers, Consume(c)
    PROVE  PauseInv'
<1>1. /\ calls[c].pc = "valid" /\ ~consumed /\ accepted = <<>> /\ children = {}
      /\ calls[c].handle = Original
  BY DEF Consume, PauseInv, CallsInOrder, DecisionsCounted
<1>2. accepted' = <<[caller |-> c, handle |-> Original, action |-> calls[c].action]>>
  BY <1>1 DEF Consume
<1> QED
  BY <1>1, <1>2
  DEF Consume, OneCaller, PauseInv, HandlesExist, CallsInOrder, DecisionsCounted, State

LEMMA RecordKeeps ==
    ASSUME PauseInv, OneCaller, NEW c \in Callers, Record(c)
    PROVE  PauseInv'
<1>1. /\ calls[c].pc = "consumed" /\ calls[c].handle = Original
      /\ consumed /\ children = {} /\ calls[c].action \in HumanActions
  BY DEF Record, PauseInv, CallsInOrder
<1>2. /\ DOMAIN handles' = DOMAIN handles
      /\ State' = ClosedState(calls[c].action)
      /\ "state" \in DOMAIN handles'[Original]
  BY <1>1 DEF Record, Recorded, PauseInv, HandlesExist, State
<1>3. /\ State' \in Terminal
      /\ HasChild(calls[c].action) => State' = "CANCELLED"
  BY <1>2 DEF ClosedState, HasChild, Terminal
<1>4. /\ UNCHANGED <<consumed, accepted, children>>
      /\ calls' = [calls EXCEPT ![c] = IF HasChild(calls[c].action)
                                       THEN [@ EXCEPT !.pc = "recorded"] ELSE Idle]
  BY DEF Record
<1> QED
  BY <1>1, <1>2, <1>3, <1>4
  DEF OneCaller, PauseInv, HandlesExist, CallsInOrder, DecisionsCounted, Idle

LEMMA DispatchKeeps ==
    ASSUME PauseInv, OneCaller, NEW c \in Callers, Dispatch(c)
    PROVE  PauseInv'
<1>1. calls[c].pc = "recorded" /\ consumed /\ State = "CANCELLED"
  BY DEF Dispatch, PauseInv, CallsInOrder
<1>2. /\ calls' = [calls EXCEPT ![c] = Idle]
      /\ State' = State /\ UNCHANGED <<handles, consumed, accepted>>
  BY DEF Dispatch, State
<1> QED
  BY <1>1, <1>2
  DEF OneCaller, PauseInv, HandlesExist, CallsInOrder, DecisionsCounted, Idle, Terminal

LEMMA PauseStepKeeps ==
    ASSUME PauseInv, OneCaller, [Next]_vars
    PROVE  PauseInv'
<1>1. CASE UNCHANGED vars
  BY <1>1 DEF vars, PauseInv, HandlesExist, CallsInOrder, DecisionsCounted, State
<1> QED
  BY <1>1, EditKeeps, CopyKeeps, CallKeeps, ValidateKeeps, ConsumeKeeps, RecordKeeps,
     DispatchKeeps DEF Next

LEMMA PauseInvariant ==
    ASSUME OneCaller
    PROVE  Spec => []PauseInv
BY PauseInitHolds, PauseStepKeeps, PTL DEF Spec

----------------------------------------------------------------------------
(* A pause takes one decision, whatever is copied, serialized and edited   *)
(* between the calls of one caller (_live_pause).                          *)
THEOREM PauseIsSingleUse ==
    ASSUME OneCaller
    PROVE  Spec => []SingleUse
<1>1. PauseInv => SingleUse
  BY DEF PauseInv, DecisionsCounted, SingleUse
<1> QED
  BY <1>1, PauseInvariant, PTL

(* The decision is recorded in the run that paused, never in a copy, and   *)
(* between calls that run has ended exactly when it has been decided       *)
(* (_PauseContext, resume_invoice).                                        *)
THEOREM DecisionAlwaysEndsTheRun ==
    ASSUME OneCaller
    PROVE  Spec => []DecisionEndsTheRun
<1>1. PauseInv => DecisionEndsTheRun
  BY DEF PauseInv, HandlesExist, DecisionsCounted, DecisionEndsTheRun, AllIdle, Idle,
         State
<1> QED
  BY <1>1, PauseInvariant, PTL

(* A child executes only after its parent is consumed and closed           *)
(* (resume_invoice).                                                       *)
THEOREM ParentAlwaysClosedFirst ==
    ASSUME OneCaller
    PROVE  Spec => []ParentClosedFirst
<1>1. PauseInv => ParentClosedFirst
  BY DEF PauseInv, DecisionsCounted, ParentClosedFirst, LivePause, State
<1> QED
  BY <1>1, PauseInvariant, PTL
=============================================================================
