---------------------------- MODULE TrailProofs ----------------------------
(***************************************************************************)
(* What the event log of an execution proves, for every fixture, limit,    *)
(* number of retries, set of faults and set of orders: which calls were    *)
(* made, who let them pass and what became of them.                        *)
(*                                                                         *)
(* A log only grows at its end.  What is said of an event is therefore     *)
(* said in terms of the events before it, and each handler is shown to     *)
(* append the events that keep it true.                                    *)
(***************************************************************************)
EXTENDS InvoiceProofs, FiniteSetTheorems, SequenceTheorems

----------------------------------------------------------------------------
(* Appending.                                                              *)

Recorded(s) == s \in Seq({s[k] : k \in DOMAIN s})

LEMMA Appending ==
    ASSUME NEW s, NEW e, Recorded(s)
    PROVE  LET t == Append(s, e)
           IN  /\ Recorded(t) /\ Len(s) \in Nat /\ DOMAIN s = 1..Len(s)
               /\ Len(t) = Len(s) + 1 /\ DOMAIN t = 1..(Len(s) + 1)
               /\ \A k \in 1..Len(s) : t[k] = s[k]
               /\ t[Len(s) + 1] = e
<1> DEFINE S == {s[k] : k \in DOMAIN s}
           t == Append(s, e)
           T == {t[k] : k \in DOMAIN t}
<1>1. s \in Seq(S \cup {e}) /\ e \in S \cup {e} /\ s \in Seq(S)
  BY DEF Recorded
<1>2. /\ t \in Seq(S \cup {e}) /\ Len(t) = Len(s) + 1
      /\ \A k \in 1..Len(s) : t[k] = s[k]
      /\ t[Len(s) + 1] = e
  BY <1>1
<1>3. /\ Len(s) \in Nat /\ DOMAIN s = 1..Len(s) /\ DOMAIN t = 1..(Len(s) + 1)
  BY <1>1, <1>2
<1>4. t \in Seq(T)
  <2>1. \A k \in 1..Len(t) : t[k] \in T
    BY <1>2, <1>3
  <2> HIDE DEF T
  <2> QED
    BY <1>2, <2>1
<1> QED
  BY <1>2, <1>3, <1>4 DEF Recorded

(* s logs one more event than r, which starts in the state of r and ends   *)
(* in that of s.                                                           *)
Logs(r, s, e) ==
    /\ s.events = Append(r.events, e)
    /\ e.before = r.state /\ e.after = s.state

LEMMA CheckedLog ==
    ASSUME NEW r, NEW p, NEW refusal, DOMAIN r = RunFields
    PROVE  LET s == Checked(r, p, refusal)
           IN  \E e : /\ Logs(r, s, e) /\ e.type = "runtime_policy_check"
                      /\ e.tool = p.tool /\ e.action = s.decision.action
                      /\ e.decision = s.decision.decision
<1> DEFINE d == Result(r, p, refusal)
           s == Checked(r, p, refusal)
           e == [Event("runtime_policy_check", r.state, r.state) EXCEPT
                    !.tool = p.tool, !.action = d.action,
                    !.decision = d.decision, !.code = d.code]
<1>1. /\ s.events = Append(r.events, e) /\ s.state = r.state
      /\ s.decision = d
  BY DEF Checked, Log, RunFields
<1>2. /\ e.type = "runtime_policy_check" /\ e.before = r.state /\ e.after = r.state
      /\ e.tool = p.tool /\ e.action = d.action /\ e.decision = d.decision
  BY DEF Event
<1> HIDE DEF e, s, d
<1> QED
  BY <1>1, <1>2 DEF Logs, s

LEMMA PausedLog ==
    ASSUME NEW r, DOMAIN r = RunFields
    PROVE  \E e : Logs(r, Paused(r), e) /\ e.type = "control_decision"
<1> DEFINE state == IF r.decision.decision = "CLARIFY" THEN "CLARIFICATION_REQUIRED"
                    ELSE "ESCALATION_REQUIRED"
           s == Paused(r)
           e == [Event("control_decision", r.state, state) EXCEPT
                    !.tool = r.proposed.tool, !.action = r.decision.action,
                    !.decision = r.decision.decision, !.code = r.decision.code]
<1>1. s.events = Append(r.events, e) /\ s.state = state
  BY DEF Paused, Log, RunFields
<1>2. e.type = "control_decision" /\ e.before = r.state /\ e.after = state
  BY DEF Event
<1> HIDE DEF e, s, state
<1> QED
  BY <1>1, <1>2 DEF Logs, s

LEMMA StartedLog ==
    ASSUME NEW r, DOMAIN r = RunFields
    PROVE  \E e : /\ Logs(r, Started(r), e) /\ e.type = "tool_call_started"
                  /\ e.tool = r.proposed.tool /\ e.action = r.decision.action
                  /\ e.arguments = r.proposed.arguments
<1> DEFINE s == Started(r)
           e == [Event("tool_call_started", r.state, r.state) EXCEPT
                    !.tool = r.proposed.tool, !.action = r.decision.action,
                    !.arguments = r.proposed.arguments]
<1>1. s.events = Append(r.events, e) /\ s.state = r.state
  BY DEF Started, Log, RunFields
<1>2. /\ e.type = "tool_call_started" /\ e.before = r.state /\ e.after = r.state
      /\ e.tool = r.proposed.tool /\ e.action = r.decision.action
      /\ e.arguments = r.proposed.arguments
  BY DEF Event
<1> HIDE DEF e, s
<1> QED
  BY <1>1, <1>2 DEF Logs, s

LEMMA FailedLog ==
    ASSUME NEW r, NEW code, DOMAIN r = RunFields
    PROVE  \E e : /\ Logs(r, FailedCall(r, code), e) /\ e.type = "tool_call_failed"
                  /\ e.tool = r.proposed.tool /\ e.action = r.decision.action
                  /\ e.code = code
<1> DEFINE s == FailedCall(r, code)
           e == [Event("tool_call_failed", r.state, r.state) EXCEPT
                    !.tool = r.proposed.tool, !.action = r.decision.action, !.code = code]
<1>1. s.events = Append(r.events, e) /\ s.state = r.state
  BY DEF FailedCall, Log, RunFields
<1>2. /\ e.type = "tool_call_failed" /\ e.before = r.state /\ e.after = r.state
      /\ e.tool = r.proposed.tool /\ e.action = r.decision.action /\ e.code = code
  BY DEF Event
<1> HIDE DEF e, s
<1> QED
  BY <1>1, <1>2 DEF Logs, s

LEMMA ScheduledLog ==
    ASSUME NEW r, NEW tool, NEW code, DOMAIN r = RunFields
    PROVE  \E e : /\ Logs(r, ScheduleRetry(r, tool, code), e)
                  /\ e.type = "retry_scheduled"
                  /\ e.code = code /\ e.retry = Attempts(r, tool) + 1
<1> DEFINE s     == ScheduleRetry(r, tool, code)
           max   == StepOf(r.contract.plan, tool).max
           e     == [Event("retry_scheduled", r.state, r.state) EXCEPT
                       !.tool = tool, !.action = r.decision.action, !.code = code,
                       !.retry = Attempts(r, tool) + 1, !.max = max,
                       !.next = Len(r.history)]
<1>1. s.state = r.state
  BY DEF ScheduleRetry, Log, RunFields
<1>2. s.events = Append(r.events, e)
  BY DEF ScheduleRetry, Log, RunFields
<1>3. /\ e.type = "retry_scheduled" /\ e.before = r.state /\ e.after = r.state
      /\ e.code = code /\ e.retry = Attempts(r, tool) + 1
  BY DEF Event
<1> HIDE DEF e, s
<1> QED
  BY <1>1, <1>2, <1>3 DEF Logs, s

LEMMA CompletedLog ==
    ASSUME NEW r, NEW output, DOMAIN r = RunFields
    PROVE  \E e : /\ Logs(r, CompletedCall(r, output), e) /\ e.type = "tool_call_completed"
                  /\ e.tool = r.proposed.tool /\ e.action = r.decision.action
                  /\ e.output = output
<1> DEFINE s == CompletedCall(r, output)
           e == [Event("tool_call_completed", r.state, r.state) EXCEPT
                    !.tool = r.proposed.tool, !.action = r.decision.action,
                    !.output = output]
<1>1. s.events = Append(r.events, e) /\ s.state = r.state
  BY DEF CompletedCall, Log, RunFields
<1>2. /\ e.type = "tool_call_completed" /\ e.before = r.state /\ e.after = r.state
      /\ e.tool = r.proposed.tool /\ e.action = r.decision.action /\ e.output = output
  BY DEF Event
<1> HIDE DEF e, s
<1> QED
  BY <1>1, <1>2 DEF Logs, s

(* The event that ends a run carries the reason of its outcome.            *)
LEMMA ClosedLog ==
    ASSUME NEW r, NEW outcome, DOMAIN r = RunFields
    PROVE  \E e : /\ Logs(r, Close(r, outcome), e)
                  /\ e.type = IF outcome.status = "COMPLETED" THEN "run_completed"
                              ELSE "run_failed"
                  /\ e.code = outcome.reason
<1> DEFINE type == IF outcome.status = "COMPLETED" THEN "run_completed" ELSE "run_failed"
           s == Close(r, outcome)
           e == [Event(type, r.state, outcome.status) EXCEPT !.code = outcome.reason]
<1>1. s.events = Append(r.events, e) /\ s.state = outcome.status
  BY DEF Close, Log, RunFields
<1>2. /\ e.type = type /\ e.before = r.state /\ e.after = outcome.status
      /\ e.code = outcome.reason
  BY DEF Event
<1> HIDE DEF e, s, type
<1> QED
  BY <1>1, <1>2 DEF Logs, s, type

LEMMA EnteredLog ==
    ASSUME NEW r, NEW type, NEW state, DOMAIN r = RunFields
    PROVE  /\ Differs(r, Enter(r, type, state), {"events", "state"})
           /\ \E e : Logs(r, Enter(r, type, state), e) /\ e.type = type
<1> DEFINE s == Enter(r, type, state)
           e == Event(type, r.state, state)
<1>1. s.events = Append(r.events, e) /\ s.state = state
  BY DEF Enter, Log, RunFields
<1>2. e.type = type /\ e.before = r.state /\ e.after = state
  BY DEF Event
<1>3. Differs(r, s, {"events", "state"})
  BY DEF Enter, Log, RunFields, Differs
<1> HIDE DEF e, s
<1> QED
  BY <1>1, <1>2, <1>3 DEF Logs, s

LEMMA JudgedLog ==
    ASSUME NEW r, NEW state, DOMAIN r = RunFields
    PROVE  /\ Differs(r, Judged(r, state), {"events", "state"})
           /\ \E e : Logs(r, Judged(r, state), e) /\ e.type = "control_decision"
<1> DEFINE s == Judged(r, state)
           e == [Event("control_decision", r.state, state) EXCEPT
                   !.decision = r.contract.gateA.decision, !.code = r.contract.gateA.code]
<1>1. s.events = Append(r.events, e) /\ s.state = state
  BY DEF Judged, Log, RunFields
<1>2. e.type = "control_decision" /\ e.before = r.state /\ e.after = state
  BY DEF Event
<1>3. Differs(r, s, {"events", "state"})
  BY DEF Judged, Log, RunFields, Differs
<1> HIDE DEF e, s
<1> QED
  BY <1>1, <1>2, <1>3 DEF Logs, s

----------------------------------------------------------------------------
(* Counting events.                                                        *)

Typed(r, type) == {k \in DOMAIN r.events : r.events[k].type = type}

Earlier(r, type, k) == {j \in Typed(r, type) : j < k}

LEMMA Counted ==
    ASSUME NEW r, NEW type, Recorded(r.events)
    PROVE  /\ IsFiniteSet(Typed(r, type)) /\ Cardinality(Typed(r, type)) \in Nat
           /\ \A k \in DOMAIN r.events : /\ IsFiniteSet(Earlier(r, type, k))
                                         /\ Cardinality(Earlier(r, type, k)) \in Nat
<1>1. DOMAIN r.events = 1..Len(r.events) /\ Len(r.events) \in Nat
  BY DEF Recorded
<1>2. IsFiniteSet(1..Len(r.events))
  BY <1>1, FS_Interval
<1>3. IsFiniteSet(Typed(r, type))
  BY <1>1, <1>2, FS_Subset DEF Typed
<1>4. \A k : Earlier(r, type, k) \subseteq Typed(r, type)
  BY DEF Earlier
<1>5. \A k \in DOMAIN r.events : IsFiniteSet(Earlier(r, type, k))
  BY <1>3, <1>4, FS_Subset
<1> QED
  BY <1>3, <1>5, FS_CardinalityType

(* One more event is one more of its own type, and earlier than none.      *)
Is(e, type) == e.type = type

LEMMA Grown ==
    ASSUME NEW r, NEW s, NEW e, NEW type, Recorded(r.events), Logs(r, s, e)
    PROVE  LET n == Len(r.events)
           IN  /\ n \in Nat /\ DOMAIN r.events = 1..n /\ n + 1 \notin 1..n
               /\ Typed(r, type) \subseteq 1..n
               /\ ~Is(e, type) => Typed(s, type) = Typed(r, type)
               /\ Is(e, type) => Typed(s, type) = Typed(r, type) \cup {n + 1}
<1> DEFINE n == Len(r.events)
<1>1. /\ n \in Nat /\ DOMAIN r.events = 1..n /\ DOMAIN s.events = 1..(n + 1)
      /\ \A k \in 1..n : s.events[k] = r.events[k]
      /\ s.events[n + 1] = e
  BY Appending DEF Logs
<1> HIDE DEF n
<1>2. \A k : k \in 1..(n + 1) <=> k \in 1..n \/ k = n + 1
  BY <1>1
<1>3. n + 1 \notin 1..n
  BY <1>1
<1>4. Typed(r, type) \subseteq 1..n
  BY <1>1 DEF Typed
<1>5. ~Is(e, type) => Typed(s, type) = Typed(r, type)
  BY <1>1, <1>2, <1>3 DEF Typed, Is
<1>6. Is(e, type) => Typed(s, type) = Typed(r, type) \cup {n + 1}
  BY <1>1, <1>2, <1>3 DEF Typed, Is
<1> QED
  BY <1>1, <1>3, <1>4, <1>5, <1>6 DEF n

LEMMA TypedStands ==
    ASSUME NEW r, NEW s, NEW e, NEW type, Recorded(r.events), Logs(r, s, e),
           ~Is(e, type)
    PROVE  Typed(s, type) = Typed(r, type)
BY Grown

LEMMA TypedGrows ==
    ASSUME NEW r, NEW s, NEW e, NEW type, Recorded(r.events), Logs(r, s, e),
           Is(e, type)
    PROVE  /\ Typed(s, type) = Typed(r, type) \cup {Len(r.events) + 1}
           /\ Cardinality(Typed(s, type)) = Cardinality(Typed(r, type)) + 1
<1> DEFINE n == Len(r.events)
<1>1. Typed(s, type) = Typed(r, type) \cup {n + 1}
  BY Grown
<1>2. n + 1 \notin Typed(r, type)
  BY Grown
<1>3. IsFiniteSet(Typed(r, type))
  BY Counted
<1> HIDE DEF n
<1>4. Cardinality(Typed(s, type)) = Cardinality(Typed(r, type)) + 1
  BY <1>1, <1>2, <1>3, FS_AddElement
<1> QED
  BY <1>1, <1>4 DEF n

LEMMA EarlierStands ==
    ASSUME NEW r, NEW s, NEW e, NEW type, Recorded(r.events), Logs(r, s, e)
    PROVE  \A k \in DOMAIN r.events : Earlier(s, type, k) = Earlier(r, type, k)
<1> DEFINE n == Len(r.events)
<1>1. /\ n \in Nat /\ DOMAIN r.events = 1..n
      /\ Typed(s, type) = Typed(r, type) \/ Typed(s, type) = Typed(r, type) \cup {n + 1}
  BY Grown
<1> HIDE DEF n
<1> QED
  BY <1>1 DEF Earlier

LEMMA EarlierThanLast ==
    ASSUME NEW r, NEW s, NEW e, NEW type, Recorded(r.events), Logs(r, s, e)
    PROVE  Earlier(s, type, Len(r.events) + 1) = Typed(r, type)
<1> DEFINE n == Len(r.events)
<1>1. /\ n \in Nat /\ Typed(r, type) \subseteq 1..n
      /\ Typed(s, type) = Typed(r, type) \/ Typed(s, type) = Typed(r, type) \cup {n + 1}
  BY Grown
<1> HIDE DEF n
<1>2. Earlier(s, type, n + 1) = Typed(r, type)
  BY <1>1 DEF Earlier
<1> QED
  BY <1>2 DEF n

----------------------------------------------------------------------------
(* What a log is a complete account of.                                    *)

(* Each event starts in the state in which the one before it ended, the    *)
(* first in the state of a new run.                                        *)
Continuous(r) ==
    /\ \A k \in DOMAIN r.events :
          r.events[k].before = IF k = 1 THEN "AWAITING_DECISION"
                               ELSE r.events[k - 1].after
    /\ r.state = IF Len(r.events) = 0 THEN "AWAITING_DECISION"
                 ELSE r.events[Len(r.events)].after

(* The history is the actions of the calls, in the order of their events.  *)
HistoryLogged(r) ==
    /\ r.history \in Seq(Nat)
    /\ Len(r.history) = Cardinality(Typed(r, "tool_call_started"))
    /\ \A k \in Typed(r, "tool_call_started") :
          LET before == Cardinality(Earlier(r, "tool_call_started", k))
          IN  /\ before < Len(r.history)
              /\ r.history[before + 1] = r.events[k].action

(* The evidence is the outputs of the calls that completed, which are those *)
(* of a prefix of the plan.                                                *)
EvidenceLogged(r) ==
    LET ends == Typed(r, "tool_call_completed")
    IN  /\ DOMAIN r.evidence = {r.events[k].tool : k \in ends}
        /\ \A k \in ends : r.evidence[r.events[k].tool] = r.events[k].output
        /\ \E m \in 0..6 : DOMAIN r.evidence = Prefix(m) /\ Cardinality(ends) = m

(* A call was the next tool's, its arguments were what the contract and the *)
(* evidence of the tools before it determine, and Gate B let it pass.      *)
CallsApproved(r) ==
    \A k \in Typed(r, "tool_call_started") :
        LET before == Cardinality(Earlier(r, "tool_call_completed", k))
            tool   == InvoiceTools[before + 1]
            check  == r.events[k - 1]
        IN  /\ before \in 0..5 /\ Prefix(before) \subseteq DOMAIN r.evidence
            /\ r.events[k].tool = tool
            /\ r.events[k].arguments = Arguments(r, tool)
            /\ k - 1 \in DOMAIN r.events
            /\ check.type = "runtime_policy_check" /\ check.decision = "APPROVE"
            /\ check.tool = tool /\ check.action = r.events[k].action

Account(r) ==
    /\ DOMAIN r = RunFields /\ Recorded(r.events)
    /\ Continuous(r) /\ HistoryLogged(r) /\ EvidenceLogged(r) /\ CallsApproved(r)

LEMMA ContinuousGrows ==
    ASSUME NEW r, NEW s, NEW e, Recorded(r.events), Continuous(r), Logs(r, s, e)
    PROVE  Continuous(s) /\ Recorded(s.events)
<1> DEFINE n == Len(r.events)
<1>1. /\ n \in Nat /\ DOMAIN r.events = 1..n /\ DOMAIN s.events = 1..(n + 1)
      /\ \A k \in 1..n : s.events[k] = r.events[k]
      /\ s.events[n + 1] = e /\ Len(s.events) = n + 1 /\ Recorded(s.events)
  BY Appending DEF Logs
<1>2. e.before = r.state /\ e.after = s.state
  BY DEF Logs
<1>3. r.state = IF n = 0 THEN "AWAITING_DECISION" ELSE r.events[n].after
  BY DEF Continuous
<1>4. \A k \in 1..n : r.events[k].before = IF k = 1 THEN "AWAITING_DECISION"
                                            ELSE r.events[k - 1].after
  BY <1>1 DEF Continuous
<1> HIDE DEF n
<1>5. ASSUME NEW k \in 1..(n + 1)
      PROVE  s.events[k].before = IF k = 1 THEN "AWAITING_DECISION"
                                  ELSE s.events[k - 1].after
  <2>1. CASE k \in 1..n
    <3>1. k = 1 \/ k - 1 \in 1..n
      BY <1>1, <2>1
    <3> QED
      BY <1>1, <1>4, <2>1, <3>1
  <2>2. CASE k = n + 1
    <3>1. k = 1 <=> n = 0
      BY <1>1, <2>2
    <3>2. n # 0 => n \in 1..n /\ k - 1 = n
      BY <1>1, <2>2
    <3> QED
      BY <1>1, <1>2, <1>3, <2>2, <3>1, <3>2
  <2> QED
    BY <1>1, <1>5, <2>1, <2>2
<1>6. Len(s.events) # 0 /\ s.events[Len(s.events)].after = s.state
  BY <1>1, <1>2
<1> QED
  BY <1>1, <1>5, <1>6 DEF Continuous

(* The arguments of a tool depend on the evidence that it requires only.   *)
LEMMA ArgumentsStand ==
    ASSUME NEW r, NEW s, NEW k \in 0..5, s.contract = r.contract,
           Prefix(k) \subseteq DOMAIN r.evidence,
           \A t \in DOMAIN r.evidence : s.evidence[t] = r.evidence[t]
    PROVE  Arguments(s, InvoiceTools[k + 1]) = Arguments(r, InvoiceTools[k + 1])
<1> DEFINE tool == InvoiceTools[k + 1]
<1>1. \/ tool = "inspect_invoice"
      \/ s.evidence["inspect_invoice"] = r.evidence["inspect_invoice"]
  <2>1. k = 0 => tool = "inspect_invoice"
    BY DEF InvoiceTools
  <2>2. k # 0 => InvoiceTools[1] \in Prefix(k)
    BY DEF Prefix
  <2>3. InvoiceTools[1] = "inspect_invoice"
    BY DEF InvoiceTools
  <2> QED
    BY <2>1, <2>2, <2>3
<1>2. tool = "stage_payment" =>
         s.evidence["lookup_purchase_order"] = r.evidence["lookup_purchase_order"]
  <2>1. ASSUME tool = "stage_payment" PROVE k = 5
    <3>1. k + 1 \in 1..6 /\ InvoiceTools[k + 1] = InvoiceTools[6]
      BY <2>1, ToolsDiffer
    <3> QED
      BY <3>1, ToolsDiffer
  <2>2. k = 5 => InvoiceTools[3] \in Prefix(k)
    BY DEF Prefix
  <2>3. InvoiceTools[3] = "lookup_purchase_order"
    BY DEF InvoiceTools
  <2> QED
    BY <2>1, <2>2, <2>3
<1> HIDE DEF tool
<1>3. \/ tool = "inspect_invoice"
      \/ tool # "inspect_invoice"
  OBVIOUS
<1>4. Arguments(s, tool) = Arguments(r, tool)
  BY <1>1, <1>2 DEF Arguments
<1> QED
  BY <1>4 DEF tool

(* An event that neither starts nor completes a call.                      *)
LEMMA QuietAccount ==
    ASSUME NEW r, NEW s, NEW e, Account(r), Logs(r, s, e), DOMAIN s = RunFields,
           s.contract = r.contract, s.history = r.history, s.evidence = r.evidence,
           ~Is(e, "tool_call_started"), ~Is(e, "tool_call_completed")
    PROVE  Account(s)
<1> DEFINE n == Len(r.events)
           starts == "tool_call_started"
           ends   == "tool_call_completed"
<1>1. Recorded(s.events) /\ Continuous(s)
  BY ContinuousGrows DEF Account
<1>2. /\ n \in Nat /\ DOMAIN r.events = 1..n /\ DOMAIN s.events = 1..(n + 1)
      /\ \A k \in 1..n : s.events[k] = r.events[k]
  BY Appending DEF Logs, Account
<1>3. /\ Typed(s, starts) = Typed(r, starts) /\ Typed(s, ends) = Typed(r, ends)
      /\ \A k \in 1..n : /\ Earlier(s, starts, k) = Earlier(r, starts, k)
                         /\ Earlier(s, ends, k) = Earlier(r, ends, k)
  <2>1. Recorded(r.events)
    BY DEF Account
  <2>2. Typed(s, starts) = Typed(r, starts) /\ Typed(s, ends) = Typed(r, ends)
    BY <2>1, TypedStands
  <2>3. \A type : \A k \in DOMAIN r.events : Earlier(s, type, k) = Earlier(r, type, k)
    BY <2>1, EarlierStands
  <2> QED
    BY <1>2, <2>2, <2>3
<1>4. Typed(r, starts) \subseteq 1..n /\ Typed(r, ends) \subseteq 1..n
  BY <1>2 DEF Typed
<1> HIDE DEF n, starts, ends
<1>5. HistoryLogged(s)
  BY <1>2, <1>3, <1>4 DEF Account, HistoryLogged, starts
<1>6. EvidenceLogged(s)
  <2>1. \A k \in Typed(s, ends) : s.events[k] = r.events[k]
    BY <1>2, <1>3, <1>4
  <2>2. Typed(s, ends) = Typed(r, ends)
    BY <1>3
  <2>3. /\ DOMAIN r.evidence = {r.events[k].tool : k \in Typed(r, ends)}
        /\ \A k \in Typed(r, ends) : r.evidence[r.events[k].tool] = r.events[k].output
        /\ \E m \in 0..6 : /\ DOMAIN r.evidence = Prefix(m)
                           /\ Cardinality(Typed(r, ends)) = m
    BY DEF Account, EvidenceLogged, ends
  <2>4. {s.events[k].tool : k \in Typed(s, ends)} = {r.events[k].tool : k \in Typed(r, ends)}
    BY <2>1, <2>2
  <2>5. \A k \in Typed(s, ends) : s.evidence[s.events[k].tool] = s.events[k].output
    BY <2>1, <2>2, <2>3
  <2> QED
    BY <2>2, <2>3, <2>4, <2>5 DEF EvidenceLogged, ends
<1>7. CallsApproved(s)
  <2> SUFFICES ASSUME NEW k \in Typed(s, starts)
               PROVE  LET before == Cardinality(Earlier(s, ends, k))
                          tool   == InvoiceTools[before + 1]
                          check  == s.events[k - 1]
                      IN  /\ before \in 0..5 /\ Prefix(before) \subseteq DOMAIN s.evidence
                          /\ s.events[k].tool = tool
                          /\ s.events[k].arguments = Arguments(s, tool)
                          /\ k - 1 \in DOMAIN s.events
                          /\ check.type = "runtime_policy_check" /\ check.decision = "APPROVE"
                          /\ check.tool = tool /\ check.action = s.events[k].action
    BY DEF CallsApproved, starts, ends
  <2> DEFINE before == Cardinality(Earlier(r, ends, k))
             tool   == InvoiceTools[before + 1]
             check  == r.events[k - 1]
  <2>1. k \in 1..n /\ k \in Typed(r, starts) /\ s.events[k] = r.events[k]
    BY <1>2, <1>3, <1>4
  <2>2. /\ before \in 0..5 /\ Prefix(before) \subseteq DOMAIN r.evidence
        /\ r.events[k].tool = tool
        /\ r.events[k].arguments = Arguments(r, tool)
        /\ k - 1 \in DOMAIN r.events
        /\ check.type = "runtime_policy_check" /\ check.decision = "APPROVE"
        /\ check.tool = tool /\ check.action = r.events[k].action
    BY <2>1 DEF Account, CallsApproved, starts, ends
  <2>3. Earlier(s, ends, k) = Earlier(r, ends, k)
    BY <1>3, <2>1
  <2>4. k - 1 \in DOMAIN s.events /\ s.events[k - 1] = r.events[k - 1]
    BY <1>2, <2>2
  <2> HIDE DEF before
  <2>5. Arguments(s, tool) = Arguments(r, tool)
    BY <2>2, ArgumentsStand
  <2> QED
    BY <2>1, <2>2, <2>3, <2>4, <2>5 DEF before
<1> QED
  BY <1>1, <1>5, <1>6, <1>7 DEF Account

(* An approved call starts: the check that approved it is the last event.  *)
LEMMA StartedAccount ==
    ASSUME NEW r, NEW m \in 0..5, Account(r), Len(r.events) # 0,
           LET check == r.events[Len(r.events)]
           IN  /\ check.type = "runtime_policy_check" /\ check.decision = "APPROVE"
               /\ check.tool = r.proposed.tool /\ check.action = r.decision.action,
           r.proposed.tool = InvoiceTools[m + 1], DOMAIN r.evidence = Prefix(m),
           Cardinality(Typed(r, "tool_call_completed")) = m,
           r.proposed.arguments = Arguments(r, r.proposed.tool),
           r.decision.action \in Nat
    PROVE  Account(Started(r))
<1> DEFINE n == Len(r.events)
           s == Started(r)
           starts == "tool_call_started"
           ends   == "tool_call_completed"
<1>1. Differs(r, s, {"events", "history"}) /\ s.history = Append(r.history, r.decision.action)
  BY StartedShape DEF Account
<1>2. PICK e : /\ Logs(r, s, e) /\ e.type = starts
               /\ e.tool = r.proposed.tool /\ e.action = r.decision.action
               /\ e.arguments = r.proposed.arguments
  BY StartedLog DEF Account
<1> HIDE DEF s
<1>3. DOMAIN s = RunFields /\ s.contract = r.contract /\ s.evidence = r.evidence
  BY <1>1 DEF Differs, RunFields
<1>4. Recorded(s.events) /\ Continuous(s)
  BY <1>2, ContinuousGrows DEF Account
<1>5. /\ n \in Nat /\ n # 0 /\ DOMAIN r.events = 1..n /\ DOMAIN s.events = 1..(n + 1)
      /\ \A k \in 1..n : s.events[k] = r.events[k]
      /\ s.events[n + 1] = e
  BY <1>2, Appending DEF Logs, Account
<1>6. /\ Typed(s, starts) = Typed(r, starts) \cup {n + 1}
      /\ Cardinality(Typed(s, starts)) = Cardinality(Typed(r, starts)) + 1
      /\ Typed(s, ends) = Typed(r, ends)
      /\ \A k \in 1..n : /\ Earlier(s, starts, k) = Earlier(r, starts, k)
                         /\ Earlier(s, ends, k) = Earlier(r, ends, k)
      /\ Earlier(s, starts, n + 1) = Typed(r, starts)
      /\ Earlier(s, ends, n + 1) = Typed(r, ends)
  <2>1. Recorded(r.events) /\ Logs(r, s, e)
    BY <1>2 DEF Account
  <2>2. Is(e, starts) /\ ~Is(e, ends)
    BY <1>2 DEF Is
  <2>3. /\ Typed(s, starts) = Typed(r, starts) \cup {n + 1}
        /\ Cardinality(Typed(s, starts)) = Cardinality(Typed(r, starts)) + 1
    BY <2>1, <2>2, TypedGrows
  <2>4. Typed(s, ends) = Typed(r, ends)
    BY <2>1, <2>2, TypedStands
  <2>5. \A type : \A k \in DOMAIN r.events : Earlier(s, type, k) = Earlier(r, type, k)
    BY <2>1, EarlierStands
  <2>6. \A type : Earlier(s, type, n + 1) = Typed(r, type)
    BY <2>1, EarlierThanLast
  <2> QED
    BY <1>5, <2>3, <2>4, <2>5, <2>6
<1>7. Typed(r, starts) \subseteq 1..n /\ Typed(r, ends) \subseteq 1..n
  BY <1>5 DEF Typed
<1> HIDE DEF n
<1>8. HistoryLogged(s)
  <2> DEFINE h == Len(r.history)
  <2>1. /\ r.history \in Seq(Nat) /\ h = Cardinality(Typed(r, starts)) /\ h \in Nat
        /\ \A k \in Typed(r, starts) :
              LET before == Cardinality(Earlier(r, starts, k))
              IN  before < h /\ r.history[before + 1] = r.events[k].action
    BY DEF Account, HistoryLogged
  <2>2. /\ s.history \in Seq(Nat) /\ Len(s.history) = h + 1
        /\ s.history[h + 1] = e.action
        /\ \A i \in 1..h : s.history[i] = r.history[i]
    BY <1>1, <1>2, <2>1
  <2> HIDE DEF h
  <2>3. ASSUME NEW k \in Typed(s, starts)
        PROVE  LET before == Cardinality(Earlier(s, starts, k))
               IN  before < Len(s.history) /\ s.history[before + 1] = s.events[k].action
    <3>1. CASE k = n + 1
      BY <1>5, <1>6, <2>1, <2>2, <3>1
    <3>2. CASE k \in Typed(r, starts)
      <4> DEFINE before == Cardinality(Earlier(r, starts, k))
      <4>1. before \in Nat /\ k \in DOMAIN r.events
        BY <1>5, <1>7, <3>2, Counted DEF Account
      <4>2. before < h /\ r.history[before + 1] = r.events[k].action
        BY <2>1, <3>2
      <4>3. Earlier(s, starts, k) = Earlier(r, starts, k) /\ s.events[k] = r.events[k]
        BY <1>5, <1>6, <1>7, <3>2
      <4> HIDE DEF before
      <4>4. before + 1 \in 1..h /\ before < h + 1
        BY <2>1, <4>1, <4>2
      <4> QED
        BY <2>2, <4>2, <4>3, <4>4 DEF before
    <3> QED
      BY <1>6, <3>1, <3>2
  <2> QED
    BY <1>6, <2>1, <2>2, <2>3 DEF HistoryLogged, starts
<1>9. EvidenceLogged(s)
  <2>1. \A k \in Typed(s, ends) : s.events[k] = r.events[k] /\ k \in Typed(r, ends)
    BY <1>5, <1>6, <1>7
  <2> QED
    BY <1>3, <1>6, <2>1 DEF Account, EvidenceLogged, ends
<1>10. CallsApproved(s)
  <2>1. ASSUME NEW k \in Typed(s, starts)
        PROVE  LET before == Cardinality(Earlier(s, ends, k))
                   tool   == InvoiceTools[before + 1]
                   check  == s.events[k - 1]
               IN  /\ before \in 0..5 /\ Prefix(before) \subseteq DOMAIN s.evidence
                   /\ s.events[k].tool = tool
                   /\ s.events[k].arguments = Arguments(s, tool)
                   /\ k - 1 \in DOMAIN s.events
                   /\ check.type = "runtime_policy_check" /\ check.decision = "APPROVE"
                   /\ check.tool = tool /\ check.action = s.events[k].action
    <3>1. CASE k \in Typed(r, starts)
      <4> DEFINE before == Cardinality(Earlier(r, ends, k))
                 tool   == InvoiceTools[before + 1]
                 check  == r.events[k - 1]
      <4>1. k \in 1..n /\ s.events[k] = r.events[k]
        BY <1>5, <1>7, <3>1
      <4>2. /\ before \in 0..5 /\ Prefix(before) \subseteq DOMAIN r.evidence
            /\ r.events[k].tool = tool
            /\ r.events[k].arguments = Arguments(r, tool)
            /\ k - 1 \in DOMAIN r.events
            /\ check.type = "runtime_policy_check" /\ check.decision = "APPROVE"
            /\ check.tool = tool /\ check.action = r.events[k].action
        BY <3>1 DEF Account, CallsApproved
      <4>3. Earlier(s, ends, k) = Earlier(r, ends, k)
        BY <1>6, <4>1
      <4>4. k - 1 \in DOMAIN s.events /\ s.events[k - 1] = r.events[k - 1]
        BY <1>5, <4>2
      <4> HIDE DEF before
      <4>5. Arguments(s, tool) = Arguments(r, tool)
        BY <1>3, <4>2, ArgumentsStand
      <4> QED
        BY <1>3, <4>1, <4>2, <4>3, <4>4, <4>5 DEF before
    <3>2. CASE k = n + 1
      <4>1. k - 1 = n /\ n \in DOMAIN s.events /\ s.events[n] = r.events[n]
        BY <1>5, <3>2
      <4>2. Cardinality(Earlier(s, ends, k)) = m
        BY <1>6, <3>2
      <4>3. Arguments(s, InvoiceTools[m + 1]) = Arguments(r, InvoiceTools[m + 1])
        BY <1>3, ArgumentsStand
      <4> QED
        BY <1>2, <1>3, <1>5, <3>2, <4>1, <4>2, <4>3 DEF n
    <3> QED
      BY <1>6, <2>1, <3>1, <3>2
  <2> QED
    BY <2>1 DEF CallsApproved, starts, ends
<1> QED
  BY <1>3, <1>4, <1>8, <1>9, <1>10 DEF Account, s

(* A prefix of the plan has its length.                                    *)
LEMMA PrefixesDiffer ==
    ASSUME NEW a \in 0..6, NEW b \in 0..6, Prefix(a) = Prefix(b)
    PROVE  a = b
<1>1. ASSUME NEW i \in 0..6, NEW j \in 0..6, i < j
      PROVE  Prefix(i) # Prefix(j)
  <2>1. j \in 1..6 /\ InvoiceTools[j] \in Prefix(j)
    BY <1>1 DEF Prefix
  <2>2. \A l \in 1..i : l \in 1..6 /\ l # j
    BY <1>1
  <2>3. InvoiceTools[j] \notin Prefix(i)
    BY <2>1, <2>2, ToolsDiffer DEF Prefix
  <2> QED
    BY <2>1, <2>3
<1> QED
  BY <1>1

LEMMA AnsweredCount ==
    ASSUME NEW r, NEW m \in 0..6, Account(r), DOMAIN r.evidence = Prefix(m)
    PROVE  Cardinality(Typed(r, "tool_call_completed")) = m
<1>1. PICK k \in 0..6 : /\ DOMAIN r.evidence = Prefix(k)
                       /\ Cardinality(Typed(r, "tool_call_completed")) = k
  BY DEF Account, EvidenceLogged
<1> QED
  BY <1>1, PrefixesDiffer

(* The plan's next tool answers.                                           *)
LEMMA CompletedAccount ==
    ASSUME NEW r, NEW output, NEW m \in 0..5, Account(r),
           r.proposed.tool = InvoiceTools[m + 1], DOMAIN r.evidence = Prefix(m)
    PROVE  Account(CompletedCall(r, output))
<1> DEFINE n == Len(r.events)
           s == CompletedCall(r, output)
           tool   == r.proposed.tool
           starts == "tool_call_started"
           ends   == "tool_call_completed"
<1>1. /\ Differs(r, s, {"events", "evidence", "observations", "retry"})
      /\ s.evidence = Put(r.evidence, tool, output)
  BY CompletedCallShape DEF Account
<1>2. PICK e : /\ Logs(r, s, e) /\ e.type = ends /\ e.tool = tool /\ e.output = output
  BY CompletedLog DEF Account
<1> HIDE DEF s
<1>3. DOMAIN s = RunFields /\ s.contract = r.contract /\ s.history = r.history
  BY <1>1 DEF Differs, RunFields
<1>4. Recorded(s.events) /\ Continuous(s) /\ Recorded(r.events)
  BY <1>2, ContinuousGrows DEF Account
<1>5. /\ n \in Nat /\ DOMAIN r.events = 1..n /\ DOMAIN s.events = 1..(n + 1)
      /\ \A k \in 1..n : s.events[k] = r.events[k]
      /\ s.events[n + 1] = e /\ n + 1 \notin 1..n
  BY <1>2, <1>4, Appending DEF Logs
<1>6. /\ Typed(s, ends) = Typed(r, ends) \cup {n + 1}
      /\ Cardinality(Typed(s, ends)) = Cardinality(Typed(r, ends)) + 1
      /\ Typed(s, starts) = Typed(r, starts)
      /\ \A k \in 1..n : /\ Earlier(s, starts, k) = Earlier(r, starts, k)
                         /\ Earlier(s, ends, k) = Earlier(r, ends, k)
  <2>1. Is(e, ends) /\ ~Is(e, starts)
    BY <1>2 DEF Is
  <2>2. /\ Typed(s, ends) = Typed(r, ends) \cup {n + 1}
        /\ Cardinality(Typed(s, ends)) = Cardinality(Typed(r, ends)) + 1
    BY <1>2, <1>4, <2>1, TypedGrows
  <2>3. Typed(s, starts) = Typed(r, starts)
    BY <1>2, <1>4, <2>1, TypedStands
  <2>4. \A type : \A k \in DOMAIN r.events : Earlier(s, type, k) = Earlier(r, type, k)
    BY <1>2, <1>4, EarlierStands
  <2> QED
    BY <1>5, <2>2, <2>3, <2>4
<1>7. Typed(r, starts) \subseteq 1..n /\ Typed(r, ends) \subseteq 1..n
  BY <1>5 DEF Typed
<1>8. /\ tool \notin DOMAIN r.evidence
      /\ DOMAIN s.evidence = DOMAIN r.evidence \cup {tool}
      /\ s.evidence[tool] = output
      /\ \A t \in DOMAIN r.evidence : s.evidence[t] = r.evidence[t]
  <2>1. tool \notin DOMAIN r.evidence
    BY PrefixesGrow
  <2> HIDE DEF tool
  <2> QED
    BY <1>1, <2>1 DEF Put
<1>9. DOMAIN s.evidence = Prefix(m + 1) /\ m + 1 \in 0..6
  <2>1. \A k \in 1..(m + 1) : k \in 1..m \/ k = m + 1
    OBVIOUS
  <2>2. Prefix(m + 1) = Prefix(m) \cup {InvoiceTools[m + 1]}
    BY <2>1 DEF Prefix
  <2> QED
    BY <1>8, <2>2
<1> HIDE DEF n, tool
<1>10. HistoryLogged(s)
  <2>1. \A k \in Typed(s, starts) :
           /\ s.events[k] = r.events[k]
           /\ Earlier(s, starts, k) = Earlier(r, starts, k)
    BY <1>5, <1>6, <1>7
  <2> QED
    BY <1>3, <1>6, <2>1 DEF Account, HistoryLogged
<1>11. EvidenceLogged(s)
  <2>1. /\ DOMAIN r.evidence = {r.events[k].tool : k \in Typed(r, ends)}
        /\ \A k \in Typed(r, ends) : r.evidence[r.events[k].tool] = r.events[k].output
    BY DEF Account, EvidenceLogged
  <2>2. Cardinality(Typed(s, ends)) = m + 1
    BY <1>6, AnsweredCount
  <2>3. \A k \in Typed(r, ends) : s.events[k] = r.events[k]
    BY <1>5, <1>7
  <2>4. {s.events[k].tool : k \in Typed(s, ends)}
          = {r.events[k].tool : k \in Typed(r, ends)} \cup {tool}
    BY <1>2, <1>5, <1>6, <2>3
  <2>5. ASSUME NEW k \in Typed(s, ends)
        PROVE  s.evidence[s.events[k].tool] = s.events[k].output
    <3>1. CASE k = n + 1
      BY <1>2, <1>5, <1>8, <3>1
    <3>2. CASE k \in Typed(r, ends)
      <4>1. r.events[k].tool \in DOMAIN r.evidence
        BY <2>1, <3>2
      <4> QED
        BY <1>8, <2>1, <2>3, <3>2, <4>1
    <3> QED
      BY <1>6, <2>5, <3>1, <3>2
  <2> QED
    BY <1>8, <1>9, <2>1, <2>2, <2>4, <2>5 DEF EvidenceLogged
<1>12. CallsApproved(s)
  <2>1. ASSUME NEW k \in Typed(s, starts)
        PROVE  LET before == Cardinality(Earlier(s, ends, k))
                   called == InvoiceTools[before + 1]
                   check  == s.events[k - 1]
               IN  /\ before \in 0..5 /\ Prefix(before) \subseteq DOMAIN s.evidence
                   /\ s.events[k].tool = called
                   /\ s.events[k].arguments = Arguments(s, called)
                   /\ k - 1 \in DOMAIN s.events
                   /\ check.type = "runtime_policy_check" /\ check.decision = "APPROVE"
                   /\ check.tool = called /\ check.action = s.events[k].action
    <3> DEFINE before == Cardinality(Earlier(r, ends, k))
               called == InvoiceTools[before + 1]
               check  == r.events[k - 1]
    <3>1. k \in 1..n /\ s.events[k] = r.events[k] /\ k \in Typed(r, starts)
      BY <1>5, <1>6, <1>7, <2>1
    <3>2. /\ before \in 0..5 /\ Prefix(before) \subseteq DOMAIN r.evidence
          /\ r.events[k].tool = called
          /\ r.events[k].arguments = Arguments(r, called)
          /\ k - 1 \in DOMAIN r.events
          /\ check.type = "runtime_policy_check" /\ check.decision = "APPROVE"
          /\ check.tool = called /\ check.action = r.events[k].action
      BY <3>1 DEF Account, CallsApproved
    <3>3. Earlier(s, ends, k) = Earlier(r, ends, k)
      BY <1>6, <3>1
    <3>4. k - 1 \in DOMAIN s.events /\ s.events[k - 1] = r.events[k - 1]
      BY <1>5, <3>2
    <3> HIDE DEF before
    <3>5. Arguments(s, called) = Arguments(r, called)
      BY <1>3, <1>8, <3>2, ArgumentsStand
    <3> QED
      BY <1>8, <3>1, <3>2, <3>3, <3>4, <3>5 DEF before
  <2> QED
    BY <2>1 DEF CallsApproved
<1> QED
  BY <1>3, <1>4, <1>10, <1>11, <1>12 DEF Account, s

----------------------------------------------------------------------------
(* What becomes of a failed call.                                          *)

Names(e, tool) == e.tool = tool

(* The events of a type about one tool.                                    *)
Of(r, type, tool) == {k \in Typed(r, type) : Names(r.events[k], tool)}

FailuresBefore(r, k) ==
    {j \in Typed(r, "tool_call_failed") : j < k /\ r.events[j].tool = r.events[k].tool}

(* The failure is retried, as often as it may be, or ends the run.         *)
Followed(r, k) ==
    LET failure   == r.events[k]
        next      == r.events[k + 1]
        earlier   == Cardinality(FailuresBefore(r, k))
        transient == /\ failure.tool \in ReadTools
                     /\ failure.code \in {"TOOL_TIMEOUT", "MALFORMED_TOOL_RESPONSE"}
    IN  /\ next.code = failure.code
        /\ IF transient /\ earlier < ReadRetries
           THEN next.type = "retry_scheduled" /\ next.retry = earlier + 1
           ELSE next.type = "run_failed"

FollowedUp(r) ==
    \A k \in Typed(r, "tool_call_failed") : k < Len(r.events) => Followed(r, k)

(* A tool that has not answered has been called, and has failed, as often  *)
(* as the live retry says.                                                 *)
Tally(r) ==
    \A tool \in ToolNames \ DOMAIN r.evidence :
        /\ Cardinality(Of(r, "tool_call_failed", tool)) = Attempts(r, tool)
        /\ Cardinality(Of(r, "tool_call_started", tool)) = Attempts(r, tool)

CallsBounded(r) ==
    \A tool \in ToolNames :
        Cardinality(Of(r, "tool_call_started", tool))
            <= IF tool \in ReadTools THEN ReadRetries + 1 ELSE 1

Last(r) == r.events[Len(r.events)]

(* Between two actions no failure is left unanswered, the last event tells *)
(* whether the run has ended and why, and while it runs whether a retry is *)
(* live; the invoice that was observed is the requested one.               *)
Settles(r, active) ==
    /\ Len(r.events) # 0
    /\ Last(r).type # "tool_call_failed"
    /\ (r.outcome # None) = (Last(r).type \in {"run_completed", "run_failed"})
    /\ r.outcome # None => Last(r).code = r.outcome.reason
    /\ active =>
          /\ Tally(r)
          /\ r.retry # NoRetry <=> Last(r).type = "retry_scheduled"
          /\ "inspect_invoice" \in DOMAIN r.evidence =>
                ~InvoiceMismatch(r.contract.intent.inputs, r.evidence["inspect_invoice"])

Settlement == Settles(run, Running)

Sound(r) == Account(r) /\ FollowedUp(r) /\ CallsBounded(r)

TrailInv == GInv /\ Sound(run) /\ Settlement

LEMMA OfCounted ==
    ASSUME NEW r, NEW type, NEW tool, Recorded(r.events)
    PROVE  IsFiniteSet(Of(r, type, tool)) /\ Cardinality(Of(r, type, tool)) \in Nat
<1>1. IsFiniteSet(Typed(r, type))
  BY Counted
<1>2. Of(r, type, tool) \subseteq Typed(r, type)
  BY DEF Of
<1>3. IsFiniteSet(Of(r, type, tool))
  BY <1>1, <1>2, FS_Subset
<1> QED
  BY <1>3, FS_CardinalityType

LEMMA OfMoves ==
    ASSUME NEW r, NEW s, NEW e, NEW type, NEW tool, Recorded(r.events), Logs(r, s, e)
    PROVE  LET n == Len(r.events)
           IN  /\ n + 1 \notin Of(r, type, tool)
               /\ ~Is(e, type) \/ ~Names(e, tool) => Of(s, type, tool) = Of(r, type, tool)
               /\ Is(e, type) /\ Names(e, tool) =>
                     Of(s, type, tool) = Of(r, type, tool) \cup {n + 1}
<1> DEFINE n == Len(r.events)
<1>1. /\ \A k \in 1..n : s.events[k] = r.events[k]
      /\ s.events[n + 1] = e
  BY Appending DEF Logs
<1>2. /\ Typed(r, type) \subseteq 1..n /\ n + 1 \notin 1..n
      /\ ~Is(e, type) => Typed(s, type) = Typed(r, type)
      /\ Is(e, type) => Typed(s, type) = Typed(r, type) \cup {n + 1}
  BY Grown
<1> HIDE DEF n
<1>3. n + 1 \notin Of(r, type, tool)
  BY <1>2 DEF Of
<1>4. ~Is(e, type) => Of(s, type, tool) = Of(r, type, tool)
  BY <1>1, <1>2 DEF Of
<1>5. Is(e, type) /\ ~Names(e, tool) => Of(s, type, tool) = Of(r, type, tool)
  BY <1>1, <1>2 DEF Of
<1>6. Is(e, type) /\ Names(e, tool) => Of(s, type, tool) = Of(r, type, tool) \cup {n + 1}
  BY <1>1, <1>2 DEF Of
<1> QED
  BY <1>3, <1>4, <1>5, <1>6 DEF n

LEMMA OfStands ==
    ASSUME NEW r, NEW s, NEW e, NEW type, NEW tool, Recorded(r.events), Logs(r, s, e),
           ~Is(e, type) \/ ~Names(e, tool)
    PROVE  Of(s, type, tool) = Of(r, type, tool)
BY OfMoves

LEMMA OfGrows ==
    ASSUME NEW r, NEW s, NEW e, NEW type, NEW tool, Recorded(r.events), Logs(r, s, e),
           Is(e, type), Names(e, tool)
    PROVE  Cardinality(Of(s, type, tool)) = Cardinality(Of(r, type, tool)) + 1
<1> DEFINE n == Len(r.events)
<1>1. Of(s, type, tool) = Of(r, type, tool) \cup {n + 1}
  BY OfMoves
<1>2. n + 1 \notin Of(r, type, tool)
  BY OfMoves
<1>3. IsFiniteSet(Of(r, type, tool))
  BY OfCounted
<1> HIDE DEF n
<1> QED
  BY <1>1, <1>2, <1>3, FS_AddElement

(* What followed a failure stands.                                         *)
LEMMA FollowedStands ==
    ASSUME NEW r, NEW s, NEW e, NEW k, Recorded(r.events), Logs(r, s, e),
           k \in Typed(r, "tool_call_failed"), k < Len(r.events), Followed(r, k)
    PROVE  Followed(s, k)
<1> DEFINE n == Len(r.events)
           failed == "tool_call_failed"
<1>1. /\ n \in Nat /\ DOMAIN r.events = 1..n
      /\ \A j \in 1..n : s.events[j] = r.events[j]
  BY Appending DEF Logs
<1>2. Typed(s, failed) = Typed(r, failed) \/ Typed(s, failed) = Typed(r, failed) \cup {n + 1}
  BY Grown
<1>3. k \in 1..n /\ k + 1 \in 1..n
  BY <1>1 DEF Typed
<1>4. s.events[k] = r.events[k] /\ s.events[k + 1] = r.events[k + 1]
  BY <1>1, <1>3
<1> HIDE DEF n, failed
<1>5. FailuresBefore(s, k) = FailuresBefore(r, k)
  <2>1. Typed(r, failed) \subseteq 1..n
    BY <1>1 DEF Typed
  <2>2. \A j : j \in Typed(s, failed) /\ j < k <=> j \in Typed(r, failed) /\ j < k
    BY <1>1, <1>2, <1>3
  <2> QED
    BY <1>1, <1>4, <2>1, <2>2 DEF FailuresBefore, failed
<1> QED
  BY <1>4, <1>5 DEF Followed

LEMMA FollowedUpGrows ==
    ASSUME NEW r, NEW s, NEW e, Recorded(r.events), Logs(r, s, e), FollowedUp(r),
           Len(r.events) \in Typed(r, "tool_call_failed") => Followed(s, Len(r.events))
    PROVE  FollowedUp(s)
<1> DEFINE n == Len(r.events)
           failed == "tool_call_failed"
<1>1. n \in Nat /\ Len(s.events) = n + 1
  BY Appending DEF Logs
<1>2. Typed(s, failed) = Typed(r, failed) \/ Typed(s, failed) = Typed(r, failed) \cup {n + 1}
  BY Grown
<1>3. Typed(r, failed) \subseteq 1..n
  BY Grown
<1>4. ASSUME NEW k \in Typed(s, failed), k < n + 1
      PROVE  Followed(s, k)
  <2>1. k \in Typed(r, failed) /\ k \in 1..n
    BY <1>1, <1>2, <1>3, <1>4
  <2>2. CASE k = n
    BY <2>1, <2>2
  <2>3. CASE k < n
    <3>1. Followed(r, k)
      BY <2>1, <2>3 DEF FollowedUp
    <3> QED
      BY <2>1, <2>3, <3>1, FollowedStands
  <2> QED
    BY <1>1, <2>1, <2>2, <2>3
<1> QED
  BY <1>1, <1>4 DEF FollowedUp

(* A failure that nothing follows yet must not be left behind.             *)
LEMMA FollowedUpStands ==
    ASSUME NEW r, NEW s, NEW e, Recorded(r.events), Logs(r, s, e), FollowedUp(r),
           Len(r.events) = 0 \/ ~Is(r.events[Len(r.events)], "tool_call_failed")
    PROVE  FollowedUp(s)
<1>1. Len(r.events) \notin Typed(r, "tool_call_failed")
  <2>1. DOMAIN r.events = 1..Len(r.events) /\ Len(r.events) \in Nat
    BY DEF Recorded
  <2> QED
    BY <2>1 DEF Typed, Is
<1> QED
  BY <1>1, FollowedUpGrows

----------------------------------------------------------------------------
(* The handlers that log an event which neither starts nor completes a     *)
(* call keep all of this.                                                  *)

(* No failure is waiting for an answer.                                    *)
Open(r) == Len(r.events) = 0 \/ ~Is(Last(r), "tool_call_failed")

LEMMA LastLogged ==
    ASSUME NEW r, NEW s, NEW e, Recorded(r.events), Logs(r, s, e)
    PROVE  /\ Last(s) = e /\ Len(s.events) = Len(r.events) + 1
           /\ Len(s.events) # 0 /\ Len(r.events) \in Nat
BY Appending DEF Logs, Last

LEMMA OpenAnswered ==
    ASSUME NEW r, Recorded(r.events), Open(r)
    PROVE  Len(r.events) \notin Typed(r, "tool_call_failed")
<1>1. DOMAIN r.events = 1..Len(r.events) /\ Len(r.events) \in Nat
  BY DEF Recorded
<1> QED
  BY <1>1 DEF Typed, Is, Open, Last

LEMMA QuietSound ==
    ASSUME NEW r, NEW s, NEW e, Sound(r), Logs(r, s, e), DOMAIN s = RunFields,
           s.contract = r.contract, s.history = r.history, s.evidence = r.evidence,
           ~Is(e, "tool_call_started"), ~Is(e, "tool_call_completed"),
           Len(r.events) \in Typed(r, "tool_call_failed") => Followed(s, Len(r.events))
    PROVE  Sound(s)
<1>1. Recorded(r.events)
  BY DEF Sound, Account
<1>2. Account(s)
  BY QuietAccount DEF Sound
<1>3. FollowedUp(s)
  BY <1>1, FollowedUpGrows DEF Sound
<1>4. \A tool : Of(s, "tool_call_started", tool) = Of(r, "tool_call_started", tool)
  BY <1>1, OfStands
<1>5. CallsBounded(s)
  BY <1>4 DEF Sound, CallsBounded
<1> QED
  BY <1>2, <1>3, <1>5 DEF Sound

LEMMA CheckedSound ==
    ASSUME NEW r, NEW p, NEW refusal, Sound(r), Open(r)
    PROVE  LET c == Checked(r, p, refusal)
           IN  /\ Sound(c) /\ Open(c) /\ Len(c.events) # 0
               /\ Last(c).type = "runtime_policy_check"
               /\ Last(c).tool = c.proposed.tool
               /\ Last(c).action = c.decision.action
               /\ Last(c).decision = c.decision.decision
               /\ \A type, tool : ~(type = "runtime_policy_check") =>
                     Of(c, type, tool) = Of(r, type, tool)
<1> DEFINE c == Checked(r, p, refusal)
<1>1. DOMAIN r = RunFields /\ Recorded(r.events)
  BY DEF Sound, Account
<1>2. Differs(r, c, {"events", "proposed", "decision"}) /\ c.proposed = p
  BY <1>1, CheckedShape
<1>3. PICK e : /\ Logs(r, c, e) /\ e.type = "runtime_policy_check"
               /\ e.tool = p.tool /\ e.action = c.decision.action
               /\ e.decision = c.decision.decision
  BY <1>1, CheckedLog
<1> HIDE DEF c
<1>4. /\ DOMAIN c = RunFields /\ c.contract = r.contract /\ c.history = r.history
      /\ c.evidence = r.evidence
  BY <1>2 DEF Differs, RunFields
<1>5. /\ ~Is(e, "tool_call_started") /\ ~Is(e, "tool_call_completed")
      /\ ~Is(e, "tool_call_failed")
      /\ \A type : ~(type = "runtime_policy_check") => ~Is(e, type)
  BY <1>3 DEF Is
<1>6. Last(c) = e /\ Len(c.events) # 0
  BY <1>1, <1>3, LastLogged
<1>7. Sound(c)
  BY <1>1, <1>3, <1>4, <1>5, OpenAnswered, QuietSound
<1>8. ASSUME NEW type, NEW tool, ~(type = "runtime_policy_check")
      PROVE  Of(c, type, tool) = Of(r, type, tool)
  <2>1. ~Is(e, type)
    BY <1>5, <1>8
  <2>2. Logs(r, c, e)
    BY <1>3
  <2> QED
    BY <1>1, <2>1, <2>2, OfStands
<1> QED
  BY <1>2, <1>3, <1>5, <1>6, <1>7, <1>8 DEF Open, c

(* The run has ended, and its last event says why.                         *)
Ended(r) ==
    /\ Len(r.events) # 0 /\ r.outcome # None
    /\ Last(r).type \in {"run_completed", "run_failed"}
    /\ Last(r).code = r.outcome.reason

LEMMA ClosedSound ==
    ASSUME NEW r, NEW o \in Outcomes, Sound(r),
           Len(r.events) \in Typed(r, "tool_call_failed") =>
               Followed(Close(r, o), Len(r.events))
    PROVE  Sound(Close(r, o)) /\ Ended(Close(r, o))
<1> DEFINE s == Close(r, o)
<1>1. DOMAIN r = RunFields /\ Recorded(r.events)
  BY DEF Sound, Account
<1>2. Differs(r, s, {"events", "state", "outcome"}) /\ s.outcome = o
  BY <1>1, CloseShape
<1>3. PICK e : /\ Logs(r, s, e) /\ e.code = o.reason
               /\ e.type \in {"run_completed", "run_failed"}
  BY <1>1, ClosedLog
<1> HIDE DEF s
<1>4. /\ DOMAIN s = RunFields /\ s.contract = r.contract /\ s.history = r.history
      /\ s.evidence = r.evidence
  BY <1>2 DEF Differs, RunFields
<1>5. ~Is(e, "tool_call_started") /\ ~Is(e, "tool_call_completed")
  BY <1>3 DEF Is
<1>6. Sound(s)
  BY <1>3, <1>4, <1>5, QuietSound DEF s
<1>7. o # None
  BY OutcomesAssumption
<1>8. Last(s) = e /\ Len(s.events) # 0
  BY <1>1, <1>3, LastLogged
<1> QED
  BY <1>2, <1>3, <1>6, <1>7, <1>8 DEF Ended, s

LEMMA FinishedWith ==
    ASSUME NEW r, NEW reason \in Reasons \cup {None}, NEW status \in TerminalStates
    PROVE  \E o \in Outcomes : /\ FinishWith(r, reason, status) = Close(r, o)
                               /\ o.reason = reason /\ o.status = status
<1> DEFINE failures == FailureCondition(reason) \cap r.contract.intent.failures
           o == Outcome(status, reason, {}, failures)
<1>1. FailureCondition(reason) \subseteq {"duplicate_invoice", "purchase_order_mismatch"}
  BY DEF FailureCondition
<1>2. failures \in SUBSET {"duplicate_invoice", "purchase_order_mismatch"}
  BY <1>1
<1>3. FinishWith(r, reason, status) = Close(r, o)
  BY DEF FinishWith
<1> HIDE DEF failures
<1>4. o \in Outcomes /\ o.reason = reason /\ o.status = status
  BY <1>2 DEF Outcome, Outcomes
<1> QED
  BY <1>3, <1>4

LEMMA FinishedPlan ==
    ASSUME NEW r
    PROVE  \E o \in Outcomes : FinishPlan(r) = Close(r, o)
<1> DEFINE wanted    == r.contract.intent.success
           satisfied == wanted \cap Supported(r)
           done      == Outcome("COMPLETED", None, satisfied, {})
           short     == Outcome("FAILED", "SUCCESS_CONDITIONS_NOT_SATISFIED", satisfied, {})
<1>1. Supported(r) \subseteq {"invoice_validated", "payment_authorized",
                              "audit_event_written"}
  BY DEF Supported
<1>2. satisfied \in SUBSET {"invoice_validated", "payment_authorized",
                            "audit_event_written"}
  BY <1>1
<1>3. FinishPlan(r) = Close(r, done) \/ FinishPlan(r) = Close(r, short)
  BY DEF FinishPlan
<1> HIDE DEF satisfied
<1>4. "SUCCESS_CONDITIONS_NOT_SATISFIED" \in Reasons
  BY DEF Reasons
<1>5. done \in Outcomes /\ short \in Outcomes
  BY <1>2, <1>4 DEF Outcome, Outcomes, TerminalStates
<1> QED
  BY <1>3, <1>5

----------------------------------------------------------------------------
(* The codes that the gates and the tools give.                            *)

Transient == {"TOOL_TIMEOUT", "MALFORMED_TOOL_RESPONSE"}

(* What a tool may raise by itself.                                        *)
ReadCodes == ActionProblems \cup {"RECORD_NOT_FOUND"}

CallCodes == ReadCodes \cup {"DUPLICATE_INVOICE", "APPROVAL_REQUIRED"}

Errs(result, codes) == result.kind = "error" => result.code \in codes

LEMMA LookupErrs ==
    ASSUME NEW records, NEW id
    PROVE  Errs(Lookup(records, id), ReadCodes)
<1>1. \A record : Errs(Returned(record), ReadCodes)
  BY DEF Errs, Returned
<1>2. Errs(Uncaught, ReadCodes)
  BY DEF Errs, Uncaught
<1>3. Errs(Raised("INVALID_ARGUMENT"), ReadCodes) /\ Errs(Raised("RECORD_NOT_FOUND"), ReadCodes)
  BY DEF Errs, Raised, ReadCodes, ActionProblems
<1>4. \/ Lookup(records, id) = Uncaught
      \/ Lookup(records, id) = Raised("INVALID_ARGUMENT")
      \/ Lookup(records, id) = Raised("RECORD_NOT_FOUND")
      \/ Lookup(records, id) = Returned(records[Strip[id]])
  BY Zenon DEF Lookup
<1> QED
  BY <1>1, <1>2, <1>3, <1>4

LEMMA ActionErrs ==
    ASSUME NEW args
    PROVE  Errs(ValidatedAction(args), ReadCodes)
<1>1. ASSUME NEW invoice, NEW po, NEW supplier, NEW amount, NEW currency
      PROVE  ActionProblem(invoice, po, supplier, amount, currency)
                 \in ActionProblems \cup {None}
  BY DEF ActionProblem, ActionProblems
<1>2. ASSUME NEW code \in ActionProblems PROVE Errs(Raised(code), ReadCodes)
  BY DEF Errs, Raised, ReadCodes
<1> QED
  BY <1>1, <1>2, LookupErrs DEF ValidatedAction

LEMMA CallErrs ==
    ASSUME NEW tool \in ToolNames, NEW args, NEW approval
    PROVE  Errs(Call(tool, args, approval), CallCodes)
<1>1. \A records, id : Errs(Lookup(records, id), CallCodes)
  BY LookupErrs DEF Errs, CallCodes
<1>2. \A record : Errs(Returned(record), CallCodes)
  BY DEF Errs, Returned
<1>3. \A id : Errs(CheckDuplicate(id), CallCodes)
  BY <1>1, <1>2 DEF CheckDuplicate
<1>4. Errs(Raised("DUPLICATE_INVOICE"), CallCodes) /\ Errs(Raised("APPROVAL_REQUIRED"), CallCodes)
  BY DEF Errs, Raised, CallCodes
<1>5. Errs(ValidatedAction(args), CallCodes)
  BY ActionErrs DEF Errs, CallCodes
<1>6. Errs(StagePayment(args, approval), CallCodes)
  BY <1>1, <1>2, <1>4, <1>5 DEF StagePayment
<1>7. tool \in {"inspect_invoice", "lookup_supplier", "lookup_purchase_order",
                "check_duplicate", "retrieve_policy", "stage_payment"}
  BY ToolsDiffer DEF ToolNames, InvoiceTools
<1> QED
  BY <1>1, <1>3, <1>6, <1>7 DEF Call

(* An error carries a tool's code, and a transient code is retryable.      *)
LEMMA AnswerCode ==
    ASSUME NEW tool \in ToolNames, NEW args, NEW approval, NEW fault \in Faults,
           NEW answer, answer = Invoke(tool, args, approval, fault),
           answer.kind = "error"
    PROVE  answer.code \in ToolCodes /\ (answer.code \in Transient => answer.retryable)
<1>1. CASE fault = "none"
  <2>1. answer.code \in CallCodes
    BY <1>1, CallErrs DEF Invoke, Errs
  <2> QED
    BY <2>1 DEF CallCodes, ReadCodes, ActionProblems, ToolCodes, Transient
<1>2. CASE fault # "none"
  <2>1. answer = InjectedFailure(fault)
    BY <1>2 DEF Invoke
  <2>2. fault \in Transient \/ fault \in {"PERMISSION_DENIED", "TOOL_EXECUTION_FAILED"}
    BY <1>2, FaultsAssumption DEF Transient
  <2>3. CASE fault \in Transient
    BY <2>1, <2>3 DEF InjectedFailure, Retryable, Raised, Transient, ToolCodes
  <2>4. CASE fault \in {"PERMISSION_DENIED", "TOOL_EXECUTION_FAILED"}
    BY <2>1, <2>4 DEF InjectedFailure, Raised, Transient, ToolCodes
  <2> QED
    BY <2>2, <2>3, <2>4
<1> QED
  BY <1>1, <1>2

LEMMA PlanConditions ==
    ASSUME NEW k \in 1..6
    PROVE  StepOf(BuildPlan, InvoiceTools[k]).conditions = IF k = 6 THEN {} ELSE Transient
<1>1. \A j \in 1..6 : BuildPlan[j].step = InvoiceTools[j]
  BY DEF BuildPlan, PlanStep
<1>2. StepOf(BuildPlan, InvoiceTools[k]) = BuildPlan[k]
  BY <1>1, ToolsDiffer DEF StepOf, BuildPlan
<1>3. BuildPlan[k] = PlanStep(k)
  BY DEF BuildPlan
<1> QED
  BY <1>2, <1>3, ToolsDiffer DEF PlanStep, ReadTools, ToolNames, Transient

(* The first reason that there is one.                                     *)
LEMMA GateCode ==
    ASSUME NEW i, Decide(i).decision = "REJECT"
    PROVE  Decide(i).code \in Reasons
<1> DEFINE findings == ValidateIntent(i)
           rejects  == RejectReasons(i, findings)
<1>1. rejects # {} /\ Decide(i).code = First(RejectOrder, rejects)
  BY DEF Decide, GateADecision
<1>2. \A k \in 1..14 : k = 1 \/ k = 2 \/ k = 3 \/ k = 4 \/ k = 5 \/ k = 6 \/ k = 7
         \/ k = 8 \/ k = 9 \/ k = 10 \/ k = 11 \/ k = 12 \/ k = 13 \/ k = 14
  OBVIOUS
<1>3. DOMAIN RejectOrder = 1..14
  BY DEF RejectOrder
<1> DEFINE Listed == {RejectOrder[k] : k \in 1..14}
<1>4. \A rule : PolicyReason(rule) \in Listed
  BY DEF PolicyReason, RejectOrder
<1>5. rejects \subseteq Listed
  <2>1. {"UNKNOWN_OR_DISALLOWED_TOOL", "CONTRADICTORY_REQUIREMENTS",
         "UNBOUNDED_PERMISSIONS", "UNSAFE_ASSUMPTION",
         "NON_REVERSIBLE_HIGH_IMPACT_ACTION"} \subseteq Listed
    BY DEF RejectOrder
  <2> HIDE DEF Listed
  <2> QED
    BY <1>4, <2>1 DEF RejectReasons
<1>6. PICK n \in 1..14 : RejectOrder[n] \in rejects
  BY <1>1, <1>5
<1> HIDE DEF rejects, Listed
<1> DEFINE Hit(k) == RejectOrder[k] \in rejects
<1>7. \E k \in 1..14 : Hit(k) /\ \A j \in 1..(k - 1) : ~Hit(j)
  <2>1. Hit(n)
    BY <1>6
  <2> HIDE DEF Hit
  <2> QED
    BY <1>2, <2>1
<1>8. First(RejectOrder, rejects) \in {RejectOrder[k] : k \in DOMAIN RejectOrder}
  BY <1>3, <1>7 DEF First
<1> QED
  BY <1>1, <1>8 DEF Reasons

----------------------------------------------------------------------------
(* What the arguments of an approved call must be.                         *)

IsMapping(f) == f = [k \in DOMAIN f |-> f[k]]

LEMMA SameMapping ==
    ASSUME NEW f, NEW g, IsMapping(f), IsMapping(g), DOMAIN f = DOMAIN g,
           \A k \in DOMAIN g : f[k] = g[k]
    PROVE  f = g
BY DEF IsMapping

LEMMA ProposedMapping ==
    ASSUME NEW r, NEW tool, NEW p \in Proposals(r, tool)
    PROVE  IsMapping(p.arguments)
<1> DEFINE own == Propose(r, tool)
<1>1. IsMapping(Arguments(r, tool)) /\ own.arguments = Arguments(r, tool)
  BY DEF IsMapping, Arguments, Propose
<1>2. CASE p = own
  BY <1>1, <1>2
<1>3. ASSUME NEW m \in Mutations, p = Edited(own, m)
      PROVE  IsMapping(p.arguments)
  <2>1. CASE m.argument
    <3>1. p = [own EXCEPT !.arguments = Put(own.arguments, m.key, m.value)]
      BY <1>3, <2>1 DEF Edited
    <3>2. p.arguments = Put(own.arguments, m.key, m.value)
      BY <3>1 DEF Propose
    <3> QED
      BY <3>2 DEF IsMapping, Put
  <2>2. CASE ~m.argument /\ m.key = "arguments"
    <3>1. p.arguments = m.value
      BY <1>3, <2>2 DEF Edited, Put
    <3> QED
      BY <2>2, <3>1, MutationsAssumption DEF IsMapping
  <2>3. CASE ~m.argument /\ m.key # "arguments"
    <3>1. p.arguments = own.arguments
      BY <1>3, <2>3 DEF Edited, Put, Propose
    <3> QED
      BY <1>1, <3>1
  <2> QED
    BY <2>1, <2>2, <2>3
<1> QED
  BY <1>2, <1>3 DEF Proposals

(* Gate B lets no call pass whose arguments are not the controller's own.  *)
LEMMA ApprovedArguments ==
    ASSUME NEW r, NEW p, IsMapping(p.arguments), DecideRuntime(r, p) = None,
           "inspect_invoice" \in DOMAIN r.evidence =>
               ~InvoiceMismatch(r.contract.intent.inputs, r.evidence["inspect_invoice"]),
           p.tool = "inspect_invoice" \/ "inspect_invoice" \in DOMAIN r.evidence
    PROVE  p.arguments = Arguments(r, p.tool)
<1> DEFINE inputs == r.contract.intent.inputs
           args   == p.arguments
           tool   == p.tool
<1>1. ScopeProblem(r, p) = None /\ (tool = "stage_payment" => StageProblem(r, p) = None)
  BY DEF DecideRuntime
<1>2. DOMAIN args = ArgumentKeys(tool) /\ ~OutsideScope(r, p) /\ tool \in ToolNames
  BY <1>1, CodesAssumption, SMT DEF ScopeProblem, RuntimeCodes
<1>3. tool = "stage_payment" =>
         /\ args["amount"] = inputs["amount"]
         /\ r.evidence["lookup_purchase_order"].purchase_order_id = inputs["purchase_order_id"]
  <2>1. tool = "stage_payment" =>
           args["amount"] = inputs["amount"] /\ EvidenceNamesTarget(r.evidence, inputs)
    BY <1>1, CodesAssumption, SMT DEF StageProblem, RuntimeCodes
  <2> QED
    BY <2>1 DEF EvidenceNamesTarget
<1>4. \A k \in {"invoice_id", "supplier_id", "purchase_order_id", "currency"} \cap DOMAIN args :
         args[k] = inputs[k]
  BY <1>2 DEF OutsideScope
<1>5. tool = "retrieve_policy" => args["policy_version"] = r.contract.gateA.policy_version
  BY <1>2 DEF OutsideScope
<1>6. tool \in {"inspect_invoice", "lookup_supplier", "lookup_purchase_order",
                "check_duplicate", "retrieve_policy", "stage_payment"}
  BY <1>2, ToolsDiffer DEF ToolNames, InvoiceTools
<1>7. tool # "inspect_invoice" =>
         \A k \in {"invoice_id", "supplier_id", "purchase_order_id"} :
            r.evidence["inspect_invoice"][k] = inputs[k]
  BY DEF InvoiceMismatch
<1>8. IsMapping(Arguments(r, tool)) /\ DOMAIN Arguments(r, tool) = ArgumentKeys(tool)
  BY DEF IsMapping, Arguments
<1>9. ASSUME NEW k \in ArgumentKeys(tool)
      PROVE  args[k] = Arguments(r, tool)[k]
  <2> DEFINE value ==
        CASE k = "policy_version" -> r.contract.gateA.policy_version
          [] k \in {"amount", "currency"} -> inputs[k]
          [] tool = "inspect_invoice" -> inputs[k]
          [] tool = "stage_payment" /\ k = "purchase_order_id" ->
                 r.evidence["lookup_purchase_order"].purchase_order_id
          [] OTHER -> r.evidence["inspect_invoice"][k]
  <2>1. Arguments(r, tool)[k] = value
    BY <1>9 DEF Arguments
  <2> HIDE DEF args, inputs, tool
  <2>2. \/ k = "policy_version" /\ tool = "retrieve_policy"
        \/ k = "amount" /\ tool = "stage_payment"
        \/ k = "currency" /\ tool = "stage_payment"
        \/ k = "purchase_order_id" /\ tool = "stage_payment"
        \/ k = "invoice_id" /\ tool = "inspect_invoice"
        \/ /\ k \in {"invoice_id", "supplier_id", "purchase_order_id"}
           /\ tool # "inspect_invoice"
           /\ ~(tool = "stage_payment" /\ k = "purchase_order_id")
    BY <1>6, <1>9 DEF ArgumentKeys
  <2>3. args[k] = value
    BY <1>2, <1>3, <1>4, <1>5, <1>7, <1>9, <2>2
  <2> QED
    BY <2>1, <2>3
<1> HIDE DEF args, tool
<1>10. args = Arguments(r, tool)
  BY <1>2, <1>8, <1>9, SameMapping DEF args
<1> QED
  BY <1>10 DEF args, tool

----------------------------------------------------------------------------
(* A checked run, and one whose call has started.                          *)

LEMMA CheckedTrail ==
    ASSUME TrailInv, Running, NEW c \in CheckedRuns
    PROVE  /\ Differs(run, c, {"events", "proposed", "decision"})
           /\ Sound(c) /\ Open(c) /\ Len(c.events) # 0
           /\ Last(c).type = "runtime_policy_check"
           /\ Last(c).tool = c.proposed.tool
           /\ Last(c).action = c.decision.action
           /\ Last(c).decision = c.decision.decision
           /\ c.decision.code \in Reasons
           /\ c.decision.decision = "APPROVE" =>
                 DecideRuntime(run, c.proposed) = None /\ IsMapping(c.proposed.arguments)
           /\ \A type, tool : ~(type = "runtime_policy_check") =>
                 Of(c, type, tool) = Of(run, type, tool)
<1>1. DOMAIN run = RunFields /\ Sound(run)
  BY DEF TrailInv, Sound, Account
<1>2. Open(run)
  BY DEF TrailInv, Settlement, Settles, Open, Is, Last
<1>3. PICK tool : \E p \in Proposals(run, tool) : c = Checked(run, p, DecideRuntime(run, p))
  BY DEF CheckedRuns, Judgements
<1> PICK p \in Proposals(run, tool) : c = Checked(run, p, DecideRuntime(run, p))
  BY <1>3
<1>4. /\ Differs(run, c, {"events", "proposed", "decision"})
      /\ c.proposed = p /\ c.decision = Result(run, p, DecideRuntime(run, p))
  BY <1>1, CheckedShape
<1>5. /\ Sound(c) /\ Open(c) /\ Len(c.events) # 0
      /\ Last(c).type = "runtime_policy_check"
      /\ Last(c).tool = c.proposed.tool
      /\ Last(c).action = c.decision.action
      /\ Last(c).decision = c.decision.decision
      /\ \A type, t : ~(type = "runtime_policy_check") => Of(c, type, t) = Of(run, type, t)
  BY <1>1, <1>2, CheckedSound
<1>6. c.decision.code \in Reasons
  BY <1>4, DecisionCode DEF Reasons
<1>7. c.decision.decision = "APPROVE" => DecideRuntime(run, c.proposed) = None
  BY <1>4 DEF Result, Verdict
<1>8. IsMapping(c.proposed.arguments)
  BY <1>4, ProposedMapping
<1> QED
  BY <1>4, <1>5, <1>6, <1>7, <1>8

(* While a run is running, the live retry is the next tool's or nobody's.  *)
LEMMA LiveAttempts ==
    ASSUME IInv, Running, NEW c \in CheckedRuns, c.decision.decision = "APPROVE"
    PROVE  LET tool == c.proposed.tool
           IN  /\ Attempts(run, tool) = run.retry.attempts
               /\ Attempts(run, tool) \in 0..ReadRetries
               /\ tool = "stage_payment" => Attempts(run, tool) = 0
               /\ \A t : t # tool => Attempts(run, t) = 0
<1>1. run.retry.attempts \in 0..ReadRetries
  BY DEF IInv, TypeOK
<1>2. PICK k \in 0..5 :
        /\ c.proposed.tool = InvoiceTools[k + 1]
        /\ run.retry.attempts > 0 => k < 5 /\ run.retry.tool = c.proposed.tool
  BY StartedCall
<1>3. c.proposed.tool = "stage_payment" => k = 5
  <2>1. k + 1 \in 1..6 /\ 6 \in 1..6
    OBVIOUS
  <2>2. InvoiceTools[k + 1] = InvoiceTools[6] => k + 1 = 6
    BY <2>1, ToolsDiffer
  <2>3. k + 1 = 6 => k = 5
    OBVIOUS
  <2> QED
    BY <1>2, <2>2, <2>3, ToolsDiffer
<1>4. run.retry.attempts = 0 \/ run.retry.tool = c.proposed.tool
  BY <1>1, <1>2
<1>5. k = 5 => run.retry.attempts = 0
  BY <1>1, <1>2
<1>6. \A t : Attempts(run, t) = IF run.retry.tool = t THEN run.retry.attempts ELSE 0
  BY DEF Attempts
<1>7. Attempts(run, c.proposed.tool) = run.retry.attempts
  BY <1>4, <1>6
<1> QED
  BY <1>1, <1>3, <1>4, <1>5, <1>6, <1>7

LEMMA StartedTrail ==
    ASSUME TrailInv, Running, NEW c \in CheckedRuns, c.decision.decision = "APPROVE"
    PROVE  LET s    == Started(c)
               tool == c.proposed.tool
           IN  /\ Differs(run, s, {"events", "proposed", "decision", "history"})
               /\ s.proposed = c.proposed /\ s.decision = c.decision
               /\ Sound(s) /\ Open(s) /\ Len(s.events) # 0
               /\ Is(Last(s), "tool_call_started")
               /\ tool \in ToolNames \ DOMAIN run.evidence
               /\ Cardinality(Of(s, "tool_call_started", tool)) = Attempts(run, tool) + 1
               /\ Cardinality(Of(s, "tool_call_failed", tool)) = Attempts(run, tool)
               /\ \A t \in ToolNames \ DOMAIN run.evidence : t # tool =>
                     /\ Cardinality(Of(s, "tool_call_started", t)) = 0
                     /\ Cardinality(Of(s, "tool_call_failed", t)) = 0
<1> DEFINE s      == Started(c)
           tool   == c.proposed.tool
           starts == "tool_call_started"
           fails  == "tool_call_failed"
<1>1. /\ Differs(run, c, {"events", "proposed", "decision"})
      /\ Sound(c) /\ Open(c) /\ Len(c.events) # 0
      /\ Last(c).type = "runtime_policy_check"
      /\ Last(c).tool = tool
      /\ Last(c).action = c.decision.action
      /\ Last(c).decision = "APPROVE"
      /\ DecideRuntime(run, c.proposed) = None /\ IsMapping(c.proposed.arguments)
  BY CheckedTrail
<1>2. \A t : Of(c, starts, t) = Of(run, starts, t) /\ Of(c, fails, t) = Of(run, fails, t)
  BY CheckedTrail
<1>3. /\ Differs(run, s, {"events", "proposed", "decision", "history"})
      /\ s.proposed = c.proposed /\ s.decision = c.decision
      /\ tool \in ToolNames
  BY StartedCall DEF TrailInv, GInv
<1>4. PICK k \in 0..5 : tool = InvoiceTools[k + 1] /\ DOMAIN run.evidence = Prefix(k)
  BY StartedCall DEF TrailInv, GInv
<1>5. /\ DOMAIN c = RunFields /\ c.evidence = run.evidence /\ c.contract = run.contract
      /\ c.history = run.history
  BY <1>1 DEF Differs, RunFields
<1>6. c.decision.action \in Nat
  <2>1. c.decision.action = Len(run.history) /\ run.history \in Seq(Nat)
    BY CheckedRun DEF TrailInv, GInv, IInv, TypeOK
  <2> QED
    BY <2>1
<1>7. c.proposed.arguments = Arguments(c, tool)
  <2>1. tool = "inspect_invoice" \/ "inspect_invoice" \in DOMAIN run.evidence
    <3>1. InvoiceTools[1] = "inspect_invoice"
      BY DEF InvoiceTools
    <3>2. k # 0 => InvoiceTools[1] \in Prefix(k)
      BY DEF Prefix
    <3> QED
      BY <1>4, <3>1, <3>2
  <2>2. "inspect_invoice" \in DOMAIN run.evidence =>
           ~InvoiceMismatch(run.contract.intent.inputs, run.evidence["inspect_invoice"])
    BY DEF TrailInv, Settlement, Settles
  <2>3. c.proposed.arguments = Arguments(run, tool)
    BY <1>1, <2>1, <2>2, ApprovedArguments
  <2>4. Arguments(c, tool) = Arguments(run, tool)
    BY <1>5 DEF Arguments
  <2> QED
    BY <2>3, <2>4
<1>8. Account(c)
  BY <1>1 DEF Sound
<1>9. Cardinality(Typed(c, "tool_call_completed")) = k
  BY <1>4, <1>5, <1>8, AnsweredCount
<1>10. Account(s)
  BY <1>1, <1>4, <1>5, <1>6, <1>7, <1>8, <1>9, StartedAccount DEF Last
<1>11. PICK e : Logs(c, s, e) /\ e.type = starts /\ e.tool = tool
  BY <1>5, StartedLog
<1>12. Recorded(c.events) /\ Logs(c, s, e)
  BY <1>8, <1>11 DEF Account
<1>13. Is(e, starts) /\ ~Is(e, fails)
  BY <1>11 DEF Is
<1>14. \A t : Names(e, t) <=> t = tool
  BY <1>11 DEF Names
<1> HIDE DEF s
<1>15. Last(s) = e /\ Len(s.events) # 0
  BY <1>12, LastLogged
<1>16. FollowedUp(s)
  BY <1>1, <1>12, OpenAnswered, FollowedUpGrows DEF Sound
<1>17. \A t : Of(s, fails, t) = Of(run, fails, t)
  BY <1>2, <1>12, <1>13, OfStands
<1>18. \A t : t # tool => Of(s, starts, t) = Of(run, starts, t)
  BY <1>2, <1>12, <1>14, OfStands
<1>19. Cardinality(Of(s, starts, tool)) = Cardinality(Of(run, starts, tool)) + 1
  BY <1>2, <1>12, <1>13, <1>14, OfGrows
<1>20. \A t \in ToolNames \ DOMAIN run.evidence :
          /\ Cardinality(Of(run, starts, t)) = Attempts(run, t)
          /\ Cardinality(Of(run, fails, t)) = Attempts(run, t)
  BY DEF TrailInv, Settlement, Settles, Tally
<1>21. tool \notin DOMAIN run.evidence
  BY <1>4, PrefixesGrow
<1>22. /\ Attempts(run, tool) \in 0..ReadRetries
       /\ tool = "stage_payment" => Attempts(run, tool) = 0
       /\ \A t : t # tool => Attempts(run, t) = 0
  BY LiveAttempts DEF TrailInv, GInv
<1>23. CallsBounded(s)
  <2> SUFFICES ASSUME NEW t \in ToolNames
               PROVE  Cardinality(Of(s, starts, t)) <=
                          IF t \in ReadTools THEN ReadRetries + 1 ELSE 1
    BY DEF CallsBounded
  <2>1. CASE t # tool
    <3>1. Cardinality(Of(run, starts, t)) <= IF t \in ReadTools THEN ReadRetries + 1 ELSE 1
      BY DEF TrailInv, Sound, CallsBounded
    <3> QED
      BY <1>18, <2>1, <3>1
  <2>2. CASE t = tool
    <3>1. Cardinality(Of(s, starts, t)) = Attempts(run, t) + 1
      BY <1>3, <1>19, <1>20, <1>21, <2>2
    <3>2. t \notin ReadTools => t = "stage_payment"
      BY DEF ReadTools
    <3> QED
      BY <1>22, <2>2, <3>1, <3>2, PolicyAssumption
  <2> QED
    BY <2>1, <2>2
<1> HIDE DEF tool
<1>24. Sound(s) /\ Open(s) /\ Is(Last(s), starts)
  BY <1>10, <1>13, <1>15, <1>16, <1>23 DEF Sound, Open
<1>25. /\ Cardinality(Of(s, starts, tool)) = Attempts(run, tool) + 1
       /\ Cardinality(Of(s, fails, tool)) = Attempts(run, tool)
  BY <1>3, <1>17, <1>19, <1>20, <1>21
<1>26. \A t \in ToolNames \ DOMAIN run.evidence : t # tool =>
          /\ Cardinality(Of(s, starts, t)) = 0
          /\ Cardinality(Of(s, fails, t)) = 0
  BY <1>17, <1>18, <1>20, <1>22
<1> QED
  BY <1>3, <1>15, <1>21, <1>24, <1>25, <1>26 DEF s, tool

----------------------------------------------------------------------------
(* One lemma per action: it leaves a sound log and nothing unsettled.      *)

LEMMA EndedSettles ==
    ASSUME Ended(run)'
    PROVE  Settlement'
<1>1. ~Running'
  BY DEF Ended, Running
<1> QED
  BY <1>1 DEF Ended, Last, Settlement, Settles

LEMMA FinishRunTrail ==
    ASSUME TrailInv, FinishRun
    PROVE  Sound(run)' /\ Settlement'
<1>1. Sound(run) /\ Recorded(run.events)
  BY DEF TrailInv, Sound, Account
<1>2. Open(run)
  BY DEF TrailInv, Settlement, Settles, Open, Is, Last
<1>3. PICK o \in Outcomes : run' = Close(run, o)
  BY FinishedPlan DEF FinishRun
<1>4. Sound(run)' /\ Ended(run)'
  BY <1>1, <1>2, <1>3, OpenAnswered, ClosedSound
<1> QED
  BY <1>4, EndedSettles

LEMMA RejectTrail ==
    ASSUME TrailInv, NEW c \in CheckedRuns, Reject(c)
    PROVE  Sound(run)' /\ Settlement'
<1>1. Sound(c) /\ Open(c) /\ c.decision.code \in Reasons
  BY CheckedTrail DEF Reject, Superstep
<1>2. Recorded(c.events)
  BY <1>1 DEF Sound, Account
<1>3. "REJECTED" \in TerminalStates
  BY DEF TerminalStates
<1>4. PICK o \in Outcomes : run' = Close(c, o)
  BY <1>1, <1>3, FinishedWith DEF Reject
<1>5. Sound(run)' /\ Ended(run)'
  BY <1>1, <1>2, <1>4, OpenAnswered, ClosedSound
<1> QED
  BY <1>5, EndedSettles

LEMMA PauseTrail ==
    ASSUME TrailInv, NEW c \in CheckedRuns, Pause(c)
    PROVE  Sound(run)' /\ Settlement'
<1>1. /\ Differs(run, c, {"events", "proposed", "decision"})
      /\ Sound(c) /\ Open(c)
  BY CheckedTrail DEF Pause, Superstep
<1>2. Recorded(c.events) /\ DOMAIN c = RunFields
  BY <1>1 DEF Sound, Account
<1>3. /\ Differs(c, run', {"events", "state", "questions", "approvalState"})
      /\ run'.state \in PausedStates
  BY <1>2, PausedShape DEF Pause
<1>4. PICK e : Logs(c, run', e) /\ e.type = "control_decision"
  BY <1>2, PausedLog DEF Pause
<1>5. /\ DOMAIN run' = RunFields /\ run'.contract = c.contract
      /\ run'.history = c.history /\ run'.evidence = c.evidence
      /\ run'.outcome = run.outcome
  BY <1>1, <1>3 DEF Differs, RunFields
<1>6. ~Is(e, "tool_call_started") /\ ~Is(e, "tool_call_completed")
  BY <1>4 DEF Is
<1>7. Sound(run)'
  BY <1>1, <1>2, <1>4, <1>5, <1>6, OpenAnswered, QuietSound
<1>8. Last(run)' = e /\ Len(run'.events) # 0
  BY <1>2, <1>4, LastLogged
<1>9. ~Running' /\ run'.outcome = None
  BY <1>3, <1>5 DEF Running, Pause, Superstep, PausedStates
<1>10. Settlement'
  BY <1>4, <1>8, <1>9 DEF Settlement, Settles, Last
<1> QED
  BY <1>7, <1>10

LEMMA EscapeTrail ==
    ASSUME TrailInv, NEW c \in CheckedRuns, NEW answer \in Answers(c), Escape(c, answer)
    PROVE  Sound(run)' /\ Settlement'
<1>1. /\ Running /\ c.decision.decision = "APPROVE" /\ run' = Started(c)
      /\ raised' = "UNCAUGHT"
  BY DEF Escape, Answers
<1>2. /\ Differs(run, run', {"events", "proposed", "decision", "history"})
      /\ Sound(run') /\ Len(run'.events) # 0 /\ Is(Last(run'), "tool_call_started")
  BY <1>1, StartedTrail
<1>3. run'.outcome = None
  BY <1>1, <1>2 DEF Differs, RunFields, Running
<1>4. ~Running'
  BY <1>1, EscapesAssumption DEF Running, Escapes
<1>5. Settlement'
  BY <1>2, <1>3, <1>4 DEF Settlement, Settles, Last, Is
<1> QED
  BY <1>2, <1>5

(* A failure that has just been logged, and what is logged next.           *)
LEMMA FailureFollowed ==
    ASSUME NEW q, NEW r, NEW s, NEW e, NEW f, NEW tool,
           Recorded(q.events), Logs(q, r, e), Logs(r, s, f),
           Is(e, "tool_call_failed"), Names(e, tool),
           f.code = e.code,
           LET earlier == Cardinality(Of(q, "tool_call_failed", tool))
           IN  IF tool \in ReadTools /\ e.code \in Transient /\ earlier < ReadRetries
               THEN f.type = "retry_scheduled" /\ f.retry = earlier + 1
               ELSE f.type = "run_failed"
    PROVE  Followed(s, Len(r.events))
<1> DEFINE n == Len(q.events)
           failed == "tool_call_failed"
<1>1. /\ n \in Nat /\ DOMAIN q.events = 1..n
      /\ \A k \in 1..n : r.events[k] = q.events[k]
      /\ r.events[n + 1] = e /\ Len(r.events) = n + 1 /\ Recorded(r.events)
  BY Appending DEF Logs
<1>2. /\ \A k \in 1..(n + 1) : s.events[k] = r.events[k]
      /\ s.events[(n + 1) + 1] = f
  BY <1>1, Appending DEF Logs
<1>3. Earlier(s, failed, n + 1) = Typed(q, failed)
  <2>1. Earlier(s, failed, n + 1) = Earlier(r, failed, n + 1)
    <3>1. n + 1 \in DOMAIN r.events
      BY <1>1, Appending DEF Logs
    <3> QED
      BY <1>1, <3>1, EarlierStands
  <2>2. Earlier(r, failed, n + 1) = Typed(q, failed)
    BY EarlierThanLast
  <2> QED
    BY <2>1, <2>2
<1> HIDE DEF n
<1>4. s.events[n + 1] = e /\ \A k \in 1..n : s.events[k] = q.events[k]
  BY <1>1, <1>2
<1>5. FailuresBefore(s, n + 1) = {j \in Typed(q, failed) : q.events[j].tool = tool}
  <2>1. FailuresBefore(s, n + 1) =
           {j \in Earlier(s, failed, n + 1) : s.events[j].tool = tool}
    BY <1>4 DEF FailuresBefore, Earlier, Names
  <2>2. Typed(q, failed) \subseteq 1..n
    BY <1>1 DEF Typed
  <2>3. \A j \in Typed(q, failed) : s.events[j].tool = q.events[j].tool
    BY <1>4, <2>2
  <2> QED
    BY <1>3, <2>1, <2>3
<1>6. FailuresBefore(s, n + 1) = Of(q, failed, tool)
  BY <1>5 DEF Of, Names
<1>7. /\ s.events[n + 1] = e /\ s.events[(n + 1) + 1] = f /\ e.tool = tool
  BY <1>2, <1>4 DEF Names
<1> HIDE DEF failed
<1>8. Followed(s, n + 1)
  BY <1>6, <1>7 DEF Followed, Transient, failed
<1> QED
  BY <1>1, <1>8

(* The call of a checked run has failed: it is retried exactly when its    *)
(* failure is transient and a retry is left.                               *)
LEMMA RetriedExactly ==
    ASSUME TrailInv, NEW c \in CheckedRuns, NEW answer \in Answers(c), Fail(c, answer)
    PROVE  LET tool == c.proposed.tool
           IN  /\ MayRetry(c, tool, answer) <=>
                     /\ tool \in ReadTools /\ answer.code \in Transient
                     /\ Attempts(run, tool) < ReadRetries
               /\ answer.code \in Reasons
<1> DEFINE tool == c.proposed.tool
<1>1. Running /\ c.decision.decision = "APPROVE" /\ answer.kind = "error"
  BY DEF Fail, Superstep, Answers
<1>2. /\ tool \in ToolNames /\ c.contract = run.contract /\ c.retry = run.retry
  BY <1>1, StartedCall DEF TrailInv, GInv
<1>3. PICK k \in 0..5 : tool = InvoiceTools[k + 1]
  BY <1>1, StartedCall DEF TrailInv, GInv
<1>4. run.contract.plan = BuildPlan
  BY <1>1 DEF TrailInv, GInv, IInv, RetryBudget
<1>5. /\ StepOf(BuildPlan, tool).max = IF k + 1 = 6 THEN 0 ELSE ReadRetries
      /\ StepOf(BuildPlan, tool).conditions = IF k + 1 = 6 THEN {} ELSE Transient
  BY <1>3, PlanRule, PlanConditions
<1>6. tool \in ReadTools <=> k + 1 # 6
  BY <1>3, ToolsDiffer
<1>7. answer.code \in ToolCodes /\ (answer.code \in Transient => answer.retryable)
  BY <1>1, <1>2, AnswerCode DEF Answers
<1>8. Attempts(c, tool) = Attempts(run, tool)
  BY <1>2 DEF Attempts
<1> HIDE DEF tool
<1>9. MayRetry(c, tool, answer) <=>
         /\ answer.retryable
         /\ answer.code \in StepOf(BuildPlan, tool).conditions
         /\ Attempts(run, tool) < StepOf(BuildPlan, tool).max
  BY <1>2, <1>4, <1>8 DEF MayRetry
<1>10. CASE k + 1 = 6
  BY <1>5, <1>6, <1>7, <1>9, <1>10 DEF Reasons, tool
<1>11. CASE k + 1 # 6
  BY <1>5, <1>6, <1>7, <1>9, <1>11 DEF Reasons, tool
<1> QED
  BY <1>10, <1>11

LEMMA FailTrail ==
    ASSUME TrailInv, NEW c \in CheckedRuns, NEW answer \in Answers(c), Fail(c, answer)
    PROVE  Sound(run)' /\ Settlement'
<1> DEFINE begun  == Started(c)
           failed == FailedCall(begun, answer.code)
           tool   == c.proposed.tool
           used   == Attempts(run, tool)
           starts == "tool_call_started"
           fails  == "tool_call_failed"
<1>1. Running /\ c.decision.decision = "APPROVE"
  BY DEF Fail, Superstep, Answers
<1>2. /\ Differs(run, begun, {"events", "proposed", "decision", "history"})
      /\ begun.proposed = c.proposed /\ begun.decision = c.decision
      /\ Sound(begun) /\ Open(begun) /\ Len(begun.events) # 0
      /\ tool \in ToolNames \ DOMAIN run.evidence
      /\ Cardinality(Of(begun, starts, tool)) = used + 1
      /\ Cardinality(Of(begun, fails, tool)) = used
      /\ \A t \in ToolNames \ DOMAIN run.evidence : t # tool =>
            /\ Cardinality(Of(begun, starts, t)) = 0
            /\ Cardinality(Of(begun, fails, t)) = 0
  BY <1>1, StartedTrail
<1>3. /\ used = run.retry.attempts /\ used \in 0..ReadRetries
      /\ \A t : t # tool => Attempts(run, t) = 0
  BY <1>1, LiveAttempts DEF TrailInv, GInv
<1>4. c.retry = run.retry
  BY <1>1, StartedCall DEF TrailInv, GInv
<1>5. /\ MayRetry(c, tool, answer) <=>
            tool \in ReadTools /\ answer.code \in Transient /\ used < ReadRetries
      /\ answer.code \in Reasons
  BY RetriedExactly
<1>6. run' = IF MayRetry(c, tool, answer) THEN ScheduleRetry(failed, tool, answer.code)
             ELSE FinishWith(failed, answer.code, "FAILED")
  BY DEF Fail
<1> HIDE DEF begun, used
<1>7. Recorded(begun.events) /\ DOMAIN begun = RunFields
  BY <1>2 DEF Sound, Account
<1>8. Differs(begun, failed, {"events", "observations"})
  BY <1>7, FailedCallShape
<1>9. PICK e : /\ Logs(begun, failed, e) /\ e.type = fails /\ e.tool = tool
               /\ e.code = answer.code
  BY <1>2, <1>7, FailedLog
<1> HIDE DEF failed, tool
<1>10. Is(e, fails) /\ Names(e, tool) /\ ~Is(e, starts) /\ ~Is(e, "tool_call_completed")
  BY <1>9 DEF Is, Names
<1>11. /\ DOMAIN failed = RunFields /\ failed.state = run.state
       /\ failed.contract = run.contract /\ failed.evidence = run.evidence
       /\ failed.retry = run.retry /\ failed.outcome = run.outcome
       /\ failed.contract = begun.contract /\ failed.evidence = begun.evidence
       /\ failed.history = begun.history
  BY <1>2, <1>8 DEF Differs, RunFields
<1>12. Sound(failed)
  BY <1>2, <1>7, <1>9, <1>10, <1>11, OpenAnswered, QuietSound
<1>13. Recorded(failed.events) /\ Logs(begun, failed, e)
  BY <1>9, <1>12 DEF Sound, Account
<1>14. CASE MayRetry(c, tool, answer)
  <2>1. run' = ScheduleRetry(failed, tool, answer.code)
    BY <1>6, <1>14
  <2>2. PICK f : /\ Logs(failed, run', f) /\ f.type = "retry_scheduled"
                 /\ f.code = answer.code /\ f.retry = Attempts(failed, tool) + 1
    BY <1>11, <2>1, ScheduledLog
  <2>3. /\ Differs(failed, run', {"events", "retry"})
        /\ run'.retry.attempts = Attempts(failed, tool) + 1
        /\ run'.retry.tool = tool
    BY <1>11, <2>1, ScheduleRetryShape
  <2>4. Attempts(failed, tool) = used
    BY <1>11 DEF Attempts, used
  <2>5. /\ DOMAIN run' = RunFields /\ run'.contract = failed.contract
        /\ run'.history = failed.history /\ run'.evidence = failed.evidence
        /\ run'.outcome = run.outcome
    BY <1>11, <2>3 DEF Differs, RunFields
  <2>6. /\ ~Is(f, starts) /\ ~Is(f, "tool_call_completed") /\ ~Is(f, fails)
    BY <2>2 DEF Is
  <2>7. Followed(run', Len(failed.events))
    <3>1. f.code = e.code /\ f.type = "retry_scheduled"
          /\ f.retry = Cardinality(Of(begun, fails, tool)) + 1
      BY <1>2, <1>9, <2>2, <2>4
    <3>2. /\ tool \in ReadTools /\ e.code \in Transient
          /\ Cardinality(Of(begun, fails, tool)) < ReadRetries
      BY <1>2, <1>5, <1>9, <1>14
    <3> QED
      BY <1>7, <1>10, <1>13, <2>2, <3>1, <3>2, FailureFollowed
  <2>8. Sound(run)'
    BY <1>12, <2>2, <2>5, <2>6, <2>7, QuietSound
  <2>9. Last(run)' = f /\ Len(run'.events) # 0
    BY <1>13, <2>2, LastLogged
  <2>10. Tally(run)'
    <3>1. \A t : Of(run', starts, t) = Of(begun, starts, t)
      BY <1>7, <1>10, <1>13, <2>2, <2>6, OfStands
    <3>2. \A t : Of(run', fails, t) = Of(failed, fails, t)
      BY <1>13, <2>2, <2>6, OfStands
    <3>3. Cardinality(Of(failed, fails, tool)) = used + 1
      BY <1>2, <1>7, <1>10, <1>13, OfGrows
    <3>4. \A t : t # tool => Of(failed, fails, t) = Of(begun, fails, t)
      <4>1. \A t : t # tool => ~Names(e, t)
        BY <1>10 DEF Names
      <4> QED
        BY <1>7, <1>13, <4>1, OfStands
    <3>5. /\ Attempts(run', tool) = used + 1
          /\ \A t : t # tool => Attempts(run', t) = 0
      BY <2>3, <2>4 DEF Attempts
    <3>6. run'.evidence = run.evidence
      BY <1>11, <2>5
    <3> QED
      BY <1>2, <3>1, <3>2, <3>3, <3>4, <3>5, <3>6 DEF Tally
  <2>11. run'.retry # NoRetry
    <3>1. run'.retry.attempts = used + 1 /\ used \in Nat
      BY <1>3, <2>3, <2>4, PolicyAssumption
    <3>2. NoRetry.attempts = 0
      BY DEF NoRetry
    <3> QED
      BY <3>1, <3>2
  <2>12. run'.outcome = None
    BY <1>1, <2>5 DEF Running
  <2>13. "inspect_invoice" \in DOMAIN run'.evidence =>
            ~InvoiceMismatch(run'.contract.intent.inputs, run'.evidence["inspect_invoice"])
    <3>1. run'.evidence = run.evidence /\ run'.contract = run.contract
      BY <1>11, <2>5
    <3> QED
      BY <1>1, <3>1 DEF TrailInv, Settlement, Settles
  <2>14. Settlement'
    BY <2>2, <2>9, <2>10, <2>11, <2>12, <2>13 DEF Settlement, Settles, Last
  <2> QED
    BY <2>8, <2>14
<1>15. CASE ~MayRetry(c, tool, answer)
  <2>1. "FAILED" \in TerminalStates
    BY DEF TerminalStates
  <2>2. PICK o \in Outcomes : /\ run' = Close(failed, o)
                              /\ o.reason = answer.code /\ o.status = "FAILED"
    BY <1>5, <1>6, <1>15, <2>1, FinishedWith
  <2>3. PICK f : Logs(failed, run', f) /\ f.type = "run_failed" /\ f.code = answer.code
    BY <1>11, <2>2, ClosedLog
  <2>4. Followed(run', Len(failed.events))
    <3>1. f.code = e.code /\ f.type = "run_failed"
      BY <1>9, <2>3
    <3>2. ~(/\ tool \in ReadTools /\ e.code \in Transient
            /\ Cardinality(Of(begun, fails, tool)) < ReadRetries)
      BY <1>2, <1>5, <1>9, <1>15
    <3> QED
      BY <1>7, <1>10, <1>13, <2>3, <3>1, <3>2, FailureFollowed
  <2>5. Sound(run)' /\ Ended(run)'
    BY <1>12, <2>2, <2>4, ClosedSound
  <2> QED
    BY <2>5, EndedSettles
<1> QED
  BY <1>14, <1>15

LEMMA SucceedTrail ==
    ASSUME TrailInv, NEW c \in CheckedRuns, NEW answer \in Answers(c), Succeed(c, answer)
    PROVE  Sound(run)' /\ Settlement'
<1> DEFINE begun  == Started(c)
           done   == CompletedCall(begun, answer.output)
           tool   == c.proposed.tool
           starts == "tool_call_started"
           fails  == "tool_call_failed"
           ends   == "tool_call_completed"
<1>1. Running /\ c.decision.decision = "APPROVE"
  BY DEF Succeed, Superstep, Answers
<1>2. /\ Differs(run, begun, {"events", "proposed", "decision", "history"})
      /\ begun.proposed = c.proposed /\ Sound(begun) /\ Open(begun)
      /\ tool \in ToolNames
      /\ \A t \in ToolNames \ DOMAIN run.evidence : t # tool =>
            /\ Cardinality(Of(begun, starts, t)) = 0
            /\ Cardinality(Of(begun, fails, t)) = 0
  BY <1>1, StartedTrail
<1>3. PICK k \in 0..5 : tool = InvoiceTools[k + 1] /\ DOMAIN run.evidence = Prefix(k)
  BY <1>1, StartedCall DEF TrailInv, GInv
<1>4. run' = Settled(done, tool, answer.output)
  BY DEF Succeed
<1> HIDE DEF begun
<1>5. Recorded(begun.events) /\ DOMAIN begun = RunFields /\ Account(begun)
  BY <1>2 DEF Sound, Account
<1>6. begun.evidence = run.evidence /\ begun.contract = run.contract
  BY <1>2 DEF Differs, RunFields
<1>7. Account(done)
  BY <1>2, <1>3, <1>5, <1>6, CompletedAccount
<1>8. /\ Differs(begun, done, {"events", "evidence", "observations", "retry"})
      /\ done.evidence = Put(begun.evidence, begun.proposed.tool, answer.output)
      /\ done.retry = NoRetry
  BY <1>5, CompletedCallShape
<1>9. PICK e : Logs(begun, done, e) /\ e.type = ends
  BY <1>5, CompletedLog
<1> HIDE DEF done
<1>10. ~Is(e, starts) /\ ~Is(e, fails)
  BY <1>9 DEF Is
<1>11. FollowedUp(done)
  BY <1>2, <1>5, <1>9, OpenAnswered, FollowedUpGrows DEF Sound
<1>12. \A t : Of(done, starts, t) = Of(begun, starts, t) /\ Of(done, fails, t) = Of(begun, fails, t)
  BY <1>5, <1>9, <1>10, OfStands
<1>13. CallsBounded(done)
  BY <1>2, <1>12 DEF Sound, CallsBounded
<1>14. Sound(done) /\ Recorded(done.events)
  BY <1>7, <1>11, <1>13 DEF Sound, Account
<1>15. Last(done) = e /\ Len(done.events) # 0
  BY <1>5, <1>9, LastLogged
<1>16. Open(done)
  BY <1>10, <1>15 DEF Open
<1>17. /\ done.contract = run.contract /\ done.outcome = None
       /\ done.evidence = Put(run.evidence, tool, answer.output)
  BY <1>1, <1>2, <1>6, <1>8 DEF Differs, RunFields, Running
<1> HIDE DEF tool
<1>18. ASSUME NEW reason \in Reasons, run' = FinishWith(done, reason, "FAILED")
       PROVE  Sound(run)' /\ Settlement'
  <2>1. "FAILED" \in TerminalStates
    BY DEF TerminalStates
  <2>2. PICK o \in Outcomes : run' = Close(done, o)
    BY <1>18, <2>1, FinishedWith
  <2>3. Sound(run)' /\ Ended(run)'
    BY <1>14, <1>16, <2>2, OpenAnswered, ClosedSound
  <2> QED
    BY <2>3, EndedSettles
<1>19. CASE tool = "inspect_invoice" /\ InvoiceMismatch(run.contract.intent.inputs, answer.output)
  <2>1. run' = FinishWith(done, "INVOICE_INPUT_MISMATCH", "FAILED")
    BY <1>4, <1>17, <1>19 DEF Settled
  <2>2. "INVOICE_INPUT_MISMATCH" \in Reasons
    BY DEF Reasons
  <2> QED
    BY <1>18, <2>1, <2>2
<1>20. CASE run' = FinishWith(done, "DUPLICATE_INVOICE", "FAILED")
  <2>1. "DUPLICATE_INVOICE" \in Reasons
    BY DEF Reasons, ToolCodes
  <2> QED
    BY <1>18, <1>20, <2>1
<1>21. CASE /\ run' = done
            /\ ~(/\ tool = "inspect_invoice"
                 /\ InvoiceMismatch(run.contract.intent.inputs, answer.output))
  <2>1. Tally(done)
    <3>1. \A t : Attempts(done, t) = 0
      BY <1>8 DEF Attempts, NoRetry
    <3>2. \A t \in ToolNames \ DOMAIN done.evidence :
             t \in ToolNames \ DOMAIN run.evidence /\ t # tool
      BY <1>17 DEF Put
    <3> QED
      BY <1>2, <1>12, <3>1, <3>2 DEF Tally, tool
  <2>2. "inspect_invoice" \in DOMAIN done.evidence =>
           ~InvoiceMismatch(done.contract.intent.inputs, done.evidence["inspect_invoice"])
    <3>1. CASE tool = "inspect_invoice"
      BY <1>17, <1>21, <3>1 DEF Put
    <3>2. CASE tool # "inspect_invoice"
      <4>1. "inspect_invoice" \in DOMAIN done.evidence =>
               /\ "inspect_invoice" \in DOMAIN run.evidence
               /\ done.evidence["inspect_invoice"] = run.evidence["inspect_invoice"]
        BY <1>17, <3>2 DEF Put
      <4> QED
        BY <1>1, <1>17, <4>1 DEF TrailInv, Settlement, Settles
    <3> QED
      BY <3>1, <3>2
  <2>3. Settlement'
    BY <1>8, <1>9, <1>15, <1>17, <1>21, <2>1, <2>2 DEF Settlement, Settles, Last
  <2> QED
    BY <1>14, <1>21, <2>3
<1>22. \/ tool = "inspect_invoice" /\ InvoiceMismatch(run.contract.intent.inputs, answer.output)
       \/ run' = FinishWith(done, "DUPLICATE_INVOICE", "FAILED")
       \/ /\ run' = done
          /\ ~(/\ tool = "inspect_invoice"
               /\ InvoiceMismatch(run.contract.intent.inputs, answer.output))
  BY <1>4, <1>17 DEF Settled
<1> QED
  BY <1>19, <1>20, <1>21, <1>22

----------------------------------------------------------------------------
(* A new execution.                                                        *)

(* An event about no call keeps a log without calls sound.                 *)
LEMMA NothingCalled ==
    ASSUME NEW r, NEW s, NEW e, Sound(r), Open(r), Logs(r, s, e),
           Differs(r, s, {"events", "state"}),
           e.type \notin {"tool_call_started", "tool_call_failed", "tool_call_completed"}
    PROVE  /\ Sound(s) /\ Open(s) /\ Last(s) = e /\ Len(s.events) # 0
           /\ \A tool : /\ Of(s, "tool_call_started", tool) = Of(r, "tool_call_started", tool)
                        /\ Of(s, "tool_call_failed", tool) = Of(r, "tool_call_failed", tool)
<1>1. Recorded(r.events)
  BY DEF Sound, Account
<1>2. /\ ~Is(e, "tool_call_started") /\ ~Is(e, "tool_call_failed")
      /\ ~Is(e, "tool_call_completed")
  BY DEF Is
<1>3. /\ DOMAIN s = RunFields /\ s.contract = r.contract /\ s.history = r.history
      /\ s.evidence = r.evidence
  BY DEF Differs, RunFields
<1>4. Sound(s)
  BY <1>1, <1>2, <1>3, OpenAnswered, QuietSound
<1>5. Last(s) = e /\ Len(s.events) # 0
  BY <1>1, LastLogged
<1>6. \A tool : /\ Of(s, "tool_call_started", tool) = Of(r, "tool_call_started", tool)
                /\ Of(s, "tool_call_failed", tool) = Of(r, "tool_call_failed", tool)
  BY <1>1, <1>2, OfStands
<1> QED
  BY <1>2, <1>4, <1>5, <1>6 DEF Open

LEMMA NewSound ==
    ASSUME NEW r, DOMAIN r = RunFields, r.events = <<>>, r.history = <<>>,
           r.evidence = <<>>, r.state = "AWAITING_DECISION"
    PROVE  /\ Sound(r) /\ Open(r)
           /\ \A type, tool : Of(r, type, tool) = {}
<1>1. /\ DOMAIN r.events = {} /\ Len(r.events) = 0 /\ DOMAIN r.evidence = {}
      /\ Len(r.history) = 0 /\ r.history \in Seq(Nat)
  OBVIOUS
<1>2. Recorded(r.events) /\ Open(r)
  BY DEF Recorded, Open
<1>3. \A type : Typed(r, type) = {}
  BY <1>1 DEF Typed
<1>4. Continuous(r)
  BY <1>1 DEF Continuous
<1>5. Cardinality({}) = 0
  BY FS_EmptySet
<1>6. HistoryLogged(r)
  BY <1>1, <1>3, <1>5 DEF HistoryLogged
<1>7. EvidenceLogged(r)
  <2>1. Prefix(0) = {}
    BY DEF Prefix
  <2>2. Typed(r, "tool_call_completed") = {}
    BY <1>3
  <2>3. DOMAIN r.evidence = Prefix(0) /\ 0 \in 0..6
    BY <1>1, <2>1
  <2>4. DOMAIN r.evidence = {r.events[k].tool : k \in Typed(r, "tool_call_completed")}
    BY <1>1, <2>2
  <2> QED
    BY <1>5, <2>2, <2>3, <2>4 DEF EvidenceLogged
<1>8. CallsApproved(r)
  BY <1>3 DEF CallsApproved
<1>9. \A type, tool : Of(r, type, tool) = {}
  BY <1>3 DEF Of
<1>10. FollowedUp(r)
  BY <1>3 DEF FollowedUp
<1>11. CallsBounded(r)
  <2>1. \A tool : Cardinality(Of(r, "tool_call_started", tool)) = 0
    BY <1>5, <1>9
  <2> QED
    BY <2>1, PolicyAssumption DEF CallsBounded
<1> QED
  BY <1>2, <1>4, <1>6, <1>7, <1>8, <1>9, <1>10, <1>11 DEF Sound, Account

(* How an execution begins: nothing has been called, and either it has     *)
(* ended or its last event says neither that nor that a call has failed.   *)
Begun(r) ==
    /\ Sound(r) /\ Len(r.events) # 0
    /\ \/ Ended(r)
       \/ /\ r.outcome = None
          /\ Last(r).type \in {"control_decision", "run_started"}
          /\ \A tool : /\ Of(r, "tool_call_started", tool) = {}
                       /\ Of(r, "tool_call_failed", tool) = {}

LEMMA FreshTrail ==
    ASSUME NEW id, NEW order, NEW r \in Beginnings(id, order)
    PROVE  Begun(r)
<1> DEFINE gateA == Decide(order.intent)
           new   == NewRun(id, order, gateA)
           starts == "tool_call_started"
           fails  == "tool_call_failed"
<1>1. r = Start(new)
  BY DEF Beginnings
<1>2. /\ DOMAIN new = RunFields /\ new.events = <<>> /\ new.history = <<>>
      /\ new.evidence = <<>> /\ new.state = "AWAITING_DECISION" /\ new.outcome = None
      /\ new.contract.gateA = gateA
      /\ new.contract.plan = IF Authorised(gateA, order.approval) THEN BuildPlan ELSE None
  BY DEF NewRun, RunFields
<1> HIDE DEF new
<1>3. /\ Sound(new) /\ Open(new)
      /\ \A tool : Of(new, starts, tool) = {} /\ Of(new, fails, tool) = {}
  BY <1>2, NewSound
<1>4. ASSUME NEW state
      PROVE  LET j == Judged(new, state)
             IN  /\ Sound(j) /\ Open(j) /\ Last(j).type = "control_decision"
                 /\ Len(j.events) # 0 /\ DOMAIN j = RunFields
                 /\ j.outcome = None /\ j.contract = new.contract
                 /\ \A tool : Of(j, starts, tool) = {} /\ Of(j, fails, tool) = {}
  <2> DEFINE j == Judged(new, state)
  <2>1. Differs(new, j, {"events", "state"})
    BY <1>2, JudgedLog
  <2>2. PICK e : Logs(new, j, e) /\ e.type = "control_decision"
    BY <1>2, JudgedLog
  <2>3. /\ DOMAIN j = RunFields /\ j.outcome = None /\ j.contract = new.contract
    BY <1>2, <2>1 DEF Differs, RunFields
  <2> HIDE DEF j
  <2>4. /\ Sound(j) /\ Open(j) /\ Last(j) = e /\ Len(j.events) # 0
        /\ \A tool : Of(j, starts, tool) = {} /\ Of(j, fails, tool) = {}
    BY <1>3, <2>1, <2>2, NothingCalled
  <2> QED
    BY <2>2, <2>3, <2>4 DEF j
<1>5. CASE new.contract.plan # None
  <2> DEFINE approved == Judged(new, "APPROVED")
             planned  == Enter(approved, "plan_created", "PLANNED")
             running  == Enter(planned, "run_started", "RUNNING")
  <2>1. r = running
    BY <1>1, <1>5 DEF Start
  <2>2. /\ Sound(approved) /\ Open(approved) /\ DOMAIN approved = RunFields
        /\ approved.outcome = None
        /\ \A tool : Of(approved, starts, tool) = {} /\ Of(approved, fails, tool) = {}
    BY <1>4
  <2> HIDE DEF approved
  <2>3. Differs(approved, planned, {"events", "state"})
    BY <2>2, EnteredLog
  <2>4. PICK e : Logs(approved, planned, e) /\ e.type = "plan_created"
    BY <2>2, EnteredLog
  <2> HIDE DEF planned
  <2>5. /\ Sound(planned) /\ Open(planned)
        /\ \A tool : Of(planned, starts, tool) = {} /\ Of(planned, fails, tool) = {}
    BY <2>2, <2>3, <2>4, NothingCalled
  <2>6. DOMAIN planned = RunFields /\ planned.outcome = None
    BY <2>2, <2>3 DEF Differs, RunFields
  <2>7. Differs(planned, running, {"events", "state"})
    BY <2>6, EnteredLog
  <2>8. PICK f : Logs(planned, running, f) /\ f.type = "run_started"
    BY <2>6, EnteredLog
  <2> HIDE DEF running
  <2>9. /\ Sound(running) /\ Last(running) = f /\ Len(running.events) # 0
        /\ \A tool : Of(running, starts, tool) = {} /\ Of(running, fails, tool) = {}
    BY <2>5, <2>7, <2>8, NothingCalled
  <2>10. running.outcome = None
    BY <2>6, <2>7 DEF Differs, RunFields
  <2> QED
    BY <2>1, <2>8, <2>9, <2>10 DEF Begun
<1>6. CASE r \in {Judged(new, "CLARIFICATION_REQUIRED"), Judged(new, "ESCALATION_REQUIRED")}
  <2>1. PICK state : r = Judged(new, state)
    BY <1>6
  <2> QED
    BY <1>4, <2>1 DEF Begun
<1>7. CASE /\ r = FinishWith(Judged(new, "REJECTED"), gateA.code, "REJECTED")
           /\ new.contract.plan = None
           /\ gateA.decision \notin {"CLARIFY", "ESCALATE"}
  <2> DEFINE j == Judged(new, "REJECTED")
  <2>1. Sound(j) /\ Open(j)
    BY <1>4
  <2>2. Recorded(j.events)
    BY <2>1 DEF Sound, Account
  <2>3. gateA.code \in Reasons
    <3>1. gateA.decision # "APPROVE"
      BY <1>2, <1>7, OutcomesAssumption DEF Authorised
    <3>2. gateA.decision \in {"APPROVE", "CLARIFY", "ESCALATE", "REJECT"}
      BY DEF Decide, GateADecision
    <3>3. gateA.decision = "REJECT"
      BY <1>7, <3>1, <3>2
    <3> QED
      BY <3>3, GateCode
  <2> HIDE DEF j, gateA
  <2>4. "REJECTED" \in TerminalStates
    BY DEF TerminalStates
  <2>5. PICK o \in Outcomes : r = Close(j, o)
    BY <1>7, <2>3, <2>4, FinishedWith DEF j
  <2>6. Sound(r) /\ Ended(r)
    BY <2>1, <2>2, <2>5, OpenAnswered, ClosedSound
  <2> QED
    BY <2>6 DEF Begun, Ended
<1>8. \/ new.contract.plan # None
      \/ r \in {Judged(new, "CLARIFICATION_REQUIRED"), Judged(new, "ESCALATION_REQUIRED")}
      \/ /\ r = FinishWith(Judged(new, "REJECTED"), gateA.code, "REJECTED")
         /\ new.contract.plan = None
         /\ gateA.decision \notin {"CLARIFY", "ESCALATE"}
  <2> HIDE DEF gateA
  <2> QED
    BY <1>1, <1>2 DEF Start
<1> QED
  BY <1>5, <1>6, <1>7, <1>8

LEMMA BegunSettles ==
    ASSUME NEW r, Begun(r), r.retry = NoRetry, DOMAIN r.evidence = {},
           NEW active \in BOOLEAN, r.outcome # None => ~active
    PROVE  Settles(r, active)
<1>1. CASE Ended(r)
  BY <1>1 DEF Ended, Settles
<1>2. CASE ~Ended(r)
  <2>1. /\ r.outcome = None
        /\ Last(r).type \in {"control_decision", "run_started"}
        /\ Len(r.events) # 0
    BY <1>2 DEF Begun
  <2>2. Tally(r)
    <3>1. \A tool : /\ Cardinality(Of(r, "tool_call_started", tool)) = 0
                    /\ Cardinality(Of(r, "tool_call_failed", tool)) = 0
      BY <1>2, FS_EmptySet DEF Begun
    <3>2. \A tool : Attempts(r, tool) = 0
      BY DEF Attempts, NoRetry
    <3> QED
      BY <3>1, <3>2 DEF Tally
  <2> QED
    BY <2>1, <2>2 DEF Settles
<1> QED
  BY <1>1, <1>2

(* What an execution begins with is sound and settled.                     *)
LEMMA FreshSettles ==
    ASSUME NEW id, NEW order, NEW r \in Beginnings(id, order),
           NEW active \in BOOLEAN, r.outcome # None => ~active
    PROVE  Sound(r) /\ Settles(r, active)
<1>1. PICK gateA : r = Start(NewRun(id, order, gateA))
  BY DEF Beginnings
<1>2. r.retry = NoRetry /\ DOMAIN r.evidence = {}
  BY <1>1, StartShape, FreshRun
<1>3. Begun(r)
  BY FreshTrail
<1> QED
  BY <1>2, <1>3, BegunSettles DEF Begun

----------------------------------------------------------------------------
LEMMA BeginningTrail ==
    ASSUME TrailInv, NEW id, NEW order, run' \in Beginnings(id, order),
           steps' = 0, raised' = None, UNCHANGED staged
    PROVE  TrailInv'
<1>1. GInv'
  BY BeginningGoverned DEF TrailInv
<1>2. Running' \in BOOLEAN /\ (run'.outcome # None => ~Running')
  BY DEF Running
<1>3. Sound(run') /\ Settles(run', Running')
  BY <1>2, FreshSettles
<1> QED
  BY <1>1, <1>3 DEF TrailInv, Settlement

LEMMA TrailStep == TrailInv /\ [Next]_vars => TrailInv'
<1> SUFFICES ASSUME TrailInv, [Next]_vars PROVE TrailInv'
  OBVIOUS
<1>1. GInv'
  BY StepIsGoverned DEF TrailInv
<1>2. CASE FinishRun
  BY <1>1, <1>2, FinishRunTrail DEF TrailInv
<1>3. ASSUME NEW c \in CheckedRuns, Reject(c) \/ Pause(c)
      PROVE  TrailInv'
  BY <1>1, <1>3, RejectTrail, PauseTrail DEF TrailInv
<1>4. ASSUME NEW c \in CheckedRuns, NEW answer \in Answers(c),
             Fail(c, answer) \/ Escape(c, answer) \/ Succeed(c, answer)
      PROVE  TrailInv'
  BY <1>1, <1>4, FailTrail, EscapeTrail, SucceedTrail DEF TrailInv
<1>5. ASSUME NEW order \in Orders, Execute(order)
      PROVE  TrailInv'
  BY <1>5, BeginningTrail DEF Execute, envVars
<1>6. CASE UNCHANGED vars
  <2>1. run' = run /\ Running' = Running
    BY <1>6 DEF vars, Running
  <2> QED
    BY <1>1, <2>1 DEF TrailInv, Settlement
<1> QED
  BY <1>2, <1>3, <1>4, <1>5, <1>6 DEF Next, Advance

LEMMA TrailInit == Init => TrailInv
<1> SUFFICES ASSUME Init PROVE TrailInv
  OBVIOUS
<1>1. PICK order \in Orders : run \in Beginnings(1, order)
  BY DEF Init
<1>2. Running \in BOOLEAN /\ (run.outcome # None => ~Running)
  BY DEF Running
<1>3. Sound(run) /\ Settles(run, Running)
  BY <1>1, <1>2, FreshSettles
<1> QED
  BY <1>3, InitBegins DEF TrailInv, Settlement

LEMMA TrailInductive == Spec => []TrailInv
BY TrailInit, TrailStep, PTL DEF Spec

----------------------------------------------------------------------------
(* What the runs check, read from the invariant.                           *)

LEMMA TypedEvents ==
    ASSUME NEW type
    PROVE  Typed(run, type) = EventsOfType(type)
BY DEF Typed, EventsOfType

(* For every set of proposal edits: a call that starts is the plan's next  *)
(* one, with the arguments that the contract and the evidence determine,   *)
(* and right after Gate B approved this very attempt (_dispatch).          *)
THEOREM CallsAreAuthorised == Spec => []OnlyAuthorisedCalls
<1>1. TrailInv => OnlyAuthorisedCalls
  <2> SUFFICES ASSUME TrailInv, NEW k \in EventsOfType("tool_call_started")
               PROVE  LET before == {j \in EventsOfType("tool_call_completed") : j < k}
                          tool   == InvoiceTools[Cardinality(before) + 1]
                          check  == run.events[k - 1]
                      IN  /\ run.events[k].tool = tool
                          /\ run.events[k].arguments = Arguments(run, tool)
                          /\ check.type = "runtime_policy_check" /\ check.decision = "APPROVE"
                          /\ check.tool = tool /\ check.action = run.events[k].action
    BY DEF OnlyAuthorisedCalls
  <2>1. k \in Typed(run, "tool_call_started")
    BY TypedEvents
  <2>2. Earlier(run, "tool_call_completed", k)
           = {j \in EventsOfType("tool_call_completed") : j < k}
    BY TypedEvents DEF Earlier
  <2>3. CallsApproved(run)
    BY DEF TrailInv, Sound, Account
  <2> QED
    BY <2>1, <2>2, <2>3 DEF CallsApproved
<1> QED
  BY <1>1, TrailInductive, PTL

(* Whatever fails and however often, a failed call is followed at once by  *)
(* one retry or by the end of the run; transient failures of reads are     *)
(* retried ReadRetries times, and staging is called once (_dispatch,       *)
(* _tool_failure).                                                         *)
THEOREM RetriesAreDisciplined == Spec => []RetryDiscipline
<1>1. TrailInv => RetryDiscipline
  <2> SUFFICES ASSUME TrailInv PROVE RetryDiscipline
    OBVIOUS
  <2>1. Recorded(run.events) /\ FollowedUp(run) /\ CallsBounded(run)
    BY DEF TrailInv, Sound, Account
  <2>2. DOMAIN run.events = 1..Len(run.events) /\ Len(run.events) \in Nat
    BY <2>1 DEF Recorded
  <2>3. ASSUME NEW k \in EventsOfType("tool_call_failed")
        PROVE  k < Len(run.events) /\ Followed(run, k)
    <3>1. k \in Typed(run, "tool_call_failed") /\ k \in 1..Len(run.events)
      BY <2>2, TypedEvents DEF Typed
    <3>2. ~Is(Last(run), "tool_call_failed")
      BY DEF TrailInv, Settlement, Settles, Is
    <3>3. Is(run.events[k], "tool_call_failed")
      BY <3>1 DEF Typed, Is
    <3>4. k # Len(run.events)
      BY <3>2, <3>3 DEF Last
    <3>5. k < Len(run.events)
      BY <2>2, <3>1, <3>4
    <3> QED
      BY <2>1, <3>1, <3>5 DEF FollowedUp
  <2>4. \A tool : Of(run, "tool_call_started", tool) = CallsOf(tool)
    BY TypedEvents DEF Of, Names, CallsOf
  <2>5. \A tool \in ToolNames :
           Cardinality(CallsOf(tool)) <= IF tool \in ReadTools THEN ReadRetries + 1 ELSE 1
    BY <2>1, <2>4 DEF CallsBounded
  <2>6. /\ \A tool \in ReadTools : Cardinality(CallsOf(tool)) <= ReadRetries + 1
        /\ Cardinality(CallsOf("stage_payment")) <= 1
    <3>1. "stage_payment" \in ToolNames
      BY ToolsDiffer DEF ToolNames
    <3> QED
      BY <2>5, <3>1 DEF ReadTools
  <2>7. ASSUME NEW k \in EventsOfType("tool_call_failed")
        PROVE  LET failure   == run.events[k]
                   next      == run.events[k + 1]
                   earlier   == Cardinality({j \in EventsOfType("tool_call_failed") :
                                           j < k /\ run.events[j].tool = failure.tool})
                   transient == /\ failure.tool \in ReadTools
                                /\ failure.code \in {"TOOL_TIMEOUT", "MALFORMED_TOOL_RESPONSE"}
               IN  /\ k < Len(run.events)
                   /\ next.code = failure.code
                   /\ IF transient /\ earlier < ReadRetries
                      THEN next.type = "retry_scheduled" /\ next.retry = earlier + 1
                      ELSE next.type = "run_failed"
    <3>1. FailuresBefore(run, k) = {j \in EventsOfType("tool_call_failed") :
                                       j < k /\ run.events[j].tool = run.events[k].tool}
      BY TypedEvents DEF FailuresBefore
    <3>2. k < Len(run.events) /\ Followed(run, k)
      BY <2>3
    <3> QED
      BY <3>1, <3>2 DEF Followed
  <2> QED
    BY <2>6, <2>7 DEF RetryDiscipline
<1> QED
  BY <1>1, TrailInductive, PTL

LEMMA LogReplays == TrailInv => TrailReplays
<1> SUFFICES ASSUME TrailInv PROVE TrailReplays
  OBVIOUS
<1> DEFINE events == run.events
           n      == Len(events)
           starts == EventsOfType("tool_call_started")
           ends   == EventsOfType("tool_call_completed")
           last   == events[n]
<1>1. /\ Recorded(events) /\ Continuous(run) /\ HistoryLogged(run) /\ EvidenceLogged(run)
  BY DEF TrailInv, Sound, Account
<1>2. DOMAIN events = 1..n /\ n \in Nat /\ n # 0
  BY <1>1 DEF Recorded, TrailInv, Settlement, Settles
<1>3. Typed(run, "tool_call_started") = starts /\ Typed(run, "tool_call_completed") = ends
  BY TypedEvents
<1>4. \A k \in 1..(n - 1) : events[k].after = events[k + 1].before
  <2>1. ASSUME NEW k \in 1..(n - 1) PROVE events[k].after = events[k + 1].before
    <3>1. k + 1 \in 1..n /\ k + 1 # 1 /\ (k + 1) - 1 = k
      BY <1>2
    <3> QED
      BY <1>1, <1>2, <3>1 DEF Continuous
  <2> QED
    BY <2>1
<1>5. events[1].before = "AWAITING_DECISION" /\ last.after = run.state
  <2>1. 1 \in 1..n
    BY <1>2
  <2> QED
    BY <1>1, <1>2, <2>1 DEF Continuous
<1>6. /\ Len(run.history) = Cardinality(starts)
      /\ \A k \in starts :
            run.history[Cardinality({j \in starts : j <= k})] = events[k].action
  <2>1. ASSUME NEW k \in starts
        PROVE  run.history[Cardinality({j \in starts : j <= k})] = events[k].action
    <3> DEFINE before == Earlier(run, "tool_call_started", k)
    <3>1. k \in 1..n /\ starts \subseteq 1..n
      BY <1>2 DEF EventsOfType
    <3>2. before = {j \in starts : j < k}
      BY <1>3 DEF Earlier
    <3>3. IsFiniteSet(before)
      BY <1>1, <1>2, <3>1, Counted
    <3> HIDE DEF before
    <3>4. k \notin before
      BY <3>1, <3>2
    <3>5. {j \in starts : j <= k} = before \cup {k}
      BY <3>1, <3>2
    <3>6. Cardinality({j \in starts : j <= k}) = Cardinality(before) + 1
      BY <3>3, <3>4, <3>5, FS_AddElement
    <3>7. run.history[Cardinality(before) + 1] = events[k].action
      BY <1>1, <1>3 DEF HistoryLogged, before
    <3> QED
      BY <3>6, <3>7
  <2>2. Len(run.history) = Cardinality(starts)
    BY <1>1, <1>3 DEF HistoryLogged
  <2> QED
    BY <2>1, <2>2
<1>7. /\ DOMAIN run.evidence = {events[k].tool : k \in ends}
      /\ \A k \in ends : run.evidence[events[k].tool] = events[k].output
  BY <1>1, <1>3 DEF EvidenceLogged
<1>8. /\ Running => (run.retry # NoRetry <=> last.type = "retry_scheduled")
      /\ (run.outcome # None) = (last.type \in {"run_completed", "run_failed"})
      /\ run.outcome # None => last.code = run.outcome.reason
  BY DEF TrailInv, Settlement, Settles, Last
<1> QED
  BY <1>4, <1>5, <1>6, <1>7, <1>8 DEF TrailReplays

(* The event log yields the state, the history, the evidence, the live     *)
(* retry and the outcome of a run at every one of its states (_event).     *)
THEOREM LogIsComplete == Spec => []TrailReplays
BY LogReplays, TrailInductive, PTL
=============================================================================
