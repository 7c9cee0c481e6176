---------------------------- MODULE EpisodeProofs ----------------------------
(***************************************************************************)
(* The controlled experiment compares like with like, for any tasks,       *)
(* master data, limit and number of retries: without a human, the gates    *)
(* withhold calls and change nothing else.                                 *)
(*                                                                         *)
(* The two arms of a task run one after the other.  An arm is              *)
(* deterministic, so what the first one did is kept as a finite trace of   *)
(* its states, and the second is followed along that trace: as long as the *)
(* gates approve, the two arms are alike in everything but the codes of    *)
(* the gates; once they do not, the gated arm has ended.                   *)
(***************************************************************************)
EXTENDS AgentEpisodes, TrailProofs

----------------------------------------------------------------------------
(* Runs that are alike.                                                    *)

(* The logs agree event by event, but for the codes of the gates.          *)
SameLog(log, other) ==
    /\ Recorded(log) /\ Recorded(other)
    /\ Len(log) = Len(other)
    /\ \A k \in 1..Len(log) : SameEvent(log[k], other[k])

SameContract(c, d) ==
    /\ c.run = d.run /\ c.intent = d.intent /\ c.plan = d.plan
    /\ c.approval = None /\ d.approval = None
    /\ c.gateA.decision = "APPROVE" /\ d.gateA.decision = "APPROVE"
    /\ c.gateA.policy_version = d.gateA.policy_version

(* Neither run has come to its first decision, or both have been approved. *)
SameApproval(r, s) ==
    \/ r.decision = None /\ s.decision = None
    \/ /\ r.decision # None /\ s.decision # None
       /\ r.decision.decision = "APPROVE" /\ s.decision.decision = "APPROVE"
       /\ r.decision.action = s.decision.action
       /\ r.decision.action \in Nat

Carried == {"state", "outcome", "evidence", "history", "retry", "proposed"}

SameWork(r, s) ==
    /\ DOMAIN r = RunFields /\ DOMAIN s = RunFields
    /\ \A f \in Carried : r[f] = s[f]
    /\ r.history \in Seq(Nat)
    /\ SameContract(r.contract, s.contract)
    /\ SameApproval(r, s)

Alike(r, s) == SameWork(r, s) /\ SameLog(r.events, s.events)

LEMMA SameLogGrows ==
    ASSUME NEW log, NEW other, NEW e, NEW f, SameLog(log, other), SameEvent(e, f)
    PROVE  SameLog(Append(log, e), Append(other, f))
<1> DEFINE n == Len(log)
           s == Append(log, e)
           t == Append(other, f)
<1>1. /\ Recorded(s) /\ n \in Nat /\ Len(s) = n + 1
      /\ \A k \in 1..n : s[k] = log[k]
      /\ s[n + 1] = e
  BY Appending DEF SameLog
<1>2. /\ Recorded(t) /\ Len(t) = n + 1
      /\ \A k \in 1..n : t[k] = other[k]
      /\ t[n + 1] = f
  BY Appending DEF SameLog
<1>3. \A k \in 1..n : SameEvent(log[k], other[k])
  BY DEF SameLog
<1> HIDE DEF n, s, t
<1>4. \A k \in 1..(n + 1) : k \in 1..n \/ k = n + 1
  BY <1>1
<1>5. \A k \in 1..(n + 1) : SameEvent(s[k], t[k])
  BY <1>1, <1>2, <1>3, <1>4
<1> QED
  BY <1>1, <1>2, <1>5 DEF SameLog, s, t

(* What a handler appends to both logs is the same event.                  *)
LEMMA SameLogAppends ==
    ASSUME NEW r, NEW s, NEW e, NEW q, NEW p, SameLog(r.events, s.events),
           q.events = Append(r.events, e), p.events = Append(s.events, e)
    PROVE  SameLog(q.events, p.events)
BY SameLogGrows DEF SameEvent

----------------------------------------------------------------------------
(* The handlers keep runs alike.                                           *)

LEMMA StartedAlike ==
    ASSUME NEW r, NEW s, Alike(r, s), r.decision # None
    PROVE  Alike(Started(r), Started(s))
<1> DEFINE event(x) == [Event("tool_call_started", x.state, x.state) EXCEPT
                          !.tool = x.proposed.tool, !.action = x.decision.action,
                          !.arguments = x.proposed.arguments]
<1>1. /\ Started(r).events = Append(r.events, event(r))
      /\ Started(s).events = Append(s.events, event(s))
  BY DEF Alike, SameWork, Started, Log, RunFields
<1>2. event(r) = event(s)
  BY DEF Alike, SameWork, SameApproval, Carried
<1> HIDE DEF event
<1>3. SameLog(Started(r).events, Started(s).events)
  BY <1>1, <1>2, SameLogAppends DEF Alike
<1>4. /\ Differs(r, Started(r), {"events", "history"})
      /\ Differs(s, Started(s), {"events", "history"})
      /\ Started(r).history = Append(r.history, r.decision.action)
      /\ Started(s).history = Append(s.history, s.decision.action)
  BY StartedShape DEF Alike, SameWork
<1>5. /\ r.history \in Seq(Nat) /\ r.history = s.history
      /\ r.decision.action \in Nat /\ r.decision.action = s.decision.action
  BY DEF Alike, SameWork, SameApproval, Carried
<1>6. Started(r).history \in Seq(Nat) /\ Started(r).history = Started(s).history
  BY <1>4, <1>5
<1>7. SameWork(Started(r), Started(s))
  BY <1>4, <1>6 DEF Alike, SameWork, SameApproval, Carried, Differs, RunFields
<1> QED
  BY <1>3, <1>7 DEF Alike

LEMMA FailedAlike ==
    ASSUME NEW r, NEW s, NEW code, Alike(r, s), r.decision # None
    PROVE  Alike(FailedCall(r, code), FailedCall(s, code))
<1> DEFINE event(x) == [Event("tool_call_failed", x.state, x.state) EXCEPT
                          !.tool = x.proposed.tool, !.action = x.decision.action,
                          !.code = code]
<1>1. /\ FailedCall(r, code).events = Append(r.events, event(r))
      /\ FailedCall(s, code).events = Append(s.events, event(s))
  BY DEF Alike, SameWork, FailedCall, Log, RunFields
<1>2. event(r) = event(s)
  BY DEF Alike, SameWork, SameApproval, Carried
<1> HIDE DEF event
<1>3. SameLog(FailedCall(r, code).events, FailedCall(s, code).events)
  BY <1>1, <1>2, SameLogAppends DEF Alike
<1>4. /\ Differs(r, FailedCall(r, code), {"events", "observations"})
      /\ Differs(s, FailedCall(s, code), {"events", "observations"})
  BY FailedCallShape DEF Alike, SameWork
<1>5. SameWork(FailedCall(r, code), FailedCall(s, code))
  BY <1>4 DEF Alike, SameWork, SameApproval, Carried, Differs, RunFields
<1> QED
  BY <1>3, <1>5 DEF Alike

LEMMA ScheduledAlike ==
    ASSUME NEW r, NEW s, NEW tool, NEW code, Alike(r, s), r.decision # None
    PROVE  Alike(ScheduleRetry(r, tool, code), ScheduleRetry(s, tool, code))
<1> DEFINE max(x)   == StepOf(x.contract.plan, tool).max
           retry(x) == [attempts |-> Attempts(x, tool) + 1, tool |-> tool,
                        error |-> code, failed |-> x.decision.action, max |-> max(x)]
           event(x) == [Event("retry_scheduled", x.state, x.state) EXCEPT
                          !.tool = tool, !.action = x.decision.action, !.code = code,
                          !.retry = retry(x).attempts, !.max = max(x),
                          !.next = Len(x.history)]
           next(x)  == ScheduleRetry(x, tool, code)
<1>1. /\ max(r) = max(s) /\ Attempts(r, tool) = Attempts(s, tool)
      /\ r.decision.action = s.decision.action
      /\ r.state = s.state /\ r.history = s.history
  BY DEF Alike, SameWork, SameApproval, SameContract, Carried, Attempts
<1>2. retry(r) = retry(s)
  BY <1>1
<1>3. ASSUME NEW x, DOMAIN x = RunFields
      PROVE  next(x).events = Append(x.events, event(x)) /\ next(x).retry = retry(x)
  BY <1>3 DEF ScheduleRetry, Log, RunFields
<1>4. event(r) = event(s)
  BY <1>1, <1>2
<1>5. DOMAIN r = RunFields /\ DOMAIN s = RunFields
  BY DEF Alike, SameWork
<1> HIDE DEF event, retry, max
<1>6. SameLog(next(r).events, next(s).events)
  BY <1>3, <1>4, <1>5, SameLogAppends DEF Alike
<1>7. /\ Differs(r, next(r), {"events", "retry"})
      /\ Differs(s, next(s), {"events", "retry"})
      /\ next(r).retry = next(s).retry
  BY <1>2, <1>3, <1>5, ScheduleRetryShape
<1> HIDE DEF next
<1>8. SameWork(next(r), next(s))
  BY <1>7 DEF Alike, SameWork, SameApproval, Carried, Differs, RunFields
<1> QED
  BY <1>6, <1>8 DEF Alike, next

LEMMA CompletedAlike ==
    ASSUME NEW r, NEW s, NEW output, Alike(r, s), r.decision # None
    PROVE  Alike(CompletedCall(r, output), CompletedCall(s, output))
<1> DEFINE event(x) == [Event("tool_call_completed", x.state, x.state) EXCEPT
                          !.tool = x.proposed.tool, !.action = x.decision.action,
                          !.output = output]
           next(x)  == CompletedCall(x, output)
<1>1. /\ next(r).events = Append(r.events, event(r))
      /\ next(s).events = Append(s.events, event(s))
  BY DEF Alike, SameWork, CompletedCall, Log, RunFields
<1>2. event(r) = event(s)
  BY DEF Alike, SameWork, SameApproval, Carried
<1> HIDE DEF event
<1>3. SameLog(next(r).events, next(s).events)
  BY <1>1, <1>2, SameLogAppends DEF Alike
<1>4. DOMAIN r = RunFields /\ DOMAIN s = RunFields /\ r.evidence = s.evidence
      /\ r.proposed = s.proposed
  BY DEF Alike, SameWork, Carried
<1>5. /\ Differs(r, next(r), {"events", "evidence", "observations", "retry"})
      /\ Differs(s, next(s), {"events", "evidence", "observations", "retry"})
      /\ next(r).evidence = next(s).evidence
      /\ next(r).retry = next(s).retry
  BY <1>4, CompletedCallShape
<1> HIDE DEF next
<1>6. SameWork(next(r), next(s))
  BY <1>5 DEF Alike, SameWork, SameApproval, Carried, Differs, RunFields
<1> QED
  BY <1>3, <1>6 DEF Alike, next

LEMMA ClosedAlike ==
    ASSUME NEW r, NEW s, NEW outcome, Alike(r, s)
    PROVE  Alike(Close(r, outcome), Close(s, outcome))
<1> DEFINE type     == IF outcome.status = "COMPLETED" THEN "run_completed" ELSE "run_failed"
           event(x) == [Event(type, x.state, outcome.status) EXCEPT !.code = outcome.reason]
           next(x)  == Close(x, outcome)
<1>1. /\ next(r).events = Append(r.events, event(r))
      /\ next(s).events = Append(s.events, event(s))
  BY DEF Alike, SameWork, Close, Log, RunFields
<1>2. event(r) = event(s)
  BY DEF Alike, SameWork, Carried
<1> HIDE DEF event
<1>3. SameLog(next(r).events, next(s).events)
  BY <1>1, <1>2, SameLogAppends DEF Alike
<1>4. /\ Differs(r, next(r), {"events", "state", "outcome"})
      /\ Differs(s, next(s), {"events", "state", "outcome"})
      /\ next(r).state = next(s).state /\ next(r).outcome = next(s).outcome
  BY CloseShape DEF Alike, SameWork
<1> HIDE DEF next
<1>5. SameWork(next(r), next(s))
  BY <1>4 DEF Alike, SameWork, SameApproval, Carried, Differs, RunFields
<1> QED
  BY <1>3, <1>5 DEF Alike, next

LEMMA FinishedAlike ==
    ASSUME NEW r, NEW s, NEW reason, NEW status, Alike(r, s)
    PROVE  Alike(FinishWith(r, reason, status), FinishWith(s, reason, status))
<1>1. r.contract.intent = s.contract.intent
  BY DEF Alike, SameWork, SameContract
<1> QED
  BY <1>1, ClosedAlike DEF FinishWith

LEMMA PlanFinishedAlike ==
    ASSUME NEW r, NEW s, Alike(r, s)
    PROVE  Alike(FinishPlan(r), FinishPlan(s))
<1>1. r.contract.intent = s.contract.intent /\ r.evidence = s.evidence
  BY DEF Alike, SameWork, SameContract, Carried
<1>2. r.decision # None /\ r.decision.decision = "APPROVE"
        <=> s.decision # None /\ s.decision.decision = "APPROVE"
  BY DEF Alike, SameWork, SameApproval
<1>3. r.contract.gateA.decision = "APPROVE" /\ s.contract.gateA.decision = "APPROVE"
  BY DEF Alike, SameWork, SameContract
<1>4. /\ DOMAIN r.events = DOMAIN s.events
      /\ \A k \in DOMAIN r.events : /\ r.events[k].type = s.events[k].type
                                    /\ r.events[k].tool = s.events[k].tool
  <2>1. /\ DOMAIN r.events = 1..Len(r.events) /\ DOMAIN s.events = 1..Len(s.events)
        /\ Len(r.events) = Len(s.events)
    BY DEF Alike, SameLog, Recorded
  <2>2. \A k \in 1..Len(r.events) : SameEvent(r.events[k], s.events[k])
    BY DEF Alike, SameLog
  <2> QED
    BY <2>1, <2>2 DEF SameEvent, Facts
<1>5. Supported(r) = Supported(s)
  BY <1>1, <1>2, <1>3, <1>4 DEF Supported
<1> QED
  BY <1>1, <1>5, ClosedAlike DEF FinishPlan

LEMMA SettledAlike ==
    ASSUME NEW r, NEW s, NEW tool, NEW output, Alike(r, s)
    PROVE  Alike(Settled(r, tool, output), Settled(s, tool, output))
<1>1. r.contract.intent = s.contract.intent
  BY DEF Alike, SameWork, SameContract
<1> QED
  BY <1>1, FinishedAlike DEF Settled

----------------------------------------------------------------------------
(* An arm by itself.                                                       *)

(* The state of the arm that is being run.                                 *)
Current ==
    [run |-> run, steps |-> steps, raised |-> raised, staged |-> staged,
     consumed |-> consumed]

Going(a) == a.run.state = "RUNNING" /\ a.run.outcome = None /\ a.raised = None

(* EpisodeProposal, ShimChecked and EpisodeChecked of the run r in an arm  *)
(* of the task t.                                                          *)
ProposalOf(t, r) ==
    LET tool == r.contract.plan[Earliest(Ready(r))].step
        p    == Propose(r, tool)
    IN  IF t.edit # None /\ t.edit.tool = tool THEN Edited(p, t.edit) ELSE p

ShimOf(r, p) ==
    LET c    == Checked(r, p, None)
        code == "C7_UNGATED_GATE_B_BYPASS"
    IN  [c EXCEPT !.decision.code = code, !.events[Len(c.events)].code = code]

JudgedIn(t, arm, r) ==
    LET p == ProposalOf(t, r)
    IN  IF arm = "UNGATED" THEN ShimOf(r, p) ELSE Checked(r, p, DecideRuntime(r, p))

(* StagePayment and WithStaged on a given ledger.                          *)
StageOn(ledger, args, approval) ==
    LET valid   == ValidatedAction(args)
        invoice == valid.output
        policy  == Lookup(Policies, "finance-v1")
        action  == [k \in ScopeKeys |->
                       IF k = "supplier_id" THEN invoice.supplier_id
                       ELSE IF k = "invoice_id" THEN invoice.invoice_id
                       ELSE IF k = "purchase_order_id" THEN invoice.purchase_order_id
                       ELSE args[k]]
        large   == args["amount"] > policy.output.max_autonomous
    IN  IF valid.kind # "record" THEN valid
        ELSE IF invoice.invoice_id \in DOMAIN DuplicateOf THEN Raised("DUPLICATE_INVOICE")
        ELSE IF policy.kind # "record" THEN policy
        ELSE IF large /\ ~ScopedApproval(approval, action) THEN Raised("APPROVAL_REQUIRED")
        ELSE IF invoice.invoice_id \in DOMAIN ledger
             THEN Returned(ledger[invoice.invoice_id])
        ELSE Returned(StagedPayment(invoice, args["amount"]))

LedgerWith(ledger, payment) ==
    [v \in DOMAIN ledger \cup {payment.invoice_id} |->
        IF v \in DOMAIN ledger THEN ledger[v] ELSE payment]

CallOn(ledger, tool, args, approval) ==
    CASE tool = "inspect_invoice" -> Lookup(Invoices, args["invoice_id"])
      [] tool = "lookup_supplier" -> Lookup(Suppliers, args["supplier_id"])
      [] tool = "lookup_purchase_order" ->
             Lookup(PurchaseOrders, args["purchase_order_id"])
      [] tool = "check_duplicate" -> CheckDuplicate(args["invoice_id"])
      [] tool = "retrieve_policy" -> Lookup(Policies, args["policy_version"])
      [] tool = "stage_payment" -> StageOn(ledger, args, approval)

(* The failure script of a task, and how much of it is used up.            *)
ScriptOf(t, tool) == IF tool \in DOMAIN t.faults THEN t.faults[tool] ELSE <<>>

FaultOf(t, spent, tool) ==
    IF spent[tool] < Len(ScriptOf(t, tool)) THEN ScriptOf(t, tool)[spent[tool] + 1]
    ELSE "none"

SpentAfter(t, spent, tool) ==
    IF spent[tool] < Len(ScriptOf(t, tool)) THEN [spent EXCEPT ![tool] = @ + 1] ELSE spent

AnswerOf(t, a, c) ==
    LET approval == IF c.proposed.tool = "stage_payment" /\ ApprovedRun(c.contract)
                    THEN c.contract.approval ELSE None
        fault    == FaultOf(t, a.consumed, c.proposed.tool)
    IN  IF fault = "none"
        THEN CallOn(a.staged, c.proposed.tool, c.proposed.arguments, approval)
        ELSE InjectedFailure(fault)

(* The arm a takes a superstep and becomes b.                              *)
Advances(a, b) ==
    /\ b.steps = a.steps + 1
    /\ b.raised = IF b.steps < RecursionLimit(a.run.contract.plan) THEN None
                  ELSE "GRAPH_RECURSION"

Quietly(a, b, r) ==
    Advances(a, b) /\ b.run = r /\ b.staged = a.staged /\ b.consumed = a.consumed

Fails(a, b, c, answer) ==
    /\ answer.kind = "error"
    /\ Advances(a, b)
    /\ LET failed == FailedCall(Started(c), answer.code)
           tool   == c.proposed.tool
       IN  b.run = IF MayRetry(c, tool, answer) THEN ScheduleRetry(failed, tool, answer.code)
                   ELSE FinishWith(failed, answer.code, "FAILED")
    /\ b.staged = a.staged

Leaves(a, b, c, answer) ==
    /\ answer.kind = "uncaught"
    /\ b.run = Started(c) /\ b.raised = "UNCAUGHT"
    /\ b.steps = a.steps /\ b.staged = a.staged

Succeeds(a, b, c, answer) ==
    /\ answer.kind = "record"
    /\ Advances(a, b)
    /\ b.run = Settled(CompletedCall(Started(c), answer.output), c.proposed.tool, answer.output)
    /\ b.staged = IF c.proposed.tool = "stage_payment" THEN LedgerWith(a.staged, answer.output)
                  ELSE a.staged

Calls(t, a, b, c) ==
    /\ b.consumed = SpentAfter(t, a.consumed, c.proposed.tool)
    /\ LET answer == AnswerOf(t, a, c)
       IN  Fails(a, b, c, answer) \/ Leaves(a, b, c, answer) \/ Succeeds(a, b, c, answer)

Dispatches(t, a, b, c) ==
    \/ /\ c.decision.decision = "REJECT"
       /\ Quietly(a, b, FinishWith(c, c.decision.code, "REJECTED"))
    \/ /\ c.decision.decision \in {"CLARIFY", "ESCALATE"}
       /\ Quietly(a, b, Paused(c))
    \/ c.decision.decision = "APPROVE" /\ Calls(t, a, b, c)

(* EpisodeStep in an arm of the task t.                                    *)
Moves(t, arm, a, b) ==
    /\ Going(a)
    /\ \/ Ready(a.run) = {} /\ Quietly(a, b, FinishPlan(a.run))
       \/ Ready(a.run) # {} /\ Dispatches(t, a, b, JudgedIn(t, arm, a.run))

LEMMA SameAnswer ==
    ASSUME NEW c
    PROVE  EpisodeAnswer(c) = AnswerOf(task, Current, c)
<1> DEFINE tool     == c.proposed.tool
           args     == c.proposed.arguments
           approval == IF tool = "stage_payment" /\ ApprovedRun(c.contract)
                       THEN c.contract.approval ELSE None
<1>1. StagePayment(args, approval) = StageOn(staged, args, approval)
  BY DEF StagePayment, StageOn
<1>2. Call(tool, args, approval) = CallOn(staged, tool, args, approval)
  BY <1>1 DEF Call, CallOn
<1>3. Fault(tool) = FaultOf(task, consumed, tool)
  BY DEF Fault, Scripted, Script, FaultOf, ScriptOf
<1>4. Current.staged = staged /\ Current.consumed = consumed
  BY DEF Current
<1> QED
  BY <1>2, <1>3, <1>4 DEF EpisodeAnswer, AnswerOf, Invoke

LEMMA StepMoves ==
    ASSUME EpisodeStep
    PROVE  /\ Moves(task, Head(arms), Current, Current')
           /\ UNCHANGED <<humanVars, task, arms, asked, refused, scores>>
<1> DEFINE a == Current
           b == Current'
<1>1. /\ a.run = run /\ a.steps = steps /\ a.raised = raised
      /\ a.staged = staged /\ a.consumed = consumed
  BY DEF Current
<1>2. /\ b.run = run' /\ b.steps = steps' /\ b.raised = raised'
      /\ b.staged = staged' /\ b.consumed = consumed'
  BY DEF Current
<1> HIDE DEF a, b
<1>3. Going(a)
  BY <1>1 DEF EpisodeStep, Running, Going
<1>4. Superstep => Advances(a, b)
  BY <1>1, <1>2 DEF Superstep, Advances
<1> SUFFICES Moves(task, Head(arms), a, b)
  BY DEF EpisodeStep, a, b
<1>5. CASE FinishRun /\ UNCHANGED consumed
  BY <1>1, <1>2, <1>3, <1>4, <1>5 DEF FinishRun, envVars, Moves, Quietly
<1>6. CASE /\ Ready(run) # {}
           /\ LET tool == run.contract.plan[Earliest(Ready(run))].step
              IN  \E p \in {EpisodeProposal(tool)} :
                     \E c \in {EpisodeChecked(p)} : Dispatched(c)
  <2> DEFINE tool == run.contract.plan[Earliest(Ready(run))].step
             c    == EpisodeChecked(EpisodeProposal(tool))
  <2>1. Ready(run) # {} /\ Dispatched(c)
    BY <1>6
  <2>2. EpisodeProposal(tool) = ProposalOf(task, run)
    BY DEF EpisodeProposal, ProposalOf
  <2>3. c = JudgedIn(task, Head(arms), run)
    BY <2>2 DEF EpisodeChecked, JudgedIn, Ungated, ShimChecked, ShimOf
  <2> HIDE DEF c
  <2>4. EpisodeAnswer(c) = AnswerOf(task, a, c)
    BY SameAnswer DEF a
  <2>5. CASE (Reject(c) \/ Pause(c)) /\ UNCHANGED consumed
    <3>1. Dispatches(task, a, b, c)
      BY <1>1, <1>2, <1>4, <2>5 DEF Reject, Pause, envVars, Dispatches, Quietly
    <3> QED
      BY <1>1, <1>3, <2>1, <2>3, <3>1 DEF Moves
  <2>6. CASE /\ c.decision.decision = "APPROVE"
             /\ \E answer \in {EpisodeAnswer(c)} :
                   Fail(c, answer) \/ Escape(c, answer) \/ Succeed(c, answer)
             /\ Consume(c.proposed.tool)
    <3> DEFINE answer == AnswerOf(task, a, c)
    <3>1. Fail(c, answer) \/ Escape(c, answer) \/ Succeed(c, answer)
      BY <2>4, <2>6
    <3> HIDE DEF answer
    <3>2. Fail(c, answer) => Fails(a, b, c, answer)
      BY <1>1, <1>2, <1>4 DEF Fail, Fails, envVars
    <3>3. Escape(c, answer) => Leaves(a, b, c, answer)
      BY <1>1, <1>2 DEF Escape, Leaves
    <3>4. Succeed(c, answer) => Succeeds(a, b, c, answer)
      BY <1>1, <1>2, <1>4 DEF Succeed, Succeeds, WithStaged, LedgerWith
    <3>5. b.consumed = SpentAfter(task, a.consumed, c.proposed.tool)
      BY <1>1, <1>2, <2>6 DEF Consume, SpentAfter, Scripted, Script, ScriptOf
    <3>6. Calls(task, a, b, c)
      BY <3>1, <3>2, <3>3, <3>4, <3>5 DEF Calls, answer
    <3>7. Dispatches(task, a, b, c)
      BY <2>6, <3>6 DEF Dispatches
    <3> QED
      BY <1>1, <1>3, <2>1, <2>3, <3>7 DEF Moves
  <2> QED
    BY <2>1, <2>5, <2>6 DEF Dispatched
<1> QED
  BY <1>5, <1>6 DEF EpisodeStep, a, b

----------------------------------------------------------------------------
(* A log only grows.                                                       *)

Extends(r, s) ==
    /\ DOMAIN s = RunFields /\ Recorded(s.events)
    /\ Len(r.events) <= Len(s.events)
    /\ \A k \in 1..Len(r.events) : s.events[k] = r.events[k]

LEMMA AppendExtends ==
    ASSUME NEW r, NEW s, NEW e, Recorded(r.events), DOMAIN s = RunFields,
           s.events = Append(r.events, e)
    PROVE  Extends(r, s)
BY Appending DEF Extends

LEMMA LogExtends ==
    ASSUME NEW r, NEW s, Recorded(r.events), DOMAIN s = RunFields, \E e : Logs(r, s, e)
    PROVE  Extends(r, s)
BY AppendExtends DEF Logs

LEMMA ExtendsItself ==
    ASSUME NEW r, DOMAIN r = RunFields, Recorded(r.events)
    PROVE  Extends(r, r)
BY DEF Extends, Recorded

LEMMA ExtendsOn ==
    ASSUME NEW r, NEW s, NEW q, Recorded(r.events), Extends(r, s), Extends(s, q)
    PROVE  Extends(r, q)
<1>1. Len(r.events) \in Nat /\ Len(s.events) \in Nat /\ Len(q.events) \in Nat
  BY DEF Extends, Recorded
<1>2. Len(r.events) <= Len(s.events) /\ Len(s.events) <= Len(q.events)
  BY DEF Extends
<1>3. \A k \in 1..Len(r.events) : k \in 1..Len(s.events)
  BY <1>1, <1>2
<1>4. \A k \in 1..Len(r.events) : q.events[k] = r.events[k]
  BY <1>3 DEF Extends
<1>5. Len(r.events) <= Len(q.events)
  BY <1>1, <1>2
<1> QED
  BY <1>4, <1>5 DEF Extends

(* What the check of a proposal logs.                                      *)
Check(r, p, code) ==
    LET d == Result(r, p, code)
    IN  [Event("runtime_policy_check", r.state, r.state) EXCEPT
            !.tool = p.tool, !.action = d.action, !.decision = d.decision, !.code = d.code]

ShimCheck(r, p) == [Check(r, p, None) EXCEPT !.code = "C7_UNGATED_GATE_B_BYPASS"]

LEMMA CheckFacts ==
    ASSUME NEW r, NEW p, NEW code
    PROVE  LET e == Check(r, p, code)
               d == Result(r, p, code)
           IN  /\ DOMAIN e = Facts \cup {"code"}
               /\ e.type = "runtime_policy_check"
               /\ e.before = r.state /\ e.after = r.state
               /\ e.tool = p.tool /\ e.action = d.action /\ e.decision = d.decision
               /\ e.retry = 0 /\ e.max = None /\ e.next = None
               /\ e.arguments = None /\ e.output = None
<1> DEFINE d == Result(r, p, code)
           e == [Event("runtime_policy_check", r.state, r.state) EXCEPT
                   !.tool = p.tool, !.action = d.action,
                   !.decision = d.decision, !.code = d.code]
<1> HIDE DEF d
<1>1. DOMAIN e = Facts \cup {"code"}
  BY DEF Event, Facts
<1>2. /\ e.type = "runtime_policy_check"
      /\ e.before = r.state /\ e.after = r.state
      /\ e.tool = p.tool /\ e.action = d.action /\ e.decision = d.decision
      /\ e.retry = 0 /\ e.max = None /\ e.next = None
      /\ e.arguments = None /\ e.output = None
  BY DEF Event
<1>3. Check(r, p, code) = e
  BY DEF Check, d
<1> HIDE DEF e
<1> QED
  BY <1>1, <1>2, <1>3 DEF d

LEMMA LastEdited ==
    ASSUME NEW log, NEW e, NEW x, NEW s, NEW u, NEW f, Recorded(log),
           s = Append(log, e), f = [e EXCEPT !.code = x],
           u = [s EXCEPT ![Len(s)].code = x]
    PROVE  u = Append(log, f)
<1> DEFINE n == Len(log)
           t == Append(log, f)
<1>1. /\ n \in Nat /\ Len(s) = n + 1 /\ DOMAIN s = 1..(n + 1)
      /\ \A k \in 1..n : s[k] = log[k]
      /\ s[n + 1] = e
  BY Appending
<1>2. /\ Recorded(t) /\ Len(t) = n + 1 /\ DOMAIN t = 1..(n + 1)
      /\ \A k \in 1..n : t[k] = log[k]
      /\ t[n + 1] = f
  BY Appending
<1>3. t = [k \in 1..(n + 1) |-> t[k]]
  <2>1. t \in Seq({t[k] : k \in DOMAIN t})
    BY <1>2 DEF Recorded
  <2> HIDE DEF t
  <2> QED
    BY <1>2, <2>1
<1>4. u = [k \in 1..(n + 1) |-> IF k = n + 1 THEN [s[k] EXCEPT !.code = x] ELSE s[k]]
  BY <1>1
<1>5. \A k \in 1..(n + 1) : k # n + 1 => k \in 1..n
  BY <1>1
<1>6. \A k \in 1..(n + 1) :
         (IF k = n + 1 THEN [s[k] EXCEPT !.code = x] ELSE s[k]) = t[k]
  BY <1>1, <1>2, <1>5
<1> HIDE DEF t, n
<1>7. u = t
  BY <1>3, <1>4, <1>6
<1> QED
  BY <1>1, <1>7 DEF t

LEMMA CheckedEvents ==
    ASSUME NEW r, NEW p, NEW code, DOMAIN r = RunFields
    PROVE  Checked(r, p, code).events = Append(r.events, Check(r, p, code))
BY DEF Checked, Check, Log, RunFields

LEMMA ShimShape ==
    ASSUME NEW r, NEW p, DOMAIN r = RunFields, Recorded(r.events)
    PROVE  LET c == ShimOf(r, p)
           IN  /\ Differs(r, c, {"events", "proposed", "decision"})
               /\ c.proposed = p
               /\ c.decision = [action |-> Result(r, p, None).action, decision |-> "APPROVE",
                                code |-> "C7_UNGATED_GATE_B_BYPASS"]
               /\ c.events = Append(r.events, ShimCheck(r, p))
<1> DEFINE c == Checked(r, p, None)
           x == "C7_UNGATED_GATE_B_BYPASS"
           s == ShimOf(r, p)
<1>1. /\ Differs(r, c, {"events", "proposed", "decision"})
      /\ c.proposed = p /\ c.decision = Result(r, p, None)
  BY CheckedShape
<1>2. c.events = Append(r.events, Check(r, p, None))
  BY CheckedEvents
<1>3. Result(r, p, None) = [action |-> Result(r, p, None).action, decision |-> "APPROVE",
                            code |-> "RUNTIME_ACTION_ADMISSIBLE"]
  BY CodesAssumption DEF Result, Verdict, RuntimeCodes
<1> HIDE DEF c
<1>4. s = [c EXCEPT !.decision.code = x, !.events[Len(c.events)].code = x]
  BY DEF ShimOf, c
<1>5. /\ DOMAIN s = DOMAIN c
      /\ \A f \in DOMAIN c \ {"decision", "events"} : s[f] = c[f]
  BY <1>4
<1>6. DOMAIN c = RunFields
  BY <1>1 DEF Differs
<1>7. s.decision = [c.decision EXCEPT !.code = x]
  BY <1>4, <1>6 DEF RunFields
<1>8. s.events = [c.events EXCEPT ![Len(c.events)].code = x]
  BY <1>4, <1>6 DEF RunFields
<1> HIDE DEF s
<1>9. s.events = Append(r.events, ShimCheck(r, p))
  <2> DEFINE e   == Check(r, p, None)
             f   == ShimCheck(r, p)
             log == c.events
             u   == s.events
  <2>1. log = Append(r.events, e)
    BY <1>2
  <2>2. f = [e EXCEPT !.code = x]
    BY DEF ShimCheck
  <2>3. u = [log EXCEPT ![Len(log)].code = x]
    BY <1>8
  <2>4. Recorded(r.events)
    OBVIOUS
  <2> HIDE DEF e, f, log, u, x
  <2>5. u = Append(r.events, f)
    BY <2>1, <2>2, <2>3, <2>4, LastEdited
  <2> QED
    BY <2>5 DEF u, f
<1>10. s.decision = [action |-> Result(r, p, None).action, decision |-> "APPROVE", code |-> x]
  BY <1>1, <1>3, <1>7
<1>11. Differs(r, s, {"events", "proposed", "decision"}) /\ s.proposed = p
  BY <1>1, <1>5, <1>6 DEF Differs, RunFields
<1> QED
  BY <1>9, <1>10, <1>11 DEF s

LEMMA HandlersExtend ==
    ASSUME NEW r, DOMAIN r = RunFields, Recorded(r.events)
    PROVE  /\ Extends(r, Started(r)) /\ Extends(r, Paused(r))
           /\ Extends(r, FinishPlan(r))
           /\ \A code : Extends(r, FailedCall(r, code))
           /\ \A output : Extends(r, CompletedCall(r, output))
           /\ \A tool, code : Extends(r, ScheduleRetry(r, tool, code))
           /\ \A reason, status : Extends(r, FinishWith(r, reason, status))
           /\ \A tool, output : Extends(r, Settled(r, tool, output))
<1>1. Extends(r, Started(r))
  BY StartedShape, StartedLog, LogExtends DEF Differs
<1>2. Extends(r, Paused(r))
  BY PausedShape, PausedLog, LogExtends DEF Differs
<1>3. ASSUME NEW outcome
      PROVE  Extends(r, Close(r, outcome))
  BY CloseShape, ClosedLog, LogExtends DEF Differs
<1>4. Extends(r, FinishPlan(r))
  BY <1>3 DEF FinishPlan
<1>5. ASSUME NEW code
      PROVE  Extends(r, FailedCall(r, code))
  BY FailedCallShape, FailedLog, LogExtends DEF Differs
<1>6. ASSUME NEW output
      PROVE  Extends(r, CompletedCall(r, output))
  BY CompletedCallShape, CompletedLog, LogExtends DEF Differs
<1>7. ASSUME NEW tool, NEW code
      PROVE  Extends(r, ScheduleRetry(r, tool, code))
  BY ScheduleRetryShape, ScheduledLog, LogExtends DEF Differs
<1>8. ASSUME NEW reason, NEW status
      PROVE  Extends(r, FinishWith(r, reason, status))
  BY <1>3 DEF FinishWith
<1>9. ASSUME NEW tool, NEW output
      PROVE  Extends(r, Settled(r, tool, output))
  BY <1>8, ExtendsItself DEF Settled
<1> QED
  BY <1>1, <1>2, <1>4, <1>5, <1>6, <1>7, <1>8, <1>9

LEMMA JudgedExtends ==
    ASSUME NEW t, NEW arm, NEW r, DOMAIN r = RunFields, Recorded(r.events)
    PROVE  Extends(r, JudgedIn(t, arm, r))
<1>1. ASSUME NEW p
      PROVE  Extends(r, ShimOf(r, p))
  <2> DEFINE c == ShimOf(r, p)
  <2>1. DOMAIN c = RunFields
    BY ShimShape DEF Differs
  <2>2. c.events = Append(r.events, ShimCheck(r, p))
    BY ShimShape
  <2> HIDE DEF c
  <2>3. Extends(r, c)
    BY <2>1, <2>2, AppendExtends
  <2> QED
    BY <2>3 DEF c
<1>2. ASSUME NEW p, NEW code
      PROVE  Extends(r, Checked(r, p, code))
  <2>1. DOMAIN Checked(r, p, code) = RunFields
    BY CheckedShape DEF Differs
  <2> QED
    BY <2>1, CheckedEvents, AppendExtends
<1> QED
  BY <1>1, <1>2 DEF JudgedIn

(* A superstep appends to the log of its run.                              *)
LEMMA MovesExtend ==
    ASSUME NEW t, NEW arm, NEW a, NEW b, Moves(t, arm, a, b),
           DOMAIN a.run = RunFields, Recorded(a.run.events)
    PROVE  Extends(a.run, b.run)
<1> DEFINE c == JudgedIn(t, arm, a.run)
<1>1. CASE Quietly(a, b, FinishPlan(a.run))
  <2>1. Extends(a.run, FinishPlan(a.run))
    BY HandlersExtend
  <2> QED
    BY <1>1, <2>1 DEF Quietly
<1>2. CASE Dispatches(t, a, b, c)
  <2>0. Extends(a.run, c)
    BY JudgedExtends
  <2> HIDE DEF c
  <2>1. Extends(a.run, c) /\ DOMAIN c = RunFields /\ Recorded(c.events)
    BY <2>0 DEF Extends
  <2>2. /\ Extends(c, Paused(c))
        /\ \A reason, status : Extends(c, FinishWith(c, reason, status))
        /\ Extends(c, Started(c))
    BY <2>1, HandlersExtend
  <2>3. CASE \/ Quietly(a, b, FinishWith(c, c.decision.code, "REJECTED"))
             \/ Quietly(a, b, Paused(c))
    BY <2>1, <2>2, <2>3, ExtendsOn DEF Quietly
  <2>4. CASE Calls(t, a, b, c)
    <3> DEFINE s      == Started(c)
               answer == AnswerOf(t, a, c)
               tool   == c.proposed.tool
    <3>1. Extends(a.run, s) /\ DOMAIN s = RunFields /\ Recorded(s.events)
      BY <2>1, <2>2, ExtendsOn DEF Extends
    <3> HIDE DEF s, answer
    <3>2. CASE Fails(a, b, c, answer)
      <4> DEFINE failed == FailedCall(s, answer.code)
      <4>0. Extends(s, failed)
        BY <3>1, HandlersExtend
      <4>1. Extends(s, failed) /\ DOMAIN failed = RunFields /\ Recorded(failed.events)
        BY <4>0 DEF Extends
      <4> HIDE DEF failed
      <4>2. /\ Extends(failed, ScheduleRetry(failed, tool, answer.code))
            /\ Extends(failed, FinishWith(failed, answer.code, "FAILED"))
        BY <4>1, HandlersExtend
      <4>3. \/ b.run = ScheduleRetry(failed, tool, answer.code)
            \/ b.run = FinishWith(failed, answer.code, "FAILED")
        BY <3>2 DEF Fails, failed, s
      <4>4. Extends(a.run, failed)
        BY <3>1, <4>1, ExtendsOn
      <4> QED
        BY <4>2, <4>3, <4>4, ExtendsOn
    <3>3. CASE Leaves(a, b, c, answer)
      BY <3>1, <3>3 DEF Leaves, s
    <3>4. CASE Succeeds(a, b, c, answer)
      <4> DEFINE done == CompletedCall(s, answer.output)
      <4>0. Extends(s, done)
        BY <3>1, HandlersExtend
      <4>1. Extends(s, done) /\ DOMAIN done = RunFields /\ Recorded(done.events)
        BY <4>0 DEF Extends
      <4> HIDE DEF done
      <4>2. Extends(done, Settled(done, tool, answer.output))
        BY <4>1, HandlersExtend
      <4>3. b.run = Settled(done, tool, answer.output)
        BY <3>4 DEF Succeeds, done, s
      <4>4. Extends(a.run, done)
        BY <3>1, <4>1, ExtendsOn
      <4> QED
        BY <4>2, <4>3, <4>4, ExtendsOn
    <3> QED
      BY <2>4, <3>2, <3>3, <3>4 DEF Calls, answer
  <2> QED
    BY <1>2, <2>3, <2>4 DEF Dispatches
<1> QED
  BY <1>1, <1>2 DEF Moves

----------------------------------------------------------------------------
(* Two arms that are alike stay so, until a gate withholds a call.         *)

LEMMA ProposedAlike ==
    ASSUME NEW t, NEW r, NEW s, Alike(r, s)
    PROVE  Ready(r) = Ready(s) /\ ProposalOf(t, r) = ProposalOf(t, s)
<1>1. /\ r.contract.plan = s.contract.plan /\ r.contract.intent = s.contract.intent
      /\ r.contract.run = s.contract.run
      /\ r.contract.gateA.policy_version = s.contract.gateA.policy_version
      /\ r.evidence = s.evidence /\ r.history = s.history
  BY DEF Alike, SameWork, SameContract, Carried
<1>2. Ready(r) = Ready(s)
  BY <1>1 DEF Ready
<1>3. \A tool : Arguments(r, tool) = Arguments(s, tool)
  BY <1>1 DEF Arguments
<1>4. \A tool : Propose(r, tool) = Propose(s, tool)
  BY <1>1, <1>3 DEF Propose
<1> QED
  BY <1>1, <1>2, <1>4 DEF ProposalOf

LEMMA JudgedAlike ==
    ASSUME NEW t, NEW r, NEW s, Alike(r, s),
           JudgedIn(t, "GATED", r).decision.decision = "APPROVE"
    PROVE  LET c == JudgedIn(t, "GATED", r)
               d == JudgedIn(t, "UNGATED", s)
           IN  Alike(c, d) /\ c.decision # None
<1> DEFINE p == ProposalOf(t, r)
           x == DecideRuntime(r, p)
           c == JudgedIn(t, "GATED", r)
           d == JudgedIn(t, "UNGATED", s)
           n == Len(r.history)
<1>1. /\ DOMAIN r = RunFields /\ DOMAIN s = RunFields
      /\ Recorded(s.events) /\ r.history = s.history
      /\ n \in Nat /\ r.state = s.state
  BY DEF Alike, SameWork, SameLog, Carried
<1>2. c = Checked(r, p, x) /\ d = ShimOf(s, p)
  BY ProposedAlike DEF JudgedIn
<1> HIDE DEF c, d
<1>3. /\ Differs(r, c, {"events", "proposed", "decision"})
      /\ c.proposed = p /\ c.decision = Result(r, p, x)
      /\ c.events = Append(r.events, Check(r, p, x))
  BY <1>1, <1>2, CheckedShape, CheckedEvents
<1>4. /\ Differs(s, d, {"events", "proposed", "decision"})
      /\ d.proposed = p
      /\ d.decision = [action |-> Result(s, p, None).action, decision |-> "APPROVE",
                       code |-> "C7_UNGATED_GATE_B_BYPASS"]
      /\ d.events = Append(s.events, ShimCheck(s, p))
  BY <1>1, <1>2, ShimShape
<1>5. Result(r, p, x).decision = "APPROVE"
  BY <1>3 DEF c
<1>6. n # None
  BY <1>1, NoneAssumption
<1>7. Result(r, p, x).action = n
  BY <1>5, <1>6, ApprovedProposal
<1>8. Result(s, p, None).action = n
  BY <1>1, <1>7 DEF Result
<1>9. c.decision # None
  <2>1. Result(r, p, x).code \in RuntimeCodes \cup {"RUNTIME_ACTION_ADMISSIBLE"}
    BY DecisionCode
  <2>2. Result(r, p, x) \in RuntimeDecisions
    BY <1>1, <1>5, <1>7, <2>1 DEF Result, RuntimeDecisions, Decisions
  <2> QED
    BY <1>3, <2>2, OutcomesAssumption
<1>10. d.decision # None
  BY <1>1, <1>4, <1>8, ShimAssumption
<1>11. SameApproval(c, d)
  BY <1>1, <1>3, <1>4, <1>5, <1>7, <1>8, <1>9, <1>10 DEF SameApproval
<1>12. SameWork(c, d)
  BY <1>3, <1>4, <1>11 DEF Alike, SameWork, Carried, Differs, RunFields
<1>13. SameEvent(Check(r, p, x), ShimCheck(s, p))
  <2>1. Result(s, p, None).decision = "APPROVE"
    BY CodesAssumption DEF Result, Verdict, RuntimeCodes
  <2> DEFINE e == Result(r, p, x)
             f == Result(s, p, None)
  <2>2. e.action = f.action /\ e.decision = f.decision
    BY <1>5, <1>7, <1>8, <2>1
  <2> HIDE DEF e, f, p, x
  <2>3. SameEvent(Check(r, p, x), Check(s, p, None))
    BY <1>1, <2>2, CheckFacts DEF SameEvent, Facts, e, f
  <2>4. \A q \in Facts : ShimCheck(s, p)[q] = Check(s, p, None)[q]
    BY CheckFacts DEF ShimCheck, Facts
  <2> QED
    BY <2>3, <2>4 DEF SameEvent
<1>14. SameLog(c.events, d.events)
  BY <1>3, <1>4, <1>13, SameLogGrows DEF Alike
<1> QED
  BY <1>9, <1>12, <1>14 DEF Alike, c, d

SameArm(a, b) ==
    /\ Alike(a.run, b.run)
    /\ a.steps = b.steps /\ a.raised = b.raised
    /\ a.staged = b.staged /\ a.consumed = b.consumed

(* Up to its last call, the first log is the beginning of the other.       *)
Shares(log, other) ==
    \A k \in DOMAIN log : log[k].type = "tool_call_started" =>
        \A j \in 1..k : j \in DOMAIN other /\ SameEvent(log[j], other[j])

(* The gated arm a has ended before its work was done, and all that it has *)
(* called the other arm has called as well.                                *)
Withheld(a, b) ==
    /\ ~Going(a) /\ a.run.state # "COMPLETED"
    /\ Shares(a.run.events, b.run.events)

LEMMA CallsAlike ==
    ASSUME NEW t, NEW a, NEW b, NEW x, NEW y, NEW c, NEW d,
           SameArm(a, b), Alike(c, d), c.decision # None,
           Calls(t, a, x, c), Calls(t, b, y, d)
    PROVE  SameArm(x, y)
<1> DEFINE answer == AnswerOf(t, a, c)
           tool   == c.proposed.tool
<1>1. /\ c.proposed = d.proposed /\ c.retry = d.retry
      /\ c.contract.plan = d.contract.plan
      /\ c.contract.approval = None /\ d.contract.approval = None
  BY DEF Alike, SameWork, SameContract, Carried
<1>2. AnswerOf(t, b, d) = answer
  BY <1>1 DEF AnswerOf, ApprovedRun, SameArm
<1>3. x.consumed = y.consumed
  BY <1>1 DEF Calls, SameArm
<1>4. \/ Fails(a, x, c, answer) /\ Fails(b, y, d, answer)
      \/ Leaves(a, x, c, answer) /\ Leaves(b, y, d, answer)
      \/ Succeeds(a, x, c, answer) /\ Succeeds(b, y, d, answer)
  BY <1>2 DEF Calls, Fails, Leaves, Succeeds
<1>5. a.run.contract.plan = b.run.contract.plan
  BY DEF SameArm, Alike, SameWork, SameContract
<1>6. Advances(a, x) /\ Advances(b, y) => x.steps = y.steps /\ x.raised = y.raised
  BY <1>5 DEF Advances, SameArm
<1>7. /\ Alike(Started(c), Started(d))
      /\ Started(c).decision # None
  <2>1. Started(c).decision = c.decision
    BY StartedShape DEF Differs, RunFields, Alike, SameWork
  <2> QED
    BY <2>1, StartedAlike
<1> HIDE DEF answer
<1>8. CASE Fails(a, x, c, answer) /\ Fails(b, y, d, answer)
  <2> DEFINE failed(r) == FailedCall(Started(r), answer.code)
  <2>1. Alike(failed(c), failed(d))
    BY <1>7, FailedAlike
  <2>2. failed(c).decision # None
    <3>1. DOMAIN Started(c) = RunFields
      BY <1>7 DEF Alike, SameWork
    <3>2. failed(c).decision = Started(c).decision
      BY <3>1, FailedCallShape DEF Differs, RunFields
    <3> QED
      BY <1>7, <3>2
  <2>3. MayRetry(c, tool, answer) <=> MayRetry(d, tool, answer)
    BY <1>1 DEF MayRetry, Attempts
  <2>4. /\ x.run = IF MayRetry(c, tool, answer)
                   THEN ScheduleRetry(failed(c), tool, answer.code)
                   ELSE FinishWith(failed(c), answer.code, "FAILED")
        /\ y.run = IF MayRetry(d, tool, answer)
                   THEN ScheduleRetry(failed(d), tool, answer.code)
                   ELSE FinishWith(failed(d), answer.code, "FAILED")
    BY <1>1, <1>8 DEF Fails
  <2> HIDE DEF failed, tool
  <2>5. /\ Alike(ScheduleRetry(failed(c), tool, answer.code),
                 ScheduleRetry(failed(d), tool, answer.code))
        /\ Alike(FinishWith(failed(c), answer.code, "FAILED"),
                 FinishWith(failed(d), answer.code, "FAILED"))
    BY <2>1, <2>2, ScheduledAlike, FinishedAlike
  <2>6. Alike(x.run, y.run)
    BY <2>3, <2>4, <2>5
  <2> QED
    BY <1>3, <1>6, <1>8, <2>6 DEF Fails, SameArm
<1>9. CASE Leaves(a, x, c, answer) /\ Leaves(b, y, d, answer)
  BY <1>3, <1>7, <1>9 DEF Leaves, SameArm
<1>10. CASE Succeeds(a, x, c, answer) /\ Succeeds(b, y, d, answer)
  <2> DEFINE done(r) == CompletedCall(Started(r), answer.output)
  <2>1. Alike(done(c), done(d))
    BY <1>7, CompletedAlike
  <2>2. /\ x.run = Settled(done(c), tool, answer.output)
        /\ y.run = Settled(done(d), tool, answer.output)
        /\ x.staged = y.staged
    BY <1>1, <1>10 DEF Succeeds, SameArm
  <2> HIDE DEF done, tool
  <2>3. Alike(x.run, y.run)
    BY <2>1, <2>2, SettledAlike
  <2> QED
    BY <1>3, <1>6, <1>10, <2>2, <2>3 DEF Succeeds, SameArm
<1> QED
  BY <1>4, <1>8, <1>9, <1>10

(* Nothing that follows a call which Gate B withholds is a call.           *)
LEMMA StopShares ==
    ASSUME NEW r, NEW c, NEW q, NEW e, NEW f, NEW s, NEW p,
           SameLog(r.events, s.events), Extends(s, p),
           c.events = Append(r.events, e), q.events = Append(c.events, f),
           e.type # "tool_call_started", f.type # "tool_call_started"
    PROVE  Shares(q.events, p.events)
<1> DEFINE n == Len(r.events)
<1>1. /\ n \in Nat /\ Recorded(c.events) /\ Len(c.events) = n + 1
      /\ \A k \in 1..n : c.events[k] = r.events[k]
      /\ c.events[n + 1] = e
  BY Appending DEF SameLog
<1>2. /\ DOMAIN q.events = 1..(n + 1 + 1)
      /\ \A k \in 1..(n + 1) : q.events[k] = c.events[k]
      /\ q.events[n + 1 + 1] = f
  BY <1>1, Appending
<1>3. /\ Len(s.events) = n
      /\ \A k \in 1..n : SameEvent(r.events[k], s.events[k])
  BY DEF SameLog
<1>4. /\ Len(p.events) \in Nat /\ DOMAIN p.events = 1..Len(p.events)
      /\ n <= Len(p.events)
      /\ \A k \in 1..n : p.events[k] = s.events[k]
  BY <1>3 DEF Extends, Recorded
<1> HIDE DEF n
<1>5. \A j \in 1..n : /\ j \in DOMAIN p.events /\ q.events[j] = r.events[j]
                      /\ SameEvent(q.events[j], p.events[j])
  BY <1>1, <1>2, <1>3, <1>4
<1>6. \A k \in DOMAIN q.events : q.events[k].type = "tool_call_started" => k \in 1..n
  <2>1. \A k \in 1..(n + 1 + 1) : k \in 1..n \/ k = n + 1 \/ k = n + 1 + 1
    BY <1>1
  <2>2. n + 1 \in 1..(n + 1)
    BY <1>1
  <2> QED
    BY <1>1, <1>2, <2>1, <2>2
<1>7. \A k \in 1..n : \A j \in 1..k : j \in 1..n
  BY <1>1
<1> QED
  BY <1>5, <1>6, <1>7 DEF Shares

(* As long as the gates approve, the arms stay alike; when they do not,    *)
(* the gated one has ended.                                                *)
LEMMA MovesAlike ==
    ASSUME NEW t, NEW a, NEW b, NEW x, NEW y, SameArm(a, b),
           Moves(t, "GATED", a, x), Moves(t, "UNGATED", b, y)
    PROVE  SameArm(x, y) \/ Withheld(x, y)
<1> DEFINE c == JudgedIn(t, "GATED", a.run)
           d == JudgedIn(t, "UNGATED", b.run)
           p == ProposalOf(t, a.run)
           u == DecideRuntime(a.run, p)
<1>1. /\ Alike(a.run, b.run) /\ DOMAIN a.run = RunFields /\ DOMAIN b.run = RunFields
      /\ Recorded(a.run.events) /\ Recorded(b.run.events)
      /\ SameLog(a.run.events, b.run.events)
      /\ a.run.contract.plan = b.run.contract.plan
  BY DEF SameArm, Alike, SameWork, SameLog, SameContract
<1>2. Ready(a.run) = Ready(b.run)
  BY <1>1, ProposedAlike
<1>3. CASE Ready(a.run) = {}
  <2>1. Quietly(a, x, FinishPlan(a.run)) /\ Quietly(b, y, FinishPlan(b.run))
    BY <1>2, <1>3 DEF Moves
  <2>2. Alike(FinishPlan(a.run), FinishPlan(b.run))
    BY <1>1, PlanFinishedAlike
  <2> QED
    BY <1>1, <2>1, <2>2 DEF Quietly, Advances, SameArm
<1>4. CASE Ready(a.run) # {}
  <2>1. Dispatches(t, a, x, c) /\ Dispatches(t, b, y, d)
    BY <1>2, <1>4 DEF Moves
  <2>2. d.decision.decision = "APPROVE"
    <3>1. d = ShimOf(b.run, ProposalOf(t, b.run))
      BY DEF JudgedIn
    <3> HIDE DEF d
    <3>2. d.decision = [action |-> Result(b.run, ProposalOf(t, b.run), None).action,
                        decision |-> "APPROVE", code |-> "C7_UNGATED_GATE_B_BYPASS"]
      BY <1>1, <3>1, ShimShape
    <3> QED
      BY <3>2
  <2>3. CASE c.decision.decision = "APPROVE"
    <3>1. Alike(c, d) /\ c.decision # None
      BY <1>1, <2>3, JudgedAlike
    <3> HIDE DEF c, d
    <3>2. Calls(t, a, x, c) /\ Calls(t, b, y, d)
      BY <2>1, <2>2, <2>3 DEF Dispatches
    <3>3. SameArm(x, y)
      BY <3>1, <3>2, CallsAlike
    <3> QED
      BY <3>3
  <2>4. CASE c.decision.decision # "APPROVE"
    <3>1. c = Checked(a.run, p, u)
      BY DEF JudgedIn
    <3> HIDE DEF c, d, p, u
    <3>2. DOMAIN c = RunFields /\ c.events = Append(a.run.events, Check(a.run, p, u))
      BY <1>1, <3>1, CheckedShape, CheckedEvents DEF Differs
    <3>3. Check(a.run, p, u).type # "tool_call_started"
      BY CheckFacts
    <3>4. \/ x.run = FinishWith(c, c.decision.code, "REJECTED")
          \/ x.run = Paused(c)
      BY <2>1, <2>4 DEF Dispatches, Quietly
    <3>5. /\ \E e : x.run.events = Append(c.events, e) /\ e.type # "tool_call_started"
          /\ x.run.state \in {"REJECTED"} \cup PausedStates
      <4>1. CASE x.run = FinishWith(c, c.decision.code, "REJECTED")
        <5>1. PICK o : x.run = Close(c, o) /\ o.status = "REJECTED"
          BY <4>1 DEF FinishWith, Outcome
        <5>2. x.run.state = "REJECTED"
          BY <3>2, <5>1, CloseShape
        <5>3. PICK e : Logs(c, x.run, e) /\ e.type \in {"run_completed", "run_failed"}
          BY <3>2, <5>1, ClosedLog
        <5> QED
          BY <5>2, <5>3 DEF Logs
      <4>2. CASE x.run = Paused(c)
        BY <3>2, <4>2, PausedShape, PausedLog DEF Logs
      <4> QED
        BY <3>4, <4>1, <4>2
    <3>6. Extends(b.run, y.run)
      BY <1>1, MovesExtend
    <3>7. Shares(x.run.events, y.run.events)
      BY <1>1, <3>2, <3>3, <3>5, <3>6, StopShares
    <3>8. ~Going(x) /\ x.run.state # "COMPLETED"
      BY <3>5 DEF Going, PausedStates
    <3> QED
      BY <3>7, <3>8 DEF Withheld
  <2> QED
    BY <2>3, <2>4
<1> QED
  BY <1>3, <1>4

(* What is withheld stays so while the other arm goes on.                  *)
LEMMA WithheldOn ==
    ASSUME NEW a, NEW b, NEW y, Withheld(a, b), Recorded(b.run.events),
           Extends(b.run, y.run)
    PROVE  Withheld(a, y)
<1>1. /\ DOMAIN b.run.events = 1..Len(b.run.events) /\ Len(b.run.events) \in Nat
      /\ DOMAIN y.run.events = 1..Len(y.run.events) /\ Len(y.run.events) \in Nat
      /\ Len(b.run.events) <= Len(y.run.events)
      /\ \A k \in 1..Len(b.run.events) : y.run.events[k] = b.run.events[k]
  BY DEF Extends, Recorded
<1>2. \A j \in DOMAIN b.run.events : /\ j \in DOMAIN y.run.events
                                     /\ y.run.events[j] = b.run.events[j]
  BY <1>1
<1> QED
  BY <1>2 DEF Withheld, Shares

----------------------------------------------------------------------------
(* The arms begin alike, or Gate A has withheld everything.                *)

LEMMA JudgedBegins ==
    ASSUME NEW r, NEW s, NEW state, Alike(r, s)
    PROVE  Alike(Judged(r, state), Judged(s, state))
<1> DEFINE blank(x) == Event("control_decision", x.state, state)
           event(x) == [blank(x) EXCEPT !.decision = x.contract.gateA.decision,
                                        !.code = x.contract.gateA.code]
           next(x)  == Judged(x, state)
<1>1. /\ DOMAIN r = RunFields /\ DOMAIN s = RunFields
      /\ r.state = s.state
      /\ r.contract.gateA.decision = s.contract.gateA.decision
  BY DEF Alike, SameWork, SameContract, Carried
<1>2. ASSUME NEW x, DOMAIN x = RunFields
      PROVE  /\ next(x).events = Append(x.events, event(x))
             /\ Differs(x, next(x), {"events", "state"}) /\ next(x).state = state
  BY <1>2 DEF Judged, Log, RunFields, Differs
<1>3. blank(r) = blank(s)
  BY <1>1
<1>4. DOMAIN blank(r) = Facts \cup {"code"}
  BY DEF Event, Facts
<1> HIDE DEF blank
<1>5. SameEvent(event(r), event(s))
  BY <1>1, <1>3, <1>4 DEF SameEvent, Facts
<1> HIDE DEF event, next
<1>6. SameLog(next(r).events, next(s).events)
  BY <1>1, <1>2, <1>5, SameLogGrows DEF Alike
<1>7. SameWork(next(r), next(s))
  <2>1. /\ Differs(r, next(r), {"events", "state"}) /\ next(r).state = state
        /\ Differs(s, next(s), {"events", "state"}) /\ next(s).state = state
    BY <1>1, <1>2
  <2> QED
    BY <2>1 DEF Alike, SameWork, SameApproval, Carried, Differs, RunFields
<1> QED
  BY <1>6, <1>7 DEF Alike, next

LEMMA EntersAlike ==
    ASSUME NEW r, NEW s, NEW type, NEW state, Alike(r, s)
    PROVE  Alike(Enter(r, type, state), Enter(s, type, state))
<1> DEFINE event(x) == Event(type, x.state, state)
           next(x)  == Enter(x, type, state)
<1>1. DOMAIN r = RunFields /\ DOMAIN s = RunFields /\ r.state = s.state
  BY DEF Alike, SameWork, Carried
<1>2. ASSUME NEW x, DOMAIN x = RunFields
      PROVE  /\ next(x).events = Append(x.events, event(x))
             /\ Differs(x, next(x), {"events", "state"}) /\ next(x).state = state
  BY <1>2 DEF Enter, Log, RunFields, Differs
<1>3. event(r) = event(s)
  BY <1>1
<1> HIDE DEF event, next
<1>4. SameLog(next(r).events, next(s).events)
  BY <1>1, <1>2, <1>3, SameLogAppends DEF Alike
<1>5. SameWork(next(r), next(s))
  <2>1. /\ Differs(r, next(r), {"events", "state"}) /\ next(r).state = state
        /\ Differs(s, next(s), {"events", "state"}) /\ next(s).state = state
    BY <1>1, <1>2
  <2> QED
    BY <2>1 DEF Alike, SameWork, SameApproval, Carried, Differs, RunFields
<1> QED
  BY <1>4, <1>5 DEF Alike, next

Opening(t, arm) ==
    [run |-> FirstRun(t, arm), steps |-> 0, raised |-> None, staged |-> <<>>,
     consumed |-> [tool \in ToolNames |-> 0]]

LEMMA OpensAlike ==
    ASSUME NEW t, Decide(t.intent).decision = "APPROVE"
    PROVE  Alike(FirstRun(t, "GATED"), FirstRun(t, "UNGATED"))
<1> DEFINE order == [intent |-> t.intent, approval |-> None, parent |-> None]
           new(gateA) == NewRun(1, order, gateA)
           r == new(Decide(t.intent))
           s == new(GateAShim)
<1>1. FirstRun(t, "GATED") = Start(r) /\ FirstRun(t, "UNGATED") = Start(s)
  BY DEF FirstRun
<1>2. ASSUME NEW gateA, gateA.decision = "APPROVE"
      PROVE  LET x == new(gateA)
             IN  /\ DOMAIN x = RunFields /\ x.state = "AWAITING_DECISION"
                 /\ x.events = <<>> /\ x.evidence = <<>> /\ x.history = <<>>
                 /\ x.retry = NoRetry /\ x.proposed = None /\ x.decision = None
                 /\ x.outcome = None
                 /\ x.contract.run = 1 /\ x.contract.intent = t.intent
                 /\ x.contract.plan = BuildPlan /\ x.contract.approval = None
                 /\ x.contract.gateA = gateA
  BY <1>2 DEF NewRun, RunFields, Authorised
<1>3. /\ GateAShim.decision = "APPROVE"
      /\ GateAShim.policy_version = FinancePolicy.policy_version
      /\ Decide(t.intent).policy_version = FinancePolicy.policy_version
  BY DEF GateAShim, Decide, GateADecision
<1> HIDE DEF new
<1>4. SameWork(r, s)
  <2>1. SameContract(r.contract, s.contract)
    BY <1>2, <1>3 DEF SameContract
  <2>2. \A f \in Carried : r[f] = s[f]
    BY <1>2, <1>3 DEF Carried
  <2>3. r.history \in Seq(Nat)
    <3>1. r.history = <<>>
      BY <1>2
    <3> QED
      BY <3>1
  <2> QED
    BY <1>2, <1>3, <2>1, <2>2, <2>3 DEF SameWork, SameApproval
<1>5. SameLog(r.events, s.events)
  <2>1. r.events = <<>> /\ s.events = <<>>
    BY <1>2, <1>3
  <2> QED
    BY <2>1 DEF SameLog, Recorded
<1>6. Alike(r, s)
  BY <1>4, <1>5 DEF Alike
<1> HIDE DEF r, s
<1>7. Alike(Judged(r, "APPROVED"), Judged(s, "APPROVED"))
  BY <1>6, JudgedBegins
<1> DEFINE planned(x) == Enter(Judged(x, "APPROVED"), "plan_created", "PLANNED")
<1>8. Alike(planned(r), planned(s))
  BY <1>7, EntersAlike
<1>9. Alike(Enter(planned(r), "run_started", "RUNNING"),
            Enter(planned(s), "run_started", "RUNNING"))
  BY <1>8, EntersAlike
<1>10. r.contract.plan # None /\ s.contract.plan # None
  BY <1>2, <1>3, OutcomesAssumption DEF r, s
<1> QED
  BY <1>1, <1>9, <1>10 DEF Start

(* Without Gate A's approval a run calls nothing.                          *)
LEMMA OpensWithheld ==
    ASSUME NEW t, NEW b, Decide(t.intent).decision # "APPROVE"
    PROVE  Withheld(Opening(t, "GATED"), b)
<1> DEFINE order == [intent |-> t.intent, approval |-> None, parent |-> None]
           gateA == Decide(t.intent)
           new   == NewRun(1, order, gateA)
           r     == FirstRun(t, "GATED")
<1>1. r = Start(new)
  BY DEF FirstRun
<1>2. /\ DOMAIN new = RunFields /\ new.events = <<>>
      /\ new.contract.plan = None /\ new.contract.gateA = gateA
  BY NoneAssumption DEF NewRun, RunFields, Authorised
<1> HIDE DEF new
<1>3. Recorded(new.events) /\ DOMAIN new.events = {} /\ Len(new.events) = 0
  BY <1>2 DEF Recorded
<1>4. PICK state \in {"CLARIFICATION_REQUIRED", "ESCALATION_REQUIRED", "REJECTED"} :
         \/ r = Judged(new, state)
         \/ r = FinishWith(Judged(new, state), gateA.code, "REJECTED")
  BY <1>1, <1>2 DEF Start
<1> DEFINE j == Judged(new, state)
<1>5. Differs(new, j, {"events", "state"}) /\ j.state = state
  BY <1>2 DEF Judged, Log, RunFields, Differs
<1>6. PICK e : Logs(new, j, e) /\ e.type = "control_decision"
  BY <1>2, JudgedLog
<1> HIDE DEF j, gateA
<1>7. /\ DOMAIN j = RunFields /\ Recorded(j.events) /\ Len(j.events) = 1
      /\ DOMAIN j.events = 1..1 /\ j.events[1].type = "control_decision"
  BY <1>3, <1>5, <1>6, Appending DEF Logs, Differs
<1>8. CASE r = j
  <2>1. \A k \in DOMAIN r.events : r.events[k].type # "tool_call_started"
    BY <1>7, <1>8
  <2>2. r.state # "RUNNING" /\ r.state # "COMPLETED"
    BY <1>5, <1>8
  <2> HIDE DEF r
  <2> QED
    BY <2>1, <2>2 DEF Withheld, Shares, Going, Opening, r
<1>9. CASE r = FinishWith(j, gateA.code, "REJECTED")
  <2>1. PICK o : r = Close(j, o) /\ o.status = "REJECTED"
    BY <1>9 DEF FinishWith, Outcome
  <2>2. PICK f : Logs(j, r, f) /\ f.type \in {"run_completed", "run_failed"}
    BY <1>7, <2>1, ClosedLog
  <2>3. r.state = "REJECTED"
    BY <1>7, <2>1, CloseShape
  <2> HIDE DEF r
  <2>4. /\ DOMAIN r.events = 1..(1 + 1) /\ r.events[1] = j.events[1] /\ r.events[1 + 1] = f
    BY <1>7, <2>2, Appending DEF Logs
  <2>5. \A k \in DOMAIN r.events : r.events[k].type # "tool_call_started"
    BY <1>7, <2>2, <2>4
  <2> QED
    BY <2>3, <2>5 DEF Withheld, Shares, Going, Opening, r
<1> QED
  BY <1>4, <1>8, <1>9 DEF j

LEMMA OpeningShape ==
    ASSUME NEW t, NEW arm
    PROVE  /\ DOMAIN Opening(t, arm).run = RunFields
           /\ Recorded(Opening(t, arm).run.events)
<1> DEFINE order == [intent |-> t.intent, approval |-> None, parent |-> None]
           gateA == IF arm = "UNGATED" THEN GateAShim ELSE Decide(t.intent)
           new   == NewRun(1, order, gateA)
           r     == FirstRun(t, arm)
<1>1. r = Start(new)
  BY DEF FirstRun
<1>2. DOMAIN new = RunFields /\ new.events = <<>> /\ Recorded(new.events)
  BY DEF NewRun, RunFields, Recorded
<1> HIDE DEF new
<1>3. ASSUME NEW x, NEW y, DOMAIN x = RunFields, Recorded(x.events),
             DOMAIN y = RunFields, \E e : Logs(x, y, e)
      PROVE  DOMAIN y = RunFields /\ Recorded(y.events)
  BY <1>3, Appending DEF Logs
<1>4. ASSUME NEW state
      PROVE  LET j == Judged(new, state) IN DOMAIN j = RunFields /\ Recorded(j.events)
  <2> DEFINE j == Judged(new, state)
  <2>1. DOMAIN j = RunFields /\ \E e : Logs(new, j, e)
    BY <1>2, JudgedLog DEF Differs
  <2> HIDE DEF j
  <2>2. DOMAIN j = RunFields /\ Recorded(j.events)
    BY <1>2, <1>3, <2>1
  <2> QED
    BY <2>2 DEF j
<1>5. ASSUME NEW x, NEW type, NEW state, DOMAIN x = RunFields, Recorded(x.events)
      PROVE  LET y == Enter(x, type, state) IN DOMAIN y = RunFields /\ Recorded(y.events)
  <2> DEFINE y == Enter(x, type, state)
  <2>1. DOMAIN y = RunFields /\ \E e : Logs(x, y, e)
    BY <1>5, EnteredLog DEF Differs
  <2> HIDE DEF y
  <2>2. DOMAIN y = RunFields /\ Recorded(y.events)
    BY <1>3, <1>5, <2>1
  <2> QED
    BY <2>2 DEF y
<1>6. DOMAIN r = RunFields /\ Recorded(r.events)
  <2>1. CASE r = Enter(Enter(Judged(new, "APPROVED"), "plan_created", "PLANNED"),
                       "run_started", "RUNNING")
    <3> DEFINE j == Judged(new, "APPROVED")
               p == Enter(j, "plan_created", "PLANNED")
    <3>1. DOMAIN j = RunFields /\ Recorded(j.events)
      BY <1>4
    <3> HIDE DEF j
    <3>2. DOMAIN p = RunFields /\ Recorded(p.events)
      BY <1>5, <3>1
    <3> HIDE DEF p
    <3> QED
      BY <1>5, <2>1, <3>2 DEF p, j
  <2>2. CASE \E state : r = Judged(new, state)
    BY <1>4, <2>2
  <2>3. CASE \E state, code : r = FinishWith(Judged(new, state), code, "REJECTED")
    <3>1. PICK state, code : r = FinishWith(Judged(new, state), code, "REJECTED")
      BY <2>3
    <3> DEFINE j == Judged(new, state)
    <3>2. DOMAIN j = RunFields /\ Recorded(j.events)
      BY <1>4
    <3> HIDE DEF j
    <3>3. Extends(j, FinishWith(j, code, "REJECTED"))
      BY <3>2, HandlersExtend
    <3> QED
      BY <3>1, <3>3 DEF Extends, j
  <2> QED
    BY <1>1, <2>1, <2>2, <2>3 DEF Start
<1> QED
  BY <1>6 DEF Opening

----------------------------------------------------------------------------
(* The first arm leaves a trace, and the second follows it.                *)

Kept(a) == DOMAIN a.run = RunFields /\ Recorded(a.run.events)

(* The first n states of an arm, tr[1] to tr[n].                           *)
Trace(t, arm, n, tr) ==
    /\ n \in Nat \ {0}
    /\ tr[1] = Opening(t, arm)
    /\ \A k \in 1..n : Kept(tr[k]) /\ (k < n => Moves(t, arm, tr[k], tr[k + 1]))
    /\ \A j, k \in 1..n : j <= k => Extends(tr[j].run, tr[k].run)

LEMMA TraceBegins ==
    ASSUME NEW t, NEW arm
    PROVE  \E n, tr : Trace(t, arm, n, tr) /\ tr[n] = Opening(t, arm)
<1> DEFINE a  == Opening(t, arm)
           tr == [k \in 1..1 |-> a]
<1>1. Kept(a)
  BY OpeningShape DEF Kept
<1>2. Extends(a.run, a.run)
  BY <1>1, ExtendsItself DEF Kept
<1> HIDE DEF a
<1>3. /\ tr[1] = a /\ 1 \in Nat \ {0}
      /\ \A k \in 1..1 : k = 1 /\ ~(k < 1)
  OBVIOUS
<1> HIDE DEF tr
<1>4. Trace(t, arm, 1, tr)
  BY <1>1, <1>2, <1>3 DEF Trace, a
<1> QED
  BY <1>3, <1>4 DEF a

LEMMA TraceGrows ==
    ASSUME NEW t, NEW arm, NEW n, NEW tr, NEW b, Trace(t, arm, n, tr),
           Moves(t, arm, tr[n], b)
    PROVE  \E m, ts : Trace(t, arm, m, ts) /\ ts[m] = b
<1> DEFINE m  == n + 1
           ts == [k \in 1..m |-> IF k = m THEN b ELSE tr[k]]
<1>1. n \in Nat \ {0} /\ n \in 1..n /\ Kept(tr[n])
  BY DEF Trace
<1>2. /\ m \in Nat \ {0} /\ ts[m] = b /\ \A k \in 1..n : ts[k] = tr[k]
      /\ \A k \in 1..m : (k \in 1..n /\ k < m) \/ k = m
      /\ \A k \in 1..n : (k < n /\ k + 1 \in 1..n) \/ k = n
      /\ 1 \in 1..n
  BY <1>1
<1>3. Extends(tr[n].run, b.run)
  BY <1>1, MovesExtend DEF Kept
<1>4. Kept(b)
  BY <1>3 DEF Extends, Kept
<1> HIDE DEF ts
<1>5. ts[1] = Opening(t, arm)
  BY <1>2 DEF Trace
<1>6. ASSUME NEW k \in 1..m
      PROVE  Kept(ts[k]) /\ (k < m => Moves(t, arm, ts[k], ts[k + 1]))
  <2>1. CASE k = m
    BY <1>2, <1>4, <2>1
  <2>2. CASE k \in 1..n /\ k < m
    <3>1. Kept(ts[k])
      BY <1>2, <2>2 DEF Trace
    <3>2. CASE k < n /\ k + 1 \in 1..n
      <4>1. ts[k] = tr[k] /\ ts[k + 1] = tr[k + 1]
        BY <1>2, <2>2, <3>2
      <4> QED
        BY <2>2, <3>1, <3>2, <4>1 DEF Trace
    <3>3. CASE k = n
      BY <1>2, <2>2, <3>1, <3>3
    <3> QED
      BY <1>2, <2>2, <3>2, <3>3
  <2> QED
    BY <1>2, <2>1, <2>2
<1>7. ASSUME NEW j \in 1..m, NEW k \in 1..m, j <= k
      PROVE  Extends(ts[j].run, ts[k].run)
  <2>1. CASE k \in 1..n
    <3>1. j \in 1..n
      BY <1>1, <1>7, <2>1
    <3> QED
      BY <1>2, <1>7, <2>1, <3>1 DEF Trace
  <2>2. CASE k = m /\ j \in 1..n
    <3>1. j <= n
      BY <1>1, <2>2
    <3>2. Kept(tr[j]) /\ Extends(tr[j].run, tr[n].run)
      BY <1>1, <2>2, <3>1 DEF Trace
    <3>3. Extends(tr[j].run, b.run)
      BY <1>3, <3>2, ExtendsOn DEF Kept
    <3> QED
      BY <1>2, <2>2, <3>3
  <2>3. CASE k = m /\ j = m
    BY <1>2, <1>4, <2>3, ExtendsItself DEF Kept
  <2> QED
    BY <1>2, <2>1, <2>2, <2>3
<1>8. Trace(t, arm, m, ts)
  BY <1>2, <1>5, <1>6, <1>7 DEF Trace
<1> QED
  BY <1>2, <1>8

(* The second arm is alike a state that the first one has come to, or the  *)
(* gates have withheld calls from the gated one.                           *)
Paired(arm, first, second) ==
    IF arm = "GATED" THEN SameArm(first, second) \/ Withheld(first, second)
    ELSE SameArm(second, first) \/ Withheld(second, first)

(* What is scored of an arm that has stopped in the state a.               *)
ScoredFrom(score, a) ==
    /\ score.runs[1] = a.run /\ score.paid = a.staged
    /\ score.metrics.state = IF a.raised = None THEN a.run.state ELSE "HARNESS_ERROR"

FirstOf(t) == Head(Order(t))
SecondOf(t) == Head(Tail(Order(t)))

FirstArm ==
    /\ arms = Order(task)
    /\ \A a \in Arms : scores[a] = None
    /\ \E n, tr : Trace(task, FirstOf(task), n, tr) /\ tr[n] = Current

SecondArm ==
    /\ arms = Tail(Order(task))
    /\ scores[SecondOf(task)] = None
    /\ Kept(Current)
    /\ \E n, tr :
          /\ Trace(task, FirstOf(task), n, tr)
          /\ ~Going(tr[n]) /\ ScoredFrom(scores[FirstOf(task)], tr[n])
          /\ \E k \in 1..n : Paired(FirstOf(task), tr[k], Current)

BothArms ==
    /\ arms = <<>>
    /\ \E x, y : /\ ScoredFrom(scores["GATED"], x) /\ ScoredFrom(scores["UNGATED"], y)
                 /\ SameArm(x, y) \/ Withheld(x, y)

EInv ==
    task.human = None =>
        /\ lineage = <<>> /\ DOMAIN scores = Arms
        /\ FirstArm \/ SecondArm \/ BothArms

LEMMA ArmsOrdered ==
    ASSUME NEW t
    PROVE  /\ FirstOf(t) \in Arms /\ SecondOf(t) \in Arms
           /\ FirstOf(t) = "GATED" <=> SecondOf(t) = "UNGATED"
           /\ FirstOf(t) = "UNGATED" <=> SecondOf(t) = "GATED"
           /\ FirstOf(t) # SecondOf(t)
           /\ Tail(Order(t)) # <<>> /\ Len(Tail(Order(t))) = 1
           /\ Head(Tail(Order(t))) = SecondOf(t)
           /\ Order(t) # <<>> /\ Len(Order(t)) = 2
           /\ Head(Order(t)) = FirstOf(t)
BY DEF FirstOf, SecondOf, Order, Arms

LEMMA ArmsOpenPaired ==
    ASSUME NEW t
    PROVE  Paired(FirstOf(t), Opening(t, FirstOf(t)), Opening(t, SecondOf(t)))
<1> DEFINE g == Opening(t, "GATED")
           u == Opening(t, "UNGATED")
<1>1. SameArm(g, u) \/ Withheld(g, u)
  <2>1. CASE Decide(t.intent).decision = "APPROVE"
    BY <2>1, OpensAlike DEF Opening, SameArm
  <2>2. CASE Decide(t.intent).decision # "APPROVE"
    BY <2>2, OpensWithheld
  <2> QED
    BY <2>1, <2>2
<1> HIDE DEF g, u
<1>2. CASE FirstOf(t) = "GATED"
  BY <1>1, <1>2, ArmsOrdered DEF Paired, g, u
<1>3. CASE FirstOf(t) = "UNGATED"
  BY <1>1, <1>3, ArmsOrdered DEF Paired, g, u
<1> QED
  BY <1>2, <1>3, ArmsOrdered DEF Arms

(* A step of the second arm keeps it paired.                               *)
LEMMA StaysPaired ==
    ASSUME NEW t, NEW n, NEW tr, Trace(t, FirstOf(t), n, tr), ~Going(tr[n]),
           NEW k \in 1..n, NEW a, NEW b, Kept(a),
           Paired(FirstOf(t), tr[k], a), Moves(t, SecondOf(t), a, b)
    PROVE  \E j \in 1..n : Paired(FirstOf(t), tr[j], b)
<1>1. Going(a) /\ Extends(a.run, b.run)
  BY MovesExtend DEF Moves, Kept
<1>2. n \in Nat \ {0}
  BY DEF Trace
<1>3. CASE SameArm(tr[k], a) \/ SameArm(a, tr[k])
  <2>1. Going(tr[k])
    BY <1>1, <1>3 DEF SameArm, Alike, SameWork, Carried, Going
  <2>2. k # n /\ k < n /\ k + 1 \in 1..n
    BY <1>2, <2>1
  <2>3. Moves(t, FirstOf(t), tr[k], tr[k + 1])
    BY <2>2 DEF Trace
  <2>4. CASE FirstOf(t) = "GATED" /\ SameArm(tr[k], a)
    BY <2>2, <2>3, <2>4, MovesAlike, ArmsOrdered DEF Paired
  <2>5. CASE FirstOf(t) = "UNGATED" /\ SameArm(a, tr[k])
    BY <2>2, <2>3, <2>5, MovesAlike, ArmsOrdered DEF Paired
  <2>6. CASE FirstOf(t) = "GATED" /\ ~SameArm(tr[k], a)
    BY <2>1, <2>6 DEF Paired, Withheld
  <2>7. CASE FirstOf(t) = "UNGATED" /\ ~SameArm(a, tr[k])
    BY <1>1, <2>7 DEF Paired, Withheld
  <2> QED
    BY <2>4, <2>5, <2>6, <2>7, ArmsOrdered DEF Arms
<1>4. CASE FirstOf(t) = "GATED" /\ Withheld(tr[k], a)
  BY <1>1, <1>4, WithheldOn DEF Paired, Kept
<1>5. CASE FirstOf(t) # "GATED" /\ Withheld(a, tr[k])
  BY <1>1, <1>5 DEF Withheld
<1> QED
  BY <1>3, <1>4, <1>5 DEF Paired

(* When the second arm has stopped too, the two ends are compared.         *)
LEMMA EndsPaired ==
    ASSUME NEW t, NEW n, NEW tr, Trace(t, FirstOf(t), n, tr), ~Going(tr[n]),
           NEW k \in 1..n, NEW a, Kept(a), ~Going(a),
           Paired(FirstOf(t), tr[k], a)
    PROVE  Paired(FirstOf(t), tr[n], a)
<1>1. /\ n \in Nat \ {0} /\ n \in 1..n /\ k <= n
      /\ k < n \/ k = n
  BY DEF Trace
<1>2. CASE k = n
  BY <1>2
<1>3. CASE k < n
  <2>1. Going(tr[k])
    BY <1>3 DEF Trace, Moves
  <2>2. ~SameArm(tr[k], a) /\ ~SameArm(a, tr[k])
    BY <2>1 DEF SameArm, Alike, SameWork, Carried, Going
  <2>3. ~Withheld(tr[k], a)
    BY <2>1 DEF Withheld
  <2>4. FirstOf(t) # "GATED" /\ Withheld(a, tr[k])
    BY <2>2, <2>3 DEF Paired
  <2>5. Kept(tr[k]) /\ Extends(tr[k].run, tr[n].run)
    BY <1>1 DEF Trace
  <2> QED
    BY <2>4, <2>5, WithheldOn DEF Paired, Kept
<1> QED
  BY <1>1, <1>2, <1>3

----------------------------------------------------------------------------
(* The invariant.                                                          *)

LEMMA Scores ==
    ASSUME Score, lineage = <<>>, DOMAIN scores = Arms, Head(arms) \in Arms
    PROVE  /\ DOMAIN scores' = Arms
           /\ ScoredFrom(scores'[Head(arms)], Current)
           /\ \A a \in Arms \ {Head(arms)} : scores'[a] = scores[a]
<1> DEFINE score == [metrics |-> Metrics(HandedBack), runs |-> Append(lineage, run),
                     paid |-> staged]
<1>1. scores' = [scores EXCEPT ![Head(arms)] = score]
  BY DEF Score
<1>2. score.runs = <<run>> /\ score.runs[1] = run /\ score.paid = staged
  OBVIOUS
<1>3. score.metrics.state = IF raised = None THEN run.state ELSE "HARNESS_ERROR"
  <2>1. Metrics(HandedBack).state =
          IF HandedBack = <<>> THEN "HARNESS_ERROR" ELSE HandedBack[Len(HandedBack)].state
    BY DEF Metrics
  <2>2. CASE raised = None
    <3>1. HandedBack = <<run>>
      BY <2>2 DEF HandedBack
    <3>2. HandedBack # <<>> /\ HandedBack[Len(HandedBack)] = run
      BY <3>1
    <3> QED
      BY <2>1, <2>2, <3>2
  <2>3. CASE raised # None
    <3>1. HandedBack = <<>>
      BY <2>3 DEF HandedBack
    <3> QED
      BY <2>1, <2>3, <3>1
  <2> QED
    BY <2>2, <2>3
<1> HIDE DEF score
<1>4. ScoredFrom(score, Current)
  BY <1>2, <1>3 DEF ScoredFrom, Current
<1> QED
  BY <1>1, <1>4

LEMMA EpisodeInitHolds == EpisodeInit => EInv
<1> SUFFICES ASSUME EpisodeInit PROVE EInv
  OBVIOUS
<1>1. Current = Opening(task, FirstOf(task))
  BY DEF EpisodeInit, EnvInit, Current, Opening, FirstOf
<1>2. \E n, tr : Trace(task, FirstOf(task), n, tr) /\ tr[n] = Current
  BY <1>1, TraceBegins
<1>3. FirstArm
  BY <1>2 DEF FirstArm, EpisodeInit
<1> QED
  BY <1>3 DEF EInv, EpisodeInit

LEMMA EpisodeStepHolds ==
    ASSUME EInv, EpisodeStep
    PROVE  EInv'
<1>1. /\ Moves(task, Head(arms), Current, Current')
      /\ UNCHANGED <<humanVars, task, arms, asked, refused, scores>>
  BY StepMoves
<1>2. SUFFICES ASSUME task.human = None, lineage = <<>>, DOMAIN scores = Arms,
                      FirstArm \/ SecondArm \/ BothArms
               PROVE  (FirstArm \/ SecondArm \/ BothArms)'
  BY <1>1 DEF EInv, humanVars
<1>3. arms # <<>>
  BY DEF EpisodeStep
<1>4. CASE FirstArm
  <2>1. Head(arms) = FirstOf(task)
    BY <1>4, ArmsOrdered DEF FirstArm
  <2>2. PICK n, tr : Trace(task, FirstOf(task), n, tr) /\ tr[n] = Current
    BY <1>4 DEF FirstArm
  <2>3. \E m, ts : Trace(task, FirstOf(task), m, ts) /\ ts[m] = Current'
    BY <1>1, <2>1, <2>2, TraceGrows
  <2>4. FirstArm'
    BY <1>1, <1>4, <2>3 DEF FirstArm
  <2> QED
    BY <2>4
<1>5. CASE SecondArm
  <2>1. Head(arms) = SecondOf(task)
    BY <1>5, ArmsOrdered DEF SecondArm
  <2>2. PICK n, tr :
           /\ Trace(task, FirstOf(task), n, tr)
           /\ ~Going(tr[n]) /\ ScoredFrom(scores[FirstOf(task)], tr[n])
           /\ \E k \in 1..n : Paired(FirstOf(task), tr[k], Current)
    BY <1>5 DEF SecondArm
  <2>3. PICK k \in 1..n : Paired(FirstOf(task), tr[k], Current)
    BY <2>2
  <2>4. \E j \in 1..n : Paired(FirstOf(task), tr[j], Current')
    BY <1>1, <1>5, <2>1, <2>2, <2>3, StaysPaired DEF SecondArm
  <2>5. Kept(Current')
    <3>1. Extends(Current.run, Current'.run)
      BY <1>1, <1>5, MovesExtend DEF SecondArm, Kept
    <3> QED
      BY <3>1 DEF Extends, Kept
  <2>6. SecondArm'
    BY <1>1, <1>5, <2>2, <2>4, <2>5 DEF SecondArm
  <2> QED
    BY <2>6
<1>6. CASE BothArms
  BY <1>3, <1>6 DEF BothArms
<1> QED
  BY <1>2, <1>4, <1>5, <1>6

LEMMA NextArmHolds ==
    ASSUME EInv, NextArm
    PROVE  EInv'
<1>1. SUFFICES ASSUME task.human = None
               PROVE  /\ lineage' = <<>> /\ DOMAIN scores' = Arms
                      /\ SecondArm'
  BY DEF EInv, NextArm
<1>2. lineage = <<>> /\ DOMAIN scores = Arms /\ FirstArm
  <2>1. Len(arms) > 1
    BY DEF NextArm
  <2>2. ~SecondArm
    <3>1. SecondArm => Len(arms) = 1
      BY ArmsOrdered DEF SecondArm
    <3>2. ~(1 > 1)
      OBVIOUS
    <3> QED
      BY <2>1, <3>1, <3>2
  <2>3. ~BothArms
    BY <2>1 DEF BothArms
  <2> QED
    BY <1>1, <2>2, <2>3 DEF EInv
<1>3. /\ Head(arms) = FirstOf(task)
      /\ arms' = Tail(Order(task)) /\ Head(arms') = SecondOf(task)
      /\ task' = task
  BY <1>2, ArmsOrdered DEF FirstArm, NextArm
<1>4. /\ DOMAIN scores' = Arms /\ ScoredFrom(scores'[FirstOf(task)], Current)
      /\ scores'[SecondOf(task)] = scores[SecondOf(task)]
  <2>1. Score
    BY DEF NextArm
  <2>2. FirstOf(task) \in Arms /\ SecondOf(task) \in Arms \ {FirstOf(task)}
    BY ArmsOrdered
  <2> QED
    BY <1>2, <1>3, <2>1, <2>2, Scores
<1>5. Current' = Opening(task, SecondOf(task))
  <2>1. /\ run' = FirstRun(task, SecondOf(task)) /\ steps' = 0 /\ raised' = None
        /\ staged' = <<>> /\ consumed' = [tool \in ToolNames |-> 0]
    BY <1>3 DEF NextArm, BeginArm, Environment
  <2> QED
    BY <2>1 DEF Current, Opening
<1>6. lineage' = <<>>
  BY DEF NextArm, BeginArm
<1>7. ~Going(Current)
  <2>1. ~Running
    BY DEF NextArm, Over
  <2> QED
    BY <2>1 DEF Running, Going, Current
<1>8. Kept(Opening(task, SecondOf(task)))
  BY OpeningShape DEF Kept
<1>9. PICK n, tr : Trace(task, FirstOf(task), n, tr) /\ tr[n] = Current
  BY <1>2 DEF FirstArm
<1>10. 1 \in 1..n /\ Paired(FirstOf(task), tr[1], Opening(task, SecondOf(task)))
  BY <1>9, ArmsOpenPaired DEF Trace
<1>11. scores'[SecondOf(task)] = None
  BY <1>2, <1>4, ArmsOrdered DEF FirstArm
<1>12. SecondArm'
  BY <1>3, <1>4, <1>5, <1>7, <1>8, <1>9, <1>10, <1>11 DEF SecondArm
<1> QED
  BY <1>4, <1>6, <1>12

LEMMA LastArmHolds ==
    ASSUME EInv, LastArm
    PROVE  EInv'
<1>1. SUFFICES ASSUME task.human = None
               PROVE  /\ lineage' = <<>> /\ DOMAIN scores' = Arms
                      /\ BothArms'
  BY DEF EInv, LastArm
<1>2. lineage = <<>> /\ DOMAIN scores = Arms /\ SecondArm
  <2>1. Len(arms) = 1
    BY DEF LastArm
  <2>2. ~FirstArm
    BY <2>1, ArmsOrdered DEF FirstArm
  <2>3. ~BothArms
    BY <2>1 DEF BothArms
  <2> QED
    BY <1>1, <2>2, <2>3 DEF EInv
<1>3. Head(arms) = SecondOf(task) /\ arms' = <<>>
  BY <1>2, ArmsOrdered DEF SecondArm, LastArm
<1>4. /\ DOMAIN scores' = Arms /\ ScoredFrom(scores'[SecondOf(task)], Current)
      /\ scores'[FirstOf(task)] = scores[FirstOf(task)]
  <2>1. Score
    BY DEF LastArm
  <2>2. SecondOf(task) \in Arms /\ FirstOf(task) \in Arms \ {SecondOf(task)}
    BY ArmsOrdered
  <2> QED
    BY <1>2, <1>3, <2>1, <2>2, Scores
<1>5. lineage' = lineage
  BY DEF LastArm, humanVars
<1>6. ~Going(Current)
  <2>1. ~Running
    BY DEF LastArm, Over
  <2> QED
    BY <2>1 DEF Running, Going, Current
<1>7. PICK n, tr :
         /\ Trace(task, FirstOf(task), n, tr)
         /\ ~Going(tr[n]) /\ ScoredFrom(scores[FirstOf(task)], tr[n])
         /\ \E k \in 1..n : Paired(FirstOf(task), tr[k], Current)
  BY <1>2 DEF SecondArm
<1>8. Paired(FirstOf(task), tr[n], Current)
  BY <1>2, <1>6, <1>7, EndsPaired DEF SecondArm
<1>9. ScoredFrom(scores'[FirstOf(task)], tr[n])
  BY <1>4, <1>7
<1>10. BothArms'
  <2>1. CASE FirstOf(task) = "GATED"
    BY <1>3, <1>4, <1>8, <1>9, <2>1, ArmsOrdered DEF BothArms, Paired
  <2>2. CASE FirstOf(task) = "UNGATED"
    BY <1>3, <1>4, <1>8, <1>9, <2>2, ArmsOrdered DEF BothArms, Paired
  <2> QED
    BY <2>1, <2>2, ArmsOrdered DEF Arms
<1> QED
  BY <1>2, <1>4, <1>5, <1>10

LEMMA EpisodeKeeps ==
    ASSUME EInv, [EpisodeNext]_episodeVars
    PROVE  EInv'
<1>1. CASE EpisodeStep
  BY <1>1, EpisodeStepHolds
<1>2. CASE HumanDecides
  BY <1>2 DEF HumanDecides, AwaitsHuman, EInv
<1>3. CASE NextArm
  BY <1>3, NextArmHolds
<1>4. CASE LastArm
  BY <1>4, LastArmHolds
<1>5. CASE UNCHANGED episodeVars
  BY <1>5 DEF EInv, FirstArm, SecondArm, BothArms, Current, episodeVars, vars, envVars,
              humanVars
<1> QED
  BY <1>1, <1>2, <1>3, <1>4, <1>5 DEF EpisodeNext

(* Two ends that are paired give what the property says of them.           *)
LEMMA Withholds ==
    ASSUME EInv
    PROVE  GatesOnlyWithhold
<1> SUFFICES ASSUME \A a \in Arms : Scored(a), task.human = None
             PROVE  LET gated   == scores["GATED"].runs[1].events
                        ungated == scores["UNGATED"].runs[1].events
                    IN  /\ Shares(gated, ungated)
                        /\ scores["GATED"].metrics.state = "COMPLETED" =>
                              /\ scores["UNGATED"].metrics.state = "COMPLETED"
                              /\ Len(gated) = Len(ungated)
                              /\ \A k \in DOMAIN gated : SameEvent(gated[k], ungated[k])
                              /\ scores["GATED"].paid = scores["UNGATED"].paid
  BY DEF GatesOnlyWithhold, Shares
<1>1. BothArms
  <2>1. ~FirstArm
    BY ArmsOrdered DEF FirstArm, Scored
  <2>2. ~SecondArm
    BY ArmsOrdered DEF SecondArm, Scored
  <2> QED
    BY <2>1, <2>2 DEF EInv
<1>2. PICK x, y : /\ ScoredFrom(scores["GATED"], x) /\ ScoredFrom(scores["UNGATED"], y)
                  /\ SameArm(x, y) \/ Withheld(x, y)
  BY <1>1 DEF BothArms
<1> DEFINE log   == x.run.events
           other == y.run.events
<1>3. CASE SameArm(x, y)
  <2>1. /\ x.run.state = y.run.state /\ x.raised = y.raised /\ x.staged = y.staged
        /\ SameLog(log, other)
    BY <1>3 DEF SameArm, Alike, SameWork, Carried
  <2> HIDE DEF log, other
  <2>2. /\ DOMAIN log = 1..Len(log) /\ DOMAIN other = 1..Len(log)
        /\ Len(log) = Len(other) /\ Len(log) \in Nat
        /\ \A k \in 1..Len(log) : SameEvent(log[k], other[k])
    BY <2>1 DEF SameLog, Recorded
  <2>3. Shares(log, other)
    BY <2>2 DEF Shares
  <2> QED
    BY <1>2, <2>1, <2>2, <2>3 DEF ScoredFrom, log, other
<1>4. CASE Withheld(x, y)
  BY <1>2, <1>4 DEF Withheld, ScoredFrom
<1> QED
  BY <1>2, <1>3, <1>4

(* The gates only withhold calls: without a human, for any tasks, the logs *)
(* of the two arms of an episode agree up to the last call of the gated    *)
(* one, and an episode that the gates let through to its completion goes   *)
(* the same way, event by event and payment by payment, without them       *)
(* (run_episode, scoped_runtime_configuration).                            *)
THEOREM GatesWithholdOnly == EpisodeSpec => []GatesOnlyWithhold
<1>1. EpisodeInit => EInv
  BY EpisodeInitHolds
<1>2. EInv /\ [EpisodeNext]_episodeVars => EInv'
  BY EpisodeKeeps
<1>3. EInv => GatesOnlyWithhold
  BY Withholds
<1> QED
  BY <1>1, <1>2, <1>3, PTL DEF EpisodeSpec
=============================================================================
