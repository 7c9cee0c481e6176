--------------------------- MODULE InvoiceProofs ---------------------------
(***************************************************************************)
(* For every fixture, policy limit, number of retries, set of faults and   *)
(* set of proposal edits: the controller of InvoiceRuntime is type-correct *)
(* and is never stopped by its own recursion limit.  Each handler is first *)
(* shown to change only the fields that it names; then each action is      *)
(* shown to keep the inductive invariant.  Then the controller is shown to *)
(* implement GovernedExecution.                                            *)
(***************************************************************************)
EXTENDS InvoiceProperties, TLAPS

(* s is a run that differs from r at most in the given fields.             *)
Differs(r, s, fields) ==
    /\ DOMAIN s = RunFields
    /\ \A f \in RunFields \ fields : s[f] = r[f]

LEMMA LogShape ==
    ASSUME NEW r, NEW e, DOMAIN r = RunFields
    PROVE  Differs(r, Log(r, e), {"events"})
BY DEF Log, RunFields, Differs

LEMMA LoggedShape ==
    ASSUME NEW r, NEW s, NEW e, NEW fields, Differs(r, s, fields)
    PROVE  /\ Differs(r, Log(s, e), fields \cup {"events"})
           /\ Differs(s, Log(s, e), {"events"})
BY LogShape DEF Differs

LEMMA CloseShape ==
    ASSUME NEW r, NEW o, DOMAIN r = RunFields
    PROVE  /\ Differs(r, Close(r, o), {"events", "state", "outcome"})
           /\ Close(r, o).state = o.status
           /\ Close(r, o).outcome = o
<1> DEFINE ended == [r EXCEPT !.state = o.status, !.outcome = o]
<1>1. /\ Differs(r, ended, {"state", "outcome"})
      /\ ended.state = o.status
      /\ ended.outcome = o
  BY DEF RunFields, Differs
<1>2. \E e : Close(r, o) = Log(ended, e)
  BY DEF Close
<1> HIDE DEF ended
<1> QED
  BY <1>1, <1>2, LoggedShape DEF Differs, RunFields

LEMMA FinishWithShape ==
    ASSUME NEW r, NEW reason, NEW status, DOMAIN r = RunFields
    PROVE  LET s == FinishWith(r, reason, status)
           IN  /\ Differs(r, s, {"events", "state", "outcome"})
               /\ s.state = status
               /\ s.outcome.status = status
BY CloseShape DEF FinishWith, Outcome

LEMMA FinishPlanShape ==
    ASSUME NEW r, DOMAIN r = RunFields
    PROVE  LET s == FinishPlan(r)
           IN  /\ Differs(r, s, {"events", "state", "outcome"})
               /\ s.state \in {"COMPLETED", "FAILED"}
               /\ s.outcome.status = s.state
<1>1. \E o : FinishPlan(r) = Close(r, o) /\ o.status \in {"COMPLETED", "FAILED"}
  BY DEF FinishPlan, Outcome
<1> QED
  BY <1>1, CloseShape

LEMMA CheckedShape ==
    ASSUME NEW r, NEW p, NEW refusal, DOMAIN r = RunFields
    PROVE  /\ Differs(r, Checked(r, p, refusal), {"events", "proposed", "decision"})
           /\ Checked(r, p, refusal).proposed = p
           /\ Checked(r, p, refusal).decision = Result(r, p, refusal)
<1> DEFINE d == Result(r, p, refusal)
           judged == [r EXCEPT !.proposed = p, !.decision = d]
<1>1. /\ Differs(r, judged, {"proposed", "decision"})
      /\ judged.proposed = p /\ judged.decision = Result(r, p, refusal)
  BY DEF RunFields, Differs
<1>2. \E e : Checked(r, p, refusal) = Log(judged, e)
  BY DEF Checked
<1> HIDE DEF judged, d
<1> QED
  BY <1>1, <1>2, LoggedShape DEF Differs, RunFields

LEMMA PausedShape ==
    ASSUME NEW r, DOMAIN r = RunFields
    PROVE  /\ Differs(r, Paused(r), {"events", "state", "questions", "approvalState"})
           /\ Paused(r).state \in PausedStates
           /\ Paused(r).approvalState \in {r.approvalState, "REQUIRED"}
<1> DEFINE clarify == r.decision.decision = "CLARIFY"
           state   == IF clarify THEN "CLARIFICATION_REQUIRED" ELSE "ESCALATION_REQUIRED"
           stopped == [r EXCEPT
                         !.state = state,
                         !.questions = IF clarify THEN {<<"EVIDENCE", r.decision.code>>} ELSE @,
                         !.approvalState = IF clarify THEN @ ELSE "REQUIRED"]
<1>1. /\ Differs(r, stopped, {"state", "questions", "approvalState"})
      /\ stopped.state \in PausedStates
      /\ stopped.approvalState \in {r.approvalState, "REQUIRED"}
  BY DEF RunFields, Differs, PausedStates
<1>2. \E e : Paused(r) = Log(stopped, e)
  BY DEF Paused
<1> HIDE DEF stopped, state, clarify
<1> QED
  BY <1>1, <1>2, LoggedShape DEF Differs, RunFields

LEMMA StartedShape ==
    ASSUME NEW r, DOMAIN r = RunFields
    PROVE  /\ Differs(r, Started(r), {"events", "history"})
           /\ Started(r).history = Append(r.history, r.decision.action)
<1> DEFINE begun == [r EXCEPT !.history = Append(@, r.decision.action)]
<1>1. /\ Differs(r, begun, {"history"})
      /\ begun.history = Append(r.history, r.decision.action)
  BY DEF RunFields, Differs
<1>2. \E e : Started(r) = Log(begun, e)
  BY DEF Started
<1> QED
  BY <1>1, <1>2, LogShape DEF Differs, RunFields

LEMMA FailedCallShape ==
    ASSUME NEW r, NEW code, DOMAIN r = RunFields
    PROVE  Differs(r, FailedCall(r, code), {"events", "observations"})
<1> DEFINE seen == [r EXCEPT !.observations = Append(@, Observation(r, code, None))]
<1>1. Differs(r, seen, {"observations"})
  BY DEF RunFields, Differs
<1>2. \E e : FailedCall(r, code) = Log(seen, e)
  BY DEF FailedCall
<1> QED
  BY <1>1, <1>2, LogShape DEF Differs, RunFields

LEMMA ScheduleRetryShape ==
    ASSUME NEW r, NEW tool, NEW code, DOMAIN r = RunFields
    PROVE  LET s == ScheduleRetry(r, tool, code)
           IN  /\ Differs(r, s, {"events", "retry"})
               /\ DOMAIN s.retry = DOMAIN NoRetry
               /\ s.retry.attempts = Attempts(r, tool) + 1
               /\ s.retry.tool = tool
<1> DEFINE max   == StepOf(r.contract.plan, tool).max
           retry == [attempts |-> Attempts(r, tool) + 1, tool |-> tool,
                     error |-> code, failed |-> r.decision.action, max |-> max]
           armed == [r EXCEPT !.retry = retry]
<1>1. Differs(r, armed, {"retry"}) /\ armed.retry = retry
  BY DEF RunFields, Differs
<1>2. \E e : ScheduleRetry(r, tool, code) = Log(armed, e)
  BY DEF ScheduleRetry
<1>3. DOMAIN retry = DOMAIN NoRetry
  BY DEF NoRetry
<1> QED
  BY <1>1, <1>2, <1>3, LogShape DEF Differs, RunFields

LEMMA CompletedCallShape ==
    ASSUME NEW r, NEW output, DOMAIN r = RunFields
    PROVE  LET s == CompletedCall(r, output)
           IN  /\ Differs(r, s, {"events", "evidence", "observations", "retry"})
               /\ s.evidence = Put(r.evidence, r.proposed.tool, output)
               /\ DOMAIN s.evidence = DOMAIN r.evidence \cup {r.proposed.tool}
               /\ s.retry = NoRetry
<1> DEFINE seen == [r EXCEPT !.evidence = Put(@, r.proposed.tool, output),
                             !.observations = Append(@, Observation(r, None, output)),
                             !.retry = NoRetry]
<1>1. /\ Differs(r, seen, {"evidence", "observations", "retry"})
      /\ seen.evidence = Put(r.evidence, r.proposed.tool, output)
      /\ seen.retry = NoRetry
  BY DEF RunFields, Differs
<1>2. \E e : CompletedCall(r, output) = Log(seen, e)
  BY DEF CompletedCall
<1>3. DOMAIN Put(r.evidence, r.proposed.tool, output) = DOMAIN r.evidence \cup {r.proposed.tool}
  BY DEF Put
<1> HIDE DEF seen
<1> QED
  BY <1>1, <1>2, <1>3, LoggedShape DEF Differs, RunFields

LEMMA SettledShape ==
    ASSUME NEW r, NEW tool, NEW output, DOMAIN r = RunFields
    PROVE  LET s == Settled(r, tool, output)
           IN  /\ Differs(r, s, {"events", "state", "outcome"})
               /\ \/ s = r
                  \/ s.state = "FAILED" /\ s.outcome.status = "FAILED"
BY FinishWithShape DEF Settled, Differs

(* How _execute leaves a new run.                                          *)
LEMMA StartShape ==
    ASSUME NEW id, NEW order, NEW gateA
    PROVE  LET r == Start(NewRun(id, order, gateA))
           IN  /\ DOMAIN r = RunFields
               /\ r.history = <<>> /\ r.evidence = <<>> /\ r.retry = NoRetry
               /\ r.decision = None
               /\ r.state \in RunStates
               /\ r.approvalState \in {"NOT_REQUESTED", "REQUIRED", "APPROVED_BY_HUMAN"}
               /\ r.outcome # None => r.outcome.status = "REJECTED"
               /\ r.state = "RUNNING" => r.contract.plan = BuildPlan
               /\ r.contract.run = id
               /\ r.state = "RUNNING" => r.outcome = None
               /\ r.state \in PausedStates \cup {"RUNNING", "REJECTED"}
<1> DEFINE new == NewRun(id, order, gateA)
<1>1. /\ DOMAIN new = RunFields
      /\ new.history = <<>> /\ new.evidence = <<>> /\ new.retry = NoRetry
      /\ new.decision = None
      /\ new.approvalState \in {"NOT_REQUESTED", "REQUIRED", "APPROVED_BY_HUMAN"}
      /\ new.outcome = None /\ new.contract.run = id
      /\ new.contract.plan # None => new.contract.plan = BuildPlan
  BY DEF NewRun, RunFields
<1> HIDE DEF new
<1>2. ASSUME NEW r, NEW type, NEW state, DOMAIN r = RunFields
      PROVE  /\ Differs(r, Enter(r, type, state), {"events", "state"})
             /\ Enter(r, type, state).state = state
  <2> DEFINE moved == [r EXCEPT !.state = state]
  <2>1. Differs(r, moved, {"state"}) /\ moved.state = state
    BY <1>2 DEF RunFields, Differs
  <2>2. \E e : Enter(r, type, state) = Log(moved, e)
    BY DEF Enter
  <2> HIDE DEF moved
  <2> QED
    BY <2>1, <2>2, LoggedShape DEF Differs, RunFields
<1>3. ASSUME NEW state
      PROVE  /\ Differs(new, Judged(new, state), {"events", "state"})
             /\ Judged(new, state).state = state
  <2> DEFINE moved == [new EXCEPT !.state = state]
  <2>1. Differs(new, moved, {"state"}) /\ moved.state = state
    BY <1>1 DEF RunFields, Differs
  <2>2. \E e : Judged(new, state) = Log(moved, e)
    BY DEF Judged
  <2> HIDE DEF moved
  <2> QED
    BY <2>1, <2>2, LoggedShape DEF Differs, RunFields
<1>4. CASE new.contract.plan # None
  <2> DEFINE approved == Judged(new, "APPROVED")
             planned  == Enter(approved, "plan_created", "PLANNED")
             running  == Enter(planned, "run_started", "RUNNING")
  <2>1. Start(new) = running
    BY <1>4 DEF Start
  <2>2. Differs(new, approved, {"events", "state"})
    BY <1>3
  <2> HIDE DEF approved
  <2>3. Differs(approved, planned, {"events", "state"})
    BY <1>2, <2>2 DEF Differs
  <2> HIDE DEF planned
  <2>4. Differs(planned, running, {"events", "state"}) /\ running.state = "RUNNING"
    BY <1>2, <2>3 DEF Differs
  <2> HIDE DEF running
  <2> QED
    BY <1>1, <1>4, <2>1, <2>2, <2>3, <2>4 DEF Differs, RunFields, RunStates, new
<1>5. CASE new.contract.plan = None
  <2>1. CASE Start(new) \in {Judged(new, "CLARIFICATION_REQUIRED"),
                             Judged(new, "ESCALATION_REQUIRED")}
    BY <1>1, <1>3, <2>1 DEF Differs, RunFields, RunStates, PausedStates, new
  <2>2. CASE Start(new) =
               FinishWith(Judged(new, "REJECTED"), new.contract.gateA.code, "REJECTED")
    <3> DEFINE judged   == Judged(new, "REJECTED")
               finished == FinishWith(judged, new.contract.gateA.code, "REJECTED")
    <3>1. Differs(new, judged, {"events", "state"})
      BY <1>3
    <3> HIDE DEF judged
    <3>2. /\ Differs(judged, finished, {"events", "state", "outcome"})
          /\ finished.state = "REJECTED" /\ finished.outcome.status = "REJECTED"
      BY <3>1, FinishWithShape DEF Differs
    <3>3. Start(new) = finished
      BY <2>2 DEF judged
    <3> HIDE DEF finished
    <3> QED
      BY <1>1, <3>1, <3>2, <3>3 DEF Differs, RunFields, RunStates, TerminalStates, new
  <2> QED
    BY <1>5, <2>1, <2>2 DEF Start
<1> QED
  BY <1>4, <1>5 DEF new

----------------------------------------------------------------------------
(* What an approval of Gate B implies.                                     *)

(* Only a named tool is approved, under the next action identifier, and    *)
(* only when exactly the tools before it in the plan have answered.        *)
LEMMA ApprovedProposal ==
    ASSUME NEW r, NEW p, Len(r.history) # None,
           Result(r, p, DecideRuntime(r, p)).decision = "APPROVE"
    PROVE  /\ p.tool \in ToolNames
           /\ DOMAIN r.evidence = Required(p.tool)
           /\ Result(r, p, DecideRuntime(r, p)).action = Len(r.history)
<1>1. ScopeProblem(r, p) = None /\ StateProblem(r, p) = None
  <2>1. DecideRuntime(r, p) = None
    BY DEF Result, Verdict
  <2> QED
    BY <2>1 DEF DecideRuntime
<1>2. p.tool \in ToolNames /\ p.action_id = Len(r.history)
  BY <1>1, CodesAssumption, SMT DEF ScopeProblem, RuntimeCodes
<1>3. EvidenceProblem(r, Required(p.tool)) = None
  BY <1>1, CodesAssumption DEF StateProblem, RuntimeCodes
<1>4. DOMAIN r.evidence = Required(p.tool)
  BY <1>3, CodesAssumption DEF EvidenceProblem, RuntimeCodes
<1>5. Result(r, p, DecideRuntime(r, p)).action = Len(r.history)
  BY <1>2 DEF Result
<1> QED
  BY <1>2, <1>4, <1>5

(* Gate B answers with one of its codes.                                   *)
LEMMA DecisionCode ==
    ASSUME NEW r, NEW p
    PROVE  Result(r, p, DecideRuntime(r, p)).code
               \in RuntimeCodes \cup {"RUNTIME_ACTION_ADMISSIBLE"}
<1> DEFINE Problem == RuntimeCodes \cup {None}
<1>1. ScopeProblem(r, p) \in Problem
  BY DEF ScopeProblem, RuntimeCodes
<1>2. RetryProblem(r, p.tool) \in Problem
  BY DEF RetryProblem, RuntimeCodes
<1>3. \A done, i : AttemptProblem(r, done, i) \in Problem
  BY DEF AttemptProblem, RuntimeCodes
<1>4. EvidenceProblem(r, Required(p.tool)) \in Problem
  BY <1>3 DEF EvidenceProblem, RuntimeCodes
<1>5. StateProblem(r, p) \in Problem
  BY <1>2, <1>4 DEF StateProblem, RuntimeCodes
<1>6. StageProblem(r, p) \in Problem
  BY DEF StageProblem, RuntimeCodes
<1>7. DecideRuntime(r, p) \in Problem
  BY <1>1, <1>5, <1>6 DEF DecideRuntime
<1> QED
  BY <1>7 DEF Result

----------------------------------------------------------------------------
(* The plan.                                                               *)

LEMMA ToolsDiffer ==
    /\ InvoiceTools \in Seq(ToolNames) /\ Len(InvoiceTools) = 6
    /\ \A j, k \in 1..6 : InvoiceTools[j] = InvoiceTools[k] => j = k
    /\ \A k \in 1..6 : InvoiceTools[k] \in ReadTools <=> k # 6
    /\ InvoiceTools[6] = "stage_payment"
<1>1. \A k \in 1..6 : k = 1 \/ k = 2 \/ k = 3 \/ k = 4 \/ k = 5 \/ k = 6
  OBVIOUS
<1>2. \A j, k \in 1..6 : InvoiceTools[j] = InvoiceTools[k] => j = k
  BY <1>1 DEF InvoiceTools
<1>3. InvoiceTools \in Seq(ToolNames) /\ Len(InvoiceTools) = 6
  BY <1>1 DEF InvoiceTools, ToolNames
<1>4. InvoiceTools[6] = "stage_payment"
  BY DEF InvoiceTools
<1> QED
  BY <1>2, <1>3, <1>4 DEF ReadTools, ToolNames

(* The tool whose predecessors are the first k is tool k + 1.              *)
LEMMA NextTool ==
    ASSUME NEW tool \in ToolNames, NEW k \in 0..6, Required(tool) = Prefix(k)
    PROVE  /\ k < 6 /\ tool = InvoiceTools[k + 1]
           /\ Prefix(k) \cup {tool} = Prefix(k + 1)
<1>1. PICK j \in 1..6 : tool = InvoiceTools[j]
  BY DEF ToolNames
<1>2. ToolIndex(tool) = j
  BY <1>1, ToolsDiffer DEF ToolIndex
<1>3. Required(tool) = Prefix(j - 1)
  BY <1>2 DEF Required, Prefix
<1>4. \A a, b \in 0..6 : a < b => InvoiceTools[b] \in Prefix(b) /\ InvoiceTools[b] \notin Prefix(a)
  <2> SUFFICES ASSUME NEW a \in 0..6, NEW b \in 0..6, a < b
               PROVE  InvoiceTools[b] \in Prefix(b) /\ InvoiceTools[b] \notin Prefix(a)
    OBVIOUS
  <2>1. b \in 1..b /\ b \in 1..6
    OBVIOUS
  <2>2. \A i \in 1..a : i \in 1..6 /\ i # b
    OBVIOUS
  <2>3. InvoiceTools[b] \in Prefix(b)
    BY <2>1 DEF Prefix
  <2>4. ASSUME InvoiceTools[b] \in Prefix(a) PROVE FALSE
    <3>1. PICK i \in 1..a : InvoiceTools[b] = InvoiceTools[i]
      BY <2>4 DEF Prefix
    <3>2. i = b
      BY <2>1, <2>2, <3>1, ToolsDiffer
    <3> QED
      BY <2>2, <3>2
  <2> QED
    BY <2>3, <2>4
<1>5. j - 1 = k
  <2>1. CASE j - 1 < k
    <3>1. InvoiceTools[k] \in Prefix(k) /\ InvoiceTools[k] \notin Prefix(j - 1)
      BY <1>4, <2>1
    <3> QED
      BY <1>3, <3>1
  <2>2. CASE k < j - 1
    <3>1. /\ InvoiceTools[j - 1] \in Prefix(j - 1)
          /\ InvoiceTools[j - 1] \notin Prefix(k)
      BY <1>4, <2>2
    <3> QED
      BY <1>3, <3>1
  <2> QED
    BY <2>1, <2>2
<1>6. Prefix(k + 1) = Prefix(k) \cup {InvoiceTools[k + 1]}
  BY <1>5 DEF Prefix
<1> QED
  BY <1>1, <1>5, <1>6

LEMMA PlanRule ==
    ASSUME NEW k \in 1..6
    PROVE  StepOf(BuildPlan, InvoiceTools[k]).max = IF k = 6 THEN 0 ELSE ReadRetries
<1>1. \A j \in 1..6 : BuildPlan[j].step = InvoiceTools[j]
  BY DEF BuildPlan, PlanStep
<1>2. StepOf(BuildPlan, InvoiceTools[k]) = BuildPlan[k]
  BY <1>1, ToolsDiffer DEF StepOf, BuildPlan
<1>3. BuildPlan[k] = PlanStep(k)
  BY DEF BuildPlan
<1> QED
  BY <1>2, <1>3, ToolsDiffer DEF PlanStep, ReadTools, ToolNames

LEMMA Limit == RecursionLimit(BuildPlan) = 5 * ReadRetries + 9
<1>1. \A k \in 1..6 : BuildPlan[k].max = IF k = 6 THEN 0 ELSE ReadRetries
  BY ToolsDiffer DEF BuildPlan, PlanStep, ReadTools, ToolNames
<1> QED
  BY <1>1, PolicyAssumption DEF RecursionLimit

(* A budget is one attempt and the retries for each tool, and the whole of *)
(* it leaves three supersteps of the limit unused.                         *)
LEMMA BudgetSteps ==
    /\ Budget(0) = 0 /\ Budget(6) = 5 * ReadRetries + 6
    /\ \A k \in 0..6 : Budget(k) \in Nat /\ Budget(k) <= Budget(6)
    /\ \A k \in 0..4 : /\ Budget(k + 1) = Budget(k) + ReadRetries + 1
                       /\ Budget(k) + ReadRetries < Budget(6)
    /\ Budget(6) = Budget(5) + 1
<1>1. \A k \in 0..6 : k = 0 \/ k = 1 \/ k = 2 \/ k = 3 \/ k = 4 \/ k = 5 \/ k = 6
  OBVIOUS
<1> QED
  BY <1>1, PolicyAssumption DEF Budget

----------------------------------------------------------------------------
(* The inductive invariant: a staged payment is kept under its own invoice *)
(* besides, so that the staging of an existing one stays in the domain.    *)

StagedKeyed == \A v \in DOMAIN staged : staged[v].invoice_id = v

IInv == TypeOK /\ StagedKeyed /\ RetryBudget /\ NoGraphRecursion

(* While a run is within its budget, one more superstep is below the limit. *)
LEMMA SuperstepFits ==
    ASSUME IInv, Superstep
    PROVE  raised' = None /\ steps' = Len(run.history) + 1 /\ steps' \in Nat
<1>1. run.contract.plan = BuildPlan /\ steps = Len(run.history)
  BY DEF IInv, RetryBudget, Superstep
<1>2. PICK k \in 0..6 :
        /\ Len(run.history) <= Budget(k) + run.retry.attempts
        /\ run.retry.attempts > 0 => k < 5
  BY DEF IInv, RetryBudget, Superstep
<1>3. run.retry.attempts \in 0..ReadRetries /\ Len(run.history) \in Nat
  BY DEF IInv, TypeOK
<1>4. Len(run.history) <= Budget(6)
  <2>1. CASE run.retry.attempts > 0
    <3>1. k \in 0..4
      BY <1>2, <2>1
    <3>2. Budget(k) + ReadRetries < Budget(6) /\ Budget(k) \in Nat /\ Budget(6) \in Nat
      BY <3>1, BudgetSteps
    <3> QED
      BY <1>2, <1>3, <3>2, PolicyAssumption
  <2>2. CASE run.retry.attempts = 0
    BY <1>2, <1>3, <2>2, BudgetSteps
  <2> QED
    BY <1>3, <2>1, <2>2, PolicyAssumption
<1>5. steps' < RecursionLimit(run.contract.plan)
  <2>1. RecursionLimit(run.contract.plan) = 5 * ReadRetries + 9
    BY <1>1, Limit
  <2>2. Budget(6) = 5 * ReadRetries + 6
    BY BudgetSteps
  <2>3. steps' = Len(run.history) + 1
    BY <1>1 DEF Superstep
  <2> QED
    BY <1>3, <1>4, <2>1, <2>2, <2>3, PolicyAssumption
<1> QED
  BY <1>1, <1>3, <1>5 DEF Superstep

(* A checked run: what Gate B was asked, and what its approval implies.    *)
LEMMA CheckedRun ==
    ASSUME IInv, Running, NEW c \in CheckedRuns
    PROVE  /\ Differs(run, c, {"events", "proposed", "decision"})
           /\ c.decision # None =>
                 c.decision.code \in RuntimeCodes \cup {"RUNTIME_ACTION_ADMISSIBLE"}
           /\ c.decision.decision = "APPROVE" =>
                 /\ c.proposed.tool \in ToolNames
                 /\ DOMAIN run.evidence = Required(c.proposed.tool)
                 /\ c.decision.action = Len(run.history)
<1>1. DOMAIN run = RunFields /\ Len(run.history) \in Nat
  BY DEF IInv, TypeOK
<1>2. PICK p : c = Checked(run, p, DecideRuntime(run, p))
  BY DEF CheckedRuns, Judgements
<1>3. Len(run.history) # None
  BY <1>1, NoneAssumption
<1> QED
  BY <1>1, <1>2, <1>3, CheckedShape, ApprovedProposal, DecisionCode

(* A step after which the run is not running.                              *)
LEMMA StoppingStep ==
    ASSUME IInv, DOMAIN run' = RunFields, run'.history \in Seq(Nat),
           DOMAIN run'.evidence \subseteq ToolNames,
           run'.retry \in {run.retry, NoRetry},
           run'.state \in RunStates,
           run'.approvalState \in {run.approvalState, "REQUIRED"},
           run'.decision # None =>
               run'.decision.code \in RuntimeCodes \cup {"RUNTIME_ACTION_ADMISSIBLE"},
           run'.outcome # None => run'.outcome.status \in TerminalStates,
           steps' \in Nat, raised' \in {None, "UNCAUGHT"}, ~Running',
           DOMAIN staged' \subseteq DOMAIN Invoices, StagedKeyed'
    PROVE  IInv'
<1>1. /\ DOMAIN run'.retry = DOMAIN NoRetry
      /\ run'.retry.attempts \in 0..ReadRetries
      /\ run'.retry.tool \in ReadTools \cup {None}
  <2>1. CASE run'.retry = run.retry
    BY <2>1 DEF IInv, TypeOK
  <2>2. CASE run'.retry = NoRetry
    BY <2>2, PolicyAssumption DEF NoRetry
  <2> QED
    BY <2>1, <2>2
<1>2. TypeOK'
  BY <1>1 DEF IInv, TypeOK, Escapes
<1>3. RetryBudget'
  BY DEF RetryBudget
<1>4. NoGraphRecursion'
  BY EscapesAssumption DEF NoGraphRecursion, Escapes
<1> QED
  BY <1>2, <1>3, <1>4 DEF IInv

(* A step that calls no tool and stops the run.                            *)
LEMMA QuietStep ==
    ASSUME IInv, DOMAIN run' = RunFields, UNCHANGED staged,
           \A f \in {"history", "evidence", "retry"} : run'[f] = run[f],
           run'.state \in RunStates \ {"RUNNING"},
           run'.approvalState \in {run.approvalState, "REQUIRED"},
           run'.decision # None =>
               run'.decision.code \in RuntimeCodes \cup {"RUNTIME_ACTION_ADMISSIBLE"},
           run'.outcome # None => run'.outcome.status \in TerminalStates,
           steps' \in Nat, raised' = None
    PROVE  IInv'
<1>1. /\ run'.history \in Seq(Nat) /\ DOMAIN run'.evidence \subseteq ToolNames
      /\ DOMAIN staged' \subseteq DOMAIN Invoices
  BY DEF IInv, TypeOK
<1>2. StagedKeyed'
  BY DEF IInv, StagedKeyed
<1>3. ~Running'
  BY DEF Running
<1> QED
  BY <1>1, <1>2, <1>3, StoppingStep

LEMMA FinishRunKeeps == IInv /\ FinishRun => IInv'
<1> SUFFICES ASSUME IInv, FinishRun PROVE IInv'
  OBVIOUS
<1>1. raised' = None /\ steps' \in Nat
  BY SuperstepFits DEF FinishRun
<1>2. DOMAIN run = RunFields
  BY DEF IInv, TypeOK
<1>3. /\ Differs(run, run', {"events", "state", "outcome"})
      /\ run'.state \in {"COMPLETED", "FAILED"}
      /\ run'.outcome.status = run'.state
  BY <1>2, FinishPlanShape DEF FinishRun
<1>4. UNCHANGED staged
  BY DEF FinishRun, envVars
<1>5. run'.decision = run.decision /\ run'.approvalState = run.approvalState
  BY <1>3 DEF Differs, RunFields
<1>6. /\ DOMAIN run' = RunFields
      /\ \A f \in {"history", "evidence", "retry"} : run'[f] = run[f]
  BY <1>3 DEF Differs, RunFields
<1> QED
  BY <1>1, <1>3, <1>4, <1>5, <1>6, QuietStep
     DEF IInv, TypeOK, RunStates, TerminalStates

LEMMA RejectKeeps ==
    ASSUME IInv, NEW c \in CheckedRuns, Reject(c)
    PROVE  IInv'
<1>1. raised' = None /\ steps' \in Nat
  BY SuperstepFits DEF Reject
<1>2. /\ Differs(run, c, {"events", "proposed", "decision"})
      /\ c.decision # None =>
            c.decision.code \in RuntimeCodes \cup {"RUNTIME_ACTION_ADMISSIBLE"}
  BY CheckedRun DEF Reject, Superstep
<1>3. /\ Differs(c, run', {"events", "state", "outcome"})
      /\ run'.state = "REJECTED" /\ run'.outcome.status = "REJECTED"
  BY <1>2, FinishWithShape DEF Reject, Differs
<1>4. UNCHANGED staged
  BY DEF Reject, envVars
<1>5. run'.decision = c.decision /\ run'.approvalState = run.approvalState
  BY <1>2, <1>3 DEF Differs, RunFields
<1>6. /\ DOMAIN run' = RunFields
      /\ \A f \in {"history", "evidence", "retry"} : run'[f] = run[f]
  BY <1>2, <1>3 DEF Differs, RunFields
<1> QED
  BY <1>1, <1>2, <1>3, <1>4, <1>5, <1>6, QuietStep
     DEF RunStates, TerminalStates

LEMMA PauseKeeps ==
    ASSUME IInv, NEW c \in CheckedRuns, Pause(c)
    PROVE  IInv'
<1>1. raised' = None /\ steps' \in Nat
  BY SuperstepFits DEF Pause
<1>2. /\ Differs(run, c, {"events", "proposed", "decision"})
      /\ c.decision # None =>
            c.decision.code \in RuntimeCodes \cup {"RUNTIME_ACTION_ADMISSIBLE"}
  BY CheckedRun DEF Pause, Superstep
<1>3. /\ Differs(c, run', {"events", "state", "questions", "approvalState"})
      /\ run'.state \in PausedStates
      /\ run'.approvalState \in {c.approvalState, "REQUIRED"}
  BY <1>2, PausedShape DEF Pause, Differs
<1>4. UNCHANGED staged
  BY DEF Pause, envVars
<1>5. /\ run'.decision = c.decision /\ run'.outcome = run.outcome
      /\ c.approvalState = run.approvalState
  BY <1>2, <1>3 DEF Differs, RunFields
<1>6. /\ DOMAIN run' = RunFields
      /\ \A f \in {"history", "evidence", "retry"} : run'[f] = run[f]
  BY <1>2, <1>3 DEF Differs, RunFields
<1>7. run'.outcome # None => run'.outcome.status \in TerminalStates
  BY <1>5 DEF IInv, TypeOK
<1> QED
  BY <1>1, <1>2, <1>3, <1>4, <1>5, <1>6, <1>7, QuietStep
     DEF RunStates, PausedStates

----------------------------------------------------------------------------
(* The actions that call a tool.                                           *)

(* An approved call is the next tool's, within what the budget allows it.  *)
LEMMA StartedCall ==
    ASSUME IInv, Running, NEW c \in CheckedRuns, c.decision.decision = "APPROVE"
    PROVE  /\ Differs(run, Started(c), {"events", "proposed", "decision", "history"})
           /\ Started(c).decision = c.decision /\ Started(c).proposed = c.proposed
           /\ c.decision # None =>
                 c.decision.code \in RuntimeCodes \cup {"RUNTIME_ACTION_ADMISSIBLE"}
           /\ Started(c).history \in Seq(Nat)
           /\ Len(Started(c).history) = Len(run.history) + 1
           /\ c.contract = run.contract /\ c.retry = run.retry
           /\ c.proposed.tool \in ToolNames
           /\ \E k \in 0..5 :
                 /\ c.proposed.tool = InvoiceTools[k + 1]
                 /\ DOMAIN run.evidence = Prefix(k)
                 /\ Prefix(k) \cup {c.proposed.tool} = Prefix(k + 1)
                 /\ Len(run.history) <= Budget(k) + run.retry.attempts
                 /\ run.retry.attempts > 0 =>
                       k < 5 /\ run.retry.tool = c.proposed.tool
<1>1. DOMAIN run = RunFields /\ run.history \in Seq(Nat)
  BY DEF IInv, TypeOK
<1>2. /\ Differs(run, c, {"events", "proposed", "decision"})
      /\ c.decision # None =>
            c.decision.code \in RuntimeCodes \cup {"RUNTIME_ACTION_ADMISSIBLE"}
      /\ c.proposed.tool \in ToolNames
      /\ DOMAIN run.evidence = Required(c.proposed.tool)
      /\ c.decision.action = Len(run.history)
  BY CheckedRun
<1>3. DOMAIN c = RunFields /\ c.history = run.history
  BY <1>2 DEF Differs, RunFields
<1>4. /\ Differs(c, Started(c), {"events", "history"})
      /\ Started(c).history = Append(run.history, Len(run.history))
  BY <1>2, <1>3, StartedShape
<1>5. /\ Started(c).history \in Seq(Nat)
      /\ Len(Started(c).history) = Len(run.history) + 1
  BY <1>1, <1>4
<1>6. PICK k \in 0..6 :
        /\ DOMAIN run.evidence = Prefix(k)
        /\ Len(run.history) <= Budget(k) + run.retry.attempts
        /\ run.retry.attempts > 0 => k < 5 /\ run.retry.tool = InvoiceTools[k + 1]
  BY DEF IInv, RetryBudget
<1>7. /\ k < 6 /\ c.proposed.tool = InvoiceTools[k + 1]
      /\ Prefix(k) \cup {c.proposed.tool} = Prefix(k + 1)
  BY <1>2, <1>6, NextTool
<1>8. k \in 0..5
  BY <1>7
<1>9. Differs(run, Started(c), {"events", "proposed", "decision", "history"})
  BY <1>2, <1>4 DEF Differs, RunFields
<1>10. /\ Started(c).decision = c.decision /\ Started(c).proposed = c.proposed
       /\ c.contract = run.contract /\ c.retry = run.retry
  BY <1>2, <1>4 DEF Differs, RunFields
<1> QED
  BY <1>2, <1>5, <1>6, <1>7, <1>8, <1>9, <1>10

LEMMA FailKeeps ==
    ASSUME IInv, NEW c \in CheckedRuns, NEW answer \in Answers(c), Fail(c, answer)
    PROVE  IInv'
<1> DEFINE begun  == Started(c)
           failed == FailedCall(begun, answer.code)
           tool   == c.proposed.tool
<1>1. raised' = None /\ steps' = Len(run.history) + 1 /\ steps' \in Nat
  BY SuperstepFits DEF Fail
<1>2. Running /\ c.decision.decision = "APPROVE" /\ UNCHANGED staged
  BY DEF Fail, Superstep, envVars, Answers
<1>3. /\ Differs(run, begun, {"events", "proposed", "decision", "history"})
      /\ begun.decision = c.decision
      /\ c.decision # None =>
            c.decision.code \in RuntimeCodes \cup {"RUNTIME_ACTION_ADMISSIBLE"}
      /\ begun.history \in Seq(Nat)
      /\ Len(begun.history) = Len(run.history) + 1
      /\ c.contract = run.contract /\ c.retry = run.retry
  BY <1>2, StartedCall
<1>4. PICK k \in 0..5 :
        /\ tool = InvoiceTools[k + 1]
        /\ DOMAIN run.evidence = Prefix(k)
        /\ Len(run.history) <= Budget(k) + run.retry.attempts
        /\ run.retry.attempts > 0 => k < 5 /\ run.retry.tool = tool
  BY <1>2, StartedCall
<1>5. \/ MayRetry(c, tool, answer) /\ run' = ScheduleRetry(failed, tool, answer.code)
      \/ run' = FinishWith(failed, answer.code, "FAILED")
  BY DEF Fail
<1> HIDE DEF begun
<1>6. Differs(begun, failed, {"events", "observations"})
  BY <1>3, FailedCallShape DEF Differs
<1> HIDE DEF failed, tool
<1>7. /\ DOMAIN failed = RunFields /\ failed.state = run.state
      /\ failed.history = begun.history /\ failed.evidence = run.evidence
      /\ failed.retry = run.retry /\ failed.decision = c.decision
      /\ failed.approvalState = run.approvalState
      /\ failed.outcome = run.outcome /\ failed.contract = run.contract
  BY <1>3, <1>6 DEF Differs, RunFields
<1>8. StagedKeyed' /\ DOMAIN staged' \subseteq DOMAIN Invoices
  BY <1>2 DEF IInv, TypeOK, StagedKeyed
<1>9. CASE run' = FinishWith(failed, answer.code, "FAILED")
  <2>1. /\ Differs(failed, run', {"events", "state", "outcome"})
        /\ run'.state = "FAILED" /\ run'.outcome.status = "FAILED"
    BY <1>7, <1>9, FinishWithShape
  <2>2. /\ DOMAIN run' = RunFields
        /\ run'.history = begun.history /\ run'.evidence = run.evidence
        /\ run'.retry = run.retry /\ run'.decision = c.decision
        /\ run'.approvalState = run.approvalState
    BY <1>7, <2>1 DEF Differs, RunFields
  <2>3. ~Running' /\ run'.state \in RunStates /\ run'.outcome.status \in TerminalStates
    BY <2>1 DEF Running, RunStates, TerminalStates
  <2>4. DOMAIN run'.evidence \subseteq ToolNames
    BY <2>2 DEF IInv, TypeOK
  <2> QED
    BY <1>1, <1>3, <1>8, <2>2, <2>3, <2>4, StoppingStep
<1>10. CASE /\ MayRetry(c, tool, answer)
            /\ run' = ScheduleRetry(failed, tool, answer.code)
  <2>1. /\ Differs(failed, run', {"events", "retry"})
        /\ DOMAIN run'.retry = DOMAIN NoRetry
        /\ run'.retry.attempts = Attempts(failed, tool) + 1
        /\ run'.retry.tool = tool
    BY <1>7, <1>10, ScheduleRetryShape
  <2>2. /\ DOMAIN run' = RunFields /\ run'.state = run.state
        /\ run'.history = begun.history /\ run'.evidence = run.evidence
        /\ run'.decision = c.decision /\ run'.approvalState = run.approvalState
        /\ run'.outcome = run.outcome /\ run'.contract = run.contract
    BY <1>7, <2>1 DEF Differs, RunFields
  <2>3. run.contract.plan = BuildPlan
    BY <1>2 DEF IInv, RetryBudget
  <2>4. /\ run.retry.attempts \in 0..ReadRetries
        /\ run.history \in Seq(Nat)
    BY DEF IInv, TypeOK
  <2>5. Attempts(failed, tool) = Attempts(c, tool)
    BY <1>3, <1>7 DEF Attempts
  <2>6. Attempts(c, tool) = run.retry.attempts
    BY <1>3, <1>4, <2>4 DEF Attempts
  <2>7. Attempts(c, tool) < (IF k + 1 = 6 THEN 0 ELSE ReadRetries)
    <3>1. Attempts(c, tool) < StepOf(BuildPlan, tool).max
      BY <1>3, <1>10, <2>3 DEF MayRetry
    <3> QED
      BY <1>4, <3>1, PlanRule
  <2>8. k < 5 /\ run'.retry.attempts \in 1..ReadRetries
    BY <2>1, <2>4, <2>5, <2>6, <2>7, PolicyAssumption
  <2>9. tool \in ReadTools
    BY <1>4, <2>8, ToolsDiffer
  <2>10. TypeOK'
    BY <1>1, <1>3, <1>8, <2>1, <2>2, <2>8, <2>9, PolicyAssumption DEF IInv, TypeOK
  <2>11. /\ Budget(k) \in Nat
         /\ Len(run'.history) <= Budget(k) + run'.retry.attempts
    <3>1. Len(run'.history) = Len(run.history) + 1
      BY <1>3, <2>2
    <3>2. run'.retry.attempts = run.retry.attempts + 1
      BY <2>1, <2>5, <2>6
    <3>3. k \in 0..6 /\ Budget(k) \in Nat
      BY BudgetSteps
    <3>4. Len(run.history) \in Nat
      BY <2>4
    <3> QED
      BY <1>4, <2>4, <3>1, <3>2, <3>3, <3>4, PolicyAssumption
  <2>12. RetryBudget'
    <3>1. steps' = Len(run'.history) /\ run'.contract.plan = BuildPlan
      BY <1>1, <1>3, <2>2, <2>3
    <3>2. DOMAIN run'.evidence = Prefix(k) /\ k \in 0..6
      BY <1>4, <2>2
    <3>3. k < 5 /\ run'.retry.tool = InvoiceTools[k + 1]
      BY <1>4, <2>1, <2>8
    <3> QED
      BY <2>11, <3>1, <3>2, <3>3 DEF RetryBudget
  <2>13. NoGraphRecursion'
    BY <1>1, EscapesAssumption DEF NoGraphRecursion, Escapes
  <2> QED
    BY <1>8, <2>10, <2>12, <2>13 DEF IInv
<1> QED
  BY <1>5, <1>9, <1>10

LEMMA EscapeKeeps ==
    ASSUME IInv, NEW c \in CheckedRuns, NEW answer \in Answers(c), Escape(c, answer)
    PROVE  IInv'
<1>1. Running /\ c.decision.decision = "APPROVE" /\ run' = Started(c)
  BY DEF Escape, Answers
<1>2. raised' = "UNCAUGHT" /\ UNCHANGED <<steps, staged>>
  BY DEF Escape
<1>3. /\ Differs(run, run', {"events", "proposed", "decision", "history"})
      /\ run'.decision = c.decision
      /\ c.decision # None =>
            c.decision.code \in RuntimeCodes \cup {"RUNTIME_ACTION_ADMISSIBLE"}
      /\ run'.history \in Seq(Nat)
  BY <1>1, StartedCall
<1>4. /\ DOMAIN run' = RunFields /\ run'.state = run.state
      /\ run'.evidence = run.evidence /\ run'.retry = run.retry
      /\ run'.approvalState = run.approvalState /\ run'.outcome = run.outcome
  BY <1>3 DEF Differs, RunFields
<1>5. /\ DOMAIN run'.evidence \subseteq ToolNames /\ run'.state \in RunStates
      /\ run'.outcome # None => run'.outcome.status \in TerminalStates
      /\ steps' \in Nat /\ DOMAIN staged' \subseteq DOMAIN Invoices
  BY <1>2, <1>4 DEF IInv, TypeOK
<1>6. StagedKeyed'
  BY <1>2 DEF IInv, StagedKeyed
<1>7. ~Running'
  BY <1>2, EscapesAssumption DEF Running, Escapes
<1> QED
  BY <1>2, <1>3, <1>4, <1>5, <1>6, <1>7, StoppingStep

(* What staging returns carries the identifier of an invoice on record.    *)
LEMMA StagedInvoice ==
    ASSUME DOMAIN staged \subseteq DOMAIN Invoices, StagedKeyed,
           NEW args, NEW approval, NEW fault,
           Invoke("stage_payment", args, approval, fault).kind = "record"
    PROVE  Invoke("stage_payment", args, approval, fault).output.invoice_id
               \in DOMAIN Invoices
<1> DEFINE valid   == ValidatedAction(args)
           invoice == valid.output
<1>1. fault = "none"
  BY DEF Invoke, InjectedFailure, Raised, Retryable
<1>2. /\ Invoke("stage_payment", args, approval, fault) = StagePayment(args, approval)
      /\ StagePayment(args, approval).kind = "record"
  BY <1>1 DEF Invoke, Call
<1>3. valid.kind = "record"
  BY <1>2 DEF StagePayment
<1>4. valid = Lookup(Invoices, args["invoice_id"])
  BY <1>3 DEF ValidatedAction, Raised
<1>5. invoice.invoice_id \in DOMAIN Invoices
  <2>1. \A id : Lookup(Invoices, id).kind = "record" =>
           /\ Strip[id] \in DOMAIN Invoices
           /\ Lookup(Invoices, id).output = Invoices[Strip[id]]
    BY DEF Lookup, Uncaught, Raised, Returned
  <2> QED
    BY <1>3, <1>4, <2>1, FixtureAssumption
<1> HIDE DEF valid
<1>6. StagePayment(args, approval).output \in
          {staged[v] : v \in DOMAIN staged} \cup {StagedPayment(invoice, args["amount"])}
  BY <1>2 DEF StagePayment, valid, Raised, Returned
<1>7. \A v \in DOMAIN staged : staged[v].invoice_id \in DOMAIN Invoices
  BY DEF StagedKeyed
<1>8. StagedPayment(invoice, args["amount"]).invoice_id = invoice.invoice_id
  BY DEF StagedPayment
<1> QED
  BY <1>2, <1>5, <1>6, <1>7, <1>8

LEMMA SucceedKeeps ==
    ASSUME IInv, NEW c \in CheckedRuns, NEW answer \in Answers(c), Succeed(c, answer)
    PROVE  IInv'
<1> DEFINE output == answer.output
           begun  == Started(c)
           done   == CompletedCall(begun, output)
           tool   == c.proposed.tool
<1>1. raised' = None /\ steps' = Len(run.history) + 1 /\ steps' \in Nat
  BY SuperstepFits DEF Succeed
<1>2. Running /\ c.decision.decision = "APPROVE"
  BY DEF Succeed, Superstep, Answers
<1>3. /\ Differs(run, begun, {"events", "proposed", "decision", "history"})
      /\ begun.decision = c.decision /\ begun.proposed = c.proposed
      /\ c.decision # None =>
            c.decision.code \in RuntimeCodes \cup {"RUNTIME_ACTION_ADMISSIBLE"}
      /\ begun.history \in Seq(Nat)
      /\ Len(begun.history) = Len(run.history) + 1
      /\ tool \in ToolNames
  BY <1>2, StartedCall
<1>4. PICK k \in 0..5 :
        /\ DOMAIN run.evidence = Prefix(k)
        /\ Prefix(k) \cup {tool} = Prefix(k + 1)
        /\ Len(run.history) <= Budget(k) + run.retry.attempts
        /\ run.retry.attempts > 0 => k < 5
  BY <1>2, StartedCall
<1>5. run' = Settled(done, tool, output)
  BY DEF Succeed
<1>6. DOMAIN staged' \subseteq DOMAIN Invoices /\ StagedKeyed'
  <2>1. CASE tool = "stage_payment"
    <3>1. staged' = WithStaged(output)
      BY <2>1 DEF Succeed
    <3>2. output.invoice_id \in DOMAIN Invoices
      BY <2>1, StagedInvoice DEF Succeed, Answers, IInv, TypeOK
    <3> HIDE DEF output
    <3> QED
      BY <3>1, <3>2 DEF WithStaged, IInv, TypeOK, StagedKeyed
  <2>2. CASE tool # "stage_payment"
    BY <2>2 DEF Succeed, IInv, TypeOK, StagedKeyed
  <2> QED
    BY <2>1, <2>2
<1> HIDE DEF begun, output
<1>7. /\ Differs(begun, done, {"events", "evidence", "observations", "retry"})
      /\ DOMAIN done.evidence = DOMAIN begun.evidence \cup {begun.proposed.tool}
      /\ done.retry = NoRetry
  BY <1>3, CompletedCallShape DEF Differs
<1> HIDE DEF done, tool
<1>8. /\ DOMAIN done = RunFields /\ done.state = run.state
      /\ done.history = begun.history /\ done.decision = c.decision
      /\ done.approvalState = run.approvalState
      /\ done.outcome = run.outcome /\ done.contract = run.contract
      /\ begun.evidence = run.evidence
  BY <1>3, <1>7 DEF Differs, RunFields
<1>9. DOMAIN done.evidence = Prefix(k + 1) /\ DOMAIN done.evidence \subseteq ToolNames
  <2>1. DOMAIN done.evidence = DOMAIN run.evidence \cup {tool}
    BY <1>3, <1>7, <1>8 DEF tool
  <2> QED
    BY <1>3, <1>4, <2>1 DEF IInv, TypeOK
<1>10. \/ run' = done
       \/ /\ Differs(done, run', {"events", "state", "outcome"})
          /\ run'.state = "FAILED" /\ run'.outcome.status = "FAILED"
  BY <1>5, <1>8, SettledShape
<1>11. CASE run'.state = "FAILED" /\ run' # done
  <2>1. /\ DOMAIN run' = RunFields
        /\ run'.history = begun.history /\ run'.evidence = done.evidence
        /\ run'.retry = NoRetry /\ run'.decision = c.decision
        /\ run'.approvalState = run.approvalState
        /\ run'.outcome.status = "FAILED"
    BY <1>7, <1>8, <1>10, <1>11 DEF Differs, RunFields
  <2>2. ~Running' /\ run'.state \in RunStates /\ run'.outcome.status \in TerminalStates
    BY <1>11, <2>1 DEF Running, RunStates, TerminalStates
  <2>3. DOMAIN run'.evidence \subseteq ToolNames
    BY <1>9, <2>1
  <2> QED
    BY <1>1, <1>3, <1>6, <2>1, <2>2, <2>3, StoppingStep
<1>12. CASE run' = done
  <2>1. /\ DOMAIN run'.retry = DOMAIN NoRetry
        /\ run'.retry.attempts = 0 /\ run'.retry.tool = None
    BY <1>7, <1>12 DEF NoRetry
  <2>2. TypeOK'
    BY <1>1, <1>3, <1>6, <1>8, <1>9, <1>12, <2>1, PolicyAssumption DEF IInv, TypeOK
  <2>3. Len(run'.history) <= Budget(k + 1) + run'.retry.attempts
    <3>1. run.retry.attempts \in 0..ReadRetries /\ Len(run.history) \in Nat
      BY DEF IInv, TypeOK
    <3>2. Len(run'.history) = Len(run.history) + 1
      BY <1>3, <1>8, <1>12
    <3>3. Budget(k) \in Nat /\ Budget(k + 1) \in Nat
      BY BudgetSteps
    <3>4. CASE k < 5
      <4>1. Budget(k + 1) = Budget(k) + ReadRetries + 1
        BY <3>4, BudgetSteps
      <4> QED
        BY <1>4, <2>1, <3>1, <3>2, <3>3, <4>1, PolicyAssumption
    <3>5. CASE k = 5
      <4>1. Budget(k + 1) = Budget(k) + 1
        BY <3>5, BudgetSteps
      <4>2. run.retry.attempts = 0
        BY <1>4, <3>1, <3>5
      <4> QED
        BY <1>4, <2>1, <3>1, <3>2, <3>3, <4>1, <4>2
    <3> QED
      BY <3>4, <3>5
  <2>4. RetryBudget'
    <3>1. run'.contract.plan = BuildPlan
      BY <1>2, <1>8, <1>12 DEF IInv, RetryBudget
    <3>2. steps' = Len(run'.history)
      BY <1>1, <1>3, <1>8, <1>12
    <3>3. k + 1 \in 0..6 /\ DOMAIN run'.evidence = Prefix(k + 1)
      BY <1>9, <1>12
    <3>4. ~(run'.retry.attempts > 0)
      BY <2>1
    <3> QED
      BY <2>3, <3>1, <3>2, <3>3, <3>4 DEF RetryBudget
  <2>5. NoGraphRecursion'
    BY <1>1, EscapesAssumption DEF NoGraphRecursion, Escapes
  <2> QED
    BY <1>6, <2>2, <2>4, <2>5 DEF IInv
<1> QED
  BY <1>10, <1>11, <1>12

----------------------------------------------------------------------------
(* A new run is within its budget, having used none of it.                 *)
LEMMA FreshRun ==
    ASSUME NEW id, NEW order, NEW r \in Beginnings(id, order)
    PROVE  /\ DOMAIN r = RunFields /\ r.history = <<>> /\ r.decision = None
           /\ r.state \in RunStates
           /\ r.approvalState \in {"NOT_REQUESTED", "REQUIRED", "APPROVED_BY_HUMAN"}
           /\ r.outcome # None => r.outcome.status = "REJECTED"
           /\ r.state = "RUNNING" => r.contract.plan = BuildPlan
           /\ r.contract.run = id
           /\ r.state = "RUNNING" => r.outcome = None
           /\ r.state \in PausedStates \cup {"RUNNING", "REJECTED"}
           /\ DOMAIN r.evidence = {} /\ DOMAIN r.evidence = Prefix(0)
           /\ DOMAIN r.retry = DOMAIN NoRetry
           /\ r.retry.attempts = 0 /\ r.retry.tool = None
<1>1. Prefix(0) = {} /\ DOMAIN << >> = {}
  BY DEF Prefix
<1>2. NoRetry.attempts = 0 /\ NoRetry.tool = None
  BY DEF NoRetry
<1>3. PICK gateA : r = Start(NewRun(id, order, gateA))
  BY DEF Beginnings
<1>4. /\ DOMAIN r = RunFields
      /\ r.history = <<>> /\ r.evidence = <<>> /\ r.retry = NoRetry
      /\ r.decision = None
      /\ r.state \in RunStates
      /\ r.approvalState \in {"NOT_REQUESTED", "REQUIRED", "APPROVED_BY_HUMAN"}
      /\ r.outcome # None => r.outcome.status = "REJECTED"
      /\ r.state = "RUNNING" => r.contract.plan = BuildPlan
      /\ r.contract.run = id
      /\ r.state = "RUNNING" => r.outcome = None
      /\ r.state \in PausedStates \cup {"RUNNING", "REJECTED"}
  BY <1>3, StartShape
<1> QED
  BY <1>1, <1>2, <1>4

LEMMA InitHolds == Init => IInv
<1> SUFFICES ASSUME Init PROVE IInv
  OBVIOUS
<1>1. PICK order \in Orders : run \in Beginnings(1, order)
  BY DEF Init
<1>2. steps = 0 /\ raised = None /\ staged = <<>>
  BY DEF Init, EnvInit
<1>3. /\ DOMAIN run = RunFields /\ run.history = <<>> /\ run.decision = None
      /\ run.state \in RunStates
      /\ run.approvalState \in {"NOT_REQUESTED", "REQUIRED", "APPROVED_BY_HUMAN"}
      /\ run.outcome # None => run.outcome.status = "REJECTED"
      /\ run.state = "RUNNING" => run.contract.plan = BuildPlan
      /\ DOMAIN run.evidence = {} /\ DOMAIN run.evidence = Prefix(0)
      /\ DOMAIN run.retry = DOMAIN NoRetry
      /\ run.retry.attempts = 0 /\ run.retry.tool = None
  BY <1>1, FreshRun
<1>4. TypeOK
  <2>1. DOMAIN staged = {} /\ run.history \in Seq(Nat)
    BY <1>2, <1>3
  <2> QED
    BY <1>2, <1>3, <2>1, PolicyAssumption DEF TypeOK, TerminalStates
<1>5. RetryBudget
  <2>1. Budget(0) = 0 /\ Len(run.history) = 0 /\ 0 \in 0..6
    BY <1>3, BudgetSteps
  <2> QED
    BY <1>2, <1>3, <2>1 DEF RetryBudget, Running
<1>6. StagedKeyed /\ NoGraphRecursion
  BY <1>2, EscapesAssumption DEF StagedKeyed, NoGraphRecursion, Escapes
<1> QED
  BY <1>4, <1>5, <1>6 DEF IInv

LEMMA BeginningKeeps ==
    ASSUME IInv, NEW id, NEW order, run' \in Beginnings(id, order),
           steps' = 0, raised' = None, UNCHANGED staged
    PROVE  IInv'
<1>3. /\ DOMAIN run' = RunFields /\ run'.history = <<>> /\ run'.decision = None
      /\ run'.state \in RunStates
      /\ run'.approvalState \in {"NOT_REQUESTED", "REQUIRED", "APPROVED_BY_HUMAN"}
      /\ run'.outcome # None => run'.outcome.status = "REJECTED"
      /\ run'.state = "RUNNING" => run'.contract.plan = BuildPlan
      /\ DOMAIN run'.evidence = {} /\ DOMAIN run'.evidence = Prefix(0)
      /\ DOMAIN run'.retry = DOMAIN NoRetry
      /\ run'.retry.attempts = 0 /\ run'.retry.tool = None
  BY FreshRun
<1>4. TypeOK'
  BY <1>3, PolicyAssumption DEF IInv, TypeOK, TerminalStates
<1>5. RetryBudget'
  <2>1. Budget(0) = 0 /\ Len(run'.history) = 0 /\ 0 \in 0..6
    BY <1>3, BudgetSteps
  <2> QED
    BY <1>3, <2>1 DEF RetryBudget, Running
<1>6. StagedKeyed' /\ NoGraphRecursion'
  BY EscapesAssumption DEF IInv, StagedKeyed, NoGraphRecursion, Escapes
<1> QED
  BY <1>4, <1>5, <1>6 DEF IInv

LEMMA ExecuteKeeps ==
    ASSUME IInv, NEW order \in Orders, Execute(order)
    PROVE  IInv'
BY BeginningKeeps DEF Execute, envVars

LEMMA StepKeeps == IInv /\ [Next]_vars => IInv'
<1> SUFFICES ASSUME IInv, [Next]_vars PROVE IInv'
  OBVIOUS
<1>1. CASE FinishRun
  BY <1>1, FinishRunKeeps
<1>2. ASSUME NEW c \in CheckedRuns,
             \/ Reject(c)
             \/ Pause(c)
             \/ \E answer \in Answers(c) :
                    Fail(c, answer) \/ Escape(c, answer) \/ Succeed(c, answer)
      PROVE  IInv'
  BY <1>2, RejectKeeps, PauseKeeps, FailKeeps, EscapeKeeps, SucceedKeeps
<1>3. ASSUME NEW order \in Orders, Execute(order)
      PROVE  IInv'
  BY <1>3, ExecuteKeeps
<1>4. CASE UNCHANGED vars
  <2>1. run' = run /\ steps' = steps /\ raised' = raised /\ staged' = staged
    BY <1>4 DEF vars
  <2>2. TypeOK' /\ StagedKeyed'
    BY <2>1 DEF IInv, TypeOK, StagedKeyed
  <2>3. RetryBudget' /\ NoGraphRecursion'
    BY <2>1 DEF IInv, RetryBudget, Running, NoGraphRecursion
  <2> QED
    BY <2>2, <2>3 DEF IInv
<1> QED
  BY <1>1, <1>2, <1>3, <1>4 DEF Next, Advance

----------------------------------------------------------------------------
(* The invariant that the theorems are read from.                          *)
LEMMA Inductive == Spec => []IInv
BY InitHolds, StepKeeps, PTL DEF Spec

(* Every reachable state of every execution is well typed: the run states, *)
(* decisions and outcomes that _execute, _dispatch and _finish assign, the *)
(* retries, and the invoices under which payments are staged.              *)
THEOREM TypeCorrect == Spec => []TypeOK
<1>1. IInv => TypeOK
  BY DEF IInv
<1> QED
  BY <1>1, Inductive, PTL

(* While a run is running, its evidence is a prefix of the plan and its    *)
(* attempts are within the retries of the tools that have answered.        *)
THEOREM WithinRetryBudget == Spec => []RetryBudget
<1>1. IInv => RetryBudget
  BY DEF IInv
<1> QED
  BY <1>1, Inductive, PTL

(* Whatever the fixtures, the number of retries, the faults and the edits  *)
(* of proposals: the recursion_limit that _execute passes to LangGraph is  *)
(* never reached.                                                          *)
THEOREM LimitSuffices == Spec => []NoGraphRecursion
<1>1. IInv => NoGraphRecursion
  BY DEF IInv
<1> QED
  BY <1>1, Inductive, PTL

----------------------------------------------------------------------------
(* The controller implements GovernedExecution.  An execution that has     *)
(* answered a tool has made the corresponding abstract step; a retry, and  *)
(* the events, are invisible.  What the payment is rests on two facts that *)
(* IInv does not have: the observed invoice and every staged payment are   *)
(* what the master data say.                                               *)

(* The invoice that an execution has observed is one on record.            *)
InvoiceSeen ==
    "inspect_invoice" \in DOMAIN run.evidence =>
        \E t \in DOMAIN Strip :
            /\ Strip[t] \in DOMAIN Invoices
            /\ run.evidence["inspect_invoice"] = Invoices[Strip[t]]

(* A staged payment is determined by the invoice that it pays.             *)
LedgerOfRecords ==
    \A v \in DOMAIN staged : staged[v] = StagedPayment(Invoices[v], Invoices[v].amount)

GInv == IInv /\ InvoiceSeen /\ LedgerOfRecords

----------------------------------------------------------------------------
(* How a run looks from outside.                                           *)

LEMMA Plan ==
    /\ \A k \in 0..6 : Governed!First(k) = Prefix(k)
    /\ Governed!All = Prefix(6)
    /\ Len(InvoiceTools) - 1 = 5
<1>1. \A k \in 0..6 : Governed!First(k) = Prefix(k)
  BY DEF Governed!First, Prefix
<1>2. Len(InvoiceTools) = 6
  BY ToolsDiffer
<1> QED
  BY <1>1, <1>2 DEF Governed!All

LEMMA Working ==
    ASSUME Running
    PROVE  RunStatus = "WORKING"
BY DEF RunStatus, Running

(* The prefixes of the plan grow.                                          *)
LEMMA PrefixesGrow ==
    ASSUME NEW k \in 0..5
    PROVE  InvoiceTools[k + 1] \notin Prefix(k) /\ Prefix(k) # Prefix(6)
<1>1. \A j \in 1..k : j \in 1..6 /\ j # k + 1
  OBVIOUS
<1>2. k + 1 \in 1..6
  OBVIOUS
<1>3. InvoiceTools[k + 1] \notin Prefix(k)
  BY <1>1, <1>2, ToolsDiffer DEF Prefix
<1>4. InvoiceTools[k + 1] \in Prefix(6)
  BY <1>2 DEF Prefix
<1> QED
  BY <1>3, <1>4

(* There is a tool to propose exactly until all have answered.             *)
LEMMA ReadyWhileIncomplete ==
    ASSUME IInv, Running
    PROVE  Ready(run) = {} <=> DOMAIN run.evidence = Prefix(6)
<1>1. PICK k \in 0..6 : DOMAIN run.evidence = Prefix(k)
  BY DEF IInv, RetryBudget
<1>2. run.contract.plan = BuildPlan /\ DOMAIN BuildPlan = 1..6
  BY DEF IInv, RetryBudget, BuildPlan
<1>3. \A j \in 1..6 : BuildPlan[j].step = InvoiceTools[j]
  BY DEF BuildPlan, PlanStep
<1>4. CASE k = 6
  <2>1. \A j \in 1..6 : InvoiceTools[j] \in Prefix(6)
    BY DEF Prefix
  <2> QED
    BY <1>1, <1>2, <1>3, <1>4, <2>1 DEF Ready
<1>5. CASE k \in 0..5
  <2>1. k + 1 \in 1..6
    BY <1>5
  <2>2. BuildPlan[k + 1].depends \subseteq Prefix(k)
    <3>1. BuildPlan[k + 1].depends = IF k + 1 = 1 THEN {} ELSE {InvoiceTools[k]}
      BY <2>1 DEF BuildPlan, PlanStep
    <3>2. k # 0 => InvoiceTools[k] \in Prefix(k)
      BY <1>5 DEF Prefix
    <3> QED
      BY <1>5, <3>1, <3>2
  <2>3. k + 1 \in Ready(run)
    BY <1>1, <1>2, <1>3, <1>5, <2>1, <2>2, PrefixesGrow DEF Ready
  <2> QED
    BY <1>1, <1>5, <2>3, PrefixesGrow
<1> QED
  BY <1>4, <1>5

(* While there is one, the execution has not paid.                         *)
LEMMA NotYetPaid ==
    ASSUME IInv, Running, NEW c \in CheckedRuns
    PROVE  DOMAIN run.evidence # Governed!All
<1>1. Ready(run) # {}
  BY DEF CheckedRuns
<1> QED
  BY <1>1, Plan, ReadyWhileIncomplete

(* A step that leaves the evidence and the ledger alone keeps what is      *)
(* known of them.                                                          *)
LEMMA NothingSeen ==
    ASSUME InvoiceSeen, LedgerOfRecords,
           run'.evidence = run.evidence, staged' = staged
    PROVE  InvoiceSeen' /\ LedgerOfRecords'
BY DEF InvoiceSeen, LedgerOfRecords

(* The abstract step of an execution that ends before it has paid.         *)
LEMMA Stops ==
    ASSUME Running, DOMAIN run.evidence # Governed!All,
           run'.contract = run.contract, run'.evidence = run.evidence,
           staged' = staged,
           RunStatus' \in {"PAUSED", "REJECTED", "FAILED", "RAISED"}
    PROVE  Governed!Stop
BY Working DEF Governed!Stop

----------------------------------------------------------------------------
(* One lemma per action.                                                   *)

LEMMA FinishRunConcludes ==
    ASSUME GInv, FinishRun
    PROVE  Governed!Conclude /\ InvoiceSeen' /\ LedgerOfRecords'
<1>1. Running /\ raised' = None /\ staged' = staged
  BY SuperstepFits DEF GInv, FinishRun, Superstep, envVars
<1>2. DOMAIN run = RunFields
  BY DEF GInv, IInv, TypeOK
<1>3. /\ Differs(run, run', {"events", "state", "outcome"})
      /\ run'.state \in {"COMPLETED", "FAILED"}
      /\ run'.outcome.status = run'.state
  BY <1>2, FinishPlanShape DEF FinishRun
<1>4. run'.contract = run.contract /\ run'.evidence = run.evidence
  BY <1>3 DEF Differs, RunFields
<1>5. DOMAIN run.evidence = Governed!All
  BY <1>1, Plan, ReadyWhileIncomplete DEF GInv, FinishRun
<1>6. RunStatus' \in {"COMPLETED", "FAILED"}
  BY <1>1, <1>3 DEF RunStatus, Running, PausedStates
<1>7. InvoiceSeen' /\ LedgerOfRecords'
  BY <1>1, <1>4, NothingSeen DEF GInv
<1> QED
  BY <1>1, <1>4, <1>5, <1>6, <1>7, Working DEF Governed!Conclude

LEMMA RejectStops ==
    ASSUME GInv, NEW c \in CheckedRuns, Reject(c)
    PROVE  Governed!Stop /\ InvoiceSeen' /\ LedgerOfRecords'
<1>1. Running /\ raised' = None /\ staged' = staged
  BY SuperstepFits DEF GInv, Reject, Superstep, envVars
<1>2. Differs(run, c, {"events", "proposed", "decision"})
  BY <1>1, CheckedRun DEF GInv
<1>3. /\ Differs(c, run', {"events", "state", "outcome"})
      /\ run'.state = "REJECTED"
  BY <1>2, FinishWithShape DEF Reject, Differs
<1>4. run'.contract = run.contract /\ run'.evidence = run.evidence
  BY <1>2, <1>3 DEF Differs, RunFields
<1>5. RunStatus' = "REJECTED"
  BY <1>1, <1>3 DEF RunStatus, Running, PausedStates
<1> QED
  BY <1>1, <1>4, <1>5, NothingSeen, NotYetPaid, Stops DEF GInv

LEMMA PauseStops ==
    ASSUME GInv, NEW c \in CheckedRuns, Pause(c)
    PROVE  Governed!Stop /\ InvoiceSeen' /\ LedgerOfRecords'
<1>1. Running /\ raised' = None /\ staged' = staged
  BY SuperstepFits DEF GInv, Pause, Superstep, envVars
<1>2. Differs(run, c, {"events", "proposed", "decision"})
  BY <1>1, CheckedRun DEF GInv
<1>3. /\ Differs(c, run', {"events", "state", "questions", "approvalState"})
      /\ run'.state \in PausedStates
  BY <1>2, PausedShape DEF Pause, Differs
<1>4. run'.contract = run.contract /\ run'.evidence = run.evidence
  BY <1>2, <1>3 DEF Differs, RunFields
<1>5. RunStatus' = "PAUSED"
  BY <1>1, <1>3 DEF RunStatus, Running, PausedStates
<1> QED
  BY <1>1, <1>4, <1>5, NothingSeen, NotYetPaid, Stops DEF GInv

(* A failed call ends the execution, or is retried, which is no step.      *)
LEMMA FailStopsOrStutters ==
    ASSUME GInv, NEW c \in CheckedRuns, NEW answer \in Answers(c), Fail(c, answer)
    PROVE  /\ Governed!Stop \/ UNCHANGED Governed!vars
           /\ InvoiceSeen' /\ LedgerOfRecords'
<1> DEFINE begun  == Started(c)
           failed == FailedCall(begun, answer.code)
           tool   == c.proposed.tool
<1>1. Running /\ raised' = None /\ staged' = staged
  BY SuperstepFits DEF GInv, Fail, Superstep, envVars
<1>2. c.decision.decision = "APPROVE"
  BY DEF Answers
<1>3. Differs(run, begun, {"events", "proposed", "decision", "history"})
  BY <1>1, <1>2, StartedCall DEF GInv
<1>4. \/ run' = ScheduleRetry(failed, tool, answer.code)
      \/ run' = FinishWith(failed, answer.code, "FAILED")
  BY DEF Fail
<1> HIDE DEF begun
<1>5. Differs(begun, failed, {"events", "observations"})
  BY <1>3, FailedCallShape DEF Differs
<1> HIDE DEF failed, tool
<1>6. /\ DOMAIN failed = RunFields /\ failed.state = run.state
      /\ failed.outcome = run.outcome
      /\ failed.contract = run.contract /\ failed.evidence = run.evidence
  BY <1>3, <1>5 DEF Differs, RunFields
<1>7. CASE run' = ScheduleRetry(failed, tool, answer.code)
  <2>1. Differs(failed, run', {"events", "retry"})
    BY <1>6, <1>7, ScheduleRetryShape
  <2>2. /\ run'.state = run.state /\ run'.outcome = run.outcome
        /\ run'.contract = run.contract /\ run'.evidence = run.evidence
    BY <1>6, <2>1 DEF Differs, RunFields
  <2>3. RunStatus' = RunStatus
    BY <1>1, <2>2 DEF RunStatus, Running
  <2> QED
    BY <1>1, <2>2, <2>3, NothingSeen DEF GInv, Governed!vars
<1>8. CASE run' = FinishWith(failed, answer.code, "FAILED")
  <2>1. /\ Differs(failed, run', {"events", "state", "outcome"})
        /\ run'.state = "FAILED"
    BY <1>6, <1>8, FinishWithShape
  <2>2. run'.contract = run.contract /\ run'.evidence = run.evidence
    BY <1>6, <2>1 DEF Differs, RunFields
  <2>3. RunStatus' = "FAILED"
    BY <1>1, <2>1 DEF RunStatus, Running, PausedStates
  <2> QED
    BY <1>1, <2>2, <2>3, NothingSeen, NotYetPaid, Stops DEF GInv
<1> QED
  BY <1>4, <1>7, <1>8

LEMMA EscapeStops ==
    ASSUME GInv, NEW c \in CheckedRuns, NEW answer \in Answers(c), Escape(c, answer)
    PROVE  Governed!Stop /\ InvoiceSeen' /\ LedgerOfRecords'
<1>1. /\ Running /\ c.decision.decision = "APPROVE" /\ run' = Started(c)
      /\ raised' = "UNCAUGHT" /\ staged' = staged
  BY DEF Escape, Answers
<1>2. Differs(run, run', {"events", "proposed", "decision", "history"})
  BY <1>1, StartedCall DEF GInv
<1>3. run'.contract = run.contract /\ run'.evidence = run.evidence
  BY <1>2 DEF Differs, RunFields
<1>4. RunStatus' = "RAISED"
  BY <1>1, EscapesAssumption DEF RunStatus, Escapes
<1> QED
  BY <1>1, <1>3, <1>4, NothingSeen, NotYetPaid, Stops DEF GInv

----------------------------------------------------------------------------
(* What Gate B has established of a payment that it approves.              *)
LEMMA ApprovedPayment ==
    ASSUME IInv, Running, NEW c \in CheckedRuns, c.decision.decision = "APPROVE",
           c.proposed.tool = "stage_payment"
    PROVE  LET args    == c.proposed.arguments
               intent  == run.contract.intent
               invoice == run.evidence["inspect_invoice"]
           IN  /\ \A k \in {"invoice_id", "purchase_order_id", "currency", "amount"} :
                     args[k] = intent.inputs[k]
               /\ \A k \in ScopeKeys : invoice[k] = intent.inputs[k]
               /\ \/ run.contract.approval # None
                  \/ /\ args["amount"] <= intent.cap
                     /\ args["amount"] <= AutonomousLimit
                     /\ \A rule \in intent.approval_rules : ~rule.always
<1> DEFINE inputs == run.contract.intent.inputs
           invoice == run.evidence["inspect_invoice"]
<1>1. DOMAIN run = RunFields /\ Len(run.history) \in Nat
  BY DEF IInv, TypeOK
<1>2. PICK p : c = Checked(run, p, DecideRuntime(run, p))
  BY DEF CheckedRuns, Judgements
<1>3. c.proposed = p /\ c.decision = Result(run, p, DecideRuntime(run, p))
  BY <1>1, <1>2, CheckedShape
<1>4. DecideRuntime(run, p) = None
  BY <1>3 DEF Result, Verdict
<1>5. ScopeProblem(run, p) = None /\ StageProblem(run, p) = None
  BY <1>3, <1>4 DEF DecideRuntime
<1>6. DOMAIN p.arguments = ArgumentKeys(p.tool) /\ ~OutsideScope(run, p)
  BY <1>5, CodesAssumption, SMT DEF ScopeProblem, RuntimeCodes
<1>7. \A k \in {"invoice_id", "purchase_order_id", "currency"} : p.arguments[k] = inputs[k]
  BY <1>3, <1>6 DEF OutsideScope, ArgumentKeys
<1>8. /\ IsAmount(p.arguments["amount"]) /\ IsAmount(run.contract.intent.cap)
      /\ p.arguments["amount"] = inputs["amount"]
      /\ \/ ApprovedRun(run.contract)
         \/ /\ ~(p.arguments["amount"] > run.contract.intent.cap)
            /\ ~NeedsApproval(run.contract.intent, p.arguments["amount"])
  BY <1>5, CodesAssumption, SMT DEF StageProblem, RuntimeCodes
<1>9. /\ EvidenceNamesTarget(run.evidence, inputs)
      /\ p.arguments["amount"] = invoice.amount
      /\ p.arguments["currency"] = invoice.currency
  BY <1>5, CodesAssumption, SMT DEF StageProblem, RuntimeCodes
<1>10. \A k \in ScopeKeys : invoice[k] = inputs[k]
  BY <1>7, <1>8, <1>9 DEF ScopeKeys, EvidenceNamesTarget
<1>11. \/ run.contract.approval # None
       \/ /\ p.arguments["amount"] <= run.contract.intent.cap
          /\ p.arguments["amount"] <= AutonomousLimit
          /\ \A rule \in run.contract.intent.approval_rules : ~rule.always
  BY <1>8, PolicyAssumption DEF IsAmount, NeedsApproval, FinancePolicy, ApprovedRun
<1> QED
  BY <1>3, <1>7, <1>8, <1>10, <1>11

----------------------------------------------------------------------------
(* What the tools return.                                                  *)

LEMMA FoundInvoice ==
    ASSUME NEW id, Lookup(Invoices, id).kind = "record"
    PROVE  /\ id \in DOMAIN Strip /\ Strip[id] \in DOMAIN Invoices
           /\ Lookup(Invoices, id).output = Invoices[Strip[id]]
BY DEF Lookup, Uncaught, Raised, Returned

LEMMA InspectedInvoice ==
    ASSUME NEW args, NEW approval, NEW fault,
           Invoke("inspect_invoice", args, approval, fault).kind = "record"
    PROVE  \E t \in DOMAIN Strip :
              /\ Strip[t] \in DOMAIN Invoices
              /\ Invoke("inspect_invoice", args, approval, fault).output = Invoices[Strip[t]]
<1>1. fault = "none"
  BY DEF Invoke, InjectedFailure, Raised, Retryable
<1>2. Invoke("inspect_invoice", args, approval, fault) = Lookup(Invoices, args["invoice_id"])
  BY <1>1 DEF Invoke, Call
<1> QED
  BY <1>2, FoundInvoice

LEMMA StagedRecord ==
    ASSUME NEW args, NEW approval, NEW fault,
           Invoke("stage_payment", args, approval, fault).kind = "record"
    PROVE  LET v      == Strip[args["invoice_id"]]
               output == Invoke("stage_payment", args, approval, fault).output
           IN  /\ v \in DOMAIN Invoices
               /\ \/ v \in DOMAIN staged /\ output = staged[v]
                  \/ output = StagedPayment(Invoices[v], args["amount"])
<1> DEFINE valid == ValidatedAction(args)
           v     == Strip[args["invoice_id"]]
<1>1. fault = "none"
  BY DEF Invoke, InjectedFailure, Raised, Retryable
<1>2. /\ Invoke("stage_payment", args, approval, fault) = StagePayment(args, approval)
      /\ StagePayment(args, approval).kind = "record"
  BY <1>1 DEF Invoke, Call
<1>3. valid.kind = "record"
  BY <1>2 DEF StagePayment
<1>4. valid = Lookup(Invoices, args["invoice_id"])
  BY <1>3 DEF ValidatedAction, Raised
<1>5. v \in DOMAIN Invoices /\ valid.output = Invoices[v] /\ valid.output.invoice_id = v
  BY <1>3, <1>4, FoundInvoice, FixtureAssumption
<1> HIDE DEF valid
<1>6. \/ /\ valid.output.invoice_id \in DOMAIN staged
         /\ StagePayment(args, approval).output = staged[valid.output.invoice_id]
      \/ StagePayment(args, approval).output = StagedPayment(valid.output, args["amount"])
  BY <1>2 DEF StagePayment, valid, Raised, Returned
<1> QED
  BY <1>2, <1>5, <1>6

----------------------------------------------------------------------------
(* A tool that has answered: the plan advances by one tool, and the last   *)
(* of them pays.                                                           *)

LEMMA SuccessShape ==
    ASSUME GInv, NEW c \in CheckedRuns, NEW answer \in Answers(c), Succeed(c, answer)
    PROVE  LET tool == c.proposed.tool
           IN  /\ Running /\ raised' = None /\ c.decision.decision = "APPROVE"
               /\ run'.contract = run.contract /\ run'.decision = c.decision
               /\ run'.evidence = Put(run.evidence, tool, answer.output)
               /\ RunStatus' \in {"WORKING", "FAILED"}
               /\ tool = "stage_payment" => RunStatus' = "WORKING"
               /\ \E k \in 0..5 : /\ tool = InvoiceTools[k + 1]
                                  /\ DOMAIN run.evidence = Prefix(k)
                                  /\ DOMAIN run'.evidence = Prefix(k + 1)
<1> DEFINE tool  == c.proposed.tool
           begun == Started(c)
           done  == CompletedCall(begun, answer.output)
<1>1. Running /\ raised' = None /\ c.decision.decision = "APPROVE"
  BY SuperstepFits DEF GInv, Succeed, Superstep, Answers
<1>2. /\ Differs(run, begun, {"events", "proposed", "decision", "history"})
      /\ begun.proposed = c.proposed /\ begun.decision = c.decision
  BY <1>1, StartedCall DEF GInv
<1>3. PICK k \in 0..5 :
        /\ tool = InvoiceTools[k + 1]
        /\ DOMAIN run.evidence = Prefix(k)
        /\ Prefix(k) \cup {tool} = Prefix(k + 1)
  BY <1>1, StartedCall DEF GInv
<1>4. run' = Settled(done, tool, answer.output)
  BY DEF Succeed
<1> HIDE DEF begun
<1>5. /\ Differs(begun, done, {"events", "evidence", "observations", "retry"})
      /\ done.evidence = Put(begun.evidence, begun.proposed.tool, answer.output)
  BY <1>2, CompletedCallShape DEF Differs
<1> HIDE DEF done
<1>6. /\ DOMAIN done = RunFields /\ done.state = run.state
      /\ done.outcome = run.outcome /\ done.contract = run.contract
      /\ done.decision = c.decision
      /\ done.evidence = Put(run.evidence, tool, answer.output)
  BY <1>2, <1>5 DEF Differs, RunFields
<1> HIDE DEF tool
<1>7. /\ Differs(done, run', {"events", "state", "outcome"})
      /\ run' = done \/ run'.state = "FAILED"
  BY <1>4, <1>6, SettledShape
<1>8. /\ run'.contract = run.contract /\ run'.evidence = done.evidence
      /\ run'.decision = c.decision
  BY <1>6, <1>7 DEF Differs, RunFields
<1>9. run' = done => RunStatus' = "WORKING"
  BY <1>1, <1>6 DEF RunStatus, Running
<1>10. run'.state = "FAILED" => RunStatus' = "FAILED"
  BY <1>1 DEF RunStatus, Running, PausedStates
<1>11. tool = "stage_payment" => run' = done
  BY <1>4 DEF Settled
<1>12. DOMAIN run'.evidence = Prefix(k + 1)
  BY <1>3, <1>6, <1>8 DEF Put
<1> QED
  BY <1>1, <1>3, <1>6, <1>7, <1>8, <1>9, <1>10, <1>11, <1>12 DEF tool

(* What is known of the observed invoice stands.                           *)
LEMMA SuccessSeen ==
    ASSUME GInv, NEW c \in CheckedRuns, NEW answer \in Answers(c), Succeed(c, answer)
    PROVE  InvoiceSeen'
<1> DEFINE tool == c.proposed.tool
<1>1. run'.evidence = Put(run.evidence, tool, answer.output)
  BY SuccessShape
<1>2. CASE tool = "inspect_invoice"
  <2>1. answer.kind = "record"
    BY DEF Succeed
  <2>2. \E t \in DOMAIN Strip :
           Strip[t] \in DOMAIN Invoices /\ answer.output = Invoices[Strip[t]]
    BY <1>2, <2>1, InspectedInvoice DEF Answers
  <2> QED
    BY <1>1, <1>2, <2>2 DEF InvoiceSeen, Put
<1>3. CASE tool # "inspect_invoice"
  BY <1>1, <1>3 DEF GInv, InvoiceSeen, Put
<1> QED
  BY <1>2, <1>3

LEMMA ReadAnswers ==
    ASSUME GInv, NEW c \in CheckedRuns, NEW answer \in Answers(c), Succeed(c, answer),
           c.proposed.tool # "stage_payment"
    PROVE  Governed!Answer /\ LedgerOfRecords'
<1>1. staged' = staged
  BY DEF Succeed
<1>2. PICK k \in 0..5 : /\ c.proposed.tool = InvoiceTools[k + 1]
                       /\ DOMAIN run.evidence = Prefix(k)
                       /\ DOMAIN run'.evidence = Prefix(k + 1)
  BY SuccessShape
<1>3. /\ RunStatus = "WORKING" /\ RunStatus' \in {"WORKING", "FAILED"}
      /\ run'.contract = run.contract
  BY SuccessShape, Working
<1>4. k # 5
  BY <1>2, ToolsDiffer
<1>5. /\ k + 1 \in 1..5 /\ (k + 1) - 1 = k
      /\ Governed!First(k) = Prefix(k) /\ Governed!First(k + 1) = Prefix(k + 1)
  BY <1>4, Plan
<1>6. \E j \in 1..(Len(InvoiceTools) - 1) :
         /\ DOMAIN run.evidence = Governed!First(j - 1)
         /\ DOMAIN run'.evidence = Governed!First(j)
  BY <1>2, <1>5, Plan
<1>7. LedgerOfRecords'
  BY <1>1 DEF GInv, LedgerOfRecords
<1> QED
  BY <1>1, <1>3, <1>6, <1>7 DEF Governed!Answer

(* The invoice that a payment is proposed for is the one that the request  *)
(* names, and the one that has been inspected.                             *)
LEMMA RequestedInvoice ==
    ASSUME GInv, Running, NEW c \in CheckedRuns, c.decision.decision = "APPROVE",
           c.proposed.tool = "stage_payment"
    PROVE  LET id == run.contract.intent.inputs["invoice_id"]
           IN  /\ Strip[id] = id /\ id \in DOMAIN Invoices
               /\ run.evidence["inspect_invoice"] = Invoices[id]
<1> DEFINE id == run.contract.intent.inputs["invoice_id"]
<1>1. PICK k \in 0..5 : c.proposed.tool = InvoiceTools[k + 1] /\ DOMAIN run.evidence = Prefix(k)
  BY StartedCall DEF GInv
<1>2. k = 5
  <2>1. k + 1 \in 1..6 /\ 6 \in 1..6 /\ InvoiceTools[k + 1] = InvoiceTools[6]
    BY <1>1, ToolsDiffer
  <2> QED
    BY <2>1, ToolsDiffer
<1>3. "inspect_invoice" \in DOMAIN run.evidence
  BY <1>1, <1>2 DEF Prefix, InvoiceTools
<1>4. PICK t \in DOMAIN Strip :
        /\ Strip[t] \in DOMAIN Invoices
        /\ run.evidence["inspect_invoice"] = Invoices[Strip[t]]
  BY <1>3 DEF GInv, InvoiceSeen
<1>5. id = Strip[t]
  <2>1. run.evidence["inspect_invoice"].invoice_id = id
    BY ApprovedPayment DEF GInv, ScopeKeys
  <2> QED
    BY <1>4, <2>1, FixtureAssumption
<1> QED
  BY <1>4, <1>5, FixtureAssumption

LEMMA StagePays ==
    ASSUME GInv, NEW c \in CheckedRuns, NEW answer \in Answers(c), Succeed(c, answer),
           c.proposed.tool = "stage_payment"
    PROVE  /\ Governed!Pay /\ LedgerOfRecords'
           /\ run'.decision.decision = "APPROVE"
           /\ "stage_payment" \notin DOMAIN run.evidence
           /\ run'.evidence["stage_payment"] =
                 staged'[run.contract.intent.inputs["invoice_id"]]
<1> DEFINE inputs  == run.contract.intent.inputs
           id      == inputs["invoice_id"]
           args    == c.proposed.arguments
           payment == StagedPayment(Invoices[id], Invoices[id].amount)
<1>1. /\ RunStatus = "WORKING" /\ RunStatus' = "WORKING"
      /\ run'.contract = run.contract /\ Running
      /\ c.decision.decision = "APPROVE"
  BY SuccessShape, Working
<1>2. PICK k \in 0..5 : /\ c.proposed.tool = InvoiceTools[k + 1]
                       /\ DOMAIN run.evidence = Prefix(k)
                       /\ DOMAIN run'.evidence = Prefix(k + 1)
  BY SuccessShape
<1>3. k = 5
  <2>1. k + 1 \in 1..6 /\ 6 \in 1..6 /\ InvoiceTools[k + 1] = InvoiceTools[6]
    BY <1>2, ToolsDiffer
  <2> QED
    BY <2>1, ToolsDiffer
<1>4. /\ DOMAIN run.evidence = Governed!First(Len(InvoiceTools) - 1)
      /\ DOMAIN run'.evidence = Governed!All
  <2>1. Prefix(5) = Governed!First(5) /\ Prefix(6) = Governed!All /\ Len(InvoiceTools) - 1 = 5
    BY Plan
  <2>2. DOMAIN run.evidence = Prefix(5) /\ DOMAIN run'.evidence = Prefix(6)
    BY <1>2, <1>3
  <2> QED
    BY <2>1, <2>2
<1>5. /\ \A j \in {"invoice_id", "purchase_order_id", "currency", "amount"} :
             args[j] = inputs[j]
      /\ \A j \in ScopeKeys : run.evidence["inspect_invoice"][j] = inputs[j]
      /\ \/ run.contract.approval # None
         \/ /\ args["amount"] <= run.contract.intent.cap
            /\ args["amount"] <= AutonomousLimit
            /\ \A rule \in run.contract.intent.approval_rules : ~rule.always
  BY <1>1, ApprovedPayment DEF GInv
<1>6. /\ Strip[id] = id /\ id \in DOMAIN Invoices
      /\ run.evidence["inspect_invoice"] = Invoices[id]
  BY <1>1, RequestedInvoice
<1>7. args["invoice_id"] = id /\ args["amount"] = Invoices[id].amount
  BY <1>5, <1>6 DEF ScopeKeys
<1>8. answer.output = payment
  <2>1. \/ Strip[args["invoice_id"]] \in DOMAIN staged
           /\ answer.output = staged[Strip[args["invoice_id"]]]
        \/ answer.output = StagedPayment(Invoices[Strip[args["invoice_id"]]], args["amount"])
    BY StagedRecord DEF Succeed, Answers
  <2> HIDE DEF id, args
  <2> QED
    BY <1>6, <1>7, <2>1 DEF GInv, LedgerOfRecords
<1>9. /\ payment.invoice_id = id
      /\ \A j \in ScopeKeys : payment[j] = inputs[j]
      /\ payment.amount = args["amount"]
  <2>1. Invoices[id].invoice_id = id
    BY <1>6, FixtureAssumption
  <2>2. \A j \in ScopeKeys : Invoices[id][j] = inputs[j]
    BY <1>5, <1>6
  <2> HIDE DEF id, inputs, args
  <2>3. /\ payment.invoice_id = id /\ payment.amount = Invoices[id].amount
        /\ payment.supplier_id = Invoices[id].supplier_id
        /\ payment.purchase_order_id = Invoices[id].purchase_order_id
        /\ payment.currency = Invoices[id].currency
    BY <2>1 DEF StagedPayment
  <2> HIDE DEF payment
  <2>4. \A j \in ScopeKeys : payment[j] = Invoices[id][j]
    BY <2>1, <2>3 DEF ScopeKeys
  <2> QED
    BY <1>7, <2>2, <2>3, <2>4
<1>10. staged' = WithStaged(payment)
  BY <1>8 DEF Succeed
<1> HIDE DEF payment
<1>11. /\ DOMAIN staged' = DOMAIN staged \cup {id}
       /\ \A v \in DOMAIN staged : staged'[v] = staged[v]
       /\ staged'[id] = payment
  BY <1>9, <1>10 DEF WithStaged, GInv, LedgerOfRecords, payment
<1>12. LedgerOfRecords'
  BY <1>11 DEF GInv, LedgerOfRecords, payment, StagedPayment
<1>13. Governed!Asked(staged'[id]) /\ Governed!Allowed(staged'[id])
  BY <1>5, <1>9, <1>11 DEF Governed!Asked, Governed!Allowed
<1>14. Governed!Pay
  BY <1>1, <1>4, <1>11, <1>13 DEF Governed!Pay
<1>15. "stage_payment" \notin DOMAIN run.evidence
  BY <1>2, PrefixesGrow
<1>16. run'.decision.decision = "APPROVE" /\ run'.evidence["stage_payment"] = answer.output
  <2>1. /\ run'.decision = c.decision
        /\ run'.evidence = Put(run.evidence, "stage_payment", answer.output)
    BY SuccessShape
  <2> QED
    BY <1>1, <2>1 DEF Put
<1> QED
  BY <1>8, <1>11, <1>12, <1>14, <1>15, <1>16

----------------------------------------------------------------------------
(* A new execution.                                                        *)
LEMMA FreshStatus ==
    ASSUME NEW id, NEW order, run' \in Beginnings(id, order), raised' = None
    PROVE  /\ RunStatus' \in {"WORKING", "PAUSED", "REJECTED"}
           /\ DOMAIN run'.evidence = {} /\ run'.contract.run = id
<1>1. /\ run'.state = "RUNNING" => run'.outcome = None
      /\ run'.state \in PausedStates \cup {"RUNNING", "REJECTED"}
      /\ DOMAIN run'.evidence = {} /\ run'.contract.run = id
  BY FreshRun
<1> QED
  BY <1>1 DEF RunStatus, Running, PausedStates

LEMMA BeginningGoverned ==
    ASSUME GInv, NEW id, NEW order, run' \in Beginnings(id, order),
           steps' = 0, raised' = None, UNCHANGED staged
    PROVE  GInv'
<1>1. IInv'
  BY BeginningKeeps DEF GInv
<1>2. InvoiceSeen' /\ LedgerOfRecords'
  BY FreshStatus DEF GInv, InvoiceSeen, LedgerOfRecords
<1> QED
  BY <1>1, <1>2 DEF GInv

LEMMA ExecuteBegins ==
    ASSUME GInv, NEW order \in Orders, Execute(order)
    PROVE  Governed!Begin
<1> DEFINE id == run.contract.run + 1
<1>1. /\ ~Running /\ run' \in Beginnings(id, order)
      /\ raised' = None /\ staged' = staged
  BY DEF Execute, envVars
<1>2. RunStatus # "WORKING"
  <2>1. run.state # "WORKING"
    BY DEF GInv, IInv, TypeOK, RunStates, PausedStates, TerminalStates
  <2> QED
    BY <1>1, <2>1 DEF RunStatus
<1>3. /\ RunStatus' \in {"WORKING", "PAUSED", "REJECTED"}
      /\ DOMAIN run'.evidence = {} /\ run'.contract.run = id
  BY <1>1, FreshStatus
<1> QED
  BY <1>1, <1>2, <1>3 DEF Governed!Begin, Governed!Beginning

LEMMA InitBegins == Init => GInv /\ Governed!Init
<1> SUFFICES ASSUME Init PROVE GInv /\ Governed!Init
  OBVIOUS
<1>1. PICK order \in Orders : run \in Beginnings(1, order)
  BY DEF Init
<1>2. raised = None /\ staged = <<>> /\ DOMAIN staged = {}
  BY DEF Init, EnvInit
<1>3. /\ run.state = "RUNNING" => run.outcome = None
      /\ run.state \in PausedStates \cup {"RUNNING", "REJECTED"}
      /\ DOMAIN run.evidence = {}
  BY <1>1, FreshRun
<1>4. RunStatus \in {"WORKING", "PAUSED", "REJECTED"}
  BY <1>2, <1>3 DEF RunStatus, Running, PausedStates
<1>5. GInv
  BY <1>2, <1>3, InitHolds DEF GInv, InvoiceSeen, LedgerOfRecords
<1> QED
  BY <1>2, <1>3, <1>4, <1>5 DEF Governed!Init, Governed!Beginning

----------------------------------------------------------------------------
LEMMA StepIsGoverned == GInv /\ [Next]_vars => GInv' /\ [Governed!Next]_(Governed!vars)
<1> SUFFICES ASSUME GInv, [Next]_vars
             PROVE  GInv' /\ [Governed!Next]_(Governed!vars)
  OBVIOUS
<1>1. IInv'
  BY StepKeeps DEF GInv
<1>2. CASE FinishRun
  BY <1>1, <1>2, FinishRunConcludes DEF GInv, Governed!Next
<1>3. ASSUME NEW c \in CheckedRuns, Reject(c) \/ Pause(c)
      PROVE  GInv' /\ Governed!Next
  BY <1>1, <1>3, RejectStops, PauseStops DEF GInv, Governed!Next
<1>4. ASSUME NEW c \in CheckedRuns, NEW answer \in Answers(c), Fail(c, answer)
      PROVE  GInv' /\ [Governed!Next]_(Governed!vars)
  BY <1>1, <1>4, FailStopsOrStutters DEF GInv, Governed!Next
<1>5. ASSUME NEW c \in CheckedRuns, NEW answer \in Answers(c), Escape(c, answer)
      PROVE  GInv' /\ Governed!Next
  BY <1>1, <1>5, EscapeStops DEF GInv, Governed!Next
<1>6. ASSUME NEW c \in CheckedRuns, NEW answer \in Answers(c), Succeed(c, answer)
      PROVE  GInv' /\ Governed!Next
  BY <1>1, <1>6, SuccessSeen, ReadAnswers, StagePays DEF GInv, Governed!Next
<1>7. ASSUME NEW order \in Orders, Execute(order)
      PROVE  GInv' /\ Governed!Next
  BY <1>7, ExecuteBegins, BeginningGoverned DEF Execute, envVars, Governed!Next
<1>8. CASE UNCHANGED vars
  <2>1. run' = run /\ raised' = raised /\ staged' = staged
    BY <1>8 DEF vars
  <2>2. UNCHANGED Governed!vars
    BY <2>1 DEF Governed!vars, RunStatus, Running
  <2> QED
    BY <1>1, <2>1, <2>2, NothingSeen DEF GInv
<1> QED
  BY <1>2, <1>3, <1>4, <1>5, <1>6, <1>7, <1>8 DEF Next, Advance

(* Whatever fails, is retried or is edited on its way, each execution is a *)
(* governed one: its tools answer in the plan's order, what it pays is     *)
(* what its contract asks for and allows, and nothing paid is replaced     *)
(* (_execute, _advance, _dispatch, _finish).                               *)
THEOREM ControllerIsGoverned == Spec => ImplementsGoverned
<1>1. Init => GInv /\ Governed!Init
  BY InitBegins
<1>2. GInv /\ [Next]_vars => GInv' /\ [Governed!Next]_(Governed!vars)
  BY StepIsGoverned
<1> QED
  BY <1>1, <1>2, PTL DEF Spec, ImplementsGoverned, Governed!Spec

LEMMA StepStagesOnce ==
    ASSUME GInv, [Next]_vars
    PROVE  /\ \A v \in DOMAIN staged : v \in DOMAIN staged' /\ staged'[v] = staged[v]
           /\ \A v \in DOMAIN staged' \ DOMAIN staged :
                 /\ v = run.contract.intent.inputs["invoice_id"]
                 /\ "stage_payment" \notin DOMAIN run.evidence
                 /\ run'.evidence["stage_payment"] = staged'[v]
                 /\ run'.decision.decision = "APPROVE"
<1>1. ASSUME NEW c \in CheckedRuns, NEW answer \in Answers(c), Succeed(c, answer),
             c.proposed.tool = "stage_payment"
      PROVE  /\ DOMAIN staged' = DOMAIN staged \cup {run.contract.intent.inputs["invoice_id"]}
             /\ \A v \in DOMAIN staged : staged'[v] = staged[v]
             /\ "stage_payment" \notin DOMAIN run.evidence
             /\ run'.evidence["stage_payment"] =
                   staged'[run.contract.intent.inputs["invoice_id"]]
             /\ run'.decision.decision = "APPROVE"
  BY <1>1, StagePays DEF Governed!Pay
<1>2. \/ staged' = staged
      \/ \E c \in CheckedRuns : \E answer \in Answers(c) :
            Succeed(c, answer) /\ c.proposed.tool = "stage_payment"
  BY DEF Next, Advance, FinishRun, Reject, Pause, Fail, Escape, Succeed, Execute,
         envVars, vars
<1>3. CASE staged' = staged
  BY <1>3
<1> QED
  BY <1>1, <1>2, <1>3

(* Whatever fails and whatever is proposed, a payment is staged once, by   *)
(* the execution whose contract names its invoice and whose Gate B has     *)
(* just approved it, and then stands (stage_payment, _dispatch).           *)
THEOREM PaymentsStagedOnce == Spec => StagedOnce
<1> DEFINE Once ==
      /\ \A v \in DOMAIN staged : v \in DOMAIN staged' /\ staged'[v] = staged[v]
      /\ \A v \in DOMAIN staged' \ DOMAIN staged :
            /\ v = run.contract.intent.inputs["invoice_id"]
            /\ "stage_payment" \notin DOMAIN run.evidence
            /\ run'.evidence["stage_payment"] = staged'[v]
            /\ run'.decision.decision = "APPROVE"
<1>1. Init => GInv
  BY InitBegins
<1>2. GInv /\ [Next]_vars => GInv'
  BY StepIsGoverned
<1>3. GInv /\ [Next]_vars => Once
  BY StepStagesOnce
<1>4. StagedOnce <=> [][Once]_vars
  BY DEF StagedOnce
<1> HIDE DEF Once
<1> QED
  BY <1>1, <1>2, <1>3, <1>4, PTL DEF Spec
=============================================================================
