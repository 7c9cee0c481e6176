# control-gate in TLA+

A verification development of `src/src/control_gate`: TLA+ modules, TLC
configurations and machine-checked proofs, kept beside the code. Paths below
are relative to the repository unless they name a file of this directory.

control-gate takes a supplier-invoice request, decides *before* anything runs
whether it may (Gate A), fixes a plan of six tools, and decides again *before
every single tool call* whether that call may run (Gate B). A paused run is
resumed by one recorded human decision, which creates a new version of the
intent and a linked child run.

## 1. Inventory

| Component | Source | State it keeps | Operations |
|---|---|---|---|
| Contracts | `contracts.py` | none (frozen records), except `ExecutionRun`, which the controller mutates | construction with pydantic validation |
| Compiler | `compiler.py` | none | `compile_request`: text to `IntentSpec` |
| Gate A | `validation.py`, `admissibility.py` | none | `validate_intent`, `decide` |
| Gate B | `runtime_admissibility.py` | none: it re-reads the run each time | `decide_runtime`, `_evidence_problem`, `_retry_problem` |
| Controller | `invoice_runtime.py` | the `ExecutionRun`: state, plan, proposal, decision, history, evidence, observations, live retry, events, outcome; the position in the LangGraph loop | `execute_invoice`, `_execute`, `_advance`, `_dispatch`, `_finish`, `_event` |
| Human control | `human_control.py`, `invoice_runtime.py` 370-444 | the pause handle (owner, digest, consumed, used identifiers) | `resume_invoice`, `intervention_request`, `scoped_approval`, `approved_run`, `changed_intent` |
| Tool environment | `tool_environment.py` | `_staged_payments`, `_approval_requests`; read-only master data | five reads, `stage_payment`, `request_human_approval`, failure injection |
| Run store | `persistence.py` | two SQLite tables | `save`, `get`, `events` |
| Service | `service.py` | the store | POST and GET of runs and events |
| Scenario configuration | `agent_benchmark.py` | the runtime module's globals, while a scenario holds the lock | `scoped_runtime_configuration` |
| Controlled experiment | `agent_benchmark.py` | per arm: the environment, its failure scripts, the runs handed back | `run_episode`, `run_experiment`, `_episode_metrics` |
| Evaluation and benchmarks | `evaluation.py`, `benchmark.py`, `admissibility_benchmark.py`, `metamorphic.py`, `differential.py`, `controlled_drift.py`, `fixtures.py` | none | batch scoring over fixed corpora |

How they interact: `execute_invoice` compiles the request, calls Gate A once,
and drives `_advance` from a LangGraph loop. `_advance` picks the next step of
the plan, `_dispatch` asks Gate B, calls the environment and records what
happened *in the run*; Gate B's next answer is computed from that record. The
environment outlives a run: several executions, and the un-gated arm of the
benchmark, share one. A human decision enters through `resume_invoice` only.
The service stores a run after it has ended. The controlled experiment runs
each frozen task twice, once with the gates replaced, and scores both arms.

What is hard here:

* one history of failures, retries and successes is kept three times (history
  and observations, the live retry state, the event log) and audited by code
  that recomputes each from the other;
* the loop has a limit that the controller computes itself, and LangGraph raises
  when it is reached;
* an approval is judged in three places (controller, Gate B, `stage_payment`)
  that must agree;
* a payment is staged before the run's outcome is decided, and stays staged for
  later runs;
* exceptions of a class nobody expected leave the loop half-way;
* a pause may be resumed once only, whoever holds a reference or a copy;
* the store writes two tables that readers compare, with statements that no
  transaction holds together;
* a scenario replaces the gates of the whole process, while other threads run.

What makes each component correct: Gate A, that nothing prohibited, unclear or
above the limit is approved; Gate B, that it refuses whatever the contract and
the evidence do not determine and nothing that they do; the controller, that
every run ends or pauses, retries exactly what it should, and leaves a log that
replays; the environment, that what it records is payable, authorised and
permanent; human control, that one decision is consumed once and widens
nothing; the store, that what was saved is what is read; the service, that what
it acknowledged stays; the scenarios, that nothing of them is left behind; the
experiment, that each arm is measured on its own and no episode is missing.

`PROJECT.json` lists the hazards one by one, each at its line.

## 2. Plan

Done:

1. **The core.** `Contracts`, `HumanAuthority`, `GateA`, `GateB`,
   `ToolEnvironment`, `InvoiceRuntime`, with `InvoiceProperties` and
   `InvoiceProofs`; `EnvironmentClients` for the environment on its own.
2. **Human control.** `HumanControl` composes `InvoiceRuntime` with
   `resume_invoice` and `changed_intent` to lineages of runs on one
   environment; `PauseHandles` is the live handle of one pause with copies,
   edits and concurrent callers.
3. **An abstract specification** of a governed execution, `GovernedExecution`,
   which `InvoiceRuntime` implements: checked, and proved in `InvoiceProofs`.
4. **Run store and service.** `RunStore` statement by statement with crashes and
   damage, the abstract `RunArchive` that it implements, `RunService` on top;
   proofs for all three.
5. **Scenario configuration** (`ScenarioPatches`) and the **controlled
   experiment** (`AgentEpisodes`), the composition of everything above it.
   Proofs about the environment, the authority behind a payment, the pause
   handle and the scenarios.
6. **The record and the lineages.** Proofs that the event log is a complete and
   disciplined account, that a payment is accounted for, that an approval
   suffices, that no sequence of human decisions widens what was asked, that
   Gate B's audit of the record agrees with the controller's bookkeeping, and that
   an execution inside of scenarios sees exactly what they configure.
7. **What the gates change, and what damage does.** A proof that the two arms of
   the experiment differ in what the gates withhold and in nothing else, and the
   proofs about the store extended to a file that somebody else writes to.
8. **Gate A for every intent.** A declarative statement of what an intent without
   findings is, a proof that Gate A fails closed with respect to it, and the drift
   and metamorphic relations (`DriftRelations`) proved of all intents.

## 3. Modules

| Module | Models | Correspondence |
|---|---|---|
| `Contracts` | vocabulary of `contracts.py`, the plan's order of tools | An event is a record of the fields some code reads back. A monetary amount is an integer of dollars. |
| `HumanAuthority` | `scope`, `scoped_approval`, `approved_run` | A digest of an intent *is* the intent: equality of SHA-256 digests is taken to be equality of contents. |
| `GateA` | `validate_intent`, `decide` | One operator per check. Flags among the inputs that say a policy is broken (`supplier_exists: false`, ...) are the set `claims` of rules. |
| `DriftRelations` | the edits of `controlled_drift.py` and `metamorphic.py` | An edit of a request's context is the edit of the intent that `FixtureCompiler` makes of it. |
| `GateB` | `decide_runtime` with its two audits | The chain of early returns is three operators (`ScopeProblem`, `StateProblem`, `StageProblem`) that each give the first code that applies. |
| `ToolEnvironment` | the environment and its failure wrapper | A call is an operator from arguments to a result: a record, a caught error with its code, or an exception that `_dispatch` does not catch. `staged` and `requests` are the two dictionaries. |
| `EnvironmentClients` | arbitrary callers of the two recording tools | The environment's own specification. |
| `InvoiceRuntime` | `execute_invoice` and its loop | `run` is the `ExecutionRun`, `steps` the supersteps taken, `raised` why an exception left. A superstep is one action: `FinishRun`, `Reject`, `Pause`, `Fail`, `Escape` or `Succeed`; `Execute` starts another run on the same environment. |
| `GovernedExecution` | abstract: what an execution promises | Tools answer in the plan's order, the last one pays once, as asked and as allowed, and only then can the execution complete. |
| `InvoiceProperties` | what the controller promises, and the refinement mapping to `GovernedExecution` | The evidence of the run is what has answered; `staged` is the ledger. |
| `HumanControl` | `resume_invoice`, `changed_intent` | `run` is the latest run of a lineage, `lineage` its closed ancestors. `Approve`, `Modify` and `Dismiss` (deny or cancel) are the ways through `resume_invoice`; a decision that is refused changes nothing and is no step. |
| `PauseHandles` | `_PauseContext`, `_live_pause`, the order of steps in `resume_invoice` | Copies share the context, serialization drops it, an edit changes what it compares. A call is one action per step, because nothing locks it. |
| `RunArchive` | abstract: what the store promises | A run, once saved, stays; a read answers with what the archive held at some moment of the call. |
| `RunStore` | `SQLiteRunStore` | One action per SQL statement. `txn` is the write transaction that BEGIN IMMEDIATE opens, with what it has inserted; a timeout of the lock is `Busy` or `ReadBusy`; `Crash` is the death of a process; `Damage` somebody else's write to the file. |
| `RunService` | `service.py` | POST executes under a fresh identifier and saves afterwards, GET reads; `Restart` loses every request. |
| `ScenarioPatches` | `scoped_runtime_configuration` | `names` are the module's globals, `lock` the re-entrant lock, a frame what one scenario will put back. |
| `AgentEpisodes` | `run_episode`, `run_experiment`, `_episode_metrics` | An arm is `BeginArm`, then the steps of the controller with the arm's gates, `HumanDecides`, and `Score`. |
| `InvoiceProofs`, `TrailProofs`, `HumanProofs`, `AuditProofs` | the theorems about the controller; the event log; the environment, authority and lineages; Gate B's audit | Each extends the one before. |
| `EpisodeProofs` | the theorem about the two arms of the experiment | Extends `TrailProofs`. |
| `PauseProofs`, `RunServiceProofs`, `ScenarioProofs` | the theorems about the pause handle, the store with the service, and the scenarios | |
| `MCFixtures`, `MCInvoice`, `MCEnvironment`, `MCHuman`, `MCRunStore`, `MCRunService`, `MCEpisodes` | the records of `build_local_tool_environment`, and intents, faults, edits, decisions and tasks of the tests and of `benchmarks/agent_tasks.jsonl`, for TLC | |

`_dispatch` becomes operators from a run to a run, applied in the code's order:
`Judgements` (ask Gate B), `Checked` (freeze the proposal, log the check), then `FinishWith`
or `Paused`, or `Started` and, with the tool's answer, `FailedCall` followed by
`ScheduleRetry` or `FinishWith`, or `CompletedCall` followed by `Settled`. The
superstep is atomic because the graph, the tools and the loop are synchronous
and a run belongs to one caller. The steps of `resume_invoice` are not atomic:
`HumanControl` takes them together, which is right for one caller at a time,
and `PauseHandles` takes them apart.

Details that were abstracted: texts (summaries, reasons, questions are pairs of
a code and a field), time, latency, digests of arguments, the identifiers
derived from `run_id` (`plan_id`, `outcome_id`, `event_id`), records re-parsed
from JSON, and pydantic's rejection of malformed contracts, which becomes the
named assumptions on the constants. An action identifier
`run_id:action:n` is the number `n`.

LangGraph is outside `src/`. `Superstep` takes the earlier of the two possible
readings of its `recursion_limit`, so that a run that needed the very last
permitted step would already count as stopped. SQLite is outside `src/` too:
its transactions are taken to be atomic and durable, one writer at a time, and
a read statement sees what is committed when it runs.

`Orders` holds what `_execute` may be called with. An order with an approval
must satisfy `Resumes`, which is what `resume_invoice` has checked before it
passes the approval on (`OrdersAssumption`): a finance manager approved exactly
the action of the parent's intent, the parent was escalated by Gate A or, after
Gate A's approval, by Gate B, and the child executes the next version of the
same terms. `ApprovalsAreOrders` says that every child of a lineage meets it; it
is checked in the `human` run and proved for all lineages
(`ApprovalsReachTheirRun`).

The other assumptions about what comes from outside: every intent has the fields
that the code reads, and None for an input that the request lacks
(`IntentsAssumption`; the contract's model fills in its defaults); an injected
failure is one of the codes of `InjectedFailureMode`, or what the controller
makes of another error that it catches (`FaultsAssumption`); edited arguments
are still a mapping (`MutationsAssumption`); and None is no code, outcome, plan
or decision (`OutcomesAssumption`).

Two details of `resume_invoice` that are easy to overlook: the run it closes
keeps in `approval_state` the decision that closed it (`CONSUMED_BY_HUMAN`,
`DENY`, `CANCEL`), and a change of the cap is refused when the cap it would
replace cannot be parsed.

## 4. Runs

The controller's runs use the master data of `build_local_tool_environment`:
five invoices (payable, above the limit, duplicate, of an inactive supplier,
above its order), and the limit of 10000.

| Run | Question | Bounds |
|---|---|---|
| `environment` | Is whatever the two recording tools record payable, approved where needed, and permanent, whoever calls? | every pairing of 6 invoices (one added, for which an approval is held) and 5 orders, 2 padded identifiers, one of them a duplicate's, 6 amounts, 3 spellings of currencies, 7 approvals that each fail or meet `scoped_approval` in one way |
| `recovery` | Do history, retry state, event log, Gate B's audit, recursion limit and outcome agree in every execution? | 18 orders, one for each end the code knows and two for what the decision makes of unknown tools; 2 retries (the code's own number); at each call no fault, a transient one or a permanent one |
| `shared` | Do payments stay within authority and happen once when two executions share an environment, does an approval suffice, and is it all a governed execution? | 2 executions of 6 orders, 1 retry, both transient faults |
| `adversary` | Does an edited proposal ever start a call that the controller would not have made, and does every execution reach a pause or an end? | 57 edits of action, version, role, assumptions, tool, extra field and each argument; 4 orders (one completes, two pause, one is resumed); 1 retry |
| `escape` | Does an unexpected exception leave a terminal run? (It does not.) | 2 orders, one with a numeric identifier |
| `human` | What can a chain of human decisions reach? | 6 orders, 15 amendments acceptable and not, 3 decision identifiers, hence lineages of up to 4 runs; lineages one after another on one environment, the last begun as its third execution at the latest; a decision may name an ancestor, an old version or a used identifier; an edit makes Gate B refuse early; no retries |
| `handles` | Does a pause take one decision, whatever is copied, serialized and edited? | 1 caller at a time, 2 copies, both kinds of pause |
| `handles_race` | And with two threads? (No.) | 2 callers, 1 copy |
| `store` | Is the store the archive, with clashes, conflicts, crashes and damage? | 2 clients in processes of their own; 5 runs: one, the same moved on, another, one with an event of the first, one with an event twice; 1 damage |
| `service` | Does what was acknowledged stay, and is it served? | 2 threads of one process, 3 executions, any number of restarts; damage is left to `store` |
| `scenarios` | Does an execution see exactly the configuration around it, and is nothing left behind? | 2 threads, nesting 2 deep, 1 edit and one that cannot be read |
| `episodes` | Do both arms of every task score as the oracle and the recorded rows say? | the frozen tasks, one of each group that differs in wording only, and one whose decision is refused |

Why the bounds are enough. The plan has six steps and is fixed, so the
behaviour of one execution is bounded by its retries; two per read is the
policy's own constant, and one already meets every branch (first failure, last
retry, exhaustion, success after a failure). Executions interact only through
`staged`, which the second of two executions already finds filled in each way
the first can fill it. Three decisions are a clarification, an escalation and
one more, which is as deep as a lineage can go before an approval ends it; the
identifiers are interchangeable, so `human` takes them as a symmetry set. A
conflict in the store needs two runs of one identifier, a clash two runs of
different ones, a race two clients; a third adds no new pair. A scenario that
restores the wrong value shows it at depth two. `MaxRuns` (executions on one
environment), `MaxDepth` (nested scenarios) and `MaxDamaged` (damaged runs, each
once) are the bounds on what would otherwise grow.

The properties, in short:

* `AuditAgrees`: with the controller's own proposals, Gate B only ever refuses
  for a business reason, never because its audit and the bookkeeping differ.
* `FindingsBlock`: Gate A fails closed. What it admits or escalates has no
  finding and the other way round, although an unbounded permission takes the
  unknown tools out of the reasons to reject; it asks a question exactly when it
  waits for an answer; no tool is called for an intent with a finding.
* `DriftNeverLicenses`: what the drift and metamorphic batches count as a
  regression happens to no intent that is executed.
* `RetryDiscipline`: each failed call is followed at once by one retry or the
  end; only a transient failure of a read is retried, exactly the permitted
  number of times; staging is called once.
* `TrailReplays`: the event log is a chain of states and yields state, history,
  evidence, live retry and outcome, after human decisions too.
* `RetryBudget`, `NoGraphRecursion`: the attempts a running run has used fit
  what its answered tools allow, so the limit computed by `_execute` is never
  what stops it.
* `PaymentAccounted`: what a run has evidence of paying is staged as the
  evidence says, and the first execution has staged nothing that it has no
  evidence of (later ones find earlier payments in the ledger: `StagedOnce`);
  once paid, only an unsupported success condition keeps it from COMPLETED.
* `ApprovalSuffices`, `StagedWithinAuthority`, `StagedOnce`,
  `OnlyAuthorisedCalls`, `Termination`: above.
* `ImplementsGoverned`: the controller implements `GovernedExecution`.
* `RecordsArePayable`: what is recorded is what the master data describe and
  allow, and no staged payment is for a duplicate, however its identifier is
  spelt. `LargePaymentsApproved`: in every state, a call above the limit returns
  a payment only if the approval passed with that call is a finance manager's,
  for exactly that payment. `RecordsStand`: repeated calls replace nothing.
* `AuthorityNarrows`: what is called and paid anywhere in a lineage lies within
  every contract of the lineage; an amount above an earlier cap needs an
  approval of the run that pays.
* `EscalationAnswered`: what was once escalated is paid only on an approval.
* `ApprovalsAreOrders`: an approval reaches the child of the run it was made
  for, and meets what `_execute` assumes.
* `SingleUse`, `DecisionEndsTheRun`, `ParentClosedFirst`: the pause handle.
* `TablesAgree`, `LockBelongsToCall`, `ImplementsArchive`, `DamageIsReported`:
  the store. The refinement says among other things that a read that overlaps a
  save never reports a corrupt run that nobody has damaged.
* `AcknowledgedStays`, `AcknowledgedIsServed`: the service.
* `ScenarioSeesItsConfiguration`, `NothingLeaks`: the scenarios.
* `GatedMeetsOracle`, `UngatedAsRecorded`: the scores of both arms.
  `UngatedAsRecorded` compares the model with the rows in
  `outputs/c7/episodes.jsonl`, which the program itself has written: it is also
  a check that the model is faithful.
* `GatesOnlyWithhold`: without a human, and up to the last call that the gated
  arm makes, the logs of the two arms differ in nothing but the codes of the
  gates; if the gated arm completes, the ungated one completes with the same log
  and the same payments.
* `EveryEpisodeScored`: no episode is omitted.

`CHECK_DEADLOCK FALSE` in the controller's, the lineages' and the experiment's
runs: a paused or ended run with nothing further to start, and an experiment
that has scored its last arm, is where the system stops.

**Fairness.** `WF_vars(Advance)`: LangGraph's `invoke` runs superstep after
superstep in the caller's thread until the conditional edge leads to END. No
fairness is assumed of `Execute`, which is up to the caller. A tool always
answers: the local tools are plain functions. `WF_episodeVars(EpisodeNext)`:
`run_experiment` is one synchronous loop over tasks and arms, and `run_episode`
catches what an execution raises. The store, the service, the handle and the
scenarios are safety only: their threads may stop at any point.

### Findings

* `escape`. `docs/V2_EXECUTION_STATE.md:312` says that generic
  exceptions remain terminal. `_dispatch` catches a list of classes
  (`invoice_runtime.py:225`); an `IntentSpec` whose `invoice_id` is a number
  passes both gates, `_lookup` calls `strip()` on it, and the `AttributeError`
  leaves `execute_invoice`. The run is RUNNING, with a started call, no failure
  event and no outcome.
* `handles_race`. `docs/V2_EXECUTION_STATE.md:267` says that accepted decisions
  are single-use. `resume_invoice` checks the pause at line 405 and consumes it
  at line 431, and nothing locks the two: two threads with the same run can both
  be accepted, and both execute a child. `handles` shows that one caller at a
  time is safe, whatever is copied.

### Noticed, without a run of their own

* A POST whose save fails after the execution (the lock times out) answers 500,
  and the run it has executed is stored nowhere (`service.py:44`); line 337 of
  the same document calls every execution stored. A crash between the two
  leaves the same. `AcknowledgedStays` is therefore about acknowledged runs.
* The gates are replaced in module globals that executions read without the
  lock (`agent_benchmark.py:211`): one in another thread that overlaps an ungated
  scenario runs with the approving gates. `NothingLeaks` leaves out exactly the
  executions that meet an open scenario.
* In the ungated arm of tasks 12, 15 and 49 the execution raises and takes its
  run with it (`agent_benchmark.py:408`), so the row counts no attempt although
  a call was started; the recorded rows and `UngatedAsRecorded` agree on this.
* `stage_payment` compares the approved currency with the text it is called
  with and only then normalises that text: an approval that says `usd` stands
  for a payment recorded in `USD`. `LargePaymentsApproved` says so, and the
  `environment` run has such an approval.
* `metamorphic.py:82` expects every approved request to escalate above the limit.
  One whose rules do not name the finance manager is asked for that rule instead
  (`validation.py:196`); all approved fixtures have it. `DriftNeverLicenses` states
  both cases, and `StandingRule` of `MCInvoice` is a request of the second kind.
* `_lookup` trims the identifier it is given, but fixtures are filed untrimmed
  (`tool_environment.py:399` and 609): a record under a padded identifier is
  never found, or another one is found in its place. The fixtures have none.

## 5. Proofs

All theorems hold for every value of the constants that meets the named
assumptions.

**`InvoiceProofs`**: `TypeCorrect`, `WithinRetryBudget`, `LimitSuffices`
(`Spec => []` of `TypeOK`, `RetryBudget`, `NoGraphRecursion`), for every fixture,
policy limit, number of retries, set of faults and set of proposal edits. They
rest on `PolicyAssumption` (limit and retries are natural numbers),
`FixtureAssumption` (what `_index_unique` and the record models enforce), and
`NoneAssumption`, `CodesAssumption`, `EscapesAssumption` (None is no number and
no code). `OrdersAssumption` is not needed: the bound holds for any approval.

`NoGraphRecursion` is not inductive: a state with too many steps behind it
satisfies it once. `RetryBudget` is the strengthening: while a run is
running, the answered tools are the first `k` of the plan, every superstep was
one attempt, and the attempts are at most `Budget(k)`, one and the retries for
each answered tool, plus the attempts of the live retry, which belongs to tool
`k + 1`, a read. `Budget(6)` is three below the limit (`Limit`, `BudgetSteps`),
so the next superstep fits (`SuperstepFits`). A retry raises history and live
attempts together and is permitted below the rule's maximum only; a success
moves to `k + 1` and resets the live retry. That an approved call is for tool
`k + 1` comes from Gate B's own evidence check (`ApprovedProposal`,
`NextTool`), so it holds for edited proposals too. `StagedKeyed` is the second
strengthening: staging an invoice that is already staged returns the old
payment, whose identifier must again be an invoice on record for `TypeOK`.
`Differs` states which fields of the run each handler may change; one lemma per
handler, then one per action.

Then the refinement: `ControllerIsGoverned` (`Spec => ImplementsGoverned`) and
`PaymentsStagedOnce` (`Spec => StagedOnce`). The invariant is
extended by two facts (`GInv`): the invoice an execution has observed is one of
the master data (`InvoiceSeen`), and a staged payment is determined by the
invoice it pays (`LedgerOfRecords`). With them the payment that Gate B judged
against the intent is the payment that the environment records, also when it
returns one that was staged before. Each superstep maps to one abstract step or
a stutter.

**`TrailProofs`**: `CallsAreAuthorised`, `RetriesAreDisciplined` and
`LogIsComplete` (`Spec => []` of `OnlyAuthorisedCalls`, `RetryDiscipline`,
`TrailReplays`), for every set of proposal edits. The log only grows, at its
end, so each fact is stated of an event and of those before it, and one lemma
per kind of fact says that appending keeps it. `TrailInv` adds to `GInv` the log
of the run, `Sound(run)`, and what holds between two actions, `Settlement`.
`Sound` says that each event begins in the state in which the one before it
ended, and the last ends in the run's (`Continuous`); that history and evidence
are what the call events recorded (`HistoryLogged`, `EvidenceLogged`); that a
started call is the plan's next one, has the arguments which the contract and
the evidence determine, and comes right after Gate B's approval of that attempt
(`CallsApproved`); that a failure is followed by its retry or by the end
(`FollowedUp`); and that no tool was called too often (`CallsBounded`). The last
is not inductive: `Settlement` says that the tool at work has been started, and
has failed, as often as the live retry counts (`Tally`), that the last event
tells whether a retry is live, and whether and why the run has ended.
`Sound` holds in the middle of a superstep too, `Settlement` does not: between
`FailedCall` and `ScheduleRetry` the failure is unanswered.

**`HumanProofs`** has four parts. The first is about the authority behind a
payment, for the controller: `PaymentsAlwaysAuthorised`
(`Spec => []StagedWithinAuthority`). It joins the two guards in front of a payment. Gate B's approval gives the
request's terms, its permission and its prohibitions (`ApprovedPayment`,
`ApprovedPermission`); the tool's own validation gives what the master data
allow, of an old payment as well as of a new one (`PaidRecord`); and every other
step leaves contract and evidence alone or leaves a run that has not paid
(`OthersDoNotPay`). `PaymentsAlwaysAccounted` (`Spec => []PaymentAccounted`)
follows from `TrailInv` with what a run has seen and decided by the time it has
paid (`PaidOnEvidence`): of the conditions that `_finish` knows to evidence,
none is then missing. That the first execution has staged nothing without
evidence is inductive as it stands: a step that is not a successful staging
leaves the ledger alone, and a staging that succeeds meets a run that has not
paid, hence an empty ledger.

Then for the environment alone: `RecordsAlwaysPayable`,
`LargePaymentsAlwaysApproved` and `RecordsAlwaysStand`, for any callers. The properties are not inductive,
since they do not say under which key a payment is filed: in `EnvInv` a recorded
payment is the one that the master data determine for its key, which is no
duplicate if it is staged (`PaymentsAreDue`), so that a call that returns an old
payment returns what it would have recorded. Assumed besides the fixtures' consistency: the codes of the
tools are not None (`ProblemsAssumption`), the environment's policies are not
laxer than the controller's limit (`LimitAssumption`), and no supplier is filed
under a padded identifier (`TrimmedAssumption`; the code does not enforce it,
see above).

The second part is about an approved execution: `ApprovalsSuffice`
(`Spec => []ApprovalSuffices`) under the hypothesis `Mutations = {}`, which is
production: nobody but the controller proposes. (An edited proposal may name
another amount, and must then be stopped for that.) Gate A, Gate B and
`stage_payment` judge the approved child afresh, and each finds the authority
that `resume_invoice` found: Gate A's verdict does not depend on the version
(`SameTerms`, `NextTerms`), so that the next version is as approvable as the
parent was, and the approval stays the one of the contract, with nobody
intervening, as long as the run runs (`ApprovalKept`).

The third is about lineages, with `HumanSpec` and any edits: `ApprovalsReachTheirRun`,
`EscalationsAreAnswered`, `AuthorityOnlyNarrows`, and `DecisionsAreLogged`, which
is `TrailReplays` through any sequence of decisions. `RunInv` is what the proofs
above say of the latest run, and that its contract is Gate A's verdict on a
complete intent, which admitted or escalated it if it ever ran (`Licensed`), its
calls are executable under that intent, and what it paid is an amount. `HumanInv` relates the ancestors to it. What escalated
anywhere in the lineage is an amount above the limit or a standing rule, and no
change of constraints removes either, so it must still be asked
(`Escalations`, `MustAsk`). The contract is within those of all ancestors
(`Narrowed`): `changed_intent` gives an intent within the old one, and `Within`
is transitive. The properties themselves are not inductive: they speak of
payments, and the payment of a child is judged against its own contract only.
`HumanInv` was checked as an invariant of the `human` instance before it was
proved.

The fourth is about Gate A: `GateAlwaysFailsClosed` and `DriftIsHarmless`, which are
`FindingsBlock` and `DriftNeverLicenses` both of `Spec` and of `HumanSpec`, so of the
intents that changes of constraints make too. They come from lemmas about the
operators, for every intent that has the fields the code reads. `Flawless` says field
by field what an intent must be like, and `NothingFound` that `ValidateIntent` finds
nothing in exactly those. `FindingsCount` says that every finding is a reason to reject
or a question: a tool that is unknown under an unbounded permission is neither, but
the permission then is a question. `GateFailsClosed` joins the two. The drifts then
become arithmetic on `Flawless`: a request that is flawless at ten times its price was
flawless before (`InflationHidesNothing`), since an amount above a limit that is not
negative stays above it; a request that is approved is flawless at any other amount,
but for the rule that an amount above the limit calls for (`Repriced`,
`ApprovedToTheLimit`, `StoppedAboveTheLimit`).

**`AuditProofs`**: `AuditAlwaysAgrees` (`Spec => []AuditAgrees`). Before each call
`decide_runtime` recomputes from the events, the history and the observations
what `_dispatch` wrote into them, and refuses the call when anything is amiss. The
property says of Gate B's codes that none of them is such a refusal, which is
not inductive: it says nothing of the record. `Books` does, for every attempt of a
running run. Attempts are numbered from 0 and the events and the observation of
each carry its number (`Numbering`). Each was checked, approved and started, in
this order, for the tool that the number of completions before it determines
(`Attempted`); either it completed with the output that is now in evidence
(`Answered`), or it failed, transiently, and was granted a retry whose number is
that of the failures in a row (`Retried`). The live retry is that of the last
attempt (`RetryRecorded`), and the evidence is as long as there are completions.
`Clear` says that nobody has stopped the run, `OrderSeen` that the purchase order
in evidence is the one that the observed invoice names.

The argument has two halves. The audit finds nothing in such books: one lemma per
audit (`EvidenceAccepted`, `RetryAccepted`, `OwnState`, `OwnScope`), which leaves the
refusals that are about the request, the master data and the authority
(`OwnJudgement`). And an attempt leaves books of the same kind, or a run that has
ended: `FailedAttempt` and `CompletedAttempt` say what `_dispatch` writes,
`BooksRetry` and `BooksComplete` that this is one more entry, `StepBooked` that
there is no other way to go on. Counting is settled once for all runs
(`CountsStand`, `CountsGrow`): what was counted of the attempts so far does not
change when the next one is added.

There are two hypotheses. `Mutations = {}` is production, as above: an edited
proposal must be refused as not the controller's. `OrdersTrimmed` says that no
purchase order is filed under an identifier that `_lookup` would strip. The code
does not enforce it: `_lookup` strips what it is asked for, `_index_unique` does not
strip what it files (`tool_environment.py:399`, `:614`), so that the order of an
invoice could be looked up as another one, and the audit would be right to refuse.
The synthetic records are trimmed; `MCInvoice` has TLC evaluate the hypothesis. The
invariant, `Books`, `Clear` and `OrderSeen` of every running run, was checked on the
`recovery` instance before it was proved.

**`PauseProofs`**: `PauseIsSingleUse`, `DecisionAlwaysEndsTheRun` and
`ParentAlwaysClosedFirst`, each under the hypothesis `OneCaller`, which
`handles_race` shows to be needed. `PauseInv` says what a call has already done
at each of its steps, and that only the run that paused, never a copy, gets past
the first.

**`ScenarioProofs`**: `NothingEverLeaks`, for any number of threads and depth of
nesting. `ScenarioInv`: only the owner of the lock is in scenarios and holds it
once for each; the outer ones are in their bodies; the outermost saved the
originals, and has put back one name after the other when it comes to give up
the lock (`PutBack`); with nobody in a scenario the names are the originals.
What inner scenarios save and put back does not matter for it.

It matters for `ScenariosSeeTheirConfiguration`. `Layered` adds that a scenario
saved what the ones around it make of the names (`SavedFit`), and which names show
the innermost one at each of its steps: one more after each replacement, one less
after each restoration (`NamesFit`). Then entering finds, and releasing leaves,
what the outer scenarios make of the names. The lemmas it rests on are about the
stack: how the gate and the order of the edits under n scenarios come from those
under n - 1 (`GateGrows`, `EditsStay`, `EditsGrow`). `EditsUnder` relates a
proposer to the stack by the places of its edits, instead of computing it.

**`RunServiceProofs`**, first for the store: `TablesAlwaysAgree`, `LockAlwaysReturned`,
`StoreIsArchive` (`DamagedSpec => ImplementsArchive`) and `DamageAlwaysReported`
(`DamagedSpec => DamageIsReported`), for any clients, processes, runs and events,
and for any damage that `Damage` describes. `StoreInv` adds to the two invariants what a call knows between its
statements: from its SELECT to its COMMIT a writer's identifier stays free
(`TransactionHolds`), because it holds the lock, and from its first statement to
its second a reader's row stays what it was (`ReaderHolds`), because no statement
changes a stored run. A commit is the abstract save, the second SELECT the
abstract read. Damage takes from the runs it hits the agreement of the tables and
nothing else: rows stay where they are, no run gains an event, and a call is told
of damage only about a run that was damaged (`DamageIsReal`), which is what lets
the refinement hide it. That damage is reported is an action property: whichever
statement answers `found` or `stored` has compared the event rows in that very step
(`Compare`, `ReadEvents`), or has itself put them where `TablesAgree` says there were
none (`Commit`), whatever happened to the file since the call began.

Then for the service: `AcknowledgedAlwaysStays` and `AcknowledgedAlwaysServed`.
`ServiceInv` adds to `StoreInv` that a thread's call is the call of its request,
that the identifier of an execution is fresh until it is saved, so that a save
cannot meet a conflict, and that what an answer says of the archive stays true. The
service is about an undamaged file (`ServiceUndamaged`): an acknowledged run that
somebody else damages is, rightly, no longer served.

**`EpisodeProofs`**: `GatesWithholdOnly` (`EpisodeSpec => []GatesOnlyWithhold`), for
any tasks, failure scripts, edits, master data, limit and number of retries, and for
both orders of the arms. It relates two executions, which run one after the other on
environments of their own, so no invariant of the current arm alone can state it:
`scores` keeps what the first arm did, but not how. The state of an arm is therefore
a record (`Current`), its steps are a relation of two such records (`Moves`, which
`StepMoves` shows to be what `EpisodeStep` does), and `EInv` says that there is a
finite `Trace` of the first arm from its opening to where it is. While the second arm
runs, some state of that trace is `Paired` with the current one: the arms are alike
(`SameArm`: same work, same ledger, same failures used up, and logs that differ only
in the gates' codes), or the gated one has stopped in agreement with the beginning of
the other's log (`Withheld`). One lemma per handler says that it keeps runs alike;
`JudgedAlike` says that where Gate B approves, the shim makes the same decision but
for its code; `MovesAlike` puts them together, and `MovesExtend`, that a log only
grows, keeps what was withheld. An arm that is `Paired` with the end of the trace and
cannot go on has ended the same way (`EndsPaired`). The one assumption besides the
ones above is `ShimAssumption`: None is no decision of the shim.

Only model-checked: `Termination` and `EveryEpisodeScored` (liveness, out of the
prover's reach), and `GatedMeetsOracle` and `UngatedAsRecorded`, which are about the
frozen tasks and their recorded rows and about no others.

## 6. Not modelled

* The compiler (regular expressions over text): the instances start from what it
  makes of the requests.
* Evaluation, the benchmarks of Gate A, the differential harness, and of the
  metamorphic and drift harnesses all but the edits they make: batch scoring over
  fixed corpora, with no state. The same
  holds for loading tasks, statistics, tables and charts in
  `agent_benchmark.py`.
* The command line, FastAPI's routing and request validation.
* Gate A's comparison with a NaN amount, which raises
  (`validation.py:191`): amounts here are integers, or texts that are no amount.

Limits of the modules: a run is paused and resumed on one environment by one
lineage at a time; copies and edits in `PauseHandles` happen between calls, not
during one; repeating an exact save does not compare the index columns again, in
the code as in the model; a clarification can only be answered by a change that
supplies the missing inputs of the scope, since that is all `changed_intent`
accepts.
