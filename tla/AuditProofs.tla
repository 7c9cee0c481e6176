----------------------------- MODULE AuditProofs -----------------------------
(***************************************************************************)
(* Gate B's audit and the controller's bookkeeping agree, for any master   *)
(* data, limit, number of retries, set of faults and set of orders.        *)
(*                                                                         *)
(* decide_runtime recomputes from the events, the history and the          *)
(* observations what _dispatch wrote into them: which attempts completed,  *)
(* how often the one at work has failed, and what may come next.  Books    *)
(* says what _dispatch has written; that the audit finds nothing in it is  *)
(* a lemma, and so is that an attempt, whatever becomes of it, leaves      *)
(* books of the same kind, or a run that has ended.                        *)
(***************************************************************************)
EXTENDS HumanProofs

----------------------------------------------------------------------------
(* The books.                                                              *)

Audited ==
    {"runtime_policy_check", "tool_call_started", "tool_call_completed",
     "tool_call_failed", "retry_scheduled"}

(* Attempts are numbered from 0, and every event and observation of a call *)
(* belongs to one of them.                                                 *)
Numbering(r) ==
    LET n == Len(r.history)
    IN  /\ r.history \in Seq(Nat) /\ Recorded(r.events) /\ Recorded(r.observations)
        /\ \A i \in 1..n : r.history[i] = i - 1
        /\ \A type \in Audited : \A k \in Typed(r, type) :
              r.events[k].action \in 0..(n - 1)
        /\ Len(r.observations) = n
        /\ \A i \in 1..n : r.observations[i].action = i - 1

ToolOf(r, i) == InvoiceTools[CompletedAttempts(Succeeded(r), i - 1) + 1]

(* The attempt i whose check is event k has completed.                     *)
Answered(r, i, k) ==
    LET tool == ToolOf(r, i)
    IN  /\ EventsOf(r, "tool_call_completed", i - 1) = {k + 2}
        /\ EventsOf(r, "tool_call_failed", i - 1) = {}
        /\ EventsOf(r, "retry_scheduled", i - 1) = {}
        /\ tool \in DOMAIN r.evidence
        /\ r.observations[i].output = r.evidence[tool]
        /\ r.events[k + 2].output = r.evidence[tool]

(* It has failed, and was granted the next of its retries.                 *)
Retried(r, i, k) ==
    LET tool     == ToolOf(r, i)
        failures == ConsecutiveFailures(Succeeded(r), i)
        code     == r.observations[i].code
        schedule == r.events[k + 3]
    IN  /\ EventsOf(r, "tool_call_completed", i - 1) = {}
        /\ EventsOf(r, "tool_call_failed", i - 1) = {k + 2}
        /\ EventsOf(r, "retry_scheduled", i - 1) = {k + 3}
        /\ tool # "stage_payment" /\ code \in Transient
        /\ r.events[k + 2].code = code
        /\ failures \in 1..ReadRetries
        /\ schedule.tool = tool /\ schedule.retry = failures
        /\ schedule.code = code /\ schedule.max = ReadRetries
        /\ schedule.next = i

Attempted(r, i) ==
    LET tool == ToolOf(r, i)
    IN  /\ CompletedAttempts(Succeeded(r), i - 1) \in 0..5
        /\ r.observations[i].tool = tool
        /\ \E k \in DOMAIN r.events :
              /\ EventsOf(r, "runtime_policy_check", i - 1) = {k}
              /\ EventsOf(r, "tool_call_started", i - 1) = {k + 1}
              /\ r.events[k].decision = "APPROVE"
              /\ \A j \in {k, k + 1, k + 2} : r.events[j].tool = tool
              /\ Answered(r, i, k) \/ Retried(r, i, k)

(* The live retry is that of the last attempt, which has failed.           *)
RetryRecorded(r) ==
    LET n        == Len(r.history)
        done     == Succeeded(r)
        schedule == r.events[Len(r.events)]
    IN  IF r.retry = NoRetry THEN n = 0 \/ n \in done
        ELSE /\ n > 0 /\ n \notin done
             /\ r.retry.tool = ToolOf(r, n + 1)
             /\ r.retry.attempts = ConsecutiveFailures(done, n)
             /\ r.retry.error \in Transient /\ r.retry.max = ReadRetries
             /\ r.retry.failed = n - 1
             /\ EventsOf(r, "retry_scheduled", n - 1) = {Len(r.events)}
             /\ r.retry.error = schedule.code

Books(r) ==
    /\ Numbering(r) /\ RetryRecorded(r)
    /\ \A i \in 1..Len(r.history) : Attempted(r, i)
    /\ Cardinality(Succeeded(r)) \in 0..6
    /\ DOMAIN r.evidence = Prefix(Cardinality(Succeeded(r)))

(* Nobody has stopped the run, and it has the authority to go on.          *)
Clear(r) ==
    /\ \A k \in Typed(r, "runtime_policy_check") : r.events[k].decision = "APPROVE"
    /\ r.decision # None => r.decision.decision = "APPROVE"
    /\ r.questions = {}
    /\ r.contract.approval = None =>
          r.approvalState = "NOT_REQUESTED" /\ r.contract.gateA.decision = "APPROVE"

(* The order that was looked up is the one the observed invoice names.     *)
OrderSeen(r) ==
    "lookup_purchase_order" \in DOMAIN r.evidence =>
        r.evidence["lookup_purchase_order"].purchase_order_id
            = r.evidence["inspect_invoice"].purchase_order_id

----------------------------------------------------------------------------
(* Counting attempts.                                                      *)

LEMMA CountsStand ==
    ASSUME NEW n \in Nat, NEW done \in SUBSET (1..n), NEW now \in {done, done \cup {n + 1}},
           NEW i \in 0..n
    PROVE  /\ CompletedAttempts(now, i) = CompletedAttempts(done, i)
           /\ ConsecutiveFailures(now, i) = ConsecutiveFailures(done, i)
<1>1. now \cap 1..i = done \cap 1..i
  OBVIOUS
<1>2. \A j \in 1..i : j..i \cap now = j..i \cap done
  OBVIOUS
<1>3. {j \in 1..i : j..i \cap now = {}} = {j \in 1..i : j..i \cap done = {}}
  BY <1>2
<1> QED
  BY <1>1, <1>3 DEF CompletedAttempts, ConsecutiveFailures

LEMMA CountsGrow ==
    ASSUME NEW n \in Nat, NEW done \in SUBSET (1..n)
    PROVE  /\ CompletedAttempts(done, n) = Cardinality(done)
           /\ Cardinality(done \cup {n + 1}) = Cardinality(done) + 1
           /\ ConsecutiveFailures(done, n) \in Nat
           /\ n = 0 \/ n \in done => ConsecutiveFailures(done, n) = 0
           /\ ConsecutiveFailures(done, n + 1) = ConsecutiveFailures(done, n) + 1
<1> DEFINE Failing(i) == {j \in 1..i : j..i \cap done = {}}
<1>1. IsFiniteSet(1..n)
  BY FS_Interval
<1>2. IsFiniteSet(done) /\ n + 1 \notin done
  <2>1. done \subseteq 1..n /\ n + 1 \notin 1..n
    OBVIOUS
  <2> QED
    BY <1>1, <2>1, FS_Subset
<1>3. CompletedAttempts(done, n) = Cardinality(done)
  <2>1. done \cap 1..n = done
    OBVIOUS
  <2> QED
    BY <2>1 DEF CompletedAttempts
<1>4. Cardinality(done \cup {n + 1}) = Cardinality(done) + 1
  BY <1>2, FS_AddElement
<1>5. IsFiniteSet(Failing(n)) /\ Cardinality(Failing(n)) \in Nat
  <2>1. Failing(n) \subseteq 1..n
    OBVIOUS
  <2> QED
    BY <1>1, <2>1, FS_Subset, FS_CardinalityType
<1>6. n = 0 \/ n \in done => Failing(n) = {}
  <2>1. n \in done => \A j \in 1..n : n \in j..n
    OBVIOUS
  <2> QED
    BY <2>1
<1>7. Failing(n + 1) = Failing(n) \cup {n + 1} /\ n + 1 \notin Failing(n)
  <2>1. \A j \in 1..n : j..(n + 1) \cap done = j..n \cap done
    OBVIOUS
  <2>2. (n + 1)..(n + 1) \cap done = {}
    OBVIOUS
  <2> QED
    BY <2>1, <2>2
<1>8. Cardinality(Failing(n + 1)) = Cardinality(Failing(n)) + 1
  BY <1>5, <1>7, FS_AddElement
<1>9. Cardinality({}) = 0
  BY FS_EmptySet
<1>10. \A i : ConsecutiveFailures(done, i) = Cardinality(Failing(i))
  BY DEF ConsecutiveFailures
<1> HIDE DEF Failing
<1> QED
  BY <1>3, <1>4, <1>5, <1>6, <1>8, <1>9, <1>10

----------------------------------------------------------------------------
(* Adding an attempt to the books.                                         *)

(* s is r with the events and the observation of one more attempt.         *)
Continued(r, s) ==
    LET n == Len(r.history)
    IN  /\ s.history = Append(r.history, n)
        /\ \E o : s.observations = Append(r.observations, o) /\ o.action = n
        /\ Recorded(s.events) /\ Len(s.events) \in Nat
        /\ Len(s.events) > Len(r.events)
        /\ \A k \in 1..Len(r.events) : s.events[k] = r.events[k]
        /\ \A k \in (Len(r.events) + 1)..Len(s.events) : s.events[k].action = n
        /\ \A t \in DOMAIN r.evidence : t \in DOMAIN s.evidence /\ s.evidence[t] = r.evidence[t]

LEMMA EventsDivide ==
    ASSUME NEW r, NEW s, Numbering(r), Continued(r, s), NEW type \in Audited
    PROVE  LET n == Len(r.history)
           IN  /\ \A a \in 0..(n - 1) : EventsOf(s, type, a) = EventsOf(r, type, a)
               /\ EventsOf(s, type, n) =
                     {k \in (Len(r.events) + 1)..Len(s.events) : s.events[k].type = type}
               /\ n \in Nat
<1> DEFINE n == Len(r.history)
           b == Len(r.events)
           e == Len(s.events)
<1>1. /\ n \in Nat /\ b \in Nat /\ e \in Nat /\ e > b
      /\ DOMAIN r.events = 1..b /\ DOMAIN s.events = 1..e
  BY DEF Numbering, Continued, Recorded
<1>2. /\ \A k \in 1..b : s.events[k] = r.events[k]
      /\ \A k \in (b + 1)..e : s.events[k].action = n
  BY DEF Continued
<1>3. \A k \in 1..b : r.events[k].type = type => r.events[k].action \in 0..(n - 1)
  BY <1>1 DEF Numbering, Typed
<1> HIDE DEF n, b, e
<1>4. \A k : k \in 1..e <=> k \in 1..b \/ k \in (b + 1)..e
  BY <1>1
<1>5. n \notin 0..(n - 1)
  BY <1>1
<1>6. \A a \in 0..(n - 1) : EventsOf(s, type, a) = EventsOf(r, type, a)
  BY <1>1, <1>2, <1>4, <1>5 DEF EventsOf
<1>7. EventsOf(s, type, n) = {k \in (b + 1)..e : s.events[k].type = type}
  BY <1>1, <1>2, <1>3, <1>4, <1>5 DEF EventsOf
<1> QED
  BY <1>1, <1>6, <1>7 DEF n, b, e

LEMMA NumberingGrows ==
    ASSUME NEW r, NEW s, Numbering(r), Continued(r, s)
    PROVE  /\ Numbering(s) /\ Len(s.history) = Len(r.history) + 1
           /\ \A i \in 1..Len(r.history) : s.observations[i] = r.observations[i]
           /\ \A i \in 1..(Len(r.history) + 1) : s.history[i] = i - 1
<1> DEFINE n == Len(r.history)
           b == Len(r.events)
           e == Len(s.events)
<1>1. /\ n \in Nat /\ b \in Nat /\ e \in Nat /\ e > b
      /\ DOMAIN r.events = 1..b /\ DOMAIN s.events = 1..e
  BY DEF Numbering, Continued, Recorded
<1>2. /\ s.history \in Seq(Nat) /\ Len(s.history) = n + 1
      /\ \A i \in 1..n : s.history[i] = i - 1
      /\ s.history[n + 1] = n
  BY DEF Numbering, Continued
<1>3. /\ Recorded(s.observations) /\ Len(s.observations) = n + 1
      /\ \A i \in 1..n : s.observations[i] = r.observations[i]
      /\ s.observations[n + 1].action = n
  <2>1. PICK o : s.observations = Append(r.observations, o) /\ o.action = n
    BY DEF Continued
  <2>2. Recorded(r.observations) /\ Len(r.observations) = n
    BY DEF Numbering
  <2> HIDE DEF n
  <2> QED
    BY <2>1, <2>2, Appending
<1>4. ASSUME NEW type \in Audited, NEW k \in Typed(s, type)
      PROVE  s.events[k].action \in 0..n
  <2>1. k \in 1..b \/ k \in (b + 1)..e
    BY <1>1 DEF Typed
  <2>2. CASE k \in 1..b
    <3>1. s.events[k] = r.events[k] /\ k \in Typed(r, type)
      BY <1>1, <2>2 DEF Continued, Typed
    <3>2. r.events[k].action \in 0..(n - 1)
      BY <3>1 DEF Numbering
    <3> QED
      BY <1>1, <3>1, <3>2
  <2>3. CASE k \in (b + 1)..e
    BY <1>1, <2>3 DEF Continued
  <2> QED
    BY <2>1, <2>2, <2>3
<1>5. \A i \in 1..n : r.observations[i].action = i - 1
  BY DEF Numbering
<1>6. Recorded(s.events)
  BY DEF Continued
<1> HIDE DEF n, b, e
<1>7. /\ \A i \in 1..(n + 1) : i \in 1..n \/ i = n + 1
      /\ (n + 1) - 1 = n
  BY <1>1
<1>8. ASSUME NEW i \in 1..(n + 1)
      PROVE  s.history[i] = i - 1 /\ s.observations[i].action = i - 1
  <2>1. CASE i \in 1..n
    BY <1>2, <1>3, <1>5, <2>1
  <2>2. CASE i = n + 1
    <3>1. i - 1 = n
      BY <1>7, <2>2
    <3> QED
      BY <1>2, <1>3, <2>2, <3>1
  <2> QED
    BY <1>7, <2>1, <2>2
<1>9. Numbering(s)
  BY <1>2, <1>3, <1>4, <1>6, <1>7, <1>8 DEF Numbering
<1> QED
  BY <1>2, <1>3, <1>8, <1>9 DEF n

(* Whether an attempt completed is settled when the next one begins.       *)
LEMMA SucceededGrows ==
    ASSUME NEW r, NEW s, Numbering(r), Continued(r, s)
    PROVE  LET n   == Len(r.history)
               new == EventsOf(s, "tool_call_completed", n)
           IN  /\ n \in Nat /\ Succeeded(r) \in SUBSET (1..n)
               /\ new = {} => Succeeded(s) = Succeeded(r)
               /\ new # {} => Succeeded(s) = Succeeded(r) \cup {n + 1}
<1> DEFINE n    == Len(r.history)
           ends == "tool_call_completed"
<1>1. /\ n \in Nat /\ DOMAIN r.history = 1..n /\ DOMAIN s.history = 1..(n + 1)
      /\ \A i \in 1..n : r.history[i] = i - 1
      /\ \A i \in 1..(n + 1) : s.history[i] = i - 1
  <2>1. /\ Numbering(s) /\ Len(s.history) = n + 1
        /\ \A i \in 1..(n + 1) : s.history[i] = i - 1
    BY NumberingGrows
  <2>2. r.history \in Seq(Nat) /\ \A i \in 1..n : r.history[i] = i - 1
    BY DEF Numbering
  <2>3. s.history \in Seq(Nat)
    BY <2>1 DEF Numbering
  <2> QED
    BY <2>1, <2>2, <2>3
<1>2. \A a \in 0..(n - 1) : EventsOf(s, ends, a) = EventsOf(r, ends, a)
  <2>1. ends \in Audited
    BY DEF Audited
  <2> QED
    BY <2>1, EventsDivide
<1> HIDE DEF n
<1>3. Succeeded(r) = {i \in 1..n : EventsOf(r, ends, i - 1) # {}}
  BY <1>1 DEF Succeeded, Completed
<1>4. Succeeded(s) = {i \in 1..(n + 1) : EventsOf(s, ends, i - 1) # {}}
  BY <1>1 DEF Succeeded, Completed
<1>5. \A i \in 1..n : EventsOf(s, ends, i - 1) = EventsOf(r, ends, i - 1)
  BY <1>1, <1>2
<1>6. /\ \A i : i \in 1..(n + 1) <=> i \in 1..n \/ i = n + 1
      /\ (n + 1) - 1 = n /\ n + 1 \notin 1..n
  BY <1>1
<1>7. EventsOf(s, ends, n) = {} => Succeeded(s) = Succeeded(r)
  BY <1>3, <1>4, <1>5, <1>6
<1>8. EventsOf(s, ends, n) # {} => Succeeded(s) = Succeeded(r) \cup {n + 1}
  BY <1>3, <1>4, <1>5, <1>6
<1> QED
  BY <1>1, <1>3, <1>7, <1>8 DEF n

LEMMA AttemptStands ==
    ASSUME NEW r, NEW s, Numbering(r), Continued(r, s), NEW i \in 1..Len(r.history),
           Attempted(r, i)
    PROVE  Attempted(s, i)
<1> DEFINE n    == Len(r.history)
           b    == Len(r.events)
           a    == i - 1
           done == Succeeded(r)
           now  == Succeeded(s)
           tool == ToolOf(r, i)
<1>1. /\ n \in Nat /\ done \in SUBSET (1..n) /\ now \in {done, done \cup {n + 1}}
  BY SucceededGrows
<1>2. /\ CompletedAttempts(now, i - 1) = CompletedAttempts(done, i - 1)
      /\ ConsecutiveFailures(now, i) = ConsecutiveFailures(done, i)
  <2>1. i \in 0..n /\ i - 1 \in 0..n
    BY <1>1
  <2> HIDE DEF n, done, now
  <2> QED
    BY <1>1, <2>1, CountsStand
<1>3. ToolOf(s, i) = tool
  BY <1>2 DEF ToolOf
<1>4. a \in 0..(n - 1)
  BY <1>1
<1>5. \A type \in Audited : EventsOf(s, type, a) = EventsOf(r, type, a)
  BY <1>4, EventsDivide
<1>6. /\ EventsOf(s, "runtime_policy_check", a) = EventsOf(r, "runtime_policy_check", a)
      /\ EventsOf(s, "tool_call_started", a) = EventsOf(r, "tool_call_started", a)
      /\ EventsOf(s, "tool_call_completed", a) = EventsOf(r, "tool_call_completed", a)
      /\ EventsOf(s, "tool_call_failed", a) = EventsOf(r, "tool_call_failed", a)
      /\ EventsOf(s, "retry_scheduled", a) = EventsOf(r, "retry_scheduled", a)
  BY <1>5 DEF Audited
<1>7. \A type, k : k \in EventsOf(r, type, a) =>
         k \in DOMAIN s.events /\ s.events[k] = r.events[k]
  <2>1. Recorded(r.events) /\ Recorded(s.events)
    BY DEF Numbering, Continued
  <2>2. /\ DOMAIN r.events = 1..b /\ b \in Nat
        /\ DOMAIN s.events = 1..Len(s.events) /\ Len(s.events) \in Nat
    BY <2>1 DEF Recorded
  <2>3. Len(s.events) > b /\ \A k \in 1..b : s.events[k] = r.events[k]
    BY DEF Continued
  <2> HIDE DEF b
  <2> QED
    BY <2>2, <2>3 DEF EventsOf
<1>8. s.observations[i] = r.observations[i]
  BY NumberingGrows
<1>9. \A t \in DOMAIN r.evidence : t \in DOMAIN s.evidence /\ s.evidence[t] = r.evidence[t]
  BY DEF Continued
<1>10. PICK k \in DOMAIN r.events :
              /\ EventsOf(r, "runtime_policy_check", a) = {k}
              /\ EventsOf(r, "tool_call_started", a) = {k + 1}
              /\ r.events[k].decision = "APPROVE"
              /\ \A j \in {k, k + 1, k + 2} : r.events[j].tool = tool
              /\ Answered(r, i, k) \/ Retried(r, i, k)
  BY DEF Attempted
<1>11. /\ k \in DOMAIN s.events /\ s.events[k] = r.events[k]
       /\ s.events[k + 1] = r.events[k + 1]
  BY <1>7, <1>10
<1>12. CompletedAttempts(done, i - 1) \in 0..5 /\ r.observations[i].tool = tool
  BY DEF Attempted
<1>13. CASE Answered(r, i, k)
  <2>1. s.events[k + 2] = r.events[k + 2]
    BY <1>7, <1>13 DEF Answered
  <2>2. Answered(s, i, k)
    BY <1>3, <1>6, <1>8, <1>9, <1>13, <2>1 DEF Answered
  <2>3. \A j \in {k, k + 1, k + 2} : s.events[j].tool = tool
    BY <1>10, <1>11, <2>1
  <2> QED
    BY <1>2, <1>3, <1>6, <1>8, <1>10, <1>11, <1>12, <2>2, <2>3 DEF Attempted
<1>14. CASE Retried(r, i, k)
  <2>1. s.events[k + 2] = r.events[k + 2] /\ s.events[k + 3] = r.events[k + 3]
    BY <1>7, <1>14 DEF Retried
  <2>2. Retried(s, i, k)
    BY <1>2, <1>3, <1>6, <1>8, <1>14, <2>1 DEF Retried
  <2>3. \A j \in {k, k + 1, k + 2} : s.events[j].tool = tool
    BY <1>10, <1>11, <2>1
  <2> QED
    BY <1>2, <1>3, <1>6, <1>8, <1>10, <1>11, <1>12, <2>2, <2>3 DEF Attempted
<1> QED
  BY <1>10, <1>13, <1>14

(* The events of the attempt that s adds to r, in their order: Gate B's    *)
(* check, the start and what became of the call.                           *)
Called(r, s, tool, ending) ==
    LET b == Len(r.events)
    IN  /\ Continued(r, s)
        /\ s.events[b + 1].type = "runtime_policy_check"
        /\ s.events[b + 1].decision = "APPROVE"
        /\ s.events[b + 2].type = "tool_call_started"
        /\ s.events[b + 3].type = ending
        /\ \A k \in {b + 1, b + 2, b + 3} : s.events[k].tool = tool
        /\ s.observations[Len(r.history) + 1].tool = tool

LEMMA CallEvents ==
    ASSUME NEW r, NEW s, NEW tool, NEW ending \in {"tool_call_completed", "tool_call_failed"},
           Numbering(r), Called(r, s, tool, ending),
           LET b == Len(r.events)
           IN  \/ Len(s.events) = b + 3 /\ ending = "tool_call_completed"
               \/ /\ Len(s.events) = b + 4 /\ ending = "tool_call_failed"
                  /\ s.events[b + 4].type = "retry_scheduled"
    PROVE  LET n == Len(r.history)
               b == Len(r.events)
           IN  /\ EventsOf(s, "runtime_policy_check", n) = {b + 1}
               /\ EventsOf(s, "tool_call_started", n) = {b + 2}
               /\ EventsOf(s, ending, n) = {b + 3}
               /\ ending = "tool_call_completed" =>
                     /\ EventsOf(s, "tool_call_failed", n) = {}
                     /\ EventsOf(s, "retry_scheduled", n) = {}
               /\ ending = "tool_call_failed" =>
                     /\ EventsOf(s, "tool_call_completed", n) = {}
                     /\ EventsOf(s, "retry_scheduled", n) = {b + 4}
               /\ b \in Nat /\ b + 1 \in DOMAIN s.events
<1> DEFINE n == Len(r.history)
           b == Len(r.events)
           e == Len(s.events)
<1>1. b \in Nat /\ DOMAIN s.events = 1..e /\ e \in Nat
  BY DEF Numbering, Called, Continued, Recorded
<1>2. \A type \in Audited :
         EventsOf(s, type, n) = {k \in (b + 1)..e : s.events[k].type = type}
  BY EventsDivide DEF Called
<1>3. /\ s.events[b + 1].type = "runtime_policy_check"
      /\ s.events[b + 2].type = "tool_call_started"
      /\ s.events[b + 3].type = ending
  BY DEF Called
<1>4. \/ e = b + 3 /\ ending = "tool_call_completed"
      \/ /\ e = b + 4 /\ ending = "tool_call_failed"
         /\ s.events[b + 4].type = "retry_scheduled"
  OBVIOUS
<1> HIDE DEF n, b, e
<1>5. CASE ending = "tool_call_completed"
  <2>1. e = b + 3
    BY <1>4, <1>5
  <2>2. (b + 1)..e = {b + 1, b + 2, b + 3}
    BY <1>1, <2>1
  <2>3. b + 1 # b + 2 /\ b + 1 # b + 3 /\ b + 2 # b + 3 /\ b + 1 \in 1..e
    BY <1>1, <2>1
  <2> QED
    BY <1>1, <1>2, <1>3, <1>5, <2>2, <2>3 DEF Audited, n, b
<1>6. CASE ending = "tool_call_failed"
  <2>1. e = b + 4 /\ s.events[b + 4].type = "retry_scheduled"
    BY <1>4, <1>6
  <2>2. (b + 1)..e = {b + 1, b + 2, b + 3, b + 4}
    BY <1>1, <2>1
  <2>3. b + 1 \in 1..e
    BY <1>1, <2>1
  <2> QED
    BY <1>1, <1>2, <1>3, <1>6, <2>1, <2>2, <2>3 DEF Audited, n, b
<1> QED
  BY <1>5, <1>6

(* What an attempt finds and leaves of the counts.                         *)
LEMMA NextAttempt ==
    ASSUME NEW r, NEW s, Books(r), Continued(r, s)
    PROVE  LET n    == Len(r.history)
               done == Succeeded(r)
               now  == Succeeded(s)
               new  == EventsOf(s, "tool_call_completed", n)
           IN  /\ n \in Nat /\ (n + 1) - 1 = n /\ Len(s.history) = n + 1
               /\ done \in SUBSET (1..n)
               /\ new = {} => now = done
               /\ new # {} => now = done \cup {n + 1}
               /\ CompletedAttempts(now, n) = Cardinality(done)
               /\ CompletedAttempts(done, n) = Cardinality(done)
               /\ ToolOf(s, n + 1) = ToolOf(r, n + 1)
               /\ ToolOf(r, n + 1) = InvoiceTools[Cardinality(done) + 1]
<1> DEFINE n    == Len(r.history)
           done == Succeeded(r)
           now  == Succeeded(s)
<1>1. Numbering(r)
  BY DEF Books
<1>2. /\ n \in Nat /\ done \in SUBSET (1..n)
      /\ EventsOf(s, "tool_call_completed", n) = {} => now = done
      /\ EventsOf(s, "tool_call_completed", n) # {} => now = done \cup {n + 1}
  BY <1>1, SucceededGrows
<1>3. Len(s.history) = n + 1
  BY <1>1, NumberingGrows
<1>4. now \in {done, done \cup {n + 1}}
  BY <1>2
<1>5. CompletedAttempts(done, n) = Cardinality(done)
  BY <1>2, CountsGrow
<1>6. CompletedAttempts(now, n) = CompletedAttempts(done, n)
  <2>1. n \in 0..n
    BY <1>2
  <2> HIDE DEF n, done, now
  <2> QED
    BY <1>2, <1>4, <2>1, CountsStand
<1>7. (n + 1) - 1 = n
  BY <1>2
<1>8. /\ ToolOf(s, n + 1) = InvoiceTools[CompletedAttempts(now, n) + 1]
      /\ ToolOf(r, n + 1) = InvoiceTools[CompletedAttempts(done, n) + 1]
  BY <1>7 DEF ToolOf
<1> QED
  BY <1>2, <1>3, <1>5, <1>6, <1>7, <1>8

LEMMA BooksComplete ==
    ASSUME NEW r, NEW s, NEW tool, NEW output, Books(r),
           Cardinality(Succeeded(r)) < 6, tool = ToolOf(r, Len(r.history) + 1),
           Called(r, s, tool, "tool_call_completed"),
           Len(s.events) = Len(r.events) + 3,
           s.observations[Len(r.history) + 1].output = output,
           s.events[Len(r.events) + 3].output = output,
           s.evidence = Put(r.evidence, tool, output), s.retry = NoRetry
    PROVE  Books(s)
<1> DEFINE n    == Len(r.history)
           b    == Len(r.events)
           m    == Cardinality(Succeeded(r))
           done == Succeeded(r)
           now  == Succeeded(s)
<1>1. Numbering(r) /\ Continued(r, s)
  BY DEF Books, Called
<1>2. /\ n \in Nat /\ (n + 1) - 1 = n /\ Len(s.history) = n + 1
      /\ done \in SUBSET (1..n)
      /\ EventsOf(s, "tool_call_completed", n) # {} => now = done \cup {n + 1}
      /\ CompletedAttempts(now, n) = m
      /\ ToolOf(s, n + 1) = tool /\ tool = InvoiceTools[m + 1]
  BY <1>1, NextAttempt
<1>3. /\ EventsOf(s, "runtime_policy_check", n) = {b + 1}
      /\ EventsOf(s, "tool_call_started", n) = {b + 2}
      /\ EventsOf(s, "tool_call_completed", n) = {b + 3}
      /\ EventsOf(s, "tool_call_failed", n) = {}
      /\ EventsOf(s, "retry_scheduled", n) = {}
      /\ b \in Nat /\ b + 1 \in DOMAIN s.events
  BY <1>1, CallEvents
<1>4. now = done \cup {n + 1}
  BY <1>2, <1>3
<1>5. m \in 0..5 /\ Cardinality(now) = m + 1
  <2>1. m \in 0..6
    BY DEF Books
  <2>2. Cardinality(done \cup {n + 1}) = Cardinality(done) + 1
    BY <1>2, CountsGrow
  <2> QED
    BY <1>4, <2>1, <2>2
<1>6. /\ DOMAIN s.evidence = DOMAIN r.evidence \cup {tool}
      /\ s.evidence[tool] = output
  BY DEF Put
<1>7. DOMAIN s.evidence = Prefix(m + 1)
  <2>1. Prefix(m + 1) = Prefix(m) \cup {InvoiceTools[m + 1]}
    <3>1. 1..(m + 1) = 1..m \cup {m + 1}
      BY <1>5
    <3> HIDE DEF m
    <3> QED
      BY <3>1 DEF Prefix
  <2>2. DOMAIN r.evidence = Prefix(m)
    BY DEF Books
  <2> QED
    BY <1>2, <1>6, <2>1, <2>2
<1>8. Numbering(s)
  BY <1>1, NumberingGrows
<1>9. Answered(s, n + 1, b + 1)
  <2>1. (b + 1) + 2 = b + 3
    BY <1>3
  <2> QED
    BY <1>2, <1>3, <1>6, <2>1 DEF Answered
<1>10. Attempted(s, n + 1)
  <2>1. /\ (b + 1) + 1 = b + 2 /\ (b + 1) + 2 = b + 3
    BY <1>3
  <2>2. /\ s.events[b + 1].decision = "APPROVE"
        /\ \A k \in {b + 1, b + 2, b + 3} : s.events[k].tool = tool
        /\ s.observations[n + 1].tool = tool
    BY DEF Called
  <2> HIDE DEF n, b, m
  <2> QED
    BY <1>2, <1>3, <1>5, <1>9, <2>1, <2>2 DEF Attempted
<1>11. ASSUME NEW i \in 1..(n + 1) PROVE Attempted(s, i)
  <2>1. CASE i \in 1..n
    <3>1. Attempted(r, i)
      BY <2>1 DEF Books
    <3> QED
      BY <1>1, <2>1, <3>1, AttemptStands
  <2>2. i \in 1..n \/ i = n + 1
    BY <1>2
  <2> QED
    BY <1>10, <2>1, <2>2
<1>12. RetryRecorded(s)
  BY <1>2, <1>4 DEF RetryRecorded
<1>13. Cardinality(now) \in 0..6
  BY <1>5
<1> QED
  BY <1>2, <1>5, <1>7, <1>8, <1>11, <1>12, <1>13 DEF Books

LEMMA BooksRetry ==
    ASSUME NEW r, NEW s, NEW tool, NEW code, Books(r),
           Cardinality(Succeeded(r)) < 6, tool = ToolOf(r, Len(r.history) + 1),
           Called(r, s, tool, "tool_call_failed"),
           s.observations[Len(r.history) + 1].code = code,
           tool # "stage_payment", code \in Transient,
           LET n        == Len(r.history)
               b        == Len(r.events)
               failures == ConsecutiveFailures(Succeeded(r), n) + 1
               schedule == s.events[b + 4]
           IN  /\ Len(s.events) = b + 4 /\ schedule.type = "retry_scheduled"
               /\ s.events[b + 3].code = code
               /\ failures <= ReadRetries
               /\ schedule.tool = tool /\ schedule.retry = failures
               /\ schedule.code = code /\ schedule.max = ReadRetries
               /\ schedule.next = n + 1
               /\ s.retry = [attempts |-> failures, tool |-> tool, error |-> code,
                             failed |-> n, max |-> ReadRetries],
           s.evidence = r.evidence
    PROVE  Books(s)
<1> DEFINE n    == Len(r.history)
           b    == Len(r.events)
           m    == Cardinality(Succeeded(r))
           done == Succeeded(r)
           now  == Succeeded(s)
           failures == ConsecutiveFailures(done, n) + 1
           schedule == s.events[b + 4]
<1>1. Numbering(r) /\ Continued(r, s)
  BY DEF Books, Called
<1>2. /\ n \in Nat /\ (n + 1) - 1 = n /\ Len(s.history) = n + 1
      /\ done \in SUBSET (1..n)
      /\ EventsOf(s, "tool_call_completed", n) = {} => now = done
      /\ CompletedAttempts(now, n) = m /\ CompletedAttempts(done, n) = m
      /\ ToolOf(s, n + 1) = tool /\ tool = InvoiceTools[m + 1]
  BY <1>1, NextAttempt
<1>3. /\ EventsOf(s, "runtime_policy_check", n) = {b + 1}
      /\ EventsOf(s, "tool_call_started", n) = {b + 2}
      /\ EventsOf(s, "tool_call_completed", n) = {}
      /\ EventsOf(s, "tool_call_failed", n) = {b + 3}
      /\ EventsOf(s, "retry_scheduled", n) = {b + 4}
      /\ b \in Nat /\ b + 1 \in DOMAIN s.events
  BY <1>1, CallEvents
<1>4. now = done
  BY <1>2, <1>3
<1>5. m \in 0..5
  BY DEF Books
<1>6. /\ ConsecutiveFailures(now, n + 1) = failures
      /\ ConsecutiveFailures(done, n) \in Nat /\ failures \in 1..ReadRetries
  <2>1. /\ ConsecutiveFailures(done, n + 1) = failures
        /\ ConsecutiveFailures(done, n) \in Nat
    BY <1>2, CountsGrow
  <2>2. failures <= ReadRetries
    OBVIOUS
  <2>3. ConsecutiveFailures(now, n + 1) = failures
    BY <1>4, <2>1
  <2> HIDE DEF n, done, now
  <2>4. failures \in 1..ReadRetries
    BY <2>1, <2>2, PolicyAssumption
  <2> QED
    BY <2>1, <2>3, <2>4
<1>7. /\ s.events[b + 3].code = code
      /\ schedule.tool = tool /\ schedule.retry = failures
      /\ schedule.code = code /\ schedule.max = ReadRetries
      /\ schedule.next = n + 1
      /\ Len(s.events) = b + 4
  OBVIOUS
<1>8. Numbering(s)
  BY <1>1, NumberingGrows
<1> HIDE DEF failures, schedule
<1>9. Retried(s, n + 1, b + 1)
  <2>1. (b + 1) + 2 = b + 3 /\ (b + 1) + 3 = b + 4
    BY <1>3
  <2> QED
    BY <1>2, <1>3, <1>6, <1>7, <2>1 DEF Retried, schedule
<1>10. Attempted(s, n + 1)
  <2>1. /\ (b + 1) + 1 = b + 2 /\ (b + 1) + 2 = b + 3
    BY <1>3
  <2>2. /\ s.events[b + 1].decision = "APPROVE"
        /\ \A k \in {b + 1, b + 2, b + 3} : s.events[k].tool = tool
        /\ s.observations[n + 1].tool = tool
    BY DEF Called
  <2> HIDE DEF n, b, m
  <2> QED
    BY <1>2, <1>3, <1>5, <1>9, <2>1, <2>2 DEF Attempted
<1>11. ASSUME NEW i \in 1..(n + 1) PROVE Attempted(s, i)
  <2>1. CASE i \in 1..n
    <3>1. Attempted(r, i)
      BY <2>1 DEF Books
    <3> QED
      BY <1>1, <2>1, <3>1, AttemptStands
  <2>2. i \in 1..n \/ i = n + 1
    BY <1>2
  <2> QED
    BY <1>10, <2>1, <2>2
<1>12. RetryRecorded(s)
  <2>1. /\ s.retry.attempts = failures /\ s.retry.tool = tool /\ s.retry.error = code
        /\ s.retry.failed = n /\ s.retry.max = ReadRetries
    BY DEF failures
  <2>2. s.retry # NoRetry
    BY <1>6, <2>1 DEF NoRetry
  <2>3. ToolOf(s, (n + 1) + 1) = tool
    <3>1. CompletedAttempts(now, n + 1) = m
      <4>1. now \cap 1..(n + 1) = now \cap 1..n
        BY <1>2, <1>4
      <4> QED
        BY <1>2, <4>1 DEF CompletedAttempts
    <3>2. ((n + 1) + 1) - 1 = n + 1
      BY <1>2
    <3> QED
      BY <1>2, <3>1, <3>2 DEF ToolOf
  <2>4. n + 1 \notin now /\ n + 1 > 0
    BY <1>2, <1>4
  <2> QED
    BY <1>2, <1>3, <1>6, <1>7, <2>1, <2>2, <2>3, <2>4 DEF RetryRecorded, schedule
<1> QED
  BY <1>2, <1>4, <1>5, <1>8, <1>11, <1>12 DEF Books

----------------------------------------------------------------------------
(* What _dispatch writes of an attempt.                                    *)

LEMMA ObservingFailure ==
    ASSUME NEW r, NEW code, DOMAIN r = RunFields
    PROVE  \E o : /\ FailedCall(r, code).observations = Append(r.observations, o)
                  /\ o.action = r.decision.action /\ o.tool = r.proposed.tool
                  /\ o.code = code
<1> DEFINE o == Observation(r, code, None)
<1>1. o.action = r.decision.action /\ o.tool = r.proposed.tool /\ o.code = code
  BY DEF Observation
<1>2. FailedCall(r, code).observations = Append(r.observations, o)
  BY DEF FailedCall, Log, RunFields
<1> HIDE DEF o
<1> QED
  BY <1>1, <1>2

LEMMA ObservingOutput ==
    ASSUME NEW r, NEW output, DOMAIN r = RunFields
    PROVE  \E o : /\ CompletedCall(r, output).observations = Append(r.observations, o)
                  /\ o.action = r.decision.action /\ o.tool = r.proposed.tool
                  /\ o.output = output
<1> DEFINE o == Observation(r, None, output)
<1>1. o.action = r.decision.action /\ o.tool = r.proposed.tool /\ o.output = output
  BY DEF Observation
<1>2. CompletedCall(r, output).observations = Append(r.observations, o)
  BY DEF CompletedCall, Log, RunFields
<1> HIDE DEF o
<1> QED
  BY <1>1, <1>2

LEMMA Scheduling ==
    ASSUME NEW r, NEW tool, NEW code, DOMAIN r = RunFields
    PROVE  LET s   == ScheduleRetry(r, tool, code)
               max == StepOf(r.contract.plan, tool).max
           IN  /\ s.retry = [attempts |-> Attempts(r, tool) + 1, tool |-> tool,
                             error |-> code, failed |-> r.decision.action, max |-> max]
               /\ \E e : /\ s.events = Append(r.events, e)
                         /\ e.type = "retry_scheduled" /\ e.tool = tool
                         /\ e.action = r.decision.action /\ e.code = code
                         /\ e.retry = Attempts(r, tool) + 1 /\ e.max = max
                         /\ e.next = Len(r.history)
<1> DEFINE s     == ScheduleRetry(r, tool, code)
           max   == StepOf(r.contract.plan, tool).max
           e     == [Event("retry_scheduled", r.state, r.state) EXCEPT
                       !.tool = tool, !.action = r.decision.action, !.code = code,
                       !.retry = Attempts(r, tool) + 1, !.max = max,
                       !.next = Len(r.history)]
<1>1. s.retry = [attempts |-> Attempts(r, tool) + 1, tool |-> tool,
                 error |-> code, failed |-> r.decision.action, max |-> max]
  BY DEF ScheduleRetry, Log, RunFields
<1>2. s.events = Append(r.events, e)
  BY DEF ScheduleRetry, Log, RunFields
<1>3. /\ e.type = "retry_scheduled" /\ e.tool = tool
      /\ e.action = r.decision.action /\ e.code = code
      /\ e.retry = Attempts(r, tool) + 1 /\ e.max = max
      /\ e.next = Len(r.history)
  BY DEF Event
<1> HIDE DEF e, s
<1> QED
  BY <1>1, <1>2, <1>3 DEF s

(* A call that Gate B has let pass, when it has been started.              *)
LEMMA CallBegins ==
    ASSUME TrailInv, Running, NEW c \in CheckedRuns, c.decision.decision = "APPROVE"
    PROVE  LET n == Len(run.history)
               b == Len(run.events)
               s == Started(c)
           IN  /\ Differs(run, s, {"events", "proposed", "decision", "history"})
               /\ s.proposed = c.proposed /\ s.decision = c.decision
               /\ n \in Nat /\ b \in Nat /\ s.decision.action = n
               /\ s.history = Append(run.history, n) /\ Len(s.history) = n + 1
               /\ Recorded(s.events) /\ Len(s.events) = b + 2
               /\ \A k \in 1..b : s.events[k] = run.events[k]
               /\ s.events[b + 1].type = "runtime_policy_check"
               /\ s.events[b + 1].decision = "APPROVE"
               /\ s.events[b + 2].type = "tool_call_started"
               /\ \A k \in {b + 1, b + 2} : /\ s.events[k].tool = c.proposed.tool
                                            /\ s.events[k].action = n
<1> DEFINE n == Len(run.history)
           b == Len(run.events)
           s == Started(c)
<1>1. /\ Differs(run, s, {"events", "proposed", "decision", "history"})
      /\ s.proposed = c.proposed /\ s.decision = c.decision
      /\ Sound(s)
  BY StartedTrail
<1>2. /\ Differs(run, c, {"events", "proposed", "decision"})
      /\ c.decision.action = n
  BY CheckedRun DEF TrailInv, GInv
<1>3. DOMAIN run = RunFields /\ DOMAIN c = RunFields /\ c.history = run.history
  BY <1>2 DEF Differs, RunFields, TrailInv, GInv, IInv, TypeOK
<1>4. n \in Nat /\ run.history \in Seq(Nat)
  BY DEF TrailInv, GInv, IInv, TypeOK
<1>5. s.history = Append(run.history, n)
  BY <1>2, <1>3, StartedShape
<1>6. Len(s.history) = n + 1
  BY <1>4, <1>5
<1>7. PICK tool : \E p \in Proposals(run, tool) : c = Checked(run, p, DecideRuntime(run, p))
  BY DEF CheckedRuns, Judgements
<1>8. PICK p \in Proposals(run, tool) : c = Checked(run, p, DecideRuntime(run, p))
  BY <1>7
<1>9. c.proposed = p
  BY <1>3, <1>8, CheckedShape
<1>10. PICK e : /\ Logs(run, c, e) /\ e.type = "runtime_policy_check"
                /\ e.tool = c.proposed.tool /\ e.action = c.decision.action
                /\ e.decision = c.decision.decision
  BY <1>3, <1>8, <1>9, CheckedLog
<1>11. PICK f : /\ Logs(c, s, f) /\ f.type = "tool_call_started"
                /\ f.tool = c.proposed.tool /\ f.action = c.decision.action
  BY <1>3, StartedLog
<1>12. Recorded(run.events)
  BY DEF TrailInv, Sound, Account
<1>13. /\ c.events = Append(run.events, e) /\ s.events = Append(c.events, f)
  BY <1>10, <1>11 DEF Logs
<1> HIDE DEF n, s
<1>14. /\ Recorded(c.events) /\ b \in Nat /\ Len(c.events) = b + 1
       /\ \A k \in 1..b : c.events[k] = run.events[k]
       /\ c.events[b + 1] = e
  BY <1>12, <1>13, Appending
<1> HIDE DEF b
<1>15. /\ Recorded(s.events) /\ Len(s.events) = (b + 1) + 1
       /\ \A k \in 1..(b + 1) : s.events[k] = c.events[k]
       /\ s.events[(b + 1) + 1] = f
  BY <1>13, <1>14, Appending
<1>16. /\ (b + 1) + 1 = b + 2 /\ b + 1 \in 1..(b + 1)
       /\ \A k \in 1..b : k \in 1..(b + 1)
  BY <1>14
<1>17. /\ s.events[b + 1] = e /\ s.events[b + 2] = f
       /\ \A k \in 1..b : s.events[k] = run.events[k]
  BY <1>14, <1>15, <1>16
<1> QED
  BY <1>1, <1>2, <1>4, <1>5, <1>6, <1>10, <1>11, <1>14, <1>15, <1>16, <1>17 DEF n, s, b

(* It has failed, and is retried.                                          *)
LEMMA FailedAttempt ==
    ASSUME TrailInv, NEW c \in CheckedRuns, NEW answer \in Answers(c), Fail(c, answer),
           MayRetry(c, c.proposed.tool, answer), Numbering(run)
    PROVE  LET n        == Len(run.history)
               b        == Len(run.events)
               tool     == c.proposed.tool
               schedule == run'.events[b + 4]
           IN  /\ Called(run, run', tool, "tool_call_failed")
               /\ run'.observations[n + 1].code = answer.code
               /\ run'.evidence = run.evidence /\ run'.questions = run.questions
               /\ Len(run'.events) = b + 4 /\ schedule.type = "retry_scheduled"
               /\ run'.events[b + 3].code = answer.code
               /\ schedule.tool = tool /\ schedule.retry = Attempts(run, tool) + 1
               /\ schedule.code = answer.code /\ schedule.max = ReadRetries
               /\ schedule.next = n + 1
               /\ run'.retry = [attempts |-> Attempts(run, tool) + 1, tool |-> tool,
                                error |-> answer.code, failed |-> n, max |-> ReadRetries]
<1> DEFINE n      == Len(run.history)
           b      == Len(run.events)
           tool   == c.proposed.tool
           begun  == Started(c)
           failed == FailedCall(begun, answer.code)
<1>1. Running /\ c.decision.decision = "APPROVE"
  BY DEF Fail, Superstep, Answers
<1>2. /\ Differs(run, begun, {"events", "proposed", "decision", "history"})
      /\ begun.proposed = c.proposed
      /\ n \in Nat /\ b \in Nat /\ begun.decision.action = n
      /\ begun.history = Append(run.history, n) /\ Len(begun.history) = n + 1
      /\ Recorded(begun.events) /\ Len(begun.events) = b + 2
      /\ \A k \in 1..b : begun.events[k] = run.events[k]
      /\ begun.events[b + 1].type = "runtime_policy_check"
      /\ begun.events[b + 1].decision = "APPROVE"
      /\ begun.events[b + 2].type = "tool_call_started"
      /\ \A k \in {b + 1, b + 2} : /\ begun.events[k].tool = tool
                                   /\ begun.events[k].action = n
  BY <1>1, CallBegins
<1>3. run' = ScheduleRetry(failed, tool, answer.code)
  BY DEF Fail
<1>4. StepOf(run.contract.plan, tool).max = ReadRetries
  <2>1. run.contract.plan = BuildPlan
    BY <1>1 DEF TrailInv, GInv, IInv, RetryBudget
  <2>2. PICK k \in 0..5 : tool = InvoiceTools[k + 1]
    BY <1>1, StartedCall DEF TrailInv, GInv
  <2>3. tool \in ReadTools
    BY RetriedExactly
  <2>4. k + 1 \in 1..6 /\ k + 1 # 6
    BY <2>2, <2>3, ToolsDiffer
  <2> QED
    BY <2>1, <2>2, <2>4, PlanRule
<1> HIDE DEF begun, n, b, tool
<1>5. DOMAIN begun = RunFields
  BY <1>2 DEF Differs
<1>6. Differs(begun, failed, {"events", "observations"})
  BY <1>5, FailedCallShape
<1>7. PICK o : /\ failed.observations = Append(begun.observations, o)
               /\ o.action = begun.decision.action /\ o.tool = begun.proposed.tool
               /\ o.code = answer.code
  BY <1>5, ObservingFailure
<1>8. PICK e : /\ Logs(begun, failed, e) /\ e.type = "tool_call_failed"
               /\ e.tool = begun.proposed.tool /\ e.action = begun.decision.action
               /\ e.code = answer.code
  BY <1>5, FailedLog
<1> HIDE DEF failed
<1>9. /\ DOMAIN failed = RunFields /\ failed.contract = run.contract
      /\ failed.decision = begun.decision /\ failed.history = begun.history
      /\ failed.retry = run.retry /\ failed.evidence = run.evidence
      /\ begun.observations = run.observations
  BY <1>2, <1>6 DEF Differs, RunFields
<1>10. Attempts(failed, tool) = Attempts(run, tool)
  BY <1>9 DEF Attempts
<1>11. /\ run'.retry = [attempts |-> Attempts(run, tool) + 1, tool |-> tool,
                        error |-> answer.code, failed |-> n, max |-> ReadRetries]
       /\ \E g : /\ run'.events = Append(failed.events, g)
                 /\ g.type = "retry_scheduled" /\ g.tool = tool
                 /\ g.action = n /\ g.code = answer.code
                 /\ g.retry = Attempts(run, tool) + 1 /\ g.max = ReadRetries
                 /\ g.next = n + 1
  <2>1. LET max == StepOf(failed.contract.plan, tool).max
        IN  /\ run'.retry = [attempts |-> Attempts(failed, tool) + 1, tool |-> tool,
                             error |-> answer.code, failed |-> failed.decision.action,
                             max |-> max]
            /\ \E g : /\ run'.events = Append(failed.events, g)
                      /\ g.type = "retry_scheduled" /\ g.tool = tool
                      /\ g.action = failed.decision.action /\ g.code = answer.code
                      /\ g.retry = Attempts(failed, tool) + 1 /\ g.max = max
                      /\ g.next = Len(failed.history)
    BY <1>3, <1>9, Scheduling
  <2>2. /\ failed.decision.action = n /\ Len(failed.history) = n + 1
        /\ StepOf(failed.contract.plan, tool).max = ReadRetries
    BY <1>2, <1>4, <1>9
  <2> QED
    BY <1>10, <2>1, <2>2
<1>12. PICK g : /\ run'.events = Append(failed.events, g)
                /\ g.type = "retry_scheduled" /\ g.tool = tool
                /\ g.action = n /\ g.code = answer.code
                /\ g.retry = Attempts(run, tool) + 1 /\ g.max = ReadRetries
                /\ g.next = n + 1
  BY <1>11
<1>13. /\ run'.history = begun.history /\ run'.observations = failed.observations
       /\ run'.evidence = run.evidence /\ run'.questions = run.questions
  <2>1. Differs(failed, run', {"events", "retry"})
    BY <1>3, <1>9, ScheduleRetryShape
  <2> QED
    BY <1>2, <1>6, <1>9, <2>1 DEF Differs, RunFields
<1>14. failed.events = Append(begun.events, e)
  BY <1>8 DEF Logs
<1>15. /\ Recorded(failed.events) /\ Len(failed.events) = (b + 2) + 1
       /\ \A k \in 1..(b + 2) : failed.events[k] = begun.events[k]
       /\ failed.events[(b + 2) + 1] = e
  BY <1>2, <1>14, Appending
<1>16. /\ Recorded(run'.events) /\ Len(run'.events) = ((b + 2) + 1) + 1
       /\ \A k \in 1..((b + 2) + 1) : run'.events[k] = failed.events[k]
       /\ run'.events[((b + 2) + 1) + 1] = g
  BY <1>12, <1>15, Appending
<1>17. /\ (b + 2) + 1 = b + 3 /\ ((b + 2) + 1) + 1 = b + 4
       /\ b + 1 \in 1..(b + 2) /\ b + 2 \in 1..(b + 2) /\ b + 3 \in 1..(b + 3)
       /\ b + 1 \in 1..(b + 3) /\ b + 2 \in 1..(b + 3)
       /\ \A k \in 1..b : k \in 1..(b + 2) /\ k \in 1..(b + 3)
       /\ b + 4 > b /\ b + 4 \in Nat
       /\ \A k \in (b + 1)..(b + 4) : k \in {b + 1, b + 2, b + 3, b + 4}
  <2>1. b \in Nat
    BY <1>2
  <2> QED
    BY <2>1
<1>18. /\ run'.events[b + 1] = begun.events[b + 1]
       /\ run'.events[b + 2] = begun.events[b + 2]
       /\ run'.events[b + 3] = e /\ run'.events[b + 4] = g
       /\ Len(run'.events) = b + 4
       /\ \A k \in 1..b : run'.events[k] = run.events[k]
  BY <1>2, <1>15, <1>16, <1>17
<1>19. /\ run'.observations = Append(run.observations, o)
       /\ o.action = n /\ o.tool = tool
  BY <1>2, <1>7, <1>9, <1>13 DEF tool
<1>20. run'.observations[n + 1] = o
  <2>1. Recorded(run.observations) /\ Len(run.observations) = n
    BY DEF Numbering, n
  <2> QED
    BY <1>19, <2>1, Appending
<1>21. \A k \in (b + 1)..(b + 4) : run'.events[k].action = n
  <2>1. e.action = n
    BY <1>2, <1>8
  <2> QED
    BY <1>2, <1>12, <1>17, <1>18, <2>1
<1>22. Continued(run, run')
  BY <1>2, <1>13, <1>16, <1>17, <1>18, <1>19, <1>21 DEF Continued, n, b
<1>23. e.tool = tool
  BY <1>2, <1>8 DEF tool
<1>24. Called(run, run', tool, "tool_call_failed")
  BY <1>2, <1>8, <1>18, <1>19, <1>20, <1>22, <1>23 DEF Called, n, b
<1> QED
  BY <1>7, <1>8, <1>11, <1>12, <1>13, <1>18, <1>20, <1>24 DEF n, b, tool

(* It has completed, and the run goes on.                                  *)
LEMMA CompletedAttempt ==
    ASSUME TrailInv, NEW c \in CheckedRuns, NEW answer \in Answers(c), Succeed(c, answer),
           Running', Numbering(run)
    PROVE  LET n    == Len(run.history)
               b    == Len(run.events)
               tool == c.proposed.tool
           IN  /\ Called(run, run', tool, "tool_call_completed")
               /\ Len(run'.events) = b + 3
               /\ run'.observations[n + 1].output = answer.output
               /\ run'.events[b + 3].output = answer.output
               /\ run'.evidence = Put(run.evidence, tool, answer.output)
               /\ run'.retry = NoRetry /\ tool \notin DOMAIN run.evidence
               /\ run'.questions = run.questions
<1> DEFINE n     == Len(run.history)
           b     == Len(run.events)
           tool  == c.proposed.tool
           begun == Started(c)
           ended == CompletedCall(begun, answer.output)
<1>1. Running /\ c.decision.decision = "APPROVE"
  BY DEF Succeed, Superstep, Answers
<1>2. /\ Differs(run, begun, {"events", "proposed", "decision", "history"})
      /\ begun.proposed = c.proposed
      /\ n \in Nat /\ b \in Nat /\ begun.decision.action = n
      /\ begun.history = Append(run.history, n) /\ Len(begun.history) = n + 1
      /\ Recorded(begun.events) /\ Len(begun.events) = b + 2
      /\ \A k \in 1..b : begun.events[k] = run.events[k]
      /\ begun.events[b + 1].type = "runtime_policy_check"
      /\ begun.events[b + 1].decision = "APPROVE"
      /\ begun.events[b + 2].type = "tool_call_started"
      /\ \A k \in {b + 1, b + 2} : /\ begun.events[k].tool = tool
                                   /\ begun.events[k].action = n
  BY <1>1, CallBegins
<1>3. run' = Settled(ended, tool, answer.output)
  BY DEF Succeed
<1>4. tool \notin DOMAIN run.evidence
  BY <1>1, StartedTrail
<1> HIDE DEF begun, n, b, tool
<1>5. DOMAIN begun = RunFields
  BY <1>2 DEF Differs
<1>6. /\ Differs(begun, ended, {"events", "evidence", "observations", "retry"})
      /\ ended.evidence = Put(begun.evidence, begun.proposed.tool, answer.output)
      /\ ended.retry = NoRetry
  BY <1>5, CompletedCallShape
<1>7. PICK o : /\ ended.observations = Append(begun.observations, o)
               /\ o.action = begun.decision.action /\ o.tool = begun.proposed.tool
               /\ o.output = answer.output
  BY <1>5, ObservingOutput
<1>8. PICK e : /\ Logs(begun, ended, e) /\ e.type = "tool_call_completed"
               /\ e.tool = begun.proposed.tool /\ e.action = begun.decision.action
               /\ e.output = answer.output
  BY <1>5, CompletedLog
<1> HIDE DEF ended
<1>9. DOMAIN ended = RunFields
  BY <1>6 DEF Differs
<1>10. run' = ended
  <2>1. run' = ended \/ run'.state = "FAILED"
    BY <1>3, <1>9, SettledShape
  <2>2. run'.state = "RUNNING"
    BY DEF Running
  <2> QED
    BY <2>1, <2>2
<1>11. /\ run'.history = begun.history /\ begun.evidence = run.evidence
       /\ begun.observations = run.observations
       /\ run'.questions = run.questions
  BY <1>2, <1>6, <1>10 DEF Differs, RunFields
<1>12. run'.events = Append(begun.events, e)
  BY <1>8, <1>10 DEF Logs
<1>13. /\ Recorded(run'.events) /\ Len(run'.events) = (b + 2) + 1
       /\ \A k \in 1..(b + 2) : run'.events[k] = begun.events[k]
       /\ run'.events[(b + 2) + 1] = e
  BY <1>2, <1>12, Appending
<1>14. /\ (b + 2) + 1 = b + 3
       /\ b + 1 \in 1..(b + 2) /\ b + 2 \in 1..(b + 2)
       /\ \A k \in 1..b : k \in 1..(b + 2)
       /\ b + 3 > b /\ b + 3 \in Nat
       /\ \A k \in (b + 1)..(b + 3) : k \in {b + 1, b + 2, b + 3}
  <2>1. b \in Nat
    BY <1>2
  <2> QED
    BY <2>1
<1>15. /\ run'.events[b + 1] = begun.events[b + 1]
       /\ run'.events[b + 2] = begun.events[b + 2]
       /\ run'.events[b + 3] = e /\ Len(run'.events) = b + 3
       /\ \A k \in 1..b : run'.events[k] = run.events[k]
  BY <1>2, <1>13, <1>14
<1>16. /\ run'.observations = Append(run.observations, o)
       /\ o.action = n /\ o.tool = tool
  BY <1>2, <1>7, <1>10, <1>11 DEF tool
<1>17. run'.observations[n + 1] = o
  <2>1. Recorded(run.observations) /\ Len(run.observations) = n
    BY DEF Numbering, n
  <2> QED
    BY <1>16, <2>1, Appending
<1>18. /\ e.action = n /\ e.tool = tool
       /\ \A k \in (b + 1)..(b + 3) : run'.events[k].action = n
  <2>1. e.action = n /\ e.tool = tool
    BY <1>2, <1>8 DEF tool
  <2> QED
    BY <1>2, <1>14, <1>15, <2>1
<1>19. run'.evidence = Put(run.evidence, tool, answer.output)
  BY <1>2, <1>6, <1>10, <1>11 DEF tool
<1>20. \A t \in DOMAIN run.evidence :
          t \in DOMAIN run'.evidence /\ run'.evidence[t] = run.evidence[t]
  BY <1>4, <1>19 DEF Put
<1>21. Continued(run, run')
  BY <1>2, <1>11, <1>13, <1>14, <1>15, <1>16, <1>18, <1>20 DEF Continued, n, b
<1>22. Called(run, run', tool, "tool_call_completed")
  BY <1>2, <1>8, <1>15, <1>16, <1>17, <1>18, <1>21 DEF Called, n, b
<1> QED
  BY <1>4, <1>6, <1>7, <1>8, <1>10, <1>11, <1>15, <1>17, <1>19, <1>22 DEF n, b, tool

----------------------------------------------------------------------------
(* The next attempt of a running run.                                      *)

(* There is one tool to propose: the first that has not answered.          *)
LEMMA NextReady ==
    ASSUME RetryBudget, Running, Books(run), Ready(run) # {}
    PROVE  LET m == Cardinality(Succeeded(run))
           IN  /\ m \in 0..5
               /\ run.contract.plan[Earliest(Ready(run))].step = InvoiceTools[m + 1]
               /\ InvoiceTools[m + 1] = ToolOf(run, Len(run.history) + 1)
               /\ Required(InvoiceTools[m + 1]) = DOMAIN run.evidence
<1> DEFINE m == Cardinality(Succeeded(run))
           n == Len(run.history)
<1>1. m \in 0..6 /\ DOMAIN run.evidence = Prefix(m)
  BY DEF Books
<1>2. run.contract.plan = BuildPlan /\ DOMAIN BuildPlan = 1..6
  BY DEF RetryBudget, BuildPlan
<1>3. \A j \in 1..6 : BuildPlan[j].step = InvoiceTools[j]
  BY DEF BuildPlan, PlanStep
<1>4. \A j \in 1..6 : j > 1 => InvoiceTools[j - 1] \in BuildPlan[j].depends
  BY DEF BuildPlan, PlanStep
<1>5. ToolOf(run, n + 1) = InvoiceTools[m + 1]
  <2>1. /\ run.history \in Seq(Nat) /\ \A i \in 1..n : run.history[i] = i - 1
    BY DEF Books, Numbering
  <2>2. n \in Nat /\ Succeeded(run) \in SUBSET (1..n)
    BY <2>1 DEF Succeeded
  <2>3. CompletedAttempts(Succeeded(run), n) = m
    BY <2>2, CountsGrow
  <2>4. (n + 1) - 1 = n
    BY <2>2
  <2> QED
    BY <2>3, <2>4 DEF ToolOf
<1> HIDE DEF m, n
<1>6. \A j \in 1..6 : InvoiceTools[j] \in Prefix(m) <=> j <= m
  BY <1>1, ToolsDiffer DEF Prefix
<1>7. \A k \in Ready(run) : k \in 1..6 /\ k = m + 1
  <2> SUFFICES ASSUME NEW k \in Ready(run)
               PROVE  k \in 1..6 /\ k = m + 1
    OBVIOUS
  <2>1. /\ k \in 1..6 /\ InvoiceTools[k] \notin Prefix(m)
        /\ BuildPlan[k].depends \subseteq Prefix(m)
    BY <1>1, <1>2, <1>3 DEF Ready
  <2>2. k > m
    BY <1>1, <1>6, <2>1
  <2>3. k > 1 => k - 1 <= m
    <3>1. k > 1 => k - 1 \in 1..6
      BY <2>1
    <3> QED
      BY <1>4, <1>6, <2>1, <3>1
  <2> QED
    BY <1>1, <2>1, <2>2, <2>3
<1>8. Ready(run) = {m + 1} /\ m + 1 \in 1..6
  BY <1>7
<1>9. Earliest({m + 1}) = m + 1
  BY <1>1 DEF Earliest
<1>10. m \in 0..5
  BY <1>1, <1>8
<1>11. Required(InvoiceTools[m + 1]) = Prefix(m)
  <2>1. ToolIndex(InvoiceTools[m + 1]) = m + 1
    BY <1>8, ToolsDiffer DEF ToolIndex
  <2>2. (m + 1) - 1 = m
    BY <1>1
  <2> QED
    BY <2>1, <2>2 DEF Required, Prefix
<1> QED
  BY <1>1, <1>2, <1>3, <1>5, <1>8, <1>9, <1>10, <1>11 DEF m, n

----------------------------------------------------------------------------
(* The audit finds nothing in the books.                                   *)

LEMMA OnlyOne == \A x : Only({x}) = x /\ Cardinality({x}) = 1
<1>1. \A x : Only({x}) = x
  BY DEF Only
<1>2. \A x : Cardinality({x}) = 1
  BY FS_Singleton
<1> QED
  BY <1>1, <1>2

LEMMA PrefixSize ==
    ASSUME NEW m \in 0..6
    PROVE  Cardinality(Prefix(m)) = m
<1>1. Prefix(0) = {} /\ IsFiniteSet(Prefix(0)) /\ Cardinality(Prefix(0)) = 0
  <2>1. Prefix(0) = {}
    BY DEF Prefix
  <2> QED
    BY <2>1, FS_EmptySet
<1>2. ASSUME NEW k \in 0..5, IsFiniteSet(Prefix(k)), Cardinality(Prefix(k)) = k
      PROVE  IsFiniteSet(Prefix(k + 1)) /\ Cardinality(Prefix(k + 1)) = k + 1
  <2>1. Prefix(k + 1) = Prefix(k) \cup {InvoiceTools[k + 1]}
    <3>1. 1..(k + 1) = 1..k \cup {k + 1}
      OBVIOUS
    <3> QED
      BY <3>1 DEF Prefix
  <2>2. InvoiceTools[k + 1] \notin Prefix(k)
    BY PrefixesGrow
  <2> QED
    BY <1>2, <2>1, <2>2, FS_AddElement
<1>3. IsFiniteSet(Prefix(1)) /\ Cardinality(Prefix(1)) = 1
  <2>1. 0 \in 0..5 /\ 0 + 1 = 1
    OBVIOUS
  <2> QED
    BY <1>1, <1>2, <2>1
<1>4. IsFiniteSet(Prefix(2)) /\ Cardinality(Prefix(2)) = 2
  <2>1. 1 \in 0..5 /\ 1 + 1 = 2
    OBVIOUS
  <2> QED
    BY <1>2, <1>3, <2>1
<1>5. IsFiniteSet(Prefix(3)) /\ Cardinality(Prefix(3)) = 3
  <2>1. 2 \in 0..5 /\ 2 + 1 = 3
    OBVIOUS
  <2> QED
    BY <1>2, <1>4, <2>1
<1>6. IsFiniteSet(Prefix(4)) /\ Cardinality(Prefix(4)) = 4
  <2>1. 3 \in 0..5 /\ 3 + 1 = 4
    OBVIOUS
  <2> QED
    BY <1>2, <1>5, <2>1
<1>7. IsFiniteSet(Prefix(5)) /\ Cardinality(Prefix(5)) = 5
  <2>1. 4 \in 0..5 /\ 4 + 1 = 5
    OBVIOUS
  <2> QED
    BY <1>2, <1>6, <2>1
<1>8. Cardinality(Prefix(6)) = 6
  <2>1. 5 \in 0..5 /\ 5 + 1 = 6
    OBVIOUS
  <2> QED
    BY <1>2, <1>7, <2>1
<1> QED
  BY <1>1, <1>3, <1>4, <1>5, <1>6, <1>7, <1>8

(* The rule of every step but the last.                                    *)
LEMMA ReadRule ==
    ASSUME NEW k \in 1..6, InvoiceTools[k] # "stage_payment"
    PROVE  /\ StepOf(BuildPlan, InvoiceTools[k]).max = ReadRetries
           /\ StepOf(BuildPlan, InvoiceTools[k]).conditions = Transient
<1>1. k # 6
  BY ToolsDiffer
<1> QED
  BY <1>1, PlanRule, PlanConditions

(* How the books name an attempt.                                          *)
LEMMA AttemptNamed ==
    ASSUME NEW r, Numbering(r), NEW i \in 1..Len(r.history)
    PROVE  /\ Len(r.history) \in Nat /\ DOMAIN r.history = 1..Len(r.history)
           /\ r.history[i] = i - 1 /\ Observed(r, i - 1) = {i}
           /\ i \in Succeeded(r) <=> EventsOf(r, "tool_call_completed", i - 1) # {}
<1> DEFINE n == Len(r.history)
<1>1. /\ r.history \in Seq(Nat) /\ \A j \in 1..n : r.history[j] = j - 1
      /\ \A j \in 1..n : r.observations[j].action = j - 1
      /\ Len(r.observations) = n /\ Recorded(r.observations)
  BY DEF Numbering
<1>2. n \in Nat /\ DOMAIN r.history = 1..n
  BY <1>1
<1>3. DOMAIN r.observations = 1..n
  BY <1>1 DEF Recorded
<1> HIDE DEF n
<1>4. \A j \in 1..n : j - 1 = i - 1 <=> j = i
  BY <1>2 DEF n
<1>5. i \in 1..n
  BY DEF n
<1>6. Observed(r, i - 1) = {i}
  BY <1>1, <1>3, <1>4, <1>5 DEF Observed
<1>7. i \in Succeeded(r) <=> EventsOf(r, "tool_call_completed", i - 1) # {}
  BY <1>1, <1>2, <1>5 DEF Succeeded, Completed
<1> QED
  BY <1>1, <1>2, <1>5, <1>6, <1>7 DEF n

LEMMA AttemptAccepted ==
    ASSUME NEW r, Books(r), r.contract.plan = BuildPlan, NEW i \in 1..Len(r.history)
    PROVE  AttemptProblem(r, Succeeded(r), i) = None
<1> DEFINE done   == Succeeded(r)
           a      == i - 1
           tool   == ToolOf(r, i)
           checks == EventsOf(r, "runtime_policy_check", a)
           starts == EventsOf(r, "tool_call_started", a)
           ends   == EventsOf(r, "tool_call_completed", a) \cup Failures(r, a)
           prior  == CompletedAttempts(done, i - 1)
<1>1. Numbering(r) /\ Attempted(r, i)
  BY DEF Books
<1>2. /\ r.history[i] = a /\ Observed(r, a) = {i}
      /\ i \in done <=> EventsOf(r, "tool_call_completed", a) # {}
  BY <1>1, AttemptNamed
<1>3. PICK k \in DOMAIN r.events :
              /\ checks = {k} /\ starts = {k + 1}
              /\ r.events[k].decision = "APPROVE"
              /\ \A j \in {k, k + 1, k + 2} : r.events[j].tool = tool
              /\ Answered(r, i, k) \/ Retried(r, i, k)
  BY <1>1 DEF Attempted
<1>4. prior \in 0..5 /\ r.observations[i].tool = tool /\ tool = InvoiceTools[prior + 1]
  BY <1>1 DEF Attempted, ToolOf
<1>5. ends = {k + 2}
  BY <1>3 DEF Answered, Retried, Failures
<1>6. k \in Nat
  <2>1. r.events \in Seq({r.events[j] : j \in DOMAIN r.events})
    BY <1>1 DEF Numbering, Recorded
  <2> QED
    BY <2>1
<1>7. Only(checks) < Only(starts) /\ Only(starts) < Only(ends)
  <2>1. Only(checks) = k /\ Only(starts) = k + 1 /\ Only(ends) = k + 2
    BY <1>3, <1>5, OnlyOne
  <2>2. k < k + 1 /\ k + 1 < k + 2
    BY <1>6
  <2> QED
    BY <2>1, <2>2
<1>8. ~\E S \in {checks, starts, ends, Observed(r, a)} : Cardinality(S) # 1
  BY <1>2, <1>3, <1>5, OnlyOne
<1>9. Len(InvoiceTools) = 6 /\ ~(prior >= Len(InvoiceTools))
  BY <1>4, ToolsDiffer
<1>10. /\ r.events[Only(checks)].decision = "APPROVE"
       /\ \A j \in checks \cup starts \cup ends : r.events[j].tool = tool
       /\ r.observations[Only(Observed(r, a))].tool = tool
  BY <1>2, <1>3, <1>4, <1>5, OnlyOne
<1>11. i \in done => CompletionAgrees(r, tool, a)
  <2> SUFFICES ASSUME i \in done
               PROVE  CompletionAgrees(r, tool, a)
    OBVIOUS
  <2>1. Answered(r, i, k)
    BY <1>2, <1>3 DEF Retried
  <2> QED
    BY <1>2, <2>1, OnlyOne DEF Answered, CompletionAgrees, Schedules
<1>12. i \notin done => RetryAgrees(r, done, tool, i)
  <2> SUFFICES ASSUME i \notin done
               PROVE  RetryAgrees(r, done, tool, i)
    OBVIOUS
  <2>1. Retried(r, i, k)
    BY <1>2, <1>3 DEF Answered
  <2>2. /\ StepOf(BuildPlan, tool).max = ReadRetries
        /\ StepOf(BuildPlan, tool).conditions = Transient
    <3>1. prior + 1 \in 1..6 /\ InvoiceTools[prior + 1] # "stage_payment"
      BY <1>4, <2>1 DEF Retried
    <3> QED
      BY <1>4, <3>1, ReadRule
  <2>3. /\ Failures(r, a) = {k + 2} /\ Schedules(r, a) = {k + 3}
        /\ r.observations[i].code \in Transient
        /\ r.events[k + 2].code = r.observations[i].code
        /\ ConsecutiveFailures(done, i) \in 1..ReadRetries
        /\ r.events[k + 3].tool = tool
        /\ r.events[k + 3].retry = ConsecutiveFailures(done, i)
        /\ r.events[k + 3].code = r.observations[i].code
        /\ r.events[k + 3].max = ReadRetries
        /\ r.events[k + 3].next = i
    BY <2>1 DEF Retried, Failures, Schedules
  <2>4. k + 2 < k + 3 /\ ConsecutiveFailures(done, i) <= ReadRetries
    BY <1>6, <2>3, PolicyAssumption
  <2> HIDE DEF done, a, tool
  <2> QED
    BY <1>2, <2>2, <2>3, <2>4, OnlyOne DEF RetryAgrees
<1> HIDE DEF done, a, tool, checks, starts, ends, prior
<1>13. AttemptProblem(r, done, i) = None
  BY <1>2, <1>4, <1>7, <1>8, <1>9, <1>10, <1>11, <1>12
     DEF AttemptProblem, a, checks, starts, ends, prior
<1> QED
  BY <1>13 DEF done

(* _evidence_problem.                                                      *)
LEMMA EvidenceAccepted ==
    ASSUME NEW r, Books(r), r.contract.plan = BuildPlan
    PROVE  EvidenceProblem(r, DOMAIN r.evidence) = None
<1> DEFINE n    == Len(r.history)
           done == Succeeded(r)
           m    == Cardinality(done)
<1>1. Numbering(r) /\ m \in 0..6 /\ DOMAIN r.evidence = Prefix(m)
  BY DEF Books
<1>2. /\ DOMAIN r.history = 1..n /\ n \in Nat
      /\ \A i \in 1..n : r.history[i] = i - 1
  <2>1. r.history \in Seq(Nat) /\ \A i \in 1..n : r.history[i] = i - 1
    BY <1>1 DEF Numbering
  <2> QED
    BY <2>1
<1>3. \A i \in DOMAIN r.history : AttemptProblem(r, done, i) = None
  BY <1>2, AttemptAccepted
<1>4. Orphans(r) = {}
  <2> SUFFICES ASSUME NEW k \in Orphans(r)
               PROVE  FALSE
    OBVIOUS
  <2>1. /\ k \in DOMAIN r.events /\ r.events[k].type \in Audited
        /\ \A i \in DOMAIN r.history : r.history[i] # r.events[k].action
    BY DEF Orphans, Audited
  <2>2. r.events[k].action \in 0..(n - 1)
    BY <1>1, <2>1 DEF Numbering, Typed
  <2> DEFINE i == r.events[k].action + 1
  <2>3. i \in 1..n /\ i - 1 = r.events[k].action
    BY <1>2, <2>2
  <2> HIDE DEF i
  <2> QED
    BY <1>2, <2>1, <2>3
<1>5. Cardinality(DOMAIN r.evidence) = m
  BY <1>1, PrefixSize
<1> HIDE DEF done
<1> QED
  BY <1>2, <1>3, <1>4, <1>5 DEF EvidenceProblem, done

(* What a failed attempt wrote, and a completed one.                       *)
LEMMA AttemptEnds ==
    ASSUME NEW r, Books(r), NEW i \in 1..Len(r.history)
    PROVE  /\ i \in Succeeded(r) => Failures(r, i - 1) = {}
           /\ i \notin Succeeded(r) =>
                 \E k : /\ k \in Nat
                        /\ Retried(r, i, k) /\ Failures(r, i - 1) = {k + 2}
                        /\ r.events[k + 2].tool = ToolOf(r, i)
<1>1. Numbering(r) /\ Attempted(r, i)
  BY DEF Books
<1>2. i \in Succeeded(r) <=> EventsOf(r, "tool_call_completed", i - 1) # {}
  BY <1>1, AttemptNamed
<1>3. PICK k \in DOMAIN r.events :
              /\ \A j \in {k, k + 1, k + 2} : r.events[j].tool = ToolOf(r, i)
              /\ Answered(r, i, k) \/ Retried(r, i, k)
  BY <1>1 DEF Attempted
<1>4. k \in Nat
  <2>1. r.events \in Seq({r.events[j] : j \in DOMAIN r.events})
    BY <1>1 DEF Numbering, Recorded
  <2> QED
    BY <2>1
<1>5. CASE i \in Succeeded(r)
  BY <1>2, <1>3, <1>5 DEF Answered, Retried, Failures
<1>6. CASE i \notin Succeeded(r)
  <2>1. Retried(r, i, k)
    BY <1>2, <1>3, <1>6 DEF Answered
  <2>2. Failures(r, i - 1) = {k + 2}
    BY <2>1 DEF Retried, Failures
  <2> QED
    BY <1>3, <1>4, <1>6, <2>1, <2>2
<1> QED
  BY <1>5, <1>6

(* Without a completion in between, the tool at work is the same.          *)
LEMMA SameTool ==
    ASSUME NEW r, Books(r), NEW j \in 1..Len(r.history),
           j..Len(r.history) \cap Succeeded(r) = {}
    PROVE  \A k \in j..Len(r.history) : ToolOf(r, k) = ToolOf(r, Len(r.history) + 1)
<1> DEFINE n    == Len(r.history)
           done == Succeeded(r)
<1>1. r.history \in Seq(Nat) /\ \A i \in 1..n : r.history[i] = i - 1
  BY DEF Books, Numbering
<1>2. n \in Nat /\ done \in SUBSET (1..n) /\ (n + 1) - 1 = n
  BY <1>1 DEF Succeeded
<1> HIDE DEF n, done
<1>3. ASSUME NEW k \in j..n PROVE done \cap 1..(k - 1) = done \cap 1..n
  <2>1. j \in Nat /\ k \in Nat /\ k >= j /\ k <= n
    BY <1>2, <1>3 DEF n
  <2>2. \A i \in done : i \in 1..n /\ i \notin j..n
    BY <1>2 DEF n, done
  <2>3. \A i \in 1..n : i \notin j..n => i < j
    BY <2>1
  <2>4. \A i \in done : i \in 1..(k - 1)
    BY <2>1, <2>2, <2>3
  <2> QED
    BY <2>2, <2>4
<1>4. \A k \in j..n : CompletedAttempts(done, k - 1) = CompletedAttempts(done, n)
  BY <1>3 DEF CompletedAttempts
<1> QED
  BY <1>2, <1>4 DEF ToolOf, n, done

(* _retry_problem.                                                         *)
LEMMA RetryAccepted ==
    ASSUME NEW r, Books(r), r.contract.plan = BuildPlan,
           Cardinality(Succeeded(r)) \in 0..5
    PROVE  RetryProblem(r, ToolOf(r, Len(r.history) + 1)) = None
<1> DEFINE n     == Len(r.history)
           done  == Succeeded(r)
           tool  == ToolOf(r, n + 1)
           last  == r.history[n]
           named(k) == \E e \in Failures(r, r.history[k]) : r.events[e].tool = tool
<1>1. Numbering(r) /\ RetryRecorded(r)
  BY DEF Books
<1>2. /\ n \in Nat /\ DOMAIN r.history = 1..n
      /\ \A i \in 1..n : r.history[i] = i - 1
      /\ Recorded(r.events)
  <2>1. /\ r.history \in Seq(Nat) /\ \A i \in 1..n : r.history[i] = i - 1
        /\ Recorded(r.events)
    BY <1>1 DEF Numbering
  <2> QED
    BY <2>1
<1>3. CASE r.retry = NoRetry
  <2>1. n = 0 \/ n \in done
    BY <1>1, <1>3 DEF RetryRecorded
  <2>2. n > 0 => Failures(r, last) = {}
    <3> SUFFICES ASSUME n > 0
                 PROVE  Failures(r, last) = {}
      OBVIOUS
    <3>1. n \in 1..n /\ n \in done
      BY <1>2, <2>1
    <3>2. Failures(r, n - 1) = {}
      BY <3>1, AttemptEnds
    <3> QED
      BY <1>2, <3>1, <3>2
  <2> QED
    BY <1>3, <2>2 DEF RetryProblem
<1>4. CASE r.retry # NoRetry
  <2>1. /\ n > 0 /\ n \notin done
        /\ r.retry.tool = tool
        /\ r.retry.attempts = ConsecutiveFailures(done, n)
        /\ r.retry.error \in Transient /\ r.retry.max = ReadRetries
        /\ r.retry.failed = n - 1
        /\ EventsOf(r, "retry_scheduled", n - 1) = {Len(r.events)}
        /\ r.retry.error = r.events[Len(r.events)].code
    BY <1>1, <1>4 DEF RetryRecorded
  <2>2. n \in 1..n /\ last = n - 1
    BY <1>2, <2>1
  <2>3. PICK k \in Nat : /\ Retried(r, n, k) /\ Failures(r, n - 1) = {k + 2}
    BY <2>1, <2>2, AttemptEnds
  <2>4. /\ EventsOf(r, "retry_scheduled", n - 1) = {k + 3}
        /\ ToolOf(r, n) # "stage_payment"
        /\ ConsecutiveFailures(done, n) \in 1..ReadRetries
        /\ r.events[k + 3].retry = ConsecutiveFailures(done, n)
        /\ r.events[k + 3].next = n
    BY <2>3 DEF Retried
  <2>5. k + 3 = Len(r.events)
    BY <2>1, <2>4
  <2>6. tool # "stage_payment"
    <3>1. n..n = {n}
      BY <1>2
    <3>2. n \in n..n /\ n..n \cap done = {}
      BY <2>1, <3>1
    <3> QED
      BY <2>2, <2>4, <3>2, SameTool
  <2>7. /\ StepOf(BuildPlan, tool).max = ReadRetries
        /\ StepOf(BuildPlan, tool).conditions = Transient
    <3>1. /\ done \in SUBSET (1..n) /\ (n + 1) - 1 = n
      BY <1>2 DEF Succeeded
    <3>2. CompletedAttempts(done, n) = Cardinality(done)
      BY <1>2, <3>1, CountsGrow
    <3>3. tool = InvoiceTools[Cardinality(done) + 1] /\ Cardinality(done) + 1 \in 1..6
      BY <3>1, <3>2 DEF ToolOf
    <3> QED
      BY <2>6, <3>3, ReadRule
  <2>8. \A i \in 1..n : named(i) => i \notin done
    <3> SUFFICES ASSUME NEW i \in 1..n, named(i)
                 PROVE  i \notin done
      OBVIOUS
    <3>1. Failures(r, i - 1) # {}
      BY <1>2
    <3> QED
      BY <3>1, AttemptEnds
  <2>9. ASSUME NEW j \in 1..n
        PROVE  (\A i \in j..n : named(i)) <=> j..n \cap done = {}
    <3>1. \A i \in j..n : i \in 1..n
      BY <1>2
    <3>2. ASSUME j..n \cap done = {}, NEW i \in j..n
          PROVE  named(i)
      <4>1. ToolOf(r, i) = tool
        BY <3>2, SameTool
      <4>2. i \in 1..n /\ i \notin done
        BY <3>1, <3>2
      <4>3. \E e \in Failures(r, i - 1) : r.events[e].tool = ToolOf(r, i)
        BY <4>2, AttemptEnds
      <4>4. r.history[i] = i - 1
        BY <1>2, <4>2
      <4> QED
        BY <4>1, <4>3, <4>4
    <3> HIDE DEF named
    <3> QED
      BY <2>8, <3>1, <3>2
  <2>10. {j \in 1..n : \A i \in j..n : named(i)} = {j \in 1..n : j..n \cap done = {}}
    BY <2>9
  <2>11. Cardinality({j \in 1..n : \A i \in j..n : named(i)}) = r.retry.attempts
    BY <2>1, <2>10 DEF ConsecutiveFailures
  <2>12. r.retry.attempts >= 1 /\ r.retry.attempts <= ReadRetries
    BY <2>1, <2>4, PolicyAssumption
  <2>13. Cardinality(Failures(r, last)) = 1 /\ Schedules(r, last) = {Len(r.events)}
    BY <2>1, <2>2, <2>3, OnlyOne DEF Schedules
  <2>14. /\ r.events[Len(r.events)].retry = r.retry.attempts
         /\ r.events[Len(r.events)].next = n
    BY <2>1, <2>4, <2>5
  <2> HIDE DEF tool, last, n
  <2> QED
    BY <1>4, <2>1, <2>2, <2>7, <2>11, <2>12, <2>13, <2>14 DEF RetryProblem, tool, last, n
<1> QED
  BY <1>3, <1>4

----------------------------------------------------------------------------
(* Gate B's judgement of the controller's own proposal.                    *)

(* What Gate A admits.                                                     *)
LEMMA Admitted ==
    ASSUME NEW i, Decide(i).decision \in {"APPROVE", "ESCALATE"}
    PROVE  /\ i.goal \in FrozenActions /\ i.role \in AuthorizedRoles
           /\ i.assumptions \cap UnsafeAssumptions = {}
<1> DEFINE findings == ValidateIntent(i)
           rejects  == RejectReasons(i, findings)
           asks     == Askable(findings)
<1>1. rejects = {} /\ asks = {}
  BY DEF Decide, GateADecision
<1> HIDE DEF findings
<1>2. \A f \in findings : f.code # "POLICY_CONFLICT" /\ f.code # "UNSAFE_ASSUMPTION"
  BY <1>1 DEF RejectReasons
<1>3. \A f \in findings : f.code # "REQUIRED_FIELD_MISSING"
  <2>1. 1 \in DOMAIN ClarifyOrder /\ ClarifyOrder[1] = "REQUIRED_FIELD_MISSING"
    BY DEF ClarifyOrder
  <2> QED
    BY <1>1, <2>1 DEF Askable
<1>4. /\ MissingFields(i) \subseteq findings
      /\ UnsafeAssumptionsMade(i) \subseteq findings
      /\ PolicyConflicts(i) \subseteq findings
  BY DEF findings, ValidateIntent
<1>5. MissingFields(i) = {} /\ UnsafeAssumptionsMade(i) = {} /\ PolicyConflicts(i) = {}
  <2>1. \A f \in MissingFields(i) : f.code = "REQUIRED_FIELD_MISSING"
    BY DEF MissingFields, Finding
  <2>2. \A f \in UnsafeAssumptionsMade(i) : f.code = "UNSAFE_ASSUMPTION"
    BY DEF UnsafeAssumptionsMade, Finding
  <2>3. \A f \in PolicyConflicts(i) : f.code = "POLICY_CONFLICT"
    BY DEF PolicyConflicts
  <2> QED
    BY <1>2, <1>3, <1>4, <2>1, <2>2, <2>3
<1>6. i.goal # "unresolved" /\ i.role # "unresolved"
  BY <1>5 DEF MissingFields
<1>7. i.goal \in FrozenActions \cup {"unresolved"}
  BY <1>5 DEF PolicyConflicts
<1>8. i.role \in AuthorizedRoles \cup {"unresolved"}
  BY <1>5 DEF PolicyConflicts
<1>9. i.assumptions \cap UnsafeAssumptions = {}
  BY <1>5 DEF UnsafeAssumptionsMade
<1> QED
  BY <1>6, <1>7, <1>8, <1>9

(* The arguments that the controller proposes are within the request.      *)
LEMMA ProposedInScope ==
    ASSUME TrailInv, Running, OrderSeen(run), NEW m \in 0..5,
           DOMAIN run.evidence = Prefix(m)
    PROVE  ~OutsideScope(run, Propose(run, InvoiceTools[m + 1]))
<1> DEFINE tool    == InvoiceTools[m + 1]
           inputs  == run.contract.intent.inputs
           invoice == run.evidence["inspect_invoice"]
           args    == Arguments(run, tool)
           scope   == {"invoice_id", "supplier_id", "purchase_order_id", "currency"}
<1>1. m # 0 => "inspect_invoice" \in DOMAIN run.evidence
  <2>1. m # 0 => InvoiceTools[1] \in Prefix(m)
    BY DEF Prefix
  <2> QED
    BY <2>1 DEF InvoiceTools
<1>2. m # 0 => /\ invoice["invoice_id"] = inputs["invoice_id"]
               /\ invoice["supplier_id"] = inputs["supplier_id"]
               /\ invoice["purchase_order_id"] = inputs["purchase_order_id"]
  <2>1. m # 0 => ~InvoiceMismatch(inputs, invoice)
    BY <1>1 DEF TrailInv, Settlement, Settles
  <2> QED
    BY <2>1 DEF InvoiceMismatch
<1>3. m = 5 => run.evidence["lookup_purchase_order"].purchase_order_id
                  = inputs["purchase_order_id"]
  <2>1. m = 5 => InvoiceTools[3] \in Prefix(m)
    BY DEF Prefix
  <2>2. m = 5 => run.evidence["lookup_purchase_order"].purchase_order_id
                    = invoice.purchase_order_id
    BY <2>1 DEF InvoiceTools, OrderSeen
  <2> QED
    BY <1>2, <2>2
<1>4. args["policy_version"] = run.contract.gateA.policy_version \/ m # 4
  BY DEF Arguments, ArgumentKeys, InvoiceTools
<1> HIDE DEF inputs, invoice
<1>5. \A k \in scope \cap DOMAIN args : args[k] = inputs[k]
  <2>1. m = 0 \/ m = 1 \/ m = 2 \/ m = 3 \/ m = 4 \/ m = 5
    OBVIOUS
  <2>2. CASE m = 0
    BY <2>2 DEF Arguments, ArgumentKeys, InvoiceTools, inputs
  <2>3. CASE m = 1
    BY <1>2, <2>3 DEF Arguments, ArgumentKeys, InvoiceTools, inputs, invoice
  <2>4. CASE m = 2
    BY <1>2, <2>4 DEF Arguments, ArgumentKeys, InvoiceTools, inputs, invoice
  <2>5. CASE m = 3
    BY <1>2, <2>5 DEF Arguments, ArgumentKeys, InvoiceTools, inputs, invoice
  <2>6. CASE m = 4
    BY <2>6 DEF Arguments, ArgumentKeys, InvoiceTools, inputs
  <2>7. CASE m = 5
    BY <1>2, <1>3, <2>7 DEF Arguments, ArgumentKeys, InvoiceTools, inputs, invoice
  <2> QED
    BY <2>1, <2>2, <2>3, <2>4, <2>5, <2>6, <2>7
<1>6. tool = "retrieve_policy" => m = 4
  BY DEF InvoiceTools
<1>7. /\ Propose(run, tool).arguments = args /\ Propose(run, tool).tool = tool
  BY DEF Propose
<1> HIDE DEF args, tool
<1> QED
  BY <1>4, <1>5, <1>6, <1>7 DEF OutsideScope, inputs, tool

LEMMA OwnScope ==
    ASSUME TrailInv, Running, ApprovalKept, Licensed, Clear(run), OrderSeen(run),
           NEW m \in 0..5, DOMAIN run.evidence = Prefix(m)
    PROVE  ScopeProblem(run, Propose(run, InvoiceTools[m + 1]))
               \in {None, "RUNTIME_TOOL_PROHIBITED", "RUNTIME_TOOL_UNAUTHORIZED"}
<1> DEFINE tool == InvoiceTools[m + 1]
           p    == Propose(run, tool)
<1>1. MayRun(run)
  <2>1. run.contract.plan # None
    BY OutcomesAssumption DEF TrailInv, GInv, IInv, RetryBudget
  <2>2. CASE run.contract.approval = None
    BY <2>1, <2>2 DEF Clear, MayRun, Running
  <2>3. CASE run.contract.approval # None
    BY <2>1, <2>3 DEF ApprovalKept, Backed, MayRun, Running
  <2> QED
    BY <2>2, <2>3
<1>2. /\ DOMAIN p = ProposalFields
      /\ p.action_id = Len(run.history) /\ p.run_id = run.contract.run
      /\ p.version = run.contract.intent.version /\ p.goal = run.contract.intent.goal
      /\ p.role = run.contract.intent.role
      /\ p.assumptions = run.contract.intent.assumptions
      /\ p.tool = tool /\ p.arguments = Arguments(run, tool)
  BY DEF Propose, ProposalFields
<1>3. /\ run.contract.intent.goal \in FrozenActions
      /\ run.contract.intent.role \in AuthorizedRoles
      /\ run.contract.intent.assumptions \cap UnsafeAssumptions = {}
  <2>1. Decide(run.contract.intent).decision \in {"APPROVE", "ESCALATE"}
    BY DEF Licensed, Running
  <2> QED
    BY <2>1, Admitted
<1>4. tool \in ToolNames
  <2>1. m + 1 \in 1..6
    OBVIOUS
  <2> QED
    BY <2>1 DEF ToolNames
<1>5. DOMAIN Arguments(run, tool) = ArgumentKeys(tool)
  BY DEF Arguments
<1>6. ~OutsideScope(run, p)
  BY ProposedInScope
<1> HIDE DEF p, tool
<1> QED
  BY <1>1, <1>2, <1>3, <1>4, <1>5, <1>6 DEF ScopeProblem, p, tool

LEMMA OwnState ==
    ASSUME TrailInv, Running, ApprovalKept, Books(run), Clear(run),
           Cardinality(Succeeded(run)) \in 0..5, NEW p,
           p.tool = ToolOf(run, Len(run.history) + 1),
           Required(p.tool) = DOMAIN run.evidence
    PROVE  StateProblem(run, p) = None
<1>1. run.contract.plan = BuildPlan
  BY DEF TrailInv, GInv, IInv, RetryBudget
<1>2. RetryProblem(run, p.tool) = None
  BY <1>1, RetryAccepted
<1>3. EvidenceProblem(run, Required(p.tool)) = None
  BY <1>1, EvidenceAccepted
<1>4. BuildPlan = [k \in 1..6 |-> ExpectedStep(k)]
  BY DEF BuildPlan, PlanStep, ExpectedStep, FinancePolicy
<1>5. {k \in DOMAIN run.events :
          /\ run.events[k].type = "runtime_policy_check"
          /\ run.events[k].decision # "APPROVE"} = {}
  BY DEF Clear, Typed
<1>6. ~(\/ /\ run.approvalState # "NOT_REQUESTED"
           /\ ~(ApprovedRun(run.contract) /\ run.approvalState = "APPROVED_BY_HUMAN")
        \/ \E k \in DOMAIN run.events : run.events[k].type = "human_intervention")
  <2>1. ~\E k \in DOMAIN run.events : run.events[k].type = "human_intervention"
    BY DEF ApprovalKept, Unattended, Typed
  <2>2. CASE run.contract.approval = None
    BY <2>1, <2>2 DEF Clear
  <2>3. CASE run.contract.approval # None
    BY <2>1, <2>3 DEF ApprovalKept, Backed
  <2> QED
    BY <2>2, <2>3
<1>7. /\ ~(run.decision # None /\ run.decision.decision # "APPROVE")
      /\ run.questions = {}
  BY DEF Clear
<1> QED
  BY <1>1, <1>2, <1>3, <1>4, <1>5, <1>6, <1>7 DEF StateProblem

(* Whatever it refuses, it refuses for a reason of the business.           *)
LEMMA OwnJudgement ==
    ASSUME Mutations = {}, TrailInv, ApprovalKept, Licensed, Running,
           Books(run), Clear(run), OrderSeen(run), NEW c \in CheckedRuns
    PROVE  /\ c.decision.code \in BusinessCodes
           /\ Cardinality(Succeeded(run)) \in 0..5
           /\ c.proposed.tool = ToolOf(run, Len(run.history) + 1)
<1> DEFINE tool == run.contract.plan[Earliest(Ready(run))].step
           m    == Cardinality(Succeeded(run))
           p    == Propose(run, tool)
<1>1. DOMAIN run = RunFields
  BY DEF TrailInv, GInv, IInv, TypeOK
<1>2. Ready(run) # {} /\ \E j \in Judgements(run, tool) :
         c = Checked(run, j.proposal, j.refusal)
  BY DEF CheckedRuns
<1>3. Judgements(run, tool) = {[proposal |-> p, refusal |-> DecideRuntime(run, p)]}
  BY DEF Judgements, Proposals
<1>4. c = Checked(run, p, DecideRuntime(run, p))
  BY <1>2, <1>3
<1>5. /\ m \in 0..5 /\ tool = InvoiceTools[m + 1]
      /\ tool = ToolOf(run, Len(run.history) + 1)
      /\ Required(tool) = DOMAIN run.evidence
  BY <1>2, NextReady DEF TrailInv, GInv, IInv
<1>6. p.tool = tool
  BY DEF Propose
<1>7. c.proposed = p /\ c.decision = Result(run, p, DecideRuntime(run, p))
  BY <1>1, <1>4, CheckedShape
<1>8. DOMAIN run.evidence = Prefix(m)
  BY DEF Books
<1> HIDE DEF tool, m
<1>9. ScopeProblem(run, p) \in {None, "RUNTIME_TOOL_PROHIBITED", "RUNTIME_TOOL_UNAUTHORIZED"}
  BY <1>5, <1>8, OwnScope
<1> HIDE DEF p
<1>10. StateProblem(run, p) = None
  BY <1>5, <1>6, OwnState DEF m
<1>11. StageProblem(run, p) \in BusinessCodes \cup {None}
  BY DEF StageProblem, BusinessCodes
<1>12. DecideRuntime(run, p) \in BusinessCodes \cup {None}
  BY <1>9, <1>10, <1>11 DEF DecideRuntime, BusinessCodes
<1>13. c.decision.code \in BusinessCodes
  BY <1>7, <1>12 DEF Result, BusinessCodes
<1> QED
  BY <1>5, <1>6, <1>7, <1>13 DEF m

----------------------------------------------------------------------------
(* One step more.                                                          *)

LEMMA ClearKept ==
    ASSUME NEW r, NEW s, NEW tool, NEW ending \in {"tool_call_completed", "tool_call_failed"},
           Numbering(r), Called(r, s, tool, ending),
           LET b == Len(r.events)
           IN  \/ Len(s.events) = b + 3
               \/ Len(s.events) = b + 4 /\ s.events[b + 4].type = "retry_scheduled",
           Clear(r), s.decision.decision = "APPROVE", s.questions = r.questions,
           s.contract = r.contract, s.approvalState = r.approvalState
    PROVE  Clear(s)
<1> DEFINE b     == Len(r.events)
           e     == Len(s.events)
           check == "runtime_policy_check"
<1>1. /\ b \in Nat /\ DOMAIN r.events = 1..b /\ DOMAIN s.events = 1..e /\ e \in Nat
      /\ \A k \in 1..b : s.events[k] = r.events[k]
  BY DEF Numbering, Called, Continued, Recorded
<1>2. /\ s.events[b + 1].decision = "APPROVE"
      /\ s.events[b + 2].type # check /\ s.events[b + 3].type # check
  BY DEF Called
<1>3. \/ e = b + 3
      \/ e = b + 4 /\ s.events[b + 4].type # check
  OBVIOUS
<1> HIDE DEF b, e
<1>4. ASSUME NEW k \in Typed(s, check)
      PROVE  s.events[k].decision = "APPROVE"
  <2>1. k \in 1..e /\ s.events[k].type = check
    BY <1>1 DEF Typed
  <2>2. k \in 1..b \/ k = b + 1 \/ k = b + 2 \/ k = b + 3 \/ (e = b + 4 /\ k = b + 4)
    BY <1>1, <1>3, <2>1
  <2>3. CASE k \in 1..b
    <3>1. k \in Typed(r, check) /\ s.events[k] = r.events[k]
      BY <1>1, <2>1, <2>3 DEF Typed
    <3> QED
      BY <3>1 DEF Clear
  <2>4. e = b + 4 /\ k = b + 4 => s.events[k].type # check
    BY <1>1, <1>3
  <2> QED
    BY <1>2, <2>1, <2>2, <2>3, <2>4
<1> QED
  BY <1>4 DEF Clear

(* The order that is looked up is the one that the invoice names.          *)
LEMMA OrderFound ==
    ASSUME OrdersTrimmed, InvoiceSeen, "inspect_invoice" \in DOMAIN run.evidence,
           NEW approval, NEW fault,
           LET args == Arguments(run, "lookup_purchase_order")
           IN  Invoke("lookup_purchase_order", args, approval, fault).kind = "record"
    PROVE  LET args == Arguments(run, "lookup_purchase_order")
           IN  Invoke("lookup_purchase_order", args, approval, fault).output.purchase_order_id
                   = run.evidence["inspect_invoice"].purchase_order_id
<1> DEFINE args  == Arguments(run, "lookup_purchase_order")
           id    == run.evidence["inspect_invoice"].purchase_order_id
           found == Lookup(PurchaseOrders, id)
<1>1. args["purchase_order_id"] = id
  BY DEF Arguments, ArgumentKeys
<1>2. Invoke("lookup_purchase_order", args, approval, fault) = found
  <2>1. fault = "none"
    BY DEF Invoke, InjectedFailure, Retryable, Raised
  <2>2. Call("lookup_purchase_order", args, approval) = found
    BY <1>1 DEF Call
  <2> QED
    BY <2>1, <2>2 DEF Invoke
<1>3. found.kind = "record"
  BY <1>2
<1>4. /\ id \in DOMAIN Strip /\ Strip[id] \in DOMAIN PurchaseOrders
      /\ found.output = PurchaseOrders[Strip[id]]
  BY <1>3, FoundRecord
<1>5. id \in DOMAIN PurchaseOrders
  BY FixtureAssumption DEF InvoiceSeen
<1>6. Strip[id] = id
  BY <1>4, <1>5 DEF OrdersTrimmed
<1>7. found.output.purchase_order_id = id
  BY <1>4, <1>5, <1>6, FixtureAssumption
<1> HIDE DEF args, id, found
<1> QED
  BY <1>2, <1>7 DEF args, id, found

LEMMA OrderSeenKept ==
    ASSUME Mutations = {}, OrdersTrimmed, TrailInv, NEW c \in CheckedRuns,
           NEW answer \in Answers(c), Succeed(c, answer), Running', Books(run),
           OrderSeen(run)
    PROVE  OrderSeen(run')
<1> DEFINE order == "lookup_purchase_order"
           first == "inspect_invoice"
           tool  == c.proposed.tool
           m     == Cardinality(Succeeded(run))
<1>1. Running /\ c.decision.decision = "APPROVE" /\ answer.kind = "record"
  BY DEF Succeed, Superstep, Answers
<1>2. /\ run'.evidence = Put(run.evidence, tool, answer.output)
      /\ tool \notin DOMAIN run.evidence
  BY CompletedAttempt DEF Books
<1>3. DOMAIN run.evidence = Prefix(m) /\ m \in 0..6
  BY DEF Books
<1>4. order \in DOMAIN run.evidence \/ tool = order => first \in DOMAIN run.evidence
  <2>1. PICK k \in 0..5 : tool = InvoiceTools[k + 1] /\ DOMAIN run.evidence = Prefix(k)
    BY <1>1, StartedCall DEF TrailInv, GInv
  <2>2. InvoiceTools[1] = first /\ InvoiceTools[3] = order
    BY DEF InvoiceTools
  <2>3. order \in Prefix(k) \/ tool = order => k # 0
    <3>1. k = 0 => Prefix(k) = {}
      BY DEF Prefix
    <3>2. k = 0 => tool = first
      BY <2>1, <2>2
    <3> QED
      BY <3>1, <3>2
  <2>4. k # 0 => first \in Prefix(k)
    BY <2>1, <2>2 DEF Prefix
  <2> QED
    BY <2>1, <2>3, <2>4
<1>5. CASE tool = order
  <2>1. first \in DOMAIN run.evidence /\ first # order
    BY <1>4, <1>5
  <2>2. run'.evidence[order] = answer.output /\ run'.evidence[first] = run.evidence[first]
    BY <1>2, <1>5, <2>1 DEF Put
  <2>3. c.proposed.arguments = Arguments(run, order)
    <3>1. PICK t : \E p \in Proposals(run, t) : c = Checked(run, p, DecideRuntime(run, p))
      BY DEF CheckedRuns, Judgements
    <3>2. c = Checked(run, Propose(run, t), DecideRuntime(run, Propose(run, t)))
      BY <3>1 DEF Proposals
    <3>3. c.proposed = Propose(run, t)
      BY <3>2, CheckedShape DEF TrailInv, GInv, IInv, TypeOK
    <3> QED
      BY <1>5, <3>3 DEF Propose
  <2>4. PICK approval, fault :
           answer = Invoke(order, Arguments(run, order), approval, fault)
    BY <1>5, <2>3 DEF Answers
  <2>5. answer.output.purchase_order_id = run.evidence[first].purchase_order_id
    BY <1>1, <2>1, <2>4, OrderFound DEF TrailInv, GInv
  <2> QED
    BY <2>2, <2>5 DEF OrderSeen
<1>6. CASE tool # order
  <2>1. order \in DOMAIN run'.evidence => order \in DOMAIN run.evidence
    BY <1>2, <1>6 DEF Put
  <2>2. order \in DOMAIN run.evidence =>
           /\ run'.evidence[order] = run.evidence[order]
           /\ run'.evidence[first] = run.evidence[first]
    BY <1>2, <1>4 DEF Put
  <2> QED
    BY <2>1, <2>2 DEF OrderSeen
<1> QED
  BY <1>5, <1>6

(* An attempt that fails and is retried.                                   *)
LEMMA FailureBooked ==
    ASSUME Mutations = {}, TrailInv, ApprovalKept, Licensed, NEW c \in CheckedRuns,
           NEW answer \in Answers(c), Fail(c, answer), Running',
           Books(run), Clear(run), OrderSeen(run)
    PROVE  Books(run') /\ Clear(run') /\ OrderSeen(run')
<1> DEFINE n    == Len(run.history)
           b    == Len(run.events)
           done == Succeeded(run)
           tool == c.proposed.tool
           tries == Attempts(run, tool)
<1>1. /\ Running /\ IInv /\ DOMAIN run = RunFields /\ Numbering(run)
      /\ c.decision.decision = "APPROVE"
  BY DEF Fail, Superstep, Answers, TrailInv, GInv, IInv, TypeOK, Books
<1>2. MayRetry(c, tool, answer)
  <2>1. ASSUME ~MayRetry(c, tool, answer) PROVE FALSE
    <3> DEFINE failed == FailedCall(Started(c), answer.code)
    <3>1. run' = FinishWith(failed, answer.code, "FAILED")
      BY <2>1 DEF Fail
    <3>2. DOMAIN c = RunFields
      BY <1>1, CheckedRun DEF Differs
    <3>3. DOMAIN failed = RunFields
      BY <3>2, StartedShape, FailedCallShape DEF Differs
    <3>4. run'.state = "FAILED"
      BY <3>1, <3>3, FinishWithShape
    <3> QED
      BY <3>4 DEF Running
  <2> QED
    BY <2>1
<1>3. tool # "stage_payment" /\ answer.code \in Transient /\ tries < ReadRetries
  BY <1>2, RetriedExactly DEF ReadTools
<1>4. /\ Cardinality(done) \in 0..5 /\ tool = ToolOf(run, n + 1)
  BY <1>1, OwnJudgement
<1>5. Cardinality(done) < 6
  <2> HIDE DEF done
  <2> QED
    BY <1>4
<1>6. /\ Called(run, run', tool, "tool_call_failed")
      /\ run'.observations[n + 1].code = answer.code
      /\ run'.evidence = run.evidence /\ run'.questions = run.questions
      /\ Len(run'.events) = b + 4 /\ run'.events[b + 4].type = "retry_scheduled"
      /\ run'.events[b + 3].code = answer.code
      /\ run'.events[b + 4].tool = tool /\ run'.events[b + 4].retry = tries + 1
      /\ run'.events[b + 4].code = answer.code /\ run'.events[b + 4].max = ReadRetries
      /\ run'.events[b + 4].next = n + 1
      /\ run'.retry = [attempts |-> tries + 1, tool |-> tool,
                       error |-> answer.code, failed |-> n, max |-> ReadRetries]
  BY <1>1, <1>2, FailedAttempt
<1>7. /\ tries = run.retry.attempts /\ tries \in Nat
  <2>1. /\ tries = run.retry.attempts /\ tries \in 0..ReadRetries
    BY <1>1, LiveAttempts
  <2> HIDE DEF tries
  <2> QED
    BY <2>1
<1>8. tries = ConsecutiveFailures(done, n)
  <2>1. n \in Nat /\ done \in SUBSET (1..n)
    BY <1>6, NextAttempt DEF Called
  <2>2. CASE run.retry = NoRetry
    <3>1. tries = 0
      BY <1>7, <2>2 DEF NoRetry
    <3>2. n = 0 \/ n \in done
      BY <2>2 DEF Books, RetryRecorded
    <3> QED
      BY <2>1, <3>1, <3>2, CountsGrow
  <2>3. CASE run.retry # NoRetry
    BY <1>7, <2>3 DEF Books, RetryRecorded
  <2> QED
    BY <2>2, <2>3
<1> HIDE DEF tries
<1>9. tries + 1 <= ReadRetries
  <2>1. ReadRetries \in Nat
    BY PolicyAssumption
  <2> QED
    BY <1>3, <1>7, <2>1
<1>10. Books(run')
  BY <1>3, <1>4, <1>5, <1>6, <1>8, <1>9, BooksRetry
<1>11. /\ run'.contract = run.contract /\ run'.decision = c.decision
       /\ run'.approvalState = run.approvalState
  BY <1>1, CheckedStep
<1>12. Clear(run')
  BY <1>1, <1>6, <1>11, ClearKept
<1> QED
  BY <1>6, <1>10, <1>12 DEF OrderSeen

(* An attempt that completes, and does not end the run.                    *)
LEMMA CompletionBooked ==
    ASSUME Mutations = {}, OrdersTrimmed, TrailInv, ApprovalKept, Licensed,
           NEW c \in CheckedRuns, NEW answer \in Answers(c), Succeed(c, answer), Running',
           Books(run), Clear(run), OrderSeen(run)
    PROVE  Books(run') /\ Clear(run') /\ OrderSeen(run')
<1> DEFINE n    == Len(run.history)
           b    == Len(run.events)
           done == Succeeded(run)
           tool == c.proposed.tool
<1>1. /\ Running /\ IInv /\ Numbering(run) /\ c.decision.decision = "APPROVE"
  BY DEF Succeed, Superstep, Answers, TrailInv, GInv, Books
<1>2. /\ Cardinality(done) \in 0..5 /\ tool = ToolOf(run, n + 1)
  BY <1>1, OwnJudgement
<1>3. Cardinality(done) < 6
  <2> HIDE DEF done
  <2> QED
    BY <1>2
<1>4. /\ Called(run, run', tool, "tool_call_completed")
      /\ Len(run'.events) = b + 3
      /\ run'.observations[n + 1].output = answer.output
      /\ run'.events[b + 3].output = answer.output
      /\ run'.evidence = Put(run.evidence, tool, answer.output)
      /\ run'.retry = NoRetry /\ run'.questions = run.questions
  BY <1>1, CompletedAttempt
<1>5. Books(run')
  BY <1>2, <1>3, <1>4, BooksComplete
<1>6. /\ run'.contract = run.contract /\ run'.decision = c.decision
      /\ run'.approvalState = run.approvalState
  BY <1>1, CheckedStep
<1>7. Clear(run')
  BY <1>1, <1>4, <1>6, ClearKept
<1> QED
  BY <1>5, <1>7, OrderSeenKept

(* Every other judgement or answer ends the run, pauses it or leaves it    *)
(* where the exception found it.                                           *)
LEMMA StepBooked ==
    ASSUME Mutations = {}, OrdersTrimmed, TrailInv, ApprovalKept, Licensed,
           NEW c \in CheckedRuns, Running',
           \/ Reject(c)
           \/ Pause(c)
           \/ \E answer \in Answers(c) :
                  Fail(c, answer) \/ Escape(c, answer) \/ Succeed(c, answer),
           Books(run), Clear(run), OrderSeen(run)
    PROVE  Books(run') /\ Clear(run') /\ OrderSeen(run')
<1>1. Running /\ IInv
  BY DEF Reject, Pause, Fail, Escape, Succeed, Superstep, TrailInv, GInv
<1>2. DOMAIN c = RunFields
  BY <1>1, CheckedRun DEF Differs
<1>3. ~Reject(c)
  <2>1. Reject(c) => run'.state = "REJECTED"
    BY <1>2, ReasonShape DEF Reject
  <2> QED
    BY <2>1 DEF Running
<1>4. ~Pause(c)
  <2>1. Pause(c) => run'.state \in PausedStates
    BY <1>2, PausedShape DEF Pause
  <2> QED
    BY <2>1 DEF Running, PausedStates
<1>5. ASSUME NEW answer PROVE ~Escape(c, answer)
  BY EscapesAssumption DEF Escape, Escapes, Running
<1> QED
  BY <1>3, <1>4, <1>5, FailureBooked, CompletionBooked

----------------------------------------------------------------------------
(* How the books begin.                                                    *)

(* Nothing has been called.                                                *)
Uncalled(r) ==
    /\ DOMAIN r = RunFields /\ Recorded(r.events) /\ r.observations = <<>>
    /\ \A type \in Audited : Typed(r, type) = {}

LEMMA StillUncalled ==
    ASSUME NEW r, NEW s, NEW e, Uncalled(r), Logs(r, s, e), e.type \notin Audited,
           Differs(r, s, {"events", "state"})
    PROVE  Uncalled(s)
<1>1. DOMAIN s = RunFields /\ s.observations = <<>>
  BY DEF Uncalled, Differs, RunFields
<1>2. Recorded(s.events)
  BY Appending DEF Logs, Uncalled
<1>3. \A type \in Audited : Typed(s, type) = {}
  BY TypedStands DEF Is, Uncalled
<1> QED
  BY <1>1, <1>2, <1>3 DEF Uncalled

LEMMA StartUncalled ==
    ASSUME NEW id, NEW order, NEW r \in Beginnings(id, order), r.state = "RUNNING"
    PROVE  Uncalled(r)
<1> DEFINE gateA    == Decide(order.intent)
           new      == NewRun(id, order, gateA)
           approved == Judged(new, "APPROVED")
           planned  == Enter(approved, "plan_created", "PLANNED")
           running  == Enter(planned, "run_started", "RUNNING")
<1>1. new.contract.plan # None
  BY StartMoves
<1>2. r = running
  BY <1>1 DEF Beginnings, Start
<1>3. Uncalled(new)
  <2>1. DOMAIN new = RunFields /\ new.events = <<>> /\ new.observations = <<>>
    BY DEF NewRun, RunFields
  <2> HIDE DEF new
  <2> QED
    BY <2>1 DEF Uncalled, Recorded, Typed
<1> HIDE DEF new
<1>4. Uncalled(approved)
  <2>1. DOMAIN new = RunFields
    BY <1>3 DEF Uncalled
  <2>2. Differs(new, approved, {"events", "state"})
    BY <2>1, JudgedLog
  <2>3. PICK e : Logs(new, approved, e) /\ e.type = "control_decision"
    BY <2>1, JudgedLog
  <2>4. e.type \notin Audited
    BY <2>3 DEF Audited
  <2> HIDE DEF approved
  <2> QED
    BY <1>3, <2>2, <2>3, <2>4, StillUncalled
<1> HIDE DEF approved
<1>5. ASSUME NEW x, NEW type, NEW state, Uncalled(x), type \notin Audited
      PROVE  Uncalled(Enter(x, type, state))
  <2> DEFINE y == Enter(x, type, state)
  <2>1. DOMAIN x = RunFields
    BY <1>5 DEF Uncalled
  <2>2. Differs(x, y, {"events", "state"})
    BY <2>1, EnteredLog
  <2>3. PICK e : Logs(x, y, e) /\ e.type = type
    BY <2>1, EnteredLog
  <2> HIDE DEF y
  <2>4. Uncalled(y)
    BY <1>5, <2>2, <2>3, StillUncalled
  <2> QED
    BY <2>4 DEF y
<1>6. Uncalled(planned)
  BY <1>4, <1>5 DEF Audited
<1> HIDE DEF planned
<1>7. Uncalled(running)
  BY <1>5, <1>6 DEF Audited
<1> QED
  BY <1>2, <1>7

LEMMA FreshBooks ==
    ASSUME NEW id, NEW order, NEW r \in Beginnings(id, order), r.state = "RUNNING"
    PROVE  Books(r) /\ Clear(r) /\ OrderSeen(r)
<1> DEFINE gateA == Decide(order.intent)
           new   == NewRun(id, order, gateA)
<1>1. Uncalled(r)
  BY StartUncalled
<1>2. /\ r.history = <<>> /\ r.evidence = <<>> /\ r.retry = NoRetry
      /\ r.decision = None
  BY StartShape DEF Beginnings
<1>3. r.observations = <<>> /\ Recorded(r.events)
  BY <1>1 DEF Uncalled
<1>4. /\ Len(r.history) = 0 /\ DOMAIN r.history = {} /\ r.history \in Seq(Nat)
      /\ Len(r.observations) = 0 /\ Recorded(r.observations)
      /\ DOMAIN r.evidence = {}
  BY <1>2, <1>3 DEF Recorded
<1>5. Numbering(r)
  <2>1. \A i : i \in 1..0 => FALSE
    OBVIOUS
  <2>2. \A type \in Audited : \A k \in Typed(r, type) : FALSE
    BY <1>1 DEF Uncalled
  <2> QED
    BY <1>3, <1>4, <2>1, <2>2 DEF Numbering
<1>6. Succeeded(r) = {} /\ Cardinality(Succeeded(r)) = 0
  <2>1. Succeeded(r) = {}
    BY <1>4 DEF Succeeded
  <2> QED
    BY <2>1, FS_EmptySet
<1>7. Prefix(0) = {}
  BY DEF Prefix
<1>8. Books(r)
  <2>1. RetryRecorded(r)
    BY <1>2, <1>4 DEF RetryRecorded
  <2>2. \A i \in 1..Len(r.history) : Attempted(r, i)
    BY <1>4
  <2>3. Cardinality(Succeeded(r)) \in 0..6
    BY <1>6
  <2> QED
    BY <1>4, <1>5, <1>6, <1>7, <2>1, <2>2, <2>3 DEF Books
<1>9. Clear(r)
  <2>1. Typed(r, "runtime_policy_check") = {}
    BY <1>1 DEF Uncalled, Audited
  <2>2. /\ r.contract = new.contract /\ r.questions = gateA.questions
        /\ new.contract.plan # None
    BY StartMoves
  <2>3. /\ r.contract.approval = order.approval /\ r.contract.gateA = gateA
        /\ gateA.decision \in {"APPROVE", "ESCALATE"}
        /\ order.approval = None => r.approvalState = "NOT_REQUESTED"
    BY FreshContract
  <2>4. new.contract.plan = IF Authorised(gateA, order.approval) THEN BuildPlan ELSE None
    BY DEF NewRun
  <2>5. order.approval = None => gateA.decision = "APPROVE"
    BY <2>2, <2>4 DEF Authorised
  <2>6. gateA.questions = {}
    BY <2>3, GateDecision
  <2> HIDE DEF gateA, new
  <2> QED
    BY <1>2, <2>1, <2>2, <2>3, <2>5, <2>6 DEF Clear
<1>10. OrderSeen(r)
  BY <1>4 DEF OrderSeen
<1> QED
  BY <1>8, <1>9, <1>10

----------------------------------------------------------------------------
(* Every step of an execution.                                             *)

AuditInv ==
    /\ ExecutionInv /\ AuditAgrees
    /\ Running => Books(run) /\ Clear(run) /\ OrderSeen(run)

LEMMA AdvanceAudited ==
    ASSUME Mutations = {}, OrdersTrimmed, AuditInv, Advance
    PROVE  AuditInv'
<1>1. /\ RunInv /\ TrailInv /\ IInv /\ ApprovalKept /\ Licensed /\ AuditAgrees
      /\ Running /\ run.contract.approval = None => run.approvalState = "NOT_REQUESTED"
      /\ Running => Books(run) /\ Clear(run) /\ OrderSeen(run)
  BY DEF AuditInv, ExecutionInv, RunInv, TrailInv, GInv
<1>2. /\ RunInv' /\ run'.contract = run.contract /\ Running
      /\ Running' => run'.approvalState = run.approvalState
  BY <1>1, AdvanceKeeps
<1>3. AuditAgrees' /\ (Running' => Books(run') /\ Clear(run') /\ OrderSeen(run'))
  <2>1. CASE FinishRun
    <3>1. ~Running' /\ Differs(run, run', {"events", "state", "outcome"})
      BY <1>1, <2>1, FinishKept
    <3>2. run'.decision = run.decision
      BY <3>1 DEF Differs, RunFields
    <3> QED
      BY <1>1, <3>1, <3>2 DEF AuditAgrees
  <2>2. ASSUME NEW c \in CheckedRuns,
               \/ Reject(c)
               \/ Pause(c)
               \/ \E answer \in Answers(c) :
                      Fail(c, answer) \/ Escape(c, answer) \/ Succeed(c, answer)
        PROVE  AuditAgrees' /\ (Running' => Books(run') /\ Clear(run') /\ OrderSeen(run'))
    <3>1. c.decision.code \in BusinessCodes
      BY <1>1, <1>2, OwnJudgement
    <3>2. run'.decision = c.decision
      BY <1>1, <2>2, CheckedStep
    <3>3. AuditAgrees'
      BY <3>1, <3>2 DEF AuditAgrees
    <3>4. Running' => Books(run') /\ Clear(run') /\ OrderSeen(run')
      BY <1>1, <1>2, <2>2, StepBooked
    <3> QED
      BY <3>3, <3>4
  <2> QED
    BY <2>1, <2>2 DEF Advance
<1>4. Running' /\ run'.contract.approval = None => run'.approvalState = "NOT_REQUESTED"
  BY <1>1, <1>2
<1>5. (Running => Books(run) /\ Clear(run) /\ OrderSeen(run))'
  BY <1>3 DEF Books, Clear, OrderSeen, Numbering, RetryRecorded, Attempted, Typed
<1>6. ExecutionInv'
  BY <1>2, <1>4 DEF ExecutionInv
<1> QED
  BY <1>3, <1>5, <1>6 DEF AuditInv

LEMMA BeginningAudited ==
    ASSUME NEW id, NEW order, run' \in Beginnings(id, order)
    PROVE  /\ AuditAgrees'
           /\ Running' => Books(run') /\ Clear(run') /\ OrderSeen(run')
<1>1. run'.decision = None
  BY FreshRun
<1> QED
  BY <1>1, FreshBooks DEF AuditAgrees, Running

LEMMA AuditStep ==
    ASSUME Mutations = {}, OrdersTrimmed, AuditInv, [Next]_vars
    PROVE  AuditInv'
<1>1. ExecutionInv'
  BY ExecutionStep DEF AuditInv
<1>2. CASE UNCHANGED vars
  <2>1. run' = run /\ raised' = raised
    BY <1>2 DEF vars
  <2>2. Running' = Running /\ AuditAgrees'
    BY <2>1 DEF AuditInv, AuditAgrees, Running
  <2>3. Running' => Books(run') /\ Clear(run') /\ OrderSeen(run')
    BY <2>1, <2>2 DEF AuditInv
  <2> QED
    BY <1>1, <2>2, <2>3
    DEF AuditInv, Books, Clear, OrderSeen, Numbering, RetryRecorded, Attempted
<1>3. ASSUME NEW order \in Orders, Execute(order)
      PROVE  AuditInv'
  <2>1. /\ AuditAgrees'
        /\ Running' => Books(run') /\ Clear(run') /\ OrderSeen(run')
    BY <1>3, BeginningAudited DEF Execute
  <2> QED
    BY <1>1, <2>1
    DEF AuditInv, Books, Clear, OrderSeen, Numbering, RetryRecorded, Attempted
<1> QED
  BY <1>2, <1>3, AdvanceAudited DEF Next

LEMMA AuditInit == Init => AuditInv
<1> SUFFICES ASSUME Init PROVE AuditInv
  OBVIOUS
<1>1. PICK order \in Orders : run \in Beginnings(1, order)
  BY DEF Init
<1>2. ExecutionInv
  BY ExecutionInit
<1>3. AuditAgrees
  BY <1>1, FreshRun DEF AuditAgrees
<1>4. Running => Books(run) /\ Clear(run) /\ OrderSeen(run)
  BY <1>1, FreshBooks DEF Running
<1> QED
  BY <1>2, <1>3, <1>4 DEF AuditInv

(* In production, where nobody edits what the controller proposes, and     *)
(* over master data that files no order under a padded identifier: no      *)
(* history of failures, retries and results makes the audit of Gate B      *)
(* refuse a call of the controller.  What decide_runtime recomputes from   *)
(* the record (attempts, failures, retries, observations, evidence) is     *)
(* what _dispatch has written, so that only the request, the master data   *)
(* or the authority can be in the way.                                     *)
THEOREM AuditAlwaysAgrees ==
    ASSUME Mutations = {}, OrdersTrimmed
    PROVE  Spec => []AuditAgrees
<1>1. AuditInv /\ [Next]_vars => AuditInv'
  BY AuditStep
<1>2. AuditInv => AuditAgrees
  BY DEF AuditInv
<1> QED
  BY <1>1, <1>2, AuditInit, PTL DEF Spec
=============================================================================
