---------------------------- MODULE MCRunService ----------------------------
(***************************************************************************)
(* Instances of RunService: three executions at most, each with events of  *)
(* its own, as run identifiers prefix event identifiers.                   *)
(***************************************************************************)
EXTENDS RunService

Executed(id, event) == [id |-> id, content |-> "run", events |-> <<event>>]

ServedRuns == {Executed("run-1", "e1"), Executed("run-2", "e2"), Executed("run-3", "e3")}

ServedIds == {"run-1", "run-2", "run-3"}

ServedEvents == {"e1", "e2", "e3"}

OneProcess == {Clients}
=============================================================================
