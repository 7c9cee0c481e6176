----------------------------- MODULE MCRunStore -----------------------------
(***************************************************************************)
(* Runs for instances of RunStore: a run, the same run when it has moved   *)
(* on, another run, one that names an event of the first, and one that     *)
(* names an event twice.                                                   *)
(***************************************************************************)
EXTENDS RunStore

MCRun(id, content, events) == [id |-> id, content |-> content, events |-> events]

Paused == MCRun("run-1", "paused", <<"e1">>)

MCRuns ==
    {Paused, MCRun("run-1", "closed", <<"e1", "e2">>),
     MCRun("run-2", "completed", <<"e3", "e4">>),
     MCRun("run-2", "forged", <<"e3", "e1">>),
     MCRun("run-2", "repeated", <<"e3", "e3">>)}

MCIds == {"run-1", "run-2"}

MCEventIds == {"e1", "e2", "e3", "e4"}

TwoProcesses == {{c} : c \in Clients}
=============================================================================
