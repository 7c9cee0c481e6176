----------------------------- MODULE RunArchive -----------------------------
(***************************************************************************)
(* What SQLiteRunStore of src/control_gate/persistence.py promises to its  *)
(* callers: an archive in which a run, once saved, stays as it is.  Saving *)
(* the same run again is accepted, saving another one under its identifier *)
(* is a conflict, and a read returns what the archive holds at some moment *)
(* between its call and its answer.  A call may fail without effect, and a *)
(* process may die in the middle of its calls.                             *)
(***************************************************************************)
CONSTANTS
    None,
    Clients,    \* threads that use the archive
    Ids,        \* run identifiers
    Runs        \* the runs they save: records with an id among Ids

VARIABLES
    archive,    \* Ids -> the run stored under the identifier, or None
    dialogue    \* for each client the call it is in and its answer

vars == <<archive, dialogue>>

Silent == [phase |-> "idle", op |-> None, arg |-> None, answer |-> None]

Answer(kind, run) == [kind |-> kind, run |-> run]

Init ==
    /\ archive = [id \in Ids |-> None]
    /\ dialogue = [c \in Clients |-> Silent]

Ask(c, op, arg) ==
    /\ dialogue[c].phase = "idle"
    /\ dialogue' = [dialogue EXCEPT ![c] =
                      [phase |-> "open", op |-> op, arg |-> arg, answer |-> None]]
    /\ UNCHANGED archive

Reply(c, kind, run) ==
    /\ dialogue[c].phase = "open"
    /\ dialogue' = [dialogue EXCEPT ![c].phase = "answered",
                                    ![c].answer = Answer(kind, run)]

Store(c) ==
    LET run == dialogue[c].arg
    IN  /\ dialogue[c].op = "save"
        /\ archive[run.id] \in {None, run}
        /\ archive' = [archive EXCEPT ![run.id] = run]
        /\ Reply(c, "stored", run)

Conflict(c) ==
    LET run == dialogue[c].arg
    IN  /\ dialogue[c].op = "save"
        /\ archive[run.id] \notin {None, run}
        /\ Reply(c, "conflict", None)
        /\ UNCHANGED archive

Fetch(c) ==
    LET run == archive[dialogue[c].arg]
    IN  /\ dialogue[c].op = "get"
        /\ Reply(c, IF run = None THEN "missing" ELSE "found", run)
        /\ UNCHANGED archive

Fail(c) == Reply(c, "failed", None) /\ UNCHANGED archive

Return(c) ==
    /\ dialogue[c].phase = "answered"
    /\ dialogue' = [dialogue EXCEPT ![c] = Silent]
    /\ UNCHANGED archive

(* The clients of a process die together.                                  *)
Abandon(dead) ==
    /\ dialogue' = [c \in Clients |-> IF c \in dead THEN Silent ELSE dialogue[c]]
    /\ UNCHANGED archive

Next ==
    \/ \E c \in Clients :
        \/ \E run \in Runs : Ask(c, "save", run)
        \/ \E id \in Ids : Ask(c, "get", id)
        \/ Store(c) \/ Conflict(c) \/ Fetch(c) \/ Fail(c) \/ Return(c)
    \/ \E dead \in SUBSET Clients : Abandon(dead)

Spec == Init /\ [][Next]_vars
=============================================================================
