----------------------------- MODULE RunService -----------------------------
(***************************************************************************)
(* The HTTP service of src/control_gate/service.py over one RunStore: each *)
(* POST executes a request from its beginning to its pause or end, under a *)
(* fresh run identifier and on an environment of its own, and saves the    *)
(* run afterwards; GETs read what is saved.  Requests run on the threads   *)
(* of one process, which may be restarted at any moment.                   *)
(*                                                                         *)
(* What an execution does is the subject of InvoiceRuntime; here it yields *)
(* one of Runs, or raises.                                                 *)
(***************************************************************************)
EXTENDS RunStore

VARIABLES
    requests,   \* for each thread, the request it serves
    executed,   \* every run that the service has executed
    acked       \* the runs for which it has answered 201

serviceVars == <<requests, executed, acked>>

allVars == <<vars, serviceVars>>

NoRequest == [kind |-> "none", run |-> None, known |-> {}, status |-> 0]

ServiceInit ==
    /\ Init
    /\ requests = [c \in Clients |-> NoRequest]
    /\ executed = {} /\ acked = {}

(* The status of a response; 0 is no response yet.  The variant answers    *)
(* with the executed run whether or not it could be saved.                 *)
StatusOfExecution(answer) ==
    CASE answer.kind \in {"stored", "busy"} -> 201
      [] answer.kind = "found" -> 200
      [] answer.kind = "missing" -> 404
      [] answer.kind = "conflict" -> 409
      [] OTHER -> 500

Status(answer) ==
    CASE answer.kind = "stored" -> 201
      [] answer.kind = "found" -> 200
      [] answer.kind = "missing" -> 404
      [] answer.kind = "conflict" -> 409
      [] OTHER -> 500

(* POST /v1/runs.                                                          *)
Post(c) ==
    /\ requests[c] = NoRequest
    /\ requests' = [requests EXCEPT ![c].kind = "post"]
    /\ UNCHANGED <<vars, executed, acked>>

Executing(c) ==
    requests[c].kind = "post" /\ requests[c].status = 0 /\ requests[c].run = None

(* execute_invoice returns a run with a fresh identifier, and save begins. *)
Execute(c, r) ==
    /\ Executing(c)
    /\ \A other \in executed : other.id # r.id
    /\ executed' = executed \cup {r}
    /\ requests' = [requests EXCEPT ![c].run = r]
    /\ Save(c, r)
    /\ UNCHANGED acked

(* It raises a ValueError, or an error of another class.                   *)
Raise(c) ==
    /\ Executing(c)
    /\ \E status \in {422, 500} : requests' = [requests EXCEPT ![c].status = status]
    /\ UNCHANGED <<vars, executed, acked>>

(* GET /v1/runs/{run_id}, and its events.  known is the run, if a 201 for  *)
(* it was sent before this request came in.                                *)
GetRun(c, id) ==
    /\ requests[c] = NoRequest
    /\ requests' = [requests EXCEPT ![c].kind = "get",
                        ![c].known = {r \in acked : r.id = id}]
    /\ Get(c, id)
    /\ UNCHANGED <<executed, acked>>

Respond(c) ==
    LET answer == calls[c].answer
    IN  /\ requests[c] # NoRequest
        /\ Return(c)
        /\ requests' = [requests EXCEPT ![c].status = Status(answer)]
        /\ acked' = IF requests[c].kind = "post" /\ Status(answer) = 201
                    THEN acked \cup {requests[c].run} ELSE acked
        /\ UNCHANGED executed

(* The response has left; the thread takes another request.                *)
Finish(c) ==
    /\ requests[c].status # 0
    /\ requests' = [requests EXCEPT ![c] = NoRequest]
    /\ UNCHANGED <<vars, executed, acked>>

Serve(c) == Step(c) /\ UNCHANGED serviceVars

Restart ==
    \E dead \in Processes :
        /\ Crash(dead)
        /\ requests' = [c \in Clients |-> IF c \in dead THEN NoRequest ELSE requests[c]]
        /\ UNCHANGED <<executed, acked>>

ServiceNext ==
    \/ \E c \in Clients :
        \/ Post(c) \/ Raise(c) \/ Respond(c) \/ Finish(c) \/ Serve(c)
        \/ \E r \in Runs : Execute(c, r)
        \/ \E id \in Ids : GetRun(c, id)
    \/ Restart

ServiceSpec == ServiceInit /\ [][ServiceNext]_allVars

----------------------------------------------------------------------------
(* Properties.                                                             *)

(* Every piece of the service's state has its type.                        *)
Statuses == {0, 200, 201, 404, 409, 422, 500}

Requests ==
    [kind : {"none", "post", "get"}, run : Runs \cup {None}, known : SUBSET Runs,
     status : Statuses]

ServiceTypeOK ==
    /\ requests \in [Clients -> Requests]
    /\ executed \subseteq Runs
    /\ acked \subseteq executed

(* The call to the store that a thread is in is the one its request makes. *)
Within(c, op) == Dialogue[c].phase # "idle" /\ Dialogue[c].op = op

CallsAreRequests ==
    \A c \in Clients :
        /\ Within(c, "save") => /\ requests[c].kind = "post" /\ requests[c].status = 0
                                /\ requests[c].run = Dialogue[c].arg
        /\ Within(c, "get") => requests[c].kind = "get" /\ requests[c].status = 0
        /\ requests[c].known # {} => requests[c].kind = "get"

(* Only executed runs are stored, each execution has an identifier of its  *)
(* own, and nothing is stored under it before its save answers.            *)
FreshIdentifiers ==
    /\ \A id \in Ids : rows[id] # None => rows[id] \in executed
    /\ \A c \in Clients : Within(c, "save") =>
          /\ Dialogue[c].arg \in executed
          /\ Dialogue[c].phase = "open" => rows[Dialogue[c].arg.id] = None
          /\ \A d \in Clients \ {c} :
                Within(d, "save") => Dialogue[d].arg.id # Dialogue[c].arg.id

(* What a call has answered, and what a read of an acknowledged run finds. *)
AnswersHold ==
    \A c \in Clients :
        LET d == Dialogue[c]
        IN  /\ Within(c, "save") /\ d.phase = "answered" =>
                  /\ d.answer.kind \in {"stored", "failed"}
                  /\ d.answer.kind = "stored" => rows[d.arg.id] = d.arg
            /\ Within(c, "get") /\ d.phase = "answered" =>
                  /\ d.answer.kind \in {"found", "missing", "failed"}
                  /\ requests[c].known # {} => d.answer.kind # "missing"
            /\ Within(c, "get") /\ requests[c].known # {} => rows[d.arg] # None
            /\ requests[c].status # 409

(* A run for which the service has answered 201 is in the store with its   *)
(* events, and stays there through every later request and restart         *)
(* (create_run, save).                                                     *)
AcknowledgedStays ==
    \A r \in acked : rows[r.id] = r /\ EventsAgree(r)

(* A run that was acknowledged before a read came in is found by it, unless *)
(* the database is busy: it is neither missing nor taken for corrupt; and  *)
(* no POST meets a conflict (get_run, get_events, create_run).             *)
AcknowledgedIsServed ==
    \A c \in Clients :
        /\ requests[c].known # {} /\ At(c, "done") => calls[c].answer.kind \in {"found", "busy"}
        /\ requests[c].status # 409

(* The inductive invariant of the service.                                 *)
ServiceInv ==
    /\ StoreInv
    /\ ServiceTypeOK
    /\ CallsAreRequests
    /\ FreshIdentifiers
    /\ AnswersHold
    /\ \A r \in acked : rows[r.id] = r
=============================================================================
