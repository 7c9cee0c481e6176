------------------------------ MODULE RunStore ------------------------------
(***************************************************************************)
(* SQLiteRunStore of src/control_gate/persistence.py: save, get and events *)
(* as the statements they send to SQLite, from threads and processes that  *)
(* share one database file.  save is one transaction that takes the write  *)
(* lock first (BEGIN IMMEDIATE); get reads the run and then its events     *)
(* with two statements that no transaction holds together.                 *)
(*                                                                         *)
(* A run is [id, content, events]: content is the rest of its payload, and *)
(* events the identifiers of its trajectory events in order.               *)
(***************************************************************************)
EXTENDS Integers, Sequences, FiniteSets

CONSTANTS
    None,
    Clients,    \* threads that use the store
    Processes,  \* the sets of them that may die together
    Ids,        \* run identifiers
    EventIds,   \* event identifiers
    Runs,       \* the runs that they save
    MaxDamaged  \* bound: how many runs somebody else damages, once each

ASSUME ProcessesAssumption == Processes \subseteq SUBSET Clients

ASSUME RunsAssumption ==
    \A r \in Runs : r.id \in Ids /\ r.events \in Seq(EventIds)

ASSUME NoneAssumption == None \notin Runs \cup Clients

VARIABLES
    rows,       \* the table runs: Ids -> the run stored, or None
    eventRows,  \* the table trajectory_events
    skewed,     \* runs whose index columns differ from their payload
    damaged,    \* history: the runs that somebody else has written to
    txn,        \* the transaction that holds the write lock, if any
    calls       \* for each client, the call it is in

tables == <<rows, eventRows, skewed, damaged>>

vars == <<rows, eventRows, skewed, damaged, txn, calls>>

Idle == [pc |-> "idle", op |-> None, arg |-> None, seen |-> None, answer |-> None]

NoTransaction == [holder |-> None, runs |-> {}, events |-> {}]

Init ==
    /\ rows = [id \in Ids |-> None]
    /\ eventRows = {} /\ skewed = {} /\ damaged = {}
    /\ txn = NoTransaction
    /\ calls = [c \in Clients |-> Idle]

----------------------------------------------------------------------------
(* The event rows of a run, and whether the table holds exactly these.     *)

EventRows(r) ==
    {[run |-> r.id, seq |-> k, event |-> r.events[k]] : k \in DOMAIN r.events}

(* Variant of EventsAgree that compares the numbers of events.             *)
EventsCounted(r) ==
    Cardinality({e \in eventRows : e.run = r.id}) = Len(r.events)

EventsAgree(r) == {e \in eventRows : e.run = r.id} = EventRows(r)

(* _validated: no event twice; the sequence numbers are the positions.     *)
Valid(r) == \A j, k \in DOMAIN r.events : r.events[j] = r.events[k] => j = k

(* event_id is UNIQUE in the whole table.                                  *)
Clashes(r) == \E e \in eventRows, k \in DOMAIN r.events : e.event = r.events[k]

At(c, pc) == calls[c].pc = pc

Goto(c, pc) == calls' = [calls EXCEPT ![c].pc = pc]

Done(c, kind, run) ==
    calls' = [calls EXCEPT ![c].pc = "done", ![c].answer = [kind |-> kind, run |-> run]]

(* sqlite3.OperationalError and IntegrityError, RunCorruptionError for a   *)
(* run that is not valid, and RunCorruptionError for a damaged run.        *)
Failures == {"busy", "clash", "invalid", "damaged"}

(* RunCorruptionError for what the tables hold: "corrupt" if nobody has    *)
(* damaged the run.                                                        *)
Corruption(id) == IF id \in damaged THEN "damaged" ELSE "corrupt"

Failed(c, kind) == Done(c, kind, None)

----------------------------------------------------------------------------
(* save.                                                                   *)

Save(c, r) ==
    /\ At(c, "idle")
    /\ calls' = [calls EXCEPT ![c] = [Idle EXCEPT !.pc = "validate", !.op = "save",
                                                  !.arg = r]]
    /\ UNCHANGED <<tables, txn>>

Validate(c) ==
    /\ At(c, "validate")
    /\ IF Valid(calls[c].arg) THEN Goto(c, "begin") ELSE Failed(c, "invalid")
    /\ UNCHANGED <<tables, txn>>

Begin(c) ==
    /\ At(c, "begin") /\ txn.holder = None
    /\ txn' = [NoTransaction EXCEPT !.holder = c]
    /\ Goto(c, "select")
    /\ UNCHANGED tables

(* The lock is not free within SQLite's timeout.                           *)
Busy(c) ==
    /\ At(c, "begin") /\ txn.holder # None
    /\ Failed(c, "busy")
    /\ UNCHANGED <<tables, txn>>

(* Variant of Select that reports a conflict without ending the            *)
(* transaction.                                                            *)
SelectKeepingLock(c) ==
    LET stored == rows[calls[c].arg.id]
    IN  /\ At(c, "select")
        /\ IF stored = None THEN Goto(c, "insert_run")
           ELSE IF stored = calls[c].arg THEN Goto(c, "compare")
           ELSE Done(c, "conflict", None)
        /\ UNCHANGED <<tables, txn>>

Select(c) ==
    LET stored == rows[calls[c].arg.id]
    IN  /\ At(c, "select")
        /\ IF stored = None THEN Goto(c, "insert_run") /\ UNCHANGED txn
           ELSE IF stored = calls[c].arg THEN Goto(c, "compare") /\ UNCHANGED txn
           ELSE Done(c, "conflict", None) /\ txn' = NoTransaction
        /\ UNCHANGED tables

Compare(c) ==
    /\ At(c, "compare")
    /\ IF EventsAgree(calls[c].arg) THEN Done(c, "stored", calls[c].arg)
       ELSE Failed(c, Corruption(calls[c].arg.id))
    /\ txn' = NoTransaction
    /\ UNCHANGED tables

(* Variant of InsertRun that is not part of the transaction.               *)
InsertRunAtOnce(c) ==
    /\ At(c, "insert_run")
    /\ rows' = [rows EXCEPT ![calls[c].arg.id] = calls[c].arg]
    /\ txn' = [txn EXCEPT !.runs = {calls[c].arg}]
    /\ Goto(c, "insert_events")
    /\ UNCHANGED <<eventRows, skewed, damaged>>

InsertRun(c) ==
    /\ At(c, "insert_run")
    /\ txn' = [txn EXCEPT !.runs = {calls[c].arg}]
    /\ Goto(c, "insert_events")
    /\ UNCHANGED tables

(* A clash of event identifiers rolls the whole transaction back.          *)
InsertEvents(c) ==
    /\ At(c, "insert_events")
    /\ IF Clashes(calls[c].arg)
       THEN Failed(c, "clash") /\ txn' = NoTransaction
       ELSE Goto(c, "commit") /\ txn' = [txn EXCEPT !.events = EventRows(calls[c].arg)]
    /\ UNCHANGED tables

Inserted(runs) ==
    [id \in Ids |-> IF \E r \in runs : r.id = id
                    THEN CHOOSE r \in runs : r.id = id ELSE rows[id]]

(* Variant of CommittedEvents that commits only the run.                   *)
NoEvents(events) == eventRows

CommittedEvents(events) == eventRows \cup events

Commit(c) ==
    /\ At(c, "commit")
    /\ rows' = Inserted(txn.runs)
    /\ eventRows' = CommittedEvents(txn.events)
    /\ txn' = NoTransaction
    /\ Done(c, "stored", calls[c].arg)
    /\ UNCHANGED <<skewed, damaged>>

(* Readers keep the commit out for longer than SQLite's timeout.           *)
CommitBusy(c) ==
    /\ At(c, "commit")
    /\ \E reader \in Clients : At(reader, "row") \/ At(reader, "events")
    /\ Failed(c, "busy")
    /\ txn' = NoTransaction
    /\ UNCHANGED tables

----------------------------------------------------------------------------
(* get, and events, which returns the events of what get returns.          *)

Get(c, id) ==
    /\ At(c, "idle")
    /\ calls' = [calls EXCEPT ![c] = [Idle EXCEPT !.pc = "row", !.op = "get",
                                                  !.arg = id]]
    /\ UNCHANGED <<tables, txn>>

ReadRow(c) ==
    LET stored == rows[calls[c].arg]
    IN  /\ At(c, "row")
        /\ IF stored = None THEN Done(c, "missing", None)
           ELSE IF calls[c].arg \in skewed THEN Failed(c, Corruption(calls[c].arg))
           ELSE calls' = [calls EXCEPT ![c].pc = "events", ![c].seen = stored]
        /\ UNCHANGED <<tables, txn>>

ReadEvents(c) ==
    /\ At(c, "events")
    /\ IF EventsAgree(calls[c].seen) THEN Done(c, "found", calls[c].seen)
       ELSE Failed(c, Corruption(calls[c].arg))
    /\ UNCHANGED <<tables, txn>>

(* A commit keeps readers out for longer than SQLite's timeout.            *)
ReadBusy(c) ==
    /\ At(c, "row") \/ At(c, "events")
    /\ Failed(c, "busy")
    /\ UNCHANGED <<tables, txn>>

----------------------------------------------------------------------------
Return(c) ==
    /\ At(c, "done")
    /\ calls' = [calls EXCEPT ![c] = Idle]
    /\ UNCHANGED <<tables, txn>>

(* A process dies; SQLite rolls back the transaction it was in.            *)
Crash(dead) ==
    /\ calls' = [c \in Clients |-> IF c \in dead THEN Idle ELSE calls[c]]
    /\ txn' = IF txn.holder \in dead THEN NoTransaction ELSE txn
    /\ UNCHANGED tables

(* What a client does next in the call it is in.                           *)
Step(c) ==
    \/ Validate(c) \/ Begin(c) \/ Busy(c) \/ Select(c) \/ Compare(c)
    \/ InsertRun(c) \/ InsertEvents(c) \/ Commit(c) \/ CommitBusy(c)
    \/ ReadRow(c) \/ ReadEvents(c) \/ ReadBusy(c)

Next ==
    \/ \E c \in Clients :
        \/ \E r \in Runs : Save(c, r)
        \/ \E id \in Ids : Get(c, id)
        \/ Step(c) \/ Return(c)
    \/ \E dead \in Processes : Crash(dead)

Spec == Init /\ [][Next]_vars

----------------------------------------------------------------------------
(* Somebody else writes to the database file: an index column of a run, or *)
(* an event row, which is changed or deleted.                              *)

Damage ==
    /\ \E id \in Ids :
        /\ rows[id] # None /\ Cardinality(damaged) < MaxDamaged
        /\ damaged' = damaged \cup {id}
        /\ \/ skewed' = skewed \cup {id} /\ UNCHANGED eventRows
           \/ \E e \in eventRows :
                /\ e.run = id
                /\ \E put \in {{}, {[e EXCEPT !.event = None]}} :
                      eventRows' = (eventRows \ {e}) \cup put
                /\ UNCHANGED skewed
    /\ UNCHANGED <<rows, txn, calls>>

DamagedSpec == Init /\ [][Next \/ Damage]_vars

----------------------------------------------------------------------------
(* Properties.                                                             *)

(* Where a call holds the write lock.                                      *)
Writing == {"select", "compare", "insert_run", "insert_events", "commit"}

(* Every piece of the store's state has its type.  Only Damage skews a run *)
(* or leaves an event row without its identifier.                          *)
SavePoints == {"validate", "begin", "select", "compare", "insert_run", "insert_events",
               "commit"}

GetPoints == {"row", "events"}

SaveCalls ==
    [pc : SavePoints, op : {"save"}, arg : Runs, seen : {None}, answer : {None}]
    \cup [pc : {"done"}, op : {"save"}, arg : Runs, seen : {None},
          answer : [kind : Failures \cup {"stored", "conflict"}, run : Runs \cup {None}]]

GetCalls ==
    [pc : GetPoints, op : {"get"}, arg : Ids, seen : Runs \cup {None}, answer : {None}]
    \cup [pc : {"done"}, op : {"get"}, arg : Ids, seen : Runs \cup {None},
          answer : [kind : {"busy", "found", "missing", "damaged"}, run : Runs \cup {None}]]

Transactions ==
    [holder : Clients \cup {None}, runs : SUBSET Runs,
     events : SUBSET [run : Ids, seq : Nat, event : EventIds]]

StoreTypeOK ==
    /\ rows \in [Ids -> Runs \cup {None}]
    /\ \A id \in Ids : rows[id] # None => rows[id].id = id
    /\ eventRows \subseteq [run : Ids, seq : Nat, event : EventIds \cup {None}]
    /\ skewed \subseteq damaged /\ damaged \subseteq Ids
    /\ txn \in Transactions
    /\ calls \in [Clients -> {Idle} \cup SaveCalls \cup GetCalls]

(* A transaction that is under way belongs to a call that is between its   *)
(* BEGIN and its end: no way out of save keeps the lock, and what the      *)
(* transaction has inserted is what its call has to save.                  *)
LockBelongsToCall ==
    /\ txn.holder = None => txn = NoTransaction
    /\ \A c \in Clients :
          txn.holder = c <=> calls[c].pc \in Writing

(* The events of a stored run are stored with it, and no others are,       *)
(* unless somebody else has damaged it (save).                             *)
TablesAgree ==
    /\ \A id \in Ids \ damaged : rows[id] # None => EventsAgree(rows[id])
    /\ \A e \in eventRows : rows[e.run] # None

(* A call that writes has found its identifier free, and its transaction   *)
(* holds what the call has to save; one that compares has found its run.   *)
TransactionHolds ==
    \A c \in Clients :
        LET run == calls[c].arg
        IN  /\ calls[c].pc \in {"insert_run", "insert_events", "commit"} =>
                  rows[run.id] = None
            /\ calls[c].pc \in {"insert_events", "commit"} => txn.runs = {run}
            /\ calls[c].pc = "commit" => txn.events = EventRows(run)
            /\ calls[c].pc = "compare" => rows[run.id] = run

(* What a reader took from the first table is still there when it turns to *)
(* the second.                                                             *)
ReaderHolds ==
    \A c \in Clients :
        calls[c].pc = "events" =>
            calls[c].seen # None /\ rows[calls[c].arg] = calls[c].seen

(* A call that is told of damage is about a run that was damaged.          *)
About(call) == IF call.op = "get" THEN call.arg ELSE call.arg.id

ToldOfDamage(call) == call.pc = "done" /\ call.answer.kind = "damaged"

DamageIsReal ==
    \A c \in Clients : ToldOfDamage(calls[c]) => About(calls[c]) \in damaged

(* The inductive invariant of the store, with and without damage.          *)
StoreInv ==
    /\ StoreTypeOK
    /\ LockBelongsToCall
    /\ TablesAgree
    /\ TransactionHolds
    /\ ReaderHolds
    /\ DamageIsReal

(* A call and its answer as a caller sees them.                            *)
Phase(call) ==
    IF call.pc = "idle" THEN "idle" ELSE IF call.pc = "done" THEN "answered" ELSE "open"

Told(call) ==
    IF call.pc = "done" /\ call.answer.kind \in Failures
    THEN [call.answer EXCEPT !.kind = "failed"] ELSE call.answer

View(call) ==
    [phase |-> Phase(call), op |-> call.op, arg |-> call.arg, answer |-> Told(call)]

Dialogue == [c \in Clients |-> View(calls[c])]

Archive == INSTANCE RunArchive WITH archive <- rows, dialogue <- Dialogue

(* The store is the archive: its statements, locks, readers and crashes    *)
(* are what RunArchive lets happen.  In particular a read that overlaps a  *)
(* save never finds half of it, and only a run that was damaged is ever    *)
(* reported as corrupt: "corrupt" is none of the Failures.                 *)
ImplementsArchive == Archive!Spec

(* A database whose event rows were changed or deleted is never served and *)
(* never taken for the same run saved again (get, _assert_events).         *)
DamageIsReported ==
    [][ \A c \in Clients :
          /\ calls[c].answer = None
          /\ calls'[c].answer # None /\ calls'[c].answer.kind \in {"found", "stored"}
          => LET run == calls'[c].answer.run
             IN  {e \in eventRows' : e.run = run.id}
                   = {[run |-> run.id, seq |-> k, event |-> run.events[k]] :
                        k \in DOMAIN run.events} ]_vars
=============================================================================
