-------------------------- MODULE RunServiceProofs --------------------------
(***************************************************************************)
(* SQLiteRunStore keeps its two tables in agreement and its lock with the  *)
(* call that took it, never serves a run whose rows somebody else has      *)
(* damaged, and implements RunArchive; and a run for which the HTTP        *)
(* service has answered 201 is in the database with its events and is      *)
(* found by every later read: for any number of threads, processes, runs,  *)
(* events and restarts, and of damaged runs in the store.                  *)
(*                                                                         *)
(* The argument about the store rests on StoreInv: what a writer reads     *)
(* after BEGIN IMMEDIATE stays true up to its COMMIT, since nobody else    *)
(* can write, and what a reader takes from the table of runs stays true up *)
(* to its second statement, since no statement changes a run that is       *)
(* stored.  Damage takes the agreement away from the runs it hits, and     *)
(* from no other.  The argument about the service is about the archive     *)
(* that the store implements: a thread's call is the call of its request,  *)
(* the identifier of an execution is fresh, so that its save cannot meet a *)
(* conflict, and what an answer says of the archive stays true.            *)
(***************************************************************************)
EXTENDS RunService, TLAPS

Call == {Idle} \cup SaveCalls \cup GetCalls

----------------------------------------------------------------------------
(* Steps of one call.                                                      *)

(* A step that touches neither the tables nor the lock keeps the           *)
(* invariant, if the call is not one that holds the lock.                  *)
LEMMA QuietCall ==
    ASSUME StoreInv, NEW c \in Clients, NEW call \in Call,
           calls[c].pc \notin Writing,
           calls' = [calls EXCEPT ![c] = call],
           UNCHANGED <<tables, txn>>,
           call.pc \notin Writing,
           call.pc = "events" => call.seen # None /\ rows[call.arg] = call.seen,
           ToldOfDamage(call) => About(call) \in damaged
    PROVE  StoreInv'
<1> USE DEF StoreInv, Call, tables
<1>1. StoreTypeOK'
  BY DEF StoreTypeOK
<1>2. LockBelongsToCall'
  BY DEF LockBelongsToCall, StoreTypeOK
<1>3. TablesAgree'
  BY DEF TablesAgree, EventsAgree
<1>4. TransactionHolds'
  <2> SUFFICES ASSUME NEW d \in Clients
               PROVE  LET run == calls'[d].arg
                      IN  /\ calls'[d].pc \in {"insert_run", "insert_events", "commit"} =>
                                rows[run.id] = None
                          /\ calls'[d].pc \in {"insert_events", "commit"} => txn.runs = {run}
                          /\ calls'[d].pc = "commit" => txn.events = EventRows(run)
                          /\ calls'[d].pc = "compare" => rows[run.id] = run
    BY DEF TransactionHolds
  <2>1. CASE d = c
    BY <2>1 DEF StoreTypeOK, Writing
  <2>2. CASE d # c
    BY <2>2 DEF StoreTypeOK, TransactionHolds
  <2> QED BY <2>1, <2>2
<1>5. ReaderHolds'
  BY DEF ReaderHolds, StoreTypeOK
<1>6. DamageIsReal'
  <2>1. \A d \in Clients : calls'[d] = IF d = c THEN call ELSE calls[d]
    BY DEF StoreTypeOK
  <2> QED BY <2>1 DEF DamageIsReal
<1> QED BY <1>1, <1>2, <1>3, <1>4, <1>5, <1>6

(* So does a step of the holder that gives the lock back and writes        *)
(* nothing.                                                                *)
LEMMA EndingCall ==
    ASSUME StoreInv, NEW c \in Clients, NEW call \in Call,
           txn.holder = c, txn' = NoTransaction,
           calls' = [calls EXCEPT ![c] = call],
           UNCHANGED tables,
           call.pc \in {"idle", "done"},
           ToldOfDamage(call) => About(call) \in damaged
    PROVE  StoreInv'
<1> USE DEF StoreInv, Call, tables
<1>1. StoreTypeOK'
  BY DEF StoreTypeOK, NoTransaction, Transactions
<1>2. LockBelongsToCall'
  <2>1. None \notin Clients
    BY NoneAssumption
  <2>2. \A d \in Clients \ {c} : calls[d].pc \notin Writing
    BY DEF LockBelongsToCall
  <2>3. \A d \in Clients : calls'[d].pc \notin Writing
    BY <2>2 DEF StoreTypeOK, Writing
  <2> QED BY <2>1, <2>3 DEF LockBelongsToCall, NoTransaction
<1>3. TablesAgree'
  BY DEF TablesAgree, EventsAgree
<1>4. TransactionHolds'
  <2>1. \A d \in Clients \ {c} : calls[d].pc \notin Writing
    BY DEF LockBelongsToCall
  <2>2. \A d \in Clients : calls'[d].pc \notin Writing
    BY <2>1 DEF StoreTypeOK, Writing
  <2> QED BY <2>2 DEF TransactionHolds, Writing
<1>5. ReaderHolds'
  BY DEF ReaderHolds, StoreTypeOK
<1>6. DamageIsReal'
  <2>1. \A d \in Clients : calls'[d] = IF d = c THEN call ELSE calls[d]
    BY DEF StoreTypeOK
  <2> QED BY <2>1 DEF DamageIsReal
<1> QED BY <1>1, <1>2, <1>3, <1>4, <1>5, <1>6

(* And so does one that goes on with its transaction without touching the  *)
(* tables, if it makes true what the next statement relies on.             *)
LEMMA AdvancingCall ==
    ASSUME StoreInv, NEW c \in Clients, NEW call \in SaveCalls,
           txn.holder \in {None, c}, txn' \in Transactions, txn'.holder = c,
           calls' = [calls EXCEPT ![c] = call],
           UNCHANGED tables,
           call.pc \in Writing,
           call.pc \in {"insert_run", "insert_events", "commit"} => rows[call.arg.id] = None,
           call.pc \in {"insert_events", "commit"} => txn'.runs = {call.arg},
           call.pc = "commit" => txn'.events = EventRows(call.arg),
           call.pc = "compare" => rows[call.arg.id] = call.arg
    PROVE  StoreInv'
<1> USE DEF StoreInv, tables
<1>1. StoreTypeOK'
  BY DEF StoreTypeOK
<1>a. \A d \in Clients \ {c} : calls'[d].pc \notin Writing /\ calls'[d] = calls[d]
  BY NoneAssumption DEF LockBelongsToCall, StoreTypeOK
<1>b. calls'[c] = call
  BY DEF StoreTypeOK
<1>2. LockBelongsToCall'
  BY <1>a, <1>b, NoneAssumption DEF LockBelongsToCall
<1>3. TablesAgree'
  BY DEF TablesAgree, EventsAgree
<1>4. TransactionHolds'
  BY <1>a, <1>b DEF TransactionHolds, Writing
<1>5. ReaderHolds'
  BY <1>a, <1>b DEF ReaderHolds, Writing
<1>6. DamageIsReal'
  BY <1>a, <1>b DEF DamageIsReal, ToldOfDamage, Writing
<1> QED BY <1>1, <1>2, <1>3, <1>4, <1>5, <1>6

----------------------------------------------------------------------------
(* The invariant.                                                          *)

LEMMA InitHolds == Init => StoreInv
<1> SUFFICES ASSUME Init PROVE StoreInv
  OBVIOUS
<1> USE NoneAssumption DEF Init, Idle, NoTransaction
<1>1. StoreTypeOK
  BY DEF StoreTypeOK, Transactions
<1>2. LockBelongsToCall /\ TransactionHolds /\ ReaderHolds /\ DamageIsReal
  BY DEF LockBelongsToCall, TransactionHolds, ReaderHolds, Writing, DamageIsReal,
         ToldOfDamage
<1>3. TablesAgree
  BY DEF TablesAgree
<1> QED BY <1>1, <1>2, <1>3 DEF StoreInv

(* What a call is, by the place it has reached.                            *)
LEMMA CallAt ==
    ASSUME StoreTypeOK, NEW c \in Clients
    PROVE  /\ calls[c] \in Call
           /\ calls[c].pc \in {"validate"} \cup {"begin"} \cup Writing => calls[c] \in SaveCalls
           /\ calls[c].pc \in {"row", "events"} => calls[c] \in GetCalls
BY DEF StoreTypeOK, Call, SaveCalls, GetCalls, SavePoints, GetPoints, Writing, Idle

(* Beginning a call, and its steps outside the transaction.                *)
LEMMA OutsideKeeps ==
    ASSUME StoreInv, NEW c \in Clients,
           \/ \E r \in Runs : Save(c, r)
           \/ \E id \in Ids : Get(c, id)
           \/ Validate(c) \/ Busy(c) \/ ReadRow(c) \/ ReadEvents(c) \/ ReadBusy(c)
           \/ Return(c)
    PROVE  StoreInv'
<1>1. StoreTypeOK /\ calls[c] \in Call
  BY CallAt DEF StoreInv
<1> USE DEF At, Failed, Done, Goto, Failures
<1>2. ASSUME NEW r \in Runs, Save(c, r) PROVE StoreInv'
  <2> DEFINE call == [Idle EXCEPT !.pc = "validate", !.op = "save", !.arg = r]
  <2>1. call \in Call /\ call.pc = "validate"
    BY DEF Call, SaveCalls, SavePoints, GetPoints, Idle
  <2> QED BY <1>2, <2>1, QuietCall DEF Save, Writing, ToldOfDamage
<1>3. ASSUME NEW id \in Ids, Get(c, id) PROVE StoreInv'
  <2> DEFINE call == [Idle EXCEPT !.pc = "row", !.op = "get", !.arg = id]
  <2>1. call \in Call /\ call.pc = "row"
    BY DEF Call, GetCalls, SavePoints, GetPoints, Idle
  <2> QED BY <1>3, <2>1, QuietCall DEF Get, Writing, ToldOfDamage
<1>a. ASSUME calls[c] \in GetCalls, calls[c].pc \in {"row", "events"},
              Failed(c, "damaged"), UNCHANGED <<tables, txn>>, calls[c].arg \in damaged
       PROVE  StoreInv'
  <2> DEFINE call == [calls[c] EXCEPT !.pc = "done",
                                      !.answer = [kind |-> "damaged", run |-> None]]
  <2>1. call \in Call /\ call.pc = "done" /\ About(call) = calls[c].arg
    BY <1>a DEF Call, GetCalls, SavePoints, GetPoints, About
  <2>2. calls' = [calls EXCEPT ![c] = call]
    BY <1>1, <1>a DEF StoreTypeOK
  <2> HIDE DEF call
  <2> QED BY <1>a, <2>1, <2>2, QuietCall DEF Writing
<1>4. CASE Validate(c)
  <2>1. calls[c] \in SaveCalls /\ calls[c].pc = "validate"
    BY <1>1, <1>4, CallAt DEF Validate
  <2>2. PICK call \in SaveCalls : call.pc \in {"begin", "done"} /\ ~ToldOfDamage(call)
                                  /\ calls' = [calls EXCEPT ![c] = call]
    <3>1. CASE Valid(calls[c].arg)
      <4> DEFINE call == [calls[c] EXCEPT !.pc = "begin"]
      <4>1. call \in SaveCalls /\ call.pc = "begin" /\ ~ToldOfDamage(call)
        BY <2>1 DEF SaveCalls, SavePoints, GetPoints, ToldOfDamage
      <4>2. calls' = [calls EXCEPT ![c] = call]
        BY <1>1, <1>4, <3>1 DEF Validate, StoreTypeOK
      <4> QED BY <4>1, <4>2
    <3>2. CASE ~Valid(calls[c].arg)
      <4> DEFINE call == [calls[c] EXCEPT !.pc = "done",
                                          !.answer = [kind |-> "invalid", run |-> None]]
      <4>1. call \in SaveCalls /\ call.pc = "done" /\ ~ToldOfDamage(call)
        BY <2>1 DEF SaveCalls, SavePoints, GetPoints, ToldOfDamage
      <4>2. calls' = [calls EXCEPT ![c] = call]
        BY <1>1, <1>4, <3>2 DEF Validate, StoreTypeOK
      <4> QED BY <4>1, <4>2
    <3> QED BY <3>1, <3>2
  <2> QED BY <1>4, <2>1, <2>2, QuietCall DEF Validate, Call, Writing
<1>5. CASE Busy(c)
  <2> DEFINE call == [calls[c] EXCEPT !.pc = "done",
                                      !.answer = [kind |-> "busy", run |-> None]]
  <2>1. call \in Call /\ call.pc = "done" /\ calls[c].pc = "begin" /\ ~ToldOfDamage(call)
    BY <1>1, <1>5, CallAt DEF Busy, Call, SaveCalls, SavePoints, GetPoints, ToldOfDamage
  <2>2. calls' = [calls EXCEPT ![c] = call]
    BY <1>1, <1>5 DEF Busy, StoreTypeOK
  <2> QED BY <1>5, <2>1, <2>2, QuietCall DEF Busy, Writing
<1>6. CASE ReadRow(c)
  <2>1. calls[c] \in GetCalls /\ calls[c].pc = "row"
    BY <1>1, <1>6, CallAt DEF ReadRow
  <2>2. calls[c].arg \in Ids /\ rows[calls[c].arg] \in Runs \cup {None}
    BY <1>1, <2>1 DEF StoreTypeOK, GetCalls
  <2>3. CASE rows[calls[c].arg] = None
    <3> DEFINE call == [calls[c] EXCEPT !.pc = "done",
                                        !.answer = [kind |-> "missing", run |-> None]]
    <3>1. call \in Call /\ call.pc = "done" /\ ~ToldOfDamage(call)
      BY <2>1 DEF Call, GetCalls, SavePoints, GetPoints, ToldOfDamage
    <3>2. calls' = [calls EXCEPT ![c] = call]
      BY <1>1, <1>6, <2>3 DEF ReadRow, StoreTypeOK
    <3> QED BY <1>6, <2>1, <3>1, <3>2, QuietCall DEF ReadRow, Writing
  <2>4. CASE rows[calls[c].arg] # None /\ calls[c].arg \notin skewed
    <3> DEFINE call == [calls[c] EXCEPT !.pc = "events", !.seen = rows[calls[c].arg]]
    <3>1. call \in Call /\ call.pc = "events" /\ call.seen = rows[call.arg]
          /\ call.seen # None
      BY <2>1, <2>2, <2>4 DEF Call, GetCalls, SavePoints, GetPoints
    <3>2. calls' = [calls EXCEPT ![c] = call]
      BY <1>1, <1>6, <2>2, <2>4 DEF ReadRow, StoreTypeOK
    <3>3. UNCHANGED <<tables, txn>> /\ calls[c].pc \notin Writing
      BY <1>6, <2>1 DEF ReadRow, Writing
    <3> HIDE DEF call
    <3> QED BY <3>1, <3>2, <3>3, QuietCall DEF Writing, ToldOfDamage
  <2>5. CASE rows[calls[c].arg] # None /\ calls[c].arg \in skewed
    <3>1. Failed(c, "damaged") /\ UNCHANGED <<tables, txn>> /\ calls[c].arg \in damaged
      BY <1>1, <1>6, <2>5 DEF ReadRow, Corruption, StoreTypeOK
    <3> QED BY <1>a, <2>1, <3>1
  <2> QED BY <2>3, <2>4, <2>5
<1>7. CASE ReadEvents(c)
  <2>1. calls[c] \in GetCalls /\ calls[c].pc = "events"
    BY <1>1, <1>7, CallAt DEF ReadEvents
  <2>2. /\ calls[c].seen \in Runs
        /\ calls[c].arg \notin damaged => EventsAgree(calls[c].seen)
    BY <1>1, <2>1 DEF StoreInv, ReaderHolds, StoreTypeOK, TablesAgree, GetCalls
  <2>3. CASE EventsAgree(calls[c].seen)
    <3> DEFINE call == [calls[c] EXCEPT !.pc = "done",
                            !.answer = [kind |-> "found", run |-> calls[c].seen]]
    <3>1. call \in Call /\ call.pc = "done" /\ ~ToldOfDamage(call)
      BY <2>1, <2>2 DEF Call, GetCalls, SavePoints, GetPoints, ToldOfDamage
    <3>2. calls' = [calls EXCEPT ![c] = call]
      BY <1>1, <1>7, <2>3 DEF ReadEvents, StoreTypeOK
    <3> QED BY <1>7, <2>1, <3>1, <3>2, QuietCall DEF ReadEvents, Writing
  <2>4. CASE ~EventsAgree(calls[c].seen)
    BY <1>7, <1>a, <2>1, <2>2, <2>4 DEF ReadEvents, Corruption
  <2> QED BY <2>3, <2>4
<1>8. CASE ReadBusy(c)
  <2> DEFINE call == [calls[c] EXCEPT !.pc = "done",
                                      !.answer = [kind |-> "busy", run |-> None]]
  <2>1. call \in Call /\ call.pc = "done" /\ calls[c].pc \in {"row", "events"}
        /\ ~ToldOfDamage(call)
    BY <1>1, <1>8, CallAt DEF ReadBusy, Call, GetCalls, SavePoints, GetPoints, ToldOfDamage
  <2>2. calls' = [calls EXCEPT ![c] = call]
    BY <1>1, <1>8 DEF ReadBusy, StoreTypeOK
  <2> QED BY <1>8, <2>1, <2>2, QuietCall DEF ReadBusy, Writing
<1>9. CASE Return(c)
  BY <1>9, QuietCall DEF Return, Writing, Call, Idle, ToldOfDamage
<1> QED BY <1>2, <1>3, <1>4, <1>5, <1>6, <1>7, <1>8, <1>9

(* Its steps inside the transaction, up to COMMIT.                         *)
LEMMA InsideKeeps ==
    ASSUME StoreInv, NEW c \in Clients,
           \/ Begin(c) \/ Select(c) \/ Compare(c) \/ InsertRun(c) \/ InsertEvents(c)
           \/ CommitBusy(c)
    PROVE  StoreInv'
<1> DEFINE run == calls[c].arg
           Ended(kind, r) == [calls[c] EXCEPT !.pc = "done",
                                              !.answer = [kind |-> kind, run |-> r]]
           At2(pc) == [calls[c] EXCEPT !.pc = pc]
<1>1. StoreTypeOK /\ calls[c].pc \in {"begin"} \cup Writing /\ calls[c] \in SaveCalls
  BY CallAt DEF StoreInv, At, Writing, Begin, Select, Compare, InsertRun, InsertEvents,
                CommitBusy
<1>2. run \in Runs /\ run.id \in Ids /\ rows[run.id] \in Runs \cup {None}
  BY <1>1, RunsAssumption DEF SaveCalls, StoreTypeOK
<1>3. calls[c].pc # "begin" => txn.holder = c
  BY <1>1 DEF StoreInv, LockBelongsToCall
<1>4. \A kind \in Failures \cup {"stored", "conflict"}, r \in Runs \cup {None} :
         /\ Ended(kind, r) \in Call /\ Ended(kind, r).pc = "done"
         /\ Ended(kind, r).answer.kind = kind /\ About(Ended(kind, r)) = run.id
  BY <1>1 DEF Call, SaveCalls, SavePoints, GetPoints, About
<1>5. \A pc \in Writing : At2(pc) \in SaveCalls /\ At2(pc).pc = pc /\ At2(pc).arg = run
  BY <1>1 DEF SaveCalls, SavePoints, GetPoints, Writing
<1>6. calls \in [Clients -> {Idle} \cup SaveCalls \cup GetCalls]
  BY <1>1 DEF StoreTypeOK
<1>7. ASSUME NEW kind \in Failures \cup {"stored", "conflict"}, NEW r \in Runs \cup {None},
             Done(c, kind, r), txn.holder = c, txn' = NoTransaction, UNCHANGED tables,
             kind = "damaged" => run.id \in damaged
      PROVE  StoreInv'
  <2>1. calls' = [calls EXCEPT ![c] = Ended(kind, r)]
    BY <1>6, <1>7 DEF Done
  <2> HIDE DEF Ended
  <2> QED BY <1>4, <1>7, <2>1, EndingCall DEF ToldOfDamage
<1>8. ASSUME NEW pc \in Writing, Goto(c, pc), txn.holder \in {None, c},
             txn' \in Transactions, txn'.holder = c, UNCHANGED tables,
             pc \in {"insert_run", "insert_events", "commit"} => rows[run.id] = None,
             pc \in {"insert_events", "commit"} => txn'.runs = {run},
             pc = "commit" => txn'.events = EventRows(run),
             pc = "compare" => rows[run.id] = run
      PROVE  StoreInv'
  <2> DEFINE call == At2(pc)
  <2>1. calls' = [calls EXCEPT ![c] = call]
    BY <1>6, <1>8 DEF Goto
  <2>2. call \in SaveCalls /\ call.pc = pc /\ call.arg = run
    BY <1>5, <1>8
  <2> HIDE DEF call, run
  <2>3. call.pc \in Writing
    BY <1>8, <2>2
  <2>4. /\ call.pc \in {"insert_run", "insert_events", "commit"} => rows[call.arg.id] = None
        /\ call.pc \in {"insert_events", "commit"} => txn'.runs = {call.arg}
        /\ call.pc = "commit" => txn'.events = EventRows(call.arg)
        /\ call.pc = "compare" => rows[call.arg.id] = call.arg
    BY <1>8, <2>2
  <2> QED BY <1>8, <2>1, <2>2, <2>3, <2>4, AdvancingCall
<1> HIDE DEF Ended, At2
<1> USE DEF At
<1>t. txn \in Transactions
  BY <1>1 DEF StoreTypeOK
<1>9. CASE Begin(c)
  <2>1. txn' \in Transactions /\ txn'.holder = c
    BY <1>9 DEF Begin, NoTransaction, Transactions
  <2> QED BY <1>8, <1>9, <2>1 DEF Begin, Writing
<1>10. CASE Select(c)
  <2>1. calls[c].pc = "select" /\ txn.holder = c
    BY <1>3, <1>10 DEF Select
  <2>2. CASE rows[run.id] = None
    BY <1>t, <1>8, <1>10, <2>1, <2>2 DEF Select, Writing
  <2>3. CASE rows[run.id] # None /\ rows[run.id] = run
    BY <1>t, <1>8, <1>10, <2>1, <2>3 DEF Select, Writing
  <2>4. CASE rows[run.id] # None /\ rows[run.id] # run
    BY <1>7, <1>10, <2>1, <2>4 DEF Select
  <2> QED BY <2>2, <2>3, <2>4
<1>11. CASE Compare(c)
  <2>1. calls[c].pc = "compare" /\ txn.holder = c /\ rows[run.id] = run
    BY <1>3, <1>11 DEF Compare, StoreInv, TransactionHolds
  <2>2. run.id \notin damaged => EventsAgree(run)
    BY <1>2, <2>1, NoneAssumption DEF StoreInv, StoreTypeOK, TablesAgree
  <2>3. CASE EventsAgree(run)
    BY <1>2, <1>7, <1>11, <2>1, <2>3 DEF Compare
  <2>4. CASE ~EventsAgree(run)
    BY <1>7, <1>11, <2>1, <2>2, <2>4 DEF Compare, Failed, Failures, Corruption
  <2> QED BY <2>3, <2>4
<1>12. CASE InsertRun(c)
  <2>1. calls[c].pc = "insert_run" /\ txn.holder = c /\ rows[run.id] = None
    BY <1>3, <1>12 DEF InsertRun, StoreInv, TransactionHolds
  <2>2. txn' \in Transactions /\ txn'.holder = c /\ txn'.runs = {run}
    BY <1>t, <1>2, <1>12, <2>1 DEF InsertRun, Transactions
  <2> QED BY <1>8, <1>12, <2>1, <2>2 DEF InsertRun, Writing
<1>13. CASE InsertEvents(c)
  <2>1. calls[c].pc = "insert_events" /\ txn.holder = c /\ rows[run.id] = None
        /\ txn.runs = {run}
    BY <1>3, <1>13 DEF InsertEvents, StoreInv, TransactionHolds
  <2>2. CASE Clashes(run)
    BY <1>7, <1>13, <2>1, <2>2 DEF InsertEvents, Failed, Failures
  <2>3. CASE ~Clashes(run)
    <3>1. EventRows(run) \subseteq [run : Ids, seq : Nat, event : EventIds]
      BY <1>2, RunsAssumption DEF EventRows
    <3>2. txn' \in Transactions /\ txn'.holder = c /\ txn'.runs = {run}
          /\ txn'.events = EventRows(run)
      BY <1>t, <1>13, <2>1, <2>3, <3>1 DEF InsertEvents, Transactions
    <3> QED BY <1>8, <1>13, <2>1, <2>3, <3>2 DEF InsertEvents, Writing
  <2> QED BY <2>2, <2>3
<1>14. CASE CommitBusy(c)
  BY <1>3, <1>7, <1>14 DEF CommitBusy, Failed, Failures
<1> QED BY <1>9, <1>10, <1>11, <1>12, <1>13, <1>14

(* What COMMIT does to the tables.                                         *)
LEMMA CommitWrites ==
    ASSUME StoreInv, NEW c \in Clients, Commit(c)
    PROVE  LET run == calls[c].arg
           IN  /\ run \in Runs /\ run.id \in Ids
               /\ rows[run.id] = None
               /\ rows' = [rows EXCEPT ![run.id] = run]
               /\ eventRows' = eventRows \cup EventRows(run)
               /\ calls[c] \in SaveCalls /\ txn.holder = c
<1> DEFINE run == calls[c].arg
<1>1. calls[c].pc = "commit" /\ calls[c] \in SaveCalls /\ txn.holder = c
  BY CallAt DEF StoreInv, Commit, At, Writing, LockBelongsToCall
<1>2. run \in Runs /\ run.id \in Ids
  BY <1>1, RunsAssumption DEF SaveCalls
<1>3. rows[run.id] = None /\ txn.runs = {run} /\ txn.events = EventRows(run)
  BY <1>1 DEF StoreInv, TransactionHolds
<1>4. Inserted({run}) = [rows EXCEPT ![run.id] = run]
  <2>1. (CHOOSE r \in {run} : r.id = run.id) = run
    OBVIOUS
  <2>2. rows = [id \in Ids |-> rows[id]]
    BY DEF StoreInv, StoreTypeOK
  <2> QED BY <2>1, <2>2, <1>2 DEF Inserted
<1> QED BY <1>1, <1>2, <1>3, <1>4 DEF Commit, CommittedEvents

LEMMA CommitKeeps ==
    ASSUME StoreInv, NEW c \in Clients, Commit(c)
    PROVE  StoreInv'
<1> DEFINE run == calls[c].arg
           call == [calls[c] EXCEPT !.pc = "done",
                                    !.answer = [kind |-> "stored", run |-> run]]
<1>1. /\ run \in Runs /\ run.id \in Ids
      /\ rows[run.id] = None
      /\ rows' = [rows EXCEPT ![run.id] = run]
      /\ eventRows' = eventRows \cup EventRows(run)
      /\ calls[c] \in SaveCalls /\ txn.holder = c
  BY CommitWrites
<1>2. StoreTypeOK /\ LockBelongsToCall /\ TablesAgree /\ ReaderHolds
  BY DEF StoreInv
<1>3. call \in SaveCalls /\ call.pc = "done" /\ ~ToldOfDamage(call)
  BY <1>1 DEF SaveCalls, SavePoints, GetPoints, ToldOfDamage
<1>4. /\ calls' = [calls EXCEPT ![c] = call] /\ txn' = NoTransaction
      /\ skewed' = skewed /\ damaged' = damaged
  BY <1>2 DEF Commit, Done, StoreTypeOK
<1> HIDE DEF call
<1>5. \A d \in Clients : calls'[d].pc \notin Writing
                        /\ (calls'[d].pc = "events" => d # c /\ calls'[d] = calls[d])
  BY <1>1, <1>2, <1>3, <1>4 DEF LockBelongsToCall, StoreTypeOK, Writing
<1>6. /\ \A e \in EventRows(run) : e.run = run.id
      /\ EventRows(run) \subseteq [run : Ids, seq : Nat, event : EventIds \cup {None}]
  BY <1>1, RunsAssumption DEF EventRows
<1> HIDE DEF run
<1>7. StoreTypeOK'
  BY <1>1, <1>2, <1>3, <1>4, <1>6 DEF StoreTypeOK, NoTransaction, Transactions
<1>8. LockBelongsToCall'
  BY <1>4, <1>5, NoneAssumption DEF LockBelongsToCall, NoTransaction
<1>9. TablesAgree'
  <2>1. ASSUME NEW id \in Ids \ damaged, rows'[id] # None
        PROVE  {e \in eventRows' : e.run = rows'[id].id} = EventRows(rows'[id])
    <3>1. CASE id = run.id
      <4>1. \A e \in eventRows : e.run # run.id
        BY <1>1, <1>2 DEF TablesAgree
      <4>2. rows'[id] = run
        BY <1>1, <1>2, <3>1 DEF StoreTypeOK
      <4> QED BY <1>1, <1>6, <3>1, <4>1, <4>2
    <3>2. CASE id # run.id
      <4>1. rows'[id] = rows[id] /\ rows[id].id = id
        BY <1>1, <1>2, <2>1, <3>2 DEF StoreTypeOK
      <4>2. {e \in eventRows : e.run = rows[id].id} = EventRows(rows[id])
        BY <1>2, <2>1, <4>1 DEF StoreTypeOK, TablesAgree, EventsAgree
      <4> QED BY <1>1, <1>6, <3>2, <4>1, <4>2
    <3> QED BY <3>1, <3>2
  <2>2. \A id \in Ids \ damaged' : rows'[id] # None => EventsAgree(rows[id])'
    BY <1>4, <2>1 DEF EventsAgree, EventRows
  <2>3. \A e \in eventRows' : rows'[e.run] # None
    BY <1>1, <1>2, <1>6, NoneAssumption DEF TablesAgree, StoreTypeOK
  <2> QED BY <2>2, <2>3 DEF TablesAgree
<1>10. TransactionHolds'
  BY <1>5 DEF TransactionHolds, Writing
<1>11. ReaderHolds'
  <2> SUFFICES ASSUME NEW d \in Clients, calls'[d].pc = "events"
               PROVE  calls'[d].seen # None /\ rows'[calls'[d].arg] = calls'[d].seen
    BY DEF ReaderHolds
  <2>1. calls'[d] = calls[d] /\ calls[d] \in GetCalls /\ calls[d].pc = "events"
    BY <1>2, <1>5, CallAt
  <2>2. calls[d].seen # None /\ rows[calls[d].arg] = calls[d].seen /\ calls[d].arg \in Ids
    BY <1>2, <2>1 DEF ReaderHolds, GetCalls
  <2> QED BY <1>1, <1>2, <2>1, <2>2 DEF StoreTypeOK
<1>12. DamageIsReal'
  <2>1. \A d \in Clients : calls'[d] = IF d = c THEN call ELSE calls[d]
    BY <1>2, <1>4 DEF StoreTypeOK
  <2> QED BY <1>3, <1>4, <2>1 DEF DamageIsReal, StoreInv
<1> QED BY <1>7, <1>8, <1>9, <1>10, <1>11, <1>12 DEF StoreInv

LEMMA CrashKeeps ==
    ASSUME StoreInv, NEW dead \in Processes, Crash(dead)
    PROVE  StoreInv'
<1> USE DEF Crash, tables
<1>1. dead \subseteq Clients
  BY ProcessesAssumption
<1>2. StoreTypeOK /\ LockBelongsToCall /\ TablesAgree /\ TransactionHolds /\ ReaderHolds
  BY DEF StoreInv
<1>3. \A d \in Clients : calls'[d] = IF d \in dead THEN Idle ELSE calls[d]
  OBVIOUS
<1>4. StoreTypeOK'
  BY <1>1, <1>2 DEF StoreTypeOK, Transactions, NoTransaction
<1>5. LockBelongsToCall'
  BY <1>1, <1>2, <1>3, NoneAssumption DEF LockBelongsToCall, NoTransaction, Idle, Writing
<1>6. TablesAgree'
  BY <1>2 DEF TablesAgree, EventsAgree
<1>7. TransactionHolds'
  <2> SUFFICES ASSUME NEW d \in Clients, calls'[d].pc \in Writing
               PROVE  calls'[d] = calls[d] /\ txn' = txn
    BY <1>2 DEF TransactionHolds, Writing
  <2> QED BY <1>2, <1>3 DEF LockBelongsToCall, Idle, Writing
<1>8. ReaderHolds'
  BY <1>2, <1>3 DEF ReaderHolds, Idle
<1>9. DamageIsReal'
  BY <1>3 DEF DamageIsReal, StoreInv, ToldOfDamage, Idle
<1> QED BY <1>4, <1>5, <1>6, <1>7, <1>8, <1>9 DEF StoreInv

(* Whatever somebody else does to the event rows and the index columns of  *)
(* a run is damage to that run only.                                       *)
LEMMA DamageKeeps ==
    ASSUME StoreInv, Damage
    PROVE  StoreInv'
<1> USE DEF StoreInv
<1>1. PICK id \in Ids :
         /\ rows[id] # None /\ damaged' = damaged \cup {id}
         /\ \/ skewed' = skewed \cup {id} /\ eventRows' = eventRows
            \/ \E e \in eventRows :
                 /\ e.run = id
                 /\ \E put \in {{}, {[e EXCEPT !.event = None]}} :
                       eventRows' = (eventRows \ {e}) \cup put
                 /\ skewed' = skewed
  BY DEF Damage
<1>2. rows' = rows /\ txn' = txn /\ calls' = calls
  BY DEF Damage
<1>3. /\ eventRows' \subseteq [run : Ids, seq : Nat, event : EventIds \cup {None}]
      /\ \A e \in eventRows' : e \notin eventRows => e.run = id
      /\ \A e \in eventRows : e \notin eventRows' => e.run = id
  <2>1. CASE eventRows' = eventRows
    BY <2>1 DEF StoreTypeOK
  <2>2. ASSUME NEW e \in eventRows, e.run = id,
               NEW put \in {{}, {[e EXCEPT !.event = None]}},
               eventRows' = (eventRows \ {e}) \cup put
        PROVE  /\ eventRows' \subseteq [run : Ids, seq : Nat, event : EventIds \cup {None}]
               /\ \A g \in eventRows' : g \notin eventRows => g.run = id
               /\ \A g \in eventRows : g \notin eventRows' => g.run = id
    <3> DEFINE f == [e EXCEPT !.event = None]
    <3>1. e \in [run : Ids, seq : Nat, event : EventIds \cup {None}]
      BY DEF StoreTypeOK
    <3>2. f \in [run : Ids, seq : Nat, event : EventIds \cup {None}] /\ f.run = id
      BY <2>2, <3>1
    <3> HIDE DEF f
    <3> QED BY <2>2, <3>2 DEF StoreTypeOK, f
  <2> QED BY <1>1, <2>1, <2>2
<1>4. StoreTypeOK'
  BY <1>1, <1>2, <1>3 DEF StoreTypeOK
<1>5. LockBelongsToCall' /\ TransactionHolds' /\ ReaderHolds'
  BY <1>2 DEF LockBelongsToCall, TransactionHolds, EventRows, ReaderHolds
<1>6. TablesAgree'
  <2>1. ASSUME NEW other \in Ids \ damaged', rows[other] # None
        PROVE  {e \in eventRows' : e.run = rows[other].id} = EventRows(rows[other])
    <3>1. rows[other].id = other /\ other # id /\ other \notin damaged
      BY <1>1, <2>1 DEF StoreTypeOK
    <3>2. {e \in eventRows : e.run = rows[other].id} = EventRows(rows[other])
      BY <2>1, <3>1 DEF TablesAgree, EventsAgree
    <3> QED BY <1>3, <3>1, <3>2
  <2>2. \A e \in eventRows' : rows[e.run] # None
    BY <1>1, <1>3 DEF TablesAgree
  <2> QED BY <1>2, <2>1, <2>2 DEF TablesAgree, EventsAgree, EventRows
<1>7. DamageIsReal'
  BY <1>1, <1>2 DEF DamageIsReal
<1> QED BY <1>4, <1>5, <1>6, <1>7

LEMMA Inductive == StoreInv /\ [Next \/ Damage]_vars => StoreInv'
<1> SUFFICES ASSUME StoreInv, [Next \/ Damage]_vars PROVE StoreInv'
  OBVIOUS
<1>1. CASE UNCHANGED vars
  BY <1>1 DEF vars, tables, StoreInv, StoreTypeOK, LockBelongsToCall, TablesAgree,
              EventsAgree, TransactionHolds, ReaderHolds, DamageIsReal
<1>2. CASE Next
  BY <1>2, OutsideKeeps, InsideKeeps, CommitKeeps, CrashKeeps DEF Next, Step
<1>3. CASE Damage
  BY <1>3, DamageKeeps
<1> QED BY <1>1, <1>2, <1>3

(* Every state of the store satisfies its inductive invariant.             *)
LEMMA StoreInvariant == DamagedSpec => []StoreInv
BY InitHolds, Inductive, PTL DEF DamagedSpec

(* A run that nobody else has written to and its trajectory events are in  *)
(* the database together or not at all, whatever clients save, read and    *)
(* crash, in whatever order their statements are executed, and whatever is *)
(* done to other runs (SQLiteRunStore.save).                               *)
THEOREM TablesAlwaysAgree == DamagedSpec => []TablesAgree
<1>1. StoreInv => TablesAgree
  BY DEF StoreInv
<1> QED BY StoreInvariant, <1>1, PTL

(* The write lock belongs to a call that is between BEGIN IMMEDIATE and its *)
(* COMMIT or ROLLBACK: no way out of save leaves it behind, the discovery  *)
(* of damage included.                                                     *)
THEOREM LockAlwaysReturned == DamagedSpec => []LockBelongsToCall
<1>1. StoreInv => LockBelongsToCall
  BY DEF StoreInv
<1> QED BY StoreInvariant, <1>1, PTL

----------------------------------------------------------------------------
(* Damage is reported.                                                     *)

(* The answer that a step gives is given to the client that takes it.      *)
LEMMA AnswerIsGiven ==
    ASSUME StoreTypeOK, NEW c \in Clients, NEW kind, NEW run, Done(c, kind, run),
           NEW d \in Clients, calls[d].answer = None, calls'[d].answer # None
    PROVE  d = c /\ calls'[d].answer = [kind |-> kind, run |-> run]
<1>1. d = c
  BY DEF StoreTypeOK, Done
<1>2. "answer" \in DOMAIN calls[c]
  BY CallAt DEF Call, Idle, SaveCalls, GetCalls
<1> QED BY <1>1, <1>2 DEF StoreTypeOK, Done

(* A step that gives no answer.                                            *)
LEMMA NothingGiven ==
    ASSUME StoreTypeOK, NEW c \in Clients,
           \/ \E r \in Runs : Save(c, r)
           \/ \E id \in Ids : Get(c, id)
           \/ \E pc \in Writing \cup {"begin"} : Goto(c, pc)
           \/ \E run : calls' = [calls EXCEPT ![c].pc = "events", ![c].seen = run]
           \/ Return(c),
           NEW d \in Clients, calls[d].answer = None
    PROVE  calls'[d].answer = None
<1>1. calls \in [Clients -> Call]
  BY DEF StoreTypeOK, Call
<1>2. ASSUME NEW call, calls' = [calls EXCEPT ![c] = call], d = c => call.answer = None
      PROVE  calls'[d].answer = None
  BY <1>1, <1>2
<1>3. CASE \E r \in Runs : Save(c, r)
  <2>1. PICK r \in Runs : Save(c, r)
    BY <1>3
  <2> DEFINE call == [Idle EXCEPT !.pc = "validate", !.op = "save", !.arg = r]
  <2>2. call.answer = None
    BY DEF Idle
  <2>3. calls' = [calls EXCEPT ![c] = call]
    BY <2>1 DEF Save
  <2> HIDE DEF call
  <2> QED BY <1>2, <2>2, <2>3
<1>4. CASE \E id \in Ids : Get(c, id)
  <2>1. PICK id \in Ids : Get(c, id)
    BY <1>4
  <2> DEFINE call == [Idle EXCEPT !.pc = "row", !.op = "get", !.arg = id]
  <2>2. call.answer = None
    BY DEF Idle
  <2>3. calls' = [calls EXCEPT ![c] = call]
    BY <2>1 DEF Get
  <2> HIDE DEF call
  <2> QED BY <1>2, <2>2, <2>3
<1>5. CASE Return(c)
  <2>1. Idle.answer = None
    BY DEF Idle
  <2> QED BY <1>2, <1>5, <2>1 DEF Return
<1>6. CASE \E pc \in Writing \cup {"begin"} : Goto(c, pc)
  <2>1. PICK pc \in Writing \cup {"begin"} : Goto(c, pc)
    BY <1>6
  <2> DEFINE call == [calls[c] EXCEPT !.pc = pc]
  <2>2. call.answer = calls[c].answer
    BY <1>1 DEF Call, Idle, SaveCalls, GetCalls
  <2>3. calls' = [calls EXCEPT ![c] = call]
    BY <1>1, <2>1 DEF Goto
  <2> HIDE DEF call
  <2> QED BY <1>2, <2>2, <2>3
<1>7. CASE \E run : calls' = [calls EXCEPT ![c].pc = "events", ![c].seen = run]
  <2>1. PICK run : calls' = [calls EXCEPT ![c].pc = "events", ![c].seen = run]
    BY <1>7
  <2> DEFINE call == [calls[c] EXCEPT !.pc = "events", !.seen = run]
  <2>2. call.answer = calls[c].answer
    BY <1>1 DEF Call, Idle, SaveCalls, GetCalls
  <2>3. calls' = [calls EXCEPT ![c] = call]
    BY <1>1, <2>1
  <2> HIDE DEF call
  <2> QED BY <1>2, <2>2, <2>3
<1> QED BY <1>3, <1>4, <1>5, <1>6, <1>7

(* What a call is told to be stored or found has its events in the tables. *)
LEMMA StoredWithEvents ==
    ASSUME StoreInv, NEW c \in Clients, Step(c), NEW d \in Clients,
           calls[d].answer = None, calls'[d].answer # None,
           calls'[d].answer.kind \in {"found", "stored"}
    PROVE  LET run == calls'[d].answer.run
           IN  {e \in eventRows' : e.run = run.id} = EventRows(run)
<1>1. StoreTypeOK
  BY DEF StoreInv
<1>2. ASSUME NEW kind \in Failures \cup {"conflict", "missing", "corrupt"}, NEW run,
             Done(c, kind, run)
      PROVE  FALSE
  <2>1. calls'[d].answer = [kind |-> kind, run |-> run]
    BY <1>1, <1>2, AnswerIsGiven
  <2> QED BY <2>1 DEF Failures
<1>3. ASSUME NEW run, {e \in eventRows : e.run = run.id} = EventRows(run),
             Done(c, "stored", run) \/ Done(c, "found", run), eventRows' = eventRows
      PROVE  LET told == calls'[d].answer.run
             IN  {e \in eventRows' : e.run = told.id} = EventRows(told)
  <2>1. calls'[d].answer = [kind |-> "stored", run |-> run]
        \/ calls'[d].answer = [kind |-> "found", run |-> run]
    BY <1>1, <1>3, AnswerIsGiven
  <2> QED BY <1>3, <2>1
<1>4. \A id : Corruption(id) \in Failures \cup {"corrupt"}
  BY DEF Corruption, Failures
<1>5. ~(\E pc \in Writing \cup {"begin"} : Goto(c, pc))
      /\ ~(\E run : calls' = [calls EXCEPT ![c].pc = "events", ![c].seen = run])
  BY <1>1, NothingGiven
<1>6. CASE Validate(c)
  BY <1>2, <1>5, <1>6 DEF Validate, Failed, Failures
<1>7. CASE Begin(c)
  BY <1>5, <1>7 DEF Begin, Writing
<1>8. CASE Busy(c) \/ CommitBusy(c) \/ ReadBusy(c)
  BY <1>2, <1>8 DEF Busy, CommitBusy, ReadBusy, Failed, Failures
<1>9. CASE Select(c)
  BY <1>2, <1>5, <1>9 DEF Select, Writing
<1>10. CASE Compare(c)
  <2>1. EventsAgree(calls[c].arg) /\ Done(c, "stored", calls[c].arg)
    BY <1>2, <1>4, <1>10 DEF Compare, Failed
  <2> QED BY <1>3, <1>10, <2>1 DEF Compare, EventsAgree, tables
<1>11. CASE InsertRun(c) \/ InsertEvents(c)
  BY <1>2, <1>5, <1>11 DEF InsertRun, InsertEvents, Failed, Failures, Writing
<1>12. CASE Commit(c)
  <2> DEFINE run == calls[c].arg
  <2>1. run.id \in Ids /\ rows[run.id] = None /\ eventRows' = eventRows \cup EventRows(run)
    BY <1>12, CommitWrites
  <2>2. calls'[d].answer = [kind |-> "stored", run |-> run]
    BY <1>1, <1>12, AnswerIsGiven DEF Commit
  <2>3. \A e \in eventRows : e.run # run.id
    BY <2>1 DEF StoreInv, TablesAgree
  <2>4. \A e \in EventRows(run) : e.run = run.id
    BY DEF EventRows
  <2> HIDE DEF run
  <2> QED BY <2>1, <2>2, <2>3, <2>4
<1>13. CASE ReadRow(c)
  BY <1>2, <1>4, <1>5, <1>13 DEF ReadRow, Failed
<1>14. CASE ReadEvents(c)
  <2>1. EventsAgree(calls[c].seen) /\ Done(c, "found", calls[c].seen)
    BY <1>2, <1>4, <1>14 DEF ReadEvents, Failed
  <2> QED BY <1>3, <1>14, <2>1 DEF ReadEvents, EventsAgree, tables
<1> QED BY <1>6, <1>7, <1>8, <1>9, <1>10, <1>11, <1>12, <1>13, <1>14 DEF Step

(* A run whose event rows somebody has changed or deleted is never served  *)
(* to a reader, and never taken for the same run saved again: whatever a   *)
(* call is told to be found or stored has exactly its events in the table  *)
(* when it is told so (SQLiteRunStore.get, _assert_events).                *)
THEOREM DamageAlwaysReported == DamagedSpec => DamageIsReported
<1> DEFINE Reports(c) ==
             /\ calls[c].answer = None
             /\ calls'[c].answer # None /\ calls'[c].answer.kind \in {"found", "stored"}
             => LET run == calls'[c].answer.run
                IN  {e \in eventRows' : e.run = run.id} = EventRows(run)
<1>1. StoreInv /\ [Next \/ Damage]_vars => [\A c \in Clients : Reports(c)]_vars
  <2> SUFFICES ASSUME StoreInv, Next \/ Damage, NEW d \in Clients,
                      calls[d].answer = None, calls'[d].answer # None,
                      calls'[d].answer.kind \in {"found", "stored"}
               PROVE  LET run == calls'[d].answer.run
                      IN  {e \in eventRows' : e.run = run.id} = EventRows(run)
    OBVIOUS
  <2>1. StoreTypeOK
    BY DEF StoreInv
  <2>2. ASSUME NEW c \in Clients,
               \/ \E r \in Runs : Save(c, r)
               \/ \E id \in Ids : Get(c, id)
               \/ Return(c)
        PROVE  FALSE
    BY <2>1, <2>2, NothingGiven
  <2>3. ASSUME NEW c \in Clients, Step(c)
        PROVE  LET run == calls'[d].answer.run
               IN  {e \in eventRows' : e.run = run.id} = EventRows(run)
    BY <2>3, StoredWithEvents
  <2>4. ASSUME NEW dead \in Processes, Crash(dead) PROVE FALSE
    BY <2>4 DEF Crash, Idle
  <2>5. CASE Damage
    BY <2>5 DEF Damage
  <2> QED BY <2>2, <2>3, <2>4, <2>5 DEF Next
<1>2. [\A c \in Clients : Reports(c)]_vars
      => [ \A c \in Clients :
             /\ calls[c].answer = None
             /\ calls'[c].answer # None /\ calls'[c].answer.kind \in {"found", "stored"}
             => LET run == calls'[c].answer.run
                IN  {e \in eventRows' : e.run = run.id}
                      = {[run |-> run.id, seq |-> k, event |-> run.events[k]] :
                           k \in DOMAIN run.events} ]_vars
  BY DEF EventRows
<1> HIDE DEF Reports
<1> QED BY StoreInvariant, <1>1, <1>2, PTL DEF DamagedSpec, DamageIsReported

----------------------------------------------------------------------------
(* The store implements the archive.                                       *)

(* A step of one call is a step of one dialogue.                           *)
LEMMA ViewOfStep ==
    ASSUME StoreTypeOK, NEW c \in Clients, NEW call, calls' = [calls EXCEPT ![c] = call]
    PROVE  Dialogue' = [Dialogue EXCEPT ![c] = View(call)]
<1>1. \A d \in Clients : calls'[d] = IF d = c THEN call ELSE calls[d]
  BY DEF StoreTypeOK
<1>2. \A d \in Clients : Dialogue'[d] = IF d = c THEN View(call) ELSE View(calls[d])
  BY <1>1 DEF Dialogue, View, Phase, Told
<1> DEFINE next == [Dialogue EXCEPT ![c] = View(call)]
<1>3. \A d \in Clients : next[d] = IF d = c THEN View(call) ELSE View(calls[d])
  BY DEF Dialogue
<1>4. Dialogue' = [d \in Clients |-> Dialogue'[d]]
  BY DEF Dialogue, View, Phase, Told
<1>5. next = [d \in Clients |-> next[d]]
  BY DEF Dialogue
<1> HIDE DEF next
<1>6. Dialogue' = next
  BY <1>2, <1>3, <1>4, <1>5
<1> QED BY <1>6 DEF next

(* A step of a call that is neither its first nor its answer is invisible. *)
LEMMA InnerIsInvisible ==
    ASSUME StoreTypeOK, NEW c \in Clients, NEW call \in Call,
           calls' = [calls EXCEPT ![c] = call],
           calls[c].pc \notin {"idle", "done"}, call.pc \notin {"idle", "done"},
           call.op = calls[c].op, call.arg = calls[c].arg, call.answer = calls[c].answer,
           rows' = rows
    PROVE  UNCHANGED <<rows, Dialogue>>
<1>1. View(call) = View(calls[c])
  BY DEF View, Phase, Told
<1>2. Dialogue' = [Dialogue EXCEPT ![c] = View(call)]
  BY ViewOfStep
<1> HIDE DEF View
<1> QED BY <1>1, <1>2 DEF Dialogue

(* An answer of a call is a reply of the archive.                          *)
LEMMA AnswerIsReply ==
    ASSUME StoreTypeOK, NEW c \in Clients, NEW kind, NEW run, NEW told,
           Done(c, kind, run),
           calls[c].pc \notin {"idle", "done"},
           told = IF kind \in Failures THEN "failed" ELSE kind
    PROVE  /\ Archive!Reply(c, told, run)
           /\ Dialogue[c].op = calls[c].op /\ Dialogue[c].arg = calls[c].arg
<1> DEFINE call == [calls[c] EXCEPT !.pc = "done",
                                    !.answer = [kind |-> kind, run |-> run]]
<1>1. calls[c] \in Call /\ calls \in [Clients -> Call]
  BY DEF StoreTypeOK, Call
<1>2. calls' = [calls EXCEPT ![c] = call]
  BY <1>1 DEF Done
<1>3. Dialogue' = [Dialogue EXCEPT ![c] = View(call)]
  BY <1>2, ViewOfStep
<1>4. View(calls[c]) = [phase |-> "open", op |-> calls[c].op, arg |-> calls[c].arg,
                        answer |-> calls[c].answer]
  BY DEF View, Phase, Told
<1>5. /\ call.pc = "done" /\ call.op = calls[c].op /\ call.arg = calls[c].arg
      /\ call.answer = [kind |-> kind, run |-> run]
  BY <1>1 DEF Call, SaveCalls, GetCalls, Idle
<1>6. View(call) = [phase |-> "answered", op |-> calls[c].op, arg |-> calls[c].arg,
                    answer |-> [kind |-> told, run |-> run]]
  <2> HIDE DEF call
  <2>1. Told(call) = [kind |-> told, run |-> run]
    BY <1>5 DEF Told
  <2> QED BY <1>5, <2>1 DEF View, Phase
<1>7. Dialogue[c] = View(calls[c])
  BY DEF Dialogue
<1> HIDE DEF call, View
<1>8. View(call) = [Dialogue[c] EXCEPT !.phase = "answered",
                                       !.answer = [kind |-> told, run |-> run]]
  <2>1. Dialogue[c] = [phase |-> "open", op |-> calls[c].op, arg |-> calls[c].arg,
                       answer |-> calls[c].answer]
    BY <1>4, <1>7
  <2> DEFINE reply == [kind |-> told, run |-> run]
             after == [Dialogue[c] EXCEPT !.phase = "answered", !.answer = reply]
  <2>2. Dialogue[c] \in [phase : {"open"}, op : {calls[c].op}, arg : {calls[c].arg},
                          answer : {calls[c].answer}]
    BY <2>1
  <2> HIDE DEF reply
  <2>3. after \in [phase : {"answered"}, op : {calls[c].op}, arg : {calls[c].arg},
                    answer : {reply}]
    BY <2>2
  <2> HIDE DEF after
  <2>4. after = [phase |-> "answered", op |-> calls[c].op, arg |-> calls[c].arg,
                 answer |-> reply]
    BY <2>3
  <2> QED BY <1>6, <2>4 DEF after, reply
<1>9. Dialogue' = [Dialogue EXCEPT ![c].phase = "answered",
                                   ![c].answer = [kind |-> told, run |-> run]]
  BY <1>3, <1>8 DEF Dialogue
<1>10. Dialogue[c].phase = "open"
  BY <1>4, <1>7
<1>11. Archive!Reply(c, told, run)
  BY <1>9, <1>10 DEF Archive!Reply, Archive!Answer
<1> QED BY <1>4, <1>7, <1>11

LEMMA InitIsInit == Init => Archive!Init
<1> SUFFICES ASSUME Init PROVE Archive!Init
  OBVIOUS
<1>1. View(Idle) = Archive!Silent
  BY DEF View, Phase, Told, Idle, Archive!Silent
<1> HIDE DEF View
<1> QED BY <1>1 DEF Init, Archive!Init, Dialogue

(* A call that begins, and one that has been answered and returns.         *)
LEMMA BoundsOfCall ==
    ASSUME StoreTypeOK, NEW c \in Clients
    PROVE  /\ \A r \in Runs : Save(c, r) => Archive!Ask(c, "save", r)
           /\ \A id \in Ids : Get(c, id) => Archive!Ask(c, "get", id)
           /\ Return(c) => Archive!Return(c)
<1>0. calls[c] \in Call /\ calls \in [Clients -> Call]
  BY DEF StoreTypeOK, Call
<1>a. Dialogue[c].phase = Phase(calls[c])
  BY DEF Dialogue, View
<1>1. ASSUME NEW r \in Runs, Save(c, r) PROVE Archive!Ask(c, "save", r)
  <2> DEFINE call == [Idle EXCEPT !.pc = "validate", !.op = "save", !.arg = r]
  <2>1. call.pc = "validate" /\ call.op = "save" /\ call.arg = r /\ call.answer = None
    BY DEF Idle
  <2>2. Dialogue' = [Dialogue EXCEPT ![c] = View(call)]
    BY <1>1, ViewOfStep DEF Save
  <2> HIDE DEF call
  <2>3. View(call) = [phase |-> "open", op |-> "save", arg |-> r, answer |-> None]
    BY <2>1 DEF View, Phase, Told
  <2> QED BY <1>1, <1>a, <2>2, <2>3 DEF Save, At, Phase, tables, Archive!Ask
<1>2. ASSUME NEW id \in Ids, Get(c, id) PROVE Archive!Ask(c, "get", id)
  <2> DEFINE call == [Idle EXCEPT !.pc = "row", !.op = "get", !.arg = id]
  <2>1. call.pc = "row" /\ call.op = "get" /\ call.arg = id /\ call.answer = None
    BY DEF Idle
  <2>2. Dialogue' = [Dialogue EXCEPT ![c] = View(call)]
    BY <1>2, ViewOfStep DEF Get
  <2> HIDE DEF call
  <2>3. View(call) = [phase |-> "open", op |-> "get", arg |-> id, answer |-> None]
    BY <2>1 DEF View, Phase, Told
  <2> QED BY <1>2, <1>a, <2>2, <2>3 DEF Get, At, Phase, tables, Archive!Ask
<1>3. ASSUME Return(c) PROVE Archive!Return(c)
  <2>1. Dialogue' = [Dialogue EXCEPT ![c] = View(Idle)]
    BY <1>3, ViewOfStep DEF Return
  <2>2. View(Idle) = Archive!Silent
    BY DEF View, Phase, Told, Idle, Archive!Silent
  <2> QED BY <1>3, <1>a, <2>1, <2>2 DEF Return, At, Phase, tables, Archive!Return
<1> QED BY <1>1, <1>2, <1>3

(* What a save says.                                                       *)
LEMMA SavesAreSaves ==
    ASSUME StoreInv, NEW c \in Clients,
           \/ Validate(c) \/ Begin(c) \/ Busy(c) \/ Select(c) \/ Compare(c)
           \/ InsertRun(c) \/ InsertEvents(c) \/ Commit(c) \/ CommitBusy(c)
    PROVE  Archive!Fail(c) \/ Archive!Conflict(c) \/ Archive!Store(c)
           \/ UNCHANGED <<rows, Dialogue>>
<1> DEFINE run == calls[c].arg
<1>1. /\ StoreTypeOK /\ calls[c] \in SaveCalls /\ calls[c].op = "save"
      /\ calls[c].pc \notin {"idle", "done"}
  <2>1. StoreTypeOK /\ calls[c].pc \in {"validate"} \cup {"begin"} \cup Writing
    BY DEF StoreInv, At, Writing, Validate, Begin, Busy, Select, Compare, InsertRun,
           InsertEvents, Commit, CommitBusy
  <2> QED BY <2>1, CallAt DEF SaveCalls, Writing
<1>2. run \in Runs /\ run.id \in Ids /\ rows \in [Ids -> Runs \cup {None}]
  BY <1>1, RunsAssumption DEF SaveCalls, StoreTypeOK
<1>3. ASSUME NEW kind \in Failures, Failed(c, kind), rows' = rows PROVE Archive!Fail(c)
  BY <1>1, <1>3, AnswerIsReply DEF Failed, Archive!Fail
<1>4. ASSUME NEW pc, pc \in SavePoints, Goto(c, pc), rows' = rows
      PROVE  UNCHANGED <<rows, Dialogue>>
  <2> DEFINE call == [calls[c] EXCEPT !.pc = pc]
  <2>1. calls' = [calls EXCEPT ![c] = call]
    BY <1>1, <1>4 DEF Goto, StoreTypeOK
  <2>2. /\ call \in Call /\ call.pc \notin {"idle", "done"} /\ call.op = calls[c].op
        /\ call.arg = calls[c].arg /\ call.answer = calls[c].answer
    BY <1>1, <1>4 DEF Call, SaveCalls, SavePoints, GetPoints
  <2> HIDE DEF call
  <2> QED BY <1>1, <1>4, <2>1, <2>2, InnerIsInvisible
<1>5. ASSUME Done(c, "stored", run), rows[run.id] \in {None, run},
             rows' = [rows EXCEPT ![run.id] = run]
      PROVE  Archive!Store(c)
  <2>1. Archive!Reply(c, "stored", run) /\ Dialogue[c].op = "save" /\ Dialogue[c].arg = run
    BY <1>1, <1>5, AnswerIsReply DEF Failures
  <2> QED BY <1>5, <2>1 DEF Archive!Store
<1> USE DEF At, tables
<1>6. CASE Validate(c)
  BY <1>3, <1>4, <1>6 DEF Validate, Failures, SavePoints, GetPoints
<1>7. CASE Begin(c) \/ InsertRun(c)
  BY <1>4, <1>7 DEF Begin, InsertRun, SavePoints, GetPoints
<1>8. CASE Busy(c) \/ CommitBusy(c)
  BY <1>3, <1>8 DEF Busy, CommitBusy, Failures
<1>9. CASE Select(c)
  <2>1. CASE rows[run.id] \in {None, run}
    BY <1>4, <1>9, <2>1 DEF Select, SavePoints, GetPoints
  <2>2. CASE rows[run.id] \notin {None, run}
    <3>1. Done(c, "conflict", None) /\ rows' = rows
      BY <1>9, <2>2 DEF Select
    <3>2. Archive!Reply(c, "conflict", None) /\ Dialogue[c].op = "save"
          /\ Dialogue[c].arg = run
      BY <1>1, <3>1, AnswerIsReply DEF Failures
    <3> QED BY <2>2, <3>1, <3>2 DEF Archive!Conflict
  <2> QED BY <2>1, <2>2
<1>10. CASE Compare(c)
  <2>1. rows[run.id] = run
    BY <1>10 DEF Compare, StoreInv, TransactionHolds
  <2>2. run.id \notin damaged => EventsAgree(run)
    BY <1>2, <2>1, NoneAssumption DEF StoreInv, StoreTypeOK, TablesAgree
  <2>3. rows' = [rows EXCEPT ![run.id] = run] /\ rows' = rows
    BY <1>2, <1>10, <2>1 DEF Compare
  <2>4. CASE EventsAgree(run)
    BY <1>5, <1>10, <2>1, <2>3, <2>4 DEF Compare
  <2>5. CASE ~EventsAgree(run)
    BY <1>3, <1>10, <2>2, <2>3, <2>5 DEF Compare, Corruption, Failures
  <2> QED BY <2>4, <2>5
<1>11. CASE InsertEvents(c)
  BY <1>3, <1>4, <1>11 DEF InsertEvents, Failures, SavePoints, GetPoints
<1>12. CASE Commit(c)
  BY <1>5, <1>12, CommitWrites DEF Commit
<1> QED BY <1>6, <1>7, <1>8, <1>9, <1>10, <1>11, <1>12

(* What a read says.  Its answer is what the archive holds when it reads   *)
(* the events, which is what it held when the run was read.                *)
LEMMA ReadsAreFetches ==
    ASSUME StoreInv, NEW c \in Clients, ReadRow(c) \/ ReadEvents(c) \/ ReadBusy(c)
    PROVE  Archive!Fail(c) \/ Archive!Fetch(c) \/ UNCHANGED <<rows, Dialogue>>
<1> DEFINE stored == rows[calls[c].arg]
<1>1. /\ StoreTypeOK /\ calls[c] \in GetCalls /\ calls[c].op = "get"
      /\ calls[c].pc \notin {"idle", "done"}
  <2>1. StoreTypeOK /\ calls[c].pc \in {"row", "events"}
    BY DEF StoreInv, At, ReadRow, ReadEvents, ReadBusy
  <2> QED BY <2>1, CallAt DEF GetCalls
<1>2. calls[c].arg \in Ids /\ skewed \subseteq damaged /\ stored \in Runs \cup {None}
  BY <1>1 DEF GetCalls, StoreTypeOK
<1>3. ASSUME Done(c, IF stored = None THEN "missing" ELSE "found", stored), rows' = rows
      PROVE  Archive!Fetch(c)
  <2> DEFINE kind == IF stored = None THEN "missing" ELSE "found"
  <2>1. kind \notin Failures
    BY DEF Failures
  <2> HIDE DEF kind
  <2>2. Archive!Reply(c, kind, stored) /\ Dialogue[c].op = "get"
        /\ Dialogue[c].arg = calls[c].arg
    BY <1>1, <1>3, <2>1, AnswerIsReply DEF kind
  <2> QED BY <1>3, <2>2 DEF kind, Archive!Fetch
<1>7. ASSUME Failed(c, "damaged"), rows' = rows PROVE Archive!Fail(c)
  BY <1>1, <1>7, AnswerIsReply DEF Failed, Failures, Archive!Fail
<1> USE DEF At, tables
<1>4. CASE ReadRow(c)
  <2>1. CASE stored = None
    BY <1>3, <1>4, <2>1 DEF ReadRow
  <2>2. CASE stored # None /\ calls[c].arg \notin skewed
    <3> DEFINE call == [calls[c] EXCEPT !.pc = "events", !.seen = stored]
    <3>1. calls' = [calls EXCEPT ![c] = call] /\ rows' = rows
      BY <1>1, <1>2, <1>4, <2>2 DEF ReadRow, StoreTypeOK
    <3>2. /\ call \in Call /\ call.pc \notin {"idle", "done"} /\ call.op = calls[c].op
          /\ call.arg = calls[c].arg /\ call.answer = calls[c].answer
      BY <1>1, <1>2 DEF Call, GetCalls, SavePoints, GetPoints
    <3> HIDE DEF call
    <3> QED BY <1>1, <3>1, <3>2, InnerIsInvisible
  <2>3. CASE stored # None /\ calls[c].arg \in skewed
    BY <1>2, <1>4, <1>7, <2>3 DEF ReadRow, Corruption
  <2> QED BY <2>1, <2>2, <2>3
<1>5. CASE ReadEvents(c)
  <2>1. calls[c].seen # None /\ stored = calls[c].seen
    BY <1>5 DEF ReadEvents, StoreInv, ReaderHolds
  <2>2. calls[c].arg \notin damaged => EventsAgree(calls[c].seen)
    BY <1>2, <2>1 DEF StoreInv, StoreTypeOK, TablesAgree
  <2>3. CASE EventsAgree(calls[c].seen)
    BY <1>3, <1>5, <2>1, <2>3 DEF ReadEvents
  <2>4. CASE ~EventsAgree(calls[c].seen)
    BY <1>5, <1>7, <2>2, <2>4 DEF ReadEvents, Corruption
  <2> QED BY <2>3, <2>4
<1>6. CASE ReadBusy(c)
  <2>1. Done(c, "busy", None) /\ rows' = rows
    BY <1>6 DEF ReadBusy, Failed
  <2> QED BY <1>1, <2>1, AnswerIsReply DEF Failures, Archive!Fail
<1> QED BY <1>4, <1>5, <1>6

LEMMA CrashIsAbandon ==
    ASSUME StoreTypeOK, NEW dead \in Processes, Crash(dead)
    PROVE  Archive!Abandon(dead)
<1>1. View(Idle) = Archive!Silent
  BY DEF View, Phase, Told, Idle, Archive!Silent
<1>2. Dialogue' = [c \in Clients |-> IF c \in dead THEN View(Idle) ELSE View(calls[c])]
  BY DEF Crash, Dialogue, View, Phase, Told
<1> HIDE DEF View
<1> QED BY <1>1, <1>2 DEF Crash, tables, Dialogue, Archive!Abandon

LEMMA StepIsStep == StoreInv /\ [Next \/ Damage]_vars => [Archive!Next]_(Archive!vars)
<1> SUFFICES ASSUME StoreInv, [Next \/ Damage]_vars PROVE Archive!Next \/ UNCHANGED Archive!vars
  OBVIOUS
<1> USE DEF Archive!vars
<1>1. CASE UNCHANGED vars
  BY <1>1 DEF vars, tables, Dialogue, View, Phase, Told
<1>2. ASSUME NEW c \in Clients,
             \/ \E r \in Runs : Save(c, r)
             \/ \E id \in Ids : Get(c, id)
             \/ Return(c)
      PROVE  Archive!Next
  BY <1>2, BoundsOfCall DEF Archive!Next, StoreInv
<1>3. ASSUME NEW c \in Clients, Step(c)
      PROVE  Archive!Next \/ UNCHANGED Archive!vars
  BY <1>3, SavesAreSaves, ReadsAreFetches DEF Archive!Next, Step
<1>4. ASSUME NEW dead \in Processes, Crash(dead) PROVE Archive!Next
  BY <1>4, CrashIsAbandon, ProcessesAssumption DEF Archive!Next, StoreInv
<1>5. CASE Damage
  BY <1>5 DEF Damage, Dialogue, View, Phase, Told
<1> QED BY <1>1, <1>2, <1>3, <1>4, <1>5 DEF Next

(* SQLiteRunStore implements the archive: to its callers its statements,   *)
(* locks, overlapping readers, failures and crashes look as if each call   *)
(* took effect at one moment, and a run that was stored never changed.     *)
(* What somebody else has done to a run shows as a failed call, and never  *)
(* to a call about another run.                                            *)
THEOREM StoreIsArchive == DamagedSpec => ImplementsArchive
<1>1. StoreInv /\ [Next \/ Damage]_vars => [Archive!Next]_(Archive!vars)
  BY StepIsStep
<1> QED
  BY StoreInvariant, InitIsInit, <1>1, PTL DEF DamagedSpec, ImplementsArchive, Archive!Spec

----------------------------------------------------------------------------
(* The service on the store.                                               *)

Asking ==
    [phase : {"open"}, op : {"save"}, arg : Runs, answer : {None}]
    \cup [phase : {"open"}, op : {"get"}, arg : Ids, answer : {None}]

Answered ==
    [phase : {"answered"}, op : {"save"}, arg : Runs,
     answer : [kind : {"failed", "stored", "conflict"}, run : Runs \cup {None}]]
    \cup [phase : {"answered"}, op : {"get"}, arg : Ids,
          answer : [kind : {"failed", "found", "missing"}, run : Runs \cup {None}]]

Dialogues == {Archive!Silent} \cup Asking \cup Answered

LEMMA DialogueType == StoreTypeOK => Dialogue \in [Clients -> Dialogues]
<1> SUFFICES ASSUME StoreTypeOK, NEW c \in Clients PROVE View(calls[c]) \in Dialogues
  BY DEF Dialogue
<1>1. CASE calls[c] = Idle
  BY <1>1 DEF View, Phase, Told, Idle, Dialogues, Archive!Silent
<1>2. CASE calls[c] \in SaveCalls /\ calls[c].pc # "done"
  BY <1>2 DEF View, Phase, Told, SaveCalls, SavePoints, Dialogues, Asking
<1>3. CASE calls[c] \in GetCalls /\ calls[c].pc # "done"
  BY <1>3 DEF View, Phase, Told, GetCalls, GetPoints, Dialogues, Asking
<1>4. CASE calls[c] \in SaveCalls /\ calls[c].pc = "done"
  <2>1. Told(calls[c]) \in [kind : {"failed", "stored", "conflict"}, run : Runs \cup {None}]
    BY <1>4 DEF Told, SaveCalls, SavePoints, Failures
  <2> QED BY <1>4, <2>1 DEF View, Phase, SaveCalls, SavePoints, Dialogues, Answered
<1>5. CASE calls[c] \in GetCalls /\ calls[c].pc = "done"
  <2>1. Told(calls[c]) \in [kind : {"failed", "found", "missing"}, run : Runs \cup {None}]
    BY <1>5 DEF Told, GetCalls, GetPoints, Failures
  <2> QED BY <1>5, <2>1 DEF View, Phase, GetCalls, GetPoints, Dialogues, Answered
<1> QED BY <1>1, <1>2, <1>3, <1>4, <1>5 DEF StoreTypeOK

LEMMA ServiceInitHolds == ServiceInit => ServiceInv
<1> SUFFICES ASSUME ServiceInit PROVE ServiceInv
  OBVIOUS
<1>1. StoreInv
  BY InitHolds DEF ServiceInit
<1>2. \A c \in Clients : Dialogue[c].phase = "idle" /\ requests[c] = NoRequest
  BY DEF ServiceInit, Init, Dialogue, View, Phase, Idle
<1>3. ServiceTypeOK
  BY DEF ServiceInit, ServiceTypeOK, Requests, NoRequest, Statuses
<1>4. CallsAreRequests /\ AnswersHold
  BY <1>2 DEF CallsAreRequests, AnswersHold, Within, NoRequest
<1>5. FreshIdentifiers
  BY <1>2 DEF ServiceInit, Init, FreshIdentifiers, Within
<1> QED BY <1>1, <1>3, <1>4, <1>5 DEF ServiceInv, ServiceInit

(* Every step of the service keeps the invariant of its store.             *)
LEMMA ServiceStepsStore == ServiceNext => [Next]_vars
BY DEF ServiceNext, Post, Raise, Respond, Finish, Serve, Execute, GetRun, Restart, Next

LEMMA ServiceKeepsStore == StoreInv /\ [ServiceNext]_allVars => StoreInv'
BY ServiceStepsStore, Inductive DEF allVars

(* A step that leaves the dialogue alone.                                  *)
LEMMA SilentKeeps ==
    ASSUME ServiceInv, StoreInv', UNCHANGED <<rows, Dialogue, executed, acked>>,
           requests' \in [Clients -> Requests],
           \A c \in Clients :
              /\ requests'[c].known # {} => requests'[c].kind = "get" /\ requests[c].known # {}
              /\ requests'[c].status # 409
              /\ Dialogue[c].phase # "idle" => requests'[c] = requests[c]
    PROVE  ServiceInv'
<1> USE DEF ServiceInv
<1>1. ServiceTypeOK'
  BY DEF ServiceTypeOK
<1>2. CallsAreRequests'
  BY DEF CallsAreRequests, Within
<1>3. FreshIdentifiers'
  BY DEF FreshIdentifiers, Within
<1>4. AnswersHold'
  BY DEF AnswersHold, Within
<1> QED BY <1>1, <1>2, <1>3, <1>4

LEMMA RequestsKeep ==
    ASSUME ServiceInv, NEW c \in Clients, Post(c) \/ Raise(c) \/ Finish(c)
    PROVE  ServiceInv'
<1> USE DEF ServiceInv, ServiceTypeOK
<1>1. UNCHANGED <<rows, Dialogue, acked, executed>>
  BY DEF Post, Raise, Finish, vars, tables, Dialogue, View, Phase, Told
<1>2. StoreInv'
  BY ServiceKeepsStore DEF ServiceNext
<1>3. Dialogue[c].phase # "idle" => Within(c, "save") \/ Within(c, "get")
  BY DialogueType DEF StoreInv, Dialogues, Asking, Answered, Archive!Silent, Within
<1>4. /\ requests[c] \in Requests
      /\ Within(c, "save") => requests[c].kind = "post" /\ requests[c].status = 0
                              /\ requests[c].run = Dialogue[c].arg
      /\ Within(c, "get") => requests[c].kind = "get" /\ requests[c].status = 0
      /\ requests[c].known # {} => requests[c].kind = "get"
      /\ requests[c].status # 409
  BY DEF CallsAreRequests, AnswersHold
<1>5. Within(c, "save") => Dialogue[c].arg \in Runs
  BY DialogueType DEF StoreInv, Dialogues, Asking, Answered, Archive!Silent, Within
<1>6. ASSUME NEW request \in Requests, requests' = [requests EXCEPT ![c] = request],
             Dialogue[c].phase = "idle",
             request.known # {} => request.kind = "get" /\ requests[c].known # {},
             request.status # 409
      PROVE  ServiceInv'
  <2>1. \A d \in Clients : requests'[d] = IF d = c THEN request ELSE requests[d]
    BY <1>6
  <2>2. requests' \in [Clients -> Requests]
    BY <1>6
  <2>3. \A d \in Clients : requests[d].status # 409
                           /\ (requests[d].known # {} => requests[d].kind = "get")
    BY DEF AnswersHold, CallsAreRequests
  <2> QED BY <1>1, <1>2, <1>6, <2>1, <2>2, <2>3, SilentKeeps
<1>7. CASE Post(c)
  <2> DEFINE request == [requests[c] EXCEPT !.kind = "post"]
  <2>1. Dialogue[c].phase = "idle" /\ requests[c].known = {}
    BY <1>3, <1>4, <1>7 DEF Post, NoRequest, Requests
  <2>2. request \in Requests /\ request.known = requests[c].known
        /\ request.status = requests[c].status
    BY <1>4 DEF Requests
  <2>3. requests' = [requests EXCEPT ![c] = request]
    BY <1>7 DEF Post
  <2> HIDE DEF request
  <2> QED BY <1>4, <1>6, <2>1, <2>2, <2>3
<1>8. CASE Raise(c)
  <2>1. Dialogue[c].phase = "idle" /\ requests[c].known = {}
    BY <1>3, <1>4, <1>5, <1>8, NoneAssumption DEF Raise, Executing
  <2>2. PICK status \in {422, 500} : requests' = [requests EXCEPT ![c].status = status]
    BY <1>8 DEF Raise
  <2> DEFINE request == [requests[c] EXCEPT !.status = status]
  <2>3. request \in Requests /\ request.known = requests[c].known /\ request.status = status
    BY <1>4 DEF Requests, Statuses
  <2>4. requests' = [requests EXCEPT ![c] = request]
    BY <2>2
  <2> HIDE DEF request
  <2>5. (request.known # {} => request.kind = "get" /\ requests[c].known # {}) /\ request.status # 409
    BY <2>1, <2>2, <2>3
  <2> QED BY <1>6, <2>1, <2>3, <2>4, <2>5
<1>9. CASE Finish(c)
  <2>1. Dialogue[c].phase = "idle"
    BY <1>3, <1>4, <1>9 DEF Finish
  <2>2. NoRequest \in Requests /\ NoRequest.known = {} /\ NoRequest.status # 409
    BY DEF Requests, NoRequest, Statuses
  <2> QED BY <1>6, <1>9, <2>1, <2>2 DEF Finish
<1> QED BY <1>7, <1>8, <1>9

(* What a reply of the archive does to the dialogue.                       *)
LEMMA ReplyShape ==
    ASSUME StoreTypeOK, NEW c \in Clients, NEW kind, NEW run, Archive!Reply(c, kind, run)
    PROVE  /\ Dialogue[c].phase = "open"
           /\ Dialogue'[c].phase = "answered"
           /\ Dialogue'[c].op = Dialogue[c].op /\ Dialogue'[c].arg = Dialogue[c].arg
           /\ Dialogue'[c].answer = [kind |-> kind, run |-> run]
           /\ \A d \in Clients \ {c} : Dialogue'[d] = Dialogue[d]
<1>1. Dialogue \in [Clients -> Dialogues] /\ Dialogue[c].phase = "open"
  BY DialogueType DEF Archive!Reply
<1>2. Dialogue[c] \in Asking
  BY <1>1 DEF Dialogues, Answered, Archive!Silent
<1> QED BY <1>1, <1>2 DEF Archive!Reply, Archive!Answer, Asking

(* An answer keeps the invariant if it says what the archive holds.        *)
LEMMA AnswerKeeps ==
    ASSUME ServiceInv, StoreInv', UNCHANGED serviceVars, NEW c \in Clients, NEW kind, NEW run,
           Archive!Reply(c, kind, run),
           \/ rows' = rows
           \/ /\ Within(c, "save")
              /\ rows' = [rows EXCEPT ![Dialogue[c].arg.id] = Dialogue[c].arg],
           Within(c, "save") => /\ kind \in {"stored", "failed"}
                                /\ kind = "stored" =>
                                      rows'[Dialogue[c].arg.id] = Dialogue[c].arg,
           Within(c, "get") => /\ kind \in {"found", "missing", "failed"}
                               /\ requests[c].known # {} => kind # "missing"
    PROVE  ServiceInv'
<1> USE DEF ServiceInv, serviceVars
<1>1. /\ Dialogue[c].phase = "open" /\ Dialogue'[c].phase = "answered"
      /\ Dialogue'[c].op = Dialogue[c].op /\ Dialogue'[c].arg = Dialogue[c].arg
      /\ Dialogue'[c].answer = [kind |-> kind, run |-> run]
      /\ \A d \in Clients \ {c} : Dialogue'[d] = Dialogue[d]
  BY ReplyShape DEF StoreInv
<1>2. \A d \in Clients : \A op : Within(d, op)' <=> Within(d, op)
  BY <1>1 DEF Within
<1>3. \A d \in Clients : Dialogue'[d].arg = Dialogue[d].arg
  BY <1>1
<1>4. \A d \in Clients :
         /\ Within(d, "save") => Dialogue[d].arg \in Runs /\ Dialogue[d].arg.id \in Ids
         /\ Within(d, "get") => Dialogue[d].arg \in Ids
  BY DialogueType, RunsAssumption
  DEF StoreInv, Dialogues, Asking, Answered, Archive!Silent, Within
<1>5. Within(c, "save") => rows[Dialogue[c].arg.id] = None
  BY <1>1 DEF FreshIdentifiers
<1>6. /\ \A id \in Ids : rows[id] # None => rows'[id] = rows[id]
      /\ \A id \in Ids : rows'[id] # rows[id] =>
            Within(c, "save") /\ id = Dialogue[c].arg.id /\ rows'[id] = Dialogue[c].arg
  BY <1>4, <1>5 DEF StoreInv, StoreTypeOK
<1>7. ServiceTypeOK'
  BY DEF ServiceTypeOK
<1>8. CallsAreRequests'
  BY <1>2, <1>3 DEF CallsAreRequests
<1>9. FreshIdentifiers'
  <2>1. \A id \in Ids : rows'[id] # None => rows'[id] \in executed
    BY <1>6 DEF FreshIdentifiers
  <2>2. ASSUME NEW d \in Clients, Within(d, "save")
        PROVE  /\ Dialogue[d].arg \in executed
               /\ Dialogue'[d].phase = "open" => rows'[Dialogue[d].arg.id] = None
               /\ \A e \in Clients \ {d} :
                     Within(e, "save") => Dialogue[e].arg.id # Dialogue[d].arg.id
    <3>1. CASE d = c
      BY <1>1, <2>2, <3>1 DEF FreshIdentifiers
    <3>2. CASE d # c
      <4>1. /\ Dialogue[d].arg \in executed
            /\ Dialogue[d].phase = "open" => rows[Dialogue[d].arg.id] = None
            /\ \A e \in Clients \ {d} :
                  Within(e, "save") => Dialogue[e].arg.id # Dialogue[d].arg.id
        BY <2>2 DEF FreshIdentifiers
      <4>2. rows'[Dialogue[d].arg.id] = rows[Dialogue[d].arg.id]
        BY <1>4, <1>6, <2>2, <3>2, <4>1
      <4> QED BY <1>1, <3>2, <4>1, <4>2
    <3> QED BY <3>1, <3>2
  <2> QED BY <1>2, <1>3, <2>1, <2>2 DEF FreshIdentifiers
<1>10. AnswersHold'
  <2> SUFFICES ASSUME NEW d \in Clients
      PROVE /\ Within(d, "save") /\ Dialogue'[d].phase = "answered" =>
                  /\ Dialogue'[d].answer.kind \in {"stored", "failed"}
                  /\ Dialogue'[d].answer.kind = "stored" =>
                        rows'[Dialogue[d].arg.id] = Dialogue[d].arg
            /\ Within(d, "get") /\ Dialogue'[d].phase = "answered" =>
                  /\ Dialogue'[d].answer.kind \in {"found", "missing", "failed"}
                  /\ requests[d].known # {} => Dialogue'[d].answer.kind # "missing"
            /\ Within(d, "get") /\ requests[d].known # {} => rows'[Dialogue[d].arg] # None
            /\ requests[d].status # 409
    BY <1>2, <1>3 DEF AnswersHold
  <2>a. /\ Within(d, "save") /\ Dialogue[d].phase = "answered" =>
              /\ Dialogue[d].answer.kind \in {"stored", "failed"}
              /\ Dialogue[d].answer.kind = "stored" =>
                    rows[Dialogue[d].arg.id] = Dialogue[d].arg
        /\ Within(d, "get") /\ Dialogue[d].phase = "answered" =>
              /\ Dialogue[d].answer.kind \in {"found", "missing", "failed"}
              /\ requests[d].known # {} => Dialogue[d].answer.kind # "missing"
        /\ Within(d, "get") /\ requests[d].known # {} => rows[Dialogue[d].arg] # None
        /\ requests[d].status # 409
    BY DEF AnswersHold
  <2>1. Within(d, "get") /\ requests[d].known # {} => rows'[Dialogue[d].arg] # None
    BY <1>4, <1>6, <2>a
  <2>2. CASE d = c
    BY <1>1, <2>1, <2>2, <2>a
  <2>3. CASE d # c
    <3>1. Within(d, "save") /\ rows[Dialogue[d].arg.id] = Dialogue[d].arg =>
             rows'[Dialogue[d].arg.id] = Dialogue[d].arg
      BY <1>4, <1>6, NoneAssumption
    <3> QED BY <1>1, <2>1, <2>3, <2>a, <3>1
  <2> QED BY <2>2, <2>3
<1>11. \A r \in acked : rows'[r.id] = r
  BY <1>6, RunsAssumption, NoneAssumption DEF ServiceTypeOK
<1> QED BY <1>7, <1>8, <1>9, <1>10, <1>11

LEMMA ServeKeeps ==
    ASSUME ServiceInv, NEW c \in Clients, Serve(c)
    PROVE  ServiceInv'
<1>1. StoreInv /\ StoreTypeOK /\ StoreInv' /\ UNCHANGED serviceVars
  BY ServiceKeepsStore DEF ServiceInv, ServiceNext, Serve, StoreInv
<1>2. \/ Archive!Fail(c) \/ Archive!Conflict(c) \/ Archive!Store(c) \/ Archive!Fetch(c)
      \/ UNCHANGED <<rows, Dialogue>>
  BY <1>1, SavesAreSaves, ReadsAreFetches DEF Serve, Step
<1>3. Within(c, "save") /\ Dialogue[c].phase = "open" => rows[Dialogue[c].arg.id] = None
  BY DEF ServiceInv, FreshIdentifiers
<1>4. Within(c, "get") /\ requests[c].known # {} => rows[Dialogue[c].arg] # None
  BY DEF ServiceInv, AnswersHold
<1>a. /\ Within(c, "save") => Dialogue[c].arg \in Runs /\ Dialogue[c].arg.id \in Ids
      /\ ~(Within(c, "save") /\ Within(c, "get"))
  BY <1>1, DialogueType, RunsAssumption
  DEF Dialogues, Asking, Answered, Archive!Silent, Within
<1>5. CASE Archive!Fail(c)
  BY <1>1, <1>5, AnswerKeeps DEF Archive!Fail
<1>6. CASE Archive!Conflict(c)
  <2>1. Within(c, "save") /\ Dialogue[c].phase = "open"
    BY <1>6 DEF Archive!Conflict, Archive!Reply, Within
  <2> QED BY <1>3, <1>6, <2>1 DEF Archive!Conflict
<1>7. CASE Archive!Store(c)
  <2>1. Within(c, "save") /\ Archive!Reply(c, "stored", Dialogue[c].arg)
        /\ rows' = [rows EXCEPT ![Dialogue[c].arg.id] = Dialogue[c].arg]
    BY <1>7 DEF Archive!Store, Archive!Reply, Within
  <2>2. rows'[Dialogue[c].arg.id] = Dialogue[c].arg
    BY <1>1, <1>a, <2>1 DEF StoreTypeOK
  <2> QED BY <1>1, <1>a, <2>1, <2>2, AnswerKeeps
<1>8. CASE Archive!Fetch(c)
  <2> DEFINE kind == IF rows[Dialogue[c].arg] = None THEN "missing" ELSE "found"
  <2>1. Within(c, "get") /\ Archive!Reply(c, kind, rows[Dialogue[c].arg]) /\ rows' = rows
    BY <1>8 DEF Archive!Fetch, Archive!Reply, Within
  <2>2. kind \in {"found", "missing", "failed"} /\ (requests[c].known # {} => kind # "missing")
    BY <1>4, <2>1
  <2> HIDE DEF kind
  <2> QED BY <1>1, <1>a, <2>1, <2>2, AnswerKeeps
<1>9. CASE UNCHANGED <<rows, Dialogue>>
  <2>1. requests \in [Clients -> Requests]
        /\ \A d \in Clients : requests[d].status # 409
                              /\ (requests[d].known # {} => requests[d].kind = "get")
    BY DEF ServiceInv, ServiceTypeOK, AnswersHold, CallsAreRequests
  <2> QED BY <1>1, <1>9, <2>1, SilentKeeps DEF serviceVars
<1> QED BY <1>2, <1>5, <1>6, <1>7, <1>8, <1>9

(* The archive has nothing under a fresh identifier.                       *)
LEMMA ExecuteKeeps ==
    ASSUME ServiceInv, NEW c \in Clients, NEW r \in Runs, Execute(c, r)
    PROVE  ServiceInv'
<1> USE DEF ServiceInv
<1>1. /\ StoreInv' /\ StoreTypeOK /\ UNCHANGED <<rows, acked>>
      /\ requests \in [Clients -> Requests]
  BY ServiceKeepsStore DEF ServiceNext, StoreInv, Execute, Save, tables, ServiceTypeOK
<1>2. Archive!Ask(c, "save", r)
  BY <1>1, BoundsOfCall DEF Execute
<1>3. /\ Dialogue[c].phase = "idle"
      /\ Dialogue'[c] = [phase |-> "open", op |-> "save", arg |-> r, answer |-> None]
      /\ \A d \in Clients \ {c} : Dialogue'[d] = Dialogue[d]
  BY <1>1, <1>2, DialogueType DEF Archive!Ask
<1>4. /\ requests'[c].kind = "post" /\ requests'[c].status = 0 /\ requests'[c].run = r
      /\ requests'[c].known = requests[c].known /\ requests[c].kind = "post"
      /\ \A d \in Clients \ {c} : requests'[d] = requests[d]
      /\ requests' \in [Clients -> Requests]
  BY <1>1 DEF Execute, Executing, Requests
<1>5. executed' = executed \cup {r} /\ \A other \in executed : other.id # r.id
  BY DEF Execute
<1>6. r.id \in Ids /\ rows[r.id] = None
  <2>1. r.id \in Ids
    BY RunsAssumption
  <2> QED BY <1>1, <1>5, <2>1 DEF FreshIdentifiers, StoreTypeOK
<1>7. ServiceTypeOK'
  BY <1>1, <1>4, <1>5 DEF ServiceTypeOK
<1>8. CallsAreRequests'
  BY <1>3, <1>4 DEF CallsAreRequests, Within
<1>9. FreshIdentifiers'
  <2> SUFFICES ASSUME NEW d \in Clients, Within(d, "save")'
      PROVE  /\ Dialogue'[d].arg \in executed'
             /\ Dialogue'[d].phase = "open" => rows[Dialogue'[d].arg.id] = None
             /\ \A e \in Clients \ {d} :
                   Within(e, "save")' => Dialogue'[e].arg.id # Dialogue'[d].arg.id
    BY <1>1, <1>5 DEF FreshIdentifiers
  <2>1. \A e \in Clients \ {c} : /\ Within(e, "save")' => Within(e, "save")
                                 /\ Within(e, "save") => Dialogue[e].arg \in executed
    BY <1>3 DEF FreshIdentifiers, Within
  <2>2. CASE d = c
    BY <1>3, <1>5, <1>6, <2>1, <2>2
  <2>3. CASE d # c
    BY <1>3, <1>5, <2>1, <2>3 DEF FreshIdentifiers
  <2> QED BY <2>2, <2>3
<1>10. AnswersHold'
  BY <1>1, <1>3, <1>4 DEF AnswersHold, Within
<1>11. \A run \in acked' : rows'[run.id] = run
  BY <1>1
<1> QED BY <1>1, <1>7, <1>8, <1>9, <1>10, <1>11

LEMMA AsRead ==
    ASSUME NEW q \in Requests, NEW known \in SUBSET Runs
    PROVE  LET request == [q EXCEPT !.kind = "get", !.known = known]
           IN  /\ request \in Requests /\ request.kind = "get" /\ request.known = known
               /\ request.status = q.status
BY DEF Requests

LEMMA GetRunKeeps ==
    ASSUME ServiceInv, NEW c \in Clients, NEW id \in Ids, GetRun(c, id)
    PROVE  ServiceInv'
<1> USE DEF ServiceInv
<1>1. /\ StoreInv' /\ StoreTypeOK /\ UNCHANGED <<rows, acked, executed>>
      /\ requests \in [Clients -> Requests]
  BY ServiceKeepsStore DEF ServiceNext, StoreInv, GetRun, Get, tables, ServiceTypeOK
<1>2. Archive!Ask(c, "get", id)
  BY <1>1, BoundsOfCall DEF GetRun
<1>3. /\ Dialogue'[c] = [phase |-> "open", op |-> "get", arg |-> id, answer |-> None]
      /\ \A d \in Clients \ {c} : Dialogue'[d] = Dialogue[d]
  BY <1>1, <1>2, DialogueType DEF Archive!Ask
<1> DEFINE known == {r \in acked : r.id = id}
<1>a. requests' = [requests EXCEPT ![c].kind = "get", ![c].known = known]
      /\ known \in SUBSET Runs
  BY DEF GetRun, ServiceTypeOK
<1>b. requests[c] = NoRequest
  BY DEF GetRun
<1>c. known # {} => rows[id] # None
  BY NoneAssumption DEF ServiceTypeOK
<1> HIDE DEF known
<1>4. /\ requests'[c].kind = "get" /\ requests'[c].status = 0
      /\ requests'[c].known = known
      /\ \A d \in Clients \ {c} : requests'[d] = requests[d]
      /\ requests' \in [Clients -> Requests]
  <2>1. requests[c].status = 0
    BY <1>b DEF NoRequest
  <2>2. requests[c] \in Requests
    BY <1>1
  <2> DEFINE request == [requests[c] EXCEPT !.kind = "get", !.known = known]
  <2>3. /\ request \in Requests /\ request.kind = "get" /\ request.known = known
        /\ request.status = 0
    BY <1>a, <2>1, <2>2, AsRead
  <2>4. requests' = [requests EXCEPT ![c] = request]
    BY <1>1, <1>a
  <2> HIDE DEF request
  <2> QED BY <1>1, <2>3, <2>4
<1>5. requests'[c].known # {} => rows[id] # None
  BY <1>4, <1>c
<1>6. ServiceTypeOK'
  BY <1>1, <1>4 DEF ServiceTypeOK
<1>7. CallsAreRequests'
  BY <1>3, <1>4 DEF CallsAreRequests, Within
<1>8. FreshIdentifiers'
  BY <1>1, <1>3 DEF FreshIdentifiers, Within
<1>9. AnswersHold'
  <2>1. ~Within(c, "save")'
        /\ (Within(c, "get") /\ requests[c].known # {})' => rows'[Dialogue'[c].arg] # None
    BY <1>1, <1>3, <1>5 DEF Within
  <2>2. Dialogue'[c].phase # "answered" /\ requests'[c].status # 409
    BY <1>3, <1>4
  <2> QED BY <1>1, <1>3, <1>4, <2>1, <2>2 DEF AnswersHold, Within
<1> QED BY <1>1, <1>6, <1>7, <1>8, <1>9

(* A response says of a run what the call to the store has answered.       *)
LEMMA RespondKeeps ==
    ASSUME ServiceInv, NEW c \in Clients, Respond(c)
    PROVE  ServiceInv'
<1> USE DEF ServiceInv
<1> DEFINE status == Status(calls[c].answer)
<1>1. /\ StoreInv' /\ StoreTypeOK /\ UNCHANGED <<rows, executed>>
      /\ requests \in [Clients -> Requests]
  BY ServiceKeepsStore DEF ServiceNext, StoreInv, Respond, Return, tables, ServiceTypeOK
<1>2. Archive!Return(c)
  BY <1>1, BoundsOfCall DEF Respond
<1>3. /\ Dialogue[c].phase = "answered" /\ Dialogue'[c].phase = "idle"
      /\ \A d \in Clients \ {c} : Dialogue'[d] = Dialogue[d]
  BY <1>1, <1>2, DialogueType DEF Archive!Return, Archive!Silent
<1>4. /\ calls[c].pc = "done"
      /\ Dialogue[c].answer.kind = IF calls[c].answer.kind \in Failures THEN "failed"
                                   ELSE calls[c].answer.kind
  <2>1. calls[c].pc = "done"
    BY DEF Respond, Return, At
  <2>2. Dialogue[c].answer = Told(calls[c]) /\ calls[c] \in SaveCalls \cup GetCalls
    BY <1>1, <2>1, CallAt DEF Dialogue, View, Call, Idle
  <2>3. Told(calls[c]).kind = IF calls[c].answer.kind \in Failures THEN "failed"
                              ELSE calls[c].answer.kind
    BY <2>1, <2>2 DEF Told, SaveCalls, GetCalls, SavePoints, GetPoints
  <2> QED BY <2>1, <2>2, <2>3
<1>5. Within(c, "save") \/ Within(c, "get")
  BY <1>1, <1>3, DialogueType DEF Dialogues, Asking, Answered, Archive!Silent, Within
<1>6. status \in {200, 201, 404, 500}
      /\ (status = 201 => Dialogue[c].answer.kind = "stored")
  <2>1. Dialogue[c].answer.kind # "conflict"
    BY <1>3, <1>5 DEF AnswersHold
  <2>2. calls[c].answer.kind # "conflict"
    BY <1>4, <2>1 DEF Failures
  <2> QED BY <1>4, <2>2 DEF Status, Failures
<1>7. /\ requests'[c].kind = requests[c].kind /\ requests'[c].known = requests[c].known
      /\ requests'[c].status = status
      /\ \A d \in Clients \ {c} : requests'[d] = requests[d]
      /\ requests' \in [Clients -> Requests]
  BY <1>1, <1>6 DEF Respond, Requests, Statuses
<1> HIDE DEF status
<1>8. acked' = IF requests[c].kind = "post" /\ status = 201
               THEN acked \cup {requests[c].run} ELSE acked
  BY DEF Respond, status
<1>9. requests[c].kind = "post" /\ status = 201 =>
         /\ requests[c].run \in executed
         /\ rows[requests[c].run.id] = requests[c].run
  <2>1. requests[c].kind = "post" => Within(c, "save")
    BY <1>5 DEF CallsAreRequests
  <2> QED BY <1>3, <1>6, <2>1 DEF CallsAreRequests, FreshIdentifiers, AnswersHold
<1>10. ServiceTypeOK'
  BY <1>1, <1>7, <1>8, <1>9 DEF ServiceTypeOK
<1>11. CallsAreRequests'
  BY <1>3, <1>7 DEF CallsAreRequests, Within
<1>12. FreshIdentifiers'
  BY <1>1, <1>3 DEF FreshIdentifiers, Within
<1>13. AnswersHold'
  BY <1>1, <1>3, <1>6, <1>7 DEF AnswersHold, Within
<1>14. \A r \in acked' : rows'[r.id] = r
  BY <1>1, <1>8, <1>9
<1> QED BY <1>1, <1>10, <1>11, <1>12, <1>13, <1>14

LEMMA RestartKeeps == ASSUME ServiceInv, Restart PROVE ServiceInv'
<1> USE DEF ServiceInv
<1>1. PICK dead \in Processes :
         /\ Crash(dead)
         /\ requests' = [c \in Clients |-> IF c \in dead THEN NoRequest ELSE requests[c]]
         /\ UNCHANGED <<executed, acked>>
  BY DEF Restart
<1>2. StoreInv' /\ StoreTypeOK /\ Archive!Abandon(dead) /\ rows' = rows
  BY <1>1, ServiceKeepsStore, CrashIsAbandon
  DEF ServiceNext, StoreInv, Archive!Abandon
<1>3. \A c \in Clients :
         IF c \in dead THEN Dialogue'[c].phase = "idle" /\ requests'[c] = NoRequest
         ELSE Dialogue'[c] = Dialogue[c] /\ requests'[c] = requests[c]
  BY <1>1, <1>2 DEF Archive!Abandon, Archive!Silent
<1>4. ServiceTypeOK'
  BY <1>1 DEF ServiceTypeOK, Requests, NoRequest, Statuses
<1>5. CallsAreRequests'
  BY <1>3 DEF CallsAreRequests, Within, NoRequest
<1>6. FreshIdentifiers'
  BY <1>1, <1>2, <1>3 DEF FreshIdentifiers, Within
<1>7. AnswersHold'
  BY <1>2, <1>3 DEF AnswersHold, Within, NoRequest
<1> QED BY <1>1, <1>2, <1>4, <1>5, <1>6, <1>7

LEMMA ServiceInductive == ServiceInv /\ [ServiceNext]_allVars => ServiceInv'
<1> SUFFICES ASSUME ServiceInv, [ServiceNext]_allVars PROVE ServiceInv'
  OBVIOUS
<1>1. CASE UNCHANGED allVars
  <2>1. StoreInv' /\ UNCHANGED <<rows, Dialogue, serviceVars>>
    BY <1>1, ServiceKeepsStore
    DEF ServiceInv, allVars, vars, tables, Dialogue, View, Phase, Told
  <2>2. requests \in [Clients -> Requests]
        /\ \A d \in Clients : requests[d].status # 409
                              /\ (requests[d].known # {} => requests[d].kind = "get")
    BY DEF ServiceInv, ServiceTypeOK, AnswersHold, CallsAreRequests
  <2> QED BY <2>1, <2>2, SilentKeeps DEF serviceVars
<1>2. CASE ServiceNext
  BY <1>2, RequestsKeep, RespondKeeps, ServeKeeps, ExecuteKeeps, GetRunKeeps, RestartKeeps
  DEF ServiceNext
<1> QED BY <1>1, <1>2

LEMMA ServiceInvariant == ServiceSpec => []ServiceInv
BY ServiceInitHolds, ServiceInductive, PTL DEF ServiceSpec

(* The service itself damages nothing.                                     *)
LEMMA NextDamagesNothing == [Next]_vars => damaged' = damaged
<1> SUFFICES ASSUME [Next]_vars PROVE damaged' = damaged
  OBVIOUS
<1>1. ASSUME NEW c \in Clients,
             \/ \E r \in Runs : Save(c, r)
             \/ \E id \in Ids : Get(c, id)
             \/ Return(c)
      PROVE  damaged' = damaged
  BY <1>1 DEF Save, Get, Return, tables
<1>2. ASSUME NEW c \in Clients, Step(c) PROVE damaged' = damaged
  BY <1>2 DEF Step, Validate, Begin, Busy, Select, Compare, InsertRun, InsertEvents,
              Commit, CommitBusy, ReadRow, ReadEvents, ReadBusy, tables
<1>3. ASSUME NEW dead \in Processes, Crash(dead) PROVE damaged' = damaged
  BY <1>3 DEF Crash, tables
<1>4. CASE UNCHANGED vars
  BY <1>4 DEF vars
<1> QED BY <1>1, <1>2, <1>3, <1>4 DEF Next

LEMMA ServiceUndamaged == ServiceSpec => [](damaged = {})
<1>1. ServiceInit => damaged = {}
  BY DEF ServiceInit, Init
<1>2. damaged = {} /\ [ServiceNext]_allVars => (damaged = {})'
  <2>1. [ServiceNext]_allVars => [Next]_vars
    BY ServiceStepsStore DEF allVars
  <2> QED BY <2>1, NextDamagesNothing
<1> QED BY <1>1, <1>2, PTL DEF ServiceSpec

(* A run for which the service has answered 201 is in the database with    *)
(* all its events from then on (create_run, SQLiteRunStore.save).          *)
THEOREM AcknowledgedAlwaysStays == ServiceSpec => []AcknowledgedStays
<1>1. ServiceInv /\ damaged = {} => AcknowledgedStays
  <2> SUFFICES ASSUME ServiceInv, damaged = {}, NEW r \in acked
               PROVE  rows[r.id] = r /\ EventsAgree(r)
    BY DEF AcknowledgedStays
  <2>1. rows[r.id] = r /\ r \in Runs /\ r.id \in Ids /\ r # None
    BY RunsAssumption, NoneAssumption DEF ServiceInv, ServiceTypeOK
  <2> QED BY <2>1 DEF ServiceInv, StoreInv, StoreTypeOK, TablesAgree
<1> QED BY ServiceInvariant, ServiceUndamaged, <1>1, PTL

(* A read that comes in after the answer 201 finds the run, unless the     *)
(* database is busy, and no POST is answered with a conflict (get_run,     *)
(* get_events, create_run).                                                *)
THEOREM AcknowledgedAlwaysServed == ServiceSpec => []AcknowledgedIsServed
<1>1. ServiceInv /\ damaged = {} => AcknowledgedIsServed
  <2> SUFFICES ASSUME ServiceInv, damaged = {}, NEW c \in Clients
               PROVE  /\ requests[c].known # {} /\ At(c, "done") =>
                            calls[c].answer.kind \in {"found", "busy"}
                      /\ requests[c].status # 409
    BY DEF AcknowledgedIsServed
  <2>1. requests[c].status # 409
    BY DEF ServiceInv, AnswersHold
  <2>2. ASSUME requests[c].known # {}, At(c, "done")
        PROVE  calls[c].answer.kind \in {"found", "busy"}
    <3>1. StoreTypeOK /\ calls[c].pc = "done" /\ calls[c] \in SaveCalls \cup GetCalls
      BY <2>2, CallAt DEF ServiceInv, StoreInv, At, Call, Idle
    <3>2. Dialogue[c].phase = "answered" /\ Dialogue[c].op = calls[c].op
          /\ Dialogue[c].answer = Told(calls[c])
      BY <3>1 DEF Dialogue, View, Phase
    <3>3. Within(c, "get") /\ calls[c] \in GetCalls
      <4>1. ~Within(c, "save")
        BY <2>2 DEF ServiceInv, CallsAreRequests
      <4> QED BY <3>1, <3>2, <4>1 DEF Within, SaveCalls, GetCalls
    <3>4. Told(calls[c]).kind # "missing"
      BY <2>2, <3>2, <3>3 DEF ServiceInv, AnswersHold
    <3>5. calls[c].answer.kind \in {"busy", "found", "missing"}
      <4>1. calls[c].answer.kind # "damaged"
        BY <3>1 DEF ServiceInv, StoreInv, DamageIsReal, ToldOfDamage
      <4> QED BY <3>1, <3>3, <4>1 DEF GetCalls, GetPoints
    <3>6. calls[c].answer.kind # "missing"
      BY <3>1, <3>4 DEF Told, Failures
    <3> QED BY <3>5, <3>6
  <2> QED BY <2>1, <2>2
<1> QED BY ServiceInvariant, ServiceUndamaged, <1>1, PTL
=============================================================================
