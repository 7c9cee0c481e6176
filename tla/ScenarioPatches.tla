--------------------------- MODULE ScenarioPatches ---------------------------
(***************************************************************************)
(* scoped_runtime_configuration of src/control_gate/agent_benchmark.py: a  *)
(* thread that runs a scenario replaces names of the module                *)
(* invoice_runtime, under a re-entrant lock, and puts the old ones back    *)
(* when its body ends in whatever way.  Executions look the names up when  *)
(* they need them and take no lock; some run inside of a scenario, others  *)
(* in threads that know nothing of scenarios.                              *)
(*                                                                         *)
(* A gate is the governed one or the approving shim.  A proposer is the    *)
(* sequence of the edits that are wrapped around the original one.         *)
(***************************************************************************)
EXTENDS Integers, Sequences

CONSTANTS
    None,
    Threads,
    Edits,      \* the proposal mutations of scenarios
    Malformed,  \* one that _mutating_proposer cannot read
    MaxDepth    \* bound: how deep a thread nests scenarios

ASSUME ThreadsAssumption == None \notin Threads

VARIABLES
    names,      \* what the names of the module stand for
    lock,       \* _PATCH_LOCK: its owner and how often it holds the lock
    frames,     \* for each thread the scenarios it is in, innermost last
    runs        \* for each thread what its execution has looked up, or None

vars == <<names, lock, frames, runs>>

Originals == [decide |-> "governed", decide_runtime |-> "governed", propose |-> <<>>]

Configurations == [ungated : BOOLEAN, mutation : Edits \cup {Malformed, None}]

Frame(config) == [config |-> config, saved |-> None, pc |-> "capture"]

Init ==
    /\ names = Originals
    /\ lock = [owner |-> None, depth |-> 0]
    /\ frames = [t \in Threads |-> <<>>]
    /\ runs = [t \in Threads |-> None]

Depth(t) == Len(frames[t])

Innermost(t) == frames[t][Depth(t)]

At(t, pc) == Depth(t) > 0 /\ Innermost(t).pc = pc

Goto(t, pc) == frames' = [frames EXCEPT ![t][Depth(t)].pc = pc]

(* The thread is in the body of its scenario, or in none.                  *)
InBody(t) == Depth(t) = 0 \/ At(t, "body")

----------------------------------------------------------------------------
(* scoped_runtime_configuration.                                           *)

(* Variant of Acquire without a lock.                                      *)
AcquireNothing(t) == UNCHANGED lock

Acquire(t) ==
    /\ lock.owner \in {None, t}
    /\ lock' = [owner |-> t, depth |-> lock.depth + 1]

Enter(t, config) ==
    /\ InBody(t) /\ runs[t] = None /\ Depth(t) < MaxDepth
    /\ Acquire(t)
    /\ frames' = [frames EXCEPT ![t] = Append(@, Frame(config))]
    /\ UNCHANGED <<names, runs>>

Capture(t) ==
    /\ At(t, "capture")
    /\ frames' = [frames EXCEPT ![t][Depth(t)].saved = names,
                                ![t][Depth(t)].pc = "patch_decide"]
    /\ UNCHANGED <<names, lock, runs>>

PatchDecide(t) ==
    /\ At(t, "patch_decide")
    /\ names' = IF Innermost(t).config.ungated
                THEN [names EXCEPT !.decide = "approving"] ELSE names
    /\ Goto(t, "patch_runtime")
    /\ UNCHANGED <<lock, runs>>

PatchRuntime(t) ==
    /\ At(t, "patch_runtime")
    /\ names' = IF Innermost(t).config.ungated
                THEN [names EXCEPT !.decide_runtime = "approving"] ELSE names
    /\ Goto(t, "patch_propose")
    /\ UNCHANGED <<lock, runs>>

(* The proposer is wrapped around the one that was found on entry.         *)
PatchPropose(t) ==
    LET mutation == Innermost(t).config.mutation
    IN  /\ At(t, "patch_propose")
        /\ names' = IF mutation \in {None, Malformed} THEN names
                    ELSE [names EXCEPT !.propose =
                            Append(Innermost(t).saved.propose, mutation)]
        /\ Goto(t, IF mutation = Malformed THEN "restore_decide" ELSE "body")
        /\ UNCHANGED <<lock, runs>>

(* Variant of AfterBody that restores only what a body that returns has    *)
(* changed.                                                                *)
AfterReturn(how) == IF how = "return" THEN "restore_decide" ELSE "release"

AfterBody(how) == "restore_decide"

(* The body returns, or raises in the middle of an execution.              *)
Leave(t, how) ==
    /\ At(t, "body")
    /\ how = "return" => runs[t] = None
    /\ runs' = [runs EXCEPT ![t] = None]
    /\ Goto(t, AfterBody(how))
    /\ UNCHANGED <<names, lock>>

RestoreDecide(t) ==
    /\ At(t, "restore_decide")
    /\ names' = [names EXCEPT !.decide = Innermost(t).saved.decide]
    /\ Goto(t, "restore_runtime")
    /\ UNCHANGED <<lock, runs>>

RestoreRuntime(t) ==
    /\ At(t, "restore_runtime")
    /\ names' = [names EXCEPT !.decide_runtime = Innermost(t).saved.decide_runtime]
    /\ Goto(t, "restore_propose")
    /\ UNCHANGED <<lock, runs>>

RestorePropose(t) ==
    /\ At(t, "restore_propose")
    /\ names' = [names EXCEPT !.propose = Innermost(t).saved.propose]
    /\ Goto(t, "release")
    /\ UNCHANGED <<lock, runs>>

(* Leaves the scenario; the lock is free when the outermost one is left.   *)
Release(t) ==
    /\ At(t, "release")
    /\ frames' = [frames EXCEPT ![t] = SubSeq(@, 1, Depth(t) - 1)]
    /\ lock' = IF lock.owner = t
               THEN [owner |-> IF lock.depth = 1 THEN None ELSE t, depth |-> lock.depth - 1]
               ELSE lock
    /\ UNCHANGED <<names, runs>>

----------------------------------------------------------------------------
(* An execution: execute_invoice looks decide up once, and _advance looks  *)
(* up _propose and decide_runtime at every call, as often as it comes to   *)
(* that.  met is whether another thread was in a scenario at one of these  *)
(* moments.                                                                *)

Elsewhere(t) == \E other \in Threads \ {t} : Depth(other) > 0

Started(t) ==
    [decide |-> names.decide, runtime |-> {}, propose |-> {}, met |-> Elsewhere(t)]

Execute(t) ==
    /\ InBody(t) /\ runs[t] = None
    /\ runs' = [runs EXCEPT ![t] = Started(t)]
    /\ UNCHANGED <<names, lock, frames>>

Propose(t) ==
    /\ runs[t] # None
    /\ runs' = [runs EXCEPT ![t].propose = @ \cup {names.propose},
                            ![t].met = @ \/ Elsewhere(t)]
    /\ UNCHANGED <<names, lock, frames>>

Judge(t) ==
    /\ runs[t] # None
    /\ runs' = [runs EXCEPT ![t].runtime = @ \cup {names.decide_runtime},
                            ![t].met = @ \/ Elsewhere(t)]
    /\ UNCHANGED <<names, lock, frames>>

Finish(t) ==
    /\ runs[t] # None
    /\ runs' = [runs EXCEPT ![t] = None]
    /\ UNCHANGED <<names, lock, frames>>

Configure(t) ==
    \/ \E config \in Configurations : Enter(t, config)
    \/ Capture(t) \/ PatchDecide(t) \/ PatchRuntime(t) \/ PatchPropose(t)
    \/ \E how \in {"return", "raise"} : Leave(t, how)
    \/ RestoreDecide(t) \/ RestoreRuntime(t) \/ RestorePropose(t) \/ Release(t)

Next ==
    \E t \in Threads :
        Configure(t) \/ Execute(t) \/ Propose(t) \/ Judge(t) \/ Finish(t)

Spec == Init /\ [][Next]_vars

----------------------------------------------------------------------------
(* Properties.                                                             *)

(* The gates that the outermost n scenarios of a stack make together.      *)
GateUnder(stack, n) ==
    IF \E k \in 1..n : stack[k].config.ungated THEN "approving" ELSE "governed"

(* The edits are those of the outermost n scenarios of a stack, each once  *)
(* and in their order.                                                     *)
EditsUnder(edits, stack, n) ==
    LET edited == {k \in 1..n : stack[k].config.mutation # None}
    IN  \E place \in [DOMAIN edits -> edited] :
            /\ \A k \in edited : \E i \in DOMAIN edits : place[i] = k
            /\ \A i, j \in DOMAIN edits : i < j => place[i] < place[j]
            /\ \A i \in DOMAIN edits : edits[i] = stack[place[i]].config.mutation

(* An execution inside of a scenario sees, from its first look to its      *)
(* last, exactly the configuration of the scenarios around it, however     *)
(* threads interleave and however inner scenarios ended                    *)
(* (scoped_runtime_configuration).                                         *)
ScenarioSeesItsConfiguration ==
    \A t \in Threads :
        Depth(t) > 0 /\ runs[t] # None =>
            LET gate == GateUnder(frames[t], Depth(t))
            IN  /\ runs[t].decide = gate
                /\ runs[t].runtime \subseteq {gate}
                /\ \A edits \in runs[t].propose : EditsUnder(edits, frames[t], Depth(t))

(* An execution outside of every scenario, during which no thread is in    *)
(* one, sees the governed gates and the plain proposer, whatever scenarios *)
(* there were before (scoped_runtime_configuration).                       *)
NothingLeaks ==
    \A t \in Threads :
        Depth(t) = 0 /\ runs[t] # None /\ ~runs[t].met =>
            /\ runs[t].decide = "governed"
            /\ runs[t].runtime \subseteq {"governed"}
            /\ runs[t].propose \subseteq {<<>>}
=============================================================================
