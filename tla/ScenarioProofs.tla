--------------------------- MODULE ScenarioProofs ---------------------------
(***************************************************************************)
(* For any number of threads, any nesting and any configurations: what a   *)
(* scenario replaces never reaches an execution that no scenario overlaps, *)
(* and an execution inside of scenarios sees exactly what they replace.    *)
(*                                                                         *)
(* Only the lock's owner is in scenarios; its outer scenarios are in their *)
(* bodies; each saved what the ones around it make of the names, the       *)
(* outermost one the originals; and each puts back name after name before  *)
(* it gives the lock up.                                                   *)
(***************************************************************************)
EXTENDS ScenarioPatches, SequenceTheorems, TLAPS

Gates == {"governed", "approving"}

Names == [decide : Gates, decide_runtime : Gates, propose : Seq(Edits)]

Plain(found) ==
    found.decide = "governed" /\ found.decide_runtime = "governed" /\ found.propose = <<>>

Steps ==
    {"capture", "patch_decide", "patch_runtime", "patch_propose", "body",
     "restore_decide", "restore_runtime", "restore_propose", "release"}

Frames == [config : Configurations, saved : Names \cup {None}, pc : Steps]

Executions ==
    [decide : Gates, runtime : SUBSET Gates, propose : SUBSET Seq(Edits), met : BOOLEAN]

Shapes ==
    /\ names \in Names
    /\ lock \in [owner : Threads \cup {None}, depth : Nat]
    /\ frames \in [Threads -> Seq(Frames)]
    /\ runs \in [Threads -> Executions \cup {None}]
    /\ \A t \in Threads : \A k \in 1..Depth(t) :
          frames[t][k].pc # "capture" => frames[t][k].saved \in Names

(* Who holds the lock, and how often.                                      *)
LockHeld ==
    /\ lock.owner = None => lock.depth = 0 /\ \A t \in Threads : Depth(t) = 0
    /\ lock.owner # None =>
          /\ lock.owner \in Threads
          /\ lock.depth = Depth(lock.owner) /\ lock.depth > 0
          /\ \A t \in Threads \ {lock.owner} : Depth(t) = 0

(* What a scenario at pc that found the originals has put back.            *)
PutBack(pc, found) ==
    /\ pc \in {"restore_runtime", "restore_propose", "release"} =>
          found.decide = "governed"
    /\ pc \in {"restore_propose", "release"} => found.decide_runtime = "governed"
    /\ pc = "release" => found.propose = <<>>

OutermostRestores(t) ==
    LET outermost == frames[t][1]
    IN  /\ outermost.pc # "capture" => Plain(outermost.saved)
        /\ outermost.pc = "capture" => Plain(names)
        /\ PutBack(outermost.pc, names)

ScenariosNest ==
    \A t \in Threads :
        Depth(t) > 0 =>
            /\ \A k \in 1..(Depth(t) - 1) : frames[t][k].pc = "body"
            /\ Innermost(t).pc # "body" => runs[t] = None
            /\ OutermostRestores(t)

PlainOutside == (\A t \in Threads : Depth(t) = 0) => Plain(names)

ScenarioInv == Shapes /\ LockHeld /\ ScenariosNest /\ PlainOutside /\ NothingLeaks

----------------------------------------------------------------------------
LEMMA ScenarioInitHolds == Init => ScenarioInv
<1> SUFFICES ASSUME Init PROVE ScenarioInv
  OBVIOUS
<1>1. names \in Names /\ Plain(names)
  BY DEF Init, Originals, Names, Gates, Plain
<1>2. \A t \in Threads : Depth(t) = 0 /\ runs[t] = None /\ frames[t] \in Seq(Frames)
  BY DEF Init, Depth
<1>3. Shapes
  BY <1>1, <1>2 DEF Init, Shapes
<1> QED
  BY <1>1, <1>2, <1>3
  DEF Init, ScenarioInv, LockHeld, ScenariosNest, PlainOutside, NothingLeaks

(* Only the owner of the lock is in scenarios.                             *)
LEMMA InsideAlone ==
    ASSUME ScenarioInv, NEW t \in Threads, Depth(t) > 0
    PROVE  /\ lock.owner = t /\ lock.owner # None /\ lock.depth = Depth(t)
           /\ \A other \in Threads \ {t} : Depth(other) = 0
BY ThreadsAssumption DEF ScenarioInv, LockHeld

(* A step of the innermost scenario of a thread, which leaves every depth  *)
(* alone and may end the execution inside.                                 *)
LEMMA InnerStep ==
    ASSUME ScenarioInv, NEW t \in Threads, Depth(t) > 0,
           NEW frame \in Frames, frame.pc # "capture" => frame.saved \in Names,
           frame.pc # "body" => runs'[t] = None,
           names' \in Names, lock' = lock,
           runs' \in {runs, [runs EXCEPT ![t] = None]},
           frames' = [frames EXCEPT ![t] = [@ EXCEPT ![Depth(t)] = frame]],
           Depth(t) = 1 =>
              /\ frame.pc # "capture" => Plain(frame.saved)
              /\ frame.pc = "capture" => Plain(names')
              /\ PutBack(frame.pc, names')
    PROVE  ScenarioInv'
<1>1. /\ \A u \in Threads : Depth(u)' = Depth(u)
      /\ \A u \in Threads \ {t} : frames'[u] = frames[u]
      /\ frames'[t][Depth(t)] = frame
      /\ \A k \in 1..(Depth(t) - 1) : frames'[t][k] = frames[t][k]
      /\ frames' \in [Threads -> Seq(Frames)]
  BY DEF ScenarioInv, Shapes, Depth
<1>2. Depth(t) \in Nat
  BY DEF ScenarioInv, Shapes, Depth
<1>3. Shapes'
  <2>1. runs' \in [Threads -> Executions \cup {None}]
    BY DEF ScenarioInv, Shapes
  <2>2. \A k \in 1..Depth(t) : k = Depth(t) \/ k \in 1..(Depth(t) - 1)
    BY <1>2
  <2>3. \A k \in 1..Depth(t) : frames'[t][k].pc # "capture" => frames'[t][k].saved \in Names
    BY <1>1, <2>2 DEF ScenarioInv, Shapes
  <2>4. \A u \in Threads \ {t} : \A k \in 1..Depth(u) :
           frames'[u][k].pc # "capture" => frames'[u][k].saved \in Names
    BY <1>1 DEF ScenarioInv, Shapes
  <2> QED
    BY <1>1, <2>1, <2>3, <2>4 DEF ScenarioInv, Shapes
<1>4. LockHeld'
  BY <1>1 DEF ScenarioInv, LockHeld
<1>5. ScenariosNest'
  <2>1. \A u \in Threads \ {t} : Depth(u) = 0
    BY InsideAlone
  <2>2. Innermost(t)' = frame
    BY <1>1 DEF Innermost
  <2>3. \A k \in 1..(Depth(t) - 1) : frames'[t][k].pc = "body"
    BY <1>1 DEF ScenarioInv, ScenariosNest
  <2>4. OutermostRestores(t)'
    <3>1. CASE Depth(t) = 1
      BY <1>1, <3>1 DEF OutermostRestores, Plain, PutBack
    <3>2. CASE Depth(t) # 1
      <4>1. 1 \in 1..(Depth(t) - 1)
        BY <1>2, <3>2
      <4>2. /\ frames'[t][1] = frames[t][1] /\ frames[t][1].pc = "body"
            /\ OutermostRestores(t)
        BY <1>1, <4>1 DEF ScenarioInv, ScenariosNest
      <4> QED
        BY <4>2 DEF OutermostRestores, Plain, PutBack
    <3> QED
      BY <3>1, <3>2
  <2> QED
    BY <1>1, <2>1, <2>2, <2>3, <2>4 DEF ScenariosNest
<1>6. PlainOutside'
  BY <1>1 DEF PlainOutside
<1>7. NothingLeaks'
  BY <1>1 DEF ScenarioInv, Shapes, NothingLeaks
<1> QED
  BY <1>3, <1>4, <1>5, <1>6, <1>7 DEF ScenarioInv

(* Where the innermost scenario stands, and what it saved.                 *)
LEMMA InnermostFrame ==
    ASSUME ScenarioInv, NEW t \in Threads, Depth(t) > 0
    PROVE  /\ Depth(t) \in Nat /\ Innermost(t) \in Frames
           /\ frames[t] \in Seq(Frames) /\ names \in Names
           /\ Innermost(t).pc # "capture" => Innermost(t).saved \in Names
           /\ Innermost(t).pc # "body" => runs[t] = None
           /\ Depth(t) = 1 => OutermostRestores(t) /\ Innermost(t) = frames[t][1]
BY DEF ScenarioInv, Shapes, ScenariosNest, Depth, Innermost

LEMMA MovesOn ==
    ASSUME ScenarioInv, NEW t \in Threads, Depth(t) > 0, NEW pc, Goto(t, pc)
    PROVE  frames' = [frames EXCEPT ![t] =
                        [@ EXCEPT ![Depth(t)] = [Innermost(t) EXCEPT !.pc = pc]]]
BY DEF Goto, Innermost

LEMMA CaptureKeeps ==
    ASSUME ScenarioInv, NEW t \in Threads, Capture(t)
    PROVE  ScenarioInv'
<1> DEFINE frame == [Innermost(t) EXCEPT !.saved = names, !.pc = "patch_decide"]
<1>1. Depth(t) > 0 /\ Innermost(t).pc = "capture"
  BY DEF Capture, At
<1>2. /\ Depth(t) \in Nat /\ Innermost(t) \in Frames /\ names \in Names
      /\ runs[t] = None
      /\ Depth(t) = 1 => OutermostRestores(t) /\ Innermost(t) = frames[t][1]
  BY <1>1, InnermostFrame
<1>3. /\ frame \in Frames /\ frame.pc = "patch_decide" /\ frame.saved = names
  BY <1>2 DEF Frames, Steps
<1>4. frames' = [frames EXCEPT ![t] = [@ EXCEPT ![Depth(t)] = frame]]
  <2>1. frames[t] \in Seq(Frames) /\ frames \in [Threads -> Seq(Frames)]
    BY DEF ScenarioInv, Shapes
  <2> QED
    BY <1>2, <2>1 DEF Capture, Innermost, Depth, Frames
<1>5. Depth(t) = 1 => Plain(names) /\ PutBack("patch_decide", names)
  BY <1>1, <1>2 DEF OutermostRestores, PutBack
<1>6. names' = names /\ lock' = lock /\ runs' = runs
  BY DEF Capture
<1> HIDE DEF frame
<1> QED
  BY <1>1, <1>2, <1>3, <1>4, <1>5, <1>6, InnerStep

(* A step that goes from one label to the next, leaving what was saved.    *)
LEMMA LabelStep ==
    ASSUME ScenarioInv, NEW t \in Threads, Depth(t) > 0, NEW pc \in Steps,
           Goto(t, pc), Innermost(t).pc # "capture", pc # "capture",
           pc # "body" => runs'[t] = None,
           names' \in Names, lock' = lock,
           runs' \in {runs, [runs EXCEPT ![t] = None]},
           Plain(Innermost(t).saved) /\ PutBack(Innermost(t).pc, names)
              => PutBack(pc, names')
    PROVE  ScenarioInv'
<1> DEFINE frame == [Innermost(t) EXCEPT !.pc = pc]
<1>1. /\ Innermost(t) \in Frames /\ Innermost(t).saved \in Names
      /\ Depth(t) = 1 => OutermostRestores(t) /\ Innermost(t) = frames[t][1]
  BY InnermostFrame
<1>2. /\ frame \in Frames /\ frame.pc = pc /\ frame.saved = Innermost(t).saved
  BY <1>1 DEF Frames
<1>3. frames' = [frames EXCEPT ![t] = [@ EXCEPT ![Depth(t)] = frame]]
  BY MovesOn
<1>4. Depth(t) = 1 => Plain(frame.saved) /\ PutBack(pc, names')
  BY <1>1, <1>2 DEF OutermostRestores
<1> HIDE DEF frame
<1> QED
  BY <1>1, <1>2, <1>3, <1>4, InnerStep

(* The names replaced.                                                     *)
LEMMA PatchesKeep ==
    ASSUME ScenarioInv, NEW t \in Threads,
           PatchDecide(t) \/ PatchRuntime(t) \/ PatchPropose(t)
    PROVE  ScenarioInv'
<1>1. /\ Depth(t) > 0 /\ lock' = lock /\ runs' = runs
      /\ Innermost(t).pc \in {"patch_decide", "patch_runtime", "patch_propose"}
  BY DEF PatchDecide, PatchRuntime, PatchPropose, At
<1>2. /\ Innermost(t) \in Frames /\ names \in Names /\ runs[t] = None
      /\ Innermost(t).saved \in Names
  BY <1>1, InnermostFrame
<1>3. names' \in Names
  <2>1. CASE PatchDecide(t) \/ PatchRuntime(t)
    BY <1>2, <2>1 DEF PatchDecide, PatchRuntime, Names, Gates
  <2>2. CASE PatchPropose(t)
    <3> DEFINE mutation == Innermost(t).config.mutation
    <3>1. mutation \in Edits \cup {Malformed, None}
      BY <1>2 DEF Frames, Configurations
    <3>2. Innermost(t).saved.propose \in Seq(Edits)
      BY <1>2 DEF Names
    <3> HIDE DEF mutation
    <3>3. mutation \notin {Malformed, None} =>
             Append(Innermost(t).saved.propose, mutation) \in Seq(Edits)
      BY <3>1, <3>2
    <3> QED
      BY <1>2, <2>2, <3>3 DEF PatchPropose, Names, mutation
  <2> QED
    BY <2>1, <2>2
<1>4. PICK pc \in {"patch_runtime", "patch_propose", "restore_decide", "body"} :
        Goto(t, pc)
  BY DEF PatchDecide, PatchRuntime, PatchPropose
<1>5. pc \in Steps /\ PutBack(pc, names')
  BY <1>4 DEF Steps, PutBack
<1> QED
  BY <1>1, <1>2, <1>3, <1>4, <1>5, LabelStep

(* The names put back, one after the other.                                *)
LEMMA RestoresKeep ==
    ASSUME ScenarioInv, NEW t \in Threads,
           RestoreDecide(t) \/ RestoreRuntime(t) \/ RestorePropose(t)
    PROVE  ScenarioInv'
<1>1. /\ Depth(t) > 0 /\ lock' = lock /\ runs' = runs
      /\ Innermost(t).pc \in {"restore_decide", "restore_runtime", "restore_propose"}
  BY DEF RestoreDecide, RestoreRuntime, RestorePropose, At
<1>2. names \in Names /\ runs[t] = None /\ Innermost(t).saved \in Names
  BY <1>1, InnermostFrame
<1>3. names' \in Names
  BY <1>2 DEF RestoreDecide, RestoreRuntime, RestorePropose, Names
<1>4. PICK pc \in {"restore_runtime", "restore_propose", "release"} :
        /\ Goto(t, pc)
        /\ Plain(Innermost(t).saved) /\ PutBack(Innermost(t).pc, names)
              => PutBack(pc, names')
  <2>1. CASE RestoreDecide(t)
    BY <1>2, <2>1 DEF RestoreDecide, At, Names, Plain, PutBack
  <2>2. CASE RestoreRuntime(t)
    BY <1>2, <2>2 DEF RestoreRuntime, At, Names, Plain, PutBack
  <2>3. CASE RestorePropose(t)
    BY <1>2, <2>3 DEF RestorePropose, At, Names, Plain, PutBack
  <2> QED
    BY <2>1, <2>2, <2>3
<1>5. pc \in Steps
  BY DEF Steps
<1> QED
  BY <1>1, <1>2, <1>3, <1>4, <1>5, LabelStep

LEMMA LeaveKeeps ==
    ASSUME ScenarioInv, NEW t \in Threads, NEW how \in {"return", "raise"}, Leave(t, how)
    PROVE  ScenarioInv'
<1>1. /\ Depth(t) > 0 /\ lock' = lock /\ runs' = [runs EXCEPT ![t] = None]
      /\ Innermost(t).pc = "body" /\ names' = names /\ Goto(t, "restore_decide")
  BY DEF Leave, At, AfterBody
<1>2. names \in Names /\ runs'[t] = None
  BY <1>1 DEF ScenarioInv, Shapes
<1>3. "restore_decide" \in Steps /\ PutBack("restore_decide", names')
  BY DEF Steps, PutBack
<1> QED
  BY <1>1, <1>2, <1>3, LabelStep

LEMMA EnterKeeps ==
    ASSUME ScenarioInv, NEW t \in Threads, NEW config \in Configurations,
           Enter(t, config)
    PROVE  ScenarioInv'
<1> DEFINE frame == Frame(config)
<1>1. /\ InBody(t) /\ runs[t] = None /\ names' = names /\ runs' = runs
      /\ lock.owner \in {None, t} /\ lock' = [owner |-> t, depth |-> lock.depth + 1]
      /\ frames' = [frames EXCEPT ![t] = Append(@, frame)]
  BY DEF Enter, Acquire
<1>2. /\ frames \in [Threads -> Seq(Frames)] /\ Depth(t) \in Nat
      /\ lock.depth = Depth(t) /\ \A u \in Threads \ {t} : Depth(u) = 0
  <2>1. lock.owner = t => lock.owner # None
    BY ThreadsAssumption
  <2> QED
    BY <1>1, <2>1 DEF ScenarioInv, Shapes, LockHeld, Depth
<1>3. /\ frame \in Frames /\ frame.pc = "capture"
  BY DEF Frame, Frames, Steps
<1> HIDE DEF frame
<1>4. /\ Depth(t)' = Depth(t) + 1 /\ frames' \in [Threads -> Seq(Frames)]
      /\ \A u \in Threads \ {t} : frames'[u] = frames[u] /\ Depth(u)' = 0
      /\ Innermost(t)' = frame
      /\ \A k \in 1..Depth(t) : frames'[t][k] = frames[t][k]
  BY <1>1, <1>2, <1>3 DEF Depth, Innermost
<1>5. Shapes'
  <2>1. \A k \in 1..Depth(t)' : k = Depth(t)' \/ k \in 1..Depth(t)
    BY <1>2, <1>4
  <2>2. \A k \in 1..Depth(t)' : frames'[t][k].pc # "capture" => frames'[t][k].saved \in Names
    BY <1>3, <1>4, <2>1 DEF ScenarioInv, Shapes, Innermost
  <2>3. \A u \in Threads \ {t} : \A k \in 1..Depth(u)' :
           frames'[u][k].pc # "capture" => frames'[u][k].saved \in Names
    BY <1>4
  <2>4. lock' \in [owner : Threads \cup {None}, depth : Nat]
    BY <1>1 DEF ScenarioInv, Shapes
  <2> QED
    BY <1>1, <1>4, <2>2, <2>3, <2>4 DEF ScenarioInv, Shapes
<1>6. LockHeld'
  BY <1>1, <1>2, <1>4, ThreadsAssumption DEF LockHeld
<1>7. ScenariosNest'
  <2>1. \A k \in 1..Depth(t) : frames'[t][k].pc = "body"
    <3> SUFFICES ASSUME NEW k \in 1..Depth(t)
                 PROVE  frames[t][k].pc = "body"
      BY <1>4
    <3>1. Depth(t) > 0 /\ (k = Depth(t) \/ k \in 1..(Depth(t) - 1))
      BY <1>2
    <3> QED
      BY <1>1, <3>1 DEF ScenarioInv, ScenariosNest, InBody, At, Innermost
  <2>2. OutermostRestores(t)'
    <3>1. CASE Depth(t) = 0
      <4>1. Plain(names) /\ frames'[t][1] = frame
        BY <1>2, <1>4, <3>1 DEF ScenarioInv, PlainOutside, Innermost
      <4> QED
        BY <1>1, <1>3, <4>1 DEF OutermostRestores, Plain, PutBack
    <3>2. CASE Depth(t) > 0
      <4>1. frames'[t][1] = frames[t][1] /\ OutermostRestores(t)
        BY <1>2, <1>4, <3>2 DEF ScenarioInv, ScenariosNest
      <4> QED
        BY <1>1, <4>1 DEF OutermostRestores, Plain, PutBack
    <3> QED
      BY <1>2, <3>1, <3>2
  <2>3. /\ Depth(t)' - 1 = Depth(t) /\ runs'[t] = None
        /\ \A u \in Threads \ {t} : ~(Depth(u)' > 0)
    BY <1>1, <1>2, <1>4
  <2> QED
    BY <2>1, <2>2, <2>3 DEF ScenariosNest
<1>8. PlainOutside'
  BY <1>2, <1>4 DEF PlainOutside
<1>9. NothingLeaks'
  BY <1>1, <1>2, <1>4 DEF ScenarioInv, NothingLeaks
<1> QED
  BY <1>5, <1>6, <1>7, <1>8, <1>9 DEF ScenarioInv

LEMMA ReleaseKeeps ==
    ASSUME ScenarioInv, NEW t \in Threads, Release(t)
    PROVE  ScenarioInv'
<1>1. /\ Depth(t) > 0 /\ Innermost(t).pc = "release"
      /\ names' = names /\ runs' = runs
      /\ frames' = [frames EXCEPT ![t] = SubSeq(@, 1, Depth(t) - 1)]
  BY DEF Release, At
<1>2. /\ lock.owner = t /\ lock.depth = Depth(t)
      /\ \A u \in Threads \ {t} : Depth(u) = 0
  BY <1>1, InsideAlone
<1>3. lock' = [owner |-> IF Depth(t) = 1 THEN None ELSE t, depth |-> Depth(t) - 1]
  BY <1>2 DEF Release
<1>4. /\ Depth(t) \in Nat /\ names \in Names /\ runs[t] = None
      /\ frames \in [Threads -> Seq(Frames)]
      /\ Depth(t) = 1 => OutermostRestores(t) /\ Innermost(t) = frames[t][1]
  BY <1>1, InnermostFrame DEF ScenarioInv, Shapes
<1>5. /\ Depth(t)' = Depth(t) - 1 /\ frames' \in [Threads -> Seq(Frames)]
      /\ \A u \in Threads \ {t} : frames'[u] = frames[u] /\ Depth(u)' = 0
      /\ \A k \in 1..(Depth(t) - 1) : frames'[t][k] = frames[t][k]
  <2>1. frames[t] \in Seq(Frames) /\ Depth(t) = Len(frames[t])
    BY <1>4 DEF Depth
  <2>2. /\ SubSeq(frames[t], 1, Depth(t) - 1) \in Seq(Frames)
        /\ Len(SubSeq(frames[t], 1, Depth(t) - 1)) = Depth(t) - 1
        /\ \A k \in 1..(Depth(t) - 1) :
              SubSeq(frames[t], 1, Depth(t) - 1)[k] = frames[t][k]
    BY <1>1, <1>4, <2>1, SubSeqProperties
  <2>3. /\ frames'[t] = SubSeq(frames[t], 1, Depth(t) - 1)
        /\ \A u \in Threads \ {t} : frames'[u] = frames[u]
        /\ frames' \in [Threads -> Seq(Frames)]
    BY <1>1, <1>4, <2>2
  <2> QED
    BY <1>2, <2>2, <2>3 DEF Depth
<1>6. Shapes'
  BY <1>1, <1>3, <1>4, <1>5 DEF ScenarioInv, Shapes
<1>7. LockHeld'
  BY <1>1, <1>3, <1>4, <1>5, ThreadsAssumption DEF LockHeld
<1>8. ASSUME Depth(t) = 1
      PROVE  Plain(names)
  BY <1>1, <1>4, <1>8 DEF ScenarioInv, ScenariosNest, OutermostRestores, PutBack, Plain
<1>9. ScenariosNest'
  <2> SUFFICES ASSUME Depth(t) > 1
               PROVE  /\ \A k \in 1..(Depth(t) - 2) : frames'[t][k].pc = "body"
                      /\ OutermostRestores(t)'
    BY <1>1, <1>4, <1>5 DEF ScenariosNest
  <2>1. \A k \in 1..(Depth(t) - 1) : frames'[t][k].pc = "body"
    BY <1>1, <1>5 DEF ScenarioInv, ScenariosNest
  <2>2. frames'[t][1] = frames[t][1] /\ OutermostRestores(t)
    BY <1>4, <1>5 DEF ScenarioInv, ScenariosNest
  <2> QED
    BY <1>1, <1>4, <2>1, <2>2 DEF OutermostRestores, Plain, PutBack
<1>10. PlainOutside'
  BY <1>1, <1>4, <1>5, <1>8 DEF PlainOutside, Plain
<1>11. NothingLeaks'
  BY <1>1, <1>2, <1>4, <1>5 DEF ScenarioInv, NothingLeaks
<1> QED
  BY <1>6, <1>7, <1>9, <1>10, <1>11 DEF ScenarioInv

(* Executions.                                                             *)
LEMMA ExecutionStep ==
    ASSUME ScenarioInv, NEW t \in Threads, NEW run \in Executions \cup {None},
           UNCHANGED <<names, lock, frames>>, runs' = [runs EXCEPT ![t] = run],
           run # None => InBody(t),
           Depth(t) = 0 /\ run # None /\ ~run.met =>
              /\ run.decide = "governed"
              /\ run.runtime \subseteq {"governed"}
              /\ run.propose \subseteq {<<>>}
    PROVE  ScenarioInv'
<1>1. /\ runs \in [Threads -> Executions \cup {None}]
      /\ names' = names /\ lock' = lock /\ frames' = frames
  BY DEF ScenarioInv, Shapes
<1>2. Shapes' /\ LockHeld' /\ PlainOutside'
  BY <1>1 DEF ScenarioInv, Shapes, LockHeld, PlainOutside, Plain, Depth
<1>3. ScenariosNest'
  BY <1>1 DEF ScenarioInv, ScenariosNest, Depth, Innermost, OutermostRestores, Plain,
              PutBack, InBody, At
<1>4. NothingLeaks'
  BY <1>1 DEF ScenarioInv, NothingLeaks, Depth
<1> QED
  BY <1>2, <1>3, <1>4 DEF ScenarioInv

(* With nobody in a scenario, what an execution looks up is the original.  *)
LEMMA LooksPlain ==
    ASSUME ScenarioInv, NEW t \in Threads, Depth(t) = 0, ~Elsewhere(t)
    PROVE  Plain(names)
<1>1. \A u \in Threads : Depth(u) \in Nat
  BY DEF ScenarioInv, Shapes, Depth
<1> QED
  BY <1>1 DEF ScenarioInv, PlainOutside, Elsewhere

(* An execution is in the body of its thread's scenario, if it is in one.  *)
LEMMA RunsInBody ==
    ASSUME ScenarioInv, NEW t \in Threads, runs[t] # None
    PROVE  InBody(t) /\ runs[t] \in Executions
BY DEF ScenarioInv, Shapes, ScenariosNest, InBody, At, Depth

LEMMA ExecutionsKeep ==
    ASSUME ScenarioInv, NEW t \in Threads,
           Execute(t) \/ Propose(t) \/ Judge(t) \/ Finish(t)
    PROVE  ScenarioInv'
<1>1. names \in Names /\ Elsewhere(t) \in BOOLEAN
  BY DEF ScenarioInv, Shapes, Elsewhere
<1>2. UNCHANGED <<names, lock, frames>>
  BY DEF Execute, Propose, Judge, Finish
<1>3. CASE Execute(t)
  <2>1. Started(t) \in Executions
    BY <1>1 DEF Started, Executions, Names
  <2>2. Depth(t) = 0 /\ ~Started(t).met =>
           /\ Started(t).decide = "governed"
           /\ Started(t).runtime \subseteq {"governed"}
           /\ Started(t).propose \subseteq {<<>>}
    BY LooksPlain DEF Started, Plain
  <2> QED
    BY <1>2, <1>3, <2>1, <2>2, ExecutionStep DEF Execute
<1>4. CASE Propose(t)
  <2> DEFINE run == [runs[t] EXCEPT !.propose = @ \cup {names.propose},
                                    !.met = @ \/ Elsewhere(t)]
  <2>1. runs' = [runs EXCEPT ![t] = run] /\ runs[t] # None
    BY <1>4 DEF Propose
  <2>2. InBody(t) /\ runs[t] \in Executions
    BY <2>1, RunsInBody
  <2>3. run \in Executions
    BY <1>1, <2>2 DEF Executions, Names
  <2>4. Depth(t) = 0 /\ ~run.met =>
           /\ run.decide = "governed"
           /\ run.runtime \subseteq {"governed"}
           /\ run.propose \subseteq {<<>>}
    BY <1>1, <2>1, <2>2, LooksPlain DEF ScenarioInv, NothingLeaks, Plain, Executions
  <2> HIDE DEF run
  <2> QED
    BY <1>2, <2>1, <2>2, <2>3, <2>4, ExecutionStep
<1>5. CASE Judge(t)
  <2> DEFINE run == [runs[t] EXCEPT !.runtime = @ \cup {names.decide_runtime},
                                    !.met = @ \/ Elsewhere(t)]
  <2>1. runs' = [runs EXCEPT ![t] = run] /\ runs[t] # None
    BY <1>5 DEF Judge
  <2>2. InBody(t) /\ runs[t] \in Executions
    BY <2>1, RunsInBody
  <2>3. run \in Executions
    BY <1>1, <2>2 DEF Executions, Names
  <2>4. Depth(t) = 0 /\ ~run.met =>
           /\ run.decide = "governed"
           /\ run.runtime \subseteq {"governed"}
           /\ run.propose \subseteq {<<>>}
    BY <1>1, <2>1, <2>2, LooksPlain DEF ScenarioInv, NothingLeaks, Plain, Executions
  <2> HIDE DEF run
  <2> QED
    BY <1>2, <2>1, <2>2, <2>3, <2>4, ExecutionStep
<1>6. CASE Finish(t)
  BY <1>2, <1>6, ExecutionStep DEF Finish
<1> QED
  BY <1>3, <1>4, <1>5, <1>6

LEMMA ScenarioStepKeeps == ScenarioInv /\ [Next]_vars => ScenarioInv'
<1> SUFFICES ASSUME ScenarioInv, [Next]_vars PROVE ScenarioInv'
  OBVIOUS
<1>1. CASE UNCHANGED vars
  BY <1>1 DEF vars, ScenarioInv, Shapes, LockHeld, ScenariosNest, OutermostRestores,
              PlainOutside, NothingLeaks, Plain, PutBack, Depth, Innermost
<1> QED
  BY <1>1, EnterKeeps, CaptureKeeps, PatchesKeep, LeaveKeeps, RestoresKeep,
     ReleaseKeeps, ExecutionsKeep DEF Next, Configure

(* Whatever scenarios there are, in however many threads and however deep, *)
(* and however they end: an execution that none of them overlaps sees the  *)
(* governed gates and the plain proposer (scoped_runtime_configuration).   *)
THEOREM NothingEverLeaks == Spec => []NothingLeaks
<1>1. ScenarioInv => NothingLeaks
  BY DEF ScenarioInv
<1> QED
  BY <1>1, ScenarioInitHolds, ScenarioStepKeeps, PTL DEF Spec

----------------------------------------------------------------------------
(* What an execution inside of scenarios sees.  Each scenario saved what   *)
(* the ones around it make of the names, and the innermost one replaces    *)
(* and puts back name after name.                                          *)

(* The names are what the outermost n scenarios of a stack make of them.   *)
Fits(found, stack, n) ==
    /\ found.decide = GateUnder(stack, n)
    /\ found.decide_runtime = GateUnder(stack, n)
    /\ EditsUnder(found.propose, stack, n)

SavedFit(t) ==
    \A k \in 1..Depth(t) :
        frames[t][k].pc # "capture" => Fits(frames[t][k].saved, frames[t], k - 1)

(* How many of a thread's n scenarios each name shows, with the innermost  *)
(* of them at pc; n on the way in, n - 1 on the way out.                   *)
NamesFit(pc, found, stack, n) ==
    /\ pc \in {"capture", "patch_decide"} => Fits(found, stack, n - 1)
    /\ pc = "patch_runtime" =>
          /\ found.decide = GateUnder(stack, n)
          /\ found.decide_runtime = GateUnder(stack, n - 1)
          /\ EditsUnder(found.propose, stack, n - 1)
    /\ pc = "patch_propose" =>
          /\ found.decide = GateUnder(stack, n)
          /\ found.decide_runtime = GateUnder(stack, n)
          /\ EditsUnder(found.propose, stack, n - 1)
    /\ pc = "body" => Fits(found, stack, n)
    /\ pc \in {"restore_runtime", "restore_propose", "release"} =>
          found.decide = GateUnder(stack, n - 1)
    /\ pc \in {"restore_propose", "release"} =>
          found.decide_runtime = GateUnder(stack, n - 1)
    /\ pc = "release" => EditsUnder(found.propose, stack, n - 1)

Sees(run, stack, n) ==
    /\ run.decide = GateUnder(stack, n)
    /\ run.runtime \subseteq {GateUnder(stack, n)}
    /\ \A edits \in run.propose : EditsUnder(edits, stack, n)

Layered ==
    \A t \in Threads :
        Depth(t) > 0 =>
            /\ SavedFit(t)
            /\ NamesFit(Innermost(t).pc, names, frames[t], Depth(t))
            /\ runs[t] # None => Sees(runs[t], frames[t], Depth(t))

LayeredInv == ScenarioInv /\ Layered

LEMMA SameConfigurations ==
    ASSUME NEW one, NEW two, NEW n, \A k \in 1..n : one[k].config = two[k].config
    PROVE  /\ GateUnder(one, n) = GateUnder(two, n)
           /\ \A edits : EditsUnder(edits, one, n) <=> EditsUnder(edits, two, n)
           /\ \A found : Fits(found, one, n) <=> Fits(found, two, n)
<1>1. GateUnder(one, n) = GateUnder(two, n)
  BY DEF GateUnder
<1>2. ASSUME NEW edits PROVE EditsUnder(edits, one, n) <=> EditsUnder(edits, two, n)
  <2>1. {k \in 1..n : one[k].config.mutation # None}
           = {k \in 1..n : two[k].config.mutation # None}
    OBVIOUS
  <2>2. \A k \in {j \in 1..n : one[j].config.mutation # None} :
           one[k].config.mutation = two[k].config.mutation
    OBVIOUS
  <2> QED
    BY <2>1, <2>2 DEF EditsUnder
<1> QED
  BY <1>1, <1>2 DEF Fits

LEMMA GateGrows ==
    ASSUME NEW stack, NEW n \in Nat, n > 0
    PROVE  GateUnder(stack, n) = IF stack[n].config.ungated THEN "approving"
                                 ELSE GateUnder(stack, n - 1)
<1>1. 1..n = (1..(n - 1)) \cup {n}
  OBVIOUS
<1> QED
  BY <1>1 DEF GateUnder

LEMMA EditsOfNone ==
    ASSUME NEW stack
    PROVE  EditsUnder(<<>>, stack, 0)
<1> DEFINE edited == {k \in 1..0 : stack[k].config.mutation # None}
<1>1. edited = {} /\ DOMAIN <<>> = {}
  OBVIOUS
<1>2. <<>> \in [DOMAIN <<>> -> edited]
  BY <1>1
<1> QED
  BY <1>1, <1>2 DEF EditsUnder

LEMMA EditsStay ==
    ASSUME NEW stack, NEW n \in Nat, n > 0, stack[n].config.mutation = None,
           NEW edits, EditsUnder(edits, stack, n - 1)
    PROVE  EditsUnder(edits, stack, n)
<1>1. 1..n = (1..(n - 1)) \cup {n}
  OBVIOUS
<1>2. {k \in 1..n : stack[k].config.mutation # None}
         = {k \in 1..(n - 1) : stack[k].config.mutation # None}
  BY <1>1
<1> QED
  BY <1>2 DEF EditsUnder

LEMMA EditsGrow ==
    ASSUME NEW stack, NEW n \in Nat, n > 0, stack[n].config.mutation # None,
           NEW edits \in Seq(Edits), EditsUnder(edits, stack, n - 1)
    PROVE  EditsUnder(Append(edits, stack[n].config.mutation), stack, n)
<1> DEFINE outer == {k \in 1..(n - 1) : stack[k].config.mutation # None}
           edited == {k \in 1..n : stack[k].config.mutation # None}
           last == Len(edits) + 1
           longer == Append(edits, stack[n].config.mutation)
<1>1. PICK place \in [DOMAIN edits -> outer] :
        /\ \A k \in outer : \E i \in DOMAIN edits : place[i] = k
        /\ \A i, j \in DOMAIN edits : i < j => place[i] < place[j]
        /\ \A i \in DOMAIN edits : edits[i] = stack[place[i]].config.mutation
  BY DEF EditsUnder
<1>2. 1..n = (1..(n - 1)) \cup {n}
  OBVIOUS
<1>3. edited = outer \cup {n}
  BY <1>2
<1>4. \A k \in outer : k \in Nat /\ k < n
  OBVIOUS
<1>5. /\ DOMAIN edits = 1..Len(edits) /\ Len(edits) \in Nat
      /\ DOMAIN longer = DOMAIN edits \cup {last} /\ last \notin DOMAIN edits
      /\ longer[last] = stack[n].config.mutation
      /\ \A i \in DOMAIN edits : longer[i] = edits[i] /\ i < last /\ ~(last < i)
  OBVIOUS
<1> DEFINE wider == [i \in DOMAIN longer |-> IF i = last THEN n ELSE place[i]]
<1>6. ~(last < last)
  BY <1>5
<1> HIDE DEF outer, edited, last, longer
<1>7. wider \in [DOMAIN longer -> edited]
  BY <1>1, <1>3, <1>5
<1>8. wider[last] = n /\ \A i \in DOMAIN edits : wider[i] = place[i] /\ place[i] \in outer
  BY <1>1, <1>5
<1> HIDE DEF wider
<1>9. \A k \in edited : \E i \in DOMAIN longer : wider[i] = k
  BY <1>1, <1>3, <1>5, <1>8
<1>10. \A i, j \in DOMAIN longer : i < j => wider[i] < wider[j]
  BY <1>1, <1>4, <1>5, <1>6, <1>8
<1>11. \A i \in DOMAIN longer : longer[i] = stack[wider[i]].config.mutation
  BY <1>1, <1>5, <1>8
<1> QED
  BY <1>7, <1>9, <1>10, <1>11 DEF EditsUnder, edited, longer

(* A step of the innermost scenario of a thread.                           *)
LEMMA LayerStep ==
    ASSUME LayeredInv, NEW t \in Threads, Depth(t) > 0, NEW frame \in Frames,
           frame.config = Innermost(t).config,
           frame.pc # "capture" => Fits(frame.saved, frames[t], Depth(t) - 1),
           NamesFit(frame.pc, names', frames[t], Depth(t)),
           runs'[t] = None,
           frames' = [frames EXCEPT ![t] = [@ EXCEPT ![Depth(t)] = frame]]
    PROVE  Layered'
<1>1. /\ \A u \in Threads : Depth(u)' = Depth(u)
      /\ frames'[t][Depth(t)] = frame
      /\ \A k \in 1..(Depth(t) - 1) : frames'[t][k] = frames[t][k]
  BY DEF LayeredInv, ScenarioInv, Shapes, Depth
<1>2. Depth(t) \in Nat
  BY InnermostFrame DEF LayeredInv
<1>3. 1..Depth(t) = (1..(Depth(t) - 1)) \cup {Depth(t)}
  BY <1>2
<1>4. \A k \in 1..Depth(t) : frames[t][k].config = frames'[t][k].config
  BY <1>1, <1>3 DEF Innermost
<1>5. ASSUME NEW n \in 0..Depth(t)
      PROVE  /\ GateUnder(frames[t], n) = GateUnder(frames'[t], n)
             /\ \A edits : EditsUnder(edits, frames[t], n) <=> EditsUnder(edits, frames'[t], n)
             /\ \A found : Fits(found, frames[t], n) <=> Fits(found, frames'[t], n)
  <2>1. \A k \in 1..n : k \in 1..Depth(t)
    BY <1>2
  <2> QED
    BY <1>4, <2>1, SameConfigurations
<1>6. Depth(t) \in 0..Depth(t) /\ Depth(t) - 1 \in 0..Depth(t)
  BY <1>2
<1>7. ASSUME NEW k \in 1..Depth(t), frames'[t][k].pc # "capture"
      PROVE  Fits(frames'[t][k].saved, frames'[t], k - 1)
  <2>1. k - 1 \in 0..Depth(t)
    BY <1>2
  <2>2. Fits(frames'[t][k].saved, frames[t], k - 1)
    BY <1>1, <1>3, <1>7 DEF LayeredInv, Layered, SavedFit
  <2> QED
    BY <1>5, <2>1, <2>2
<1>8. NamesFit(frame.pc, names', frames'[t], Depth(t))
  BY <1>5, <1>6 DEF NamesFit
<1>9. Innermost(t)' = frame
  BY <1>1 DEF Innermost
<1>10. \A u \in Threads \ {t} : ~(Depth(u)' > 0)
  BY <1>1, InsideAlone DEF LayeredInv
<1> QED
  BY <1>1, <1>7, <1>8, <1>9, <1>10 DEF Layered, SavedFit

(* What holds of the innermost scenario.                                   *)
LEMMA InnermostFits ==
    ASSUME LayeredInv, NEW t \in Threads, Depth(t) > 0
    PROVE  /\ Depth(t) \in Nat /\ Innermost(t) = frames[t][Depth(t)]
           /\ Innermost(t) \in Frames /\ names \in Names
           /\ Innermost(t).pc # "capture" => Innermost(t).saved \in Names
           /\ Innermost(t).pc # "body" => runs[t] = None
           /\ Innermost(t).pc # "capture" =>
                 Fits(Innermost(t).saved, frames[t], Depth(t) - 1)
           /\ NamesFit(Innermost(t).pc, names, frames[t], Depth(t))
<1>1. Depth(t) \in 1..Depth(t)
  BY InnermostFrame DEF LayeredInv
<1> QED
  BY <1>1, InnermostFrame DEF LayeredInv, Layered, SavedFit, Innermost

(* A step from one label to the next, leaving what was saved.              *)
LEMMA LabelLayer ==
    ASSUME LayeredInv, NEW t \in Threads, Depth(t) > 0, NEW pc \in Steps,
           Goto(t, pc), Innermost(t).pc # "capture", runs'[t] = None,
           NamesFit(pc, names', frames[t], Depth(t))
    PROVE  Layered'
<1> DEFINE frame == [Innermost(t) EXCEPT !.pc = pc]
<1>1. /\ Innermost(t) \in Frames
      /\ Fits(Innermost(t).saved, frames[t], Depth(t) - 1)
  BY InnermostFits
<1>2. /\ frame \in Frames /\ frame.pc = pc /\ frame.saved = Innermost(t).saved
      /\ frame.config = Innermost(t).config
  BY <1>1 DEF Frames
<1>3. frames' = [frames EXCEPT ![t] = [@ EXCEPT ![Depth(t)] = frame]]
  BY MovesOn DEF LayeredInv
<1> HIDE DEF frame
<1> QED
  BY <1>1, <1>2, <1>3, LayerStep

LEMMA CaptureLayers ==
    ASSUME LayeredInv, NEW t \in Threads, Capture(t)
    PROVE  Layered'
<1> DEFINE frame == [Innermost(t) EXCEPT !.saved = names, !.pc = "patch_decide"]
<1>1. Depth(t) > 0 /\ Innermost(t).pc = "capture" /\ names' = names /\ runs' = runs
  BY DEF Capture, At
<1>2. /\ Depth(t) \in Nat /\ Innermost(t) \in Frames /\ names \in Names
      /\ runs[t] = None /\ Fits(names, frames[t], Depth(t) - 1)
  BY <1>1, InnermostFits DEF NamesFit
<1>3. /\ frame \in Frames /\ frame.pc = "patch_decide" /\ frame.saved = names
      /\ frame.config = Innermost(t).config
  BY <1>2 DEF Frames, Steps
<1>4. frames' = [frames EXCEPT ![t] = [@ EXCEPT ![Depth(t)] = frame]]
  <2>1. frames[t] \in Seq(Frames) /\ frames \in [Threads -> Seq(Frames)]
    BY DEF LayeredInv, ScenarioInv, Shapes
  <2> QED
    BY <1>2, <2>1 DEF Capture, Innermost, Depth, Frames
<1>5. NamesFit("patch_decide", names, frames[t], Depth(t))
  BY <1>2 DEF NamesFit
<1> HIDE DEF frame
<1> QED
  BY <1>1, <1>2, <1>3, <1>4, <1>5, LayerStep

LEMMA PatchGatesLayers ==
    ASSUME LayeredInv, NEW t \in Threads, PatchDecide(t) \/ PatchRuntime(t)
    PROVE  Layered'
<1>1. /\ Depth(t) > 0 /\ Innermost(t).pc \in {"patch_decide", "patch_runtime"}
      /\ runs' = runs
  BY DEF PatchDecide, PatchRuntime, At
<1>2. /\ Depth(t) \in Nat /\ Innermost(t) = frames[t][Depth(t)]
      /\ names \in Names /\ runs[t] = None
      /\ NamesFit(Innermost(t).pc, names, frames[t], Depth(t))
  BY <1>1, InnermostFits
<1>3. GateUnder(frames[t], Depth(t)) = IF Innermost(t).config.ungated THEN "approving"
                                       ELSE GateUnder(frames[t], Depth(t) - 1)
  BY <1>1, <1>2, GateGrows
<1>4. CASE PatchDecide(t)
  <2>1. /\ Goto(t, "patch_runtime") /\ Innermost(t).pc = "patch_decide"
        /\ names' = IF Innermost(t).config.ungated
                    THEN [names EXCEPT !.decide = "approving"] ELSE names
    BY <1>4 DEF PatchDecide, At
  <2>2. Fits(names, frames[t], Depth(t) - 1)
    BY <1>2, <2>1 DEF NamesFit
  <2>3. /\ names'.decide = GateUnder(frames[t], Depth(t))
        /\ names'.decide_runtime = names.decide_runtime
        /\ names'.propose = names.propose
    BY <1>2, <1>3, <2>1, <2>2 DEF Names, Fits
  <2>4. NamesFit("patch_runtime", names', frames[t], Depth(t))
    BY <2>2, <2>3 DEF NamesFit, Fits
  <2> QED
    BY <1>1, <1>2, <2>1, <2>4, LabelLayer DEF Steps
<1>5. CASE PatchRuntime(t)
  <2>1. /\ Goto(t, "patch_propose") /\ Innermost(t).pc = "patch_runtime"
        /\ names' = IF Innermost(t).config.ungated
                    THEN [names EXCEPT !.decide_runtime = "approving"] ELSE names
    BY <1>5 DEF PatchRuntime, At
  <2>2. /\ names.decide = GateUnder(frames[t], Depth(t))
        /\ names.decide_runtime = GateUnder(frames[t], Depth(t) - 1)
        /\ EditsUnder(names.propose, frames[t], Depth(t) - 1)
    BY <1>2, <2>1 DEF NamesFit
  <2>3. /\ names'.decide = names.decide
        /\ names'.decide_runtime = GateUnder(frames[t], Depth(t))
        /\ names'.propose = names.propose
    BY <1>2, <1>3, <2>1, <2>2 DEF Names
  <2>4. NamesFit("patch_propose", names', frames[t], Depth(t))
    BY <2>2, <2>3 DEF NamesFit
  <2> QED
    BY <1>1, <1>2, <2>1, <2>4, LabelLayer DEF Steps
<1> QED
  BY <1>4, <1>5

LEMMA PatchProposeLayers ==
    ASSUME LayeredInv, NEW t \in Threads, PatchPropose(t)
    PROVE  Layered'
<1> DEFINE mutation == Innermost(t).config.mutation
<1>1. Depth(t) > 0 /\ Innermost(t).pc = "patch_propose" /\ runs' = runs
  BY DEF PatchPropose, At
<1>2. /\ Depth(t) \in Nat /\ Innermost(t) = frames[t][Depth(t)]
      /\ names \in Names /\ runs[t] = None
      /\ Innermost(t).saved \in Names
      /\ Fits(Innermost(t).saved, frames[t], Depth(t) - 1)
      /\ NamesFit("patch_propose", names, frames[t], Depth(t))
  BY <1>1, InnermostFits
<1>3. /\ names.decide = GateUnder(frames[t], Depth(t))
      /\ names.decide_runtime = GateUnder(frames[t], Depth(t))
      /\ EditsUnder(names.propose, frames[t], Depth(t) - 1)
      /\ EditsUnder(Innermost(t).saved.propose, frames[t], Depth(t) - 1)
      /\ Innermost(t).saved.propose \in Seq(Edits)
  BY <1>2 DEF NamesFit, Fits, Names
<1>4. /\ names' = IF mutation \in {None, Malformed} THEN names
                  ELSE [names EXCEPT !.propose = Append(Innermost(t).saved.propose, mutation)]
      /\ Goto(t, IF mutation = Malformed THEN "restore_decide" ELSE "body")
  BY DEF PatchPropose
<1>5. CASE mutation = Malformed
  BY <1>1, <1>2, <1>4, <1>5, LabelLayer DEF NamesFit, Steps
<1>6. CASE mutation # Malformed
  <2>1. /\ names'.decide = names.decide /\ names'.decide_runtime = names.decide_runtime
        /\ names'.propose = IF mutation = None THEN names.propose
                            ELSE Append(Innermost(t).saved.propose, mutation)
    BY <1>2, <1>4, <1>6 DEF Names
  <2>2. EditsUnder(names'.propose, frames[t], Depth(t))
    <3>1. CASE mutation = None
      BY <1>1, <1>2, <1>3, <2>1, <3>1, EditsStay
    <3>2. CASE mutation # None
      BY <1>1, <1>2, <1>3, <2>1, <3>2, EditsGrow
    <3> QED
      BY <3>1, <3>2
  <2>3. NamesFit("body", names', frames[t], Depth(t))
    BY <1>3, <2>1, <2>2 DEF NamesFit, Fits
  <2> QED
    BY <1>1, <1>2, <1>4, <1>6, <2>3, LabelLayer DEF Steps
<1> QED
  BY <1>5, <1>6

LEMMA LeaveLayers ==
    ASSUME LayeredInv, NEW t \in Threads, NEW how, Leave(t, how)
    PROVE  Layered'
<1>1. /\ Depth(t) > 0 /\ runs' = [runs EXCEPT ![t] = None]
      /\ Innermost(t).pc = "body" /\ Goto(t, "restore_decide")
  BY DEF Leave, At, AfterBody
<1>2. runs'[t] = None
  BY <1>1 DEF LayeredInv, ScenarioInv, Shapes
<1>3. "restore_decide" \in Steps
  BY DEF Steps
<1>4. NamesFit("restore_decide", names', frames[t], Depth(t))
  BY DEF NamesFit
<1> QED
  BY <1>1, <1>2, <1>3, <1>4, LabelLayer

LEMMA RestoresLayer ==
    ASSUME LayeredInv, NEW t \in Threads,
           RestoreDecide(t) \/ RestoreRuntime(t) \/ RestorePropose(t)
    PROVE  Layered'
<1>1. /\ Depth(t) > 0 /\ runs' = runs
      /\ Innermost(t).pc \in {"restore_decide", "restore_runtime", "restore_propose"}
  BY DEF RestoreDecide, RestoreRuntime, RestorePropose, At
<1>2. /\ names \in Names /\ runs[t] = None
      /\ Fits(Innermost(t).saved, frames[t], Depth(t) - 1)
      /\ NamesFit(Innermost(t).pc, names, frames[t], Depth(t))
  BY <1>1, InnermostFits
<1>3. PICK pc \in {"restore_runtime", "restore_propose", "release"} :
        Goto(t, pc) /\ NamesFit(pc, names', frames[t], Depth(t))
  <2>1. CASE RestoreDecide(t)
    BY <1>2, <2>1 DEF RestoreDecide, At, Names, NamesFit, Fits
  <2>2. CASE RestoreRuntime(t)
    BY <1>2, <2>2 DEF RestoreRuntime, At, Names, NamesFit, Fits
  <2>3. CASE RestorePropose(t)
    BY <1>2, <2>3 DEF RestorePropose, At, Names, NamesFit, Fits
  <2> QED
    BY <2>1, <2>2, <2>3
<1>4. pc \in Steps
  BY DEF Steps
<1> QED
  BY <1>1, <1>2, <1>3, <1>4, LabelLayer

LEMMA EnterLayers ==
    ASSUME LayeredInv, NEW t \in Threads, NEW config \in Configurations,
           Enter(t, config)
    PROVE  Layered'
<1> DEFINE frame == Frame(config)
<1>1. /\ InBody(t) /\ runs[t] = None /\ names' = names /\ runs' = runs
      /\ lock.owner \in {None, t}
      /\ frames' = [frames EXCEPT ![t] = Append(@, frame)]
  BY DEF Enter, Acquire
<1>2. /\ frames \in [Threads -> Seq(Frames)] /\ Depth(t) \in Nat
      /\ \A u \in Threads \ {t} : Depth(u) = 0
  <2>1. lock.owner = t => lock.owner # None
    BY ThreadsAssumption
  <2> QED
    BY <1>1, <2>1 DEF LayeredInv, ScenarioInv, Shapes, LockHeld, Depth
<1>3. frame \in Frames /\ frame.pc = "capture"
  BY DEF Frame, Frames, Steps
<1> HIDE DEF frame
<1>4. /\ Depth(t)' = Depth(t) + 1 /\ Innermost(t)' = frame
      /\ \A u \in Threads \ {t} : Depth(u)' = 0
      /\ frames'[t][Depth(t)'] = frame
      /\ \A k \in 1..Depth(t) : frames'[t][k] = frames[t][k]
  BY <1>1, <1>2, <1>3 DEF Depth, Innermost
<1>5. ASSUME NEW n \in 0..Depth(t)
      PROVE  \A found : Fits(found, frames[t], n) <=> Fits(found, frames'[t], n)
  <2>1. \A k \in 1..n : k \in 1..Depth(t)
    BY <1>2
  <2>2. \A k \in 1..n : frames[t][k].config = frames'[t][k].config
    BY <1>4, <2>1
  <2> QED
    BY <2>2, SameConfigurations
<1>6. Fits(names, frames[t], Depth(t))
  <2>1. CASE Depth(t) = 0
    <3>1. Plain(names)
      BY <1>2, <2>1 DEF LayeredInv, ScenarioInv, PlainOutside
    <3>2. GateUnder(frames[t], 0) = "governed"
      BY DEF GateUnder
    <3> QED
      BY <2>1, <3>1, <3>2, EditsOfNone DEF Fits, Plain
  <2>2. CASE Depth(t) > 0
    BY <1>1, <2>2, InnermostFits DEF InBody, At, NamesFit
  <2> QED
    BY <1>2, <2>1, <2>2
<1>7. Depth(t) \in 0..Depth(t) /\ Depth(t)' - 1 = Depth(t)
  <2>1. Depth(t) \in Nat /\ Depth(t)' = Depth(t) + 1
    BY <1>2, <1>4
  <2> QED
    BY <2>1
<1>8. NamesFit("capture", names', frames'[t], Depth(t)')
  BY <1>1, <1>5, <1>6, <1>7 DEF NamesFit
<1>9. \A k \in 1..Depth(t)' : k = Depth(t)' \/ k \in 1..Depth(t)
  BY <1>2, <1>4
<1>10. ASSUME NEW k \in 1..Depth(t)', frames'[t][k].pc # "capture"
       PROVE  Fits(frames'[t][k].saved, frames'[t], k - 1)
  <2>1. k # Depth(t)'
    BY <1>3, <1>4, <1>10
  <2>2. k \in 1..Depth(t)
    BY <1>9, <2>1
  <2>3. k - 1 \in 0..Depth(t) /\ Depth(t) > 0
    BY <1>2, <2>2
  <2>4. Fits(frames'[t][k].saved, frames[t], k - 1)
    BY <1>4, <1>10, <2>2, <2>3 DEF LayeredInv, Layered, SavedFit
  <2> QED
    BY <1>5, <2>3, <2>4
<1>11. \A u \in Threads \ {t} : ~(Depth(u)' > 0)
  BY <1>4
<1>12. SavedFit(t)'
  BY <1>10 DEF SavedFit
<1>13. Innermost(t)'.pc = "capture" /\ runs'[t] = None
  BY <1>1, <1>3, <1>4
<1> QED
  BY <1>8, <1>11, <1>12, <1>13 DEF Layered

LEMMA ReleaseLayers ==
    ASSUME LayeredInv, NEW t \in Threads, Release(t)
    PROVE  Layered'
<1>1. /\ Depth(t) > 0 /\ Innermost(t).pc = "release"
      /\ names' = names /\ runs' = runs
      /\ frames' = [frames EXCEPT ![t] = SubSeq(@, 1, Depth(t) - 1)]
  BY DEF Release, At
<1>2. /\ Depth(t) \in Nat /\ runs[t] = None
      /\ frames \in [Threads -> Seq(Frames)]
      /\ Fits(names, frames[t], Depth(t) - 1)
  <2>1. NamesFit("release", names, frames[t], Depth(t))
    BY <1>1, InnermostFits
  <2> QED
    BY <1>1, <2>1, InnermostFits DEF LayeredInv, ScenarioInv, Shapes, NamesFit, Fits
<1>3. \A u \in Threads \ {t} : Depth(u) = 0
  BY <1>1, InsideAlone DEF LayeredInv
<1>4. /\ Depth(t)' = Depth(t) - 1
      /\ \A u \in Threads \ {t} : Depth(u)' = 0
      /\ \A k \in 1..(Depth(t) - 1) : frames'[t][k] = frames[t][k]
  <2>1. frames[t] \in Seq(Frames) /\ Depth(t) = Len(frames[t])
    BY <1>2 DEF Depth
  <2>2. /\ Len(SubSeq(frames[t], 1, Depth(t) - 1)) = Depth(t) - 1
        /\ \A k \in 1..(Depth(t) - 1) :
              SubSeq(frames[t], 1, Depth(t) - 1)[k] = frames[t][k]
    BY <1>1, <1>2, <2>1, SubSeqProperties
  <2>3. /\ frames'[t] = SubSeq(frames[t], 1, Depth(t) - 1)
        /\ \A u \in Threads \ {t} : frames'[u] = frames[u]
    BY <1>1, <1>2
  <2> QED
    BY <1>3, <2>2, <2>3 DEF Depth
<1>5. ASSUME NEW n \in 0..(Depth(t) - 1)
      PROVE  \A found : Fits(found, frames[t], n) <=> Fits(found, frames'[t], n)
  <2>1. \A k \in 1..n : k \in 1..(Depth(t) - 1)
    BY <1>2
  <2>2. \A k \in 1..n : frames[t][k].config = frames'[t][k].config
    BY <1>4, <2>1
  <2> QED
    BY <2>2, SameConfigurations
<1> SUFFICES ASSUME Depth(t)' > 0
             PROVE  /\ SavedFit(t)'
                    /\ NamesFit(Innermost(t)'.pc, names', frames'[t], Depth(t)')
  BY <1>1, <1>2, <1>4 DEF Layered
<1>6. ASSUME NEW k \in 1..(Depth(t) - 1), frames'[t][k].pc # "capture"
      PROVE  Fits(frames'[t][k].saved, frames'[t], k - 1)
  <2>1. k \in 1..Depth(t) /\ k - 1 \in 0..(Depth(t) - 1)
    BY <1>2
  <2>2. Fits(frames'[t][k].saved, frames[t], k - 1)
    BY <1>1, <1>4, <1>6, <2>1 DEF LayeredInv, Layered, SavedFit
  <2> QED
    BY <1>5, <2>1, <2>2
<1>7. /\ Depth(t) - 1 \in 0..(Depth(t) - 1)
      /\ Depth(t) - 1 \in 1..(Depth(t) - 1)
  BY <1>2, <1>4
<1>8. Innermost(t)'.pc = "body"
  <2>1. frames[t][Depth(t) - 1].pc = "body"
    BY <1>1, <1>7 DEF LayeredInv, ScenarioInv, ScenariosNest
  <2> QED
    BY <1>4, <1>7, <2>1 DEF Innermost
<1>9. NamesFit("body", names', frames'[t], Depth(t)')
  BY <1>1, <1>2, <1>4, <1>5, <1>7 DEF NamesFit
<1> QED
  BY <1>4, <1>6, <1>8, <1>9 DEF SavedFit

(* In a body, an execution looks up what the scenarios make of the names.  *)
LEMMA LooksFit ==
    ASSUME LayeredInv, NEW t \in Threads, Depth(t) > 0, InBody(t)
    PROVE  Fits(names, frames[t], Depth(t))
<1>1. Innermost(t).pc = "body"
  BY InnermostFits DEF InBody, At
<1> QED
  BY <1>1, InnermostFits DEF NamesFit

LEMMA ExecutionLayer ==
    ASSUME LayeredInv, NEW t \in Threads, NEW run,
           UNCHANGED <<names, lock, frames>>, runs' = [runs EXCEPT ![t] = run],
           Depth(t) > 0 /\ run # None => Sees(run, frames[t], Depth(t))
    PROVE  Layered'
<1>1. /\ runs'[t] = run /\ \A u \in Threads \ {t} : runs'[u] = runs[u]
      /\ names' = names /\ frames' = frames
  BY DEF LayeredInv, ScenarioInv, Shapes
<1>2. \A u \in Threads : Depth(u)' = Depth(u) /\ Innermost(u)' = Innermost(u)
                         /\ (SavedFit(u) => SavedFit(u)')
  BY <1>1 DEF Depth, Innermost, SavedFit
<1> QED
  BY <1>1, <1>2 DEF LayeredInv, Layered

LEMMA ExecutionsLayer ==
    ASSUME LayeredInv, NEW t \in Threads,
           Execute(t) \/ Propose(t) \/ Judge(t) \/ Finish(t)
    PROVE  Layered'
<1>1. UNCHANGED <<names, lock, frames>>
  BY DEF Execute, Propose, Judge, Finish
<1>2. Depth(t) > 0 /\ InBody(t) =>
         /\ names.decide = GateUnder(frames[t], Depth(t))
         /\ names.decide_runtime = GateUnder(frames[t], Depth(t))
         /\ EditsUnder(names.propose, frames[t], Depth(t))
  BY LooksFit DEF Fits
<1>3. runs[t] # None => InBody(t) /\ runs[t] \in Executions
  BY RunsInBody DEF LayeredInv
<1>4. Depth(t) > 0 /\ runs[t] # None => Sees(runs[t], frames[t], Depth(t))
  BY DEF LayeredInv, Layered
<1>5. CASE Execute(t)
  <2>1. InBody(t) /\ runs' = [runs EXCEPT ![t] = Started(t)]
    BY <1>5 DEF Execute
  <2>2. Depth(t) > 0 => Sees(Started(t), frames[t], Depth(t))
    BY <1>2, <2>1 DEF Sees, Started
  <2> QED
    BY <1>1, <2>1, <2>2, ExecutionLayer
<1>6. CASE Propose(t)
  <2> DEFINE run == [runs[t] EXCEPT !.propose = @ \cup {names.propose},
                                    !.met = @ \/ Elsewhere(t)]
  <2>1. runs' = [runs EXCEPT ![t] = run] /\ runs[t] # None
    BY <1>6 DEF Propose
  <2>2. /\ run.decide = runs[t].decide /\ run.runtime = runs[t].runtime
        /\ run.propose = runs[t].propose \cup {names.propose}
    BY <1>3, <2>1 DEF Executions
  <2> HIDE DEF run
  <2>3. Depth(t) > 0 => Sees(run, frames[t], Depth(t))
    BY <1>2, <1>3, <1>4, <2>1, <2>2 DEF Sees
  <2> QED
    BY <1>1, <2>1, <2>3, ExecutionLayer
<1>7. CASE Judge(t)
  <2> DEFINE run == [runs[t] EXCEPT !.runtime = @ \cup {names.decide_runtime},
                                    !.met = @ \/ Elsewhere(t)]
  <2>1. runs' = [runs EXCEPT ![t] = run] /\ runs[t] # None
    BY <1>7 DEF Judge
  <2>2. /\ run.decide = runs[t].decide /\ run.propose = runs[t].propose
        /\ run.runtime = runs[t].runtime \cup {names.decide_runtime}
    BY <1>3, <2>1 DEF Executions
  <2> HIDE DEF run
  <2>3. Depth(t) > 0 => Sees(run, frames[t], Depth(t))
    BY <1>2, <1>3, <1>4, <2>1, <2>2 DEF Sees
  <2> QED
    BY <1>1, <2>1, <2>3, ExecutionLayer
<1>8. CASE Finish(t)
  BY <1>1, <1>8, ExecutionLayer DEF Finish
<1> QED
  BY <1>5, <1>6, <1>7, <1>8

LEMMA LayeredStepKeeps == LayeredInv /\ [Next]_vars => LayeredInv'
<1> SUFFICES ASSUME LayeredInv, [Next]_vars PROVE Layered'
  BY ScenarioStepKeeps DEF LayeredInv
<1>1. CASE UNCHANGED vars
  BY <1>1 DEF vars, LayeredInv, Layered, SavedFit, Depth, Innermost
<1> QED
  BY <1>1, EnterLayers, CaptureLayers, PatchGatesLayers, PatchProposeLayers, LeaveLayers,
     RestoresLayer, ReleaseLayers, ExecutionsLayer DEF Next, Configure

(* However threads interleave, however deep their scenarios nest and       *)
(* however these end: an execution inside of scenarios sees exactly what   *)
(* those scenarios make of the gates and the proposer, from its first look *)
(* to its last (scoped_runtime_configuration).                             *)
THEOREM ScenariosSeeTheirConfiguration == Spec => []ScenarioSeesItsConfiguration
<1>1. Init => LayeredInv
  <2> SUFFICES ASSUME Init PROVE Layered
    BY ScenarioInitHolds DEF LayeredInv
  <2>1. \A t \in Threads : Depth(t) = 0
    BY DEF Init, Depth
  <2> QED
    BY <2>1 DEF Layered
<1>2. LayeredInv => ScenarioSeesItsConfiguration
  BY DEF LayeredInv, Layered, Sees, ScenarioSeesItsConfiguration
<1> QED
  BY <1>1, <1>2, LayeredStepKeeps, PTL DEF Spec
=============================================================================
