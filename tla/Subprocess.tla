------------------------------ MODULE Subprocess ------------------------------
(***************************************************************************)
(* A node that runs another workflow inline (nodes/subprocess.py): a head, *)
(* a condition gateway with two branches, and a tail that asks a person.   *)
(* What the first attempt resolved (the child's definition and scheme), the*)
(* branch it chose and the states of the children are part of the parent's *)
(* state and saved with it, so that a retry, a recovery after the process  *)
(* ended, and an edit of the child's definition meanwhile, continue the    *)
(* same walk.                                                              *)
(*                                                                         *)
(* Left out: parameters and outputs, tokens, and children that are         *)
(* subprocesses themselves.  The parent's failure policy is FailurePolicy; *)
(* here a failed parent may be retried or skipped, a completed one sent    *)
(* back by a validator or reset for the next iteration of a loop.          *)
(***************************************************************************)
EXTENDS Integers

CONSTANTS SpMaxAttempts, SpMaxExits, SpMaxEdits, SpMaxFaults \* bounds

VARIABLES
  spDisk,   \* the parent's NodeExecutionState in the Task file
  spMem,    \* the one the engine works on
  spRun,    \* where _execute_child_plan is
  spVer,    \* the child definition in the workflow directory
  spSeen,   \* history, since the last iteration began: executions
  spTorn,   \* history: a save failed
  spCount   \* counters the bounds apply to

spVars == <<spDisk, spMem, spRun, spVer, spSeen, spTorn, spCount>>

SpBranches == {"left", "right"}
SpChildren == {"head", "tail"} \cup SpBranches
SpSettled == {"completed", "skipped"}
NoSnapshot == [ver |-> 0, choice |-> "none", off |-> {}]
Unrun == [c \in SpChildren |-> [st |-> "pending", trig |-> "initial"]]
SpUnseen == [begun |-> {}, done |-> {}, again |-> FALSE, vers |-> {}]

SpInit ==
  /\ spDisk = [st |-> "pending", trig |-> "initial", snap |-> NoSnapshot, child |-> Unrun]
  /\ spMem = spDisk /\ spRun = [pc |-> "rest", at |-> "head"] /\ spVer = 1
  /\ spSeen = SpUnseen /\ spTorn = FALSE
  /\ spCount = [att |-> 0, exits |-> 0, edits |-> 0, faults |-> 0]

\* Every checkpoint saves the parent with its children.
SpSaved(s) == spMem' = s /\ spDisk' = s
SpAt(pc, at) == spRun' = [pc |-> pc, at |-> at]
SpGoes(pc) == SpAt(pc, spRun.at)

-----------------------------------------------------------------------------
\* _execute_node: the inputs are frozen by an attempt that starts afresh.
SpBegin ==
  /\ spRun.pc = "rest" /\ spMem.st = "pending" /\ spCount.att < SpMaxAttempts
  /\ spCount' = [spCount EXCEPT !.att = @ + 1]
  /\ SpSaved([spMem EXCEPT !.st = "running",
                           !.snap = IF spMem.trig = "initial" THEN NoSnapshot ELSE @])
  /\ SpAt("load", "head")
  /\ UNCHANGED <<spVer, spSeen, spTorn>>

\* The outcome of the parent's execution, with the states its children have.
SpReturns(st) == SpSaved([spMem EXCEPT !.st = st]) /\ SpGoes("rest")

\* The snapshot of an earlier attempt, or a new one of what is on disk now: the
\* definition may be missing, not allowed, or have gateways of other kinds.
SpLoads ==
  /\ spRun.pc = "load"
  /\ \/ spMem.snap # NoSnapshot /\ UNCHANGED <<spMem, spDisk>> /\ SpGoes("walk")
     \/ /\ spMem.snap = NoSnapshot /\ SpGoes("walk")
        /\ \E off \in {{}, {"tail"}} :
             SpSaved([spMem EXCEPT !.snap = [NoSnapshot EXCEPT !.ver = spVer, !.off = off]])
     \/ SpReturns("failed")
  /\ UNCHANGED <<spVer, spSeen, spTorn, spCount>>

-----------------------------------------------------------------------------
(***************************************************************************)
(* The walk over the child's plan                                          *)
(***************************************************************************)
SpHere == spMem.child[spRun.at]
SpWith(c, st) == [spMem EXCEPT !.child[c].st = st]
SpOnward == SpAt("walk", CASE spRun.at = "head" -> "gateway"
                       [] spRun.at \in SpBranches -> "tail"
                       [] spRun.at = "tail" -> "end")

\* A child its scheme leaves out, one that is settled, one whose state says that
\* it may be running, and one that begins.
SpPasses ==
  /\ spRun.pc = "walk" /\ spRun.at \in SpChildren /\ SpOnward
  /\ \/ spRun.at \in spMem.snap.off /\ SpSaved(SpWith(spRun.at, "skipped"))
     \/ spRun.at \notin spMem.snap.off /\ SpHere.st \in SpSettled /\ UNCHANGED <<spMem, spDisk>>
  /\ UNCHANGED <<spVer, spSeen, spTorn, spCount>>

SpUncertain ==
  /\ spRun.pc = "walk" /\ spRun.at \in SpChildren \ spMem.snap.off
  /\ SpHere.st \notin SpSettled \cup {"pending", "failed"}
  /\ SpReturns("failed")
  /\ UNCHANGED <<spVer, spSeen, spTorn, spCount>>

ChildMayBegin(c) == c \notin spMem.snap.off /\ spMem.child[c].st \in {"pending", "failed"}
ChildBegan(c) == [begun |-> spSeen.begun \cup {c}, done |-> spSeen.done,
             again |-> spSeen.again \/ c \in spSeen.done,
             vers |-> spSeen.vers \cup {spMem.snap.ver}]

SpChildBegins ==
  /\ spRun.pc = "walk" /\ spRun.at \in SpChildren /\ ChildMayBegin(spRun.at)
  /\ SpSaved(SpWith(spRun.at, "running")) /\ SpGoes("runs")
  /\ spSeen' = ChildBegan(spRun.at)
  /\ UNCHANGED <<spVer, spTorn, spCount>>

\* The tail asks a person and saves that it waits.
SpAsks ==
  /\ spRun.pc = "runs" /\ spRun.at = "tail" /\ SpHere.st = "running"
  /\ SpSaved(SpWith("tail", "waiting_approval"))
  /\ UNCHANGED <<spRun, spVer, spSeen, spTorn, spCount>>

SpChildCompletes ==
  /\ spRun.pc = "runs" /\ SpSaved(SpWith(spRun.at, "completed")) /\ SpOnward
  /\ spSeen' = [spSeen EXCEPT !.done = @ \cup {spRun.at}]
  /\ UNCHANGED <<spVer, spTorn, spCount>>

\* Saved, and then the walk ends; the parent is saved with its own outcome next.
SpChildFails ==
  /\ spRun.pc = "runs" /\ SpSaved(SpWith(spRun.at, "failed")) /\ SpGoes("fails")
  /\ UNCHANGED <<spVer, spSeen, spTorn, spCount>>

SpParentFails ==
  /\ spRun.pc = "fails" /\ SpReturns("failed")
  /\ UNCHANGED <<spVer, spSeen, spTorn, spCount>>

\* The branch chosen before; else the first whose condition holds, or the default
\* one.  What waits on the other branch is skipped.
OtherBranch(b) == CHOOSE x \in SpBranches : x # b
Bug_ChoosesAgain ==
  /\ spRun.pc = "walk" /\ spRun.at = "gateway"
  /\ \E b \in SpBranches :
       /\ SpSaved([spMem EXCEPT !.snap.choice = b,
                     !.child[OtherBranch(b)].st = IF @ = "pending" THEN "skipped" ELSE @])
       /\ SpAt("walk", b)
  /\ UNCHANGED <<spVer, spSeen, spTorn, spCount>>
SpChooses ==
  /\ spRun.pc = "walk" /\ spRun.at = "gateway"
  /\ \/ \E b \in IF spMem.snap.choice = "none" THEN SpBranches ELSE {spMem.snap.choice} :
          /\ SpSaved([spMem EXCEPT !.snap.choice = b,
                        !.child[OtherBranch(b)].st = IF @ = "pending" THEN "skipped" ELSE @])
          /\ SpAt("walk", b)
     \/ spMem.snap.choice = "none" /\ SpReturns("failed")
  /\ UNCHANGED <<spVer, spSeen, spTorn, spCount>>

SpCompletes ==
  /\ spRun.pc = "walk" /\ spRun.at = "end" /\ SpReturns("completed")
  /\ UNCHANGED <<spVer, spSeen, spTorn, spCount>>

\* A save that fails ends the walk; the child keeps the state it was to be saved with.
SpSaveFails ==
  /\ spRun.pc = "walk" /\ spRun.at \in SpChildren /\ ChildMayBegin(spRun.at)
  /\ spCount.faults < SpMaxFaults /\ spCount' = [spCount EXCEPT !.faults = @ + 1]
  /\ spMem' = SpWith(spRun.at, "running") /\ UNCHANGED spDisk /\ SpGoes("fails")
  /\ spTorn' = TRUE /\ UNCHANGED <<spVer, spSeen>>

-----------------------------------------------------------------------------
(***************************************************************************)
(* The parent between executions, and the process                          *)
(***************************************************************************)
\* prepare_node_retry keeps what the children did.
Bug_ChildrenForgotten(trig) == [spMem EXCEPT !.st = "pending", !.trig = trig, !.child = Unrun]
ParentPrepared(trig) == [spMem EXCEPT !.st = "pending", !.trig = trig]

SpRetry ==
  /\ spRun.pc = "rest" /\ spMem.st = "failed"
  /\ \/ \E trig \in {"auto_retry", "manual_retry"} : SpSaved(ParentPrepared(trig))
     \/ SpSaved([spMem EXCEPT !.st = "skipped"])
  /\ UNCHANGED <<spRun, spVer, spSeen, spTorn, spCount>>

\* A validator downstream sends the result back.
SpRejected ==
  /\ spRun.pc = "rest" /\ spMem.st = "completed" /\ SpSaved(ParentPrepared("validator_retry"))
  /\ UNCHANGED <<spRun, spVer, spSeen, spTorn, spCount>>

\* _reset_node_for_loop_iteration
SpNextIteration ==
  /\ spRun.pc = "rest" /\ spMem.st \in SpSettled
  /\ SpSaved([st |-> "pending", trig |-> "initial", snap |-> NoSnapshot, child |-> Unrun])
  /\ spSeen' = SpUnseen /\ UNCHANGED <<spRun, spVer, spTorn, spCount>>

SpEdit ==
  /\ spCount.edits < SpMaxEdits /\ spCount' = [spCount EXCEPT !.edits = @ + 1]
  /\ spVer' = spVer + 1 /\ UNCHANGED <<spDisk, spMem, spRun, spSeen, spTorn>>

\* An approval that waited is issued again; what ran has failed.  A parent with
\* such an approval begins again without having failed.
ChildRecovered(s) ==
  CASE s.st = "waiting_approval" -> [st |-> "pending", trig |-> "recovery_reissue"]
    [] s.st = "running" -> [s EXCEPT !.st = "failed"]
    [] OTHER -> s
ChildReissued(child) ==
  \E c \in SpChildren : child[c].st = "pending" /\ child[c].trig = "recovery_reissue"
SpRecovered ==
  LET child == [c \in SpChildren |-> ChildRecovered(spDisk.child[c])]
  IN IF spDisk.st # "running" THEN [spDisk EXCEPT !.child = child]
     ELSE IF ChildReissued(child)
     THEN [spDisk EXCEPT !.child = child, !.st = "pending", !.trig = "recovery_reissue"]
     ELSE [spDisk EXCEPT !.child = child, !.st = "failed"]

SpExit ==
  /\ spCount.exits < SpMaxExits /\ spCount' = [spCount EXCEPT !.exits = @ + 1]
  /\ SpSaved(SpRecovered) /\ SpAt("rest", "head")
  /\ UNCHANGED <<spVer, spSeen, spTorn>>

SpNext ==
  \/ SpBegin \/ SpLoads \/ SpPasses \/ SpUncertain \/ SpChildBegins \/ SpAsks
  \/ SpChildCompletes \/ SpChildFails \/ SpParentFails \/ SpChooses \/ SpCompletes
  \/ SpSaveFails \/ SpRetry \/ SpRejected \/ SpNextIteration \/ SpEdit \/ SpExit

-----------------------------------------------------------------------------
(***************************************************************************)
(* Properties                                                              *)
(***************************************************************************)
SpTypeOK ==
  /\ spMem.st \in SpSettled \cup {"pending", "running", "failed"}
  /\ spMem.snap.ver \in 0..spVer /\ spMem.snap.choice \in SpBranches \cup {"none"}
  /\ spRun.pc \in {"rest", "load", "walk", "runs", "fails"}
  /\ \A c \in SpChildren : spMem.child[c].st \in
       SpSettled \cup {"pending", "running", "waiting_approval", "failed"}

\* nodes/subprocess.py: until a loop resets it, a subprocess is one walk over one
\* definition, however often it is retried, sent back or recovered and whatever is
\* edited meanwhile: what completed is not executed again, one branch is executed, and
\* every child executed is of the version the snapshot holds.  A parent completes
\* when its path did, and one that failed can be retried: no child is left in a state
\* the walk refuses, unless a save failed.
SubprocessKept ==
  /\ ~spSeen.again /\ ~(SpBranches \subseteq spSeen.begun)
  /\ spSeen.vers \subseteq {spMem.snap.ver}
  /\ spMem.st = "completed" =>
       \A c \in {"head", "tail", spMem.snap.choice} \ spMem.snap.off : c \in spSeen.done
  /\ spMem.st = "failed" /\ spRun.pc = "rest" /\ ~spTorn =>
       \A c \in SpChildren : spMem.child[c].st \in SpSettled \cup {"pending", "failed"}
===============================================================================
