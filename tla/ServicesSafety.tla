-------------------------- MODULE ServicesSafety --------------------------
(***************************************************************************)
(* Safety, for every instance, of what runs beside the tasks: the desk     *)
(* where users and agents make and follow them (TaskDesk), the tasks of    *)
(* sub-workflows (Subprocess), the layered configuration (LayeredConfig),  *)
(* the catalogues of skills and rules (Catalog), the registry of tools     *)
(* (ToolRegistry), the host of the extensions (ExtensionHost) and the      *)
(* scheduled jobs (CronJobs).                                              *)
(*                                                                         *)
(* Each part gives the specification of its component, the inductive       *)
(* invariant, the lemmas for its actions and the theorem.                  *)
(***************************************************************************)
EXTENDS TaskDesk, Subprocess, LayeredConfig, Catalog, ToolRegistry, ExtensionHost, CronJobs,
        TLAPS

DkSpec == DkInit /\ [][DkNext]_dkVars

-----------------------------------------------------------------------------
(***************************************************************************)
(* TaskDesk: the invariant.                                                *)
(***************************************************************************)
DeskNodes  == SUBSET UNION DkShapes
Definition == [nodes : DeskNodes, schemes : SUBSET (Nat \X DkShapes)]
DeskStatus == {"none", "pending", "pre_running", "running", "completed", "failed", "stopped"}
DeskGuard  == [agent : DkAgents \cup {LeftOut}, at : Nat]
DeskTask ==
  [status : DeskStatus, nodes : DeskNodes, off : DeskNodes, who : DkAgents \cup {LeftOut},
   guard : DeskGuard, main : BOOLEAN, done : DeskNodes]

DkTypes ==
  /\ dkOps \in Nat /\ dkDir \in BOOLEAN
  /\ dkDef \in Definition /\ dkPage \in Definition /\ dkTold \subseteq Nat \X DkShapes
  /\ dkAgent \in [DkAgents -> Nat]
  /\ dkFile \in [DkTasks -> DeskTask] /\ dkBegun \in [DkTasks -> DeskTask]
  /\ dkRun \in [DkTasks -> [task : DeskTask, cancel : BOOLEAN]]
  /\ dkDel \in [on : DkTasks \cup {0}, left : SUBSET DkTasks]
  /\ dkWait \in [on : DkTasks \cup {0}, woken : BOOLEAN]
  /\ dkMade \in [DkTasks -> [nodes : DeskNodes, who : DkAgents \cup {LeftOut}]]

\* A number stands for one scheme, and the next one is higher.
Numbered(schemes) ==
  /\ \A s \in schemes : s[1] <= dkOps
  /\ \A s, r \in schemes : s[1] = r[1] => s = r
DkNumbers ==
  /\ Numbered(dkDef.schemes) /\ Numbered(dkPage.schemes)
  /\ dkDef # NoDef => dkDef.nodes # {}

\* A task that is not made is nowhere; one that is being made is pending.
DkUnmade(t) ==
  /\ dkMade[t].who = LeftOut => dkFile[t] = NoTask /\ dkRun[t] = NotDone /\ dkBegun[t] = NoTask
  /\ dkBegun[t] # NoTask => dkBegun[t].status = "pending"

\* Wherever a task is, it is of the nodes its maker saw selected.
Selects(t, task) ==
  /\ task.done \subseteq task.nodes \ task.off
  /\ task.status = "completed" => task.done = task.nodes \ task.off
  /\ task.status # "none" /\ Fine(t, {"stale scheme"}) => task.nodes \ task.off = dkMade[t].nodes
DkSelected(t) == Selects(t, dkFile[t]) /\ Selects(t, dkRun[t].task) /\ Selects(t, dkBegun[t])

\* Wherever a task is, it is frozen with the agent users were told.
Guarded(t, task) ==
  /\ task.guard.agent = dkMade[t].who /\ Named(task.who) = dkMade[t].who
  /\ task.guard.at <= dkAgent[task.guard.agent]
  /\ task.status = "failed" => dkAgent[task.guard.agent] > task.guard.at
DkGuards(t) ==
  Fine(t, {"overwritten", "filled late"}) =>
    /\ dkFile[t].status # "none" => Guarded(t, dkFile[t])
    /\ HasRunner(t) => Guarded(t, dkRun[t].task)

\* The file of a task that has a runner says so, and the other way round.
DkRunners(t) ==
  /\ HasRunner(t) => dkRun[t].task.status = "running"
  /\ HasRunner(t) /\ Fine(t, {"overwritten"}) => dkFile[t].status \in {"running", "none"}
  /\ HasRunner(t) /\ Fine(t, {"overwritten", "deleted"}) => dkFile[t].status = "running"
  /\ dkFile[t].status = "running" /\ Fine(t, {"overwritten", "unsaved", "deleted"}) => HasRunner(t)

\* A deletion has passed no task that runs, and one that is over left none behind.
DkPassed(t) ==
  /\ dkDel # NoDeletion /\ t \notin dkDel.left \cup {dkDel.on} /\ Fine(t, {"overwritten", "deleted"}) => ~HasRunner(t)
  /\ dkDef = NoDef /\ Fine(t, {"deleted", "overwritten"}) =>
       dkFile[t] = NoTask /\ ~HasRunner(t) /\ dkBegun[t] = NoTask

DkTaskOK(t) == DkUnmade(t) /\ DkSelected(t) /\ DkGuards(t) /\ DkRunners(t) /\ DkPassed(t)

\* Who waits, waits for a task that runs.
DkWaiters ==
  /\ dkWait.on = 0 => dkWait = NobodyWaits
  /\ dkWait # NobodyWaits /\ ~dkWait.woken /\ Fine(dkWait.on, {"overwritten", "unsaved", "deleted"}) => NeedsNobody(dkWait.on)

DkInv ==
  /\ DkTypes /\ DkNumbers /\ SchemesKept /\ DkWaiters
  /\ dkDel.on = 0 => dkDel = NoDeletion
  /\ \A t \in DkTasks : DkTaskOK(t)

-----------------------------------------------------------------------------
(***************************************************************************)
(* TaskDesk: lemmas.                                                       *)
(***************************************************************************)
\* What is no longer claimed of a task is never claimed of it again.
LEMMA FineBefore ==
  ASSUME NEW t \in DkTasks, NEW why, dkSpoilt \subseteq dkSpoilt' \cup {<<"overwritten", 0>>}, Fine(t, why)'
  PROVE  Fine(t, why)
BY DkAssumption DEF Fine

LEMMA DkInitInv == DkInit => DkInv
<1> SUFFICES ASSUME DkInit PROVE DkInv
  OBVIOUS
<1>1. /\ Earlier \in DeskTask /\ NoTask \in DeskTask
      /\ Earlier.status = "pre_running" /\ Earlier.nodes = UNION DkShapes /\ Earlier.off = {}
      /\ Earlier.who = LeftOut /\ Earlier.guard.agent = DkDefault /\ Earlier.guard.at = 0 /\ Earlier.done = {}
      /\ NoTask.status = "none" /\ NoTask.done = {} /\ NoTask.nodes = {} /\ NoTask.off = {}
  BY DkAssumption DEF Earlier, NoTask, NoGuard, DeskGuard, DeskTask, DeskNodes, DeskStatus
<1>2. DkTypes
  <2>1. dkDef \in Definition /\ dkPage \in Definition
    BY DEF DkInit, Definition, DeskNodes
  <2>2. dkFile \in [DkTasks -> DeskTask] /\ dkBegun \in [DkTasks -> DeskTask]
    BY <1>1 DEF DkInit
  <2>3. dkRun \in [DkTasks -> [task : DeskTask, cancel : BOOLEAN]]
    BY <1>1 DEF DkInit, NotDone
  <2>4. dkMade \in [DkTasks -> [nodes : DeskNodes, who : DkAgents \cup {LeftOut}]]
    BY DkAssumption DEF DkInit, DeskNodes
  <2> QED
    BY <2>1, <2>2, <2>3, <2>4 DEF DkInit, DkTypes, NoDeletion, NobodyWaits
<1>3. DkNumbers
  BY DkAssumption, ZenonT(90) DEF DkInit, DkNumbers, Numbered
<1>4. SchemesKept
  BY DEF DkInit, SchemesKept
<1>5. DkWaiters /\ dkDel = NoDeletion
  BY DEF DkInit, DkWaiters
<1>6. dkDef # NoDef /\ DkDefault # LeftOut
  BY DkAssumption, ZenonT(90) DEF DkInit, NoDef
<1>7. ASSUME NEW t \in DkTasks PROVE DkTaskOK(t)
  <2>1. dkRun[t] = NotDone /\ dkBegun[t] = NoTask /\ ~HasRunner(t)
    BY DEF DkInit, HasRunner
  <2>2. \/ dkFile[t] = NoTask
        \/ dkFile[t] = Earlier /\ dkMade[t].who = DkDefault /\ dkMade[t].nodes = UNION DkShapes
    BY DEF DkInit
  <2>3. DkUnmade(t)
    BY <1>6, <2>1, <2>2 DEF DkUnmade
  <2>4. DkSelected(t)
    <3>1. Selects(t, NoTask)
      BY <1>1 DEF Selects
    <3>2. dkFile[t] = Earlier => Selects(t, dkFile[t])
      BY <1>1, <2>2 DEF Selects
    <3> QED
      BY <2>1, <2>2, <3>1, <3>2 DEF DkSelected, NotDone
  <2>5. DkGuards(t)
    <3> SUFFICES ASSUME dkFile[t].status # "none" PROVE Guarded(t, dkFile[t])
      BY <2>1 DEF DkGuards
    <3>1. dkFile[t].guard.at = 0 /\ dkFile[t].status # "failed" /\ dkFile[t].guard.agent = DkDefault /\ dkFile[t].who = LeftOut
      BY <1>1, <2>2
    <3>2. dkFile[t].guard.at <= dkAgent[dkFile[t].guard.agent]
      <4>1. dkAgent[dkFile[t].guard.agent] = 0
        BY <3>1, DkAssumption DEF DkInit
      <4>2. 0 <= 0
        OBVIOUS
      <4> QED
        BY <3>1, <4>1, <4>2, Zenon
    <3>3. dkFile[t].guard.agent = dkMade[t].who
      BY <1>1, <2>2, <3>1
    <3>4. Named(dkFile[t].who) = dkMade[t].who
      BY <1>1, <2>2, <3>1 DEF Named
    <3> QED
      BY <3>1, <3>2, <3>3, <3>4, Zenon DEF Guarded
  <2>6. DkRunners(t)
    BY <1>1, <2>1, <2>2 DEF DkRunners
  <2>7. DkPassed(t)
    BY <1>5, <1>6, <2>1 DEF DkPassed
  <2> QED
    BY <2>3, <2>4, <2>5, <2>6, <2>7 DEF DkTaskOK
<1> QED
  BY <1>2, <1>3, <1>4, <1>5, <1>7 DEF DkInv

\* So is the definition, when it is left alone.
LEMMA DkDefinitionKept ==
  ASSUME DkInv, dkDef' = dkDef, dkPage' = dkPage, dkTold' = dkTold, dkOps' \in {dkOps, dkOps + 1},
         dkSpoilt \subseteq dkSpoilt'
  PROVE  DkNumbers' /\ SchemesKept'
<1>1. dkOps \in Nat /\ \A s \in dkDef.schemes \cup dkPage.schemes : s[1] \in Nat
  BY DEF DkInv, DkTypes, Definition
<1>2. Numbered(dkDef.schemes)' /\ Numbered(dkPage.schemes)'
  BY <1>1 DEF DkInv, DkNumbers, Numbered
<1>3. SchemesKept'
  BY DEF DkInv, SchemesKept, Fine
<1> QED
  BY <1>2, <1>3 DEF DkInv, DkNumbers

\* What a step leaves alone of a task stays as it is.
LEMMA DkTaskKept ==
  ASSUME NEW t \in DkTasks, DkTaskOK(t),
         dkFile'[t] = dkFile[t], dkRun'[t] = dkRun[t], dkBegun'[t] = dkBegun[t], dkMade'[t] = dkMade[t],
         dkAgent' = dkAgent, dkDel' = dkDel, dkDef' = NoDef => dkDef = NoDef,
         dkSpoilt \subseteq dkSpoilt' \cup {<<"overwritten", 0>>}
  PROVE  DkTaskOK(t)'
<1>1. \A why : Fine(t, why)' => Fine(t, why)
  BY FineBefore
<1>2. DkUnmade(t)'
  BY DEF DkTaskOK, DkUnmade
<1>3. DkSelected(t)'
  BY <1>1 DEF DkTaskOK, DkSelected, Selects
<1>4. DkGuards(t)'
  <2>1. HasRunner(t)' = HasRunner(t)
    BY DEF HasRunner
  <2>2. \A task : Guarded(t, task)' = Guarded(t, task)
    BY DEF Guarded
  <2> QED
    BY <1>1, <2>1, <2>2 DEF DkTaskOK, DkGuards
<1>5. DkRunners(t)'
  BY <1>1 DEF DkTaskOK, DkRunners, HasRunner
<1>6. DkPassed(t)'
  BY <1>1 DEF DkTaskOK, DkPassed, HasRunner
<1> QED
  BY <1>2, <1>3, <1>4, <1>5, <1>6 DEF DkTaskOK

\* Who waits still does, if the task still runs or something is no longer claimed of it.
LEMMA DkWaitersKept ==
  ASSUME DkInv, dkWait' = dkWait \/ (dkWait.on \in DkTasks /\ dkWait' = [dkWait EXCEPT !.woken = TRUE]),
         dkSpoilt \subseteq dkSpoilt' \cup {<<"overwritten", 0>>},
         \A t \in DkTasks : t = dkWait.on /\ dkWait' = dkWait /\ NeedsNobody(t)
                              /\ Fine(t, {"overwritten", "unsaved", "deleted"})' => NeedsNobody(t)' \/ dkWait.woken
  PROVE  DkWaiters' /\ dkWait' \in [on : DkTasks \cup {0}, woken : BOOLEAN]
<1>1. dkWait \in [on : DkTasks \cup {0}, woken : BOOLEAN]
  BY DEF DkInv, DkTypes
<1>2. CASE dkWait' = dkWait
  <2>1. CASE dkWait.on = 0
    BY <1>1, <1>2, <2>1 DEF DkInv, DkWaiters
  <2>2. CASE dkWait.on \in DkTasks
    BY <1>1, <1>2, <2>2, FineBefore DEF DkInv, DkWaiters
  <2> QED
    BY <1>1, <2>1, <2>2
<1>3. CASE dkWait' # dkWait
  <2>1. dkWait'.woken = TRUE /\ dkWait'.on = dkWait.on /\ dkWait' \in [on : DkTasks \cup {0}, woken : BOOLEAN]
    BY <1>1, <1>3
  <2>2. dkWait.on # 0
    BY <1>3, DkAssumption
  <2> QED
    BY <2>1, <2>2 DEF DkWaiters
<1> QED
  BY <1>2, <1>3

-----------------------------------------------------------------------------
(***************************************************************************)
(* TaskDesk: the definition and its schemes.                               *)
(***************************************************************************)
\* A step that only concerns the definition keeps what is said of tasks.
LEMMA DkTasksKept ==
  ASSUME DkInv, DkTasksStay, dkSpoilt \subseteq dkSpoilt' \cup {<<"overwritten", 0>>},
         dkDef' = NoDef => dkDef = NoDef
  PROVE  DkWaiters' /\ (dkDel.on = 0 => dkDel = NoDeletion)' /\ \A t \in DkTasks : DkTaskOK(t)'
<1>1. dkFile' = dkFile /\ dkRun' = dkRun /\ dkBegun' = dkBegun /\ dkMade' = dkMade /\ dkAgent' = dkAgent
      /\ dkDel' = dkDel /\ dkWait' = dkWait
  BY DEF DkTasksStay
<1>2. \A t \in DkTasks : DkTaskOK(t)'
  BY <1>1, DkTaskKept DEF DkInv
<1>3. DkWaiters'
  <2>1. \A t \in DkTasks : NeedsNobody(t) => NeedsNobody(t)'
    BY <1>1 DEF NeedsNobody
  <2> QED
    BY <1>1, <2>1, DkWaitersKept
<1> QED
  BY <1>1, <1>2, <1>3 DEF DkInv

\* The definition's part of the types.
LEMMA DkTypesOfDefinition ==
  ASSUME DkTypes, DkTasksStay, dkOps' \in Nat, dkDir' \in BOOLEAN,
         dkDef' \in Definition, dkPage' \in Definition, dkTold' \subseteq Nat \X DkShapes
  PROVE  DkTypes'
BY DEF DkTypes, DkTasksStay

LEMMA DkPageKept ==
  ASSUME DkInv, DkLoads \/ DkSaves \/ DkCreates
  PROVE  DkInv'
<1>1. /\ dkDef \in Definition /\ dkPage \in Definition /\ dkOps \in Nat /\ dkTold \subseteq Nat \X DkShapes
      /\ dkDir \in BOOLEAN /\ NoDef.nodes = {}
  BY DEF DkInv, DkTypes, NoDef
<1>2. \A s \in dkPage.schemes \cup dkDef.schemes : s[1] \in Nat
  BY <1>1 DEF Definition
<1>3. CASE DkLoads
  <2>1. /\ DkTasksStay /\ dkPage' = dkDef /\ dkDef' = dkDef /\ dkDir' = dkDir /\ dkTold' = dkTold
        /\ dkSpoilt' = dkSpoilt /\ dkOps' = dkOps
    BY <1>3 DEF DkLoads, DkFree
  <2>2. DkNumbers' /\ SchemesKept'
    BY <2>1 DEF DkInv, DkNumbers, Numbered, SchemesKept, Fine
  <2>3. DkTypes'
    BY <1>1, <2>1, DkTypesOfDefinition DEF DkInv
  <2> QED
    BY <2>1, <2>2, <2>3, DkTasksKept DEF DkInv
<1>4. CASE DkSaves
  <2>1. PICK ns \in DkShapes : dkDef' = [dkPage EXCEPT !.nodes = ns]
    BY <1>4 DEF DkSaves
  <2>2. /\ dkDef' \in Definition /\ dkDef'.nodes = ns /\ dkDef'.schemes = dkPage.schemes
        /\ ns # {} /\ dkDef' # NoDef
    BY <1>1, <2>1, DkAssumption DEF Definition, DeskNodes
  <2>3. /\ DkTasksStay /\ dkPage' = dkDef' /\ dkDir' = dkDir /\ dkTold' = dkTold /\ dkOps' = dkOps + 1
        /\ \/ dkSpoilt' = dkSpoilt /\ dkPage.schemes = dkDef.schemes
           \/ dkSpoilt' = dkSpoilt \cup {<<"overwritten", 0>>}
    <3>1. {"overwritten"} \X {0} = {<<"overwritten", 0>>}
      OBVIOUS
    <3> QED
      BY <1>4, <3>1 DEF DkSaves, DkOp, Spoils, Stale
  <2>4. DkNumbers'
    BY <1>1, <1>2, <2>2, <2>3 DEF DkInv, DkNumbers, Numbered
  <2>5. SchemesKept'
    BY <2>2, <2>3 DEF DkInv, SchemesKept, Fine
  <2>6. DkTypes'
    BY <1>1, <2>2, <2>3, DkTypesOfDefinition DEF DkInv
  <2> QED
    BY <2>2, <2>3, <2>4, <2>5, <2>6, DkTasksKept DEF DkInv
<1>5. CASE DkCreates
  <2>1. PICK ns \in DkShapes : dkDef' = [nodes |-> ns, schemes |-> {}]
    BY <1>5 DEF DkCreates
  <2>2. dkDef' \in Definition /\ ns # {} /\ dkDef'.nodes = ns /\ dkDef'.schemes = {} /\ dkDef' # NoDef
    <3>1. ns # {} /\ ns \in DeskNodes
      BY DkAssumption DEF DeskNodes
    <3>2. dkDef'.nodes = ns /\ dkDef'.schemes = {}
      BY <2>1
    <3> QED
      BY <1>1, <2>1, <3>1, <3>2 DEF Definition
  <2>3. /\ DkTasksStay /\ dkPage' = dkDef' /\ dkDir' = TRUE /\ dkTold' = {} /\ dkOps' = dkOps + 1
        /\ dkSpoilt' = dkSpoilt \ {<<"overwritten", 0>>}
    BY <1>5 DEF DkCreates, DkOp
  <2>4. DkNumbers' /\ SchemesKept'
    BY <2>2, <2>3 DEF DkNumbers, Numbered, SchemesKept
  <2>5. DkTypes'
    BY <1>1, <2>2, <2>3, DkTypesOfDefinition DEF DkInv
  <2> QED
    BY <2>2, <2>3, <2>4, <2>5, DkTasksKept DEF DkInv
<1> QED
  BY <1>3, <1>4, <1>5

\* One scheme goes, one comes, or one takes the place of another.
LEMMA DkSchemesKept ==
  ASSUME DkInv, DkMakesScheme \/ DkChangesScheme \/ DkDropsScheme
  PROVE  DkInv'
<1>1. /\ dkDef \in Definition /\ dkPage \in Definition /\ dkOps \in Nat /\ dkTold \subseteq Nat \X DkShapes
      /\ dkDir \in BOOLEAN /\ dkDef # NoDef
  BY DEF DkInv, DkTypes, DkMakesScheme, DkChangesScheme, DkDropsScheme
<1>2. \A schemes \in SUBSET (Nat \X DkShapes) :
        Changed(schemes) \in Definition /\ Changed(schemes).schemes = schemes /\ Changed(schemes).nodes = dkDef.nodes
  BY <1>1 DEF Definition, Changed
<1>3. /\ DkTasksStay /\ dkSpoilt' = dkSpoilt /\ dkPage' = dkPage /\ dkDir' = dkDir /\ dkOps' = dkOps + 1
  <2>1. CASE DkMakesScheme
    BY <2>1 DEF DkMakesScheme, DkOp
  <2>2. CASE DkChangesScheme
    BY <2>2 DEF DkChangesScheme, DkOp
  <2>3. CASE DkDropsScheme
    BY <2>3 DEF DkDropsScheme, DkOp
  <2> QED
    BY <2>1, <2>2, <2>3
<1>4. /\ \A s \in dkDef.schemes \cup dkPage.schemes : s[1] \in Nat /\ s[1] <= dkOps
      /\ \A s, r \in dkDef.schemes : s[1] = r[1] => s = r
      /\ Fine(0, {"overwritten"}) => dkTold = dkDef.schemes
  BY <1>1 DEF Definition, DkInv, DkNumbers, Numbered, SchemesKept
<1> DEFINE Good(schemes, told) ==
      /\ schemes \in SUBSET (Nat \X DkShapes) /\ told \in SUBSET (Nat \X DkShapes)
      /\ \A s \in schemes : s[1] <= dkOps + 1
      /\ \A s, r \in schemes : s[1] = r[1] => s = r
      /\ Fine(0, {"overwritten"}) => schemes = told
<1>5. \E schemes, told : dkDef' = Changed(schemes) /\ dkTold' = told /\ Good(schemes, told)
  <2>1. CASE DkMakesScheme
    <3>1. PICK sel \in DkShapes : /\ dkDef' = Changed(dkDef.schemes \cup {<<dkOps + 1, sel>>})
                                  /\ dkTold' = dkTold \cup {<<dkOps + 1, sel>>}
      BY <2>1 DEF DkMakesScheme
    <3>2. <<dkOps + 1, sel>> \in Nat \X DkShapes /\ <<dkOps + 1, sel>>[1] = dkOps + 1
      BY <1>1
    <3>3. \A s \in dkDef.schemes : s[1] # dkOps + 1 /\ s[1] <= dkOps + 1
      BY <1>1, <1>4
    <3>4. /\ dkDef.schemes \cup {<<dkOps + 1, sel>>} \in SUBSET (Nat \X DkShapes)
          /\ dkTold \cup {<<dkOps + 1, sel>>} \in SUBSET (Nat \X DkShapes)
      BY <1>1, <3>2 DEF Definition
    <3>5. Good(dkDef.schemes \cup {<<dkOps + 1, sel>>}, dkTold \cup {<<dkOps + 1, sel>>})
      BY <1>1, <1>4, <3>2, <3>3, <3>4
    <3> QED
      BY <3>1, <3>5, ZenonT(90)
  <2>2. CASE DkChangesScheme
    <3>1. PICK s \in dkDef.schemes, sel \in DkShapes :
            /\ dkDef' = Changed((dkDef.schemes \ {s}) \cup {<<s[1], sel>>})
            /\ dkTold' = {x \in dkTold : x[1] # s[1]} \cup {<<s[1], sel>>}
      BY <2>2 DEF DkChangesScheme
    <3>2. <<s[1], sel>> \in Nat \X DkShapes /\ <<s[1], sel>>[1] = s[1]
      BY <1>4
    <3> DEFINE schemes == (dkDef.schemes \ {s}) \cup {<<s[1], sel>>}
               told == {x \in dkTold : x[1] # s[1]} \cup {<<s[1], sel>>}
    <3>3. schemes \in SUBSET (Nat \X DkShapes) /\ told \in SUBSET (Nat \X DkShapes)
      BY <1>1, <3>2 DEF Definition
    <3>4. \A r \in schemes : r[1] <= dkOps + 1
      BY <1>1, <1>4, <3>2
    <3>5. \A r, x \in schemes : r[1] = x[1] => r = x
      BY <1>4, <3>2
    <3>6. Fine(0, {"overwritten"}) => schemes = told
      BY <1>4, <3>2
    <3>7. Good(schemes, told)
      BY <3>3, <3>4, <3>5, <3>6
    <3>8. dkDef' = Changed(schemes) /\ dkTold' = told
      BY <3>1
    <3> HIDE DEF schemes, told, Good
    <3> QED
      BY <3>7, <3>8
  <2>3. CASE DkDropsScheme
    <3>1. PICK s \in dkDef.schemes : /\ dkDef' = Changed(dkDef.schemes \ {s})
                                     /\ dkTold' = {x \in dkTold : x[1] # s[1]}
      BY <2>3 DEF DkDropsScheme
    <3>2. Good(dkDef.schemes \ {s}, {x \in dkTold : x[1] # s[1]})
      BY <1>1, <1>4 DEF Definition
    <3> QED
      BY <3>1, <3>2
  <2> QED
    BY <2>1, <2>2, <2>3
<1>6. PICK schemes, told : dkDef' = Changed(schemes) /\ dkTold' = told /\ Good(schemes, told)
  BY <1>5
<1>7. dkDef' \in Definition /\ dkDef'.schemes = schemes /\ dkDef'.nodes = dkDef.nodes
  BY <1>2, <1>6
<1>8. dkDef' # NoDef /\ dkDef.nodes # {}
  BY <1>1, <1>7 DEF NoDef, DkInv, DkNumbers
<1>9. DkNumbers'
  <2>1. Numbered(dkDef.schemes)'
    BY <1>3, <1>6, <1>7 DEF Numbered
  <2>2. Numbered(dkPage.schemes)'
    BY <1>1, <1>3, <1>4 DEF Numbered, DkInv, DkNumbers
  <2> QED
    BY <1>7, <1>8, <2>1, <2>2 DEF DkNumbers
<1>10. SchemesKept'
  BY <1>3, <1>6, <1>7 DEF SchemesKept, Fine
<1>11. DkTypes'
  BY <1>1, <1>3, <1>6, <1>7, DkTypesOfDefinition DEF DkInv
<1> QED
  BY <1>3, <1>8, <1>9, <1>10, <1>11, DkTasksKept DEF DkInv

-----------------------------------------------------------------------------
(***************************************************************************)
(* TaskDesk: making a task.                                                *)
(***************************************************************************)
\* What a new task is made of: the nodes that were asked for, and the agent the
\* variable names, as it is then.
LEMMA DkNewTaskFacts ==
  ASSUME DkTypes, NEW asked \in DkAsked, NEW who \in DkValues \cup {LeftOut},
         NEW status \in DeskStatus, NEW main \in BOOLEAN,
         NEW task, task = DkNewTask(status, main, asked, who)
  PROVE  /\ task \in DeskTask /\ task.status = status /\ task.main = main /\ task.done = {} /\ task.who = who
         /\ task.nodes = dkDef.nodes /\ task.off = Disabled(dkDef.schemes, asked)
         /\ task.guard.agent = Named(who) /\ task.guard.at = dkAgent[Named(who)]
         /\ Named(who) \in DkAgents
<1> USE DkAssumption
<1>1. Named(who) \in DkAgents
  BY DEF Named
<1>2. Frozen(who) \in DeskGuard /\ Frozen(who).agent = Named(who) /\ Frozen(who).at = dkAgent[Named(who)]
  BY <1>1 DEF Frozen, DkTypes, DeskGuard
<1>3. dkDef.nodes \in DeskNodes /\ Disabled(dkDef.schemes, asked) \in DeskNodes
  BY DEF Disabled, DkTypes, Definition, DeskNodes
<1>4. {} \in DeskNodes
  BY DEF DeskNodes
<1> QED
  BY <1>1, <1>2, <1>3, <1>4 DEF DkNewTask, DeskTask

\* A new status, and an owner, make a task of a task.
LEMMA DkTaskStatus ==
  ASSUME NEW task \in DeskTask, NEW status \in DeskStatus
  PROVE  LET with(u) ==
               /\ u \in DeskTask /\ u.status = status /\ u.nodes = task.nodes /\ u.off = task.off
               /\ u.who = task.who /\ u.guard = task.guard /\ u.done = task.done
         IN /\ with([task EXCEPT !.status = status]) /\ [task EXCEPT !.status = status].main = task.main
            /\ with([task EXCEPT !.status = status, !.main = TRUE])
BY DEF DeskTask

\* The nodes that were asked for are those that are not disabled, if the scheme is
\* still as it was shown.
LEMMA DkMeantFacts ==
  ASSUME DkTypes, DkNumbers, NEW asked \in DkAsked,
         asked.how = "scheme" => asked.scheme \in dkDef.schemes
  PROVE  dkDef.nodes \ Disabled(dkDef.schemes, asked) = Meant(asked)
<1>1. CASE asked.how = "scheme"
  <2>1. SchemeOf(dkDef.schemes, asked) = {asked.scheme}
    BY <1>1 DEF SchemeOf, DkNumbers, Numbered
  <2> QED
    BY <1>1, <2>1 DEF Disabled, Meant
<1>2. CASE asked.how # "scheme"
  <2>1. SchemeOf(dkDef.schemes, asked) = {} /\ asked.how \in {"all", "nodes"}
    BY <1>2 DEF SchemeOf, DkAsked, Everything
  <2> QED
    BY <1>2, <2>1 DEF Disabled, Meant
<1> QED
  BY <1>1, <1>2

\* A task that is made is what its maker asked for, wherever it is put.
LEMMA DkMakesKept ==
  ASSUME DkInv, DkOp, dkDef # NoDef, NEW t \in Unmade, NEW asked \in DkAsked, NEW who \in DkValues \cup {LeftOut},
         NEW status \in {"pending", "pre_running"}, NEW main \in BOOLEAN,
         Makes(t, DkNewTask(status, main, asked, who), asked),
         dkBegun' = dkBegun \/ (status = "pending" /\ dkBegun' = [dkBegun EXCEPT ![t] = dkFile'[t]]),
         dkWait' = dkWait \/ Signal({t}),
         dkAgent' = dkAgent, dkRun' = dkRun, dkDel' = dkDel, DefinitionStays
  PROVE  DkInv'
<1>1. PICK task : task = DkNewTask(status, main, asked, who)
  OBVIOUS
<1>2. PICK made : made = [nodes |-> Meant(asked), who |-> Named(task.who)]
  OBVIOUS
<1>3. /\ task \in DeskTask /\ task.status = status /\ task.done = {} /\ task.who = who
      /\ task.nodes = dkDef.nodes /\ task.off = Disabled(dkDef.schemes, asked)
      /\ task.guard.agent = Named(who) /\ task.guard.at = dkAgent[Named(who)]
      /\ Named(who) \in DkAgents
  <2>1. DkTypes /\ status \in DeskStatus
    BY DEF DkInv, DeskStatus
  <2> QED
    BY <1>1, <2>1, DkNewTaskFacts
<1>4. /\ made \in [nodes : DeskNodes, who : DkAgents \cup {LeftOut}] /\ made.who = Named(who) /\ made.nodes = Meant(asked)
      /\ made.who # LeftOut
  <2>1. Meant(asked) \in DeskNodes
    BY DEF Meant, DkInv, DkTypes, Definition, DeskNodes
  <2>2. Named(who) # LeftOut
    BY <1>3, DkAssumption
  <2> QED
    BY <1>2, <1>3, <2>1, <2>2
<1>5. t \in DkTasks /\ dkMade[t].who = LeftOut
  BY DEF Unmade
<1>6. /\ dkFile' = [dkFile EXCEPT ![t] = task] /\ dkMade' = [dkMade EXCEPT ![t] = made]
      /\ dkSpoilt \subseteq dkSpoilt'
  BY <1>1, <1>2 DEF Makes, Spoils
<1>7. Fine(t, {"stale scheme"})' => (asked.how = "scheme" => asked.scheme \in dkDef.schemes)
  BY DEF Makes, Spoils, Fine
<1>8. /\ dkDef' = dkDef /\ dkDir' = dkDir /\ dkPage' = dkPage /\ dkTold' = dkTold /\ dkOps' = dkOps + 1
  BY DEF DefinitionStays, DkOp
<1>9. /\ dkFile \in [DkTasks -> DeskTask] /\ dkBegun \in [DkTasks -> DeskTask]
      /\ dkMade \in [DkTasks -> [nodes : DeskNodes, who : DkAgents \cup {LeftOut}]]
      /\ dkAgent \in [DkAgents -> Nat] /\ dkOps \in Nat
  BY DEF DkInv, DkTypes
<1>10. dkRun[t] = NotDone /\ dkBegun[t] = NoTask /\ dkFile[t] = NoTask
  BY <1>5 DEF DkInv, DkTaskOK, DkUnmade
<1>11. /\ dkFile' \in [DkTasks -> DeskTask] /\ dkFile'[t] = task
       /\ dkMade' \in [DkTasks -> [nodes : DeskNodes, who : DkAgents \cup {LeftOut}]] /\ dkMade'[t] = made
       /\ \A u \in DkTasks : u # t => dkFile'[u] = dkFile[u] /\ dkMade'[u] = dkMade[u]
  BY <1>3, <1>4, <1>5, <1>6, <1>9
<1>12. /\ dkBegun' \in [DkTasks -> DeskTask] /\ (dkBegun'[t] = NoTask \/ (status = "pending" /\ dkBegun'[t] = task))
       /\ \A u \in DkTasks : u # t => dkBegun'[u] = dkBegun[u]
  BY <1>3, <1>5, <1>9, <1>10, <1>11
<1>13. ASSUME NEW u \in DkTasks, u # t PROVE DkTaskOK(u)'
  <2>1. dkRun'[u] = dkRun[u] /\ DkTaskOK(u)
    BY DEF DkInv
  <2> QED
    BY <1>6, <1>8, <1>11, <1>12, <1>13, <2>1, DkTaskKept
<1>14. DkTaskOK(t)'
  <2>1. DkUnmade(t)'
    BY <1>3, <1>4, <1>11, <1>12 DEF DkUnmade
  <2>2. Fine(t, {"stale scheme"})' => task.nodes \ task.off = made.nodes
    BY <1>3, <1>4, <1>7, DkMeantFacts DEF DkInv
  <2>3. Selects(t, task)'
    BY <1>3, <1>11, <2>2 DEF Selects
  <2>4. Selects(t, NoTask)'
    BY DEF Selects, NoTask
  <2>5. dkRun'[t].task = NoTask
    BY <1>10 DEF NotDone
  <2>6. DkSelected(t)'
    BY <1>11, <1>12, <2>3, <2>4, <2>5 DEF DkSelected
  <2>7. ~HasRunner(t)'
    BY <1>10 DEF HasRunner
  <2>8. DkGuards(t)'
    <3>1. task.guard.agent = made.who /\ Named(task.who) = made.who
      BY <1>3, <1>4
    <3>2. task.guard.at <= dkAgent[task.guard.agent]
      <4>1. dkAgent[Named(who)] \in Nat
        BY <1>3, <1>9
      <4>2. dkAgent[Named(who)] <= dkAgent[Named(who)]
        BY <4>1
      <4> QED
        BY <1>3, <4>2, Zenon
    <3>3. task.status # "failed"
      BY <1>3
    <3>4. Guarded(t, task)'
      BY <1>11, <3>1, <3>2, <3>3 DEF Guarded, Named
    <3> QED
      BY <1>11, <2>7, <3>4 DEF DkGuards
  <2>9. DkRunners(t)'
    BY <1>3, <1>11, <2>7 DEF DkRunners
  <2>10. DkPassed(t)'
    BY <1>8, <2>7 DEF DkPassed
  <2> QED
    BY <2>1, <2>6, <2>8, <2>9, <2>10 DEF DkTaskOK
<1>15. DkWaiters' /\ dkWait' \in [on : DkTasks \cup {0}, woken : BOOLEAN]
  <2>1. ~NeedsNobody(t)
    BY <1>10 DEF NeedsNobody, NoTask
  <2>2. \A u \in DkTasks : NeedsNobody(u) => NeedsNobody(u)'
    BY <1>11, <2>1 DEF NeedsNobody
  <2>3. dkWait' = dkWait \/ (dkWait.on \in DkTasks /\ dkWait' = [dkWait EXCEPT !.woken = TRUE])
    BY <1>5 DEF Signal
  <2> QED
    BY <1>6, <2>2, <2>3, DkWaitersKept
<1>16. DkTypes'
  BY <1>8, <1>9, <1>11, <1>12, <1>15 DEF DkInv, DkTypes
<1>17. DkNumbers' /\ SchemesKept'
  BY <1>6, <1>8, DkDefinitionKept
<1> QED
  BY <1>13, <1>14, <1>15, <1>16, <1>17 DEF DkInv

LEMMA DkMakersKept ==
  ASSUME DkInv, DkMakesTask \/ DkAttaches \/ DkPreStarts
  PROVE  DkInv'
<1>1. CASE DkMakesTask
  <2>1. PICK t \in Lowest(Unmade), asked \in DkAsked, who \in DkValues : Makes(t, DkNewTask("pending", FALSE, asked, who), asked)
    BY <1>1 DEF DkMakesTask
  <2>2. t \in Unmade /\ who \in DkValues \cup {LeftOut}
    BY <2>1 DEF Lowest
  <2>3. /\ DkOp /\ dkDef # NoDef /\ dkBegun' = dkBegun /\ dkWait' = dkWait
        /\ dkAgent' = dkAgent /\ dkRun' = dkRun /\ dkDel' = dkDel /\ DefinitionStays
    BY <1>1 DEF DkMakesTask
  <2> QED
    BY <2>1, <2>2, <2>3, DkMakesKept
<1>2. CASE DkAttaches
  <2>1. PICK t \in Lowest(Unmade), asked \in DkAsked, who \in DkValues :
          Signal({t}) /\ Makes(t, DkNewTask("pre_running", TRUE, asked, who), asked)
    BY <1>2 DEF DkAttaches
  <2>2. t \in Unmade /\ who \in DkValues \cup {LeftOut}
    BY <2>1 DEF Lowest
  <2>3. /\ DkOp /\ dkDef # NoDef /\ dkBegun' = dkBegun
        /\ dkAgent' = dkAgent /\ dkRun' = dkRun /\ dkDel' = dkDel /\ DefinitionStays
    BY <1>2 DEF DkAttaches
  <2> QED
    BY <2>1, <2>2, <2>3, DkMakesKept
<1>3. CASE DkPreStarts
  <2>1. PICK t \in Lowest(Unmade) :
          /\ Makes(t, DkNewTask("pending", FALSE, Everything, LeftOut), Everything)
          /\ dkBegun' = [dkBegun EXCEPT ![t] = DkNewTask("pending", FALSE, Everything, LeftOut)]
    BY <1>3 DEF DkPreStarts
  <2>2. t \in Unmade /\ t \in DkTasks /\ Everything \in DkAsked /\ LeftOut \in DkValues \cup {LeftOut}
    BY <2>1 DEF Lowest, Unmade, DkAsked
  <2>3. dkFile'[t] = DkNewTask("pending", FALSE, Everything, LeftOut)
    BY <2>1, <2>2 DEF Makes, DkInv, DkTypes
  <2>4. /\ DkOp /\ dkDef # NoDef /\ dkWait' = dkWait
        /\ dkAgent' = dkAgent /\ dkRun' = dkRun /\ dkDel' = dkDel /\ DefinitionStays
    BY <1>3 DEF DkPreStarts
  <2>5. dkBegun' = [dkBegun EXCEPT ![t] = dkFile'[t]]
    BY <2>1, <2>3
  <2> QED
    BY <2>1, <2>2, <2>4, <2>5, DkMakesKept
<1> QED
  BY <1>1, <1>2, <1>3

-----------------------------------------------------------------------------
(***************************************************************************)
(* TaskDesk: steps about one task that there is.                           *)
(***************************************************************************)
LEMMA DkOneTaskKept ==
  ASSUME DkInv, NEW t \in DkTasks,
         dkFile' \in [DkTasks -> DeskTask], dkBegun' \in [DkTasks -> DeskTask],
         dkRun' \in [DkTasks -> [task : DeskTask, cancel : BOOLEAN]],
         dkMade' \in [DkTasks -> [nodes : DeskNodes, who : DkAgents \cup {LeftOut}]],
         \A u \in DkTasks : u # t => /\ dkFile'[u] = dkFile[u] /\ dkRun'[u] = dkRun[u]
                                     /\ dkBegun'[u] = dkBegun[u] /\ dkMade'[u] = dkMade[u],
         DkTaskOK(t)',
         dkAgent' = dkAgent, dkDel' = dkDel, dkDef' = dkDef, dkPage' = dkPage, dkTold' = dkTold,
         dkDir' \in BOOLEAN, dkOps' \in {dkOps, dkOps + 1}, dkSpoilt \subseteq dkSpoilt',
         dkWait' = dkWait \/ Signal({t}) \/ Signal({}),
         dkWait' = dkWait /\ NeedsNobody(t) /\ Fine(t, {"overwritten", "unsaved", "deleted"})' =>
           NeedsNobody(t)' \/ Signal({t})
  PROVE  DkInv'
<1>1. dkWait' = dkWait \/ (dkWait.on \in DkTasks /\ dkWait' = [dkWait EXCEPT !.woken = TRUE])
  BY DEF Signal
<1>2. ASSUME NEW u \in DkTasks, u = dkWait.on, dkWait' = dkWait, NeedsNobody(u),
             Fine(u, {"overwritten", "unsaved", "deleted"})'
      PROVE  NeedsNobody(u)' \/ dkWait.woken
  <2>1. CASE u # t
    BY <1>2, <2>1 DEF NeedsNobody
  <2>2. CASE u = t /\ Signal({t})
    <3>1. dkWait = [dkWait EXCEPT !.woken = TRUE]
      BY <1>2, <2>2 DEF Signal
    <3> QED
      BY <3>1 DEF DkInv, DkTypes
  <2> QED
    BY <1>2, <2>1, <2>2
<1>3. DkWaiters' /\ dkWait' \in [on : DkTasks \cup {0}, woken : BOOLEAN]
  BY <1>1, <1>2, DkWaitersKept
<1>4. \A u \in DkTasks : u # t => DkTaskOK(u)'
  BY DkTaskKept DEF DkInv
<1>5. dkOps' \in Nat
  BY DEF DkInv, DkTypes
<1>6. DkTypes'
  BY <1>3, <1>5 DEF DkInv, DkTypes
<1>7. DkNumbers' /\ SchemesKept'
  BY DkDefinitionKept
<1> QED
  BY <1>3, <1>4, <1>6, <1>7 DEF DkInv

\* The types an action about a task needs.
LEMMA DkTaskTypes ==
  ASSUME DkInv, NEW t \in DkTasks
  PROVE  /\ dkFile \in [DkTasks -> DeskTask] /\ dkBegun \in [DkTasks -> DeskTask]
         /\ dkRun \in [DkTasks -> [task : DeskTask, cancel : BOOLEAN]]
         /\ dkMade \in [DkTasks -> [nodes : DeskNodes, who : DkAgents \cup {LeftOut}]]
         /\ dkAgent \in [DkAgents -> Nat] /\ dkDir \in BOOLEAN
         /\ dkFile[t] \in DeskTask /\ dkBegun[t] \in DeskTask /\ dkRun[t].task \in DeskTask /\ dkRun[t].cancel \in BOOLEAN
         /\ dkRun[t] = [task |-> dkRun[t].task, cancel |-> dkRun[t].cancel]
         /\ DkTaskOK(t)
BY DEF DkInv, DkTypes

LEMMA NatReflexive == \A n \in Nat : n <= n
OBVIOUS

LEMMA NatLess == \A m, n \in Nat : m <= n /\ m # n => n > m
OBVIOUS

LEMMA NoTaskFacts ==
  /\ NoTask \in DeskTask /\ NoTask.status = "none" /\ NoTask.done = {} /\ NoTask.off = {} /\ NoTask.nodes = {}
  /\ NotDone.task = NoTask /\ NotDone.cancel = FALSE /\ NotDone \in [task : DeskTask, cancel : BOOLEAN]
BY DEF NoTask, NoGuard, DeskGuard, DeskTask, DeskNodes, DeskStatus, NotDone

\* What is selected does not depend on the status, but for one that is completed.
LEMMA SelectsSame ==
  ASSUME NEW t \in DkTasks, NEW task \in DeskTask, NEW next \in DeskTask, Selects(t, task), task.status # "none",
         next.nodes = task.nodes, next.off = task.off, next.done = task.done, next.status # "completed",
         dkMade'[t].nodes = dkMade[t].nodes, dkSpoilt \subseteq dkSpoilt'
  PROVE  Selects(t, next)'
<1>1. Fine(t, {"stale scheme"})' => Fine(t, {"stale scheme"})
  BY DEF Fine
<1> QED
  BY <1>1 DEF Selects

\* Nor do the agents.
LEMMA GuardedSame ==
  ASSUME NEW t \in DkTasks, NEW task \in DeskTask, NEW next \in DeskTask, Guarded(t, task),
         next.guard = task.guard, next.who = task.who, next.status # "failed",
         dkMade'[t].who = dkMade[t].who, dkAgent' = dkAgent
  PROVE  Guarded(t, next)'
BY DEF Guarded, Named

\* A task is given a value for its variable.
LEMMA DkFilledFacts ==
  ASSUME NEW task \in DeskTask, NEW who \in DkValues, dkAgent \in [DkAgents -> Nat]
  PROVE  /\ Filled(task, who) \in DeskTask /\ Filled(task, who).status = task.status
         /\ Filled(task, who).nodes = task.nodes /\ Filled(task, who).off = task.off
         /\ Filled(task, who).done = task.done /\ Filled(task, who).main = task.main
         /\ Filled(task, who).who = who /\ Named(who) \in DkAgents
         /\ task.status \in {"pending", "pre_running"} =>
              Filled(task, who).guard.agent = Named(who) /\ Filled(task, who).guard.at = dkAgent[Named(who)]
<1>1. Named(who) \in DkAgents /\ who \in DkAgents \cup {LeftOut}
  BY DkAssumption DEF Named
<1>2. Frozen(who) \in DeskGuard /\ Frozen(who).agent = Named(who) /\ Frozen(who).at = dkAgent[Named(who)]
  BY <1>1 DEF Frozen, DeskGuard
<1>3. PICK g \in DeskGuard : g = (IF task.status \in {"pending", "pre_running"} THEN Frozen(who) ELSE task.guard)
  BY <1>2 DEF DeskTask
<1>4. Filled(task, who) = [task EXCEPT !.who = who, !.guard = g]
  BY <1>3 DEF Filled, DeskTask
<1> QED
  BY <1>1, <1>2, <1>3, <1>4 DEF DeskTask

LEMMA DkFillsKept ==
  ASSUME DkInv, DkFills
  PROVE  DkInv'
<1>1. PICK t \in DkTasks, who \in DkValues :
        /\ dkFile[t].status # "none" /\ dkFile' = [dkFile EXCEPT ![t] = Filled(dkFile[t], who)]
        /\ IF dkFile[t].status \in {"pending", "pre_running"}
           THEN dkMade' = [dkMade EXCEPT ![t].who = Named(who)] /\ dkSpoilt' = dkSpoilt
           ELSE dkSpoilt' = dkSpoilt \cup ({"filled late"} \X {t}) /\ dkMade' = dkMade
  BY DEF DkFills, Spoils
<1>2. /\ dkAgent' = dkAgent /\ dkRun' = dkRun /\ dkBegun' = dkBegun /\ dkDel' = dkDel /\ dkWait' = dkWait
      /\ dkDef' = dkDef /\ dkDir' = dkDir /\ dkPage' = dkPage /\ dkTold' = dkTold /\ dkOps' = dkOps + 1
  BY DEF DkFills, DefinitionStays, DkOp
<1>3. PICK next : next = Filled(dkFile[t], who)
  OBVIOUS
<1>4. /\ next \in DeskTask /\ next.status = dkFile[t].status /\ next.nodes = dkFile[t].nodes
      /\ next.off = dkFile[t].off /\ next.done = dkFile[t].done /\ next.main = dkFile[t].main
      /\ next.who = who /\ Named(who) \in DkAgents
      /\ next.status \in {"pending", "pre_running"} => next.guard.agent = Named(who) /\ next.guard.at = dkAgent[Named(who)]
  BY <1>3, DkTaskTypes, DkFilledFacts, ZenonT(90)
<1>5. /\ dkFile' \in [DkTasks -> DeskTask] /\ dkFile'[t] = next
      /\ \A u \in DkTasks : u # t => dkFile'[u] = dkFile[u]
  BY <1>1, <1>3, <1>4, DkTaskTypes
<1>6. /\ dkMade' \in [DkTasks -> [nodes : DeskNodes, who : DkAgents \cup {LeftOut}]]
      /\ \A u \in DkTasks : u # t => dkMade'[u] = dkMade[u]
      /\ dkMade'[t].nodes = dkMade[t].nodes
      /\ next.status \in {"pending", "pre_running"} => dkMade'[t].who = Named(who)
      /\ next.status \notin {"pending", "pre_running"} => dkMade'[t].who = dkMade[t].who
  <2>1. dkMade \in [DkTasks -> [nodes : DeskNodes, who : DkAgents \cup {LeftOut}]]
    BY DkTaskTypes
  <2>2. CASE next.status \in {"pending", "pre_running"}
    <3>1. dkMade' = [dkMade EXCEPT ![t].who = Named(who)]
      BY <1>1, <1>4, <2>2
    <3> QED
      BY <1>4, <2>1, <2>2, <3>1
  <2>3. CASE next.status \notin {"pending", "pre_running"}
    <3>1. dkMade' = dkMade
      BY <1>1, <1>4, <2>3
    <3> QED
      BY <2>1, <2>3, <3>1
  <2> QED
    BY <2>2, <2>3
<1>7. /\ dkSpoilt \subseteq dkSpoilt'
      /\ next.status \notin {"pending", "pre_running"} => <<"filled late", t>> \in dkSpoilt'
  BY <1>1, <1>4
<1>8. \A why : Fine(t, why)' => Fine(t, why)
  BY <1>7, FineBefore
<1>9. dkMade[t].who # LeftOut /\ dkMade'[t].who # LeftOut
  <2>1. dkFile[t] # NoTask
    BY <1>1, NoTaskFacts
  <2>2. Named(who) # LeftOut
    BY <1>4, DkAssumption
  <2> QED
    BY <1>6, <2>1, <2>2, DkTaskTypes DEF DkTaskOK, DkUnmade
<1>10. DkUnmade(t)'
  BY <1>2, <1>9, DkTaskTypes DEF DkTaskOK, DkUnmade
<1>11. DkSelected(t)'
  BY <1>2, <1>4, <1>5, <1>6, <1>8, DkTaskTypes, ZenonT(90) DEF DkTaskOK, DkSelected, Selects
<1>12. DkGuards(t)'
  <2> SUFFICES ASSUME Fine(t, {"overwritten", "filled late"})'
               PROVE  Guarded(t, dkFile[t])' /\ (HasRunner(t)' => Guarded(t, dkRun[t].task)')
    BY DEF DkGuards
  <2>1. next.status \in {"pending", "pre_running"}
    BY <1>7 DEF Fine
  <2>2. ~HasRunner(t)'
    <3>1. Fine(t, {"overwritten"})
      BY <1>8 DEF Fine
    <3> QED
      BY <1>2, <1>4, <2>1, <3>1, DkTaskTypes DEF DkTaskOK, DkRunners, HasRunner
  <2>3. next.guard.at <= dkAgent[next.guard.agent]
    <3>1. dkAgent[Named(who)] \in Nat
      BY <1>4, DkTaskTypes
    <3>2. dkAgent[Named(who)] <= dkAgent[Named(who)]
      BY <3>1, NatReflexive, Zenon
    <3> QED
      BY <1>4, <2>1, <3>2, Zenon
  <2>4. Guarded(t, next)'
    BY <1>2, <1>4, <1>6, <2>1, <2>3 DEF Guarded, Named
  <2> QED
    BY <1>5, <2>2, <2>4
<1>13. DkRunners(t)'
  BY <1>2, <1>4, <1>5, <1>8, DkTaskTypes DEF DkTaskOK, DkRunners, HasRunner
<1>14. DkPassed(t)'
  <2>1. dkFile[t] # NoTask
    BY <1>1, NoTaskFacts
  <2> QED
    BY <1>2, <1>8, <2>1, DkTaskTypes DEF DkTaskOK, DkPassed, HasRunner
<1>15. NeedsNobody(t) => NeedsNobody(t)'
  BY <1>4, <1>5 DEF NeedsNobody
<1>16. DkTaskOK(t)'
  BY <1>10, <1>11, <1>12, <1>13, <1>14 DEF DkTaskOK
<1> QED
  BY <1>2, <1>5, <1>6, <1>7, <1>15, <1>16, DkTaskTypes, DkOneTaskKept

\* A session was made for a task: what was in memory goes over the file.
LEMMA DkPreStartedKept ==
  ASSUME DkInv, DkPreStarted
  PROVE  DkInv'
<1>1. PICK t \in DkTasks :
        /\ dkBegun[t] # NoTask /\ dkBegun' = [dkBegun EXCEPT ![t] = NoTask]
        /\ \/ /\ dkFile' = [dkFile EXCEPT ![t] = [dkBegun[t] EXCEPT !.status = "pre_running", !.main = TRUE]]
              /\ dkDir' = TRUE /\ dkOps' = dkOps
              /\ IF dkFile[t] # dkBegun[t] THEN dkSpoilt' = dkSpoilt \cup ({"overwritten"} \X {t}) ELSE dkSpoilt' = dkSpoilt
           \/ dkOps' = dkOps + 1 /\ dkFile' = dkFile /\ dkDir' = dkDir /\ dkSpoilt' = dkSpoilt
  BY DEF DkPreStarted, DkOp, DkFree, Spoils
<1>2. /\ dkAgent' = dkAgent /\ dkRun' = dkRun /\ dkDel' = dkDel /\ dkWait' = dkWait /\ dkMade' = dkMade
      /\ dkDef' = dkDef /\ dkPage' = dkPage /\ dkTold' = dkTold
  BY DEF DkPreStarted
<1>3. PICK next : next = [dkBegun[t] EXCEPT !.status = "pre_running", !.main = TRUE]
  OBVIOUS
<1>4. /\ next \in DeskTask /\ next.status = "pre_running" /\ next.nodes = dkBegun[t].nodes
      /\ next.off = dkBegun[t].off /\ next.done = dkBegun[t].done /\ next.who = dkBegun[t].who
      /\ next.guard = dkBegun[t].guard /\ dkBegun[t].status = "pending"
  <2>1. dkBegun[t] \in DeskTask /\ "pre_running" \in DeskStatus
    BY DkTaskTypes DEF DeskStatus
  <2>2. dkBegun[t].status = "pending"
    BY <1>1, DkTaskTypes DEF DkTaskOK, DkUnmade
  <2> QED
    BY <1>3, <2>1, <2>2, DkTaskStatus
<1>5. /\ dkBegun' \in [DkTasks -> DeskTask] /\ dkBegun'[t] = NoTask
      /\ \A u \in DkTasks : u # t => dkBegun'[u] = dkBegun[u]
  BY <1>1, DkTaskTypes, NoTaskFacts
<1>6. /\ dkFile' \in [DkTasks -> DeskTask] /\ dkDir' \in BOOLEAN /\ dkSpoilt \subseteq dkSpoilt'
      /\ dkOps' \in {dkOps, dkOps + 1}
      /\ \A u \in DkTasks : u # t => dkFile'[u] = dkFile[u]
      /\ dkFile'[t] = dkFile[t] \/ (dkFile'[t] = next /\ (dkFile[t] = dkBegun[t] \/ <<"overwritten", t>> \in dkSpoilt'))
  BY <1>1, <1>3, <1>4, DkTaskTypes
<1>7. \A why : Fine(t, why)' => Fine(t, why)
  BY <1>6, FineBefore
<1>8. DkTaskOK(t) /\ NoTask.status = "none" /\ dkBegun[t] # NoTask
  BY <1>1, DkTaskTypes, NoTaskFacts
<1>9. DkUnmade(t)'
  <2>1. dkMade[t].who # LeftOut
    BY <1>8 DEF DkTaskOK, DkUnmade
  <2> QED
    BY <1>2, <1>5, <2>1 DEF DkUnmade
<1>10. DkSelected(t)'
  <2>1. Selects(t, NoTask)'
    BY NoTaskFacts DEF Selects
  <2>2. Selects(t, dkFile[t])' /\ Selects(t, dkRun[t].task)'
    <3>1. Selects(t, next)'
      BY <1>2, <1>4, <1>6, <1>8, SelectsSame, DkTaskTypes DEF DkTaskOK, DkSelected
    <3>2. CASE dkFile'[t] = dkFile[t]
      BY <1>2, <1>7, <1>8, <3>2 DEF DkTaskOK, DkSelected, Selects
    <3>3. CASE dkFile'[t] = next
      BY <1>2, <1>7, <1>8, <3>1, <3>3 DEF DkTaskOK, DkSelected, Selects
    <3> QED
      BY <1>6, <3>2, <3>3
  <2> QED
    BY <1>5, <2>1, <2>2 DEF DkSelected
<1>11. DkGuards(t)'
  <2> SUFFICES ASSUME Fine(t, {"overwritten", "filled late"})'
               PROVE  /\ dkFile'[t].status # "none" => Guarded(t, dkFile[t])'
                      /\ HasRunner(t)' => Guarded(t, dkRun[t].task)'
    BY DEF DkGuards
  <2>1. Fine(t, {"overwritten", "filled late"})
    BY <1>7
  <2>2. HasRunner(t)' => Guarded(t, dkRun[t].task)'
    BY <1>2, <1>8, <2>1 DEF DkTaskOK, DkGuards, Guarded, HasRunner
  <2>3. CASE dkFile'[t] = dkFile[t]
    BY <1>2, <1>8, <2>1, <2>2, <2>3 DEF DkTaskOK, DkGuards, Guarded
  <2>4. CASE dkFile'[t] = next /\ dkFile[t] = dkBegun[t]
    <3>1. Guarded(t, dkBegun[t])
      BY <1>4, <1>8, <2>1, <2>4 DEF DkTaskOK, DkGuards
    <3> QED
      BY <1>2, <1>4, <2>2, <2>4, <3>1, GuardedSame, DkTaskTypes
  <2>5. CASE <<"overwritten", t>> \in dkSpoilt'
    BY <2>5 DEF Fine
  <2> QED
    BY <1>6, <2>2, <2>3, <2>4, <2>5
<1>12. DkRunners(t)'
  <2>1. HasRunner(t)' = HasRunner(t) /\ dkRun' = dkRun
    BY <1>2 DEF HasRunner
  <2>2. CASE dkFile'[t] = dkFile[t]
    BY <1>7, <1>8, <2>1, <2>2 DEF DkTaskOK, DkRunners
  <2>3. CASE dkFile'[t] = next /\ dkFile[t] = dkBegun[t]
    <3>1. HasRunner(t) => ~Fine(t, {"overwritten"})
      BY <1>4, <1>8, <2>3 DEF DkTaskOK, DkRunners
    <3>2. \A why : Fine(t, why \cup {"overwritten"}) => Fine(t, {"overwritten"})
      BY DEF Fine
    <3>3. Fine(t, {"overwritten", "deleted"})' => Fine(t, {"overwritten"})
      BY <1>7, <3>2 DEF Fine
    <3> QED
      BY <1>4, <1>7, <1>8, <2>1, <2>3, <3>1, <3>3 DEF DkTaskOK, DkRunners
  <2>4. CASE dkFile'[t] = next /\ <<"overwritten", t>> \in dkSpoilt'
    <3>1. ~Fine(t, {"overwritten"})' /\ ~Fine(t, {"overwritten", "deleted"})'
      BY <2>4 DEF Fine
    <3> QED
      BY <1>4, <1>8, <2>1, <2>4, <3>1 DEF DkTaskOK, DkRunners
  <2> QED
    BY <1>6, <2>2, <2>3, <2>4
<1>13. DkPassed(t)'
  BY <1>2, <1>7, <1>8 DEF DkTaskOK, DkPassed, HasRunner
<1>14. DkTaskOK(t)'
  BY <1>9, <1>10, <1>11, <1>12, <1>13 DEF DkTaskOK
<1>15. NeedsNobody(t) /\ Fine(t, {"overwritten", "unsaved", "deleted"})' => NeedsNobody(t)'
  <2>1. CASE dkFile'[t] = dkFile[t]
    BY <2>1 DEF NeedsNobody
  <2>2. CASE dkFile[t] = dkBegun[t]
    BY <1>4, <2>2 DEF NeedsNobody
  <2>3. CASE <<"overwritten", t>> \in dkSpoilt'
    BY <2>3 DEF Fine
  <2> QED
    BY <1>6, <2>1, <2>2, <2>3
<1> QED
  BY <1>2, <1>5, <1>6, <1>14, <1>15, DkTaskTypes, DkOneTaskKept

\* A task gets a runner.
LEMMA DkLaunchesKept ==
  ASSUME DkInv, DkLaunches
  PROVE  DkInv'
<1>1. PICK t \in DkTasks :
        /\ dkFile[t].status \in {"pending", "pre_running"} /\ ~HasRunner(t)
        /\ dkFile' = [dkFile EXCEPT ![t].status = "running"]
        /\ dkRun' = [dkRun EXCEPT ![t] = [task |-> dkFile'[t], cancel |-> FALSE]]
        /\ Signal({t}) /\ dkSpoilt' = dkSpoilt \cup (Late \X {t})
  BY DEF DkLaunches
<1>2. /\ dkAgent' = dkAgent /\ dkBegun' = dkBegun /\ dkDel' = dkDel /\ dkMade' = dkMade
      /\ dkDef' = dkDef /\ dkDir' = dkDir /\ dkPage' = dkPage /\ dkTold' = dkTold /\ dkOps' = dkOps + 1
  BY DEF DkLaunches, DefinitionStays, DkOp
<1>3. PICK next : next = [dkFile[t] EXCEPT !.status = "running"]
  OBVIOUS
<1>4. /\ next \in DeskTask /\ next.status = "running" /\ next.nodes = dkFile[t].nodes
      /\ next.off = dkFile[t].off /\ next.done = dkFile[t].done /\ next.who = dkFile[t].who
      /\ next.guard = dkFile[t].guard
  <2>1. dkFile[t] \in DeskTask /\ "running" \in DeskStatus
    BY DkTaskTypes DEF DeskStatus
  <2> QED
    BY <1>3, <2>1, DkTaskStatus
<1>5. /\ dkFile' \in [DkTasks -> DeskTask] /\ dkFile'[t] = next
      /\ \A u \in DkTasks : u # t => dkFile'[u] = dkFile[u]
  BY <1>1, <1>3, <1>4, DkTaskTypes
<1>6. /\ dkRun' \in [DkTasks -> [task : DeskTask, cancel : BOOLEAN]] /\ dkRun'[t].task = next
      /\ \A u \in DkTasks : u # t => dkRun'[u] = dkRun[u]
  BY <1>1, <1>4, <1>5, DkTaskTypes
<1>7. dkSpoilt \subseteq dkSpoilt' /\ (dkDel # NoDeletion => <<"deleted", t>> \in dkSpoilt')
  BY <1>1 DEF Late
<1>8. \A why : Fine(t, why)' => Fine(t, why)
  BY <1>7, FineBefore
<1>9. DkTaskOK(t) /\ dkFile[t] # NoTask /\ dkMade[t].who # LeftOut /\ dkFile[t].status # "none"
  BY <1>1, DkTaskTypes, NoTaskFacts DEF DkTaskOK, DkUnmade
<1>10. DkUnmade(t)'
  BY <1>2, <1>9 DEF DkTaskOK, DkUnmade
<1>11. DkSelected(t)'
  <2>1. Selects(t, next)'
    BY <1>2, <1>4, <1>7, <1>9, SelectsSame, DkTaskTypes DEF DkTaskOK, DkSelected
  <2>2. Selects(t, dkBegun[t])'
    BY <1>2, <1>8, <1>9 DEF DkTaskOK, DkSelected, Selects
  <2> QED
    BY <1>5, <1>6, <2>1, <2>2 DEF DkSelected
<1>12. DkGuards(t)'
  <2>1. ASSUME Fine(t, {"overwritten", "filled late"})' PROVE Guarded(t, next)'
    <3>1. Guarded(t, dkFile[t])
      BY <1>8, <1>9, <2>1 DEF DkTaskOK, DkGuards
    <3> QED
      BY <1>2, <1>4, <3>1, GuardedSame, DkTaskTypes
  <2> QED
    BY <1>5, <1>6, <2>1 DEF DkGuards
<1>13. DkRunners(t)'
  <2>1. HasRunner(t)'
    BY <1>4, <1>6, NoTaskFacts DEF HasRunner
  <2> QED
    BY <1>4, <1>5, <1>6, <2>1 DEF DkRunners
<1>14. DkPassed(t)'
  <2>1. dkDel # NoDeletion => ~Fine(t, {"overwritten", "deleted"})'
    BY <1>7 DEF Fine
  <2> QED
    BY <1>2, <1>8, <1>9, <2>1 DEF DkTaskOK, DkPassed
<1>15. DkTaskOK(t)'
  BY <1>10, <1>11, <1>12, <1>13, <1>14 DEF DkTaskOK
<1> QED
  BY <1>1, <1>2, <1>5, <1>6, <1>7, <1>15, DkTaskTypes, DkOneTaskKept

\* A task is stopped: by its runner, which is told to, or on disk.
LEMMA DkStopsKept ==
  ASSUME DkInv, DkStops
  PROVE  DkInv'
<1>1. /\ dkAgent' = dkAgent /\ dkBegun' = dkBegun /\ dkDel' = dkDel /\ dkMade' = dkMade /\ dkSpoilt' = dkSpoilt
      /\ dkDef' = dkDef /\ dkDir' = dkDir /\ dkPage' = dkPage /\ dkTold' = dkTold /\ dkOps' = dkOps + 1
  BY DEF DkStops, DefinitionStays, DkOp
<1>2. PICK t \in DkTasks :
        \/ HasRunner(t) /\ dkRun' = [dkRun EXCEPT ![t].cancel = TRUE] /\ dkFile' = dkFile /\ dkWait' = dkWait
        \/ /\ ~HasRunner(t) /\ dkFile[t].status \in {"pending", "pre_running", "running"}
           /\ dkFile' = [dkFile EXCEPT ![t] = StoppedIdle(t)]
           /\ Signal(IF dkFile[t].status = "pending" THEN {} ELSE {t}) /\ dkRun' = dkRun
  BY DEF DkStops
<1>3. DkTaskOK(t)
  BY DkTaskTypes
<1>4. \A why : Fine(t, why)' = Fine(t, why)
  BY <1>1 DEF Fine
<1>5. CASE HasRunner(t) /\ dkRun' = [dkRun EXCEPT ![t].cancel = TRUE] /\ dkFile' = dkFile /\ dkWait' = dkWait
  <2>1. /\ dkRun' \in [DkTasks -> [task : DeskTask, cancel : BOOLEAN]]
        /\ dkRun'[t].task = dkRun[t].task /\ dkRun'[t].cancel = TRUE
        /\ \A u \in DkTasks : u # t => dkRun'[u] = dkRun[u]
    BY <1>5, DkTaskTypes
  <2>2. HasRunner(t)'
    BY <2>1, NoTaskFacts DEF HasRunner
  <2>3. dkFile[t].status # "none" => Guarded(t, dkFile[t])' = Guarded(t, dkFile[t])
    BY <1>1, <1>5 DEF Guarded
  <2>4. Guarded(t, dkRun[t].task)' = Guarded(t, dkRun[t].task)
    BY <1>1, <2>1 DEF Guarded
  <2>5. DkUnmade(t)'
    BY <1>1, <1>3, <1>5 DEF DkTaskOK, DkUnmade, HasRunner
  <2>6. DkSelected(t)'
    BY <1>1, <1>3, <1>4, <1>5, <2>1 DEF DkTaskOK, DkSelected, Selects
  <2>7. DkGuards(t)'
    BY <1>3, <1>4, <1>5, <2>2, <2>3, <2>4 DEF DkTaskOK, DkGuards
  <2>8. DkRunners(t)'
    BY <1>3, <1>4, <1>5, <2>1, <2>2 DEF DkTaskOK, DkRunners
  <2>9. DkPassed(t)'
    BY <1>1, <1>3, <1>4, <1>5 DEF DkTaskOK, DkPassed
  <2>10. DkTaskOK(t)'
    BY <2>5, <2>6, <2>7, <2>8, <2>9 DEF DkTaskOK
  <2>11. NeedsNobody(t) => NeedsNobody(t)'
    BY <1>5 DEF NeedsNobody
  <2> QED
    BY <1>1, <1>5, <2>1, <2>10, <2>11, DkTaskTypes, DkOneTaskKept
<1>6. CASE /\ ~HasRunner(t) /\ dkFile[t].status \in {"pending", "pre_running", "running"}
           /\ dkFile' = [dkFile EXCEPT ![t] = StoppedIdle(t)]
           /\ Signal(IF dkFile[t].status = "pending" THEN {} ELSE {t}) /\ dkRun' = dkRun
  <2>1. PICK next \in DeskTask :
          /\ next = StoppedIdle(t)
          /\ \/ next = NoTask /\ dkFile[t].status = "pending"
             \/ /\ next.status = "stopped" /\ next.nodes = dkFile[t].nodes /\ next.off = dkFile[t].off
                /\ next.done = dkFile[t].done /\ next.who = dkFile[t].who /\ next.guard = dkFile[t].guard
    <3>1. CASE dkFile[t].status = "pending"
      BY <3>1, NoTaskFacts DEF StoppedIdle
    <3>2. CASE dkFile[t].status \in {"pre_running", "running"}
      <4>1. StoppedIdle(t) = [dkFile[t] EXCEPT !.status = "stopped"]
        BY <3>2 DEF StoppedIdle
      <4>2. "stopped" \in DeskStatus /\ dkFile[t] \in DeskTask
        BY DkTaskTypes DEF DeskStatus
      <4> QED
        BY <4>1, <4>2, DkTaskStatus
    <3> QED
      BY <1>6, <3>1, <3>2
  <2>2. /\ dkFile' \in [DkTasks -> DeskTask] /\ dkFile'[t] = next
        /\ \A u \in DkTasks : u # t => dkFile'[u] = dkFile[u]
    BY <1>6, <2>1, DkTaskTypes
  <2>3. ~HasRunner(t)' /\ dkFile[t].status # "none" /\ dkFile[t] # NoTask
    BY <1>6, NoTaskFacts DEF HasRunner
  <2>4. DkUnmade(t)'
    BY <1>1, <1>3, <2>3 DEF DkTaskOK, DkUnmade
  <2>5. DkSelected(t)'
    <3>1. Selects(t, NoTask)'
      BY NoTaskFacts DEF Selects
    <3>2. next.status = "stopped" /\ next.nodes = dkFile[t].nodes /\ next.off = dkFile[t].off
            /\ next.done = dkFile[t].done => Selects(t, next)'
      BY <1>1, <1>3, <2>3, SelectsSame, DkTaskTypes DEF DkTaskOK, DkSelected
    <3>3. Selects(t, dkBegun[t])' /\ Selects(t, dkRun[t].task)'
      BY <1>1, <1>3, <1>4, <1>6 DEF DkTaskOK, DkSelected, Selects
    <3> QED
      BY <2>1, <2>2, <3>1, <3>2, <3>3 DEF DkSelected
  <2>6. DkGuards(t)'
    <3>1. ASSUME Fine(t, {"overwritten", "filled late"})', next.status # "none" PROVE Guarded(t, next)'
      <4>1. Guarded(t, dkFile[t])
        BY <1>3, <1>4, <2>3, <3>1 DEF DkTaskOK, DkGuards
      <4>2. next.status = "stopped" /\ next.who = dkFile[t].who /\ next.guard = dkFile[t].guard
        BY <2>1, <3>1, NoTaskFacts
      <4> QED
        BY <1>1, <4>1, <4>2, GuardedSame, DkTaskTypes
    <3> QED
      BY <2>2, <2>3, <3>1 DEF DkGuards
  <2>7. DkRunners(t)'
    BY <2>1, <2>2, <2>3, NoTaskFacts DEF DkRunners
  <2>8. DkPassed(t)'
    BY <1>1, <1>3, <1>4, <2>3 DEF DkTaskOK, DkPassed
  <2>9. DkTaskOK(t)'
    BY <2>4, <2>5, <2>6, <2>7, <2>8 DEF DkTaskOK
  <2>10. Signal({t}) \/ (Signal({}) /\ ~NeedsNobody(t))
    BY <1>6 DEF NeedsNobody
  <2> QED
    BY <1>1, <1>6, <2>2, <2>9, <2>10, DkTaskTypes, DkOneTaskKept
<1> QED
  BY <1>2, <1>5, <1>6

-----------------------------------------------------------------------------
(***************************************************************************)
(* TaskDesk: a task's runner.                                              *)
(***************************************************************************)
\* What a runner writes is the task as it has it, further on or over.
LEMMA DkWritesKept ==
  ASSUME DkInv, NEW t \in DkTasks, HasRunner(t), NEW next \in DeskTask,
         next.nodes = dkRun[t].task.nodes, next.off = dkRun[t].task.off,
         next.who = dkRun[t].task.who, next.guard = dkRun[t].task.guard,
         next.done \subseteq next.nodes \ next.off,
         next.status \in {"running", "failed", "completed", "stopped"},
         next.status = "completed" => next.done = next.nodes \ next.off,
         next.status = "failed" => (Guarded(t, dkRun[t].task) => dkAgent[next.guard.agent] > next.guard.at),
         Writes(t, next),
         dkRun' \in [DkTasks -> [task : DeskTask, cancel : BOOLEAN]],
         \A u \in DkTasks : u # t => dkRun'[u] = dkRun[u],
         next.status = "running" => dkRun'[t].task = next,
         next.status # "running" => dkRun'[t] = NotDone,
         dkAgent' = dkAgent, dkBegun' = dkBegun, dkDel' = dkDel, dkMade' = dkMade, dkSpoilt' = dkSpoilt,
         dkDef' = dkDef, dkPage' = dkPage, dkTold' = dkTold, dkOps' \in {dkOps, dkOps + 1}
  PROVE  DkInv'
<1>1. /\ dkFile' = [dkFile EXCEPT ![t] = next] /\ dkDir' = TRUE /\ Signal({t})
  BY DEF Writes
<1>2. /\ dkFile' \in [DkTasks -> DeskTask] /\ dkFile'[t] = next
      /\ \A u \in DkTasks : u # t => dkFile'[u] = dkFile[u]
  BY <1>1, DkTaskTypes
<1>3. DkTaskOK(t)
  BY DkTaskTypes
<1>4. \A why : Fine(t, why)' = Fine(t, why)
  BY DEF Fine
<1>5. dkRun[t].task.status = "running" /\ dkMade[t].who # LeftOut
  BY <1>3 DEF DkTaskOK, DkRunners, DkUnmade, HasRunner
<1>6. HasRunner(t)' => next.status = "running" /\ dkRun'[t].task = next
  BY DEF HasRunner
<1>7. DkUnmade(t)'
  BY <1>3, <1>5 DEF DkTaskOK, DkUnmade
<1>8. DkSelected(t)'
  <2>1. Selects(t, next)'
    BY <1>3, <1>4, <1>5 DEF DkTaskOK, DkSelected, Selects
  <2>2. Selects(t, NoTask)'
    BY NoTaskFacts DEF Selects
  <2>3. Selects(t, dkRun[t].task)'
    BY <2>1, <2>2, NoTaskFacts
  <2>4. Selects(t, dkBegun[t])'
    BY <1>3, <1>4 DEF DkTaskOK, DkSelected, Selects
  <2> QED
    BY <1>2, <2>1, <2>3, <2>4 DEF DkSelected
<1>9. DkGuards(t)'
  <2>1. ASSUME Fine(t, {"overwritten", "filled late"})' PROVE Guarded(t, next)'
    <3>1. Guarded(t, dkRun[t].task)
      BY <1>3, <1>4, <2>1 DEF DkTaskOK, DkGuards
    <3>2. CASE next.status = "failed"
      BY <3>1, <3>2 DEF Guarded, Named
    <3>3. CASE next.status # "failed"
      BY <3>1, <3>3, GuardedSame, DkTaskTypes
    <3> QED
      BY <3>2, <3>3
  <2> QED
    BY <1>2, <1>6, <2>1 DEF DkGuards
<1>10. DkRunners(t)'
  <2>1. next.status = "running" => HasRunner(t)'
    BY NoTaskFacts DEF HasRunner
  <2> QED
    BY <1>2, <1>6, <2>1 DEF DkRunners
<1>11. DkPassed(t)'
  BY <1>3, <1>4 DEF DkTaskOK, DkPassed
<1>12. DkTaskOK(t)'
  BY <1>7, <1>8, <1>9, <1>10, <1>11 DEF DkTaskOK
<1> QED
  BY <1>1, <1>2, <1>12, DkTaskTypes, DkOneTaskKept

LEMMA DkNodeKept ==
  ASSUME DkInv, DkNode
  PROVE  DkInv'
<1>0. PICK t \in DkTasks : \E n \in Executable(t) \ dkRun[t].task.done : \E next :
        /\ next = IF n = DkAgentNode /\ ~SameAgent(dkRun[t].task)
                  THEN [dkRun[t].task EXCEPT !.status = "failed"] ELSE [dkRun[t].task EXCEPT !.done = @ \cup {n}]
        /\ HasRunner(t) /\ Writes(t, next)
        /\ dkRun' = [dkRun EXCEPT ![t] = IF next.status = "failed" THEN NotDone ELSE [@ EXCEPT !.task = next]]
  BY DEF DkNode
<1>1. PICK n, next :
        /\ n \in Executable(t) \ dkRun[t].task.done
        /\ next = IF n = DkAgentNode /\ ~SameAgent(dkRun[t].task)
                  THEN [dkRun[t].task EXCEPT !.status = "failed"] ELSE [dkRun[t].task EXCEPT !.done = @ \cup {n}]
        /\ HasRunner(t) /\ Writes(t, next)
        /\ dkRun' = [dkRun EXCEPT ![t] = IF next.status = "failed" THEN NotDone ELSE [@ EXCEPT !.task = next]]
  BY <1>0
<1>2. /\ dkAgent' = dkAgent /\ dkBegun' = dkBegun /\ dkDel' = dkDel /\ dkMade' = dkMade /\ dkSpoilt' = dkSpoilt
      /\ dkDef' = dkDef /\ dkPage' = dkPage /\ dkTold' = dkTold /\ dkOps' = dkOps
  BY DEF DkNode, DkFree
<1>3. PICK task \in DeskTask : task = dkRun[t].task
  BY DkTaskTypes
<1>4. task.status = "running" /\ task.done \subseteq task.nodes \ task.off /\ n \in task.nodes \ task.off
  BY <1>1, <1>3, DkTaskTypes DEF DkTaskOK, DkRunners, DkSelected, Selects, Executable
<1>5. /\ next \in DeskTask /\ next.nodes = task.nodes /\ next.off = task.off
      /\ next.who = task.who /\ next.guard = task.guard /\ next.done \subseteq next.nodes \ next.off
      /\ next.status \in {"running", "failed"}
      /\ next.status = "failed" => ~SameAgent(task)
  <2>1. CASE n = DkAgentNode /\ ~SameAgent(task)
    <3>1. next = [task EXCEPT !.status = "failed"] /\ "failed" \in DeskStatus
      BY <1>1, <1>3, <2>1 DEF DeskStatus
    <3> QED
      BY <1>4, <2>1, <3>1, DkTaskStatus, ZenonT(90)
  <2>2. CASE ~(n = DkAgentNode /\ ~SameAgent(task))
    <3>1. next = [task EXCEPT !.done = task.done \cup {n}]
      BY <1>1, <1>3, <2>2
    <3> QED
      BY <1>4, <3>1 DEF DeskTask, DeskNodes
  <2> QED
    BY <2>1, <2>2
<1>6. next.status = "failed" => (Guarded(t, task) => dkAgent[next.guard.agent] > next.guard.at)
  <2> SUFFICES ASSUME ~SameAgent(task), Guarded(t, task) PROVE dkAgent[task.guard.agent] > task.guard.at
    BY <1>5
  <2>1. task.guard.agent = Named(task.who) /\ task.guard.at <= dkAgent[task.guard.agent]
    BY DEF Guarded
  <2>2. task.guard = [agent |-> task.guard.agent, at |-> task.guard.at] /\ task.guard.at \in Nat
    BY DEF DeskTask, DeskGuard
  <2>3. task.guard.at # dkAgent[task.guard.agent]
    BY <2>1, <2>2 DEF SameAgent, Frozen
  <2>4. dkAgent[task.guard.agent] \in Nat
    <3>1. Named(task.who) \in DkAgents
      BY DkAssumption DEF Named, DeskTask
    <3> QED
      BY <2>1, <3>1, DkTaskTypes
  <2> QED
    BY <2>1, <2>2, <2>3, <2>4, NatLess
<1>7. /\ dkRun' \in [DkTasks -> [task : DeskTask, cancel : BOOLEAN]]
      /\ \A u \in DkTasks : u # t => dkRun'[u] = dkRun[u]
      /\ next.status = "running" => dkRun'[t].task = next
      /\ next.status # "running" => dkRun'[t] = NotDone
  <2>1. dkRun \in [DkTasks -> [task : DeskTask, cancel : BOOLEAN]]
    BY DkTaskTypes
  <2>2. CASE next.status = "failed"
    <3>1. dkRun' = [dkRun EXCEPT ![t] = NotDone]
      BY <1>1, <2>2
    <3> QED
      BY <2>1, <2>2, <3>1, NoTaskFacts
  <2>3. CASE next.status = "running"
    <3>1. dkRun' = [dkRun EXCEPT ![t].task = next]
      BY <1>1, <2>3
    <3> QED
      BY <1>5, <2>1, <2>3, <3>1
  <2> QED
    BY <1>5, <2>2, <2>3
<1>8. /\ HasRunner(t) /\ Writes(t, next) /\ next.status \in {"running", "failed", "completed", "stopped"}
      /\ next.status = "completed" => next.done = next.nodes \ next.off
      /\ next.nodes = dkRun[t].task.nodes /\ next.off = dkRun[t].task.off
      /\ next.who = dkRun[t].task.who /\ next.guard = dkRun[t].task.guard
  BY <1>1, <1>3, <1>5
<1>9. next.status = "failed" => (Guarded(t, dkRun[t].task) => dkAgent[next.guard.agent] > next.guard.at)
  BY <1>3, <1>6
<1>10. next.status # "running" => dkRun'[t] = NotDone
  BY <1>7
<1>11. next \in DeskTask /\ next.done \subseteq next.nodes \ next.off /\ dkOps' \in {dkOps, dkOps + 1}
  BY <1>2, <1>5
<1> QED
  BY <1>2, <1>7, <1>8, <1>9, <1>10, <1>11, DkWritesKept

LEMMA DkEndKept ==
  ASSUME DkInv, DkEnds \/ DkCancelled
  PROVE  DkInv'
<1>1. PICK t \in DkTasks, status \in {"completed", "stopped"} :
        /\ HasRunner(t) /\ dkRun' = [dkRun EXCEPT ![t] = NotDone]
        /\ status = "completed" => Executable(t) \subseteq dkRun[t].task.done
        /\ \/ Writes(t, [dkRun[t].task EXCEPT !.status = status]) /\ dkSpoilt' = dkSpoilt /\ dkOps' = dkOps
           \/ /\ dkOps' = dkOps + 1 /\ Signal({t}) /\ dkSpoilt' = dkSpoilt \cup ({"unsaved"} \X {t})
              /\ dkFile' = dkFile /\ dkDir' = dkDir
  <2>1. CASE DkEnds
    <3>1. PICK t \in DkTasks :
            /\ HasRunner(t) /\ dkRun' = [dkRun EXCEPT ![t] = NotDone] /\ Executable(t) \subseteq dkRun[t].task.done
            /\ \/ Writes(t, [dkRun[t].task EXCEPT !.status = "completed"]) /\ dkSpoilt' = dkSpoilt /\ dkOps' = dkOps
               \/ /\ dkOps' = dkOps + 1 /\ Signal({t}) /\ dkSpoilt' = dkSpoilt \cup ({"unsaved"} \X {t})
                  /\ dkFile' = dkFile /\ dkDir' = dkDir
      BY <2>1 DEF DkEnds, DkOp, DkFree, Spoils
    <3> QED
      BY <3>1
  <2>2. CASE DkCancelled
    <3>1. PICK t \in DkTasks :
            /\ dkRun[t].cancel /\ Writes(t, [dkRun[t].task EXCEPT !.status = "stopped"])
            /\ dkRun' = [dkRun EXCEPT ![t] = NotDone] /\ dkSpoilt' = dkSpoilt /\ dkOps' = dkOps
      BY <2>2 DEF DkCancelled, DkFree
    <3>2. HasRunner(t)
      BY <3>1, NoTaskFacts DEF HasRunner
    <3> QED
      BY <3>1, <3>2
  <2> QED
    BY <2>1, <2>2
<1>2. /\ dkAgent' = dkAgent /\ dkBegun' = dkBegun /\ dkDel' = dkDel /\ dkMade' = dkMade
      /\ dkDef' = dkDef /\ dkPage' = dkPage /\ dkTold' = dkTold
  <2>1. CASE DkEnds
    BY <2>1 DEF DkEnds
  <2>2. CASE DkCancelled
    BY <2>2 DEF DkCancelled
  <2> QED
    BY <2>1, <2>2
<1>3. /\ dkRun' \in [DkTasks -> [task : DeskTask, cancel : BOOLEAN]] /\ dkRun'[t] = NotDone
      /\ \A u \in DkTasks : u # t => dkRun'[u] = dkRun[u]
  BY <1>1, DkTaskTypes, NoTaskFacts
<1>4. CASE Writes(t, [dkRun[t].task EXCEPT !.status = status]) /\ dkSpoilt' = dkSpoilt /\ dkOps' = dkOps
  <2>1. PICK task \in DeskTask : task = dkRun[t].task
    BY DkTaskTypes
  <2>2. PICK next : next = [task EXCEPT !.status = status]
    OBVIOUS
  <2>3. status \in DeskStatus
    BY DEF DeskStatus
  <2>4. /\ next \in DeskTask /\ next.status = status /\ next.nodes = task.nodes /\ next.off = task.off
        /\ next.who = task.who /\ next.guard = task.guard /\ next.done = task.done
    BY <2>2, <2>3, DkTaskStatus
  <2>5. task.done \subseteq task.nodes \ task.off /\ (status = "completed" => task.done = task.nodes \ task.off)
    BY <1>1, <2>1, DkTaskTypes DEF DkTaskOK, DkSelected, Selects, Executable
  <2> QED
    BY <1>1, <1>2, <1>3, <1>4, <2>1, <2>2, <2>4, <2>5, DkWritesKept, ZenonT(90)
<1>5. CASE /\ dkOps' = dkOps + 1 /\ Signal({t}) /\ dkSpoilt' = dkSpoilt \cup ({"unsaved"} \X {t})
           /\ dkFile' = dkFile /\ dkDir' = dkDir
  <2>1. DkTaskOK(t) /\ ~HasRunner(t)'
    BY <1>3, DkTaskTypes DEF HasRunner
  <2>2. \A why : Fine(t, why)' => Fine(t, why)
    BY <1>5 DEF Fine
  <2>3. ~Fine(t, {"overwritten", "unsaved", "deleted"})'
    BY <1>5 DEF Fine
  <2>4. DkUnmade(t)'
    BY <1>1, <1>2, <1>5, <2>1 DEF DkTaskOK, DkUnmade, HasRunner
  <2>5. DkSelected(t)'
    <3>1. Selects(t, NoTask)'
      BY NoTaskFacts DEF Selects
    <3> QED
      BY <1>2, <1>3, <1>5, <2>1, <2>2, <3>1, NoTaskFacts DEF DkTaskOK, DkSelected, Selects
  <2>6. DkGuards(t)'
    BY <1>2, <1>5, <2>1, <2>2 DEF DkTaskOK, DkGuards, Guarded
  <2>7. DkRunners(t)'
    BY <2>1, <2>3 DEF DkRunners
  <2>8. DkPassed(t)'
    BY <1>1, <1>2, <1>5, <2>1, <2>2 DEF DkTaskOK, DkPassed
  <2>9. DkTaskOK(t)'
    BY <2>4, <2>5, <2>6, <2>7, <2>8 DEF DkTaskOK
  <2>10. dkDir' \in BOOLEAN /\ dkSpoilt \subseteq dkSpoilt'
    BY <1>5, DkTaskTypes
  <2> QED
    BY <1>2, <1>3, <1>5, <2>9, <2>10, DkTaskTypes, DkOneTaskKept
<1> QED
  BY <1>1, <1>4, <1>5

-----------------------------------------------------------------------------
(***************************************************************************)
(* TaskDesk: agents change, a workflow is deleted, an agent waits.         *)
(***************************************************************************)
LEMMA NatMonotone == \A m, n \in Nat : (n <= m => n <= m + 1) /\ (m > n => m + 1 > n) /\ m + 1 \in Nat
OBVIOUS

LEMMA DkAgentChangesKept ==
  ASSUME DkInv, DkAgentChanges
  PROVE  DkInv'
<1>1. PICK a \in DkAgents : dkAgent' = [dkAgent EXCEPT ![a] = @ + 1]
  BY DEF DkAgentChanges
<1>2. /\ dkFile' = dkFile /\ dkRun' = dkRun /\ dkBegun' = dkBegun /\ dkDel' = dkDel /\ dkWait' = dkWait
      /\ dkMade' = dkMade /\ dkSpoilt' = dkSpoilt
      /\ dkDef' = dkDef /\ dkDir' = dkDir /\ dkPage' = dkPage /\ dkTold' = dkTold /\ dkOps' = dkOps + 1
  BY DEF DkAgentChanges, DefinitionStays, DkOp
<1>3. dkAgent \in [DkAgents -> Nat] /\ dkOps \in Nat
  BY DEF DkInv, DkTypes
<1>4. /\ dkAgent' \in [DkAgents -> Nat]
      /\ \A b \in DkAgents : dkAgent'[b] = dkAgent[b] \/ dkAgent'[b] = dkAgent[b] + 1
  BY <1>1, <1>3, NatMonotone
<1>5. dkOps' \in Nat
  BY <1>2, <1>3
<1>6. DkTypes'
  BY <1>2, <1>4, <1>5 DEF DkInv, DkTypes
<1>7. DkNumbers' /\ SchemesKept'
  BY <1>2, DkDefinitionKept
<1>8. DkWaiters'
  BY <1>2 DEF DkInv, DkWaiters, NeedsNobody, Fine
<1>9. ASSUME NEW t \in DkTasks PROVE DkTaskOK(t)'
  <2>1. DkTaskOK(t)
    BY DEF DkInv
  <2>2. ASSUME NEW task \in DeskTask, dkMade[t].who # LeftOut, Guarded(t, task) PROVE Guarded(t, task)'
    <3>1. task.guard.agent \in DkAgents /\ task.guard.at \in Nat
      BY <2>2, DkTaskTypes DEF Guarded, DeskTask, DeskGuard
    <3>2. PICK old \in Nat, now \in Nat, at \in Nat :
            old = dkAgent[task.guard.agent] /\ now = dkAgent'[task.guard.agent] /\ at = task.guard.at
      BY <1>3, <1>4, <3>1
    <3>3. now = old \/ now = old + 1
      BY <1>4, <3>1, <3>2
    <3>4. (at <= old => at <= now) /\ (old > at => now > at)
      <4>1. CASE now = old
        BY <4>1, Zenon
      <4>2. CASE now = old + 1
        BY <4>2, NatMonotone, Zenon
      <4> QED
        BY <3>3, <4>1, <4>2, Zenon
    <3> QED
      BY <1>2, <2>2, <3>2, <3>4, Zenon DEF Guarded
  <2>3. DkUnmade(t)' /\ DkSelected(t)'
    BY <1>2, <2>1 DEF DkTaskOK, DkUnmade, DkSelected, Selects, Fine
  <2>4. DkGuards(t)'
    <3>1. dkFile[t].status # "none" => dkMade[t].who # LeftOut
      BY <2>1, NoTaskFacts DEF DkTaskOK, DkUnmade
    <3>2. HasRunner(t) => dkMade[t].who # LeftOut
      BY <2>1 DEF DkTaskOK, DkUnmade, HasRunner
    <3>3. HasRunner(t)' = HasRunner(t) /\ \A why : Fine(t, why)' = Fine(t, why)
      BY <1>2 DEF HasRunner, Fine
    <3> QED
      BY <1>2, <2>1, <2>2, <3>1, <3>2, <3>3, DkTaskTypes DEF DkTaskOK, DkGuards
  <2>5. DkRunners(t)' /\ DkPassed(t)'
    BY <1>2, <2>1 DEF DkTaskOK, DkRunners, DkPassed, HasRunner, Fine
  <2> QED
    BY <2>3, <2>4, <2>5 DEF DkTaskOK
<1> QED
  BY <1>2, <1>6, <1>7, <1>8, <1>9 DEF DkInv

\* A deletion stops what needs no waiting for, up to the first task it waits for.
LEMMA DkStopsOneKept ==
  ASSUME DkInv, NEW ts \in SUBSET DkTasks, DkStopsOne(ts),
         \A u \in DkTasks : HasRunner(u) /\ Fine(u, {"overwritten", "deleted"}) => u \in ts,
         dkPage' = dkPage, dkAgent' = dkAgent, dkBegun' = dkBegun, dkMade' = dkMade, dkOps' \in {dkOps, dkOps + 1}
  PROVE  DkInv'
<1>1. PICK on \in Lowest(ToAwait(ts)) :
        LET idle == {t \in ts : t < on /\ dkFile[t].status = "running"}
        IN /\ Signal(idle) /\ dkFile' = [t \in DkTasks |-> IF t \in idle THEN StoppedIdle(t) ELSE dkFile[t]]
           /\ dkRun' = [dkRun EXCEPT ![on].cancel = TRUE] /\ dkDel' = [on |-> on, left |-> {t \in ts : t > on}]
           /\ UNCHANGED <<dkDef, dkDir, dkTold, dkSpoilt>>
  BY DEF DkStopsOne
<1>2. PICK idle : idle = {t \in ts : t < on /\ dkFile[t].status = "running"}
  OBVIOUS
<1>3. /\ Signal(idle) /\ dkFile' = [t \in DkTasks |-> IF t \in idle THEN StoppedIdle(t) ELSE dkFile[t]]
      /\ dkRun' = [dkRun EXCEPT ![on].cancel = TRUE] /\ dkDel' = [on |-> on, left |-> {t \in ts : t > on}]
      /\ dkDef' = dkDef /\ dkDir' = dkDir /\ dkTold' = dkTold /\ dkSpoilt' = dkSpoilt
  BY <1>1, <1>2
<1>4. on \in ts /\ on \in DkTasks /\ dkFile[on].status = "running" /\ HasRunner(on) /\ \A u \in ToAwait(ts) : on <= u
  BY DEF Lowest, ToAwait
<1>5. \A u \in DkTasks : u \in Nat
  BY DkAssumption
<1>6. \A u \in idle : u \in ts /\ dkFile[u].status = "running" /\ ~HasRunner(u) /\ u # on
  <2> SUFFICES ASSUME NEW u \in idle PROVE u \in ts /\ dkFile[u].status = "running" /\ ~HasRunner(u) /\ u # on
    OBVIOUS
  <2>1. u \in ts /\ dkFile[u].status = "running" /\ u < on /\ u \in Nat /\ on \in Nat
    BY <1>2, <1>4, <1>5
  <2>2. ~(on <= u) /\ u # on
    BY <2>1
  <2> QED
    BY <1>4, <2>1, <2>2 DEF ToAwait
<1>7. ASSUME NEW u \in DkTasks, HasRunner(u), Fine(u, {"overwritten", "deleted"}), u # on PROVE u \in dkDel'.left
  <2>1. u \in ts /\ dkFile[u].status = "running"
    BY <1>7, DkTaskTypes DEF DkTaskOK, DkRunners
  <2>2. on <= u
    BY <1>4, <1>7, <2>1 DEF ToAwait
  <2>3. u > on
    BY <1>4, <1>5, <1>7, <2>2, NatLess
  <2> QED
    BY <1>3, <2>1, <2>3
<1>8. /\ dkRun' \in [DkTasks -> [task : DeskTask, cancel : BOOLEAN]] /\ dkRun'[on].task = dkRun[on].task
      /\ dkRun'[on].cancel = TRUE /\ \A u \in DkTasks : u # on => dkRun'[u] = dkRun[u]
  BY <1>3, <1>4, DkTaskTypes
<1>9. /\ \A u \in DkTasks : (HasRunner(u)' <=> HasRunner(u)) /\ dkRun'[u].task = dkRun[u].task
  BY <1>4, <1>8, NoTaskFacts DEF HasRunner
<1>10. \A u, why : Fine(u, why)' = Fine(u, why)
  BY <1>3 DEF Fine
<1>11. ASSUME NEW u \in idle
       PROVE  /\ dkFile'[u] \in DeskTask /\ dkFile'[u].status = "stopped" /\ dkFile'[u].nodes = dkFile[u].nodes
              /\ dkFile'[u].off = dkFile[u].off /\ dkFile'[u].done = dkFile[u].done
              /\ dkFile'[u].who = dkFile[u].who /\ dkFile'[u].guard = dkFile[u].guard
  <2>1. u \in DkTasks /\ dkFile'[u] = StoppedIdle(u)
    BY <1>3, <1>6
  <2>2. StoppedIdle(u) = [dkFile[u] EXCEPT !.status = "stopped"]
    BY <1>6 DEF StoppedIdle
  <2>3. PICK task \in DeskTask : task = dkFile[u]
    BY <2>1, DkTaskTypes
  <2>4. PICK next : next = [task EXCEPT !.status = "stopped"]
    OBVIOUS
  <2>5. /\ next \in DeskTask /\ next.status = "stopped" /\ next.nodes = task.nodes /\ next.off = task.off
        /\ next.done = task.done /\ next.who = task.who /\ next.guard = task.guard
    BY <2>4, DkTaskStatus DEF DeskStatus
  <2>6. dkFile'[u] = next
    BY <2>1, <2>2, <2>3, <2>4
  <2> QED
    BY <2>3, <2>5, <2>6
<1>12. \A u \in DkTasks : u \notin idle => dkFile'[u] = dkFile[u]
  BY <1>3
<1>13. dkFile' \in [DkTasks -> DeskTask]
  <2>1. \A u \in DkTasks : (IF u \in idle THEN StoppedIdle(u) ELSE dkFile[u]) \in DeskTask
    BY <1>3, <1>11, DkTaskTypes
  <2> QED
    BY <1>3, <2>1
<1>14. ASSUME NEW u \in DkTasks PROVE DkTaskOK(u)'
  <2>1. DkTaskOK(u)
    BY DkTaskTypes
  <2>2. CASE u \in idle
    <3>1. dkFile[u].status # "none" /\ dkFile[u].status = "running" /\ dkFile[u] # NoTask /\ dkMade[u].who # LeftOut
      BY <1>6, <2>1, <2>2, NoTaskFacts DEF DkTaskOK, DkUnmade
    <3>2. ~HasRunner(u) /\ ~HasRunner(u)' /\ dkRun'[u] = dkRun[u]
      BY <1>6, <1>8, <1>9, <2>2
    <3>3. PICK next \in DeskTask :
            /\ next = dkFile'[u] /\ next.status = "stopped" /\ next.nodes = dkFile[u].nodes /\ next.off = dkFile[u].off
            /\ next.done = dkFile[u].done /\ next.who = dkFile[u].who /\ next.guard = dkFile[u].guard
      BY <1>11, <2>2
    <3>4. DkUnmade(u)'
      BY <2>1, <3>1 DEF DkTaskOK, DkUnmade
    <3>5. DkSelected(u)'
      <4>1. Selects(u, next)'
        <5>1. Selects(u, dkFile[u])
          BY <2>1 DEF DkTaskOK, DkSelected
        <5> QED
          BY <1>3, <3>1, <3>3, <5>1, SelectsSame, DkTaskTypes
      <4>2. Selects(u, dkBegun[u])' /\ Selects(u, dkRun[u].task)'
        BY <1>10, <2>1, <3>2 DEF DkTaskOK, DkSelected, Selects
      <4> QED
        BY <3>3, <4>1, <4>2 DEF DkSelected
    <3>6. DkGuards(u)'
      <4>1. ASSUME Fine(u, {"overwritten", "filled late"}) PROVE Guarded(u, next)'
        <5>1. Guarded(u, dkFile[u])
          BY <2>1, <3>1, <4>1 DEF DkTaskOK, DkGuards
        <5> QED
          BY <1>3, <3>3, <5>1, GuardedSame, DkTaskTypes
      <4> QED
        BY <1>10, <3>2, <3>3, <4>1 DEF DkGuards
    <3>7. DkRunners(u)'
      BY <1>11, <2>2, <3>2 DEF DkRunners
    <3>8. DkPassed(u)'
      BY <1>3, <1>10, <2>1, <3>1, <3>2 DEF DkTaskOK, DkPassed
    <3> QED
      BY <3>4, <3>5, <3>6, <3>7, <3>8 DEF DkTaskOK
  <2>3. CASE u \notin idle
    <3>1. dkFile'[u] = dkFile[u] /\ (HasRunner(u)' <=> HasRunner(u)) /\ dkRun'[u].task = dkRun[u].task
      BY <1>9, <1>12, <2>3
    <3>2. DkUnmade(u)'
      BY <2>1, <3>1 DEF DkTaskOK, DkUnmade, HasRunner
    <3>3. DkSelected(u)'
      BY <1>10, <2>1, <3>1 DEF DkTaskOK, DkSelected, Selects
    <3>4. DkGuards(u)'
      BY <1>10, <2>1, <3>1 DEF DkTaskOK, DkGuards, Guarded
    <3>5. DkRunners(u)'
      BY <1>10, <2>1, <3>1 DEF DkTaskOK, DkRunners
    <3>6. DkPassed(u)'
      <4>1. dkDef' = NoDef /\ Fine(u, {"deleted", "overwritten"})' =>
              dkFile'[u] = NoTask /\ ~HasRunner(u)' /\ dkBegun'[u] = NoTask
        BY <1>3, <1>10, <2>1, <3>1 DEF DkTaskOK, DkPassed
      <4>2. u \notin dkDel'.left \cup {dkDel'.on} /\ Fine(u, {"overwritten", "deleted"})' => ~HasRunner(u)'
        BY <1>3, <1>7, <1>10, <3>1
      <4> QED
        BY <4>1, <4>2 DEF DkPassed
    <3> QED
      BY <3>2, <3>3, <3>4, <3>5, <3>6 DEF DkTaskOK
  <2> QED
    BY <2>2, <2>3
<1>15. DkWaiters' /\ dkWait' \in [on : DkTasks \cup {0}, woken : BOOLEAN]
  <2>1. dkWait' = dkWait \/ (dkWait.on \in DkTasks /\ dkWait' = [dkWait EXCEPT !.woken = TRUE])
    BY <1>3, <1>6 DEF Signal
  <2>2. ASSUME NEW t \in DkTasks, t = dkWait.on, dkWait' = dkWait, NeedsNobody(t) PROVE NeedsNobody(t)' \/ dkWait.woken
    <3>1. CASE t \in idle
      <4>1. dkWait = [dkWait EXCEPT !.woken = TRUE]
        BY <1>3, <2>2, <3>1 DEF Signal
      <4> QED
        BY <4>1 DEF DkInv, DkTypes
    <3>2. CASE t \notin idle
      BY <1>12, <2>2, <3>2 DEF NeedsNobody
    <3> QED
      BY <3>1, <3>2
  <2> QED
    BY <1>3, <2>1, <2>2, DkWaitersKept
<1>16. DkNumbers' /\ SchemesKept'
  BY <1>3, DkDefinitionKept
<1>17. dkDel' \in [on : DkTasks \cup {0}, left : SUBSET DkTasks] /\ dkDel'.on # 0
  BY <1>3, <1>4, DkAssumption
<1>18. DkTypes'
  BY <1>3, <1>8, <1>13, <1>15, <1>17 DEF DkInv, DkTypes
<1> QED
  BY <1>14, <1>15, <1>16, <1>17, <1>18 DEF DkInv

\* A deletion that waits for nobody leaves nothing behind.
LEMMA DkRemovesKept ==
  ASSUME DkInv, NEW ts \in SUBSET DkTasks, DkRemoves(ts),
         \A u \in DkTasks : HasRunner(u) /\ Fine(u, {"overwritten", "deleted"}) => u \in ts,
         dkPage' = dkPage, dkAgent' = dkAgent, dkBegun' = dkBegun, dkMade' = dkMade, dkOps' \in {dkOps, dkOps + 1}
  PROVE  DkInv'
<1>1. PICK over : over = {t \in ts : dkFile[t].status = "running"}
  OBVIOUS
<1>2. /\ ToAwait(ts) = {} /\ Signal(over) /\ dkFile' = [t \in DkTasks |-> NoTask] /\ dkRun' = dkRun
      /\ dkDef' = NoDef /\ dkDir' = FALSE /\ dkDel' = NoDeletion /\ dkTold' = {}
      /\ dkSpoilt' = dkSpoilt \cup ({"deleted"} \X {t \in DkTasks : dkBegun[t] # NoTask})
  BY <1>1 DEF DkRemoves, Spoils
<1>3. ASSUME NEW u \in DkTasks, Fine(u, {"overwritten", "deleted"}) PROVE ~HasRunner(u)
  <2> SUFFICES ASSUME HasRunner(u) PROVE FALSE
    OBVIOUS
  <2>1. u \in ts /\ dkFile[u].status = "running"
    BY <1>3, DkTaskTypes DEF DkTaskOK, DkRunners
  <2> QED
    BY <1>2, <2>1 DEF ToAwait
<1>4. /\ \A u, why : Fine(u, why)' => Fine(u, why)
      /\ dkSpoilt \subseteq dkSpoilt' \cup {<<"overwritten", 0>>}
  BY <1>2 DEF Fine
<1>5. \A u : HasRunner(u)' = HasRunner(u)
  BY <1>2 DEF HasRunner
<1>6. ASSUME NEW u \in DkTasks PROVE DkTaskOK(u)'
  <2>1. DkTaskOK(u) /\ dkFile'[u] = NoTask /\ dkFile'[u].status = "none"
    BY <1>2, DkTaskTypes, NoTaskFacts
  <2>2. DkUnmade(u)'
    BY <1>2, <2>1 DEF DkTaskOK, DkUnmade
  <2>3. DkSelected(u)'
    <3>1. Selects(u, NoTask)'
      BY NoTaskFacts DEF Selects
    <3> QED
      BY <1>2, <1>4, <2>1, <3>1 DEF DkTaskOK, DkSelected, Selects
  <2>4. DkGuards(u)'
    BY <1>2, <1>4, <1>5, <2>1 DEF DkTaskOK, DkGuards, Guarded
  <2>5. DkRunners(u)'
    BY <1>2, <1>3, <1>4, <1>5, <2>1 DEF DkTaskOK, DkRunners
  <2>6. DkPassed(u)'
    <3>1. dkBegun[u] # NoTask => ~Fine(u, {"deleted", "overwritten"})'
      BY <1>2 DEF Fine
    <3>2. Fine(u, {"deleted", "overwritten"})' => ~HasRunner(u)'
      BY <1>3, <1>4, <1>5 DEF Fine
    <3> QED
      BY <1>2, <2>1, <3>1, <3>2 DEF DkPassed
  <2> QED
    BY <2>2, <2>3, <2>4, <2>5, <2>6 DEF DkTaskOK
<1>7. DkWaiters' /\ dkWait' \in [on : DkTasks \cup {0}, woken : BOOLEAN]
  <2>1. dkWait' = dkWait \/ (dkWait.on \in DkTasks /\ dkWait' = [dkWait EXCEPT !.woken = TRUE])
    BY <1>1, <1>2 DEF Signal
  <2>2. ASSUME NEW t \in DkTasks, t = dkWait.on, dkWait' = dkWait, NeedsNobody(t),
               Fine(t, {"overwritten", "unsaved", "deleted"})'
        PROVE  NeedsNobody(t)' \/ dkWait.woken
    <3>1. HasRunner(t) /\ dkFile[t].status = "running"
      BY <1>4, <2>2, DkTaskTypes DEF DkTaskOK, DkRunners, NeedsNobody
    <3>2. ~HasRunner(t)
      BY <1>3, <1>4, <2>2 DEF Fine
    <3> QED
      BY <3>1, <3>2
  <2> QED
    BY <1>4, <2>1, <2>2, DkWaitersKept
<1>8. NoDef \in Definition /\ NoDef.schemes = {} /\ dkDel' \in [on : DkTasks \cup {0}, left : SUBSET DkTasks]
  BY <1>2 DEF NoDef, Definition, DeskNodes, NoDeletion
<1>9. DkNumbers' /\ SchemesKept'
  <2>1. dkOps \in Nat /\ \A s \in dkPage.schemes : s[1] \in Nat
    BY DEF DkInv, DkTypes, Definition
  <2>2. Numbered(dkPage.schemes)' /\ Numbered(dkDef.schemes)'
    BY <1>2, <1>8, <2>1 DEF DkInv, DkNumbers, Numbered
  <2> QED
    BY <1>2, <1>8, <2>2 DEF DkNumbers, SchemesKept
<1>10. dkFile' \in [DkTasks -> DeskTask] /\ dkOps' \in Nat
  BY <1>2, NoTaskFacts DEF DkInv, DkTypes
<1>11. DkTypes'
  BY <1>2, <1>7, <1>8, <1>10 DEF DkInv, DkTypes
<1> QED
  BY <1>2, <1>6, <1>7, <1>9, <1>11 DEF DkInv

\* What a deletion still has to look at holds every task with a runner.
LEMMA DkDeletesKept ==
  ASSUME DkInv, DkDeletes
  PROVE  DkInv'
<1>1. dkPage' = dkPage /\ dkAgent' = dkAgent /\ dkBegun' = dkBegun /\ dkMade' = dkMade
  BY DEF DkDeletes
<1>2. CASE DkOp /\ dkDir /\ dkDel = NoDeletion /\ Deletes({t \in DkTasks : dkFile[t].status # "none"})
  <2>1. PICK ts \in SUBSET DkTasks : ts = {t \in DkTasks : dkFile[t].status # "none"}
    OBVIOUS
  <2>2. \A u \in DkTasks : HasRunner(u) /\ Fine(u, {"overwritten", "deleted"}) => u \in ts
    BY <2>1, DkTaskTypes DEF DkTaskOK, DkRunners
  <2>3. dkOps' \in {dkOps, dkOps + 1} /\ (DkStopsOne(ts) \/ DkRemoves(ts))
    BY <1>2, <2>1 DEF DkOp, Deletes
  <2> QED
    BY <1>1, <2>2, <2>3, DkStopsOneKept, DkRemovesKept
<1>3. CASE dkDel # NoDeletion /\ ~HasRunner(dkDel.on) /\ Deletes(dkDel.left) /\ DkFree
  <2>1. PICK ts \in SUBSET DkTasks : ts = dkDel.left
    BY DEF DkInv, DkTypes
  <2>2. \A u \in DkTasks : HasRunner(u) /\ Fine(u, {"overwritten", "deleted"}) => u \in ts
    BY <1>3, <2>1, DkTaskTypes DEF DkTaskOK, DkPassed
  <2>3. dkOps' \in {dkOps, dkOps + 1} /\ (DkStopsOne(ts) \/ DkRemoves(ts))
    BY <1>3, <2>1 DEF DkFree, Deletes
  <2> QED
    BY <1>1, <2>2, <2>3, DkStopsOneKept, DkRemovesKept
<1> QED
  BY <1>2, <1>3 DEF DkDeletes

\* An agent waits, reads its task again, or gives up; or nothing happens.
LEMMA DkWaitingKept ==
  ASSUME DkInv, DkWaits \/ DkReads \/ DkTimesOut \/ UNCHANGED dkVars
  PROVE  DkInv'
<1>1. /\ dkAgent' = dkAgent /\ dkFile' = dkFile /\ dkRun' = dkRun /\ dkBegun' = dkBegun /\ dkDel' = dkDel
      /\ dkMade' = dkMade /\ dkSpoilt' = dkSpoilt /\ dkOps' = dkOps
      /\ dkDef' = dkDef /\ dkDir' = dkDir /\ dkPage' = dkPage /\ dkTold' = dkTold
  BY DEF DkWaits, DkReads, DkTimesOut, DkWaitOnly, DefinitionStays, DkFree, dkVars
<1>2. \/ dkWait' = dkWait \/ dkWait' = NobodyWaits
      \/ \E t \in DkTasks : NeedsNobody(t) /\ dkWait' = [on |-> t, woken |-> FALSE]
      \/ dkWait.woken /\ NeedsNobody(dkWait.on) /\ dkWait' = [dkWait EXCEPT !.woken = FALSE]
  BY DEF DkWaits, DkReads, DkTimesOut, dkVars
<1>3. \A t : NeedsNobody(t)' = NeedsNobody(t)
  BY <1>1 DEF NeedsNobody
<1>4. \A t, why : Fine(t, why)' = Fine(t, why)
  BY <1>1 DEF Fine
<1>5. dkWait \in [on : DkTasks \cup {0}, woken : BOOLEAN]
  BY DEF DkInv, DkTypes
<1>6. DkWaiters' /\ dkWait' \in [on : DkTasks \cup {0}, woken : BOOLEAN]
  <2>1. CASE dkWait' = dkWait
    BY <1>3, <1>4, <1>5, <2>1 DEF DkInv, DkWaiters
  <2>2. CASE dkWait' = NobodyWaits
    BY <2>2 DEF DkWaiters, NobodyWaits
  <2>3. CASE \E t \in DkTasks : NeedsNobody(t) /\ dkWait' = [on |-> t, woken |-> FALSE]
    <3>1. PICK t \in DkTasks : NeedsNobody(t) /\ dkWait' = [on |-> t, woken |-> FALSE]
      BY <2>3
    <3>2. dkWait'.on = t /\ t # 0
      BY <3>1, DkAssumption
    <3> QED
      BY <1>3, <3>1, <3>2 DEF DkWaiters
  <2>4. CASE dkWait.woken /\ NeedsNobody(dkWait.on) /\ dkWait' = [dkWait EXCEPT !.woken = FALSE]
    <3>1. dkWait.on # 0
      BY <2>4 DEF DkInv, DkWaiters, NobodyWaits
    <3>2. dkWait'.on = dkWait.on /\ dkWait' \in [on : DkTasks \cup {0}, woken : BOOLEAN]
      BY <1>5, <2>4
    <3> QED
      BY <1>3, <2>4, <3>1, <3>2 DEF DkWaiters
  <2> QED
    BY <1>2, <2>1, <2>2, <2>3, <2>4
<1>7. \A t \in DkTasks : DkTaskOK(t)'
  BY <1>1, DkTaskKept DEF DkInv
<1>8. DkNumbers' /\ SchemesKept'
  BY <1>1, DkDefinitionKept
<1>9. DkTypes'
  BY <1>1, <1>6 DEF DkInv, DkTypes
<1> QED
  BY <1>1, <1>6, <1>7, <1>8, <1>9 DEF DkInv

-----------------------------------------------------------------------------
(***************************************************************************)
(* TaskDesk: the theorem.                                                  *)
(***************************************************************************)
LEMMA DkInvKept == DkInv /\ [DkNext]_dkVars => DkInv'
<1> SUFFICES ASSUME DkInv, [DkNext]_dkVars PROVE DkInv'
  OBVIOUS
<1>1. CASE DkLoads \/ DkSaves \/ DkCreates
  BY <1>1, DkPageKept
<1>2. CASE DkMakesScheme \/ DkChangesScheme \/ DkDropsScheme
  BY <1>2, DkSchemesKept
<1>3. CASE DkMakesTask \/ DkAttaches \/ DkPreStarts
  BY <1>3, DkMakersKept
<1>4. CASE DkPreStarted
  BY <1>4, DkPreStartedKept
<1>5. CASE DkFills
  BY <1>5, DkFillsKept
<1>6. CASE DkLaunches
  BY <1>6, DkLaunchesKept
<1>7. CASE DkStops
  BY <1>7, DkStopsKept
<1>8. CASE DkNode
  BY <1>8, DkNodeKept
<1>9. CASE DkEnds \/ DkCancelled
  BY <1>9, DkEndKept
<1>10. CASE DkAgentChanges
  BY <1>10, DkAgentChangesKept
<1>11. CASE DkDeletes
  BY <1>11, DkDeletesKept
<1>12. CASE DkWaits \/ DkReads \/ DkTimesOut \/ UNCHANGED dkVars
  BY <1>12, DkWaitingKept
<1> QED
  BY <1>1, <1>2, <1>3, <1>4, <1>5, <1>6, <1>7, <1>8, <1>9, <1>10, <1>11, <1>12 DEF DkNext

LEMMA DkInvShows == DkInv => DeskKept
<1> SUFFICES ASSUME DkInv PROVE DeskKept
  OBVIOUS
<1>1. SchemesKept
  BY DEF DkInv
<1>2. RunsAsMade
  <2> SUFFICES ASSUME NEW t \in DkTasks, dkFile[t].status = "completed", Fine(t, {"stale scheme"})
               PROVE  dkFile[t].done = dkMade[t].nodes
    BY DEF RunsAsMade
  <2> QED
    BY DkTaskTypes DEF DkTaskOK, DkSelected, Selects
<1>3. GuardFits
  <2> SUFFICES ASSUME NEW t \in DkTasks, dkFile[t].status # "none", Fine(t, {"overwritten", "filled late"})
               PROVE  Guarded(t, dkFile[t])
    BY DEF GuardFits, Guarded
  <2> QED
    BY DkTaskTypes DEF DkTaskOK, DkGuards
<1>4. WaitersHear
  <2> SUFFICES ASSUME dkWait # NobodyWaits, ~dkWait.woken, Fine(dkWait.on, {"overwritten", "unsaved", "deleted"})
               PROVE  NeedsNobody(dkWait.on) /\ HasRunner(dkWait.on)
    BY DEF WaitersHear
  <2>1. NeedsNobody(dkWait.on) /\ dkWait.on \in DkTasks
    BY DEF DkInv, DkWaiters, DkTypes
  <2> QED
    BY <2>1, DkTaskTypes DEF DkTaskOK, DkRunners, NeedsNobody
<1>5. DeletedIsGone
  BY DkTaskTypes DEF DeletedIsGone, DkTaskOK, DkPassed
<1> QED
  BY <1>1, <1>2, <1>3, <1>4, <1>5 DEF DeskKept

\* manager.py, main_task_creation.py, runtime_guards.py, tools.py: schemes are as users
\* were told, a task executes what its maker saw selected as the agent it is frozen
\* with, who waits for one hears of its end, and a deleted workflow leaves none behind,
\* whatever users, agents, runners and deletions do in whatever order.
THEOREM DeskSafe == DkSpec => []DeskKept
<1>1. DkInit => DkInv
  BY DkInitInv
<1>2. DkInv /\ [DkNext]_dkVars => DkInv'
  BY DkInvKept
<1>3. DkInv => DeskKept
  BY DkInvShows
<1> QED
  BY <1>1, <1>2, <1>3, PTL DEF DkSpec

-----------------------------------------------------------------------------
(***************************************************************************)
(* Subprocess: the invariant.                                              *)
(***************************************************************************)
SpSpec == SpInit /\ [][SpNext]_spVars

SpParents   == {"pending", "running", "completed", "failed", "skipped"}
SpStatuses  == SpParents \cup {"waiting_approval"}
SpTriggers  == {"initial", "auto_retry", "manual_retry", "validator_retry", "recovery_reissue"}
SpSnapshots == [ver : Nat, choice : SpBranches \cup {"none"}, off : {{}, {"tail"}}]
SpStates ==
  [st : SpParents, trig : SpTriggers, snap : SpSnapshots,
   child : [SpChildren -> [st : SpStatuses, trig : SpTriggers]]]
SpHistories ==
  [begun : SUBSET SpChildren, done : SUBSET SpChildren, again : BOOLEAN, vers : SUBSET Nat]

SpTypes ==
  /\ spMem \in SpStates /\ spDisk \in SpStates /\ spSeen \in SpHistories
  /\ spVer \in Nat /\ spVer # 0 /\ spTorn \in BOOLEAN
  /\ spRun \in [pc : {"rest", "load", "walk", "runs", "fails"}, at : SpChildren \cup {"gateway", "end"}]

\* What the states of the children say is what happened, in memory and on disk.
SpRecorded(s) ==
  /\ s.snap.ver = 0 => s.snap = NoSnapshot /\ s.child = Unrun /\ spSeen = SpUnseen
  /\ s.st = "pending" /\ s.trig = "initial" => s.snap.ver = 0
  /\ \A c \in SpChildren :
       /\ (s.child[c].st = "completed") <=> (c \in spSeen.done)
       /\ s.child[c].st = "skipped" => c \in s.snap.off \/ (c \in SpBranches /\ s.snap.choice # "none" /\ c # s.snap.choice)
  /\ spSeen.done \cap s.snap.off = {}

\* Disk and memory differ by a child whose save failed.
SpOnDisk ==
  \/ spDisk = spMem
  \/ /\ spRun.pc = "fails" /\ spRun.at \in SpChildren /\ spDisk.st = "running" /\ spDisk.snap = spMem.snap
     /\ spDisk.snap.ver # 0

\* One walk: one branch, one version, nothing twice.
SpOneWalk ==
  /\ ~spSeen.again /\ spSeen.vers \subseteq {spMem.snap.ver}
  /\ \A b \in SpBranches : b \in spSeen.begun => b = spMem.snap.choice

\* Where the walk is, and what is behind it.
SpPlaced ==
  /\ (spRun.pc = "rest") <=> (spMem.st # "running")
  /\ spRun.pc = "load" => spRun.at = "head"
  /\ spRun.pc \in {"walk", "runs", "fails"} => spMem.snap.ver # 0
  /\ spRun.pc \in {"walk", "runs"} =>
       /\ spRun.at \in SpBranches => spMem.snap.choice = spRun.at
       /\ spRun.at # "head" => "head" \in spSeen.done
       /\ spRun.at \in {"tail", "end"} => spMem.snap.choice # "none" /\ spMem.snap.choice \in spSeen.done
       /\ spRun.at = "end" => "tail" \in spSeen.done \cup spMem.snap.off
  /\ spRun.pc = "runs" => spRun.at \in SpChildren /\ spRun.at \notin spMem.snap.off \cup spSeen.done
  /\ spMem.st = "completed" =>
       /\ {"head", spMem.snap.choice} \subseteq spSeen.done
       /\ "tail" \in spSeen.done \cup spMem.snap.off

\* Only the child the walk is at runs or waits, unless a save failed.
SpNoneLeft ==
  ~spTorn => \A c \in SpChildren :
               spMem.child[c].st \in {"running", "waiting_approval"} => spRun.pc = "runs" /\ spRun.at = c

SpInv == SpTypes /\ SpRecorded(spMem) /\ SpRecorded(spDisk) /\ SpOnDisk /\ SpOneWalk /\ SpPlaced /\ SpNoneLeft

-----------------------------------------------------------------------------
(***************************************************************************)
(* Subprocess: lemmas.                                                     *)
(***************************************************************************)
LEMMA SpParts ==
  /\ NoSnapshot \in SpSnapshots /\ NoSnapshot.ver = 0 /\ NoSnapshot.off = {} /\ NoSnapshot.choice = "none"
  /\ Unrun \in [SpChildren -> [st : SpStatuses, trig : SpTriggers]] /\ \A c \in SpChildren : Unrun[c].st = "pending"
  /\ SpUnseen \in SpHistories /\ SpUnseen.begun = {} /\ SpUnseen.done = {} /\ SpUnseen.vers = {} /\ ~SpUnseen.again
BY DEF NoSnapshot, SpSnapshots, SpBranches, Unrun, SpChildren, SpStatuses, SpParents, SpTriggers, SpUnseen, SpHistories

LEMMA SpInitInv == SpInit => SpInv
<1> SUFFICES ASSUME SpInit PROVE SpInv
  OBVIOUS
<1>1. /\ spDisk \in SpStates /\ spMem = spDisk /\ spMem.st = "pending" /\ spMem.snap = NoSnapshot /\ spMem.child = Unrun
      /\ spRun.pc = "rest" /\ spRun.at = "head" /\ spSeen = SpUnseen
  BY SpParts DEF SpInit, SpStates, SpParents, SpTriggers
<1>2. SpTypes
  <2>1. spVer \in Nat /\ spVer # 0 /\ spTorn \in BOOLEAN
    <3>1. spVer = 1 /\ spTorn = FALSE
      BY DEF SpInit
    <3>2. 1 \in Nat /\ 1 # 0
      OBVIOUS
    <3> QED
      BY <3>1, <3>2, Zenon
  <2>2. spRun \in [pc : {"rest", "load", "walk", "runs", "fails"}, at : SpChildren \cup {"gateway", "end"}]
    BY DEF SpInit, SpChildren
  <2> QED
    BY <1>1, <2>1, <2>2, SpParts DEF SpTypes
<1>3. SpRecorded(spMem) /\ SpRecorded(spDisk)
  BY <1>1, SpParts DEF SpRecorded
<1>4. SpOnDisk /\ SpOneWalk /\ SpPlaced /\ SpNoneLeft
  BY <1>1, SpParts DEF SpOnDisk, SpOneWalk, SpPlaced, SpNoneLeft
<1> QED
  BY <1>2, <1>3, <1>4 DEF SpInv

\* A child gets another status.
LEMMA SpWithFacts ==
  ASSUME SpInv, NEW c \in SpChildren, NEW st \in SpStatuses
  PROVE  /\ SpWith(c, st) \in SpStates /\ SpWith(c, st).st = spMem.st /\ SpWith(c, st).trig = spMem.trig
         /\ SpWith(c, st).snap = spMem.snap /\ SpWith(c, st).child[c].st = st
         /\ \A d \in SpChildren : d # c => SpWith(c, st).child[d] = spMem.child[d]
BY DEF SpInv, SpTypes, SpStates, SpWith

\* A step of the parent, its children being as they are.
LEMMA SpParentKept ==
  ASSUME SpInv, NEW n \in SpStates, n.snap = spMem.snap, n.child = spMem.child, SpSaved(n),
         n.st = "pending" /\ n.trig = "initial" => n.snap.ver = 0,
         spSeen' = spSeen, spTorn' = spTorn, spVer' = spVer,
         spRun' \in [pc : {"rest", "load", "walk", "runs", "fails"}, at : SpChildren \cup {"gateway", "end"}],
         spRun'.pc # "runs", spRun.pc # "runs" \/ spTorn, SpPlaced'
  PROVE  SpInv'
<1>1. spMem' = n /\ spDisk' = n
  BY DEF SpSaved
<1>2. SpTypes'
  BY <1>1 DEF SpInv, SpTypes
<1>3. SpRecorded(n)'
  BY <1>1 DEF SpInv, SpRecorded
<1>4. SpOnDisk' /\ SpOneWalk' /\ SpNoneLeft'
  BY <1>1 DEF SpInv, SpOnDisk, SpOneWalk, SpNoneLeft
<1> QED
  BY <1>1, <1>2, <1>3, <1>4 DEF SpInv

\* A step of a child the walk is at, that is neither settled nor left out, or that its
\* scheme leaves out.
LEMMA SpChildKept ==
  ASSUME SpInv, NEW c \in SpChildren, NEW st \in SpStatuses, SpSaved(SpWith(c, st)), spMem.st = "running",
         c \notin spSeen.done, spMem.snap.ver # 0,
         st = "skipped" => c \in spMem.snap.off,
         st = "completed" => c \notin spMem.snap.off,
         spSeen' \in SpHistories, spSeen'.done = IF st = "completed" THEN spSeen.done \cup {c} ELSE spSeen.done,
         ~spSeen'.again, spSeen'.vers \subseteq {spMem.snap.ver},
         spSeen'.begun \in {spSeen.begun, spSeen.begun \cup {c}},
         c \in SpBranches => spMem.snap.choice = c,
         spTorn' = spTorn, spVer' = spVer,
         spRun' \in [pc : {"rest", "load", "walk", "runs", "fails"}, at : SpChildren \cup {"gateway", "end"}],
         spRun.pc = "runs" => spRun.at = c,
         st \in {"running", "waiting_approval"} => spRun'.pc = "runs" /\ spRun'.at = c,
         SpPlaced'
  PROVE  SpInv'
<1>1. PICK n \in SpStates : n = SpWith(c, st)
  BY SpWithFacts
<1>2. /\ n.st = "running" /\ n.trig = spMem.trig /\ n.snap = spMem.snap /\ n.child[c].st = st
      /\ \A d \in SpChildren : d # c => n.child[d] = spMem.child[d]
  BY <1>1, SpWithFacts
<1>3. spMem' = n /\ spDisk' = n
  BY <1>1 DEF SpSaved
<1>4. SpTypes'
  BY <1>3 DEF SpInv, SpTypes
<1>5. SpRecorded(n)'
  BY <1>2 DEF SpInv, SpRecorded
<1>6. SpOnDisk' /\ SpOneWalk'
  BY <1>2, <1>3 DEF SpInv, SpOnDisk, SpOneWalk
<1>7. SpNoneLeft'
  BY <1>2, <1>3 DEF SpInv, SpNoneLeft
<1> QED
  BY <1>3, <1>4, <1>5, <1>6, <1>7 DEF SpInv

\* What everything below starts from.
LEMMA SpFacts ==
  ASSUME SpInv
  PROVE  /\ spMem \in SpStates /\ spSeen \in SpHistories /\ spVer \in Nat /\ spVer # 0
         /\ spMem.st \in SpParents /\ spMem.trig \in SpTriggers /\ spMem.snap \in SpSnapshots
         /\ spMem.snap.off \in {{}, {"tail"}} /\ spMem.snap.choice \in SpBranches \cup {"none"}
         /\ \A c \in SpChildren : spMem.child[c].st \in SpStatuses
         /\ spRun \in [pc : {"rest", "load", "walk", "runs", "fails"}, at : SpChildren \cup {"gateway", "end"}]
         /\ SpRecorded(spMem) /\ SpOneWalk /\ SpPlaced /\ SpNoneLeft
         /\ spRun.pc # "fails" => spDisk = spMem
BY DEF SpInv, SpTypes, SpStates, SpSnapshots, SpOnDisk

LEMMA SpParentStepsKept ==
  ASSUME SpInv, SpBegin \/ SpUncertain \/ SpParentFails \/ SpCompletes \/ SpRetry \/ SpRejected
  PROVE  SpInv'
<1>1. spVer' = spVer /\ spSeen' = spSeen /\ spTorn' = spTorn
  BY DEF SpBegin, SpUncertain, SpParentFails, SpCompletes, SpRetry, SpRejected
<1>2. CASE SpBegin
  <2>1. PICK n : n = [spMem EXCEPT !.st = "running", !.snap = IF spMem.trig = "initial" THEN NoSnapshot ELSE @]
    OBVIOUS
  <2>2. spMem.trig = "initial" => spMem.snap = NoSnapshot
    BY <1>2, SpFacts DEF SpBegin, SpRecorded
  <2>3. n \in SpStates /\ n.st = "running" /\ n.snap = spMem.snap /\ n.child = spMem.child
    BY <2>1, <2>2, SpFacts, SpParts DEF SpStates, SpParents
  <2>4. SpSaved(n) /\ spRun' = [pc |-> "load", at |-> "head"] /\ spRun.pc = "rest"
    BY <1>2, <2>1 DEF SpBegin, SpAt
  <2>5. SpPlaced'
    BY <1>1, <2>3, <2>4 DEF SpPlaced, SpSaved
  <2> QED
    BY <1>1, <2>3, <2>4, <2>5, SpParentKept DEF SpChildren
<1>3. CASE SpUncertain \/ SpParentFails
  <2>1. PICK n : n = [spMem EXCEPT !.st = "failed"]
    OBVIOUS
  <2>2. n \in SpStates /\ n.st = "failed" /\ n.snap = spMem.snap /\ n.child = spMem.child
    BY <2>1, SpFacts DEF SpStates, SpParents
  <2>3. SpSaved(n) /\ spRun' = [pc |-> "rest", at |-> spRun.at] /\ spRun.pc # "runs"
    BY <1>3, <2>1 DEF SpUncertain, SpParentFails, SpReturns, SpGoes, SpAt
  <2>4. SpPlaced'
    BY <1>1, <2>2, <2>3 DEF SpPlaced, SpSaved
  <2> QED
    BY <1>1, <2>2, <2>3, <2>4, SpFacts, SpParentKept
<1>4. CASE SpCompletes
  <2>1. PICK n : n = [spMem EXCEPT !.st = "completed"]
    OBVIOUS
  <2>2. n \in SpStates /\ n.st = "completed" /\ n.snap = spMem.snap /\ n.child = spMem.child
    BY <2>1, SpFacts DEF SpStates, SpParents
  <2>3. SpSaved(n) /\ spRun' = [pc |-> "rest", at |-> spRun.at] /\ spRun.pc = "walk" /\ spRun.at = "end"
    BY <1>4, <2>1 DEF SpCompletes, SpReturns, SpGoes, SpAt
  <2>4. SpPlaced'
    BY <1>1, <2>2, <2>3, SpFacts DEF SpPlaced, SpSaved
  <2> QED
    BY <1>1, <2>2, <2>3, <2>4, SpFacts, SpParentKept
<1>5. CASE SpRetry \/ SpRejected
  <2>1. PICK st \in {"pending", "skipped"}, trig \in SpTriggers :
          /\ SpSaved([spMem EXCEPT !.st = st, !.trig = trig]) /\ (st = "pending" => trig # "initial")
    <3>1. CASE SpRejected
      BY <3>1 DEF SpRejected, ParentPrepared, SpTriggers
    <3>2. CASE SpRetry
      <4>1. CASE SpSaved([spMem EXCEPT !.st = "skipped"])
        <5>1. [spMem EXCEPT !.st = "skipped"] = [spMem EXCEPT !.st = "skipped", !.trig = spMem.trig]
          BY SpFacts DEF SpStates
        <5> QED
          BY <4>1, <5>1, SpFacts
      <4>2. CASE \E trig \in {"auto_retry", "manual_retry"} : SpSaved(ParentPrepared(trig))
        BY <4>2 DEF ParentPrepared, SpTriggers
      <4> QED
        BY <3>2, <4>1, <4>2 DEF SpRetry
    <3> QED
      BY <1>5, <3>1, <3>2
  <2>2. PICK n : n = [spMem EXCEPT !.st = st, !.trig = trig]
    OBVIOUS
  <2>3. n \in SpStates /\ n.st = st /\ n.trig = trig /\ n.snap = spMem.snap /\ n.child = spMem.child
    BY <2>2, SpFacts DEF SpStates, SpParents
  <2>4. SpSaved(n) /\ spRun' = spRun /\ spRun.pc = "rest"
    BY <1>5, <2>1, <2>2 DEF SpRetry, SpRejected
  <2>5. SpPlaced'
    BY <1>1, <2>3, <2>4 DEF SpPlaced, SpSaved
  <2> QED
    BY <1>1, <2>1, <2>3, <2>4, <2>5, SpFacts, SpParentKept
<1> QED
  BY <1>2, <1>3, <1>4, <1>5

LEMMA SpLoadsKept ==
  ASSUME SpInv, SpLoads
  PROVE  SpInv'
<1>1. spVer' = spVer /\ spSeen' = spSeen /\ spTorn' = spTorn /\ spRun.pc = "load" /\ spMem.st = "running"
  BY SpFacts DEF SpLoads, SpPlaced
<1>2. CASE spMem.snap # NoSnapshot /\ UNCHANGED <<spMem, spDisk>> /\ SpGoes("walk")
  <2>1. SpSaved(spMem) /\ spRun' = [pc |-> "walk", at |-> "head"] /\ spMem.snap.ver # 0
    BY <1>1, <1>2, SpFacts DEF SpSaved, SpGoes, SpAt, SpPlaced, SpRecorded
  <2>2. SpPlaced'
    BY <1>1, <2>1 DEF SpPlaced, SpSaved, SpBranches
  <2> QED
    BY <1>1, <2>1, <2>2, SpFacts, SpParentKept DEF SpChildren
<1>3. CASE /\ spMem.snap = NoSnapshot /\ SpGoes("walk")
           /\ \E off \in {{}, {"tail"}} :
                SpSaved([spMem EXCEPT !.snap = [NoSnapshot EXCEPT !.ver = spVer, !.off = off]])
  <2>1. PICK off \in {{}, {"tail"}} : SpSaved([spMem EXCEPT !.snap = [NoSnapshot EXCEPT !.ver = spVer, !.off = off]])
    BY <1>3
  <2>2. PICK snap : snap = [NoSnapshot EXCEPT !.ver = spVer, !.off = off]
    OBVIOUS
  <2>3. snap \in SpSnapshots /\ snap.ver = spVer /\ snap.off = off /\ snap.choice = "none"
    BY <2>2, SpFacts DEF NoSnapshot, SpSnapshots
  <2>4. PICK n : n = [spMem EXCEPT !.snap = snap]
    OBVIOUS
  <2>5. n \in SpStates /\ n.st = "running" /\ n.trig = spMem.trig /\ n.snap = snap /\ n.child = Unrun /\ spSeen = SpUnseen
    BY <1>1, <1>3, <2>3, <2>4, SpFacts, SpParts DEF SpStates, SpRecorded
  <2>6. spMem' = n /\ spDisk' = n /\ spRun' = [pc |-> "walk", at |-> "head"]
    BY <1>1, <1>3, <2>1, <2>2, <2>4, SpFacts DEF SpSaved, SpGoes, SpAt, SpPlaced
  <2>7. SpTypes'
    BY <1>1, <2>5, <2>6 DEF SpInv, SpTypes, SpChildren
  <2>8. SpRecorded(n)'
    BY <1>1, <2>3, <2>5, SpFacts, SpParts DEF SpRecorded
  <2>9. SpOnDisk' /\ SpOneWalk' /\ SpNoneLeft'
    BY <1>1, <2>5, <2>6, SpParts DEF SpOnDisk, SpOneWalk, SpNoneLeft
  <2>10. SpPlaced'
    BY <1>1, <2>3, <2>5, <2>6, SpFacts DEF SpPlaced, SpBranches
  <2> QED
    BY <2>6, <2>7, <2>8, <2>9, <2>10 DEF SpInv
<1>4. CASE SpReturns("failed")
  <2>1. PICK n : n = [spMem EXCEPT !.st = "failed"]
    OBVIOUS
  <2>2. n \in SpStates /\ n.st = "failed" /\ n.snap = spMem.snap /\ n.child = spMem.child
    BY <2>1, SpFacts DEF SpStates, SpParents
  <2>3. SpSaved(n) /\ spRun' = [pc |-> "rest", at |-> spRun.at]
    BY <1>4, <2>1 DEF SpReturns, SpGoes, SpAt
  <2>4. SpPlaced'
    BY <1>1, <2>2, <2>3 DEF SpPlaced, SpSaved
  <2> QED
    BY <1>1, <2>2, <2>3, <2>4, SpFacts, SpParentKept
<1> QED
  BY <1>2, <1>3, <1>4 DEF SpLoads

\* Where the walk goes on from a child, and that what is behind it stays so.
LEMMA SpOnwardFacts ==
  ASSUME SpInv, spRun.at \in SpChildren, SpOnward
  PROVE  /\ spRun'.pc = "walk"
         /\ spRun' \in [pc : {"rest", "load", "walk", "runs", "fails"}, at : SpChildren \cup {"gateway", "end"}]
         /\ spRun.at = "head" => spRun'.at = "gateway"
         /\ spRun.at \in SpBranches => spRun'.at = "tail"
         /\ spRun.at = "tail" => spRun'.at = "end"
BY DEF SpOnward, SpAt, SpChildren, SpBranches

LEMMA SpChildStepsKept ==
  ASSUME SpInv, SpPasses \/ SpAsks \/ SpChildCompletes \/ SpChildFails
  PROVE  SpInv'
<1>1. spVer' = spVer /\ spTorn' = spTorn
  BY DEF SpPasses, SpAsks, SpChildCompletes, SpChildFails
<1>2. /\ spRun.at \in SpChildren /\ spRun.pc \in {"walk", "runs"} /\ spMem.snap.ver # 0 /\ spMem.st = "running"
      /\ spRun.at \in SpBranches => spMem.snap.choice = spRun.at
  BY SpFacts DEF SpPasses, SpAsks, SpChildCompletes, SpChildFails, SpPlaced, SpChildren
<1>3. /\ "skipped" \in SpStatuses /\ "completed" \in SpStatuses /\ "failed" \in SpStatuses /\ "waiting_approval" \in SpStatuses
      /\ spSeen.done \in SUBSET SpChildren /\ ~spSeen.again /\ spSeen.vers \subseteq {spMem.snap.ver}
  BY SpFacts DEF SpStatuses, SpParents, SpHistories, SpOneWalk
<1>4. CASE SpPasses
  <2>1. SpOnward /\ spSeen' = spSeen /\ spRun.pc = "walk"
    BY <1>4 DEF SpPasses
  <2>2. CASE spRun.at \in spMem.snap.off /\ SpSaved(SpWith(spRun.at, "skipped"))
    <3>1. spRun.at \notin spSeen.done /\ spRun.at = "tail"
      BY <2>2, SpFacts DEF SpRecorded
    <3>2. spRun'.pc = "walk" /\ spRun'.at = "end"
      BY <1>2, <2>1, <3>1, SpOnwardFacts
    <3>3. spMem'.st = "running" /\ spMem'.snap = spMem.snap
      BY <1>2, <1>3, <2>2, SpWithFacts DEF SpSaved
    <3>4. SpPlaced'
      BY <1>2, <2>1, <2>2, <3>1, <3>2, <3>3, SpFacts DEF SpPlaced, SpBranches
    <3> QED
      BY <1>1, <1>2, <1>3, <2>1, <2>2, <3>1, <3>4, SpOnwardFacts, SpFacts, SpChildKept
  <2>3. CASE spRun.at \notin spMem.snap.off /\ SpHere.st \in SpSettled /\ UNCHANGED <<spMem, spDisk>>
    <3>1. spRun.at \in spSeen.done
      BY <1>2, <2>3, SpFacts DEF SpHere, SpSettled, SpRecorded
    <3>2. spRun'.pc = "walk" /\ spRun' \in [pc : {"rest", "load", "walk", "runs", "fails"}, at : SpChildren \cup {"gateway", "end"}]
      BY <1>2, <2>1, SpOnwardFacts
    <3>3. SpPlaced'
      BY <1>2, <2>1, <2>3, <3>1, <3>2, SpOnwardFacts, SpFacts DEF SpPlaced, SpBranches, SpChildren
    <3>4. SpTypes' /\ SpRecorded(spMem)' /\ SpRecorded(spDisk)' /\ SpOnDisk' /\ SpOneWalk'
      BY <1>1, <2>1, <2>3, <3>2 DEF SpInv, SpTypes, SpRecorded, SpOnDisk, SpOneWalk
    <3>5. SpNoneLeft'
      BY <1>1, <2>1, <2>3 DEF SpInv, SpNoneLeft
    <3> QED
      BY <3>3, <3>4, <3>5 DEF SpInv
  <2> QED
    BY <1>4, <2>2, <2>3 DEF SpPasses
<1>5. CASE SpAsks
  <2>1. /\ SpSaved(SpWith("tail", "waiting_approval")) /\ spRun.at = "tail" /\ spRun.pc = "runs" /\ spRun' = spRun /\ spSeen' = spSeen
    BY <1>5 DEF SpAsks
  <2>2. spMem'.st = "running" /\ spMem'.snap = spMem.snap
    BY <1>2, <1>3, <2>1, SpWithFacts DEF SpSaved
  <2>3. "tail" \notin spSeen.done /\ "tail" \in SpChildren /\ "tail" \notin SpBranches
    BY <2>1, SpFacts DEF SpPlaced, SpChildren, SpBranches
  <2>4. SpPlaced'
    BY <2>1, <2>2, SpFacts DEF SpPlaced
  <2> QED
    BY <1>1, <1>2, <1>3, <2>1, <2>3, <2>4, SpFacts, SpChildKept
<1>6. CASE SpChildCompletes
  <2>1. /\ SpSaved(SpWith(spRun.at, "completed")) /\ SpOnward /\ spRun.pc = "runs"
        /\ spSeen' = [spSeen EXCEPT !.done = @ \cup {spRun.at}]
    BY <1>6 DEF SpChildCompletes
  <2>2. spMem'.st = "running" /\ spMem'.snap = spMem.snap
    BY <1>2, <1>3, <2>1, SpWithFacts DEF SpSaved
  <2>3. spRun.at \notin spSeen.done /\ spRun.at \notin spMem.snap.off
    BY <2>1, SpFacts DEF SpPlaced
  <2>4. /\ spSeen' \in SpHistories /\ spSeen'.done = spSeen.done \cup {spRun.at}
        /\ spSeen'.again = spSeen.again /\ spSeen'.vers = spSeen.vers /\ spSeen'.begun = spSeen.begun
    BY <1>2, <2>1, SpFacts DEF SpHistories
  <2>5. SpPlaced'
    BY <1>2, <2>1, <2>2, <2>4, SpOnwardFacts, SpFacts DEF SpPlaced, SpBranches, SpChildren
  <2> QED
    BY <1>1, <1>2, <1>3, <2>1, <2>3, <2>4, <2>5, SpOnwardFacts, SpFacts, SpChildKept
<1>7. CASE SpChildFails
  <2>1. /\ SpSaved(SpWith(spRun.at, "failed")) /\ spRun' = [pc |-> "fails", at |-> spRun.at] /\ spRun.pc = "runs" /\ spSeen' = spSeen
    BY <1>7 DEF SpChildFails, SpGoes, SpAt
  <2>2. spMem'.st = "running" /\ spMem'.snap = spMem.snap
    BY <1>2, <1>3, <2>1, SpWithFacts DEF SpSaved
  <2>3. spRun.at \notin spSeen.done
    BY <2>1, SpFacts DEF SpPlaced
  <2>4. SpPlaced'
    BY <1>2, <2>1, <2>2 DEF SpPlaced
  <2> QED
    BY <1>1, <1>2, <1>3, <2>1, <2>3, <2>4, SpFacts, SpChildKept
<1> QED
  BY <1>4, <1>5, <1>6, <1>7

LEMMA SpChildBeginsKept ==
  ASSUME SpInv, SpChildBegins
  PROVE  SpInv'
<1>1. /\ spVer' = spVer /\ spTorn' = spTorn /\ spRun.pc = "walk" /\ spRun.at \in SpChildren /\ ChildMayBegin(spRun.at)
      /\ SpSaved(SpWith(spRun.at, "running")) /\ spRun' = [pc |-> "runs", at |-> spRun.at] /\ spSeen' = ChildBegan(spRun.at)
  BY DEF SpChildBegins, SpGoes, SpAt
<1>2. spMem.snap.ver # 0 /\ spMem.st = "running" /\ (spRun.at \in SpBranches => spMem.snap.choice = spRun.at)
  BY <1>1, SpFacts DEF SpPlaced
<1>3. spRun.at \notin spSeen.done /\ spRun.at \notin spMem.snap.off /\ "running" \in SpStatuses
  BY <1>1, SpFacts DEF SpRecorded, ChildMayBegin, SpStatuses, SpParents
<1>4. spMem'.st = "running" /\ spMem'.snap = spMem.snap
  BY <1>1, <1>2, <1>3, SpWithFacts DEF SpSaved
<1>5. /\ spSeen' \in SpHistories /\ spSeen'.done = spSeen.done /\ spSeen'.begun = spSeen.begun \cup {spRun.at}
      /\ ~spSeen'.again /\ spSeen'.vers \subseteq {spMem.snap.ver}
  BY <1>1, <1>3, SpFacts DEF ChildBegan, SpHistories, SpOneWalk, SpSnapshots
<1>6. SpPlaced'
  BY <1>1, <1>2, <1>3, <1>4, <1>5, SpFacts DEF SpPlaced
<1> QED
  BY <1>1, <1>2, <1>3, <1>5, <1>6, SpFacts, SpChildKept

LEMMA SpChoosesKept ==
  ASSUME SpInv, SpChooses
  PROVE  SpInv'
<1>1. /\ spVer' = spVer /\ spTorn' = spTorn /\ spSeen' = spSeen /\ spRun.pc = "walk" /\ spRun.at = "gateway"
      /\ spMem.st = "running" /\ spMem.snap.ver # 0 /\ "head" \in spSeen.done
  BY SpFacts DEF SpChooses, SpPlaced
<1>2. CASE spMem.snap.choice = "none" /\ SpReturns("failed")
  <2>1. PICK n : n = [spMem EXCEPT !.st = "failed"]
    OBVIOUS
  <2>2. n \in SpStates /\ n.st = "failed" /\ n.snap = spMem.snap /\ n.child = spMem.child
    BY <2>1, SpFacts DEF SpStates, SpParents
  <2>3. SpSaved(n) /\ spRun' = [pc |-> "rest", at |-> spRun.at]
    BY <1>2, <2>1 DEF SpReturns, SpGoes, SpAt
  <2>4. SpPlaced'
    BY <1>1, <2>2, <2>3 DEF SpPlaced, SpSaved
  <2> QED
    BY <1>1, <2>2, <2>3, <2>4, SpFacts, SpParentKept
<1>3. CASE \E b \in IF spMem.snap.choice = "none" THEN SpBranches ELSE {spMem.snap.choice} :
             /\ SpSaved([spMem EXCEPT !.snap.choice = b,
                           !.child[OtherBranch(b)].st = IF @ = "pending" THEN "skipped" ELSE @])
             /\ SpAt("walk", b)
  <2>1. PICK b \in SpBranches :
          /\ spMem.snap.choice \in {"none", b}
          /\ SpSaved([spMem EXCEPT !.snap.choice = b,
                        !.child[OtherBranch(b)].st = IF @ = "pending" THEN "skipped" ELSE @])
          /\ spRun' = [pc |-> "walk", at |-> b]
    BY <1>3, SpFacts DEF SpAt
  <2>2. PICK other \in SpBranches : other = OtherBranch(b) /\ other # b
    BY DEF OtherBranch, SpBranches
  <2>3. PICK st \in SpStatuses : st = IF spMem.child[other].st = "pending" THEN "skipped" ELSE spMem.child[other].st
    BY <2>2, SpFacts DEF SpChildren, SpStatuses, SpParents
  <2>4. PICK n : n = [spMem EXCEPT !.snap.choice = b, !.child[other].st = st]
    OBVIOUS
  <2>5. /\ n \in SpStates /\ n.st = "running" /\ n.trig = spMem.trig
        /\ n.snap.ver = spMem.snap.ver /\ n.snap.off = spMem.snap.off /\ n.snap.choice = b
        /\ n.child[other].st = st /\ \A c \in SpChildren : c # other => n.child[c] = spMem.child[c]
    <3>1. PICK snap : snap = [spMem.snap EXCEPT !.choice = b]
      OBVIOUS
    <3>2. snap \in SpSnapshots /\ snap.ver = spMem.snap.ver /\ snap.off = spMem.snap.off /\ snap.choice = b
      BY <3>1, SpFacts DEF SpSnapshots
    <3>3. PICK child : child = [spMem.child EXCEPT ![other].st = st]
      OBVIOUS
    <3>4. /\ child \in [SpChildren -> [st : SpStatuses, trig : SpTriggers]] /\ child[other].st = st
          /\ \A c \in SpChildren : c # other => child[c] = spMem.child[c]
      BY <2>2, <3>3, SpFacts DEF SpStates, SpChildren
    <3>5. n = [spMem EXCEPT !.snap = snap, !.child = child]
      BY <2>4, <3>1, <3>3, SpFacts DEF SpStates
    <3> QED
      BY <1>1, <3>2, <3>4, <3>5, SpFacts DEF SpStates
  <2>6. spMem' = n /\ spDisk' = n
    BY <2>1, <2>2, <2>3, <2>4 DEF SpSaved
  <2>7. SpTypes'
    BY <1>1, <2>1, <2>5, <2>6 DEF SpInv, SpTypes, SpChildren
  <2>8. SpRecorded(n)'
    BY <1>1, <2>1, <2>2, <2>3, <2>5, SpFacts DEF SpRecorded, SpBranches
  <2>9. SpOnDisk' /\ SpOneWalk'
    BY <1>1, <2>1, <2>5, <2>6, SpFacts DEF SpOnDisk, SpOneWalk, SpBranches
  <2>10. SpPlaced'
    BY <1>1, <2>1, <2>5, <2>6 DEF SpPlaced, SpBranches
  <2>11. SpNoneLeft'
    BY <1>1, <2>2, <2>3, <2>5, <2>6, SpFacts DEF SpNoneLeft, SpChildren
  <2> QED
    BY <2>6, <2>7, <2>8, <2>9, <2>10, <2>11 DEF SpInv
<1> QED
  BY <1>2, <1>3 DEF SpChooses

LEMMA SpSaveFailsKept ==
  ASSUME SpInv, SpSaveFails
  PROVE  SpInv'
<1>1. /\ spVer' = spVer /\ spTorn' = TRUE /\ spSeen' = spSeen /\ spRun.pc = "walk" /\ spRun.at \in SpChildren
      /\ ChildMayBegin(spRun.at) /\ spMem' = SpWith(spRun.at, "running") /\ spDisk' = spDisk
      /\ spRun' = [pc |-> "fails", at |-> spRun.at] /\ spMem.st = "running" /\ spMem.snap.ver # 0
  BY SpFacts DEF SpSaveFails, SpGoes, SpAt, SpPlaced
<1>2. PICK n \in SpStates :
        /\ n = spMem' /\ n.st = "running" /\ n.trig = spMem.trig /\ n.snap = spMem.snap /\ n.child[spRun.at].st = "running"
        /\ \A d \in SpChildren : d # spRun.at => n.child[d] = spMem.child[d]
  BY <1>1, SpWithFacts DEF SpStatuses, SpParents
<1>3. SpTypes'
  BY <1>1, <1>2 DEF SpInv, SpTypes
<1>4. spRun.at \notin spSeen.done
  BY <1>1, SpFacts DEF SpRecorded, ChildMayBegin
<1>5. SpRecorded(n)' /\ SpRecorded(spDisk)'
  BY <1>1, <1>2, <1>4, SpFacts DEF SpRecorded
<1>6. SpOnDisk'
  BY <1>1, <1>2, SpFacts DEF SpOnDisk
<1>7. SpOneWalk'
  BY <1>1, <1>2, SpFacts DEF SpOneWalk
<1>8. SpPlaced' /\ SpNoneLeft'
  BY <1>1, <1>2 DEF SpPlaced, SpNoneLeft
<1> QED
  BY <1>2, <1>3, <1>5, <1>6, <1>7, <1>8 DEF SpInv

LEMMA SpOutsideKept ==
  ASSUME SpInv, SpNextIteration \/ SpEdit \/ UNCHANGED spVars
  PROVE  SpInv'
<1>1. CASE SpNextIteration
  <2>1. PICK n : n = [st |-> "pending", trig |-> "initial", snap |-> NoSnapshot, child |-> Unrun]
    OBVIOUS
  <2>2. n \in SpStates /\ n.st = "pending" /\ n.snap = NoSnapshot /\ n.child = Unrun
    BY <2>1, SpParts DEF SpStates, SpParents, SpTriggers
  <2>3. /\ spMem' = n /\ spDisk' = n /\ spSeen' = SpUnseen /\ spRun' = spRun /\ spVer' = spVer /\ spTorn' = spTorn
        /\ spRun.pc = "rest"
    BY <1>1, <2>1 DEF SpNextIteration, SpSaved
  <2>4. SpTypes'
    BY <2>2, <2>3, SpParts DEF SpInv, SpTypes
  <2>5. SpRecorded(n)'
    BY <2>2, <2>3, SpParts DEF SpRecorded
  <2>6. SpOnDisk' /\ SpOneWalk' /\ SpPlaced' /\ SpNoneLeft'
    BY <2>2, <2>3, SpParts DEF SpOnDisk, SpOneWalk, SpPlaced, SpNoneLeft
  <2> QED
    BY <2>3, <2>4, <2>5, <2>6 DEF SpInv
<1>2. CASE SpEdit \/ UNCHANGED spVars
  <2>1. /\ spDisk' = spDisk /\ spMem' = spMem /\ spRun' = spRun /\ spSeen' = spSeen /\ spTorn' = spTorn
        /\ spVer' \in {spVer, spVer + 1}
    BY <1>2 DEF SpEdit, spVars
  <2>2. spVer' \in Nat /\ spVer' # 0
    BY <2>1, SpFacts
  <2> QED
    BY <2>1, <2>2 DEF SpInv, SpTypes, SpRecorded, SpOnDisk, SpOneWalk, SpPlaced, SpNoneLeft
<1> QED
  BY <1>1, <1>2

\* Recovery touches neither what completed nor the snapshot, and leaves no child that
\* runs or waits.
LEMMA SpExitKept ==
  ASSUME SpInv, SpExit
  PROVE  SpInv'
<1>1. PICK s \in SpStates : s = spDisk
  BY DEF SpInv, SpTypes
<1>2. PICK child : child = [c \in SpChildren |-> ChildRecovered(s.child[c])]
  OBVIOUS
<1>3. \A c \in SpChildren : /\ child[c] \in [st : SpStatuses, trig : SpTriggers]
                            /\ child[c].st \notin {"running", "waiting_approval"}
                            /\ child[c].st = "completed" <=> s.child[c].st = "completed"
                            /\ child[c].st = "skipped" <=> s.child[c].st = "skipped"
                            /\ s.child[c].st = "pending" => child[c] = s.child[c]
  <2> SUFFICES ASSUME NEW c \in SpChildren
               PROVE  /\ child[c] \in [st : SpStatuses, trig : SpTriggers]
                      /\ child[c].st \notin {"running", "waiting_approval"}
                      /\ child[c].st = "completed" <=> s.child[c].st = "completed"
                      /\ child[c].st = "skipped" <=> s.child[c].st = "skipped"
                      /\ s.child[c].st = "pending" => child[c] = s.child[c]
    OBVIOUS
  <2>1. PICK old \in [st : SpStatuses, trig : SpTriggers] : old = s.child[c]
    BY DEF SpStates
  <2>2. child[c] = ChildRecovered(old)
    BY <1>2, <2>1
  <2>3. CASE old.st = "waiting_approval"
    BY <2>1, <2>2, <2>3 DEF ChildRecovered, SpStatuses, SpParents, SpTriggers
  <2>4. CASE old.st = "running"
    <3>1. child[c] = [old EXCEPT !.st = "failed"]
      BY <2>2, <2>4 DEF ChildRecovered
    <3> QED
      BY <2>1, <2>4, <3>1 DEF SpStatuses, SpParents
  <2>5. CASE old.st \notin {"waiting_approval", "running"}
    BY <2>1, <2>2, <2>5 DEF ChildRecovered
  <2> QED
    BY <2>3, <2>4, <2>5
<1>4. child \in [SpChildren -> [st : SpStatuses, trig : SpTriggers]]
  BY <1>2, <1>3
<1>5. PICK n : n = SpRecovered
  OBVIOUS
<1>6. /\ n \in SpStates /\ n.snap = s.snap /\ n.child = child /\ n.st # "running"
      /\ n.st = "completed" => s.st = "completed"
      /\ n.st = "pending" /\ n.trig = "initial" => s.st = "pending" /\ s.trig = "initial"
  <2>1. CASE s.st # "running"
    <3>1. n = [s EXCEPT !.child = child]
      BY <1>1, <1>2, <1>5, <2>1 DEF SpRecovered
    <3> QED
      BY <1>4, <2>1, <3>1 DEF SpStates
  <2>2. CASE s.st = "running"
    <3>1. \/ n = [s EXCEPT !.child = child, !.st = "pending", !.trig = "recovery_reissue"]
          \/ n = [s EXCEPT !.child = child, !.st = "failed"]
      BY <1>1, <1>2, <1>5, <2>2 DEF SpRecovered
    <3> QED
      BY <1>4, <3>1 DEF SpStates, SpParents, SpTriggers
  <2> QED
    BY <2>1, <2>2
<1>7. /\ spMem' = n /\ spDisk' = n /\ spRun' = [pc |-> "rest", at |-> "head"]
      /\ spVer' = spVer /\ spSeen' = spSeen /\ spTorn' = spTorn
  BY <1>5 DEF SpExit, SpSaved, SpAt
<1>8. SpRecorded(s) /\ s.snap = spMem.snap /\ (s.st = "completed" => spMem = s)
  BY <1>1 DEF SpInv, SpOnDisk
<1>9. SpTypes'
  BY <1>6, <1>7 DEF SpInv, SpTypes, SpChildren
<1>10. s.snap.ver = 0 => child = Unrun
  <2> SUFFICES ASSUME s.child = Unrun PROVE child = Unrun
    BY <1>8 DEF SpRecorded
  <2>1. \A c \in SpChildren : child[c] = Unrun[c]
    BY <1>3, SpParts
  <2> QED
    BY <1>4, <2>1, SpParts
<1>11. SpRecorded(n)'
  BY <1>3, <1>6, <1>7, <1>8, <1>10 DEF SpRecorded
<1>12. SpOnDisk' /\ SpNoneLeft'
  BY <1>3, <1>6, <1>7 DEF SpOnDisk, SpNoneLeft
<1>13. SpOneWalk'
  BY <1>6, <1>7, <1>8, SpFacts DEF SpOneWalk
<1>14. SpPlaced'
  BY <1>6, <1>7, <1>8, SpFacts DEF SpPlaced
<1> QED
  BY <1>7, <1>9, <1>11, <1>12, <1>13, <1>14 DEF SpInv

\* nodes/subprocess.py: until a loop resets it a subprocess is one walk over one
\* definition, however often it is retried, sent back or recovered and whatever is
\* edited meanwhile.
THEOREM SubprocessSafe == SpSpec => []SubprocessKept
<1>1. SpInit => SpInv
  BY SpInitInv
<1>2. SpInv /\ [SpNext]_spVars => SpInv'
  <2> SUFFICES ASSUME SpInv, [SpNext]_spVars PROVE SpInv'
    OBVIOUS
  <2>1. CASE SpBegin \/ SpUncertain \/ SpParentFails \/ SpCompletes \/ SpRetry \/ SpRejected
    BY <2>1, SpParentStepsKept
  <2>2. CASE SpLoads
    BY <2>2, SpLoadsKept
  <2>3. CASE SpPasses \/ SpAsks \/ SpChildCompletes \/ SpChildFails
    BY <2>3, SpChildStepsKept
  <2>4. CASE SpChildBegins
    BY <2>4, SpChildBeginsKept
  <2>5. CASE SpChooses
    BY <2>5, SpChoosesKept
  <2>6. CASE SpSaveFails
    BY <2>6, SpSaveFailsKept
  <2>7. CASE SpNextIteration \/ SpEdit \/ UNCHANGED spVars
    BY <2>7, SpOutsideKept
  <2>8. CASE SpExit
    BY <2>8, SpExitKept
  <2> QED
    BY <2>1, <2>2, <2>3, <2>4, <2>5, <2>6, <2>7, <2>8 DEF SpNext
<1>3. SpInv => SubprocessKept
  <2> SUFFICES ASSUME SpInv PROVE SubprocessKept
    OBVIOUS
  <2>1. ~spSeen.again /\ spSeen.vers \subseteq {spMem.snap.ver}
    BY SpFacts DEF SpOneWalk
  <2>2. ~(SpBranches \subseteq spSeen.begun)
    BY SpFacts DEF SpOneWalk, SpBranches
  <2>3. spMem.st = "completed" =>
          \A c \in {"head", "tail", spMem.snap.choice} \ spMem.snap.off : c \in spSeen.done
    BY SpFacts DEF SpPlaced
  <2>4. spMem.st = "failed" /\ spRun.pc = "rest" /\ ~spTorn =>
          \A c \in SpChildren : spMem.child[c].st \in SpSettled \cup {"pending", "failed"}
    BY SpFacts DEF SpNoneLeft, SpStatuses, SpParents, SpSettled
  <2> QED
    BY <2>1, <2>2, <2>3, <2>4 DEF SubprocessKept
<1> QED
  BY <1>1, <1>2, <1>3, PTL DEF SpSpec

-----------------------------------------------------------------------------
(***************************************************************************)
(* LayeredConfig: the invariant.                                           *)
(***************************************************************************)
LySpec == LyInit /\ [][LyNext]_lyVars

\* Two plugins that are registered name the same item.
LyClash == \E o, p \in LyOwners : o # p /\ LyDeclares(lyDoc, o) \cap LyDeclares(lyDoc, p) # {}

LyTypes ==
  /\ lyDoc \in [LyOwners -> [LyItems -> Nat]] /\ lyRun \subseteq LyOwners
  /\ lyBase \in [LyItems -> Nat] /\ lyMem \in [LyItems -> Nat]
  /\ lyOver \in [LyOwners -> [val : [LyItems -> Nat], gone : SUBSET LyItems]]
  /\ lyPc \in {"boot", "up", "saving"}
  /\ lyTold \in [LyItems -> Nat \cup {AnyValue, Default}]
  /\ lyRead \in [on : BOOLEAN, mem : [LyItems -> Nat], edited : SUBSET LyItems]
  /\ lyAside \subseteq LyItems

\* The number in the files that stands for a decision.
LyMark(told) == IF told = Default THEN 0 ELSE told

\* The two files say what was decided about item i, whether its plugin runs or not.
LyFilesSay(i) ==
  lyTold[i] # AnyValue =>
    /\ i \notin LyDeclared(lyDoc) => lyBase[i] = LyMark(lyTold[i])
    /\ \A o \in LyOwners : i \in LyDeclares(lyDoc, o) =>
         /\ i \in lyOver[o].gone <=> lyTold[i] = 0
         /\ lyTold[i] # 0 => lyOver[o].val[i] = LyMark(lyTold[i])

\* What item i is when the plugins in run do.
LyAgreed(run, i) ==
  IF i \in LyDeclared(lyDoc) /\ LyOwner(lyDoc, i) \notin run THEN 0
  ELSE IF lyTold[i] # Default THEN lyTold[i]
  ELSE IF i \in LyDeclared(lyDoc) THEN lyDoc[LyOwner(lyDoc, i)][i] ELSE 0

\* Before the plugins start memory is the user's file, which names no item of theirs.
LyBoots ==
  lyPc = "boot" =>
    /\ ~lyRead.on /\ lyRun = {}
    /\ \A i \in LyItems : IF i \in LyDeclared(lyDoc) THEN lyBase[i] = 0 ELSE lyMem[i] = lyBase[i]

\* Between the two writes of a save the first one has been made.
LySaves ==
  lyPc = "saving" =>
    /\ ~LyClash /\ lyNow \in LyItems
    /\ lyNow \notin LyDeclared(lyDoc) => lyBase[lyNow] = lyMem[lyNow]
    /\ lyRead.on => lyNow \in lyRead.edited

\* Memory shows what was decided, except of plugins that have stopped.
LyMemory ==
  lyPc # "boot" =>
    IF LyClash THEN lyAside = LyItems
    ELSE /\ \A i \in lyAside : Unowned(i)
         /\ \A i \in LyItems \ lyAside : lyTold[i] # AnyValue => lyMem[i] = LyAgreed(lyRun, i)

\* So does what the watcher has read, but for what was edited since.
LyReadOK ==
  lyRead.on =>
    /\ ~LyClash
    /\ \A i \in LyItems \ (lyAside \cup lyRead.edited) :
         lyTold[i] # AnyValue => lyRead.mem[i] = LyAgreed(lyRun, i)

LyInv ==
  /\ LyTypes /\ LyBoots /\ LySaves /\ LyMemory /\ LyReadOK
  /\ lyPc # "saving" => lyNow = NoItem
  /\ \A i \in LyItems : LyFilesSay(i)

-----------------------------------------------------------------------------
\* An item that one plugin declares is of that plugin.
LEMMA LyOwned ==
  ASSUME NEW i \in LyItems, NEW o \in LyOwners, i \in LyDeclares(lyDoc, o)
  PROVE  /\ i \in LyDeclared(lyDoc)
         /\ LyOwner(lyDoc, i) \in LyOwners /\ i \in LyDeclares(lyDoc, LyOwner(lyDoc, i))
         /\ ~LyClash => LyOwner(lyDoc, i) = o
<1>1. i \in LyDeclared(lyDoc)
  BY DEF LyDeclared
<1>2. LyOwner(lyDoc, i) \in LyOwners /\ i \in LyDeclares(lyDoc, LyOwner(lyDoc, i))
  BY DEF LyOwner
<1>3. ~LyClash => LyOwner(lyDoc, i) = o
  BY <1>2 DEF LyClash
<1> QED
  BY <1>1, <1>2, <1>3

LEMMA LyDeclaredBySomeone ==
  ASSUME NEW i \in LyDeclared(lyDoc)
  PROVE  /\ i \in LyItems /\ LyOwner(lyDoc, i) \in LyOwners
         /\ i \in LyDeclares(lyDoc, LyOwner(lyDoc, i)) /\ lyDoc[LyOwner(lyDoc, i)][i] # 0
<1>1. PICK o \in LyOwners : i \in LyDeclares(lyDoc, o)
  BY DEF LyDeclared
<1>2. i \in LyItems
  BY <1>1 DEF LyDeclares
<1>3. i \in LyDeclares(lyDoc, LyOwner(lyDoc, i)) /\ LyOwner(lyDoc, i) \in LyOwners
  BY <1>1, <1>2, LyOwned
<1> QED
  BY <1>2, <1>3 DEF LyDeclares

\* What is loaded is a number for every item.
LEMMA LyLoadsMap ==
  ASSUME LyTypes, NEW run PROVE LyLoaded(lyDoc, run, lyBase) \in [LyItems -> Nat]
<1>1. ASSUME NEW i \in LyItems PROVE LyLoaded(lyDoc, run, lyBase)[i] \in Nat
  <2>1. CASE i \notin LyDeclared(lyDoc)
    BY <2>1 DEF LyLoaded, LyTypes
  <2>2. CASE i \in LyDeclared(lyDoc)
    <3>1. PICK o : o = LyOwner(lyDoc, i)
      OBVIOUS
    <3>2. o \in LyOwners
      BY <2>2, <3>1, LyDeclaredBySomeone
    <3>3. lyDoc[o][i] \in Nat /\ lyOver[o].val[i] \in Nat
      BY <3>2 DEF LyTypes
    <3> QED
      BY <2>2, <3>1, <3>2, <3>3 DEF LyLoaded, LySanitized
  <2> QED
    BY <2>1, <2>2
<1> QED
  BY <1>1 DEF LyLoaded

\* What is loaded is what was decided, where the files say so.
LEMMA LyLoadsAgreed ==
  ASSUME LyTypes, ~LyClash, NEW run, NEW i \in LyItems, LyFilesSay(i), lyTold[i] # AnyValue
  PROVE  LyLoaded(lyDoc, run, lyBase)[i] = LyAgreed(run, i)
<1>1. CASE i \notin LyDeclared(lyDoc)
  BY <1>1 DEF LyLoaded, LyAgreed, LyFilesSay, LyMark
<1>2. CASE i \in LyDeclared(lyDoc)
  <2>1. PICK o : o = LyOwner(lyDoc, i)
    OBVIOUS
  <2>2. o \in LyOwners /\ i \in LyDeclares(lyDoc, o) /\ lyDoc[o][i] # 0
    BY <1>2, <2>1, LyDeclaredBySomeone
  <2>3. /\ i \in lyOver[o].gone <=> lyTold[i] = 0
        /\ lyTold[i] # 0 => lyOver[o].val[i] = LyMark(lyTold[i])
    BY <2>2 DEF LyFilesSay
  <2>4. /\ i \in LySanitized(lyDoc, lyOver)[o].gone <=> lyTold[i] = 0
        /\ LySanitized(lyDoc, lyOver)[o].val[i] = lyOver[o].val[i]
    BY <2>2, <2>3 DEF LySanitized
  <2>5. LyLoaded(lyDoc, run, lyBase)[i] =
          IF o \notin run \/ lyTold[i] = 0 THEN 0
          ELSE IF lyOver[o].val[i] # 0 THEN lyOver[o].val[i] ELSE lyDoc[o][i]
    BY <1>2, <2>1, <2>4 DEF LyLoaded
  <2>6. LyAgreed(run, i) = IF o \notin run THEN 0 ELSE IF lyTold[i] # Default THEN lyTold[i] ELSE lyDoc[o][i]
    BY <1>2, <2>1 DEF LyAgreed
  <2> QED
    BY <2>3, <2>5, <2>6 DEF LyMark, Default
<1> QED
  BY <1>1, <1>2

\* No document that is registered names an item of the user's file.
LEMMA LyRegistered ==
  ASSUME NEW r \in LyReleases
  PROVE  /\ RegisteredDocs(r) \in [LyOwners -> [LyItems -> Nat]]
         /\ \A o \in LyOwners : \A i \in LyDeclares(RegisteredDocs(r), o) : lyBase[i] = 0
<1>1. r \in [LyOwners -> [LyItems -> Nat]] /\ NoItems \in [LyItems -> Nat]
  BY LyAssumption DEF NoItems
<1>2. RegisteredDocs(r) \in [LyOwners -> [LyItems -> Nat]]
  BY <1>1 DEF RegisteredDocs
<1>3. ASSUME NEW o \in LyOwners, NEW i \in LyDeclares(RegisteredDocs(r), o) PROVE lyBase[i] = 0
  <2>1. i \in LyItems /\ RegisteredDocs(r)[o][i] # 0
    BY DEF LyDeclares
  <2>2. RegisteredDocs(r)[o] = r[o] /\ ~\E k \in LyDeclares(r, o) : lyBase[k] # 0
    BY <2>1 DEF RegisteredDocs, NoItems
  <2> QED
    BY <2>1, <2>2 DEF LyDeclares
<1> QED
  BY <1>2, <1>3

LEMMA LyInitInv == LyInit => LyInv
<1> SUFFICES ASSUME LyInit PROVE LyInv
  OBVIOUS
<1>1. PICK r \in LyReleases : lyDoc = RegisteredDocs(r)
  BY DEF LyInit
<1>2. /\ NoItems \in [LyItems -> Nat]
      /\ NoOver \in [LyOwners -> [val : [LyItems -> Nat], gone : SUBSET LyItems]]
      /\ \A i \in LyItems : NoItems[i] = 0
      /\ \A o \in LyOwners : NoOver[o].val = NoItems /\ NoOver[o].gone = {}
  BY DEF NoItems, NoOver
<1>3. LyTypes
  BY <1>1, <1>2, LyRegistered DEF LyInit, LyTypes, NoLoad, NoItems
<1>4. ASSUME NEW i \in LyItems PROVE LyFilesSay(i)
  BY <1>2 DEF LyInit, LyFilesSay, LyMark, Default
<1>5. LyBoots
  BY <1>2 DEF LyInit, LyBoots, NoLoad
<1> QED
  BY <1>3, <1>4, <1>5 DEF LyInit, LyInv, LySaves, LyMemory, LyReadOK, NoLoad

-----------------------------------------------------------------------------
\* What the first write of a save makes of the user's file.
LEMMA LySavesBase ==
  ASSUME NEW mem \in [LyItems -> Nat]
  PROVE  /\ SavedBase(mem) \in [LyItems -> Nat]
         /\ \A i \in LyItems : SavedBase(mem)[i] = IF i \in LyDeclared(lyDoc) THEN 0 ELSE mem[i]
BY DEF SavedBase

\* What the second one makes of the overrides of one plugin.
LEMMA LySavesOver ==
  ASSUME LyTypes, NEW mem \in [LyItems -> Nat]
  PROVE  /\ SavedOver(mem) \in [LyOwners -> [val : [LyItems -> Nat], gone : SUBSET LyItems]]
         /\ \A o \in LyOwners : \A i \in LyDeclares(lyDoc, o) :
              IF o \in lyRun
              THEN /\ i \in SavedOver(mem)[o].gone <=> mem[i] = 0
                   /\ SavedOver(mem)[o].val[i] = IF mem[i] = lyDoc[o][i] THEN 0 ELSE mem[i]
              ELSE /\ i \in SavedOver(mem)[o].gone <=> i \in lyOver[o].gone
                   /\ SavedOver(mem)[o].val[i] = lyOver[o].val[i]
<1>1. ASSUME NEW o \in LyOwners
      PROVE  /\ Differs(mem, o) \in [val : [LyItems -> Nat], gone : SUBSET LyItems]
             /\ LySanitized(lyDoc, lyOver)[o] \in [val : [LyItems -> Nat], gone : SUBSET LyItems]
  <2>1. lyOver[o].val \in [LyItems -> Nat]
    BY DEF LyTypes
  <2>2. PICK val : val = [i \in LyItems |-> IF i \in LyDeclares(lyDoc, o) /\ mem[i] # lyDoc[o][i] THEN mem[i] ELSE 0]
    OBVIOUS
  <2>3. val \in [LyItems -> Nat] /\ {i \in LyDeclares(lyDoc, o) : mem[i] = 0} \subseteq LyItems
    BY <2>2 DEF LyDeclares
  <2>4. Differs(mem, o) \in [val : [LyItems -> Nat], gone : SUBSET LyItems]
    BY <2>2, <2>3 DEF Differs
  <2>5. PICK old : old = [i \in LyItems |-> IF lyDoc[o][i] = 0 THEN 0 ELSE lyOver[o].val[i]]
    OBVIOUS
  <2>6. old \in [LyItems -> Nat] /\ lyOver[o].gone \cap LyDeclares(lyDoc, o) \subseteq LyItems
    BY <2>1, <2>5 DEF LyDeclares
  <2> QED
    BY <2>4, <2>5, <2>6 DEF LySanitized
<1>2. ASSUME NEW o \in LyOwners, NEW i \in LyDeclares(lyDoc, o)
      PROVE  IF o \in lyRun
             THEN /\ i \in SavedOver(mem)[o].gone <=> mem[i] = 0
                  /\ SavedOver(mem)[o].val[i] = IF mem[i] = lyDoc[o][i] THEN 0 ELSE mem[i]
             ELSE /\ i \in SavedOver(mem)[o].gone <=> i \in lyOver[o].gone
                  /\ SavedOver(mem)[o].val[i] = lyOver[o].val[i]
  <2>1. i \in LyItems /\ lyDoc[o][i] # 0
    BY DEF LyDeclares
  <2>2. CASE o \in lyRun
    BY <2>1, <2>2 DEF SavedOver, Differs
  <2>3. CASE o \notin lyRun
    BY <2>1, <2>3 DEF SavedOver, LySanitized
  <2> QED
    BY <2>2, <2>3
<1> QED
  BY <1>1, <1>2 DEF SavedOver

\* Where neither the documents nor what is told of it change, nor what the files say of it.
LEMMA LyStillSays ==
  ASSUME NEW i \in LyItems, LyFilesSay(i), lyDoc' = lyDoc, lyTold'[i] \in {lyTold[i], AnyValue},
         lyBase'[i] = lyBase[i] \/ (i \in LyDeclared(lyDoc)),
         \A o \in LyOwners : i \in LyDeclares(lyDoc, o) =>
           /\ i \in lyOver'[o].gone <=> i \in lyOver[o].gone
           /\ lyOver'[o].val[i] = lyOver[o].val[i]
  PROVE  LyFilesSay(i)'
BY DEF LyFilesSay, LyDeclared, LyDeclares

LEMMA LySyncInv == LyInv /\ LySync => LyInv'
<1> SUFFICES ASSUME LyInv, LySync PROVE LyInv'
  OBVIOUS
<1>1. /\ lyDoc' = lyDoc /\ lyRun' = lyRun /\ lyMem' = lyMem /\ lyPc' = lyPc /\ lyNow' = lyNow /\ lyRead' = lyRead
      /\ lyTold' = lyTold /\ lyAside' = lyAside /\ lyPc = "boot"
      /\ lyBase' = SavedBase(lyMem) /\ lyOver' = SavedOver(lyMem)
  BY DEF LySync
<1>2. LyTypes /\ LyBoots
  BY DEF LyInv
<1>3. /\ lyRun = {} /\ ~lyRead.on
      /\ \A i \in LyItems : IF i \in LyDeclared(lyDoc) THEN lyBase[i] = 0 ELSE lyMem[i] = lyBase[i]
  BY <1>1, <1>2 DEF LyBoots
<1>4. lyMem \in [LyItems -> Nat]
  BY <1>2 DEF LyTypes
<1>5. /\ lyBase' \in [LyItems -> Nat]
      /\ \A i \in LyItems : lyBase'[i] = IF i \in LyDeclared(lyDoc) THEN 0 ELSE lyMem[i]
  BY <1>1, <1>4, LySavesBase
<1>6. \A i \in LyItems : lyBase'[i] = lyBase[i]
  BY <1>3, <1>5
<1>7. /\ lyOver' \in [LyOwners -> [val : [LyItems -> Nat], gone : SUBSET LyItems]]
      /\ \A o \in LyOwners : \A i \in LyDeclares(lyDoc, o) :
           (i \in lyOver'[o].gone <=> i \in lyOver[o].gone) /\ lyOver'[o].val[i] = lyOver[o].val[i]
  BY <1>1, <1>2, <1>3, <1>4, LySavesOver
<1>8. LyTypes'
  BY <1>1, <1>2, <1>5, <1>7 DEF LyTypes
<1>9. LyBoots'
  BY <1>1, <1>2, <1>6 DEF LyBoots, LyDeclared, LyDeclares
<1>10. ASSUME NEW i \in LyItems PROVE LyFilesSay(i)'
  BY <1>1, <1>6, <1>7, LyStillSays DEF LyInv
<1> QED
  BY <1>1, <1>3, <1>8, <1>9, <1>10 DEF LyInv, LySaves, LyMemory, LyReadOK

LEMMA LyStartInv == LyInv /\ LyStart => LyInv'
<1> SUFFICES ASSUME LyInv, LyStart PROVE LyInv'
  OBVIOUS
<1>1. /\ lyDoc' = lyDoc /\ lyBase' = lyBase /\ lyOver' = lyOver /\ lyPc' = "up" /\ lyNow' = lyNow /\ lyRead' = lyRead
      /\ lyTold' = lyTold /\ lyRun' \in SUBSET LyOwners /\ lyPc = "boot"
      /\ lyMem' = IF LyConflict(lyDoc, lyBase) THEN lyMem ELSE LyLoaded(lyDoc, lyRun', lyBase)
      /\ lyAside' = IF LyConflict(lyDoc, lyBase) THEN LyItems ELSE {}
  BY DEF LyStart
<1>2. LyTypes /\ LyBoots /\ lyRead \in [on : BOOLEAN, mem : [LyItems -> Nat], edited : SUBSET LyItems]
  BY DEF LyInv, LyTypes
<1>3. ~lyRead.on /\ \A i \in LyDeclared(lyDoc) : lyBase[i] = 0
  BY <1>1, <1>2 DEF LyBoots, LyDeclared, LyDeclares
<1>4. LyConflict(lyDoc, lyBase) = LyClash
  BY <1>3 DEF LyConflict, LyClash
<1>5. lyMem' \in [LyItems -> Nat]
  BY <1>1, <1>2, LyLoadsMap DEF LyTypes
<1>6. LyTypes'
  BY <1>1, <1>2, <1>5 DEF LyTypes
<1>7. LyClash' = LyClash
  BY <1>1 DEF LyClash, LyDeclares
<1>8. ASSUME NEW i \in LyItems PROVE LyFilesSay(i)' /\ LyFilesSay(i)
  BY <1>1, LyStillSays DEF LyInv
<1>9. LyMemory'
  <2>1. CASE LyClash
    BY <1>1, <1>4, <1>7, <2>1 DEF LyMemory
  <2>2. CASE ~LyClash
    <3>1. lyMem' = LyLoaded(lyDoc, lyRun', lyBase) /\ lyAside' = {}
      BY <1>1, <1>4, <2>2
    <3>2. ASSUME NEW i \in LyItems, lyTold'[i] # AnyValue PROVE lyMem'[i] = LyAgreed(lyRun, i)'
      <4>1. LyLoaded(lyDoc, lyRun', lyBase)[i] = LyAgreed(lyRun', i)
        BY <1>1, <1>2, <1>8, <2>2, <3>2, LyLoadsAgreed
      <4> QED
        BY <1>1, <3>1, <4>1 DEF LyAgreed, LyDeclared, LyDeclares, LyOwner
    <3> QED
      BY <1>7, <2>2, <3>1, <3>2 DEF LyMemory
  <2> QED
    BY <2>1, <2>2
<1>10. lyNow = NoItem
  BY <1>1 DEF LyInv
<1> QED
  BY <1>1, <1>10, <1>3, <1>6, <1>8, <1>9 DEF LyInv, LyBoots, LySaves, LyReadOK

LEMMA LyRestartInv == LyInv /\ LyRestart => LyInv'
<1> SUFFICES ASSUME LyInv, LyRestart PROVE LyInv'
  OBVIOUS
<1>1. PICK r \in LyReleases : lyDoc' = RegisteredDocs(r) /\ lyTold' = Retold(lyDoc') /\ lyMem' = LyLoaded(lyDoc', {}, lyBase)
  BY DEF LyRestart
<1>2. /\ lyRun' = {} /\ lyPc' = "boot" /\ lyNow' = NoItem /\ lyRead' = NoLoad /\ lyAside' = {}
      /\ lyBase' = lyBase /\ lyOver' = lyOver
  BY DEF LyRestart
<1>3. LyTypes
  BY DEF LyInv
<1>4. /\ lyDoc' \in [LyOwners -> [LyItems -> Nat]]
      /\ \A o \in LyOwners : \A i \in LyDeclares(lyDoc', o) : lyBase[i] = 0
  BY <1>1, LyRegistered
<1>5. /\ lyMem' \in [LyItems -> Nat]
      /\ \A i \in LyItems : i \notin LyDeclared(lyDoc') => lyMem'[i] = lyBase[i]
  <2>1. ASSUME NEW i \in LyItems
        PROVE  /\ LyLoaded(lyDoc', {}, lyBase)[i] \in Nat
               /\ i \notin LyDeclared(lyDoc') => LyLoaded(lyDoc', {}, lyBase)[i] = lyBase[i]
    BY <1>3 DEF LyLoaded, LyTypes
  <2> QED
    BY <1>1, <2>1 DEF LyLoaded
<1>6. ASSUME NEW i \in LyItems
      PROVE  /\ lyTold'[i] \in Nat \cup {AnyValue, Default}
             /\ lyTold'[i] # AnyValue =>
                  /\ lyTold'[i] = lyTold[i]
                  /\ \A o \in LyOwners : (lyDoc[o][i] = 0) = (lyDoc'[o][i] = 0)
  <2>1. lyTold[i] \in Nat \cup {AnyValue, Default}
    BY <1>3 DEF LyTypes
  <2>2. lyTold'[i] = IF \A o \in LyOwners : (lyDoc[o][i] = 0) = (lyDoc'[o][i] = 0) THEN lyTold[i] ELSE AnyValue
    BY <1>1 DEF Retold
  <2> QED
    BY <2>1, <2>2
<1>7. LyTypes'
  <2>1. lyTold' \in [LyItems -> Nat \cup {AnyValue, Default}]
    BY <1>1, <1>6 DEF Retold
  <2>2. lyRead' \in [on : BOOLEAN, mem : [LyItems -> Nat], edited : SUBSET LyItems]
    BY <1>2 DEF NoLoad, NoItems
  <2> QED
    BY <1>2, <1>3, <1>4, <1>5, <2>1, <2>2 DEF LyTypes
<1>8. LyBoots'
  <2>1. ASSUME NEW i \in LyItems, i \in LyDeclared(lyDoc') PROVE lyBase[i] = 0
    <3>1. PICK o \in LyOwners : i \in LyDeclares(lyDoc', o)
      BY <2>1 DEF LyDeclared
    <3> QED
      BY <1>4, <3>1
  <2> QED
    BY <1>2, <1>5, <2>1 DEF LyBoots, NoLoad
<1>9. ASSUME NEW i \in LyItems PROVE LyFilesSay(i)'
  <2>1. CASE lyTold'[i] = AnyValue
    BY <2>1 DEF LyFilesSay
  <2>2. CASE lyTold'[i] # AnyValue
    <3>1. \A o \in LyOwners : i \in LyDeclares(lyDoc', o) <=> i \in LyDeclares(lyDoc, o)
      BY <1>6, <2>2 DEF LyDeclares
    <3>2. i \in LyDeclared(lyDoc') <=> i \in LyDeclared(lyDoc)
      BY <3>1 DEF LyDeclared
    <3>3. LyFilesSay(i) /\ lyTold'[i] = lyTold[i]
      BY <1>6, <2>2 DEF LyInv
    <3> QED
      BY <1>2, <2>2, <3>1, <3>2, <3>3 DEF LyFilesSay
  <2> QED
    BY <2>1, <2>2
<1> QED
  BY <1>2, <1>7, <1>8, <1>9 DEF LyInv, LySaves, LyMemory, LyReadOK, NoLoad

\* A change in memory, and what the reader's thread will find edited.
LEMMA LyChanges ==
  ASSUME LyTypes, NEW i \in LyItems, NEW v \in LyValues \cup {0}, LyChange(i, v)
  PROVE  /\ lyMem' \in [LyItems -> Nat] /\ lyMem'[i] = v /\ \A k \in LyItems : k # i => lyMem'[k] = lyMem[k]
         /\ lyRead' \in [on : BOOLEAN, mem : [LyItems -> Nat], edited : SUBSET LyItems]
         /\ lyRead'.on = lyRead.on /\ lyRead'.mem = lyRead.mem
         /\ lyRead.on => lyRead'.edited = lyRead.edited \cup {i}
<1>1. v \in Nat
  BY LyAssumption
<1>2. lyMem' = [lyMem EXCEPT ![i] = v] /\ lyRead' = [lyRead EXCEPT !.edited = IF lyRead.on THEN @ \cup {i} ELSE @]
  BY DEF LyChange
<1>3. lyRead \in [on : BOOLEAN, mem : [LyItems -> Nat], edited : SUBSET LyItems] /\ lyMem \in [LyItems -> Nat]
  BY DEF LyTypes
<1> QED
  BY <1>1, <1>2, <1>3

LEMMA LyEditInv == LyInv /\ LyEdit => LyInv'
<1> SUFFICES ASSUME LyInv, LyEdit PROVE LyInv'
  OBVIOUS
<1>1. PICK n \in LyItems, v \in LyValues \cup {0} :
        /\ LyChange(n, v) /\ lyNow' = n
        /\ lyTold' = IF Unowned(n) THEN lyTold ELSE [lyTold EXCEPT ![n] = AnyValue]
        /\ lyAside' = IF Unowned(n) THEN lyAside \cup {n} ELSE lyAside
  BY DEF LyEdit
<1>2. /\ lyPc = "up" /\ lyPc' = "saving" /\ lyBase' = SavedBase(lyMem') /\ ~LyConflict(lyDoc, lyBase)
      /\ lyDoc' = lyDoc /\ lyRun' = lyRun /\ lyOver' = lyOver
  BY DEF LyEdit
<1>3. LyTypes
  BY DEF LyInv
<1>4. ~LyClash /\ ~LyClash'
  BY <1>2 DEF LyConflict, LyClash, LyDeclares
<1>5. /\ lyMem' \in [LyItems -> Nat] /\ \A k \in LyItems : k # n => lyMem'[k] = lyMem[k]
      /\ lyRead' \in [on : BOOLEAN, mem : [LyItems -> Nat], edited : SUBSET LyItems]
      /\ lyRead'.on = lyRead.on /\ lyRead'.mem = lyRead.mem
      /\ lyRead.on => lyRead'.edited = lyRead.edited \cup {n}
  BY <1>1, <1>3, LyChanges
<1>6. /\ lyBase' \in [LyItems -> Nat]
      /\ \A i \in LyItems : lyBase'[i] = IF i \in LyDeclared(lyDoc) THEN 0 ELSE lyMem'[i]
  BY <1>2, <1>5, LySavesBase
<1>7. /\ \A i \in lyAside : Unowned(i)
      /\ \A i \in LyItems \ lyAside : lyTold[i] # AnyValue => lyMem[i] = LyAgreed(lyRun, i)
  BY <1>2, <1>4 DEF LyInv, LyMemory
<1>8. \A i \in LyItems : /\ lyTold'[i] \in {lyTold[i], AnyValue}
                         /\ lyTold'[i] # AnyValue => lyTold'[i] = lyTold[i] /\ (i = n => Unowned(n))
  BY <1>1, <1>3 DEF LyTypes
<1>9. LyTypes'
  <2>1. lyTold' \in [LyItems -> Nat \cup {AnyValue, Default}] /\ lyAside' \subseteq LyItems
    BY <1>1, <1>3 DEF LyTypes
  <2> QED
    BY <1>2, <1>3, <1>5, <1>6, <2>1 DEF LyTypes
<1>10. ASSUME NEW i \in LyItems PROVE LyFilesSay(i)'
  <2>1. CASE i \in LyDeclared(lyDoc)
    BY <1>2, <1>8, <2>1, LyStillSays DEF LyInv
  <2>2. CASE i \notin LyDeclared(lyDoc) /\ lyTold'[i] # AnyValue
    <3>1. i # n /\ i \notin lyAside /\ lyTold[i] # AnyValue /\ lyTold'[i] = lyTold[i]
      BY <1>7, <1>8, <2>2 DEF Unowned
    <3>2. lyMem'[i] = LyMark(lyTold'[i])
      BY <1>5, <1>7, <2>2, <3>1 DEF LyAgreed, LyMark
    <3>3. lyBase'[i] = LyMark(lyTold'[i])
      BY <1>6, <2>2, <3>2
    <3>4. \A o \in LyOwners : i \notin LyDeclares(lyDoc', o)
      BY <1>2, <2>2 DEF LyDeclared
    <3> QED
      BY <3>3, <3>4 DEF LyFilesSay
  <2>3. CASE lyTold'[i] = AnyValue
    BY <2>3 DEF LyFilesSay
  <2> QED
    BY <2>1, <2>2, <2>3
<1>11. ASSUME NEW i \in LyItems, lyTold'[i] # AnyValue PROVE LyAgreed(lyRun, i)' = LyAgreed(lyRun, i)
  BY <1>2, <1>8, <1>11 DEF LyAgreed, LyDeclared, LyDeclares, LyOwner
<1>12. LySaves'
  BY <1>1, <1>2, <1>4, <1>5, <1>6 DEF LySaves, LyDeclared, LyDeclares
<1>13. \A i \in LyItems : Unowned(i)' = Unowned(i)
  BY <1>2 DEF Unowned, LyDeclared, LyDeclares, LyOwner
<1>14. LyMemory'
  <2>1. \A i \in lyAside' : Unowned(i)'
    BY <1>1, <1>3, <1>7, <1>13 DEF LyTypes
  <2>2. ASSUME NEW i \in LyItems \ lyAside', lyTold'[i] # AnyValue PROVE lyMem'[i] = LyAgreed(lyRun, i)'
    <3>1. i # n /\ i \notin lyAside /\ lyTold[i] # AnyValue
      BY <1>1, <1>8, <2>2
    <3> QED
      BY <1>5, <1>7, <1>11, <2>2, <3>1
  <2> QED
    BY <1>4, <2>1, <2>2 DEF LyMemory
<1>15. LyReadOK'
  <2>1. ASSUME lyRead'.on, NEW i \in LyItems \ (lyAside' \cup lyRead'.edited), lyTold'[i] # AnyValue
        PROVE  lyRead'.mem[i] = LyAgreed(lyRun, i)'
    <3>1. i \notin lyAside /\ i \notin lyRead.edited /\ lyRead.on /\ lyTold[i] # AnyValue
      BY <1>1, <1>5, <1>8, <2>1
    <3>2. lyRead.mem[i] = LyAgreed(lyRun, i)
      BY <3>1 DEF LyInv, LyReadOK
    <3> QED
      BY <1>5, <1>11, <2>1, <3>2
  <2> QED
    BY <1>4, <2>1 DEF LyReadOK
<1> QED
  BY <1>2, <1>9, <1>10, <1>12, <1>14, <1>15 DEF LyInv, LyBoots

LEMMA LyEditedInv == LyInv /\ LyEdited => LyInv'
<1> SUFFICES ASSUME LyInv, LyEdited PROVE LyInv'
  OBVIOUS
<1>1. /\ lyPc = "saving" /\ lyOver' = SavedOver(lyMem) /\ lyPc' = "up" /\ lyNow' = NoItem
      /\ lyTold' = SaveDecides(IF Unowned(lyNow) THEN lyTold ELSE [lyTold EXCEPT ![lyNow] = lyMem[lyNow]])
      /\ lyDoc' = lyDoc /\ lyRun' = lyRun /\ lyBase' = lyBase /\ lyMem' = lyMem /\ lyRead' = lyRead /\ lyAside' = lyAside
  BY DEF LyEdited
<1>2. LyTypes /\ LySaves
  BY DEF LyInv
<1>3. /\ ~LyClash /\ ~LyClash' /\ lyNow \in LyItems
      /\ lyNow \notin LyDeclared(lyDoc) => lyBase[lyNow] = lyMem[lyNow]
      /\ lyRead.on => lyNow \in lyRead.edited
  BY <1>1, <1>2 DEF LySaves, LyClash, LyDeclares
<1>4. /\ lyMem \in [LyItems -> Nat] /\ lyTold \in [LyItems -> Nat \cup {AnyValue, Default}]
      /\ lyDoc \in [LyOwners -> [LyItems -> Nat]]
  BY <1>2 DEF LyTypes
<1>5. /\ \A i \in lyAside : Unowned(i)
      /\ \A i \in LyItems \ lyAside : lyTold[i] # AnyValue => lyMem[i] = LyAgreed(lyRun, i)
  BY <1>1, <1>3 DEF LyInv, LyMemory
<1>6. PICK told : told = IF Unowned(lyNow) THEN lyTold ELSE [lyTold EXCEPT ![lyNow] = lyMem[lyNow]]
  OBVIOUS
<1>7. /\ told \in [LyItems -> Nat \cup {AnyValue, Default}]
      /\ \A i \in LyItems : told[i] = IF i = lyNow /\ ~Unowned(i) THEN lyMem[i] ELSE lyTold[i]
  BY <1>3, <1>4, <1>6
<1>8. lyTold' = [i \in LyItems |-> LyDecided(told[i], i)]
  BY <1>1, <1>6 DEF SaveDecides
\* What is told of an item afterwards, by what became of it.
<1>9. ASSUME NEW i \in LyItems
      PROVE  /\ i \notin LyDeclared(lyDoc) => lyTold'[i] = told[i]
             /\ Unowned(i) => lyTold'[i] = lyTold[i]
             /\ \A o \in LyOwners :
                  i \in LyDeclares(lyDoc, o) /\ o \in lyRun /\ told[i] # AnyValue =>
                    lyTold'[i] = IF lyMem[i] = lyDoc[o][i] THEN Default ELSE told[i]
             /\ told[i] = AnyValue => lyTold'[i] = AnyValue
             /\ lyTold'[i] \in Nat \cup {AnyValue, Default}
  <2>1. lyTold'[i] = LyDecided(told[i], i) /\ told[i] \in Nat \cup {AnyValue, Default}
    BY <1>7, <1>8
  <2>2. i \notin LyDeclared(lyDoc) => lyTold'[i] = told[i]
    BY <2>1 DEF LyDecided
  <2>3. Unowned(i) => lyTold'[i] = lyTold[i]
    BY <1>7, <2>1 DEF LyDecided, Unowned
  <2>4. ASSUME NEW o \in LyOwners, i \in LyDeclares(lyDoc, o), o \in lyRun, told[i] # AnyValue
        PROVE  lyTold'[i] = IF lyMem[i] = lyDoc[o][i] THEN Default ELSE told[i]
    <3>1. LyOwner(lyDoc, i) = o /\ i \in LyDeclared(lyDoc)
      BY <1>3, <2>4, LyOwned
    <3> QED
      BY <2>1, <2>4, <3>1 DEF LyDecided
  <2>5. told[i] = AnyValue => lyTold'[i] = AnyValue
    BY <2>1 DEF LyDecided
  <2>6. lyTold'[i] \in Nat \cup {AnyValue, Default}
    BY <2>1 DEF LyDecided
  <2> QED
    BY <2>2, <2>3, <2>4, <2>5, <2>6
\* Every item that is told of has been agreed upon, and memory shows it.
<1>10. ASSUME NEW i \in LyItems, told[i] # AnyValue, ~Unowned(i)
       PROVE  /\ lyMem[i] = IF told[i] # Default THEN told[i]
                            ELSE IF i \in LyDeclared(lyDoc) THEN lyDoc[LyOwner(lyDoc, i)][i] ELSE 0
              /\ i \notin lyAside
  <2>1. i \notin lyAside
    BY <1>5, <1>10
  <2>2. CASE i = lyNow
    <3>1. told[i] = lyMem[i] /\ lyMem[i] \in Nat
      BY <1>4, <1>7, <1>10, <2>2
    <3>2. told[i] # Default
      BY <3>1 DEF Default
    <3> QED
      BY <2>1, <3>1, <3>2
  <2>3. CASE i # lyNow
    <3>1. told[i] = lyTold[i] /\ lyMem[i] = LyAgreed(lyRun, i)
      BY <1>5, <1>7, <1>10, <2>1, <2>3
    <3> QED
      BY <1>10, <2>1, <3>1 DEF LyAgreed, Unowned
  <2> QED
    BY <2>1, <2>2, <2>3
<1>11. /\ lyOver' \in [LyOwners -> [val : [LyItems -> Nat], gone : SUBSET LyItems]]
       /\ \A o \in LyOwners : \A i \in LyDeclares(lyDoc, o) :
            IF o \in lyRun
            THEN /\ i \in lyOver'[o].gone <=> lyMem[i] = 0
                 /\ lyOver'[o].val[i] = IF lyMem[i] = lyDoc[o][i] THEN 0 ELSE lyMem[i]
            ELSE /\ i \in lyOver'[o].gone <=> i \in lyOver[o].gone
                 /\ lyOver'[o].val[i] = lyOver[o].val[i]
  BY <1>1, <1>2, <1>4, LySavesOver
<1>12. LyTypes'
  <2>1. lyTold' \in [LyItems -> Nat \cup {AnyValue, Default}]
    BY <1>8, <1>9
  <2> QED
    BY <1>1, <1>2, <1>11, <2>1 DEF LyTypes
<1>13. ASSUME NEW i \in LyItems PROVE LyFilesSay(i)'
  <2>1. CASE lyTold'[i] = AnyValue
    BY <2>1 DEF LyFilesSay
  <2>2. CASE lyTold'[i] # AnyValue /\ i \notin LyDeclared(lyDoc)
    <3>1. lyTold'[i] = told[i] /\ ~Unowned(i)
      BY <1>9, <2>2 DEF Unowned
    <3>2. lyBase[i] = LyMark(told[i])
      <4>1. CASE i = lyNow
        BY <1>3, <1>4, <1>7, <2>2, <3>1, <4>1 DEF LyMark, Default
      <4>2. CASE i # lyNow
        BY <1>7, <2>2, <3>1, <4>2 DEF LyInv, LyFilesSay
      <4> QED
        BY <4>1, <4>2
    <3>3. \A o \in LyOwners : i \notin LyDeclares(lyDoc', o)
      BY <1>1, <2>2 DEF LyDeclared
    <3> QED
      BY <1>1, <3>1, <3>2, <3>3 DEF LyFilesSay
  <2>3. CASE lyTold'[i] # AnyValue /\ i \in LyDeclared(lyDoc)
    <3>1. PICK o : o = LyOwner(lyDoc, i)
      OBVIOUS
    <3>2. /\ o \in LyOwners /\ i \in LyDeclares(lyDoc, o) /\ lyDoc[o][i] # 0
          /\ \A p \in LyOwners : i \in LyDeclares(lyDoc, p) => p = o
      BY <1>3, <2>3, <3>1, LyDeclaredBySomeone, LyOwned
    <3>3. /\ i \in lyOver'[o].gone <=> lyTold'[i] = 0
          /\ lyTold'[i] # 0 => lyOver'[o].val[i] = LyMark(lyTold'[i])
      <4>1. CASE o \notin lyRun
        <5>1. lyTold'[i] = lyTold[i]
          BY <1>9, <2>3, <3>1, <4>1 DEF Unowned
        <5>2. LyFilesSay(i) /\ lyTold[i] # AnyValue
          BY <2>3, <5>1 DEF LyInv
        <5>3. /\ i \in lyOver[o].gone <=> lyTold[i] = 0
              /\ lyTold[i] # 0 => lyOver[o].val[i] = LyMark(lyTold[i])
          BY <3>2, <5>2 DEF LyFilesSay
        <5> QED
          BY <1>11, <3>2, <4>1, <5>1, <5>3
      <4>2. CASE o \in lyRun
        <5>1. told[i] # AnyValue /\ ~Unowned(i)
          BY <1>9, <2>3, <3>1, <4>2 DEF Unowned
        <5>2. lyTold'[i] = IF lyMem[i] = lyDoc[o][i] THEN Default ELSE told[i]
          BY <1>9, <3>2, <4>2, <5>1
        <5>3. lyMem[i] = IF told[i] # Default THEN told[i] ELSE lyDoc[o][i]
          BY <1>10, <2>3, <3>1, <5>1
        <5>4. /\ i \in lyOver'[o].gone <=> lyMem[i] = 0
              /\ lyOver'[o].val[i] = IF lyMem[i] = lyDoc[o][i] THEN 0 ELSE lyMem[i]
          BY <1>11, <3>2, <4>2
        <5>5. CASE lyMem[i] = lyDoc[o][i]
          BY <3>2, <5>2, <5>4, <5>5 DEF LyMark, Default
        <5>6. CASE lyMem[i] # lyDoc[o][i]
          BY <5>2, <5>3, <5>4, <5>6 DEF LyMark
        <5> QED
          BY <5>5, <5>6
      <4> QED
        BY <4>1, <4>2
    <3>4. i \in LyDeclared(lyDoc')
      BY <1>1, <2>3
    <3>5. \A p \in LyOwners : i \in LyDeclares(lyDoc', p) => p = o
      BY <1>1, <3>2
    <3> QED
      BY <3>3, <3>4, <3>5 DEF LyFilesSay
  <2> QED
    BY <2>1, <2>2, <2>3
<1>14. \A i \in LyItems : Unowned(i)' = Unowned(i)
  BY <1>1 DEF Unowned, LyDeclared, LyDeclares, LyOwner
\* No save changes what memory is agreed to show.
<1>15. ASSUME NEW i \in LyItems, lyTold'[i] # AnyValue
       PROVE  /\ ~Unowned(i) => LyAgreed(lyRun, i)' = lyMem[i]
              /\ Unowned(i) => LyAgreed(lyRun, i)' = 0
  <2>1. LyAgreed(lyRun, i)' =
          IF Unowned(i) THEN 0
          ELSE IF lyTold'[i] # Default THEN lyTold'[i]
          ELSE IF i \in LyDeclared(lyDoc) THEN lyDoc[LyOwner(lyDoc, i)][i] ELSE 0
    BY <1>1 DEF LyAgreed, Unowned, LyDeclared, LyDeclares, LyOwner
  <2>2. CASE ~Unowned(i) /\ i \notin LyDeclared(lyDoc)
    BY <1>9, <1>10, <1>15, <2>1, <2>2
  <2>3. CASE ~Unowned(i) /\ i \in LyDeclared(lyDoc)
    <3>1. PICK o : o = LyOwner(lyDoc, i)
      OBVIOUS
    <3>2. o \in LyOwners /\ i \in LyDeclares(lyDoc, o) /\ o \in lyRun
      BY <2>3, <3>1, LyDeclaredBySomeone DEF Unowned
    <3>3. told[i] # AnyValue
      BY <1>9, <1>15
    <3>4. lyTold'[i] = IF lyMem[i] = lyDoc[o][i] THEN Default ELSE told[i]
      BY <1>9, <3>2, <3>3
    <3>5. lyMem[i] = IF told[i] # Default THEN told[i] ELSE lyDoc[o][i]
      BY <1>10, <2>3, <3>1, <3>3
    <3> QED
      BY <2>1, <2>3, <3>1, <3>4, <3>5
  <2> QED
    BY <2>1, <2>2, <2>3
<1>16. LyMemory'
  <2>1. \A i \in lyAside' : Unowned(i)'
    BY <1>1, <1>2, <1>5, <1>14 DEF LyTypes
  <2>2. ASSUME NEW i \in LyItems \ lyAside', lyTold'[i] # AnyValue PROVE lyMem'[i] = LyAgreed(lyRun, i)'
    <3>1. CASE ~Unowned(i)
      BY <1>1, <1>15, <2>2, <3>1
    <3>2. CASE Unowned(i)
      <4>1. lyTold'[i] = lyTold[i]
        BY <1>9, <3>2
      <4>2. lyMem[i] = 0
        BY <1>1, <1>5, <2>2, <3>2, <4>1 DEF LyAgreed, Unowned
      <4> QED
        BY <1>1, <1>15, <2>2, <3>2, <4>2
    <3> QED
      BY <3>1, <3>2
  <2> QED
    BY <1>3, <2>1, <2>2 DEF LyMemory
<1>17. LyReadOK'
  <2>1. ASSUME lyRead.on, NEW i \in LyItems \ (lyAside \cup lyRead.edited), lyTold'[i] # AnyValue
        PROVE  lyRead.mem[i] = LyAgreed(lyRun, i)'
    <3>1. i # lyNow /\ told[i] = lyTold[i] /\ told[i] # AnyValue
      BY <1>3, <1>7, <1>9, <2>1
    <3>2. lyRead.mem[i] = LyAgreed(lyRun, i) /\ lyMem[i] = LyAgreed(lyRun, i)
      BY <1>5, <2>1, <3>1 DEF LyInv, LyReadOK
    <3>3. Unowned(i) => LyAgreed(lyRun, i) = 0
      BY DEF LyAgreed, Unowned
    <3> QED
      BY <1>15, <2>1, <3>2, <3>3
  <2> QED
    BY <1>1, <1>3, <2>1 DEF LyReadOK
<1> QED
  BY <1>1, <1>12, <1>13, <1>16, <1>17 DEF LyInv, LyBoots, LySaves

LEMMA LyEditFailsInv == LyInv /\ LyEditFails => LyInv'
<1> SUFFICES ASSUME LyInv, LyEditFails PROVE LyInv'
  OBVIOUS
<1>1. PICK n \in LyItems, v \in LyValues \cup {0} : LyChange(n, v) /\ lyTold' = [lyTold EXCEPT ![n] = AnyValue]
  BY DEF LyEditFails
<1>2. /\ lyPc = "up" /\ lyPc' = lyPc /\ lyNow' = lyNow /\ lyAside' = lyAside
      /\ lyDoc' = lyDoc /\ lyRun' = lyRun /\ lyBase' = lyBase /\ lyOver' = lyOver
  BY DEF LyEditFails
<1>3. LyTypes
  BY DEF LyInv
<1>4. LyClash' = LyClash
  BY <1>2 DEF LyClash, LyDeclares
<1>5. /\ lyMem' \in [LyItems -> Nat] /\ \A k \in LyItems : k # n => lyMem'[k] = lyMem[k]
      /\ lyRead' \in [on : BOOLEAN, mem : [LyItems -> Nat], edited : SUBSET LyItems]
      /\ lyRead'.on = lyRead.on /\ lyRead'.mem = lyRead.mem
      /\ lyRead.on => lyRead'.edited = lyRead.edited \cup {n}
  BY <1>1, <1>3, LyChanges
<1>6. /\ lyTold' \in [LyItems -> Nat \cup {AnyValue, Default}] /\ lyTold'[n] = AnyValue
      /\ \A i \in LyItems : i # n => lyTold'[i] = lyTold[i]
  BY <1>1, <1>3 DEF LyTypes
<1>7. LyTypes'
  BY <1>2, <1>3, <1>5, <1>6 DEF LyTypes
<1>8. ASSUME NEW i \in LyItems PROVE LyFilesSay(i)'
  BY <1>2, <1>6, LyStillSays DEF LyInv
<1>9. ASSUME NEW i \in LyItems, i # n PROVE LyAgreed(lyRun, i)' = LyAgreed(lyRun, i)
  BY <1>2, <1>6, <1>9 DEF LyAgreed, LyDeclared, LyDeclares, LyOwner
<1>10. \A i \in LyItems : Unowned(i)' = Unowned(i)
  BY <1>2 DEF Unowned, LyDeclared, LyDeclares, LyOwner
<1>11. LyMemory'
  <2>1. CASE LyClash
    BY <1>2, <1>4, <2>1 DEF LyInv, LyMemory
  <2>2. CASE ~LyClash
    <3>1. \A i \in lyAside' : Unowned(i)'
      BY <1>2, <1>3, <1>10, <2>2 DEF LyInv, LyMemory, LyTypes
    <3>2. ASSUME NEW i \in LyItems \ lyAside', lyTold'[i] # AnyValue PROVE lyMem'[i] = LyAgreed(lyRun, i)'
      <4>1. i # n /\ lyMem[i] = LyAgreed(lyRun, i)
        BY <1>2, <1>6, <2>2, <3>2 DEF LyInv, LyMemory
      <4> QED
        BY <1>5, <1>9, <3>2, <4>1
    <3> QED
      BY <1>4, <2>2, <3>1, <3>2 DEF LyMemory
  <2> QED
    BY <2>1, <2>2
<1>12. LyReadOK'
  <2>1. ASSUME lyRead'.on, NEW i \in LyItems \ (lyAside' \cup lyRead'.edited), lyTold'[i] # AnyValue
        PROVE  lyRead'.mem[i] = LyAgreed(lyRun, i)'
    <3>1. i # n /\ lyRead.on /\ i \notin lyAside \cup lyRead.edited
      BY <1>2, <1>5, <1>6, <2>1
    <3>2. lyRead.mem[i] = LyAgreed(lyRun, i)
      BY <1>6, <2>1, <3>1 DEF LyInv, LyReadOK
    <3> QED
      BY <1>5, <1>9, <2>1, <3>1, <3>2
  <2> QED
    BY <1>4, <1>5, <2>1 DEF LyInv, LyReadOK
<1> QED
  BY <1>2, <1>7, <1>8, <1>11, <1>12 DEF LyInv, LyBoots, LySaves

LEMMA LyReloadInv == LyInv /\ LyReload => LyInv'
<1> SUFFICES ASSUME LyInv, LyReload PROVE LyInv'
  OBVIOUS
<1>1. /\ lyPc = "up" /\ ~LyConflict(lyDoc, lyBase)
      /\ lyMem' = LyLoaded(lyDoc, lyRun, lyBase) /\ lyAside' = {}
      /\ lyRead' = [lyRead EXCEPT !.edited = IF lyRead.on THEN LyItems ELSE @]
      /\ lyDoc' = lyDoc /\ lyRun' = lyRun /\ lyBase' = lyBase /\ lyOver' = lyOver /\ lyPc' = lyPc /\ lyNow' = lyNow
      /\ lyTold' = lyTold
  BY DEF LyReload
<1>2. LyTypes /\ lyRead \in [on : BOOLEAN, mem : [LyItems -> Nat], edited : SUBSET LyItems]
  BY DEF LyInv, LyTypes
<1>3. ~LyClash /\ ~LyClash'
  BY <1>1 DEF LyConflict, LyClash, LyDeclares
<1>4. /\ lyMem' \in [LyItems -> Nat]
      /\ lyRead' \in [on : BOOLEAN, mem : [LyItems -> Nat], edited : SUBSET LyItems]
      /\ lyRead'.on = lyRead.on /\ (lyRead.on => lyRead'.edited = LyItems)
  BY <1>1, <1>2, LyLoadsMap
<1>5. LyTypes'
  BY <1>1, <1>2, <1>4 DEF LyTypes
<1>6. ASSUME NEW i \in LyItems PROVE LyFilesSay(i)'
  BY <1>1, LyStillSays DEF LyInv
<1>7. ASSUME NEW i \in LyItems, lyTold'[i] # AnyValue PROVE lyMem'[i] = LyAgreed(lyRun, i)'
  <2>1. lyMem'[i] = LyAgreed(lyRun, i)
    BY <1>1, <1>2, <1>3, <1>7, LyLoadsAgreed DEF LyInv
  <2> QED
    BY <1>1, <2>1 DEF LyAgreed, LyDeclared, LyDeclares, LyOwner
<1>8. LyMemory' /\ LyReadOK'
  BY <1>1, <1>3, <1>4, <1>7 DEF LyMemory, LyReadOK
<1> QED
  BY <1>1, <1>5, <1>6, <1>8 DEF LyInv, LyBoots, LySaves

LEMMA LyReadsInv == LyInv /\ LyReads => LyInv'
<1> SUFFICES ASSUME LyInv, LyReads PROVE LyInv'
  OBVIOUS
<1>1. /\ lyPc \in {"up", "saving"} /\ ~LyConflict(lyDoc, lyBase)
      /\ lyRead' = [on |-> TRUE, mem |-> LyLoaded(lyDoc, lyRun, lyBase),
                    edited |-> IF lyNow = NoItem THEN {} ELSE {lyNow}]
      /\ lyDoc' = lyDoc /\ lyRun' = lyRun /\ lyBase' = lyBase /\ lyOver' = lyOver /\ lyPc' = lyPc /\ lyNow' = lyNow
      /\ lyTold' = lyTold /\ lyMem' = lyMem /\ lyAside' = lyAside
  BY DEF LyReads
<1>2. LyTypes
  BY DEF LyInv
<1>3. ~LyClash /\ ~LyClash'
  BY <1>1 DEF LyConflict, LyClash, LyDeclares
<1>4. PICK edited : edited = IF lyNow = NoItem THEN {} ELSE {lyNow}
  OBVIOUS
<1>5. edited \subseteq LyItems /\ (lyPc = "saving" => lyNow \in edited)
  BY <1>1, <1>4, LyAssumption DEF LyInv, LySaves
<1>6. LyLoaded(lyDoc, lyRun, lyBase) \in [LyItems -> Nat]
  BY <1>2, LyLoadsMap
<1>7. /\ lyRead' \in [on : BOOLEAN, mem : [LyItems -> Nat], edited : SUBSET LyItems]
      /\ lyRead'.mem = LyLoaded(lyDoc, lyRun, lyBase) /\ lyRead'.edited = edited
  BY <1>1, <1>4, <1>5, <1>6
<1>8. LyTypes'
  BY <1>1, <1>2, <1>7 DEF LyTypes
<1>9. ASSUME NEW i \in LyItems PROVE LyFilesSay(i)'
  BY <1>1, LyStillSays DEF LyInv
<1>10. ASSUME NEW i \in LyItems PROVE LyAgreed(lyRun, i)' = LyAgreed(lyRun, i)
  BY <1>1 DEF LyAgreed, LyDeclared, LyDeclares, LyOwner
<1>11. LySaves'
  BY <1>1, <1>3, <1>5, <1>7 DEF LyInv, LySaves, LyDeclared, LyDeclares
<1>12. \A i \in LyItems : Unowned(i)' = Unowned(i)
  BY <1>1 DEF Unowned, LyDeclared, LyDeclares, LyOwner
<1>13. LyMemory'
  <2>1. \A i \in lyAside' : Unowned(i)'
    BY <1>1, <1>2, <1>3, <1>12 DEF LyInv, LyMemory, LyTypes
  <2>2. ASSUME NEW i \in LyItems \ lyAside', lyTold'[i] # AnyValue PROVE lyMem'[i] = LyAgreed(lyRun, i)'
    BY <1>1, <1>3, <1>10, <2>2 DEF LyInv, LyMemory
  <2> QED
    BY <1>3, <2>1, <2>2 DEF LyMemory
<1>14. LyReadOK'
  <2>1. ASSUME NEW i \in LyItems, lyTold'[i] # AnyValue PROVE lyRead'.mem[i] = LyAgreed(lyRun, i)'
    <3>1. LyFilesSay(i) /\ lyTold[i] # AnyValue
      BY <1>1, <2>1 DEF LyInv
    <3>2. LyLoaded(lyDoc, lyRun, lyBase)[i] = LyAgreed(lyRun, i)
      BY <1>2, <1>3, <3>1, LyLoadsAgreed
    <3> QED
      BY <1>7, <1>10, <3>2
  <2> QED
    BY <1>3, <2>1 DEF LyReadOK
<1> QED
  BY <1>1, <1>8, <1>9, <1>11, <1>13, <1>14 DEF LyInv, LyBoots

LEMMA LyPublishesInv == LyInv /\ LyPublishes => LyInv'
<1> SUFFICES ASSUME LyInv, LyPublishes PROVE LyInv'
  OBVIOUS
<1>1. /\ lyRead.on /\ lyPc = "up" /\ lyMem' = lyRead.mem /\ lyRead' = NoLoad
      /\ lyTold' = [i \in LyItems |-> IF i \in lyRead.edited THEN AnyValue ELSE lyTold[i]]
      /\ lyAside' = lyAside \ {i \in LyItems : lyRead.mem[i] = LyLoaded(lyDoc, lyRun, lyBase)[i]}
      /\ lyDoc' = lyDoc /\ lyRun' = lyRun /\ lyBase' = lyBase /\ lyOver' = lyOver /\ lyPc' = lyPc /\ lyNow' = lyNow
  BY DEF LyPublishes
<1>2. LyTypes /\ lyRead \in [on : BOOLEAN, mem : [LyItems -> Nat], edited : SUBSET LyItems]
  BY DEF LyInv, LyTypes
<1>3. ~LyClash /\ ~LyClash'
  BY <1>1 DEF LyInv, LyReadOK, LyClash, LyDeclares
<1>4. \A i \in LyItems : /\ lyTold'[i] \in {lyTold[i], AnyValue}
                         /\ lyTold'[i] # AnyValue => lyTold'[i] = lyTold[i] /\ i \notin lyRead.edited
  BY <1>1
<1>5. LyTypes'
  <2>1. lyTold' \in [LyItems -> Nat \cup {AnyValue, Default}]
    BY <1>1, <1>2 DEF LyTypes
  <2>2. lyRead' \in [on : BOOLEAN, mem : [LyItems -> Nat], edited : SUBSET LyItems]
    BY <1>1 DEF NoLoad, NoItems
  <2> QED
    BY <1>1, <1>2, <2>1, <2>2 DEF LyTypes
<1>6. ASSUME NEW i \in LyItems PROVE LyFilesSay(i)'
  BY <1>1, <1>4, LyStillSays DEF LyInv
<1>7. LyMemory'
  <2>1. \A i \in lyAside' : Unowned(i)'
    <3>1. \A i \in LyItems : Unowned(i)' = Unowned(i)
      BY <1>1 DEF Unowned, LyDeclared, LyDeclares, LyOwner
    <3> QED
      BY <1>1, <1>2, <1>3, <3>1 DEF LyInv, LyMemory, LyTypes
  <2>2. ASSUME NEW i \in LyItems \ lyAside', lyTold'[i] # AnyValue PROVE lyMem'[i] = LyAgreed(lyRun, i)'
    <3>1. lyTold'[i] = lyTold[i] /\ i \notin lyRead.edited /\ lyTold[i] # AnyValue
      BY <1>4, <2>2
    <3>2. lyRead.mem[i] = LyAgreed(lyRun, i)
      <4>1. CASE i \notin lyAside
        BY <1>1, <3>1, <4>1 DEF LyInv, LyReadOK
      <4>2. CASE i \in lyAside
        <5>1. lyRead.mem[i] = LyLoaded(lyDoc, lyRun, lyBase)[i]
          BY <1>1, <2>2, <4>2
        <5> QED
          BY <1>2, <1>3, <3>1, <5>1, LyLoadsAgreed DEF LyInv
      <4> QED
        BY <4>1, <4>2
    <3>3. LyAgreed(lyRun, i)' = LyAgreed(lyRun, i)
      BY <1>1, <3>1 DEF LyAgreed, LyDeclared, LyDeclares, LyOwner
    <3> QED
      BY <1>1, <3>2, <3>3
  <2> QED
    BY <1>3, <2>1, <2>2 DEF LyMemory
<1> QED
  BY <1>1, <1>5, <1>6, <1>7 DEF LyInv, LyBoots, LySaves, LyReadOK, NoLoad

LEMMA LyStopsInv == LyInv /\ LyStops => LyInv'
<1> SUFFICES ASSUME LyInv, LyStops PROVE LyInv'
  OBVIOUS
<1>1. PICK o \in lyRun : lyRun' = lyRun \ {o} /\ lyAside' = lyAside \cup LyDeclares(lyDoc, o)
  BY DEF LyStops
<1>2. /\ lyPc = "up" /\ lyMem' = lyMem /\ lyRead' = lyRead /\ lyTold' = lyTold
      /\ lyDoc' = lyDoc /\ lyBase' = lyBase /\ lyOver' = lyOver /\ lyPc' = lyPc /\ lyNow' = lyNow
  BY DEF LyStops
<1>3. LyTypes /\ o \in LyOwners
  BY DEF LyInv, LyTypes
<1>4. LyClash' = LyClash
  BY <1>2 DEF LyClash, LyDeclares
<1>5. LyTypes'
  BY <1>1, <1>2, <1>3 DEF LyTypes, LyDeclares
<1>6. ASSUME NEW i \in LyItems PROVE LyFilesSay(i)'
  BY <1>2, LyStillSays DEF LyInv
\* What is agreed changes for the items of the plugin that stops.
<1>7. ASSUME ~LyClash, NEW i \in LyItems, i \notin LyDeclares(lyDoc, o)
      PROVE  LyAgreed(lyRun, i)' = LyAgreed(lyRun, i)
  <2>1. LyAgreed(lyRun, i)' = LyAgreed(lyRun', i)
    BY <1>2 DEF LyAgreed, LyDeclared, LyDeclares, LyOwner
  <2>2. i \in LyDeclared(lyDoc) => LyOwner(lyDoc, i) # o
    BY <1>7, LyDeclaredBySomeone
  <2> QED
    BY <1>1, <2>1, <2>2 DEF LyAgreed
<1>8. ASSUME ~LyClash, NEW i \in lyAside' PROVE Unowned(i)'
  <2>1. i \in LyItems /\ (Unowned(i) \/ i \in LyDeclares(lyDoc, o))
    BY <1>1, <1>2, <1>3, <1>8 DEF LyInv, LyMemory, LyTypes, LyDeclares
  <2>2. CASE Unowned(i)
    BY <1>1, <1>2, <2>2 DEF Unowned, LyDeclared, LyDeclares, LyOwner
  <2>3. CASE i \in LyDeclares(lyDoc, o)
    <3>1. LyOwner(lyDoc, i) = o /\ i \in LyDeclared(lyDoc)
      BY <1>3, <1>8, <2>1, <2>3, LyOwned
    <3>2. LyOwner(lyDoc, i) \notin lyRun'
      BY <1>1, <3>1
    <3> QED
      BY <1>2, <3>1, <3>2 DEF Unowned, LyDeclared, LyDeclares, LyOwner
  <2> QED
    BY <2>1, <2>2, <2>3
<1>9. LyMemory'
  <2>1. CASE LyClash
    BY <1>1, <1>2, <1>4, <2>1 DEF LyInv, LyMemory, LyDeclares
  <2>2. CASE ~LyClash
    <3>1. ASSUME NEW i \in LyItems \ lyAside', lyTold'[i] # AnyValue PROVE lyMem'[i] = LyAgreed(lyRun, i)'
      BY <1>1, <1>2, <1>7, <2>2, <3>1 DEF LyInv, LyMemory
    <3> QED
      BY <1>4, <1>8, <2>2, <3>1 DEF LyMemory
  <2> QED
    BY <2>1, <2>2
<1>10. LyReadOK'
  <2>1. ASSUME lyRead.on, NEW i \in LyItems \ (lyAside' \cup lyRead.edited), lyTold[i] # AnyValue
        PROVE  lyRead.mem[i] = LyAgreed(lyRun, i)'
    BY <1>1, <1>7, <2>1 DEF LyInv, LyReadOK
  <2> QED
    BY <1>2, <1>4, <2>1 DEF LyInv, LyReadOK
<1> QED
  BY <1>2, <1>5, <1>6, <1>9, <1>10 DEF LyInv, LyBoots, LySaves

LEMMA LyByHandInv == LyInv /\ LyByHand => LyInv'
<1> SUFFICES ASSUME LyInv, LyByHand PROVE LyInv'
  OBVIOUS
<1>1. PICK n \in LyItems, v \in LyValues \cup {0} :
        lyBase' = [lyBase EXCEPT ![n] = v] /\ lyTold' = [lyTold EXCEPT ![n] = AnyValue]
  BY DEF LyByHand
<1>2. /\ lyPc = "up" /\ lyMem' = lyMem /\ lyRead' = lyRead /\ lyAside' = lyAside /\ lyRun' = lyRun
      /\ lyDoc' = lyDoc /\ lyOver' = lyOver /\ lyPc' = lyPc /\ lyNow' = lyNow
  BY DEF LyByHand
<1>3. LyTypes /\ v \in Nat
  BY LyAssumption DEF LyInv
<1>4. LyClash' = LyClash
  BY <1>2 DEF LyClash, LyDeclares
<1>5. /\ lyTold' \in [LyItems -> Nat \cup {AnyValue, Default}] /\ lyTold'[n] = AnyValue
      /\ \A i \in LyItems : i # n => lyTold'[i] = lyTold[i] /\ lyBase'[i] = lyBase[i]
      /\ lyBase' \in [LyItems -> Nat]
  BY <1>1, <1>3 DEF LyTypes
<1>6. LyTypes'
  BY <1>2, <1>3, <1>5 DEF LyTypes
<1>7. ASSUME NEW i \in LyItems PROVE LyFilesSay(i)'
  <2>1. CASE i = n
    BY <1>5, <2>1 DEF LyFilesSay
  <2>2. CASE i # n
    BY <1>2, <1>5, <2>2, LyStillSays DEF LyInv
  <2> QED
    BY <2>1, <2>2
<1>8. ASSUME NEW i \in LyItems, i # n PROVE LyAgreed(lyRun, i)' = LyAgreed(lyRun, i)
  BY <1>2, <1>5, <1>8 DEF LyAgreed, LyDeclared, LyDeclares, LyOwner
<1>9. \A i \in LyItems : Unowned(i)' = Unowned(i)
  BY <1>2 DEF Unowned, LyDeclared, LyDeclares, LyOwner
<1>10. LyMemory'
  <2>1. CASE LyClash
    BY <1>2, <1>4, <2>1 DEF LyInv, LyMemory
  <2>2. CASE ~LyClash
    <3>1. \A i \in lyAside' : Unowned(i)'
      BY <1>2, <1>3, <1>9, <2>2 DEF LyInv, LyMemory, LyTypes
    <3>2. ASSUME NEW i \in LyItems \ lyAside', lyTold'[i] # AnyValue PROVE lyMem'[i] = LyAgreed(lyRun, i)'
      BY <1>2, <1>5, <1>8, <2>2, <3>2 DEF LyInv, LyMemory
    <3> QED
      BY <1>4, <2>2, <3>1, <3>2 DEF LyMemory
  <2> QED
    BY <2>1, <2>2
<1>11. LyReadOK'
  <2>1. ASSUME lyRead.on, NEW i \in LyItems \ (lyAside \cup lyRead.edited), lyTold'[i] # AnyValue
        PROVE  lyRead.mem[i] = LyAgreed(lyRun, i)'
    BY <1>5, <1>8, <2>1 DEF LyInv, LyReadOK
  <2> QED
    BY <1>2, <1>4, <2>1 DEF LyInv, LyReadOK
<1> QED
  BY <1>2, <1>6, <1>7, <1>10, <1>11 DEF LyInv, LyBoots, LySaves

\* extension_host/resources.py, agent/config_manager.py: what a user decided about an
\* agent is what the system shows, for any plugins, items and releases, however edits,
\* saves, reloads, stops of plugins and restarts follow each other.
THEOREM DecisionsSafe == LySpec => []DecisionsKept
<1>1. LyInit => LyInv
  BY LyInitInv
<1>2. LyInv /\ [LyNext]_lyVars => LyInv'
  <2> SUFFICES ASSUME LyInv, [LyNext]_lyVars PROVE LyInv'
    OBVIOUS
  <2>1. CASE UNCHANGED lyVars
    <3>1. /\ lyDoc' = lyDoc /\ lyRun' = lyRun /\ lyBase' = lyBase /\ lyOver' = lyOver /\ lyMem' = lyMem
          /\ lyPc' = lyPc /\ lyNow' = lyNow /\ lyRead' = lyRead /\ lyTold' = lyTold /\ lyAside' = lyAside
      BY <2>1 DEF lyVars
    <3>2. ASSUME NEW i \in LyItems PROVE LyFilesSay(i)'
      BY <3>1, LyStillSays DEF LyInv
    <3>3. LyTypes' /\ LyBoots' /\ LySaves'
      BY <3>1 DEF LyInv, LyTypes, LyBoots, LySaves, LyClash, LyDeclared, LyDeclares
    <3>4. LyMemory' /\ LyReadOK'
      BY <3>1 DEF LyInv, LyMemory, LyReadOK, LyClash, Unowned, LyAgreed, LyDeclared, LyDeclares, LyOwner
    <3> QED
      BY <3>1, <3>2, <3>3, <3>4 DEF LyInv
  <2> QED
    BY <2>1, LySyncInv, LyStartInv, LyRestartInv, LyEditInv, LyEditedInv, LyEditFailsInv, LyReloadInv,
       LyReadsInv, LyPublishesInv, LyStopsInv, LyByHandInv DEF LyNext
<1>3. LyInv => DecisionsKept
  <2> SUFFICES ASSUME LyInv, lyPc = "up", NEW i \in LyItems \ lyAside, lyTold[i] # AnyValue
               PROVE  lyMem[i] = Agreed(i)
    BY DEF DecisionsKept
  <2>1. ~LyClash
    BY DEF LyInv, LyMemory
  <2>2. lyMem[i] = LyAgreed(lyRun, i)
    BY <2>1 DEF LyInv, LyMemory
  <2> QED
    BY <2>2 DEF LyAgreed, Agreed, Unowned
<1> QED
  BY <1>1, <1>2, <1>3, PTL DEF LySpec

-----------------------------------------------------------------------------
(***************************************************************************)
(* Catalog: the invariant.                                                 *)
(***************************************************************************)
CtSpec == CtInit /\ [][CtNext]_ctVars

CtFlags   == {"none", "plain", "set"}
CtConfigs == [flag : [CtItems -> CtFlags], of : [CtItems -> SUBSET CtGroups], groups : SUBSET CtGroups]
CtLoops   == {"idle", "scan", "sync", "swap"}
CtTools   == {"idle", "created", "synced", "save", "edited", "deleted", "group"}
CtTypes ==
  /\ ctRules \in BOOLEAN /\ ctDir \subseteq CtItems /\ ctMem \in [CtItems -> CtFlags]
  /\ ctCfg \in CtConfigs /\ ctDisk \in CtConfigs
  /\ ctTold \in [CtItems -> CtFlags \cup {"any"}]
  /\ ctLoop.pc \in CtLoops /\ ctLoop.seen \subseteq CtItems
  /\ ctTool \in [pc : CtTools, item : CtItems \cup {0}, group : CtGroups \cup {0}, seen : SUBSET CtItems, beside : BOOLEAN]
  /\ ctTool.pc # "idle" => ctTool.item \in CtItems
  /\ ctTool.pc = "group" => ctTool.group \in CtGroups
  /\ ctWiped \subseteq CtItems /\ ctGone \subseteq CtGroups
  /\ ctRules => ctLoop.pc # "swap" /\ ctTool.pc # "synced" /\ \A i \in CtItems : ctMem[i] # "set"

\* A call of a tool is about item i.
CtInHand(i) == ctTool.pc # "idle" /\ ctTool.item = i

\* Item i is everywhere what its user was told: in memory, as a directory and in both
\* configurations, since every save writes the whole of the one in memory.
CtEverywhere(i) ==
  /\ CtShown(i) = ctTold[i] /\ (i \in ctDir <=> ctTold[i] # "none")
  /\ ctTold[i] # "none" => FlagIn(ctCfg, i) = ctTold[i] /\ FlagIn(ctDisk, i) = ctTold[i]

\* What a tool that nothing came beside has made of its item so far.
CtSoFar(i) ==
  CASE ctTool.pc = "created" ->
         ctTold[i] = "plain" /\ ctMem[i] = "plain" /\ i \in ctDir /\ FlagIn(ctCfg, i) = FlagIn(ctDisk, i)
    [] ctTool.pc = "synced" -> ctTold[i] = "plain" /\ ctMem[i] = "plain" /\ i \in ctDir
    [] ctTool.pc = "save" ->
         /\ CtShown(i) = ctTold[i] /\ (i \in ctDir <=> ctTold[i] # "none")
         /\ ctTold[i] # "none" => FlagIn(ctCfg, i) = ctTold[i]
    [] ctTool.pc = "deleted" -> ctTold[i] = "none" /\ ctMem[i] = "none" /\ i \notin ctDir
    [] OTHER -> CtEverywhere(i) /\ ctTold[i] # "none"

CtItemOK(i) ==
  \/ i \in ctWiped \/ ctTold[i] = "any"
  \/ CtInHand(i) /\ (ctTool.beside \/ CtSoFar(i))
  \/ ~CtInHand(i) /\ CtEverywhere(i)

\* A reload has seen the directories there are.
CtSeen ==
  ctLoop.pc \in {"sync", "swap"} =>
    \A i \in CtItems : ctTold[i] # "any" /\ ~CtInHand(i) => (i \in ctLoop.seen <=> i \in ctDir)

\* No configuration has a group that was deleted.
CtClean(cfg) == cfg.groups \cap ctGone = {} /\ \A i \in CtItems : cfg.of[i] \cap ctGone = {}

CtInv ==
  /\ CtTypes /\ CtSeen /\ CtClean(ctCfg) /\ CtClean(ctDisk)
  /\ ctTool.pc # "idle" /\ ~ctTool.beside => ctLoop.pc = "idle"
  /\ \A i \in CtItems : CtItemOK(i)

-----------------------------------------------------------------------------
\* What is claimed of an item holds on while nothing that it speaks of changes.
CtSame(k) ==
  /\ ctTold'[k] = ctTold[k] /\ ctMem'[k] = ctMem[k] /\ (k \in ctDir' <=> k \in ctDir)
  /\ \/ k \in ctWiped'
     \/ /\ FlagIn(ctCfg', k) = FlagIn(ctCfg, k)
        /\ FlagIn(ctDisk', k) \in {FlagIn(ctDisk, k), FlagIn(ctCfg, k)}
CtToolSame(k) ==
  \/ ~CtInHand(k) /\ ~(ctTool'.pc # "idle" /\ ctTool'.item = k)
  \/ CtInHand(k) /\ ctTool'.pc = ctTool.pc /\ ctTool'.item = k /\ (ctTool.beside => ctTool'.beside)

LEMMA CtFrame ==
  ASSUME NEW k \in CtItems, CtItemOK(k), CtSame(k), CtToolSame(k), ctRules' = ctRules, ctWiped \subseteq ctWiped'
  PROVE  CtItemOK(k)'
<1>1. CASE k \in ctWiped' \/ ctTold[k] = "any"
  BY <1>1 DEF CtItemOK, CtSame
<1>2. CASE ~(k \in ctWiped' \/ ctTold[k] = "any")
  <2>1. /\ ctTold'[k] = ctTold[k] /\ ctMem'[k] = ctMem[k] /\ (k \in ctDir' <=> k \in ctDir)
        /\ FlagIn(ctCfg', k) = FlagIn(ctCfg, k)
        /\ FlagIn(ctDisk', k) \in {FlagIn(ctDisk, k), FlagIn(ctCfg, k)}
    BY <1>2 DEF CtSame
  <2>2. CtShown(k)' = CtShown(k)
    BY <2>1 DEF CtShown
  <2>3. CtEverywhere(k) => CtEverywhere(k)'
    BY <2>1, <2>2 DEF CtEverywhere
  <2>4. CASE ~CtInHand(k)
    <3>1. ~CtInHand(k)' /\ CtEverywhere(k)
      BY <1>2, <2>4 DEF CtItemOK, CtToolSame, CtInHand
    <3> QED
      BY <2>3, <3>1 DEF CtItemOK
  <2>5. CASE CtInHand(k)
    <3>1. /\ CtInHand(k)' /\ ctTool'.pc = ctTool.pc /\ (ctTool.beside => ctTool'.beside)
          /\ ctTool.beside \/ CtSoFar(k)
      BY <1>2, <2>5 DEF CtItemOK, CtToolSame, CtInHand
    <3>2. CtSoFar(k) => CtSoFar(k)'
      BY <2>1, <2>2, <2>3, <3>1 DEF CtSoFar
    <3> QED
      BY <3>1, <3>2 DEF CtItemOK
  <2> QED
    BY <2>4, <2>5
<1> QED
  BY <1>1, <1>2

\* A step that the loop's reload has no part in touches the items of T.
LEMMA CtStepInv ==
  ASSUME CtInv, NEW T \in SUBSET CtItems, CtTypes', CtClean(ctCfg)', CtClean(ctDisk)',
         ctRules' = ctRules, ctLoop' = ctLoop, ctWiped \subseteq ctWiped',
         \A k \in CtItems \ T : CtSame(k) /\ CtToolSame(k),
         \A k \in T : CtItemOK(k)' /\ (ctLoop.pc = "idle" \/ ctTold'[k] = "any" \/ CtInHand(k)'),
         ctTool'.pc # "idle" /\ ~ctTool'.beside => ctLoop.pc = "idle"
  PROVE  CtInv'
<1>1. ASSUME NEW k \in CtItems PROVE CtItemOK(k)'
  <2>1. CASE k \in T
    BY <2>1
  <2>2. CASE k \notin T
    BY <2>2, CtFrame DEF CtInv
  <2> QED
    BY <2>1, <2>2
<1>2. CtSeen'
  <2>1. ASSUME ctLoop.pc \in {"sync", "swap"}, NEW k \in CtItems, ctTold'[k] # "any", ~CtInHand(k)'
        PROVE  k \in ctLoop.seen <=> k \in ctDir'
    <3>1. k \notin T
      BY <2>1
    <3>2. CtSame(k) /\ CtToolSame(k)
      BY <3>1
    <3>3. ctTold[k] # "any" /\ ~CtInHand(k) /\ (k \in ctDir' <=> k \in ctDir)
      BY <2>1, <3>2 DEF CtSame, CtToolSame, CtInHand
    <3> QED
      BY <2>1, <3>3 DEF CtInv, CtSeen
  <2> QED
    BY <2>1 DEF CtSeen
<1> QED
  BY <1>1, <1>2 DEF CtInv

\* A request that answers about item i, which a tool in the middle of it does not know.
LEMMA CtAnswered ==
  ASSUME CtTypes, NEW i \in CtItems, NEW said \in CtFlags \cup {"any"}, Answers(i, said)
  PROVE  /\ ctTold' \in [CtItems -> CtFlags \cup {"any"}] /\ ctTold'[i] = said
         /\ \A k \in CtItems : k # i => ctTold'[k] = ctTold[k]
         /\ ctTool' \in [pc : CtTools, item : CtItems \cup {0}, group : CtGroups \cup {0}, seen : SUBSET CtItems, beside : BOOLEAN]
         /\ ctTool'.pc = ctTool.pc /\ ctTool'.item = ctTool.item /\ ctTool'.group = ctTool.group
         /\ ctTool.beside => ctTool'.beside
         /\ CtInHand(i) => ctTool'.beside
<1>1. /\ ctTold' = [ctTold EXCEPT ![i] = said]
      /\ ctTool' = [ctTool EXCEPT !.beside = @ \/ (ctTool.pc # "idle" /\ ctTool.item = i)]
  BY DEF Answers, Tells
<1>2. /\ ctTold \in [CtItems -> CtFlags \cup {"any"}]
      /\ ctTool \in [pc : CtTools, item : CtItems \cup {0}, group : CtGroups \cup {0}, seen : SUBSET CtItems, beside : BOOLEAN]
  BY DEF CtTypes
<1>3. PICK b \in BOOLEAN : b = (ctTool.beside \/ (ctTool.pc # "idle" /\ ctTool.item = i))
  BY <1>2
<1>4. ctTool' = [ctTool EXCEPT !.beside = b]
  BY <1>1, <1>3
<1> QED
  BY <1>1, <1>2, <1>3, <1>4 DEF CtInHand

LEMMA CtRequestInv ==
  ASSUME CtInv, CtRequest, CtMeanwhile, NEW i \in CtItems, NEW said \in CtFlags \cup {"any"}, Answers(i, said),
         ctDir' \subseteq CtItems, ctMem' \in [CtItems -> CtFlags], ctCfg' \in CtConfigs, ctDisk' \in {ctDisk, ctCfg'},
         ctRules => \A k \in CtItems : ctMem'[k] # "set",
         \A k \in CtItems \ {i} : /\ ctMem'[k] = ctMem[k] /\ (k \in ctDir' <=> k \in ctDir)
                                  /\ FlagIn(ctCfg', k) = FlagIn(ctCfg, k),
         \A k \in CtItems : ctCfg'.of[k] \subseteq ctCfg.of[k], ctCfg'.groups = ctCfg.groups, ctGone' = ctGone,
         said = "any" \/ i \in ctWiped \/ CtInHand(i) \/ CtEverywhere(i)'
  PROVE  CtInv'
<1>1. /\ ctTold' \in [CtItems -> CtFlags \cup {"any"}] /\ ctTold'[i] = said
      /\ \A k \in CtItems : k # i => ctTold'[k] = ctTold[k]
      /\ ctTool' \in [pc : CtTools, item : CtItems \cup {0}, group : CtGroups \cup {0}, seen : SUBSET CtItems, beside : BOOLEAN]
      /\ ctTool'.pc = ctTool.pc /\ ctTool'.item = ctTool.item /\ ctTool'.group = ctTool.group
      /\ ctTool.beside => ctTool'.beside
      /\ CtInHand(i) => ctTool'.beside
  BY CtAnswered DEF CtInv
<1>2. ctRules' = ctRules /\ ctLoop' = ctLoop /\ ctWiped' = ctWiped /\ ctLoop.pc = "idle"
  BY DEF CtMeanwhile, CtRequest
<1>3. CtTypes'
  BY <1>1, <1>2 DEF CtInv, CtTypes
<1>4. CtClean(ctCfg)' /\ CtClean(ctDisk)'
  BY DEF CtInv, CtClean
<1>5. \A k \in CtItems \ {i} : CtSame(k) /\ CtToolSame(k)
  BY <1>1 DEF CtSame, CtToolSame, CtInHand
<1>6. CtItemOK(i)'
  BY <1>1, <1>2 DEF CtItemOK, CtInHand
<1>7. PICK T \in SUBSET CtItems : T = {i}
  OBVIOUS
<1>8. \A k \in T : CtItemOK(k)' /\ (ctLoop.pc = "idle" \/ ctTold'[k] = "any" \/ CtInHand(k)')
  BY <1>2, <1>6, <1>7
<1> QED
  BY <1>2, <1>3, <1>4, <1>5, <1>7, <1>8, CtStepInv

-----------------------------------------------------------------------------
LEMMA CtInitInv == CtInit => CtInv
<1> SUFFICES ASSUME CtInit PROVE CtInv
  OBVIOUS
<1>1. /\ ctCfg.groups = CtGroups /\ ctCfg.flag = [i \in CtItems |-> "none"] /\ ctCfg.of = [i \in CtItems |-> {}]
      /\ ctCfg \in CtConfigs /\ ctDisk = ctCfg
  BY DEF CtInit, CtNoConfig, CtConfigs, CtFlags
<1>2. CtTypes
  BY <1>1 DEF CtInit, CtTypes, CtIdle, CtFlags, CtLoops, CtTools
<1>3. ASSUME NEW i \in CtItems PROVE CtItemOK(i)
  BY DEF CtInit, CtItemOK, CtInHand, CtEverywhere, CtShown, CtIdle
<1> QED
  BY <1>1, <1>2, <1>3 DEF CtInit, CtInv, CtSeen, CtClean, CtIdle

\* Setting the flag of one item.
CtFlagTo(c, i, v) == [c EXCEPT !.flag[i] = v]
LEMMA CtFlagSet ==
  ASSUME NEW c \in CtConfigs, NEW i \in CtItems, NEW v \in CtFlags, NEW d, d = CtFlagTo(c, i, v)
  PROVE  /\ d \in CtConfigs /\ d.flag[i] = v /\ d.of = c.of /\ d.groups = c.groups
         /\ \A k \in CtItems : k # i => d.flag[k] = c.flag[k]
<1>1. PICK f : f = [c.flag EXCEPT ![i] = v]
  OBVIOUS
<1>2. c.flag \in [CtItems -> CtFlags]
  BY DEF CtConfigs
<1>3. f \in [CtItems -> CtFlags] /\ f[i] = v /\ \A k \in CtItems : k # i => f[k] = c.flag[k]
  BY <1>1, <1>2
<1>4. d = [c EXCEPT !.flag = f]
  BY <1>1 DEF CtFlagTo
<1> QED
  BY <1>3, <1>4 DEF CtConfigs

\* Putting an item into groups.
CtOfTo(c, i, gs) == [c EXCEPT !.of[i] = gs]
LEMMA CtOfSet ==
  ASSUME NEW c \in CtConfigs, NEW i \in CtItems, NEW gs \in SUBSET CtGroups, NEW d, d = CtOfTo(c, i, gs)
  PROVE  /\ d \in CtConfigs /\ d.of[i] = gs /\ d.flag = c.flag /\ d.groups = c.groups
         /\ \A k \in CtItems : k # i => d.of[k] = c.of[k]
<1>1. PICK f : f = [c.of EXCEPT ![i] = gs]
  OBVIOUS
<1>2. c.of \in [CtItems -> SUBSET CtGroups]
  BY DEF CtConfigs
<1>3. f \in [CtItems -> SUBSET CtGroups] /\ f[i] = gs /\ \A k \in CtItems : k # i => f[k] = c.of[k]
  BY <1>1, <1>2
<1>4. d = [c EXCEPT !.of = f]
  BY <1>1 DEF CtOfTo
<1> QED
  BY <1>3, <1>4 DEF CtConfigs

\* What sync_with_directory does to a configuration.
LEMMA CtSynced ==
  ASSUME ctRules \in BOOLEAN, NEW c \in CtConfigs, NEW items \in SUBSET CtItems, NEW d, d = SyncedWith(c, items)
  PROVE  /\ d \in CtConfigs /\ d.groups = c.groups
         /\ \A k \in CtItems : d.of[k] \subseteq c.of[k]
         /\ \A k \in items : FlagIn(d, k) = FlagIn(c, k)
         /\ \A k \in CtItems \ items : d.flag[k] = IF ctRules THEN "none" ELSE c.flag[k]
<1>1. c.flag \in [CtItems -> CtFlags] /\ c.of \in [CtItems -> SUBSET CtGroups]
  BY DEF CtConfigs
<1>2. PICK f : f = [i \in CtItems |-> IF i \in items THEN (IF c.flag[i] = "none" THEN "plain" ELSE c.flag[i])
                                      ELSE IF ctRules THEN "none" ELSE c.flag[i]]
  OBVIOUS
<1>3. f \in [CtItems -> CtFlags]
  BY <1>1, <1>2 DEF CtFlags
<1>4. PICK o : o = [i \in CtItems |-> IF ctRules /\ i \notin items THEN {} ELSE c.of[i]]
  OBVIOUS
<1>5. o \in [CtItems -> SUBSET CtGroups] /\ \A k \in CtItems : o[k] \subseteq c.of[k]
  BY <1>1, <1>4
<1>6. d = [c EXCEPT !.flag = f, !.of = o]
  BY <1>2, <1>4 DEF SyncedWith
<1>7. d \in CtConfigs /\ d.flag = f /\ d.of = o /\ d.groups = c.groups
  BY <1>3, <1>5, <1>6 DEF CtConfigs
<1>8. \A k \in items : FlagIn(d, k) = FlagIn(c, k)
  BY <1>1, <1>2, <1>7 DEF FlagIn
<1>9. \A k \in CtItems \ items : d.flag[k] = IF ctRules THEN "none" ELSE c.flag[k]
  BY <1>2, <1>7
<1> QED
  BY <1>5, <1>7, <1>8, <1>9

\* What the removal of one item does.
LEMMA CtWithout ==
  ASSUME ctRules \in BOOLEAN, NEW c \in CtConfigs, NEW i \in CtItems, NEW d, d = WithoutItem(c, i)
  PROVE  /\ d \in CtConfigs /\ d.groups = c.groups
         /\ \A k \in CtItems : d.of[k] \subseteq c.of[k]
         /\ \A k \in CtItems : k # i \/ ctRules => d.flag[k] = c.flag[k]
<1>1. c.flag \in [CtItems -> CtFlags] /\ c.of \in [CtItems -> SUBSET CtGroups]
  BY DEF CtConfigs
<1>2. PICK f : f = [c.flag EXCEPT ![i] = IF ctRules THEN c.flag[i] ELSE "none"]
  OBVIOUS
<1>3. f \in [CtItems -> CtFlags] /\ \A k \in CtItems : k # i \/ ctRules => f[k] = c.flag[k]
  BY <1>1, <1>2 DEF CtFlags
<1>4. PICK o : o = [c.of EXCEPT ![i] = {}]
  OBVIOUS
<1>5. o \in [CtItems -> SUBSET CtGroups] /\ \A k \in CtItems : o[k] \subseteq c.of[k]
  BY <1>1, <1>4
<1>6. d = [c EXCEPT !.flag = f, !.of = o]
  BY <1>2, <1>4 DEF WithoutItem
<1> QED
  BY <1>3, <1>5, <1>6 DEF CtConfigs

-----------------------------------------------------------------------------
LEMMA CtCreateInv == CtInv /\ (CtCreate \/ CtCreateFails \/ CtUpdate) => CtInv'
<1> SUFFICES ASSUME CtInv, CtCreate \/ CtCreateFails \/ CtUpdate PROVE CtInv'
  OBVIOUS
<1>1. /\ CtRequest /\ CtMeanwhile /\ ctCfg' = ctCfg /\ ctDisk' = ctDisk /\ ctGone' = ctGone
      /\ ctRules' = ctRules
  BY DEF CtCreate, CtCreateFails, CtUpdate, CtMeanwhile
<1>2. CtTypes /\ ctCfg' \in CtConfigs /\ ctDisk' \in {ctDisk, ctCfg'} /\ ctMem \in [CtItems -> CtFlags]
      /\ ctTold \in [CtItems -> CtFlags \cup {"any"}]
  BY <1>1 DEF CtInv, CtTypes
<1>3. CASE CtCreate
  <2>1. PICK i \in CtItems, v \in IF ctRules THEN {"plain"} ELSE {"plain", "set"} :
          /\ ctMem[i] = "none" /\ ctDir' = ctDir \cup {i} /\ ctMem' = [ctMem EXCEPT ![i] = v]
          /\ Answers(i, IF Configured(i, v) THEN v ELSE "any")
    BY <1>3 DEF CtCreate
  <2>2. PICK said : said = IF Configured(i, v) THEN v ELSE "any"
    OBVIOUS
  <2>3. said \in CtFlags \cup {"any"} /\ Answers(i, said)
    BY <2>1, <2>2 DEF CtFlags
  <2>4. ctMem' \in [CtItems -> CtFlags] /\ ctMem'[i] = v /\ \A k \in CtItems : k # i => ctMem'[k] = ctMem[k]
    BY <1>2, <2>1 DEF CtFlags
  <2>5. said = "any" \/ CtEverywhere(i)'
    <3>1. ASSUME said # "any" PROVE CtEverywhere(i)'
      <4>1. said = v /\ v = FlagIn(ctCfg, i) /\ v = FlagIn(ctDisk, i)
        BY <2>2, <3>1 DEF Configured
      <4>2. ctTold'[i] = v
        BY <1>2, <2>3, <4>1, CtAnswered
      <4>3. v # "none" /\ i \in ctDir'
        BY <2>1
      <4>4. FlagIn(ctCfg, i)' = v /\ FlagIn(ctDisk, i)' = v
        BY <1>1, <4>1
      <4> QED
        BY <1>1, <2>4, <4>2, <4>3, <4>4 DEF CtEverywhere, CtShown
    <3> QED
      BY <3>1
  <2>6. ctRules => \A k \in CtItems : ctMem'[k] # "set"
    BY <1>2, <2>1, <2>4 DEF CtTypes
  <2>7. ctDir' \subseteq CtItems
    BY <1>2, <2>1 DEF CtTypes
  <2> QED
    BY <1>1, <1>2, <2>1, <2>3, <2>4, <2>5, <2>6, <2>7, CtRequestInv
<1>4. CASE CtCreateFails
  <2>1. PICK i \in CtItems : ctMem[i] = "none" /\ ctMem' = [ctMem EXCEPT ![i] = "plain"] /\ Answers(i, "any")
    BY <1>4 DEF CtCreateFails
  <2>2. ctDir' = ctDir /\ ctDir \subseteq CtItems /\ ~ctRules
    BY <1>2, <1>4 DEF CtCreateFails, CtTypes
  <2>3. ctMem' \in [CtItems -> CtFlags] /\ \A k \in CtItems : k # i => ctMem'[k] = ctMem[k]
    BY <1>2, <2>1 DEF CtFlags
  <2> QED
    BY <1>1, <1>2, <2>1, <2>2, <2>3, CtRequestInv
<1>5. CASE CtUpdate
  <2>1. PICK i \in CtItems, v \in {"plain", "set"} :
          /\ ctMem[i] # "none" /\ ctMem' = [ctMem EXCEPT ![i] = v] /\ ctDir' = ctDir \cup {i}
          /\ Answers(i, IF Configured(i, v) THEN ctTold[i] ELSE "any")
    BY <1>5 DEF CtUpdate
  <2>2. ctDir' \subseteq CtItems /\ ~ctRules
    BY <1>2, <1>5, <2>1 DEF CtUpdate, CtTypes
  <2>3. ctMem' \in [CtItems -> CtFlags] /\ ctMem'[i] = v /\ \A k \in CtItems : k # i => ctMem'[k] = ctMem[k]
    BY <1>2, <2>1 DEF CtFlags
  <2>4. PICK said : said = IF Configured(i, v) THEN ctTold[i] ELSE "any"
    OBVIOUS
  <2>5. said \in CtFlags \cup {"any"} /\ Answers(i, said)
    BY <1>2, <2>1, <2>4
  \* Where a tool works on the item, nothing is claimed of what is told until it returns.
  <2>6. said = "any" \/ CtEverywhere(i)' \/ i \in ctWiped \/ CtInHand(i)
    <3>1. ASSUME said # "any", i \notin ctWiped, ~CtInHand(i) PROVE CtEverywhere(i)'
      <4>1. said = ctTold[i] /\ v = FlagIn(ctCfg, i) /\ v = FlagIn(ctDisk, i) /\ ctTold[i] # "any"
        BY <2>4, <3>1 DEF Configured
      <4>2. CtEverywhere(i)
        BY <3>1, <4>1 DEF CtInv, CtItemOK
      <4>3. ctTold[i] = v /\ v # "none"
        BY <2>1, <2>2, <4>1, <4>2 DEF CtEverywhere, CtShown
      <4>4. ctTold'[i] = v /\ i \in ctDir'
        BY <1>2, <2>1, <2>5, <4>1, <4>3, CtAnswered
      <4>5. FlagIn(ctCfg, i)' = v /\ FlagIn(ctDisk, i)' = v
        BY <1>1, <4>1
      <4> QED
        BY <1>1, <2>2, <2>3, <4>3, <4>4, <4>5 DEF CtEverywhere, CtShown
    <3> QED
      BY <3>1
  <2> QED
    BY <1>1, <1>2, <2>1, <2>2, <2>3, <2>5, <2>6, CtRequestInv
<1> QED
  BY <1>3, <1>4, <1>5

LEMMA CtToggleInv == CtInv /\ CtToggle => CtInv'
<1> SUFFICES ASSUME CtInv, CtToggle PROVE CtInv'
  OBVIOUS
<1>1. CtRequest /\ CtMeanwhile /\ ctDir' = ctDir /\ ctGone' = ctGone /\ ctRules' = ctRules
  BY DEF CtToggle, CtMeanwhile
<1>2. PICK i \in CtItems, v \in {"plain", "set"} :
        /\ ctMem[i] # "none"
        /\ ctMem' = IF ctRules THEN ctMem ELSE [ctMem EXCEPT ![i] = v]
        /\ ctCfg' = Flagged(v, i)
        /\ \/ ctDisk' = ctCfg' /\ Answers(i, IF i \in ctDir THEN v ELSE "any")
           \/ ctDisk' = ctDisk /\ Answers(i, "any")
  BY DEF CtToggle
<1>3. CtTypes /\ ctMem \in [CtItems -> CtFlags] /\ ctCfg \in CtConfigs /\ ctDir' \subseteq CtItems /\ v \in CtFlags
  BY <1>1 DEF CtInv, CtTypes, CtFlags
<1>4. PICK said \in CtFlags \cup {"any"} :
        Answers(i, said) /\ (said # "any" => said = v /\ i \in ctDir /\ ctDisk' = ctCfg')
  BY <1>2, <1>3 DEF CtFlags
<1>5. /\ ctCfg' \in CtConfigs /\ ctCfg'.flag[i] = v /\ ctCfg'.of = ctCfg.of /\ ctCfg'.groups = ctCfg.groups
      /\ \A k \in CtItems : k # i => ctCfg'.flag[k] = ctCfg.flag[k]
  <2>1. PICK d : d = ctCfg'
    OBVIOUS
  <2>2. d = CtFlagTo(ctCfg, i, v)
    BY <1>2, <2>1 DEF Flagged, CtFlagTo
  <2> QED
    BY <1>3, <2>1, <2>2, CtFlagSet
<1>6. /\ ctMem' \in [CtItems -> CtFlags] /\ \A k \in CtItems : k # i => ctMem'[k] = ctMem[k]
      /\ ctRules => ctMem' = ctMem
      /\ ~ctRules => ctMem'[i] = v
  BY <1>2, <1>3
<1>7. said = "any" \/ CtEverywhere(i)'
  <2>1. ASSUME said # "any" PROVE CtEverywhere(i)'
    <3>1. ctTold'[i] = v /\ i \in ctDir' /\ ctDisk' = ctCfg'
      BY <1>1, <1>3, <1>4, <2>1, CtAnswered
    <3>2. FlagIn(ctCfg, i)' = v /\ FlagIn(ctDisk, i)' = v
      BY <1>5, <3>1 DEF FlagIn
    <3>3. ctMem'[i] # "none" /\ v # "none"
      BY <1>2, <1>6
    <3> QED
      BY <1>1, <1>3, <1>6, <3>1, <3>2, <3>3 DEF CtEverywhere, CtShown, CtTypes
  <2> QED
    BY <2>1
<1>8. \A k \in CtItems \ {i} : /\ ctMem'[k] = ctMem[k] /\ (k \in ctDir' <=> k \in ctDir)
                               /\ FlagIn(ctCfg', k) = FlagIn(ctCfg, k)
  BY <1>1, <1>5, <1>6 DEF FlagIn
<1>9. ctDisk' \in {ctDisk, ctCfg'} /\ (ctRules => \A k \in CtItems : ctMem'[k] # "set")
  BY <1>2, <1>3, <1>6 DEF CtTypes
<1> QED
  BY <1>1, <1>3, <1>4, <1>5, <1>6, <1>7, <1>8, <1>9, CtRequestInv

LEMMA CtDeleteInv == CtInv /\ CtDelete => CtInv'
<1> SUFFICES ASSUME CtInv, CtDelete PROVE CtInv'
  OBVIOUS
<1>1. CtRequest /\ CtMeanwhile /\ ctGone' = ctGone /\ ctRules' = ctRules /\ ctDisk' = IF ctRules THEN ctCfg' ELSE ctDisk
  BY DEF CtDelete, CtMeanwhile
<1>2. PICK i \in CtItems :
        /\ ctDir' = ctDir \ {i} /\ ctMem' = [ctMem EXCEPT ![i] = "none"] /\ Answers(i, "none")
        /\ ctCfg' = IF ctRules THEN WithoutItem(ctCfg, i) ELSE ctCfg
  BY DEF CtDelete
<1>3. CtTypes /\ ctMem \in [CtItems -> CtFlags] /\ ctCfg \in CtConfigs /\ ctDir' \subseteq CtItems /\ ctRules \in BOOLEAN
  BY <1>2 DEF CtInv, CtTypes
<1>4. /\ ctCfg' \in CtConfigs /\ ctCfg'.groups = ctCfg.groups
      /\ \A k \in CtItems : ctCfg'.of[k] \subseteq ctCfg.of[k]
      /\ \A k \in CtItems : ctCfg'.flag[k] = ctCfg.flag[k]
  BY <1>2, <1>3, CtWithout
<1>5. /\ ctMem' \in [CtItems -> CtFlags] /\ ctMem'[i] = "none" /\ \A k \in CtItems : k # i => ctMem'[k] = ctMem[k]
  BY <1>2, <1>3 DEF CtFlags
<1>6. CtEverywhere(i)'
  <2>1. ctTold'[i] = "none" /\ i \notin ctDir'
    BY <1>2, <1>3, CtAnswered DEF CtFlags
  <2> QED
    BY <1>5, <2>1 DEF CtEverywhere, CtShown
<1>7. \A k \in CtItems \ {i} : /\ ctMem'[k] = ctMem[k] /\ (k \in ctDir' <=> k \in ctDir)
                               /\ FlagIn(ctCfg', k) = FlagIn(ctCfg, k)
  BY <1>2, <1>4, <1>5 DEF FlagIn
<1>8. ctRules => \A k \in CtItems : ctMem'[k] # "set"
  BY <1>3, <1>5 DEF CtTypes
<1>9. ctDisk' \in {ctDisk, ctCfg'} /\ "none" \in CtFlags \cup {"any"} /\ Answers(i, "none")
  BY <1>1, <1>2 DEF CtFlags
<1> QED
  BY <1>1, <1>3, <1>4, <1>5, <1>6, <1>7, <1>8, <1>9, CtRequestInv

\* A request about groups: the flags stay as they are.
LEMMA CtGroupInv ==
  ASSUME CtInv, NEW cfg \in CtConfigs, CtGroupRequest(cfg), cfg.flag = ctCfg.flag, ctGone' \subseteq CtGroups,
         CtClean(ctCfg)', CtClean(ctDisk)'
  PROVE  CtInv'
<1>1. /\ ctCfg' = cfg /\ ctDisk' \in {ctDisk, ctCfg'} /\ ctLoop.pc = "idle"
      /\ ctRules' = ctRules /\ ctLoop' = ctLoop /\ ctWiped' = ctWiped
      /\ ctDir' = ctDir /\ ctMem' = ctMem /\ ctTool' = ctTool /\ ctTold' = ctTold
  BY DEF CtGroupRequest, CtRequest, CtMeanwhile
<1>2. CtTypes'
  BY <1>1 DEF CtInv, CtTypes
<1>3. ASSUME NEW k \in CtItems PROVE CtSame(k) /\ CtToolSame(k)
  BY <1>1 DEF CtSame, CtToolSame, CtInHand, FlagIn
<1>4. PICK T \in SUBSET CtItems : T = {}
  OBVIOUS
<1> QED
  BY <1>1, <1>2, <1>3, <1>4, CtStepInv

LEMMA CtGroupsInv == CtInv /\ (CtCreateGroup \/ CtDeleteGroup \/ CtSetGroups) => CtInv'
<1> SUFFICES ASSUME CtInv, CtCreateGroup \/ CtDeleteGroup \/ CtSetGroups PROVE CtInv'
  OBVIOUS
<1>1. /\ ctCfg \in CtConfigs /\ ctDisk \in CtConfigs /\ ctGone \subseteq CtGroups
      /\ CtClean(ctCfg) /\ CtClean(ctDisk)
  BY DEF CtInv, CtTypes
<1>2. CASE CtCreateGroup
  <2>1. PICK g \in CtGroups \ ctCfg.groups :
          CtGroupRequest([ctCfg EXCEPT !.groups = @ \cup {g}]) /\ ctGone' = ctGone \ {g}
    BY <1>2 DEF CtCreateGroup
  <2>2. PICK cfg : cfg = [ctCfg EXCEPT !.groups = @ \cup {g}]
    OBVIOUS
  <2>3. cfg \in CtConfigs /\ cfg.flag = ctCfg.flag /\ cfg.of = ctCfg.of /\ cfg.groups = ctCfg.groups \cup {g}
    BY <1>1, <2>2 DEF CtConfigs
  <2>4. CtGroupRequest(cfg)
    BY <2>1, <2>2
  <2>5. ctCfg' = cfg /\ ctDisk' \in {ctDisk, ctCfg'}
    BY <2>4 DEF CtGroupRequest
  <2>6. CtClean(ctCfg)' /\ CtClean(ctDisk)'
    BY <1>1, <2>1, <2>3, <2>5 DEF CtClean
  <2> QED
    BY <1>1, <2>1, <2>3, <2>4, <2>6, CtGroupInv
<1>3. CASE CtDeleteGroup
  <2>1. PICK g \in ctCfg.groups :
          /\ CtGroupRequest(WithoutGroup(ctCfg, g))
          /\ ctGone' = IF ctDisk' = ctCfg' THEN ctGone \cup {g} ELSE ctGone
    BY <1>3 DEF CtDeleteGroup
  <2>2. PICK cfg : cfg = WithoutGroup(ctCfg, g)
    OBVIOUS
  <2>3. PICK of : of = [i \in CtItems |-> ctCfg.of[i] \ {g}]
    OBVIOUS
  <2>4. cfg = [ctCfg EXCEPT !.groups = ctCfg.groups \ {g}, !.of = of]
    BY <2>2, <2>3 DEF WithoutGroup
  <2>5. /\ cfg \in CtConfigs /\ cfg.flag = ctCfg.flag /\ cfg.groups = ctCfg.groups \ {g} /\ g \in CtGroups
        /\ \A i \in CtItems : cfg.of[i] = ctCfg.of[i] \ {g}
    BY <1>1, <2>3, <2>4 DEF CtConfigs
  <2>6. CtGroupRequest(cfg)
    BY <2>1, <2>2
  <2>7. ctCfg' = cfg /\ ctDisk' \in {ctDisk, ctCfg'}
    BY <2>6 DEF CtGroupRequest
  <2>8. CtClean(ctCfg)' /\ CtClean(ctDisk)'
    <3>1. CASE ctDisk' = ctCfg'
      BY <1>1, <2>1, <2>5, <2>7, <3>1 DEF CtClean
    <3>2. CASE ctDisk' # ctCfg'
      BY <1>1, <2>1, <2>5, <2>7, <3>2 DEF CtClean
    <3> QED
      BY <3>1, <3>2
  <2>9. ctGone' \subseteq CtGroups
    BY <1>1, <2>1, <2>5
  <2> QED
    BY <2>5, <2>6, <2>8, <2>9, CtGroupInv
<1>4. CASE CtSetGroups
  <2>1. PICK i \in CtItems, gs \in SUBSET ctCfg.groups : CtGroupRequest([ctCfg EXCEPT !.of[i] = gs]) /\ ctGone' = ctGone
    BY <1>4 DEF CtSetGroups
  <2>2. PICK cfg : cfg = CtOfTo(ctCfg, i, gs)
    OBVIOUS
  <2>3. gs \in SUBSET CtGroups
    BY <1>1 DEF CtConfigs
  <2>4. /\ cfg \in CtConfigs /\ cfg.of[i] = gs /\ cfg.flag = ctCfg.flag /\ cfg.groups = ctCfg.groups
        /\ \A k \in CtItems : k # i => cfg.of[k] = ctCfg.of[k]
    BY <1>1, <2>2, <2>3, CtOfSet
  <2>5. CtGroupRequest(cfg)
    BY <2>1, <2>2 DEF CtOfTo
  <2>6. ctCfg' = cfg /\ ctDisk' \in {ctDisk, ctCfg'}
    BY <2>5 DEF CtGroupRequest
  <2>7. \A k \in CtItems : cfg.of[k] \subseteq ctCfg.of[k] \cup ctCfg.groups
    BY <2>4
  <2>8. CtClean(ctCfg)' /\ CtClean(ctDisk)'
    BY <1>1, <2>1, <2>4, <2>6, <2>7 DEF CtClean
  <2> QED
    BY <1>1, <2>1, <2>4, <2>5, <2>8, CtGroupInv
<1> QED
  BY <1>2, <1>3, <1>4

-----------------------------------------------------------------------------
LEMMA CtReloadInv == CtInv /\ CtReload => CtInv'
<1> SUFFICES ASSUME CtInv, CtReload PROVE CtInv'
  OBVIOUS
<1>1. /\ ctLoop.pc = "idle" /\ ctCfg' = ctDisk /\ ctDisk' = ctDisk /\ ctMem' = ctMem
      /\ ctLoop' = [CtIdle EXCEPT !.pc = "scan", !.seen = {}]
      /\ ctTool' = [ctTool EXCEPT !.beside = @ \/ ctTool.pc # "idle"]
      /\ ctGone' = ctGone \ ctDisk.groups
      /\ ctRules' = ctRules /\ ctDir' = ctDir /\ ctTold' = ctTold /\ ctWiped' = ctWiped
  BY DEF CtReload, CtRequest, CtLoopStep, CtBeside, CtReloading
<1>2. CtTypes
  BY DEF CtInv
<1>3. PICK b \in BOOLEAN : b = (ctTool.beside \/ ctTool.pc # "idle")
  BY <1>2 DEF CtTypes
<1>4. ctTool' = [ctTool EXCEPT !.beside = b]
  BY <1>1, <1>3
<1>5. /\ ctTool' \in [pc : CtTools, item : CtItems \cup {0}, group : CtGroups \cup {0}, seen : SUBSET CtItems, beside : BOOLEAN]
      /\ ctTool'.pc = ctTool.pc /\ ctTool'.item = ctTool.item /\ (ctTool.pc # "idle" => ctTool'.beside)
  BY <1>2, <1>3, <1>4 DEF CtTypes
<1>6. ctLoop'.pc = "scan" /\ ctLoop'.seen = {}
  BY <1>1 DEF CtIdle
<1>7. CtTypes'
  BY <1>1, <1>2, <1>5, <1>6 DEF CtTypes, CtLoops
<1>8. CtClean(ctCfg)' /\ CtClean(ctDisk)'
  BY <1>1 DEF CtInv, CtClean
<1>9. ASSUME NEW k \in CtItems PROVE CtItemOK(k)'
  <2>1. CASE k \in ctWiped \/ ctTold[k] = "any"
    BY <1>1, <2>1 DEF CtItemOK
  <2>2. CASE CtInHand(k)
    BY <1>5, <2>2 DEF CtItemOK, CtInHand
  <2>3. CASE ~(k \in ctWiped \/ ctTold[k] = "any") /\ ~CtInHand(k)
    <3>1. CtEverywhere(k)
      BY <2>3 DEF CtInv, CtItemOK
    <3>2. CtEverywhere(k)'
      BY <1>1, <3>1 DEF CtEverywhere, CtShown, FlagIn
    <3> QED
      BY <1>5, <2>3, <3>2 DEF CtItemOK, CtInHand
  <2> QED
    BY <2>1, <2>2, <2>3
<1> QED
  BY <1>5, <1>6, <1>7, <1>8, <1>9 DEF CtInv, CtSeen

\* In a reload a tool that is in the middle of its call is told apart.
LEMMA CtBesides == CtInv /\ ctLoop.pc # "idle" => \A k \in CtItems : CtInHand(k) => ctTool.beside
BY DEF CtInv, CtInHand

LEMMA CtScanInv == CtInv /\ CtScan => CtInv'
<1> SUFFICES ASSUME CtInv, CtScan PROVE CtInv'
  OBVIOUS
<1>1. /\ ctLoop.pc = "scan" /\ ctLoop' = [CtIdle EXCEPT !.pc = "sync", !.seen = ctDir]
      /\ ctMem' = IF ctRules THEN [i \in CtItems |-> IF i \in ctDir THEN "plain" ELSE "none"] ELSE ctMem
      /\ ctRules' = ctRules /\ ctDir' = ctDir /\ ctTold' = ctTold /\ ctWiped' = ctWiped
      /\ ctCfg' = ctCfg /\ ctDisk' = ctDisk /\ ctTool' = ctTool /\ ctGone' = ctGone
  BY DEF CtScan, CtLoopStep, CtReloading
<1>2. CtTypes
  BY DEF CtInv
<1>3. ctLoop'.pc = "sync" /\ ctLoop'.seen = ctDir
  BY <1>1 DEF CtIdle
<1>4. ctMem' \in [CtItems -> CtFlags] /\ (ctRules => \A k \in CtItems : ctMem'[k] # "set")
  BY <1>1, <1>2 DEF CtTypes, CtFlags
<1>5. CtTypes'
  BY <1>1, <1>2, <1>3, <1>4 DEF CtTypes, CtLoops
<1>6. CtClean(ctCfg)' /\ CtClean(ctDisk)'
  BY <1>1 DEF CtInv, CtClean
<1>7. ASSUME NEW k \in CtItems PROVE CtItemOK(k)'
  <2>1. CASE k \in ctWiped \/ ctTold[k] = "any"
    BY <1>1, <2>1 DEF CtItemOK
  <2>2. CASE CtInHand(k)
    BY <1>1, <2>2, CtBesides DEF CtItemOK, CtInHand
  <2>3. CASE ~(k \in ctWiped \/ ctTold[k] = "any") /\ ~CtInHand(k)
    <3>1. CtEverywhere(k)
      BY <2>3 DEF CtInv, CtItemOK
    <3>2. CtShown(k)' = CtShown(k)
      <4>1. CASE ctRules
        BY <1>1, <3>1, <4>1 DEF CtEverywhere, CtShown, FlagIn
      <4>2. CASE ~ctRules
        BY <1>1, <4>2 DEF CtShown
      <4> QED
        BY <4>1, <4>2
    <3>3. CtEverywhere(k)'
      BY <1>1, <3>1, <3>2 DEF CtEverywhere
    <3> QED
      BY <1>1, <2>3, <3>3 DEF CtItemOK, CtInHand
  <2> QED
    BY <2>1, <2>2, <2>3
<1>8. ctTool'.pc # "idle" => ctTool'.beside
  BY <1>1 DEF CtInv
<1> QED
  BY <1>1, <1>3, <1>5, <1>6, <1>7, <1>8 DEF CtInv, CtSeen

LEMMA CtSyncInv == CtInv /\ CtSync => CtInv'
<1> SUFFICES ASSUME CtInv, CtSync PROVE CtInv'
  OBVIOUS
<1>1. /\ ctLoop.pc = "sync" /\ ctLoop' = [CtIdle EXCEPT !.pc = IF ctRules THEN "idle" ELSE "swap", !.seen = ctLoop.seen]
      /\ ctCfg' = SyncedWith(ctCfg, ctLoop.seen)
      /\ ctDisk' = IF ctCfg' = ctCfg THEN ctDisk ELSE ctCfg'
      /\ ctRules' = ctRules /\ ctDir' = ctDir /\ ctTold' = ctTold /\ ctWiped' = ctWiped
      /\ ctMem' = ctMem /\ ctTool' = ctTool /\ ctGone' = ctGone
  BY DEF CtSync, CtLoopStep, CtReloading
<1>2. CtTypes
  BY DEF CtInv
<1>3. ctLoop'.pc = (IF ctRules THEN "idle" ELSE "swap") /\ ctLoop'.seen = ctLoop.seen
  BY <1>1 DEF CtIdle
<1>4. /\ ctCfg' \in CtConfigs /\ ctCfg'.groups = ctCfg.groups
      /\ \A k \in CtItems : ctCfg'.of[k] \subseteq ctCfg.of[k]
      /\ \A k \in ctLoop.seen : FlagIn(ctCfg', k) = FlagIn(ctCfg, k)
      /\ \A k \in CtItems \ ctLoop.seen : ctCfg'.flag[k] = IF ctRules THEN "none" ELSE ctCfg.flag[k]
  BY <1>1, <1>2, CtSynced DEF CtTypes
<1>5. CtTypes'
  BY <1>1, <1>2, <1>3, <1>4 DEF CtTypes, CtLoops
<1>6. CtClean(ctCfg)' /\ CtClean(ctDisk)'
  BY <1>1, <1>4 DEF CtInv, CtClean
<1>7. ASSUME NEW k \in CtItems PROVE CtItemOK(k)'
  <2>1. CASE k \in ctWiped \/ ctTold[k] = "any"
    BY <1>1, <2>1 DEF CtItemOK
  <2>2. CASE CtInHand(k)
    BY <1>1, <2>2, CtBesides DEF CtItemOK, CtInHand
  <2>3. CASE ~(k \in ctWiped \/ ctTold[k] = "any") /\ ~CtInHand(k)
    <3>1. CtEverywhere(k) /\ (k \in ctLoop.seen <=> k \in ctDir)
      BY <1>1, <2>3 DEF CtInv, CtItemOK, CtSeen
    <3>2. k \in ctDir => FlagIn(ctCfg', k) = FlagIn(ctCfg, k) /\ FlagIn(ctDisk', k) \in {FlagIn(ctDisk, k), FlagIn(ctCfg, k)}
      BY <1>1, <1>4, <3>1
    <3>3. CtEverywhere(k)'
      <4>1. CASE k \in ctDir
        BY <1>1, <3>1, <3>2, <4>1 DEF CtEverywhere, CtShown
      <4>2. CASE k \notin ctDir
        <5>1. ctTold[k] = "none" /\ ctMem[k] = "none"
          BY <1>2, <3>1, <4>2 DEF CtEverywhere, CtShown, FlagIn, CtTypes
        <5> QED
          BY <1>1, <4>2, <5>1 DEF CtEverywhere, CtShown
      <4> QED
        BY <4>1, <4>2
    <3> QED
      BY <1>1, <2>3, <3>3 DEF CtItemOK, CtInHand
  <2> QED
    BY <2>1, <2>2, <2>3
<1>8. CtSeen'
  BY <1>1, <1>3 DEF CtInv, CtSeen, CtInHand
<1>9. ctTool'.pc # "idle" => ctTool'.beside
  BY <1>1 DEF CtInv
<1> QED
  BY <1>5, <1>6, <1>7, <1>8, <1>9 DEF CtInv

LEMMA CtSwapInv == CtInv /\ CtSwap => CtInv'
<1> SUFFICES ASSUME CtInv, CtSwap PROVE CtInv'
  OBVIOUS
<1>1. /\ ctLoop.pc = "swap" /\ ctLoop' = CtIdle
      /\ ctMem' = [i \in CtItems |-> IF i \in ctLoop.seen THEN FlagIn(ctCfg, i) ELSE "none"]
      /\ ctRules' = ctRules /\ ctDir' = ctDir /\ ctTold' = ctTold /\ ctWiped' = ctWiped
      /\ ctCfg' = ctCfg /\ ctDisk' = ctDisk /\ ctTool' = ctTool /\ ctGone' = ctGone
  BY DEF CtSwap, CtReloading, FlagFromFile
<1>2. CtTypes /\ ~ctRules
  BY <1>1 DEF CtInv, CtTypes
<1>3. ctLoop'.pc = "idle" /\ ctLoop'.seen = {}
  BY <1>1 DEF CtIdle
<1>4. ctMem' \in [CtItems -> CtFlags]
  BY <1>1 DEF CtFlags, FlagIn
<1>5. CtTypes'
  BY <1>1, <1>2, <1>3, <1>4 DEF CtTypes, CtLoops
<1>6. CtClean(ctCfg)' /\ CtClean(ctDisk)'
  BY <1>1 DEF CtInv, CtClean
<1>7. ASSUME NEW k \in CtItems PROVE CtItemOK(k)'
  <2>1. CASE k \in ctWiped \/ ctTold[k] = "any"
    BY <1>1, <2>1 DEF CtItemOK
  <2>2. CASE CtInHand(k)
    BY <1>1, <2>2, CtBesides DEF CtItemOK, CtInHand
  <2>3. CASE ~(k \in ctWiped \/ ctTold[k] = "any") /\ ~CtInHand(k)
    <3>1. CtEverywhere(k) /\ (k \in ctLoop.seen <=> k \in ctDir)
      BY <1>1, <2>3 DEF CtInv, CtItemOK, CtSeen
    <3>2. ctMem'[k] = ctTold[k]
      BY <1>1, <3>1 DEF CtEverywhere
    <3>3. CtEverywhere(k)'
      BY <1>1, <1>2, <3>1, <3>2 DEF CtEverywhere, CtShown, FlagIn
    <3> QED
      BY <1>1, <2>3, <3>3 DEF CtItemOK, CtInHand
  <2> QED
    BY <2>1, <2>2, <2>3
<1> QED
  BY <1>1, <1>3, <1>5, <1>6, <1>7 DEF CtInv, CtSeen

-----------------------------------------------------------------------------
\* A step of a tool about item i.
LEMMA CtToolInv ==
  ASSUME CtInv, NEW i \in CtItems, ctTool.pc = "idle" \/ ctTool.item = i, ctTool'.pc = "idle" \/ ctTool'.item = i,
         CtTypes', CtClean(ctCfg)', CtClean(ctDisk)', ToolAlone, ctWiped \subseteq ctWiped',
         \A k \in CtItems : k # i => CtSame(k),
         CtItemOK(i)', ctLoop.pc = "idle" \/ ctTold'[i] = "any" \/ CtInHand(i)',
         ctTool'.pc # "idle" /\ ~ctTool'.beside => ctLoop.pc = "idle"
  PROVE  CtInv'
<1>1. PICK T \in SUBSET CtItems : T = {i}
  OBVIOUS
<1>2. ASSUME NEW k \in CtItems \ T PROVE CtSame(k) /\ CtToolSame(k)
  BY <1>1 DEF CtToolSame, CtInHand
<1>3. \A k \in T : CtItemOK(k)' /\ (ctLoop.pc = "idle" \/ ctTold'[k] = "any" \/ CtInHand(k)')
  BY <1>1
<1>4. ctRules' = ctRules /\ ctLoop' = ctLoop
  BY DEF ToolAlone
<1> QED
  BY <1>2, <1>3, <1>4, CtStepInv

\* The first step of a call.
LEMMA CtBegun ==
  ASSUME CtTypes, NEW pc \in CtTools \ {"idle"}, NEW i \in CtItems, NEW g \in CtGroups \cup {0}, ToolBegins(pc, i, g)
  PROVE  /\ ctTool.pc = "idle"
         /\ ctTool' \in [pc : CtTools, item : CtItems \cup {0}, group : CtGroups \cup {0}, seen : SUBSET CtItems, beside : BOOLEAN]
         /\ ctTool'.pc = pc /\ ctTool'.item = i /\ ctTool'.group = g
         /\ (~ctTool'.beside => ctLoop.pc = "idle")
         /\ CtInHand(i)'
<1>1. ctTool.pc = "idle" /\ ctTool' = [CtIdle EXCEPT !.pc = pc, !.item = i, !.group = g, !.beside = ctLoop.pc # "idle"]
  BY DEF ToolBegins
<1>2. PICK b \in BOOLEAN : b = (ctLoop.pc # "idle")
  OBVIOUS
<1>3. ctTool' = [pc |-> pc, item |-> i, group |-> g, seen |-> {}, beside |-> b]
  BY <1>1, <1>2 DEF CtIdle
<1>4. i \in CtItems \cup {0} /\ {} \in SUBSET CtItems /\ pc \in CtTools
  OBVIOUS
<1>5. ctTool' \in [pc : CtTools, item : CtItems \cup {0}, group : CtGroups \cup {0}, seen : SUBSET CtItems, beside : BOOLEAN]
  BY <1>2, <1>3, <1>4
<1>6. ctTool'.pc = pc /\ ctTool'.item = i /\ ctTool'.group = g /\ ctTool'.beside = b
  BY <1>3
<1>7. CtInHand(i)'
  BY <1>6 DEF CtInHand
<1>8. b \/ ctLoop.pc = "idle"
  BY <1>2
<1> QED
  BY <1>1, <1>5, <1>6, <1>7, <1>8

\* Its next one.
LEMMA CtWentOn ==
  ASSUME CtTypes, NEW pc \in CtTools, ToolGoesOn(pc)
  PROVE  /\ ctTool' \in [pc : CtTools, item : CtItems \cup {0}, group : CtGroups \cup {0}, seen : SUBSET CtItems, beside : BOOLEAN]
         /\ ctTool'.pc = pc /\ ctTool'.item = ctTool.item /\ ctTool'.beside = ctTool.beside
BY DEF CtTypes, ToolGoesOn

\* Its last one.
LEMMA CtReturned ==
  ASSUME CtInv, NEW i \in CtItems, i = ctTool.item, NEW said \in CtFlags \cup {"any"}, ToolReturns(said)
  PROVE  /\ ctTold' \in [CtItems -> CtFlags \cup {"any"}]
         /\ ctTold'[i] = IF ctTool.beside \/ ctTold[i] = "any" THEN "any" ELSE said
         /\ \A k \in CtItems : k # i => ctTold'[k] = ctTold[k]
         /\ ctTool' \in [pc : CtTools, item : CtItems \cup {0}, group : CtGroups \cup {0}, seen : SUBSET CtItems, beside : BOOLEAN]
         /\ ctTool'.pc = "idle"
<1>1. PICK told : told = IF ctTool.beside \/ ctTold[i] = "any" THEN "any" ELSE said
  OBVIOUS
<1>2. told \in CtFlags \cup {"any"}
  BY <1>1
<1>3. ctTold' = [ctTold EXCEPT ![i] = told] /\ ctTool' = CtIdle
  BY <1>1 DEF ToolReturns, Tells
<1>4. ctTold \in [CtItems -> CtFlags \cup {"any"}]
  BY DEF CtInv, CtTypes
<1> QED
  BY <1>1, <1>2, <1>3, <1>4 DEF CtIdle, CtTools

LEMMA CtReturnInv ==
  ASSUME CtInv, NEW i \in CtItems, i = ctTool.item, ctTool.pc # "idle", NEW said \in CtFlags \cup {"any"}, ToolReturns(said),
         ToolAlone, ctMem' \in [CtItems -> CtFlags], ctDir' \subseteq CtItems,
         ctCfg' \in CtConfigs, ctDisk' \in CtConfigs,
         ctRules => \A k \in CtItems : ctMem'[k] # "set", ctWiped \subseteq ctWiped', ctWiped' \subseteq CtItems,
         ctGone' \subseteq CtGroups, CtClean(ctCfg)', CtClean(ctDisk)',
         \A k \in CtItems : k # i =>
           /\ ctMem'[k] = ctMem[k] /\ (k \in ctDir' <=> k \in ctDir)
           /\ \/ k \in ctWiped'
              \/ FlagIn(ctCfg', k) = FlagIn(ctCfg, k) /\ FlagIn(ctDisk', k) \in {FlagIn(ctDisk, k), FlagIn(ctCfg, k)},
         said # "any" /\ ~ctTool.beside /\ ctTold[i] # "any" /\ i \notin ctWiped /\ CtSoFar(i) /\ ctTold'[i] = said => CtEverywhere(i)'
  PROVE  CtInv'
<1>1. /\ ctTold' \in [CtItems -> CtFlags \cup {"any"}]
      /\ ctTold'[i] = IF ctTool.beside \/ ctTold[i] = "any" THEN "any" ELSE said
      /\ \A k \in CtItems : k # i => ctTold'[k] = ctTold[k]
      /\ ctTool' \in [pc : CtTools, item : CtItems \cup {0}, group : CtGroups \cup {0}, seen : SUBSET CtItems, beside : BOOLEAN]
      /\ ctTool'.pc = "idle"
  BY CtReturned
<1>2. ctRules' = ctRules /\ ctLoop' = ctLoop
  BY DEF ToolAlone
<1>3. CtTypes'
  BY <1>1, <1>2 DEF CtInv, CtTypes
<1>4. \A k \in CtItems : k # i => CtSame(k)
  BY <1>1 DEF CtSame
<1>5. ctLoop.pc = "idle" \/ ctTold'[i] = "any"
  BY <1>1 DEF CtInv
<1>6. CtItemOK(i)'
  <2>1. CASE ctTold'[i] = "any" \/ i \in ctWiped
    BY <2>1 DEF CtItemOK
  <2>2. CASE ~(ctTold'[i] = "any" \/ i \in ctWiped)
    <3>1. ~ctTool.beside /\ ctTold[i] # "any" /\ ctTold'[i] = said /\ said # "any"
      BY <1>1, <2>2
    <3>2. CtSoFar(i)
      BY <2>2, <3>1 DEF CtInv, CtItemOK, CtInHand
    <3>3. CtEverywhere(i)'
      BY <2>2, <3>1, <3>2
    <3> QED
      BY <1>1, <3>3 DEF CtItemOK, CtInHand
  <2> QED
    BY <2>1, <2>2
<1> QED
  BY <1>1, <1>3, <1>4, <1>5, <1>6, CtToolInv

LEMMA CtToolCreatesInv == CtInv /\ CtToolCreates => CtInv'
<1> SUFFICES ASSUME CtInv, CtToolCreates PROVE CtInv'
  OBVIOUS
<1>1. PICK i \in CtItems :
        /\ ctMem[i] = "none" /\ ToolBegins("created", i, 0)
        /\ ctDir' = ctDir \cup {i} /\ ctMem' = [ctMem EXCEPT ![i] = "plain"]
        /\ Tells(i, IF FlagIn(ctCfg, i) = FlagIn(ctDisk, i) THEN "plain" ELSE "any")
  BY DEF CtToolCreates
<1>2. /\ ToolAlone /\ ctCfg' = ctCfg /\ ctDisk' = ctDisk /\ ctWiped' = ctWiped /\ ctGone' = ctGone
      /\ ctRules' = ctRules /\ ctLoop' = ctLoop
  BY DEF CtToolCreates, ToolAlone
<1>3. CtTypes
  BY DEF CtInv
<1>4. PICK said : said = IF FlagIn(ctCfg, i) = FlagIn(ctDisk, i) THEN "plain" ELSE "any"
  OBVIOUS
<1>5. /\ ctTool.pc = "idle"
      /\ ctTool' \in [pc : CtTools, item : CtItems \cup {0}, group : CtGroups \cup {0}, seen : SUBSET CtItems, beside : BOOLEAN]
      /\ ctTool'.pc = "created" /\ ctTool'.item = i
      /\ ~ctTool'.beside => ctLoop.pc = "idle"
      /\ CtInHand(i)'
  BY <1>1, <1>3, CtBegun DEF CtTools
<1>6. /\ ctTold' \in [CtItems -> CtFlags \cup {"any"}] /\ ctTold'[i] = said
      /\ \A k \in CtItems : k # i => ctTold'[k] = ctTold[k]
  BY <1>1, <1>3, <1>4 DEF CtTypes, Tells, CtFlags
<1>7. /\ ctMem' \in [CtItems -> CtFlags] /\ ctMem'[i] = "plain" /\ \A k \in CtItems : k # i => ctMem'[k] = ctMem[k]
      /\ i \in ctDir' /\ ctDir' \subseteq CtItems
  BY <1>1, <1>3 DEF CtTypes, CtFlags
<1>8. CtTypes'
  BY <1>2, <1>3, <1>5, <1>6, <1>7 DEF CtTypes
<1>9. CtClean(ctCfg)' /\ CtClean(ctDisk)'
  BY <1>2 DEF CtInv, CtClean
<1>10. ASSUME NEW k \in CtItems, k # i PROVE CtSame(k)
  BY <1>1, <1>2, <1>6, <1>7, <1>10 DEF CtSame
<1>11. CtItemOK(i)'
  <2>1. CASE said = "any"
    BY <1>6, <2>1 DEF CtItemOK
  <2>2. CASE said # "any"
    <3>1. ctTold'[i] = "plain" /\ FlagIn(ctCfg', i) = FlagIn(ctDisk', i)
      BY <1>2, <1>4, <1>6, <2>2
    <3> QED
      BY <1>5, <1>7, <3>1 DEF CtItemOK, CtSoFar
  <2> QED
    BY <2>1, <2>2
<1> QED
  BY <1>2, <1>5, <1>8, <1>9, <1>10, <1>11, CtToolInv

LEMMA CtToolSyncsInv == CtInv /\ CtToolSyncs => CtInv'
<1> SUFFICES ASSUME CtInv, CtToolSyncs PROVE CtInv'
  OBVIOUS
<1>1. PICK i : i = ctTool.item
  OBVIOUS
<1>2. /\ ctTool.pc = "created" /\ ctCfg' = SyncedWith(ctCfg, {i})
      /\ ctDisk' = IF ctCfg' = ctCfg THEN ctDisk ELSE ctCfg'
      /\ ctWiped' = ctWiped \cup {k \in CtItems : ctRules /\ k # i /\ ctCfg'.flag[k] # ctCfg.flag[k]}
      /\ IF ctRules THEN ToolReturns(FlagIn(ctCfg', i)) ELSE ToolGoesOn("synced") /\ ctTold' = ctTold
      /\ ToolAlone /\ ctDir' = ctDir /\ ctMem' = ctMem /\ ctGone' = ctGone /\ ctRules' = ctRules /\ ctLoop' = ctLoop
  BY <1>1 DEF CtToolSyncs, ToolAlone
<1>3. CtTypes /\ i \in CtItems
  BY <1>1, <1>2 DEF CtInv, CtTypes
<1>4. /\ ctCfg' \in CtConfigs /\ ctCfg'.groups = ctCfg.groups
      /\ \A k \in CtItems : ctCfg'.of[k] \subseteq ctCfg.of[k]
      /\ FlagIn(ctCfg', i) = FlagIn(ctCfg, i)
      /\ \A k \in CtItems \ {i} : ctCfg'.flag[k] = IF ctRules THEN "none" ELSE ctCfg.flag[k]
  <2>1. PICK items \in SUBSET CtItems : items = {i}
    BY <1>3
  <2> QED
    BY <1>2, <1>3, <2>1, CtSynced DEF CtTypes
<1>5. ctDisk' \in {ctDisk, ctCfg'} /\ ctDisk' \in CtConfigs
  BY <1>2, <1>3, <1>4 DEF CtTypes
<1>6. CtClean(ctCfg)' /\ CtClean(ctDisk)'
  BY <1>2, <1>4, <1>5 DEF CtInv, CtClean
<1>7. ASSUME NEW k \in CtItems, k # i
      PROVE  \/ k \in ctWiped'
             \/ FlagIn(ctCfg', k) = FlagIn(ctCfg, k) /\ FlagIn(ctDisk', k) \in {FlagIn(ctDisk, k), FlagIn(ctCfg, k)}
  <2>1. k \in ctWiped' \/ ctCfg'.flag[k] = ctCfg.flag[k]
    BY <1>2, <1>4, <1>7
  <2> QED
    BY <1>5, <2>1 DEF FlagIn
<1>8. ctWiped \subseteq ctWiped' /\ ctWiped' \subseteq CtItems
  BY <1>2, <1>3 DEF CtTypes
<1>9. CASE ctRules
  <2>1. PICK said : said = FlagIn(ctCfg', i)
    OBVIOUS
  <2>2. said \in CtFlags \cup {"any"} /\ ToolReturns(said)
    BY <1>2, <1>9, <2>1 DEF FlagIn, CtFlags
  <2>3. ASSUME said # "any", CtSoFar(i), ctTold'[i] = said PROVE CtEverywhere(i)'
    <3>1. ctMem[i] = "plain" /\ i \in ctDir /\ FlagIn(ctCfg, i) = FlagIn(ctDisk, i)
      BY <1>2, <2>3 DEF CtSoFar
    <3>2. FlagIn(ctDisk', i) = said /\ FlagIn(ctCfg', i) = said /\ said # "none"
      BY <1>4, <1>5, <2>1, <3>1 DEF FlagIn
    <3> QED
      BY <1>2, <1>9, <2>3, <3>1, <3>2 DEF CtEverywhere, CtShown
  <2>4. ctMem' \in [CtItems -> CtFlags] /\ ctDir' \subseteq CtItems /\ (ctRules => \A k \in CtItems : ctMem'[k] # "set")
    BY <1>2, <1>3 DEF CtTypes
  <2>5. ctGone' \subseteq CtGroups
    BY <1>2, <1>3 DEF CtTypes
  <2>6. \A k \in CtItems : k # i =>
          /\ ctMem'[k] = ctMem[k] /\ (k \in ctDir' <=> k \in ctDir)
          /\ \/ k \in ctWiped'
             \/ FlagIn(ctCfg', k) = FlagIn(ctCfg, k) /\ FlagIn(ctDisk', k) \in {FlagIn(ctDisk, k), FlagIn(ctCfg, k)}
    BY <1>2, <1>7
  <2>7. ToolAlone /\ ctTool.pc # "idle"
    BY <1>2
  <2> QED
    BY <1>1, <1>3, <1>4, <1>5, <1>6, <1>8, <2>2, <2>3, <2>4, <2>5, <2>6, <2>7, CtReturnInv
<1>10. CASE ~ctRules
  <2>1. /\ ctTool' \in [pc : CtTools, item : CtItems \cup {0}, group : CtGroups \cup {0}, seen : SUBSET CtItems, beside : BOOLEAN]
        /\ ctTool'.pc = "synced" /\ ctTool'.item = i /\ ctTool'.beside = ctTool.beside /\ ctTold' = ctTold
    BY <1>1, <1>2, <1>3, <1>10, CtWentOn DEF CtTools
  <2>2. CtTypes'
    BY <1>2, <1>3, <1>4, <1>5, <1>8, <1>10, <2>1 DEF CtTypes
  <2>3. ASSUME NEW k \in CtItems, k # i PROVE CtSame(k)
    BY <1>2, <1>7, <2>1, <2>3 DEF CtSame
  <2>4. CtItemOK(i)'
    <3>1. CtItemOK(i) /\ CtInHand(i) /\ CtInHand(i)'
      BY <1>1, <1>2, <1>3, <2>1 DEF CtInv, CtInHand
    <3>2. CtSoFar(i) => CtSoFar(i)'
      BY <1>2, <2>1 DEF CtSoFar
    <3> QED
      BY <1>8, <2>1, <3>1, <3>2 DEF CtItemOK
  <2>5. ctTool.item = i /\ CtInHand(i)'
    BY <1>1, <2>1 DEF CtInHand
  <2>6. ~ctTool'.beside => ctLoop.pc = "idle"
    BY <1>2, <2>1 DEF CtInv
  <2>7. ToolAlone
    BY <1>2
  <2> QED
    BY <1>3, <1>6, <1>8, <2>1, <2>2, <2>3, <2>4, <2>5, <2>6, <2>7, CtToolInv
<1> QED
  BY <1>9, <1>10

LEMMA CtToolEnablesInv == CtInv /\ CtToolEnables => CtInv'
<1> SUFFICES ASSUME CtInv, CtToolEnables PROVE CtInv'
  OBVIOUS
<1>1. PICK i : i = ctTool.item
  OBVIOUS
<1>2. /\ ctTool.pc = "synced" /\ ctCfg' = [ctCfg EXCEPT !.flag[i] = "plain"] /\ ToolGoesOn("save") /\ ToolAlone
      /\ ctDir' = ctDir /\ ctMem' = ctMem /\ ctDisk' = ctDisk /\ ctTold' = ctTold /\ ctWiped' = ctWiped /\ ctGone' = ctGone
      /\ ctRules' = ctRules /\ ctLoop' = ctLoop
  BY <1>1 DEF CtToolEnables, ToolAlone
<1>3. CtTypes /\ i \in CtItems /\ ~ctRules
  BY <1>1, <1>2 DEF CtInv, CtTypes
<1>4. /\ ctTool' \in [pc : CtTools, item : CtItems \cup {0}, group : CtGroups \cup {0}, seen : SUBSET CtItems, beside : BOOLEAN]
      /\ ctTool'.pc = "save" /\ ctTool'.item = i /\ ctTool'.beside = ctTool.beside
  BY <1>1, <1>2, <1>3, CtWentOn DEF CtTools
<1>5. /\ ctCfg' \in CtConfigs /\ ctCfg'.flag[i] = "plain" /\ ctCfg'.of = ctCfg.of /\ ctCfg'.groups = ctCfg.groups
      /\ \A k \in CtItems : k # i => ctCfg'.flag[k] = ctCfg.flag[k]
  <2>1. PICK d : d = ctCfg'
    OBVIOUS
  <2>2. d = CtFlagTo(ctCfg, i, "plain") /\ "plain" \in CtFlags /\ ctCfg \in CtConfigs
    BY <1>2, <1>3, <2>1 DEF CtFlagTo, CtFlags, CtTypes
  <2> QED
    BY <1>3, <2>1, <2>2, CtFlagSet
<1>6. CtTypes'
  BY <1>2, <1>3, <1>4, <1>5 DEF CtTypes
<1>7. CtClean(ctCfg)' /\ CtClean(ctDisk)'
  BY <1>2, <1>5 DEF CtInv, CtClean
<1>8. ASSUME NEW k \in CtItems, k # i PROVE CtSame(k)
  BY <1>2, <1>5, <1>8 DEF CtSame, FlagIn
<1>9. CtItemOK(i)'
  <2>1. CtItemOK(i) /\ CtInHand(i) /\ CtInHand(i)'
    BY <1>1, <1>2, <1>3, <1>4 DEF CtInv, CtInHand
  <2>2. CtSoFar(i) => CtSoFar(i)'
    <3>1. ASSUME CtSoFar(i) PROVE CtSoFar(i)'
      <4>1. ctTold'[i] = "plain" /\ ctMem'[i] = "plain" /\ i \in ctDir'
        BY <1>2, <3>1 DEF CtSoFar
      <4>2. FlagIn(ctCfg', i) = "plain"
        BY <1>5 DEF FlagIn
      <4> QED
        BY <1>2, <1>3, <1>4, <4>1, <4>2 DEF CtSoFar, CtShown
    <3> QED
      BY <3>1
  <2> QED
    BY <1>2, <1>4, <2>1, <2>2 DEF CtItemOK
<1>10. ctTool.item = i /\ CtInHand(i)' /\ (~ctTool'.beside => ctLoop.pc = "idle") /\ ctWiped \subseteq ctWiped'
  BY <1>1, <1>2, <1>4 DEF CtInHand, CtInv
<1> QED
  BY <1>2, <1>3, <1>4, <1>6, <1>7, <1>8, <1>9, <1>10, CtToolInv

LEMMA CtToolSavesInv == CtInv /\ CtToolSaves => CtInv'
<1> SUFFICES ASSUME CtInv, CtToolSaves PROVE CtInv'
  OBVIOUS
<1>1. PICK i : i = ctTool.item
  OBVIOUS
<1>2. /\ ctTool.pc = "save" /\ ToolAlone /\ ctDir' = ctDir /\ ctMem' = ctMem /\ ctCfg' = ctCfg /\ ctWiped' = ctWiped
      /\ ctRules' = ctRules
      /\ \/ ToolReturns(ctTold[i]) /\ ctDisk' = ctCfg /\ ctGone' = ctGone
         \/ ToolReturns("any") /\ ctDisk' = ctDisk /\ ctGone' = {}
  BY <1>1 DEF CtToolSaves, ToolAlone
<1>3. CtTypes /\ i \in CtItems
  BY <1>1, <1>2 DEF CtInv, CtTypes
<1>4. PICK said \in CtFlags \cup {"any"} : ToolReturns(said) /\ (said # "any" => ctDisk' = ctCfg /\ said = ctTold[i])
  BY <1>2, <1>3 DEF CtTypes
<1>5. ctDisk' \in {ctDisk, ctCfg} /\ ctGone' \subseteq ctGone
  BY <1>2
<1>6. CtClean(ctCfg)' /\ CtClean(ctDisk)'
  BY <1>2, <1>5 DEF CtInv, CtClean
<1>7. /\ ctMem' \in [CtItems -> CtFlags] /\ ctDir' \subseteq CtItems /\ ctCfg' \in CtConfigs /\ ctDisk' \in CtConfigs
      /\ (ctRules => \A k \in CtItems : ctMem'[k] # "set") /\ ctWiped' \subseteq CtItems /\ ctGone' \subseteq CtGroups
  BY <1>2, <1>3, <1>5 DEF CtTypes
<1>8. ASSUME said # "any", CtSoFar(i), ctTold'[i] = said PROVE CtEverywhere(i)'
  <2>1. ctTold'[i] = ctTold[i] /\ ctDisk' = ctCfg
    BY <1>4, <1>8
  <2>2. /\ CtShown(i) = ctTold[i] /\ (i \in ctDir <=> ctTold[i] # "none")
        /\ ctTold[i] # "none" => FlagIn(ctCfg, i) = ctTold[i]
    BY <1>2, <1>8 DEF CtSoFar
  <2>3. CtShown(i)' = CtShown(i)
    BY <1>2 DEF CtShown
  <2> QED
    BY <1>2, <2>1, <2>2, <2>3 DEF CtEverywhere
<1>9. \A k \in CtItems : k # i =>
        /\ ctMem'[k] = ctMem[k] /\ (k \in ctDir' <=> k \in ctDir)
        /\ \/ k \in ctWiped'
           \/ FlagIn(ctCfg', k) = FlagIn(ctCfg, k) /\ FlagIn(ctDisk', k) \in {FlagIn(ctDisk, k), FlagIn(ctCfg, k)}
  BY <1>2, <1>5
<1>10. ctWiped \subseteq ctWiped' /\ ctTool.pc # "idle"
  BY <1>2
<1> QED
  BY <1>1, <1>2, <1>3, <1>4, <1>6, <1>7, <1>8, <1>9, <1>10, CtReturnInv

\* An item that is in memory and not in hand is one its user knows of.
LEMMA CtKnown ==
  ASSUME CtTypes, NEW i \in CtItems, ctMem[i] # "none", CtEverywhere(i)
  PROVE  ctTold[i] # "none"
<1>1. CtShown(i) # "none"
  BY DEF CtShown, FlagIn
<1> QED
  BY <1>1 DEF CtEverywhere

LEMMA CtLookedUpInv == CtInv /\ (CtToolEdits \/ CtToolFindsGroup) => CtInv'
<1> SUFFICES ASSUME CtInv, CtToolEdits \/ CtToolFindsGroup PROVE CtInv'
  OBVIOUS
<1>1. PICK i \in CtItems, g \in CtGroups \cup {0}, pc \in {"edited", "group"} :
        ctMem[i] # "none" /\ ToolBegins(pc, i, g) /\ (pc = "group" => g \in CtGroups)
  <2>1. ctCfg.groups \subseteq CtGroups
    BY DEF CtInv, CtTypes, CtConfigs
  <2> QED
    BY <2>1 DEF CtToolEdits, CtToolFindsGroup
<1>2. /\ ToolAlone /\ ctDir' = ctDir /\ ctMem' = ctMem /\ ctCfg' = ctCfg /\ ctDisk' = ctDisk
      /\ ctTold' = ctTold /\ ctWiped' = ctWiped /\ ctGone' = ctGone /\ ctRules' = ctRules /\ ctLoop' = ctLoop
  BY DEF CtToolEdits, CtToolFindsGroup, ToolAlone
<1>3. CtTypes /\ pc \in CtTools \ {"idle"}
  BY <1>1 DEF CtInv, CtTools
<1>4. /\ ctTool.pc = "idle"
      /\ ctTool' \in [pc : CtTools, item : CtItems \cup {0}, group : CtGroups \cup {0}, seen : SUBSET CtItems, beside : BOOLEAN]
      /\ ctTool'.pc = pc /\ ctTool'.item = i /\ ctTool'.group = g
      /\ ~ctTool'.beside => ctLoop.pc = "idle"
      /\ CtInHand(i)'
  BY <1>1, <1>3, CtBegun
<1>5. CtTypes'
  BY <1>1, <1>2, <1>3, <1>4 DEF CtTypes
<1>6. CtClean(ctCfg)' /\ CtClean(ctDisk)'
  BY <1>2 DEF CtInv, CtClean
<1>7. ASSUME NEW k \in CtItems, k # i PROVE CtSame(k)
  BY <1>2 DEF CtSame
<1>8. CtItemOK(i)'
  <2>1. CASE i \in ctWiped \/ ctTold[i] = "any"
    BY <1>2, <2>1 DEF CtItemOK
  <2>2. CASE ~(i \in ctWiped \/ ctTold[i] = "any")
    <3>1. CtEverywhere(i)
      BY <1>4, <2>2 DEF CtInv, CtItemOK, CtInHand
    <3>2. ctTold[i] # "none"
      BY <1>1, <1>3, <3>1, CtKnown
    <3>3. CtEverywhere(i)'
      BY <1>2, <3>1 DEF CtEverywhere, CtShown
    <3>4. CtSoFar(i)'
      BY <1>1, <1>2, <1>4, <3>2, <3>3 DEF CtSoFar
    <3> QED
      BY <1>4, <3>4 DEF CtItemOK
  <2> QED
    BY <2>1, <2>2
<1> QED
  BY <1>2, <1>4, <1>5, <1>6, <1>7, <1>8, CtToolInv

LEMMA CtToolShowsInv == CtInv /\ CtToolShows => CtInv'
<1> SUFFICES ASSUME CtInv, CtToolShows PROVE CtInv'
  OBVIOUS
<1>1. PICK i : i = ctTool.item
  OBVIOUS
<1>2. /\ ctTool.pc = "edited" /\ ctMem' = [ctMem EXCEPT ![i] = "plain"] /\ ToolAlone
      /\ ToolReturns(IF ctRules \/ ctTold[i] = "plain" THEN ctTold[i] ELSE "any")
      /\ ctDir' = ctDir /\ ctCfg' = ctCfg /\ ctDisk' = ctDisk /\ ctWiped' = ctWiped /\ ctGone' = ctGone /\ ctRules' = ctRules
  BY <1>1 DEF CtToolShows, ToolAlone
<1>3. CtTypes /\ i \in CtItems /\ ctMem \in [CtItems -> CtFlags]
  BY <1>1, <1>2 DEF CtInv, CtTypes
<1>4. PICK said : said = IF ctRules \/ ctTold[i] = "plain" THEN ctTold[i] ELSE "any"
  OBVIOUS
<1>5. said \in CtFlags \cup {"any"} /\ ToolReturns(said)
  BY <1>2, <1>3, <1>4 DEF CtTypes
<1>6. ctMem' \in [CtItems -> CtFlags] /\ ctMem'[i] = "plain" /\ \A k \in CtItems : k # i => ctMem'[k] = ctMem[k]
  BY <1>2, <1>3 DEF CtFlags
<1>7. CtClean(ctCfg)' /\ CtClean(ctDisk)'
  BY <1>2 DEF CtInv, CtClean
<1>8. /\ ctDir' \subseteq CtItems /\ ctCfg' \in CtConfigs /\ ctDisk' \in CtConfigs
      /\ (ctRules => \A k \in CtItems : ctMem'[k] # "set") /\ ctWiped' \subseteq CtItems /\ ctGone' \subseteq CtGroups
  BY <1>2, <1>3, <1>6 DEF CtTypes
<1>9. ASSUME said # "any", CtSoFar(i), ctTold'[i] = said PROVE CtEverywhere(i)'
  <2>1. CtEverywhere(i) /\ ctTold[i] # "none"
    BY <1>2, <1>9 DEF CtSoFar
  <2>2. ctTold'[i] = ctTold[i] /\ (ctRules \/ ctTold[i] = "plain")
    BY <1>4, <1>9
  <2>3. ctMem[i] # "none"
    BY <2>1 DEF CtEverywhere, CtShown
  <2>4. CtShown(i)' = ctTold'[i]
    BY <1>2, <1>6, <2>1, <2>2, <2>3 DEF CtEverywhere, CtShown
  <2> QED
    BY <1>2, <2>1, <2>2, <2>4 DEF CtEverywhere
<1>10. \A k \in CtItems : k # i =>
        /\ ctMem'[k] = ctMem[k] /\ (k \in ctDir' <=> k \in ctDir)
        /\ \/ k \in ctWiped'
           \/ FlagIn(ctCfg', k) = FlagIn(ctCfg, k) /\ FlagIn(ctDisk', k) \in {FlagIn(ctDisk, k), FlagIn(ctCfg, k)}
  BY <1>2, <1>6
<1>11. ctWiped \subseteq ctWiped' /\ ctTool.pc # "idle" /\ ToolAlone
  BY <1>2
<1> QED
  BY <1>1, <1>3, <1>5, <1>6, <1>7, <1>8, <1>9, <1>10, <1>11, CtReturnInv

LEMMA CtToolDeletesInv == CtInv /\ CtToolDeletes => CtInv'
<1> SUFFICES ASSUME CtInv, CtToolDeletes PROVE CtInv'
  OBVIOUS
<1>1. PICK i \in CtItems :
        /\ ToolBegins("deleted", i, 0) /\ ctDir' = ctDir \ {i} /\ ctMem' = [ctMem EXCEPT ![i] = "none"]
        /\ Tells(i, "none")
  BY DEF CtToolDeletes
<1>2. /\ ToolAlone /\ ctCfg' = ctCfg /\ ctDisk' = ctDisk /\ ctWiped' = ctWiped /\ ctGone' = ctGone
      /\ ctRules' = ctRules /\ ctLoop' = ctLoop
  BY DEF CtToolDeletes, ToolAlone
<1>3. CtTypes
  BY DEF CtInv
<1>4. /\ ctTool.pc = "idle"
      /\ ctTool' \in [pc : CtTools, item : CtItems \cup {0}, group : CtGroups \cup {0}, seen : SUBSET CtItems, beside : BOOLEAN]
      /\ ctTool'.pc = "deleted" /\ ctTool'.item = i
      /\ ~ctTool'.beside => ctLoop.pc = "idle"
      /\ CtInHand(i)'
  BY <1>1, <1>3, CtBegun DEF CtTools
<1>5. /\ ctTold' \in [CtItems -> CtFlags \cup {"any"}] /\ ctTold'[i] = "none"
      /\ \A k \in CtItems : k # i => ctTold'[k] = ctTold[k]
  BY <1>1, <1>3 DEF CtTypes, Tells, CtFlags
<1>6. /\ ctMem' \in [CtItems -> CtFlags] /\ ctMem'[i] = "none" /\ \A k \in CtItems : k # i => ctMem'[k] = ctMem[k]
      /\ i \notin ctDir' /\ ctDir' \subseteq CtItems
  BY <1>1, <1>3 DEF CtTypes, CtFlags
<1>7. CtTypes'
  BY <1>2, <1>3, <1>4, <1>5, <1>6 DEF CtTypes
<1>8. CtClean(ctCfg)' /\ CtClean(ctDisk)'
  BY <1>2 DEF CtInv, CtClean
<1>9. ASSUME NEW k \in CtItems, k # i PROVE CtSame(k)
  BY <1>1, <1>2, <1>5, <1>6, <1>9 DEF CtSame
<1>10. CtItemOK(i)'
  BY <1>4, <1>5, <1>6 DEF CtItemOK, CtSoFar
<1> QED
  BY <1>2, <1>4, <1>7, <1>8, <1>9, <1>10, CtToolInv

\* A step within a call: the flags of the configuration change for the call's item only.
LEMMA CtStepsInv ==
  ASSUME CtInv, NEW i \in CtItems, i = ctTool.item, ctTool.pc # "idle", NEW pc \in {"save"}, ToolGoesOn(pc), ToolAlone,
         ctDir' = ctDir, ctMem' = ctMem, ctDisk' = ctDisk, ctTold' = ctTold, ctWiped' = ctWiped,
         ctCfg' \in CtConfigs, CtClean(ctCfg)', ctGone' \subseteq ctGone,
         \A k \in CtItems : k # i => FlagIn(ctCfg', k) = FlagIn(ctCfg, k),
         CtSoFar(i) => /\ CtShown(i)' = ctTold[i] /\ (i \in ctDir <=> ctTold[i] # "none")
                       /\ ctTold[i] # "none" => FlagIn(ctCfg', i) = ctTold[i]
  PROVE  CtInv'
<1>1. /\ ctTool' \in [pc : CtTools, item : CtItems \cup {0}, group : CtGroups \cup {0}, seen : SUBSET CtItems, beside : BOOLEAN]
      /\ ctTool'.pc = "save" /\ ctTool'.item = i /\ ctTool'.beside = ctTool.beside
  BY CtWentOn DEF CtTools, CtInv
<1>2. ctRules' = ctRules /\ ctLoop' = ctLoop
  BY DEF ToolAlone
<1>3. CtTypes'
  BY <1>1, <1>2 DEF CtInv, CtTypes
<1>4. CtClean(ctDisk)'
  BY DEF CtInv, CtClean
<1>5. ASSUME NEW k \in CtItems, k # i PROVE CtSame(k)
  BY <1>5 DEF CtSame
<1>6. CtInHand(i) /\ CtInHand(i)'
  BY <1>1 DEF CtInHand
<1>7. CtItemOK(i)'
  <2>1. CtItemOK(i)
    BY DEF CtInv
  <2>2. CtSoFar(i) => CtSoFar(i)'
    BY <1>1 DEF CtSoFar
  <2> QED
    BY <1>1, <1>6, <2>1, <2>2 DEF CtItemOK
<1>8. ~ctTool'.beside => ctLoop.pc = "idle"
  BY <1>1 DEF CtInv
<1> QED
  BY <1>1, <1>3, <1>4, <1>5, <1>6, <1>7, <1>8, CtToolInv

LEMMA CtToolForgetsInv == CtInv /\ CtToolForgets => CtInv'
<1> SUFFICES ASSUME CtInv, CtToolForgets PROVE CtInv'
  OBVIOUS
<1>1. PICK i : i = ctTool.item
  OBVIOUS
<1>2. /\ ctTool.pc = "deleted" /\ ctCfg' = WithoutItem(ctCfg, i) /\ ToolGoesOn("save") /\ ToolAlone
      /\ ctDir' = ctDir /\ ctMem' = ctMem /\ ctDisk' = ctDisk /\ ctTold' = ctTold /\ ctWiped' = ctWiped /\ ctGone' = ctGone
      /\ ctRules' = ctRules
  BY <1>1 DEF CtToolForgets, ToolAlone
<1>3. CtTypes /\ i \in CtItems
  BY <1>1, <1>2 DEF CtInv, CtTypes
<1>4. /\ ctCfg' \in CtConfigs /\ ctCfg'.groups = ctCfg.groups
      /\ \A k \in CtItems : ctCfg'.of[k] \subseteq ctCfg.of[k]
      /\ \A k \in CtItems : k # i \/ ctRules => ctCfg'.flag[k] = ctCfg.flag[k]
  <2>1. ctRules \in BOOLEAN /\ ctCfg \in CtConfigs
    BY <1>3 DEF CtTypes
  <2> QED
    BY <1>2, <1>3, <2>1, CtWithout
<1>5. CtClean(ctCfg)'
  BY <1>2, <1>4 DEF CtInv, CtClean
<1>6. \A k \in CtItems : k # i => FlagIn(ctCfg', k) = FlagIn(ctCfg, k)
  BY <1>4 DEF FlagIn
<1>7. CtSoFar(i) => CtShown(i)' = ctTold[i] /\ i \notin ctDir /\ ctTold[i] = "none"
  BY <1>2 DEF CtSoFar, CtShown
<1>8. ctTool.pc # "idle" /\ ctGone' \subseteq ctGone
  BY <1>2
<1> QED
  BY <1>1, <1>2, <1>3, <1>4, <1>5, <1>6, <1>7, <1>8, CtStepsInv

LEMMA CtToolGroupsInv == CtInv /\ CtToolGroups => CtInv'
<1> SUFFICES ASSUME CtInv, CtToolGroups PROVE CtInv'
  OBVIOUS
<1>1. PICK i : i = ctTool.item
  OBVIOUS
<1>2. /\ ctTool.pc = "group" /\ ToolGoesOn("save") /\ ToolAlone /\ ctGone' = ctGone \ {ctTool.group}
      /\ ctDir' = ctDir /\ ctMem' = ctMem /\ ctDisk' = ctDisk /\ ctTold' = ctTold /\ ctWiped' = ctWiped
      /\ ctRules' = ctRules
  BY DEF CtToolGroups, ToolAlone
<1>3. PICK gs : gs \subseteq ctCfg.of[i] \cup {ctTool.group} /\ ctCfg' = [ctCfg EXCEPT !.of[i] = gs]
  <2>1. PICK gs \in {ctCfg.of[i] \cup {ctTool.group}, ctCfg.of[i] \ {ctTool.group}} : ctCfg' = [ctCfg EXCEPT !.of[i] = gs]
    BY <1>1 DEF CtToolGroups
  <2> QED
    BY <2>1
<1>4. CtTypes /\ i \in CtItems /\ ctTool.group \in CtGroups /\ ctCfg \in CtConfigs
  BY <1>1, <1>2 DEF CtInv, CtTypes
<1>5. gs \in SUBSET CtGroups
  <2>1. ctCfg.of[i] \subseteq CtGroups
    BY <1>4 DEF CtConfigs
  <2> QED
    BY <1>3, <1>4, <2>1
<1>6. /\ ctCfg' \in CtConfigs /\ ctCfg'.of[i] = gs /\ ctCfg'.flag = ctCfg.flag /\ ctCfg'.groups = ctCfg.groups
      /\ \A k \in CtItems : k # i => ctCfg'.of[k] = ctCfg.of[k]
  <2>1. PICK d : d = ctCfg'
    OBVIOUS
  <2>2. d = CtOfTo(ctCfg, i, gs)
    BY <1>3, <2>1 DEF CtOfTo
  <2> QED
    BY <1>4, <1>5, <2>1, <2>2, CtOfSet
<1>7. CtClean(ctCfg)'
  <2>1. CtClean(ctCfg)
    BY DEF CtInv
  <2>2. ctCfg'.groups \cap ctGone' = {}
    BY <1>2, <1>6, <2>1 DEF CtClean
  <2>3. ASSUME NEW k \in CtItems PROVE ctCfg'.of[k] \cap ctGone' = {}
    <3>1. ctCfg.of[k] \cap ctGone = {}
      BY <2>1 DEF CtClean
    <3>2. ctCfg'.of[k] \subseteq ctCfg.of[k] \cup {ctTool.group}
      BY <1>3, <1>6
    <3> QED
      BY <1>2, <3>1, <3>2
  <2> QED
    BY <2>2, <2>3 DEF CtClean
<1>8. \A k \in CtItems : FlagIn(ctCfg', k) = FlagIn(ctCfg, k)
  BY <1>6 DEF FlagIn
<1>9. CtSoFar(i) => CtEverywhere(i)
  BY <1>2 DEF CtSoFar
<1>10. CtShown(i)' = CtShown(i)
  BY <1>2, <1>4, <1>8 DEF CtShown
<1>11. CtSoFar(i) => /\ CtShown(i)' = ctTold[i] /\ (i \in ctDir <=> ctTold[i] # "none")
                     /\ ctTold[i] # "none" => FlagIn(ctCfg', i) = ctTold[i]
  BY <1>4, <1>8, <1>9, <1>10 DEF CtEverywhere
<1>12. ctTool.pc # "idle" /\ ctGone' \subseteq ctGone
  BY <1>2
<1> QED
  BY <1>1, <1>2, <1>4, <1>6, <1>7, <1>8, <1>11, <1>12, CtStepsInv

LEMMA CtRestartInv == CtInv /\ CtRestart => CtInv'
<1> SUFFICES ASSUME CtInv, CtRestart PROVE CtInv'
  OBVIOUS
<1>1. /\ ctLoop.pc = "idle" /\ ctTool.pc = "idle"
      /\ ctCfg' = SyncedWith(ctDisk, ctDir) /\ ctDisk' = ctCfg'
      /\ ctMem' = [i \in CtItems |-> IF i \notin ctDir THEN "none" ELSE IF ctRules THEN "plain" ELSE FlagIn(ctCfg', i)]
      /\ ctGone' = ctGone \ ctDisk.groups
      /\ ctRules' = ctRules /\ ctDir' = ctDir /\ ctLoop' = ctLoop /\ ctTool' = ctTool /\ ctTold' = ctTold /\ ctWiped' = ctWiped
  BY DEF CtRestart
<1>2. CtTypes /\ ctRules \in BOOLEAN /\ ctDisk \in CtConfigs /\ ctDir \in SUBSET CtItems
  BY DEF CtInv, CtTypes
<1>3. /\ ctCfg' \in CtConfigs /\ ctCfg'.groups = ctDisk.groups
      /\ \A k \in CtItems : ctCfg'.of[k] \subseteq ctDisk.of[k]
      /\ \A k \in ctDir : FlagIn(ctCfg', k) = FlagIn(ctDisk, k)
  BY <1>1, <1>2, CtSynced
<1>4. /\ ctMem' \in [CtItems -> CtFlags]
      /\ ctRules => \A k \in CtItems : ctMem'[k] # "set"
      /\ \A k \in CtItems : ctMem'[k] = IF k \notin ctDir THEN "none" ELSE IF ctRules THEN "plain" ELSE FlagIn(ctCfg', k)
  BY <1>1 DEF CtFlags, FlagIn
<1>5. CtTypes'
  BY <1>1, <1>2, <1>3, <1>4 DEF CtTypes
<1>6. CtClean(ctCfg)' /\ CtClean(ctDisk)'
  BY <1>1, <1>3 DEF CtInv, CtClean
<1>7. ASSUME NEW k \in CtItems PROVE CtItemOK(k)'
  <2>1. CASE k \in ctWiped \/ ctTold[k] = "any"
    BY <1>1, <2>1 DEF CtItemOK
  <2>2. CASE ~(k \in ctWiped \/ ctTold[k] = "any")
    <3>1. CtEverywhere(k)
      BY <1>1, <2>2 DEF CtInv, CtItemOK, CtInHand
    <3>2. CASE k \notin ctDir
      BY <1>1, <1>4, <3>1, <3>2 DEF CtItemOK, CtInHand, CtEverywhere, CtShown
    <3>3. CASE k \in ctDir
      <4>1. FlagIn(ctCfg', k) = ctTold[k] /\ ctTold[k] # "none"
        BY <1>3, <3>1, <3>3 DEF CtEverywhere
      <4>2. ctMem'[k] # "none" /\ (~ctRules => ctMem'[k] = ctTold[k])
        BY <1>4, <3>3, <4>1
      <4>3. CtEverywhere(k)'
        BY <1>1, <3>3, <4>1, <4>2 DEF CtEverywhere, CtShown
      <4> QED
        BY <1>1, <4>3 DEF CtItemOK, CtInHand
    <3> QED
      BY <3>2, <3>3
  <2> QED
    BY <2>1, <2>2
<1> QED
  BY <1>1, <1>5, <1>6, <1>7 DEF CtInv, CtSeen

LEMMA CtOtherInv == CtInv /\ CtOther => CtInv'
<1> SUFFICES ASSUME CtInv, CtOther PROVE CtInv'
  OBVIOUS
<1>1. /\ ctDisk' = [CtNoConfig EXCEPT !.groups = CtGroups]
      /\ ctTold' = [i \in CtItems |-> "any"] /\ ctGone' = {}
      /\ ctRules' = ctRules /\ ctDir' = ctDir /\ ctMem' = ctMem /\ ctCfg' = ctCfg
      /\ ctLoop' = ctLoop /\ ctTool' = ctTool /\ ctWiped' = ctWiped
  BY DEF CtOther
<1>2. ctDisk' \in CtConfigs
  BY <1>1 DEF CtNoConfig, CtConfigs, CtFlags
<1>3. ctTold' \in [CtItems -> CtFlags \cup {"any"}]
  BY <1>1
<1>4. CtTypes'
  BY <1>1, <1>2, <1>3 DEF CtInv, CtTypes
<1>5. \A k \in CtItems : CtItemOK(k)'
  BY <1>1 DEF CtItemOK
<1>6. CtSeen'
  BY <1>1 DEF CtSeen
<1>7. CtClean(ctCfg)' /\ CtClean(ctDisk)'
  BY <1>1 DEF CtClean
<1> QED
  BY <1>1, <1>4, <1>5, <1>6, <1>7 DEF CtInv

\* Catalog, CatalogKept: whatever order requests, reloads, the steps of tools and
\* restarts come in, an item is in memory, in its directory and in the file what its user
\* was told, and no item is in a group that was deleted, however many items there are.
THEOREM CatalogSafe == CtSpec => []CatalogKept
<1>1. CtInv /\ [CtNext]_ctVars => CtInv'
  <2> SUFFICES ASSUME CtInv, [CtNext]_ctVars PROVE CtInv'
    OBVIOUS
  <2>1. CASE UNCHANGED ctVars
    <3>1. /\ ctRules' = ctRules /\ ctDir' = ctDir /\ ctMem' = ctMem /\ ctCfg' = ctCfg /\ ctDisk' = ctDisk
          /\ ctLoop' = ctLoop /\ ctTool' = ctTool /\ ctTold' = ctTold /\ ctWiped' = ctWiped /\ ctGone' = ctGone
      BY <2>1 DEF ctVars
    <3>2. CtTypes' /\ CtSeen' /\ CtClean(ctCfg)' /\ CtClean(ctDisk)'
      BY <3>1 DEF CtInv, CtTypes, CtSeen, CtClean, CtInHand
    <3>3. ASSUME NEW k \in CtItems PROVE CtItemOK(k)'
      <4>1. CtSame(k) /\ CtToolSame(k) /\ CtItemOK(k)
        BY <3>1 DEF CtInv, CtSame, CtToolSame, CtInHand
      <4> QED
        BY <3>1, <4>1, CtFrame
    <3> QED
      BY <3>1, <3>2, <3>3 DEF CtInv
  <2>2. CASE CtNext
    BY <2>2, CtCreateInv, CtToggleInv, CtDeleteInv, CtGroupsInv, CtReloadInv, CtScanInv, CtSyncInv, CtSwapInv,
       CtToolCreatesInv, CtToolSyncsInv, CtToolEnablesInv, CtToolSavesInv, CtLookedUpInv, CtToolShowsInv,
       CtToolDeletesInv, CtToolForgetsInv, CtToolGroupsInv, CtRestartInv, CtOtherInv DEF CtNext
  <2> QED
    BY <2>1, <2>2
<1>2. CtInv => CatalogKept
  <2> SUFFICES ASSUME CtInv, CtQuiet PROVE CatalogKept
    BY DEF CatalogKept
  <2>1. ASSUME NEW i \in CtItems \ ctWiped PROVE AsTold(i)
    <3>1. ctTold[i] # "any" => CtEverywhere(i)
      BY DEF CtInv, CtItemOK, CtInHand, CtQuiet
    <3>2. (i \in ctDir) = (ctTold[i] # "none") <=> (i \in ctDir <=> ctTold[i] # "none")
      OBVIOUS
    <3> QED
      BY <3>1, <3>2 DEF AsTold, CtEverywhere
  <2> QED
    BY <2>1 DEF CatalogKept, CtInv, CtClean
<1> QED
  BY <1>1, <1>2, CtInitInv, PTL DEF CtSpec

-----------------------------------------------------------------------------
(***************************************************************************)
(* The tools: who owns what is registered, and the groups                  *)
(***************************************************************************)
TgSpec == TgInit /\ [][TgNext]_tgVars

TgOwners == {"", "core"} \cup TgServerIds \cup TgExtIds
TgGroup  == [owner : {""} \cup TgExtIds, lists : SUBSET TgNames, name : 0..2]
TgStates == {"loaded", "starting", "running", "blocked", "degraded"}
TgTypes ==
  /\ tgPc \in {"start", "servers", "extensions", "up", "off"} /\ tgTurn \in Nat \ {0}
  /\ tgLinked \subseteq TgServerIds /\ tgRoute \in [TgNames -> tgLinked \cup {""}]
  /\ tgReg \in [TgNames -> [owner : TgOwners, group : TgGroups \cup {""}]]
  /\ tgMem \in [TgGroups -> TgGroup] /\ tgFile \in [TgGroups -> TgGroup]
  /\ tgRead \in {"good", "missing", "torn"} /\ tgMap \in [TgNames -> TgGroups \cup {""}]
  /\ tgExt \in [TgExtIds -> TgStates]
  /\ tgHeld \subseteq [tool : TgNames, owner : TgOwners \ {""}]
  /\ tgAsked \in [TgGroups -> -1..2]

\* Until the servers are connected nothing is registered.
TgEmpty ==
  tgPc \in {"start", "servers"} =>
    /\ \A t \in TgNames : tgReg[t] = NoTool /\ tgMap[t] = ""
    /\ tgMem = NoGroups

\* Who is registered as an owner is up, or has begun to contribute.
TgContributing(o) == InOrder /\ o = TgExtension /\ tgExt[o] \in {"starting", "blocked"}
TgOwned ==
  \A t \in TgNames :
    /\ tgReg[t].owner # "" => OwnerUp(tgReg[t].owner) \/ (tgReg[t].owner \in TgExtIds /\ TgContributing(tgReg[t].owner))
    /\ tgReg[t].owner \in tgLinked => tgRoute[t] = tgReg[t].owner

\* A group that is not there is empty, and one of an extension is the one it brings.
TgGroupsOK(groups) ==
  \A g \in TgGroups : /\ groups[g].name = 0 => groups[g] = NoGroup
                      /\ groups[g].owner # "" => TgBrings[groups[g].owner].group = g

\* A tool is mapped to groups that are there, and shown in the one it is mapped to.
Brought(g) == \E e \in TgExtIds : TgBrings[e].group = g
TgMapped ==
  \A t \in TgNames :
    /\ tgMap[t] # "" /\ ~Brought(tgMap[t]) => tgMem[tgMap[t]].name # 0
    /\ tgReg[t].group # "" /\ ~Brought(tgReg[t].group) => tgMap[t] = tgReg[t].group

\* What was asked for is what a file that can be read says, and memory once it is loaded.
TgAgreed ==
  \A g \in TgGroups :
    IF tgRead = "good"
    THEN /\ tgAsked[g] = GivenName(tgFile, g)
         /\ tgPc \notin {"start", "servers"} => tgAsked[g] = GivenName(tgMem, g)
    ELSE tgAsked[g] = -1

TgInv ==
  /\ TgTypes /\ TgEmpty /\ TgOwned /\ TgGroupsOK(tgMem) /\ TgGroupsOK(tgFile)
  /\ TgMapped /\ TgAgreed /\ ~tgStray

-----------------------------------------------------------------------------
LEMMA TgNothing ==
  /\ NoGroup \in TgGroup /\ NoGroup.owner = "" /\ NoGroup.lists = {} /\ NoGroup.name = 0
  /\ NoGroups \in [TgGroups -> TgGroup] /\ \A g \in TgGroups : NoGroups[g] = NoGroup
  /\ NoTool.owner = "" /\ NoTool.group = "" /\ NoTool \in [owner : TgOwners, group : TgGroups \cup {""}]
  /\ MapOf(NoGroups) = [t \in TgNames |-> ""]
<1>1. NoGroup \in TgGroup /\ NoGroup.owner = "" /\ NoGroup.lists = {} /\ NoGroup.name = 0
  BY DEF NoGroup, TgGroup
<1>2. NoGroups \in [TgGroups -> TgGroup] /\ \A g \in TgGroups : NoGroups[g] = NoGroup
  BY <1>1 DEF NoGroups
<1>3. NoTool.owner = "" /\ NoTool.group = "" /\ NoTool \in [owner : TgOwners, group : TgGroups \cup {""}]
  BY DEF NoTool, TgOwners
<1>4. \A t \in TgNames : ~\E g \in TgGroups : t \in NoGroups[g].lists
  BY <1>1, <1>2
<1>5. MapOf(NoGroups) = [t \in TgNames |-> ""]
  BY <1>4 DEF MapOf
<1> QED
  BY <1>1, <1>2, <1>3, <1>5

\* What a table of groups maps tools to.
LEMMA TgMapOf ==
  ASSUME NEW groups \in [TgGroups -> TgGroup], TgGroupsOK(groups)
  PROVE  /\ MapOf(groups) \in [TgNames -> TgGroups \cup {""}]
         /\ \A t \in TgNames : MapOf(groups)[t] # "" => groups[MapOf(groups)[t]].name # 0
<1>1. ASSUME NEW t \in TgNames
      PROVE  /\ MapOf(groups)[t] \in TgGroups \cup {""}
             /\ MapOf(groups)[t] # "" => t \in groups[MapOf(groups)[t]].lists
  <2>1. CASE \E g \in TgGroups : t \in groups[g].lists
    <3>1. MapOf(groups)[t] = CHOOSE g \in TgGroups : t \in groups[g].lists
      BY <2>1 DEF MapOf
    <3> QED
      BY <2>1, <3>1
  <2>2. CASE ~\E g \in TgGroups : t \in groups[g].lists
    BY <2>2 DEF MapOf
  <2> QED
    BY <2>1, <2>2
<1>2. MapOf(groups) \in [TgNames -> TgGroups \cup {""}]
  <2>1. MapOf(groups) = [t \in TgNames |-> MapOf(groups)[t]]
    BY DEF MapOf
  <2> QED
    BY <1>1, <2>1
<1>3. ASSUME NEW t \in TgNames, MapOf(groups)[t] # "" PROVE groups[MapOf(groups)[t]].name # 0
  <2>1. PICK g \in TgGroups : g = MapOf(groups)[t] /\ t \in groups[g].lists
    BY <1>1, <1>3
  <2>2. groups[g] # NoGroup
    BY <2>1, TgNothing
  <2> QED
    BY <2>1, <2>2 DEF TgGroupsOK
<1> QED
  BY <1>2, <1>3

LEMMA TgNamesToo == \A k \in 0..2 : k \in -1..2
OBVIOUS

LEMMA TgRenamed ==
  ASSUME NEW o, NEW l, NEW k, NEW n, NEW c, c = [owner |-> o, lists |-> l, name |-> k]
  PROVE  [c EXCEPT !.name = n] = [owner |-> o, lists |-> l, name |-> n]
OBVIOUS

LEMMA TgNameIn ==
  ASSUME NEW groups \in [TgGroups -> TgGroup], NEW g \in TgGroups
  PROVE  GivenName(groups, g) \in 0..2
<1>1. groups[g].name \in 0..2
  BY DEF TgGroup
<1>2. GivenName(groups, g) = groups[g].name \/ GivenName(groups, g) = 0
  BY DEF GivenName
<1>3. 0 \in 0..2
  OBVIOUS
<1> QED
  BY <1>1, <1>2, <1>3

LEMMA TgInitInv == TgInit => TgInv
<1> SUFFICES ASSUME TgInit PROVE TgInv
  OBVIOUS
<1>1. tgPc = "start" /\ tgTurn = 1 /\ tgLinked = {} /\ tgHeld = {} /\ ~tgStray /\ tgMem = NoGroups
  BY DEF TgInit
<1>2. tgReg = [t \in TgNames |-> NoTool] /\ tgRoute = [t \in TgNames |-> ""] /\ tgMap = [t \in TgNames |-> ""]
  BY TgNothing DEF TgInit
<1>3. tgFile \in [TgGroups -> TgGroup] /\ TgGroupsOK(tgFile)
  <2>1. tgFile \in TgFiles
    BY DEF TgInit
  <2>2. /\ tgFile \in [TgGroups -> TgGroup]
        /\ \A g \in TgGroups : /\ tgFile[g].name = 0 => tgFile[g].owner = "" /\ tgFile[g].lists = {}
                               /\ tgFile[g].owner # "" => TgBrings[tgFile[g].owner].group = g
    BY <2>1, TgAssumption DEF TgGroup
  <2>3. \A g \in TgGroups : tgFile[g].name = 0 => tgFile[g] = NoGroup
    <3>1. ASSUME NEW g \in TgGroups, tgFile[g].name = 0 PROVE tgFile[g] = NoGroup
      <4>1. tgFile[g] \in TgGroup /\ tgFile[g].owner = "" /\ tgFile[g].lists = {}
        BY <2>2, <3>1
      <4> QED
        BY <3>1, <4>1 DEF TgGroup, NoGroup
    <3> QED
      BY <3>1
  <2> QED
    BY <2>2, <2>3 DEF TgGroupsOK
<1>4. tgRead \in {"good", "missing", "torn"} /\ tgExt = [e \in TgExtIds |-> "loaded"]
  BY DEF TgInit, TgExtIds
<1>5. tgAsked = [g \in TgGroups |-> IF tgRead = "good" THEN GivenName(tgFile, g) ELSE -1]
  BY DEF TgInit
<1>6. tgAsked \in [TgGroups -> -1..2]
  <2>1. \A g \in TgGroups : GivenName(tgFile, g) \in 0..2
    BY <1>3, TgNameIn
  <2>2. \A g \in TgGroups : (IF tgRead = "good" THEN GivenName(tgFile, g) ELSE -1) \in -1..2
    BY <2>1
  <2> QED
    BY <1>5, <2>2
<1>7. TgTypes
  <2>1. tgReg \in [TgNames -> [owner : TgOwners, group : TgGroups \cup {""}]] /\ tgRoute \in [TgNames -> tgLinked \cup {""}]
    BY <1>1, <1>2, TgNothing
  <2>2. tgMap \in [TgNames -> TgGroups \cup {""}] /\ tgMem \in [TgGroups -> TgGroup]
    BY <1>1, <1>2, TgNothing
  <2>3. tgExt \in [TgExtIds -> TgStates]
    BY <1>4 DEF TgStates
  <2>4. tgTurn \in Nat \ {0}
    BY <1>1
  <2>5. /\ tgPc \in {"start", "servers", "extensions", "up", "off"} /\ tgLinked \subseteq TgServerIds
        /\ tgHeld \subseteq [tool : TgNames, owner : TgOwners \ {""}]
    BY <1>1
  <2> QED
    BY <1>3, <1>4, <1>6, <2>1, <2>2, <2>3, <2>4, <2>5 DEF TgTypes
<1>8. TgGroupsOK(tgMem)
  BY <1>1, TgNothing DEF TgGroupsOK
<1>9. TgEmpty /\ TgOwned /\ TgMapped
  BY <1>1, <1>2, TgNothing DEF TgEmpty, TgOwned, TgMapped
<1>10. TgAgreed
  BY <1>1, <1>5 DEF TgAgreed
<1> QED
  BY <1>1, <1>3, <1>7, <1>8, <1>9, <1>10 DEF TgInv

-----------------------------------------------------------------------------
LEMMA TgNth ==
  ASSUME NEW S, NEW s \in Seq(S), NEW n \in Nat \ {0}, n <= Len(s)
  PROVE  s[n] \in S
OBVIOUS

LEMMA TgServersInv == TgInv /\ (TgBoot \/ TgConnects \/ TgSkips) => TgInv'
<1> SUFFICES ASSUME TgInv, TgBoot \/ TgConnects \/ TgSkips PROVE TgInv'
  OBVIOUS
<1>1. /\ tgReg' = tgReg /\ tgMem' = tgMem /\ tgFile' = tgFile /\ tgRead' = tgRead /\ tgMap' = tgMap
      /\ tgAsked' = tgAsked /\ tgExt' = tgExt /\ tgHeld' = tgHeld /\ tgStray' = tgStray
      /\ tgPc \in {"start", "servers"} /\ tgPc' = "servers"
  BY DEF TgBoot, TgConnects, TgSkips, TgBegin, TgServerTurn, TgBesideServers, tgGrouping
<1>2. TgTypes /\ TgEmpty
  BY DEF TgInv
<1>3. tgTurn' \in Nat \ {0}
  <2>1. tgTurn' \in {1, tgTurn + 1} /\ tgTurn \in Nat
    BY <1>2 DEF TgBoot, TgConnects, TgSkips, TgBegin, TgServerTurn, TgTypes
  <2> QED
    BY <2>1
<1>4. tgLinked' \subseteq TgServerIds /\ tgRoute' \in [TgNames -> tgLinked' \cup {""}]
  <2>1. CASE TgConnects
    <3>1. TgServer \in TgServerIds
      <4>1. tgTurn \in Nat \ {0} /\ tgTurn <= Len(TgServers) /\ TgServers \in Seq(TgServerIds)
        BY <1>2, <2>1, TgAssumption DEF TgConnects, TgServerTurn, TgTypes
      <4> QED
        BY <4>1, TgNth DEF TgServer
    <3>2. PICK s \in TgServerIds : s = TgServer
      BY <3>1
    <3>3. tgLinked' = tgLinked \cup {s} /\ tgRoute' = [t \in TgNames |-> IF t \in Offered(s) THEN s ELSE tgRoute[t]]
      BY <2>1, <3>2 DEF TgConnects
    <3> QED
      BY <1>2, <3>3 DEF TgTypes
  <2>2. CASE TgBoot \/ TgSkips
    <3>1. tgLinked' = tgLinked /\ tgRoute' = tgRoute
      BY <2>2 DEF TgBoot, TgSkips
    <3> QED
      BY <1>2, <3>1 DEF TgTypes
  <2> QED
    BY <2>1, <2>2
<1>5. TgTypes'
  BY <1>1, <1>2, <1>3, <1>4 DEF TgTypes
<1>6. \A t \in TgNames : tgReg'[t].owner = "" /\ tgReg'[t].group = "" /\ tgMap'[t] = ""
  BY <1>1, <1>2, TgNothing DEF TgEmpty
<1>7. TgEmpty' /\ TgMapped'
  BY <1>1, <1>2, <1>6 DEF TgEmpty, TgMapped
<1>8. TgOwned'
  BY <1>4, <1>6, TgAssumption DEF TgOwned
<1>9. TgGroupsOK(tgMem)' /\ TgGroupsOK(tgFile)' /\ TgAgreed'
  BY <1>1 DEF TgInv, TgGroupsOK, TgAgreed, GivenName
<1> QED
  BY <1>1, <1>5, <1>7, <1>8, <1>9 DEF TgInv

LEMMA TgLoads ==
  ASSUME TgInv
  PROVE  /\ TgLoaded \in [TgGroups -> TgGroup] /\ TgGroupsOK(TgLoaded)
         /\ tgRead = "good" => TgLoaded = tgFile
<1>1. TgTypes /\ TgGroupsOK(tgFile)
  BY DEF TgInv
<1>2. CASE tgRead = "good"
  BY <1>1, <1>2 DEF TgLoaded, TgTypes
<1>3. CASE tgRead = "torn"
  BY <1>3, TgNothing DEF TgLoaded, TgGroupsOK
<1>4. CASE tgRead = "missing"
  <2>1. PICK d : d = [NoGroup EXCEPT !.name = 1]
    OBVIOUS
  <2>2. d \in TgGroup /\ d.owner = "" /\ d.name # 0
    <3>1. d = [owner |-> "", lists |-> {}, name |-> 1]
      BY <2>1 DEF NoGroup
    <3>2. PICK one \in 0..2 : one = 1 /\ one # 0
      OBVIOUS
    <3>3. d = [owner |-> "", lists |-> {}, name |-> one]
      BY <3>1, <3>2
    <3>4. "" \in {""} \cup TgExtIds /\ {} \in SUBSET TgNames
      OBVIOUS
    <3> QED
      BY <3>2, <3>3, <3>4 DEF TgGroup
  <2>3. TgLoaded = [NoGroups EXCEPT !["default"] = d]
    BY <1>4, <2>1, TgAssumption, TgNothing DEF TgLoaded
  <2>4. PICK n \in [TgGroups -> TgGroup] : n = NoGroups
    BY TgNothing
  <2>5. PICK f : f = [n EXCEPT !["default"] = d]
    OBVIOUS
  <2>6. f \in [TgGroups -> TgGroup] /\ \A g \in TgGroups : f[g] = n[g] \/ f[g] = d
    BY <2>2, <2>5
  <2>7. \A g \in TgGroups : f[g] = NoGroup \/ (f[g].owner = "" /\ f[g].name # 0)
    BY <2>2, <2>4, <2>6, TgNothing
  <2>8. TgGroupsOK(f)
    BY <2>7, TgNothing DEF TgGroupsOK
  <2>9. f = TgLoaded
    BY <2>3, <2>4, <2>5
  <2> QED
    BY <1>4, <2>6, <2>8, <2>9
<1> QED
  BY <1>1, <1>2, <1>3, <1>4 DEF TgTypes

LEMMA TgRegistersInv == TgInv /\ TgRegisters => TgInv'
<1> SUFFICES ASSUME TgInv, TgRegisters PROVE TgInv'
  OBVIOUS
<1>1. /\ tgPc = "servers" /\ tgPc' \in {"extensions", "off"} /\ tgTurn' = 1
      /\ tgMem' = TgLoaded /\ tgMap' = MapOf(tgMem')
      /\ tgReg' = [t \in TgNames |-> IF t \in FromServers THEN Entry(t, tgRoute[t])
                                     ELSE IF t \in TgCore THEN Entry(t, "core") ELSE NoTool]
      /\ tgLinked' = tgLinked /\ tgRoute' = tgRoute /\ tgFile' = tgFile /\ tgRead' = tgRead
      /\ tgAsked' = tgAsked /\ tgExt' = tgExt /\ tgHeld' = tgHeld /\ tgStray' = tgStray
  BY DEF TgRegisters, TgBegin
<1>2. TgTypes
  BY DEF TgInv
<1>3. tgMem' \in [TgGroups -> TgGroup] /\ TgGroupsOK(tgMem')
  BY <1>1, TgLoads
<1>4. tgMap' \in [TgNames -> TgGroups \cup {""}] /\ \A t \in TgNames : tgMap'[t] # "" => tgMem'[tgMap'[t]].name # 0
  BY <1>1, <1>3, TgMapOf
<1>5. ASSUME NEW t \in TgNames
      PROVE  \/ tgReg'[t] = Entry(t, tgRoute[t]) /\ tgRoute[t] \in tgLinked
             \/ tgReg'[t] = Entry(t, "core")
             \/ tgReg'[t] = NoTool
  <2>1. t \in FromServers => tgRoute[t] \in tgLinked
    BY <1>2 DEF FromServers, TgTypes
  <2> QED
    BY <1>1, <2>1
<1>6. ASSUME NEW t \in TgNames
      PROVE  /\ tgReg'[t] \in [owner : TgOwners, group : TgGroups \cup {""}]
             /\ \/ tgReg'[t].owner \in tgLinked /\ tgReg'[t].owner = tgRoute[t]
                \/ tgReg'[t].owner \in {"", "core"}
             /\ tgReg'[t].group \in {"", tgMap'[t]}
  <2>1. tgMap'[t] \in TgGroups \cup {""} /\ tgLinked \subseteq TgOwners /\ {"", "core"} \subseteq TgOwners
    BY <1>2, <1>4 DEF TgTypes, TgOwners
  <2>2. PICK g \in TgGroups \cup {""} : g = tgMap'[t]
    BY <2>1
  <2>3. CASE tgReg'[t] = Entry(t, tgRoute[t]) /\ tgRoute[t] \in tgLinked
    <3>1. tgReg'[t] = [owner |-> tgRoute[t], group |-> g] /\ tgRoute[t] \in TgOwners
      BY <2>1, <2>2, <2>3 DEF Entry
    <3>2. PICK e : e = tgReg'[t]
      OBVIOUS
    <3>3. PICK o \in TgOwners : o = tgRoute[t]
      BY <3>1
    <3>4. e = [owner |-> o, group |-> g]
      BY <3>1, <3>2, <3>3
    <3>5. e.owner = tgRoute[t] /\ e.group = g /\ e \in [owner : TgOwners, group : TgGroups \cup {""}]
      BY <2>2, <3>3, <3>4
    <3> QED
      BY <2>2, <2>3, <3>2, <3>5
  <2>4. CASE tgReg'[t] = Entry(t, "core")
    <3>1. tgReg'[t] = [owner |-> "core", group |-> g] /\ "core" \in TgOwners
      BY <2>1, <2>2, <2>4 DEF Entry
    <3>2. PICK e : e = tgReg'[t]
      OBVIOUS
    <3>3. PICK o \in TgOwners : o = "core"
      BY <3>1
    <3>4. e = [owner |-> o, group |-> g]
      BY <3>1, <3>2, <3>3
    <3>5. e.owner = "core" /\ e.group = g /\ e \in [owner : TgOwners, group : TgGroups \cup {""}]
      BY <2>2, <3>3, <3>4
    <3> QED
      BY <2>2, <3>2, <3>5
  <2> QED
    BY <1>5, <2>3, <2>4, TgNothing
<1>7. TgTypes'
  <2>1. tgReg' \in [TgNames -> [owner : TgOwners, group : TgGroups \cup {""}]]
    <3>1. tgReg' = [t \in TgNames |-> tgReg'[t]]
      BY <1>1
    <3> QED
      BY <1>6, <3>1
  <2>2. tgTurn' \in Nat \ {0}
    BY <1>1
  <2>3. tgPc' \in {"start", "servers", "extensions", "up", "off"}
    BY <1>1
  <2> QED
    BY <1>1, <1>2, <1>3, <1>4, <2>1, <2>2, <2>3 DEF TgTypes
<1>8. TgEmpty'
  BY <1>1 DEF TgEmpty
<1>9. TgOwned'
  BY <1>1, <1>2, <1>6, TgAssumption DEF TgOwned, OwnerUp, TgTypes
<1>10. TgMapped'
  BY <1>4, <1>6 DEF TgMapped
<1>11. TgAgreed'
  <2>1. tgRead = "good" => tgMem' = tgFile
    BY <1>1, TgLoads
  <2> QED
    BY <1>1, <2>1 DEF TgInv, TgAgreed, GivenName
<1>12. TgGroupsOK(tgFile)'
  BY <1>1 DEF TgInv, TgGroupsOK
<1> QED
  BY <1>1, <1>3, <1>7, <1>8, <1>9, <1>10, <1>11, <1>12 DEF TgInv

-----------------------------------------------------------------------------
\* What the contributions of some extensions leave when they are taken away.
LEMMA TgGoes ==
  ASSUME TgInv, NEW owners \in SUBSET TgExtIds, Unregisters(owners), tgPc' = tgPc, tgFile' = tgFile, tgRead' = tgRead,
         tgAsked' = tgAsked
  PROVE  /\ tgReg' \in [TgNames -> [owner : TgOwners, group : TgGroups \cup {""}]]
         /\ tgMem' \in [TgGroups -> TgGroup] /\ tgMap' \in [TgNames -> TgGroups \cup {""}]
         /\ TgGroupsOK(tgMem') /\ TgMapped' /\ TgAgreed'
         /\ \A t \in TgNames : IF tgReg[t].owner \in owners THEN tgReg'[t].owner = "" ELSE tgReg'[t] = tgReg[t]
<1>1. /\ tgReg' = [t \in TgNames |-> IF tgReg[t].owner \in owners THEN NoTool ELSE tgReg[t]]
      /\ tgMem' = [g \in TgGroups |-> IF tgMem[g].owner \in owners THEN NoGroup ELSE tgMem[g]]
      /\ tgMap' = [t \in TgNames |-> IF tgMap[t] # "" /\ tgMem[tgMap[t]].owner \in owners THEN "" ELSE tgMap[t]]
  BY DEF Unregisters, GroupsGo
<1>2. TgTypes /\ TgGroupsOK(tgMem) /\ TgMapped /\ TgAgreed
  BY DEF TgInv
<1>3. /\ tgReg' \in [TgNames -> [owner : TgOwners, group : TgGroups \cup {""}]]
      /\ \A t \in TgNames : IF tgReg[t].owner \in owners THEN tgReg'[t] = NoTool ELSE tgReg'[t] = tgReg[t]
  BY <1>1, <1>2, TgNothing DEF TgTypes
<1>4. /\ tgMem' \in [TgGroups -> TgGroup]
      /\ \A g \in TgGroups : IF tgMem[g].owner \in owners THEN tgMem'[g] = NoGroup ELSE tgMem'[g] = tgMem[g]
  BY <1>1, <1>2, TgNothing DEF TgTypes
<1>5. /\ tgMap' \in [TgNames -> TgGroups \cup {""}]
      /\ \A t \in TgNames : IF tgMap[t] # "" /\ tgMem[tgMap[t]].owner \in owners THEN tgMap'[t] = "" ELSE tgMap'[t] = tgMap[t]
  BY <1>1, <1>2 DEF TgTypes
<1>6. TgGroupsOK(tgMem')
  BY <1>2, <1>4, TgNothing DEF TgGroupsOK
\* Such a group is one an extension brings.
<1>7. \A g \in TgGroups : tgMem[g].owner \in owners => Brought(g)
  BY <1>2, TgAssumption DEF TgGroupsOK, Brought
<1>8. TgMapped'
  <2>1. ASSUME NEW t \in TgNames, tgMap'[t] # "", ~Brought(tgMap'[t]) PROVE tgMem'[tgMap'[t]].name # 0
    <3>1. tgMap'[t] = tgMap[t] /\ tgMap[t] \in TgGroups
      BY <1>2, <1>5, <2>1 DEF TgTypes
    <3>2. tgMem'[tgMap[t]] = tgMem[tgMap[t]]
      BY <1>4, <1>7, <2>1, <3>1
    <3> QED
      BY <1>2, <2>1, <3>1, <3>2 DEF TgMapped
  <2>2. ASSUME NEW t \in TgNames, tgReg'[t].group # "", ~Brought(tgReg'[t].group) PROVE tgMap'[t] = tgReg'[t].group
    <3>1. tgReg'[t] = tgReg[t]
      BY <1>3, <2>2, TgNothing
    <3>2. tgMap[t] = tgReg[t].group /\ tgMap[t] \in TgGroups
      BY <1>2, <2>2, <3>1 DEF TgMapped, TgTypes
    <3> QED
      BY <1>5, <1>7, <2>2, <3>1, <3>2
  <2> QED
    BY <2>1, <2>2 DEF TgMapped, Brought
<1>9. \A g \in TgGroups : GivenName(tgMem', g) = GivenName(tgMem, g)
  BY <1>4, TgAssumption, TgNothing DEF GivenName
<1>10. TgAgreed'
  <2>1. ASSUME NEW g \in TgGroups
        PROVE IF tgRead' = "good"
              THEN /\ tgAsked'[g] = GivenName(tgFile', g)
                   /\ tgPc' \notin {"start", "servers"} => tgAsked'[g] = GivenName(tgMem', g)
              ELSE tgAsked'[g] = -1
    BY <1>2, <1>9 DEF TgAgreed
  <2> QED
    BY <2>1 DEF TgAgreed, GivenName
<1> QED
  BY <1>3, <1>4, <1>5, <1>6, <1>8, <1>10, TgNothing

-----------------------------------------------------------------------------
\* A step of the extensions that leaves what is registered as it is.
LEMMA TgRegisteredInv ==
  ASSUME TgInv, tgPc \notin {"start", "servers"}, tgPc' \in {"extensions", "up"}, tgTurn' \in Nat \ {0},
         tgReg' = tgReg, tgMem' = tgMem, tgMap' = tgMap, tgFile' = tgFile, tgRead' = tgRead, tgAsked' = tgAsked,
         tgLinked' = tgLinked, tgRoute' = tgRoute, tgExt' \in [TgExtIds -> TgStates],
         tgHeld' \subseteq [tool : TgNames, owner : TgOwners \ {""}], ~tgStray',
         \A o \in TgExtIds : tgExt[o] = "running" \/ TgContributing(o) => tgExt'[o] = "running" \/ TgContributing(o)'
  PROVE  TgInv'
<1>1. TgTypes /\ TgOwned /\ TgMapped /\ TgAgreed /\ TgGroupsOK(tgMem) /\ TgGroupsOK(tgFile)
  BY DEF TgInv
<1>2. TgTypes'
  BY <1>1 DEF TgTypes
<1>3. TgEmpty'
  BY DEF TgEmpty
<1>4. TgOwned'
  <2>1. ASSUME NEW t \in TgNames, tgReg[t].owner # ""
        PROVE  OwnerUp(tgReg[t].owner)' \/ (tgReg[t].owner \in TgExtIds /\ TgContributing(tgReg[t].owner)')
    <3>1. OwnerUp(tgReg[t].owner) \/ (tgReg[t].owner \in TgExtIds /\ TgContributing(tgReg[t].owner))
      BY <1>1, <2>1 DEF TgOwned
    <3>2. DOMAIN tgExt = TgExtIds /\ DOMAIN tgExt' = TgExtIds
      BY <1>1 DEF TgTypes
    <3> QED
      BY <3>1, <3>2 DEF OwnerUp, TgIds
  <2>2. \A t \in TgNames : tgReg[t].owner \in tgLinked => tgRoute[t] = tgReg[t].owner
    BY <1>1 DEF TgOwned
  <2>3. \A t \in TgNames : tgReg[t].owner # "" =>
          OwnerUp(tgReg[t].owner)' \/ (tgReg[t].owner \in TgExtIds /\ TgContributing(tgReg[t].owner)')
    BY <2>1
  <2> QED
    BY <2>2, <2>3 DEF TgOwned, OwnerUp, TgContributing, TgIds, InOrder, TgExtension
<1>5. TgMapped' /\ TgGroupsOK(tgMem)' /\ TgGroupsOK(tgFile)'
  BY <1>1 DEF TgMapped, TgGroupsOK
<1>6. TgAgreed'
  BY <1>1 DEF TgAgreed, GivenName
<1> QED
  BY <1>2, <1>3, <1>4, <1>5, <1>6 DEF TgInv

LEMMA TgTurnOf ==
  ASSUME TgTypes, InOrder
  PROVE  TgExtension \in TgExtIds /\ tgTurn + 1 \in Nat \ {0} /\ tgPc = "extensions"
<1>1. tgTurn \in Nat \ {0} /\ tgTurn <= Len(TgExts) /\ TgExts \in Seq(TgExtIds)
  BY TgAssumption DEF TgTypes, InOrder
<1> QED
  BY <1>1, TgNth DEF TgExtension, InOrder

LEMMA TgStartsInv == TgInv /\ TgStarts => TgInv'
<1> SUFFICES ASSUME TgInv, TgStarts PROVE TgInv'
  OBVIOUS
<1>1. TgTypes /\ InOrder /\ ~tgStray
  BY DEF TgInv, TgStarts
<1>2. PICK e \in TgExtIds : e = TgExtension
  BY <1>1, TgTurnOf
<1>3. /\ tgExt[e] = "loaded" /\ tgPc = "extensions" /\ tgPc' = tgPc
      /\ tgTurn' \in {tgTurn, tgTurn + 1}
      /\ \E s \in {"starting", "blocked"} : tgExt' = [tgExt EXCEPT ![e] = s]
      /\ tgReg' = tgReg /\ tgMem' = tgMem /\ tgMap' = tgMap /\ tgFile' = tgFile /\ tgRead' = tgRead /\ tgAsked' = tgAsked
      /\ tgLinked' = tgLinked /\ tgRoute' = tgRoute /\ tgHeld' = tgHeld /\ tgStray' = tgStray
  BY <1>2 DEF TgStarts, TgNextTurn, TgUnregistered, TgBesideExts, InOrder
<1>4. tgExt' \in [TgExtIds -> TgStates] /\ \A o \in TgExtIds : o # e => tgExt'[o] = tgExt[o]
  BY <1>1, <1>3 DEF TgTypes, TgStates
<1>5. tgTurn' \in Nat \ {0}
  BY <1>1, <1>3, TgTurnOf DEF TgTypes
<1>6. \A o \in TgExtIds : tgExt[o] = "running" \/ TgContributing(o) => tgExt'[o] = "running"
  BY <1>2, <1>3, <1>4 DEF TgContributing
<1>7. tgHeld' \subseteq [tool : TgNames, owner : TgOwners \ {""}] /\ ~tgStray'
  BY <1>1, <1>3 DEF TgTypes
<1> QED
  BY <1>3, <1>4, <1>5, <1>6, <1>7, TgRegisteredInv

LEMMA TgContributesInv == TgInv /\ TgContributes => TgInv'
<1> SUFFICES ASSUME TgInv, TgContributes PROVE TgInv'
  OBVIOUS
<1>1. TgTypes /\ TgOwned /\ TgMapped /\ TgAgreed /\ TgGroupsOK(tgMem) /\ TgGroupsOK(tgFile) /\ InOrder /\ ~tgStray
  BY DEF TgInv, TgContributes
<1>2. PICK e \in TgExtIds : e = TgExtension
  BY <1>1, TgTurnOf
<1>3. /\ tgPc = "extensions" /\ tgPc' = tgPc /\ tgTurn' = tgTurn /\ tgExt' = tgExt /\ tgHeld' = tgHeld /\ tgStray' = tgStray
      /\ tgLinked' = tgLinked /\ tgRoute' = tgRoute /\ tgFile' = tgFile /\ tgRead' = tgRead /\ tgAsked' = tgAsked
      /\ tgExt[e] \in {"starting", "blocked"}
  BY <1>2 DEF TgContributes, TgBesideExts, InOrder
<1>4. TgContributing(e) /\ e \notin tgLinked /\ e # ""
  BY <1>1, <1>2, <1>3, TgAssumption DEF TgContributing, TgTypes
<1>5. \A o : (OwnerUp(o)' <=> OwnerUp(o)) /\ (TgContributing(o)' <=> TgContributing(o))
  BY <1>3 DEF OwnerUp, TgContributing, TgIds, InOrder, TgExtension
<1>6. TgGroupsOK(tgFile)' /\ TgEmpty'
  BY <1>1, <1>3 DEF TgGroupsOK, TgEmpty
<1>7. CASE ContributesTool
  <2>1. PICK t \in TgNames : tgReg' = [tgReg EXCEPT ![t] = Entry(t, e)] /\ tgMap' = tgMap /\ tgMem' = tgMem
    BY <1>2, <1>7 DEF ContributesTool
  <2>2. PICK m \in TgGroups \cup {""} : m = tgMap[t]
    BY <1>1 DEF TgTypes
  <2>3. PICK r : r = [owner |-> e, group |-> m]
    OBVIOUS
  <2>4. tgReg' = [tgReg EXCEPT ![t] = r]
    BY <2>1, <2>2, <2>3 DEF Entry
  <2>5. r.owner = e /\ r.group = m /\ r \in [owner : TgOwners, group : TgGroups \cup {""}]
    BY <2>2, <2>3 DEF TgOwners
  <2>6. /\ tgReg' \in [TgNames -> [owner : TgOwners, group : TgGroups \cup {""}]]
        /\ tgReg'[t] = r /\ \A k \in TgNames : k # t => tgReg'[k] = tgReg[k]
    BY <1>1, <2>4, <2>5 DEF TgTypes
  <2>7. TgTypes'
    BY <1>1, <1>3, <2>1, <2>6 DEF TgTypes
  <2>8. TgOwned'
    <3>1. ASSUME NEW k \in TgNames
          PROVE  /\ tgReg'[k].owner # "" => OwnerUp(tgReg'[k].owner)
                                            \/ (tgReg'[k].owner \in TgExtIds /\ TgContributing(tgReg'[k].owner))
                 /\ tgReg'[k].owner \in tgLinked => tgRoute[k] = tgReg'[k].owner
      <4>1. CASE k = t
        BY <1>4, <2>5, <2>6, <4>1
      <4>2. CASE k # t
        BY <1>1, <2>6, <4>2 DEF TgOwned
      <4> QED
        BY <4>1, <4>2
    <3>2. ASSUME NEW k \in TgNames, NEW o, o = tgReg'[k].owner
          PROVE  /\ o # "" => OwnerUp(o)' \/ (o \in TgExtIds /\ TgContributing(o)')
                 /\ o \in tgLinked' => tgRoute'[k] = o
      BY <1>3, <1>5, <3>1, <3>2
    <3> QED
      BY <3>2 DEF TgOwned, OwnerUp, TgContributing, TgIds, InOrder, TgExtension
  <2>9. TgMapped'
    <3>1. \A k \in TgNames : tgReg'[k].group = tgReg[k].group \/ tgReg'[k].group = tgMap[k]
      BY <2>2, <2>5, <2>6
    <3> QED
      BY <1>1, <2>1, <3>1 DEF TgMapped
  <2>10. TgAgreed' /\ TgGroupsOK(tgMem)'
    BY <1>1, <1>3, <2>1 DEF TgAgreed, GivenName, TgGroupsOK
  <2> QED
    BY <1>1, <1>3, <1>6, <2>7, <2>8, <2>9, <2>10 DEF TgInv
<1>8. CASE ContributesGroup
  <2>1. PICK g \in TgGroups, lists \in SUBSET TgNames : g = TgBrings[e].group /\ lists = TgBrings[e].lists
    BY TgAssumption
  <2>2. /\ tgMem[g].name = 0 /\ \A t \in lists : tgMap[t] = ""
        /\ tgMem' = [tgMem EXCEPT ![g] = [owner |-> e, lists |-> lists, name |-> 1]]
        /\ tgMap' = [t \in TgNames |-> IF t \in lists THEN g ELSE tgMap[t]]
        /\ tgReg' = tgReg
    BY <1>2, <1>8, <2>1 DEF ContributesGroup, GroupClash
  <2>3. PICK r : r = [owner |-> e, lists |-> lists, name |-> 1]
    OBVIOUS
  <2>4. r \in TgGroup /\ r.owner = e /\ r.name # 0
    <3>1. PICK one \in 0..2 : one = 1 /\ one # 0
      OBVIOUS
    <3>2. r = [owner |-> e, lists |-> lists, name |-> one]
      BY <2>3, <3>1
    <3>3. e \in {""} \cup TgExtIds
      OBVIOUS
    <3> QED
      BY <2>1, <3>1, <3>2, <3>3 DEF TgGroup
  <2>5. /\ tgMem' \in [TgGroups -> TgGroup] /\ tgMem'[g] = r
        /\ \A h \in TgGroups : h # g => tgMem'[h] = tgMem[h]
    BY <1>1, <2>2, <2>3, <2>4 DEF TgTypes
  <2>6. /\ tgMap' \in [TgNames -> TgGroups \cup {""}]
        /\ \A t \in TgNames : tgMap'[t] = IF t \in lists THEN g ELSE tgMap[t]
    BY <1>1, <2>2 DEF TgTypes
  <2>7. TgTypes'
    BY <1>1, <1>3, <2>2, <2>5, <2>6 DEF TgTypes
  <2>8. TgGroupsOK(tgMem')
    BY <1>1, <2>1, <2>4, <2>5 DEF TgGroupsOK
  <2>9. Brought(g)
    BY <2>1 DEF Brought
  <2>10. TgMapped'
    <3>1. ASSUME NEW t \in TgNames, tgMap'[t] # "", ~Brought(tgMap'[t]) PROVE tgMem'[tgMap'[t]].name # 0
      <4>1. tgMap'[t] = tgMap[t] /\ tgMap[t] # g /\ tgMap[t] \in TgGroups
        BY <1>1, <2>6, <2>9, <3>1 DEF TgTypes
      <4> QED
        BY <1>1, <2>5, <3>1, <4>1 DEF TgMapped
    <3>2. ASSUME NEW t \in TgNames, tgReg'[t].group # "", ~Brought(tgReg'[t].group) PROVE tgMap'[t] = tgReg'[t].group
      <4>1. tgMap[t] = tgReg[t].group /\ tgReg'[t] = tgReg[t]
        BY <1>1, <2>2, <3>2 DEF TgMapped
      <4>2. t \notin lists
        BY <2>2, <3>2, <4>1
      <4> QED
        BY <2>6, <4>1, <4>2
    <3> QED
      BY <3>1, <3>2 DEF TgMapped, Brought
  <2>11. \A h \in TgGroups : GivenName(tgMem', h) = GivenName(tgMem, h)
    <3>1. tgMem[g].owner = ""
      BY <1>1, <2>2, TgNothing DEF TgGroupsOK
    <3> QED
      BY <1>4, <2>2, <2>4, <2>5, <3>1 DEF GivenName
  <2>12. TgAgreed'
    <3>1. ASSUME NEW h \in TgGroups
          PROVE IF tgRead' = "good"
                THEN /\ tgAsked'[h] = GivenName(tgFile', h)
                     /\ tgPc' \notin {"start", "servers"} => tgAsked'[h] = GivenName(tgMem', h)
                ELSE tgAsked'[h] = -1
      BY <1>1, <1>3, <2>11 DEF TgAgreed
    <3> QED
      BY <3>1 DEF TgAgreed, GivenName
  <2>13. TgOwned'
    BY <1>1, <1>3, <1>5, <2>2 DEF TgOwned, OwnerUp, TgContributing, TgIds, InOrder, TgExtension
  <2>14. TgGroupsOK(tgMem)'
    BY <2>8 DEF TgGroupsOK
  <2> QED
    BY <1>1, <1>3, <1>6, <2>7, <2>10, <2>12, <2>13, <2>14 DEF TgInv
<1> QED
  BY <1>7, <1>8 DEF TgContributes

-----------------------------------------------------------------------------
\* What is up but is not an extension stays up while its servers do.
LEMMA TgStillUp ==
  ASSUME TgTypes, tgLinked' = tgLinked, tgExt' \in [TgExtIds -> TgStates], NEW o, OwnerUp(o),
         o \in TgExtIds => tgExt'[o] = tgExt[o]
  PROVE  OwnerUp(o)'
<1>1. DOMAIN tgExt = TgExtIds /\ DOMAIN tgExt' = TgExtIds
  BY DEF TgTypes
<1> QED
  BY <1>1 DEF OwnerUp, TgIds

\* A step that takes away what some extensions contributed, and whatever it makes of
\* their states, leaves the others as they were or still contributing.
LEMMA TgGoesInv ==
  ASSUME TgInv, tgPc \in {"extensions", "up"}, NEW owners \in SUBSET TgExtIds, Unregisters(owners),
         tgPc' = tgPc, tgTurn' \in Nat \ {0}, tgFile' = tgFile, tgRead' = tgRead, tgAsked' = tgAsked,
         tgLinked' = tgLinked, tgRoute' = tgRoute, tgHeld' = tgHeld, tgStray' = tgStray,
         tgExt' \in [TgExtIds -> TgStates],
         \A o \in TgExtIds \ owners : /\ tgExt[o] = "running" => tgExt'[o] = "running"
                                      /\ TgContributing(o) => TgContributing(o)'
  PROVE  TgInv'
<1>1. TgTypes /\ TgOwned /\ TgGroupsOK(tgFile) /\ ~tgStray
  BY DEF TgInv
<1>2. /\ tgReg' \in [TgNames -> [owner : TgOwners, group : TgGroups \cup {""}]]
      /\ tgMem' \in [TgGroups -> TgGroup] /\ tgMap' \in [TgNames -> TgGroups \cup {""}]
      /\ TgGroupsOK(tgMem') /\ TgMapped' /\ TgAgreed'
      /\ \A t \in TgNames : IF tgReg[t].owner \in owners THEN tgReg'[t].owner = "" ELSE tgReg'[t] = tgReg[t]
  BY TgGoes
<1>3. TgTypes'
  BY <1>1, <1>2 DEF TgTypes
<1>4. TgEmpty' /\ TgGroupsOK(tgFile)' /\ TgGroupsOK(tgMem)' /\ ~tgStray'
  BY <1>1, <1>2 DEF TgEmpty, TgGroupsOK
<1>5. TgOwned'
  <2>1. ASSUME NEW t \in TgNames, NEW o, o = tgReg'[t].owner
        PROVE  /\ o # "" => OwnerUp(o)' \/ (o \in TgExtIds /\ TgContributing(o)')
               /\ o \in tgLinked' => tgRoute'[t] = o
    <3>1. CASE tgReg[t].owner \in owners
      <4>1. o = "" /\ "" \notin tgLinked'
        BY <1>1, <1>2, <2>1, <3>1, TgAssumption DEF TgTypes
      <4> QED
        BY <4>1
    <3>2. CASE tgReg[t].owner \notin owners
      <4>1. o = tgReg[t].owner /\ o \notin owners
        BY <1>2, <2>1, <3>2
      <4>2. /\ o # "" => OwnerUp(o) \/ (o \in TgExtIds /\ TgContributing(o))
            /\ o \in tgLinked => tgRoute[t] = o
        BY <1>1, <4>1 DEF TgOwned
      <4>3. DOMAIN tgExt = TgExtIds /\ DOMAIN tgExt' = TgExtIds
        BY <1>1 DEF TgTypes
      <4>4. OwnerUp(o) => OwnerUp(o)'
        BY <4>1, <4>3 DEF OwnerUp, TgIds
      <4> QED
        BY <4>1, <4>2, <4>4
    <3> QED
      BY <3>1, <3>2
  <2> QED
    BY <2>1 DEF TgOwned, OwnerUp, TgContributing, TgIds, InOrder, TgExtension
<1> QED
  BY <1>2, <1>3, <1>4, <1>5 DEF TgInv

LEMMA TgStartEndsInv == TgInv /\ TgStartEnds => TgInv'
<1> SUFFICES ASSUME TgInv, TgStartEnds PROVE TgInv'
  OBVIOUS
<1>1. TgTypes /\ InOrder /\ ~tgStray
  BY DEF TgInv, TgStartEnds
<1>2. PICK e \in TgExtIds : e = TgExtension
  BY <1>1, TgTurnOf
<1>3. /\ tgPc = "extensions" /\ tgPc' = tgPc /\ tgTurn' = tgTurn + 1 /\ tgHeld' = tgHeld /\ tgStray' = tgStray
      /\ tgLinked' = tgLinked /\ tgRoute' = tgRoute /\ tgFile' = tgFile /\ tgRead' = tgRead /\ tgAsked' = tgAsked
  BY DEF TgStartEnds, TgNextTurn, TgBesideExts, InOrder
<1>4. tgTurn' \in Nat \ {0}
  BY <1>1, <1>3, TgTurnOf
<1>5. \A o \in TgExtIds : TgContributing(o) => o = e
  BY <1>2 DEF TgContributing
<1>6. CASE tgExt' = [tgExt EXCEPT ![e] = "running"] /\ TgUnregistered
  <2>1. tgExt' \in [TgExtIds -> TgStates] /\ tgExt'[e] = "running" /\ \A o \in TgExtIds : o # e => tgExt'[o] = tgExt[o]
    BY <1>1, <1>6 DEF TgTypes, TgStates
  <2>2. tgReg' = tgReg /\ tgMem' = tgMem /\ tgMap' = tgMap
    BY <1>6 DEF TgUnregistered
  <2>3. tgHeld' \subseteq [tool : TgNames, owner : TgOwners \ {""}] /\ ~tgStray'
    BY <1>1, <1>3 DEF TgTypes
  <2>4. \A o \in TgExtIds : tgExt[o] = "running" \/ TgContributing(o) => tgExt'[o] = "running"
    BY <1>5, <2>1
  <2> QED
    BY <1>3, <1>4, <2>1, <2>2, <2>3, <2>4, TgRegisteredInv
<1>7. CASE Unregisters({e}) /\ (tgExt' = tgExt \/ tgExt' = [tgExt EXCEPT ![e] = "degraded"])
  <2>1. tgExt' \in [TgExtIds -> TgStates] /\ \A o \in TgExtIds \ {e} : tgExt'[o] = tgExt[o]
    BY <1>1, <1>7 DEF TgTypes, TgStates
  <2>2. \A o \in TgExtIds \ {e} : /\ tgExt[o] = "running" => tgExt'[o] = "running"
                                  /\ TgContributing(o) => TgContributing(o)'
    BY <1>5, <2>1
  <2>3. {e} \in SUBSET TgExtIds
    OBVIOUS
  <2> QED
    BY <1>3, <1>4, <1>7, <2>1, <2>2, <2>3, TgGoesInv
<1> QED
  BY <1>2, <1>6, <1>7 DEF TgStartEnds

LEMMA TgFailsInv == TgInv /\ TgFails => TgInv'
<1> SUFFICES ASSUME TgInv, TgFails PROVE TgInv'
  OBVIOUS
<1>1. TgTypes /\ DOMAIN tgExt = TgExtIds
  BY DEF TgInv, TgTypes
<1>2. PICK e \in TgExtIds :
       /\ tgExt[e] = "running"
       /\ Unregisters({e} \cup {d \in Needing(e) : tgExt[d] = "running"})
       /\ tgExt' = [d \in TgExtIds |-> IF d = e THEN "degraded"
                                       ELSE IF d \in Needing(e) /\ tgExt[d] \in {"starting", "running"} THEN "blocked"
                                       ELSE tgExt[d]]
  BY <1>1 DEF TgFails, TgIds
<1>3. /\ tgPc \in {"extensions", "up"} /\ tgPc' = tgPc /\ tgTurn' = tgTurn /\ tgHeld' = tgHeld /\ tgStray' = tgStray
      /\ tgLinked' = tgLinked /\ tgRoute' = tgRoute /\ tgFile' = tgFile /\ tgRead' = tgRead /\ tgAsked' = tgAsked
  BY DEF TgFails, TgBesideExts, tgStart
<1>4. PICK owners : owners = {e} \cup {d \in Needing(e) : tgExt[d] = "running"}
  OBVIOUS
<1>5. owners \in SUBSET TgExtIds /\ Unregisters(owners)
  BY <1>1, <1>2, <1>4 DEF Needing, TgIds
<1>6. \A d \in TgExtIds : tgExt'[d] = IF d = e THEN "degraded"
                                     ELSE IF d \in Needing(e) /\ tgExt[d] \in {"starting", "running"} THEN "blocked"
                                     ELSE tgExt[d]
  BY <1>2
<1>7. tgExt' \in [TgExtIds -> TgStates]
  <2>1. \A d \in TgExtIds : tgExt'[d] \in TgStates
    BY <1>1, <1>6 DEF TgTypes, TgStates
  <2> QED
    BY <1>2, <2>1
<1>8. ASSUME NEW o \in TgExtIds \ owners
      PROVE  /\ tgExt[o] = "running" => tgExt'[o] = "running"
             /\ TgContributing(o) => TgContributing(o)'
  <2>1. o # e /\ (tgExt[o] = "running" => o \notin Needing(e))
    BY <1>4
  <2>2. tgExt'[o] = tgExt[o] \/ (tgExt[o] = "starting" /\ tgExt'[o] = "blocked")
    BY <1>6, <2>1
  <2>3. InOrder' = InOrder /\ TgExtension' = TgExtension
    BY <1>3 DEF InOrder, TgExtension
  <2> QED
    BY <1>6, <2>1, <2>2, <2>3 DEF TgContributing
<1>9. tgTurn' \in Nat \ {0}
  BY <1>1, <1>3 DEF TgTypes
<1> QED
  BY <1>3, <1>5, <1>7, <1>8, <1>9, TgGoesInv

-----------------------------------------------------------------------------
LEMMA TgSessionsInv == TgInv /\ (TgServing \/ TgInstantiates \/ TgCalls) => TgInv'
<1> SUFFICES ASSUME TgInv, TgServing \/ TgInstantiates \/ TgCalls PROVE TgInv'
  OBVIOUS
<1>1. TgTypes /\ TgOwned /\ ~tgStray
  BY DEF TgInv
<1>2. /\ tgReg' = tgReg /\ tgMem' = tgMem /\ tgMap' = tgMap /\ tgFile' = tgFile /\ tgRead' = tgRead /\ tgAsked' = tgAsked
      /\ tgLinked' = tgLinked /\ tgRoute' = tgRoute /\ tgExt' = tgExt
      /\ tgPc \notin {"start", "servers"} /\ tgPc' = "up"
  BY DEF TgServing, TgInstantiates, TgCalls, TgUnregistered, TgBesideExts, TgBegin, tgStart, tgGrouping
<1>3. tgTurn' \in Nat \ {0}
  <2>1. tgTurn' \in {1, tgTurn} /\ tgTurn \in Nat \ {0}
    BY <1>1 DEF TgServing, TgInstantiates, TgCalls, TgBegin, tgStart, TgTypes
  <2> QED
    BY <2>1
\* Nothing contributes once every extension has had its turn.
<1>4. ~InOrder
  <2>1. tgPc = "up" \/ tgTurn > Len(TgExts)
    BY DEF TgServing, TgInstantiates, TgCalls
  <2>2. tgTurn \in Nat /\ Len(TgExts) \in Nat
    <3>1. tgTurn \in Nat /\ TgExts \in Seq(TgExtIds)
      BY <1>1, TgAssumption DEF TgTypes
    <3> QED
      BY <3>1
  <2>3. tgTurn > Len(TgExts) => ~(tgTurn <= Len(TgExts))
    BY <2>2
  <2> QED
    BY <2>1, <2>3 DEF InOrder
<1>5. tgHeld' \subseteq [tool : TgNames, owner : TgOwners \ {""}]
  <2>1. Instances \subseteq [tool : TgNames, owner : TgOwners \ {""}]
    <3>1. ASSUME NEW t \in TgNames, tgReg[t].owner # ""
          PROVE  [tool |-> t, owner |-> tgReg[t].owner] \in [tool : TgNames, owner : TgOwners \ {""}]
      <4>1. PICK o \in TgOwners \ {""} : o = tgReg[t].owner
        BY <1>1, <3>1 DEF TgTypes
      <4> QED
        BY <4>1
    <3> QED
      BY <3>1 DEF Instances
  <2> QED
    BY <1>1, <2>1 DEF TgServing, TgInstantiates, TgCalls, TgTypes
<1>6. ~tgStray'
  <2>1. CASE TgCalls
    <3>1. PICK h \in tgHeld : RunsFor(h) /\ tgStray' = (tgStray \/ ~OwnerUp(h.owner))
      BY <2>1 DEF TgCalls
    <3>2. h.tool \in TgNames /\ h.owner # ""
      BY <1>1 DEF TgTypes
    <3>3. OwnerUp(h.owner)
      BY <1>1, <1>4, <3>1, <3>2 DEF RunsFor, TgOwned, TgContributing, OwnerUp
    <3> QED
      BY <1>1, <3>1, <3>3
  <2>2. CASE TgServing \/ TgInstantiates
    BY <1>1, <2>2 DEF TgServing, TgInstantiates, TgBesideExts
  <2> QED
    BY <2>1, <2>2
<1>7. \A o \in TgExtIds : tgExt[o] = "running" \/ TgContributing(o) => tgExt'[o] = "running"
  BY <1>2, <1>4 DEF TgContributing
<1>8. tgExt' \in [TgExtIds -> TgStates]
  BY <1>1, <1>2 DEF TgTypes
<1> QED
  BY <1>2, <1>3, <1>5, <1>6, <1>7, <1>8, TgRegisteredInv

-----------------------------------------------------------------------------
\* What a user makes of one group, saved or taken back.
LEMMA TgSavesInv ==
  ASSUME TgInv, TgUser, NEW g \in TgGroups, NEW n \in 0..2, NEW mem \in [TgGroups -> TgGroup], TgGroupsOK(mem),
         \A h \in TgGroups : h # g => mem[h] = tgMem[h],
         GivenName(mem, g) = IF tgMem[g].owner = "" THEN n ELSE 0,
         mem[g].name # 0 \/ \A t \in TgNames : tgMap[t] # g,
         TgSaves(mem, NameAsked(g, n)), tgMap' = tgMap
  PROVE  TgInv'
<1>1. TgTypes /\ TgOwned /\ TgGroupsOK(tgMem) /\ TgGroupsOK(tgFile) /\ TgMapped /\ TgAgreed /\ ~tgStray
  BY DEF TgInv
<1>2. /\ tgPc = "up" /\ tgPc' = tgPc /\ tgTurn' = tgTurn /\ tgLinked' = tgLinked /\ tgRoute' = tgRoute
      /\ tgReg' = tgReg /\ tgExt' = tgExt /\ tgHeld' = tgHeld /\ tgStray' = tgStray
  BY DEF TgUser, tgStart
<1>3. TgEmpty' /\ TgOwned'
  BY <1>1, <1>2 DEF TgEmpty, TgOwned, OwnerUp, TgContributing, TgIds, InOrder, TgExtension
\* The names asked for are those of the table written.
<1>4. NameAsked(g, n) = [h \in TgGroups |-> GivenName(mem, h)]
  <2>1. ASSUME NEW h \in TgGroups
        PROVE  (IF h = g /\ tgMem[g].owner = "" THEN n
                ELSE IF tgRead = "good" THEN tgAsked[h] ELSE GivenName(tgMem, h)) = GivenName(mem, h)
    <3>1. tgRead = "good" => tgAsked[h] = GivenName(tgMem, h)
      BY <1>1, <1>2 DEF TgAgreed
    <3>2. CASE h # g
      BY <3>1, <3>2 DEF GivenName
    <3>3. CASE h = g
      BY <3>1, <3>3 DEF GivenName
    <3> QED
      BY <3>2, <3>3
  <2> QED
    BY <2>1 DEF NameAsked
<1>5. CASE tgMem' = mem /\ tgFile' = mem /\ tgRead' = "good" /\ tgAsked' = NameAsked(g, n)
  <2>1. \A h \in TgGroups : GivenName(mem, h) \in 0..2
    BY TgNameIn
  <2>2. tgAsked' \in [TgGroups -> -1..2] /\ \A h \in TgGroups : tgAsked'[h] = GivenName(mem, h)
    <3>2. \A h \in TgGroups : GivenName(mem, h) \in -1..2
      BY <2>1, TgNamesToo
    <3> QED
      BY <1>4, <1>5, <3>2
  <2>3. TgTypes'
    BY <1>1, <1>2, <1>5, <2>2 DEF TgTypes
  <2>4. TgGroupsOK(tgMem)' /\ TgGroupsOK(tgFile)'
    BY <1>5 DEF TgGroupsOK
  <2>5. TgMapped'
    <3>1. ASSUME NEW t \in TgNames, tgMap[t] # "", ~Brought(tgMap[t]) PROVE mem[tgMap[t]].name # 0
      <4>1. tgMap[t] \in TgGroups /\ tgMem[tgMap[t]].name # 0
        BY <1>1, <3>1 DEF TgMapped, TgTypes
      <4> QED
        BY <4>1
    <3>2. \A t \in TgNames : tgReg[t].group # "" /\ ~Brought(tgReg[t].group) => tgMap[t] = tgReg[t].group
      BY <1>1 DEF TgMapped
    <3> QED
      BY <1>2, <1>5, <3>1, <3>2 DEF TgMapped, Brought
  <2>6. TgAgreed'
    BY <1>5, <2>2 DEF TgAgreed, GivenName
  <2> QED
    BY <1>1, <1>2, <1>3, <2>3, <2>4, <2>5, <2>6 DEF TgInv
<1>6. CASE tgMem' = tgMem /\ tgFile' = tgFile /\ tgRead' = tgRead /\ tgAsked' = tgAsked
  <2>1. TgTypes'
    BY <1>1, <1>2, <1>6 DEF TgTypes
  <2>2. TgGroupsOK(tgMem)' /\ TgGroupsOK(tgFile)' /\ TgMapped' /\ TgAgreed'
    BY <1>1, <1>2, <1>6 DEF TgGroupsOK, TgMapped, TgAgreed, GivenName, Brought
  <2> QED
    BY <1>1, <1>2, <1>3, <2>1, <2>2 DEF TgInv
<1> QED
  BY <1>5, <1>6 DEF TgSaves, TakenBack

LEMMA TgUsersInv == TgInv /\ (TgAddGroup \/ TgUpdateGroup \/ TgDeleteGroup) => TgInv'
<1> SUFFICES ASSUME TgInv, TgAddGroup \/ TgUpdateGroup \/ TgDeleteGroup PROVE TgInv'
  OBVIOUS
<1>1. TgTypes /\ TgGroupsOK(tgMem) /\ TgUser /\ tgMap' = tgMap
  BY DEF TgInv, TgAddGroup, TgUpdateGroup, TgDeleteGroup
\* A name given to a group keeps its owner and what it lists.
<1>2. ASSUME NEW g \in TgGroups, NEW n \in 1..2, tgMem[g].name # 0 \/ tgMem[g].owner = "",
             TgSaves([tgMem EXCEPT ![g].name = n], NameAsked(g, n))
      PROVE  TgInv'
  <2>1. PICK r \in TgGroup : r = [owner |-> tgMem[g].owner, lists |-> tgMem[g].lists, name |-> n]
    <3>1. PICK m \in 0..2 : m = n
      OBVIOUS
    <3>2. tgMem[g].owner \in {""} \cup TgExtIds /\ tgMem[g].lists \in SUBSET TgNames
      BY <1>1 DEF TgTypes, TgGroup
    <3> QED
      BY <3>1, <3>2 DEF TgGroup
  <2>2. r = [tgMem[g] EXCEPT !.name = n]
    <3>1. PICK o, l, k : tgMem[g] = [owner |-> o, lists |-> l, name |-> k]
      BY <1>1 DEF TgTypes, TgGroup
    <3>2. PICK c : c = tgMem[g]
      OBVIOUS
    <3>3. c = [owner |-> o, lists |-> l, name |-> k]
      BY <3>1, <3>2
    <3>4. c.owner = o /\ c.lists = l
      BY <3>3
    <3>5. PICK z : z = n
      OBVIOUS
    <3>6. [c EXCEPT !.name = z] = [owner |-> o, lists |-> l, name |-> z]
      BY <3>3, TgRenamed
    <3>7. r = [owner |-> o, lists |-> l, name |-> z]
      BY <2>1, <3>2, <3>4, <3>5
    <3> QED
      BY <3>2, <3>5, <3>6, <3>7
  <2>3. PICK mem : mem = [tgMem EXCEPT ![g] = r]
    OBVIOUS
  <2>4. [tgMem EXCEPT ![g].name = n] = mem
    BY <1>1, <2>2, <2>3 DEF TgTypes
  <2>5. /\ mem \in [TgGroups -> TgGroup] /\ mem[g] = r
        /\ \A h \in TgGroups : h # g => mem[h] = tgMem[h]
    BY <1>1, <2>1, <2>3 DEF TgTypes
  <2>6. r.owner = tgMem[g].owner /\ r.name = n /\ n # 0 /\ n \in 0..2
    BY <2>1
  <2>7. TgGroupsOK(mem)
    BY <1>1, <2>5, <2>6 DEF TgGroupsOK
  <2>8. GivenName(mem, g) = IF tgMem[g].owner = "" THEN n ELSE 0
    BY <2>5, <2>6 DEF GivenName
  <2>9. TgSaves(mem, NameAsked(g, n))
    BY <1>2, <2>4
  <2> QED
    BY <1>1, <2>5, <2>6, <2>7, <2>8, <2>9, TgSavesInv
<1>3. CASE TgAddGroup
  <2>1. PICK g \in TgGroups : tgMem[g].name = 0 /\ TgSaves([tgMem EXCEPT ![g].name = 1], NameAsked(g, 1))
    BY <1>3 DEF TgAddGroup
  <2>2. tgMem[g].owner = ""
    BY <1>1, <2>1, TgNothing DEF TgGroupsOK
  <2>3. 1 \in 1..2
    OBVIOUS
  <2> QED
    BY <1>2, <2>1, <2>2, <2>3
<1>4. CASE TgUpdateGroup
  <2>1. PICK g \in TgGroups : tgMem[g].name = 1 /\ TgSaves([tgMem EXCEPT ![g].name = 2], NameAsked(g, 2))
    BY <1>4 DEF TgUpdateGroup
  <2>2. tgMem[g].name # 0 /\ 2 \in 1..2
    BY <2>1
  <2> QED
    BY <1>2, <2>1, <2>2
<1>5. CASE TgDeleteGroup
  <2>1. PICK g \in TgGroups : /\ \A t \in TgNames : tgMap[t] # g
                              /\ TgSaves([tgMem EXCEPT ![g] = NoGroup], NameAsked(g, 0))
    BY <1>5 DEF TgDeleteGroup
  <2>2. PICK mem : mem = [tgMem EXCEPT ![g] = NoGroup]
    OBVIOUS
  <2>3. /\ mem \in [TgGroups -> TgGroup] /\ mem[g] = NoGroup
        /\ \A h \in TgGroups : h # g => mem[h] = tgMem[h]
    BY <1>1, <2>2, TgNothing DEF TgTypes
  <2>4. TgGroupsOK(mem) /\ GivenName(mem, g) = 0
    BY <1>1, <2>3, TgNothing DEF TgGroupsOK, GivenName
  <2>5. 0 \in 0..2 /\ GivenName(mem, g) = (IF tgMem[g].owner = "" THEN 0 ELSE 0)
    BY <2>4
  <2> QED
    BY <1>1, <2>1, <2>2, <2>3, <2>4, <2>5, TgSavesInv
<1> QED
  BY <1>3, <1>4, <1>5

-----------------------------------------------------------------------------
LEMMA TgRestartInv == TgInv /\ TgRestart => TgInv'
<1> SUFFICES ASSUME TgInv, TgRestart PROVE TgInv'
  OBVIOUS
<1>1. TgTypes /\ TgGroupsOK(tgFile) /\ TgAgreed /\ ~tgStray /\ DOMAIN tgExt = TgExtIds
  BY DEF TgInv, TgTypes
<1>2. /\ tgPc' = "start" /\ tgTurn' = 1 /\ tgLinked' = {} /\ tgHeld' = {} /\ tgMem' = NoGroups
      /\ tgReg' = [t \in TgNames |-> NoTool] /\ tgRoute' = [t \in TgNames |-> ""] /\ tgMap' = [t \in TgNames |-> ""]
      /\ tgExt' = [e \in TgExtIds |-> "loaded"]
      /\ tgFile' = tgFile /\ tgRead' = tgRead /\ tgAsked' = tgAsked /\ tgStray' = tgStray
  BY <1>1, TgNothing DEF TgRestart, TgBegin, TgIds
<1>3. TgTypes'
  <2>1. tgReg' \in [TgNames -> [owner : TgOwners, group : TgGroups \cup {""}]] /\ tgRoute' \in [TgNames -> tgLinked' \cup {""}]
    BY <1>2, TgNothing
  <2>2. tgMap' \in [TgNames -> TgGroups \cup {""}] /\ tgMem' \in [TgGroups -> TgGroup]
    BY <1>2, TgNothing
  <2>3. tgExt' \in [TgExtIds -> TgStates]
    BY <1>2 DEF TgStates
  <2>4. tgTurn' \in Nat \ {0}
    <3>1. tgTurn' = 1
      BY <1>2
    <3> QED
      BY <3>1
  <2>5. /\ tgPc' \in {"start", "servers", "extensions", "up", "off"} /\ tgLinked' \subseteq TgServerIds
        /\ tgHeld' \subseteq [tool : TgNames, owner : TgOwners \ {""}]
    BY <1>2
  <2>6. tgFile' \in [TgGroups -> TgGroup] /\ tgRead' \in {"good", "missing", "torn"} /\ tgAsked' \in [TgGroups -> -1..2]
    BY <1>1, <1>2 DEF TgTypes
  <2> QED
    BY <2>1, <2>2, <2>3, <2>4, <2>5, <2>6 DEF TgTypes
<1>4. TgEmpty' /\ TgOwned' /\ TgMapped'
  BY <1>2, TgNothing DEF TgEmpty, TgOwned, TgMapped
<1>5. TgGroupsOK(tgMem)' /\ TgGroupsOK(tgFile)'
  BY <1>1, <1>2, TgNothing DEF TgGroupsOK
<1>6. TgAgreed'
  BY <1>1, <1>2 DEF TgAgreed, GivenName
<1> QED
  BY <1>1, <1>2, <1>3, <1>4, <1>5, <1>6 DEF TgInv

LEMMA TgKept == TgInv => ToolsKept
<1> SUFFICES ASSUME TgInv PROVE ToolsKept
  OBVIOUS
<1>1. TgTypes /\ TgOwned /\ TgMapped /\ TgAgreed /\ ~tgStray /\ DOMAIN tgExt = TgExtIds
  BY DEF TgInv, TgTypes
<1>2. NoStrangers
  BY <1>1 DEF NoStrangers, TgOwned, TgContributing
<1>3. ASSUME tgPc = "up", NEW g \in TgGroups, tgAsked[g] # -1
      PROVE  GivenName(tgMem, g) = tgAsked[g] /\ GivenName(tgFile, g) = tgAsked[g]
  BY <1>1, <1>3 DEF TgAgreed
<1>4. ASSUME NEW t \in TgNames, tgReg[t].group # "", tgMem[tgReg[t].group].name = 0
      PROVE  Brought(tgReg[t].group)
  <2>1. SUFFICES ASSUME ~Brought(tgReg[t].group) PROVE FALSE
    OBVIOUS
  <2> QED
    BY <1>1, <1>4, <2>1 DEF TgMapped
<1> QED
  BY <1>1, <1>2, <1>3, <1>4 DEF ToolsKept, GroupsAsTold, Brought, TgIds

\* The tools of registry.py: outside the contribution of an extension every registered
\* tool's owner is up and a server's tool is routed to it, no instance ran without its
\* owner, and groups are what the user was told, in memory and in the file.
THEOREM ToolsSafe == TgSpec => []ToolsKept
<1>1. TgInv /\ [TgNext]_tgVars => TgInv'
  <2> SUFFICES ASSUME TgInv, [TgNext]_tgVars PROVE TgInv'
    OBVIOUS
  <2>1. CASE UNCHANGED tgVars
    <3>1. /\ tgPc' = tgPc /\ tgTurn' = tgTurn /\ tgLinked' = tgLinked /\ tgRoute' = tgRoute /\ tgReg' = tgReg
          /\ tgMem' = tgMem /\ tgFile' = tgFile /\ tgRead' = tgRead /\ tgMap' = tgMap /\ tgAsked' = tgAsked
          /\ tgExt' = tgExt /\ tgHeld' = tgHeld /\ tgStray' = tgStray
      BY <2>1 DEF tgVars, tgStart, tgGrouping
    <3> QED
      BY <3>1 DEF TgInv, TgTypes, TgEmpty, TgOwned, TgGroupsOK, TgMapped, TgAgreed, GivenName, OwnerUp,
                  TgContributing, TgIds, InOrder, TgExtension, Brought
  <2> QED
    BY <2>1, TgServersInv, TgRegistersInv, TgStartsInv, TgContributesInv, TgStartEndsInv, TgFailsInv,
       TgSessionsInv, TgUsersInv, TgRestartInv DEF TgNext
<1> QED
  BY <1>1, TgInitInv, TgKept, PTL DEF TgSpec

-----------------------------------------------------------------------------
(***************************************************************************)
(* ExtensionHost: the invariant.                                           *)
(***************************************************************************)
ExSpec == ExInit /\ [][ExNext]_exVars

ExStatus == {"loaded", "starting", "running", "blocked", "degraded"}
ExBoots ==
  [at : 1..(ExCount + 1), why : {"", "blocked", "degraded"},
   pc : {"next", "migrate", "process", "start", "health", "tools", "stopping", "killing"}]
ExHandlers == [pc : {"none", "watch", "wait", "stopping", "killing"}, at : 0..ExCount]
ExStops == [at : 0..ExCount, pc : {"off", "walk", "stopping", "killing"}, why : {"", "degraded"}]
ExTypes ==
  /\ exDeps \in ExGraphs /\ exState \in [Exts -> ExStatus]
  /\ exStarted \subseteq Exts /\ exTools \subseteq Exts /\ exHook \subseteq Exts /\ exRaced \subseteq Exts
  /\ exProc \in [Exts -> {"none", "up", "dead"}] /\ exStopReq \in [Exts -> BOOLEAN]
  /\ exBoot \in ExBoots /\ exHandler \in [Exts -> ExHandlers] /\ exStop \in ExStops

\* Handlers and the stop that are taking e down, and are at its stop().
ExGoing == {"stopping", "killing"}
ExReleasing(e) ==
  \/ \E o \in Exts : exHandler[o].pc \in ExGoing /\ exHandler[o].at = e
  \/ exStop.pc \in ExGoing /\ exStop.at = e
ExUnhooking(e) ==
  \/ \E o \in Exts : exHandler[o].pc = "stopping" /\ exHandler[o].at = e
  \/ exStop.pc = "stopping" /\ exStop.at = e

\* Before its turn, between the stages of its start, and when these are taken back.
ExFresh(e) ==
  /\ exState[e] \notin {"starting", "running"} /\ e \notin exStarted \cup exTools \cup exHook
  /\ exProc[e] = "none" /\ ~exStopReq[e] /\ exHandler[e].pc = "none"
ExManned(e) == exProc[e] = "up" \/ (exProc[e] = "dead" /\ exHandler[e].pc # "none")
ExStaged(e) ==
  /\ exState[e] \in {"starting", "blocked"} /\ e \notin exTools /\ ~exStopReq[e]
  /\ exHandler[e].pc \notin ExGoing
  /\ e \in exStarted <=> exBoot.pc \in {"start", "health", "tools"}
  /\ e \in exHook <=> exBoot.pc \in {"health", "tools"}
  /\ IF exBoot.pc \in {"migrate", "process"} THEN exProc[e] = "none" ELSE e \in ExWithProcess => ExManned(e)
ExUndone(e) ==
  /\ exState[e] = "blocked" \/ (exState[e] = "starting" /\ exBoot.why = "degraded")
  /\ e \notin exStarted \cup exTools /\ (e \in exHook => exBoot.pc = "stopping")
  /\ exHandler[e].pc \notin ExGoing

\* After its turn: it runs and has all it needs, or nothing of it is left.
ExWhole(e) ==
  /\ exState[e] = "running" /\ e \in exStarted /\ e \in exTools /\ e \in exHook /\ ~exStopReq[e]
  /\ exStop.pc = "off" /\ e \in ExWithProcess => ExManned(e)
ExGone(e) == exState[e] # "running" /\ e \notin exStarted \cup exTools \cup exHook /\ exProc[e] # "up"
ExPassed(e) ==
  /\ exState[e] # "starting"
  /\ IF ExReleasing(e) THEN e \notin exStarted \cup exTools /\ (e \in exHook => ExUnhooking(e))
     ELSE ExWhole(e) \/ ExGone(e)

ExAhead(e) == exBoot.at < e \/ (exBoot.at = e /\ exBoot.pc = "next")
ExFine(e) ==
  /\ ExAhead(e) => ExFresh(e)
  /\ exBoot.at = e /\ ExInStage => ExStaged(e)
  /\ exBoot.at = e /\ exBoot.pc \in ExGoing => ExUndone(e)
  /\ e < exBoot.at => ExPassed(e)

\* The handlers take down what had its turn; the stop comes after the start.
ExTasksOK ==
  /\ exDegrading = {o \in Exts : exHandler[o].pc \in ExGoing}
  /\ \A o \in exDegrading : exHandler[o].at \in Exts /\ o < exBoot.at /\ exHandler[o].at < exBoot.at
                            /\ exHandler[o].at \in ExAffected(o) /\ o <= exHandler[o].at
  /\ exBoot.pc # "next" => exBoot.at \in Exts
  /\ exBoot.pc \in ExGoing => exBoot.why \in {"blocked", "degraded"}
  /\ exStop.pc # "off" => ExBootDone
  /\ exStop.pc \in ExGoing => exStop.at \in Exts

\* What runs has what it depends on, and above where a handler is nothing it affects
\* runs or begins to, but for what began beside it.
ExStands ==
  exStop.pc = "off" =>
    /\ \A e \in Exts : exState[e] = "running" => \A d \in exDeps[e] : exState[d] = "running" \/ e \in exRaced
    /\ \A o \in exDegrading : \A e \in ExAffected(o) :
         exHandler[o].at < e /\ exState[e] \in {"starting", "running"} => e \in exRaced

ExInv == ExTypes /\ ExTasksOK /\ ExStands /\ \A e \in Exts : ExFine(e)

-----------------------------------------------------------------------------
LEMMA ExUponUp ==
  ASSUME NEW deps, NEW o \in Exts
  PROVE  /\ o \in ExUpon(deps, o) /\ ExUpon(deps, o) \subseteq Exts
         /\ \A x \in Exts : \A d \in deps[x] : d \in ExUpon(deps, o) => x \in ExUpon(deps, o)
<1>1. o \in ExUpon(deps, o) /\ ExUpon(deps, o) \subseteq Exts
  BY DEF ExUpon
<1>2. ASSUME NEW x \in Exts, NEW d \in deps[x], d \in ExUpon(deps, o) PROVE x \in ExUpon(deps, o)
  <2>1. ASSUME NEW S \in SUBSET Exts, o \in S, \A y \in Exts : deps[y] \cap S # {} => y \in S PROVE x \in S
    <3>1. d \in S
      BY <1>2, <2>1 DEF ExUpon
    <3> QED
      BY <2>1, <3>1
  <2> QED
    BY <2>1 DEF ExUpon
<1> QED
  BY <1>1, <1>2

\* What the components of the records are.
LEMMA ExParts ==
  ASSUME ExTypes
  PROVE  /\ exBoot.at \in 1..(ExCount + 1) /\ exBoot.at \in Int /\ exStop.at \in 0..ExCount
         /\ exBoot.pc \in {"next", "migrate", "process", "start", "health", "tools", "stopping", "killing"}
         /\ exStop.pc \in {"off", "walk", "stopping", "killing"}
         /\ \A o \in Exts : exHandler[o] \in ExHandlers /\ o \in Int /\ o >= 1 /\ o <= ExCount
         /\ ExCount \in Nat
<1>1. exBoot.at \in 1..(ExCount + 1) /\ exStop.at \in 0..ExCount /\ ExCount \in Nat
  BY ExAssumption DEF ExTypes, ExBoots, ExStops
<1>2. /\ exBoot.pc \in {"next", "migrate", "process", "start", "health", "tools", "stopping", "killing"}
      /\ exStop.pc \in {"off", "walk", "stopping", "killing"}
  BY DEF ExTypes, ExBoots, ExStops
<1>3. \A o \in Exts : exHandler[o] \in ExHandlers
  BY DEF ExTypes
<1>4. \A o \in Exts : o \in Int /\ o >= 1 /\ o <= ExCount
  BY <1>1 DEF Exts
<1>5. exBoot.at \in Int
  BY <1>1
<1> QED
  BY <1>1, <1>2, <1>3, <1>4, <1>5

LEMMA ExDepsIn ==
  ASSUME ExTypes, NEW x \in Exts, NEW d \in exDeps[x]
  PROVE  d \in Exts /\ d < x
<1>1. exDeps[x] \subseteq 1..(x - 1) /\ ExCount \in Nat
  BY ExAssumption DEF ExTypes
<1>2. d \in 1..(x - 1)
  BY <1>1
<1> QED
  BY <1>1, <1>2 DEF Exts

\* An extension a step leaves alone, and whose place in the start stays what it was.
LEMMA ExFrame ==
  ASSUME NEW x \in Exts, ExFine(x), exState'[x] = exState[x], x \in exStarted' <=> x \in exStarted,
         x \in exTools' <=> x \in exTools, x \in exHook' <=> x \in exHook, exProc'[x] = exProc[x],
         exStopReq'[x] = exStopReq[x], exHandler'[x].pc = "none" <=> exHandler[x].pc = "none",
         exHandler'[x].pc \in ExGoing => exHandler[x].pc \in ExGoing \/ x < exBoot.at,
         ExAhead(x)' => ExAhead(x), exBoot'.at = x /\ exBoot'.pc # "next" => exBoot' = exBoot,
         x < exBoot'.at => x < exBoot.at, exStop'.pc = "off" => exStop.pc = "off",
         ExReleasing(x)' <=> ExReleasing(x), ExUnhooking(x) => ExUnhooking(x)'
  PROVE  ExFine(x)'
<1>1. ExAhead(x)' => ExFresh(x)'
  BY DEF ExFine, ExFresh
<1>2. exBoot'.at = x /\ ExInStage' => ExStaged(x)'
  <2>1. ASSUME exBoot'.at = x, ExInStage' PROVE ExStaged(x)'
    <3>1. exBoot' = exBoot /\ ~(x < x)
      BY <2>1 DEF ExInStage, Exts
    <3> QED
      BY <2>1, <3>1 DEF ExFine, ExInStage, ExStaged, ExManned
  <2> QED
    BY <2>1
<1>3. exBoot'.at = x /\ exBoot'.pc \in ExGoing => ExUndone(x)'
  <2>1. ASSUME exBoot'.at = x, exBoot'.pc \in ExGoing PROVE ExUndone(x)'
    <3>1. exBoot' = exBoot /\ ~(x < x)
      BY <2>1 DEF ExGoing, Exts
    <3> QED
      BY <2>1, <3>1 DEF ExFine, ExUndone
  <2> QED
    BY <2>1
<1>4. x < exBoot'.at => ExPassed(x)'
  <2>1. ExWhole(x) => ExWhole(x)'
    BY DEF ExWhole, ExManned
  <2>2. ExGone(x) => ExGone(x)'
    BY DEF ExGone
  <2> QED
    BY <2>1, <2>2 DEF ExFine, ExPassed
<1> QED
  BY <1>1, <1>2, <1>3, <1>4 DEF ExFine, ExInStage

\* Where one handler moves, and not to x or from x, x is taken down by whom it was.
LEMMA ExMoves ==
  ASSUME NEW x \in Exts, NEW o \in Exts, \A p \in Exts : p # o => exHandler'[p] = exHandler[p],
         exHandler[o].pc \in ExGoing => exHandler[o].at # x,
         exHandler'[o].pc \in ExGoing => exHandler'[o].at # x,
         exStop' = exStop
  PROVE  (ExReleasing(x)' <=> ExReleasing(x)) /\ (ExUnhooking(x)' <=> ExUnhooking(x))
BY DEF ExReleasing, ExUnhooking, ExGoing

LEMMA ExInitInv == ExInit => ExInv
<1> SUFFICES ASSUME ExInit PROVE ExInv
  OBVIOUS
<1>1. /\ exDeps \in ExGraphs /\ exStarted = {} /\ exTools = {} /\ exHook = {} /\ exRaced = {} /\ exDegrading = {}
      /\ exProc = [e \in Exts |-> "none"] /\ exStopReq = [e \in Exts |-> FALSE]
      /\ exBoot = [at |-> 1, pc |-> "next", why |-> ""] /\ exStop = [at |-> 0, pc |-> "off", why |-> ""]
      /\ exHandler = [e \in Exts |-> [pc |-> "none", at |-> 0]]
  BY DEF ExInit
<1>2. exState \in [Exts -> {"loaded", "blocked", "degraded"}]
  <2>1. exState = ExLoaded(exDeps, exBroken)
    BY DEF ExInit
  <2> QED
    BY <2>1 DEF ExLoaded
<1>3. ExCount \in Nat \ {0}
  BY ExAssumption
<1>4. ExTypes
  <2>1. exBoot \in ExBoots
    <3>1. 1 \in 1..(ExCount + 1)
      BY <1>3
    <3> QED
      BY <1>1, <3>1 DEF ExBoots
  <2>2. exStop \in ExStops /\ [pc |-> "none", at |-> 0] \in ExHandlers
    <3>1. 0 \in 0..ExCount
      BY <1>3
    <3> QED
      BY <1>1, <3>1 DEF ExStops, ExHandlers
  <2>3. exHandler \in [Exts -> ExHandlers]
    BY <1>1, <2>2
  <2>4. exState \in [Exts -> ExStatus]
    BY <1>2 DEF ExStatus
  <2>5. exProc \in [Exts -> {"none", "up", "dead"}] /\ exStopReq \in [Exts -> BOOLEAN]
    BY <1>1
  <2> QED
    BY <1>1, <2>1, <2>2, <2>3, <2>4, <2>5 DEF ExTypes
<1>5. \A o \in Exts : exHandler[o].pc = "none"
  BY <1>1
<1>6. exBoot.pc = "next" /\ exBoot.at = 1 /\ exStop.pc = "off"
  BY <1>1
<1>7. ExTasksOK
  BY <1>1, <1>5, <1>6 DEF ExTasksOK, ExGoing
<1>8. ExStands
  BY <1>1, <1>2 DEF ExStands
<1>9. ASSUME NEW x \in Exts PROVE ExFine(x)
  <2>1. ExFresh(x)
    BY <1>1, <1>2, <1>5 DEF ExFresh
  <2>2. ~(x < 1)
    BY <1>3 DEF Exts
  <2> QED
    BY <1>6, <2>1, <2>2 DEF ExFine, ExInStage, ExGoing
<1> QED
  BY <1>4, <1>7, <1>8, <1>9 DEF ExInv

-----------------------------------------------------------------------------
\* Nothing takes down what has not had its turn, and the stop does not begin before.
LEMMA ExUntouched ==
  ASSUME ExInv, NEW e \in Exts, e >= exBoot.at
  PROVE  /\ ~ExReleasing(e) /\ exStop.pc = "off"
         /\ \A o \in Exts : exHandler[o].pc \in ExGoing => exHandler[o].at # e /\ o # e
<1>1. ExTasksOK /\ ExTypes
  BY DEF ExInv
<1>2. exBoot.at \in Int /\ e \in Int /\ e <= ExCount /\ ExCount \in Nat
  BY <1>1, ExParts
<1>3. exStop.pc = "off"
  <2>1. ~(exBoot.at > ExCount)
    BY <1>2
  <2> QED
    BY <1>1, <2>1 DEF ExTasksOK, ExBootDone
<1>4. \A o \in Exts : exHandler[o].pc \in ExGoing => exHandler[o].at # e /\ o # e
  <2>1. ASSUME NEW o \in Exts, exHandler[o].pc \in ExGoing PROVE exHandler[o].at # e /\ o # e
    <3>1. o < exBoot.at /\ exHandler[o].at < exBoot.at
      BY <1>1, <2>1 DEF ExTasksOK
    <3>2. o # e
      BY <1>2, <3>1
    <3>3. PICK v : v = exHandler[o].at
      OBVIOUS
    <3>4. v < exBoot.at /\ v \in Exts
      BY <1>1, <2>1, <3>1, <3>3 DEF ExTasksOK
    <3>5. v # e
      BY <1>2, <3>4 DEF Exts
    <3> QED
      BY <3>2, <3>3, <3>5
  <2> QED
    BY <2>1
<1> QED
  BY <1>3, <1>4 DEF ExReleasing, ExGoing

\* The start moves on, or stays where it is, and takes its own extension with it.
LEMMA ExAlong ==
  ASSUME ExTypes, NEW e \in Exts, e = exBoot.at, NEW x \in Exts, x # e,
         \/ exBoot'.at = e /\ exBoot'.pc # "next"
         \/ exBoot'.at = e + 1 /\ exBoot'.pc = "next"
  PROVE  /\ ExAhead(x)' => ExAhead(x)
         /\ ~(exBoot'.at = x /\ exBoot'.pc # "next")
         /\ x < exBoot'.at => x < exBoot.at
<1>1. x \in Int /\ e \in Int
  BY DEF Exts
<1>2. PICK a : a = exBoot'.at
  OBVIOUS
<1>3. CASE a = e /\ exBoot'.pc # "next"
  BY <1>1, <1>2, <1>3 DEF ExAhead
<1>4. CASE a = e + 1 /\ exBoot'.pc = "next"
  BY <1>1, <1>2, <1>4 DEF ExAhead
<1> QED
  BY <1>2, <1>3, <1>4

\* What the tasks are stays so while the start goes on.
LEMMA ExTasksAlong ==
  ASSUME ExTypes, ExTasksOK, NEW e \in Exts, e = exBoot.at, exStop.pc = "off",
         exHandler' = exHandler, exDegrading' = exDegrading, exStop' = exStop, exDeps' = exDeps,
         \/ exBoot'.at = e /\ exBoot'.pc \notin {"next"} \cup ExGoing
         \/ exBoot'.at = e /\ exBoot'.pc \in ExGoing /\ exBoot'.why \in {"blocked", "degraded"}
         \/ exBoot'.at = e + 1 /\ exBoot'.pc = "next"
  PROVE  ExTasksOK'
<1>1. PICK a : a = exBoot'.at
  OBVIOUS
<1>2. e \in Int /\ (a = e \/ a = e + 1)
  BY <1>1 DEF Exts
<1>3. \A y \in Exts : y < e => y < a
  BY <1>2 DEF Exts
<1>4. \A o \in exDegrading' : exHandler'[o].at \in Exts /\ o < exBoot'.at /\ exHandler'[o].at < exBoot'.at
                            /\ exHandler'[o].at \in ExUpon(exDeps', o) /\ o <= exHandler'[o].at
  BY <1>1, <1>3 DEF ExTasksOK, ExAffected
<1>5. exDegrading' = {o \in Exts : exHandler'[o].pc \in ExGoing}
  BY DEF ExTasksOK
<1>6. /\ exBoot'.pc # "next" => exBoot'.at \in Exts
      /\ exBoot'.pc \in ExGoing => exBoot'.why \in {"blocked", "degraded"}
  BY DEF ExGoing
<1>7. exStop'.pc = "off"
  OBVIOUS
<1> QED
  BY <1>4, <1>5, <1>6, <1>7 DEF ExTasksOK, ExAffected, ExGoing

LEMMA ExBootSet ==
  ASSUME NEW b \in ExBoots, NEW q, NEW w
  PROVE  /\ [b EXCEPT !.pc = q].at = b.at /\ [b EXCEPT !.pc = q].pc = q /\ [b EXCEPT !.pc = q].why = b.why
         /\ [b EXCEPT !.pc = q, !.why = w].at = b.at /\ [b EXCEPT !.pc = q, !.why = w].pc = q
         /\ [b EXCEPT !.pc = q, !.why = w].why = w
         /\ q \in {"migrate", "process", "start", "health", "tools", "stopping", "killing"} => [b EXCEPT !.pc = q] \in ExBoots
         /\ q \in ExGoing /\ w \in {"", "blocked", "degraded"} => [b EXCEPT !.pc = q, !.why = w] \in ExBoots
BY DEF ExBoots, ExGoing

LEMMA ExBootMovesOn ==
  ASSUME NEW b \in ExBoots, b.at \in Exts
  PROVE  [at |-> b.at + 1, pc |-> "next", why |-> ""] \in ExBoots
<1>1. b.at + 1 \in 1..(ExCount + 1)
  BY ExAssumption DEF Exts
<1> QED
  BY <1>1 DEF ExBoots

LEMMA ExBeginInv == ExInv /\ ExBegin => ExInv'
<1> SUFFICES ASSUME ExInv, ExBegin PROVE ExInv'
  OBVIOUS
<1>1. ExTypes /\ ExTasksOK /\ ExStands /\ \A x \in Exts : ExFine(x)
  BY DEF ExInv
<1>2. PICK e \in Exts : e = exBoot.at /\ exBoot.pc = "next"
  <2>1. exBoot.at <= ExCount /\ exBoot.at \in 1..(ExCount + 1) /\ ExCount \in Nat
    BY <1>1, ExParts DEF ExBegin
  <2>2. exBoot.at \in Exts
    BY <2>1 DEF Exts
  <2> QED
    BY <2>2 DEF ExBegin
<1>3. /\ exDeps' = exDeps /\ exStarted' = exStarted /\ exTools' = exTools /\ exHook' = exHook /\ exProc' = exProc
      /\ exStopReq' = exStopReq /\ exHandler' = exHandler /\ exDegrading' = exDegrading /\ exStop' = exStop
  BY DEF ExBegin, exGiven, exOwned
<1>4. ExFresh(e) /\ ~ExReleasing(e) /\ exStop.pc = "off"
  <2>1. ExAhead(e) /\ e >= exBoot.at
    BY <1>2 DEF ExAhead, Exts
  <2> QED
    BY <1>1, <2>1, ExUntouched DEF ExFine
<1>5. (ExReleasing(e)' <=> ExReleasing(e)) /\ \A x \in Exts : (ExReleasing(x)' <=> ExReleasing(x)) /\ (ExUnhooking(x)' <=> ExUnhooking(x))
  BY <1>3 DEF ExReleasing, ExUnhooking
<1>6. CASE ExBootNext /\ exRaced' = exRaced /\ (exState' = exState \/ exState' = [exState EXCEPT ![e] = "blocked"])
  <2>1. exBoot'.at = e + 1 /\ exBoot'.pc = "next" /\ exBoot' \in ExBoots
    BY <1>1, <1>2, <1>6, ExBootMovesOn DEF ExBootNext, ExTypes
  <2>2. exState' \in [Exts -> ExStatus] /\ exState'[e] \notin {"starting", "running"}
        /\ \A x \in Exts : x # e => exState'[x] = exState[x]
    BY <1>1, <1>4, <1>6 DEF ExTypes, ExStatus, ExFresh
  <2>3. ExTypes'
    BY <1>1, <1>3, <1>6, <2>1, <2>2 DEF ExTypes
  <2>4. ExTasksOK'
    BY <1>1, <1>2, <1>3, <1>4, <2>1, ExTasksAlong
  <2>5. ExStands'
    <3>1. \A x \in Exts : exState'[x] \in {"starting", "running"} => exState'[x] = exState[x] /\ x # e
      BY <2>2
    <3>2. \A d : d \in Exts /\ exState[d] = "running" => exState'[d] = "running"
      BY <1>4, <2>2 DEF ExFresh
    <3>3. ASSUME NEW x \in Exts, exState'[x] = "running", NEW d \in exDeps[x]
          PROVE  exState'[d] = "running" \/ x \in exRaced
      <4>1. exState[d] = "running" \/ x \in exRaced
        BY <1>1, <1>4, <3>1, <3>3 DEF ExStands
      <4>2. d \in Exts
        BY <1>1, ExDepsIn
      <4> QED
        BY <3>2, <4>1, <4>2
    <3>4. ASSUME NEW o \in exDegrading, NEW x \in ExAffected(o), exHandler[o].at < x, exState'[x] \in {"starting", "running"}
          PROVE  x \in exRaced
      <4>1. x \in Exts
        BY <3>4 DEF ExAffected, ExUpon
      <4> QED
        BY <1>1, <1>4, <3>1, <3>4, <4>1 DEF ExStands
    <3> QED
      BY <1>3, <1>6, <3>3, <3>4 DEF ExStands, ExAffected
  <2>6. ASSUME NEW x \in Exts PROVE ExFine(x)'
    <3>1. CASE x # e
      <4>1. ExAhead(x)' => ExAhead(x)
        BY <1>1, <1>2, <2>1, <3>1, ExAlong
      <4>2. ~(exBoot'.at = x /\ exBoot'.pc # "next") /\ (x < exBoot'.at => x < exBoot.at)
        BY <1>1, <1>2, <2>1, <3>1, ExAlong
      <4> QED
        BY <1>1, <1>3, <1>5, <2>2, <3>1, <4>1, <4>2, ExFrame
    <3>2. CASE x = e
      <4>1. ~ExAhead(e)'
        <5>1. ~(e + 1 < e) /\ e + 1 # e
          BY DEF Exts
        <5> QED
          BY <2>1, <5>1 DEF ExAhead
      <4>2. ExPassed(e)'
        BY <1>3, <1>4, <1>5, <2>2 DEF ExPassed, ExFresh, ExGone
      <4>3. exBoot'.pc \notin ExGoing /\ ~ExInStage'
        BY <2>1 DEF ExGoing, ExInStage
      <4> QED
        BY <3>2, <4>1, <4>2, <4>3 DEF ExFine
    <3> QED
      BY <3>1, <3>2
  <2> QED
    BY <2>3, <2>4, <2>5, <2>6 DEF ExInv
<1>7. CASE /\ DependenciesRun(e) /\ exState' = [exState EXCEPT ![e] = "starting"]
           /\ exBoot' = [exBoot EXCEPT !.pc = "migrate"]
           /\ exRaced' = exRaced \cup {x \in {e} : \E o \in exDegrading : x \in ExAffected(o)}
  <2>1. exBoot'.at = e /\ exBoot'.pc = "migrate" /\ exBoot' \in ExBoots
    BY <1>1, <1>2, <1>7, ExBootSet DEF ExTypes
  <2>2. exState' \in [Exts -> ExStatus] /\ exState'[e] = "starting"
        /\ \A x \in Exts : x # e => exState'[x] = exState[x]
    BY <1>1, <1>7 DEF ExTypes, ExStatus
  <2>3. ExTypes'
    BY <1>1, <1>3, <1>7, <2>1, <2>2 DEF ExTypes
  <2>4. ExTasksOK'
    BY <1>1, <1>2, <1>3, <1>4, <2>1, ExTasksAlong DEF ExGoing
  <2>5. ExStands'
    <3>1. \A x \in Exts : x # e => exState'[x] = exState[x]
      BY <2>2
    <3>2. \A d \in Exts : exState[d] = "running" => exState'[d] = "running"
      BY <1>4, <2>2 DEF ExFresh
    <3>3. ASSUME NEW x \in Exts, exState'[x] = "running", NEW d \in exDeps[x]
          PROVE  exState'[d] = "running" \/ x \in exRaced'
      <4>1. exState[d] = "running" \/ x \in exRaced
        BY <1>1, <1>4, <2>2, <3>3 DEF ExStands
      <4>2. d \in Exts
        BY <1>1, ExDepsIn
      <4> QED
        BY <1>7, <3>2, <4>1, <4>2
    <3>4. ASSUME NEW o \in exDegrading, NEW x \in ExAffected(o), exHandler[o].at < x, exState'[x] \in {"starting", "running"}
          PROVE  x \in exRaced'
      <4>1. x \in Exts
        BY <3>4 DEF ExAffected, ExUpon
      <4>2. CASE x = e
        BY <1>7, <3>4, <4>2
      <4>3. CASE x # e
        <5>1. exState[x] \in {"starting", "running"}
          BY <2>2, <3>4, <4>1, <4>3
        <5>2. x \in exRaced
          BY <1>1, <1>4, <3>4, <5>1 DEF ExStands
        <5> QED
          BY <1>7, <5>2
      <4> QED
        BY <4>2, <4>3
    <3> QED
      BY <1>3, <3>3, <3>4 DEF ExStands, ExAffected
  <2>6. ASSUME NEW x \in Exts PROVE ExFine(x)'
    <3>1. CASE x # e
      <4>1. ExAhead(x)' => ExAhead(x)
        BY <1>1, <1>2, <2>1, <3>1, ExAlong
      <4>2. ~(exBoot'.at = x /\ exBoot'.pc # "next") /\ (x < exBoot'.at => x < exBoot.at)
        BY <1>1, <1>2, <2>1, <3>1, ExAlong
      <4> QED
        BY <1>1, <1>3, <1>5, <2>2, <3>1, <4>1, <4>2, ExFrame
    <3>2. CASE x = e
      <4>1. ~(e < e)
        BY DEF Exts
      <4>2. ExStaged(e)'
        BY <1>3, <1>4, <2>1, <2>2 DEF ExStaged, ExFresh, ExGoing
      <4> QED
        BY <2>1, <3>2, <4>1, <4>2 DEF ExFine, ExAhead, ExGoing
    <3> QED
      BY <3>1, <3>2
  <2> QED
    BY <2>3, <2>4, <2>5, <2>6 DEF ExInv
<1> QED
  BY <1>2, <1>6, <1>7 DEF ExBegin

LEMMA ExFollows ==
  /\ ExFollowing("migrate") = "process" /\ ExFollowing("process") = "start"
  /\ ExFollowing("start") = "health" /\ ExFollowing("health") = "tools"
<1>1. /\ ExStages[1] = "migrate" /\ ExStages[2] = "process" /\ ExStages[3] = "start" /\ ExStages[4] = "health"
      /\ ExStages[5] = "tools" /\ ExStages[6] = "next"
  BY DEF ExStages
<1>2. 1..5 = {1, 2, 3, 4, 5}
  OBVIOUS
<1>3. /\ (CHOOSE i \in 1..5 : ExStages[i] = "migrate") = 1 /\ (CHOOSE i \in 1..5 : ExStages[i] = "process") = 2
      /\ (CHOOSE i \in 1..5 : ExStages[i] = "start") = 3 /\ (CHOOSE i \in 1..5 : ExStages[i] = "health") = 4
  BY <1>1, <1>2
<1> QED
  BY <1>1, <1>3 DEF ExFollowing

\* Where the start is in one of its stages.
LEMMA ExAtStage ==
  ASSUME ExInv, exBoot.pc # "next"
  PROVE  /\ exBoot.at \in Exts /\ exStop.pc = "off" /\ ~ExReleasing(exBoot.at)
         /\ ExInStage => ExStaged(exBoot.at)
         /\ exBoot.pc \in ExGoing => ExUndone(exBoot.at)
<1>1. exBoot.at \in Exts
  BY DEF ExInv, ExTasksOK
<1>2. PICK e \in Exts : e = exBoot.at
  BY <1>1
<1>3. e >= exBoot.at
  BY <1>2 DEF Exts
<1>4. ExFine(e)
  BY DEF ExInv
<1> QED
  BY <1>2, <1>3, <1>4, ExUntouched DEF ExFine

\* A step of the start that changes its own extension only.
LEMMA ExBootOthers ==
  ASSUME ExInv, NEW e \in Exts, e = exBoot.at, NEW x \in Exts, x # e,
         exState'[x] = exState[x], x \in exStarted' <=> x \in exStarted,
         x \in exTools' <=> x \in exTools, x \in exHook' <=> x \in exHook, exProc'[x] = exProc[x],
         exStopReq'[x] = exStopReq[x], exHandler' = exHandler, exStop' = exStop,
         \/ exBoot'.at = e /\ exBoot'.pc # "next"
         \/ exBoot'.at = e + 1 /\ exBoot'.pc = "next"
  PROVE  ExFine(x)'
<1>1. ExTypes /\ ExFine(x)
  BY DEF ExInv
<1>2. (ExReleasing(x)' <=> ExReleasing(x)) /\ (ExUnhooking(x)' <=> ExUnhooking(x))
  BY DEF ExReleasing, ExUnhooking
<1>3. (ExAhead(x)' => ExAhead(x)) /\ ~(exBoot'.at = x /\ exBoot'.pc # "next") /\ (x < exBoot'.at => x < exBoot.at)
  BY <1>1, ExAlong
<1> QED
  BY <1>1, <1>2, <1>3, ExFrame

\* A step of the start that makes its extension nothing but stop: what stands, stands.
LEMMA ExStandsStill ==
  ASSUME ExInv, NEW e \in Exts, exState[e] # "running", exStop.pc = "off",
         \A x \in Exts : x # e => exState'[x] = exState[x],
         exState'[e] = exState[e] \/ exState'[e] \notin {"starting", "running"},
         exHandler' = exHandler, exStop' = exStop, exDeps' = exDeps, exRaced' = exRaced, exDegrading' = exDegrading
  PROVE  ExStands'
<1>1. ExTypes /\ ExStands
  BY DEF ExInv
<1>2. \A x \in Exts : exState'[x] \in {"starting", "running"} => exState'[x] = exState[x]
  OBVIOUS
<1>3. \A d \in Exts : exState[d] = "running" => exState'[d] = "running"
  OBVIOUS
<1>4. ASSUME NEW x \in Exts, exState'[x] = "running", NEW d \in exDeps[x]
      PROVE  exState'[d] = "running" \/ x \in exRaced
  <2>1. exState[d] = "running" \/ x \in exRaced
    BY <1>1, <1>2, <1>4 DEF ExStands
  <2>2. d \in Exts
    BY <1>1, ExDepsIn
  <2> QED
    BY <1>3, <2>1, <2>2
<1>5. ASSUME NEW o \in exDegrading, NEW x \in ExAffected(o), exHandler[o].at < x, exState'[x] \in {"starting", "running"}
      PROVE  x \in exRaced
  <2>1. x \in Exts
    BY <1>5 DEF ExAffected, ExUpon
  <2> QED
    BY <1>1, <1>2, <1>5, <2>1 DEF ExStands
<1> QED
  BY <1>4, <1>5 DEF ExStands, ExAffected

LEMMA ExStagePassesInv == ExInv /\ ExStagePasses => ExInv'
<1> SUFFICES ASSUME ExInv, ExStagePasses PROVE ExInv'
  OBVIOUS
<1>1. ExTypes /\ ExTasksOK /\ ExStands /\ ExInStage /\ exBoot.pc \in {"migrate", "process", "start", "health", "tools"}
  BY DEF ExInv, ExStagePasses, ExStageReturns, ExInStage
<1>2. PICK e \in Exts : e = exBoot.at
  BY <1>1, ExAtStage
<1>3. ExStaged(e) /\ ~ExReleasing(e) /\ exStop.pc = "off"
  BY <1>1, <1>2, ExAtStage
<1>4. /\ exDeps' = exDeps /\ exStopReq' = exStopReq /\ exHandler' = exHandler /\ exDegrading' = exDegrading
      /\ exStop' = exStop /\ exRaced' = exRaced
      /\ exState[e] = "starting" /\ DependenciesRun(e)
      /\ exHook' = IF exBoot.pc = "start" THEN exHook \cup {e} ELSE exHook
      /\ exProc' = IF exBoot.pc = "process" /\ e \in ExWithProcess THEN [exProc EXCEPT ![e] = "up"] ELSE exProc
      /\ exStarted' = IF exBoot.pc = "process" THEN exStarted \cup {e} ELSE exStarted
      /\ exTools' = IF exBoot.pc = "tools" THEN exTools \cup {e} ELSE exTools
      /\ exState' = IF exBoot.pc = "tools" THEN [exState EXCEPT ![e] = "running"] ELSE exState
      /\ IF exBoot.pc = "tools" THEN ExBootNext ELSE exBoot' = [exBoot EXCEPT !.pc = ExFollowing(exBoot.pc)]
  BY <1>2, <1>3 DEF ExStagePasses, ExStageReturns, ExMayGoOn, ExStaged, exGiven
<1>5. exProc' \in [Exts -> {"none", "up", "dead"}] /\ \A x \in Exts : x # e => exProc'[x] = exProc[x]
  BY <1>1, <1>4 DEF ExTypes
<1>6. ~(e < e) /\ ~(e + 1 < e) /\ e + 1 # e /\ e < e + 1
  BY DEF Exts
<1>7. ~ExReleasing(e)'
  BY <1>3, <1>4 DEF ExReleasing
<1>8. CASE exBoot.pc # "tools"
  <2>1. PICK q : q = ExFollowing(exBoot.pc)
    OBVIOUS
  <2>2. /\ q \in {"process", "start", "health", "tools"}
        /\ exBoot.pc = "migrate" => q = "process"
        /\ exBoot.pc = "process" => q = "start"
        /\ exBoot.pc = "start" => q = "health"
        /\ exBoot.pc = "health" => q = "tools"
    BY <1>1, <1>8, <2>1, ExFollows
  <2>3. exBoot'.at = e /\ exBoot'.pc = q /\ exBoot' \in ExBoots
    <3>1. exBoot' = [exBoot EXCEPT !.pc = q] /\ exBoot \in ExBoots
      BY <1>1, <1>4, <1>8, <2>1 DEF ExTypes
    <3>2. exBoot'.at = exBoot.at /\ exBoot'.pc = q
      BY <3>1, ExBootSet
    <3>3. exBoot' \in ExBoots
      BY <2>2, <3>1, ExBootSet
    <3> QED
      BY <1>2, <3>2, <3>3
  <2>4. exState' = exState /\ exTools' = exTools
    BY <1>4, <1>8
  <2>5. ExTypes'
    BY <1>1, <1>4, <1>5, <2>3, <2>4 DEF ExTypes
  <2>6. ExTasksOK'
    BY <1>1, <1>2, <1>3, <1>4, <2>2, <2>3, ExTasksAlong DEF ExGoing
  <2>7. ExStands'
    BY <1>3, <1>4, <2>4, ExStandsStill
  <2>8. ExStaged(e)'
    <3>1. CASE exBoot.pc = "migrate"
      BY <1>3, <1>4, <2>2, <2>3, <2>4, <3>1 DEF ExStaged
    <3>2. CASE exBoot.pc = "process"
      <4>1. e \in ExWithProcess => exProc'[e] = "up"
        BY <1>1, <1>4, <3>2 DEF ExTypes
      <4> QED
        BY <1>3, <1>4, <2>2, <2>3, <2>4, <3>2, <4>1 DEF ExStaged, ExManned
    <3>3. CASE exBoot.pc = "start"
      BY <1>3, <1>4, <2>2, <2>3, <2>4, <3>3 DEF ExStaged, ExManned
    <3>4. CASE exBoot.pc = "health"
      BY <1>3, <1>4, <2>2, <2>3, <2>4, <3>4 DEF ExStaged, ExManned
    <3> QED
      BY <1>1, <1>8, <3>1, <3>2, <3>3, <3>4
  <2>9. ASSUME NEW x \in Exts PROVE ExFine(x)'
    <3>1. CASE x = e
      BY <1>6, <2>2, <2>3, <2>8, <3>1 DEF ExFine, ExAhead, ExGoing
    <3>2. CASE x # e
      BY <1>2, <1>4, <1>5, <2>2, <2>3, <2>4, <3>2, ExBootOthers
    <3> QED
      BY <3>1, <3>2
  <2> QED
    BY <2>5, <2>6, <2>7, <2>9 DEF ExInv
<1>9. CASE exBoot.pc = "tools"
  <2>1. exBoot'.at = e + 1 /\ exBoot'.pc = "next" /\ exBoot' \in ExBoots
    <3>1. ExBootNext /\ exBoot \in ExBoots
      BY <1>1, <1>4, <1>9 DEF ExTypes
    <3> QED
      BY <1>2, <3>1, ExBootMovesOn DEF ExBootNext
  <2>2. /\ exState' \in [Exts -> ExStatus] /\ exState'[e] = "running"
        /\ \A x \in Exts : x # e => exState'[x] = exState[x]
    BY <1>1, <1>4, <1>9 DEF ExTypes, ExStatus
  <2>3. exHook' = exHook /\ exProc' = exProc /\ exStarted' = exStarted /\ exTools' = exTools \cup {e}
    BY <1>4, <1>9
  <2>4. ExTypes'
    BY <1>1, <1>4, <2>1, <2>2, <2>3 DEF ExTypes
  <2>5. ExTasksOK'
    BY <1>1, <1>2, <1>3, <1>4, <2>1, ExTasksAlong
  <2>6. ExStands'
    <3>1. ASSUME NEW x \in Exts, exState'[x] = "running", NEW d \in exDeps[x]
          PROVE  exState'[d] = "running" \/ x \in exRaced
      <4>1. d \in Exts
        BY <1>1, ExDepsIn
      <4>2. exState[d] = "running" \/ x \in exRaced
        BY <1>1, <1>3, <1>4, <2>2, <3>1 DEF ExStands, DependenciesRun
      <4> QED
        BY <2>2, <4>1, <4>2
    <3>2. ASSUME NEW o \in exDegrading, NEW x \in ExAffected(o), exHandler[o].at < x, exState'[x] \in {"starting", "running"}
          PROVE  x \in exRaced
      <4>1. x \in Exts
        BY <3>2 DEF ExAffected, ExUpon
      <4>2. exState[x] \in {"starting", "running"}
        BY <1>4, <2>2, <3>2, <4>1
      <4> QED
        BY <1>1, <1>3, <3>2, <4>2 DEF ExStands
    <3> QED
      BY <1>4, <3>1, <3>2 DEF ExStands, ExAffected
  <2>7. ExPassed(e)'
    <3>1. ExWhole(e)'
      BY <1>3, <1>4, <1>9, <2>2, <2>3 DEF ExWhole, ExStaged, ExManned
    <3> QED
      BY <1>7, <2>2, <3>1 DEF ExPassed
  <2>8. ASSUME NEW x \in Exts PROVE ExFine(x)'
    <3>1. CASE x = e
      BY <1>6, <2>1, <2>7, <3>1 DEF ExFine, ExAhead, ExGoing, ExInStage
    <3>2. CASE x # e
      BY <1>2, <1>4, <2>1, <2>2, <2>3, <3>2, ExBootOthers
    <3> QED
      BY <3>1, <3>2
  <2> QED
    BY <2>4, <2>5, <2>6, <2>8 DEF ExInv
<1> QED
  BY <1>8, <1>9

LEMMA ExStageEndsInv == ExInv /\ (ExStageBlocked \/ ExStageFails) => ExInv'
<1> SUFFICES ASSUME ExInv, ExStageBlocked \/ ExStageFails PROVE ExInv'
  OBVIOUS
<1>1. ExTypes /\ ExTasksOK /\ ExStands /\ ExInStage /\ exBoot.pc \in {"migrate", "process", "start", "health", "tools"}
  BY DEF ExInv, ExStageBlocked, ExStageFails, ExStageReturns, ExInStage
<1>2. PICK e \in Exts : e = exBoot.at
  BY <1>1, ExAtStage
<1>3. ExStaged(e) /\ ~ExReleasing(e) /\ exStop.pc = "off"
  BY <1>1, <1>2, ExAtStage
<1>4. PICK q, w : /\ q = ExReleasePc(e) /\ w \in {"blocked", "degraded"}
                  /\ exBoot' = [exBoot EXCEPT !.pc = q, !.why = w]
                  /\ w = "blocked" => exState' = [exState EXCEPT ![e] = "blocked"]
                  /\ w = "degraded" => exState' = exState
  <2>1. CASE ExStageBlocked
    <3>1. exBoot' = [exBoot EXCEPT !.pc = ExReleasePc(e), !.why = "blocked"] /\ exState' = [exState EXCEPT ![e] = "blocked"]
      BY <1>2, <2>1 DEF ExStageBlocked
    <3> WITNESS ExReleasePc(e), "blocked"
    <3> QED
      BY <3>1
  <2>2. CASE ExStageFails
    <3>1. exBoot' = [exBoot EXCEPT !.pc = ExReleasePc(e), !.why = "degraded"] /\ exState' = exState
      BY <1>2, <2>2 DEF ExStageFails
    <3> WITNESS ExReleasePc(e), "degraded"
    <3> QED
      BY <3>1
  <2> QED
    BY <2>1, <2>2
<1>5. /\ exDeps' = exDeps /\ exHandler' = exHandler /\ exDegrading' = exDegrading /\ exStop' = exStop /\ exRaced' = exRaced
      /\ ExRelease(e)
      /\ exHook' = exHook \/ (exBoot.pc = "start" /\ exHook' = exHook \cup {e})
      /\ exProc' = exProc \/ exProc' = [exProc EXCEPT ![e] = "up"]
  BY <1>2 DEF ExStageBlocked, ExStageFails, ExStageReturns, exGiven
<1>6. /\ exTools' = exTools \ {e} /\ exStarted' = exStarted \ {e}
      /\ exStopReq' \in [Exts -> BOOLEAN] /\ \A x \in Exts : x # e => exStopReq'[x] = exStopReq[x]
  BY <1>1, <1>5 DEF ExRelease, ExTypes
<1>7. exProc' \in [Exts -> {"none", "up", "dead"}] /\ \A x \in Exts : x # e => exProc'[x] = exProc[x]
  BY <1>1, <1>5 DEF ExTypes
<1>8. /\ q \in ExGoing /\ (q = "killing" => e \notin exStarted)
      /\ exBoot'.at = e /\ exBoot'.pc = q /\ exBoot'.why = w /\ exBoot' \in ExBoots
  <2>1. q \in ExGoing /\ (q = "killing" => e \notin exStarted)
    BY <1>4 DEF ExReleasePc, ExGoing
  <2>2. exBoot \in ExBoots /\ w \in {"", "blocked", "degraded"}
    BY <1>1, <1>4 DEF ExTypes
  <2>3. exBoot' = [exBoot EXCEPT !.pc = q, !.why = w]
    BY <1>4
  <2>5. exBoot'.at = exBoot.at /\ exBoot'.pc = q /\ exBoot'.why = w
    BY <2>2, <2>3 DEF ExBoots
  <2>4. exBoot' \in ExBoots
    BY <2>1, <2>2, <2>3 DEF ExBoots, ExGoing
  <2> QED
    BY <1>2, <2>1, <2>4, <2>5
<1>9. /\ exState' \in [Exts -> ExStatus] /\ \A x \in Exts : x # e => exState'[x] = exState[x]
      /\ exState'[e] = "blocked" \/ (w = "degraded" /\ exState'[e] = exState[e])
  BY <1>1, <1>4 DEF ExTypes, ExStatus
<1>10. ExTypes'
  BY <1>1, <1>5, <1>6, <1>7, <1>8, <1>9 DEF ExTypes
<1>11. ExTasksOK'
  BY <1>1, <1>2, <1>3, <1>4, <1>5, <1>8, ExTasksAlong
<1>12. ExStands'
  <2>1. exState[e] # "running" /\ (exState'[e] = exState[e] \/ exState'[e] \notin {"starting", "running"})
    BY <1>3, <1>9 DEF ExStaged
  <2> QED
    BY <1>3, <1>5, <1>9, <2>1, ExStandsStill
<1>13. ExUndone(e)'
  <2>1. exState'[e] = "blocked" \/ (exState'[e] = "starting" /\ w = "degraded")
    BY <1>3, <1>9 DEF ExStaged
  <2>2. e \notin exStarted' /\ e \notin exTools'
    BY <1>6
  <2>3. e \in exHook' => q = "stopping"
    BY <1>1, <1>3, <1>5, <1>8 DEF ExStaged, ExGoing
  <2>4. exHandler'[e].pc \notin ExGoing
    BY <1>3, <1>5 DEF ExStaged
  <2> QED
    BY <1>8, <2>1, <2>2, <2>3, <2>4 DEF ExUndone
<1>14. ASSUME NEW x \in Exts PROVE ExFine(x)'
  <2>1. CASE x = e
    <3>1. ~(e < e)
      BY DEF Exts
    <3> QED
      BY <1>8, <1>13, <2>1, <3>1 DEF ExFine, ExAhead, ExGoing, ExInStage
  <2>2. CASE x # e
    <3>1. x \in exHook' <=> x \in exHook
      BY <1>5, <2>2
    <3>2. (x \in exStarted' <=> x \in exStarted) /\ (x \in exTools' <=> x \in exTools)
      BY <1>6, <2>2
    <3>3. exBoot'.pc # "next"
      BY <1>8 DEF ExGoing
    <3> QED
      BY <1>2, <1>5, <1>6, <1>7, <1>8, <1>9, <2>2, <3>1, <3>2, <3>3, ExBootOthers
  <2> QED
    BY <2>1, <2>2
<1> QED
  BY <1>10, <1>11, <1>12, <1>14 DEF ExInv

LEMMA ExBootStopsInv == ExInv /\ ExBootStops => ExInv'
<1> SUFFICES ASSUME ExInv, ExBootStops PROVE ExInv'
  OBVIOUS
<1>1. ExTypes /\ ExTasksOK /\ exBoot.pc = "stopping"
  BY DEF ExInv, ExBootStops
<1>2. PICK e \in Exts : e = exBoot.at
  BY <1>1, ExAtStage
<1>3. ExUndone(e) /\ exStop.pc = "off" /\ exBoot.why \in {"blocked", "degraded"}
  BY <1>1, <1>2, ExAtStage DEF ExGoing, ExTasksOK
<1>4. /\ exDeps' = exDeps /\ exHandler' = exHandler /\ exDegrading' = exDegrading /\ exStop' = exStop /\ exRaced' = exRaced
      /\ exState' = exState /\ exStarted' = exStarted /\ exTools' = exTools /\ exProc' = exProc /\ exStopReq' = exStopReq
      /\ exHook' = exHook \ {e} /\ exBoot' = [exBoot EXCEPT !.pc = "killing"]
  BY <1>2 DEF ExBootStops, ExHookStops, exGiven
<1>5. exBoot'.at = e /\ exBoot'.pc = "killing" /\ exBoot'.why = exBoot.why /\ exBoot' \in ExBoots
  <2>1. exBoot \in ExBoots
    BY <1>1 DEF ExTypes
  <2>2. exBoot'.at = exBoot.at /\ exBoot'.pc = "killing" /\ exBoot'.why = exBoot.why /\ exBoot' \in ExBoots
    BY <1>4, <2>1, ExBootSet
  <2> QED
    BY <1>2, <2>2
<1>6. ExTypes'
  BY <1>1, <1>4, <1>5 DEF ExTypes
<1>7. ExTasksOK'
  BY <1>1, <1>2, <1>3, <1>4, <1>5, ExTasksAlong DEF ExGoing
<1>8. ExStands'
  <2>1. exState[e] # "running"
    BY <1>3 DEF ExUndone
  <2> QED
    BY <1>3, <1>4, <2>1, ExStandsStill
<1>9. ASSUME NEW x \in Exts PROVE ExFine(x)'
  <2>1. CASE x = e
    <3>1. ~(e < e)
      BY DEF Exts
    <3>2. ExUndone(e)'
      BY <1>3, <1>4, <1>5 DEF ExUndone
    <3> QED
      BY <1>5, <2>1, <3>1, <3>2 DEF ExFine, ExAhead, ExInStage
  <2>2. CASE x # e
    BY <1>2, <1>4, <1>5, <2>2, ExBootOthers
  <2> QED
    BY <2>1, <2>2
<1> QED
  BY <1>6, <1>7, <1>8, <1>9 DEF ExInv

LEMMA ExBootKillsInv == ExInv /\ ExBootKills => ExInv'
<1> SUFFICES ASSUME ExInv, ExBootKills PROVE ExInv'
  OBVIOUS
<1>1. ExTypes /\ ExTasksOK /\ exBoot.pc = "killing"
  BY DEF ExInv, ExBootKills
<1>2. PICK e \in Exts : e = exBoot.at
  BY <1>1, ExAtStage
<1>3. ExUndone(e) /\ exStop.pc = "off" /\ exBoot.why \in {"blocked", "degraded"} /\ ~ExReleasing(e)
  BY <1>1, <1>2, ExAtStage DEF ExGoing, ExTasksOK
<1>4. PICK s : s = IF exBoot.why = "degraded" THEN "degraded" ELSE exState[e]
  OBVIOUS
<1>5. /\ exDeps' = exDeps /\ exHandler' = exHandler /\ exDegrading' = exDegrading /\ exStop' = exStop /\ exRaced' = exRaced
      /\ exStarted' = exStarted /\ exTools' = exTools /\ exStopReq' = exStopReq /\ exHook' = exHook
      /\ exProc' = [exProc EXCEPT ![e] = "none"] /\ ExBootNext
      /\ exState' = [exState EXCEPT ![e] = s]
  BY <1>2, <1>4 DEF ExBootKills, ExKill, exGiven
<1>6. s \in {"degraded", "blocked"}
  BY <1>3, <1>4 DEF ExUndone
<1>7. /\ exState' \in [Exts -> ExStatus] /\ exState'[e] = s /\ \A x \in Exts : x # e => exState'[x] = exState[x]
      /\ exProc' \in [Exts -> {"none", "up", "dead"}] /\ exProc'[e] = "none" /\ \A x \in Exts : x # e => exProc'[x] = exProc[x]
  BY <1>1, <1>5, <1>6 DEF ExTypes, ExStatus
<1>8. exBoot'.at = e + 1 /\ exBoot'.pc = "next" /\ exBoot' \in ExBoots
  <2>1. ExBootNext /\ exBoot \in ExBoots
    BY <1>1, <1>5 DEF ExTypes
  <2> QED
    BY <1>2, <2>1, ExBootMovesOn DEF ExBootNext
<1>9. ExTypes'
  BY <1>1, <1>5, <1>7, <1>8 DEF ExTypes
<1>10. ExTasksOK'
  BY <1>1, <1>2, <1>3, <1>5, <1>8, ExTasksAlong
<1>11. ExStands'
  <2>1. exState[e] # "running"
    BY <1>3 DEF ExUndone
  <2> QED
    BY <1>3, <1>5, <1>6, <1>7, <2>1, ExStandsStill
<1>12. ASSUME NEW x \in Exts PROVE ExFine(x)'
  <2>1. CASE x = e
    <3>1. ~(e + 1 < e) /\ e + 1 # e
      BY DEF Exts
    <3>2. ~ExReleasing(e)'
      BY <1>3, <1>5 DEF ExReleasing
    <3>3. e \notin exHook
      BY <1>1, <1>3 DEF ExUndone
    <3>4. ExPassed(e)'
      BY <1>3, <1>5, <1>6, <1>7, <3>2, <3>3 DEF ExPassed, ExGone, ExUndone
    <3> QED
      BY <1>8, <2>1, <3>1, <3>4 DEF ExFine, ExAhead, ExInStage, ExGoing
  <2>2. CASE x # e
    BY <1>2, <1>5, <1>7, <1>8, <2>2, ExBootOthers
  <2> QED
    BY <2>1, <2>2
<1> QED
  BY <1>9, <1>10, <1>11, <1>12 DEF ExInv

-----------------------------------------------------------------------------
\* What runs has had its turn; what starts has it now.
LEMMA ExTurns ==
  ASSUME ExInv, NEW x \in Exts
  PROVE  /\ exState[x] = "running" => x < exBoot.at
         /\ exState[x] = "starting" => x = exBoot.at /\ exBoot.pc # "next"
<1>1. ExTypes /\ ExFine(x)
  BY DEF ExInv
<1>2. exBoot.at \in Int /\ x \in Int /\ (exBoot.pc = "next" \/ ExInStage \/ exBoot.pc \in ExGoing)
  BY <1>1, ExParts DEF ExInStage, ExGoing
<1>3. exBoot.at < x \/ exBoot.at = x \/ x < exBoot.at
  BY <1>2
<1> QED
  BY <1>1, <1>2, <1>3 DEF ExFine, ExAhead, ExFresh, ExStaged, ExUndone, ExPassed

\* A handler that has yet to begin, or never will.
LEMMA ExNewsInv ==
  ASSUME ExInv, NEW e \in Exts, exHandler[e].pc \notin ExGoing, NEW p \in {"none", "watch", "wait"},
         ExHandlerAt(e, p, 0), exProc' \in [Exts -> {"none", "up", "dead"}],
         \A x \in Exts : x # e => exProc'[x] = exProc[x],
         exDeps' = exDeps, exState' = exState, exStarted' = exStarted, exTools' = exTools, exHook' = exHook,
         exStopReq' = exStopReq, exBoot' = exBoot, exDegrading' = exDegrading, exStop' = exStop, exRaced' = exRaced,
         (ExReleasing(e)' <=> ExReleasing(e)) /\ (ExUnhooking(e)' <=> ExUnhooking(e)) => ExFine(e)'
  PROVE  ExInv'
<1>1. ExTypes /\ ExTasksOK /\ ExStands
  BY DEF ExInv
<1>2. PICK r : r = [pc |-> p, at |-> 0]
  OBVIOUS
<1>3. r \in ExHandlers /\ r.pc = p /\ p \notin ExGoing
  <2>1. 0 \in 0..ExCount
    BY ExAssumption
  <2> QED
    BY <1>2, <2>1 DEF ExHandlers, ExGoing
<1>4. /\ exHandler' \in [Exts -> ExHandlers] /\ exHandler'[e] = r
      /\ \A o \in Exts : o # e => exHandler'[o] = exHandler[o]
  BY <1>1, <1>2, <1>3 DEF ExHandlerAt, ExTypes
<1>5. ExTypes'
  BY <1>1, <1>4 DEF ExTypes
<1>6. \A o \in Exts : IF exHandler[o].pc \in ExGoing THEN exHandler'[o] = exHandler[o] ELSE exHandler'[o].pc \notin ExGoing
  BY <1>3, <1>4
<1>7. ExTasksOK'
  <2>1. exDegrading' = {o \in Exts : exHandler'[o].pc \in ExGoing}
    BY <1>1, <1>6 DEF ExTasksOK
  <2>2. \A o \in exDegrading : exHandler'[o] = exHandler[o]
    BY <1>1, <1>6 DEF ExTasksOK
  <2> QED
    BY <1>1, <2>1, <2>2 DEF ExTasksOK, ExAffected, ExBootDone
<1>8. ExStands'
  <2>1. \A o \in exDegrading : exHandler'[o] = exHandler[o]
    BY <1>1, <1>6 DEF ExTasksOK
  <2> QED
    BY <1>1, <2>1 DEF ExStands, ExAffected
<1>9. ASSUME NEW x \in Exts PROVE ExFine(x)'
  <2>1. (ExReleasing(x)' <=> ExReleasing(x)) /\ (ExUnhooking(x)' <=> ExUnhooking(x))
    BY <1>3, <1>4, ExMoves
  <2>2. CASE x = e
    BY <2>1, <2>2
  <2>3. CASE x # e
    <3>1. ExFine(x) /\ exHandler'[x] = exHandler[x]
      BY <1>4, <2>3 DEF ExInv
    <3>2. ExAhead(x)' => ExAhead(x)
      BY DEF ExAhead
    <3> QED
      BY <2>1, <2>3, <3>1, <3>2, ExFrame
  <2> QED
    BY <2>2, <2>3
<1> QED
  BY <1>5, <1>7, <1>8, <1>9 DEF ExInv

\* The news of e itself.
LEMMA ExOwnNews ==
  ASSUME ExInv, NEW e \in Exts, exBoot' = exBoot, exState' = exState, exStarted' = exStarted, exTools' = exTools,
         exHook' = exHook, exStopReq' = exStopReq, exStop' = exStop, exHandler[e].pc \in {"none", "watch", "wait"},
         exHandler'[e].pc \in {"none", "watch", "wait"},
         ExReleasing(e)' <=> ExReleasing(e), ExUnhooking(e)' <=> ExUnhooking(e),
         \/ exProc'[e] = exProc[e] /\ exHandler[e].pc # "none"
         \/ exProc[e] = "up" /\ exProc'[e] = "dead",
         (ExStarting(e) \/ (exState[e] = "running" /\ exStop.pc = "off")) /\ ExManned(e)
           => exStopReq[e] \/ ExManned(e)'
  PROVE  ExFine(e)'
<1>1. ExFine(e)
  BY DEF ExInv
<1>2. ~(ExAhead(e)')
  BY <1>1 DEF ExFine, ExAhead, ExFresh
<1>3. exBoot'.at = e /\ ExInStage' => ExStaged(e)'
  <2>1. ASSUME exBoot.at = e, ExInStage PROVE ExStaged(e)'
    <3>1. ExStaged(e) /\ ExStarting(e)
      BY <1>1, <2>1 DEF ExFine, ExInStage, ExStarting
    <3> QED
      BY <2>1, <3>1 DEF ExStaged, ExManned, ExGoing
  <2> QED
    BY <2>1 DEF ExInStage
<1>4. exBoot'.at = e /\ exBoot'.pc \in ExGoing => ExUndone(e)'
  BY <1>1 DEF ExFine, ExUndone, ExGoing
<1>5. e < exBoot'.at => ExPassed(e)'
  <2>1. ExWhole(e) => ExWhole(e)'
    BY DEF ExWhole, ExManned
  <2>2. ExGone(e) => ExGone(e)'
    BY DEF ExGone
  <2> QED
    BY <1>1, <2>1, <2>2 DEF ExFine, ExPassed
<1> QED
  BY <1>2, <1>3, <1>4, <1>5 DEF ExFine

LEMMA ExExitNewsInv == ASSUME ExInv, NEW e \in Exts, ExExits(e) \/ ExWatches(e) \/ ExIgnoresExit(e) PROVE ExInv'
<1>1. ExTypes /\ ExTasksOK
  BY DEF ExInv
<1>2. PICK p \in {"none", "watch", "wait"} :
        /\ ExHandlerAt(e, p, 0)
        /\ ExExits(e) => p = "watch"
        /\ ExWatches(e) => p = IF exStopReq[e] THEN "none" ELSE "wait"
  <2>1. CASE ExExits(e)
    <3> WITNESS "watch" \in {"none", "watch", "wait"}
    <3> QED
      BY <2>1 DEF ExExits, ExWatches
  <2>2. CASE ExWatches(e)
    <3>1. PICK q \in {"none", "watch", "wait"} : q = IF exStopReq[e] THEN "none" ELSE "wait"
      OBVIOUS
    <3> QED
      BY <2>2, <3>1 DEF ExExits, ExWatches
  <2>3. CASE ExIgnoresExit(e)
    <3> WITNESS "none" \in {"none", "watch", "wait"}
    <3> QED
      BY <2>3 DEF ExExits, ExWatches, ExIgnoresExit
  <2> QED
    BY <2>1, <2>2, <2>3
<1>3. /\ exHandler[e].pc \in {"none", "watch", "wait"}
      /\ exDeps' = exDeps /\ exState' = exState /\ exStarted' = exStarted /\ exTools' = exTools /\ exHook' = exHook
      /\ exStopReq' = exStopReq /\ exBoot' = exBoot /\ exDegrading' = exDegrading /\ exStop' = exStop /\ exRaced' = exRaced
  BY DEF ExExits, ExWatches, ExIgnoresExit, exGiven, exOwned
<1>4. exHandler'[e].pc = p /\ exHandler[e].pc \notin ExGoing
  <2>1. exHandler' = [exHandler EXCEPT ![e] = [pc |-> p, at |-> 0]]
    BY <1>2 DEF ExHandlerAt
  <2>2. exHandler'[e] = [pc |-> p, at |-> 0]
    BY <1>1, <2>1 DEF ExTypes
  <2> QED
    BY <1>3, <2>2 DEF ExGoing
<1>5. /\ exProc' \in [Exts -> {"none", "up", "dead"}] /\ \A x \in Exts : x # e => exProc'[x] = exProc[x]
      /\ \/ exProc'[e] = exProc[e] /\ exHandler[e].pc # "none"
         \/ exProc[e] = "up" /\ exProc'[e] = "dead" /\ ExExits(e)
  <2>1. CASE ExExits(e)
    BY <1>1, <2>1 DEF ExExits, ExTypes
  <2>2. CASE ExWatches(e) \/ ExIgnoresExit(e)
    BY <1>1, <2>2 DEF ExWatches, ExIgnoresExit, exOwned, ExTypes
  <2> QED
    BY <2>1, <2>2
\* An exit is ignored once its extension no longer runs, or at the end.
<1>6. ASSUME ExStarting(e) \/ (exState[e] = "running" /\ exStop.pc = "off"), ExManned(e)
      PROVE  exStopReq[e] \/ ExManned(e)'
  <2>1. CASE ExExits(e)
    BY <1>2, <1>4, <1>5, <2>1 DEF ExManned, ExExits
  <2>2. CASE ExWatches(e)
    <3>1. p = IF exStopReq[e] THEN "none" ELSE "wait"
      BY <1>2, <2>2
    <3>2. exProc'[e] = exProc[e]
      BY <2>2 DEF ExWatches, exOwned
    <3> QED
      BY <1>4, <1>6, <3>1, <3>2 DEF ExManned
  <2>3. CASE ExIgnoresExit(e)
    <3>1. e \notin exDegrading
      BY <1>1, <1>4 DEF ExTasksOK
    <3> QED
      BY <1>6, <2>3, <3>1 DEF ExIgnoresExit, ExIgnores
  <2> QED
    BY <2>1, <2>2, <2>3
<1>7. (ExReleasing(e)' <=> ExReleasing(e)) /\ (ExUnhooking(e)' <=> ExUnhooking(e)) => ExFine(e)'
  BY <1>3, <1>4, <1>5, <1>6, ExOwnNews
<1> QED
  BY <1>2, <1>3, <1>4, <1>5, <1>7, ExNewsInv

-----------------------------------------------------------------------------
\* A handler takes down t next.
LEMMA ExTakes ==
  ASSUME ExInv, NEW o \in Exts, NEW t \in Exts, t < exBoot.at, ExRelease(t), ExHandlerAt(o, ExReleasePc(t), t),
         exHandler[o].pc \in ExGoing => exHandler[o].at # t, exStop' = exStop
  PROVE  /\ exHandler' \in [Exts -> ExHandlers]
         /\ exHandler'[o].pc = ExReleasePc(t) /\ exHandler'[o].pc \in ExGoing /\ exHandler'[o].at = t
         /\ \A p \in Exts : p # o => exHandler'[p] = exHandler[p]
         /\ exTools' = exTools \ {t} /\ exStarted' = exStarted \ {t}
         /\ exStopReq' \in [Exts -> BOOLEAN] /\ \A x \in Exts : x # t => exStopReq'[x] = exStopReq[x]
         /\ ExReleasing(t)' /\ (t \in exHook => ExUnhooking(t)')
<1>1. ExTypes /\ ExTasksOK /\ ExFine(t)
  BY DEF ExInv
<1>2. PICK r, q : r = [pc |-> q, at |-> t] /\ q = ExReleasePc(t)
  OBVIOUS
<1>3. q \in ExGoing /\ (t \in exStarted => q = "stopping")
  BY <1>2 DEF ExReleasePc, ExGoing
<1>4. r \in ExHandlers /\ r.pc = q /\ r.at = t
  <2>1. t \in 0..ExCount
    BY ExAssumption DEF Exts
  <2> QED
    BY <1>2, <1>3, <2>1 DEF ExHandlers, ExGoing
<1>5. /\ exHandler' \in [Exts -> ExHandlers] /\ exHandler'[o] = r
      /\ \A p \in Exts : p # o => exHandler'[p] = exHandler[p]
  BY <1>1, <1>2, <1>4 DEF ExHandlerAt, ExTypes
<1>6. /\ exTools' = exTools \ {t} /\ exStarted' = exStarted \ {t}
      /\ exStopReq' \in [Exts -> BOOLEAN] /\ \A x \in Exts : x # t => exStopReq'[x] = exStopReq[x]
  BY <1>1 DEF ExRelease, ExTypes
<1>7. ExPassed(t)
  BY <1>1 DEF ExFine
<1>8. ExReleasing(t)'
  BY <1>3, <1>4, <1>5 DEF ExReleasing
\* Its hook stands because it runs, or because another is about to call it.
<1>9. t \in exHook => ExUnhooking(t)'
  <2>1. ASSUME t \in exHook, t \notin exStarted PROVE ExUnhooking(t)'
    <3>1. ExUnhooking(t)
      BY <1>7, <2>1 DEF ExPassed, ExWhole, ExGone
    <3>2. CASE exStop.pc = "stopping" /\ exStop.at = t
      BY <3>2 DEF ExUnhooking
    <3>3. CASE \E p \in Exts : exHandler[p].pc = "stopping" /\ exHandler[p].at = t
      <4>1. PICK p \in Exts : exHandler[p].pc = "stopping" /\ exHandler[p].at = t
        BY <3>3
      <4>2. p # o
        BY <4>1 DEF ExGoing
      <4> QED
        BY <1>5, <4>1, <4>2 DEF ExUnhooking
    <3> QED
      BY <3>1, <3>2, <3>3 DEF ExUnhooking
  <2>2. ASSUME t \in exStarted PROVE ExUnhooking(t)'
    BY <1>3, <1>4, <1>5, <2>2 DEF ExUnhooking
  <2> QED
    BY <2>1, <2>2
<1> QED
  BY <1>2, <1>3, <1>4, <1>5, <1>6, <1>8, <1>9

LEMMA ExHandlesInv == ASSUME ExInv, NEW o \in Exts, ExHandles(o) PROVE ExInv'
<1>1. ExTypes /\ ExTasksOK /\ ExStands
  BY DEF ExInv
<1>2. PICK t \in Exts :
        /\ ExTarget(o, t, ExCount + 1, ExBlocked(o)) /\ ExRelease(t) /\ ExHandlerAt(o, ExReleasePc(t), t)
  BY DEF ExHandles
<1>3. /\ exHandler[o].pc = "wait" /\ exState[o] = "running" /\ exStop.pc = "off" /\ o \notin exDegrading
      /\ exDegrading' = exDegrading \cup {o} /\ exState' = ExBlocked(o)
      /\ exDeps' = exDeps /\ exHook' = exHook /\ exProc' = exProc /\ exBoot' = exBoot /\ exStop' = exStop /\ exRaced' = exRaced
  BY DEF ExHandles, ExIgnores, exGiven
<1>4. /\ exState' \in [Exts -> ExStatus]
      /\ \A x \in Exts : exState'[x] = IF x # o /\ x \in ExAffected(o) /\ exState[x] = "starting" THEN "blocked" ELSE exState[x]
  <2>1. exState' = [x \in Exts |-> IF x # o /\ x \in ExAffected(o) /\ exState[x] = "starting" THEN "blocked" ELSE exState[x]]
    BY <1>3 DEF ExBlocked
  <2> QED
    BY <1>1, <2>1 DEF ExTypes, ExStatus
<1>5. o \in ExAffected(o) /\ ExAffected(o) \subseteq Exts
  BY ExUponUp DEF ExAffected
<1>6. /\ t \in ExAffected(o) /\ o <= t /\ exState[t] = "running"
      /\ \A x \in ExAffected(o) : t < x => exState'[x] # "running"
  <2>1. PICK up : up = {x \in ExAffected(o) : o < x /\ x < ExCount + 1 /\ exState'[x] = "running"}
    OBVIOUS
  <2>2. t \in {o} \cup up /\ \A x \in up : x <= t
    BY <1>2, <1>3, <2>1 DEF ExTarget
  <2>3. \A x \in Exts : x \in Int /\ x < ExCount + 1
    BY ExAssumption DEF Exts
  <2>4. t \in ExAffected(o) /\ o <= t /\ exState[t] = "running"
    <3>1. CASE t = o
      BY <1>3, <1>5, <2>3, <3>1
    <3>2. CASE t \in up
      <4>1. t \in ExAffected(o) /\ o < t /\ exState'[t] = "running"
        BY <2>1, <3>2
      <4> QED
        BY <1>4, <2>3, <4>1
    <3> QED
      BY <2>2, <3>1, <3>2
  <2>5. ASSUME NEW x \in ExAffected(o), t < x, exState'[x] = "running" PROVE FALSE
    <3>1. o < x /\ x \in Exts
      BY <1>5, <2>3, <2>4, <2>5
    <3>2. x \in up
      BY <2>1, <2>3, <2>5, <3>1
    <3> QED
      BY <1>5, <2>2, <2>3, <2>5, <3>2
  <2> QED
    BY <2>4, <2>5
<1>7. o < exBoot.at /\ t < exBoot.at
  BY <1>3, <1>6, ExTurns
<1>8. exHandler[o].pc \notin ExGoing
  BY <1>3 DEF ExGoing
<1>9. /\ exHandler' \in [Exts -> ExHandlers]
      /\ exHandler'[o].pc \in ExGoing /\ exHandler'[o].at = t
      /\ \A p \in Exts : p # o => exHandler'[p] = exHandler[p]
      /\ exTools' = exTools \ {t} /\ exStarted' = exStarted \ {t}
      /\ exStopReq' \in [Exts -> BOOLEAN] /\ \A x \in Exts : x # t => exStopReq'[x] = exStopReq[x]
      /\ ExReleasing(t)' /\ (t \in exHook => ExUnhooking(t)')
  BY <1>2, <1>3, <1>7, <1>8, ExTakes
<1>10. ExTypes'
  BY <1>1, <1>3, <1>4, <1>9 DEF ExTypes
<1>11. ExTasksOK'
  <2>1. exDegrading' = {p \in Exts : exHandler'[p].pc \in ExGoing}
    BY <1>1, <1>3, <1>9 DEF ExTasksOK
  <2>2. ASSUME NEW p \in exDegrading'
        PROVE  exHandler'[p].at \in Exts /\ p < exBoot'.at /\ exHandler'[p].at < exBoot'.at
               /\ exHandler'[p].at \in ExUpon(exDeps', p) /\ p <= exHandler'[p].at
    <3>1. CASE p = o
      BY <1>3, <1>6, <1>7, <1>9, <3>1 DEF ExAffected
    <3>2. CASE p # o
      <4>1. p \in exDegrading /\ exHandler'[p] = exHandler[p]
        BY <1>1, <1>3, <1>9, <2>2, <3>2 DEF ExTasksOK
      <4> QED
        BY <1>1, <1>3, <4>1 DEF ExTasksOK, ExAffected
    <3> QED
      BY <3>1, <3>2
  <2> QED
    BY <1>1, <1>3, <2>1, <2>2 DEF ExTasksOK, ExAffected, ExBootDone
<1>12. ExStands'
  <2>1. \A x \in Exts : exState'[x] \in {"starting", "running"} => exState'[x] = exState[x]
    BY <1>4
  <2>2. ASSUME NEW x \in Exts, exState'[x] = "running", NEW d \in exDeps[x]
        PROVE  exState'[d] = "running" \/ x \in exRaced
    <3>1. d \in Exts
      BY <1>1, <2>2, ExDepsIn
    <3>2. exState[d] = "running" \/ x \in exRaced
      BY <1>1, <1>3, <2>1, <2>2 DEF ExStands
    <3> QED
      BY <1>4, <3>1, <3>2
  <2>3. ASSUME NEW p \in exDegrading', NEW x \in ExAffected(p), exHandler'[p].at < x, exState'[x] \in {"starting", "running"}
        PROVE  x \in exRaced
    <3>1. x \in Exts
      BY <2>3 DEF ExAffected, ExUpon
    <3>2. CASE p = o
      <4>1. exState'[x] = "starting" /\ exState[x] = "starting"
        BY <1>6, <1>9, <2>1, <2>3, <3>1, <3>2
      <4>2. x # o
        BY <1>3, <4>1
      <4> QED
        BY <1>4, <2>3, <3>1, <3>2, <4>1, <4>2
    <3>3. CASE p # o
      BY <1>1, <1>3, <1>9, <2>1, <2>3, <3>1, <3>3 DEF ExStands, ExTasksOK
    <3> QED
      BY <3>2, <3>3
  <2> QED
    BY <1>3, <2>2, <2>3 DEF ExStands, ExAffected
<1>13. ASSUME NEW x \in Exts PROVE ExFine(x)'
  <2>1. ExFine(x)
    BY DEF ExInv
  <2>2. ExAhead(x)' <=> ExAhead(x)
    BY <1>3 DEF ExAhead
  <2>3. CASE x = t
    <3>1. ~ExAhead(x) /\ x # exBoot.at
      BY <1>1, <1>7, <2>3, ExParts DEF ExAhead, Exts
    <3>2. ExPassed(t)'
      <4>1. exState'[t] = "running"
        BY <1>4, <1>6
      <4>2. t \notin exStarted' /\ t \notin exTools'
        BY <1>9
      <4> QED
        BY <1>3, <1>9, <4>1, <4>2 DEF ExPassed
    <3> QED
      BY <1>3, <2>2, <2>3, <3>1, <3>2 DEF ExFine
  <2>4. CASE x # t
    <3>1. (ExReleasing(x)' <=> ExReleasing(x)) /\ (ExUnhooking(x)' <=> ExUnhooking(x))
      BY <1>3, <1>8, <1>9, <2>4, ExMoves
    <3>2. /\ exHandler'[x].pc = "none" <=> exHandler[x].pc = "none"
          /\ exHandler'[x].pc \in ExGoing => exHandler[x].pc \in ExGoing \/ x < exBoot.at
      BY <1>3, <1>7, <1>9 DEF ExGoing
    <3>3. (x \in exStarted' <=> x \in exStarted) /\ (x \in exTools' <=> x \in exTools) /\ exStopReq'[x] = exStopReq[x]
      BY <1>9, <2>4
    <3>4. CASE exState'[x] = exState[x]
      BY <1>3, <2>1, <2>2, <3>1, <3>2, <3>3, <3>4, ExFrame
    <3>5. CASE exState'[x] = "blocked" /\ exState[x] = "starting"
      <4>1. exBoot.at = x /\ exBoot.pc # "next"
        BY <3>5, ExTurns
      <4>2. ~(x < x) /\ x # o
        BY <1>3, <3>5 DEF Exts
      <4>3. exHandler'[x] = exHandler[x]
        BY <1>9, <4>2
      <4>4. ~ExAhead(x) /\ ~(x < exBoot.at)
        BY <4>1, <4>2 DEF ExAhead
      <4>5. ExInStage => ExStaged(x)'
        BY <1>3, <2>1, <3>3, <3>5, <4>1, <4>3 DEF ExFine, ExStaged, ExManned, ExInStage
      <4>6. exBoot.pc \in ExGoing => ExUndone(x)'
        BY <1>3, <2>1, <3>3, <3>5, <4>1, <4>3 DEF ExFine, ExUndone
      <4> QED
        BY <1>3, <2>2, <4>4, <4>5, <4>6 DEF ExFine, ExInStage
    <3> QED
      BY <1>4, <3>4, <3>5
  <2> QED
    BY <2>3, <2>4
<1> QED
  BY <1>10, <1>11, <1>12, <1>13 DEF ExInv

\* A task at v that has awaited the end of its process leaves it.
LEMMA ExDown ==
  ASSUME ExInv, NEW v \in Exts, v < exBoot.at, ExReleasing(v), exBoot' = exBoot, v \in exHook' => v \in exHook,
         v \in exStarted' => v \in exStarted, v \in exTools' => v \in exTools, exProc'[v] = "none",
         exState'[v] \notin {"starting", "running"},
         ExUnhooking(v) => ExReleasing(v)' /\ ExUnhooking(v)'
  PROVE  ExFine(v)'
<1>1. ExTypes /\ ExPassed(v)
  BY DEF ExInv, ExFine
<1>2. ~ExAhead(v) /\ v # exBoot.at
  BY <1>1, ExParts DEF ExAhead, Exts
<1>3. ExPassed(v)'
  BY <1>1 DEF ExPassed, ExGone
<1> QED
  BY <1>2, <1>3 DEF ExFine, ExAhead

LEMMA ExHandlerStopsInv == ASSUME ExInv, NEW o \in Exts, ExHandlerStops(o) PROVE ExInv'
<1>1. ExTypes /\ ExTasksOK /\ ExStands /\ exHandler[o].pc = "stopping" /\ exHandler[o] \in ExHandlers
  BY DEF ExInv, ExHandlerStops, ExTypes
<1>2. PICK v \in Exts : v = exHandler[o].at /\ v < exBoot.at
  BY <1>1 DEF ExTasksOK, ExGoing
<1>3. /\ exDeps' = exDeps /\ exState' = exState /\ exStarted' = exStarted /\ exTools' = exTools /\ exProc' = exProc
      /\ exStopReq' = exStopReq /\ exBoot' = exBoot /\ exDegrading' = exDegrading /\ exStop' = exStop /\ exRaced' = exRaced
      /\ exHook' = exHook \ {v} /\ exHandler' = [exHandler EXCEPT ![o].pc = "killing"]
  BY <1>2 DEF ExHandlerStops, ExHookStops, exGiven
<1>4. PICK r : r = [exHandler[o] EXCEPT !.pc = "killing"]
  OBVIOUS
<1>5. r \in ExHandlers /\ r.pc = "killing" /\ r.at = v
  BY <1>1, <1>2, <1>4 DEF ExHandlers
<1>6. /\ exHandler' \in [Exts -> ExHandlers] /\ exHandler'[o] = r
      /\ \A p \in Exts : p # o => exHandler'[p] = exHandler[p]
  <2>1. exHandler' = [exHandler EXCEPT ![o] = r]
    BY <1>3, <1>4
  <2> QED
    BY <1>1, <1>5, <2>1 DEF ExTypes
<1>7. ExTypes'
  BY <1>1, <1>3, <1>6 DEF ExTypes
<1>8. \A p \in Exts : (exHandler'[p].pc \in ExGoing <=> exHandler[p].pc \in ExGoing) /\ exHandler'[p].at = exHandler[p].at
                      /\ (exHandler'[p].pc = "none" <=> exHandler[p].pc = "none")
  BY <1>1, <1>2, <1>5, <1>6 DEF ExGoing
<1>9. ExTasksOK'
  BY <1>1, <1>3, <1>8 DEF ExTasksOK, ExAffected, ExBootDone
<1>10. ExStands'
  <2>1. \A p \in exDegrading : p \in Exts
    BY <1>1 DEF ExTasksOK
  <2> QED
    BY <1>1, <1>3, <1>8, <2>1 DEF ExStands, ExAffected
<1>11. ASSUME NEW x \in Exts PROVE ExFine(x)'
  <2>1. ExFine(x) /\ (ExAhead(x)' <=> ExAhead(x))
    BY <1>3 DEF ExInv, ExAhead
  <2>2. CASE x = v
    <3>1. ~ExAhead(x) /\ x # exBoot.at
      BY <1>1, <1>2, <2>2, ExParts DEF ExAhead, Exts
    <3>2. ExReleasing(x) /\ ExReleasing(x)'
      BY <1>1, <1>2, <1>5, <1>6, <2>2 DEF ExReleasing, ExGoing
    <3>3. ExPassed(x)'
      BY <1>2, <1>3, <2>1, <2>2, <3>2 DEF ExFine, ExPassed
    <3> QED
      BY <1>3, <2>1, <3>1, <3>3 DEF ExFine
  <2>3. CASE x # v
    <3>1. (ExReleasing(x)' <=> ExReleasing(x)) /\ (ExUnhooking(x)' <=> ExUnhooking(x))
      BY <1>2, <1>3, <1>5, <1>6, <2>3, ExMoves
    <3> QED
      BY <1>3, <1>8, <2>1, <2>3, <3>1, ExFrame
  <2> QED
    BY <2>2, <2>3
<1> QED
  BY <1>7, <1>9, <1>10, <1>11 DEF ExInv

LEMMA ExHandlerKillsInv == ASSUME ExInv, NEW o \in Exts, ExHandlerKills(o) PROVE ExInv'
<1>1. ExTypes /\ ExTasksOK /\ ExStands /\ exHandler[o].pc = "killing" /\ o \in exDegrading
  BY DEF ExInv, ExHandlerKills, ExTasksOK, ExGoing
<1>2. PICK v \in Exts : /\ v = exHandler[o].at /\ v < exBoot.at /\ o < exBoot.at
                        /\ v \in ExAffected(o) /\ o <= v
  BY <1>1 DEF ExTasksOK
<1>3. PICK s \in {"degraded", "blocked"} : s = IF v = o THEN "degraded" ELSE "blocked"
  OBVIOUS
<1>4. /\ exDeps' = exDeps /\ exHook' = exHook /\ exBoot' = exBoot /\ exStop' = exStop /\ exRaced' = exRaced
      /\ exState' = [exState EXCEPT ![v] = s] /\ exProc' = [exProc EXCEPT ![v] = "none"]
  BY <1>2, <1>3 DEF ExHandlerKills, ExKill, exGiven
<1>5. /\ exState' \in [Exts -> ExStatus] /\ exState'[v] = s /\ \A x \in Exts : x # v => exState'[x] = exState[x]
      /\ exProc' \in [Exts -> {"none", "up", "dead"}] /\ exProc'[v] = "none"
      /\ \A x \in Exts : x # v => exProc'[x] = exProc[x]
  BY <1>1, <1>3, <1>4 DEF ExTypes, ExStatus
<1>6. ExReleasing(v) /\ exBoot.at \in Int
  BY <1>1, <1>2, ExParts DEF ExReleasing, ExGoing
\* Whoever depends on v does not run, or began beside this.
<1>7. ASSUME exStop.pc = "off"
      PROVE  /\ \A x \in Exts : exState'[x] = "running" => \A d \in exDeps[x] : exState'[d] = "running" \/ x \in exRaced
             /\ \A p \in exDegrading : \A x \in ExAffected(p) :
                  exHandler[p].at < x /\ exState'[x] \in {"starting", "running"} => x \in exRaced
  <2>1. ASSUME NEW x \in Exts, exState'[x] = "running", NEW d \in exDeps[x]
        PROVE  exState'[d] = "running" \/ x \in exRaced
    <3>1. d \in Exts /\ d < x
      BY <1>1, <2>1, ExDepsIn
    <3>2. exState[x] = "running" /\ x # v
      BY <1>3, <1>5, <2>1
    <3>3. exState[d] = "running" \/ x \in exRaced
      BY <1>1, <1>7, <2>1, <3>2 DEF ExStands
    <3>4. CASE d = v
      <4>1. x \in ExAffected(o)
        BY <1>2, <2>1, <3>4, ExUponUp DEF ExAffected
      <4> QED
        BY <1>1, <1>2, <1>7, <3>1, <3>2, <3>4, <4>1 DEF ExStands
    <3> QED
      BY <1>5, <3>1, <3>3, <3>4
  <2>2. ASSUME NEW p \in exDegrading, NEW x \in ExAffected(p), exHandler[p].at < x, exState'[x] \in {"starting", "running"}
        PROVE  x \in exRaced
    <3>1. x \in Exts
      BY <2>2 DEF ExAffected, ExUpon
    <3>2. exState[x] = exState'[x]
      BY <1>3, <1>5, <2>2, <3>1
    <3> QED
      BY <1>1, <1>7, <2>2, <3>2 DEF ExStands
  <2> QED
    BY <2>1, <2>2
<1>8. CASE /\ v = o /\ ExHandlerAt(o, "none", 0) /\ exDegrading' = exDegrading \ {o}
           /\ exStarted' = exStarted /\ exTools' = exTools /\ exStopReq' = exStopReq
  <2>1. PICK r : r = [pc |-> "none", at |-> 0]
    OBVIOUS
  <2>2. r \in ExHandlers /\ r.pc = "none" /\ r.pc \notin ExGoing
    <3>1. 0 \in 0..ExCount
      BY ExAssumption
    <3> QED
      BY <2>1, <3>1 DEF ExHandlers, ExGoing
  <2>3. /\ exHandler' \in [Exts -> ExHandlers] /\ exHandler'[o] = r
        /\ \A p \in Exts : p # o => exHandler'[p] = exHandler[p]
    BY <1>1, <1>8, <2>1, <2>2 DEF ExHandlerAt, ExTypes
  <2>4. ExTypes'
    BY <1>1, <1>4, <1>5, <1>8, <2>3 DEF ExTypes
  <2>5. \A p \in exDegrading' : p \in exDegrading /\ p \in Exts /\ exHandler'[p] = exHandler[p]
    BY <1>1, <1>8, <2>3 DEF ExTasksOK
  <2>6. ExTasksOK'
    <3>1. exDegrading' = {p \in Exts : exHandler'[p].pc \in ExGoing}
      BY <1>1, <1>8, <2>2, <2>3 DEF ExTasksOK
    <3> QED
      BY <1>1, <1>4, <2>5, <3>1 DEF ExTasksOK, ExAffected, ExBootDone
  <2>7. ExStands'
    BY <1>4, <1>7, <2>5 DEF ExStands, ExAffected
  <2>8. ASSUME NEW x \in Exts PROVE ExFine(x)'
    <3>1. CASE x = v
      <4>1. ExUnhooking(v) => ExReleasing(v)' /\ ExUnhooking(v)'
        <5>1. ASSUME NEW p \in Exts, exHandler[p].pc = "stopping", exHandler[p].at = v PROVE exHandler'[p] = exHandler[p]
          BY <1>1, <2>3, <5>1
        <5> QED
          BY <1>4, <5>1 DEF ExUnhooking, ExReleasing, ExGoing
      <4> QED
        BY <1>2, <1>3, <1>4, <1>5, <1>6, <1>8, <3>1, <4>1, ExDown
    <3>2. CASE x # v
      <4>1. (ExReleasing(x)' <=> ExReleasing(x)) /\ (ExUnhooking(x)' <=> ExUnhooking(x))
        BY <1>2, <1>4, <2>2, <2>3, <3>2, ExMoves
      <4>2. ExFine(x) /\ (ExAhead(x)' <=> ExAhead(x)) /\ exHandler'[x] = exHandler[x]
        BY <1>4, <1>8, <2>3, <3>2 DEF ExInv, ExAhead
      <4> QED
        BY <1>4, <1>5, <1>8, <3>2, <4>1, <4>2, ExFrame
    <3> QED
      BY <3>1, <3>2
  <2> QED
    BY <2>4, <2>6, <2>7, <2>8 DEF ExInv
<1>9. ASSUME v # o, NEW t \in Exts, ExTarget(o, t, v, exState'), ExRelease(t), ExHandlerAt(o, ExReleasePc(t), t),
             exDegrading' = exDegrading
      PROVE  ExInv'
  <2>1. o \in ExAffected(o) /\ ExAffected(o) \subseteq Exts
    BY ExUponUp DEF ExAffected
  <2>2. \A x \in Exts : x \in Int
    BY DEF Exts
  <2>3. PICK up : up = {x \in ExAffected(o) : o < x /\ x < v /\ exState'[x] = "running"}
    OBVIOUS
  <2>4. t \in {o} \cup up /\ \A x \in up : x <= t
    BY <1>9, <2>3 DEF ExTarget
  <2>5. t \in ExAffected(o) /\ o <= t /\ t < v
    <3>1. CASE t = o
      <4>1. o < v
        BY <1>2, <1>9, <2>2
      <4> QED
        BY <2>1, <2>2, <3>1, <4>1
    <3>2. CASE t \in up
      BY <2>2, <2>3, <3>2
    <3> QED
      BY <2>4, <3>1, <3>2
  <2>6. t < exBoot.at /\ t # v
    BY <1>2, <1>6, <2>2, <2>5
  <2>7. /\ exHandler' \in [Exts -> ExHandlers]
        /\ exHandler'[o].pc \in ExGoing /\ exHandler'[o].at = t
        /\ \A p \in Exts : p # o => exHandler'[p] = exHandler[p]
        /\ exTools' = exTools \ {t} /\ exStarted' = exStarted \ {t}
        /\ exStopReq' \in [Exts -> BOOLEAN] /\ \A x \in Exts : x # t => exStopReq'[x] = exStopReq[x]
        /\ ExReleasing(t)' /\ (t \in exHook => ExUnhooking(t)')
    BY <1>2, <1>4, <1>9, <2>6, ExTakes
  <2>8. ExTypes'
    BY <1>1, <1>4, <1>5, <1>9, <2>7 DEF ExTypes
  <2>9. exHandler[o].pc \in ExGoing /\ exHandler[o].pc # "none" /\ exHandler'[o].pc # "none"
    BY <1>1, <2>7 DEF ExGoing
  <2>10. ExTasksOK'
    <3>1. exDegrading' = {p \in Exts : exHandler'[p].pc \in ExGoing}
      BY <1>1, <1>9, <2>7, <2>9 DEF ExTasksOK
    <3>2. ASSUME NEW p \in exDegrading'
          PROVE  exHandler'[p].at \in Exts /\ p < exBoot'.at /\ exHandler'[p].at < exBoot'.at
                 /\ exHandler'[p].at \in ExUpon(exDeps', p) /\ p <= exHandler'[p].at
      <4>1. CASE p = o
        BY <1>2, <1>4, <2>5, <2>6, <2>7, <4>1 DEF ExAffected
      <4>2. CASE p # o
        <5>1. p \in exDegrading /\ exHandler'[p] = exHandler[p]
          BY <1>1, <1>9, <2>7, <3>2, <4>2 DEF ExTasksOK
        <5> QED
          BY <1>1, <1>4, <5>1 DEF ExTasksOK, ExAffected
      <4> QED
        BY <4>1, <4>2
    <3> QED
      BY <1>1, <1>4, <3>1, <3>2 DEF ExTasksOK, ExAffected, ExBootDone
  <2>11. ExStands'
    <3>1. ASSUME exStop.pc = "off", NEW p \in exDegrading, NEW x \in ExAffected(p), exHandler'[p].at < x,
                 exState'[x] \in {"starting", "running"}
          PROVE  x \in exRaced
      <4>1. CASE p # o
        BY <1>1, <1>7, <2>7, <3>1, <4>1 DEF ExTasksOK
      <4>2. CASE p = o
        <5>1. x \in Exts /\ t < x
          BY <2>1, <2>7, <3>1, <4>2
        <5>2. CASE v < x
          BY <1>1, <1>2, <1>7, <3>1, <4>2, <5>2
        <5>3. CASE ~(v < x)
          <6>1. x < v
            <7>1. x # v
              BY <1>3, <1>5, <3>1
            <7> QED
              BY <2>2, <5>1, <5>3, <7>1
          <6>2. exState[x] = exState'[x] /\ x < exBoot.at /\ x # exBoot.at
            BY <1>2, <1>5, <1>6, <2>2, <5>1, <6>1
          <6>3. exState'[x] = "running"
            BY <3>1, <5>1, <6>2, ExTurns
          <6>4. x \in up /\ ~(x <= t)
            BY <2>2, <2>3, <2>5, <3>1, <4>2, <5>1, <6>1, <6>3
          <6> QED
            BY <2>4, <6>4
        <5> QED
          BY <5>2, <5>3
      <4> QED
        BY <4>1, <4>2
    <3> QED
      BY <1>4, <1>7, <1>9, <3>1 DEF ExStands, ExAffected
  <2>12. ASSUME NEW x \in Exts PROVE ExFine(x)'
    <3>1. ExFine(x) /\ (ExAhead(x)' <=> ExAhead(x))
      BY <1>4 DEF ExInv, ExAhead
    <3>2. CASE x = v
      <4>1. ExUnhooking(v) => ExReleasing(v)' /\ ExUnhooking(v)'
        <5>1. ASSUME NEW p \in Exts, exHandler[p].pc = "stopping", exHandler[p].at = v PROVE exHandler'[p] = exHandler[p]
          BY <1>1, <2>7, <5>1
        <5> QED
          BY <1>4, <5>1 DEF ExUnhooking, ExReleasing, ExGoing
      <4>2. (v \in exStarted' => v \in exStarted) /\ (v \in exTools' => v \in exTools)
        BY <2>7
      <4> QED
        BY <1>2, <1>3, <1>4, <1>5, <1>6, <3>2, <4>1, <4>2, ExDown
    <3>3. CASE x = t
      <4>1. ~ExAhead(x) /\ x # exBoot.at
        BY <1>6, <2>2, <2>6, <3>3 DEF ExAhead
      <4>2. ExPassed(t)'
        <5>1. exState'[t] # "starting"
          BY <1>5, <2>6, <3>1, <3>3 DEF ExFine, ExPassed
        <5>2. t \notin exStarted' /\ t \notin exTools'
          BY <2>7
        <5> QED
          BY <1>4, <2>7, <5>1, <5>2 DEF ExPassed
      <4> QED
        BY <1>4, <3>1, <3>3, <4>1, <4>2 DEF ExFine
    <3>4. CASE x # t /\ x # v
      <4>1. (ExReleasing(x)' <=> ExReleasing(x)) /\ (ExUnhooking(x)' <=> ExUnhooking(x))
        BY <1>2, <1>4, <2>7, <3>4, ExMoves
      <4>2. /\ exHandler'[x].pc = "none" <=> exHandler[x].pc = "none"
            /\ exHandler'[x].pc \in ExGoing => exHandler[x].pc \in ExGoing \/ x < exBoot.at
        BY <1>2, <2>7, <2>9
      <4>3. (x \in exStarted' <=> x \in exStarted) /\ (x \in exTools' <=> x \in exTools) /\ exStopReq'[x] = exStopReq[x]
        BY <2>7, <3>4
      <4> QED
        BY <1>4, <1>5, <3>1, <3>4, <4>1, <4>2, <4>3, ExFrame
    <3> QED
      BY <3>2, <3>3, <3>4
  <2> QED
    BY <2>8, <2>10, <2>11, <2>12 DEF ExInv
<1>10. \/ v = o /\ ExHandlerAt(o, "none", 0) /\ exDegrading' = exDegrading \ {o}
          /\ exStarted' = exStarted /\ exTools' = exTools /\ exStopReq' = exStopReq
       \/ v # o /\ exDegrading' = exDegrading
          /\ \E t \in Exts : ExTarget(o, t, v, exState') /\ ExRelease(t) /\ ExHandlerAt(o, ExReleasePc(t), t)
  BY <1>2 DEF ExHandlerKills
<1> QED
  BY <1>8, <1>9, <1>10

\* The stop moves, and what the other tasks rest on stays.
LEMMA ExStopKeeps ==
  ASSUME ExInv, ExBootDone, exDeps' = exDeps, exBoot' = exBoot, exHandler' = exHandler, exDegrading' = exDegrading,
         exStop'.pc # "off", exStop'.pc \in ExGoing => exStop'.at \in Exts
  PROVE  ExTasksOK' /\ ExStands'
<1>1. ExTasksOK
  BY DEF ExInv
<1>2. ExBootDone'
  BY DEF ExBootDone
<1>3. ExTasksOK'
  BY <1>1, <1>2 DEF ExTasksOK, ExAffected
<1> QED
  BY <1>3 DEF ExStands

\* After the start every extension had its turn.
LEMMA ExAllTurned ==
  ASSUME ExInv, ExBootDone, NEW x \in Exts
  PROVE  x < exBoot.at /\ x # exBoot.at /\ ~ExAhead(x) /\ ExPassed(x)
<1>1. ExTypes /\ ExFine(x)
  BY DEF ExInv
<1>2. x \in Int /\ x <= ExCount /\ ExCount \in Nat /\ exBoot.at \in Int
  BY <1>1, ExParts
<1>3. exBoot.at > ExCount
  BY DEF ExBootDone
<1>4. x < exBoot.at /\ x # exBoot.at /\ ~(exBoot.at < x)
  BY <1>2, <1>3
<1> QED
  BY <1>1, <1>4 DEF ExFine, ExAhead

\* What the stop is not at, it leaves alone.
LEMMA ExStopOthers ==
  ASSUME ExInv, ExBootDone, NEW x \in Exts, exBoot' = exBoot, exHandler' = exHandler, exStop'.pc # "off",
         exStop.pc \in ExGoing => exStop.at # x, exStop'.pc \in ExGoing => exStop'.at # x,
         exState'[x] = exState[x], x \in exStarted' <=> x \in exStarted, x \in exTools' <=> x \in exTools,
         x \in exHook' <=> x \in exHook, exProc'[x] = exProc[x], exStopReq'[x] = exStopReq[x]
  PROVE  ExFine(x)'
<1>1. ExFine(x)
  BY DEF ExInv
<1>2. ExReleasing(x)' <=> ExReleasing(x)
  BY DEF ExReleasing
<1>3. ExUnhooking(x)' <=> ExUnhooking(x)
  BY DEF ExUnhooking, ExGoing
<1>4. ExAhead(x)' <=> ExAhead(x)
  BY DEF ExAhead
<1> QED
  BY <1>1, <1>2, <1>3, <1>4, ExFrame

\* The extension the stop is at, after its turn.
LEMMA ExStopHere ==
  ASSUME ExInv, ExBootDone, NEW x \in Exts, exBoot' = exBoot, ExPassed(x)'
  PROVE  ExFine(x)'
<1>1. x # exBoot.at /\ ~ExAhead(x)
  BY ExAllTurned
<1> QED
  BY <1>1 DEF ExFine, ExAhead

LEMMA ExShutdownInv == ASSUME ExInv, ExShutdown PROVE ExInv'
<1>1. ExTypes /\ ExBootDone /\ exStop.pc = "off" /\ exStop' = [at |-> ExCount, pc |-> "walk", why |-> ""]
  BY DEF ExInv, ExShutdown
<1>2. /\ exDeps' = exDeps /\ exState' = exState /\ exStarted' = exStarted /\ exTools' = exTools /\ exHook' = exHook
      /\ exProc' = exProc /\ exStopReq' = exStopReq /\ exBoot' = exBoot /\ exHandler' = exHandler
      /\ exDegrading' = exDegrading /\ exRaced' = exRaced
  BY DEF ExShutdown, exGiven, exOwned
<1>3. exStop'.pc = "walk" /\ exStop' \in ExStops
  <2>1. ExCount \in 0..ExCount
    BY ExAssumption
  <2> QED
    BY <1>1, <2>1 DEF ExStops
<1>4. ExTypes'
  BY <1>1, <1>2, <1>3 DEF ExTypes
<1>5. exStop'.pc # "off" /\ exStop'.pc \notin ExGoing /\ exStop.pc \notin ExGoing
  BY <1>1, <1>3 DEF ExGoing
<1>6. ExTasksOK' /\ ExStands'
  BY <1>1, <1>2, <1>5, ExStopKeeps
<1>7. ASSUME NEW x \in Exts PROVE ExFine(x)'
  BY <1>1, <1>2, <1>5, ExStopOthers
<1> QED
  BY <1>4, <1>6, <1>7 DEF ExInv

LEMMA ExStopWalksInv == ASSUME ExInv, ExStopWalks PROVE ExInv'
<1>1. ExTypes /\ ExTasksOK /\ exStop.pc = "walk" /\ exStop.at > 0
  BY DEF ExInv, ExStopWalks
<1>2. PICK e \in Exts : e = exStop.at
  BY <1>1, ExParts DEF Exts
<1>3. ExBootDone
  BY <1>1 DEF ExTasksOK
<1>4. /\ exDeps' = exDeps /\ exTools' = exTools \ {e} /\ exHook' = exHook
      /\ exProc' = exProc /\ exBoot' = exBoot /\ exHandler' = exHandler /\ exDegrading' = exDegrading /\ exRaced' = exRaced
  BY <1>2 DEF ExStopWalks, exGiven
<1>5. exStop.pc \notin ExGoing
  BY <1>1 DEF ExGoing
<1>6. ExPassed(e)
  BY <1>3, ExAllTurned
<1>7. exStop \in ExStops
  BY <1>1 DEF ExTypes
<1>8. CASE /\ e \notin exStarted /\ exStop' = [exStop EXCEPT !.at = e - 1]
           /\ exState' = [exState EXCEPT ![e] = IF exState[e] = "blocked" /\ ExLoaded(exDeps, exBroken)[e] = "loaded"
                                               THEN "loaded" ELSE exState[e]]
           /\ exStarted' = exStarted /\ exStopReq' = exStopReq
  <2>1. exStop' \in ExStops /\ exStop'.pc = "walk"
    <3>1. e - 1 \in 0..ExCount
      BY ExAssumption DEF Exts
    <3> QED
      BY <1>1, <1>7, <1>8, <3>1 DEF ExStops
  <2>2. /\ exState' \in [Exts -> ExStatus] /\ exState'[e] \in {"loaded", exState[e]}
        /\ \A x \in Exts : x # e => exState'[x] = exState[x]
    BY <1>1, <1>8 DEF ExTypes, ExStatus
  <2>3. ExTypes'
    BY <1>1, <1>4, <1>8, <2>1, <2>2 DEF ExTypes
  <2>4. exStop'.pc # "off" /\ exStop'.pc \notin ExGoing
    BY <2>1 DEF ExGoing
  <2>5. ExTasksOK' /\ ExStands'
    BY <1>3, <1>4, <2>4, ExStopKeeps
  <2>6. ExReleasing(e)' <=> ExReleasing(e)
    BY <1>4, <1>5, <2>4 DEF ExReleasing
  <2>7. ExUnhooking(e) => ExUnhooking(e)'
    BY <1>1, <1>4 DEF ExUnhooking
  <2>8. ExPassed(e)'
    <3>1. exState'[e] # "starting"
      BY <1>6, <2>2 DEF ExPassed
    <3>2. CASE ExReleasing(e)
      BY <1>4, <1>6, <1>8, <2>6, <2>7, <3>1, <3>2 DEF ExPassed
    <3>3. CASE ~ExReleasing(e)
      <4>1. ExGone(e)
        BY <1>6, <1>8, <3>3 DEF ExPassed, ExWhole
      <4>2. ExGone(e)'
        BY <1>4, <1>8, <2>2, <4>1 DEF ExGone
      <4> QED
        BY <2>6, <3>1, <3>3, <4>2 DEF ExPassed
    <3> QED
      BY <3>2, <3>3
  <2>9. ASSUME NEW x \in Exts PROVE ExFine(x)'
    <3>1. CASE x = e
      BY <1>3, <1>4, <2>8, <3>1, ExStopHere
    <3>2. CASE x # e
      <4>1. x \in exTools' <=> x \in exTools
        BY <1>4, <3>2
      <4> QED
        BY <1>3, <1>4, <1>5, <1>8, <2>2, <2>4, <3>2, <4>1, ExStopOthers
    <3> QED
      BY <3>1, <3>2
  <2> QED
    BY <2>3, <2>5, <2>9 DEF ExInv
<1>9. CASE /\ e \in exStarted /\ exStarted' = exStarted \ {e} /\ exStopReq' = [exStopReq EXCEPT ![e] = TRUE]
           /\ exStop' = [exStop EXCEPT !.pc = "stopping"] /\ exState' = exState
  <2>1. exStop' \in ExStops /\ exStop'.pc = "stopping" /\ exStop'.at = e
    BY <1>2, <1>7, <1>9 DEF ExStops
  <2>2. exStopReq' \in [Exts -> BOOLEAN] /\ \A x \in Exts : x # e => exStopReq'[x] = exStopReq[x]
    BY <1>1, <1>9 DEF ExTypes
  <2>3. ExTypes'
    BY <1>1, <1>4, <1>9, <2>1, <2>2 DEF ExTypes
  <2>4. exStop'.pc # "off" /\ exStop'.pc \in ExGoing
    BY <2>1 DEF ExGoing
  <2>5. ExTasksOK' /\ ExStands'
    BY <1>3, <1>4, <2>1, <2>4, ExStopKeeps
  <2>6. ExReleasing(e)' /\ ExUnhooking(e)'
    BY <2>1, <2>4 DEF ExReleasing, ExUnhooking
  <2>7. ExPassed(e)'
    BY <1>4, <1>6, <1>9, <2>6 DEF ExPassed
  <2>8. ASSUME NEW x \in Exts PROVE ExFine(x)'
    <3>1. CASE x = e
      BY <1>3, <1>4, <2>7, <3>1, ExStopHere
    <3>2. CASE x # e
      <4>1. (x \in exTools' <=> x \in exTools) /\ (x \in exStarted' <=> x \in exStarted)
        BY <1>4, <1>9, <3>2
      <4> QED
        BY <1>3, <1>4, <1>5, <1>9, <2>1, <2>2, <2>4, <3>2, <4>1, ExStopOthers
    <3> QED
      BY <3>1, <3>2
  <2> QED
    BY <2>3, <2>5, <2>8 DEF ExInv
<1> QED
  BY <1>2, <1>8, <1>9 DEF ExStopWalks

LEMMA ExStopStopsInv == ASSUME ExInv, ExStopStops PROVE ExInv'
<1>1. ExTypes /\ ExTasksOK /\ exStop.pc = "stopping" /\ exStop.pc \in ExGoing
  BY DEF ExInv, ExStopStops, ExGoing
<1>2. PICK e \in Exts : e = exStop.at
  BY <1>1 DEF ExTasksOK
<1>3. ExBootDone
  BY <1>1 DEF ExTasksOK
<1>4. /\ exDeps' = exDeps /\ exState' = exState /\ exStarted' = exStarted /\ exTools' = exTools
      /\ exHook' = exHook \ {e} /\ exStopReq' = exStopReq
      /\ exProc' = exProc /\ exBoot' = exBoot /\ exHandler' = exHandler /\ exDegrading' = exDegrading /\ exRaced' = exRaced
  BY <1>2 DEF ExStopStops, ExHookStops, exGiven
<1>5. PICK w \in {"", "degraded"} : exStop' = [exStop EXCEPT !.pc = "killing", !.why = w]
  BY DEF ExStopStops
<1>6. exStop' \in ExStops /\ exStop'.pc = "killing" /\ exStop'.at = e
  <2>1. exStop \in ExStops
    BY <1>1 DEF ExTypes
  <2> QED
    BY <1>2, <1>5, <2>1 DEF ExStops
<1>7. ExTypes'
  BY <1>1, <1>4, <1>6 DEF ExTypes
<1>8. exStop'.pc # "off" /\ exStop'.pc \in ExGoing
  BY <1>6 DEF ExGoing
<1>9. ExTasksOK' /\ ExStands'
  BY <1>3, <1>4, <1>6, <1>8, ExStopKeeps
<1>10. ExPassed(e)'
  <2>1. ExReleasing(e) /\ ExReleasing(e)'
    BY <1>1, <1>2, <1>6, <1>8 DEF ExReleasing
  <2>2. ExPassed(e)
    BY <1>3, ExAllTurned
  <2> QED
    BY <1>4, <2>1, <2>2 DEF ExPassed
<1>11. ASSUME NEW x \in Exts PROVE ExFine(x)'
  <2>1. CASE x = e
    BY <1>3, <1>4, <1>10, <2>1, ExStopHere
  <2>2. CASE x # e
    <3>1. x \in exHook' <=> x \in exHook
      BY <1>4, <2>2
    <3> QED
      BY <1>2, <1>3, <1>4, <1>6, <1>8, <2>2, <3>1, ExStopOthers
  <2> QED
    BY <2>1, <2>2
<1> QED
  BY <1>7, <1>9, <1>11 DEF ExInv

LEMMA ExStopKillsInv == ASSUME ExInv, ExStopKills PROVE ExInv'
<1>1. ExTypes /\ ExTasksOK /\ exStop.pc = "killing" /\ exStop.pc \in ExGoing
  BY DEF ExInv, ExStopKills, ExGoing
<1>2. PICK e \in Exts : e = exStop.at
  BY <1>1 DEF ExTasksOK
<1>3. ExBootDone
  BY <1>1 DEF ExTasksOK
<1>4. PICK s \in {"loaded", "degraded"} : exState' = [exState EXCEPT ![e] = s]
  BY <1>2 DEF ExStopKills
<1>5. /\ exDeps' = exDeps /\ exStarted' = exStarted /\ exTools' = exTools
      /\ exHook' = exHook /\ exStopReq' = exStopReq /\ exProc' = [exProc EXCEPT ![e] = "none"]
      /\ exBoot' = exBoot /\ exHandler' = exHandler /\ exDegrading' = exDegrading /\ exRaced' = exRaced
      /\ exStop' = [at |-> e - 1, pc |-> "walk", why |-> ""]
  BY <1>2 DEF ExStopKills, ExKill, exGiven
<1>6. exStop' \in ExStops /\ exStop'.pc = "walk"
  <2>1. e - 1 \in 0..ExCount
    BY ExAssumption DEF Exts
  <2> QED
    BY <1>5, <2>1 DEF ExStops
<1>7. /\ exState' \in [Exts -> ExStatus] /\ exState'[e] \notin {"starting", "running"}
      /\ \A x \in Exts : x # e => exState'[x] = exState[x]
      /\ exProc' \in [Exts -> {"none", "up", "dead"}] /\ exProc'[e] = "none"
      /\ \A x \in Exts : x # e => exProc'[x] = exProc[x]
  BY <1>1, <1>4, <1>5 DEF ExTypes, ExStatus
<1>8. ExTypes'
  BY <1>1, <1>5, <1>6, <1>7 DEF ExTypes
<1>9. exStop'.pc # "off" /\ exStop'.pc \notin ExGoing
  BY <1>6 DEF ExGoing
<1>10. ExTasksOK' /\ ExStands'
  BY <1>3, <1>5, <1>9, ExStopKeeps
<1>11. ASSUME NEW x \in Exts PROVE ExFine(x)'
  <2>1. CASE x = e
    <3>1. ExReleasing(e) /\ e < exBoot.at
      BY <1>1, <1>2, <1>3, ExAllTurned DEF ExReleasing
    <3>2. ExUnhooking(e) => ExReleasing(e)' /\ ExUnhooking(e)'
      BY <1>1, <1>5 DEF ExUnhooking, ExReleasing, ExGoing
    <3> QED
      BY <1>5, <1>7, <2>1, <3>1, <3>2, ExDown
  <2>2. CASE x # e
    BY <1>2, <1>3, <1>5, <1>7, <1>9, <2>2, ExStopOthers
  <2> QED
    BY <2>1, <2>2
<1> QED
  BY <1>8, <1>10, <1>11 DEF ExInv

-----------------------------------------------------------------------------
\* What ExInv says of an extension no task is busy with.
LEMMA ExAtRest ==
  ASSUME ExInv, NEW e \in Exts, ~ExBusy(e)
  PROVE  /\ exHandler[e].pc = "none" /\ ~ExReleasing(e)
         /\ ExFresh(e) \/ ExWhole(e) \/ ExGone(e)
<1>1. ExTypes /\ ExTasksOK /\ ExFine(e)
  BY DEF ExInv
<1>2. exHandler[e].pc = "none"
  BY DEF ExBusy
<1>3. ~ExReleasing(e)
  BY DEF ExBusy, ExReleasing, ExGoing
<1>4. e < exBoot.at \/ exBoot.at = e \/ exBoot.at < e
  <2>1. e \in Int /\ exBoot.at \in Int
    BY <1>1, ExParts
  <2> QED
    BY <2>1
<1>5. exBoot.at = e => exBoot.pc = "next"
  BY DEF ExBusy, ExStarting
<1>6. e < exBoot.at => ExWhole(e) \/ ExGone(e)
  BY <1>1, <1>3 DEF ExFine, ExPassed
<1>7. exBoot.at = e \/ exBoot.at < e => ExFresh(e)
  BY <1>1, <1>5 DEF ExFine, ExAhead
<1> QED
  BY <1>2, <1>3, <1>4, <1>6, <1>7

LEMMA ExKept == ExInv => ExHostOrderly
<1> SUFFICES ASSUME ExInv PROVE ExHostOrderly
  OBVIOUS
<1>1. ExNothingLeft
  <2>1. ASSUME NEW e \in Exts, ~ExBusy(e), exState[e] # "running"
        PROVE  e \notin exTools \cup exHook \cup exStarted /\ exProc[e] # "up"
    BY <2>1, ExAtRest DEF ExFresh, ExWhole, ExGone
  <2> QED
    BY <2>1 DEF ExNothingLeft
<1>2. ExFoundationStands
  <2>1. ASSUME exStop.pc = "off", NEW e \in Exts, exState[e] = "running", ~ExBusy(e)
        PROVE  /\ e \in exTools \cap exHook \cap exStarted
               /\ e \in ExWithProcess => exProc[e] = "up"
               /\ \A d \in exDeps[e] : exState[d] = "running" \/ e \in exRaced \/ ExBusy(d)
    <3>1. ExWhole(e) /\ exHandler[e].pc = "none"
      BY <2>1, ExAtRest DEF ExFresh, ExGone
    <3>2. e \in exTools \cap exHook \cap exStarted
      BY <3>1 DEF ExWhole
    <3>3. e \in ExWithProcess => exProc[e] = "up"
      BY <2>1, <3>1 DEF ExWhole, ExManned
    <3>4. \A d \in exDeps[e] : exState[d] = "running" \/ e \in exRaced
      BY <2>1 DEF ExInv, ExStands
    <3> QED
      BY <3>2, <3>3, <3>4
  <2> QED
    BY <2>1 DEF ExFoundationStands
<1> QED
  BY <1>1, <1>2 DEF ExHostOrderly

LEMMA ExNextInv == ExInv /\ [ExNext]_exVars => ExInv'
<1> SUFFICES ASSUME ExInv, [ExNext]_exVars PROVE ExInv'
  OBVIOUS
<1>1. CASE ExBegin
  BY <1>1, ExBeginInv
<1>2. CASE ExStagePasses
  BY <1>2, ExStagePassesInv
<1>3. CASE ExStageBlocked \/ ExStageFails
  BY <1>3, ExStageEndsInv
<1>4. CASE ExBootStops
  BY <1>4, ExBootStopsInv
<1>5. CASE ExBootKills
  BY <1>5, ExBootKillsInv
<1>6. ASSUME NEW e \in Exts, ExExits(e) \/ ExWatches(e) \/ ExIgnoresExit(e) PROVE ExInv'
  BY <1>6, ExExitNewsInv
<1>7. ASSUME NEW e \in Exts, ExHandles(e) PROVE ExInv'
  BY <1>7, ExHandlesInv
<1>8. ASSUME NEW e \in Exts, ExHandlerStops(e) PROVE ExInv'
  BY <1>8, ExHandlerStopsInv
<1>9. ASSUME NEW e \in Exts, ExHandlerKills(e) PROVE ExInv'
  BY <1>9, ExHandlerKillsInv
<1>10. CASE ExShutdown
  BY <1>10, ExShutdownInv
<1>11. CASE ExStopWalks
  BY <1>11, ExStopWalksInv
<1>12. CASE ExStopStops
  BY <1>12, ExStopStopsInv
<1>13. CASE ExStopKills
  BY <1>13, ExStopKillsInv
<1>14. CASE UNCHANGED exVars
  <2>1. /\ exDeps' = exDeps /\ exState' = exState /\ exStarted' = exStarted /\ exTools' = exTools /\ exHook' = exHook
        /\ exProc' = exProc /\ exStopReq' = exStopReq /\ exBoot' = exBoot /\ exHandler' = exHandler
        /\ exDegrading' = exDegrading /\ exStop' = exStop /\ exRaced' = exRaced
    BY <1>14 DEF exVars, exGiven, exOwned, exTasks
  <2>2. ExTypes' /\ ExTasksOK' /\ ExStands'
    BY <2>1 DEF ExInv, ExTypes, ExTasksOK, ExStands, ExAffected, ExBootDone
  <2>3. ASSUME NEW x \in Exts PROVE ExFine(x)'
    <3>1. ExFine(x) /\ (ExAhead(x)' <=> ExAhead(x))
      BY <2>1 DEF ExInv, ExAhead
    <3>2. (ExReleasing(x)' <=> ExReleasing(x)) /\ (ExUnhooking(x)' <=> ExUnhooking(x))
      BY <2>1 DEF ExReleasing, ExUnhooking
    <3> QED
      BY <2>1, <3>1, <3>2, ExFrame
  <2> QED
    BY <2>2, <2>3 DEF ExInv
<1> QED
  BY <1>1, <1>2, <1>3, <1>4, <1>5, <1>6, <1>7, <1>8, <1>9, <1>10, <1>11, <1>12, <1>13, <1>14 DEF ExNext

\* An extension that does not run has left nothing behind, and one that runs stands on
\* what it needs, however its start, the exit of a process, the degradation of what it
\* depends on and the shutdown interleave (extension_host/manager.py, runtime_failure.py).
THEOREM HostSafe == ExSpec => []ExHostOrderly
<1>1. ExInit => ExInv
  BY ExInitInv
<1>2. ExInv /\ [ExNext]_exVars => ExInv'
  BY ExNextInv
<1>3. ExInv => ExHostOrderly
  BY ExKept
<1> QED
  BY <1>1, <1>2, <1>3, PTL DEF ExSpec

-----------------------------------------------------------------------------
(***************************************************************************)
(* CronJobs: the invariant.                                                *)
(***************************************************************************)
CrSpec == CrInit /\ [][CrNext]_crVars

CrJob     == [on : BOOLEAN, next : Int, last : Int, done : Nat]
CrRecords == [CrJobs -> CrJob \cup {NoCron}]
CrTypes ==
  /\ crNow \in Nat /\ crFile \in CrRecords /\ crUp \in BOOLEAN
  /\ crTick \in [pc : {"resting", "running"}, jobs : CrRecords, todo : SUBSET CrJobs,
                 runs : CrJobs \cup {0}, forwarded : BOOLEAN, at : Int]
  /\ crManual \in [job : CrJobs \cup {0}, jobs : CrRecords]
  /\ crExecs \in [CrJobs -> [all : Nat, hand : Nat, begun : Int]]
  /\ crAgain \in [CrJobs -> Nat] /\ crTorn \in BOOLEAN /\ crLost \in BOOLEAN

\* Who runs, and since when.
CrHeld ==
  /\ crTick.pc = "running" => crTick.runs \in crTick.todo /\ \A j \in crTick.todo : crTick.jobs[j] # NoCron
  /\ crTick.pc = "resting" => crTick.runs = 0
  /\ crManual.job = 0 => crManual = NoManual
  /\ crManual.job # 0 => crManual.jobs[crManual.job] # NoCron
  /\ \A j \in CrJobs : crExecs[j].begun <= crNow /\ crExecs[j].hand <= crExecs[j].all

\* A record that the last run moved on.
Timely(j, job, begun) ==
  job.last # Never =>
    /\ job.last >= begun
    /\ CrKind[j] = "interval" /\ job.next # Never => job.next >= job.last + CrEvery[j]

\* A job has run as often as it repeats and a user wanted it after that, and is off then.
Limited(j, job, again) ==
  CrRepeat[j] # 0 =>
    /\ job.done <= CrRepeat[j] + again
    /\ job.on => job.done < CrRepeat[j] + again

\* The loop has run a job for one time once, after its time; it is then due no more.
ByLoopOnce(j) ==
  CrKind[j] = "once" =>
    /\ crExecs[j].all <= crExecs[j].hand + 1
    /\ crExecs[j].all # crExecs[j].hand => CrEvery[j] <= crNow
DueOnce(j, job, execs) ==
  CrKind[j] = "once" /\ job.next # Never => job.next = CrEvery[j] /\ execs.all = execs.hand

\* The copy of the loop against the file it was read from.
CrCopied(j) ==
  LET copy == crTick.jobs[j] IN
  /\ copy = NoCron <=> crFile[j] = NoCron
  /\ j \in crTick.todo =>
       copy # NoCron /\ copy.on /\ copy.done = crFile[j].done /\ copy.next # Never /\ copy.next <= crNow
  /\ crFile[j] # NoCron =>
       \/ copy.done = crFile[j].done /\ (j # crTick.runs => Timely(j, crFile[j], crExecs[j].begun))
       \/ copy.done = crFile[j].done + 1

CrLatest(j) == IF crTick.pc = "running" THEN crTick.jobs[j] ELSE crFile[j]
CrOwed(j)   == (IF crTick.runs = j THEN 1 ELSE 0) + (IF crManual.job = j THEN 1 ELSE 0)

\* While no two copies overlap and no record is lost: every execution is in the latest
\* copy, or in hand.
CrCounted(j) ==
  crFile[j] # NoCron =>
    /\ CrLatest(j).done + CrOwed(j) = crExecs[j].all
    /\ Limited(j, CrLatest(j), crAgain[j]) /\ ByLoopOnce(j)
    /\ j # crTick.runs => Timely(j, CrLatest(j), crExecs[j].begun) /\ DueOnce(j, CrLatest(j), crExecs[j])

CrMayRun(j, job, again) == CrRepeat[j] # 0 => job.done < CrRepeat[j] + again

CrTrue ==
  ~crTorn /\ ~crLost =>
    /\ crManual.job # 0 =>
         /\ crManual.jobs = crFile /\ crFile[crManual.job] # NoCron
         /\ CrMayRun(crManual.job, crFile[crManual.job], crAgain[crManual.job])
    /\ crTick.pc = "running" => \A j \in CrJobs : CrCopied(j)
    /\ \A j \in CrJobs : CrCounted(j)

CrInv == CrTypes /\ CrHeld /\ CrTrue

LEMMA CrConstants ==
  /\ 0 \notin CrJobs
  /\ \A j \in CrJobs : CrEvery[j] \in Nat /\ CrEvery[j] >= 1 /\ CrRepeat[j] \in Nat
BY CrAssumption

LEMMA CrNoneInHand ==
  ASSUME NEW a \in Nat, NEW b \in Nat, NEW r \in {0, 1}, NEW m \in {0, 1}, a >= b, a - b + r + m = 0
  PROVE  a = b /\ r = 0
OBVIOUS

\* What the invariant says is what the property asks.
LEMMA CrInvKept == CrInv => CronKept
<1> SUFFICES ASSUME CrInv, ~crTorn, ~crLost, NEW j \in CrJobs, crFile[j] # NoCron
             PROVE  /\ crFile[j].done + InHand(j) = crExecs[j].all
                    /\ CrKind[j] = "once" => crExecs[j].all <= crExecs[j].hand + 1
                    /\ (CrRepeat[j] # 0 /\ (crTick.pc = "resting" \/ crManual.job = 0))
                         => crExecs[j].all <= CrRepeat[j] + crAgain[j]
                    /\ (CrKind[j] = "interval" /\ crFile[j].next # Never /\ crFile[j].last # Never /\ InHand(j) = 0)
                         => crFile[j].next >= crExecs[j].begun + CrEvery[j]
  BY DEF CronKept, Known
<1>1. /\ crFile[j] \in CrJob /\ crTick.jobs[j] \in CrJob \cup {NoCron} /\ crExecs[j].all \in Nat
      /\ crExecs[j].begun \in Int /\ crTick.pc \in {"resting", "running"} /\ crAgain[j] \in Nat
  BY CrConstants DEF CrInv, CrTypes, CrRecords, CrHeld
<1>2. /\ crFile[j].done \in Nat /\ crFile[j].last \in Int /\ crFile[j].next \in Int /\ crFile[j].on \in BOOLEAN
      /\ j # 0 /\ CrEvery[j] \in Nat /\ CrRepeat[j] \in Nat /\ NoCron.done = -1
  BY <1>1, CrConstants DEF CrJob, NoCron, Never
<1>3. /\ CrCounted(j) /\ (crTick.pc = "running" => CrCopied(j)) /\ (crTick.pc = "resting" => crTick.runs = 0)
      /\ crManual.job = j => CrMayRun(j, crFile[j], crAgain[j])
  BY <1>2 DEF CrInv, CrTrue, CrHeld
<1>9. CrKind[j] = "once" => crExecs[j].all <= crExecs[j].hand + 1
  BY <1>3 DEF CrCounted, ByLoopOnce
<1>4. CASE crTick.pc = "resting"
  <2>1. /\ InHand(j) = IF crManual.job = j THEN 1 ELSE 0
        /\ CrOwed(j) = IF crManual.job = j THEN 1 ELSE 0
        /\ CrLatest(j) = crFile[j] /\ j # crTick.runs
    BY <1>2, <1>3, <1>4 DEF InHand, CrOwed, CrLatest
  <2>2. crFile[j].done + InHand(j) = crExecs[j].all
    BY <1>3, <2>1 DEF CrCounted
  <2>3. Limited(j, crFile[j], crAgain[j]) /\ Timely(j, crFile[j], crExecs[j].begun)
    BY <1>3, <2>1 DEF CrCounted
  <2>4. CrRepeat[j] # 0 => crExecs[j].all <= CrRepeat[j] + crAgain[j]
    BY <1>1, <1>2, <1>3, <2>1, <2>2, <2>3 DEF Limited, CrMayRun
  <2> QED
    BY <1>1, <1>2, <1>9, <2>2, <2>3, <2>4 DEF Timely
<1>5. CASE crTick.pc = "running"
  <2> DEFINE c == crTick.jobs[j]
             m == IF crManual.job = j THEN 1 ELSE 0
             r == IF crTick.runs = j THEN 1 ELSE 0
  <2>1. c # NoCron /\ c \in CrJob /\ c.done \in Nat /\ c.on \in BOOLEAN
    BY <1>1, <1>3, <1>5 DEF CrCopied, CrJob
  <2>2. InHand(j) = c.done - crFile[j].done + r + m /\ CrOwed(j) = r + m /\ CrLatest(j) = c
    BY <1>2, <1>5, <2>1 DEF InHand, CrOwed, CrLatest
  <2>3. c.done + r + m = crExecs[j].all
    BY <1>3, <2>1, <2>2 DEF CrCounted
  <2>4. crFile[j].done + InHand(j) = crExecs[j].all
    BY <1>2, <2>1, <2>2, <2>3
  <2>5. crTick.runs = j => c.on
    BY <1>3, <1>5 DEF CrCopied, CrInv, CrHeld
  <2>6. Limited(j, c, crAgain[j])
    BY <1>3, <2>2 DEF CrCounted
  <2>7. ASSUME InHand(j) = 0, crFile[j].last # Never, crFile[j].next # Never, CrKind[j] = "interval"
        PROVE  crFile[j].next >= crExecs[j].begun + CrEvery[j]
    <3>1. c.done >= crFile[j].done /\ r \in {0, 1} /\ m \in {0, 1}
      BY <1>2, <1>3, <1>5, <2>1 DEF CrCopied
    <3>4. crFile[j].done \in Nat /\ c.done \in Nat /\ InHand(j) = 0 /\ InHand(j) = c.done - crFile[j].done + r + m
      BY <1>2, <2>1, <2>2, <2>7
    <3> HIDE DEF r, m, c
    <3>2. c.done = crFile[j].done /\ r = 0
      BY <3>1, <3>4, CrNoneInHand
    <3>3. Timely(j, crFile[j], crExecs[j].begun)
      BY <1>2, <1>3, <1>5, <2>7, <3>2 DEF CrCopied, r, c
    <3> QED
      BY <1>1, <1>2, <2>7, <3>3 DEF Timely
  <2>8. CrRepeat[j] # 0 /\ crManual.job = 0 => crExecs[j].all <= CrRepeat[j] + crAgain[j]
    BY <1>1, <1>2, <2>1, <2>3, <2>5, <2>6 DEF Limited
  <2> QED
    BY <1>5, <1>9, <2>4, <2>7, <2>8
<1> QED
  BY <1>1, <1>4, <1>5

LEMMA CrAlone ==
  ASSUME CrTypes
  PROVE  /\ \A who \in {"request", "exit"} : Others(who) = {} => crTick.pc = "resting" /\ crManual.job = 0
         /\ Others("tick") = {} => crManual.job = 0
         /\ Others("manual") = {} => crTick.pc = "resting"
<1>1. crTick.pc \in {"resting", "running"}
  BY DEF CrTypes
<1> QED
  BY <1>1 DEF Others

LEMMA CrNextRun ==
  ASSUME NEW j \in CrJobs, NEW job \in CrJob, NEW base \in Nat
  PROVE  /\ NextRun(j, job, base) \in Int
         /\ CrKind[j] = "once" => NextRun(j, job, base) = IF CrEvery[j] > base THEN CrEvery[j] ELSE Never
         /\ CrKind[j] = "interval" => NextRun(j, job, base) = CrEvery[j] + (IF job.last = Never THEN base ELSE job.last)
<1>1. CrEvery[j] \in Nat /\ CrEvery[j] >= 1 /\ job.last \in Int /\ Never \in Int
  BY CrConstants DEF CrJob, Never
<1>2. base \div CrEvery[j] \in Int
  BY <1>1
<1>3. CrEvery[j] * (1 + base \div CrEvery[j]) \in Int
  BY <1>1, <1>2
<1>4. CrKind[j] \in {"once", "interval", "cron"}
  BY CrAssumption
<1> QED
  BY <1>1, <1>3, <1>4 DEF NextRun

\* A run moves the record on, whatever it was.
LEMMA CrMarks ==
  ASSUME CrTypes, NEW j \in CrJobs, NEW job \in CrJob, crExecs[j].begun <= crNow
  PROVE  /\ Marked(j, job) \in CrJob /\ Marked(j, job).done = job.done + 1
         /\ Marked(j, job).last = crNow /\ Timely(j, Marked(j, job), crExecs[j].begun)
         /\ CrMayRun(j, job, crAgain[j]) => Limited(j, Marked(j, job), crAgain[j])
         /\ CrKind[j] = "once" => Marked(j, job).next = Never
<1> DEFINE ran == [job EXCEPT !.last = crNow, !.done = @ + 1]
           off == CrKind[j] = "once" \/ Exhausted(j, ran)
           new == Marked(j, job)
<1>1. /\ crNow \in Nat /\ crNow # Never /\ Never \in Int /\ crExecs[j].begun \in Int
      /\ CrEvery[j] \in Nat /\ CrRepeat[j] \in Nat /\ job.done \in Nat /\ job.on \in BOOLEAN
  BY CrConstants DEF CrTypes, CrJob, Never
<1>2. ran \in CrJob /\ ran.last = crNow /\ ran.done = job.done + 1 /\ ran.on = job.on
  <2>1. ran = [on |-> job.on, next |-> job.next, last |-> crNow, done |-> job.done + 1] /\ job.next \in Int
    <3>1. job = [on |-> job.on, next |-> job.next, last |-> job.last, done |-> job.done] /\ job.next \in Int
      BY DEF CrJob
    <3>2. [job EXCEPT !.last = crNow] = [on |-> job.on, next |-> job.next, last |-> crNow, done |-> job.done]
      BY <3>1
    <3>3. ran = [[job EXCEPT !.last = crNow] EXCEPT !.done = job.done + 1]
      BY <3>1
    <3>4. [[on |-> job.on, next |-> job.next, last |-> crNow, done |-> job.done] EXCEPT !.done = job.done + 1]
            = [on |-> job.on, next |-> job.next, last |-> crNow, done |-> job.done + 1]
      OBVIOUS
    <3> HIDE DEF ran
    <3> QED
      BY ONLY <3>1, <3>2, <3>3, <3>4
  <2>2. job.done + 1 \in Nat /\ crNow \in Int
    BY <1>1
  <2> QED
    BY <1>1, <2>1, <2>2 DEF CrJob
<1>3. new = IF off THEN [ran EXCEPT !.on = FALSE, !.next = Never] ELSE [ran EXCEPT !.next = NextRun(j, ran, crNow)]
  BY DEF Marked
<1>4. /\ NextRun(j, ran, crNow) \in Int
      /\ CrKind[j] = "interval" => NextRun(j, ran, crNow) = CrEvery[j] + crNow
  BY <1>1, <1>2, CrNextRun
<1>5. off <=> (CrKind[j] = "once" \/ (CrRepeat[j] # 0 /\ job.done + 1 >= CrRepeat[j]))
  BY <1>2 DEF Exhausted
<1> HIDE DEF ran, off, new
<1>6. /\ new \in CrJob /\ new.done = job.done + 1 /\ new.last = crNow /\ (off => ~new.on /\ new.next = Never)
      /\ ~off => new.next = NextRun(j, ran, crNow)
  BY <1>1, <1>2, <1>3, <1>4 DEF CrJob
<1>7. Timely(j, new, crExecs[j].begun)
  BY <1>1, <1>4, <1>6 DEF Timely
<1>8. CrMayRun(j, job, crAgain[j]) => Limited(j, new, crAgain[j])
  <2>1. crAgain[j] \in Nat
    BY DEF CrTypes
  <2> QED
    BY <1>1, <1>5, <1>6, <2>1 DEF Limited, CrMayRun
<1> QED
  BY <1>5, <1>6, <1>7, <1>8 DEF new

\* A next run computed anew keeps its distance, and a job for one time that ran has none.
LEMMA CrMoved ==
  ASSUME CrTypes, NEW j \in CrJobs, NEW f \in CrJob, NEW new \in CrJob, new.last = f.last,
         new.next = NextRun(j, f, crNow)
  PROVE  /\ Timely(j, f, crExecs[j].begun) => Timely(j, new, crExecs[j].begun)
         /\ ByLoopOnce(j) => DueOnce(j, new, crExecs[j])
<1>1. /\ crNow \in Nat /\ f.last \in Int /\ CrEvery[j] \in Nat /\ crExecs[j].begun \in Int
      /\ crExecs[j].all \in Nat /\ crExecs[j].hand \in Nat
  BY CrConstants DEF CrTypes, CrJob
<1>2. /\ CrKind[j] = "once" => new.next = IF CrEvery[j] > crNow THEN CrEvery[j] ELSE Never
      /\ CrKind[j] = "interval" => new.next = CrEvery[j] + (IF f.last = Never THEN crNow ELSE f.last)
  BY <1>1, CrNextRun
<1> QED
  BY <1>1, <1>2 DEF Timely, DueOnce, ByLoopOnce

LEMMA CrInitInv == CrInit => CrInv
<1> SUFFICES ASSUME CrInit PROVE CrInv
  OBVIOUS
<1>4. [j \in CrJobs |-> NoCron] \in CrRecords
  BY DEF CrRecords
<1>5. crTick = [pc |-> "resting", jobs |-> [j \in CrJobs |-> NoCron], todo |-> {}, runs |-> 0,
                forwarded |-> FALSE, at |-> -1]
  BY DEF CrInit, Resting, Never
<1>6. crExecs \in [CrJobs -> [all : Nat, hand : Nat, begun : Int]] /\ crAgain \in [CrJobs -> Nat]
  BY DEF CrInit, Never
<1>7. crManual \in [job : CrJobs \cup {0}, jobs : CrRecords]
  BY <1>4 DEF CrInit, NoManual
<1>8. crTick \in [pc : {"resting", "running"}, jobs : CrRecords, todo : SUBSET CrJobs,
                 runs : CrJobs \cup {0}, forwarded : BOOLEAN, at : Int]
  BY <1>4, <1>5
<1>1. CrTypes
  BY <1>4, <1>6, <1>7, <1>8 DEF CrInit, CrTypes
<1>2. CrHeld
  BY DEF CrInit, CrHeld, Resting, NoManual, Never
<1>3. CrTrue
  BY DEF CrInit, CrTrue, CrCounted, Resting, NoManual
<1> QED
  BY <1>1, <1>2, <1>3 DEF CrInv

\* Nothing happens to the jobs.
LEMMA CrStays ==
  ASSUME CrInv, UNCHANGED <<crFile, crTick, crManual, crExecs, crAgain, crTorn, crLost>>,
         crNow' \in Nat, crNow' >= crNow, crUp' \in BOOLEAN
  PROVE  CrInv'
<1>1. CrTypes' /\ CrHeld'
  BY DEF CrInv, CrTypes, CrHeld
<1>2. CrTrue'
  <2>1. crNow \in Nat /\ CrRecords = [CrJobs -> CrJob \cup {NoCron}]
    BY DEF CrInv, CrTypes, CrRecords
  <2>2. ASSUME NEW j \in CrJobs, CrCounted(j) PROVE CrCounted(j)'
    BY <2>1, <2>2, CrConstants DEF CrCounted, CrLatest, CrOwed, Timely, Limited, ByLoopOnce, DueOnce
  <2>3. ASSUME NEW j \in CrJobs, crTick.pc = "running", CrCopied(j) PROVE CrCopied(j)'
    <3>1. crTick.jobs[j] # NoCron => crTick.jobs[j].next \in Int
      BY DEF CrInv, CrTypes, CrRecords, CrJob
    <3> QED
      BY <2>1, <2>3, <3>1 DEF CrCopied, Timely
  <2> QED
    BY <2>2, <2>3 DEF CrInv, CrTrue, CrMayRun
<1> QED
  BY <1>1, <1>2 DEF CrInv

\* A request that saves while nobody holds a copy, or tears the history.
LEMMA CrPutInv ==
  ASSUME CrInv, NEW j \in CrJobs, NEW new \in CrJob \cup {NoCron}, CrPut(j, new),
         crAgain' \in [CrJobs -> Nat], \A k \in CrJobs \ {j} : crAgain'[k] = crAgain[k],
         ~crTorn /\ ~crLost /\ new # NoCron /\ crTick.pc = "resting" /\ crManual.job = 0 =>
           /\ new.done = crExecs[j].all /\ Limited(j, new, crAgain'[j]) /\ ByLoopOnce(j)
           /\ Timely(j, new, crExecs[j].begun) /\ DueOnce(j, new, crExecs[j])
  PROVE  CrInv'
<1>1. /\ crFile' = [crFile EXCEPT ![j] = new] /\ crTorn' = (crTorn \/ Others("request") # {})
      /\ UNCHANGED <<crNow, crTick, crManual, crUp, crExecs, crLost>>
  BY DEF CrPut, CrSave
<1>2. CrTypes' /\ CrHeld'
  <2>1. crFile' \in CrRecords
    BY <1>1 DEF CrInv, CrTypes, CrRecords
  <2> QED
    BY <1>1, <2>1 DEF CrInv, CrTypes, CrHeld
<1>3. CrTrue'
  <2> SUFFICES ASSUME ~crTorn', ~crLost' PROVE CrTrue'
    BY DEF CrTrue
  <2>1. crTick.pc = "resting" /\ crManual.job = 0 /\ ~crTorn /\ ~crLost /\ crTick.runs = 0
    BY <1>1, CrAlone DEF CrInv, CrHeld
  <2>2. ASSUME NEW k \in CrJobs PROVE CrCounted(k)'
    <3>1. CrCounted(k) /\ CrOwed(k)' = 0 /\ CrOwed(k) = 0 /\ CrLatest(k)' = crFile'[k] /\ CrLatest(k) = crFile[k]
      BY <1>1, <2>1, CrConstants DEF CrInv, CrTrue, CrOwed, CrLatest
    <3>2. CASE k = j
      <4>1. crFile'[k] = new
        BY <1>1, <3>2 DEF CrInv, CrTypes, CrRecords
      <4>2. new # NoCron => new.done \in Nat /\ new.done = crExecs[k].all
        BY <2>1, <3>2 DEF CrJob
      <4> QED
        BY <1>1, <2>1, <3>1, <3>2, <4>1, <4>2 DEF CrCounted, Limited, Timely, ByLoopOnce, DueOnce
    <3>3. CASE k # j
      <4>1. crFile'[k] = crFile[k] /\ crAgain'[k] = crAgain[k]
        BY <1>1, <3>3 DEF CrInv, CrTypes, CrRecords
      <4> QED
        BY <1>1, <3>1, <4>1 DEF CrCounted, Limited, Timely, ByLoopOnce, DueOnce
    <3> QED
      BY <3>2, <3>3
  <2> QED
    BY <1>1, <2>1, <2>2 DEF CrTrue
<1> QED
  BY <1>2, <1>3 DEF CrInv

\* What a user wants beyond the repeats is allowed to run.
LEMMA CrWanted ==
  ASSUME CrTypes, NEW j \in CrJobs, crFile[j] # NoCron, RunsAgain(j)
  PROVE  /\ crAgain' \in [CrJobs -> Nat] /\ \A k \in CrJobs \ {j} : crAgain'[k] = crAgain[k]
         /\ crAgain'[j] >= crAgain[j]
         /\ (CrRepeat[j] # 0 => crFile[j].done <= CrRepeat[j] + crAgain[j])
              => CrMayRun(j, crFile[j], crAgain'[j])
<1>1. crAgain[j] \in Nat /\ crFile[j].done \in Nat /\ CrRepeat[j] \in Nat
  BY CrConstants DEF CrTypes, CrRecords, CrJob
<1>2. /\ crAgain' \in [CrJobs -> Nat] /\ \A k \in CrJobs \ {j} : crAgain'[k] = crAgain[k]
      /\ crAgain'[j] = crAgain[j] + IF Exhausted(j, crFile[j]) THEN 1 ELSE 0
  BY <1>1 DEF CrTypes, RunsAgain
<1> QED
  BY <1>1, <1>2 DEF Exhausted, CrMayRun

\* Pause, resume, schedule and enable keep the count of the record.
LEMMA CrEditInv ==
  ASSUME CrInv, NEW j \in CrJobs, crFile[j] # NoCron, CrPause(j) \/ CrResume(j) \/ CrReschedule(j) \/ CrEnable(j)
  PROVE  CrInv'
<1> DEFINE f == crFile[j]
           free == ~crTorn /\ ~crLost /\ crTick.pc = "resting" /\ crManual.job = 0
<1>1. f \in CrJob /\ crAgain \in [CrJobs -> Nat] /\ crNow \in Nat /\ CrTypes
  BY DEF CrInv, CrTypes, CrRecords
<1>2. free => /\ f.done = crExecs[j].all /\ Limited(j, f, crAgain[j]) /\ ByLoopOnce(j)
              /\ Timely(j, f, crExecs[j].begun) /\ DueOnce(j, f, crExecs[j])
  <2>1. free => CrCounted(j) /\ CrOwed(j) = 0 /\ CrLatest(j) = f /\ crTick.runs = 0 /\ f.done \in Nat
    BY <1>1, CrConstants DEF CrInv, CrTrue, CrHeld, CrOwed, CrLatest, CrJob
  <2> QED
    BY <2>1, CrConstants DEF CrCounted
<1>3. NextRun(j, f, crNow) \in Int
  BY <1>1, CrNextRun
<1> HIDE DEF f, free
<1>4. CASE CrPause(j)
  <2> DEFINE new == [f EXCEPT !.on = FALSE]
  <2>1. CrPut(j, new) /\ crAgain' = crAgain
    BY <1>4 DEF CrPause, f
  <2>2. new \in CrJob /\ new.done = f.done /\ new.last = f.last /\ new.next = f.next /\ ~new.on
    BY <1>1 DEF CrJob
  <2> HIDE DEF new
  <2>3. free => /\ new.done = crExecs[j].all /\ Limited(j, new, crAgain'[j]) /\ ByLoopOnce(j)
                /\ Timely(j, new, crExecs[j].begun) /\ DueOnce(j, new, crExecs[j])
    BY <1>2, <2>1, <2>2 DEF Limited, Timely, DueOnce
  <2> QED
    BY <1>1, <2>1, <2>2, <2>3, CrPutInv DEF free
<1>5. CASE CrResume(j)
  <2> DEFINE new == [f EXCEPT !.on = TRUE, !.next = NextRun(j, f, crNow)]
  <2>1. CrPut(j, new) /\ RunsAgain(j)
    BY <1>5 DEF CrResume, f
  <2>2. new \in CrJob /\ new.done = f.done /\ new.last = f.last /\ new.next = NextRun(j, f, crNow)
    BY <1>1, <1>3 DEF CrJob
  <2> HIDE DEF new
  <2>3. free => /\ new.done = crExecs[j].all /\ Limited(j, new, crAgain'[j]) /\ ByLoopOnce(j)
                /\ Timely(j, new, crExecs[j].begun) /\ DueOnce(j, new, crExecs[j])
    <3>1. free => CrMayRun(j, f, crAgain'[j]) /\ crAgain'[j] \in Nat
      BY <1>1, <1>2, <2>1, CrWanted DEF f, Limited
    <3>2. f.done \in Nat /\ CrRepeat[j] \in Nat
      BY <1>1, CrConstants DEF CrJob
    <3> QED
      BY <1>1, <1>2, <2>2, <3>1, <3>2, CrMoved DEF CrMayRun, Limited
  <2> QED
    BY <1>1, <2>1, <2>2, <2>3, CrPutInv, CrWanted DEF free
<1>6. CASE CrReschedule(j)
  <2> DEFINE new == [f EXCEPT !.next = NextRun(j, f, crNow)]
  <2>1. CrPut(j, new) /\ crAgain' = crAgain
    BY <1>6 DEF CrReschedule, f
  <2>2. new \in CrJob /\ new.done = f.done /\ new.last = f.last /\ new.on = f.on /\ new.next = NextRun(j, f, crNow)
    BY <1>1, <1>3 DEF CrJob
  <2> HIDE DEF new
  <2>3. free => /\ new.done = crExecs[j].all /\ Limited(j, new, crAgain'[j]) /\ ByLoopOnce(j)
                /\ Timely(j, new, crExecs[j].begun) /\ DueOnce(j, new, crExecs[j])
    BY <1>1, <1>2, <2>1, <2>2, CrMoved DEF Limited
  <2> QED
    BY <1>1, <2>1, <2>2, <2>3, CrPutInv DEF free
<1>7. CASE CrEnable(j)
  <2> DEFINE new == [f EXCEPT !.on = TRUE]
  <2>1. CrPut(j, new) /\ RunsAgain(j)
    BY <1>7 DEF CrEnable, f
  <2>2. new \in CrJob /\ new.done = f.done /\ new.last = f.last /\ new.next = f.next
    BY <1>1 DEF CrJob
  <2> HIDE DEF new
  <2>3. free => /\ new.done = crExecs[j].all /\ Limited(j, new, crAgain'[j]) /\ ByLoopOnce(j)
                /\ Timely(j, new, crExecs[j].begun) /\ DueOnce(j, new, crExecs[j])
    <3>1. free => CrMayRun(j, f, crAgain'[j]) /\ crAgain'[j] \in Nat
      BY <1>1, <1>2, <2>1, CrWanted DEF f, Limited
    <3>2. f.done \in Nat /\ CrRepeat[j] \in Nat
      BY <1>1, CrConstants DEF CrJob
    <3> QED
      BY <1>2, <2>2, <3>1, <3>2 DEF CrMayRun, Limited, Timely, DueOnce
  <2> QED
    BY <1>1, <2>1, <2>2, <2>3, CrPutInv, CrWanted DEF free
<1> QED
  BY <1>4, <1>5, <1>6, <1>7

\* A new job has run no time; one that goes is not counted.
LEMMA CrMakesInv ==
  ASSUME CrInv, NEW j \in CrJobs, CrCreate(j) \/ CrRemove(j)
  PROVE  CrInv'
<1>1. crAgain \in [CrJobs -> Nat] /\ crNow \in Nat
  BY DEF CrInv, CrTypes
<1>2. CASE CrCreate(j)
  <2> DEFINE job == [on |-> TRUE, next |-> Never, last |-> Never, done |-> 0]
  <2>1. CrPut(j, New(j)) /\ crAgain' = crAgain /\ crExecs[j].all = 0 /\ crExecs[j].hand = 0
    BY <1>2 DEF CrCreate, CrInv, CrHeld, CrTypes
  <2>2. job \in CrJob /\ CrEvery[j] \in Nat /\ CrRepeat[j] \in Nat /\ crAgain[j] \in Nat
    BY <1>1, CrConstants DEF CrJob, Never
  <2>3. NextRun(j, job, crNow) \in Int
    BY <1>1, <2>2, CrNextRun
  <2>4. New(j) = IF CrKind[j] = "once" THEN [job EXCEPT !.next = CrEvery[j], !.on = CrEvery[j] >= crNow]
                 ELSE [job EXCEPT !.next = NextRun(j, job, crNow)]
    BY DEF New
  <2>5. /\ New(j) \in CrJob /\ New(j).done = 0 /\ New(j).last = Never
        /\ CrKind[j] = "once" => New(j).next = CrEvery[j]
    <3>1. CASE CrKind[j] = "once"
      <4>1. New(j) = [on |-> (CrEvery[j] >= crNow), next |-> CrEvery[j], last |-> Never, done |-> 0]
        BY <2>4, <3>1
      <4> QED
        BY <1>1, <2>2, <4>1 DEF CrJob, Never
    <3>2. CASE CrKind[j] # "once"
      <4>1. New(j) = [on |-> TRUE, next |-> NextRun(j, job, crNow), last |-> Never, done |-> 0]
        BY <2>4, <3>2
      <4> HIDE DEF job
      <4> QED
        BY <2>3, <3>2, <4>1 DEF CrJob, Never
    <3> QED
      BY <3>1, <3>2
  <2>6. /\ Limited(j, New(j), crAgain'[j]) /\ Timely(j, New(j), crExecs[j].begun) /\ ByLoopOnce(j)
        /\ DueOnce(j, New(j), crExecs[j])
    BY <2>1, <2>2, <2>5 DEF Limited, Timely, ByLoopOnce, DueOnce
  <2> HIDE DEF job
  <2> QED
    BY <1>1, <2>1, <2>5, <2>6, CrPutInv
<1>3. CASE CrRemove(j)
  BY <1>1, <1>3, CrPutInv DEF CrRemove
<1> QED
  BY <1>2, <1>3

\* A run by hand takes its copy.
LEMMA CrRunNowInv ==
  ASSUME CrInv, NEW j \in CrJobs, CrRunNow(j)
  PROVE  CrInv'
<1>1. /\ crManual = NoManual /\ crFile[j] # NoCron /\ crManual' = [job |-> j, jobs |-> crFile]
      /\ RunsAgain(j)
      /\ crExecs' = [crExecs EXCEPT ![j] = [all |-> @.all + 1, hand |-> @.hand + 1, begun |-> @.begun]]
      /\ UNCHANGED <<crNow, crFile, crTick, crUp, crTorn, crLost>>
  BY DEF CrRunNow, Known, Starts
<1>2. /\ crExecs \in [CrJobs -> [all : Nat, hand : Nat, begun : Int]] /\ crFile \in CrRecords /\ j # 0
      /\ crManual.job = 0 /\ CrTypes /\ crAgain \in [CrJobs -> Nat]
  BY <1>1, CrConstants DEF CrInv, CrTypes, NoManual
<1>3. /\ crExecs'[j].all = crExecs[j].all + 1 /\ crExecs'[j].hand = crExecs[j].hand + 1
      /\ crExecs' \in [CrJobs -> [all : Nat, hand : Nat, begun : Int]]
      /\ \A k \in CrJobs : crExecs'[k].begun = crExecs[k].begun /\ (k # j => crExecs'[k] = crExecs[k])
  BY <1>1, <1>2
<1>6. /\ crAgain' \in [CrJobs -> Nat] /\ \A k \in CrJobs : crAgain'[k] >= crAgain[k]
      /\ (CrRepeat[j] # 0 => crFile[j].done <= CrRepeat[j] + crAgain[j])
           => CrMayRun(j, crFile[j], crAgain'[j])
  BY <1>1, <1>2, CrWanted
<1>4. CrTypes' /\ CrHeld'
  <2>1. crManual' \in [job : CrJobs \cup {0}, jobs : CrRecords] /\ crManual'.job = j /\ crManual'.jobs = crFile
    BY <1>1, <1>2
  <2>2. \A k \in CrJobs : crExecs'[k].begun <= crNow /\ crExecs'[k].hand <= crExecs'[k].all
    BY <1>2, <1>3 DEF CrInv, CrHeld
  <2> QED
    BY <1>1, <1>2, <1>3, <1>6, <2>1, <2>2 DEF CrInv, CrTypes, CrHeld
<1>5. CrTrue'
  <2> SUFFICES ASSUME ~crTorn, ~crLost PROVE CrTrue'
    BY <1>1 DEF CrTrue
  <2>1. ASSUME NEW k \in CrJobs PROVE CrCounted(k)'
    <3>1. /\ CrCounted(k) /\ CrLatest(k)' = CrLatest(k)
          /\ CrOwed(k)' = CrOwed(k) + (IF k = j THEN 1 ELSE 0) /\ CrOwed(k) \in Nat
      BY <1>1, <1>2, CrConstants DEF CrInv, CrTrue, CrLatest, CrOwed
    <3>2. (CrLatest(k) # NoCron => CrLatest(k).done \in Nat) /\ (crFile[k] # NoCron => CrLatest(k) # NoCron)
      <4>1. crTick.pc = "running" => CrCopied(k)
        BY DEF CrInv, CrTrue
      <4> QED
        BY <4>1 DEF CrInv, CrTypes, CrRecords, CrJob, CrLatest, CrCopied
    <3>3. crFile[k] # NoCron => CrLatest(k)'.done + CrOwed(k)' = crExecs'[k].all
      BY <1>2, <1>3, <3>1, <3>2 DEF CrCounted
    <3>4. crFile[k] # NoCron => Limited(k, CrLatest(k)', crAgain'[k])
      BY <1>2, <1>6, <3>1, <3>2, CrConstants DEF CrCounted, Limited
    <3>5. crFile[k] # NoCron =>
            /\ ByLoopOnce(k)'
            /\ k # crTick.runs => Timely(k, CrLatest(k)', crExecs'[k].begun) /\ DueOnce(k, CrLatest(k)', crExecs'[k])
      <4>1. CASE k = j
        BY <1>1, <1>2, <1>3, <3>1, <4>1 DEF CrCounted, ByLoopOnce, DueOnce
      <4>2. CASE k # j
        BY <1>1, <1>3, <3>1, <4>2 DEF CrCounted, ByLoopOnce, DueOnce
      <4> QED
        BY <4>1, <4>2
    <3> QED
      BY <1>1, <3>3, <3>4, <3>5 DEF CrCounted, Limited, Timely
  <2>2. ASSUME crTick.pc = "running", NEW k \in CrJobs PROVE CrCopied(k)'
    <3>1. CrCopied(k)
      BY <2>2 DEF CrInv, CrTrue
    <3> QED
      BY <1>1, <1>2, <1>3, <3>1 DEF CrCopied, Timely
  <2>3. crManual'.jobs = crFile' /\ crManual'.job = j
    BY <1>1
  <2>4. CrRepeat[j] # 0 => crFile[j].done <= CrRepeat[j] + crAgain[j]
    <3>1. CrCounted(j) /\ (crTick.pc = "running" => CrCopied(j))
      BY DEF CrInv, CrTrue
    <3>2. CrLatest(j).done >= crFile[j].done /\ CrLatest(j).done \in Nat /\ crFile[j].done \in Nat
      BY <1>1, <1>2, <3>1 DEF CrLatest, CrCopied, CrTypes, CrRecords, CrJob
    <3> QED
      BY <1>1, <1>2, <3>1, <3>2, CrConstants DEF CrCounted, Limited
  <2> QED
    BY <1>1, <1>6, <2>1, <2>2, <2>3, <2>4 DEF CrTrue, CrMayRun
<1> QED
  BY <1>4, <1>5 DEF CrInv

\* It ends and saves its copy, which is the file unless another copy was saved.
LEMMA CrRunEndsInv == ASSUME CrInv, CrRunEnds PROVE CrInv'
<1> DEFINE j == crManual.job
           new == Marked(j, crManual.jobs[j])
<1>1. /\ crManual # NoManual /\ crManual' = NoManual /\ crFile' = [crManual.jobs EXCEPT ![j] = new]
      /\ crTorn' = (crTorn \/ Others("manual") # {})
      /\ UNCHANGED <<crNow, crTick, crUp, crExecs, crAgain, crLost>>
  BY DEF CrRunEnds, CrSave
<1>2. j \in CrJobs /\ j # 0 /\ crManual.jobs \in CrRecords /\ crExecs[j].begun <= crNow /\ CrTypes
  BY <1>1 DEF CrInv, CrTypes, CrHeld
<1>3. CrHeld' /\ crManual'.job = 0
  BY <1>1 DEF CrInv, CrHeld, NoManual
<1>4. /\ crManual.jobs[j] \in CrJob /\ new \in CrJob /\ new.done = crManual.jobs[j].done + 1
      /\ Timely(j, new, crExecs[j].begun) /\ (CrKind[j] = "once" => new.next = Never) /\ new # NoCron
      /\ CrMayRun(j, crManual.jobs[j], crAgain[j]) => Limited(j, new, crAgain[j])
  <2>1. crManual.jobs[j] \in CrJob
    BY <1>2 DEF CrInv, CrHeld, CrRecords
  <2>2. /\ new \in CrJob /\ new.done = crManual.jobs[j].done + 1
        /\ Timely(j, new, crExecs[j].begun) /\ (CrKind[j] = "once" => new.next = Never)
        /\ CrMayRun(j, crManual.jobs[j], crAgain[j]) => Limited(j, new, crAgain[j])
    BY <1>2, <2>1, CrMarks
  <2> HIDE DEF new
  <2> QED
    BY <2>1, <2>2 DEF CrJob, NoCron
<1> HIDE DEF new
<1>5. crFile' \in CrRecords
  BY <1>1, <1>2, <1>4 DEF CrRecords
<1>6. CrTypes'
  <2>1. crManual' \in [job : CrJobs \cup {0}, jobs : CrRecords]
    BY <1>1 DEF NoManual, CrRecords
  <2> QED
    BY <1>1, <1>2, <1>5, <2>1 DEF CrTypes
<1>7. CrTrue'
  <2> SUFFICES ASSUME ~crTorn', ~crLost PROVE CrTrue'
    BY <1>1 DEF CrTrue
  <2>1. /\ ~crTorn /\ crTick.pc = "resting" /\ crTick.runs = 0 /\ crManual.jobs = crFile
        /\ CrMayRun(j, crManual.jobs[j], crAgain[j])
    BY <1>1, <1>2, CrAlone DEF CrInv, CrHeld, CrTrue
  <2>2. ASSUME NEW k \in CrJobs PROVE CrCounted(k)'
    <3>1. /\ CrCounted(k) /\ CrLatest(k) = crFile[k] /\ CrLatest(k)' = crFile'[k] /\ CrOwed(k)' = 0
          /\ CrOwed(k) = IF k = j THEN 1 ELSE 0
      BY <1>1, <1>2, <1>3, <2>1, CrConstants DEF CrInv, CrTrue, CrLatest, CrOwed
    <3>2. crFile'[k] = IF k = j THEN new ELSE crFile[k]
      BY <1>1, <1>2, <2>1 DEF CrRecords
    <3>3. CASE k = j
      <4>1. crFile[k] # NoCron /\ crFile[k].done \in Nat /\ new.done = crFile[k].done + 1
        BY <1>4, <2>1, <3>3 DEF CrJob, NoCron
      <4>2. crFile[k].done + 1 = crExecs[k].all
        BY <3>1, <3>3, <4>1 DEF CrCounted
      <4>3. new.done + 0 = crExecs'[k].all
        BY <1>1, <1>2, <3>3, <4>1, <4>2
      <4>4. ByLoopOnce(k)' /\ DueOnce(k, new, crExecs'[k]) /\ Timely(k, new, crExecs'[k].begun) /\ Limited(k, new, crAgain'[k])
        BY <1>1, <1>4, <2>1, <3>1, <3>3, <4>1 DEF CrCounted, ByLoopOnce, DueOnce
      <4> QED
        BY <1>4, <3>1, <3>2, <3>3, <4>3, <4>4 DEF CrCounted, DueOnce
    <3>4. CASE k # j
      <4>1. crFile[k] # NoCron => crFile[k].done \in Nat
        BY <1>2, <2>1 DEF CrRecords, CrJob
      <4> QED
        BY <1>1, <2>1, <3>1, <3>2, <3>4, <4>1 DEF CrCounted, ByLoopOnce, DueOnce
    <3> QED
      BY <3>3, <3>4
  <2> QED
    BY <1>1, <1>3, <2>1, <2>2 DEF CrTrue
<1> QED
  BY <1>3, <1>6, <1>7 DEF CrInv

\* The end of the process: what is in hand is lost.
LEMMA CrExitInv == ASSUME CrInv, CrExit PROVE CrInv'
<1>1. /\ crUp' = FALSE /\ crLost' = (crLost \/ Others("exit") # {})
      /\ crTick' = Resting(Never) /\ crManual' = NoManual
      /\ UNCHANGED <<crNow, crFile, crExecs, crAgain, crTorn>>
  BY DEF CrExit
<1>2. [j \in CrJobs |-> NoCron] \in CrRecords
  BY DEF CrRecords
<1>3. crTick' = [pc |-> "resting", jobs |-> [j \in CrJobs |-> NoCron], todo |-> {}, runs |-> 0,
                 forwarded |-> FALSE, at |-> -1] /\ crManual' = [job |-> 0, jobs |-> [j \in CrJobs |-> NoCron]]
  BY <1>1 DEF Resting, NoManual, Never
<1>4. /\ crTick' \in [pc : {"resting", "running"}, jobs : CrRecords, todo : SUBSET CrJobs,
                 runs : CrJobs \cup {0}, forwarded : BOOLEAN, at : Int]
      /\ crManual' \in [job : CrJobs \cup {0}, jobs : CrRecords]
  BY <1>2, <1>3
<1>7. crTick'.pc = "resting" /\ crTick'.runs = 0 /\ crManual'.job = 0
  BY <1>3
<1>5. CrTypes' /\ CrHeld'
  BY <1>1, <1>4, <1>7 DEF CrInv, CrTypes, CrHeld
<1>6. CrTrue'
  <2> SUFFICES ASSUME ~crTorn, ~crLost' PROVE CrTrue'
    BY <1>1 DEF CrTrue
  <2>1. crTick.pc = "resting" /\ crTick.runs = 0 /\ crManual.job = 0 /\ ~crLost
    BY <1>1, CrAlone DEF CrInv, CrHeld
  <2>2. ASSUME NEW k \in CrJobs PROVE CrCounted(k)'
    BY <1>1, <1>3, <2>1 DEF CrInv, CrTrue, CrCounted, CrLatest, CrOwed, ByLoopOnce, DueOnce
  <2> QED
    BY <1>3, <2>2 DEF CrTrue
<1> QED
  BY <1>5, <1>6 DEF CrInv

\* The loop reads the file, moves on what is overdue and begins what is due.
LEMMA CrTicksInv == ASSUME CrInv, CrTicks PROVE CrInv'
<1> DEFINE late == {j \in DueOf(crFile) : Overdue(j, crFile[j])}
           due  == DueOf(crFile) \ late
           copy == [j \in CrJobs |-> IF j \in late
                                     THEN [crFile[j] EXCEPT !.next = NextRun(j, crFile[j], crNow)]
                                     ELSE crFile[j]]
<1>1. PICK first \in due :
        /\ crTick' = [pc |-> "running", at |-> crTick.at, forwarded |-> late # {}, jobs |-> copy,
                      todo |-> due, runs |-> first]
        /\ crExecs' = [crExecs EXCEPT ![first] = [all |-> @.all + 1, hand |-> @.hand, begun |-> crNow]]
  BY DEF CrTicks, Starts
<1>2. crTick.pc = "resting" /\ UNCHANGED <<crNow, crFile, crManual, crUp, crAgain, crTorn, crLost>>
  BY DEF CrTicks
<1>3. /\ crFile \in CrRecords /\ crNow \in Nat /\ crTick.at \in Int /\ crTick.runs = 0
      /\ crExecs \in [CrJobs -> [all : Nat, hand : Nat, begun : Int]]
  BY <1>2 DEF CrInv, CrTypes, CrHeld
<1>4. /\ late \subseteq CrJobs /\ due \subseteq CrJobs /\ late \cap due = {} /\ first \in CrJobs /\ first # 0
      /\ \A j \in late \cup due : crFile[j] # NoCron /\ crFile[j] \in CrJob /\ crFile[j].on /\ crFile[j].next # Never
      /\ \A j \in due : crFile[j].next <= crNow
      /\ \A j \in late : CrKind[j] # "once"
  BY <1>3, CrConstants DEF DueOf, Known, CrRecords, Overdue
<1> HIDE DEF late, due
<1>5. ASSUME NEW j \in CrJobs
      PROVE  /\ j \notin late => copy[j] = crFile[j]
             /\ j \in late => /\ copy[j] \in CrJob /\ copy[j] # NoCron /\ copy[j].on = crFile[j].on
                              /\ copy[j].done = crFile[j].done /\ copy[j].last = crFile[j].last
                              /\ copy[j].next = NextRun(j, crFile[j], crNow)
  <2>1. CASE j \in late
    <3>1. NextRun(j, crFile[j], crNow) \in Int
      BY <1>3, <1>4, <2>1, CrNextRun
    <3>2. copy[j] = [crFile[j] EXCEPT !.next = NextRun(j, crFile[j], crNow)]
      BY <2>1
    <3> HIDE DEF copy
    <3>3. /\ copy[j] \in CrJob /\ copy[j].on = crFile[j].on
          /\ copy[j].done = crFile[j].done /\ copy[j].last = crFile[j].last
          /\ copy[j].next = NextRun(j, crFile[j], crNow)
      BY <1>4, <2>1, <3>1, <3>2 DEF CrJob
    <3> QED
      BY <2>1, <3>3 DEF CrJob, NoCron
  <2>2. CASE j \notin late
    BY <2>2
  <2> QED
    BY <2>1, <2>2
<1>6. copy \in CrRecords
  <2>1. ASSUME NEW j \in CrJobs PROVE copy[j] \in CrJob \cup {NoCron}
    BY <1>3, <1>5 DEF CrRecords
  <2> QED
    BY <2>1 DEF CrRecords
<1>7. /\ crExecs' \in [CrJobs -> [all : Nat, hand : Nat, begun : Int]] /\ crExecs'[first].all = crExecs[first].all + 1
      /\ crExecs'[first].begun = crNow /\ crExecs'[first].hand = crExecs[first].hand
      /\ \A k \in CrJobs : k # first => crExecs'[k] = crExecs[k]
  BY <1>1, <1>3, <1>4
<1> HIDE DEF copy
<1>8. /\ crTick'.pc = "running" /\ crTick'.jobs = copy /\ crTick'.todo = due /\ crTick'.runs = first
      /\ crTick' \in [pc : {"resting", "running"}, jobs : CrRecords, todo : SUBSET CrJobs,
                 runs : CrJobs \cup {0}, forwarded : BOOLEAN, at : Int]
  BY <1>1, <1>3, <1>4, <1>6
<1>9. CrTypes' /\ CrHeld'
  <2>1. \A j \in due : copy[j] # NoCron
    BY <1>4, <1>5
  <2>2. \A j \in CrJobs : crExecs'[j].begun <= crNow /\ crExecs'[j].hand <= crExecs'[j].all
    BY <1>3, <1>4, <1>7 DEF CrInv, CrHeld
  <2> QED
    BY <1>1, <1>2, <1>7, <1>8, <2>1, <2>2 DEF CrInv, CrTypes, CrHeld
<1>10. CrTrue'
  <2> SUFFICES ASSUME ~crTorn, ~crLost PROVE CrTrue'
    BY <1>2 DEF CrTrue
  <2>1. ASSUME NEW k \in CrJobs PROVE CrCounted(k)' /\ CrCopied(k)'
    <3>1. /\ CrCounted(k) /\ CrLatest(k) = crFile[k] /\ CrLatest(k)' = copy[k]
          /\ CrOwed(k) = IF crManual.job = k THEN 1 ELSE 0
          /\ CrOwed(k)' = (IF first = k THEN 1 ELSE 0) + (IF crManual.job = k THEN 1 ELSE 0)
      BY <1>2, <1>3, <1>8, CrConstants DEF CrInv, CrTrue, CrLatest, CrOwed
    <3>2. /\ crFile[k] = NoCron <=> copy[k] = NoCron
          /\ crFile[k] # NoCron =>
               /\ copy[k].done = crFile[k].done /\ copy[k].last = crFile[k].last /\ copy[k].on = crFile[k].on
               /\ crFile[k].done \in Nat /\ crFile[k].last \in Int /\ crFile[k].next \in Int /\ crFile[k].on \in BOOLEAN
      BY <1>3, <1>4, <1>5 DEF CrRecords, CrJob
    <3>3. crFile[k] # NoCron => /\ Limited(k, crFile[k], crAgain[k]) /\ Timely(k, crFile[k], crExecs[k].begun)
                                /\ ByLoopOnce(k) /\ DueOnce(k, crFile[k], crExecs[k])
      BY <1>3, <3>1, CrConstants DEF CrCounted
    <3>4. crFile[k] # NoCron => Limited(k, copy[k], crAgain[k])
      BY <3>2, <3>3 DEF Limited
    <3>5. ASSUME crFile[k] # NoCron, k # first
          PROVE  Timely(k, copy[k], crExecs'[k].begun) /\ Timely(k, crFile[k], crExecs'[k].begun)
      <4>1. Timely(k, crFile[k], crExecs'[k].begun)
        BY <1>2, <1>7, <3>3, <3>5 DEF Timely
      <4>2. CASE k \in late
        BY <1>2, <1>4, <1>5, <1>7, <3>3, <3>5, <4>1, <4>2, CrMoved DEF CrInv
      <4>3. CASE k \notin late
        BY <1>2, <1>5, <4>1, <4>3 DEF Timely
      <4> QED
        BY <4>1, <4>2, <4>3
    <3>6. CrCopied(k)'
      BY <1>2, <1>4, <1>5, <1>8, <3>2, <3>5 DEF CrCopied
    <3>8. crFile[k] # NoCron => ByLoopOnce(k)' /\ (k # first => DueOnce(k, copy[k], crExecs'[k]))
      <4>1. CASE k = first
        <5>1. crFile[k].next # Never /\ crFile[k].next <= crNow
          BY <1>4, <4>1
        <5> QED
          BY <1>2, <1>3, <1>7, <3>3, <4>1, <5>1 DEF ByLoopOnce, DueOnce
      <4>2. CASE k # first
        <5>1. CrKind[k] = "once" => copy[k] = crFile[k]
          BY <1>4, <1>5
        <5> QED
          BY <1>2, <1>7, <3>3, <4>2, <5>1 DEF ByLoopOnce, DueOnce
      <4> QED
        BY <4>1, <4>2
    <3>7. crFile[k] # NoCron => copy[k].done + CrOwed(k)' = crExecs'[k].all
      <4>1. crFile[k] # NoCron => crFile[k].done + CrOwed(k) = crExecs[k].all
        BY <3>1 DEF CrCounted
      <4> QED
        BY <1>3, <1>7, <3>1, <3>2, <4>1
    <3> QED
      BY <1>2, <1>8, <3>1, <3>4, <3>5, <3>6, <3>7, <3>8 DEF CrCounted, DueOnce
  <2> QED
    BY <1>2, <2>1 DEF CrTrue, CrInv
<1> QED
  BY <1>9, <1>10 DEF CrInv

\* A job of the loop ends: the next one begins, or the copy is saved.
LEMMA CrTickGoesOnInv == ASSUME CrInv, CrTickGoesOn PROVE CrInv'
<1> DEFINE j == crTick.runs
           new == Marked(j, crTick.jobs[j])
           jobs == [crTick.jobs EXCEPT ![j] = new]
           rest == crTick.todo \ {j}
<1>1. /\ crTick.pc = "running" /\ UNCHANGED <<crNow, crManual, crUp, crAgain>>
      /\ \/ \E next \in rest :
              /\ crExecs' = [crExecs EXCEPT ![next] = [all |-> @.all + 1, hand |-> @.hand, begun |-> crNow]]
              /\ crTick' = [crTick EXCEPT !.jobs = jobs, !.todo = rest, !.runs = next]
              /\ UNCHANGED <<crFile, crTorn, crLost>>
         \/ /\ crTick' = Resting(crNow) /\ crExecs' = crExecs
            /\ \/ crFile' = jobs /\ crTorn' = (crTorn \/ Others("tick") # {}) /\ crLost' = crLost
               \/ crLost' = TRUE /\ UNCHANGED <<crFile, crTorn>>
  BY DEF CrTickGoesOn, Starts, CrSave
<1>2. /\ CrTypes /\ j \in crTick.todo /\ j \in CrJobs /\ j # 0 /\ crTick.jobs \in CrRecords
      /\ crTick.jobs[j] \in CrJob /\ crExecs[j].begun <= crNow
      /\ rest \subseteq CrJobs /\ j \notin rest /\ crExecs \in [CrJobs -> [all : Nat, hand : Nat, begun : Int]]
      /\ crFile \in CrRecords /\ crNow \in Nat
  BY <1>1, CrConstants DEF CrInv, CrTypes, CrHeld, CrRecords
<1>3. /\ new \in CrJob /\ new.done = crTick.jobs[j].done + 1 /\ Timely(j, new, crExecs[j].begun)
      /\ CrMayRun(j, crTick.jobs[j], crAgain[j]) => Limited(j, new, crAgain[j])
      /\ CrKind[j] = "once" => new.next = Never
  BY <1>2, CrMarks
<1> HIDE DEF new
<1>4. new # NoCron /\ crTick.jobs[j] # NoCron /\ crTick.jobs[j].done \in Nat
  BY <1>2, <1>3 DEF CrJob, NoCron
<1>5. jobs \in CrRecords /\ \A k \in CrJobs : jobs[k] = IF k = j THEN new ELSE crTick.jobs[k]
  BY <1>2, <1>3 DEF CrRecords
<1>6. ASSUME ~crTorn, ~crLost
      PROVE  /\ \A k \in CrJobs : CrCounted(k) /\ CrCopied(k) /\ CrLatest(k) = crTick.jobs[k]
             /\ crTick.jobs[j].on /\ crFile[j] # NoCron
  BY <1>1, <1>2, <1>4, <1>6 DEF CrInv, CrTrue, CrLatest, CrCopied
\* The record of j is counted and j is no longer in hand.
<1>7. ASSUME ~crTorn, ~crLost PROVE Limited(j, new, crAgain[j]) /\ ByLoopOnce(j) /\ DueOnce(j, new, crExecs[j])
  BY <1>2, <1>3, <1>4, <1>6, <1>7 DEF CrCounted, Limited, CrMayRun, DueOnce
<1>8. ASSUME ~crTorn, ~crLost PROVE new.done + (IF crManual.job = j THEN 1 ELSE 0) = crExecs[j].all
  <2>1. crTick.jobs[j].done + (1 + (IF crManual.job = j THEN 1 ELSE 0)) = crExecs[j].all
    BY <1>2, <1>6, <1>8 DEF CrCounted, CrOwed
  <2> QED
    BY <1>3, <1>4, <2>1
<1> HIDE DEF rest, jobs
<1>9. ASSUME NEW next \in rest, crExecs' = [crExecs EXCEPT ![next] = [all |-> @.all + 1, hand |-> @.hand, begun |-> crNow]],
             crTick' = [crTick EXCEPT !.jobs = jobs, !.todo = rest, !.runs = next],
             UNCHANGED <<crFile, crTorn, crLost>>
      PROVE  CrInv'
  <2>1. /\ crExecs' \in [CrJobs -> [all : Nat, hand : Nat, begun : Int]] /\ crExecs'[next].all = crExecs[next].all + 1
        /\ crExecs'[next].begun = crNow /\ crExecs'[next].hand = crExecs[next].hand
        /\ \A k \in CrJobs : k # next => crExecs'[k] = crExecs[k]
        /\ next \in CrJobs /\ next # j /\ next # 0
    BY <1>2, <1>9, CrConstants DEF rest
  <2>2. /\ crTick'.pc = "running" /\ crTick'.jobs = jobs /\ crTick'.todo = rest /\ crTick'.runs = next
        /\ crTick' \in [pc : {"resting", "running"}, jobs : CrRecords, todo : SUBSET CrJobs,
                 runs : CrJobs \cup {0}, forwarded : BOOLEAN, at : Int]
    <3>1. crTick \in [pc : {"resting", "running"}, jobs : CrRecords, todo : SUBSET CrJobs,
                 runs : CrJobs \cup {0}, forwarded : BOOLEAN, at : Int] /\ rest \in SUBSET CrJobs
      BY <1>2 DEF CrTypes
    <3> QED
      BY <1>1, <1>5, <1>9, <2>1, <3>1
  <2>3. CrTypes' /\ CrHeld'
    <3>1. \A k \in rest : jobs[k] # NoCron
      BY <1>1, <1>2, <1>5 DEF rest, CrInv, CrHeld
    <3>2. \A k \in CrJobs : crExecs'[k].begun <= crNow /\ crExecs'[k].hand <= crExecs'[k].all
      BY <1>2, <2>1 DEF CrInv, CrHeld
    <3> QED
      BY <1>1, <1>9, <2>1, <2>2, <3>1, <3>2, ZenonT(90) DEF CrInv, CrTypes, CrHeld
  <2>4. CrTrue'
    <3> SUFFICES ASSUME ~crTorn, ~crLost PROVE CrTrue'
      BY <1>9 DEF CrTrue
    <3>1. ASSUME NEW k \in CrJobs PROVE CrCopied(k)'
      <4>1. CrCopied(k)
        BY <1>6
      <4>2. CASE k = j
        <5>1. CrCopied(j) /\ crFile[j] # NoCron /\ crTick.jobs[j].done = crFile[j].done
          BY <1>2, <1>6 DEF CrCopied
        <5> QED
          BY <1>2, <1>3, <1>4, <1>5, <1>9, <2>2, <4>2, <5>1 DEF CrCopied
      <4>3. CASE k # j
        <5>1. /\ crFile'[k] = crFile[k] /\ jobs[k] = crTick.jobs[k] /\ crNow' = crNow
              /\ k \in rest => k \in crTick.todo
              /\ k # next => crExecs'[k] = crExecs[k]
          BY <1>1, <1>5, <1>9, <2>1, <4>3 DEF rest
        <5> QED
          BY <1>1, <2>2, <4>1, <4>3, <5>1 DEF CrCopied
      <4> QED
        BY <4>2, <4>3
    <3>2. ASSUME NEW k \in CrJobs PROVE CrCounted(k)'
      <4>1. /\ CrCounted(k) /\ CrLatest(k) = crTick.jobs[k] /\ CrLatest(k)' = jobs[k] /\ crFile[k] = crFile'[k]
            /\ CrOwed(k) = (IF j = k THEN 1 ELSE 0) + (IF crManual.job = k THEN 1 ELSE 0)
            /\ CrOwed(k)' = (IF next = k THEN 1 ELSE 0) + (IF crManual.job = k THEN 1 ELSE 0)
        BY <1>1, <1>6, <1>9, <2>2 DEF CrLatest, CrOwed
      <4>2. CASE k = j
        <5>1. CrLatest(k)' = new /\ crExecs'[k] = crExecs[k] /\ k # crTick'.runs /\ crAgain' = crAgain
          BY <1>1, <1>2, <1>5, <2>1, <2>2, <4>1, <4>2
        <5>2. CrOwed(k)' = IF crManual.job = j THEN 1 ELSE 0
          BY <2>1, <4>1, <4>2
        <5>3. new.done + CrOwed(k)' = crExecs'[k].all
          BY <1>8, <4>2, <5>1, <5>2
        <5>4. ByLoopOnce(k)' /\ DueOnce(k, CrLatest(k)', crExecs'[k])
          BY <1>1, <1>7, <4>2, <5>1 DEF ByLoopOnce, DueOnce
        <5> QED
          BY <1>3, <1>7, <4>2, <5>1, <5>3, <5>4 DEF CrCounted
      <4>3. CASE k # j
        <5>1. crFile[k] # NoCron => crTick.jobs[k].done \in Nat
          BY <1>2, <1>6, <4>1 DEF CrCopied, CrRecords, CrJob
        <5>2. jobs[k] = crTick.jobs[k]
          BY <1>5, <4>3
        <5>3. crFile[k] # NoCron => jobs[k].done + CrOwed(k)' = crExecs'[k].all
          BY <1>2, <2>1, <4>1, <4>3, <5>1, <5>2 DEF CrCounted
        <5>4. crFile[k] # NoCron =>
                /\ Limited(k, CrLatest(k), crAgain[k]) /\ Timely(k, CrLatest(k), crExecs[k].begun)
                /\ ByLoopOnce(k) /\ DueOnce(k, CrLatest(k), crExecs[k])
          BY <4>1, <4>3 DEF CrCounted
        <5>5. crFile[k] # NoCron => ByLoopOnce(k)' /\ (k # next => DueOnce(k, CrLatest(k)', crExecs'[k]))
          <6>1. CASE k = next
            <7>1. CrLatest(k).next # Never /\ CrLatest(k).next <= crNow
              BY <1>6, <2>1, <4>1, <6>1 DEF rest, CrCopied
            <7>2. /\ crNow' = crNow /\ crExecs[k].all \in Nat /\ crExecs[k].hand \in Nat
                  /\ crExecs'[k].all = crExecs[k].all + 1 /\ crExecs'[k].hand = crExecs[k].hand
              BY <1>1, <1>2, <2>1, <6>1
            <7> QED
              BY <5>4, <6>1, <7>1, <7>2 DEF ByLoopOnce, DueOnce
          <6>2. CASE k # next
            BY <1>1, <2>1, <4>1, <5>2, <5>4, <6>2 DEF ByLoopOnce, DueOnce
          <6> QED
            BY <6>1, <6>2
        <5>6. /\ CrLatest(k)' = CrLatest(k) /\ crTick'.runs = next /\ crAgain' = crAgain /\ crFile'[k] = crFile[k]
              /\ k # next => crExecs'[k].begun = crExecs[k].begun
          BY <1>1, <2>1, <2>2, <4>1, <5>2
        <5> HIDE DEF j
        <5> QED
          BY <4>1, <5>3, <5>4, <5>5, <5>6 DEF CrCounted
      <4> QED
        BY <4>2, <4>3
    <3> QED
      BY <1>1, <1>9, <3>1, <3>2 DEF CrTrue, CrInv
  <2> QED
    BY <2>3, <2>4 DEF CrInv
<1>10. ASSUME crTick' = Resting(crNow), crExecs' = crExecs,
              \/ crFile' = jobs /\ crTorn' = (crTorn \/ Others("tick") # {}) /\ crLost' = crLost
              \/ crLost' = TRUE /\ UNCHANGED <<crFile, crTorn>>
       PROVE  CrInv'
  <2>1. /\ crTick'.pc = "resting" /\ crTick'.runs = 0
        /\ crTick' \in [pc : {"resting", "running"}, jobs : CrRecords, todo : SUBSET CrJobs,
                 runs : CrJobs \cup {0}, forwarded : BOOLEAN, at : Int]
    <3>1. [k \in CrJobs |-> NoCron] \in CrRecords
      BY DEF CrRecords
    <3> QED
      BY <1>2, <1>10, <3>1 DEF Resting
  <2>2. CrTypes' /\ CrHeld'
    BY <1>1, <1>2, <1>5, <1>10, <2>1 DEF CrInv, CrTypes, CrHeld
  <2>3. CrTrue'
    <3> SUFFICES ASSUME ~crTorn', ~crLost' PROVE CrTrue'
      BY DEF CrTrue
    <3>3. crFile' = jobs /\ crTorn' = (crTorn \/ Others("tick") # {}) /\ crLost' = crLost
      BY <1>10
    <3>4. ~crTorn /\ ~crLost /\ Others("tick") = {}
      BY <3>3
    <3>1. crFile' = jobs /\ ~crTorn /\ ~crLost /\ crManual.job = 0
      BY <1>2, <3>3, <3>4, CrAlone
    <3>2. ASSUME NEW k \in CrJobs PROVE CrCounted(k)'
      <4>1. /\ CrCounted(k) /\ CrCopied(k) /\ CrLatest(k) = crTick.jobs[k] /\ CrLatest(k)' = jobs[k]
            /\ CrOwed(k) = (IF j = k THEN 1 ELSE 0) /\ CrOwed(k)' = 0
        <5>1. crManual.job # k /\ crManual'.job # k /\ crTick'.runs # k
          BY <1>1, <2>1, <3>1, CrConstants
        <5>2. CrLatest(k)' = crFile'[k]
          BY <2>1 DEF CrLatest
        <5> QED
          BY <1>6, <2>1, <3>1, <5>1, <5>2 DEF CrOwed
      <4>2. CASE k = j
        BY <1>1, <1>2, <1>3, <1>4, <1>5, <1>7, <1>8, <1>10, <3>1, <4>1, <4>2 DEF CrCounted, ByLoopOnce, DueOnce
      <4>3. CASE k # j
        <5>1. jobs[k] = crTick.jobs[k] /\ crFile'[k] = jobs[k] /\ (jobs[k] = NoCron <=> crFile[k] = NoCron)
          BY <1>5, <3>1, <4>1, <4>3 DEF CrCopied
        <5> QED
          BY <1>1, <1>10, <4>1, <4>3, <5>1 DEF CrCounted, ByLoopOnce, DueOnce
      <4> QED
        BY <4>2, <4>3
    <3> QED
      BY <1>1, <2>1, <3>1, <3>2 DEF CrTrue
  <2> QED
    BY <2>2, <2>3 DEF CrInv
<1> QED
  BY <1>1, <1>9, <1>10 DEF jobs, rest

\* The jobs of jobs.py and scheduler.py: as long as no two copies overlap and no record is
\* lost, every execution is counted, and whatever users ask for, the loop runs a job for one
\* time once, an interval is kept, and a job runs as often as it repeats and was wanted again.
THEOREM CronSafe == CrSpec => []CronKept
<1>1. CrInv /\ [CrNext]_crVars => CrInv'
  <2> SUFFICES ASSUME CrInv, [CrNext]_crVars PROVE CrInv'
    OBVIOUS
  <2>1. CASE UNCHANGED crVars
    BY <2>1, CrStays DEF crVars, crPast, CrInv, CrTypes
  <2>2. CASE CrPass \/ CrRestart
    <3>1. /\ UNCHANGED <<crFile, crTick, crManual, crExecs, crAgain, crTorn, crLost>>
          /\ crNow' \in Nat /\ crNow' >= crNow /\ crUp' \in BOOLEAN
      <4>1. crNow \in Nat /\ crUp \in BOOLEAN
        BY DEF CrInv, CrTypes
      <4>2. CASE CrPass
        BY <4>1, <4>2 DEF CrPass, crPast
      <4>3. CASE CrRestart
        BY <4>1, <4>3 DEF CrRestart, crPast
      <4> QED
        BY <2>2, <4>2, <4>3
    <3> QED
      BY <3>1, CrStays
  <2>3. CASE \E j \in CrJobs : CrPause(j) \/ CrResume(j) \/ CrReschedule(j) \/ CrEnable(j)
    <3>1. PICK j \in CrJobs : CrPause(j) \/ CrResume(j) \/ CrReschedule(j) \/ CrEnable(j)
      BY <2>3
    <3>2. crFile[j] # NoCron
      BY <3>1 DEF CrPause, CrResume, CrReschedule, CrEnable
    <3> QED
      BY <3>1, <3>2, CrEditInv
  <2> QED
    BY <2>1, <2>2, <2>3, CrTicksInv, CrTickGoesOnInv, CrRunEndsInv, CrExitInv, CrRunNowInv, CrMakesInv DEF CrNext
<1> QED
  BY <1>1, CrInitInv, CrInvKept, PTL DEF CrSpec
=============================================================================
