------------------------------- MODULE MCTasks -------------------------------
(***************************************************************************)
(* The parts of the workflow system in one run: a Task on the serial plan  *)
(* and on the gateway of MCWorkflowTask, the agent node and the subprocess *)
(* node, the plan of a drawing, and the desk a Task is created and kept    *)
(* at.  A behaviour belongs to one of them and the state of the others     *)
(* stays as it is.                                                         *)
(*                                                                         *)
(* The constants of the configuration are those of the serial plan; the    *)
(* gateway has tighter bounds, and once a cancelled gateway has left a     *)
(* branch behind nobody resumes its task (TaskDeleted.cfg shows what comes *)
(* of that).                                                               *)
(***************************************************************************)
EXTENDS MCWorkflowTask, AgentNode, Subprocess, Drawings, TaskDesk

CONSTANT Parts \* of "serial", "gateway", "agent", "subprocess", "plan", "desk"

VARIABLE part

AsGateway == INSTANCE WorkflowTask
  WITH StageOf <- AllFirst, LastStage <- 1, Gateway <- {1}, Approval <- {}, AutoSkip <- {},
       MaxExits <- 1, MaxRequests <- 1

\* A workflow of an agent and a script, or of the agent alone.
DeskShapes == {{"agent", "script"}, {"agent"}}

AnyChoice == [k1 |-> "a1"]

\* Where a part may start in several ways the others fix one.
TasksInit ==
  /\ part \in Parts
  /\ Init /\ (part \notin {"serial", "gateway"} => disk = NewTask({}))
  /\ AnInit /\ (part # "agent" => ~anTakeover /\ anRetries = 0)
  /\ SpInit /\ DkInit
  /\ WpInit /\ (part # "plan" => wpDef = WpRead[<<"bypass", "node", FALSE, FALSE>>] /\ wpChoice = AnyChoice /\ wpTimes = 0 /\ wpOff = {})

\* A step of one part leaves the others as they are.
Step(parts, A) ==
  /\ part \in parts /\ A /\ UNCHANGED part
  /\ parts \cap {"serial", "gateway"} = {} => UNCHANGED vars
  /\ "agent" \notin parts => UNCHANGED anVars
  /\ "subprocess" \notin parts => UNCHANGED spVars
  /\ "plan" \notin parts => UNCHANGED wpVars
  /\ "desk" \notin parts => UNCHANGED dkVars

TasksNext ==
  \/ Step({"serial"}, Next)
  \/ Step({"gateway"}, AsGateway!Next /\ (AsGateway!Orphan => lock' # "handoff" /\ run' = run))
  \/ Step({"agent"}, AnNext) \/ Step({"subprocess"}, SpNext)
  \/ Step({"plan"}, WpNext) \/ Step({"desk"}, DkNext)

TasksVars == <<part, vars, anVars, spVars, wpVars, dkVars>>

TasksSpec == TasksInit /\ [][TasksNext]_TasksVars

TasksTypeOK == TypeOK /\ AnTypeOK /\ SpTypeOK /\ WpTypeOK /\ DkTypeOK
===============================================================================
