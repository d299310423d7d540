---------------------------- MODULE ExecutorPool -----------------------------
(***************************************************************************)
(* Workflow tasks in other processes: executor_pool.py, _supervisor.py,    *)
(* _worker.py, _server.py, _client.py, _lease.py, execution_routing.py and *)
(* the part of web_server.py that starts and stops them.                   *)
(*                                                                         *)
(* A Controller runs either inline (it executes tasks itself) or with a    *)
(* pool of members.  A member is a sequence of processes; each has an      *)
(* epoch, and a task file names the member and the epoch that may touch    *)
(* it.  Processes share only the task files, the lease files, the file     *)
(* that records the pool, and requests that may be lost or come late.      *)
(*                                                                         *)
(* What a runner does between two saves is reduced to one checkpoint       *)
(* counter; WorkflowTask has the details.                                  *)
(***************************************************************************)
EXTENDS Integers, FiniteSets

CONSTANTS
  Member, Task,
  Pools,        \* the values of executor_ids: sets of members
  Nobody,       \* executor_id is None
  Controller,   \* executor_id is "controller"
  NoRead,       \* no task file is between its load and its save
  MaxEpoch,     \* bound: epochs in use at a time (an epoch is a fresh uuid)
  MaxSteps,     \* bound: checkpoints of a task
  MaxSent,      \* bound: requests of users
  MaxDeaths,    \* bound: member processes killed
  MaxExits,     \* bound: exits of the Controller
  MaxLost,      \* bound: requests that time out
  MaxFaults     \* bound: the last four together

Epoch == 1..MaxEpoch
Pid   == 0..MaxEpoch   \* 0 is the Controller, with the epoch "inline"
NoPid == -1

ASSUME PoolAssumption ==
  /\ Pools \subseteq SUBSET Member /\ {} \notin Pools
  /\ Nobody \notin Member /\ Controller \notin Member /\ Nobody # Controller
  /\ MaxEpoch \in Nat /\ MaxSteps \in Nat

Status == {"pending", "running", "retry_waiting", "resume_pending",
           "failed", "completed", "stopped", "gone"}
Recoverable  == {"running", "retry_waiting", "resume_pending"}
Bug_RetryNotReassigned == {"running", "resume_pending", "pending", "failed"}
Reassignable == Recoverable \cup {"pending", "failed"}
Ended        == {"completed", "stopped", "gone"}

Image   == [st: Status, own: Member \cup {Nobody, Controller}, ep: Pid,
            done: 0..MaxSteps]
Request == [op: {"run", "retry", "stop"}, to: Epoch, task: Task]
           \cup [op: {"recover"}, to: Epoch, by: {"boot", "handoff"}]

VARIABLES
  file,       \* task files
  takeover,   \* tasks with main_takeover: never delegated
  recorded,   \* workflow-executor-pool.json
  lease,      \* who holds the lease file of a member
  phase, mode, pool,  \* the Controller
  status,     \* of each member's supervisor
  child,      \* the process a supervisor watches
  client,     \* the epoch its client presents
  stage,      \* where the hand-over of a restarted member is
  boot,       \* members the starting Controller has not asked to recover
  asked,      \* the member whose answer it waits for
  loop, left, \* the loop over the task files that runs, and its tasks to come
  read,       \* the task file the Controller has loaded and not yet saved
  proc, home, \* member processes: their state and their member
  runs,       \* runners, each with its Task object
  timers,     \* armed retry timers, as <<process, task>>
  todo,       \* tasks recover_owned_tasks has not come to, per process
  calls,      \* requests on their way
  script,     \* processes whose node scripts are still alive, per task
  unwatched,  \* history: processes that died with nobody to reap their tree
  sent, deaths, exits, lost  \* counters the bounds apply to

ctlVars   == <<phase, mode, pool, boot, asked, loop, left, read>>
superVars == <<status, child, client, stage>>
procVars  == <<proc, home, lease>>
runVars   == <<file, runs, script>>
counters  == <<sent, deaths, exits, lost>>
vars == <<file, takeover, recorded, ctlVars, superVars, procVars, runs, script,
          timers, todo, calls, unwatched, counters>>

AnyMember == CHOOSE m \in Member : TRUE   \* of a process that is not alive

Init ==
  /\ file = [t \in Task |-> [st |-> "pending", own |-> Nobody, ep |-> 0, done |-> 0]]
  /\ takeover \in SUBSET Task
  /\ recorded \in Pools
  /\ lease = [m \in Member |-> NoPid]
  /\ phase = "down" /\ mode = "inline" /\ pool = {}
  /\ status = [m \in Member |-> "stopped"]
  /\ child = [m \in Member |-> 0] /\ client = [m \in Member |-> 0]
  /\ stage = [m \in Member |-> "none"]
  /\ boot = {} /\ asked = Nobody /\ loop = Nobody /\ left = {} /\ read = NoRead
  /\ proc = [e \in Epoch |-> "dead"]
  /\ home = [e \in Epoch |-> AnyMember]
  /\ runs = [t \in Task |-> {}] /\ script = [t \in Task |-> {}]
  /\ timers = {} /\ todo = [p \in Pid |-> {}]
  /\ calls = {} /\ unwatched = {}
  /\ sent = 0 /\ deaths = 0 /\ exits = 0 /\ lost = 0

-----------------------------------------------------------------------------
(***************************************************************************)
(* A process that executes tasks: a member, or the Controller (pid 0).     *)
(***************************************************************************)
Running(p, t) == \E r \in runs[t] : r.pid = p

\* _task_ownership_error: the Controller has no identity and never refuses.
Mine(p, f) == p = 0 \/ (f.own = home[p] /\ f.ep = p)

WriteFile(t, f) == file' = [file EXCEPT ![t] = f]

\* run_task, once the task is loaded: save "running", create the runner.
Launch(p, t, f) ==
  /\ WriteFile(t, [f EXCEPT !.st = "running"])
  /\ runs' = [runs EXCEPT ![t] = @ \cup {[pid |-> p, img |-> [f EXCEPT !.st = "running"]]}]
  /\ script' = [script EXCEPT ![t] = @ \cup {p}]

\* Save "resume_pending", then run_task, which may refuse.
Resume(p, t) ==
  IF Mine(p, file[t]) /\ ~Running(p, t)
  THEN Launch(p, t, file[t])
  ELSE /\ WriteFile(t, [file[t] EXCEPT !.st = "resume_pending"])
       /\ UNCHANGED <<runs, script>>

\* The runners of p on the tasks ts end; they leave their files as f says.
EndRuns(p, ts) ==
  /\ runs' = [t \in Task |-> IF t \in ts THEN {r \in runs[t] : r.pid # p} ELSE runs[t]]
  /\ script' = [t \in Task |-> IF t \in ts THEN script[t] \ {p} ELSE script[t]]

Alive(p) == IF p = 0 THEN phase # "down" ELSE proc[p] \in {"serving", "closing"}

\* A node ends and the engine saves its Task object.
Checkpoint(p, t) ==
  /\ Alive(p)
  /\ \E r \in runs[t] :
       /\ r.pid = p /\ r.img.done < MaxSteps
       /\ LET img == [r.img EXCEPT !.done = @ + 1] IN
            /\ WriteFile(t, img)
            /\ runs' = [runs EXCEPT ![t] = (@ \ {r}) \cup {[r EXCEPT !.img = img]}]
  /\ UNCHANGED <<takeover, recorded, ctlVars, superVars, procVars, script, timers,
                 todo, calls, unwatched, counters>>

\* _persist_execution_result; a waiting retry arms its timer.
Finish(p, t, st) ==
  /\ Alive(p)
  /\ \E r \in runs[t] :
       /\ r.pid = p /\ (st = "completed" => r.img.done = MaxSteps)
       /\ WriteFile(t, [r.img EXCEPT !.st = st])
  /\ EndRuns(p, {t})
  /\ timers' = IF st = "retry_waiting" THEN timers \cup {<<p, t>>} ELSE timers \ {<<p, t>>}
  /\ UNCHANGED <<takeover, recorded, ctlVars, superVars, procVars, todo, calls,
                 unwatched, counters>>

TimerFires(p, t) ==
  /\ Alive(p) /\ <<p, t>> \in timers
  /\ timers' = timers \ {<<p, t>>}
  /\ IF ~Running(p, t) /\ file[t].st = "retry_waiting"
     THEN Resume(p, t) ELSE UNCHANGED runVars
  /\ UNCHANGED <<takeover, recorded, ctlVars, superVars, procVars, todo, calls,
                 unwatched, counters>>

Bug_OtherStatus(p) ==
  [t \in Task |-> IF Running(p, t)
                  THEN [(CHOOSE r \in runs[t] : r.pid = p).img EXCEPT !.st = "cancelled"]
                  ELSE file[t]]

\* A runner that is cancelled saves "stopped".
Cancelled(p) ==
  [t \in Task |-> IF Running(p, t)
                  THEN [(CHOOSE r \in runs[t] : r.pid = p).img EXCEPT !.st = "stopped"]
                  ELSE file[t]]

\* What run_task, retry_node and stop_task do where the task belongs.
Perform(p, op, t) ==
  \/ /\ op = "run"
     /\ LET f == [file[t] EXCEPT   \* _assign_controller
                    !.own = IF t \in takeover /\ @ = Nobody THEN Controller ELSE @] IN
          IF Mine(p, f) /\ ~Running(p, t) /\ f.st \in {"pending", "resume_pending"}
          THEN Launch(p, t, f)
          ELSE WriteFile(t, f) /\ UNCHANGED <<runs, script>>
     /\ UNCHANGED timers
  \/ /\ op = "retry"
     /\ IF Mine(p, file[t]) /\ ~Running(p, t)
             /\ file[t].st \in {"failed", "retry_waiting"}
        THEN Resume(p, t) /\ timers' = timers \ {<<p, t>>}
        ELSE UNCHANGED <<runVars, timers>>
  \/ /\ op = "stop"
     /\ IF ~Mine(p, file[t]) \/ (~Running(p, t) /\ file[t].st \notin Recoverable \cup {"pending"})
        THEN UNCHANGED <<runVars, timers>>
        ELSE /\ WriteFile(t, IF Running(p, t) THEN Cancelled(p)[t]
                             ELSE [file[t] EXCEPT !.st =
                                     IF @ = "pending" THEN "gone" ELSE "stopped"])
             /\ EndRuns(p, {t})
             /\ timers' = timers \ {<<p, t>>}

\* One task of recover_workflow_tasks; what its nodes allow decides between
\* scheduling a retry, failing and resuming.
RecoverTask(p, t) ==
  LET f == file[t]
      owned == \/ p # 0 /\ Mine(p, f)
               \/ p = 0 /\ (mode = "inline" \/ (f.own = Controller /\ f.ep = 0)) IN
  /\ Alive(p) /\ t \in todo[p]
  /\ todo' = [todo EXCEPT ![p] = @ \ {t}]
  /\ \/ /\ f.st \notin Recoverable \/ ~owned
        /\ UNCHANGED <<runVars, timers>>
     \/ /\ f.st \in Recoverable /\ owned
        /\ \/ Resume(p, t) /\ UNCHANGED timers
           \/ /\ f.st # "resume_pending"
              /\ WriteFile(t, [f EXCEPT !.st = "retry_waiting"])
              /\ timers' = timers \cup {<<p, t>>}
              /\ UNCHANGED <<runs, script>>
           \/ /\ f.st = "running"
              /\ WriteFile(t, [f EXCEPT !.st = "failed"])
              /\ UNCHANGED <<runs, script, timers>>
  /\ UNCHANGED <<takeover, recorded, ctlVars, superVars, procVars, calls,
                 unwatched, counters>>

-----------------------------------------------------------------------------
(***************************************************************************)
(* The Controller starts: web_server.lifespan, WorkflowExecutorPool.start. *)
(***************************************************************************)
MoreFaults == sent + deaths + exits + lost < MaxFaults

\* No loop over the task files runs on the event loop.
Free == loop = Nobody

Start ==
  /\ phase = "down"
  /\ pool' \in Pools /\ mode' \in {"inline", "process"}
  /\ phase' = "leasing"
  /\ UNCHANGED <<file, takeover, recorded, boot, asked, loop, left, read, superVars, procVars,
                 runs, script, timers, todo, calls, unwatched, counters>>

Bug_FenceConfigured == IF mode = "inline" THEN pool ELSE recorded \ pool

\* ExecutorLeaseGroup.for_inline, or the members a smaller pool retires.
Fence == IF mode = "inline" THEN recorded \cup pool ELSE recorded \ pool

AcquireFence(m) ==
  /\ phase = "leasing" /\ m \in Fence /\ lease[m] = NoPid
  /\ lease' = [lease EXCEPT ![m] = 0]
  /\ UNCHANGED <<file, takeover, recorded, ctlVars, superVars, proc, home, runs,
                 script, timers, todo, calls, unwatched, counters>>

Released == [m \in Member |-> IF lease[m] = 0 THEN NoPid ELSE lease[m]]

\* Nothing of the Controller survives but its files and its processes.
Gone ==
  /\ phase' = "down" /\ boot' = {} /\ asked' = Nobody
  /\ loop' = Nobody /\ left' = {} /\ read' = NoRead
  /\ lease' = Released
  /\ runs' = [t \in Task |-> {r \in runs[t] : r.pid # 0}]
  /\ timers' = {x \in timers : x[1] # 0}
  /\ todo' = [todo EXCEPT ![0] = {}]
  /\ status' = [m \in Member |-> "stopped"] /\ stage' = [m \in Member |-> "none"]
  /\ mode' = "inline" /\ pool' = {}
  /\ child' = [m \in Member |-> 0] /\ client' = [m \in Member |-> 0]
  /\ UNCHANGED <<takeover, recorded, proc, home>>

\* The lease is still held when the timeout ends: the start fails.
FenceTimesOut ==
  /\ phase = "leasing"
  /\ \E m \in Fence : lease[m] \notin {NoPid, 0}
  /\ Gone
  /\ UNCHANGED <<file, script, calls, unwatched, counters>>

Fenced ==
  /\ phase = "leasing" /\ \A m \in Fence : lease[m] = 0
  /\ IF mode = "inline"
     THEN phase' = "resuming" /\ todo' = [todo EXCEPT ![0] = Task]
     ELSE phase' = "spawning" /\ UNCHANGED todo
  /\ UNCHANGED <<file, takeover, recorded, mode, pool, boot, asked, loop, left, read, superVars,
                 procVars, runs, script, timers, calls, unwatched, counters>>

\* uuid4: no process, file or request knows the epoch yet.
Fresh == {e \in Epoch :
            /\ proc[e] = "dead"
            /\ \A t \in Task : file[t].ep # e /\ e \notin script[t]
            /\ \A m \in Member : child[m] # e /\ client[m] # e
            /\ \A c \in calls : c.to # e}

NewProcess(m) ==
  /\ \E e \in Fresh :
       /\ \A y \in Fresh : e <= y
       /\ proc' = [proc EXCEPT ![e] = "locking"]
       /\ home' = [home EXCEPT ![e] = m]
       /\ unwatched' = unwatched \ {e}
       /\ child' = [child EXCEPT ![m] = e]
  /\ UNCHANGED lease

Spawn(m) ==
  /\ phase = "spawning" /\ m \in pool /\ status[m] = "stopped"
  /\ \A k \in Member : status[k] # "starting"
  /\ status' = [status EXCEPT ![m] = "starting"]
  /\ NewProcess(m)
  /\ UNCHANGED <<file, takeover, recorded, ctlVars, client, stage, runs, script, timers,
                 todo, calls, counters>>

\* The ping is answered: the client presents the new epoch.  Until the pool
\* has started there is nothing to hand over.
Ready(m) ==
  /\ Free /\ stage[m] = "none"
  /\ status[m] \in {"starting", "restarting"} /\ proc[child[m]] = "serving"
  /\ client' = [client EXCEPT ![m] = child[m]]
  /\ IF status[m] = "restarting" /\ phase # "spawning"
     THEN stage' = [stage EXCEPT ![m] = "reassign"] /\ UNCHANGED status
     ELSE status' = [status EXCEPT ![m] = "ready"] /\ UNCHANGED stage
  /\ UNCHANGED <<file, takeover, recorded, ctlVars, child, procVars, runs, script,
                 timers, todo, calls, unwatched, counters>>

PoolStarted ==
  /\ phase = "spawning"
  /\ \A m \in pool : status[m] \notin {"stopped", "starting"}
  /\ recorded' = pool /\ phase' = "reconciling"
  /\ loop' = Controller /\ left' = Task
  /\ UNCHANGED <<file, takeover, mode, pool, boot, asked, read, superVars, procVars, runs,
                 script, timers, todo, calls, unwatched, counters>>

-----------------------------------------------------------------------------
(***************************************************************************)
(* Ownership of the task files: execution_routing.py.                      *)
(***************************************************************************)
BeginReassign(m) ==
  /\ Free /\ phase # "stopping" /\ stage[m] = "reassign" /\ status[m] = "restarting"
  /\ proc[child[m]] # "dead"
  /\ loop' = m /\ left' = Task
  /\ UNCHANGED <<file, takeover, recorded, phase, mode, pool, boot, asked, read, superVars,
                 procVars, runs, script, timers, todo, calls, unwatched, counters>>

ReadTask(t) ==
  /\ loop # Nobody /\ read = NoRead /\ t \in left
  /\ read' = [task |-> t, img |-> file[t]]
  /\ left' = left \ {t}
  /\ UNCHANGED <<file, takeover, recorded, phase, mode, pool, boot, asked, loop, superVars,
                 procVars, runs, script, timers, todo, calls, unwatched, counters>>

\* is_ready looks at the process too.
ReadyMembers == {m \in pool : status[m] = "ready" /\ proc[child[m]] # "dead"}

\* The owner and epoch the loop gives to a task file.
NewOwners(t, f) ==
  IF f.st \notin Reassignable THEN {}
  ELSE IF loop # Controller
  THEN IF f.own = loop /\ f.ep # client[loop] THEN {<<loop, client[loop]>>} ELSE {}
  ELSE IF t \in takeover \/ f.own = Controller
  THEN IF f.own = Nobody THEN {<<Controller, 0>>} ELSE {}
  ELSE IF f.own \in pool THEN {<<f.own, client[f.own]>>}
  ELSE {<<m, client[m]>> : m \in ReadyMembers}

\* select_client raises while every member is being restarted.
NoOwner == /\ loop = Controller /\ read # NoRead /\ ReadyMembers = {}
           /\ read.img.st \in Reassignable /\ read.task \notin takeover
           /\ read.img.own \notin pool \cup {Controller}

SaveTask ==
  /\ read # NoRead /\ ~NoOwner
  /\ LET t == read.task
         new == NewOwners(t, read.img) IN
       \/ new = {} /\ UNCHANGED file
       \/ \E o \in new : WriteFile(t, [read.img EXCEPT !.own = o[1], !.ep = o[2]])
  /\ read' = NoRead
  /\ UNCHANGED <<takeover, recorded, phase, mode, pool, boot, asked, loop, left, superVars,
                 procVars, runs, script, timers, todo, calls, unwatched, counters>>

EndLoop ==
  /\ loop # Nobody /\ left = {} /\ read = NoRead
  /\ loop' = Nobody
  /\ IF loop = Controller
     THEN /\ phase' = "recovering" /\ boot' = pool
          /\ UNCHANGED <<stage, calls>>
     ELSE /\ stage' = [stage EXCEPT ![loop] = "await"]
          /\ calls' = calls \cup {[op |-> "recover", to |-> client[loop], by |-> "handoff"]}
          /\ UNCHANGED <<phase, boot>>
  /\ UNCHANGED <<file, takeover, recorded, mode, pool, asked, left, read, status, child,
                 client, procVars, runs, script, timers, todo, unwatched, counters>>

-----------------------------------------------------------------------------
(***************************************************************************)
(* recover_owned_tasks, asked for by the starting Controller, member after *)
(* member, and by the hand-over of a restarted member.                     *)
(***************************************************************************)
Recovery(m, by) == [op |-> "recover", to |-> client[m], by |-> by]

\* The answer comes when every task file has been looked at.
Answered(m, by) == /\ Recovery(m, by) \notin calls
                   /\ proc[client[m]] = "serving" /\ todo[client[m]] = {}

AskBoot(m) ==
  /\ Free /\ phase = "recovering" /\ asked = Nobody /\ m \in boot
  /\ proc[client[m]] = "serving"
  /\ asked' = m /\ boot' = boot \ {m}
  /\ calls' = calls \cup {Recovery(m, "boot")}
  /\ UNCHANGED <<file, takeover, recorded, phase, mode, pool, loop, left, read, superVars,
                 procVars, runs, script, timers, todo, unwatched, counters>>

BootAnswered ==
  /\ Free /\ asked # Nobody /\ Answered(asked, "boot")
  /\ asked' = Nobody
  /\ UNCHANGED <<file, takeover, recorded, phase, mode, pool, boot, loop, left, read,
                 superVars, procVars, runs, script, timers, todo, calls, unwatched, counters>>

\* Every member has answered: the tasks of the Controller itself.
OwnTasks ==
  /\ Free /\ phase = "recovering" /\ boot = {} /\ asked = Nobody
  /\ phase' = "resuming" /\ todo' = [todo EXCEPT ![0] = Task]
  /\ UNCHANGED <<file, takeover, recorded, mode, pool, boot, asked, loop, left, read,
                 superVars, procVars, runs, script, timers, calls, unwatched, counters>>

Open ==
  /\ Free /\ phase = "resuming" /\ todo[0] = {}
  /\ phase' = "up"
  /\ UNCHANGED <<file, takeover, recorded, mode, pool, boot, asked, loop, left, read,
                 superVars, procVars, runs, script, timers, todo, calls, unwatched, counters>>

HandedOver(m) ==
  /\ Free /\ phase # "stopping" /\ stage[m] = "await" /\ Answered(m, "handoff")
  /\ stage' = [stage EXCEPT ![m] = "none"]
  /\ status' = [status EXCEPT ![m] = "ready"]
  /\ UNCHANGED <<file, takeover, recorded, ctlVars, child, client, procVars, runs, script,
                 timers, todo, calls, unwatched, counters>>

\* The answer does not come in RPC_TIMEOUT_SECONDS; the request, if it is
\* still on its way, may arrive all the same.  The hand-over starts again.
HandOverTimesOut(m) ==
  /\ Free /\ phase # "stopping" /\ stage[m] = "await" /\ proc[child[m]] # "dead"
  /\ lost < MaxLost /\ MoreFaults
  /\ lost' = lost + 1
  /\ stage' = [stage EXCEPT ![m] = "reassign"]
  /\ UNCHANGED <<file, takeover, recorded, ctlVars, status, child, client, procVars, runs,
                 script, timers, todo, calls, unwatched, sent, deaths, exits>>

\* The supervisor that spawned the process will reap it.
Watched(e) == \E m \in Member : child[m] = e /\ status[m] # "stopped"

\* supervisor.stop on every member: shutdown, or SIGTERM where none listens.
Closing == [e \in Epoch |-> IF proc[e] = "serving" /\ Watched(e) THEN "closing"
                            ELSE IF proc[e] = "locking" /\ Watched(e) THEN "dead"
                            ELSE proc[e]]

\* A call that fails while the Controller starts fails the start.
BootFails ==
  /\ Free \/ NoOwner
  /\ phase \in {"spawning", "reconciling", "recovering"}
  /\ \/ NoOwner
     \/ \E m \in Member : status[m] = "starting" /\ proc[child[m]] = "dead"
     \/ asked # Nobody /\ proc[client[asked]] # "serving"
     \/ asked = Nobody /\ \E m \in boot : proc[client[m]] # "serving"
     \/ asked # Nobody /\ lost < MaxLost /\ MoreFaults
  /\ lost' = IF asked # Nobody /\ proc[client[asked]] = "serving" THEN lost + 1 ELSE lost
  /\ phase' = "stopping" /\ asked' = Nobody /\ boot' = {}
  /\ loop' = Nobody /\ left' = {} /\ read' = NoRead
  /\ proc' = Closing
  /\ UNCHANGED <<file, takeover, recorded, mode, pool, superVars, home,
                 lease, runs, script, timers, todo, calls, unwatched, sent, deaths, exits>>

-----------------------------------------------------------------------------
(***************************************************************************)
(* Member processes and their supervisors: executor_worker.py,             *)
(* executor_supervisor.py.                                                 *)
(***************************************************************************)
Lock(e) ==
  /\ proc[e] = "locking" /\ lease[home[e]] = NoPid
  /\ lease' = [lease EXCEPT ![home[e]] = e]
  /\ proc' = [proc EXCEPT ![e] = "serving"]
  /\ UNCHANGED <<file, takeover, recorded, ctlVars, superVars, home, runs, script, timers,
                 todo, calls, unwatched, counters>>

\* What ends with the process.  Its node scripts are another matter.
Exit(e) ==
  /\ proc' = [proc EXCEPT ![e] = "dead"]
  /\ lease' = [m \in Member |-> IF lease[m] = e THEN NoPid ELSE lease[m]]
  /\ runs' = [t \in Task |-> {r \in runs[t] : r.pid # e}]
  /\ timers' = {x \in timers : x[1] # e}
  /\ todo' = [todo EXCEPT ![e] = {}]
  /\ calls' = {c \in calls : c.to # e}
  /\ home' = [home EXCEPT ![e] = AnyMember]

Killed(e) ==
  /\ deaths < MaxDeaths /\ MoreFaults /\ proc[e] \in {"locking", "serving", "closing"}
  /\ deaths' = deaths + 1
  /\ Exit(e)
  /\ unwatched' = IF Watched(e) THEN unwatched ELSE unwatched \cup {e}
  /\ UNCHANGED <<file, takeover, recorded, ctlVars, superVars, script, sent, exits, lost>>

\* watch_parent_exit.
ParentGone(e) ==
  /\ proc[e] = "serving" /\ \A m \in Member : child[m] # e
  /\ proc' = [proc EXCEPT ![e] = "closing"]
  /\ UNCHANGED <<file, takeover, recorded, ctlVars, superVars, home, lease, runs, script,
                 timers, todo, calls, unwatched, counters>>

\* The lifespan of a member ends, and with it the process.
CloseDone(e) ==
  /\ proc[e] = "closing"
  /\ file' = Cancelled(e)
  /\ script' = [t \in Task |-> script[t] \ {e}]
  /\ Exit(e)
  /\ UNCHANGED <<takeover, recorded, ctlVars, superVars, unwatched, counters>>

Bug_NotReaped(m) == UNCHANGED script

\* _reap_process_tree: killpg.
Reaped(m) == script' = [t \in Task |-> script[t] \ {child[m]}]

ChildDied(m) ==
  /\ Free /\ phase \notin {"down", "stopping"}
  /\ \/ status[m] = "ready" \/ (status[m] = "restarting" /\ stage[m] # "none")
  /\ proc[child[m]] = "dead"
  /\ status' = [status EXCEPT ![m] = "restarting"]
  /\ stage' = [stage EXCEPT ![m] = "none"]
  /\ Reaped(m)
  /\ UNCHANGED <<file, takeover, recorded, ctlVars, child, client, procVars, runs, timers,
                 todo, calls, unwatched, counters>>

\* Again after every attempt that fails.
SpawnAgain(m) ==
  /\ Free /\ phase \notin {"down", "stopping"}
  /\ status[m] = "restarting" /\ stage[m] = "none" /\ proc[child[m]] = "dead"
  /\ Reaped(m)
  /\ NewProcess(m)
  /\ UNCHANGED <<file, takeover, recorded, ctlVars, status, client, stage, runs, timers,
                 todo, calls, counters>>

-----------------------------------------------------------------------------
(***************************************************************************)
(* Exits of the Controller.                                                *)
(***************************************************************************)
Stop ==
  /\ Free /\ phase = "up" /\ exits < MaxExits /\ MoreFaults
  /\ exits' = exits + 1
  /\ phase' = "stopping"
  /\ proc' = Closing
  /\ UNCHANGED <<file, takeover, recorded, mode, pool, boot, asked, loop, left, read,
                 superVars, home, lease, runs, script, timers, todo, calls, unwatched,
                 sent, deaths, lost>>

\* A process whose creation was under way when its supervisor was stopped is
\* not shut down by it: _monitor returns because _closing is set.  (Where the
\* hand-over was under way instead, nothing is created any more.)
SpawnLate(m) ==
  /\ phase = "stopping" /\ status[m] = "restarting" /\ stage[m] = "none"
  /\ proc[child[m]] = "dead"
  /\ NewProcess(m)
  /\ status' = [status EXCEPT ![m] = "stopped"]
  /\ UNCHANGED <<file, takeover, recorded, ctlVars, client, stage, runs, script, timers,
                 todo, calls, counters>>

StopDone ==
  /\ phase = "stopping"
  /\ \A m \in Member : status[m] # "stopped" => proc[child[m]] = "dead"
  /\ file' = Cancelled(0)
  /\ script' = [t \in Task |-> script[t] \
                  ({0} \cup {child[m] : m \in {k \in Member : status[k] # "stopped"}})]
  /\ Gone
  /\ UNCHANGED <<calls, unwatched, counters>>

\* The process of the Controller is killed.  The scripts of its own runners
\* and of dead members have nobody left to reap them.
Crash ==
  /\ phase # "down" /\ exits < MaxExits /\ MoreFaults
  /\ exits' = exits + 1
  /\ unwatched' = unwatched \cup
       {p \in UNION {script[t] : t \in Task} :
          p = 0 \/ (proc[p] = "dead" /\ Watched(p))}
  /\ Gone
  /\ UNCHANGED <<file, script, calls, sent, deaths, lost>>

-----------------------------------------------------------------------------
(***************************************************************************)
(* Requests of users: run_task, retry_node, stop_task of the Controller.   *)
(***************************************************************************)
Delegated(t) == mode = "process" /\ t \notin takeover /\ file[t].own # Controller

Send(op, e, t) ==
  calls' = IF proc[e] = "serving" THEN calls \cup {[op |-> op, to |-> e, task |-> t]} ELSE calls

Operate(op, t) ==
  /\ Free /\ phase = "up" /\ sent < MaxSent /\ MoreFaults /\ file[t].st # "gone"
  /\ sent' = sent + 1
  /\ \/ /\ ~Delegated(t) /\ Perform(0, op, t)
        /\ UNCHANGED calls
     \/ /\ Delegated(t) /\ file[t].own = Nobody
        /\ \E m \in ReadyMembers :
             /\ WriteFile(t, [file[t] EXCEPT !.own = m, !.ep = client[m]])
             /\ Send(op, client[m], t)
        /\ UNCHANGED <<runs, script, timers>>
     \/ /\ Delegated(t) /\ file[t].own \in pool /\ file[t].ep = client[file[t].own]
        /\ Send(op, file[t].ep, t)
        /\ UNCHANGED <<runVars, timers>>
  /\ UNCHANGED <<takeover, recorded, ctlVars, superVars, procVars, todo, unwatched,
                 deaths, exits, lost>>

Deliver(c) ==
  /\ c \in calls /\ proc[c.to] = "serving"
  /\ calls' = calls \ {c}
  /\ IF c.op = "recover"
     THEN todo' = [todo EXCEPT ![c.to] = Task] /\ UNCHANGED <<runVars, timers>>
     ELSE Perform(c.to, c.op, c.task) /\ UNCHANGED todo
  /\ UNCHANGED <<takeover, recorded, ctlVars, superVars, procVars, unwatched, counters>>

-----------------------------------------------------------------------------
Controller_ ==
  \/ Start \/ Fenced \/ PoolStarted \/ SaveTask \/ EndLoop \/ BootAnswered
  \/ OwnTasks \/ Open \/ BootFails \/ StopDone
  \/ \E t \in Task : ReadTask(t)
  \/ \E m \in Member :
       \/ AcquireFence(m) \/ Spawn(m) \/ Ready(m) \/ BeginReassign(m) \/ AskBoot(m)
       \/ HandedOver(m) \/ ChildDied(m) \/ SpawnAgain(m)

Process(p) ==
  \/ p # 0 /\ (Lock(p) \/ ParentGone(p) \/ CloseDone(p))
  \/ \E c \in calls : c.to = p /\ Deliver(c)
  \/ \E t \in Task :
       \/ RecoverTask(p, t) \/ TimerFires(p, t) \/ Checkpoint(p, t)
       \/ \E st \in {"completed", "failed"} : Finish(p, t, st)

Environment ==
  \/ FenceTimesOut \/ Stop \/ Crash
  \/ \E m \in Member : HandOverTimesOut(m) \/ SpawnLate(m)
  \/ \E e \in Epoch : Killed(e)
  \/ \E p \in Pid, t \in Task : Finish(p, t, "retry_waiting")
  \/ \E t \in Task, op \in {"run", "retry", "stop"} : Operate(op, t)

Next == Controller_ \/ (\E p \in Pid : Process(p)) \/ Environment

Spec == Init /\ [][Next]_vars

\* Every process goes on while it lives, and a Controller that is down is
\* started again.
FairSpec == Spec /\ WF_vars(Controller_) /\ \A p \in Pid : WF_vars(Process(p))

-----------------------------------------------------------------------------
(***************************************************************************)
(* Properties                                                              *)
(***************************************************************************)
\* Type invariant of the pool: processes, leases, task files, requests.
PoolTypeOK ==
  /\ file \in [Task -> Image] /\ takeover \subseteq Task /\ recorded \in Pools
  /\ lease \in [Member -> Pid \cup {NoPid}]
  /\ phase \in {"down", "leasing", "spawning", "reconciling", "recovering", "resuming",
                "up", "stopping"}
  /\ mode \in {"inline", "process"} /\ pool \in Pools \cup {{}}
  /\ status \in [Member -> {"stopped", "starting", "restarting", "ready"}]
  /\ child \in [Member -> Pid] /\ client \in [Member -> Pid]
  /\ stage \in [Member -> {"none", "reassign", "await"}]
  /\ boot \subseteq Member /\ asked \in Member \cup {Nobody}
  /\ loop \in Member \cup {Nobody, Controller} /\ left \subseteq Task
  /\ read = NoRead \/ read \in [task: Task, img: Image]
  /\ proc \in [Epoch -> {"locking", "serving", "closing", "dead"}]
  /\ home \in [Epoch -> Member]
  /\ runs \in [Task -> SUBSET [pid: Pid, img: Image]] /\ script \in [Task -> SUBSET Pid]
  /\ timers \subseteq Pid \X Task /\ todo \in [Pid -> SUBSET Task]
  /\ calls \subseteq Request /\ unwatched \subseteq Pid

\* However processes die, restart, hang on to a lease or come back in another
\* mode, at most one process runs a task, and while a member process runs it
\* the task file names that member and that epoch.
OneOwner ==
  \A t \in Task : \A r \in runs[t] :
    /\ runs[t] = {r}
    /\ r.pid # 0 => file[t].own = home[r.pid] /\ file[t].ep = r.pid

\* A task is never executed again while a node script of an earlier execution
\* is still alive, unless the process that should have reaped it died as well.
ScriptsReaped ==
  \A t \in Task : \A r \in runs[t] : script[t] \subseteq {r.pid} \cup unwatched

\* Whichever process writes a task file, no checkpoint in it is undone and a
\* task that has ended stays ended: no save is based on a stale load.
ProgressKept ==
  [][\A t \in Task :
       /\ file'[t].done >= file[t].done
       /\ file[t].st \in Ended => file'[t].st = file[t].st]_vars

\* A task interrupted by the death of its process is taken up again by some
\* process, or its file comes to say that it will not be.
OwnedTaskRuns ==
  \A t \in Task :
    file[t].st \in Recoverable ~> (runs[t] # {} \/ file[t].st \notin Recoverable)
=============================================================================
