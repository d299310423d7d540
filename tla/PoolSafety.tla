------------------------------ MODULE PoolSafety ------------------------------
(***************************************************************************)
(* Safety of ExecutorPool for every set of members, tasks and pools and    *)
(* every bound: its type invariant, one runner per task, scripts reaped    *)
(* before a task runs again, and no checkpoint undone.                     *)
(*                                                                         *)
(* The argument: a member process has work only if its supervisor's client *)
(* calls it, and holds the lease of its member as long as it lives.  The   *)
(* Controller itself touches a task either with every lease in its hands   *)
(* (inline), or when the file names it or no member ever can.  So whoever  *)
(* may run a task is named, process and epoch, by the file or by the       *)
(* leases, and a task file changes hands only while nobody works on it.    *)
(***************************************************************************)
EXTENDS ExecutorPool, TLAPS

-----------------------------------------------------------------------------
(***************************************************************************)
(* The inductive invariant.                                                *)
(***************************************************************************)
\* A process is at work, or will be: it looks at tasks, executes one, waits to
\* retry one, or a request reaches it.
Busy(p) ==
  \/ todo[p] # {}
  \/ \E t \in Task : Running(p, t) \/ <<p, t>> \in timers
  \/ \E c \in calls : c.to = p /\ proc[p] # "dead"

\* The task is the Controller's, by the image f of its file.
Main(t, f) == mode = "inline" \/ t \in takeover \/ f.own = Controller

\* The task is the member process p's.
Held(p, f) == f.own = home[p] /\ f.ep = p

Reigning == {"recovering", "resuming", "up"}   \* the pool is recorded, members are asked

\* The process a supervisor waits for is not the one its client calls.
Waiting(m) == status[m] = "starting" \/ (status[m] = "restarting" /\ stage[m] = "none")

Phases ==
  /\ phase = "down" => mode = "inline"
  /\ phase # "down" => pool \in Pools
  /\ phase \in {"spawning", "reconciling", "recovering"} => mode = "process"
  /\ mode = "inline" \/ phase = "leasing" =>
       \A m \in Member : status[m] = "stopped" /\ stage[m] = "none"
  /\ phase = "spawning" => \A m \in Member : stage[m] = "none"
  /\ loop = Controller <=> phase = "reconciling"
  /\ read # NoRead => loop # Nobody
  /\ \A m \in Member : loop = m => phase \in Reigning /\ stage[m] = "reassign"
  /\ mode = "process" /\ phase \in Reigning \cup {"reconciling"} => recorded = pool
  /\ boot \subseteq pool /\ asked \in pool \cup {Nobody}
  /\ boot # {} \/ asked # Nobody => phase = "recovering"

Supervised ==
  \A m \in Member :
    /\ status[m] # "stopped" => m \in pool /\ child[m] \in Epoch
    /\ child[m] \in Epoch /\ proc[child[m]] # "dead" => home[child[m]] = m
    /\ status[m] = "starting" => phase \in {"spawning", "stopping"}
    /\ status[m] \in {"ready", "restarting"} => client[m] \in Epoch
    /\ stage[m] # "none" => status[m] = "restarting"
    /\ status[m] = "ready" \/ stage[m] # "none" =>
         client[m] = child[m] /\ proc[child[m]] # "locking"
    /\ client[m] \in Epoch /\ proc[client[m]] # "dead" =>
         client[m] = child[m] /\ status[m] # "stopped" /\ ~Waiting(m)
    /\ mode = "process" /\ phase \in Reigning \cup {"reconciling"} /\ m \in pool =>
         status[m] \in {"ready", "restarting"}
    /\ Waiting(m) => ~Busy(child[m]) /\ \A t \in Task : child[m] \notin script[t]

Leased ==
  /\ \A e \in Epoch : proc[e] \in {"serving", "closing"} => lease[home[e]] = e
  /\ mode = "inline" /\ phase \in {"resuming", "up", "stopping"} =>
       \A m \in recorded \cup pool : lease[m] = 0
  /\ phase = "spawning" => \A m \in recorded \ pool : lease[m] = 0

Working ==
  /\ \A e \in Epoch : Busy(e) =>
       /\ proc[e] \in {"serving", "closing"} /\ home[e] \in recorded
       /\ phase = "spawning" => status[home[e]] \notin {"ready", "restarting"}
       /\ phase # "reconciling"
       /\ mode = "process" /\ phase \in Reigning => e = client[home[e]]
  /\ todo[0] # {} => phase \in {"resuming", "up", "stopping"}
  /\ \A t \in Task : Running(0, t) \/ <<0, t>> \in timers =>
       phase \in {"resuming", "up", "stopping"}

Claims ==
  /\ \A t \in Task :
       /\ \A r \in runs[t] :
            /\ runs[t] = {r}
            /\ IF r.pid = 0 THEN Main(t, file[t]) /\ Main(t, r.img)
               ELSE Held(r.pid, file[t]) /\ Held(r.pid, r.img)
            /\ r.img.done = file[t].done /\ r.img.st = "running" /\ file[t].st \notin Ended
       /\ \A p \in Pid : <<p, t>> \in timers =>
            IF p = 0 THEN Main(t, file[t]) ELSE Held(p, file[t])
       /\ t \in takeover => /\ file[t].own \notin Member
                            /\ \A r \in runs[t] : r.img.own \notin Member
  /\ \A c \in calls : c.op # "recover" => c.task \notin takeover

Current ==
  read # NoRead /\ (loop = Controller \/ (read.img.own = loop /\ read.img.ep # client[loop]))
    => read.img = file[read.task]

\* A node script outlives the execution it belongs to only until the supervisor
\* of the process reaps it, and until then the task stays that process's.
ToReap(p, t) ==
  /\ p # 0 /\ proc[p] = "dead"
  /\ file[t].own \in Member /\ file[t].ep = p
  /\ child[file[t].own] = p /\ status[file[t].own] # "stopped"

Scripted ==
  \A t \in Task : \A p \in script[t] :
    \/ p \in unwatched \/ Running(p, t)
    \/ ToReap(p, t) /\ phase \notin {"spawning", "reconciling"}

PoolInv ==
  PoolTypeOK /\ Phases /\ Supervised /\ Leased /\ Working /\ Claims /\ Current /\ Scripted
-----------------------------------------------------------------------------
(***************************************************************************)
(* Facts about the constants.                                              *)
(***************************************************************************)
\* The Controller's pid is none of the members' processes'.
LEMMA Pids ==
  /\ Pid = Epoch \cup {0} /\ 0 \notin Epoch /\ NoPid \notin Pid
  /\ Epoch \subseteq Int
BY PoolAssumption DEF Pid, Epoch, NoPid

LEMMA Owners ==
  /\ Nobody \notin Member /\ Controller \notin Member /\ Nobody # Controller
  /\ \A q \in Pools : q \subseteq Member /\ q # {}
BY PoolAssumption

\* Where a pool was ever recorded there is a member.
LEMMA SomeMember ==
  ASSUME PoolTypeOK
  PROVE  AnyMember \in Member
BY Owners DEF PoolTypeOK, AnyMember

\* What may be written into an image leaves it one.
LEMMA ImageUpdates ==
  ASSUME NEW f \in Image
  PROVE  /\ \A s \in Status : [f EXCEPT !.st = s] \in Image
         /\ \A o \in Member \cup {Nobody, Controller} :
              /\ [f EXCEPT !.own = o] \in Image
              /\ \A e \in Pid : [f EXCEPT !.own = o, !.ep = e] \in Image
         /\ f.done \in 0..MaxSteps
         /\ f.done < MaxSteps => [f EXCEPT !.done = @ + 1] \in Image
<1>1. ASSUME NEW s \in Status PROVE [f EXCEPT !.st = s] \in Image
  BY DEF Image
<1>2. ASSUME NEW o \in Member \cup {Nobody, Controller}, NEW e \in Pid
      PROVE  [f EXCEPT !.own = o] \in Image /\ [f EXCEPT !.own = o, !.ep = e] \in Image
  BY DEF Image
<1>3. f.done \in 0..MaxSteps
  BY DEF Image
<1>4. ASSUME f.done < MaxSteps PROVE [f EXCEPT !.done = @ + 1] \in Image
  <2>1. f.done + 1 \in 0..MaxSteps
    BY <1>3, <1>4, PoolAssumption
  <2> QED
    BY <2>1 DEF Image
<1>5. 0 \in Pid
  BY Pids
<1> QED
  BY <1>1, <1>2, <1>3, <1>4, <1>5

-----------------------------------------------------------------------------
(***************************************************************************)
(* What a process does to a task.                                          *)
(***************************************************************************)
\* A process that has work; the Controller, where it executes tasks.
AtWork(p) == IF p = 0 THEN phase \in {"resuming", "up", "stopping"} ELSE Busy(p)

\* A process that may change the task.
Entitled(p, t) ==
  AtWork(p) /\ IF p = 0 THEN Main(t, file[t]) ELSE Held(p, file[t])

\* No process but p gets anything to do, and p only goes on.
Bounded(p) ==
  /\ calls' \subseteq calls
  /\ todo' \in [Pid -> SUBSET Task] /\ \A e \in Pid \ {p} : todo'[e] = todo[e]
  /\ UNCHANGED <<takeover, recorded, ctlVars, superVars, procVars, unwatched>>

Rests == timers' \subseteq timers /\ UNCHANGED runVars

\* The task file becomes f; a runner stays as it is, goes on from f, or ends.
Changes(p, t, f) ==
  /\ f \in Image /\ file' = [file EXCEPT ![t] = f]
  /\ f.done >= file[t].done
  /\ file[t].st \in Ended => f.st = file[t].st
  /\ IF p = 0 THEN Main(t, f) /\ (t \in takeover => f.own \notin Member) ELSE Held(p, f)
  /\ \/ /\ runs' = runs /\ script' = script /\ f.done = file[t].done
        /\ runs[t] # {} => f.st \notin Ended
     \/ /\ runs' = [runs EXCEPT ![t] = {[pid |-> p, img |-> f]}]
        /\ script' \in {script, [script EXCEPT ![t] = @ \cup {p}]}
        /\ f.st = "running" /\ file[t].st \notin Ended
     \/ /\ runs' = [runs EXCEPT ![t] = {}]
        /\ script' = [script EXCEPT ![t] = @ \ {p}]

Acts(p, t) ==
  /\ Entitled(p, t) /\ timers' \subseteq timers \cup {<<p, t>>}
  /\ \E f : Changes(p, t, f)

\* Every step of a process on tasks.
Works(p) ==
  \/ \E c \in calls : c.to = p /\ Deliver(c)
  \/ \E t \in Task :
       \/ RecoverTask(p, t) \/ TimerFires(p, t) \/ Checkpoint(p, t)
       \/ \E st \in {"completed", "failed", "retry_waiting"} : Finish(p, t, st)
       \/ p = 0 /\ ~Delegated(t) /\ \E op \in {"run", "retry", "stop"} : Operate(op, t)

\* The Controller and a member, or two members, never both.
LEMMA OneEntitled ==
  ASSUME PoolInv, NEW t \in Task, NEW p \in Pid, NEW q \in Pid, Entitled(p, t), Entitled(q, t)
  PROVE  p = q
<1>1. ASSUME NEW e \in Epoch, Entitled(0, t), Entitled(e, t)
      PROVE  FALSE
  <2>1. Main(t, file[t]) /\ phase \in {"resuming", "up", "stopping"}
    BY <1>1 DEF Entitled, AtWork
  <2>2. Busy(e) /\ Held(e, file[t])
    BY <1>1, Pids DEF Entitled, AtWork
  <2>3. home[e] \in Member /\ lease[home[e]] = e /\ home[e] \in recorded
    BY <2>2 DEF PoolInv, PoolTypeOK, Working, Leased
  <2>4. mode = "inline"
    BY <2>1, <2>2, <2>3, Owners DEF Main, Held, PoolInv, Claims
  <2> QED
    BY <2>1, <2>3, <2>4, Pids DEF PoolInv, Leased
<1>2. CASE p \in Epoch /\ q \in Epoch
  BY <1>2, Pids DEF Entitled, Held
<1> QED
  BY <1>1, <1>2, Pids

\* Whoever runs a task, or is to retry it, may change it.
LEMMA RunnerEntitled ==
  ASSUME PoolInv, NEW p \in Pid, NEW t \in Task, Running(p, t) \/ <<p, t>> \in timers
  PROVE  Entitled(p, t)
<1>1. AtWork(p)
  BY DEF AtWork, Busy, PoolInv, Working
<1>2. IF p = 0 THEN Main(t, file[t]) ELSE Held(p, file[t])
  BY DEF PoolInv, Claims, Running
<1> QED
  BY <1>1, <1>2 DEF Entitled

\* Whoever may change a task is alone with it.
LEMMA Exclusive ==
  ASSUME PoolInv, NEW p \in Pid, NEW t \in Task, Entitled(p, t), NEW r \in runs[t]
  PROVE  /\ r.pid = p /\ runs[t] = {r} /\ r \in [pid : Pid, img : Image]
         /\ IF p = 0 THEN Main(t, r.img) ELSE Held(p, r.img)
<1>1. r \in [pid : Pid, img : Image] /\ runs[t] = {r}
  BY DEF PoolInv, PoolTypeOK, Claims
<1>2. r.pid = p
  BY <1>1, RunnerEntitled, OneEntitled DEF Running
<1> QED
  BY <1>1, <1>2 DEF PoolInv, Claims

LEMMA CheckpointActs ==
  ASSUME PoolInv, NEW p \in Pid, NEW t \in Task, Checkpoint(p, t)
  PROVE  Bounded(p) /\ Acts(p, t)
<1>1. PICK r \in runs[t] :
        /\ r.pid = p /\ r.img.done < MaxSteps
        /\ file' = [file EXCEPT ![t] = [r.img EXCEPT !.done = @ + 1]]
        /\ runs' = [runs EXCEPT ![t] =
                      (@ \ {r}) \cup {[r EXCEPT !.img = [r.img EXCEPT !.done = @ + 1]]}]
  BY DEF Checkpoint, WriteFile
<1>2. Entitled(p, t)
  BY <1>1, RunnerEntitled DEF Running
<1>3. /\ r \in [pid : Pid, img : Image] /\ runs[t] = {r}
      /\ IF p = 0 THEN Main(t, r.img) ELSE Held(p, r.img)
  BY <1>2, Exclusive
<1> DEFINE f == [r.img EXCEPT !.done = @ + 1]
<1>4. /\ f \in Image /\ f.st = r.img.st /\ f.own = r.img.own /\ f.ep = r.img.ep
      /\ f.done = r.img.done + 1 /\ r.img.done \in 0..MaxSteps
  BY <1>1, <1>3, ImageUpdates DEF Image
<1>5. [r EXCEPT !.img = f] = [pid |-> p, img |-> f]
  BY <1>1, <1>3
<1>6. runs' = [runs EXCEPT ![t] = {[pid |-> p, img |-> f]}]
  BY <1>1, <1>3, <1>5
<1>7. r.img.done = file[t].done /\ r.img.st = "running" /\ file[t].st \notin Ended
      /\ (t \in takeover => r.img.own \notin Member)
  BY DEF PoolInv, Claims
<1>8. Changes(p, t, f)
  <2>1. f.done >= file[t].done
    BY <1>4, <1>7, PoolAssumption
  <2>2. IF p = 0 THEN Main(t, f) /\ (t \in takeover => f.own \notin Member) ELSE Held(p, f)
    BY <1>3, <1>4, <1>7 DEF Main, Held
  <2>3. script' = script
    BY DEF Checkpoint
  <2>4. file' = [file EXCEPT ![t] = f]
    BY <1>1
  <2> HIDE DEF f
  <2> QED
    BY <1>4, <1>6, <1>7, <2>1, <2>2, <2>3, <2>4 DEF Changes
<1>9. Bounded(p) /\ timers' \subseteq timers
  BY DEF Checkpoint, Bounded, PoolInv, PoolTypeOK
<1> QED
  BY <1>2, <1>8, <1>9 DEF Acts

\* The runner of p on t leaves, and what it saves is its image with status st.
LEMMA EndedRun ==
  ASSUME PoolInv, NEW p \in Pid, NEW t \in Task, Running(p, t), EndRuns(p, {t}),
         NEW st \in Status, NEW r \in runs[t], file' = [file EXCEPT ![t] = [r.img EXCEPT !.st = st]]
  PROVE  Changes(p, t, [r.img EXCEPT !.st = st]) /\ Entitled(p, t)
<1>1. Entitled(p, t)
  BY RunnerEntitled
<1>2. /\ r.pid = p /\ r \in [pid : Pid, img : Image] /\ runs[t] = {r}
      /\ IF p = 0 THEN Main(t, r.img) ELSE Held(p, r.img)
  BY <1>1, Exclusive
<1> DEFINE f == [r.img EXCEPT !.st = st]
<1>3. /\ f \in Image /\ f.own = r.img.own /\ f.ep = r.img.ep
      /\ f.done = r.img.done /\ f.done \in 0..MaxSteps
  BY <1>2, ImageUpdates DEF Image
<1>4. r.img.done = file[t].done /\ file[t].st \notin Ended
      /\ (t \in takeover => r.img.own \notin Member)
  BY DEF PoolInv, Claims
<1>5. runs' = [runs EXCEPT ![t] = {}] /\ script' = [script EXCEPT ![t] = @ \ {p}]
  <2>1. {x \in runs[t] : x.pid # p} = {}
    BY <1>2
  <2>2. runs \in [Task -> SUBSET [pid : Pid, img : Image]] /\ script \in [Task -> SUBSET Pid]
    BY DEF PoolInv, PoolTypeOK
  <2> HIDE DEF f
  <2> QED
    BY <2>1, <2>2 DEF EndRuns
<1>6. IF p = 0 THEN Main(t, f) /\ (t \in takeover => f.own \notin Member) ELSE Held(p, f)
  BY <1>2, <1>3, <1>4 DEF Main, Held
<1>7. f.done >= file[t].done
  BY <1>3, <1>4, PoolAssumption
<1>8. Changes(p, t, f)
  <2>1. file' = [file EXCEPT ![t] = f]
    OBVIOUS
  <2> HIDE DEF f
  <2> QED
    BY <1>3, <1>4, <1>5, <1>6, <1>7, <2>1 DEF Changes
<1> QED
  BY <1>1, <1>8

LEMMA FinishActs ==
  ASSUME PoolInv, NEW p \in Pid, NEW t \in Task,
         NEW st \in {"completed", "failed", "retry_waiting"}, Finish(p, t, st)
  PROVE  Bounded(p) /\ Acts(p, t)
<1>1. PICK r \in runs[t] : r.pid = p /\ file' = [file EXCEPT ![t] = [r.img EXCEPT !.st = st]]
  BY DEF Finish, WriteFile
<1>2. st \in Status /\ Running(p, t) /\ EndRuns(p, {t})
  BY <1>1 DEF Finish, Status, Running
<1>3. Changes(p, t, [r.img EXCEPT !.st = st]) /\ Entitled(p, t)
  BY <1>1, <1>2, EndedRun
<1>4. Bounded(p) /\ timers' \subseteq timers \cup {<<p, t>>}
  BY DEF Finish, Bounded, PoolInv, PoolTypeOK
<1> QED
  BY <1>3, <1>4 DEF Acts

\* The owner a file names entitles as well as the file.
LEMMA SameOwner ==
  ASSUME PoolInv, NEW p \in Pid, NEW t \in Task, Entitled(p, t), NEW f \in Image,
         f.own = file[t].own, f.ep = file[t].ep
  PROVE  IF p = 0 THEN Main(t, f) /\ (t \in takeover => f.own \notin Member) ELSE Held(p, f)
BY DEF PoolInv, Claims, Entitled, Main, Held

LEMMA Noted ==
  ASSUME PoolInv, NEW p \in Pid, NEW t \in Task, Entitled(p, t), NEW st \in Status \ Ended,
         file[t].st \notin Ended, file' = [file EXCEPT ![t] = [file[t] EXCEPT !.st = st]],
         UNCHANGED <<runs, script>>
  PROVE  Changes(p, t, [file[t] EXCEPT !.st = st])
<1> DEFINE f == [file[t] EXCEPT !.st = st]
<1>1. file[t] \in Image
  BY DEF PoolInv, PoolTypeOK
<1>2. /\ f \in Image /\ f.own = file[t].own /\ f.ep = file[t].ep /\ f.st = st
      /\ f.done = file[t].done /\ f.done \in 0..MaxSteps
  BY <1>1, ImageUpdates DEF Image
<1>3. file' = [file EXCEPT ![t] = f]
  OBVIOUS
<1> HIDE DEF f
<1>4. f.done >= file[t].done
  BY <1>2, PoolAssumption
<1>5. Changes(p, t, f)
  BY <1>2, <1>3, <1>4, SameOwner DEF Changes
<1> QED
  BY <1>5 DEF f

LEMMA Launched ==
  ASSUME PoolInv, NEW p \in Pid, NEW t \in Task, Entitled(p, t), ~Running(p, t), NEW f \in Image,
         file[t].st \notin Ended, f.done = file[t].done,
         IF p = 0 THEN Main(t, f) /\ (t \in takeover => f.own \notin Member) ELSE Held(p, f),
         Launch(p, t, f)
  PROVE  Changes(p, t, [f EXCEPT !.st = "running"])
<1> DEFINE g == [f EXCEPT !.st = "running"]
<1>1. /\ g \in Image /\ g.own = f.own /\ g.ep = f.ep /\ g.st = "running"
      /\ g.done = f.done /\ g.done \in 0..MaxSteps
  <2>1. "running" \in Status
    BY DEF Status
  <2>2. g \in Image /\ f.done \in 0..MaxSteps
    BY <2>1, ImageUpdates
  <2> QED
    BY <2>2 DEF Image
<1>2. runs[t] = {}
  <2> SUFFICES ASSUME NEW r \in runs[t] PROVE FALSE
    OBVIOUS
  <2> HIDE DEF g
  <2>1. r.pid = p
    BY Exclusive
  <2> QED
    BY <2>1 DEF Running
<1>3. /\ file' = [file EXCEPT ![t] = g]
      /\ runs' = [runs EXCEPT ![t] = {[pid |-> p, img |-> g]}]
      /\ script' = [script EXCEPT ![t] = @ \cup {p}]
  <2>1. {} \cup {[pid |-> p, img |-> g]} = {[pid |-> p, img |-> g]}
    OBVIOUS
  <2>2. /\ file' = [file EXCEPT ![t] = g]
        /\ runs' = [runs EXCEPT ![t] = runs[t] \cup {[pid |-> p, img |-> g]}]
        /\ script' = [script EXCEPT ![t] = @ \cup {p}]
    BY DEF Launch, WriteFile
  <2> HIDE DEF g
  <2> QED
    BY <1>2, <2>1, <2>2
<1> HIDE DEF g
<1>4. g.done >= file[t].done
  BY <1>1, PoolAssumption
<1>5. IF p = 0 THEN Main(t, g) /\ (t \in takeover => g.own \notin Member) ELSE Held(p, g)
  BY <1>1 DEF Main, Held
<1>6. Changes(p, t, g)
  BY <1>1, <1>3, <1>4, <1>5 DEF Changes
<1> QED
  BY <1>6 DEF g

LEMMA Resumed ==
  ASSUME PoolInv, NEW p \in Pid, NEW t \in Task, Entitled(p, t), file[t].st \notin Ended,
         Resume(p, t)
  PROVE  \E f : Changes(p, t, f)
<1>1. file[t] \in Image
  BY DEF PoolInv, PoolTypeOK
<1>2. CASE Mine(p, file[t]) /\ ~Running(p, t)
  <2>1. Launch(p, t, file[t])
    BY <1>2 DEF Resume
  <2>2. Changes(p, t, [file[t] EXCEPT !.st = "running"])
    BY <1>1, <1>2, <2>1, SameOwner, Launched
  <2> QED
    BY <2>2
<1>3. CASE ~(Mine(p, file[t]) /\ ~Running(p, t))
  <2>1. file' = [file EXCEPT ![t] = [file[t] EXCEPT !.st = "resume_pending"]]
        /\ UNCHANGED <<runs, script>>
    BY <1>3 DEF Resume, WriteFile
  <2>2. "resume_pending" \in Status \ Ended
    BY DEF Status, Ended
  <2> QED
    BY <2>1, <2>2, Noted
<1> QED
  BY <1>2, <1>3

LEMMA TimerActs ==
  ASSUME PoolInv, NEW p \in Pid, NEW t \in Task, TimerFires(p, t)
  PROVE  Bounded(p) /\ (Rests \/ Acts(p, t))
<1>1. Bounded(p) /\ timers' \subseteq timers
  BY DEF TimerFires, Bounded, PoolInv, PoolTypeOK
<1>2. CASE ~Running(p, t) /\ file[t].st = "retry_waiting"
  <2>1. Entitled(p, t)
    BY RunnerEntitled DEF TimerFires
  <2>2. file[t].st \notin Ended /\ Resume(p, t)
    BY <1>2 DEF TimerFires, Ended
  <2> QED
    BY <1>1, <2>1, <2>2, Resumed DEF Acts
<1>3. CASE ~(~Running(p, t) /\ file[t].st = "retry_waiting")
  BY <1>1, <1>3 DEF TimerFires, Rests
<1> QED
  BY <1>2, <1>3

LEMMA RecoverActs ==
  ASSUME PoolInv, NEW p \in Pid, NEW t \in Task, RecoverTask(p, t)
  PROVE  Bounded(p) /\ (Rests \/ Acts(p, t))
<1>1. Bounded(p)
  BY DEF RecoverTask, Bounded, PoolInv, PoolTypeOK
<1> DEFINE f == file[t]
           owned == \/ p # 0 /\ Mine(p, f)
                    \/ p = 0 /\ (mode = "inline" \/ (f.own = Controller /\ f.ep = 0))
<1>2. \/ f.st \notin Recoverable \/ ~owned
      \/ f.st \in Recoverable /\ owned
  OBVIOUS
<1>3. CASE UNCHANGED <<runVars, timers>>
  BY <1>1, <1>3 DEF Rests
<1>4. ASSUME f.st \in Recoverable, owned,
             \/ Resume(p, t) /\ UNCHANGED timers
             \/ /\ WriteFile(t, [f EXCEPT !.st = "retry_waiting"])
                /\ timers' = timers \cup {<<p, t>>}
                /\ UNCHANGED <<runs, script>>
             \/ /\ WriteFile(t, [f EXCEPT !.st = "failed"])
                /\ UNCHANGED <<runs, script, timers>>
      PROVE  Acts(p, t)
  <2>1. AtWork(p)
    BY DEF RecoverTask, AtWork, Busy, PoolInv, Working
  <2>2. Entitled(p, t)
    BY <1>4, <2>1 DEF Entitled, Mine, Held, Main
  <2>3. file[t].st \notin Ended
    BY <1>4 DEF Recoverable, Ended
  <2>4. {"retry_waiting", "failed"} \subseteq Status \ Ended
    BY DEF Status, Ended
  <2>5. \E g : Changes(p, t, g)
    <3>1. CASE Resume(p, t)
      BY <3>1, <2>2, <2>3, Resumed
    <3>2. ASSUME NEW s \in {"retry_waiting", "failed"},
                 WriteFile(t, [f EXCEPT !.st = s]) /\ UNCHANGED <<runs, script>>
          PROVE  \E g : Changes(p, t, g)
      BY <3>2, <2>2, <2>3, <2>4, Noted DEF WriteFile
    <3> QED
      BY <1>4, <3>1, <3>2
  <2>6. timers' \subseteq timers \cup {<<p, t>>}
    BY <1>4
  <2> QED
    BY <2>2, <2>5, <2>6 DEF Acts
<1> QED
  BY <1>1, <1>3, <1>4 DEF RecoverTask

\* The status of the image a cancelled runner saves.
LEMMA CancelledImage ==
  ASSUME PoolInv, NEW p \in Pid, NEW t \in Task, Running(p, t)
  PROVE  \E r \in runs[t] : r.pid = p /\ Cancelled(p)[t] = [r.img EXCEPT !.st = "stopped"]
<1>1. PICK r \in runs[t] : r.pid = p
  BY DEF Running
<1>2. (CHOOSE x \in runs[t] : x.pid = p) \in runs[t] /\ (CHOOSE x \in runs[t] : x.pid = p).pid = p
  BY <1>1
<1> DEFINE x == CHOOSE y \in runs[t] : y.pid = p
<1>3. Cancelled(p)[t] = [x.img EXCEPT !.st = "stopped"]
  BY DEF Cancelled
<1> HIDE DEF x
<1> QED
  BY <1>2, <1>3 DEF x

LEMMA RunActs ==
  ASSUME PoolInv, NEW p \in Pid, NEW t \in Task, AtWork(p),
         p = 0 => Main(t, file[t]), p # 0 => t \notin takeover, Perform(p, "run", t)
  PROVE  /\ UNCHANGED timers
         /\ UNCHANGED runVars \/ (Entitled(p, t) /\ \E f : Changes(p, t, f))
<1> DEFINE o == IF t \in takeover /\ file[t].own = Nobody THEN Controller ELSE file[t].own
           f == [file[t] EXCEPT !.own = o]
<1>1. file[t] \in Image /\ file \in [Task -> Image]
  BY DEF PoolInv, PoolTypeOK
<1>2. o \in Member \cup {Nobody, Controller}
  BY <1>1 DEF Image
<1>3. /\ f \in Image /\ f.own = o /\ f.ep = file[t].ep /\ f.st = file[t].st
      /\ f.done = file[t].done /\ f.done \in 0..MaxSteps
  BY <1>1, <1>2, ImageUpdates DEF Image
<1>4. /\ IF Mine(p, f) /\ ~Running(p, t) /\ f.st \in {"pending", "resume_pending"}
         THEN Launch(p, t, f)
         ELSE WriteFile(t, f) /\ UNCHANGED <<runs, script>>
      /\ UNCHANGED timers
  BY DEF Perform
<1> HIDE DEF f
<1>5. f.done >= file[t].done
  BY <1>3, PoolAssumption
<1>6. p # 0 => f = file[t]
  <2> SUFFICES ASSUME p # 0 PROVE f = file[t]
    OBVIOUS
  <2>1. o = file[t].own
    OBVIOUS
  <2> QED
    BY <1>1, <2>1 DEF f, Image
<1>7. CASE Entitled(p, t)
  <2>1. IF p = 0 THEN Main(t, f) /\ (t \in takeover => f.own \notin Member) ELSE Held(p, f)
    <3>1. t \in takeover => o \notin Member
      BY Owners DEF PoolInv, Claims
    <3> QED
      BY <1>3, <1>6, <1>7, <3>1, Owners DEF Entitled, Main, Held
  <2>2. CASE Mine(p, f) /\ ~Running(p, t) /\ f.st \in {"pending", "resume_pending"}
    <3>1. file[t].st \notin Ended
      BY <1>3, <2>2 DEF Ended
    <3>2. Changes(p, t, [f EXCEPT !.st = "running"])
      BY <1>3, <1>4, <1>7, <2>1, <2>2, <3>1, Launched
    <3> QED
      BY <1>4, <1>7, <3>2
  <2>3. CASE ~(Mine(p, f) /\ ~Running(p, t) /\ f.st \in {"pending", "resume_pending"})
    <3>1. runs[t] # {} => file[t].st \notin Ended
      <4> SUFFICES ASSUME NEW r \in runs[t] PROVE file[t].st \notin Ended
        BY DEF PoolInv, PoolTypeOK
      <4> QED
        BY DEF PoolInv, Claims
    <3>2. Changes(p, t, f)
      BY <1>3, <1>4, <1>5, <2>1, <2>3, <3>1 DEF Changes, WriteFile
    <3> QED
      BY <1>4, <1>7, <3>2
  <2> QED
    BY <2>2, <2>3
<1>8. CASE ~Entitled(p, t)
  <2>1. p # 0 /\ f = file[t] /\ ~Mine(p, f)
    BY <1>6, <1>8 DEF Entitled, Mine, Held
  <2>2. file' = [file EXCEPT ![t] = file[t]] /\ UNCHANGED <<runs, script>>
    BY <1>4, <2>1 DEF WriteFile
  <2>3. file' = file
    BY <1>1, <2>2
  <2> QED
    BY <1>4, <2>2, <2>3 DEF runVars
<1> QED
  BY <1>7, <1>8

LEMMA RetryActs ==
  ASSUME PoolInv, NEW p \in Pid, NEW t \in Task, AtWork(p),
         p = 0 => Main(t, file[t]), Perform(p, "retry", t)
  PROVE  /\ timers' \subseteq timers
         /\ UNCHANGED runVars \/ (Entitled(p, t) /\ \E f : Changes(p, t, f))
<1>1. IF Mine(p, file[t]) /\ ~Running(p, t) /\ file[t].st \in {"failed", "retry_waiting"}
      THEN Resume(p, t) /\ timers' = timers \ {<<p, t>>}
      ELSE UNCHANGED <<runVars, timers>>
  BY DEF Perform
<1>2. ASSUME Mine(p, file[t]), file[t].st \in {"failed", "retry_waiting"}, Resume(p, t)
      PROVE  Entitled(p, t) /\ \E f : Changes(p, t, f)
  <2>1. Entitled(p, t)
    BY <1>2 DEF Entitled, Mine, Held
  <2>2. file[t].st \notin Ended
    BY <1>2 DEF Ended
  <2> QED
    BY <1>2, <2>1, <2>2, Resumed
<1> QED
  BY <1>1, <1>2

LEMMA StopActs ==
  ASSUME PoolInv, NEW p \in Pid, NEW t \in Task, AtWork(p),
         p = 0 => Main(t, file[t]), Perform(p, "stop", t)
  PROVE  /\ timers' \subseteq timers
         /\ UNCHANGED runVars \/ (Entitled(p, t) /\ \E f : Changes(p, t, f))
<1> DEFINE refused ==
      ~Mine(p, file[t]) \/ (~Running(p, t) /\ file[t].st \notin Recoverable \cup {"pending"})
<1>1. CASE refused
  BY <1>1 DEF Perform
<1>2. CASE ~refused
  <2>1. /\ WriteFile(t, IF Running(p, t) THEN Cancelled(p)[t]
                        ELSE [file[t] EXCEPT !.st = IF @ = "pending" THEN "gone" ELSE "stopped"])
        /\ EndRuns(p, {t})
        /\ timers' = timers \ {<<p, t>>}
    BY <1>2 DEF Perform
  <2>2. Entitled(p, t)
    BY <1>2 DEF Entitled, Mine, Held
  <2>3. CASE Running(p, t)
    <3>1. PICK r \in runs[t] : r.pid = p /\ Cancelled(p)[t] = [r.img EXCEPT !.st = "stopped"]
      BY <2>3, CancelledImage
    <3>2. file' = [file EXCEPT ![t] = [r.img EXCEPT !.st = "stopped"]] /\ "stopped" \in Status
      BY <2>1, <2>3, <3>1 DEF WriteFile, Status
    <3>3. Changes(p, t, [r.img EXCEPT !.st = "stopped"])
      BY <2>1, <2>3, <3>2, EndedRun
    <3> QED
      BY <2>1, <2>2, <3>3
  <2>4. CASE ~Running(p, t)
    <3> DEFINE s == IF file[t].st = "pending" THEN "gone" ELSE "stopped"
               f == [file[t] EXCEPT !.st = s]
    <3>1. file[t] \in Image /\ runs \in [Task -> SUBSET [pid : Pid, img : Image]]
          /\ script \in [Task -> SUBSET Pid]
      BY DEF PoolInv, PoolTypeOK
    <3>2. s \in Status
      BY DEF Status
    <3>3. /\ f \in Image /\ f.own = file[t].own /\ f.ep = file[t].ep
          /\ f.done = file[t].done /\ f.done \in 0..MaxSteps
      BY <3>1, <3>2, ImageUpdates DEF Image
    <3>4. file' = [file EXCEPT ![t] = f]
      BY <2>1, <2>4 DEF WriteFile
    <3> HIDE DEF f
    <3>5. file[t].st \notin Ended
      BY <1>2, <2>4 DEF Ended, Recoverable
    <3>6. {r \in runs[t] : r.pid # p} = {}
      BY <2>2, Exclusive
    <3>7. runs' = [runs EXCEPT ![t] = {}] /\ script' = [script EXCEPT ![t] = @ \ {p}]
      BY <2>1, <3>1, <3>6 DEF EndRuns
    <3>8. f.done >= file[t].done
      BY <3>3, PoolAssumption
    <3>9. Changes(p, t, f)
      BY <2>2, <3>3, <3>4, <3>5, <3>7, <3>8, SameOwner DEF Changes
    <3> QED
      BY <2>1, <2>2, <3>9
  <2> QED
    BY <2>3, <2>4
<1> QED
  BY <1>1, <1>2

\* A request is about its process, and one that is not a recovery about a task.
LEMMA RequestFields ==
  ASSUME PoolInv, NEW c \in calls
  PROVE  /\ c.to \in Epoch
         /\ c.op # "recover" => c.op \in {"run", "retry", "stop"} /\ c.task \in Task
<1>1. c \in Request
  BY DEF PoolInv, PoolTypeOK
<1>2. CASE c \in [op: {"run", "retry", "stop"}, to: Epoch, task: Task]
  BY <1>2
<1>3. CASE c \in [op: {"recover"}, to: Epoch, by: {"boot", "handoff"}]
  BY <1>3
<1> QED
  BY <1>1, <1>2, <1>3 DEF Request

\* A step of a process on tasks lets all rest, or is one it is entitled to.
LEMMA WorkForms ==
  ASSUME PoolInv, NEW p \in Pid, Works(p)
  PROVE  Bounded(p) /\ (Rests \/ \E t \in Task : Acts(p, t))
<1>1. ASSUME NEW t \in Task, NEW op \in {"run", "retry", "stop"}, AtWork(p),
             p = 0 => Main(t, file[t]), p # 0 => t \notin takeover, Perform(p, op, t)
      PROVE  Rests \/ Acts(p, t)
  <2>1. /\ timers' \subseteq timers
        /\ UNCHANGED runVars \/ (Entitled(p, t) /\ \E f : Changes(p, t, f))
    BY <1>1, RunActs, RetryActs, StopActs
  <2> QED
    BY <2>1 DEF Rests, Acts
<1>2. ASSUME NEW c \in calls, c.to = p, Deliver(c)
      PROVE  Bounded(p) /\ (Rests \/ \E t \in Task : Acts(p, t))
  <2>1. p \in Epoch /\ p # 0 /\ AtWork(p)
    <3>1. c.to \in Epoch /\ proc[c.to] = "serving"
      <4>1. proc[c.to] = "serving"
        BY <1>2 DEF Deliver
      <4> QED
        BY <4>1, RequestFields
    <3> QED
      BY <1>2, <3>1, Pids DEF AtWork, Busy
  <2>2. CASE c.op = "recover"
    <3>1. Bounded(p)
      BY <1>2, <2>2 DEF Deliver, Bounded, PoolInv, PoolTypeOK
    <3>2. Rests
      BY <1>2, <2>2 DEF Deliver, Rests
    <3> QED
      BY <3>1, <3>2
  <2>3. CASE c.op # "recover"
    <3>1. c.op \in {"run", "retry", "stop"} /\ c.task \in Task /\ c.task \notin takeover
      BY <2>3, RequestFields DEF PoolInv, Claims
    <3>2. Bounded(p)
      BY <1>2, <2>3 DEF Deliver, Bounded, PoolInv, PoolTypeOK
    <3>3. Perform(p, c.op, c.task)
      BY <1>2, <2>3 DEF Deliver
    <3> QED
      BY <1>1, <2>1, <3>1, <3>2, <3>3
  <2> QED
    BY <2>2, <2>3
<1>3. ASSUME NEW t \in Task, NEW op \in {"run", "retry", "stop"}, p = 0, ~Delegated(t),
             Operate(op, t)
      PROVE  Bounded(p) /\ (Rests \/ Acts(p, t))
  <2>1. Perform(0, op, t) /\ UNCHANGED <<calls, todo>> /\ phase = "up"
    BY <1>3 DEF Operate
  <2>2. Main(t, file[t]) /\ AtWork(p)
    BY <1>3, <2>1 DEF Delegated, Main, AtWork, PoolInv, PoolTypeOK
  <2>3. Bounded(p)
    BY <1>3, <2>1 DEF Operate, Bounded, PoolInv, PoolTypeOK
  <2> QED
    BY <1>1, <1>3, <2>1, <2>2, <2>3
<1> QED
  BY <1>2, <1>3, RecoverActs, TimerActs, CheckpointActs, FinishActs DEF Works

LEMMA WorksAtWork ==
  ASSUME PoolInv, NEW p \in Pid, Works(p)
  PROVE  AtWork(p)
<1>1. ASSUME NEW c \in calls, c.to = p, Deliver(c) PROVE AtWork(p)
  <2>1. proc[p] = "serving" /\ p \in Epoch
    BY <1>1, RequestFields DEF Deliver
  <2> QED
    BY <1>1, <2>1, Pids DEF AtWork, Busy
<1>2. ASSUME NEW t \in Task, Checkpoint(p, t) PROVE AtWork(p)
  BY <1>2, RunnerEntitled DEF Checkpoint, Running, Entitled
<1>3. ASSUME NEW t \in Task, NEW st, Finish(p, t, st) PROVE AtWork(p)
  BY <1>3, RunnerEntitled DEF Finish, Running, Entitled
<1>4. ASSUME NEW t \in Task, TimerFires(p, t) PROVE AtWork(p)
  BY <1>4, RunnerEntitled DEF TimerFires, Entitled
<1>5. ASSUME NEW t \in Task, RecoverTask(p, t) PROVE AtWork(p)
  BY <1>5 DEF RecoverTask, AtWork, Busy, PoolInv, Working
<1>6. ASSUME NEW t \in Task, NEW op, p = 0, Operate(op, t) PROVE AtWork(p)
  BY <1>6 DEF Operate, AtWork
<1> QED
  BY <1>1, <1>2, <1>3, <1>4, <1>5, <1>6 DEF Works

-----------------------------------------------------------------------------
(***************************************************************************)
(* Steps of a process on tasks keep the invariant.                         *)
(***************************************************************************)
WorkStep(p) == AtWork(p) /\ Bounded(p) /\ (Rests \/ \E t \in Task : Acts(p, t))

\* Who runs a task after such a step: p, or whoever ran it before.
LEMMA RunsAfter ==
  ASSUME PoolInv, NEW p \in Pid, WorkStep(p)
  PROVE  /\ runs' \in [Task -> SUBSET [pid : Pid, img : Image]]
         /\ script' \in [Task -> SUBSET Pid] /\ file' \in [Task -> Image]
         /\ timers' \subseteq Pid \X Task
         /\ \A q \in Pid \ {p}, u \in Task :
              /\ Running(q, u)' => Running(q, u)
              /\ <<q, u>> \in timers' => <<q, u>> \in timers
              /\ q \in script'[u] => q \in script[u]
<1>1. /\ runs \in [Task -> SUBSET [pid : Pid, img : Image]]
      /\ script \in [Task -> SUBSET Pid] /\ file \in [Task -> Image]
      /\ timers \subseteq Pid \X Task
  BY DEF PoolInv, PoolTypeOK
<1>2. CASE Rests
  BY <1>1, <1>2 DEF Rests, runVars, Running
<1>3. ASSUME NEW t \in Task, Acts(p, t)
      PROVE  /\ runs' \in [Task -> SUBSET [pid : Pid, img : Image]]
             /\ script' \in [Task -> SUBSET Pid] /\ file' \in [Task -> Image]
             /\ timers' \subseteq Pid \X Task
             /\ \A q \in Pid \ {p}, u \in Task :
                  /\ Running(q, u)' => Running(q, u)
                  /\ <<q, u>> \in timers' => <<q, u>> \in timers
                  /\ q \in script'[u] => q \in script[u]
  <2>1. PICK f : Changes(p, t, f)
    BY <1>3 DEF Acts
  <2>2. file' \in [Task -> Image] /\ timers' \subseteq Pid \X Task
    BY <1>1, <1>3, <2>1 DEF Changes, Acts
  <2>3. script' \in [Task -> SUBSET Pid]
        /\ \A q \in Pid \ {p}, u \in Task : q \in script'[u] => q \in script[u]
    BY <1>1, <2>1 DEF Changes
  <2>4. [pid |-> p, img |-> f] \in [pid : Pid, img : Image]
    BY <2>1 DEF Changes
  <2>5. runs' \in [Task -> SUBSET [pid : Pid, img : Image]]
    BY <1>1, <2>1, <2>4 DEF Changes
  <2>6. ASSUME NEW q \in Pid \ {p}, NEW u \in Task, Running(q, u)' PROVE Running(q, u)
    <3>1. PICK r \in runs'[u] : r.pid = q
      BY <2>6 DEF Running
    <3>2. r \in runs[u]
      <4>1. r # [pid |-> p, img |-> f]
        BY <3>1
      <4> QED
        BY <1>1, <2>1, <3>1, <4>1 DEF Changes
    <3> QED
      BY <3>1, <3>2 DEF Running
  <2>7. ASSUME NEW q \in Pid \ {p}, NEW u \in Task, <<q, u>> \in timers'
        PROVE  <<q, u>> \in timers
    BY <1>3, <2>7 DEF Acts
  <2> QED
    BY <2>2, <2>3, <2>5, <2>6, <2>7
<1> QED
  BY <1>2, <1>3 DEF WorkStep

\* Nobody comes to work by it.
LEMMA BusyAfter ==
  ASSUME PoolInv, NEW p \in Pid, WorkStep(p), NEW e \in Epoch, Busy(e)'
  PROVE  Busy(e)
<1>1. e \in Pid /\ e # 0
  BY Pids
<1>2. CASE e = p
  BY <1>1, <1>2 DEF WorkStep, AtWork
<1>3. CASE e # p
  <2>1. todo'[e] = todo[e] /\ calls' \subseteq calls /\ proc' = proc
    BY <1>1, <1>3 DEF WorkStep, Bounded, procVars
  <2> QED
    BY <1>1, <1>3, <2>1, RunsAfter DEF Busy
<1> QED
  BY <1>2, <1>3

LEMMA TypeAfter ==
  ASSUME PoolInv, NEW p \in Pid, WorkStep(p)
  PROVE  PoolTypeOK' /\ Phases'
<1>1. PoolTypeOK /\ Phases
  BY DEF PoolInv
<1>2. /\ UNCHANGED <<takeover, recorded, ctlVars, superVars, procVars, unwatched>>
      /\ calls' \subseteq calls /\ todo' \in [Pid -> SUBSET Task]
  BY DEF WorkStep, Bounded
<1>3. PoolTypeOK'
  BY <1>1, <1>2, RunsAfter DEF PoolTypeOK, ctlVars, superVars, procVars
<1>4. Phases'
  BY <1>1, <1>2 DEF Phases, ctlVars, superVars
<1> QED
  BY <1>3, <1>4

LEMMA SupervisedAfter ==
  ASSUME PoolInv, NEW p \in Pid, WorkStep(p)
  PROVE  Supervised'
<1>1. UNCHANGED <<phase, mode, pool, superVars, procVars>>
  BY DEF WorkStep, Bounded, ctlVars
<1>2. UNCHANGED <<status, stage, child, client, proc, home>>
  BY <1>1 DEF superVars, procVars
<1>3. ASSUME NEW m \in Member, Waiting(m)'
      PROVE  ~Busy(child[m])' /\ \A t \in Task : child'[m] \notin script'[t]
  <2>1. Waiting(m)
    BY <1>2, <1>3 DEF Waiting
  <2>2. ~Busy(child[m]) /\ child[m] \in Epoch /\ \A t \in Task : child[m] \notin script[t]
    BY <2>1 DEF PoolInv, Supervised, Waiting
  <2>3. child[m] # p /\ child[m] \in Pid
    BY <2>2, Pids DEF WorkStep, AtWork
  <2> DEFINE e == child[m]
  <2>4. e \in Epoch /\ ~Busy(e) /\ e # p /\ e \in Pid
    BY <2>2, <2>3
  <2>5. e = child'[m]
    BY <1>2
  <2>6. \A t \in Task : e \notin script'[t]
    BY <2>2, <2>3, RunsAfter
  <2>7. ASSUME NEW x \in Epoch, x = child'[m], Busy(x)' PROVE FALSE
    BY <2>4, <2>5, <2>7, BusyAfter
  <2>8. ~Busy(child[m])'
    BY <2>4, <2>5, <2>7
  <2> QED
    BY <2>5, <2>6, <2>8
<1>4. \A m \in Member : Waiting(m)' <=> Waiting(m)
  BY <1>2 DEF Waiting
<1> QED
  BY <1>1, <1>2, <1>3, <1>4 DEF PoolInv, Supervised

LEMMA WorkingAfter ==
  ASSUME PoolInv, NEW p \in Pid, WorkStep(p)
  PROVE  Leased' /\ Working'
<1>1. UNCHANGED <<phase, mode, pool, recorded, superVars, procVars>>
  BY DEF WorkStep, Bounded, ctlVars
<1>2. UNCHANGED <<status, stage, child, client, proc, home, lease>>
  BY <1>1 DEF superVars, procVars
<1>3. Leased'
  BY <1>1, <1>2 DEF PoolInv, Leased
<1>4. ASSUME NEW e \in Epoch, Busy(e)' PROVE Busy(e)
  BY <1>4, BusyAfter
<1>5. p = 0 => phase \in {"resuming", "up", "stopping"}
  BY DEF WorkStep, AtWork
<1>6. todo'[0] # {} => phase \in {"resuming", "up", "stopping"}
  BY <1>5, Pids DEF WorkStep, Bounded, PoolInv, Working
<1>7. ASSUME NEW t \in Task, Running(0, t)' \/ <<0, t>> \in timers'
      PROVE  phase \in {"resuming", "up", "stopping"}
  BY <1>5, <1>7, RunsAfter, Pids DEF PoolInv, Working
<1>8. Working'
  BY <1>1, <1>2, <1>4, <1>6, <1>7 DEF PoolInv, Working
<1> QED
  BY <1>3, <1>8

LEMMA ClaimsAfter ==
  ASSUME PoolInv, NEW p \in Pid, WorkStep(p)
  PROVE  Claims'
<1>1. /\ UNCHANGED <<mode, takeover, home>> /\ calls' \subseteq calls
  BY DEF WorkStep, Bounded, ctlVars, procVars
<1>2. /\ runs \in [Task -> SUBSET [pid : Pid, img : Image]]
      /\ script \in [Task -> SUBSET Pid] /\ file \in [Task -> Image]
  BY DEF PoolInv, PoolTypeOK
<1>3. CASE Rests
  BY <1>1, <1>3 DEF Rests, runVars, PoolInv, Claims, Main, Held
<1>4. ASSUME NEW t \in Task, Acts(p, t) PROVE Claims'
  <2>1. PICK f : Changes(p, t, f)
    BY <1>4 DEF Acts
  <2>2. /\ f \in Image /\ file'[t] = f
        /\ IF p = 0 THEN Main(t, f) /\ (t \in takeover => f.own \notin Member) ELSE Held(p, f)
    BY <1>2, <2>1 DEF Changes
  <2>3. t \in takeover => f.own \notin Member
    <3>1. p # 0 => file[t].own = f.own
      BY <1>4, <2>2 DEF Acts, Entitled, Held
    <3> QED
      BY <2>2, <3>1 DEF PoolInv, Claims
  <2>4. ASSUME NEW r \in runs'[t]
        PROVE  /\ runs'[t] = {r} /\ r.pid = p /\ r.img.done = f.done /\ r.img.st = "running"
               /\ f.st \notin Ended
               /\ IF p = 0 THEN Main(t, r.img) ELSE Held(p, r.img)
               /\ t \in takeover => r.img.own \notin Member
    <3>1. CASE /\ runs' = runs /\ f.done = file[t].done
               /\ runs[t] # {} => f.st \notin Ended
      <4>1. r \in runs[t]
        BY <3>1
      <4>2. /\ r.pid = p /\ runs[t] = {r} /\ IF p = 0 THEN Main(t, r.img) ELSE Held(p, r.img)
        BY <1>4, <4>1, Exclusive DEF Acts
      <4>3. /\ r.img.done = file[t].done /\ r.img.st = "running"
            /\ t \in takeover => r.img.own \notin Member
        BY <4>1 DEF PoolInv, Claims
      <4> QED
        BY <3>1, <4>1, <4>2, <4>3
    <3>2. CASE runs' = [runs EXCEPT ![t] = {[pid |-> p, img |-> f]}] /\ f.st = "running"
      <4>1. r = [pid |-> p, img |-> f] /\ runs'[t] = {r}
        BY <1>2, <3>2
      <4>2. f.st \notin Ended
        BY <3>2 DEF Ended
      <4> QED
        BY <2>2, <2>3, <3>2, <4>1, <4>2
    <3>3. CASE runs' = [runs EXCEPT ![t] = {}]
      BY <1>2, <3>3
    <3> QED
      BY <2>1, <3>1, <3>2, <3>3 DEF Changes
  <2>5. ASSUME NEW q \in Pid, <<q, t>> \in timers'
        PROVE  IF q = 0 THEN Main(t, f) ELSE Held(q, f)
    <3>1. q = p
      <4>1. <<q, t>> \in timers => Entitled(q, t)
        BY RunnerEntitled
      <4> QED
        BY <1>4, <2>5, <4>1, OneEntitled DEF Acts
    <3> QED
      BY <2>2, <3>1
  <2>6. ASSUME NEW u \in Task, u # t
        PROVE  /\ file'[u] = file[u] /\ runs'[u] = runs[u]
               /\ \A q \in Pid : <<q, u>> \in timers' => <<q, u>> \in timers
    <3>1. file'[u] = file[u] /\ runs'[u] = runs[u]
      BY <1>2, <2>1, <2>6 DEF Changes
    <3> QED
      BY <1>4, <2>6, <3>1 DEF Acts
  <2>7. \A g : \A u \in Task : Main(u, g)' <=> Main(u, g)
    BY <1>1 DEF Main
  <2>8. \A q, g : Held(q, g)' <=> Held(q, g)
    BY <1>1 DEF Held
  <2> QED
    BY <1>1, <2>2, <2>3, <2>4, <2>5, <2>6, <2>7, <2>8 DEF PoolInv, Claims
<1> QED
  BY <1>3, <1>4 DEF WorkStep

\* What the loop has loaded and may still save, nobody else may change.
LEMMA LoopAlone ==
  ASSUME PoolInv, NEW p \in Pid, Entitled(p, read.task), read # NoRead,
         loop = Controller \/ (read.img.own = loop /\ read.img.ep # client[loop])
  PROVE  FALSE
<1>1. read.img = file[read.task]
  BY DEF PoolInv, Current
<1>2. loop # Controller
  BY Pids DEF Entitled, AtWork, PoolInv, Phases, Working
<1>3. loop \in Member /\ file[read.task].own = loop /\ file[read.task].ep # client[loop]
  BY <1>1, <1>2 DEF PoolInv, PoolTypeOK, Phases
<1>4. mode # "inline" /\ phase \in Reigning /\ read.task \in Task
  BY <1>3 DEF PoolInv, PoolTypeOK, Phases
<1>5. p # 0
  BY <1>3, <1>4, Owners DEF Entitled, Main, PoolInv, Claims
<1>6. Busy(p) /\ home[p] = loop /\ file[read.task].ep = p /\ p \in Epoch
  BY <1>3, <1>5, Pids DEF Entitled, AtWork, Held
<1>7. mode = "process"
  BY <1>4 DEF PoolInv, PoolTypeOK
<1> QED
  BY <1>3, <1>4, <1>6, <1>7 DEF PoolInv, Working

LEMMA CurrentAfter ==
  ASSUME PoolInv, NEW p \in Pid, WorkStep(p)
  PROVE  Current'
<1>1. UNCHANGED <<loop, read, client, mode, phase, home>>
  BY DEF WorkStep, Bounded, ctlVars, superVars, procVars
<1>2. file \in [Task -> Image]
  BY DEF PoolInv, PoolTypeOK
<1>3. CASE Rests
  BY <1>1, <1>3 DEF Rests, runVars, PoolInv, Current
<1>4. ASSUME NEW t \in Task, Acts(p, t), read # NoRead,
             loop = Controller \/ (read.img.own = loop /\ read.img.ep # client[loop])
      PROVE  read.task # t
  BY <1>4, LoopAlone DEF Acts
<1>5. ASSUME NEW t \in Task, Acts(p, t) PROVE Current'
  <2>1. \A u \in Task \ {t} : file'[u] = file[u]
    BY <1>2, <1>5 DEF Acts, Changes
  <2>2. read # NoRead => read.task \in Task
    BY DEF PoolInv, PoolTypeOK
  <2> QED
    BY <1>1, <1>4, <1>5, <2>1, <2>2 DEF PoolInv, Current
<1> QED
  BY <1>3, <1>5 DEF WorkStep

LEMMA ScriptedAfter ==
  ASSUME PoolInv, NEW p \in Pid, WorkStep(p)
  PROVE  Scripted'
<1>1. UNCHANGED <<phase, child, status, proc, unwatched, mode, home>>
  BY DEF WorkStep, Bounded, ctlVars, superVars, procVars
<1>2. /\ runs \in [Task -> SUBSET [pid : Pid, img : Image]]
      /\ script \in [Task -> SUBSET Pid] /\ file \in [Task -> Image]
  BY DEF PoolInv, PoolTypeOK
<1>3. CASE Rests
  BY <1>1, <1>3 DEF Rests, runVars, PoolInv, Scripted, ToReap, Running
<1>4. ASSUME NEW t \in Task, Acts(p, t) PROVE Scripted'
  <2>1. PICK f : Changes(p, t, f)
    BY <1>4 DEF Acts
  <2>2. \A u \in Task \ {t} : file'[u] = file[u] /\ runs'[u] = runs[u] /\ script'[u] = script[u]
    BY <1>2, <2>1 DEF Changes
  <2>3. file'[t] = f
    BY <1>2, <2>1 DEF Changes
  <2>4. \A q \in script[t] : q # p => q \in unwatched
    <3> SUFFICES ASSUME NEW q \in script[t], q # p, q \notin unwatched PROVE FALSE
      OBVIOUS
    <3>1. q \in Pid
      BY <1>2
    <3>2. ~Running(q, t)
      BY <1>4, <3>1, RunnerEntitled, OneEntitled DEF Acts
    <3>3. ToReap(q, t)
      BY <3>2 DEF PoolInv, Scripted
    <3>4. file[t].own \in Member /\ status[file[t].own] # "stopped" /\ file[t].ep = q
      BY <3>3 DEF ToReap
    <3>5. mode # "inline"
      BY <3>4 DEF PoolInv, Phases
    <3> QED
      BY <1>4, <3>4, <3>5, Owners DEF Acts, Entitled, Main, Held, PoolInv, Claims
  <2>5. p \in script'[t] => p \in unwatched \/ Running(p, t)'
    <3>1. CASE runs' = runs /\ script' = script
      <4>1. proc[p] # "dead" \/ p = 0
        BY <1>4, Pids DEF Acts, Entitled, AtWork, PoolInv, Working
      <4>2. ~ToReap(p, t)
        BY <4>1 DEF ToReap
      <4> QED
        BY <3>1, <4>2 DEF PoolInv, Scripted, Running
    <3>2. CASE runs' = [runs EXCEPT ![t] = {[pid |-> p, img |-> f]}]
      <4>1. runs'[t] = {[pid |-> p, img |-> f]}
        BY <1>2, <3>2
      <4> QED
        BY <4>1 DEF Running
    <3>3. CASE script' = [script EXCEPT ![t] = @ \ {p}]
      BY <1>2, <3>3
    <3> QED
      BY <2>1, <3>1, <3>2, <3>3 DEF Changes
  <2>6. \A q \in script'[t] : q # p => q \in script[t]
    BY <1>2, <2>1 DEF Changes
  <2>7. \A u \in Task \ {t} : \A q \in script'[u] :
          \/ q \in unwatched \/ Running(q, u)'
          \/ ToReap(q, u)' /\ phase \notin {"spawning", "reconciling"}
    BY <1>1, <2>2 DEF PoolInv, Scripted, ToReap, Running
  <2> QED
    BY <1>1, <2>4, <2>5, <2>6, <2>7 DEF Scripted
<1> QED
  BY <1>3, <1>4 DEF WorkStep

LEMMA WorkKeeps ==
  ASSUME PoolInv, NEW p \in Pid, Works(p)
  PROVE  PoolInv'
<1>1. WorkStep(p)
  BY WorkForms, WorksAtWork DEF WorkStep
<1> QED
  BY <1>1, TypeAfter, SupervisedAfter, WorkingAfter, ClaimsAfter, CurrentAfter, ScriptedAfter
     DEF PoolInv

-----------------------------------------------------------------------------
(***************************************************************************)
(* Steps that touch no task, process or request.                           *)
(***************************************************************************)
workVars == <<file, takeover, runs, script, timers, todo, calls, unwatched, proc, home>>

\* Whoever was at work is still, and no one else.
LEMMA SameWork ==
  ASSUME UNCHANGED workVars
  PROVE  /\ \A q, t : Running(q, t)' <=> Running(q, t)
         /\ \A q, f : Held(q, f)' <=> Held(q, f)
         /\ \A e : Busy(e)' <=> Busy(e)
BY DEF workVars, Running, Held, Busy

LEMMA SameClaims ==
  ASSUME PoolInv, UNCHANGED workVars, UNCHANGED mode
  PROVE  Claims'
<1>1. \A t, f : Main(t, f)' <=> Main(t, f)
  BY DEF workVars, Main
<1> QED
  BY <1>1, SameWork DEF workVars, PoolInv, Claims

LEMMA StartKeeps ==
  ASSUME PoolInv, Start
  PROVE  PoolInv'
<1>1. UNCHANGED workVars
  BY DEF Start, workVars, procVars
<1>2. /\ phase = "down" /\ phase' = "leasing" /\ pool' \in Pools
      /\ mode = "inline" /\ mode' \in {"inline", "process"}
      /\ \A m \in Member : status[m] = "stopped" /\ stage[m] = "none"
  BY DEF Start, PoolInv, Phases
<1>3. /\ UNCHANGED <<recorded, boot, asked, loop, left, read, lease>>
      /\ UNCHANGED <<status, child, client, stage>>
  BY DEF Start, superVars, procVars
<1>4. PoolTypeOK'
  BY <1>1, <1>2, <1>3 DEF PoolInv, PoolTypeOK, workVars
<1>5. Phases'
  BY <1>2, <1>3 DEF PoolInv, Phases, Reigning
<1>6. Supervised'
  BY <1>1, <1>2, <1>3, SameWork DEF PoolInv, Supervised, workVars, Waiting, Reigning
<1>7. Leased' /\ Working'
  BY <1>1, <1>2, <1>3, SameWork DEF PoolInv, Leased, Working, workVars, Reigning
<1>8. Claims'
  <2>1. \A t \in Task : runs[t] = {} \/ \A r \in runs[t] : r.pid # 0
    BY <1>2 DEF PoolInv, Working, Running
  <2>2. \A t \in Task : <<0, t>> \notin timers
    BY <1>2 DEF PoolInv, Working
  <2> QED
    BY <1>1, <1>2, <2>1, <2>2, SameWork DEF PoolInv, Claims, workVars
<1>9. Current' /\ Scripted'
  BY <1>1, <1>2, <1>3, SameWork DEF PoolInv, Current, Scripted, ToReap, workVars
<1> QED
  BY <1>4, <1>5, <1>6, <1>7, <1>8, <1>9 DEF PoolInv

LEMMA AcquireFenceKeeps ==
  ASSUME PoolInv, NEW m \in Member, AcquireFence(m)
  PROVE  PoolInv'
<1>1. UNCHANGED workVars
  BY DEF AcquireFence, workVars
<1>2. phase = "leasing" /\ lease[m] = NoPid /\ lease' = [lease EXCEPT ![m] = 0]
  BY DEF AcquireFence
<1>3. /\ UNCHANGED <<recorded, phase, mode, pool, boot, asked, loop, left, read>>
      /\ UNCHANGED <<status, child, client, stage>>
  BY DEF AcquireFence, superVars, ctlVars
<1>4. PoolTypeOK'
  BY <1>1, <1>2, <1>3, Pids DEF PoolInv, PoolTypeOK, workVars
<1>5. Phases'
  BY <1>3 DEF PoolInv, Phases
<1>6. Supervised'
  BY <1>1, <1>3, SameWork DEF PoolInv, Supervised, workVars, Waiting
<1>7. Leased'
  <2>1. lease \in [Member -> Pid \cup {NoPid}]
    BY DEF PoolInv, PoolTypeOK
  <2>2. \A e \in Epoch : proc[e] \in {"serving", "closing"} => home[e] # m
    BY <1>2, Pids DEF PoolInv, Leased
  <2>3. \A e \in Epoch : home[e] \in Member
    BY DEF PoolInv, PoolTypeOK
  <2> QED
    BY <1>1, <1>2, <1>3, <2>1, <2>2, <2>3 DEF PoolInv, Leased, workVars
<1>8. Working' /\ Claims'
  BY <1>1, <1>3, SameWork, SameClaims DEF PoolInv, Working, workVars
<1>9. Current' /\ Scripted'
  BY <1>1, <1>2, <1>3, SameWork DEF PoolInv, Current, Scripted, ToReap, workVars
<1> QED
  BY <1>4, <1>5, <1>6, <1>7, <1>8, <1>9 DEF PoolInv

LEMMA PoolStartedKeeps ==
  ASSUME PoolInv, PoolStarted
  PROVE  PoolInv'
<1>1. UNCHANGED workVars
  BY DEF PoolStarted, workVars, procVars
<1>2. /\ phase = "spawning" /\ \A m \in pool : status[m] \notin {"stopped", "starting"}
      /\ recorded' = pool /\ phase' = "reconciling" /\ loop' = Controller /\ left' = Task
  BY DEF PoolStarted
<1>3. /\ UNCHANGED <<mode, pool, boot, asked, read, lease>>
      /\ UNCHANGED <<status, child, client, stage>>
  BY DEF PoolStarted, superVars, procVars
<1>4. mode = "process" /\ pool \in Pools /\ read = NoRead /\ boot = {} /\ asked = Nobody
  <2>1. loop \notin Member /\ loop # Controller
    BY <1>2 DEF PoolInv, Phases, Reigning
  <2> QED
    BY <1>2, <2>1 DEF PoolInv, Phases, PoolTypeOK
<1>5. PoolTypeOK'
  BY <1>1, <1>2, <1>3, <1>4 DEF PoolInv, PoolTypeOK, workVars
<1>6. Phases'
  BY <1>2, <1>3, <1>4, Owners DEF PoolInv, Phases, Reigning
<1>7. Supervised'
  <2>1. \A m \in pool : status[m] \in {"ready", "restarting"}
    BY <1>2, <1>4, Owners DEF PoolInv, PoolTypeOK
  <2>2. \A m \in Member : status[m] # "starting"
    BY <1>2 DEF PoolInv, Supervised
  <2> QED
    BY <1>1, <1>2, <1>3, <2>1, <2>2, SameWork DEF PoolInv, Supervised, workVars, Waiting, Reigning
<1>8. \A e \in Epoch : ~Busy(e)
  <2> SUFFICES ASSUME NEW e \in Epoch, Busy(e) PROVE FALSE
    OBVIOUS
  <2>1. /\ proc[e] \in {"serving", "closing"} /\ home[e] \in recorded /\ home[e] \in Member
        /\ status[home[e]] \notin {"ready", "restarting"}
    BY <1>2 DEF PoolInv, Working, PoolTypeOK
  <2>2. home[e] \notin pool
    BY <1>2, <2>1 DEF PoolInv, PoolTypeOK
  <2> QED
    BY <1>2, <2>1, <2>2, Pids DEF PoolInv, Leased
<1>9. Leased' /\ Working' /\ Claims'
  BY <1>1, <1>2, <1>3, <1>4, <1>8, SameWork, SameClaims
     DEF PoolInv, Leased, Working, workVars
<1>10. Current' /\ Scripted'
  BY <1>1, <1>2, <1>3, <1>4, SameWork DEF PoolInv, Current, Scripted, ToReap, workVars
<1> QED
  BY <1>5, <1>6, <1>7, <1>9, <1>10 DEF PoolInv

LEMMA ReadyKeeps ==
  ASSUME PoolInv, NEW m \in Member, Ready(m)
  PROVE  PoolInv'
<1>1. UNCHANGED workVars /\ UNCHANGED mode
  BY DEF Ready, workVars, procVars, ctlVars
<1>2. /\ Free /\ stage[m] = "none" /\ status[m] \in {"starting", "restarting"}
      /\ proc[child[m]] = "serving" /\ client' = [client EXCEPT ![m] = child[m]]
      /\ \/ /\ status[m] = "restarting" /\ phase # "spawning"
            /\ stage' = [stage EXCEPT ![m] = "reassign"] /\ UNCHANGED status
         \/ /\ status[m] = "starting" \/ phase = "spawning"
            /\ status' = [status EXCEPT ![m] = "ready"] /\ UNCHANGED stage
  BY DEF Ready
<1>3. /\ UNCHANGED <<recorded, phase, pool, boot, asked, loop, left, read, lease, child>>
  BY DEF Ready, ctlVars, procVars
<1>4. /\ child[m] \in Epoch /\ home[child[m]] = m /\ m \in pool /\ mode # "inline"
      /\ Waiting(m) /\ ~Busy(child[m]) /\ lease[m] = child[m] /\ phase # "leasing"
  BY <1>2 DEF PoolInv, Supervised, Leased, Phases, Waiting
<1>5. PoolTypeOK'
  BY <1>1, <1>2, <1>3, <1>4, Pids DEF PoolInv, PoolTypeOK, workVars
<1>6. Phases'
  BY <1>1, <1>2, <1>3, <1>4 DEF PoolInv, PoolTypeOK, Phases, Free
<1>7. Supervised'
  BY <1>1, <1>2, <1>3, <1>4, SameWork DEF PoolInv, PoolTypeOK, Supervised, workVars, Waiting
<1>8. Leased' /\ Claims'
  BY <1>1, <1>3, SameClaims DEF PoolInv, Leased, workVars
<1>9. Working'
  <2> SUFFICES ASSUME NEW e \in Epoch, Busy(e)
               PROVE  /\ phase = "spawning" => status'[home[e]] \notin {"ready", "restarting"}
                      /\ mode = "process" /\ phase \in Reigning => e = client'[home[e]]
    BY <1>1, <1>3, SameWork DEF PoolInv, Working, workVars
  <2>1. home[e] # m
    <3>1. proc[e] \in {"serving", "closing"}
      BY DEF PoolInv, Working
    <3> QED
      BY <1>4, <3>1 DEF PoolInv, Leased
  <2> QED
    BY <1>2, <2>1 DEF PoolInv, PoolTypeOK, Working
<1>10. Current'
  BY <1>1, <1>2, <1>3 DEF PoolInv, Current, Phases, Free, workVars
<1>11. Scripted'
  BY <1>1, <1>2, <1>3, SameWork DEF PoolInv, PoolTypeOK, Scripted, ToReap, workVars
<1> QED
  BY <1>5, <1>6, <1>7, <1>8, <1>9, <1>10, <1>11 DEF PoolInv

LEMMA BeginReassignKeeps ==
  ASSUME PoolInv, NEW m \in Member, BeginReassign(m)
  PROVE  PoolInv'
<1>1. UNCHANGED workVars /\ UNCHANGED mode
  BY DEF BeginReassign, workVars, procVars
<1>2. /\ loop = Nobody /\ phase # "stopping" /\ stage[m] = "reassign" /\ loop' = m /\ left' = Task
  BY DEF BeginReassign, Free
<1>3. /\ UNCHANGED <<recorded, phase, pool, boot, asked, read, lease>>
      /\ UNCHANGED <<status, child, client, stage>>
  BY DEF BeginReassign, superVars, procVars
<1>4. read = NoRead /\ m # Controller /\ m # Nobody /\ phase # "reconciling"
  BY <1>2, Owners DEF PoolInv, Phases
<1>5. phase \in Reigning
  <2>1. phase \notin {"down", "leasing", "spawning"}
    BY <1>2 DEF PoolInv, Phases
  <2> QED
    BY <1>2, <1>4, <2>1 DEF PoolInv, PoolTypeOK, Reigning
<1>6. PoolTypeOK'
  BY <1>1, <1>2, <1>3 DEF PoolInv, PoolTypeOK, workVars
<1>7. Phases'
  BY <1>1, <1>2, <1>3, <1>4, <1>5 DEF PoolInv, Phases
<1>8. Supervised'
  BY <1>1, <1>3, SameWork DEF PoolInv, Supervised, workVars, Waiting
<1>9. Leased' /\ Working' /\ Claims'
  BY <1>1, <1>3, SameWork, SameClaims DEF PoolInv, Leased, Working, workVars
<1>10. Current' /\ Scripted'
  BY <1>1, <1>3, <1>4, SameWork DEF PoolInv, Current, Scripted, ToReap, workVars
<1> QED
  BY <1>6, <1>7, <1>8, <1>9, <1>10 DEF PoolInv

LEMMA ReadTaskKeeps ==
  ASSUME PoolInv, NEW t \in Task, ReadTask(t)
  PROVE  PoolInv'
<1>1. UNCHANGED workVars /\ UNCHANGED mode
  BY DEF ReadTask, workVars, procVars
<1>2. /\ loop # Nobody /\ read' = [task |-> t, img |-> file[t]] /\ left' = left \ {t}
  BY DEF ReadTask
<1>3. /\ UNCHANGED <<recorded, phase, pool, boot, asked, loop, lease>>
      /\ UNCHANGED <<status, child, client, stage>>
  BY DEF ReadTask, superVars, procVars
<1>4. read'.task = t /\ read'.img = file[t] /\ file[t] \in Image
  BY <1>2 DEF PoolInv, PoolTypeOK
<1>5. PoolTypeOK'
  <2>1. read' \in [task : Task, img : Image]
    BY <1>2, <1>4
  <2> QED
    BY <1>1, <1>2, <1>3, <2>1 DEF PoolInv, PoolTypeOK, workVars
<1>6. Phases'
  BY <1>1, <1>2, <1>3 DEF PoolInv, Phases
<1>7. Supervised'
  BY <1>1, <1>3, SameWork DEF PoolInv, Supervised, workVars, Waiting
<1>8. Leased' /\ Working' /\ Claims'
  BY <1>1, <1>3, SameWork, SameClaims DEF PoolInv, Leased, Working, workVars
<1>9. Current' /\ Scripted'
  BY <1>1, <1>3, <1>4, SameWork DEF PoolInv, Current, Scripted, ToReap, workVars
<1> QED
  BY <1>5, <1>6, <1>7, <1>8, <1>9 DEF PoolInv

\* The Controller waits for a member, hears from it, opens.
LEMMA AnswersKeep ==
  ASSUME PoolInv, BootAnswered \/ Open \/ Fenced \/ OwnTasks
  PROVE  PoolInv'
<1>1. /\ UNCHANGED <<file, takeover, runs, script, timers, calls, unwatched, proc, home>>
      /\ UNCHANGED <<mode, recorded, pool, boot, loop, left, read, lease>>
      /\ UNCHANGED <<status, child, client, stage>>
  BY DEF BootAnswered, Open, Fenced, OwnTasks, superVars, procVars
<1>2. /\ \/ UNCHANGED phase
         \/ phase = "resuming" /\ phase' = "up"
         \/ /\ phase = "leasing" /\ mode = "inline" /\ phase' = "resuming"
            /\ \A m \in recorded \cup pool : lease[m] = 0
         \/ /\ phase = "leasing" /\ mode # "inline" /\ phase' = "spawning"
            /\ \A m \in recorded \ pool : lease[m] = 0
         \/ phase = "recovering" /\ phase' = "resuming" /\ boot = {} /\ asked = Nobody
      /\ asked' \in {asked, Nobody}
      /\ \/ UNCHANGED todo
         \/ todo' = [todo EXCEPT ![0] = Task] /\ phase' = "resuming"
  BY DEF BootAnswered, Open, Fenced, OwnTasks, Fence
<1>3. /\ todo' \in [Pid -> SUBSET Task] /\ \A e \in Epoch : todo'[e] = todo[e]
      /\ todo'[0] # {} => todo[0] # {} \/ phase' = "resuming"
  BY <1>2, Pids DEF PoolInv, PoolTypeOK
<1>4. \A q, t : Running(q, t)' <=> Running(q, t)
  BY <1>1 DEF Running
<1>5. \A e \in Epoch : Busy(e)' <=> Busy(e)
  BY <1>1, <1>3, <1>4 DEF Busy
<1>6. PoolTypeOK'
  BY <1>1, <1>2, <1>3 DEF PoolInv, PoolTypeOK
<1>7. Phases'
  BY <1>1, <1>2 DEF PoolInv, PoolTypeOK, Phases, Reigning
<1>8. phase \in {"leasing", "recovering", "resuming"} \/ UNCHANGED phase
  BY <1>2
<1>9. Supervised'
  <2>1. \A m \in Member : Waiting(m) => child[m] \in Epoch
    BY DEF PoolInv, Supervised, Waiting
  <2>2. \A m \in Member : Waiting(m)' <=> Waiting(m)
    BY <1>1 DEF Waiting
  <2>3. \A m \in Member : Waiting(m) => ~(Busy(child[m])')
    BY <1>1, <1>5, <2>1 DEF PoolInv, Supervised
  <2>4. phase = "leasing" => \A m \in Member : status[m] = "stopped"
    BY DEF PoolInv, Phases
  <2> QED
    BY <1>1, <1>2, <2>2, <2>3, <2>4 DEF PoolInv, Supervised, Reigning
<1>10. Leased'
  <2>1. phase = "recovering" => mode # "inline"
    BY DEF PoolInv, Phases
  <2> QED
    BY <1>1, <1>2, <2>1 DEF PoolInv, Leased
<1>11. Working'
  <2>1. phase' \in {"resuming", "up"} \/ phase' = phase \/ phase' = "spawning"
    BY <1>2
  <2>2. phase' = "spawning" => \A m \in Member : status[m] = "stopped"
                               \/ UNCHANGED phase
    BY <1>2 DEF PoolInv, Phases
  <2>3. mode = "process" /\ phase' \in Reigning => phase \in Reigning
    BY <1>2 DEF Reigning
  <2>4. ASSUME NEW e \in Epoch, Busy(e)
        PROVE  /\ proc'[e] \in {"serving", "closing"} /\ home'[e] \in recorded'
               /\ phase' = "spawning" => status'[home'[e]] \notin {"ready", "restarting"}
               /\ phase' # "reconciling"
               /\ mode' = "process" /\ phase' \in Reigning => e = client'[home'[e]]
    <3>1. home[e] \in Member
      BY DEF PoolInv, PoolTypeOK
    <3> QED
      BY <1>1, <2>1, <2>2, <2>3, <2>4, <3>1 DEF PoolInv, Working
  <2>5. phase \in {"resuming", "up", "stopping"} => phase' \in {"resuming", "up", "stopping"}
    BY <1>2
  <2>6. todo'[0] # {} => phase' \in {"resuming", "up", "stopping"}
    BY <1>3, <2>5 DEF PoolInv, Working
  <2>7. ASSUME NEW t \in Task, Running(0, t)' \/ <<0, t>> \in timers'
        PROVE  phase' \in {"resuming", "up", "stopping"}
    BY <1>1, <1>4, <2>5, <2>7 DEF PoolInv, Working
  <2> QED
    BY <1>5, <2>4, <2>6, <2>7 DEF Working
<1>12. Claims' /\ Current'
  BY <1>1 DEF PoolInv, Claims, Current, Main, Held
<1>13. Scripted'
  BY <1>1, <1>2, <1>4 DEF PoolInv, Phases, Scripted, ToReap
<1> QED
  BY <1>6, <1>7, <1>9, <1>10, <1>11, <1>12, <1>13 DEF PoolInv

LEMMA HandingOverKeeps ==
  ASSUME PoolInv, NEW m \in Member, HandedOver(m) \/ HandOverTimesOut(m)
  PROVE  PoolInv'
<1>1. UNCHANGED workVars /\ UNCHANGED mode
  BY DEF HandedOver, HandOverTimesOut, workVars, procVars, ctlVars
<1>2. /\ loop = Nobody /\ stage[m] = "await"
      /\ \/ /\ stage' = [stage EXCEPT ![m] = "none"] /\ status' = [status EXCEPT ![m] = "ready"]
         \/ stage' = [stage EXCEPT ![m] = "reassign"] /\ UNCHANGED status
  BY DEF HandedOver, HandOverTimesOut, Free
<1>3. UNCHANGED <<recorded, phase, pool, boot, asked, loop, left, read, lease, child, client>>
  BY DEF HandedOver, HandOverTimesOut, ctlVars, procVars
<1>4. /\ status[m] = "restarting" /\ mode # "inline" /\ phase \notin {"leasing", "spawning"}
      /\ client[m] = child[m] /\ proc[child[m]] # "locking"
  BY <1>2 DEF PoolInv, Supervised, Phases
<1>5. PoolTypeOK'
  BY <1>1, <1>2, <1>3 DEF PoolInv, PoolTypeOK, workVars
<1>6. Phases'
  BY <1>1, <1>2, <1>3, <1>4, Owners DEF PoolInv, PoolTypeOK, Phases
<1>7. Supervised'
  BY <1>1, <1>2, <1>3, <1>4, SameWork DEF PoolInv, PoolTypeOK, Supervised, workVars, Waiting
<1>8. Leased' /\ Working' /\ Claims'
  BY <1>1, <1>3, <1>4, SameWork, SameClaims DEF PoolInv, Leased, Working, workVars
<1>9. Current' /\ Scripted'
  BY <1>1, <1>2, <1>3, SameWork DEF PoolInv, PoolTypeOK, Current, Scripted, ToReap, workVars
<1> QED
  BY <1>5, <1>6, <1>7, <1>8, <1>9 DEF PoolInv

-----------------------------------------------------------------------------
(***************************************************************************)
(* Processes and supervisors.                                              *)
(***************************************************************************)
\* The Controller stops its supervisors, after it was up or while it starts.
LEMMA StoppingKeeps ==
  ASSUME PoolInv, Stop \/ BootFails
  PROVE  PoolInv'
<1>1. /\ UNCHANGED <<file, takeover, runs, script, timers, todo, calls, unwatched, home, lease>>
      /\ UNCHANGED <<mode, recorded, pool>>
      /\ UNCHANGED <<status, child, client, stage>>
  BY DEF Stop, BootFails, superVars
<1>2. /\ proc' = Closing /\ phase \in {"spawning", "reconciling", "recovering", "up"}
      /\ phase' = "stopping" /\ left' \subseteq Task
  BY DEF Stop, BootFails, PoolInv, PoolTypeOK
<1>3. boot' = {} /\ asked' = Nobody /\ loop' = Nobody /\ read' = NoRead
  <2>1. CASE BootFails
    BY <2>1 DEF BootFails
  <2>2. CASE Stop
    <3>1. loop = Nobody /\ phase = "up" /\ UNCHANGED <<boot, asked, loop, read>>
      BY <2>2 DEF Stop, Free
    <3> QED
      BY <3>1 DEF PoolInv, Phases
  <2> QED
    BY <2>1, <2>2
<1>4. /\ proc' \in [Epoch -> {"locking", "serving", "closing", "dead"}]
      /\ \A e \in Epoch :
           /\ proc[e] \in {"serving", "closing"} => proc'[e] \in {"serving", "closing"}
           /\ proc'[e] \in {"serving", "closing"} => proc[e] \in {"serving", "closing"}
           /\ proc[e] = "dead" => proc'[e] = "dead"
           /\ proc[e] # "locking" => proc'[e] # "locking"
  BY <1>2 DEF Closing, PoolInv, PoolTypeOK
<1>5. \A q, t : Running(q, t)' <=> Running(q, t)
  BY <1>1 DEF Running
<1>6. \A e \in Epoch : Busy(e)' => Busy(e)
  BY <1>1, <1>4, <1>5 DEF Busy
<1>7. PoolTypeOK'
  BY <1>1, <1>2, <1>3, <1>4 DEF PoolInv, PoolTypeOK
<1>8. Phases'
  BY <1>1, <1>2, <1>3, Owners DEF PoolInv, Phases, Reigning
<1>9. Supervised'
  <2>1. ASSUME NEW m \in Member, Waiting(m)
        PROVE  ~(Busy(child[m])') /\ \A t \in Task : child'[m] \notin script'[t]
    <3>1. child[m] \in Epoch /\ ~Busy(child[m]) /\ \A t \in Task : child[m] \notin script[t]
      BY <2>1 DEF PoolInv, Supervised, Waiting
    <3> QED
      BY <1>1, <1>6, <3>1
  <2>2. \A m \in Member : Waiting(m)' <=> Waiting(m)
    BY <1>1 DEF Waiting
  <2>3. ASSUME NEW m \in Member
        PROVE  /\ status[m] # "stopped" => m \in pool /\ child[m] \in Epoch
               /\ child[m] \in Epoch /\ proc'[child[m]] # "dead" => home[child[m]] = m
               /\ status[m] \in {"ready", "restarting"} => client[m] \in Epoch
               /\ stage[m] # "none" => status[m] = "restarting"
               /\ status[m] = "ready" \/ stage[m] # "none" =>
                    client[m] = child[m] /\ proc'[child[m]] # "locking"
               /\ client[m] \in Epoch /\ proc'[client[m]] # "dead" =>
                    client[m] = child[m] /\ status[m] # "stopped" /\ ~Waiting(m)
    BY <1>4 DEF PoolInv, Supervised
  <2> QED
    BY <1>1, <1>2, <2>1, <2>2, <2>3 DEF Supervised, Reigning
<1>10. Leased' /\ Working'
  BY <1>1, <1>2, <1>4, <1>5, <1>6 DEF PoolInv, Phases, Leased, Working, Reigning
<1>11. Claims' /\ Current'
  BY <1>1, <1>3 DEF PoolInv, Claims, Current, Main, Held
<1>12. Scripted'
  BY <1>1, <1>2, <1>4, <1>5, Pids DEF PoolInv, PoolTypeOK, Scripted, ToReap
<1> QED
  BY <1>7, <1>8, <1>9, <1>10, <1>11, <1>12 DEF PoolInv

LEMMA ParentGoneKeeps ==
  ASSUME PoolInv, NEW p \in Epoch, ParentGone(p)
  PROVE  PoolInv'
<1>1. /\ UNCHANGED <<file, takeover, runs, script, timers, todo, calls, unwatched, home, lease>>
      /\ UNCHANGED <<mode, recorded, pool, phase, boot, asked, loop, left, read>>
      /\ UNCHANGED <<status, child, client, stage>>
  BY DEF ParentGone, superVars, ctlVars
<1>2. proc[p] = "serving" /\ proc' = [proc EXCEPT ![p] = "closing"]
  BY DEF ParentGone
<1>3. /\ proc' \in [Epoch -> {"locking", "serving", "closing", "dead"}]
      /\ \A e \in Epoch :
           /\ proc[e] \in {"serving", "closing"} <=> proc'[e] \in {"serving", "closing"}
           /\ proc[e] = "dead" <=> proc'[e] = "dead"
           /\ proc[e] = "locking" <=> proc'[e] = "locking"
  BY <1>2 DEF PoolInv, PoolTypeOK
<1>4. \A q, t : Running(q, t)' <=> Running(q, t)
  BY <1>1 DEF Running
<1>5. \A e \in Epoch : Busy(e)' <=> Busy(e)
  BY <1>1, <1>3, <1>4 DEF Busy
<1>6. PoolTypeOK' /\ Phases'
  BY <1>1, <1>3 DEF PoolInv, PoolTypeOK, Phases
<1>7. Supervised'
  <2>1. \A m \in Member : Waiting(m) => child[m] \in Epoch
    BY DEF PoolInv, Supervised, Waiting
  <2>2. \A m \in Member : Waiting(m) => ~(Busy(child[m])')
    BY <1>1, <1>5, <2>1 DEF PoolInv, Supervised
  <2>3. \A m \in Member : Waiting(m)' <=> Waiting(m)
    BY <1>1 DEF Waiting
  <2>4. ASSUME NEW m \in Member
        PROVE  /\ child[m] \in Epoch /\ proc'[child[m]] # "dead" => home[child[m]] = m
               /\ status[m] = "ready" \/ stage[m] # "none" =>
                    client[m] = child[m] /\ proc'[child[m]] # "locking"
               /\ client[m] \in Epoch /\ proc'[client[m]] # "dead" =>
                    client[m] = child[m] /\ status[m] # "stopped" /\ ~Waiting(m)
    BY <1>3 DEF PoolInv, Supervised
  <2> QED
    BY <1>1, <2>2, <2>3, <2>4 DEF PoolInv, Supervised
<1>8. Leased' /\ Working' /\ Claims' /\ Current'
  BY <1>1, <1>3, <1>4, <1>5 DEF PoolInv, Leased, Working, Claims, Current, Main, Held
<1>9. Scripted'
  BY <1>1, <1>3, <1>4, Pids DEF PoolInv, PoolTypeOK, Scripted, ToReap
<1> QED
  BY <1>6, <1>7, <1>8, <1>9 DEF PoolInv

LEMMA LockKeeps ==
  ASSUME PoolInv, NEW p \in Epoch, Lock(p)
  PROVE  PoolInv'
<1>1. /\ UNCHANGED <<file, takeover, runs, script, timers, todo, calls, unwatched, home>>
      /\ UNCHANGED <<mode, recorded, pool, phase, boot, asked, loop, left, read>>
      /\ UNCHANGED <<status, child, client, stage>>
  BY DEF Lock, superVars, ctlVars
<1>2. /\ proc[p] = "locking" /\ proc' = [proc EXCEPT ![p] = "serving"]
      /\ lease[home[p]] = NoPid /\ lease' = [lease EXCEPT ![home[p]] = p]
  BY DEF Lock
<1>3. /\ proc' \in [Epoch -> {"locking", "serving", "closing", "dead"}]
      /\ \A e \in Epoch :
           /\ proc[e] \in {"serving", "closing"} => proc'[e] \in {"serving", "closing"}
           /\ proc[e] = "dead" <=> proc'[e] = "dead"
           /\ proc'[e] = "locking" => proc[e] = "locking"
           /\ e # p => proc'[e] = proc[e]
  BY <1>2 DEF PoolInv, PoolTypeOK
<1>4. \A q, t : Running(q, t)' <=> Running(q, t)
  BY <1>1 DEF Running
<1>5. \A e \in Epoch : Busy(e)' <=> Busy(e)
  BY <1>1, <1>3, <1>4 DEF Busy
<1>6. PoolTypeOK' /\ Phases'
  <2>1. lease' \in [Member -> Pid \cup {NoPid}]
    BY <1>2, Pids DEF PoolInv, PoolTypeOK
  <2> QED
    BY <1>1, <1>3, <2>1 DEF PoolInv, PoolTypeOK, Phases
<1>7. Supervised'
  <2>1. \A m \in Member : Waiting(m) => child[m] \in Epoch
    BY DEF PoolInv, Supervised, Waiting
  <2>2. \A m \in Member : Waiting(m) => ~(Busy(child[m])')
    BY <1>1, <1>5, <2>1 DEF PoolInv, Supervised
  <2>3. \A m \in Member : Waiting(m)' <=> Waiting(m)
    BY <1>1 DEF Waiting
  <2>4. ASSUME NEW m \in Member
        PROVE  /\ child[m] \in Epoch /\ proc'[child[m]] # "dead" => home[child[m]] = m
               /\ status[m] = "ready" \/ stage[m] # "none" =>
                    client[m] = child[m] /\ proc'[child[m]] # "locking"
               /\ client[m] \in Epoch /\ proc'[client[m]] # "dead" =>
                    client[m] = child[m] /\ status[m] # "stopped" /\ ~Waiting(m)
    BY <1>3 DEF PoolInv, Supervised
  <2> QED
    BY <1>1, <2>2, <2>3, <2>4 DEF PoolInv, Supervised
<1>8. Leased'
  <2>1. lease \in [Member -> Pid \cup {NoPid}] /\ home \in [Epoch -> Member]
    BY DEF PoolInv, PoolTypeOK
  <2>2. \A e \in Epoch : e # p /\ proc[e] \in {"serving", "closing"} => home[e] # home[p]
    BY <1>2, Pids DEF PoolInv, Leased
  <2>3. ASSUME NEW e \in Epoch, proc'[e] \in {"serving", "closing"}
        PROVE  lease'[home[e]] = e
    BY <1>2, <1>3, <2>1, <2>2, <2>3 DEF PoolInv, Leased
  <2>4. \A m \in Member : lease[m] = 0 => lease'[m] = 0
    BY <1>2, <2>1, Pids
  <2>5. recorded \subseteq Member /\ pool \subseteq Member
    BY Owners DEF PoolInv, PoolTypeOK
  <2> QED
    BY <1>1, <2>3, <2>4, <2>5 DEF PoolInv, Leased
<1>9. Working' /\ Claims' /\ Current'
  BY <1>1, <1>3, <1>4, <1>5 DEF PoolInv, Working, Claims, Current, Main, Held
<1>10. Scripted'
  BY <1>1, <1>3, <1>4, Pids DEF PoolInv, PoolTypeOK, Scripted, ToReap
<1> QED
  BY <1>6, <1>7, <1>8, <1>9, <1>10 DEF PoolInv

\* What a process leaves behind: none of its work, and files no one else works on.
LEMMA ExitForms ==
  ASSUME PoolInv, NEW p \in Epoch, Killed(p) \/ CloseDone(p)
  PROVE  /\ UNCHANGED <<takeover, recorded, ctlVars, superVars>>
         /\ proc[p] # "dead" /\ Exit(p)
         /\ file' \in [Task -> Image]
         /\ script' \in [Task -> SUBSET Pid] /\ unwatched' \subseteq Pid
         /\ \A t \in Task :
              \/ file'[t] = file[t]
              \/ /\ Running(p, t) /\ file'[t].own = file[t].own /\ file'[t].ep = file[t].ep
                 /\ file'[t].done = file[t].done
         /\ unwatched \subseteq unwatched'
         /\ \A t \in Task : \A q \in script'[t] :
              q \in script[t] /\ (q = p => proc'[p] = "dead" /\ (Watched(p) \/ p \in unwatched'))
<1>1. p \in Pid /\ p # 0 /\ file \in [Task -> Image] /\ script \in [Task -> SUBSET Pid]
      /\ proc \in [Epoch -> {"locking", "serving", "closing", "dead"}] /\ unwatched \subseteq Pid
  BY Pids DEF PoolInv, PoolTypeOK
<1>2. CASE Killed(p)
  <2>1. /\ Exit(p) /\ UNCHANGED <<file, takeover, recorded, ctlVars, superVars, script>>
        /\ unwatched' = IF Watched(p) THEN unwatched ELSE unwatched \cup {p}
        /\ proc[p] \in {"locking", "serving", "closing"}
    BY <1>2 DEF Killed
  <2>2. proc'[p] = "dead"
    BY <1>1, <2>1 DEF Exit
  <2> QED
    BY <1>1, <2>1, <2>2
<1>3. CASE CloseDone(p)
  <2>1. /\ Exit(p) /\ UNCHANGED <<takeover, recorded, ctlVars, superVars, unwatched>>
        /\ file' = Cancelled(p) /\ script' = [t \in Task |-> script[t] \ {p}]
        /\ proc[p] = "closing"
    BY <1>3 DEF CloseDone
  <2>2. ASSUME NEW t \in Task
        PROVE  /\ file'[t] \in Image
               /\ \/ file'[t] = file[t]
                  \/ /\ Running(p, t) /\ file'[t].own = file[t].own /\ file'[t].ep = file[t].ep
                     /\ file'[t].done = file[t].done
    <3>1. CASE Running(p, t)
      <4>1. PICK r \in runs[t] : r.pid = p /\ file'[t] = [r.img EXCEPT !.st = "stopped"]
        BY <1>1, <2>1, <3>1, CancelledImage, SMTT(40)
      <4>2. r.img \in Image /\ Held(p, r.img) /\ Held(p, file[t]) /\ r.img.done = file[t].done
        BY <1>1, <4>1 DEF PoolInv, PoolTypeOK, Claims
      <4>3. "stopped" \in Status
        BY DEF Status
      <4>4. [r.img EXCEPT !.st = "stopped"] \in Image
        BY <4>2, <4>3, ImageUpdates
      <4>5. file'[t].own = r.img.own /\ file'[t].ep = r.img.ep /\ file'[t].done = r.img.done
        BY <4>1, <4>2 DEF Image
      <4> QED
        BY <3>1, <4>1, <4>2, <4>4, <4>5 DEF Held
    <3>2. CASE ~Running(p, t)
      BY <1>1, <2>1, <3>2 DEF Cancelled
    <3> QED
      BY <3>1, <3>2
  <2>3. file' \in [Task -> Image]
    <3>1. file' = [t \in Task |-> file'[t]]
      BY <2>1 DEF Cancelled
    <3> QED
      BY <2>2, <3>1
  <2> QED
    BY <1>1, <2>1, <2>2, <2>3
<1> QED
  BY <1>2, <1>3

LEMMA ExitKeeps ==
  ASSUME PoolInv, NEW p \in Epoch, Killed(p) \/ CloseDone(p)
  PROVE  PoolInv'
<1>1. /\ p \in Pid /\ p # 0 /\ PoolTypeOK /\ AnyMember \in Member
  BY Pids, SomeMember DEF PoolInv
<1>2. /\ UNCHANGED <<takeover, recorded, phase, mode, pool, boot, asked, loop, left, read>>
      /\ UNCHANGED <<status, child, client, stage>>
      /\ proc[p] # "dead" /\ Exit(p)
  BY ExitForms DEF ctlVars, superVars
<1>3. /\ proc' = [proc EXCEPT ![p] = "dead"] /\ home' = [home EXCEPT ![p] = AnyMember]
      /\ lease' = [m \in Member |-> IF lease[m] = p THEN NoPid ELSE lease[m]]
      /\ runs' = [t \in Task |-> {r \in runs[t] : r.pid # p}]
      /\ timers' = {x \in timers : x[1] # p} /\ todo' = [todo EXCEPT ![p] = {}]
      /\ calls' = {c \in calls : c.to # p}
  BY <1>2 DEF Exit
<1>4. /\ proc' \in [Epoch -> {"locking", "serving", "closing", "dead"}]
      /\ proc'[p] = "dead" /\ \A e \in Epoch \ {p} : proc'[e] = proc[e] /\ home'[e] = home[e]
      /\ home' \in [Epoch -> Member]
  BY <1>1, <1>3 DEF PoolTypeOK
<1>5. /\ \A q : \A t \in Task : Running(q, t)' <=> Running(q, t) /\ q # p
      /\ \A q, t : <<q, t>> \in timers' <=> <<q, t>> \in timers /\ q # p
  BY <1>3 DEF Running
<1>6. \A e \in Epoch : Busy(e)' => Busy(e) /\ e # p
  <2> SUFFICES ASSUME NEW e \in Epoch, Busy(e)' PROVE Busy(e) /\ e # p
    OBVIOUS
  <2>1. \A x \in Epoch : x \in Pid
    BY Pids
  <2>2. todo'[p] = {} /\ \A x \in Epoch \ {p} : todo'[x] = todo[x]
    BY <1>1, <1>3, <2>1 DEF PoolTypeOK
  <2>3. e # p
    <3> SUFFICES ASSUME e = p PROVE FALSE
      OBVIOUS
    <3> QED
      BY <1>3, <1>4, <1>5, <2>2 DEF Busy
  <2> QED
    BY <1>3, <1>4, <1>5, <2>2, <2>3 DEF Busy
<1>7. PoolTypeOK'
  <2>1. lease' \in [Member -> Pid \cup {NoPid}]
    BY <1>1, <1>3 DEF PoolTypeOK
  <2>2. runs' \in [Task -> SUBSET [pid : Pid, img : Image]]
    BY <1>1, <1>3 DEF PoolTypeOK
  <2>3. timers' \subseteq Pid \X Task /\ todo' \in [Pid -> SUBSET Task] /\ calls' \subseteq Request
    BY <1>1, <1>3 DEF PoolTypeOK
  <2> QED
    BY <1>1, <1>2, <1>4, <2>1, <2>2, <2>3, ExitForms DEF PoolTypeOK
<1>8. Phases'
  BY <1>2 DEF PoolInv, Phases
<1>9. Supervised'
  <2>1. ASSUME NEW m \in Member, Waiting(m)
        PROVE  ~(Busy(child[m])') /\ \A t \in Task : child[m] \notin script'[t]
    <3>1. child[m] \in Epoch /\ ~Busy(child[m]) /\ \A t \in Task : child[m] \notin script[t]
      BY <2>1 DEF PoolInv, Supervised, Waiting
    <3>2. \A t \in Task : child[m] \notin script'[t]
      BY <3>1, ExitForms
    <3> QED
      BY <1>2, <1>6, <3>1, <3>2
  <2>2. \A m \in Member : Waiting(m)' <=> Waiting(m)
    BY <1>2 DEF Waiting
  <2>3. ASSUME NEW m \in Member
        PROVE  /\ child[m] \in Epoch /\ proc'[child[m]] # "dead" => home'[child[m]] = m
               /\ status[m] = "ready" \/ stage[m] # "none" =>
                    client[m] = child[m] /\ proc'[child[m]] # "locking"
               /\ client[m] \in Epoch /\ proc'[client[m]] # "dead" =>
                    client[m] = child[m] /\ status[m] # "stopped" /\ ~Waiting(m)
    BY <1>4 DEF PoolInv, Supervised
  <2> QED
    BY <1>2, <2>1, <2>2, <2>3 DEF PoolInv, Supervised
<1>10. Leased'
  <2>1. \A m \in Member : lease[m] = 0 => lease'[m] = 0
    BY <1>1, <1>3
  <2>2. recorded \subseteq Member /\ pool \subseteq Member
    BY <1>1, Owners DEF PoolTypeOK
  <2>3. ASSUME NEW e \in Epoch, proc'[e] \in {"serving", "closing"} PROVE lease'[home'[e]] = e
    <3>1. e # p /\ lease[home[e]] = e /\ home[e] \in Member
      BY <1>1, <1>4, <2>3 DEF PoolInv, Leased, PoolTypeOK
    <3> QED
      BY <1>3, <1>4, <3>1
  <2> QED
    BY <1>2, <2>1, <2>2, <2>3 DEF PoolInv, Leased
<1>11. Working'
  <2>1. todo'[0] = todo[0]
    BY <1>1, <1>3, Pids DEF PoolTypeOK
  <2> QED
    BY <1>2, <1>4, <1>5, <1>6, <2>1 DEF PoolInv, Working
<1>12. \A t \in Task :
         \/ file'[t] = file[t]
         \/ /\ runs'[t] = {} /\ file'[t].own = file[t].own
            /\ \A q \in Pid : <<q, t>> \notin timers'
            /\ t \notin takeover
  <2> SUFFICES ASSUME NEW t \in Task, file'[t] # file[t]
               PROVE  /\ runs'[t] = {} /\ file'[t].own = file[t].own
                      /\ \A q \in Pid : <<q, t>> \notin timers'
                      /\ t \notin takeover
    OBVIOUS
  <2>1. Running(p, t) /\ file'[t].own = file[t].own
    BY ExitForms
  <2>2. Entitled(p, t)
    BY <1>1, <2>1, RunnerEntitled
  <2>3. \A r \in runs[t] : r.pid = p
    BY <1>1, <2>2, Exclusive
  <2>4. \A q \in Pid : <<q, t>> \in timers => q = p
    BY <1>1, <2>2, RunnerEntitled, OneEntitled
  <2>5. t \notin takeover
    BY <1>1, <2>2 DEF Entitled, Held, PoolInv, Claims, PoolTypeOK
  <2> QED
    BY <1>3, <1>5, <2>1, <2>3, <2>4, <2>5
<1>13. Claims'
  <2>1. \A t, f : Main(t, f)' <=> Main(t, f)
    BY <1>2 DEF Main
  <2>2. \A f : \A q \in Epoch \ {p} : Held(q, f)' <=> Held(q, f)
    BY <1>4 DEF Held
  <2>3. \A t \in Task : \A r \in runs'[t] :
          /\ r \in runs[t] /\ r.pid # p /\ r.pid \in Pid /\ (r.pid # 0 => r.pid \in Epoch)
          /\ runs[t] = {r} => runs'[t] = {r}
    BY <1>1, <1>3, Pids DEF PoolTypeOK
  <2>4. ASSUME NEW t \in Task
        PROVE  /\ \A r \in runs'[t] :
                    /\ runs'[t] = {r}
                    /\ IF r.pid = 0 THEN Main(t, file[t])' /\ Main(t, r.img)'
                       ELSE Held(r.pid, file[t])' /\ Held(r.pid, r.img)'
                    /\ r.img.done = file'[t].done /\ r.img.st = "running"
                    /\ file'[t].st \notin Ended
               /\ \A q \in Pid : <<q, t>> \in timers' =>
                    IF q = 0 THEN Main(t, file[t])' ELSE Held(q, file[t])'
               /\ t \in takeover' => /\ file'[t].own \notin Member
                                     /\ \A r \in runs'[t] : r.img.own \notin Member
    <3>1. CASE file'[t] = file[t]
      <4>1. \A q \in Pid : <<q, t>> \in timers' => <<q, t>> \in timers /\ q # p /\ (q # 0 => q \in Epoch)
        BY <1>5, Pids
      <4> QED
        BY <1>2, <2>1, <2>2, <2>3, <3>1, <4>1 DEF PoolInv, Claims
    <3>2. CASE file'[t] # file[t]
      BY <1>2, <1>12, <3>2
    <3> QED
      BY <3>1, <3>2
  <2>5. \A c \in calls' : c.op # "recover" => c.task \notin takeover'
    BY <1>2, <1>3 DEF PoolInv, Claims
  <2> QED
    BY <2>4, <2>5 DEF Claims
<1>14. Current'
  <2> SUFFICES ASSUME read # NoRead,
                      loop = Controller \/ (read.img.own = loop /\ read.img.ep # client[loop])
               PROVE  file'[read.task] = file[read.task]
    BY <1>2 DEF PoolInv, Current
  <2>1. read.task \in Task /\ ~Entitled(p, read.task)
    BY <1>1, LoopAlone DEF PoolTypeOK
  <2> QED
    BY <1>1, <2>1, ExitForms, RunnerEntitled
<1>15. Scripted'
  <2> SUFFICES ASSUME NEW t \in Task, NEW q \in script'[t], q \notin unwatched', ~(Running(q, t)')
               PROVE  ToReap(q, t)' /\ phase' \notin {"spawning", "reconciling"}
    BY DEF Scripted
  <2>1. q \in script[t] /\ q \notin unwatched /\ q \in Pid
        /\ (q = p => Watched(p))
    BY <1>1, ExitForms DEF PoolTypeOK
  <2>2. CASE q # p
    <3>1. ~Running(q, t)
      BY <1>5, <2>2
    <3>2. ToReap(q, t) /\ phase \notin {"spawning", "reconciling"}
      BY <2>1, <3>1 DEF PoolInv, Scripted
    <3>3. file'[t] = file[t] \/ (file'[t].own = file[t].own /\ file'[t].ep = file[t].ep)
      BY ExitForms
    <3>4. q \in Epoch
      BY <2>1, <3>2, Pids DEF ToReap
    <3> QED
      BY <1>2, <1>4, <2>2, <3>2, <3>3, <3>4 DEF ToReap
  <2>3. CASE q = p
    <3>1. Running(p, t) /\ Busy(p)
      BY <1>2, <2>1, <2>3 DEF PoolInv, Scripted, ToReap, Busy
    <3>2. PICK m \in Member : child[m] = p /\ status[m] # "stopped"
      BY <2>1, <2>3 DEF Watched
    <3>3. home[p] = m
      BY <1>2, <3>2 DEF PoolInv, Supervised
    <3>4. Held(p, file[t])
      BY <1>1, <3>1, RunnerEntitled DEF Entitled
    <3>5. file'[t] = file[t] \/ (file'[t].own = file[t].own /\ file'[t].ep = file[t].ep)
      BY ExitForms
    <3>6. ToReap(p, t)'
      BY <1>1, <1>2, <1>4, <3>2, <3>3, <3>4, <3>5 DEF ToReap, Held
    <3>7. phase # "reconciling" /\ (phase = "spawning" => status[m] \notin {"ready", "restarting"})
      BY <3>1, <3>3 DEF PoolInv, Working
    <3>8. status[m] # "starting"
      BY <3>1, <3>2 DEF PoolInv, Supervised, Waiting
    <3> QED
      BY <1>1, <1>2, <2>3, <3>2, <3>6, <3>7, <3>8 DEF PoolTypeOK
  <2> QED
    BY <2>2, <2>3
<1> QED
  BY <1>7, <1>8, <1>9, <1>10, <1>11, <1>13, <1>14, <1>15 DEF PoolInv

-----------------------------------------------------------------------------
(***************************************************************************)
(* New processes and dead ones.                                            *)
(***************************************************************************)
\* A supervisor makes a process only where the one it watched is dead and reaped.
LEMMA SpawnForms ==
  ASSUME PoolInv, NEW m \in Member, Spawn(m) \/ SpawnAgain(m) \/ SpawnLate(m)
  PROVE  /\ NewProcess(m)
         /\ UNCHANGED <<file, takeover, recorded, ctlVars, client, stage, runs, timers, todo, calls>>
         /\ script' \in {script, [t \in Task |-> script[t] \ {child[m]}]}
         /\ status[m] # "stopped" => \A t \in Task : child[m] \notin script'[t]
         /\ \A k \in Member \ {m} : status'[k] = status[k]
         /\ status' \in [Member -> {"stopped", "starting", "restarting", "ready"}]
         /\ status'[m] # "stopped" => m \in pool
         /\ stage[m] = "none"
         /\ client[m] \in Epoch => proc[client[m]] = "dead"
         /\ \/ status'[m] = "starting" /\ phase = "spawning" /\ mode = "process"
            \/ status'[m] = "restarting" /\ status[m] = "restarting"
            \/ status'[m] = "stopped" /\ phase = "stopping"
<1>1. PoolTypeOK /\ Phases /\ Supervised
  BY DEF PoolInv
<1>2. CASE Spawn(m)
  BY <1>1, <1>2 DEF Spawn, PoolTypeOK, Phases, Supervised
<1>3. CASE SpawnAgain(m)
  <2>1. child[m] \in Pid /\ m \in pool
    BY <1>1, <1>3 DEF SpawnAgain, PoolTypeOK, Supervised
  <2>2. client[m] \in Epoch => proc[client[m]] = "dead"
    BY <1>1, <1>3 DEF SpawnAgain, Supervised
  <2> QED
    BY <1>1, <1>3, <2>1, <2>2 DEF SpawnAgain, Reaped, PoolTypeOK
<1>4. CASE SpawnLate(m)
  <2>1. Waiting(m)
    BY <1>4 DEF SpawnLate, Waiting
  <2>2. client[m] \in Epoch => proc[client[m]] = "dead"
    BY <1>1, <1>4 DEF SpawnLate, Supervised
  <2>3. \A t \in Task : child[m] \notin script[t]
    BY <1>1, <2>1 DEF Supervised
  <2> QED
    BY <1>1, <1>4, <2>2, <2>3 DEF SpawnLate, PoolTypeOK
<1> QED
  BY <1>2, <1>3, <1>4

LEMMA SpawnKeeps ==
  ASSUME PoolInv, NEW m \in Member, Spawn(m) \/ SpawnAgain(m) \/ SpawnLate(m)
  PROVE  PoolInv'
<1>1. /\ UNCHANGED <<file, takeover, recorded, phase, mode, pool, boot, asked, loop, left, read>>
      /\ UNCHANGED <<client, stage, runs, timers, todo, calls, lease>>
  BY SpawnForms DEF ctlVars, NewProcess
<1>2. PICK e \in Fresh :
        /\ proc' = [proc EXCEPT ![e] = "locking"] /\ home' = [home EXCEPT ![e] = m]
        /\ unwatched' = unwatched \ {e} /\ child' = [child EXCEPT ![m] = e]
  BY SpawnForms DEF NewProcess
<1>3. /\ e \in Epoch /\ proc[e] = "dead"
      /\ \A t \in Task : file[t].ep # e /\ e \notin script[t]
      /\ \A k \in Member : child[k] # e /\ client[k] # e
      /\ \A c \in calls : c.to # e
  BY DEF Fresh
<1>4. /\ PoolTypeOK /\ e \in Pid /\ e # 0
      /\ proc'[e] = "locking" /\ home'[e] = m /\ child'[m] = e
      /\ \A x \in Epoch \ {e} : proc'[x] = proc[x] /\ home'[x] = home[x]
      /\ \A k \in Member \ {m} : child'[k] = child[k]
  BY <1>2, <1>3, Pids DEF PoolInv, PoolTypeOK
<1>5. ~Busy(e) /\ ~(Busy(e)')
  <2>1. ~Busy(e)
    BY <1>3 DEF PoolInv, Working
  <2>2. \A t \in Task : Running(e, t)' <=> Running(e, t)
    BY <1>1 DEF Running
  <2> QED
    BY <1>1, <1>3, <2>1, <2>2 DEF Busy
<1>6. \A q : \A t \in Task : Running(q, t)' <=> Running(q, t)
  BY <1>1 DEF Running
<1>7. \A x \in Epoch \ {e} : Busy(x)' <=> Busy(x)
  BY <1>1, <1>4, <1>6 DEF Busy
<1>8. PoolTypeOK'
  <2>1. script' \in [Task -> SUBSET Pid]
    BY <1>4, SpawnForms DEF PoolTypeOK
  <2>2. proc' \in [Epoch -> {"locking", "serving", "closing", "dead"}] /\ home' \in [Epoch -> Member]
    BY <1>2, <1>4 DEF PoolTypeOK
  <2>3. child' \in [Member -> Pid] /\ unwatched' \subseteq Pid
    BY <1>2, <1>4 DEF PoolTypeOK
  <2> QED
    BY <1>1, <1>4, <2>1, <2>2, <2>3, SpawnForms DEF PoolTypeOK
<1>9. Phases'
  <2>1. mode = "inline" \/ phase = "leasing" =>
          \A k \in Member : status'[k] = "stopped" /\ stage[k] = "none"
    BY SpawnForms DEF PoolInv, Phases
  <2> QED
    BY <1>1, <2>1 DEF PoolInv, Phases
<1>10. Supervised'
  <2>1. ASSUME NEW k \in Member \ {m}
        PROVE  /\ child[k] \in Epoch /\ proc'[child[k]] # "dead" => home'[child[k]] = k
               /\ status[k] = "ready" \/ stage[k] # "none" => proc'[child[k]] # "locking"
               /\ client[k] \in Epoch /\ proc'[client[k]] # "dead" =>
                    client[k] = child[k] /\ status[k] # "stopped" /\ ~Waiting(k)
               /\ Waiting(k) => ~(Busy(child[k])') /\ \A t \in Task : child[k] \notin script'[t]
    <3>1. Waiting(k) => child[k] \in Epoch
      BY DEF PoolInv, Supervised, Waiting
    <3>2. child[k] # e /\ client[k] # e
      BY <1>3
    <3>3. Waiting(k) => ~(Busy(child[k])')
      <4> SUFFICES ASSUME Waiting(k) PROVE ~(Busy(child[k])')
        OBVIOUS
      <4>1. ~Busy(child[k]) /\ child'[k] = child[k]
        BY <1>4 DEF PoolInv, Supervised
      <4>2. proc'[child[k]] = proc[child[k]]
        BY <1>4, <3>1, <3>2
      <4> QED
        BY <1>1, <4>1, <4>2 DEF Busy, Running
    <3>4. \A t \in Task : script'[t] \subseteq script[t]
      BY SpawnForms
    <3>5. status[k] = "ready" \/ stage[k] # "none" => child[k] \in Epoch
      BY DEF PoolInv, Supervised
    <3>6. child[k] \in Epoch => proc'[child[k]] = proc[child[k]] /\ home'[child[k]] = home[child[k]]
      BY <1>4, <3>2
    <3>7. client[k] \in Epoch => proc'[client[k]] = proc[client[k]]
      BY <1>4, <3>2
    <3>8. Waiting(k) => \A t \in Task : child[k] \notin script'[t]
      BY <3>4 DEF PoolInv, Supervised
    <3> QED
      BY <3>3, <3>5, <3>6, <3>7, <3>8 DEF PoolInv, Supervised
  <2>2. \A k \in Member \ {m} : Waiting(k)' <=> Waiting(k)
    BY <1>1, SpawnForms DEF Waiting
  <2>3. \A k \in Member \ {m} : status'[k] = status[k]
    BY SpawnForms
  <2>4. \A t \in Task : e \notin script'[t]
    BY <1>3, SpawnForms
  <2>5. /\ status'[m] # "stopped" => m \in pool
        /\ status'[m] = "starting" => phase \in {"spawning", "stopping"}
        /\ status'[m] # "ready" /\ stage[m] = "none"
        /\ status'[m] = "restarting" => status[m] = "restarting"
        /\ client[m] \in Epoch => proc'[client[m]] = "dead"
        /\ phase \in Reigning \cup {"reconciling"} => status'[m] = status[m]
    BY <1>3, <1>4, SpawnForms DEF Reigning
  <2>6. ~(Busy(child[m])')
    BY <1>1, <1>4, <1>5 DEF Busy, Running
  <2>7. Waiting(m)' => ~(Busy(child[m])') /\ \A t \in Task : child'[m] \notin script'[t]
    BY <1>4, <2>4, <2>6
  <2>8. \A k \in Member \ {m} :
          Waiting(k)' => ~(Busy(child[k])') /\ \A t \in Task : child'[k] \notin script'[t]
    BY <1>4, <2>1, <2>2
  <2>9. \A k \in Member \ {m} :
          /\ status'[k] # "stopped" => k \in pool /\ child'[k] \in Epoch
          /\ status'[k] = "starting" => phase \in {"spawning", "stopping"}
          /\ status'[k] \in {"ready", "restarting"} => client[k] \in Epoch
          /\ stage[k] # "none" => status'[k] = "restarting"
          /\ status'[k] = "ready" \/ stage[k] # "none" => client[k] = child'[k]
          /\ mode = "process" /\ phase \in Reigning \cup {"reconciling"} /\ k \in pool =>
               status'[k] \in {"ready", "restarting"}
    BY <1>4, <2>3 DEF PoolInv, Supervised
  <2>10. /\ status'[m] \in {"ready", "restarting"} => client[m] \in Epoch
         /\ mode = "process" /\ phase \in Reigning \cup {"reconciling"} /\ m \in pool =>
               status'[m] \in {"ready", "restarting"}
    BY <2>5 DEF PoolInv, Supervised
  <2>11. \A k \in Member :
           Waiting(k)' => ~(Busy(child[k])') /\ \A t \in Task : child'[k] \notin script'[t]
    BY <2>7, <2>8
  <2>12. \A k \in Member :
          /\ status'[k] # "stopped" => k \in pool /\ child'[k] \in Epoch
          /\ status'[k] = "starting" => phase \in {"spawning", "stopping"}
          /\ status'[k] \in {"ready", "restarting"} => client[k] \in Epoch
          /\ stage[k] # "none" => status'[k] = "restarting"
          /\ status'[k] = "ready" \/ stage[k] # "none" => client[k] = child'[k]
          /\ mode = "process" /\ phase \in Reigning \cup {"reconciling"} /\ k \in pool =>
               status'[k] \in {"ready", "restarting"}
    BY <1>3, <1>4, <2>5, <2>9, <2>10
  <2>13. \A k \in Member :
          /\ child'[k] \in Epoch /\ proc'[child'[k]] # "dead" => home'[child'[k]] = k
          /\ status'[k] = "ready" \/ stage[k] # "none" => proc'[child'[k]] # "locking"
          /\ client[k] \in Epoch /\ proc'[client[k]] # "dead" =>
               client[k] = child'[k] /\ status'[k] # "stopped" /\ ~(Waiting(k)')
    BY <1>4, <2>1, <2>2, <2>3, <2>5
  <2> QED
    BY <1>1, <2>11, <2>12, <2>13 DEF Supervised, Reigning
<1>11. Leased'
  BY <1>1, <1>4 DEF PoolInv, Leased
<1>12. Working'
  <2>1. \A x \in Epoch : Busy(x)' => Busy(x) /\ x # e
    BY <1>5, <1>7
  <2>2. \A x \in Epoch : Busy(x) => home[x] \in Member
    BY <1>4 DEF PoolTypeOK
  <2>3. \A k \in Member : status'[k] \in {"ready", "restarting"} =>
          status[k] \in {"ready", "restarting"}
    BY SpawnForms
  <2>4. ASSUME NEW x \in Epoch, Busy(x)'
        PROVE  /\ proc'[x] \in {"serving", "closing"} /\ home'[x] \in recorded
               /\ phase = "spawning" => status'[home'[x]] \notin {"ready", "restarting"}
               /\ phase # "reconciling"
               /\ mode = "process" /\ phase \in Reigning => x = client[home'[x]]
    <3>1. Busy(x) /\ x # e /\ home[x] \in Member
      BY <2>1, <2>2, <2>4
    <3>2. proc'[x] = proc[x] /\ home'[x] = home[x]
      BY <1>4, <3>1
    <3> QED
      BY <2>3, <3>1, <3>2 DEF PoolInv, Working
  <2>5. \A t \in Task : Running(0, t)' \/ <<0, t>> \in timers' => Running(0, t) \/ <<0, t>> \in timers
    BY <1>1, <1>6
  <2> QED
    BY <1>1, <2>4, <2>5 DEF PoolInv, Working
<1>13. Claims' /\ Current'
  <2>1. \A t \in Task : /\ \A r \in runs[t] : r.pid \in Pid /\ r.pid # e
                        /\ <<e, t>> \notin timers
    <3>1. \A t \in Task : \A r \in runs[t] : r.pid \in Pid
      BY <1>4 DEF PoolTypeOK
    <3> QED
      BY <1>5, <3>1 DEF Busy, Running
  <2>2. \A f : \A q \in Pid \ {e} : q # 0 => (Held(q, f)' <=> Held(q, f))
    BY <1>4, Pids DEF Held
  <2>3. \A t, f : Main(t, f)' <=> Main(t, f)
    BY <1>1 DEF Main
  <2>4. Claims'
    <3>1. ASSUME NEW t \in Task, NEW r \in runs[t]
          PROVE  IF r.pid = 0 THEN Main(t, file[t])' /\ Main(t, r.img)'
                 ELSE Held(r.pid, file[t])' /\ Held(r.pid, r.img)'
      BY <1>1, <2>1, <2>2, <2>3, ZenonT(90) DEF PoolInv, Claims
    <3>2. ASSUME NEW t \in Task, NEW q \in Pid, <<q, t>> \in timers
          PROVE  IF q = 0 THEN Main(t, file[t])' ELSE Held(q, file[t])'
      BY <1>1, <2>1, <2>2, <2>3, <3>2 DEF PoolInv, Claims
    <3>3. ASSUME NEW t \in Task
          PROVE  /\ \A r \in runs[t] :
                      /\ runs[t] = {r} /\ r.img.done = file[t].done /\ r.img.st = "running"
                      /\ file[t].st \notin Ended
                 /\ t \in takeover => /\ file[t].own \notin Member
                                      /\ \A r \in runs[t] : r.img.own \notin Member
      BY DEF PoolInv, Claims
    <3>4. \A c \in calls : c.op # "recover" => c.task \notin takeover
      BY DEF PoolInv, Claims
    <3> QED
      BY <1>1, <3>1, <3>2, <3>3, <3>4 DEF Claims
  <2> QED
    BY <1>1, <2>4 DEF PoolInv, Current
<1>14. Scripted'
  <2> SUFFICES ASSUME NEW t \in Task, NEW q \in script'[t], q \notin unwatched', ~(Running(q, t)')
               PROVE  ToReap(q, t)' /\ phase' \notin {"spawning", "reconciling"}
    BY DEF Scripted
  <2>1. q \in script[t] /\ q # e /\ q \notin unwatched /\ ~Running(q, t)
    BY <1>2, <1>3, <1>6, SpawnForms
  <2>2. ToReap(q, t) /\ phase \notin {"spawning", "reconciling"}
    BY <2>1 DEF PoolInv, Scripted
  <2>3. q \in Epoch /\ file[t].own \in Member /\ child[file[t].own] = q
    BY <1>4, <2>1, <2>2, Pids DEF ToReap, PoolTypeOK
  <2>4. file[t].own # m
    BY <2>2, <2>3, SpawnForms DEF ToReap
  <2> QED
    BY <1>1, <1>4, <2>1, <2>2, <2>3, <2>4, SpawnForms DEF ToReap
<1> QED
  BY <1>8, <1>9, <1>10, <1>11, <1>12, <1>13, <1>14 DEF PoolInv

LEMMA ChildDiedKeeps ==
  ASSUME PoolInv, NEW m \in Member, ChildDied(m)
  PROVE  PoolInv'
<1>1. /\ UNCHANGED <<file, takeover, recorded, phase, mode, pool, boot, asked, loop, left, read>>
      /\ UNCHANGED <<child, client, proc, home, lease, runs, timers, todo, calls, unwatched>>
      /\ loop = Nobody /\ phase # "down" /\ proc[child[m]] = "dead"
      /\ status[m] \in {"ready", "restarting"}
  BY DEF ChildDied, Free, ctlVars, procVars
<1>2. PoolTypeOK /\ loop \notin Member
  BY <1>1, Owners DEF PoolInv
<1>3. /\ \A k \in Member \ {m} : status'[k] = status[k] /\ stage'[k] = stage[k]
      /\ status'[m] = "restarting" /\ stage'[m] = "none"
      /\ status' \in [Member -> {"stopped", "starting", "restarting", "ready"}]
      /\ stage' \in [Member -> {"none", "reassign", "await"}]
  BY <1>2 DEF ChildDied, PoolTypeOK
<1>4. /\ script' = [t \in Task |-> script[t] \ {child[m]}]
      /\ script' \in [Task -> SUBSET Pid]
      /\ \A t \in Task : script'[t] \subseteq script[t] /\ child[m] \notin script'[t]
  BY <1>2 DEF ChildDied, Reaped, PoolTypeOK
<1>5. \A q : \A t \in Task : Running(q, t)' <=> Running(q, t)
  BY <1>1 DEF Running
<1>6. \A e \in Epoch : Busy(e)' <=> Busy(e)
  BY <1>1, <1>5 DEF Busy
<1>7. PoolTypeOK'
  BY <1>1, <1>2, <1>3, <1>4 DEF PoolTypeOK
<1>8. Phases'
  <2>1. ~(mode = "inline" \/ phase = "leasing")
    BY <1>1 DEF PoolInv, Phases
  <2>2. phase = "spawning" => \A k \in Member : stage'[k] = "none"
    BY <1>3 DEF PoolInv, Phases
  <2> QED
    BY <1>1, <1>2, <2>1, <2>2 DEF PoolInv, Phases
<1>9. Supervised'
  <2>1. child[m] \in Epoch /\ client[m] \in Epoch
    BY <1>1 DEF PoolInv, Supervised
  <2>2. ~Busy(child[m])
    BY <1>1, <2>1 DEF PoolInv, Working
  <2>3. \A k \in Member \ {m} : Waiting(k)' <=> Waiting(k)
    BY <1>3 DEF Waiting
  <2>4. ASSUME NEW k \in Member, Waiting(k)'
        PROVE  ~(Busy(child[k])') /\ \A t \in Task : child[k] \notin script'[t]
    <3>1. CASE k = m
      BY <1>1, <1>4, <1>6, <2>1, <2>2, <3>1 DEF Busy, Running
    <3>2. CASE k # m
      <4>1. child[k] \in Epoch /\ ~Busy(child[k]) /\ \A t \in Task : child[k] \notin script[t]
        BY <2>3, <2>4, <3>2 DEF PoolInv, Supervised, Waiting
      <4> QED
        BY <1>1, <1>4, <1>6, <4>1
    <3> QED
      BY <3>1, <3>2
  <2>5. ASSUME NEW k \in Member
        PROVE  /\ status'[k] # "stopped" => k \in pool /\ child[k] \in Epoch
               /\ status'[k] = "starting" => phase \in {"spawning", "stopping"}
               /\ status'[k] \in {"ready", "restarting"} => client[k] \in Epoch
               /\ stage'[k] # "none" => status'[k] = "restarting"
               /\ status'[k] = "ready" \/ stage'[k] # "none" =>
                    client[k] = child[k] /\ proc[child[k]] # "locking"
               /\ status[k] # "stopped" => status'[k] # "stopped"
               /\ mode = "process" /\ phase \in Reigning \cup {"reconciling"} /\ k \in pool =>
                    status'[k] \in {"ready", "restarting"}
    BY <1>1, <1>3, <2>1 DEF PoolInv, Supervised
  <2>6. ASSUME NEW k \in Member, client[k] \in Epoch, proc[client[k]] # "dead"
        PROVE  client[k] = child[k] /\ status'[k] # "stopped" /\ ~(Waiting(k)')
    <3>1. client[k] = child[k] /\ status[k] # "stopped" /\ ~Waiting(k)
      BY <2>6 DEF PoolInv, Supervised
    <3>2. k # m
      BY <1>1, <2>6, <3>1
    <3> QED
      BY <2>3, <2>5, <3>1, <3>2
  <2> QED
    BY <1>1, <2>4, <2>5, <2>6 DEF PoolInv, Supervised, Reigning
<1>10. Leased' /\ Claims' /\ Current'
  BY <1>1 DEF PoolInv, Leased, Claims, Current, Main, Held
<1>11. Working'
  <2>1. \A k \in Member : status'[k] \in {"ready", "restarting"} => status[k] \in {"ready", "restarting"}
    BY <1>1, <1>3
  <2>2. \A e \in Epoch : home[e] \in Member
    BY <1>2 DEF PoolTypeOK
  <2> QED
    BY <1>1, <1>5, <1>6, <2>1, <2>2 DEF PoolInv, Working
<1>12. Scripted'
  <2> SUFFICES ASSUME NEW t \in Task, NEW q \in script'[t], q \notin unwatched', ~(Running(q, t)')
               PROVE  ToReap(q, t)' /\ phase' \notin {"spawning", "reconciling"}
    BY DEF Scripted
  <2>1. q \in script[t] /\ q # child[m] /\ q \notin unwatched /\ ~Running(q, t)
    BY <1>1, <1>4, <1>5
  <2>2. ToReap(q, t) /\ phase \notin {"spawning", "reconciling"}
    BY <2>1 DEF PoolInv, Scripted
  <2> QED
    BY <1>1, <1>3, <2>1, <2>2 DEF ToReap
<1> QED
  BY <1>7, <1>8, <1>9, <1>10, <1>11, <1>12 DEF PoolInv

-----------------------------------------------------------------------------
(***************************************************************************)
(* Requests to members.                                                    *)
(***************************************************************************)
\* Where a client finds a process that serves, or its supervisor is handing
\* over to it, that process holds the lease of its member.
LEMMA Callable ==
  ASSUME PoolInv, NEW m \in Member, mode = "process", phase \in Reigning, m \in pool,
         stage[m] # "none" \/ proc[client[m]] = "serving"
  PROVE  /\ client[m] \in Epoch
         /\ proc[client[m]] # "dead" =>
              /\ proc[client[m]] \in {"serving", "closing"}
              /\ home[client[m]] = m /\ m \in recorded
              /\ \A k \in Member : Waiting(k) => child[k] # client[m]
<1>1. client[m] \in Epoch
  BY DEF PoolInv, Supervised
<1> SUFFICES ASSUME proc[client[m]] # "dead"
             PROVE  /\ proc[client[m]] \in {"serving", "closing"}
                    /\ home[client[m]] = m /\ m \in recorded
                    /\ \A k \in Member : Waiting(k) => child[k] # client[m]
  BY <1>1
<1>2. client[m] = child[m] /\ ~Waiting(m) /\ home[client[m]] = m
  BY <1>1 DEF PoolInv, Supervised
<1>3. proc[client[m]] \in {"serving", "closing"}
  BY <1>1, <1>2 DEF PoolInv, PoolTypeOK, Supervised
<1>4. \A k \in Member : Waiting(k) => child[k] # client[m]
  <2> SUFFICES ASSUME NEW k \in Member, Waiting(k), child[k] = client[m] PROVE FALSE
    OBVIOUS
  <2>1. home[client[m]] = k
    BY <1>1 DEF PoolInv, Supervised
  <2> QED
    BY <1>2, <2>1
<1> QED
  BY <1>2, <1>3, <1>4 DEF PoolInv, Phases

\* A request on its way makes its process busy, and no other.
LEMMA CallKeeps ==
  ASSUME PoolInv, NEW m \in Member, mode = "process", phase \in Reigning, m \in pool,
         stage[m] # "none" \/ proc[client[m]] = "serving",
         NEW c \in Request, c.to = client[m], calls' = calls \cup {c},
         UNCHANGED <<runs, timers, todo, script, proc, home, recorded, phase, mode, pool>>,
         UNCHANGED <<status, child, client>>, stage' \in [Member -> {"none", "reassign", "await"}],
         \A k \in Member : stage'[k] = "none" <=> stage[k] = "none"
  PROVE  Supervised' /\ Working' /\ calls' \subseteq Request
<1>1. /\ client[m] \in Epoch
      /\ proc[client[m]] # "dead" =>
           /\ proc[client[m]] \in {"serving", "closing"}
           /\ home[client[m]] = m /\ m \in recorded
           /\ \A k \in Member : Waiting(k) => child[k] # client[m]
  BY Callable
<1>2. \A q : \A t \in Task : Running(q, t)' <=> Running(q, t)
  BY DEF Running
<1>3. \A e \in Epoch : Busy(e)' => Busy(e) \/ (e = client[m] /\ proc[e] # "dead")
  BY <1>2 DEF Busy
<1>4. Supervised'
  <2>1. \A k \in Member : Waiting(k)' <=> Waiting(k)
    BY DEF Waiting
  <2>2. ASSUME NEW k \in Member, Waiting(k)' PROVE ~(Busy(child[k])')
    <3>1. child[k] \in Epoch /\ ~Busy(child[k])
      BY <2>1, <2>2 DEF PoolInv, Supervised, Waiting
    <3>2. ~(child[k] = client[m] /\ proc[child[k]] # "dead")
      BY <1>1, <2>1, <2>2
    <3> QED
      BY <1>2, <3>1, <3>2 DEF Busy
  <2> QED
    BY <2>1, <2>2 DEF PoolInv, Supervised, Reigning
<1>5. Working'
  <2>1. ASSUME NEW e \in Epoch, Busy(e)'
        PROVE  /\ proc[e] \in {"serving", "closing"} /\ home[e] \in recorded
               /\ e = client[home[e]]
    BY <1>1, <1>3, <2>1 DEF PoolInv, Working
  <2> QED
    BY <1>2, <2>1 DEF PoolInv, Working, Reigning
<1>6. calls' \subseteq Request
  BY DEF PoolInv, PoolTypeOK
<1> QED
  BY <1>4, <1>5, <1>6

LEMMA AskBootKeeps ==
  ASSUME PoolInv, NEW m \in Member, AskBoot(m)
  PROVE  PoolInv'
<1>1. /\ UNCHANGED <<file, takeover, runs, script, timers, todo, unwatched, proc, home, lease>>
      /\ UNCHANGED <<mode, recorded, pool, phase, loop, left, read>>
      /\ UNCHANGED <<status, child, client, stage>>
      /\ phase = "recovering" /\ m \in boot /\ proc[client[m]] = "serving"
      /\ asked' = m /\ boot' = boot \ {m} /\ calls' = calls \cup {Recovery(m, "boot")}
  BY DEF AskBoot, superVars, procVars
<1>2. mode = "process" /\ phase \in Reigning /\ m \in pool /\ boot \subseteq pool
  BY <1>1 DEF PoolInv, Phases, Reigning
<1>3. client[m] \in Epoch
  BY <1>1, <1>2, Callable
<1> DEFINE c == Recovery(m, "boot")
<1>4. c \in Request /\ c.to = client[m] /\ c.op = "recover"
  BY <1>3 DEF Recovery, Request
<1> HIDE DEF c
<1>5. stage' \in [Member -> {"none", "reassign", "await"}]
  BY <1>1 DEF PoolInv, PoolTypeOK
<1>6. Supervised' /\ Working' /\ calls' \subseteq Request
  BY <1>1, <1>2, <1>4, <1>5, CallKeeps DEF c
<1>7. PoolTypeOK' /\ Phases'
  BY <1>1, <1>2, <1>6 DEF PoolInv, PoolTypeOK, Phases
<1>8. \A q : \A t \in Task : Running(q, t)' <=> Running(q, t)
  BY <1>1 DEF Running
<1>9. Leased' /\ Claims' /\ Current' /\ Scripted'
  BY <1>1, <1>4, <1>8 DEF PoolInv, Leased, Claims, Current, Scripted, ToReap, Main, Held, c
<1> QED
  BY <1>6, <1>7, <1>9 DEF PoolInv

LEMMA EndLoopKeeps ==
  ASSUME PoolInv, EndLoop
  PROVE  PoolInv'
<1>1. /\ UNCHANGED <<file, takeover, runs, script, timers, todo, unwatched, proc, home, lease>>
      /\ UNCHANGED <<mode, recorded, pool, asked, left, read, status, child, client>>
      /\ loop # Nobody /\ loop' = Nobody /\ read = NoRead
  BY DEF EndLoop, procVars
<1>2. \A q : \A t \in Task : Running(q, t)' <=> Running(q, t)
  BY <1>1 DEF Running
<1>3. CASE loop = Controller
  <2>1. /\ phase = "reconciling" /\ phase' = "recovering" /\ boot' = pool
        /\ UNCHANGED <<stage, calls>> /\ mode = "process" /\ recorded = pool
    BY <1>3 DEF EndLoop, PoolInv, Phases
  <2>2. \A e \in Epoch : Busy(e)' <=> Busy(e)
    BY <1>1, <1>2, <2>1 DEF Busy
  <2>3. PoolTypeOK' /\ Phases'
    BY <1>1, <2>1, Owners DEF PoolInv, PoolTypeOK, Phases
  <2>4. Supervised'
    <3>1. \A m \in Member : Waiting(m)' <=> Waiting(m)
      BY <1>1, <2>1 DEF Waiting
    <3>2. ASSUME NEW m \in Member, Waiting(m) PROVE ~(Busy(child[m])')
      <4>1. child[m] \in Epoch /\ ~Busy(child[m])
        BY <3>2 DEF PoolInv, Supervised, Waiting
      <4> QED
        BY <1>1, <2>2, <4>1
    <3> QED
      BY <1>1, <2>1, <3>1, <3>2 DEF PoolInv, Supervised, Reigning
  <2>5. Leased' /\ Claims' /\ Current'
    BY <1>1, <2>1 DEF PoolInv, Leased, Claims, Current, Main, Held
  <2>6. Working'
    BY <1>1, <1>2, <2>1, <2>2 DEF PoolInv, Working
  <2>7. Scripted'
    BY <1>1, <1>2, <2>1 DEF PoolInv, Scripted
  <2> QED
    BY <2>3, <2>4, <2>5, <2>6, <2>7 DEF PoolInv
<1>4. CASE loop # Controller
  <2>1. /\ loop \in Member /\ stage[loop] = "reassign" /\ phase \in Reigning
        /\ status[loop] = "restarting" /\ loop \in pool
    BY <1>1, <1>4 DEF PoolInv, PoolTypeOK, Phases, Supervised
  <2>2. mode = "process"
    BY <2>1 DEF PoolInv, PoolTypeOK, Phases
  <2>3. /\ stage' = [stage EXCEPT ![loop] = "await"] /\ UNCHANGED <<phase, boot>>
        /\ calls' = calls \cup {[op |-> "recover", to |-> client[loop], by |-> "handoff"]}
    BY <1>4 DEF EndLoop
  <2>4. client[loop] \in Epoch
    BY <2>1, <2>2, Callable
  <2> DEFINE c == [op |-> "recover", to |-> client[loop], by |-> "handoff"]
  <2>5. c \in Request /\ c.to = client[loop] /\ c.op = "recover" /\ calls' = calls \cup {c}
    BY <2>3, <2>4 DEF Request
  <2> HIDE DEF c
  <2>6. /\ stage' \in [Member -> {"none", "reassign", "await"}]
        /\ \A k \in Member : stage'[k] = "none" <=> stage[k] = "none"
    BY <2>1, <2>3 DEF PoolInv, PoolTypeOK
  <2>7. Supervised' /\ Working' /\ calls' \subseteq Request
    BY <1>1, <2>1, <2>2, <2>3, <2>5, <2>6, CallKeeps
  <2>8. PoolTypeOK'
    BY <1>1, <2>3, <2>6, <2>7 DEF PoolInv, PoolTypeOK
  <2>9. Phases'
    <3>1. phase \notin {"reconciling", "spawning", "leasing", "down"}
      BY <2>1 DEF Reigning
    <3> QED
      BY <1>1, <2>2, <2>3, <3>1, Owners DEF PoolInv, Phases
  <2>10. Leased' /\ Claims' /\ Current' /\ Scripted'
    BY <1>1, <1>2, <2>3, <2>5 DEF PoolInv, Leased, Claims, Current, Scripted, ToReap, Main, Held
  <2> QED
    BY <2>7, <2>8, <2>9, <2>10 DEF PoolInv
<1> QED
  BY <1>3, <1>4

-----------------------------------------------------------------------------
(***************************************************************************)
(* Task files that change hands.                                           *)
(***************************************************************************)
\* What is saved is what was loaded, under another owner, of a task that nobody
\* works on and that no dead process has still to be reaped for.
LEMMA SaveForms ==
  ASSUME PoolInv, SaveTask
  PROVE  \/ UNCHANGED file
         \/ \E t \in Task, o \in Member \cup {Controller}, e \in Pid :
              /\ file' = [file EXCEPT ![t] = [file[t] EXCEPT !.own = o, !.ep = e]]
              /\ runs[t] = {} /\ \A q \in Pid : <<q, t>> \notin timers
              /\ t \in takeover => o = Controller
              /\ phase = "reconciling" \/ \A q : ~ToReap(q, t)
<1> DEFINE t == read.task
           f == read.img
<1> SUFFICES ASSUME file' # file
             PROVE  \E o \in Member \cup {Controller}, e \in Pid :
                      /\ file' = [file EXCEPT ![t] = [file[t] EXCEPT !.own = o, !.ep = e]]
                      /\ runs[t] = {} /\ \A q \in Pid : <<q, t>> \notin timers
                      /\ t \in takeover => o = Controller
                      /\ phase = "reconciling" \/ \A q : ~ToReap(q, t)
  BY DEF SaveTask, PoolInv, PoolTypeOK
<1>1. PICK o \in NewOwners(t, f) : file' = [file EXCEPT ![t] = [f EXCEPT !.own = o[1], !.ep = o[2]]]
  BY DEF SaveTask, WriteFile
<1>2. /\ PoolTypeOK /\ read # NoRead /\ loop # Nobody /\ t \in Task
      /\ \A m \in Member : client[m] \in Pid
  BY DEF SaveTask, PoolInv, PoolTypeOK, Phases
<1>6. \A r \in runs[t] : r.pid \in Pid
  BY <1>2 DEF PoolTypeOK
<1>3. CASE loop = Controller
  <2>1. f = file[t]
    BY <1>2, <1>3 DEF PoolInv, Current
  <2>2. phase = "reconciling" /\ mode = "process" /\ pool \subseteq Member
    BY <1>3, Owners DEF PoolInv, Phases, PoolTypeOK
  <2>3. \A e \in Epoch : ~Busy(e)
    BY <2>2 DEF PoolInv, Working
  <2>4. \A q \in Pid : ~Running(q, t) /\ <<q, t>> \notin timers
    <3>1. ~Running(0, t) /\ <<0, t>> \notin timers
      BY <1>2, <2>2 DEF PoolInv, Working
    <3> QED
      BY <1>2, <2>3, <3>1, Pids DEF Busy
  <2>5. runs[t] = {}
    BY <1>6, <2>4 DEF Running
  <2>6. o \in {<<Controller, 0>>} \cup {<<m, client[m]>> : m \in Member}
        /\ (t \in takeover => o = <<Controller, 0>>)
    BY <1>3, <2>2 DEF NewOwners, ReadyMembers
  <2>7. o[1] \in Member \cup {Controller} /\ o[2] \in Pid /\ (t \in takeover => o[1] = Controller)
    BY <1>2, <2>6, Pids
  <2> QED
    BY <1>1, <2>1, <2>2, <2>4, <2>5, <2>7
<1>4. CASE loop # Controller
  <2>1. loop \in Member /\ phase \in Reigning /\ stage[loop] = "reassign" /\ mode = "process"
    BY <1>2, <1>4 DEF PoolInv, PoolTypeOK, Phases
  <2>2. o = <<loop, client[loop]>> /\ f.own = loop /\ f.ep # client[loop]
    BY <1>4 DEF NewOwners
  <2>3. f = file[t]
    BY <1>2, <2>2 DEF PoolInv, Current
  <2>4. t \notin takeover
    BY <1>2, <2>1, <2>2, <2>3 DEF PoolInv, Claims
  <2>5. ASSUME NEW q \in Pid, Running(q, t) \/ <<q, t>> \in timers PROVE FALSE
    <3>1. Entitled(q, t)
      BY <1>2, <2>5, RunnerEntitled
    <3>2. q # 0
      BY <2>1, <2>2, <2>3, <2>4, <3>1, Owners DEF Entitled, Main
    <3>3. Busy(q) /\ Held(q, file[t]) /\ q \in Epoch
      BY <3>1, <3>2, Pids DEF Entitled, AtWork
    <3>4. q = client[loop]
      BY <2>1, <2>2, <2>3, <3>3 DEF PoolInv, Working, Held
    <3> QED
      BY <2>2, <2>3, <3>3, <3>4 DEF Held
  <2>6. runs[t] = {}
    BY <1>6, <2>5 DEF Running
  <2>7. client[loop] = child[loop]
    BY <2>1 DEF PoolInv, Supervised
  <2>8. \A q : ~ToReap(q, t)
    BY <2>2, <2>3, <2>7 DEF ToReap
  <2> QED
    BY <1>1, <1>2, <2>1, <2>2, <2>3, <2>4, <2>5, <2>6, <2>8
<1> QED
  BY <1>3, <1>4

\* A task that nobody works on may go to any owner.
LEMMA HandedOn ==
  ASSUME PoolInv, NEW t \in Task, NEW f \in Image, file' = [file EXCEPT ![t] = f],
         UNCHANGED <<runs, script, timers, takeover, mode, home, phase, proc, child, status, unwatched>>,
         runs[t] = {}, \A q \in Pid : <<q, t>> \notin timers,
         t \in takeover => f.own \notin Member,
         phase = "reconciling" \/ \A q : ~ToReap(q, t)
  PROVE  /\ file' \in [Task -> Image]
         /\ (\A c \in calls' : c.op # "recover" => c.task \notin takeover) => Claims'
         /\ Scripted'
<1>1. /\ file' \in [Task -> Image] /\ file'[t] = f
      /\ \A u \in Task \ {t} : file'[u] = file[u]
  BY DEF PoolInv, PoolTypeOK
<1>2. ASSUME \A c \in calls' : c.op # "recover" => c.task \notin takeover PROVE Claims'
  <2>1. \A u, g : Main(u, g)' <=> Main(u, g)
    BY DEF Main
  <2>2. \A q, g : Held(q, g)' <=> Held(q, g)
    BY DEF Held
  <2>3. ASSUME NEW u \in Task \ {t}, NEW r \in runs[u]
        PROVE  IF r.pid = 0 THEN Main(u, file[u])' /\ Main(u, r.img)'
               ELSE Held(r.pid, file[u])' /\ Held(r.pid, r.img)'
    BY <1>1, <2>1, <2>2 DEF PoolInv, Claims
  <2>4. ASSUME NEW u \in Task \ {t}, NEW q \in Pid, <<q, u>> \in timers
        PROVE  IF q = 0 THEN Main(u, file[u])' ELSE Held(q, file[u])'
    BY <1>1, <2>1, <2>2, <2>4 DEF PoolInv, Claims
  <2>5. ASSUME NEW u \in Task
        PROVE  /\ \A r \in runs[u] :
                    /\ runs[u] = {r} /\ r.img.done = file'[u].done /\ r.img.st = "running"
                    /\ file'[u].st \notin Ended
               /\ u \in takeover => /\ file'[u].own \notin Member
                                    /\ \A r \in runs[u] : r.img.own \notin Member
    BY <1>1 DEF PoolInv, Claims
  <2> QED
    BY <1>2, <2>3, <2>4, <2>5 DEF Claims
<1>3. Scripted'
  <2> SUFFICES ASSUME NEW u \in Task, NEW q \in script[u], q \notin unwatched, ~(Running(q, u)')
               PROVE  ToReap(q, u)' /\ phase \notin {"spawning", "reconciling"}
    BY DEF Scripted
  <2>1. ToReap(q, u) /\ phase \notin {"spawning", "reconciling"}
    BY DEF PoolInv, Scripted, Running
  <2>2. u # t
    BY <2>1
  <2> QED
    BY <1>1, <2>1, <2>2 DEF ToReap
<1> QED
  BY <1>1, <1>2, <1>3

LEMMA SaveTaskKeeps ==
  ASSUME PoolInv, SaveTask
  PROVE  PoolInv'
<1>1. /\ UNCHANGED <<takeover, runs, script, timers, todo, calls, unwatched, proc, home, lease>>
      /\ UNCHANGED <<mode, recorded, pool, phase, boot, asked, loop, left>>
      /\ UNCHANGED <<status, child, client, stage>>
      /\ read' = NoRead
  BY DEF SaveTask, superVars, procVars
<1>2. \A q : \A t \in Task : Running(q, t)' <=> Running(q, t)
  BY <1>1 DEF Running
<1>3. \A e \in Epoch : Busy(e)' <=> Busy(e)
  BY <1>1, <1>2 DEF Busy
<1>4. file' \in [Task -> Image] /\ Claims' /\ Scripted'
  <2>1. CASE UNCHANGED file
    BY <1>1, <1>2, <2>1 DEF PoolInv, PoolTypeOK, Claims, Scripted, Main, Held, ToReap
  <2>2. ASSUME NEW t \in Task, NEW o \in Member \cup {Controller}, NEW e \in Pid,
               file' = [file EXCEPT ![t] = [file[t] EXCEPT !.own = o, !.ep = e]],
               runs[t] = {}, \A q \in Pid : <<q, t>> \notin timers,
               t \in takeover => o = Controller,
               phase = "reconciling" \/ \A q : ~ToReap(q, t)
        PROVE  file' \in [Task -> Image] /\ Claims' /\ Scripted'
    <3> DEFINE f == [file[t] EXCEPT !.own = o, !.ep = e]
    <3>1. file[t] \in Image
      BY DEF PoolInv, PoolTypeOK
    <3>2. f \in Image
      BY <3>1, ImageUpdates
    <3>3. f.own = o
      BY <3>1 DEF Image
    <3>4. file' = [file EXCEPT ![t] = f] /\ (t \in takeover => f.own \notin Member)
      BY <2>2, <3>3, Owners
    <3>5. \A c \in calls' : c.op # "recover" => c.task \notin takeover
      BY <1>1 DEF PoolInv, Claims
    <3> HIDE DEF f
    <3> QED
      BY <1>1, <2>2, <3>2, <3>4, <3>5, HandedOn
  <2> QED
    BY <2>1, <2>2, SaveForms
<1>5. PoolTypeOK' /\ Phases'
  BY <1>1, <1>4 DEF PoolInv, PoolTypeOK, Phases
<1>6. Supervised'
  <2>1. \A m \in Member : Waiting(m)' <=> Waiting(m)
    BY <1>1 DEF Waiting
  <2>2. ASSUME NEW m \in Member, Waiting(m) PROVE ~(Busy(child[m])')
    <3>1. child[m] \in Epoch /\ ~Busy(child[m])
      BY <2>2 DEF PoolInv, Supervised, Waiting
    <3> QED
      BY <1>1, <1>3, <3>1
  <2> QED
    BY <1>1, <2>1, <2>2 DEF PoolInv, Supervised
<1>7. Leased' /\ Working' /\ Current'
  BY <1>1, <1>2, <1>3 DEF PoolInv, Leased, Working, Current
<1> QED
  BY <1>4, <1>5, <1>6, <1>7 DEF PoolInv

\* A request of a user for a task that is not the Controller's own: the task is
\* given to a member first if it has no owner yet.
LEMMA DelegateForms ==
  ASSUME PoolInv, NEW t \in Task, NEW op \in {"run", "retry", "stop"}, Operate(op, t), Delegated(t)
  PROVE  /\ mode = "process" /\ phase = "up" /\ t \notin takeover /\ loop = Nobody
         /\ UNCHANGED <<runs, script, timers, takeover, recorded, ctlVars, superVars, procVars,
                        todo, unwatched>>
         /\ \E m \in pool :
              /\ \/ UNCHANGED file
                 \/ /\ file[t].own = Nobody
                    /\ file' = [file EXCEPT ![t] = [file[t] EXCEPT !.own = m, !.ep = client[m]]]
              /\ \/ calls' = calls
                 \/ /\ proc[client[m]] = "serving"
                    /\ calls' = calls \cup {[op |-> op, to |-> client[m], task |-> t]}
<1>1. mode = "process" /\ phase = "up" /\ t \notin takeover /\ loop = Nobody
  BY DEF Operate, Delegated, Free
<1>2. UNCHANGED <<runs, script, timers, takeover, recorded, ctlVars, superVars, procVars, todo, unwatched>>
  BY DEF Operate, runVars
<1>3. CASE \E m \in ReadyMembers :
             /\ file[t].own = Nobody
             /\ WriteFile(t, [file[t] EXCEPT !.own = m, !.ep = client[m]])
             /\ Send(op, client[m], t)
  <2>1. PICK m \in ReadyMembers :
             /\ file[t].own = Nobody
             /\ WriteFile(t, [file[t] EXCEPT !.own = m, !.ep = client[m]])
             /\ Send(op, client[m], t)
    BY <1>3
  <2> QED
    BY <1>1, <1>2, <2>1 DEF ReadyMembers, WriteFile, Send
<1>4. CASE /\ file[t].own \in pool /\ file[t].ep = client[file[t].own]
           /\ Send(op, file[t].ep, t) /\ UNCHANGED runVars
  BY <1>1, <1>2, <1>4 DEF Send, runVars
<1> QED
  BY <1>3, <1>4 DEF Operate

LEMMA DelegateKeeps ==
  ASSUME PoolInv, NEW t \in Task, NEW op \in {"run", "retry", "stop"}, Operate(op, t), Delegated(t)
  PROVE  PoolInv'
<1>1. /\ mode = "process" /\ phase = "up" /\ t \notin takeover /\ loop = Nobody
      /\ UNCHANGED <<takeover, runs, script, timers, todo, unwatched, proc, home, lease>>
      /\ UNCHANGED <<mode, recorded, pool, phase, boot, asked, loop, left, read>>
      /\ UNCHANGED <<status, child, client, stage>>
  BY DelegateForms DEF ctlVars, superVars, procVars
<1>2. PICK m \in pool :
        /\ \/ UNCHANGED file
           \/ /\ file[t].own = Nobody
              /\ file' = [file EXCEPT ![t] = [file[t] EXCEPT !.own = m, !.ep = client[m]]]
        /\ \/ calls' = calls
           \/ /\ proc[client[m]] = "serving"
              /\ calls' = calls \cup {[op |-> op, to |-> client[m], task |-> t]}
  BY DelegateForms
<1>3. /\ m \in Member /\ m # Nobody /\ client[m] \in Pid /\ phase \in Reigning /\ read = NoRead
      /\ file[t] \in Image
  BY <1>1, Owners DEF PoolInv, PoolTypeOK, Phases, Reigning
<1>4. \A q : \A u \in Task : Running(q, u)' <=> Running(q, u)
  BY <1>1 DEF Running
<1>5. /\ Supervised' /\ Working' /\ calls' \subseteq Request
      /\ \A c \in calls' : c.op # "recover" => c.task \notin takeover
  <2>1. CASE calls' = calls
    <3>1. \A e \in Epoch : Busy(e)' <=> Busy(e)
      BY <1>1, <1>4, <2>1 DEF Busy
    <3>2. \A k \in Member : Waiting(k)' <=> Waiting(k)
      BY <1>1 DEF Waiting
    <3>3. ASSUME NEW k \in Member, Waiting(k) PROVE ~(Busy(child[k])')
      <4>1. child[k] \in Epoch /\ ~Busy(child[k])
        BY <3>3 DEF PoolInv, Supervised, Waiting
      <4> QED
        BY <1>1, <3>1, <4>1
    <3> QED
      BY <1>1, <1>4, <2>1, <3>1, <3>2, <3>3 DEF PoolInv, PoolTypeOK, Supervised, Working, Claims
  <2>2. CASE calls' # calls
    <3> DEFINE c == [op |-> op, to |-> client[m], task |-> t]
    <3>1. proc[client[m]] = "serving" /\ calls' = calls \cup {c}
      BY <1>2, <2>2
    <3>2. client[m] \in Epoch
      BY <1>1, <1>3, <3>1, Callable
    <3>3. c \in Request /\ c.to = client[m] /\ c.task = t
      BY <3>2 DEF Request
    <3> HIDE DEF c
    <3>4. stage' \in [Member -> {"none", "reassign", "await"}]
      BY <1>1 DEF PoolInv, PoolTypeOK
    <3>5. Supervised' /\ Working' /\ calls' \subseteq Request
      BY <1>1, <1>3, <3>1, <3>3, <3>4, CallKeeps
    <3> QED
      BY <1>1, <3>1, <3>3, <3>5 DEF PoolInv, Claims
  <2> QED
    BY <2>1, <2>2
<1>6. file' \in [Task -> Image] /\ Claims' /\ Scripted'
  <2>1. CASE UNCHANGED file
    <3>1. Claims'
      BY <1>1, <1>5, <2>1 DEF PoolInv, Claims, Main, Held
    <3> QED
      BY <1>1, <1>4, <2>1, <3>1 DEF PoolInv, PoolTypeOK, Scripted, ToReap
  <2>2. CASE /\ file[t].own = Nobody
             /\ file' = [file EXCEPT ![t] = [file[t] EXCEPT !.own = m, !.ep = client[m]]]
    <3> DEFINE f == [file[t] EXCEPT !.own = m, !.ep = client[m]]
    <3>1. f \in Image
      BY <1>3, ImageUpdates
    <3>2. file' = [file EXCEPT ![t] = f]
      BY <2>2
    <3> HIDE DEF f
    <3>3. ASSUME NEW q \in Pid, Running(q, t) \/ <<q, t>> \in timers PROVE FALSE
      <4>1. Entitled(q, t)
        BY <3>3, RunnerEntitled
      <4>2. q # 0
        BY <1>1, <2>2, <4>1, Owners DEF Entitled, Main
      <4>3. Held(q, file[t]) /\ home[q] \in Member
        BY <4>1, <4>2, Pids DEF Entitled, PoolInv, PoolTypeOK
      <4> QED
        BY <2>2, <4>3, Owners DEF Held
    <3>4. runs[t] = {}
      <4>1. \A r \in runs[t] : r.pid \in Pid
        BY DEF PoolInv, PoolTypeOK
      <4> QED
        BY <3>3, <4>1 DEF Running
    <3>5. \A q : ~ToReap(q, t)
      BY <2>2, Owners DEF ToReap
    <3> QED
      BY <1>1, <1>5, <3>1, <3>2, <3>3, <3>4, <3>5, HandedOn
  <2> QED
    BY <1>2, <2>1, <2>2
<1>7. PoolTypeOK' /\ Phases' /\ Leased' /\ Current'
  BY <1>1, <1>3, <1>5, <1>6 DEF PoolInv, PoolTypeOK, Phases, Leased, Current
<1> QED
  BY <1>5, <1>6, <1>7 DEF PoolInv

-----------------------------------------------------------------------------
(***************************************************************************)
(* The Controller exits.                                                   *)
(***************************************************************************)
LEMMA GoneForms ==
  ASSUME PoolInv, FenceTimesOut \/ StopDone \/ Crash
  PROVE  /\ Gone /\ UNCHANGED calls
         /\ file' \in [Task -> Image] /\ script' \in [Task -> SUBSET Pid] /\ unwatched' \subseteq Pid
         /\ \A t \in Task :
              \/ file'[t] = file[t]
              \/ /\ Running(0, t) /\ file'[t].done = file[t].done
                 /\ t \in takeover => file'[t].own \notin Member
         /\ \A t \in Task : \A q \in script'[t] :
              q \in script[t] /\ (q \in unwatched' \/ (q # 0 /\ Running(q, t)))
<1>1. /\ 0 \in Pid /\ file \in [Task -> Image] /\ script \in [Task -> SUBSET Pid]
      /\ unwatched \subseteq Pid
  BY Pids DEF PoolInv, PoolTypeOK
<1>2. \A t \in Task : \A q \in script[t] : q \in unwatched \/ Running(q, t) \/ (ToReap(q, t) /\ Watched(q))
  BY DEF PoolInv, Scripted, ToReap, Watched
<1>3. CASE FenceTimesOut
  <2>1. Gone /\ UNCHANGED <<file, script, calls, unwatched>> /\ phase = "leasing"
    BY <1>3 DEF FenceTimesOut
  <2>2. \A q : ~Watched(q)
    BY <2>1 DEF PoolInv, Phases, Watched
  <2>3. \A t \in Task : ~Running(0, t)
    BY <2>1 DEF PoolInv, Working
  <2> QED
    BY <1>1, <1>2, <2>1, <2>2, <2>3
<1>4. CASE StopDone
  <2>1. /\ Gone /\ UNCHANGED <<calls, unwatched>> /\ file' = Cancelled(0)
        /\ script' = [t \in Task |-> script[t] \
                        ({0} \cup {child[m] : m \in {k \in Member : status[k] # "stopped"}})]
    BY <1>4 DEF StopDone
  <2>2. ASSUME NEW t \in Task
        PROVE  /\ file'[t] \in Image
               /\ \/ file'[t] = file[t]
                  \/ /\ Running(0, t) /\ file'[t].done = file[t].done
                     /\ t \in takeover => file'[t].own \notin Member
    <3>1. CASE Running(0, t)
      <4>1. PICK r \in runs[t] : r.pid = 0 /\ file'[t] = [r.img EXCEPT !.st = "stopped"]
        BY <1>1, <2>1, <3>1, CancelledImage
      <4>2. r.img \in Image /\ r.img.done = file[t].done /\ (t \in takeover => r.img.own \notin Member)
        BY <4>1 DEF PoolInv, PoolTypeOK, Claims
      <4>3. "stopped" \in Status
        BY DEF Status
      <4>4. [r.img EXCEPT !.st = "stopped"] \in Image
        BY <4>2, <4>3, ImageUpdates
      <4>5. file'[t].own = r.img.own /\ file'[t].done = r.img.done
        BY <4>1, <4>2 DEF Image
      <4> QED
        BY <3>1, <4>1, <4>2, <4>4, <4>5
    <3>2. CASE ~Running(0, t)
      BY <1>1, <2>1, <3>2 DEF Cancelled
    <3> QED
      BY <3>1, <3>2
  <2>3. file' \in [Task -> Image]
    <3>1. file' = [t \in Task |-> file'[t]]
      BY <2>1 DEF Cancelled
    <3> QED
      BY <2>2, <3>1
  <2>4. \A t \in Task : \A q \in script'[t] : q \in script[t] /\ q # 0 /\ ~Watched(q)
    BY <2>1 DEF Watched
  <2> QED
    BY <1>1, <1>2, <2>1, <2>2, <2>3, <2>4
<1>5. CASE Crash
  <2>1. /\ Gone /\ UNCHANGED <<file, script, calls>>
        /\ unwatched' = unwatched \cup
             {p \in UNION {script[t] : t \in Task} :
                p = 0 \/ (proc[p] = "dead" /\ Watched(p))}
    BY <1>5 DEF Crash
  <2>2. unwatched' \subseteq Pid
    BY <1>1, <2>1
  <2>3. \A t \in Task : \A q \in script[t] : q = 0 \/ ToReap(q, t) => q \in unwatched'
    BY <2>1 DEF ToReap, Watched, PoolInv, PoolTypeOK
  <2>4. unwatched \subseteq unwatched'
    BY <2>1
  <2> QED
    BY <1>1, <1>2, <2>1, <2>2, <2>3, <2>4
<1> QED
  BY <1>3, <1>4, <1>5

LEMMA GoneKeeps ==
  ASSUME PoolInv, FenceTimesOut \/ StopDone \/ Crash
  PROVE  PoolInv'
<1>1. /\ phase' = "down" /\ boot' = {} /\ asked' = Nobody /\ mode' = "inline" /\ pool' = {}
      /\ loop' = Nobody /\ left' = {} /\ read' = NoRead
      /\ UNCHANGED <<takeover, recorded, proc, home, calls>>
  BY GoneForms DEF Gone
<1>2. /\ lease' = [m \in Member |-> IF lease[m] = 0 THEN NoPid ELSE lease[m]]
      /\ runs' = [t \in Task |-> {r \in runs[t] : r.pid # 0}]
      /\ timers' = {x \in timers : x[1] # 0}
      /\ todo' = [todo EXCEPT ![0] = {}]
      /\ status' = [m \in Member |-> "stopped"] /\ stage' = [m \in Member |-> "none"]
      /\ child' = [m \in Member |-> 0] /\ client' = [m \in Member |-> 0]
  BY GoneForms DEF Gone, Released
<1>3. PoolTypeOK /\ 0 \in Pid /\ 0 \notin Epoch /\ \A e \in Epoch : e \in Pid /\ e # 0
  BY Pids DEF PoolInv
<1>4. /\ \A q : \A t \in Task : Running(q, t)' <=> Running(q, t) /\ q # 0
      /\ \A q, t : <<q, t>> \in timers' <=> <<q, t>> \in timers /\ q # 0
      /\ todo'[0] = {} /\ \A e \in Epoch : todo'[e] = todo[e]
  BY <1>2, <1>3 DEF Running, PoolTypeOK
<1>5. \A e \in Epoch : Busy(e)' <=> Busy(e)
  BY <1>1, <1>3, <1>4 DEF Busy
<1>6. PoolTypeOK'
  <2>1. lease' \in [Member -> Pid \cup {NoPid}]
    BY <1>2, <1>3 DEF PoolTypeOK
  <2>2. runs' \in [Task -> SUBSET [pid : Pid, img : Image]] /\ timers' \subseteq Pid \X Task
        /\ todo' \in [Pid -> SUBSET Task]
    BY <1>2, <1>3 DEF PoolTypeOK
  <2> QED
    BY <1>1, <1>2, <1>3, <2>1, <2>2, GoneForms DEF PoolTypeOK
<1>7. Phases'
  BY <1>1, <1>2, Owners DEF Phases
<1>8. Supervised'
  BY <1>1, <1>2, <1>3 DEF Supervised, Waiting
<1>9. Leased'
  BY <1>1, <1>2, <1>3 DEF PoolInv, PoolTypeOK, Leased
<1>10. Working'
  BY <1>1, <1>2, <1>4, <1>5 DEF PoolInv, Working, Reigning
<1>11. Claims'
  <2>1. \A t \in Task : \A r \in runs'[t] :
          /\ r \in runs[t] /\ r.pid # 0 /\ r.pid \in Epoch
          /\ runs[t] = {r} => runs'[t] = {r}
    BY <1>2, <1>3, Pids DEF PoolTypeOK
  <2>2. \A f : \A q \in Epoch : Held(q, f)' <=> Held(q, f)
    BY <1>1 DEF Held
  <2>3. \A t \in Task, q \in Pid : <<q, t>> \in timers' => <<q, t>> \in timers /\ q # 0 /\ q \in Epoch
    BY <1>4, Pids
  <2>4. ASSUME NEW t \in Task, file'[t] # file[t]
        PROVE  runs'[t] = {} /\ \A q \in Pid : <<q, t>> \notin timers'
    <3>1. Entitled(0, t)
      BY <1>3, <2>4, GoneForms, RunnerEntitled
    <3>2. \A r \in runs[t] : r.pid = 0
      BY <1>3, <3>1, Exclusive
    <3>3. \A q \in Pid : <<q, t>> \in timers => q = 0
      BY <1>3, <3>1, RunnerEntitled, OneEntitled
    <3> QED
      BY <2>1, <2>3, <3>2, <3>3
  <2>5. ASSUME NEW t \in Task, NEW r \in runs'[t]
        PROVE  /\ runs'[t] = {r} /\ r.pid # 0
               /\ Held(r.pid, file[t])' /\ Held(r.pid, r.img)'
               /\ r.img.done = file'[t].done /\ r.img.st = "running" /\ file'[t].st \notin Ended
    BY <2>1, <2>2, <2>4 DEF PoolInv, Claims
  <2>6. ASSUME NEW t \in Task, NEW q \in Pid, <<q, t>> \in timers'
        PROVE  q # 0 /\ Held(q, file[t])'
    BY <2>2, <2>3, <2>4, <2>6 DEF PoolInv, Claims
  <2>7. ASSUME NEW t \in takeover
        PROVE  file'[t].own \notin Member /\ \A r \in runs'[t] : r.img.own \notin Member
    <3>1. t \in Task
      BY <1>3 DEF PoolTypeOK
    <3> QED
      BY <2>1, <3>1, GoneForms DEF PoolInv, Claims
  <2>8. \A c \in calls' : c.op # "recover" => c.task \notin takeover
    BY <1>1 DEF PoolInv, Claims
  <2> QED
    BY <1>1, <2>5, <2>6, <2>7, <2>8 DEF Claims
<1>12. Current'
  BY <1>1 DEF Current
<1>13. Scripted'
  BY <1>4, GoneForms DEF Scripted
<1> QED
  BY <1>6, <1>7, <1>8, <1>9, <1>10, <1>11, <1>12, <1>13 DEF PoolInv

-----------------------------------------------------------------------------
(***************************************************************************)
(* The pool as a whole.                                                    *)
(***************************************************************************)
LEMMA InitKeeps ==
  ASSUME Init
  PROVE  PoolInv
<1>1. AnyMember \in Member
  BY Owners DEF Init, AnyMember
<1>2. 0 \in Pid /\ 0 \notin Epoch /\ NoPid \notin Pid /\ \A e \in Epoch : e \in Pid
  BY Pids
<1>3. /\ \A q : \A t \in Task : ~Running(q, t)
      /\ \A p \in Pid : ~Busy(p)
  <2>1. \A q : \A t \in Task : ~Running(q, t)
    BY DEF Init, Running
  <2> QED
    BY <2>1 DEF Init, Busy
<1>4. PoolTypeOK
  <2>1. "pending" \in Status /\ 0 \in 0..MaxSteps
    BY PoolAssumption DEF Status
  <2>2. [st |-> "pending", own |-> Nobody, ep |-> 0, done |-> 0] \in Image
    BY <1>2, <2>1 DEF Image
  <2> QED
    BY <1>1, <1>2, <2>2 DEF Init, PoolTypeOK
<1>5. Phases
  BY Owners DEF Init, Phases
<1>6. Supervised
  BY <1>2 DEF Init, Supervised, Waiting
<1>7. Leased
  BY DEF Init, Leased
<1>8. Working
  BY <1>2, <1>3 DEF Init, Working
<1>9. Claims
  BY Owners DEF Init, Claims
<1>10. Current /\ Scripted
  BY DEF Init, Current, Scripted
<1> QED
  BY <1>4, <1>5, <1>6, <1>7, <1>8, <1>9, <1>10 DEF PoolInv

\* The steps by what they do to the task files.
Quiet ==
  \/ Start \/ Fenced \/ PoolStarted \/ EndLoop \/ BootAnswered \/ OwnTasks \/ Open
  \/ BootFails \/ Stop
  \/ \E t \in Task : ReadTask(t)
  \/ \E m \in Member :
       \/ AcquireFence(m) \/ Spawn(m) \/ Ready(m) \/ BeginReassign(m) \/ AskBoot(m)
       \/ HandedOver(m) \/ HandOverTimesOut(m) \/ ChildDied(m) \/ SpawnAgain(m) \/ SpawnLate(m)
  \/ \E p \in Epoch : Lock(p) \/ ParentGone(p)

LEMMA NextForms ==
  ASSUME Next
  PROVE  \/ Quiet
         \/ \E p \in Pid : Works(p)
         \/ \E p \in Epoch : Killed(p) \/ CloseDone(p)
         \/ FenceTimesOut \/ StopDone \/ Crash
         \/ SaveTask
         \/ \E t \in Task, op \in {"run", "retry", "stop"} : Operate(op, t) /\ Delegated(t)
<1>1. 0 \in Pid /\ \A p \in Pid : p # 0 => p \in Epoch
  BY Pids
<1>2. CASE Controller_
  BY <1>2 DEF Controller_, Quiet
<1>3. ASSUME NEW p \in Pid, Process(p)
      PROVE  Quiet \/ Works(p) \/ (p \in Epoch /\ CloseDone(p))
  <2>1. CASE p # 0 /\ (Lock(p) \/ ParentGone(p) \/ CloseDone(p))
    BY <1>1, <2>1 DEF Quiet
  <2>2. CASE ~(p # 0 /\ (Lock(p) \/ ParentGone(p) \/ CloseDone(p)))
    BY <1>3, <2>2 DEF Process, Works
  <2> QED
    BY <2>1, <2>2
<1>4. CASE Environment
  <2>1. ASSUME NEW p \in Pid, NEW t \in Task, Finish(p, t, "retry_waiting") PROVE Works(p)
    BY <2>1 DEF Works
  <2>2. ASSUME NEW t \in Task, NEW op \in {"run", "retry", "stop"}, Operate(op, t)
        PROVE  Works(0) \/ (Operate(op, t) /\ Delegated(t))
    BY <2>2 DEF Works
  <2> QED
    BY <1>1, <1>4, <2>1, <2>2 DEF Environment, Quiet
<1> QED
  BY <1>2, <1>3, <1>4 DEF Next

LEMMA QuietKeeps ==
  ASSUME PoolInv, Quiet
  PROVE  PoolInv' /\ UNCHANGED file
<1>1. UNCHANGED file
  BY DEF Quiet, Start, Fenced, PoolStarted, EndLoop, BootAnswered, OwnTasks, Open, BootFails, Stop,
         ReadTask, AcquireFence, Spawn, Ready, BeginReassign, AskBoot, HandedOver,
         HandOverTimesOut, ChildDied, SpawnAgain, SpawnLate, Lock, ParentGone
<1> QED
  BY <1>1, StartKeeps, AnswersKeep, PoolStartedKeeps, EndLoopKeeps, StoppingKeeps, ReadTaskKeeps,
     AcquireFenceKeeps, SpawnKeeps, ReadyKeeps, BeginReassignKeeps, AskBootKeeps,
     HandingOverKeeps, ChildDiedKeeps, LockKeeps, ParentGoneKeeps
  DEF Quiet

LEMMA NextKeeps ==
  ASSUME PoolInv, [Next]_vars
  PROVE  PoolInv'
<1>1. CASE Next
  BY <1>1, NextForms, QuietKeeps, WorkKeeps, ExitKeeps, GoneKeeps, SaveTaskKeeps, DelegateKeeps
<1>2. CASE UNCHANGED vars
  <2>1. UNCHANGED workVars /\ UNCHANGED mode
    BY <1>2 DEF vars, workVars, ctlVars, procVars
  <2>2. /\ UNCHANGED <<recorded, phase, pool, boot, asked, loop, left, read, lease>>
        /\ UNCHANGED <<status, child, client, stage>>
    BY <1>2 DEF vars, ctlVars, superVars, procVars
  <2>3. PoolTypeOK' /\ Phases'
    BY <2>1, <2>2 DEF PoolInv, PoolTypeOK, Phases, workVars
  <2>4. Supervised' /\ Leased' /\ Working' /\ Claims'
    BY <2>1, <2>2, SameWork, SameClaims DEF PoolInv, Supervised, Leased, Working, workVars, Waiting
  <2>5. Current' /\ Scripted'
    BY <2>1, <2>2, SameWork DEF PoolInv, Current, Scripted, ToReap, workVars
  <2> QED
    BY <2>3, <2>4, <2>5 DEF PoolInv
<1> QED
  BY <1>1, <1>2

-----------------------------------------------------------------------------
(***************************************************************************)
(* What follows from the invariant.                                        *)
(***************************************************************************)
LEMMA OwnersSound ==
  ASSUME PoolInv
  PROVE  OneOwner
BY DEF PoolInv, Claims, OneOwner, Held

LEMMA ScriptsSound ==
  ASSUME PoolInv
  PROVE  ScriptsReaped
<1> SUFFICES ASSUME NEW t \in Task, NEW r \in runs[t], NEW q \in script[t], q # r.pid, q \notin unwatched
             PROVE  FALSE
  BY DEF ScriptsReaped
<1>1. ToReap(q, t)
  <2>1. ~Running(q, t)
    BY DEF Running, PoolInv, Claims
  <2> QED
    BY <2>1 DEF PoolInv, Scripted
<1>2. r.pid \in Pid /\ Running(r.pid, t)
  BY DEF PoolInv, PoolTypeOK, Running
<1>3. Entitled(r.pid, t)
  BY <1>2, RunnerEntitled
<1>4. CASE r.pid = 0
  <2>1. Main(t, file[t])
    BY <1>3, <1>4 DEF Entitled
  <2> QED
    BY <1>1, <2>1, Owners DEF Main, ToReap, PoolInv, Phases, Claims
<1>5. CASE r.pid # 0
  BY <1>1, <1>3, <1>5 DEF Entitled, Held, ToReap
<1> QED
  BY <1>4, <1>5

\* Nothing a step writes into a task file is older than what is there.
LEMMA FilesGoOn ==
  ASSUME PoolInv, [Next]_vars, NEW t \in Task
  PROVE  /\ file'[t].done >= file[t].done
         /\ file[t].st \in Ended => file'[t].st = file[t].st
<1>1. file \in [Task -> Image] /\ file[t].done \in 0..MaxSteps
  BY DEF PoolInv, PoolTypeOK, Image
<1>2. CASE file'[t] = file[t]
  BY <1>1, <1>2, PoolAssumption
<1>3. ASSUME NEW p \in Pid, Works(p), file'[t] # file[t]
      PROVE  /\ file'[t].done >= file[t].done
             /\ file[t].st \in Ended => file'[t].st = file[t].st
  <2>1. \E u \in Task : Acts(p, u)
    BY <1>3, WorkForms DEF Rests, runVars
  <2>2. PICK u \in Task : \E f : Changes(p, u, f)
    BY <2>1 DEF Acts
  <2>3. PICK f : Changes(p, u, f)
    BY <2>2
  <2>4. u = t /\ file'[t] = f
    BY <1>1, <1>3, <2>3 DEF Changes
  <2> QED
    BY <2>3, <2>4 DEF Changes
<1>4. ASSUME NEW p \in Pid, Running(p, t), file'[t].done = file[t].done
      PROVE  /\ file'[t].done >= file[t].done
             /\ file[t].st \in Ended => file'[t].st = file[t].st
  <2>1. file[t].st \notin Ended
    BY <1>4 DEF Running, PoolInv, Claims
  <2> QED
    BY <1>1, <1>4, <2>1, PoolAssumption
<1>5. CASE (\E p \in Epoch : Killed(p) \/ CloseDone(p)) /\ file'[t] # file[t]
  BY <1>4, <1>5, ExitForms, Pids
<1>6. CASE (FenceTimesOut \/ StopDone \/ Crash) /\ file'[t] # file[t]
  BY <1>4, <1>6, GoneForms, Pids
<1>7. ASSUME NEW u \in Task, NEW o, NEW e,
             file' = [file EXCEPT ![u] = [file[u] EXCEPT !.own = o, !.ep = e]]
      PROVE  /\ file'[t].done >= file[t].done
             /\ file[t].st \in Ended => file'[t].st = file[t].st
  <2>1. file'[t].done = file[t].done /\ file'[t].st = file[t].st
    BY <1>1, <1>7 DEF Image
  <2> QED
    BY <1>1, <2>1, PoolAssumption
<1>8. CASE SaveTask /\ file'[t] # file[t]
  BY <1>7, <1>8, SaveForms
<1>9. CASE /\ \E u \in Task, op \in {"run", "retry", "stop"} : Operate(op, u) /\ Delegated(u)
           /\ file'[t] # file[t]
  <2>1. PICK u \in Task, op \in {"run", "retry", "stop"} : Operate(op, u) /\ Delegated(u)
    BY <1>9
  <2>2. \E m \in pool : \/ UNCHANGED file
                       \/ file' = [file EXCEPT ![u] = [file[u] EXCEPT !.own = m, !.ep = client[m]]]
    BY <2>1, DelegateForms
  <2> QED
    BY <1>7, <1>9, <2>2
<1>10. CASE Quiet
  BY <1>2, <1>10, QuietKeeps
<1>11. CASE UNCHANGED vars
  BY <1>2, <1>11 DEF vars
<1> QED
  BY <1>2, <1>3, <1>5, <1>6, <1>8, <1>9, <1>10, <1>11, NextForms

LEMMA PoolInductive == Spec => []PoolInv
<1>1. Init => PoolInv
  BY InitKeeps
<1>2. PoolInv /\ [Next]_vars => PoolInv'
  BY NextKeeps
<1> QED
  BY <1>1, <1>2, PTL DEF Spec

\* The type invariant: processes, leases, files and requests stay what they are,
\* with any number of members, tasks and epochs.
THEOREM PoolTyped == Spec => []PoolTypeOK
<1>1. PoolInv => PoolTypeOK
  BY DEF PoolInv
<1> QED
  BY <1>1, PoolInductive, PTL

\* One process at most runs a task, and while a member's process does, the task
\* file names it (_task_ownership_error, execution_routing, the executor leases),
\* whatever dies, restarts or answers late.
THEOREM PoolOwners == Spec => []OneOwner
<1>1. PoolInv => OneOwner
  BY OwnersSound
<1> QED
  BY <1>1, PoolInductive, PTL

\* No task is executed beside a node script of an earlier execution of it, unless
\* whoever should have reaped that script died too (_reap_process_tree).
THEOREM PoolScripts == Spec => []ScriptsReaped
<1>1. PoolInv => ScriptsReaped
  BY ScriptsSound
<1> QED
  BY <1>1, PoolInductive, PTL

\* No save of a task file, by whichever process, undoes a checkpoint or takes a
\* task out of a final status.
THEOREM PoolProgress == Spec => ProgressKept
<1>1. PoolInv /\ [Next]_vars =>
        [\A t \in Task : /\ file'[t].done >= file[t].done
                         /\ file[t].st \in Ended => file'[t].st = file[t].st]_vars
  BY FilesGoOn
<1> QED
  BY <1>1, PoolInductive, PTL DEF Spec, ProgressKept

===============================================================================
