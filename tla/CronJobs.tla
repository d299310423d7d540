------------------------------- MODULE CronJobs -------------------------------
(***************************************************************************)
(* Scheduled jobs: the file of jobs (cron/jobs.py), the loop that runs what*)
(* is due (cron/scheduler.py, cron/runner.py), and the requests of the tool*)
(* and of the API, each of which loads the whole file, changes its copy and*)
(* saves it.  Only the execution of a job waits, so a tick and a manual run*)
(* keep their copy across other requests.                                  *)
(*                                                                         *)
(* A unit of time is a minute.  A job may be of any kind; its schedule is  *)
(* a constant, its jitter, its prompt and what it answers are left out.    *)
(***************************************************************************)
EXTENDS Integers, FiniteSetsExt

CONSTANTS
  CrJobs,     \* ids, numbers in the order of the file
  CrKind, CrEvery, \* of a job: "once", "interval" or "cron", and when or how often
  CrRepeat,   \* of a job: repeat; 0: without limit
  CrMaxTime, CrMaxRequests, CrMaxExits \* bounds

ASSUME CrAssumption ==
  /\ CrJobs \subseteq Nat \ {0}
  /\ CrKind \in [CrJobs -> {"once", "interval", "cron"}]
  /\ CrEvery \in [CrJobs -> Nat \ {0}] /\ CrRepeat \in [CrJobs -> Nat]

VARIABLES
  crNow,
  crFile,     \* jobs.json
  crTick,     \* the loop: the copy it loaded, what it still runs and runs now, its last tick
  crManual,   \* a manual run: its copy and its job; 0: none
  crUp,
  crExecs,    \* history: executions of a job, those by hand, and the last one the loop began
  crAgain,    \* history: how often a user ran or enabled it when it had used up its repeats
  crTorn,     \* history: someone saved while another held a copy
  crLost,     \* history: an execution whose record was not saved
  crForwardLost, \* history: it was a forwarded job that kept it from being saved
  crRequests, crExits \* counters

crPast == <<crExecs, crAgain, crTorn, crLost, crForwardLost>>
crVars == <<crNow, crFile, crTick, crManual, crUp, crPast, crRequests, crExits>>

Never == -1
NoCron == [on |-> FALSE, next |-> Never, last |-> Never, done |-> -1]
Resting(t) == [pc |-> "resting", jobs |-> [j \in CrJobs |-> NoCron], todo |-> {}, runs |-> 0,
               forwarded |-> FALSE, at |-> t]
NoManual == [job |-> 0, jobs |-> [j \in CrJobs |-> NoCron]]
Known(jobs) == {j \in CrJobs : jobs[j] # NoCron}

CrInit ==
  /\ crNow = 0 /\ crFile = [j \in CrJobs |-> NoCron]
  /\ crTick = Resting(Never) /\ crManual = NoManual /\ crUp = TRUE
  /\ crExecs = [j \in CrJobs |-> [all |-> 0, hand |-> 0, begun |-> Never]]
  /\ crAgain = [j \in CrJobs |-> 0] /\ crTorn = FALSE /\ crLost = FALSE /\ crForwardLost = FALSE
  /\ crRequests = 0 /\ crExits = 0

-----------------------------------------------------------------------------
(***************************************************************************)
(* The schedule                                                            *)
(***************************************************************************)
\* _compute_next_run
Bug_PastTimeKept(j, job, base) ==
  CASE CrKind[j] = "once"     -> CrEvery[j]
    [] CrKind[j] = "interval" -> CrEvery[j] + (IF job.last = Never THEN base ELSE job.last)
    [] OTHER                  -> CrEvery[j] * (1 + base \div CrEvery[j])
NextRun(j, job, base) ==
  CASE CrKind[j] = "once"     -> IF CrEvery[j] > base THEN CrEvery[j] ELSE Never
    [] CrKind[j] = "interval" -> CrEvery[j] + (IF job.last = Never THEN base ELSE job.last)
    [] OTHER                  -> CrEvery[j] * (1 + base \div CrEvery[j])

\* A job is overdue beyond the grace of half its period, at least two minutes.
Grace(j) == Min({Max({CrEvery[j] \div 2, 2}), 120})
Overdue(j, job) == CrKind[j] # "once" /\ crNow - job.next > Grace(j)

DueOf(jobs) ==
  {j \in Known(jobs) : jobs[j].on /\ jobs[j].next # Never /\ jobs[j].next <= crNow}

\* mark_job_run
Bug_RepeatOnceMore(j, job) == CrRepeat[j] # 0 /\ job.done > CrRepeat[j]
Exhausted(j, job) == CrRepeat[j] # 0 /\ job.done >= CrRepeat[j]

Bug_NextFromNext(j, job) ==
  LET ran == [job EXCEPT !.last = crNow, !.done = @ + 1] IN
  IF CrKind[j] = "once" \/ Exhausted(j, ran) THEN [ran EXCEPT !.on = FALSE, !.next = Never]
  ELSE [ran EXCEPT !.next = job.next + CrEvery[j]]
Marked(j, job) ==
  LET ran == [job EXCEPT !.last = crNow, !.done = @ + 1] IN
  IF CrKind[j] = "once" \/ Exhausted(j, ran) THEN [ran EXCEPT !.on = FALSE, !.next = Never]
  ELSE [ran EXCEPT !.next = NextRun(j, ran, crNow)]

-----------------------------------------------------------------------------
(***************************************************************************)
(* The file                                                                *)
(***************************************************************************)
Others(who) ==
  {w \in {"tick", "manual"} \ {who} :
     (w = "tick" /\ crTick.pc = "running") \/ (w = "manual" /\ crManual.job # 0)}

CrSave(who, jobs) == crFile' = jobs /\ crTorn' = (crTorn \/ Others(who) # {})

Starts(j, byLoop) ==
  crExecs' = [crExecs EXCEPT ![j] =
                [all |-> @.all + 1, hand |-> IF byLoop THEN @.hand ELSE @.hand + 1,
                 begun |-> IF byLoop THEN crNow ELSE @.begun]]

\* A user wants one run more of what has used up its repeats.
RunsAgain(j) == crAgain' = [crAgain EXCEPT ![j] = @ + IF Exhausted(j, crFile[j]) THEN 1 ELSE 0]

CrPass ==
  /\ crNow < CrMaxTime /\ crNow' = crNow + 1
  /\ UNCHANGED <<crFile, crTick, crManual, crUp, crPast, crRequests, crExits>>

-----------------------------------------------------------------------------
(***************************************************************************)
(* The loop                                                                *)
(***************************************************************************)
FirstOf(j, jobs) == j \in jobs /\ \A k \in jobs : j <= k

\* _tick: what is overdue is moved on in the copy, as a datetime, which is not
\* written to the file unless something else is due.
CrTicks ==
  LET late == {j \in DueOf(crFile) : Overdue(j, crFile[j])}
      due  == DueOf(crFile) \ late
  IN
  /\ crUp /\ crTick.pc = "resting" /\ crNow > crTick.at
  /\ \E first \in due :
       /\ FirstOf(first, due) /\ Starts(first, TRUE)
       /\ crTick' = [pc |-> "running", at |-> crTick.at, forwarded |-> late # {},
                     jobs |-> [j \in CrJobs |->
                                 IF j \in late
                                 THEN [crFile[j] EXCEPT !.next = NextRun(j, crFile[j], crNow)]
                                 ELSE crFile[j]],
                     todo |-> due, runs |-> first]
  /\ UNCHANGED <<crNow, crFile, crManual, crUp, crAgain, crTorn, crLost, crForwardLost,
                 crRequests, crExits>>

\* run_job ends, whatever came of it: the next job begins, or the copy is saved.
\* json.dump raises over the datetime of a forwarded job, and nothing is saved.
CrTickGoesOn ==
  LET j == crTick.runs
      jobs == [crTick.jobs EXCEPT ![j] = Marked(j, @)]
      rest == crTick.todo \ {j}
  IN
  /\ crUp /\ crTick.pc = "running"
  /\ \/ \E next \in rest :
          /\ FirstOf(next, rest) /\ Starts(next, TRUE)
          /\ crTick' = [crTick EXCEPT !.jobs = jobs, !.todo = rest, !.runs = next]
          /\ UNCHANGED <<crFile, crTorn, crLost, crForwardLost>>
     \/ /\ rest = {}
        /\ crTick' = Resting(crNow)
        /\ \/ ~crTick.forwarded /\ CrSave("tick", jobs) /\ UNCHANGED <<crLost, crForwardLost>>
           \/ /\ crTick.forwarded /\ crLost' = TRUE /\ crForwardLost' = TRUE
              /\ UNCHANGED <<crFile, crTorn>>
        /\ UNCHANGED crExecs
  /\ UNCHANGED <<crNow, crManual, crUp, crAgain, crRequests, crExits>>

-----------------------------------------------------------------------------
(***************************************************************************)
(* Requests                                                                *)
(***************************************************************************)
CrRequest == crUp /\ crRequests < CrMaxRequests /\ crRequests' = crRequests + 1

CrRunNow(j) ==
  /\ CrRequest /\ crManual = NoManual /\ j \in Known(crFile)
  /\ crManual' = [job |-> j, jobs |-> crFile]
  /\ RunsAgain(j) /\ Starts(j, FALSE)
  /\ UNCHANGED <<crNow, crFile, crTick, crUp, crTorn, crLost, crForwardLost, crExits>>

CrRunEnds ==
  LET j == crManual.job IN
  /\ crUp /\ crManual # NoManual
  /\ CrSave("manual", [crManual.jobs EXCEPT ![j] = Marked(j, @)])
  /\ crManual' = NoManual
  /\ UNCHANGED <<crNow, crTick, crUp, crExecs, crAgain, crLost, crForwardLost, crRequests, crExits>>

\* add_job
New(j) ==
  LET job == [on |-> TRUE, next |-> Never, last |-> Never, done |-> 0] IN
  IF CrKind[j] = "once" THEN [job EXCEPT !.next = CrEvery[j], !.on = CrEvery[j] >= crNow]
  ELSE [job EXCEPT !.next = NextRun(j, job, crNow)]

CrPut(j, new) ==
  /\ CrRequest /\ CrSave("request", [crFile EXCEPT ![j] = new])
  /\ UNCHANGED <<crNow, crTick, crManual, crUp, crExecs, crLost, crForwardLost, crExits>>

\* An id is given out once.
CrCreate(j) ==
  crFile[j] = NoCron /\ crExecs[j].all = 0 /\ CrPut(j, New(j)) /\ UNCHANGED crAgain

CrPause(j) ==
  crFile[j] # NoCron /\ CrPut(j, [crFile[j] EXCEPT !.on = FALSE]) /\ UNCHANGED crAgain

CrResume(j) ==
  /\ crFile[j] # NoCron /\ RunsAgain(j)
  /\ CrPut(j, [crFile[j] EXCEPT !.on = TRUE, !.next = NextRun(j, crFile[j], crNow)])

\* A schedule that is set again does not enable the job.
CrReschedule(j) ==
  /\ crFile[j] # NoCron /\ UNCHANGED crAgain
  /\ CrPut(j, [crFile[j] EXCEPT !.next = NextRun(j, crFile[j], crNow)])

\* The API sets enabled and leaves the next run as it is.
CrEnable(j) ==
  /\ crFile[j] # NoCron /\ RunsAgain(j)
  /\ CrPut(j, [crFile[j] EXCEPT !.on = TRUE])

CrRemove(j) == crFile[j] # NoCron /\ CrPut(j, NoCron) /\ UNCHANGED crAgain

-----------------------------------------------------------------------------
\* The process ends; the loop starts with it and ticks at once.
CrExit ==
  /\ crUp /\ crExits < CrMaxExits /\ crExits' = crExits + 1
  /\ crUp' = FALSE
  /\ crLost' = (crLost \/ Others("exit") # {})
  /\ crTick' = Resting(Never) /\ crManual' = NoManual
  /\ UNCHANGED <<crNow, crFile, crExecs, crAgain, crTorn, crForwardLost, crRequests>>

CrRestart ==
  /\ ~crUp /\ crUp' = TRUE
  /\ UNCHANGED <<crNow, crFile, crTick, crManual, crPast, crRequests, crExits>>

CrNext ==
  \/ CrPass \/ CrTicks \/ CrTickGoesOn \/ CrRunEnds \/ CrExit \/ CrRestart
  \/ \E j \in CrJobs : CrRunNow(j) \/ CrCreate(j) \/ CrPause(j) \/ CrResume(j)
                         \/ CrReschedule(j) \/ CrEnable(j) \/ CrRemove(j)

-----------------------------------------------------------------------------
(***************************************************************************)
(* Properties                                                              *)
(***************************************************************************)
CrTypeOK ==
  /\ \A j \in CrJobs : crFile[j].next \in Int /\ crFile[j].done \in -1..(crExecs[j].all)
  /\ crTick.pc \in {"resting", "running"} /\ (crTick.pc = "running") = (crTick.runs \in crTick.todo)
  /\ crManual.job \in CrJobs \cup {0}

InHand(j) ==
  (IF crTick.pc = "running" /\ crTick.jobs[j].done # -1
   THEN crTick.jobs[j].done - crFile[j].done + (IF crTick.runs = j THEN 1 ELSE 0)
   ELSE 0)
  + (IF crManual.job = j THEN 1 ELSE 0)

\* jobs.py, scheduler.py: as long as no two copies were saved over each other and no
\* record is lost, the file counts every execution.  Whatever is paused, resumed,
\* scheduled again, enabled and run by hand, the loop runs a job for one time once at
\* most and nothing sooner than its interval after it began it; and while one copy at
\* most is held, a job runs as often as it repeats and once more for each time that a
\* user ran, resumed or enabled it after that.
CronKept ==
  ~crTorn /\ ~crLost =>
    \A j \in Known(crFile) :
      /\ crFile[j].done + InHand(j) = crExecs[j].all
      /\ CrKind[j] = "once" => crExecs[j].all <= crExecs[j].hand + 1
      /\ (CrRepeat[j] # 0 /\ (crTick.pc = "resting" \/ crManual.job = 0))
           => crExecs[j].all <= CrRepeat[j] + crAgain[j]
      /\ (CrKind[j] = "interval" /\ crFile[j].next # Never /\ crFile[j].last # Never /\ InHand(j) = 0)
           => crFile[j].next >= crExecs[j].begun + CrEvery[j]

\* tools/cron_tools.py: a job for one time is executed once, but for the runs by hand.
\* The process does not end and no copies overlap.
OnceRunsOnce ==
  ~crTorn /\ crExits = 0 =>
    \A j \in CrJobs : CrKind[j] = "once" => crExecs[j].all <= crExecs[j].hand + 1
===============================================================================
