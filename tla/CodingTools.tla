------------------------------- MODULE CodingTools -------------------------------
(***************************************************************************)
(* The tools with which agents work on files and run commands              *)
(* (tools/coding_tools.py), and the approvals of commands                  *)
(* (core/approval_manager.py, core/workspace_guard.py).  The calls of a    *)
(* turn run beside each other: what touches the disk runs in a thread,     *)
(* everything else on the event loop.  A file is opened, which empties it, *)
(* and then written whole.                                                 *)
(*                                                                         *)
(* A file is a set of passages <<call, anchor>>: the text of a call put at *)
(* the passage it was told to look for; an edit keeps what it looks for.   *)
(* Left out: encodings and line ends, fuzzy matching, the tools that only  *)
(* search, and the processes a command leaves behind.                      *)
(***************************************************************************)
EXTENDS Integers, FiniteSets, Sequences
LOCAL INSTANCE SequencesExt

CONSTANTS
  CgCalls,   \* calls of tools
  CgKind,    \* kind of each: "write", "edit", "command", "free" (a command that needs no approval)
  CgLooks,   \* the passages an edit looks for, one for each of its blocks
  CgTurns,   \* the calls that run beside each other
  CgBase,    \* the passages of the file at first
  CgMaxStops \* bound: turns that are stopped, and reads and writes that fail
ASSUME CgAssumption == DOMAIN CgKind = CgCalls /\ DOMAIN CgLooks = CgCalls

VARIABLES
  cgFile,  \* the passages in the file
  cgPc,    \* where each call is
  cgText,  \* what each call read, and then what it is to write
  cgPut,   \* the passages it put there
  cgSaid,  \* what the agent was told: "", "done", "error"
  cgStopped, \* calls whose turn was stopped
  cgReq,   \* the request for approval of each command
  cgCard,  \* what users were last shown of it: "", "asked", or how it was resolved
  cgYes,   \* history: commands a user was told to have approved, cgNo rejected
  cgNo,
  cgRan,   \* history: commands that ran
  cgOver,  \* history: passages that were written over by a call that had not seen them
  cgStops

cgFiles == <<cgFile, cgText, cgPut, cgOver>>
cgAsking == <<cgReq, cgCard, cgYes, cgNo>>
cgVars == <<cgFiles, cgPc, cgSaid, cgStopped, cgAsking, cgRan, cgStops>>

NothingAsked == [status |-> "none", pooled |-> FALSE, set |-> FALSE, due |-> FALSE, fired |-> FALSE]

CgInit ==
  /\ cgFile = CgBase /\ cgText = [c \in CgCalls |-> {}] /\ cgPut = cgText /\ cgOver = {}
  /\ \E turn \in CgTurns : cgPc = [c \in CgCalls |-> IF c \in turn THEN "new" ELSE "over"]
  /\ cgSaid = [c \in CgCalls |-> ""] /\ cgStopped = {}
  /\ cgReq = [c \in CgCalls |-> NothingAsked] /\ cgCard = [c \in CgCalls |-> ""]
  /\ cgYes = {} /\ cgNo = {} /\ cgRan = {} /\ cgStops = 0

CallGoes(c, from, to) == cgPc[c] = from /\ cgPc' = [cgPc EXCEPT ![c] = to]
Says(c, what) == cgSaid' = [cgSaid EXCEPT ![c] = IF c \in cgStopped THEN @ ELSE what]
CgMishap == cgStops < CgMaxStops /\ cgStops' = cgStops + 1
CgBesideFiles == UNCHANGED <<cgStopped, cgAsking, cgRan>>
CgBesideCommands == UNCHANGED <<cgFiles, cgStopped>>

-----------------------------------------------------------------------------
(***************************************************************************)
(* Files                                                                   *)
(***************************************************************************)
\* A path that leads nowhere, or where it may not, or to a file too large.
CgRefused ==
  /\ CgMishap /\ \E c \in CgCalls : CgKind[c] \in {"write", "edit"} /\ CallGoes(c, "new", "over") /\ Says(c, "error")
  /\ UNCHANGED cgFiles /\ CgBesideFiles

\* write_to_file.
CgWrites ==
  /\ \E c \in CgCalls :
       /\ CgKind[c] = "write" /\ CallGoes(c, "new", "write")
       /\ cgText' = [cgText EXCEPT ![c] = {<<c, 0>>}] /\ cgPut' = [cgPut EXCEPT ![c] = {<<c, 0>>}]
  /\ UNCHANGED <<cgFile, cgOver, cgSaid, cgStops>> /\ CgBesideFiles

\* replace_in_file and apply_diff read in a thread.
CgReads ==
  /\ \E c \in CgCalls :
       /\ CgKind[c] = "edit" /\ CallGoes(c, "new", "read") /\ cgText' = [cgText EXCEPT ![c] = cgFile]
  /\ UNCHANGED <<cgFile, cgPut, cgOver, cgSaid, cgStops>> /\ CgBesideFiles

\* Back on the loop, each block in turn is put where its passage is found once, in the
\* text as the blocks before it left it.  Without any there is nothing to write.
WithBlock(c, text, p) == IF p \in text THEN text \cup {<<c, p>>} ELSE text
Applied(c) == FoldLeft(LAMBDA text, p : WithBlock(c, text, p), cgText[c], CgLooks[c])
Placed(c) == Applied(c) \ cgText[c]
Bug_LastBlock(c) == IF Placed(c) = {} THEN cgText[c] ELSE cgText[c] \cup {CHOOSE p \in Placed(c) : TRUE}
Rewritten(c) == Applied(c)
CgApplies ==
  /\ \E c \in CgCalls :
       /\ c \notin cgStopped
       /\ \/ Placed(c) = {} /\ CallGoes(c, "read", "over") /\ Says(c, "error") /\ UNCHANGED <<cgText, cgPut>>
          \/ /\ Placed(c) # {} /\ CallGoes(c, "read", "write") /\ UNCHANGED cgSaid
             /\ cgPut' = [cgPut EXCEPT ![c] = Placed(c)] /\ cgText' = [cgText EXCEPT ![c] = Rewritten(c)]
  /\ UNCHANGED <<cgFile, cgOver, cgStops>> /\ CgBesideFiles

\* In a thread again: opened, which empties the file, and written.  The thread does not
\* know that the turn was stopped.
Unseen(c) == cgFile \ cgText[c]
CgOpens ==
  /\ \E c \in CgCalls :
       /\ CallGoes(c, "write", "opened") /\ cgFile' = {} /\ cgOver' = cgOver \cup Unseen(c)
  /\ UNCHANGED <<cgText, cgPut, cgSaid, cgStops>> /\ CgBesideFiles
CgFills ==
  /\ \E c \in CgCalls :
       \/ /\ CallGoes(c, "opened", "over") /\ Says(c, "done") /\ UNCHANGED cgStops
          /\ cgFile' = cgText[c] /\ cgOver' = cgOver \cup Unseen(c)
       \/ /\ CgMishap /\ CallGoes(c, "opened", "over") /\ Says(c, "error")
          /\ cgFile' = cgFile /\ cgOver' = cgOver \cup cgText[c]
  /\ UNCHANGED <<cgText, cgPut>> /\ CgBesideFiles

-----------------------------------------------------------------------------
(***************************************************************************)
(* Commands and their approval                                             *)
(***************************************************************************)
Request(c, fields) == cgReq' = [cgReq EXCEPT ![c] = fields]
Shows(c, what) == cgCard' = [cgCard EXCEPT ![c] = what]

\* validate_command: the mode and the lists let it run, or ask.
CgExecutes ==
  /\ \E c \in CgCalls :
       \/ /\ CgKind[c] = "free" /\ CallGoes(c, "new", "run") /\ UNCHANGED cgAsking
       \/ /\ CgKind[c] = "command" /\ CallGoes(c, "new", "wait")
          /\ Request(c, [NothingAsked EXCEPT !.status = "pending", !.pooled = TRUE]) /\ Shows(c, "asked")
          /\ UNCHANGED <<cgYes, cgNo>>
  /\ UNCHANGED <<cgSaid, cgRan, cgStops>> /\ CgBesideCommands

\* approve and reject: of a request that is in the pool and pending.
Pending(c) == cgReq[c].pooled /\ cgReq[c].status = "pending"
CgAnswers ==
  /\ \E c \in CgCalls, what \in {"approved", "rejected"} :
       /\ Pending(c) /\ Request(c, [cgReq[c] EXCEPT !.status = what, !.set = TRUE, !.pooled = FALSE])
       /\ Shows(c, what)
       /\ cgYes' = IF what = "approved" THEN cgYes \cup {c} ELSE cgYes
       /\ cgNo' = IF what = "rejected" THEN cgNo \cup {c} ELSE cgNo
  /\ UNCHANGED <<cgPc, cgSaid, cgRan, cgStops>> /\ CgBesideCommands

\* Its time is over; the timer of the call, which began to wait later, fires after that.
CgTimes ==
  /\ \E c \in CgCalls :
       \/ cgPc[c] = "wait" /\ ~cgReq[c].due /\ Request(c, [cgReq[c] EXCEPT !.due = TRUE])
       \/ cgPc[c] = "wait" /\ cgReq[c].due /\ ~cgReq[c].fired /\ Request(c, [cgReq[c] EXCEPT !.fired = TRUE])
  /\ UNCHANGED <<cgPc, cgSaid, cgCard, cgYes, cgNo, cgRan, cgStops>> /\ CgBesideCommands

\* _cleanup_expired, when somebody asks for the pending ones: nobody is woken.
CgCleans ==
  /\ \E c \in CgCalls :
       /\ Pending(c) /\ cgReq[c].due
       /\ Request(c, [cgReq[c] EXCEPT !.status = "timeout", !.pooled = FALSE])
  /\ UNCHANGED <<cgPc, cgSaid, cgCard, cgYes, cgNo, cgRan, cgStops>> /\ CgBesideCommands

\* wait_for_approval returns what was answered.
Bug_AnyAnswer(c) == cgReq[c].set
Runs(c) == cgReq[c].status = "approved"
CgWakes ==
  /\ \E c \in CgCalls :
       /\ c \notin cgStopped /\ cgReq[c].set
       /\ IF Runs(c) THEN CallGoes(c, "wait", "run") /\ UNCHANGED cgSaid
          ELSE CallGoes(c, "wait", "over") /\ Says(c, "error")
  /\ UNCHANGED <<cgAsking, cgRan, cgStops>> /\ CgBesideCommands

\* Or that the time is over, even when the answer came in between.
Bug_LeftPending(r) == [r EXCEPT !.fired = TRUE]
TimedOut(r) == [r EXCEPT !.status = "timeout", !.pooled = FALSE]
CgTimesOut ==
  /\ \E c \in CgCalls :
       /\ c \notin cgStopped /\ cgReq[c].fired /\ CallGoes(c, "wait", "over") /\ Says(c, "error")
       /\ Request(c, TimedOut(cgReq[c])) /\ Shows(c, "timeout")
  /\ UNCHANGED <<cgYes, cgNo, cgRan, cgStops>> /\ CgBesideCommands

\* The command runs in a thread, until it ends or is killed.
CgRuns ==
  /\ \E c \in CgCalls : CallGoes(c, "run", "running") /\ cgRan' = cgRan \cup {c}
  /\ UNCHANGED <<cgSaid, cgAsking, cgStops>> /\ CgBesideCommands
CgEnds ==
  /\ \E c \in CgCalls, what \in {"done", "error"} : CallGoes(c, "running", "over") /\ Says(c, what)
  /\ UNCHANGED <<cgAsking, cgRan, cgStops>> /\ CgBesideCommands

-----------------------------------------------------------------------------
\* The turn is stopped: what waits or has yet to begin is cancelled where it is, what
\* runs in a thread goes on.
CgStop ==
  /\ CgMishap
  /\ \E calls \in SUBSET {c \in CgCalls : cgPc[c] # "over" /\ c \notin cgStopped} :
       /\ calls # {} /\ cgStopped' = cgStopped \cup calls
       /\ cgPc' = [c \in CgCalls |-> IF c \in calls /\ cgPc[c] \in {"new", "read", "wait"} THEN "over" ELSE cgPc[c]]
  /\ UNCHANGED <<cgFiles, cgSaid, cgAsking, cgRan>>

CgNext ==
  \/ CgRefused \/ CgWrites \/ CgReads \/ CgApplies \/ CgOpens \/ CgFills
  \/ CgExecutes \/ CgAnswers \/ CgTimes \/ CgCleans \/ CgWakes \/ CgTimesOut
  \/ CgRuns \/ CgEnds \/ CgStop

-----------------------------------------------------------------------------
(***************************************************************************)
(* Properties                                                              *)
(***************************************************************************)
CgTypeOK ==
  \A c \in CgCalls :
    /\ cgPc[c] \in {"new", "read", "write", "opened", "wait", "run", "running", "over"}
    /\ cgSaid[c] \in {"", "done", "error"} /\ cgCard[c] \in {"", "asked", "approved", "rejected", "timeout"}
    /\ cgReq[c].status \in {"none", "pending", "approved", "rejected", "timeout"}

\* coding_tools.py: once nobody has the file open, what an agent was told to be in it is
\* there, except what a call that had not seen it wrote over.
EditsKept ==
  (\A c \in CgCalls : cgPc[c] # "opened") =>
    \A c \in CgCalls : cgSaid[c] = "done" => cgPut[c] \subseteq cgFile \cup cgOver

\* approval_manager.py: a command that needs approval runs when a user was told to have
\* approved it, never when told to have rejected it; what was approved runs, unless its
\* turn was stopped or its time was over; the last a user is shown of it is what became
\* of it; and a request is in the pool for a call that waits, or was stopped.
CommandsAsked ==
  \A c \in CgCalls : CgKind[c] = "command" =>
    /\ c \in cgRan => c \in cgYes /\ c \notin cgNo
    /\ cgPc[c] = "over" /\ c \notin cgStopped =>
         /\ c \in cgYes /\ ~cgReq[c].fired => c \in cgRan
         /\ (cgCard[c] = "approved") = (c \in cgRan)
    /\ cgReq[c].pooled => cgPc[c] = "wait" \/ c \in cgStopped

CodingKept == EditsKept /\ CommandsAsked
===============================================================================
