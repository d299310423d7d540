------------------------------ MODULE AgentNode ------------------------------
(***************************************************************************)
(* An agent node of a workflow (nodes/agent.py): every attempt creates a   *)
(* session of its own, waits until the agent reports or its first run ends,*)
(* and, when the main session has taken the task over, asks it to approve. *)
(* The coroutine that asks lives beside the attempt, shares one registry   *)
(* entry of the engine with its predecessors, and saves the node's state   *)
(* it knows.  An attempt that timed out leaves its agent and this coroutine*)
(* behind.                                                                 *)
(*                                                                         *)
(* Left out: placeholders, the frozen identity, tokens and what is written *)
(* to files.  Of the agent's answer only whether it is acceptable is kept. *)
(***************************************************************************)
EXTENDS Integers

CONSTANTS
  AnMaxAttempts, AnMaxExits, AnMaxReworks, \* bounds
  MAX_REJECTION_COUNT
ASSUME AnAssumption == AnMaxAttempts \in Nat

VARIABLES
  anTakeover, \* task.main_takeover
  anRetries,  \* how often an answer that is not acceptable is asked for again
  anObj,      \* of every attempt: its NodeExecutionState
  anHeld,     \* the attempt whose object is in task.node_states
  anRun,      \* the current attempt
  anAgent,    \* of every attempt: its session
  anMemo,     \* of every attempt: the local variables of execute
  anHandler,  \* of every attempt: its _handle_approval
  anPending,  \* _pending_approvals[key]: the attempt whose event it is; 0: none
  anResult,   \* _approval_results[key]
  anVerdict,  \* history, of an attempt: how its approval ended
  anTold,     \* history, of an attempt: what a person answered it
  anOutlived, \* history: an attempt left something behind that may still ask
  anExits

anCtl == <<anTakeover, anRetries>>
anEngine == <<anPending, anResult>>
anPast == <<anVerdict, anTold>>
anVars == <<anCtl, anObj, anHeld, anRun, anAgent, anMemo, anHandler, anEngine, anPast,
            anOutlived, anExits>>

Attempts == 1..AnMaxAttempts
NoMemo == [called |-> FALSE, asked |-> FALSE, result |-> "none", event |-> FALSE,
           again |-> FALSE]
NoAgent == [pc |-> "none", inbox |-> 0, runs |-> 0]
NoHandler == [pc |-> "none", rung |-> FALSE]
Fresh == [st |-> "pending", rejections |-> 0, session |-> 0]
Now == anRun.k
Shown == anObj[anHeld]

AnInit ==
  /\ anTakeover \in BOOLEAN /\ anRetries \in 0..1
  /\ anObj = [k \in 0..AnMaxAttempts |-> Fresh] /\ anHeld = 0
  /\ anRun = [k |-> 0, pc |-> "rest", left |-> 0]
  /\ anAgent = [k \in Attempts |-> NoAgent] /\ anMemo = [k \in Attempts |-> NoMemo]
  /\ anHandler = [k \in Attempts |-> NoHandler]
  /\ anPending = 0 /\ anResult = "none"
  /\ anVerdict = [k \in Attempts |-> "none"] /\ anTold = [k \in Attempts |-> "none"]
  /\ anOutlived = FALSE /\ anExits = 0

-----------------------------------------------------------------------------
(***************************************************************************)
(* The attempt                                                             *)
(***************************************************************************)
\* The next attempt, after the task started, failed and was retried, or recovered.
AnBegin ==
  LET k == Now + 1
      Next_(pc) ==
        /\ anRun' = [k |-> k, pc |-> pc, left |-> anRetries] /\ anHeld' = k
        /\ anObj' = [anObj EXCEPT ![k] = [Shown EXCEPT !.st = "running",
                         !.session = IF pc = "approving" THEN @ ELSE 0]]
  IN
  /\ anRun.pc = "rest" /\ Now < AnMaxAttempts
  /\ \/ /\ Shown.st \in {"pending", "failed"} /\ Next_("creating")
        /\ UNCHANGED <<anMemo, anHandler>>
     \/ /\ Shown.st = "reissue" /\ Next_("approving")
        /\ anMemo' = [anMemo EXCEPT ![k].result = "success"]
        /\ anHandler' = [anHandler EXCEPT ![k].pc = "new"]
  /\ UNCHANGED <<anCtl, anAgent, anEngine, anPast, anOutlived, anExits>>

\* What is left of attempt k may ask for an approval, or is asking.
MayAsk(k) ==
  /\ anTakeover
  /\ \/ anHandler[k].pc \notin {"none", "over"}
     \/ ~anMemo[k].asked /\ anAgent[k].pc = "first"

\* execute returns and _execute_node puts the state it made of it into the task.
AnReturns(st) ==
  /\ anRun' = [anRun EXCEPT !.pc = "rest"]
  /\ anObj' = [anObj EXCEPT ![Now].st = st] /\ anHeld' = Now
  /\ anOutlived' = (anOutlived \/ MayAsk(Now))

\* create_sub_session; there may be as many sessions as are allowed.
AnCreates ==
  /\ anRun.pc = "creating"
  /\ \/ /\ anRun' = [anRun EXCEPT !.pc = "waiting"]
        /\ anAgent' = [anAgent EXCEPT ![Now].pc = "first"]
        /\ anObj' = [anObj EXCEPT ![Now].session = Now] /\ anHeld' = Now
        /\ UNCHANGED anOutlived
     \/ AnReturns("failed") /\ UNCHANGED anAgent
  /\ UNCHANGED <<anCtl, anMemo, anHandler, anEngine, anPast, anExits>>

\* A reissued approval is awaited in place, without the node's timeout.
AnApproved ==
  /\ anRun.pc = "approving" /\ anHandler[Now].pc = "over"
  /\ anRun' = [anRun EXCEPT !.pc = "waiting"]
  /\ UNCHANGED <<anCtl, anObj, anHeld, anAgent, anMemo, anHandler, anEngine, anPast,
                 anOutlived, anExits>>

AnTimesOut ==
  /\ anRun.pc = "waiting" /\ ~anMemo[Now].event
  /\ AnReturns("failed")
  /\ UNCHANGED <<anCtl, anAgent, anMemo, anHandler, anEngine, anPast, anExits>>

\* The completion event: a failure is returned, a success has its output checked.
AnWakes ==
  /\ anRun.pc = "waiting" /\ anMemo[Now].event
  /\ IF anMemo[Now].result = "success"
     THEN anRun' = [anRun EXCEPT !.pc = "checking"] /\ UNCHANGED <<anObj, anHeld, anOutlived>>
     ELSE AnReturns("failed")
  /\ UNCHANGED <<anCtl, anAgent, anMemo, anHandler, anEngine, anPast, anExits>>

\* The last answer of the session is acceptable, is asked for again without tools
\* as often as the node may, or fails the node.
AnChecks ==
  /\ anRun.pc = "checking"
  /\ \/ AnReturns("completed") /\ UNCHANGED anAgent
     \/ anRun.left = 0 /\ AnReturns("failed") /\ UNCHANGED anAgent
     \/ /\ anRun.left > 0 /\ anAgent[Now].pc = "idle"
        /\ anRun' = [anRun EXCEPT !.left = @ - 1, !.pc = "asking"]
        /\ anAgent' = [anAgent EXCEPT ![Now].pc = "corrects"]
        /\ UNCHANGED <<anObj, anHeld, anOutlived>>
  /\ UNCHANGED <<anCtl, anMemo, anHandler, anEngine, anPast, anExits>>

\* A call that fails fails the node.
AnCorrected ==
  /\ anRun.pc = "asking"
  /\ anAgent' = [anAgent EXCEPT ![Now].pc = "idle"]
  /\ \/ anRun' = [anRun EXCEPT !.pc = "checking"] /\ UNCHANGED <<anObj, anHeld, anOutlived>>
     \/ AnReturns("failed")
  /\ UNCHANGED <<anCtl, anMemo, anHandler, anEngine, anPast, anExits>>

-----------------------------------------------------------------------------
(***************************************************************************)
(* The agent                                                               *)
(***************************************************************************)
\* request_approval: once in an attempt.
AnRequests(k, result) ==
  IF anMemo[k].asked THEN UNCHANGED anHandler /\ anMemo' = [anMemo EXCEPT ![k].called = TRUE]
  ELSE /\ anHandler' = [anHandler EXCEPT ![k].pc = "new"]
       /\ anMemo' = [anMemo EXCEPT ![k] = [@ EXCEPT !.called = TRUE, !.asked = TRUE,
                                                    !.result = result]]

\* complete_node_task, on_node_complete
AnReports(k, result) ==
  /\ anAgent[k].pc \in {"first", "again"}
  /\ IF anAgent[k].pc = "again"
     THEN /\ anMemo' = [anMemo EXCEPT ![k].again = TRUE,
                                      ![k].result = IF anTakeover THEN @ ELSE result]
          /\ UNCHANGED anHandler
     ELSE IF anTakeover THEN AnRequests(k, result)
     ELSE /\ anMemo' = [anMemo EXCEPT ![k].called = TRUE, ![k].result = result]
          /\ UNCHANGED anHandler
  /\ UNCHANGED <<anCtl, anObj, anHeld, anRun, anAgent, anEngine, anPast, anOutlived, anExits>>

\* on_auto_complete, when the first run is over.
Bug_EndIsCompletion(k, result) ==
  /\ UNCHANGED anHandler
  /\ anMemo' = [anMemo EXCEPT ![k].event = TRUE, ![k].result = IF anMemo[k].called THEN @ ELSE result]
AnAutoComplete(k, result) ==
  IF anTakeover
  THEN IF anMemo[k].called THEN UNCHANGED <<anMemo, anHandler>> ELSE AnRequests(k, result)
  ELSE /\ UNCHANGED anHandler
       /\ anMemo' = [anMemo EXCEPT ![k].called = TRUE, ![k].event = TRUE,
                                   ![k].result = IF anMemo[k].called THEN @ ELSE result]

AnFirstEnds(k, result) ==
  /\ anAgent[k].pc = "first" /\ anAgent' = [anAgent EXCEPT ![k].pc = "idle"]
  /\ AnAutoComplete(k, result)
  /\ UNCHANGED <<anCtl, anObj, anHeld, anRun, anEngine, anPast, anOutlived, anExits>>

\* _consume_loop: the session takes up the message that sent its result back.
AnReworks(k) ==
  /\ anAgent[k].pc = "idle" /\ anAgent[k].inbox > 0
  /\ anAgent' = [anAgent EXCEPT ![k] = [pc |-> "again", inbox |-> @.inbox - 1, runs |-> @.runs + 1]]
  /\ UNCHANGED <<anCtl, anObj, anHeld, anRun, anMemo, anHandler, anEngine, anPast, anOutlived, anExits>>

AnReworked(k) ==
  /\ anAgent[k].pc = "again" /\ anAgent' = [anAgent EXCEPT ![k].pc = "idle"]
  /\ UNCHANGED <<anCtl, anObj, anHeld, anRun, anMemo, anHandler, anEngine, anPast, anOutlived, anExits>>

-----------------------------------------------------------------------------
(***************************************************************************)
(* The approval                                                            *)
(***************************************************************************)
Handler(k, pc) == anHandler' = [anHandler EXCEPT ![k].pc = pc]
Popped == anPending' = 0 /\ anResult' = "none"

\* Registered, and the state this coroutine knows is saved.
AnAsks(k) ==
  /\ anHandler[k].pc = "new"
  /\ anPending' = k /\ anResult' = "none"
  /\ anObj' = [anObj EXCEPT ![k].st = "waiting_approval"] /\ anHeld' = k
  /\ Handler(k, "sending")
  /\ UNCHANGED <<anCtl, anRun, anAgent, anMemo, anPast, anOutlived, anExits>>

\* The main session may be gone or refuse the message: _fail_approval_delivery.
AnSends(k) ==
  /\ anHandler[k].pc = "sending"
  /\ \/ Handler(k, "waiting") /\ UNCHANGED <<anObj, anHeld, anMemo, anEngine>>
     \/ /\ anObj' = [anObj EXCEPT ![k].st = "failed"] /\ anHeld' = k
        /\ anMemo' = [anMemo EXCEPT ![k].result = "failure", ![k].event = TRUE]
        /\ Popped /\ Handler(k, "over")
  /\ UNCHANGED <<anCtl, anRun, anAgent, anPast, anOutlived, anExits>>

\* resolve_approval
AnAnswers(answer) ==
  /\ anPending # 0
  /\ anResult' = answer
  /\ anHandler' = [anHandler EXCEPT ![anPending].rung = TRUE]
  /\ anTold' = [anTold EXCEPT ![anPending] = answer]
  /\ UNCHANGED <<anCtl, anObj, anHeld, anRun, anAgent, anMemo, anPending, anVerdict,
                 anOutlived, anExits>>

\* A missing answer counts as an approval.
Bug_AlwaysApproved(k) == "approved"
Answer(k) == IF anHandler[k].rung /\ anResult # "none" THEN anResult ELSE "approved"

\* The answer, or an hour without one.
AnDecides(k) ==
  LET sentBack == anObj[k].rejections + 1
      verdict == IF ~anHandler[k].rung THEN "lapsed"
                 ELSE IF Answer(k) = "approved" THEN "approved"
                 ELSE IF sentBack >= MAX_REJECTION_COUNT THEN "forced" ELSE "rejected"
      hot == anObj[k].session # 0 /\ anAgent[anObj[k].session].pc \notin {"none", "gone"}
      mine == anHeld = k \/ (verdict = "rejected" /\ hot)
  IN
  /\ anHandler[k].pc = "waiting" /\ Handler(k, "over") /\ Popped
  /\ anVerdict' = [anVerdict EXCEPT ![k] = verdict]
  /\ IF verdict = "rejected"
     THEN /\ UNCHANGED anMemo
          /\ IF hot
             THEN /\ anAgent[anObj[k].session].runs < AnMaxReworks
                  /\ anAgent' = [anAgent EXCEPT ![anObj[k].session].inbox = @ + 1]
                  /\ anHeld' = k
             ELSE UNCHANGED <<anAgent, anHeld>>
     ELSE anMemo' = [anMemo EXCEPT ![k].event = TRUE] /\ UNCHANGED <<anAgent, anHeld>>
  /\ anObj' = IF ~mine THEN anObj
              ELSE [anObj EXCEPT ![k].rejections = IF verdict \in {"rejected", "forced"} THEN sentBack ELSE @,
                                 ![k].st = IF verdict = "rejected" /\ hot THEN "running" ELSE @]
  /\ UNCHANGED <<anCtl, anRun, anTold, anOutlived, anExits>>

-----------------------------------------------------------------------------
\* The process ends and the task is recovered: an approval is issued again if its
\* agent left a summary, everything else that was under way is an attempt that failed.
AnExit ==
  /\ anExits < AnMaxExits /\ anExits' = anExits + 1
  /\ anRun' = [anRun EXCEPT !.pc = "rest"]
  /\ \/ Shown.st = "waiting_approval"
        /\ \E st \in {"reissue", "pending"} : anObj' = [anObj EXCEPT ![anHeld].st = st]
     \/ Shown.st = "running" /\ anObj' = [anObj EXCEPT ![anHeld].st = "failed"]
     \/ Shown.st \notin {"running", "waiting_approval"} /\ UNCHANGED anObj
  /\ anAgent' = [k \in Attempts |-> IF anAgent[k].pc = "none" THEN NoAgent
                                    ELSE [anAgent[k] EXCEPT !.pc = "gone", !.inbox = 0]]
  /\ anHandler' = [k \in Attempts |-> NoHandler] /\ Popped
  /\ UNCHANGED <<anCtl, anHeld, anMemo, anPast, anOutlived>>

AnNext ==
  \/ AnBegin \/ AnCreates \/ AnApproved \/ AnTimesOut \/ AnWakes \/ AnChecks \/ AnCorrected
  \/ AnExit
  \/ \E answer \in {"approved", "rejected"} : AnAnswers(answer)
  \/ \E k \in Attempts :
       \/ AnReworks(k) \/ AnReworked(k) \/ AnAsks(k) \/ AnSends(k) \/ AnDecides(k)
       \/ \E r \in {"success", "failure"} : AnReports(k, r) \/ AnFirstEnds(k, r)

-----------------------------------------------------------------------------
(***************************************************************************)
(* Properties                                                              *)
(***************************************************************************)
AnTypeOK ==
  /\ anHeld \in 0..Now /\ anPending \in 0..Now
  /\ anRun.pc \in {"rest", "creating", "approving", "waiting", "checking", "asking"}
  /\ \A k \in Attempts : anHandler[k].pc # "none" => k <= Now
  /\ \A k \in Attempts : anMemo[k].event => anMemo[k].result # "none"

\* nodes/agent.py, engine.py: a node completes with a success its agent reported,
\* after the run that reported it is over, or when it was approved; and as long as no
\* attempt leaves something behind that asks, what a person answers is what happens
\* to the attempt that asked, which can be answered as long as it waits.
CompletedFairly(k) ==
  anObj[k].st = "completed" =>
    /\ anMemo[k].result = "success"
    /\ IF anTakeover THEN anVerdict[k] \in {"approved", "lapsed", "forced"}
       ELSE anAgent[k].pc # "first"
AnswerStands(k) ==
  /\ anVerdict[k] = "approved" => anTold[k] = "approved"
  /\ anVerdict[k] \in {"rejected", "forced"} => anTold[k] = "rejected"
  /\ anHandler[k].pc \in {"sending", "waiting"} => k = Now /\ anPending = k /\ anHeld = k
AgentDecided ==
  /\ \A k \in Attempts : CompletedFairly(k)
  /\ ~anOutlived => \A k \in Attempts : AnswerStands(k)

\* nodes/agent.py: "reported again after a rejection" is heard: nobody waits for an
\* agent that has answered and has nothing more to do.
ReworkIsHeard ==
  anTakeover /\ anRun.pc = "waiting" =>
    ~(/\ anMemo[Now].again /\ ~anMemo[Now].event /\ anHandler[Now].pc = "over"
      /\ anAgent[Now].pc = "idle" /\ anAgent[Now].inbox = 0)
===============================================================================
