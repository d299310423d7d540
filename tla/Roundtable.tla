------------------------------ MODULE Roundtable ------------------------------
(***************************************************************************)
(* One roundtable meeting: RoundtableRunner, RoundtableManager             *)
(* (roundtable/runner.py) and the strategies, queue and session they drive *)
(* (roundtable/models.py).                                                 *)
(*                                                                         *)
(* A runner is a coroutine: rtPc names the await it is suspended at, and   *)
(* every request of a user runs between two awaits.  The manager does not  *)
(* ask whether a meeting has a runner before it starts one, so there may   *)
(* be several over one session: a batch, a speech and what was shown of it *)
(* are each runner's own, everything else is the session's.  The model     *)
(* writes no text: a speech is "seen" once a token of it was shown.        *)
(***************************************************************************)
EXTENDS Integers, Sequences, FiniteSets

CONSTANTS
  RtMaxRounds,   \* max_rounds
  RtMaxSeats,    \* ROUNDTABLE_MAX_SEATS; seats are seat-1, seat-2, ...
  RtMaxRunners,  \* bound: runners of the meeting at once
  RtMaxAsks,     \* bound: interventions, direct changes of seats, second starts
  RtMaxPauses,   \* bound: pauses
  RtMaxMishaps,  \* bound: exits of the process, streams and models that fail, second starts
  RtMaxLog       \* bound: the moderator answers up to this length of the transcript

NoSeat    == 0
NoRunner  == 0
RtRunners == 1..RtMaxRunners
Decided   == {"conclude", "summarize", "new_round", "select_speaker"}
Asked     == [type: {"inject", "nominate", "add_seat", "remove_seat"},
              seat: 0..(RtMaxSeats + 1)]

VARIABLES
  rtMode,     \* "round_robin" | "moderator_decides"
  rtStatus,   \* status; "new" until the meeting is created
  rtListed,   \* the manager has the session
  rtHeld,     \* _pause_event is cleared
  rtSeats,    \* seats, in order
  rtIndex, rtRound, rtFinished, \* of the strategy
  rtNeeds,    \* needs_moderator_decision
  rtSpoken,   \* history: seats that had their turn in this round
  rtQueue,    \* intervention_queue
  rtPc,       \* where each runner is suspended; "none": there is no such runner
  rtBatch,    \* what its _process_interventions has drained and not handled
  rtSpeech,   \* its _do_speak: who speaks, what follows, and whether a token was shown
  rtTask,     \* _tasks: the runner a stop cancels
  rtTurn,     \* active_turn: the seat and whether it holds a token
  rtBusy,     \* seats whose status is "speaking"
  rtLog,      \* entries of the transcript that hold what was said
  rtFile,     \* the saved session, or <<>>
  rtTwice,    \* history: the meeting had two runners at once
  rtAsks, rtPauses, rtMishaps \* counters the bounds apply to

rtSession == <<rtMode, rtStatus, rtListed, rtHeld>>
rtSeating == <<rtSeats, rtIndex, rtRound, rtFinished, rtNeeds, rtSpoken>>
rtRunner  == <<rtPc, rtBatch, rtSpeech, rtTask>>
rtDraft   == <<rtTurn, rtBusy>>
rtCounts  == <<rtTwice, rtAsks, rtPauses, rtMishaps>>
rtVars == <<rtSession, rtSeating, rtQueue, rtRunner, rtDraft, rtLog, rtFile, rtCounts>>

NoTurn == [seat |-> NoSeat, seen |-> FALSE]
Silent == [seat |-> NoSeat, then |-> "check", seen |-> FALSE]

\* session.save: everything but the runtime objects (and the history).
RtSave ==
  rtFile' = <<[st |-> rtStatus', seats |-> rtSeats', index |-> rtIndex', round |-> rtRound',
               finished |-> rtFinished', spoken |-> rtSpoken', busy |-> rtBusy', log |-> rtLog']>>

RtInit ==
  /\ rtMode = "round_robin" /\ rtStatus = "new" /\ rtListed = FALSE /\ rtHeld = FALSE
  /\ rtSeats = <<1, 2>> /\ rtIndex = 1 /\ rtRound = 1 /\ rtFinished = FALSE
  /\ rtNeeds = TRUE /\ rtSpoken = {}
  /\ rtQueue = <<>> /\ rtTask = NoRunner /\ rtTurn = NoTurn /\ rtBusy = {}
  /\ rtPc = [r \in RtRunners |-> "none"] /\ rtBatch = [r \in RtRunners |-> <<>>]
  /\ rtSpeech = [r \in RtRunners |-> Silent]
  /\ rtLog = 0 /\ rtFile = <<>>
  /\ rtTwice = FALSE /\ rtAsks = 0 /\ rtPauses = 0 /\ rtMishaps = 0

RtSeated == {rtSeats[i] : i \in 1..Len(rtSeats)}

RtCreate(mode, n) ==
  /\ rtStatus = "new"
  /\ rtMode' = mode /\ rtStatus' = "waiting" /\ rtListed' = TRUE
  /\ rtSeats' = [i \in 1..n |-> i]
  /\ UNCHANGED <<rtHeld, rtIndex, rtRound, rtFinished, rtNeeds, rtSpoken, rtQueue,
                 rtRunner, rtDraft, rtLog, rtCounts>>
  /\ RtSave

-----------------------------------------------------------------------------
(***************************************************************************)
(* The runner                                                              *)
(***************************************************************************)
RtMishap == rtMishaps < RtMaxMishaps /\ rtMishaps' = rtMishaps + 1

RtGo(r, pc) == rtPc' = [rtPc EXCEPT ![r] = pc]

RtBegin(r) ==
  /\ rtPc[r] = "begin"
  /\ rtStatus' = "discussing" /\ RtGo(r, "enter")
  /\ UNCHANGED <<rtMode, rtListed, rtHeld, rtSeating, rtQueue, rtBatch, rtSpeech, rtTask,
                 rtDraft, rtLog, rtCounts>>
  /\ RtSave

\* _pause_event.wait, then drain_all: once in the loop of run ("enter"), and before
\* every turn in the loop of the strategy ("check").
RtCheck(r) ==
  /\ rtPc[r] \in {"enter", "check"}
  /\ IF rtFinished
     THEN RtGo(r, "conclude") /\ UNCHANGED <<rtBatch, rtQueue>>
     ELSE /\ ~rtHeld
          /\ RtGo(r, IF rtPc[r] = "enter" THEN "open" ELSE "batch")
          /\ rtBatch' = [rtBatch EXCEPT ![r] = rtQueue] /\ rtQueue' = <<>>
  /\ UNCHANGED <<rtSession, rtSeating, rtSpeech, rtTask, rtDraft, rtLog, rtFile, rtCounts>>

\* From the loop of run into the loop of the strategy.
RtOpen(r) ==
  /\ rtPc[r] = "open" /\ rtBatch[r] = <<>>
  /\ RtGo(r, "check")
  /\ UNCHANGED <<rtSession, rtSeating, rtQueue, rtBatch, rtSpeech, rtTask, rtDraft, rtLog,
                 rtFile, rtCounts>>

RtAddSeat == Append(rtSeats, 1 + (IF rtSeats = <<>> THEN 0 ELSE
                CHOOSE n \in RtSeated : \A k \in RtSeated : k <= n))

RtPlace(s)   == CHOOSE i \in 1..Len(rtSeats) : rtSeats[i] = s
RtWithout(s) ==
  [i \in 1..(Len(rtSeats) - 1) |-> rtSeats[IF i < RtPlace(s) THEN i ELSE i + 1]]

Bug_IndexUnmoved(s) == rtIndex

\* remove_seat moves _speaker_index (from 1 here, from 0 there) with the seats.
RtMovedIndex(s) ==
  IF rtMode # "round_robin" \/ rtIndex = 1 THEN rtIndex
  ELSE IF RtPlace(s) < rtIndex THEN rtIndex - 1
  ELSE IF RtPlace(s) > rtIndex THEN rtIndex
  ELSE LET last == Len(rtSeats) - 1 IN
       IF last = 0 THEN 1 ELSE IF rtIndex <= last THEN rtIndex ELSE last

\* _do_speak up to the stream; "then" is where the runner goes on after it.
RtSpeak(r, s, then) ==
  /\ RtGo(r, "speak")
  /\ rtSpeech' = [rtSpeech EXCEPT ![r] = [seat |-> s, then |-> then, seen |-> FALSE]]
  /\ rtTurn' = [seat |-> s, seen |-> FALSE] /\ rtBusy' = rtBusy \cup {s}

\* The next drained intervention.
RtIntervene(r) ==
  /\ rtPc[r] \in {"open", "batch"} /\ rtBatch[r] # <<>>
  /\ rtBatch' = [rtBatch EXCEPT ![r] = Tail(@)]
  /\ UNCHANGED <<rtSession, rtRound, rtFinished, rtNeeds, rtQueue, rtTask, rtCounts>>
  /\ LET iv == Head(rtBatch[r]) IN
     \/ /\ iv.type = "inject"
        /\ rtLog' = rtLog + 1
        /\ UNCHANGED <<rtPc, rtSpeech, rtDraft, rtSeats, rtIndex, rtSpoken, rtFile>>
     \/ /\ iv.type = "nominate" /\ iv.seat \in RtSeated
        /\ RtSpeak(r, iv.seat, rtPc[r])
        /\ UNCHANGED <<rtLog, rtSeats, rtIndex, rtSpoken, rtFile>>
     \/ /\ \/ /\ iv.type = "add_seat" /\ rtSeats' = RtAddSeat /\ UNCHANGED <<rtIndex, rtSpoken>>
           \/ /\ iv.type = "remove_seat" /\ iv.seat \in RtSeated \ rtBusy
              /\ rtSeats' = RtWithout(iv.seat) /\ rtIndex' = RtMovedIndex(iv.seat)
              /\ rtSpoken' = rtSpoken \ {iv.seat}
        /\ UNCHANGED <<rtPc, rtSpeech, rtDraft, rtLog>>
        /\ RtSave
     \/ /\ \/ iv.type = "nominate" /\ iv.seat \notin RtSeated
           \/ iv.type = "remove_seat" /\ iv.seat \notin RtSeated \ rtBusy
        /\ UNCHANGED <<rtPc, rtSpeech, rtDraft, rtLog, rtSeats, rtIndex, rtSpoken, rtFile>>

\* RoundRobinStrategy.next_speaker.
RtNextInOrder(r) ==
  /\ rtPc[r] = "batch" /\ rtBatch[r] = <<>> /\ rtMode = "round_robin"
  /\ IF rtFinished \/ rtSeats = <<>> \/ (rtIndex > Len(rtSeats) /\ rtRound >= RtMaxRounds)
     THEN /\ rtFinished' = TRUE /\ RtGo(r, "conclude")
          /\ UNCHANGED <<rtIndex, rtRound, rtSpoken, rtSpeech, rtDraft>>
     ELSE /\ IF rtIndex > Len(rtSeats)
             THEN rtIndex' = 1 /\ rtRound' = rtRound + 1 /\ rtSpoken' = {}
             ELSE UNCHANGED <<rtIndex, rtRound, rtSpoken>>
          /\ RtSpeak(r, rtSeats[rtIndex'], "check")
          /\ UNCHANGED rtFinished
  /\ UNCHANGED <<rtSession, rtSeats, rtNeeds, rtQueue, rtBatch, rtTask, rtLog, rtFile, rtCounts>>

\* What follows a turn: the next round of the loop, or for a moderator that has used
\* up its cycles the loop of run.
RtOnward == IF rtMode = "round_robin" THEN {"check"} ELSE {"check", "enter"}

\* The moderator is asked who is next; while another runner lets speak whom it has
\* chosen there is nobody to call, and it is asked the next time.
RtAskModerator(r) ==
  /\ rtPc[r] = "batch" /\ rtBatch[r] = <<>> /\ rtMode = "moderator_decides"
  /\ rtNeeds' = TRUE
  /\ IF rtNeeds THEN RtGo(r, "decide") ELSE \E pc \in RtOnward : RtGo(r, pc)
  /\ UNCHANGED <<rtSession, rtSeats, rtIndex, rtRound, rtFinished, rtSpoken, rtQueue, rtBatch,
                 rtSpeech, rtTask, rtDraft, rtLog, rtFile, rtCounts>>

\* The answer of the moderator, set_decision, and next_speaker right after: a
\* name that is of no seat makes it ask again.
RtDecide(r, action, s) ==
  /\ rtPc[r] = "decide" /\ rtLog < RtMaxLog
  /\ LET over == \/ action = "conclude" \/ (action = "select_speaker" /\ s = NoSeat)
                 \/ action = "new_round" /\ rtRound >= RtMaxRounds
         new  == action = "new_round" /\ ~over
     IN
       /\ rtFinished' = (rtFinished \/ over)
       /\ rtRound' = IF new THEN rtRound + 1 ELSE rtRound
       /\ rtSpoken' = IF new THEN {} ELSE rtSpoken
       /\ IF ~rtFinished' /\ action # "summarize" /\ s \in RtSeated
          THEN RtSpeak(r, s, "check") /\ rtNeeds' = FALSE
          ELSE /\ \E pc \in RtOnward : RtGo(r, pc)
               /\ rtNeeds' = ~over /\ UNCHANGED <<rtSpeech, rtDraft>>
  /\ UNCHANGED <<rtSession, rtSeats, rtIndex, rtQueue, rtBatch, rtTask, rtLog, rtFile, rtCounts>>

\* append_active_turn adds it to the draft there is, whoever's that is.
RtToken(r) ==
  /\ rtPc[r] = "speak" /\ (~rtSpeech[r].seen \/ (rtTurn # NoTurn /\ ~rtTurn.seen))
  /\ rtSpeech' = [rtSpeech EXCEPT ![r].seen = TRUE]
  /\ rtTurn' = IF rtTurn = NoTurn THEN NoTurn ELSE [rtTurn EXCEPT !.seen = TRUE]
  /\ UNCHANGED <<rtSession, rtSeating, rtQueue, rtPc, rtBatch, rtTask, rtBusy, rtLog, rtFile,
                 rtCounts>>

\* The speech ends: transcript, advance, save.  When its stream fails, an error
\* message stands in the transcript in place of what was said (told = 0).  A nominated
\* seat speaks out of turn and the rest of the batch follows.
RtSpoke(r, told) ==
  /\ rtPc[r] = "speak"
  /\ IF told = 1 THEN UNCHANGED rtMishaps ELSE RtMishap
  /\ rtLog' = rtLog + told /\ rtTurn' = NoTurn
  /\ rtSpeech' = [rtSpeech EXCEPT ![r] = Silent]
  /\ UNCHANGED <<rtSession, rtSeats, rtRound, rtFinished, rtQueue, rtBatch, rtTask, rtTwice,
                 rtAsks, rtPauses>>
  /\ LET s == rtSpeech[r].seat IN
     IF rtSpeech[r].then = "check"
     THEN /\ \E pc \in RtOnward : RtGo(r, pc)
          /\ rtNeeds' = TRUE
          /\ rtIndex' = IF rtMode = "round_robin" THEN rtIndex + 1 ELSE rtIndex
          /\ rtBusy' = IF rtMode = "round_robin" /\ rtIndex' > Len(rtSeats) THEN {} ELSE rtBusy \ {s}
          /\ rtSpoken' = rtSpoken \cup {s}
          /\ RtSave
     ELSE /\ RtGo(r, rtSpeech[r].then) /\ rtBusy' = rtBusy \ {s}
          /\ UNCHANGED <<rtNeeds, rtIndex, rtSpoken, rtFile>>

\* No model can be made for a seat or for the moderator: run ends the meeting, and the
\* draft stays.
RtBreaks(r) ==
  /\ rtPc[r] = "decide" \/ (rtPc[r] = "speak" /\ ~rtSpeech[r].seen)
  /\ RtMishap
  /\ rtStatus' = "ended" /\ RtGo(r, "conclude")
  /\ UNCHANGED <<rtMode, rtListed, rtHeld, rtSeating, rtQueue, rtBatch, rtSpeech, rtTask,
                 rtDraft, rtLog, rtFile, rtTwice, rtAsks, rtPauses>>

\* The coroutine of _run_session is over, and with it what _tasks holds for the meeting.
RtOver(r) ==
  /\ RtGo(r, "none") /\ rtBatch' = [rtBatch EXCEPT ![r] = <<>>]
  /\ rtSpeech' = [rtSpeech EXCEPT ![r] = Silent] /\ rtTask' = NoRunner

Bug_DraftDropped ==
  rtTurn' = NoTurn /\ rtBusy' = rtBusy \ {rtTurn.seat} /\ UNCHANGED rtLog

\* _finalize_interrupted_turn keeps what was seen.
RtInterrupted ==
  /\ rtTurn' = NoTurn /\ rtBusy' = rtBusy \ {rtTurn.seat}
  /\ rtLog' = IF rtTurn.seen THEN rtLog + 1 ELSE rtLog

\* The conclusion is written, cannot be written, or fails before it is asked for.
RtConclude(r) ==
  /\ rtPc[r] = "conclude"
  /\ rtStatus' = "ended" /\ RtOver(r)
  /\ UNCHANGED <<rtMode, rtListed, rtHeld, rtSeating, rtQueue, rtCounts>>
  /\ RtInterrupted \/ (rtBusy' = {} /\ UNCHANGED <<rtTurn, rtLog>>)
  /\ RtSave

-----------------------------------------------------------------------------
(***************************************************************************)
(* Requests of users                                                       *)
(***************************************************************************)
RtLive == {r \in RtRunners : rtPc[r] # "none"}

\* A meeting that waits or is paused is given a runner, whether it has one or not.
RtStart ==
  /\ rtListed /\ rtStatus \in {"waiting", "paused"}
  /\ \E r \in RtRunners :
       /\ r \notin RtLive /\ 1..(r - 1) \subseteq RtLive
       /\ RtGo(r, "begin") /\ rtTask' = r
  /\ rtTwice' = (rtTwice \/ RtLive # {})
  /\ IF RtLive = {} THEN UNCHANGED <<rtAsks, rtMishaps>>
     ELSE RtMishap /\ rtAsks < RtMaxAsks /\ rtAsks' = rtAsks + 1
  /\ UNCHANGED <<rtSession, rtSeating, rtQueue, rtBatch, rtSpeech, rtDraft, rtLog, rtFile,
                 rtPauses>>

RtPause ==
  /\ rtListed /\ rtStatus = "discussing" /\ rtPauses < RtMaxPauses
  /\ rtStatus' = "paused" /\ rtHeld' = TRUE /\ rtPauses' = rtPauses + 1
  /\ UNCHANGED <<rtMode, rtListed, rtSeating, rtQueue, rtRunner, rtDraft, rtLog, rtTwice,
                 rtAsks, rtMishaps>>
  /\ RtSave

RtResume ==
  /\ rtListed /\ rtStatus = "paused"
  /\ rtStatus' = "discussing" /\ rtHeld' = FALSE
  /\ UNCHANGED <<rtMode, rtListed, rtSeating, rtQueue, rtRunner, rtDraft, rtLog, rtCounts>>
  /\ RtSave

\* Cancel the runner of _tasks; one that has not begun has nothing to finalize.
RtCancelled ==
  IF rtTask = NoRunner THEN UNCHANGED <<rtRunner, rtDraft, rtLog>>
  ELSE /\ RtOver(rtTask)
       /\ IF rtPc[rtTask] = "begin" THEN UNCHANGED <<rtDraft, rtLog>> ELSE RtInterrupted

RtStop ==
  /\ rtListed /\ rtStatus \in {"discussing", "paused"}
  /\ RtCancelled
  /\ rtStatus' = "ended" /\ rtHeld' = (rtHeld /\ rtStatus # "paused")
  /\ UNCHANGED <<rtMode, rtListed, rtSeating, rtQueue, rtCounts>>
  /\ RtSave

\* inject, nominate, add_seat and remove_seat.  Outside a discussion the last
\* two act at once.
RtAsk(iv) ==
  /\ rtListed /\ rtAsks < RtMaxAsks
  /\ rtAsks' = rtAsks + 1
  /\ UNCHANGED <<rtSession, rtRound, rtFinished, rtNeeds, rtRunner, rtDraft,
                 rtLog, rtTwice, rtPauses, rtMishaps>>
  /\ iv.type = "nominate" => iv.seat \in RtSeated
  /\ iv.type = "add_seat" => iv.seat = NoSeat /\ Len(rtSeats) < RtMaxSeats
  /\ iv.type = "inject" => iv.seat = NoSeat
  /\ iv.type = "remove_seat" => iv.seat \in RtSeated \ rtBusy /\ Len(rtSeats) > 2
  /\ \/ /\ rtStatus \in {"discussing", "paused"}
        /\ rtQueue' = Append(rtQueue, iv)
        /\ UNCHANGED <<rtSeats, rtIndex, rtSpoken, rtFile>>
     \/ /\ rtStatus \in {"waiting", "ended"} /\ iv.type \in {"add_seat", "remove_seat"}
        /\ rtSeats' = IF iv.type = "add_seat" THEN RtAddSeat ELSE RtWithout(iv.seat)
        /\ rtIndex' = IF iv.type = "add_seat" THEN rtIndex ELSE RtMovedIndex(iv.seat)
        /\ rtSpoken' = rtSpoken \ {iv.seat}
        /\ UNCHANGED rtQueue
        /\ RtSave

\* A runner that is cancelled ends the session it has; one of which _tasks knows
\* nothing goes on over it.
RtDelete ==
  /\ rtListed /\ rtStatus # "discussing"
  /\ RtCancelled
  /\ rtStatus' = IF rtTask # NoRunner /\ rtPc[rtTask] # "begin" THEN "ended" ELSE rtStatus
  /\ rtListed' = FALSE /\ rtFile' = <<>>
  /\ UNCHANGED <<rtMode, rtHeld, rtSeating, rtQueue, rtCounts>>

\* A new process knows what was saved: a meeting saved as "discussing" counts as
\* interrupted.
RtLoaded(s) ==
  /\ rtStatus' = IF s.st = "discussing" THEN "ended" ELSE s.st
  /\ rtFile' = <<[s EXCEPT !.st = rtStatus']>>
  /\ rtSeats' = s.seats /\ rtIndex' = s.index /\ rtRound' = s.round /\ rtLog' = s.log
  /\ rtFinished' = s.finished /\ rtSpoken' = s.spoken /\ rtBusy' = s.busy
  /\ rtListed' = TRUE /\ rtHeld' = FALSE /\ rtNeeds' = TRUE
  /\ rtQueue' = <<>> /\ rtTask' = NoRunner /\ rtTurn' = NoTurn
  /\ rtPc' = [r \in RtRunners |-> "none"] /\ rtBatch' = [r \in RtRunners |-> <<>>]
  /\ rtSpeech' = [r \in RtRunners |-> Silent]
  /\ UNCHANGED rtMode

RtCrash ==
  /\ rtFile # <<>> /\ RtMishap
  /\ RtLoaded(rtFile[1])
  /\ UNCHANGED <<rtTwice, rtAsks, rtPauses>>

\* Shutdown cancels the runner of _tasks, ends what is discussed and saves everything;
\* the process exits and comes back.
RtShutdown ==
  /\ rtListed /\ RtMishap
  /\ LET cut   == rtTask # NoRunner /\ rtPc[rtTask] # "begin"
         ended == cut \/ rtStatus = "discussing"
     IN RtLoaded([st |-> IF ended THEN "ended" ELSE rtStatus, seats |-> rtSeats,
                  index |-> rtIndex, round |-> rtRound, finished |-> rtFinished,
                  spoken |-> rtSpoken, busy |-> IF cut THEN rtBusy \ {rtTurn.seat} ELSE rtBusy,
                  log |-> IF cut /\ rtTurn.seen THEN rtLog + 1 ELSE rtLog])
  /\ UNCHANGED <<rtTwice, rtAsks, rtPauses>>

-----------------------------------------------------------------------------
RtRun(r) ==
  \/ RtBegin(r) \/ RtCheck(r) \/ RtOpen(r) \/ RtIntervene(r) \/ RtNextInOrder(r)
  \/ RtAskModerator(r) \/ RtToken(r) \/ RtBreaks(r) \/ RtConclude(r)
  \/ \E told \in {0, 1} : RtSpoke(r, told)
  \/ \E a \in Decided, s \in 0..(RtMaxSeats + 1) : RtDecide(r, a, s)

RtUser ==
  \/ \E m \in {"round_robin", "moderator_decides"}, n \in 2..RtMaxSeats :
       RtCreate(m, n)
  \/ RtStart \/ RtPause \/ RtResume \/ RtStop \/ RtDelete
  \/ RtShutdown \/ RtCrash
  \/ \E iv \in Asked : RtAsk(iv)

RtNext == RtUser \/ \E r \in RtRunners : RtRun(r)

RtTypeOK ==
  /\ rtStatus \in {"new", "waiting", "discussing", "paused", "ended"}
  /\ rtPc \in [RtRunners -> {"none", "begin", "enter", "open", "check", "batch", "decide",
                             "speak", "conclude"}]
  /\ rtIndex \in 1..(RtMaxSeats + RtMaxAsks + RtMaxRunners) /\ rtRound \in 1..RtMaxRounds
  /\ rtTask # NoRunner => rtTask \in RtLive
  /\ rtTurn.seat \in Nat /\ RtSeated \cup rtBusy \subseteq Nat
  /\ \A i \in 1..Len(rtQueue) : rtQueue[i] \in Asked

\* In a round of turns nobody is skipped: whatever seats are added, removed or
\* nominated meanwhile, a new round begins when every seat had its turn.
RtNoneSkipped ==
  rtMode = "round_robin" /\ rtRound' = rtRound + 1 => RtSeated \subseteq rtSpoken

\* A speech of which something was shown is in the transcript when it is over,
\* also when the meeting is stopped, deleted or shut down in the middle of it; only
\* a crash may lose it, or a stream that fails.
RtShownIsKept ==
  \A r \in RtRunners :
    rtSpeech[r].seen /\ rtSpeech'[r] = Silent /\ ~RtCrash /\ ~RtSpoke(r, 0) => rtLog' = rtLog + 1

\* A meeting, whatever its users ask in the middle of it, skips nobody and keeps what
\* was shown, as long as it was never given a second runner beside the first: two of
\* them share an index and a draft, and neither holds then.
MeetingInOrder == [][~rtTwice' => RtNoneSkipped /\ RtShownIsKept]_rtVars
===============================================================================
