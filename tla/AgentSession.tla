------------------------------ MODULE AgentSession ------------------------------
(***************************************************************************)
(* One agent session (agent/session.py): its turns, the message record the *)
(* user sees, lc_messages the model sees, the snapshot of those in context,*)
(* the retry token of a failed turn, and the file they are flushed to.     *)
(*                                                                         *)
(* A message is [k, t]: its kind and the turn it was written in, a turn    *)
(* being one text the user (or a program) asked.  Compaction is left out   *)
(* here (module ModelContext), a model asks for one tool at a time, and a  *)
(* turn has at most AsMaxTools of them.                                    *)
(***************************************************************************)
EXTENDS Integers, Sequences, FiniteSets

CONSTANTS
  AsMaxTurns,  \* bound: texts asked
  AsMaxTools,  \* bound: tools of one attempt at a turn
  AsMaxMishaps \* bound: turns blocked, attempts and writes that fail, exits

AsMsg(k, t) == [k |-> k, t |-> t]
NoFailure   == [t |-> 0, retryable |-> FALSE]

VARIABLES
  asMain,    \* an interactive main session; a sub session otherwise
  asRecord, asLc, asCtx, \* record, lc_messages, context["messages"]
  asFailed,  \* failed_turn
  asPc,      \* where the invocation is suspended; "idle" without one
  asT, asHuman, \* the turn it runs, and whether a person asked it
  asGraph,   \* messages in the state of the graph
  asToolStarted, \* _active_turn_tool_started
  asHadFailed, \* had_failed_turn
  asScope, asStable, \* checkpoints of _invocation_scope and of _invoke_graph
  asAbort, asTerm, \* _abort_requested, _termination_requested
  asDirty,   \* _save_dirty
  asFlush,   \* the thread of _flush_to_disk: owner, phase and what it has read
  asFile,    \* the saved session
  asRan,     \* history: turns in which a tool was started
  asUnsaved, \* history: the save that a retry waits for failed
  asTurns, asMishaps \* counters

asMemory == <<asRecord, asLc, asCtx>>
asTurn   == <<asT, asHuman, asGraph, asToolStarted, asHadFailed, asScope, asStable>>
asSaving == <<asDirty, asFlush, asFile>>
asPast   == <<asRan, asUnsaved>>
asCount  == <<asTurns, asMishaps>>
asVars   == <<asMain, asMemory, asFailed, asPc, asTurn, asAbort, asTerm,
              asSaving, asPast, asCount>>

NoFlush  == [by |-> "none", failed |-> NoFailure, record |-> <<>>, ctx |-> <<>>]
NoImages == [rec |-> <<>>, lc |-> <<>>, ctx |-> <<>>]
Image    == [rec |-> asRecord, lc |-> asLc, ctx |-> asCtx]
Streaming == {"model", "called", "tool", "answered"}

AsInit ==
  /\ asMain \in BOOLEAN
  /\ asRecord = <<>> /\ asLc = <<>> /\ asCtx = <<>> /\ asFailed = NoFailure
  /\ asPc = "idle" /\ asT = 0 /\ asHuman = TRUE /\ asGraph = <<>>
  /\ asToolStarted = FALSE /\ asHadFailed = FALSE
  /\ asScope = NoImages /\ asStable = NoImages
  /\ asAbort = FALSE /\ asTerm = FALSE
  /\ asDirty = FALSE /\ asFlush = NoFlush
  /\ asFile = [failed |-> NoFailure, record |-> <<>>, ctx |-> <<>>]
  /\ asRan = {} /\ asUnsaved = FALSE
  /\ asTurns = 0 /\ asMishaps = 0

-----------------------------------------------------------------------------
(***************************************************************************)
(* The messages                                                            *)
(***************************************************************************)
EndsIn(ms, k) == ms # <<>> /\ ms[Len(ms)].k = k
Begins(ms, ns) == Len(ms) < Len(ns) /\ SubSeq(ns, 1, Len(ms)) = ms
WithoutLast(ms) == SubSeq(ms, 1, Len(ms) - 1)

\* _sync_context_snapshot grows only.
Snapshot(lc, ctx) == IF Len(lc) >= Len(ctx) THEN lc ELSE ctx

\* _sanitize_tool_pairs: a call is followed by its result or it goes.
AsSanitize(ms) ==
  LET Keep(i) == ms[i].k = "call" => i < Len(ms) /\ ms[i+1].k = "tool"
      Part[i \in 0..Len(ms)] ==
        IF i = 0 THEN <<>> ELSE Part[i-1] \o (IF Keep(i) THEN <<ms[i]>> ELSE <<>>)
  IN Part[Len(ms)]

\* _restore_lc_from_record, or from the context when there is no record.
Restored(file) ==
  AsSanitize(IF file.record # <<>> THEN SelectSeq(file.record, LAMBDA m : m.k # "note")
             ELSE file.ctx)

Users(ms, n) == Cardinality({i \in 1..n : ms[i].k = "user"})

\* edit_message_and_resend: where lc_messages is cut for record[i]; 0: nowhere.
CutOfLc(i) ==
  LET At == {j \in 1..Len(asLc) : asLc[j].k = "user" /\ Users(asLc, j) = Users(asRecord, i)}
  IN IF At = {} THEN 0 ELSE CHOOSE j \in At : TRUE

-----------------------------------------------------------------------------
(***************************************************************************)
(* A turn                                                                  *)
(***************************************************************************)
\* _invoke_graph up to the first await that waits: rec and lc are what the turn
\* begins with.
Invoke(t, human, rec, lc) ==
  /\ asStable' = [rec |-> rec, lc |-> lc, ctx |-> asCtx']
  /\ asFailed' = NoFailure
  /\ asHadFailed' = (asMain /\ asFailed # NoFailure)
  /\ asToolStarted' = FALSE
  /\ asT' = t /\ asHuman' = human /\ asGraph' = <<>>
  /\ asRecord' = Append(rec, AsMsg("user", t)) /\ asLc' = Append(lc, AsMsg("user", t))
  /\ asDirty' = TRUE /\ asPc' = "prepare"

\* _invocation_scope: refused for good once the session is terminated.
Enter ==
  /\ asPc = "idle" /\ ~asTerm
  /\ asScope' = Image /\ asAbort' = FALSE

AsSend(human) ==
  /\ Enter /\ asTurns < AsMaxTurns
  /\ asTurns' = asTurns + 1
  /\ asCtx' = asCtx
  /\ Invoke(asTurns + 1, human, asRecord, asLc)
  /\ UNCHANGED <<asMain, asTerm, asFlush, asFile, asPast, asMishaps>>

AsEdit(i) ==
  /\ Enter /\ asTurns < AsMaxTurns
  /\ i \in 1..Len(asRecord) /\ asRecord[i].k = "user" /\ CutOfLc(i) # 0
  /\ asTurns' = asTurns + 1
  /\ LET rec == SubSeq(asRecord, 1, i - 1)
         lc  == SubSeq(asLc, 1, CutOfLc(i) - 1)
     IN /\ asCtx' = Snapshot(lc, asCtx)
        /\ Invoke(asTurns + 1, TRUE, rec, lc)
  /\ UNCHANGED <<asMain, asTerm, asFlush, asFile, asPast, asMishaps>>

Bug_RetryUnsaved == "resume"

\* retry_failed_turn: the token is withdrawn, and that is saved first.
RetryWaitsFor == "retry"

AsRetry ==
  /\ Enter /\ asMain /\ asFailed.retryable
  /\ asFailed' = [asFailed EXCEPT !.retryable = FALSE]
  /\ asDirty' = TRUE /\ asPc' = RetryWaitsFor
  /\ UNCHANGED <<asMain, asMemory, asT, asHuman, asGraph, asToolStarted, asHadFailed,
                 asStable, asTerm, asFlush, asFile, asPast, asCount>>

AsRetried ==
  /\ asPc = "resume"
  /\ asCtx' = asCtx
  /\ Invoke(asFailed.t, TRUE, asRecord, asLc)
  /\ UNCHANGED <<asMain, asScope, asAbort, asTerm, asFlush, asFile, asPast, asCount>>

\* _rollback_on_error
RollBack(rec, takeBack) ==
  LET lc == IF EndsIn(asLc, "user") THEN WithoutLast(asLc) ELSE asLc
  IN /\ asLc' = lc /\ asCtx' = Snapshot(lc, asCtx)
     /\ asRecord' = IF takeBack /\ EndsIn(rec, "user") THEN WithoutLast(rec) ELSE rec
     /\ asDirty' = TRUE

\* The turn returns; a main session that had a failure saves that it is gone.
Over ==
  /\ asT' = 0 /\ asHuman' = TRUE /\ asGraph' = <<>>
  /\ asToolStarted' = FALSE /\ asHadFailed' = FALSE /\ asStable' = NoImages
  /\ asScope' = IF asPc' = "idle" THEN NoImages ELSE asScope
Return == asPc' = IF asHadFailed THEN "save" ELSE "idle"

\* Prepared: stream, or stop before the stream.
AsStream ==
  /\ asPc = "prepare" /\ ~asAbort
  /\ asPc' = "model" /\ asGraph' = asLc
  /\ UNCHANGED <<asMain, asMemory, asFailed, asT, asHuman, asToolStarted, asHadFailed, asScope,
                 asStable, asAbort, asTerm, asSaving, asPast, asCount>>

AsStopped ==
  /\ asPc = "prepare" \/ asPc \in Streaming
  /\ asAbort
  /\ RollBack(asRecord, TRUE) /\ Return /\ Over
  /\ UNCHANGED <<asMain, asFailed, asAbort, asTerm, asFlush, asFile, asPast, asCount>>

\* What the graph did is recorded as it comes.
Recorded(k) ==
  /\ asRecord' = Append(asRecord, AsMsg(k, asT)) /\ asGraph' = Append(asGraph, AsMsg(k, asT))
  /\ asCtx' = Snapshot(asLc, asCtx) /\ asDirty' = TRUE
  /\ UNCHANGED <<asMain, asLc, asFailed, asT, asHuman, asToolStarted, asHadFailed,
                 asScope, asStable, asAbort, asTerm, asFlush, asFile, asPast, asCount>>

AsCalls ==
  /\ asPc = "model" /\ ~asAbort
  /\ Cardinality({i \in 1..Len(asGraph) : asGraph[i] = AsMsg("tool", asT)}) < AsMaxTools
  /\ asPc' = "called" /\ Recorded("call")
AsAnswers == asPc = "model" /\ ~asAbort /\ asPc' = "answered" /\ Recorded("answer")
AsToolEnds == asPc = "tool" /\ ~asAbort /\ asPc' = "model" /\ Recorded("tool")

AsToolStarts ==
  /\ asPc = "called" /\ ~asAbort
  /\ asPc' = "tool" /\ asToolStarted' = TRUE /\ asRan' = asRan \cup {asT}
  /\ UNCHANGED <<asMain, asMemory, asFailed, asT, asHuman, asGraph, asHadFailed,
                 asScope, asStable, asAbort, asTerm, asSaving, asUnsaved, asCount>>

\* The graph ended: _sync_messages.
AsEnds ==
  /\ asPc = "answered" /\ ~asAbort
  /\ asLc' = AsSanitize(asGraph) /\ asCtx' = Snapshot(AsSanitize(asGraph), asCtx)
  /\ asDirty' = TRUE /\ Return /\ Over
  /\ UNCHANGED <<asMain, asRecord, asFailed, asAbort, asTerm, asFlush, asFile, asPast,
                 asCount>>

\* The provider blocks the answer, or the recursion limit is reached: a note for
\* the user, whose message stays in the record only.
AsBlocked ==
  /\ asPc \in Streaming /\ asMishaps < AsMaxMishaps
  /\ asMishaps' = asMishaps + 1
  /\ RollBack(Append(asRecord, AsMsg("note", asT)), FALSE) /\ Return /\ Over
  /\ UNCHANGED <<asMain, asFailed, asAbort, asTerm, asFlush, asFile, asPast, asTurns>>

Bug_AlwaysRetryable == asHuman

\* What makes a failed turn safe to run again.
Retryable == asHuman /\ ~asToolStarted

AsFails ==
  /\ asPc \in Streaming /\ asMishaps < AsMaxMishaps
  /\ asMishaps' = asMishaps + 1
  /\ \/ /\ asMain
        /\ asRecord' = asStable.rec /\ asLc' = asStable.lc /\ asCtx' = asStable.ctx
        /\ asFailed' = [t |-> asT, retryable |-> Retryable]
        /\ asPc' = "save" /\ asDirty' = TRUE
     \/ /\ ~asMain
        /\ asPc' = "idle" /\ RollBack(asRecord, TRUE)
        /\ UNCHANGED asFailed
  /\ Over
  /\ UNCHANGED <<asMain, asAbort, asTerm, asFlush, asFile, asPast, asTurns>>

\* abort: noticed at the next event, taken back by the next invocation.
AsAbort ==
  /\ asPc # "idle" /\ ~asAbort /\ asAbort' = TRUE
  /\ UNCHANGED <<asMain, asMemory, asFailed, asPc, asTurn, asTerm, asSaving, asPast,
                 asCount>>

\* cancel_active_invocation: for good, and back to before the invocation.
AsCancel ==
  /\ ~asTerm /\ asTerm' = TRUE /\ asAbort' = TRUE
  /\ IF asPc = "idle" THEN UNCHANGED <<asPc, asMemory, asSaving, asTurn>>
     ELSE /\ asPc' = "idle" /\ asDirty' = TRUE
          /\ asRecord' = asScope.rec /\ asLc' = asScope.lc /\ asCtx' = asScope.ctx
          /\ Over
          /\ UNCHANGED <<asFile, asFlush>>
  /\ UNCHANGED <<asMain, asFailed, asPast, asCount>>

-----------------------------------------------------------------------------
(***************************************************************************)
(* The file                                                                *)
(***************************************************************************)
Waiting == asPc \in {"retry", "save"}
After   == IF asPc = "retry" THEN "resume" ELSE "idle"

\* The timer or the invocation that waits takes _save_lock: the flag is cleared,
\* then the thread reads the session.
AsFlushBegins(who) ==
  /\ asFlush.by = "none" /\ asDirty
  /\ who = "turn" => Waiting
  /\ asDirty' = FALSE
  /\ asFlush' = [by |-> who, failed |-> asFailed, record |-> asRecord, ctx |-> asCtx]
  /\ UNCHANGED <<asMain, asMemory, asFailed, asPc, asTurn, asAbort, asTerm, asFile,
                 asPast, asCount>>

Goes == IF asFlush.by = "turn" /\ Waiting THEN After ELSE asPc

\* What had been appended to the record when the thread came to it is written too.
AsFlushEnds(late) ==
  /\ asFlush.by # "none"
  /\ late => Begins(asFlush.record, asRecord)
  /\ asFile' = [failed |-> asFlush.failed, ctx |-> asFlush.ctx,
                record |-> IF late THEN asRecord ELSE asFlush.record]
  /\ asFlush' = NoFlush /\ asPc' = Goes
  /\ UNCHANGED <<asMain, asMemory, asFailed, asTurn, asAbort, asTerm, asDirty, asPast,
                 asCount>>

Bug_FlagLost == asDirty

\* A write that fails leaves the session dirty; without strict nobody is told.
StillDirty == TRUE
AsFlushFails ==
  /\ asFlush.by # "none" /\ asMishaps < AsMaxMishaps
  /\ asMishaps' = asMishaps + 1
  /\ asDirty' = StillDirty /\ asFlush' = NoFlush /\ asPc' = Goes
  /\ asUnsaved' = (asUnsaved \/ (asFlush.by = "turn" /\ asPc = "retry"))
  /\ UNCHANGED <<asMain, asMemory, asFailed, asTurn, asAbort, asTerm, asFile, asRan,
                 asTurns>>

\* The timer was first and wrote everything.
AsNothingToFlush ==
  /\ Waiting /\ asFlush.by = "none" /\ ~asDirty
  /\ asPc' = After
  /\ UNCHANGED <<asMain, asMemory, asFailed, asTurn, asAbort, asTerm, asSaving, asPast,
                 asCount>>

\* The process exits; from_dict and load_sessions bring the session back.
AsRestart ==
  /\ asMishaps < AsMaxMishaps
  /\ asMishaps' = asMishaps + 1
  /\ asRecord' = asFile.record /\ asLc' = Restored(asFile) /\ asFailed' = asFile.failed
  /\ asCtx' = IF asFile.record # <<>> THEN <<>> ELSE asFile.ctx
  /\ asPc' = "idle" /\ asAbort' = FALSE /\ asTerm' = FALSE
  /\ asDirty' = FALSE /\ asFlush' = NoFlush
  /\ Over
  /\ UNCHANGED <<asMain, asFile, asPast, asTurns>>

AsNext ==
  \/ AsRetry \/ AsRetried \/ AsStream \/ AsStopped \/ AsCalls \/ AsAnswers \/ AsToolStarts
  \/ AsToolEnds \/ AsEnds \/ AsBlocked \/ AsFails \/ AsAbort \/ AsCancel
  \/ AsFlushFails \/ AsNothingToFlush \/ AsRestart
  \/ \E human \in BOOLEAN : AsSend(human)
  \/ \E i \in 1..Len(asRecord) : AsEdit(i)
  \/ \E who \in {"timer", "turn"} : AsFlushBegins(who)
  \/ \E late \in BOOLEAN : AsFlushEnds(late)

-----------------------------------------------------------------------------
AsKinds == {"user", "call", "tool", "answer", "note"}
AsTypeOK ==
  /\ asMain \in BOOLEAN /\ asAbort \in BOOLEAN /\ asTerm \in BOOLEAN /\ asDirty \in BOOLEAN
  /\ asPc \in {"idle", "retry", "resume", "prepare", "save"} \cup Streaming
  /\ \A ms \in {asRecord, asCtx, asFile.record, asFlush.record, asGraph} :
       \A i \in 1..Len(ms) : ms[i].k \in AsKinds /\ ms[i].t \in 1..asTurns
  /\ \A i \in 1..Len(asLc) : asLc[i].k \in AsKinds \ {"note"}
  /\ asFailed.t \in 0..asTurns /\ asFlush.by \in {"none", "timer", "turn"}

Offers(failed) == failed.retryable /\ failed.t \in asRan

\* A turn is offered again, on the screen or by the file after a crash, only if
\* no attempt at it has started a tool: its effects would be repeated.  The save
\* a retry waits for must not have failed.
AsRetrySafe == ~asUnsaved => ~Offers(asFailed) /\ ~Offers(asFile.failed)

\* A session that is not marked dirty and is not being written is on disk as it
\* is, whatever happened while it was last read by the thread.
AsDirtyCovers ==
  ~asDirty /\ asFlush = NoFlush =>
    /\ asFile.record = asRecord /\ asFile.failed = asFailed
    /\ asRecord = <<>> => asFile.ctx = asCtx

\* What a session keeps of itself survives its turns, failures and restarts.
SessionKept == AsRetrySafe /\ AsDirtyCovers
===============================================================================
