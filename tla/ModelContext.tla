----------------------------- MODULE ModelContext -----------------------------
(***************************************************************************)
(* What a session sends to the model: lc_messages, their repair            *)
(* (core/utils.py), the three compactions (compression/strategies), the    *)
(* check that picks them (compression/checker.py, agent/session.py) and    *)
(* the request with its retries (core/graph_builder.py).                   *)
(*                                                                         *)
(* A message has a kind, an identity that grows with time, a size in       *)
(* tokens and, if a model asked for tools in it, their number n; a tool    *)
(* result names its request (of) and its place in it (n); a summary names  *)
(* the newest message it replaces (of).  The system prompt, which every    *)
(* step keeps in front, is left out.                                       *)
(***************************************************************************)
EXTENDS Integers, Sequences, FiniteSets, SequencesExt, FiniteSetsExt

CONSTANTS
  CxWindow,      \* maxContextTokens of the model
  CxTrimTokens,  \* MAX_CONTEXT_TOKENS
  CxThreshold,   \* compactionThreshold, in tokens
  CxKeepTokens,  \* keepRecentTokens of the full compaction
  CxKeepTools,   \* keepRecentToolResults
  CxMaxTools,    \* maxToolResults
  CxToolBudget,  \* toolResultTokenRatio, in tokens
  CxRetries,     \* maxRetryCount
  CxRounds,      \* max_turns of the agent
  CxMaxMsgs,     \* bound: messages ever written
  CxMaxExits     \* bound: exits of the process

Kinds == {"user", "call", "tool", "answer", "summary"}
CxMsg(k, id, of, n, sz) == [k |-> k, id |-> id, of |-> of, n |-> n, sz |-> sz]

VARIABLES
  cxLc,      \* lc_messages
  cxCp,      \* lc_messages when the turn began
  cxRecord,  \* record, without display messages
  cxMsgs,    \* messages in the state of the graph
  cxReq,     \* the request being answered
  cxDone,    \* tool results of the current request, in order of completion
  cxPc,      \* "idle" | "compact" | "node" | "asked" | "tools"
  cxQ,       \* identity of the user message of this turn
  cxRetry, cxLeft, \* retries of this request, remaining_rounds
  cxNext, cxExits  \* counters

cxTurn  == <<cxQ, cxCp>>
cxCount == <<cxNext, cxExits>>
cxVars  == <<cxLc, cxRecord, cxMsgs, cxReq, cxDone, cxPc, cxTurn, cxRetry, cxLeft, cxCount>>

CxInit ==
  /\ cxLc = <<>> /\ cxCp = <<>> /\ cxRecord = <<>> /\ cxMsgs = <<>> /\ cxReq = <<>>
  /\ cxDone = <<>> /\ cxPc = "idle" /\ cxQ = 0 /\ cxRetry = 0 /\ cxLeft = 0
  /\ cxNext = 1 /\ cxExits = 0

-----------------------------------------------------------------------------
(***************************************************************************)
(* Repairing a list of messages                                            *)
(***************************************************************************)
OfModel(m) == m.k \in {"call", "answer", "summary"}
CxTokens(ms) == FoldLeft(LAMBDA n, m : n + m.sz, 0, ms)
CxKeep(ms, K) == FlattenSeq([i \in 1..Len(ms) |-> IF i \in K THEN <<ms[i]>> ELSE <<>>])

\* A request for one tool has a text of its own, one for two has none: without
\* its tool_calls the first is kept as an answer and the second is dropped.
Stripped(m) == [m EXCEPT !.k = "answer", !.n = 0]

\* Rebuild ms: requests outside Whole lose their calls, results outside Kept go.
Rebuilt(ms, Whole, Kept) ==
  LET Part(i) == CASE ms[i].k = "call" /\ i \notin Whole ->
                        IF ms[i].n = 1 THEN <<Stripped(ms[i])>> ELSE <<>>
                   [] ms[i].k = "tool" /\ i \notin Kept -> <<>>
                   [] OTHER -> <<ms[i]>>
  IN FlattenSeq([i \in 1..Len(ms) |-> Part(i)])

Bug_NotSanitized(ms) == ms

\* _sanitize_tool_pairs: by identity, wherever in the list the results are.
CxSanitize(ms) ==
  LET Answers == {<<ms[i].of, ms[i].n>> : i \in {i \in 1..Len(ms) : ms[i].k = "tool"}}
      Whole   == {i \in 1..Len(ms) : /\ ms[i].k = "call"
                                     /\ \A j \in 1..ms[i].n : <<ms[i].id, j>> \in Answers}
  IN Rebuilt(ms, Whole, {i \in 1..Len(ms) : \E c \in Whole : ms[i].of = ms[c].id})

\* _sanitize_tool_pairs_strict: the results must follow their request at once.
CxStrict(ms) ==
  LET Block(i) == {j \in i+1..Len(ms) : \A x \in i+1..j : ms[x].k = "tool"}
      Own(i)   == {j \in Block(i) : ms[j].of = ms[i].id /\ ms[j].n \in 1..ms[i].n}
      Whole    == {i \in 1..Len(ms) : /\ ms[i].k = "call"
                                      /\ {ms[j].n : j \in Own(i)} = 1..ms[i].n}
  IN Rebuilt(ms, Whole, UNION {Own(i) : i \in Whole})

LastSummary(ms) == SelectLastInSeq(ms, LAMBDA m : m.k = "summary")

Bug_TrimSummary(ms) ==
  LET Fits == {i \in 1..Len(ms) : CxTokens(SubSeq(ms, i, Len(ms))) <= CxTrimTokens}
  IN CxSanitize(CxKeep(ms, Fits))

\* trim_langchain_messages: the newest summary and what fits behind it.
CxTrim(ms) ==
  LET c == LastSummary(ms)
      room == CxTrimTokens - (IF c = 0 THEN 0 ELSE ms[c].sz)
      Fits == {i \in c+1..Len(ms) : CxTokens(SubSeq(ms, i, Len(ms))) <= room}
  IN IF CxTokens(ms) <= CxTrimTokens THEN CxSanitize(ms)
     ELSE CxSanitize(CxKeep(ms, Fits \cup {c}))

-----------------------------------------------------------------------------
(***************************************************************************)
(* The compactions                                                         *)
(***************************************************************************)
ToolsIn(ms) == {i \in 1..Len(ms) : ms[i].k = "tool"}
ToolTokens(ms) == CxTokens(SelectSeq(ms, LAMBDA m : m.k = "tool"))
Recent(ms) == {i \in ToolsIn(ms) : Cardinality({j \in ToolsIn(ms) : j > i}) < CxKeepTools}
Dense(ms)  == Cardinality(ToolsIn(ms)) > CxMaxTools /\ ToolTokens(ms) > CxToolBudget

\* micro_check and MicroCompactStrategy.execute.
MicroNeeded(ms) ==
  Dense(ms) \/ \E i \in ToolsIn(ms) \ Recent(ms) : ms[i].sz > CxToolBudget
Micro(ms) ==
  [i \in 1..Len(ms) |->
     IF i \notin ToolsIn(ms) \ Recent(ms) THEN ms[i]
     ELSE [ms[i] EXCEPT !.sz = IF Dense(ms) THEN 1 ELSE Min({@, CxToolBudget})]]

\* compact_for_request: clip the results, oldest first, to the budget.
Clip(ms) ==
  LET Step(p, m) ==
        LET cut == IF m.k = "tool" /\ p.excess > 0 THEN Min({p.excess, m.sz - 1}) ELSE 0
        IN [out |-> Append(p.out, [m EXCEPT !.sz = @ - cut]), excess |-> p.excess - cut]
  IN FoldLeft(Step, [out |-> <<>>, excess |-> ToolTokens(ms) - CxToolBudget], ms).out

\* FullCompactStrategy: where the recent messages begin, and the new list.
FullStart(ms) == IF LastSummary(ms) = 0 THEN 1 ELSE LastSummary(ms)
ProtectedStart(ms) ==
  LET T == {i \in Recent(ms) : i >= FullStart(ms)}
      U == {i \in FullStart(ms)..Min(T) : ms[i].k = "user"}
      C == {i \in FullStart(ms)..Min(T) : ms[i].k = "call" /\ \E t \in T : ms[t].of = ms[i].id}
  IN IF T = {} THEN Len(ms) + 1
     ELSE IF U # {} THEN Max(U) ELSE IF C # {} THEN Max(C) ELSE Min(T)
Bug_SplitAtEnd(ms) == Min({Len(ms) + 1, ProtectedStart(ms)})

SplitAt(ms) ==
  LET Fits == {i \in FullStart(ms)..Len(ms) : CxTokens(SubSeq(ms, i, Len(ms))) <= CxKeepTokens}
  IN Min(Fits \cup {Len(ms) + 1, ProtectedStart(ms)})
Full(ms, id) ==
  LET old == SubSeq(ms, FullStart(ms), SplitAt(ms) - 1)
  IN IF old = <<>> \/ (Len(old) = 1 /\ old[1].k = "summary") THEN ms
     ELSE <<CxMsg("summary", id, Last(old).id, 0, 1)>> \o SubSeq(ms, SplitAt(ms), Len(ms))

\* discard_oldest_round: the first user message behind the summary that was
\* answered, and everything up to the next user message.
Discard(ms) ==
  LET now == SubSeq(ms, FullStart(ms), Len(ms))
      Answered == {i \in 1..Len(now) : /\ now[i].k = "user"
                     /\ \E j \in i+1..Len(now) : /\ OfModel(now[j])
                                                 /\ \A x \in i+1..j : now[x].k # "user"}
      from == Min(Answered)
      upto == Min({j \in from+1..Len(now)+1 : j > Len(now) \/ now[j].k = "user"})
  IN IF Answered = {} THEN now
     ELSE SubSeq(now, 1, from - 1) \o SubSeq(now, upto, Len(now))

\* _check_and_compress_messages: ok says whether the summary is written.
Compressed(ms, ok, id) ==
  LET a == IF MicroNeeded(ms) THEN Micro(ms) ELSE ms
      b == IF ok /\ CxTokens(a) > CxThreshold THEN Full(a, id) ELSE a
      c == IF CxTokens(b) > CxWindow THEN Clip(b) ELSE b
      Round[r \in 0..CxRetries] ==
        IF r = 0 THEN c
        ELSE IF CxTokens(Round[r-1]) > CxWindow THEN Discard(Round[r-1]) ELSE Round[r-1]
  IN Round[CxRetries]

-----------------------------------------------------------------------------
(***************************************************************************)
(* A turn                                                                  *)
(***************************************************************************)
CxNew(k, of, n, sz) == CxMsg(k, cxNext, of, n, sz)
CxWrite(m) == cxRecord' = Append(cxRecord, m) /\ cxNext' = cxNext + 1

CxUser(sz) ==
  /\ cxPc = "idle" /\ cxNext < CxMaxMsgs
  /\ cxPc' = "compact" /\ cxQ' = cxNext /\ cxCp' = cxLc
  /\ cxLc' = Append(cxLc, CxNew("user", 0, 0, sz)) /\ CxWrite(CxNew("user", 0, 0, sz))
  /\ UNCHANGED <<cxMsgs, cxReq, cxDone, cxRetry, cxLeft, cxExits>>

CxCompact(ok) ==
  /\ cxPc = "compact"
  /\ cxLc' = CxTrim(Compressed(cxLc, ok, cxQ))
  /\ cxMsgs' = cxLc' /\ cxLeft' = CxRounds /\ cxPc' = "node"
  /\ UNCHANGED <<cxRecord, cxReq, cxDone, cxTurn, cxRetry, cxCount>>

\* llm_node: repair, clip if it is too long, send.
CxAsk ==
  /\ cxPc = "node"
  /\ LET ms == CxStrict(cxMsgs)
     IN cxReq' = IF CxTokens(ms) > CxWindow THEN Clip(ms) ELSE ms
  /\ cxRetry' = 0 /\ cxPc' = "asked"
  /\ UNCHANGED <<cxLc, cxRecord, cxMsgs, cxDone, cxTurn, cxLeft, cxCount>>

\* The turn ends in an error: back to where it began.
CxFail ==
  /\ cxPc' = "idle" /\ cxLc' = cxCp
  /\ cxRecord' = SelectSeq(cxRecord, LAMBDA m : m.id < cxQ)
  /\ UNCHANGED <<cxMsgs, cxReq, cxDone, cxTurn, cxRetry, cxLeft, cxCount>>

\* The model refuses the request as too long, or its answer is malformed.
CxRefused(long) ==
  /\ cxPc = "asked"
  /\ LET shorter == IF long /\ Clip(cxReq) # cxReq THEN Clip(cxReq) ELSE Discard(cxReq)
     IN \/ /\ cxRetry < CxRetries /\ shorter # cxReq
           /\ cxReq' = shorter /\ cxRetry' = cxRetry + 1
           /\ UNCHANGED <<cxLc, cxRecord, cxMsgs, cxDone, cxPc, cxTurn, cxLeft, cxCount>>
        \/ ~(cxRetry < CxRetries /\ shorter # cxReq) /\ CxFail

\* The answer asks for n tools.  In the last round the request is taken out of it.
CxCalled(n) ==
  /\ cxPc = "asked" /\ cxLeft > 1 /\ cxNext + n < CxMaxMsgs
  /\ CxWrite(CxNew("call", 0, n, 1))
  /\ cxMsgs' = Append(cxMsgs, CxNew("call", 0, n, 1))
  /\ cxDone' = <<>> /\ cxLeft' = cxLeft - 1 /\ cxPc' = "tools"
  /\ UNCHANGED <<cxLc, cxReq, cxTurn, cxRetry, cxExits>>

CxAnswered ==
  /\ cxPc = "asked"
  /\ CxWrite(CxNew("answer", 0, 0, 1))
  /\ cxLc' = CxSanitize(Append(cxMsgs, CxNew("answer", 0, 0, 1)))
  /\ cxPc' = "idle"
  /\ UNCHANGED <<cxMsgs, cxReq, cxDone, cxTurn, cxRetry, cxLeft, cxExits>>

\* A tool ends.  The graph goes on when the last one did, with the results in
\* the order of the request.
CxToolEnds(j, sz) ==
  LET call == Last(cxMsgs)
      done == Append(cxDone, CxNew("tool", call.id, j, sz))
      Place(i) == CHOOSE x \in 1..Len(done) : done[x].n = i
  IN /\ cxPc = "tools" /\ j \in 1..call.n /\ \A x \in 1..Len(cxDone) : cxDone[x].n # j
     /\ CxWrite(CxNew("tool", call.id, j, sz))
     /\ cxDone' = done
     /\ \/ Len(done) < call.n /\ UNCHANGED <<cxMsgs, cxPc>>
        \/ /\ Len(done) = call.n /\ cxPc' = "node"
           /\ cxMsgs' = cxMsgs \o [i \in 1..call.n |-> done[Place(i)]]
     /\ UNCHANGED <<cxLc, cxReq, cxTurn, cxRetry, cxLeft, cxExits>>

\* The user stops the turn: the question is taken back, what was recorded since
\* stays in the record.
WithoutQuestion(ms) == IF ms # <<>> /\ Last(ms).k = "user" THEN Front(ms) ELSE ms
CxAbort ==
  /\ cxPc # "idle"
  /\ cxPc' = "idle" /\ cxLc' = CxSanitize(WithoutQuestion(cxLc))
  /\ cxRecord' = WithoutQuestion(cxRecord)
  /\ UNCHANGED <<cxMsgs, cxReq, cxDone, cxTurn, cxRetry, cxLeft, cxCount>>

\* The process exits and lc_messages are rebuilt from the record.
CxRestart ==
  /\ cxRecord # <<>> /\ cxExits < CxMaxExits
  /\ cxExits' = cxExits + 1
  /\ cxPc' = "idle" /\ cxLc' = CxSanitize(cxRecord)
  /\ UNCHANGED <<cxRecord, cxMsgs, cxReq, cxDone, cxTurn, cxRetry, cxLeft, cxNext>>

CxNext ==
  \/ CxAsk \/ CxAnswered \/ CxAbort \/ CxRestart
  \/ \E ok \in BOOLEAN : CxCompact(ok) \/ CxRefused(ok)
  \/ \E sz \in {1, 3} : CxUser(sz)
  \/ \E n \in 1..2 : CxCalled(n)
  \/ \E j \in 1..2, sz \in {1, 3} : CxToolEnds(j, sz)

-----------------------------------------------------------------------------
CxTypeOK ==
  /\ cxPc \in {"idle", "compact", "node", "asked", "tools"}
  /\ \A ms \in {cxLc, cxCp, cxRecord, cxMsgs, cxReq, cxDone} :
       \A i \in 1..Len(ms) : ms[i].k \in Kinds /\ ms[i].sz \in 1..3 /\ ms[i].id < cxNext
  /\ cxRetry \in 0..CxRetries /\ cxLeft \in 0..CxRounds

\* Every request for tools is followed at once by its results, and every result
\* belongs to such a request.
Paired(ms) ==
  /\ \A i \in 1..Len(ms) : ms[i].k = "call" =>
       \A n \in 1..ms[i].n : i + n <= Len(ms) /\ ms[i+n].k = "tool" /\ ms[i+n].of = ms[i].id
  /\ \A i \in 1..Len(ms) : ms[i].k = "tool" =>
       \E c \in 1..i-1 : ms[c].k = "call" /\ ms[c].id = ms[i].of /\ i - c <= ms[c].n

\* What is sent to the model, and what a turn, an abort, a failure or a restart
\* leaves for the next one, never has a tool call without its results or a
\* result without its call, wherever the compactions cut.
CxPaired == (cxPc = "asked" => Paired(cxReq)) /\ (cxPc = "idle" => Paired(cxLc))

\* A summary stays until a restart, and nothing it stands for is sent beside it.
CxSummaryStands ==
  cxPc = "asked" =>
    /\ LastSummary(cxCp) # 0 => LastSummary(cxReq) # 0
    /\ \A s, i \in 1..Len(cxReq) : cxReq[s].k = "summary" /\ i # s => cxReq[i].id > cxReq[s].of

Asks(ms) == \E i \in 1..Len(ms) : ms[i].k = "user" /\ ms[i].id = cxQ

QuestionAt == CHOOSE i \in 1..Len(cxRecord) : cxRecord[i].id = cxQ

\* Compaction and trimming before a request never take away the question asked,
\* if it fits what the compaction keeps.
CxQuestionFirst ==
  cxPc = "asked" /\ cxRetry = 0 => Asks(cxReq) \/ cxRecord[QuestionAt].sz > CxKeepTokens

\* What reaches the model is well formed, true to its summary and about the
\* question, whatever the compactions, repairs and retries before it did.
ContextSound == CxPaired /\ CxSummaryStands /\ CxQuestionFirst
===============================================================================
