------------------------------ MODULE EventStream ------------------------------
(***************************************************************************)
(* What one browser shows of one session: the revisions and the draft the  *)
(* event bus keeps (web/event_bus.py), the bounded queue of a connection,  *)
(* the handler that answers with snapshots (web/ws_handlers.py), and the   *)
(* reducer of the client (features/conversation).                          *)
(*                                                                         *)
(* A record of messages is named by a number, a new one for every change,  *)
(* and a draft by how many increments it has.  Sending a frame and the     *)
(* client receiving it are one step: what is on the wire is as good as     *)
(* queued.  One turn runs at a time (module AgentSession).                 *)
(***************************************************************************)
EXTENDS Integers, Sequences

CONSTANTS
  EvQueue, EvOverflow, \* EVENT_QUEUE_SIZE and EVENT_OVERFLOW_SIZE
  EvMaxTurns,  \* bound: turns of the session
  EvMaxTokens, \* bound: increments of one draft
  EvMaxSent,   \* bound: messages this client sends
  EvMaxLinks,  \* bound: connections the client opens
  EvMaxDetach, \* bound: times the session leaves memory
  EvMaxAll     \* bound: the sum of turns, connections and departures

VARIABLES
  evPc,      \* the turn: "idle", "asked", "streaming" or "closing"
  evDead,    \* the status of the session is "error"
  evRecord,  \* the visible record
  evRev,     \* _session_revisions[session]
  evStream,  \* _active_streams[session]
  evConn,    \* the connection, as the server has it: link, queue and overflow
  evUp,      \* what the client has sent and the handler has not read
  evShow,    \* ConversationState
  evSeen,    \* what the last run of the resync effect depended on
  evTorn,    \* history: the revision has restarted since the last snapshot
  evTurns, evSent, evLinks, evDetached \* counters

evTurn   == <<evPc, evDead, evRecord>>
evBus    == <<evRev, evStream>>
evClient == <<evUp, evShow, evSeen>>
evCount  == <<evTurns, evSent, evLinks, evDetached>>
evVars   == <<evTurn, evBus, evConn, evClient, evTorn, evCount>>

NoStream   == [gen |-> 0, base |-> 0, seg |-> 0]
Optimistic == 0  \* messages the client has added to by itself
Null       == -1

EvDeps(s) == <<s.connected, s.resync, s.phase, s.received>>

EvEvent(k) == [k |-> k, rev |-> Null, gen |-> 0, msgs |-> Null, seg |-> 0, dead |-> FALSE]

\* A draft stands for what the record holds beyond its baseline.
Bug_WholeRecord ==
  [EvEvent("snapshot") EXCEPT
     !.rev = evRev, !.gen = evStream.gen, !.seg = evStream.seg, !.dead = evDead, !.msgs = evRecord]
EvSnapshot ==
  [EvEvent("snapshot") EXCEPT
     !.rev = evRev, !.gen = evStream.gen, !.seg = evStream.seg, !.dead = evDead,
     !.msgs = IF evStream # NoStream THEN evStream.base ELSE evRecord]

NoConn == [link |-> "down", queue |-> <<>>, over |-> <<>>]
Bug_StaysOpen == evConn
CutConn == [NoConn EXCEPT !.link = "cut"]

EvMore == evTurns + evLinks + evDetached < EvMaxAll

EvInit ==
  /\ evPc = "idle" /\ evDead = FALSE /\ evRecord = 1
  /\ evRev = 0 /\ evStream = NoStream
  /\ evConn = NoConn /\ evUp = <<>>
  /\ evShow = [connected |-> FALSE, phase |-> "loading", gen |-> 0, rev |-> Null,
               msgs |-> Null, seg |-> 0, streaming |-> FALSE, resync |-> FALSE, received |-> 0]
  /\ evSeen = EvDeps(evShow) /\ evTorn = FALSE
  /\ evTurns = 0 /\ evSent = 0 /\ evLinks = 0 /\ evDetached = 0

-----------------------------------------------------------------------------
(***************************************************************************)
(* The bus                                                                 *)
(***************************************************************************)
Terminal(e) == e.k \in {"snapshot", "stream_end", "chain_end", "failed", "error", "refused"}

Bug_BesideOverflow(e) ==
  CASE evConn.link # "up" -> evConn
    [] evConn.link = "up" /\ Len(evConn.queue) < EvQueue ->
         [evConn EXCEPT !.queue = Append(@, e)]
    [] OTHER -> IF Terminal(e) THEN [evConn EXCEPT !.over = Append(@, e)] ELSE CutConn
EvOffer(e) ==
  CASE evConn.link # "up" -> evConn
    [] evConn.link = "up" /\ evConn.over # <<>> ->
         IF Len(evConn.over) >= EvOverflow THEN CutConn
         ELSE [evConn EXCEPT !.over = Append(@, e)]
    [] evConn.link = "up" /\ evConn.over = <<>> /\ Len(evConn.queue) < EvQueue ->
         [evConn EXCEPT !.queue = Append(@, e)]
    [] OTHER -> IF Terminal(e) THEN [evConn EXCEPT !.over = Append(@, e)] ELSE CutConn

\* emit_chat: the next revision, what becomes of the draft, and the queue.
EvEmit(e, stream) ==
  /\ evRev' = evRev + 1
  /\ evStream' = stream
  /\ evConn' = EvOffer([e EXCEPT !.rev = evRev + 1,
                                 !.gen = IF stream.gen # 0 THEN stream.gen ELSE evStream.gen])

EvControl(e) == evConn' = EvOffer(e) /\ UNCHANGED evBus

-----------------------------------------------------------------------------
(***************************************************************************)
(* The turns of the session                                                *)
(***************************************************************************)
EvAsk ==
  /\ evPc = "idle" /\ ~evDead /\ evTurns < EvMaxTurns /\ EvMore
  /\ evPc' = "asked" /\ evRecord' = evRecord + 1 /\ evTurns' = evTurns + 1

\* Another client, or the program, asks.
EvAskedElsewhere ==
  /\ EvAsk
  /\ UNCHANGED <<evDead, evBus, evConn, evClient, evTorn, evSent, evLinks, evDetached>>

EvStart ==
  /\ evPc = "asked"
  /\ evPc' = "streaming"
  /\ EvEmit(EvEvent("stream_start"), [gen |-> evTurns, base |-> evRecord, seg |-> 0])
  /\ UNCHANGED <<evDead, evRecord, evClient, evTorn, evCount>>

\* _update_stream_segments: the draft has one increment more.
Grown(stream) == [stream EXCEPT !.seg = @ + 1]

\* Some increments are saved to the record as they come.
EvToken ==
  /\ evPc = "streaming" /\ evStream.seg < EvMaxTokens
  /\ \E saved \in {0, 1} : evRecord' = evRecord + saved
  /\ EvEmit(EvEvent("token"), Grown(evStream))
  /\ UNCHANGED <<evPc, evDead, evClient, evTorn, evCount>>

EvStreamEnd ==
  /\ evPc = "streaming"
  /\ evPc' = "closing" /\ evRecord' = evRecord + 1
  /\ EvEmit(EvEvent("stream_end"), evStream)
  /\ UNCHANGED <<evDead, evClient, evTorn, evCount>>

\* A turn aborted before its stream has no stream_end.
EvChainEnd ==
  /\ \/ evPc = "closing" /\ evRecord' = evRecord
     \/ evPc = "asked" /\ evRecord' = evRecord + 1
  /\ evPc' = "idle"
  /\ EvEmit([EvEvent("chain_end") EXCEPT !.msgs = evRecord'], NoStream)
  /\ UNCHANGED <<evDead, evClient, evTorn, evCount>>

\* A failed turn of a main session, whose record is rolled back; a failure of
\* another session, which ends it; and a turn whose task is cancelled.
EvFail ==
  /\ evPc \in {"asked", "streaming"}
  /\ evPc' = "idle" /\ evRecord' = evRecord + 1
  /\ \/ /\ evDead' = FALSE
        /\ EvEmit([EvEvent("failed") EXCEPT !.msgs = evRecord'], NoStream)
     \/ /\ evDead' \in BOOLEAN
        /\ EvEmit(EvEvent("error"), NoStream)
  /\ UNCHANGED <<evClient, evTorn, evCount>>

\* compress_session: a summary enters the record between two turns.
EvCompress ==
  /\ evPc = "idle" /\ evTurns > 0 /\ evTurns < EvMaxTurns /\ EvMore
  /\ evTurns' = evTurns + 1 /\ evRecord' = evRecord + 1
  /\ EvEmit([EvEvent("chain_end") EXCEPT !.msgs = evRecord'], NoStream)
  /\ UNCHANGED <<evPc, evDead, evClient, evTorn, evSent, evLinks, evDetached>>

\* detach_saved_runtime_session: clear_session beside whoever is connected.
EvDetach ==
  /\ evPc = "idle" /\ 0 < evTurns /\ evTurns < EvMaxTurns /\ evDetached < EvMaxDetach /\ EvMore
  /\ evDetached' = evDetached + 1
  /\ evRev' = 0 /\ evStream' = NoStream
  /\ evTorn' = TRUE
  /\ UNCHANGED <<evTurn, evConn, evClient, evTurns, evSent, evLinks>>

-----------------------------------------------------------------------------
(***************************************************************************)
(* The handler of the connection                                           *)
(***************************************************************************)
EvTake == evConn.link # "down" /\ evUp # <<>> /\ evUp' = Tail(evUp)

EvResync ==
  /\ EvTake /\ Head(evUp) = "resync"
  /\ EvControl(EvSnapshot)
  /\ UNCHANGED <<evTurn, evShow, evSeen, evTorn, evCount>>

\* _process_session_message, and _validate_session when it says no.
EvMessage ==
  /\ EvTake /\ Head(evUp) = "message"
  /\ \/ EvAsk /\ UNCHANGED <<evDead, evBus, evConn>>
     \/ /\ evPc # "idle" \/ evDead
        /\ EvControl(EvEvent("refused"))
        /\ UNCHANGED <<evTurn, evTurns>>
  /\ UNCHANGED <<evShow, evSeen, evTorn, evSent, evLinks, evDetached>>

\* A send that fails or times out, and a network that breaks: the server
\* drops the connection before the client hears of it.
EvCut ==
  /\ evConn.link = "up"
  /\ evConn' = CutConn
  /\ UNCHANGED <<evTurn, evBus, evClient, evTorn, evCount>>

-----------------------------------------------------------------------------
(***************************************************************************)
(* The client                                                              *)
(***************************************************************************)
Quiet(s, phase) ==
  [s EXCEPT !.gen = 0, !.phase = phase, !.seg = 0, !.streaming = FALSE, !.resync = FALSE]

EvShowSnapshot(s, e) ==
  [s EXCEPT !.gen = e.gen, !.rev = e.rev, !.msgs = e.msgs, !.seg = e.seg,
            !.streaming = e.gen # 0, !.resync = FALSE, !.received = 0,
            !.phase = IF e.dead THEN "error" ELSE IF e.gen # 0 THEN "streaming" ELSE "ready"]

EvAccept(s, e) ==
  LET t == IF e.rev = Null THEN s ELSE [s EXCEPT !.rev = e.rev] IN
  CASE e.k = "stream_start" ->
         [Quiet(t, "streaming") EXCEPT !.gen = e.gen, !.streaming = TRUE, !.received = 0]
    [] e.k = "token" ->
         [t EXCEPT !.phase = "streaming", !.streaming = TRUE, !.seg = @ + 1]
    [] e.k = "refused" -> [t EXCEPT !.resync = TRUE, !.received = 0]
    [] e.k = "failed"  -> [Quiet(t, "ready") EXCEPT !.msgs = e.msgs, !.received = 0]
    [] e.k = "error"   -> [Quiet(t, "error") EXCEPT !.resync = TRUE, !.received = 0]
    [] OTHER -> t

EvOld(s, e) == e.rev # Null /\ s.rev # Null /\ e.rev <= s.rev
EvGap(s, e) ==
  /\ e.rev # Null /\ s.rev # Null /\ e.rev > s.rev + 1
  /\ e.k \notin {"stream_start", "failed", "error", "refused"}

\* reduceServerEvent: its early returns in their order.
EvReduce(s, e) ==
  CASE e.k = "snapshot" -> EvShowSnapshot(s, e)
    [] e.k # "snapshot" /\ s.phase = "error" /\ e.k \notin {"stream_start", "chain_end"} -> s
    [] OTHER ->
       IF s.gen # 0 /\ e.gen # 0 /\ s.gen # e.gen /\ e.k # "stream_start" THEN s
       ELSE IF e.k = "chain_end"
         THEN IF EvOld(s, e) THEN s
              ELSE [Quiet(s, "ready") EXCEPT !.rev = e.rev, !.msgs = e.msgs, !.received = 0]
       ELSE IF s.resync /\ e.k \notin {"stream_start", "failed", "error", "refused"} THEN s
       ELSE IF EvOld(s, e) THEN s
       ELSE IF EvGap(s, e)
         THEN [s EXCEPT !.resync = TRUE, !.phase = "reconnecting", !.received = e.rev]
       ELSE EvAccept(s, e)

EvNextFrame == IF evConn.queue # <<>> THEN Head(evConn.queue) ELSE Head(evConn.over)

EvDeliver ==
  /\ evConn.link = "up" /\ evConn.queue \o evConn.over # <<>>
  /\ evShow' = EvReduce(evShow, EvNextFrame)
  /\ evConn' = IF evConn.queue # <<>> THEN [evConn EXCEPT !.queue = Tail(@)]
                                      ELSE [evConn EXCEPT !.over = Tail(@)]
  /\ UNCHANGED <<evTurn, evBus, evUp, evSeen, evTorn, evCount>>

\* The effect of useConversation runs after a render that changed what it
\* depends on; several frames may come before it.
EvEffect ==
  /\ evSeen # EvDeps(evShow)
  /\ evSeen' = EvDeps(evShow)
  /\ evUp' = IF evShow.connected /\ (evShow.resync \/ evShow.phase = "reconnecting")
             THEN Append(evUp, "resync") ELSE evUp
  /\ UNCHANGED <<evTurn, evBus, evConn, evShow, evTorn, evCount>>

EvSend ==
  /\ evShow.connected /\ evShow.phase = "ready" /\ evSent < EvMaxSent
  /\ evSent' = evSent + 1
  /\ evUp' = Append(evUp, "message")
  /\ evShow' = [evShow EXCEPT !.msgs = Optimistic]
  /\ UNCHANGED <<evTurn, evBus, evConn, evSeen, evTorn, evTurns, evLinks, evDetached>>

EvClosed ==
  /\ evConn.link = "cut"
  /\ evConn' = NoConn /\ evUp' = <<>>
  /\ evShow' = [evShow EXCEPT !.connected = FALSE,
                              !.phase = IF evShow.streaming THEN "reconnecting" ELSE @]
  /\ UNCHANGED <<evTurn, evBus, evSeen, evTorn, evCount>>

\* handle_chat_ws subscribes and queues the snapshot in one step.
EvConnect ==
  /\ evConn.link = "down" /\ evLinks < EvMaxLinks /\ EvMore
  /\ evLinks' = evLinks + 1
  /\ evConn' = [link |-> "up", queue |-> <<EvSnapshot>>, over |-> <<>>]
  /\ evShow' = [evShow EXCEPT !.connected = TRUE]
  /\ evTorn' = FALSE
  /\ UNCHANGED <<evTurn, evBus, evUp, evSeen, evTurns, evSent, evDetached>>

EvNext ==
  \/ EvAskedElsewhere \/ EvStart \/ EvToken \/ EvStreamEnd \/ EvChainEnd \/ EvFail
  \/ EvCompress \/ EvDetach
  \/ EvResync \/ EvMessage \/ EvCut
  \/ EvDeliver \/ EvEffect \/ EvSend \/ EvClosed \/ EvConnect

-----------------------------------------------------------------------------
(***************************************************************************)
(* Properties                                                              *)
(***************************************************************************)
EvTypeOK ==
  /\ evPc \in {"idle", "asked", "streaming", "closing"}
  /\ evDead \in BOOLEAN /\ evTorn \in BOOLEAN
  /\ evRecord \in Nat \ {Optimistic} /\ evRev \in Nat
  /\ evConn.link \in {"up", "cut", "down"}
  /\ Len(evConn.queue) <= EvQueue /\ Len(evConn.over) <= EvOverflow
  /\ evConn.link # "up" => evConn.queue \o evConn.over = <<>>
  /\ evShow.phase \in {"loading", "ready", "streaming", "reconnecting", "error"}

EvCaughtUp ==
  /\ evConn.link = "up" /\ evConn.queue \o evConn.over = <<>> /\ evUp = <<>>
  /\ ~evShow.resync /\ ~evTorn

\* event_bus.py and the reducer together: a client that has nothing to read, has
\* sent nothing and does not ask for a snapshot shows the draft of the running
\* turn increment for increment, and the record when no turn runs.
EvInSync ==
  EvCaughtUp =>
    IF evStream # NoStream
    THEN evShow.streaming /\ evShow.gen = evStream.gen /\ evShow.seg = evStream.seg
    ELSE ~evShow.streaming /\ (evPc = "idle" => evShow.msgs = evRecord)

\* _build_session_snapshot cuts the record at the baseline of the draft: a client
\* never shows what was saved while it streams beside the draft that holds it.
EvNotTwice == EvCaughtUp /\ evStream # NoStream => evShow.msgs <= evStream.base

EvShowsTruth == EvInSync /\ EvNotTwice
===============================================================================
