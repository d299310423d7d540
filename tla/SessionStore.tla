------------------------------ MODULE SessionStore ------------------------------
(***************************************************************************)
(* Where sessions live: the registry of SessionManager with its bounded    *)
(* cache of cold sessions, the catalog, the files, and the operations that *)
(* move a session between them (agent/session_lifecycle.py,                *)
(* session_rehydration.py, session_catalog.py, the timer of session.py).   *)
(*                                                                         *)
(* The sessions are those of workflow nodes.  A session is loaded into an  *)
(* object, and one session may have several over time: somebody may hold   *)
(* one the registry has already let go of.  Its content is the number of   *)
(* turns recorded in it.                                                   *)
(***************************************************************************)
EXTENDS Integers, Sequences, FiniteSets

CONSTANTS
  StSessions,   \* the sessions, 1..n
  StOthers,     \* those of them that are only read, and finished long ago
  StCold,       \* _cold_cache_max_entries
  StHistory,    \* _history_max_entries
  StMaxObjects, \* bound: objects in use at a time
  StMaxTurns,   \* bound: turns of a session
  StMaxLost,    \* bound: writes that fail
  StMaxExits    \* bound: exits of the process

VARIABLES
  stFile,    \* SESSIONS_DIR: [turns, st, hist] of each session, NoFile without one
  stCatalog, \* sessions _session_catalog knows
  stReg,     \* sessions: the object registered for each, 0 for none
  stLru,     \* _cold_session_lru, oldest first
  stObj,     \* the objects somebody refers to, NoObject elsewhere
  stQueue,   \* objects flush_all has collected and not flushed
  stWrites,  \* writes in the thread pool: [o, by, image]
  stUser,    \* session_runtime, one per session: [pc, o]
  stDelete,  \* delete_session: [s, o], s = 0 when none runs
  stKilling, \* kill_session waits for the invocation of this object to end
  stTurns,   \* history: turns recorded in each session
  stGone,    \* history: sessions deleted
  stBeside,  \* history: sessions deleted, evicted or killed beside a user or a write
  stLost, stExits \* counters

stShelf == <<stCatalog, stReg, stLru>>
stPast  == <<stTurns, stGone, stBeside>>
stCount == <<stLost, stExits>>
stVars  == <<stFile, stShelf, stObj, stQueue, stWrites, stUser, stDelete, stKilling, stPast,
             stCount>>

NoFile == [turns |-> 0, st |-> "none", hist |-> FALSE]
Nobody == [pc |-> "none", o |-> 0]
NoDelete == [s |-> 0, o |-> 0]
StImage(x) == [turns |-> x.turns, st |-> x.st, hist |-> x.hist]
Loaded(s, image, graph) ==
  [s |-> s, turns |-> image.turns, st |-> image.st, hist |-> image.hist,
   dirty |-> FALSE, graph |-> graph, term |-> FALSE]
Objects  == 1..StMaxObjects
NoObject == Loaded(0, NoFile, FALSE)

\* The sessions of nodes that run are registered with their graph; the others
\* are files.
StInit ==
  /\ \E run \in SUBSET (StSessions \ StOthers) :
       /\ stFile = [s \in StSessions |->
                      [NoFile EXCEPT !.st = IF s \in run THEN "running" ELSE "completed"]]
       /\ stReg = [s \in StSessions |-> IF s \in run THEN s ELSE 0]
       /\ stObj = [o \in Objects |-> IF o \in run THEN Loaded(o, stFile[o], TRUE) ELSE NoObject]
  /\ stCatalog = StSessions /\ stLru = <<>>
  /\ stQueue = {} /\ stWrites = {} /\ stUser = [s \in StSessions |-> Nobody]
  /\ stDelete = NoDelete /\ stKilling = 0
  /\ stTurns = [s \in StSessions |-> 0] /\ stGone = {} /\ stBeside = {}
  /\ stLost = 0 /\ stExits = 0

-----------------------------------------------------------------------------
(***************************************************************************)
(* The registry                                                            *)
(***************************************************************************)
Without(lru, s) == SelectSeq(lru, LAMBDA x : x # s)
Registered == {stReg[s] : s \in StSessions} \ {0}
Written(s) == \E w \in stWrites : stObj[w.o].s = s
Busy(o) == \E s \in StSessions : stUser[s].o = o /\ stUser[s].pc = "turn"

Bug_EvictDirty(x) == FALSE

\* A dirty session is not evicted.
Kept(x) == x.dirty

\* _evict_cold_sessions: the oldest goes; a hot or a deleted one leaves the list, a dirty one
\* goes to its end, and a whole round of dirty ones ends the search.
Evict(reg, lru, obj) ==
  LET Step[n \in 0..2 * Len(lru)] ==
        IF n = 0 THEN [reg |-> reg, lru |-> lru, seen |-> 0, out |-> {}]
        ELSE LET p == Step[n-1]
                 s == Head(p.lru)
             IN IF Len(p.lru) <= StCold \/ p.seen >= Len(p.lru) THEN p
                ELSE IF p.reg[s] = 0 \/ obj[p.reg[s]].graph THEN [p EXCEPT !.lru = Tail(@)]
                ELSE IF Kept(obj[p.reg[s]]) THEN [p EXCEPT !.lru = Append(Tail(@), s), !.seen = @ + 1]
                ELSE [p EXCEPT !.lru = Tail(@), !.reg[s] = 0, !.out = @ \cup {s}]
  IN Step[2 * Len(lru)]

Unused == {o \in Objects : stObj[o] = NoObject}

\* The objects somebody still refers to after the step.
Referred(o) ==
  \/ o \in Registered \cup stQueue \cup {stKilling, stDelete.o}
  \/ \E w \in stWrites : w.o = o
  \/ \E s \in StSessions : stUser[s].o = o
Live(obj) == stObj' = [o \in Objects |-> IF Referred(o)' THEN obj[o] ELSE NoObject]

\* get_session: the registered object, or one loaded from the file.
Present(s) == stReg[s] # 0 \/ (s \in stCatalog /\ stFile[s] # NoFile)
Loading(s) ==
  IF stReg[s] # 0
  THEN [o |-> stReg[s], reg |-> stReg, obj |-> stObj, out |-> {},
        lru |-> IF \E i \in 1..Len(stLru) : stLru[i] = s
                THEN Append(Without(stLru, s), s) ELSE stLru]
  ELSE LET o == CHOOSE o \in Unused : \A p \in Unused : o <= p
           image == [stFile[s] EXCEPT !.st = IF @ = "running" THEN "error" ELSE @]
           obj == [stObj EXCEPT ![o] = Loaded(s, image, FALSE)]
           e == Evict([stReg EXCEPT ![s] = o], Append(stLru, s), obj)
       IN [o |-> o, reg |-> e.reg, obj |-> obj, lru |-> e.lru, out |-> e.out]
Loadable(s) == Present(s) /\ (stReg[s] # 0 \/ Unused # {})
Evicted(l) == stBeside' = stBeside \cup {s \in l.out : Written(s)}

StRead(s) ==
  /\ Loadable(s)
  /\ UNCHANGED <<stFile, stCatalog, stQueue, stWrites, stUser, stDelete, stKilling, stTurns,
                 stGone, stCount>>
  /\ LET l == Loading(s)
     IN stReg' = l.reg /\ stLru' = l.lru /\ Evicted(l) /\ Live(l.obj)

\* refresh_external_session: only a clean cold copy is dropped.
StRefresh(s) ==
  /\ stReg[s] # 0 /\ (\E i \in 1..Len(stLru) : stLru[i] = s) /\ ~stObj[stReg[s]].dirty
  /\ stReg' = [stReg EXCEPT ![s] = 0] /\ stLru' = Without(stLru, s)
  /\ stCatalog' = IF stFile[s] = NoFile THEN stCatalog \ {s} ELSE stCatalog \cup {s}
  /\ stBeside' = IF Written(s) THEN stBeside \cup {s} ELSE stBeside
  /\ UNCHANGED <<stFile, stQueue, stWrites, stUser, stDelete, stKilling, stTurns,
                 stGone, stCount>>
  /\ Live(stObj)

-----------------------------------------------------------------------------
(***************************************************************************)
(* Saving                                                                  *)
(***************************************************************************)
\* flush_all collects, then flushes one by one.
StCollect ==
  /\ stQueue = {} /\ \E o \in Registered : stObj[o].dirty
  /\ stQueue' = {o \in Registered : stObj[o].dirty}
  /\ UNCHANGED <<stFile, stShelf, stObj, stWrites, stUser, stDelete, stKilling, stPast, stCount>>

Unlocked(o) == \A w \in stWrites : w.o # o
Writing(o, by) == stWrites' = stWrites \cup {[o |-> o, by |-> by, image |-> StImage(stObj[o])]}

StFlush(o) ==
  /\ o \in stQueue /\ Unlocked(o)
  /\ stQueue' = stQueue \ {o}
  /\ IF stObj[o].dirty
     THEN Writing(o, "timer") ELSE UNCHANGED stWrites
  /\ UNCHANGED <<stFile, stShelf, stUser, stDelete, stKilling, stPast, stCount>>
  /\ Live([stObj EXCEPT ![o].dirty = FALSE])

\* A user or a release that saves before it goes on waits for the lock too.
StSave(s) ==
  /\ stUser[s].pc \in {"opening", "closing", "releasing"} /\ Unlocked(stUser[s].o)
  /\ stObj' = [stObj EXCEPT ![stUser[s].o].dirty = FALSE]
  /\ Writing(stUser[s].o, "user")
  /\ stUser' = [stUser EXCEPT ![s].pc = CASE @ = "opening" -> "opened"
                                         [] @ = "closing" -> "closed"
                                         [] OTHER -> "released"]
  /\ UNCHANGED <<stFile, stShelf, stQueue, stDelete, stKilling, stPast, stCount>>

Bug_DetachFailed(ok) == TRUE

\* The end of the write of a user, by what the user was doing.
Saved(ok) == ok

Closed(s, o, ok) ==
  IF Saved(ok)
  THEN /\ stReg' = [stReg EXCEPT ![s] = 0] /\ stLru' = Without(stLru, s)
       /\ stCatalog' = stCatalog \cup {s}
       /\ stUser' = [stUser EXCEPT ![s] = Nobody]
       /\ stBeside' = IF stObj[o].dirty \/ stKilling = o THEN stBeside \cup {s} ELSE stBeside
       /\ Live([stObj EXCEPT ![o].graph = FALSE])
  ELSE /\ stUser' = [stUser EXCEPT ![s] = Nobody]
       /\ UNCHANGED <<stShelf, stBeside>>
       /\ Live([stObj EXCEPT ![o].dirty = TRUE])

Opened(s, o, ok) ==
  /\ UNCHANGED <<stReg, stBeside>>
  /\ IF ok THEN /\ stUser' = [stUser EXCEPT ![s].pc = "open"]
                /\ UNCHANGED <<stObj, stLru, stCatalog>>
     ELSE /\ stUser' = [stUser EXCEPT ![s] = Nobody]
          /\ stLru' = Append(Without(stLru, s), s) /\ stCatalog' = stCatalog \cup {s}
          /\ Live([stObj EXCEPT ![o].dirty = TRUE, ![o].graph = FALSE])

StWritten(w, ok) ==
  /\ w \in stWrites /\ stWrites' = stWrites \ {w}
  /\ IF ok THEN stFile' = [stFile EXCEPT ![stObj[w.o].s] = w.image] /\ UNCHANGED stLost
     ELSE stLost < StMaxLost /\ stLost' = stLost + 1 /\ UNCHANGED stFile
  /\ UNCHANGED <<stQueue, stDelete, stKilling, stTurns, stGone, stExits>>
  /\ LET s == stObj[w.o].s
     IN CASE w.by = "user" /\ stUser[s].pc \in {"closed", "released"} -> Closed(s, w.o, ok)
          [] w.by = "user" /\ stUser[s].pc = "opened" -> Opened(s, w.o, ok)
          [] OTHER -> /\ UNCHANGED <<stShelf, stUser, stBeside>>
                      /\ Live([stObj EXCEPT ![w.o].dirty = @ \/ ~ok])

-----------------------------------------------------------------------------
(***************************************************************************)
(* Using a session                                                         *)
(***************************************************************************)
\* The node's agent works and completes; the task ends and its sessions are
\* released, saved first.
StNodeWorks(s) ==
  /\ stReg[s] # 0 /\ stObj[stReg[s]].st = "running" /\ stObj[stReg[s]].graph
  /\ ~stObj[stReg[s]].term
  /\ stTurns[s] < StMaxTurns /\ stTurns' = [stTurns EXCEPT ![s] = @ + 1]
  /\ \E st \in {"running", "completed"} :
       stObj' = [stObj EXCEPT ![stReg[s]].turns = @ + 1, ![stReg[s]].st = st,
                              ![stReg[s]].dirty = TRUE]
  /\ UNCHANGED <<stFile, stShelf, stQueue, stWrites, stUser, stDelete, stKilling, stGone,
                 stBeside, stCount>>

StRelease(s) ==
  LET o == stReg[s]
  IN /\ stUser[s] = Nobody /\ o # 0 /\ stObj[o].graph /\ ~stObj[o].hist
     /\ stObj' = [stObj EXCEPT ![o].term = TRUE, ![o].dirty = TRUE,
                               ![o].st = IF @ = "running" THEN "error" ELSE @]
     /\ stUser' = [stUser EXCEPT ![s] = [pc |-> "releasing", o |-> o]]
     /\ UNCHANGED <<stFile, stShelf, stQueue, stWrites, stDelete, stKilling, stPast, stCount>>

\* session_runtime under its lock.  A completed node is rehydrated; one that
\* could not be unloaded last time is used as it is.
StUse(s) ==
  /\ stUser[s] = Nobody /\ Loadable(s)
  /\ UNCHANGED <<stFile, stQueue, stWrites, stDelete, stKilling, stTurns, stGone, stCount>>
  /\ LET l == Loading(s)
         x == l.obj[l.o]
         hot == [l.obj EXCEPT ![l.o].graph = TRUE, ![l.o].hist = TRUE, ![l.o].dirty = TRUE]
     IN /\ Evicted(l)
        /\ \/ /\ ~x.graph /\ x.st = "completed"
              /\ stReg' = [l.reg EXCEPT ![s] = l.o]
              /\ stLru' = Without(l.lru, s) /\ stCatalog' = stCatalog \cup {s}
              /\ stUser' = [stUser EXCEPT ![s] = [pc |-> "opening", o |-> l.o]]
              /\ Live(hot)
           \/ /\ x.graph /\ x.hist
              /\ stUser' = [stUser EXCEPT ![s] = [pc |-> "open", o |-> l.o]]
              /\ stReg' = l.reg /\ stLru' = l.lru /\ UNCHANGED stCatalog
              /\ Live(l.obj)

\* send_message, refused to a session that is terminated or in error.
StSend(s) ==
  /\ stUser[s].pc = "open"
  /\ LET x == stObj[stUser[s].o]
     IN IF x.term \/ x.st = "error" \/ stTurns[s] = StMaxTurns
        THEN /\ stUser' = [stUser EXCEPT ![s].pc = "closing"]
             /\ stObj' = [stObj EXCEPT ![stUser[s].o].dirty = TRUE]
        ELSE stUser' = [stUser EXCEPT ![s].pc = "turn"] /\ UNCHANGED stObj
  /\ UNCHANGED <<stFile, stShelf, stQueue, stWrites, stDelete, stKilling, stPast, stCount>>

\* The turn ends, and the session is saved before it is unloaded.
StTurnEnds(s) ==
  /\ stUser[s].pc = "turn"
  /\ stTurns' = [stTurns EXCEPT ![s] = @ + 1]
  /\ stObj' = [stObj EXCEPT ![stUser[s].o].turns = @ + 1, ![stUser[s].o].dirty = TRUE]
  /\ stUser' = [stUser EXCEPT ![s].pc = "closing"]
  /\ UNCHANGED <<stFile, stShelf, stQueue, stWrites, stDelete, stKilling, stGone, stBeside,
                 stCount>>

\* kill_session: the invocation is cancelled, and when it has ended the status
\* is changed, whatever has become of the object meanwhile.
StKill(s) ==
  LET o == stReg[s]
  IN /\ o # 0 /\ stObj[o].st # "error" /\ stKilling = 0
     /\ stKilling' = o
     /\ stObj' = [stObj EXCEPT ![o].term = TRUE, ![o].dirty = IF Busy(o) THEN TRUE ELSE @]
     /\ stUser' = IF Busy(o) THEN [stUser EXCEPT ![s].pc = "closing"] ELSE stUser
     /\ UNCHANGED <<stFile, stShelf, stQueue, stWrites, stDelete, stPast, stCount>>

StKilled ==
  /\ stKilling # 0 /\ stKilling' = 0
  /\ UNCHANGED <<stFile, stShelf, stQueue, stWrites, stUser, stDelete, stPast, stCount>>
  /\ Live([stObj EXCEPT ![stKilling].st = "error", ![stKilling].dirty = TRUE])

-----------------------------------------------------------------------------
(***************************************************************************)
(* Deleting                                                                *)
(***************************************************************************)
\* delete_session: refused while a turn runs; then the consumer is stopped.
StDeleteBegins(s) ==
  /\ stDelete = NoDelete /\ Loadable(s) /\ ~(stReg[s] # 0 /\ Busy(stReg[s]))
  /\ UNCHANGED <<stFile, stCatalog, stQueue, stWrites, stUser, stKilling, stTurns, stGone,
                 stCount>>
  /\ LET l == Loading(s)
     IN /\ stReg' = l.reg /\ stLru' = l.lru /\ Evicted(l)
        /\ stDelete' = [s |-> s, o |-> l.o]
        /\ Live([l.obj EXCEPT ![l.o].term = TRUE])

Bug_StaysRegistered(reg, s) == reg

\* What a deletion forgets of the session.
Forgotten(reg, s) == [reg EXCEPT ![s] = 0]

StDeleted ==
  /\ stDelete # NoDelete
  /\ LET s == stDelete.s
     IN /\ stReg' = Forgotten(stReg, s) /\ stLru' = Without(stLru, s)
        /\ stCatalog' = stCatalog \ {s} /\ stFile' = [stFile EXCEPT ![s] = NoFile]
        /\ stGone' = stGone \cup {s}
        /\ stBeside' = IF \/ stUser[s] # Nobody \/ Written(s)
                          \/ \E o \in stQueue : stObj[o].s = s
                       THEN stBeside \cup {s} ELSE stBeside
  /\ stDelete' = NoDelete
  /\ UNCHANGED <<stQueue, stWrites, stUser, stKilling, stTurns, stCount>>
  /\ Live(stObj)

-----------------------------------------------------------------------------
\* The process exits; the files are indexed and the oldest of the finished
\* sessions nobody continued are pruned.
StRestart ==
  /\ stExits < StMaxExits /\ stExits' = stExits + 1
  /\ LET files == {s \in StSessions : stFile[s] # NoFile}
         done  == {s \in files : stFile[s].st # "running" /\ ~stFile[s].hist}
     IN \E out \in SUBSET done :
          /\ Cardinality(done \ out) = IF Cardinality(done) > StHistory THEN StHistory
                                       ELSE Cardinality(done)
          /\ stFile' = [s \in StSessions |-> IF s \in out THEN NoFile ELSE stFile[s]]
          /\ stCatalog' = files \ out /\ stGone' = stGone \cup out
  /\ stReg' = [s \in StSessions |-> 0] /\ stLru' = <<>> /\ stObj' = [o \in Objects |-> NoObject]
  /\ stQueue' = {} /\ stWrites' = {} /\ stUser' = [s \in StSessions |-> Nobody]
  /\ stDelete' = NoDelete /\ stKilling' = 0
  /\ stTurns' = [s \in StSessions |-> stFile[s].turns]
  /\ UNCHANGED <<stBeside, stLost>>

StSteps ==
  \/ StCollect \/ StKilled \/ StDeleted \/ StRestart
  \/ \E s \in StSessions :
       \/ StRead(s) \/ StRefresh(s) \/ StSave(s) \/ StNodeWorks(s) \/ StRelease(s)
       \/ StSend(s) \/ StTurnEnds(s)
       \/ s \notin StOthers /\ (StUse(s) \/ StKill(s) \/ StDeleteBegins(s))
  \/ \E o \in stQueue : StFlush(o)
  \/ \E w \in stWrites, ok \in BOOLEAN : StWritten(w, ok)

\* Bound: nothing is claimed of a session after such a race, so none is followed
\* past it.
StNext == stBeside = {} /\ StSteps

-----------------------------------------------------------------------------
StTypeOK ==
  /\ stCatalog \subseteq StSessions /\ stGone \subseteq StSessions
  /\ \A s \in StSessions :
       /\ stReg[s] \in 0..StMaxObjects /\ (stReg[s] # 0 => stObj[stReg[s]].s = s)
       /\ stFile[s].st \in {"none", "running", "completed", "error"}
       /\ stUser[s].pc \in {"none", "opening", "opened", "open", "turn", "closing", "closed",
                            "releasing", "released"}
  /\ \A i \in 1..Len(stLru) : stLru[i] \in StSessions

\* Between uses a session is on disk with every turn it had, however it was
\* cached, evicted, released and loaded again, unless it was let go of while a
\* write of it was still running.
StTurnsKept ==
  \A s \in StSessions \ (stGone \cup stBeside) :
    /\ stUser[s] = Nobody /\ ~Written(s)
    /\ stReg[s] # 0 => ~stObj[stReg[s]].dirty
    => stFile[s].turns = stTurns[s]

\* What was deleted while nobody used or wrote it stays deleted.
StDeletedStays ==
  \A s \in stGone \ stBeside : stFile[s] = NoFile /\ s \notin stCatalog /\ stReg[s] = 0

\* Moving sessions between memory and disk neither loses a turn nor brings back
\* what was deleted.
StoreKept == StTurnsKept /\ StDeletedStays
===============================================================================
