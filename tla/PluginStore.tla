----------------------------- MODULE PluginStore ------------------------------
(***************************************************************************)
(* Installed plugins: the lock file and the immutable checkouts            *)
(* (plugin_system/store.py), what the management API asks of them          *)
(* (extension_host/plugin_management.py), the saved settings               *)
(* (plugin_config.py) and what a start of the Controller makes of all that.*)
(*                                                                         *)
(* An installation or an update runs in a worker thread that holds the     *)
(* mutex of the store; everything else runs on the event loop, one request *)
(* at a time, and waits there for the mutex.  The process may die between  *)
(* any two writes.  A package is a revision number, of which PlAbout says  *)
(* what its manifest declares; settings are one value.                     *)
(***************************************************************************)
EXTENDS Naturals, FiniteSets, SequencesExt

CONSTANTS
  PlPlugins, PlRevs,
  PlAbout,       \* of a plugin and a revision: prefix, deps, secret (its setting)
  PlOverrides,   \* resource_prefix of an installation
  NoPlugin,
  PlMaxOps,      \* bound: requests
  PlMaxFaults    \* bound: exits of the process and writes that fail

VARIABLES
  plLock,     \* plugins.lock.json
  plDisk,     \* checkouts
  plEnabled,  \* extensions.json
  plConf,     \* the settings file: "none", "plain" or "secret"
  plMeta,     \* the setting is in .sensitive.json; "none" without the file
  plUp,       \* the process runs
  plJob,      \* the worker thread
  plRequest,  \* the request the event loop is in the middle of
  plEver,     \* history: revisions that were active since the installation
  plOps, plFaults \* counters

plFiles == <<plLock, plDisk, plEnabled, plConf, plMeta>>
plTasks == <<plJob, plRequest>>
plVars  == <<plFiles, plUp, plTasks, plEver, plOps, plFaults>>

NoPrefix  == ""
NoPackage == [active |-> 0, history |-> <<>>, pending |-> "none", over |-> NoPrefix,
              prefix |-> NoPrefix]
Installed(lock) == {p \in PlPlugins : lock[p] # NoPackage}
Staying(lock)   == {p \in Installed(lock) : lock[p].pending # "remove"}

NoJob     == [pc |-> "none", op |-> "", p |-> NoPlugin, r |-> 0, over |-> NoPrefix]
NoRequest == [op |-> "none", p |-> NoPlugin, was |-> FALSE]

PlInit ==
  /\ plLock = [p \in PlPlugins |-> NoPackage]
  /\ plDisk = {} /\ plEnabled = {}
  /\ plConf = [p \in PlPlugins |-> "none"] /\ plMeta = [p \in PlPlugins |-> "none"]
  /\ plUp = FALSE /\ plJob = NoJob /\ plRequest = NoRequest
  /\ plEver = [p \in PlPlugins |-> {}]
  /\ plOps = 0 /\ plFaults = 0

-----------------------------------------------------------------------------
(***************************************************************************)
(* What files say                                                          *)
(***************************************************************************)
\* _desired_manifest of a package that stays.
About(lock, p) == PlAbout[p][lock[p].active]

\* _desired_enabled: what is enabled, with what that depends on.
Wanted(lock, enabled) ==
  LET More(s) == s \cup UNION {About(lock, p).deps : p \in s \cap Staying(lock)}
      grown[n \in Nat] == IF n = 0 THEN enabled ELSE More(grown[n - 1])
  IN grown[Cardinality(PlPlugins)]

\* _ensure_not_required
NeededBy(p) == {e \in plEnabled \ {p} : p \in Wanted(plLock, {e})}

PrefixFree(p, prefix) ==
  prefix = NoPrefix \/ \A q \in Installed(plLock) \ {p} : plLock[q].prefix # prefix

\* _prepend_unique_revision
Bug_CurrentForgotten(active, history, target) ==
  SelectSeq(history, LAMBDA r : r # target)
Remembered(active, history, target) ==
  SelectSeq(<<active>> \o SelectSeq(history, LAMBDA r : r # active), LAMBDA r : r # target)

\* apply_pending
PlAfterPending(lock) ==
  [p \in PlPlugins |-> IF p \in Staying(lock) THEN [lock[p] EXCEPT !.pending = "none"]
                       ELSE NoPackage]

-----------------------------------------------------------------------------
(***************************************************************************)
(* Start and exit                                                          *)
(***************************************************************************)
\* ExtensionManager.__init__: apply_pending writes the lock, and then every active
\* revision must verify.
PlStart ==
  /\ ~plUp
  /\ plUp' = TRUE
  /\ plLock' = PlAfterPending(plLock)
  /\ plEver' = [p \in PlPlugins |-> IF p \in Installed(plLock') THEN plEver[p] ELSE {}]
  /\ UNCHANGED <<plDisk, plEnabled, plConf, plMeta, plTasks, plOps, plFaults>>

PlFault == plFaults < PlMaxFaults /\ plFaults' = plFaults + 1

PlExit ==
  /\ plUp /\ PlFault
  /\ plUp' = FALSE /\ plJob' = NoJob /\ plRequest' = NoRequest
  /\ UNCHANGED <<plFiles, plEver, plOps>>

-----------------------------------------------------------------------------
(***************************************************************************)
(* Install and update, in a worker thread                                  *)
(***************************************************************************)
PlAsk == plUp /\ plOps < PlMaxOps /\ plOps' = plOps + 1

\* An update has read the record before it waits for the mutex, and keeps the
\* override in it.
PlSubmit(op, p, r, over) ==
  /\ PlAsk /\ plJob = NoJob
  /\ op = "update" => p \in Installed(plLock) /\ over = NoPrefix
  /\ plJob' = [pc |-> "waiting", op |-> op, p |-> p, r |-> r, over |-> over]
  /\ UNCHANGED <<plFiles, plUp, plRequest, plEver, plFaults>>

Locked == plJob.pc \in {"placing", "writing"}

JobPrefix ==
  LET over == IF plJob.op = "install" THEN plJob.over ELSE plLock[plJob.p].over
  IN IF over # NoPrefix THEN over ELSE PlAbout[plJob.p][plJob.r].prefix

PlEnter ==
  /\ plJob.pc = "waiting"
  /\ plJob' = IF (plJob.op = "update") = (plJob.p \in Installed(plLock))
              THEN [plJob EXCEPT !.pc = "placing"] ELSE NoJob
  /\ UNCHANGED <<plFiles, plUp, plRequest, plEver, plOps, plFaults>>

\* _materialize and _place_checkout; the preflight may refuse what is placed.
PlPlace ==
  /\ plJob.pc = "placing"
  /\ plDisk' = plDisk \cup {<<plJob.p, plJob.r>>}
  /\ plJob' = [plJob EXCEPT !.pc = "writing"]
  /\ UNCHANGED <<plLock, plEnabled, plConf, plMeta, plUp, plRequest, plEver, plOps, plFaults>>

Bug_PrefixUnchecked == TRUE
JobAllowed == PrefixFree(plJob.p, JobPrefix)

JobRecord ==
  LET old == plLock[plJob.p] IN
  [active |-> plJob.r, pending |-> plJob.op, prefix |-> JobPrefix,
   over |-> IF plJob.op = "install" THEN plJob.over ELSE old.over,
   history |-> IF plJob.op = "install" THEN <<>>
               ELSE Remembered(old.active, old.history, plJob.r)]

PlWrite ==
  /\ plJob.pc = "writing" /\ JobAllowed
  /\ plLock' = [plLock EXCEPT ![plJob.p] = JobRecord]
  /\ plEver' = [plEver EXCEPT ![plJob.p] = @ \cup {plJob.r}]
  /\ plJob' = NoJob
  /\ UNCHANGED <<plDisk, plEnabled, plConf, plMeta, plUp, plRequest, plOps, plFaults>>

\* The fetch, the preflight, the prefix or the write is refused.
PlGiveUp ==
  /\ Locked
  /\ \/ plJob.pc = "writing" /\ ~JobAllowed /\ UNCHANGED plFaults
     \/ PlFault
  /\ plJob' = NoJob
  /\ UNCHANGED <<plFiles, plUp, plRequest, plEver, plOps>>

-----------------------------------------------------------------------------
(***************************************************************************)
(* Rollback, uninstall and enable, on the event loop                       *)
(***************************************************************************)
PlIdle == plRequest = NoRequest /\ ~Locked

PlRollback(p) ==
  /\ PlAsk /\ PlIdle /\ p \in Installed(plLock) /\ plLock[p].history # <<>>
  /\ LET old == plLock[p]
         target == Head(old.history)
         prefix == IF old.over # NoPrefix THEN old.over ELSE PlAbout[p][target].prefix
     IN
     /\ <<p, target>> \in plDisk /\ PrefixFree(p, prefix)
     /\ plLock' = [plLock EXCEPT ![p] =
          [@ EXCEPT !.active = target, !.pending = "rollback", !.prefix = prefix,
                    !.history = Remembered(old.active, @, target)]]
  /\ UNCHANGED <<plDisk, plEnabled, plConf, plMeta, plUp, plTasks, plEver, plFaults>>

\* uninstall: disabled in one file, then to be removed in the other.
PlUninstall(p) ==
  /\ PlAsk /\ PlIdle /\ p \in Installed(plLock) /\ NeededBy(p) = {}
  /\ plRequest' = [op |-> "mark", p |-> p, was |-> p \in plEnabled]
  /\ plEnabled' = plEnabled \ {p}
  /\ UNCHANGED <<plLock, plDisk, plConf, plMeta, plUp, plJob, plEver, plFaults>>

PlMark ==
  /\ plRequest.op = "mark" /\ ~Locked
  /\ plLock' = [plLock EXCEPT ![plRequest.p].pending = "remove"]
  /\ plRequest' = NoRequest
  /\ UNCHANGED <<plDisk, plEnabled, plConf, plMeta, plUp, plJob, plEver, plOps, plFaults>>

\* The second write fails, and the first one is taken back.
PlMarkFails ==
  /\ plRequest.op = "mark" /\ ~Locked /\ PlFault
  /\ plEnabled' = IF plRequest.was THEN plEnabled \cup {plRequest.p} ELSE plEnabled
  /\ plRequest' = NoRequest
  /\ UNCHANGED <<plLock, plDisk, plConf, plMeta, plUp, plJob, plEver, plOps>>

\* set_enabled: enabling what is to be removed keeps it, before it is enabled.
Bug_StillRemoved(p) == plLock
Cancelled(p) ==
  IF plLock[p].pending = "remove" THEN [plLock EXCEPT ![p].pending = "none"] ELSE plLock

PlEnable(p) ==
  /\ PlAsk /\ PlIdle /\ p \in Installed(plLock)
  /\ plLock' = Cancelled(p)
  /\ plRequest' = [op |-> "enable", p |-> p, was |-> FALSE]
  /\ UNCHANGED <<plDisk, plEnabled, plConf, plMeta, plUp, plJob, plEver, plFaults>>

PlEnabled ==
  /\ plRequest.op = "enable"
  /\ plEnabled' = plEnabled \cup {plRequest.p}
  /\ plRequest' = NoRequest
  /\ UNCHANGED <<plLock, plDisk, plConf, plMeta, plUp, plJob, plEver, plOps, plFaults>>

PlDisable(p) ==
  /\ PlAsk /\ PlIdle /\ p \in plEnabled /\ NeededBy(p) = {}
  /\ plEnabled' = plEnabled \ {p}
  /\ UNCHANGED <<plLock, plDisk, plConf, plMeta, plUp, plTasks, plEver, plFaults>>

-----------------------------------------------------------------------------
(***************************************************************************)
(* Settings                                                                *)
(***************************************************************************)
\* PluginConfigStore.save: the paths that are secret now or ever were, then
\* the values.
Bug_MetaForgets(p) == IF About(plLock, p).secret THEN "secret" ELSE "plain"
MetaOf(p) == IF plMeta[p] = "secret" \/ About(plLock, p).secret THEN "secret" ELSE "plain"

PlSave(p) ==
  /\ PlAsk /\ PlIdle /\ p \in Staying(plLock)
  /\ plMeta' = [plMeta EXCEPT ![p] = MetaOf(p)]
  /\ plRequest' = [op |-> "save", p |-> p, was |-> About(plLock, p).secret]
  /\ UNCHANGED <<plLock, plDisk, plEnabled, plConf, plUp, plJob, plEver, plFaults>>

PlSaved ==
  /\ plRequest.op = "save"
  /\ plConf' = [plConf EXCEPT ![plRequest.p] = IF plRequest.was THEN "secret" ELSE "plain"]
  /\ plRequest' = NoRequest
  /\ UNCHANGED <<plLock, plDisk, plEnabled, plMeta, plUp, plJob, plEver, plOps, plFaults>>

\* delete: the values, then what is known of them.
PlReset(p) ==
  /\ PlAsk /\ PlIdle /\ p \in Staying(plLock)
  /\ plConf' = [plConf EXCEPT ![p] = "none"]
  /\ plRequest' = [op |-> "reset", p |-> p, was |-> FALSE]
  /\ UNCHANGED <<plLock, plDisk, plEnabled, plMeta, plUp, plJob, plEver, plFaults>>

PlHasReset ==
  /\ plRequest.op = "reset"
  /\ plMeta' = [plMeta EXCEPT ![plRequest.p] = "none"]
  /\ plRequest' = NoRequest
  /\ UNCHANGED <<plLock, plDisk, plEnabled, plConf, plUp, plJob, plEver, plOps, plFaults>>

PlNext ==
  \/ PlStart \/ PlExit \/ PlEnter \/ PlPlace \/ PlWrite \/ PlGiveUp
  \/ PlMark \/ PlMarkFails \/ PlEnabled \/ PlSaved \/ PlHasReset
  \/ \E p \in PlPlugins :
       \/ PlRollback(p) \/ PlUninstall(p) \/ PlEnable(p) \/ PlDisable(p)
       \/ PlSave(p) \/ PlReset(p)
       \/ \E op \in {"install", "update"}, r \in PlRevs, over \in PlOverrides :
            PlSubmit(op, p, r, over)

-----------------------------------------------------------------------------
(***************************************************************************)
(* Properties                                                              *)
(***************************************************************************)
PlTypeOK ==
  /\ \A p \in PlPlugins :
       /\ plLock[p].active \in PlRevs \cup {0}
       /\ Range(plLock[p].history) \subseteq PlRevs
       /\ plLock[p].pending \in {"none", "install", "update", "rollback", "remove"}
  /\ plDisk \subseteq PlPlugins \X PlRevs /\ plEnabled \subseteq PlPlugins
  /\ plConf \in [PlPlugins -> {"none", "plain", "secret"}]
  /\ plMeta \in [PlPlugins -> {"none", "plain", "secret"}]
  /\ plJob.pc \in {"none", "waiting", "placing", "writing"}

\* read_lock and installed_manifest_paths, without which no start succeeds: whenever
\* the process dies, the checkouts the lock names are there and no prefix is taken twice.
PlStartable ==
  \A p \in Installed(plLock) :
    /\ {p} \X ({plLock[p].active} \cup Range(plLock[p].history)) \subseteq plDisk
    /\ PrefixFree(p, plLock[p].prefix)

\* However updates and rollbacks alternate, no revision that was active is lost, and
\* none is offered twice.
PlHistoryKept ==
  \A p \in Installed(plLock) :
    LET all == <<plLock[p].active>> \o plLock[p].history IN
    /\ Range(all) = plEver[p]
    /\ Len(all) = Cardinality(plEver[p])

\* What will be removed is not enabled, in whichever file a request stops.
PlRemovedIsOff == \A p \in Installed(plLock) \ Staying(plLock) : p \notin plEnabled

\* sensitive_paths: a value saved as a secret is shown under no later schema, of
\* another revision or of a plugin installed again.
PlSecretsHidden == \A p \in PlPlugins : plConf[p] = "secret" => plMeta[p] = "secret"

PluginsKept == PlStartable /\ PlHistoryKept /\ PlRemovedIsOff /\ PlSecretsHidden
===============================================================================
