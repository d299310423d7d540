----------------------------- MODULE LayeredConfig -----------------------------
(***************************************************************************)
(* A configuration file in layers (extension_host/resources.py) as the     *)
(* agent definitions use it (agent/config_manager.py): the user's own file,*)
(* under it the documents of the plugins, whose items are never written    *)
(* back but overridden, per owner, in a second file.  What the manager     *)
(* holds in memory is saved whole after every edit, and loaded again when  *)
(* somebody asks for it, when the file is changed by hand, and when a      *)
(* plugin starts or stops.                                                 *)
(*                                                                         *)
(* An item is an agent definition, its value one number; 0: there is none. *)
(* Left out: keys outside the managed sections and the order of a list.    *)
(***************************************************************************)
EXTENDS Integers, FiniteSets

CONSTANTS
  LyOwners,   \* plugins
  LyItems,    \* names of agents
  LyValues,   \* what a definition says
  LyReleases, \* what the plugins declare, a function for every set of releases
  LyMaxMishaps\* bound: saves that fail, crashes, edits by hand and reloads in a thread of their own

VARIABLES
  lyDoc,    \* the documents of the plugins that were registered at this start
  lyRun,    \* plugins that are running
  lyBase,   \* the user's file
  lyOver,   \* the overrides
  lyMem,    \* AgentConfigManager._config
  lyPc,     \* "boot": core before the plugins; "up"; "saving": between the two files
  lyNow,    \* the item being saved
  lyRead,   \* what the watcher's thread has loaded and not yet published
  lyTold,   \* history: what the user last decided about each item
  lyAside,  \* history: items whose decision memory need not show now
  lyMishaps \* counter

lyVars == <<lyDoc, lyRun, lyBase, lyOver, lyMem, lyPc, lyNow, lyRead, lyTold, lyAside, lyMishaps>>

NoItems == [i \in LyItems |-> 0]
NoOver == [o \in LyOwners |-> [val |-> NoItems, gone |-> {}]]
NoItem == "none"
AnyValue == -1   \* of lyTold: nobody can say what the item is now
Default == -2    \* of lyTold: what its plugin declares, or nothing
NoLoad == [on |-> FALSE, mem |-> NoItems, edited |-> {}]

ASSUME LyAssumption ==
  /\ LyReleases \subseteq [LyOwners -> [LyItems -> Nat]] /\ LyValues \subseteq Nat \ {0}
  /\ NoItem \notin LyItems

-----------------------------------------------------------------------------
(***************************************************************************)
(* LayeredJsonConfig                                                       *)
(***************************************************************************)
LyDeclares(doc, o) == {i \in LyItems : doc[o][i] # 0}
LyDeclared(doc) == UNION {LyDeclares(doc, o) : o \in LyOwners}
LyOwner(doc, i) == CHOOSE o \in LyOwners : i \in LyDeclares(doc, o)
LyMishap == lyMishaps < LyMaxMishaps /\ lyMishaps' = lyMishaps + 1

\* Two documents, or a document and the user's file, name the same item.
LyConflict(doc, base) ==
  \/ \E i \in LyDeclared(doc) : base[i] # 0
  \/ \E o, p \in LyOwners : o # p /\ LyDeclares(doc, o) \cap LyDeclares(doc, p) # {}

\* _sanitize_overrides
LySanitized(doc, over) ==
  [o \in LyOwners |-> [val |-> [i \in LyItems |-> IF doc[o][i] = 0 THEN 0 ELSE over[o].val[i]],
                       gone |-> over[o].gone \cap LyDeclares(doc, o)]]

LyLoaded(doc, run, base) ==
  LET over == LySanitized(doc, lyOver)
  IN [i \in LyItems |->
       IF i \notin LyDeclared(doc) THEN base[i]
       ELSE LET o == LyOwner(doc, i)
            IN IF o \notin run \/ i \in over[o].gone THEN 0
               ELSE IF over[o].val[i] # 0 THEN over[o].val[i] ELSE doc[o][i]]

\* Every item a plugin declares stays out of the user's file, whether it runs or not.
SavedBase(mem) == [i \in LyItems |-> IF i \in LyDeclared(lyDoc) THEN 0 ELSE mem[i]]

\* _update_overrides, which touches those of the plugins that are running.
Differs(mem, o) ==
  [val |-> [i \in LyItems |-> IF i \in LyDeclares(lyDoc, o) /\ mem[i] # lyDoc[o][i] THEN mem[i] ELSE 0],
   gone |-> {i \in LyDeclares(lyDoc, o) : mem[i] = 0}]
Bug_OverridesOfAll(mem) == [o \in LyOwners |-> Differs(mem, o)]
SavedOver(mem) ==
  [o \in LyOwners |-> IF o \in lyRun THEN Differs(mem, o) ELSE LySanitized(lyDoc, lyOver)[o]]

-----------------------------------------------------------------------------
(***************************************************************************)
(* Starts                                                                  *)
(***************************************************************************)
\* A plugin whose document conflicts with the user's file is left out.
RegisteredDocs(release) ==
  [o \in LyOwners |-> IF \E i \in LyDeclares(release, o) : lyBase[i] # 0 THEN NoItems ELSE release[o]]

\* A decision about an item that another plugin declares now, or none, is nobody's.
Retold(doc) ==
  [i \in LyItems |-> IF \A o \in LyOwners : (lyDoc[o][i] = 0) = (doc[o][i] = 0)
                     THEN lyTold[i] ELSE AnyValue]

LyInit ==
  /\ lyBase = NoItems /\ lyOver = NoOver
  /\ \E r \in LyReleases : lyDoc = RegisteredDocs(r)
  /\ lyRun = {} /\ lyMem = NoItems /\ lyPc = "boot" /\ lyNow = NoItem /\ lyRead = NoLoad
  /\ lyTold = [i \in LyItems |-> Default] /\ lyAside = {}
  /\ lyMishaps = 0

\* What a save makes of decisions: a definition that says what the plugin says is
\* the plugin's.
LyDecided(told, i) ==
  IF /\ told # AnyValue /\ i \in LyDeclared(lyDoc) /\ LyOwner(lyDoc, i) \in lyRun
     /\ lyMem[i] = lyDoc[LyOwner(lyDoc, i)][i]
  THEN Default ELSE told
SaveDecides(told) == [i \in LyItems |-> LyDecided(told[i], i)]

\* The managers are made before any plugin runs, and may save at once
\* (sync_with_directory).  Then plugins start and everything is loaded again.
LySync ==
  /\ lyPc = "boot" /\ ~LyConflict(lyDoc, lyBase)
  /\ lyBase' = SavedBase(lyMem) /\ lyOver' = SavedOver(lyMem)
  /\ UNCHANGED <<lyDoc, lyRun, lyMem, lyPc, lyNow, lyRead, lyTold, lyAside, lyMishaps>>

LyStart ==
  /\ lyPc = "boot" /\ lyRun' \in SUBSET LyOwners
  /\ lyMem' = IF LyConflict(lyDoc, lyBase) THEN lyMem ELSE LyLoaded(lyDoc, lyRun', lyBase)
  /\ lyPc' = "up" /\ lyAside' = IF LyConflict(lyDoc, lyBase) THEN LyItems ELSE {}
  /\ UNCHANGED <<lyDoc, lyBase, lyOver, lyNow, lyRead, lyTold, lyMishaps>>

\* The process ends, between the writes of the two files perhaps, and starts with
\* the releases of the plugins that are installed by then.
LyRestart ==
  /\ lyPc \in {"up", "saving"}
  /\ IF lyPc = "saving" THEN LyMishap ELSE UNCHANGED lyMishaps
  /\ \E r \in LyReleases :
       /\ lyDoc' = RegisteredDocs(r) /\ lyTold' = Retold(lyDoc')
       /\ lyMem' = LyLoaded(lyDoc', {}, lyBase)
  /\ lyRun' = {} /\ lyPc' = "boot" /\ lyNow' = NoItem /\ lyRead' = NoLoad /\ lyAside' = {}
  /\ UNCHANGED <<lyBase, lyOver>>

-----------------------------------------------------------------------------
(***************************************************************************)
(* AgentConfigManager                                                      *)
(***************************************************************************)
\* add_agent, update_agent and delete_agent change memory and save it.  Nothing of
\* an item whose plugin does not run is saved, whatever memory says.
LyChange(i, v) ==
  /\ v # lyMem[i] /\ lyMem' = [lyMem EXCEPT ![i] = v]
  /\ lyRead' = [lyRead EXCEPT !.edited = IF lyRead.on THEN @ \cup {i} ELSE @]
Unowned(i) == i \in LyDeclared(lyDoc) /\ LyOwner(lyDoc, i) \notin lyRun

LyEdit ==
  /\ lyPc = "up" /\ ~LyConflict(lyDoc, lyBase)
  /\ \E i \in LyItems, v \in LyValues \cup {0} :
       /\ LyChange(i, v) /\ lyNow' = i
       /\ lyTold' = IF Unowned(i) THEN lyTold ELSE [lyTold EXCEPT ![i] = AnyValue]
       /\ lyAside' = IF Unowned(i) THEN lyAside \cup {i} ELSE lyAside
  /\ lyBase' = SavedBase(lyMem') /\ lyPc' = "saving"
  /\ UNCHANGED <<lyDoc, lyRun, lyOver, lyMishaps>>

LyEdited ==
  /\ lyPc = "saving" /\ lyOver' = SavedOver(lyMem) /\ lyPc' = "up" /\ lyNow' = NoItem
  /\ lyTold' = SaveDecides(IF Unowned(lyNow) THEN lyTold ELSE [lyTold EXCEPT ![lyNow] = lyMem[lyNow]])
  /\ UNCHANGED <<lyDoc, lyRun, lyBase, lyMem, lyRead, lyAside, lyMishaps>>

\* The save raises: False is returned, and memory keeps the change.
LyEditFails ==
  /\ lyPc = "up"
  /\ IF LyConflict(lyDoc, lyBase) THEN UNCHANGED lyMishaps ELSE LyMishap
  /\ \E i \in LyItems, v \in LyValues \cup {0} :
       LyChange(i, v) /\ lyTold' = [lyTold EXCEPT ![i] = AnyValue]
  /\ UNCHANGED <<lyDoc, lyRun, lyBase, lyOver, lyPc, lyNow, lyAside>>

\* reload
LyReload ==
  /\ lyPc = "up" /\ ~LyConflict(lyDoc, lyBase)
  /\ lyMem' = LyLoaded(lyDoc, lyRun, lyBase) /\ lyAside' = {}
  /\ lyRead' = [lyRead EXCEPT !.edited = IF lyRead.on THEN LyItems ELSE @]
  /\ UNCHANGED <<lyDoc, lyRun, lyBase, lyOver, lyPc, lyNow, lyTold, lyMishaps>>

\* In the watcher's thread the files are read without the lock, and what was read is
\* published with it.
LyReads ==
  /\ lyPc \in {"up", "saving"} /\ ~lyRead.on /\ ~LyConflict(lyDoc, lyBase)
  /\ LyMishap
  /\ lyRead' = [on |-> TRUE, mem |-> LyLoaded(lyDoc, lyRun, lyBase),
                edited |-> IF lyNow = NoItem THEN {} ELSE {lyNow}]
  /\ UNCHANGED <<lyDoc, lyRun, lyBase, lyOver, lyMem, lyPc, lyNow, lyTold, lyAside>>

\* Memory goes back to before an edit that came between: the file has the edit until
\* the next one is saved.
LyPublishes ==
  /\ lyRead.on /\ lyPc = "up"
  /\ lyMem' = lyRead.mem /\ lyRead' = NoLoad
  /\ lyTold' = [i \in LyItems |-> IF i \in lyRead.edited THEN AnyValue ELSE lyTold[i]]
  /\ lyAside' = lyAside \ {i \in LyItems : lyRead.mem[i] = LyLoaded(lyDoc, lyRun, lyBase)[i]}
  /\ UNCHANGED <<lyDoc, lyRun, lyBase, lyOver, lyPc, lyNow, lyMishaps>>

-----------------------------------------------------------------------------
(***************************************************************************)
(* The plugins and the user                                                *)
(***************************************************************************)
\* A plugin fails; memory is loaded again when its dependents have stopped too.
LyStops ==
  /\ lyPc = "up" /\ \E o \in lyRun :
       lyRun' = lyRun \ {o} /\ lyAside' = lyAside \cup LyDeclares(lyDoc, o)
  /\ UNCHANGED <<lyDoc, lyBase, lyOver, lyMem, lyPc, lyNow, lyRead, lyTold, lyMishaps>>

\* The user edits the file: seen when it is loaded, unless a save comes first.
LyByHand ==
  /\ lyPc = "up" /\ LyMishap
  /\ \E i \in LyItems, v \in LyValues \cup {0} :
       /\ lyBase' = [lyBase EXCEPT ![i] = v]
       /\ lyTold' = [lyTold EXCEPT ![i] = AnyValue]
  /\ UNCHANGED <<lyDoc, lyRun, lyOver, lyMem, lyPc, lyNow, lyRead, lyAside>>

LyNext ==
  \/ LySync \/ LyStart \/ LyRestart \/ LyEdit \/ LyEdited \/ LyEditFails \/ LyReload
  \/ LyReads \/ LyPublishes \/ LyStops \/ LyByHand

-----------------------------------------------------------------------------
(***************************************************************************)
(* Properties                                                              *)
(***************************************************************************)
LyTypeOK ==
  /\ lyMem \in [LyItems -> LyValues \cup {0}] /\ lyBase \in [LyItems -> LyValues \cup {0}]
  /\ lyRun \subseteq LyOwners /\ lyPc \in {"boot", "up", "saving"}
  /\ (lyNow = NoItem) = (lyPc # "saving")
  /\ \A o \in LyOwners : lyOver[o].gone \subseteq LyItems
  /\ \A i \in LyItems : lyTold[i] \in LyValues \cup {0, AnyValue, Default}

\* What item i is when decisions are honoured.
Agreed(i) ==
  IF Unowned(i) THEN 0
  ELSE IF lyTold[i] # Default THEN lyTold[i]
  ELSE IF i \in LyDeclared(lyDoc) THEN lyDoc[LyOwner(lyDoc, i)][i] ELSE 0

\* extension_host/resources.py: what a user decided about an agent (another definition,
\* none, or the plugin's own) is what the system shows, while its plugin runs, however
\* often the plugin was off in between, the process restarted, the plugin got a release
\* that says something else, other items were edited or a save failed or was cut short.
\* Not claimed: an item edited while a reload was between reading and publishing, and
\* one edited by hand (AnyValue), and what is not loaded again yet (lyAside).
DecisionsKept ==
  lyPc = "up" => \A i \in LyItems \ lyAside : lyTold[i] # AnyValue => lyMem[i] = Agreed(i)
===============================================================================
