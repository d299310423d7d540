-------------------------------- MODULE Catalog --------------------------------
(***************************************************************************)
(* The catalogues of skills and of rules (skills/ and rules/: manager.py,  *)
(* loader.py, config_manager.py, tools.py; the routes of web/api_routes.py)*)
(* A directory per item, a table of them in memory, and a configuration    *)
(* that is changed in memory and saved whole.  Requests and reloads run on *)
(* the event loop; an agent's tools run in a thread beside it, and between *)
(* any two of their steps the loop may take some of its own.               *)
(*                                                                         *)
(* The flag of an item is what a user decides about it: "set" for a skill  *)
(* that is disabled and for a rule that is only for workflows, "plain"     *)
(* otherwise.  Left out: texts, their checks, the items of plugins, the    *)
(* group every new rule is put in, and the layers of the configuration     *)
(* (LayeredConfig).                                                        *)
(***************************************************************************)
EXTENDS Integers, FiniteSets

CONSTANTS
  CtItems, CtGroups,
  CtMaxOps,    \* bound: requests and calls of tools
  CtMaxMishaps \* bound: saves that fail, and saves of other processes

VARIABLES
  ctRules,  \* the catalogue is the one of rules
  ctDir,    \* items with a directory
  ctMem,    \* the table in memory: "none", and the flag of a skill
  ctCfg, ctDisk, \* the configuration in memory and in its file
  ctLoop,   \* the reload in progress
  ctTool,   \* the call of a tool in progress
  ctTold,   \* history: what the user was last told about each item, "any" when that is moot
  ctWiped,  \* history: items another item's creation took the configuration of
  ctGone,   \* history: groups that were deleted
  ctCount   \* [ops, mishaps]

ctVars == <<ctRules, ctDir, ctMem, ctCfg, ctDisk, ctLoop, ctTool, ctTold, ctWiped, ctGone, ctCount>>

CtIdle == [pc |-> "idle", item |-> 0, group |-> 0, seen |-> {}, beside |-> FALSE]
CtNoConfig == [flag |-> [i \in CtItems |-> "none"], of |-> [i \in CtItems |-> {}], groups |-> {}]

CtInit ==
  /\ ctRules \in BOOLEAN
  /\ ctDir = {} /\ ctMem = [i \in CtItems |-> "none"]
  /\ ctCfg = [CtNoConfig EXCEPT !.groups = CtGroups] /\ ctDisk = ctCfg
  /\ ctLoop = CtIdle /\ ctTool = CtIdle
  /\ ctTold = [i \in CtItems |-> "none"] /\ ctWiped = {} /\ ctGone = {}
  /\ ctCount = [ops |-> 0, mishaps |-> 0]

-----------------------------------------------------------------------------
(***************************************************************************)
(* The configuration                                                       *)
(***************************************************************************)
FlagIn(cfg, i) == IF cfg.flag[i] = "set" THEN "set" ELSE "plain"
CtMishap == ctCount.mishaps < CtMaxMishaps
CtOp == ctCount.ops < CtMaxOps /\ ctCount' = [ctCount EXCEPT !.ops = @ + 1]
CtFails == CtMishap /\ ctCount' = [ctCount EXCEPT !.mishaps = @ + 1, !.ops = @ + 1]
           /\ ctCount.ops < CtMaxOps

\* What a user sees of item i.
CtShown(i) == IF ctMem[i] = "none" THEN "none" ELSE IF ctRules THEN FlagIn(ctCfg, i) ELSE ctMem[i]
Tells(i, said) == ctTold' = [ctTold EXCEPT ![i] = said]

\* sync_with_directory: entries for those that have none; of rules, those of all
\* others are taken for left over and removed.
Bug_EntriesReset(cfg, items) ==
  [cfg EXCEPT !.flag = [i \in CtItems |-> IF i \in items THEN "plain" ELSE @[i]]]
SyncedWith(cfg, items) ==
  [cfg EXCEPT !.flag = [i \in CtItems |-> IF i \in items THEN (IF @[i] = "none" THEN "plain" ELSE @[i])
                                          ELSE IF ctRules THEN "none" ELSE @[i]],
              !.of = [i \in CtItems |-> IF ctRules /\ i \notin items THEN {} ELSE @[i]]]

\* delete_group
Bug_MembersKept(cfg, g) == [cfg EXCEPT !.groups = @ \ {g}]
WithoutGroup(cfg, g) ==
  [cfg EXCEPT !.groups = @ \ {g}, !.of = [i \in CtItems |-> @[i] \ {g}]]

\* remove_skill; remove_rule leaves the flag.
WithoutItem(cfg, i) ==
  [cfg EXCEPT !.flag[i] = IF ctRules THEN @ ELSE "none", !.of[i] = {}]

-----------------------------------------------------------------------------
(***************************************************************************)
(* Requests, each one step of the loop                                     *)
(***************************************************************************)
CtRequest == ctLoop.pc = "idle"
CtMeanwhile == UNCHANGED <<ctRules, ctLoop, ctWiped>>
\* The user is told; a tool in the middle of a call about the item does not know.
Answers(i, said) ==
  /\ Tells(i, said)
  /\ ctTool' = [ctTool EXCEPT !.beside = @ \/ (ctTool.pc # "idle" /\ ctTool.item = i)]

Configured(i, v) == v = FlagIn(ctCfg, i) /\ v = FlagIn(ctDisk, i)

\* POST: the flag asked for is in memory only.  A rule that cannot be saved is refused.
CtCreate ==
  /\ CtRequest /\ CtOp
  /\ \E i \in CtItems, v \in IF ctRules THEN {"plain"} ELSE {"plain", "set"} :
       /\ ctMem[i] = "none" /\ ctDir' = ctDir \cup {i} /\ ctMem' = [ctMem EXCEPT ![i] = v]
       /\ Answers(i, IF Configured(i, v) THEN v ELSE "any")
  /\ CtMeanwhile /\ UNCHANGED <<ctCfg, ctDisk, ctGone>>

\* The same where the file cannot be written: create_skill does not look.
CtCreateFails ==
  /\ CtRequest /\ CtFails /\ ~ctRules
  /\ \E i \in CtItems : ctMem[i] = "none" /\ ctMem' = [ctMem EXCEPT ![i] = "plain"] /\ Answers(i, "any")
  /\ CtMeanwhile /\ UNCHANGED <<ctDir, ctCfg, ctDisk, ctGone>>

\* PUT: of a skill the flag too, in memory only.
CtUpdate ==
  /\ CtRequest /\ CtOp /\ ~ctRules
  /\ \E i \in CtItems, v \in {"plain", "set"} :
       /\ ctMem[i] # "none" /\ ctMem' = [ctMem EXCEPT ![i] = v] /\ ctDir' = ctDir \cup {i}
       /\ Answers(i, IF Configured(i, v) THEN ctTold[i] ELSE "any")
  /\ CtMeanwhile /\ UNCHANGED <<ctCfg, ctDisk, ctGone>>

\* toggle_skill and toggle_rule_workflow_only.
Bug_OnlyShown(v, i) == ctCfg
Flagged(v, i) == [ctCfg EXCEPT !.flag[i] = v]
CtToggle ==
  /\ CtRequest /\ \E i \in CtItems, v \in {"plain", "set"} :
       /\ ctMem[i] # "none"
       /\ ctMem' = IF ctRules THEN ctMem ELSE [ctMem EXCEPT ![i] = v]
       /\ ctCfg' = Flagged(v, i)
       /\ \/ CtOp /\ ctDisk' = ctCfg' /\ Answers(i, IF i \in ctDir THEN v ELSE "any")
          \/ CtFails /\ ctDisk' = ctDisk /\ Answers(i, "any")
  /\ CtMeanwhile /\ UNCHANGED <<ctDir, ctGone>>

\* DELETE: of a skill the configuration stays.
CtDelete ==
  /\ CtRequest /\ CtOp
  /\ \E i \in CtItems :
       /\ ctMem[i] # "none" /\ i \in ctDir
       /\ ctDir' = ctDir \ {i} /\ ctMem' = [ctMem EXCEPT ![i] = "none"] /\ Answers(i, "none")
       /\ ctCfg' = IF ctRules THEN WithoutItem(ctCfg, i) ELSE ctCfg
  /\ ctDisk' = IF ctRules THEN ctCfg' ELSE ctDisk
  /\ CtMeanwhile /\ UNCHANGED ctGone

\* The groups.  A save that fails leaves the change in memory.
CtGroupRequest(cfg) ==
  /\ CtRequest /\ ctCfg' = cfg
  /\ (CtOp /\ ctDisk' = ctCfg') \/ (CtFails /\ ctDisk' = ctDisk)
  /\ CtMeanwhile /\ UNCHANGED <<ctDir, ctMem, ctTool, ctTold>>
CtCreateGroup ==
  \E g \in CtGroups \ ctCfg.groups :
    CtGroupRequest([ctCfg EXCEPT !.groups = @ \cup {g}]) /\ ctGone' = ctGone \ {g}
CtDeleteGroup ==
  \E g \in ctCfg.groups :
    CtGroupRequest(WithoutGroup(ctCfg, g)) /\ ctGone' = IF ctDisk' = ctCfg' THEN ctGone \cup {g} ELSE ctGone
CtSetGroups ==
  \E i \in CtItems, gs \in SUBSET ctCfg.groups :
    ctMem[i] # "none" /\ CtGroupRequest([ctCfg EXCEPT !.of[i] = gs]) /\ UNCHANGED ctGone

-----------------------------------------------------------------------------
(***************************************************************************)
(* A reload: the configuration, the directories, the entries the           *)
(* directories need, and the new table; for rules the table comes first    *)
(***************************************************************************)
\* A tool in the middle of its call and a reload do not know of each other.
CtBeside(tool) == [tool EXCEPT !.beside = @ \/ tool.pc # "idle"]
CtLoopStep(pc, seen) == ctLoop' = [CtIdle EXCEPT !.pc = pc, !.seen = seen]
CtReloading == UNCHANGED <<ctRules, ctDir, ctTold, ctWiped>>

CtReload ==
  /\ CtRequest /\ CtOp /\ ctCfg' = ctDisk /\ CtLoopStep("scan", {})
  /\ ctTool' = CtBeside(ctTool)
  /\ ctGone' = ctGone \ ctDisk.groups
  /\ CtReloading /\ UNCHANGED <<ctMem, ctDisk>>

CtScan ==
  /\ ctLoop.pc = "scan" /\ CtLoopStep("sync", ctDir)
  /\ ctMem' = IF ctRules THEN [i \in CtItems |-> IF i \in ctDir THEN "plain" ELSE "none"] ELSE ctMem
  /\ CtReloading /\ UNCHANGED <<ctCfg, ctDisk, ctTool, ctGone, ctCount>>

CtSync ==
  /\ ctLoop.pc = "sync" /\ CtLoopStep(IF ctRules THEN "idle" ELSE "swap", ctLoop.seen)
  /\ ctCfg' = SyncedWith(ctCfg, ctLoop.seen)
  /\ ctDisk' = IF ctCfg' = ctCfg THEN ctDisk ELSE ctCfg'
  /\ CtReloading /\ UNCHANGED <<ctMem, ctTool, ctGone, ctCount>>

Bug_FlagsLost(i) == "plain"
FlagFromFile(i) == FlagIn(ctCfg, i)
CtSwap ==
  /\ ctLoop.pc = "swap" /\ ctLoop' = CtIdle
  /\ ctMem' = [i \in CtItems |-> IF i \in ctLoop.seen THEN FlagFromFile(i) ELSE "none"]
  /\ CtReloading /\ UNCHANGED <<ctCfg, ctDisk, ctTool, ctGone, ctCount>>

-----------------------------------------------------------------------------
(***************************************************************************)
(* The tools of an agent                                                   *)
(***************************************************************************)
ToolBegins(pc, i, g) ==
  /\ ctTool.pc = "idle" /\ CtOp
  /\ ctTool' = [CtIdle EXCEPT !.pc = pc, !.item = i, !.group = g, !.beside = ctLoop.pc # "idle"]
ToolGoesOn(pc) == ctTool' = [ctTool EXCEPT !.pc = pc]
ToolAlone == UNCHANGED <<ctRules, ctLoop>>

\* The call returns; what it says is moot when a reload came beside it.
ToolReturns(said) ==
  /\ ctTool' = CtIdle
  /\ Tells(ctTool.item, IF ctTool.beside \/ ctTold[ctTool.item] = "any" THEN "any" ELSE said)

\* create: the directory and the table, then sync_with_directory of this one name,
\* then the flag of a skill.
CtToolCreates ==
  /\ \E i \in CtItems :
       /\ ctMem[i] = "none" /\ ToolBegins("created", i, 0)
       /\ ctDir' = ctDir \cup {i} /\ ctMem' = [ctMem EXCEPT ![i] = "plain"]
       /\ Tells(i, IF FlagIn(ctCfg, i) = FlagIn(ctDisk, i) THEN "plain" ELSE "any")
  /\ ToolAlone /\ UNCHANGED <<ctCfg, ctDisk, ctWiped, ctGone>>

CtToolSyncs ==
  /\ ctTool.pc = "created"
  /\ ctCfg' = SyncedWith(ctCfg, {ctTool.item})
  /\ ctDisk' = IF ctCfg' = ctCfg THEN ctDisk ELSE ctCfg'
  /\ ctWiped' = ctWiped \cup {i \in CtItems : ctRules /\ i # ctTool.item /\ ctCfg'.flag[i] # ctCfg.flag[i]}
  /\ IF ctRules THEN ToolReturns(FlagIn(ctCfg', ctTool.item)) ELSE ToolGoesOn("synced") /\ UNCHANGED ctTold
  /\ ToolAlone /\ UNCHANGED <<ctDir, ctMem, ctGone, ctCount>>

CtToolEnables ==
  /\ ctTool.pc = "synced" /\ ctCfg' = [ctCfg EXCEPT !.flag[ctTool.item] = "plain"]
  /\ ToolGoesOn("save") /\ ToolAlone /\ UNCHANGED <<ctDir, ctMem, ctDisk, ctTold, ctWiped, ctGone, ctCount>>

\* What _set_skill_config and remove_skill changed is saved a step later.
CtToolSaves ==
  /\ ctTool.pc = "save"
  /\ \/ ToolReturns(ctTold[ctTool.item]) /\ ctDisk' = ctCfg /\ UNCHANGED <<ctCount, ctGone>>
     \/ /\ CtMishap /\ ToolReturns("any") /\ ctCount' = [ctCount EXCEPT !.mishaps = @ + 1]
        /\ ctDisk' = ctDisk /\ ctGone' = {}
  /\ ToolAlone /\ UNCHANGED <<ctDir, ctMem, ctCfg, ctWiped>>

\* edit and patch: a skill that was disabled is enabled in memory.
CtToolEdits ==
  /\ \E i \in CtItems :
       /\ ctMem[i] # "none" /\ i \in ctDir /\ ToolBegins("edited", i, 0)
  /\ ToolAlone /\ UNCHANGED <<ctDir, ctMem, ctCfg, ctDisk, ctTold, ctWiped, ctGone>>
CtToolShows ==
  /\ ctTool.pc = "edited" /\ ctMem' = [ctMem EXCEPT ![ctTool.item] = "plain"]
  /\ ToolReturns(IF ctRules \/ ctTold[ctTool.item] = "plain" THEN ctTold[ctTool.item] ELSE "any")
  /\ ToolAlone /\ UNCHANGED <<ctDir, ctCfg, ctDisk, ctWiped, ctGone, ctCount>>

\* delete: the directory and the table, then the configuration.
CtToolDeletes ==
  /\ \E i \in CtItems :
       /\ ctMem[i] # "none" /\ i \in ctDir /\ ToolBegins("deleted", i, 0)
       /\ ctDir' = ctDir \ {i} /\ ctMem' = [ctMem EXCEPT ![i] = "none"] /\ Tells(i, "none")
  /\ ToolAlone /\ UNCHANGED <<ctCfg, ctDisk, ctWiped, ctGone>>
CtToolForgets ==
  /\ ctTool.pc = "deleted" /\ ctCfg' = WithoutItem(ctCfg, ctTool.item)
  /\ ToolGoesOn("save") /\ ToolAlone /\ UNCHANGED <<ctDir, ctMem, ctDisk, ctTold, ctWiped, ctGone, ctCount>>

\* add_to_group and remove_from_group: looked up, then set.
CtToolFindsGroup ==
  /\ \E i \in CtItems, g \in ctCfg.groups : ctMem[i] # "none" /\ ToolBegins("group", i, g)
  /\ ToolAlone /\ UNCHANGED <<ctDir, ctMem, ctCfg, ctDisk, ctTold, ctWiped, ctGone>>
CtToolGroups ==
  /\ ctTool.pc = "group"
  /\ \E gs \in {ctCfg.of[ctTool.item] \cup {ctTool.group}, ctCfg.of[ctTool.item] \ {ctTool.group}} :
       ctCfg' = [ctCfg EXCEPT !.of[ctTool.item] = gs]
  /\ ctGone' = ctGone \ {ctTool.group} \* deleted in between: back among the item's
  /\ ToolGoesOn("save") /\ ToolAlone /\ UNCHANGED <<ctDir, ctMem, ctDisk, ctTold, ctWiped, ctCount>>

-----------------------------------------------------------------------------
(***************************************************************************)
(* The process starts again, and an executor, which has its own copy since *)
(* it started, saves it                                                    *)
(***************************************************************************)
CtRestart ==
  /\ ctLoop.pc = "idle" /\ ctTool.pc = "idle" /\ CtOp
  /\ ctCfg' = SyncedWith(ctDisk, ctDir) /\ ctDisk' = ctCfg'
  /\ ctMem' = [i \in CtItems |-> IF i \notin ctDir THEN "none" ELSE IF ctRules THEN "plain" ELSE FlagIn(ctCfg', i)]
  /\ ctGone' = ctGone \ ctDisk.groups
  /\ UNCHANGED <<ctRules, ctDir, ctLoop, ctTool, ctTold, ctWiped>>

CtOther ==
  /\ ctCount.mishaps < CtMaxMishaps /\ ctCount' = [ctCount EXCEPT !.mishaps = @ + 1]
  /\ ctDisk' = [CtNoConfig EXCEPT !.groups = CtGroups]
  /\ ctTold' = [i \in CtItems |-> "any"] /\ ctGone' = {}
  /\ UNCHANGED <<ctRules, ctDir, ctMem, ctCfg, ctLoop, ctTool, ctWiped>>

CtNext ==
  \/ CtCreate \/ CtCreateFails \/ CtUpdate \/ CtToggle \/ CtDelete
  \/ CtCreateGroup \/ CtDeleteGroup \/ CtSetGroups
  \/ CtReload \/ CtScan \/ CtSync \/ CtSwap
  \/ CtToolCreates \/ CtToolSyncs \/ CtToolEnables \/ CtToolSaves
  \/ CtToolEdits \/ CtToolShows \/ CtToolDeletes \/ CtToolForgets
  \/ CtToolFindsGroup \/ CtToolGroups \/ CtRestart \/ CtOther

-----------------------------------------------------------------------------
(***************************************************************************)
(* Properties                                                              *)
(***************************************************************************)
CtTypeOK ==
  /\ ctDir \subseteq CtItems /\ ctMem \in [CtItems -> {"none", "plain", "set"}]
  /\ ctCfg.groups \subseteq CtGroups /\ ctDisk.groups \subseteq CtGroups
  /\ \A i \in CtItems : ctTold[i] \in {"none", "plain", "set", "any"}
  /\ ctRules => ctLoop.pc # "swap" /\ \A i \in CtItems : ctMem[i] # "set"

\* skills/manager.py, rules/manager.py: what item i is in memory, in its directory and
\* in the file is what its user was told last.
AsTold(i) ==
  ctTold[i] # "any" =>
    /\ CtShown(i) = ctTold[i]
    /\ (i \in ctDir) = (ctTold[i] # "none")
    /\ ctTold[i] # "none" => FlagIn(ctDisk, i) = ctTold[i]
CtQuiet == ctLoop.pc = "idle" /\ ctTool.pc = "idle"

\* Between requests a decision about an item holds, through reloads and restarts and
\* whatever happened to other items in between; and no item is in a group that was
\* deleted.  Not claimed: what a call of a tool and a reload beside it, a save that
\* failed or another process' copy did (ctTold is "any"), the flag of a skill that was
\* created, updated or edited with another one than it is configured with, a skill
\* whose file could not be written, and the
\* rules whose configuration the creation of another one took (ctWiped).
CatalogKept ==
  CtQuiet => /\ \A i \in CtItems \ ctWiped : AsTold(i)
             /\ \A i \in CtItems : ctCfg.of[i] \cap ctGone = {}

\* rules/tools.py: creating a rule leaves what was decided about the others.
OthersKept == CtQuiet => \A i \in CtItems : AsTold(i)
===============================================================================
