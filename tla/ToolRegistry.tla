------------------------------ MODULE ToolRegistry ------------------------------
(***************************************************************************)
(* The registry of tools (tools/registry.py) and who registers in it: the  *)
(* servers of the MCP client (mcp/client.py), connected one after another, *)
(* the core itself (register_all_tool_factories), and the extensions,      *)
(* through the facade that names them as owners (extension_host/).  Tools  *)
(* belong to groups; users make, rename and delete groups and a file keeps *)
(* them.  Sessions hold instances of tools, which outlive registrations.   *)
(*                                                                         *)
(* Left out: descriptions and parameters, what a tool does when it runs,   *)
(* and which of the tools the definition of an agent selects.              *)
(***************************************************************************)
EXTENDS Integers, FiniteSets, Sequences

CONSTANTS
  TgNames,    \* names of tools
  TgCore,     \* those of the core
  TgCoding,   \* those of the core that no server's tool takes
  TgServers,  \* servers, in the order of the configuration
  TgOffers,   \* what they may offer: server -> sequence of names
  TgExts,     \* extensions, in the order they start
  TgNeeds,    \* the extensions each needs
  TgBrings,   \* what each contributes: [group, lists, tools], its group's id, what that lists, its tools
  TgGroups,   \* ids of groups
  TgFiles,    \* the groups the file may have at first
  TgMaxOps,   \* bound: requests of users, calls and restarts
  TgMaxMishaps \* bound: servers that do not connect, saves and extensions that fail

TgServerIds == {TgServers[i] : i \in DOMAIN TgServers}
TgExtIds == {TgExts[i] : i \in DOMAIN TgExts}
ASSUME TgAssumption ==
  /\ TgCoding \subseteq TgCore /\ TgCore \subseteq TgNames
  /\ TgServers \in Seq(TgServerIds) /\ TgExts \in Seq(TgExtIds)
  /\ TgServerIds \cap TgExtIds = {} /\ {"", "core"} \cap (TgServerIds \cup TgExtIds) = {}
  /\ "default" \in TgGroups /\ "" \notin TgGroups /\ TgGroups \cap TgNames = {}
  /\ \A e \in TgExtIds : TgBrings[e].group \in TgGroups /\ TgBrings[e].lists \subseteq TgNames
  /\ \A f \in TgFiles :
       /\ f \in [TgGroups -> [owner : {""} \cup TgExtIds, lists : SUBSET TgNames, name : 0..2]]
       /\ \A g \in TgGroups : /\ f[g].name = 0 => f[g].owner = "" /\ f[g].lists = {}
                              /\ f[g].owner # "" => TgBrings[f[g].owner].group = g

VARIABLES
  tgOffer,  \* what the servers offer
  tgPc,     \* "servers", "extensions", "up", "off", and where the program starts from: "start"
  tgTurn,   \* the server or extension whose turn it is
  tgTodo,   \* what that extension has yet to contribute: names of tools, and its group
  tgLinked, \* servers in connections
  tgRoute,  \* the client's server of each tool, "" for none
  tgReg,    \* the registry's entry of each tool: [owner, group]
  tgMem, tgFile, \* groups in memory and in the file: id -> [owner, lists, name], name 0 for none
  tgRead,   \* the file is "good", "missing" or "torn"
  tgMap,    \* the group each tool is mapped to, "" for none
  tgExt,    \* state of each extension
  tgHeld,   \* instances sessions hold: [tool, owner]
  tgAsked,  \* history: the name the user last gave each group, 0 for none, -1 when that is moot
  tgStray,  \* history: an instance ran though its owner is gone
  tgCount   \* [ops, mishaps]

tgStart == <<tgPc, tgTurn, tgTodo>>
tgGrouping == <<tgMem, tgFile, tgRead, tgMap, tgAsked>>
tgVars == <<tgOffer, tgStart, tgLinked, tgRoute, tgReg, tgGrouping, tgExt, tgHeld, tgStray, tgCount>>

NoTool == [owner |-> "", group |-> ""]
NoGroup == [owner |-> "", lists |-> {}, name |-> 0]
NoGroups == [g \in TgGroups |-> NoGroup]
TgBegin(pc) == tgPc' = pc /\ tgTurn' = 1 /\ tgTodo' = {}
MapOf(groups) ==
  [t \in TgNames |-> IF \E g \in TgGroups : t \in groups[g].lists
                     THEN CHOOSE g \in TgGroups : t \in groups[g].lists ELSE ""]

\* A group is the user's unless an extension contributed it.
GivenName(groups, g) == IF groups[g].owner = "" THEN groups[g].name ELSE 0

TgInit ==
  /\ tgOffer \in TgOffers /\ tgPc = "start" /\ tgTurn = 1 /\ tgTodo = {}
  /\ tgFile \in TgFiles /\ tgRead \in {"good", "missing", "torn"} /\ (tgRead # "good" => tgFile = NoGroups)
  /\ tgMem = NoGroups /\ tgMap = MapOf(NoGroups)
  /\ tgAsked = [g \in TgGroups |-> IF tgRead = "good" THEN GivenName(tgFile, g) ELSE -1]
  /\ tgLinked = {} /\ tgRoute = [t \in TgNames |-> ""] /\ tgReg = [t \in TgNames |-> NoTool]
  /\ tgExt = [e \in {TgExts[i] : i \in DOMAIN TgExts} |-> "loaded"]
  /\ tgHeld = {} /\ tgStray = FALSE /\ tgCount = [ops |-> 0, mishaps |-> 0]

TgOp == tgCount.ops < TgMaxOps /\ tgCount' = [tgCount EXCEPT !.ops = @ + 1]
TgMishap == tgCount.mishaps < TgMaxMishaps /\ tgCount' = [tgCount EXCEPT !.mishaps = @ + 1]

-----------------------------------------------------------------------------
(***************************************************************************)
(* The servers                                                             *)
(***************************************************************************)
\* connect_all reads the configuration and takes the servers one by one.
TgBoot ==
  /\ tgPc = "start" /\ TgBegin("servers")
  /\ UNCHANGED <<tgOffer, tgLinked, tgRoute, tgReg, tgGrouping, tgExt, tgHeld, tgStray, tgCount>>

TgServer == TgServers[tgTurn]
TgServerTurn == tgPc = "servers" /\ tgTurn <= Len(TgServers) /\ tgTurn' = tgTurn + 1 /\ UNCHANGED <<tgPc, tgTodo>>
TgBesideServers == UNCHANGED <<tgOffer, tgReg, tgGrouping, tgExt, tgHeld, tgStray>>

\* refresh_tools: the tools before the first whose name is taken; then it raises, and
\* the server stays connected.
Offered(s) == {tgOffer[s][i] : i \in {j \in DOMAIN tgOffer[s] : \A k \in 1..j : tgRoute[tgOffer[s][k]] = ""}}
TgConnects ==
  /\ TgServerTurn
  /\ tgLinked' = tgLinked \cup {TgServer}
  /\ tgRoute' = [t \in TgNames |-> IF t \in Offered(TgServer) THEN TgServer ELSE tgRoute[t]]
  /\ TgBesideServers /\ UNCHANGED tgCount

\* A server that does not start, or not in time, is skipped.
TgSkips == TgServerTurn /\ TgMishap /\ TgBesideServers /\ UNCHANGED <<tgLinked, tgRoute>>

-----------------------------------------------------------------------------
(***************************************************************************)
(* The registry is filled                                                  *)
(***************************************************************************)
Entry(t, owner) == [owner |-> owner, group |-> tgMap'[t]]
TgTaken(t, owner) == tgReg[t].owner \notin {"", owner}

\* _load_groups_config
TgLoaded ==
  CASE tgRead = "good" -> tgFile
    [] tgRead = "missing" -> [NoGroups EXCEPT !["default"].name = 1]
    [] tgRead = "torn" -> NoGroups

\* register_all_tool_factories: the servers' tools, then the core's; a server's tool
\* with a name of the core's ends the start.
FromServers == {t \in TgNames \ TgCoding : tgRoute[t] # ""}
TgRegisters ==
  /\ tgPc = "servers" /\ tgTurn > Len(TgServers)
  /\ tgMem' = TgLoaded /\ tgMap' = MapOf(tgMem')
  /\ tgReg' = [t \in TgNames |-> IF t \in FromServers THEN Entry(t, tgRoute[t])
                                 ELSE IF t \in TgCore THEN Entry(t, "core") ELSE NoTool]
  /\ TgBegin(IF FromServers \cap TgCore = {} THEN "extensions" ELSE "off")
  /\ UNCHANGED <<tgOffer, tgLinked, tgRoute, tgFile, tgRead, tgAsked, tgExt, tgHeld, tgStray, tgCount>>

-----------------------------------------------------------------------------
(***************************************************************************)
(* Extensions                                                              *)
(***************************************************************************)
TgExtension == TgExts[tgTurn]
TgIds == DOMAIN tgExt
InOrder == tgPc = "extensions" /\ tgTurn <= Len(TgExts)
TgNextTurn == tgTurn' = tgTurn + 1 /\ tgTodo' = {} /\ UNCHANGED tgPc
TgBesideExts == UNCHANGED <<tgOffer, tgLinked, tgRoute, tgFile, tgRead, tgAsked, tgStray>>
TgUnregistered == UNCHANGED <<tgReg, tgMem, tgMap>>

\* unregister_owner
GroupsGo(owners) ==
  /\ tgMem' = [g \in TgGroups |-> IF tgMem[g].owner \in owners THEN NoGroup ELSE tgMem[g]]
  /\ tgMap' = [t \in TgNames |-> IF tgMap[t] # "" /\ tgMem[tgMap[t]].owner \in owners THEN "" ELSE tgMap[t]]
Bug_ToolsStay(owners) == GroupsGo(owners) /\ UNCHANGED tgReg
Unregisters(owners) ==
  /\ tgReg' = [t \in TgNames |-> IF tgReg[t].owner \in owners THEN NoTool ELSE tgReg[t]]
  /\ GroupsGo(owners)

\* Its turn: blocked when one it needs does not run; else its code runs, which may fail.
TgStarts ==
  /\ InOrder /\ tgExt[TgExtension] = "loaded"
  /\ IF \A d \in TgNeeds[TgExtension] : tgExt[d] = "running"
     THEN /\ tgExt' = [tgExt EXCEPT ![TgExtension] = "starting"]
          /\ tgTodo' = TgBrings[TgExtension].tools \cup {TgBrings[TgExtension].group}
          /\ UNCHANGED <<tgPc, tgTurn>>
     ELSE tgExt' = [tgExt EXCEPT ![TgExtension] = "blocked"] /\ TgNextTurn
  /\ TgUnregistered /\ TgBesideExts /\ UNCHANGED <<tgHeld, tgCount>>

\* register_group and register, in the order its contributor chooses.
GroupClash(g, lists) == tgMem[g].name # 0 \/ \E t \in lists : tgMap[t] # ""
ContributesGroup ==
  LET e == TgExtension
      g == TgBrings[e].group
      lists == TgBrings[e].lists
  IN /\ g \in tgTodo /\ ~GroupClash(g, lists)
     /\ tgMem' = [tgMem EXCEPT ![g] = [owner |-> e, lists |-> lists, name |-> 1]]
     /\ tgMap' = [t \in TgNames |-> IF t \in lists THEN g ELSE tgMap[t]]
     /\ tgTodo' = tgTodo \ {g} /\ UNCHANGED tgReg
ContributesTool ==
  \E t \in tgTodo \cap TgNames :
    /\ ~TgTaken(t, TgExtension)
    /\ tgMap' = tgMap /\ tgReg' = [tgReg EXCEPT ![t] = Entry(t, TgExtension)]
    /\ tgTodo' = tgTodo \ {t} /\ UNCHANGED tgMem
TgContributes ==
  /\ InOrder /\ tgExt[TgExtension] \in {"starting", "blocked"} /\ tgTodo # {}
  /\ ContributesGroup \/ ContributesTool
  /\ TgBesideExts /\ UNCHANGED <<tgPc, tgTurn, tgExt, tgHeld, tgCount>>

\* A clash, or an error of its own code: what it registered goes.  One that was blocked
\* meanwhile is cleaned up too, and stays blocked.
Clash ==
  \E c \in tgTodo : IF c \in TgNames THEN TgTaken(c, TgExtension) ELSE GroupClash(c, TgBrings[TgExtension].lists)
TgStartEnds ==
  /\ InOrder /\ tgExt[TgExtension] \in {"starting", "blocked"} /\ TgNextTurn
  /\ \/ /\ tgTodo = {} /\ tgExt[TgExtension] = "starting"
        /\ tgExt' = [tgExt EXCEPT ![TgExtension] = "running"] /\ TgUnregistered /\ UNCHANGED tgCount
     \/ /\ tgTodo = {} /\ tgExt[TgExtension] = "blocked"
        /\ Unregisters({TgExtension}) /\ UNCHANGED <<tgExt, tgCount>>
     \/ /\ (Clash /\ UNCHANGED tgCount) \/ TgMishap
        /\ Unregisters({TgExtension}) /\ tgExt' = [tgExt EXCEPT ![TgExtension] = "degraded"]
  /\ TgBesideExts /\ UNCHANGED tgHeld

\* A process of an extension that runs ends: those that run and need it stop with it,
\* one that starts is blocked, and finds out when it has contributed.
Needing(e) == {d \in TgIds : e \in TgNeeds[d]}
TgFails ==
  /\ tgPc \in {"extensions", "up"} /\ TgMishap
  /\ \E e \in TgIds :
       /\ tgExt[e] = "running"
       /\ Unregisters({e} \cup {d \in Needing(e) : tgExt[d] = "running"})
       /\ tgExt' = [d \in TgIds |-> IF d = e THEN "degraded"
                                    ELSE IF d \in Needing(e) /\ tgExt[d] \in {"starting", "running"} THEN "blocked"
                                    ELSE tgExt[d]]
  /\ TgBesideExts /\ UNCHANGED <<tgStart, tgHeld>>

-----------------------------------------------------------------------------
(***************************************************************************)
(* Sessions                                                                *)
(***************************************************************************)
TgServing ==
  /\ tgPc = "extensions" /\ tgTurn > Len(TgExts) /\ TgBegin("up")
  /\ TgUnregistered /\ TgBesideExts /\ UNCHANGED <<tgExt, tgHeld, tgCount>>

\* instantiate_all: an instance of each tool there is.
Instances == {[tool |-> t, owner |-> tgReg[t].owner] : t \in {n \in TgNames : tgReg[n].owner # ""}}
TgInstantiates ==
  /\ tgPc = "up" /\ TgOp /\ tgHeld' = tgHeld \cup Instances
  /\ TgUnregistered /\ TgBesideExts /\ UNCHANGED <<tgStart, tgExt>>

\* _guard_non_core_tool: a call runs while the tool is still its owner's.
Bug_ByName(h) == h.owner = "core" \/ h.tool \in TgNames
RunsFor(h) == h.owner = "core" \/ tgReg[h.tool].owner = h.owner
OwnerUp(owner) ==
  \/ owner = "core" \/ owner \in tgLinked
  \/ owner \in TgIds /\ tgExt[owner] = "running"
TgCalls ==
  /\ tgPc = "up"
  /\ \E h \in tgHeld : RunsFor(h) /\ tgStray' = (tgStray \/ ~OwnerUp(h.owner))
  /\ UNCHANGED <<tgOffer, tgStart, tgLinked, tgRoute, tgReg, tgGrouping, tgExt, tgHeld, tgCount>>

-----------------------------------------------------------------------------
(***************************************************************************)
(* Users and groups                                                        *)
(***************************************************************************)
TgUser == tgPc = "up" /\ UNCHANGED <<tgOffer, tgStart, tgLinked, tgRoute, tgReg, tgExt, tgHeld, tgStray>>

\* _save_config writes all groups.  Where it fails the change is taken back.
Bug_NotTakenBack(mem) == mem
TakenBack(mem) == tgMem
TgSaves(mem, asked) ==
  \/ /\ TgOp /\ tgMem' = mem /\ tgFile' = mem /\ tgRead' = "good" /\ tgAsked' = asked
  \/ /\ TgMishap /\ tgMem' = TakenBack(mem) /\ UNCHANGED <<tgFile, tgRead, tgAsked>>
\* What the file said is moot once it is written over unread.
NameAsked(g, name) ==
  [h \in TgGroups |-> IF h = g /\ tgMem[g].owner = "" THEN name
                      ELSE IF tgRead = "good" THEN tgAsked[h] ELSE GivenName(tgMem, h)]

TgAddGroup ==
  /\ TgUser /\ \E g \in TgGroups :
       /\ tgMem[g].name = 0 /\ TgSaves([tgMem EXCEPT ![g].name = 1], NameAsked(g, 1))
  /\ UNCHANGED tgMap

TgUpdateGroup ==
  /\ TgUser /\ \E g \in TgGroups :
       /\ tgMem[g].name = 1 /\ TgSaves([tgMem EXCEPT ![g].name = 2], NameAsked(g, 2))
  /\ UNCHANGED tgMap

\* Only when no tool is mapped to it.
TgDeleteGroup ==
  /\ TgUser /\ \E g \in TgGroups :
       /\ tgMem[g].name # 0 /\ \A t \in TgNames : tgMap[t] # g
       /\ TgSaves([tgMem EXCEPT ![g] = NoGroup], NameAsked(g, 0))
  /\ UNCHANGED tgMap

-----------------------------------------------------------------------------
(***************************************************************************)
(* The program ends, in order or not, and starts again with the file       *)
(***************************************************************************)
TgRestart ==
  /\ tgPc \in {"servers", "extensions", "up"} /\ TgOp
  /\ TgBegin("start") /\ tgLinked' = {} /\ tgRoute' = [t \in TgNames |-> ""]
  /\ tgReg' = [t \in TgNames |-> NoTool] /\ tgMem' = NoGroups /\ tgMap' = MapOf(NoGroups)
  /\ tgExt' = [e \in TgIds |-> "loaded"] /\ tgHeld' = {}
  /\ UNCHANGED <<tgOffer, tgFile, tgRead, tgAsked, tgStray>>

TgNext ==
  \/ TgBoot \/ TgConnects \/ TgSkips \/ TgRegisters
  \/ TgStarts \/ TgContributes \/ TgStartEnds \/ TgFails
  \/ TgServing \/ TgInstantiates \/ TgCalls
  \/ TgAddGroup \/ TgUpdateGroup \/ TgDeleteGroup \/ TgRestart

-----------------------------------------------------------------------------
(***************************************************************************)
(* Properties                                                              *)
(***************************************************************************)
TgTypeOK ==
  /\ tgPc \in {"start", "servers", "extensions", "up", "off"} /\ tgTurn \in 1..(Len(TgServers) + Len(TgExts) + 1)
  /\ \A t \in TgNames : tgMap[t] \in TgGroups \cup {""}
  /\ \A g \in TgGroups : tgMem[g].name \in 0..2 /\ tgFile[g].name \in 0..2
  /\ \A e \in TgIds : tgExt[e] \in {"loaded", "starting", "running", "blocked", "degraded"}

\* registry.py, unregister_owner and _guard_non_core_tool: outside the contribution of
\* an extension every registered tool has an owner that is up, a server's is routed to
\* it, and no instance a session kept ran without its owner.
NoStrangers ==
  /\ \A t \in TgNames : LET o == tgReg[t].owner IN
       /\ o # "" => OwnerUp(o) \/ (InOrder /\ o = TgExtension)
       /\ o \in tgLinked => tgRoute[t] = o
  /\ ~tgStray

\* registry.py, the groups: what the user was told of them is so in memory and in the
\* file, through failed saves, restarts and whatever extensions came and went; and no
\* tool is shown in a group of the user's that is not there.  Not claimed: groups of
\* extensions, which a save writes to the file too, and a file that could not be read.
GroupsAsTold ==
  tgPc = "up" =>
    /\ \A g \in TgGroups : tgAsked[g] # -1 => GivenName(tgMem, g) = tgAsked[g] /\ GivenName(tgFile, g) = tgAsked[g]
    /\ \A t \in TgNames : LET g == tgReg[t].group IN
         g # "" /\ tgMem[g].name = 0 => \E e \in TgIds : TgBrings[e].group = g

ToolsKept == NoStrangers /\ GroupsAsTold
===============================================================================
