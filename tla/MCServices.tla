------------------------------ MODULE MCServices ------------------------------
(***************************************************************************)
(* The components around the workflow system, checked side by side: a      *)
(* behaviour belongs to one of them, chosen at the beginning, and the      *)
(* state of the others stays as it is.                                     *)
(* Their names carry the prefix of their module, so that one run reaches   *)
(* them all.                                                               *)
(***************************************************************************)
EXTENDS Roundtable, ModelContext, AgentSession, SessionStore, EventStream,
        ExtensionHost, PluginStore, CronJobs, LayeredConfig, Catalog, ToolRegistry,
        CodingTools, Models

CONSTANT Parts \* the components the run explores

VARIABLE part

vars == <<part, rtVars, cxVars, asVars, stVars, evVars, exVars, plVars, crVars,
          lyVars, ctVars, tgVars, cgVars, mdVars>>

\* A chain, two dependents of one extension, and one extension with two dependencies.
Chain == <<{}, {1}, {2}, {3}>>
ExtensionGraphs == {Chain, <<{}, {}, {1}, {2}>>, <<{}, {1}, {1}, {2, 3}>>}

\* One plugin needs the other; prefixes meet; the setting becomes a secret.
PluginAbout ==
  [p \in PlPlugins |-> [r \in PlRevs |->
     [prefix |-> IF p = "base" /\ r = 1 THEN NoPrefix ELSE "x",
      deps |-> IF p = "tool" THEN {"base"} ELSE {}, secret |-> r = 2]]]

\* An interval that repeats, a job for one time, and an expression.
CronKinds == <<"interval", "once", "cron">>
CronEvery == <<2, 3, 3>>
CronRepeat == <<2, 0, 0>>

\* What the plugins say of agent x, from release to release; none of them of y.
NoDocuments == [o \in LyOwners |-> NoItems]
AgentReleases == [LyOwners -> {[i \in LyItems |-> IF i = "x" THEN v ELSE 0] : v \in 0..2}]

\* Two servers of which one takes a name of the other, one a coding tool's, one a name
\* of the core; an extension, and one that needs it and takes a server's name.
ToolServers == <<"s1", "s2">>
OneTool == [s1 |-> <<"read", "m">>, s2 |-> <<>>]
ToolOffers == {OneTool, [s1 |-> <<"m">>, s2 |-> <<"n", "m">>], [s1 |-> <<"list">>, s2 |-> <<>>]}
ToolExtensions == <<"x1", "x2">>
ToolNeeds == [x1 |-> {}, x2 |-> {"x1"}]
ToolsBrought == [x1 |-> [group |-> "xg", lists |-> {"xt"}, tools |-> {"xt"}],
                 x2 |-> [group |-> "yg", lists |-> {"list", "yt"}, tools |-> {"yt", "n"}]]
GroupFiles == {NoGroups, [NoGroups EXCEPT !["default"] = [owner |-> "", lists |-> {"m"}, name |-> 1]]}

\* An edit, one of three blocks of which the second looks for the text of the first and
\* the third for the other's, and a whole write; a command to approve and one free.
CallKinds == <<"edit", "edit", "write", "command", "free">>
FirstText == {<<0, 0>>}
CallLooks == <<<<<<0, 0>>>>, <<<<0, 0>>, <<2, <<0, 0>>>>, <<1, <<0, 0>>>>>>, <<>>, <<>>, <<>>>>

\* Providers of three types; one that an old template brought, one of an old file.
NewProvider == [id |-> "a", type |-> "plain", key |-> "k1", models |-> <<"m">>, types |-> MdNone, sets |-> {"max"}, form |-> "new"]
ClaudeProvider == [NewProvider EXCEPT !.id = "b", !.type = "claude", !.models = <<"n", "m">>, !.types = <<"m", "plain">>, !.sets = {"max", "freq"}]
OldTemplate == [NewProvider EXCEPT !.id = "t", !.key = "env", !.form = "template"]
ProviderRecords == {NewProvider, ClaudeProvider, [ClaudeProvider EXCEPT !.key = "", !.type = "plain", !.models = <<"n">>]}
ProviderFiles == {<<>>, <<OldTemplate, [ClaudeProvider EXCEPT !.form = "old"]>>}
ProviderSettings == [plain |-> {"max"}, claude |-> {"max"}, mimo |-> {"max", "freq"}]
ProviderFormat == [plain |-> "openai", claude |-> "anthropic", mimo |-> "openai"]
ModelWants == {[model |-> MdNone, budget |-> ""], [model |-> <<"b", "n">>, budget |-> "small"], [model |-> <<"", "m">>, budget |-> ""]}
ModelErrors == {[is |-> "bad", code |-> "", status |-> 400], [is |-> "invalid", code |-> "", status |-> 0],
                [is |-> "other", code |-> "quota", status |-> 429]}

\* Where a component may start in several ways the others fix one.
Init ==
  /\ part \in Parts
  /\ RtInit /\ CxInit /\ EvInit /\ PlInit /\ CrInit
  /\ AsInit /\ (part # "session" => asMain)
  /\ StInit /\ (part # "store" => \A s \in StSessions : stReg[s] = 0)
  /\ ExInit /\ (part # "extensions" => exDeps = Chain /\ exBroken = {})
  /\ LyInit /\ (part # "layers" => lyDoc = NoDocuments)
  /\ TgInit /\ (part # "tools" => tgOffer = OneTool /\ tgFile = NoGroups /\ tgRead = "good")
  /\ CgInit /\ (part # "coding" => cgPc[4] = "over")
  /\ MdInit /\ (mdFile = <<>> => mdEnv) /\ (part # "models" => mdFile = <<>>)
  /\ CtInit /\ (part # "catalog" => ctRules)

\* A step of one part leaves the others as they are.
Step(p, A) ==
  /\ part = p /\ A /\ UNCHANGED part
  /\ p # "meeting" => UNCHANGED rtVars
  /\ p # "context" => UNCHANGED cxVars
  /\ p # "session" => UNCHANGED asVars
  /\ p # "store" => UNCHANGED stVars
  /\ p # "events" => UNCHANGED evVars
  /\ p # "extensions" => UNCHANGED exVars
  /\ p # "plugins" => UNCHANGED plVars
  /\ p # "cron" => UNCHANGED crVars
  /\ p # "layers" => UNCHANGED lyVars
  /\ p # "catalog" => UNCHANGED ctVars
  /\ p # "tools" => UNCHANGED tgVars
  /\ p # "coding" => UNCHANGED cgVars
  /\ p # "models" => UNCHANGED mdVars

Next ==
  \/ Step("meeting", RtNext) \/ Step("context", CxNext) \/ Step("session", AsNext)
  \/ Step("store", StNext) \/ Step("events", EvNext) \/ Step("extensions", ExNext)
  \/ Step("plugins", PlNext) \/ Step("cron", CrNext)
  \/ Step("layers", LyNext) \/ Step("catalog", CtNext)
  \/ Step("tools", TgNext)
  \/ Step("coding", CgNext)
  \/ Step("models", MdNext)

Spec == Init /\ [][Next]_vars

ServicesTypeOK ==
  /\ part = "meeting" => RtTypeOK
  /\ part = "context" => CxTypeOK
  /\ part = "session" => AsTypeOK
  /\ part = "store" => StTypeOK
  /\ part = "events" => EvTypeOK
  /\ part = "extensions" => ExTypeOK
  /\ part = "plugins" => PlTypeOK
  /\ part = "cron" => CrTypeOK
  /\ part = "layers" => LyTypeOK
  /\ part = "catalog" => CtTypeOK
  /\ part = "tools" => TgTypeOK
  /\ part = "coding" => CgTypeOK
  /\ part = "models" => MdTypeOK
===============================================================================
