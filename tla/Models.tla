-------------------------------- MODULE Models --------------------------------
(***************************************************************************)
(* Providers of models and the calls made to them: the table of providers  *)
(* and its file (core/model_manager.py), how a client is made from it and  *)
(* how it retries (core/llm_client.py, core/provider_adapters.py), the     *)
(* probe (core/model_probe.py), and what a user is told of a failure       *)
(* (core/provider_errors.py).                                              *)
(*                                                                         *)
(* Of what is sent to a provider only its settings are modelled, and an    *)
(* agent's budget for thinking.  Left out: the other parameters, the shape *)
(* of messages and of usage, the discovery of models, delays, and          *)
(* providers that extensions manage.                                       *)
(***************************************************************************)
EXTENDS Integers, FiniteSets, Sequences
LOCAL INSTANCE SequencesExt

CONSTANTS
  MdKnown,     \* the settings each type of provider has
  MdFormat,    \* the protocol of each type: "openai", "anthropic"
  MdRecords,   \* providers a user may define
  MdFiles,     \* what may be on disk at first
  MdClients,
  MdWants,     \* <<provider, model>>, <<"", model>> or <<"", "">>, and a budget for thinking
  MdErrors,    \* failures of a request: its kind, code and status
  MdRetries,   \* max_retries of the configuration
  MdMaxOps,    \* bound: changes by users
  MdMaxCalls,  \* bound: calls of the clients
  MdMaxMishaps \* bound: failures of the disk and of the process, stops, and quick saves
ASSUME MdAssumption == DOMAIN MdFormat = DOMAIN MdKnown /\ MdRetries \in Nat

VARIABLES
  mdUp,     \* the server runs
  mdMem,    \* the providers it has, in order
  mdFile,   \* the providers on disk; a missing file is as one without any
  mdEnv,    \* the environment has the keys that providers name
  mdMain,   \* the model of the main agent in its file, and when it was saved
  mdCache,  \* what the server last read of that
  mdClient, \* each client: what was wanted of it, and what it was made of
  mdCall,   \* the last call of each
  mdTold,   \* history: the providers users were told to be there
  mdUnsure, \* history: providers of which a change failed
  mdQuick,  \* history: the main agent was saved twice within a tick of the clock
  mdOps, mdCalls, mdMishaps

mdStore == <<mdMem, mdFile, mdTold, mdUnsure>>
mdAgent == <<mdMain, mdQuick>>
mdVars == <<mdUp, mdStore, mdEnv, mdAgent, mdCache, mdClient, mdCall, mdOps, mdCalls, mdMishaps>>

MdNone == <<"", "">>
NoClient == [how |-> "", want |-> MdNone, budget |-> "", is |-> "none", to |-> MdNone, key |-> "", type |-> "", sent |-> {}, main |-> MdNone]
NoCall == [pc |-> "idle", as |-> "", try |-> 0, got |-> {}, failed |-> <<>>, end |-> ""]

Ids(ps) == {ps[i].id : i \in DOMAIN ps}
Provider(ps, id) == ps[CHOOSE i \in DOMAIN ps : ps[i].id = id]

-----------------------------------------------------------------------------
(***************************************************************************)
(* The table of providers                                                  *)
(***************************************************************************)
\* get_provider gives the key that the environment has.
KeyOf(p) == IF p.key = "env" THEN IF mdEnv THEN "env" ELSE "" ELSE p.key

\* _load_config: the fields of old files become today's, and the provider an old
\* template brought goes unless its key is there.
Unconfirmed(p) == p.form = "template" /\ KeyOf(p) = ""
Today(p) == IF p.form = "old" THEN [p EXCEPT !.form = "new"] ELSE p
Migrated(ps) ==
  LET old == SelectSeq(ps, LAMBDA p : ~Unconfirmed(p)) IN [i \in DOMAIN old |-> Today(old[i])]

MdInit ==
  /\ mdUp = FALSE /\ mdFile \in MdFiles /\ mdEnv \in BOOLEAN /\ mdMem = <<>>
  /\ mdMain = [model |-> MdNone, at |-> 0] /\ mdCache = [model |-> MdNone, at |-> -1]
  /\ mdClient = [c \in MdClients |-> NoClient] /\ mdCall = [c \in MdClients |-> NoCall]
  /\ mdTold = ToSet(Migrated(mdFile)) /\ mdUnsure = {} /\ mdQuick = FALSE
  /\ mdOps = 0 /\ mdCalls = 0 /\ mdMishaps = 0

MdOp == mdUp /\ mdOps < MdMaxOps /\ mdOps' = mdOps + 1
MdMishap == mdMishaps < MdMaxMishaps /\ mdMishaps' = mdMishaps + 1
MdAlone == UNCHANGED <<mdEnv, mdAgent>>

\* A file that was migrated is saved, unless it is read-only.
MdStarts ==
  /\ ~mdUp /\ mdUp' = TRUE /\ mdMem' = Migrated(mdFile)
  /\ mdCache' = [model |-> MdNone, at |-> -1]
  /\ \/ mdFile' = Migrated(mdFile) /\ UNCHANGED mdMishaps
     \/ MdMishap /\ mdFile # Migrated(mdFile) /\ UNCHANGED mdFile
  /\ UNCHANGED <<mdTold, mdUnsure, mdClient, mdCall, mdOps, mdCalls>> /\ MdAlone

Stops ==
  /\ mdUp' = FALSE /\ mdMem' = <<>>
  /\ mdClient' = [c \in MdClients |-> NoClient] /\ mdCall' = [c \in MdClients |-> NoCall]
MdExits ==
  /\ mdUp /\ MdMishap /\ Stops
  /\ UNCHANGED <<mdFile, mdTold, mdUnsure, mdCache, mdOps, mdCalls>> /\ MdAlone

\* save: a change is made in memory and then written to a file that takes the place of
\* the old one.  When that fails the user is told so, and the change stays in memory.
Bug_SavesOld(ps) == mdMem
OnFile(ps) == ps
Changes(id, ps, told) ==
  /\ MdOp
  /\ \/ /\ mdMem' = ps /\ mdFile' = OnFile(ps) /\ mdTold' = told /\ UNCHANGED <<mdUp, mdUnsure, mdClient, mdCall, mdMishaps>>
     \/ /\ MdMishap /\ mdMem' = ps /\ mdUnsure' = mdUnsure \cup {id} /\ UNCHANGED <<mdUp, mdFile, mdTold, mdClient, mdCall>>
     \/ /\ MdMishap /\ Stops /\ mdUnsure' = mdUnsure \cup {id} /\ mdFile' \in {mdFile, ps} /\ UNCHANGED mdTold
  /\ UNCHANGED <<mdCache, mdCalls>> /\ MdAlone

Added(p) == Append(mdMem, p)
MdAdds ==
  \E p \in MdRecords :
    p.id \notin Ids(mdMem) /\ Changes(p.id, Added(p), {q \in mdTold : q.id # p.id} \cup {p})

\* update_provider: the fields that were sent; an empty key keeps the one there is.
Updated(old, new) == [new EXCEPT !.key = IF @ = "" THEN old.key ELSE @, !.form = old.form]
MdUpdates ==
  \E p \in MdRecords :
    /\ p.id \in Ids(mdMem) /\ p \notin ToSet(mdMem)
    /\ LET q == Updated(Provider(mdMem, p.id), p)
       IN Changes(p.id, [i \in DOMAIN mdMem |-> IF mdMem[i].id = p.id THEN q ELSE mdMem[i]],
                  {r \in mdTold : r.id # p.id} \cup {q})

ProvidersWithout(id) == SelectSeq(mdMem, LAMBDA p : p.id # id)
MdDeletes == \E id \in Ids(mdMem) : Changes(id, ProvidersWithout(id), {p \in mdTold : p.id # id})

\* move_provider_to_front.
AtFront(id) == <<Provider(mdMem, id)>> \o ProvidersWithout(id)
MdFronts == \E id \in Ids(mdMem) : mdMem[1].id # id /\ Changes(id, AtFront(id), mdTold)

\* The definition of the main agent is saved; its time may be that of the last one.
MainBecomes(model, quick) ==
  /\ mdMain' = [model |-> model, at |-> IF quick THEN mdMain.at ELSE mdMain.at + 1]
  /\ mdQuick' = (quick \/ mdQuick)
  /\ IF quick THEN MdMishap ELSE UNCHANGED mdMishaps
MdMains ==
  /\ MdOp
  /\ \E w \in MdWants, quick \in BOOLEAN :
       MainBecomes(IF w.model[1] = "" THEN MdNone ELSE w.model, quick)
  /\ UNCHANGED <<mdUp, mdStore, mdEnv, mdCache, mdClient, mdCall, mdCalls>>

-----------------------------------------------------------------------------
(***************************************************************************)
(* Making a client                                                         *)
(***************************************************************************)
\* get_default_model: the main agent's, read again when its file changed, or the first
\* model of the first provider that has one.
Bug_CachedOnce == IF mdCache.at = -1 THEN mdMain ELSE mdCache
Cached == IF mdMain.at # mdCache.at THEN mdMain ELSE mdCache
HavingModels == SelectSeq(mdMem, LAMBDA p : p.models # <<>>)
DefaultModel ==
  CASE Cached.model # MdNone -> Cached.model
    [] Cached.model = MdNone /\ HavingModels # <<>> -> <<HavingModels[1].id, HavingModels[1].models[1]>>
    [] OTHER -> MdNone

\* _resolve_model_override: a full name is taken as it is, a bare one is looked for.
Having(m) == SelectSeq(mdMem, LAMBDA p : m \in ToSet(p.models))
ByDefault(want) == want[1] = "" /\ (want[2] = "" \/ Having(want[2]) = <<>>)
Resolved(want) ==
  CASE ByDefault(want) -> DefaultModel
    [] want[1] = "" /\ ~ByDefault(want) -> <<Having(want[2])[1].id, want[2]>>
    [] OTHER -> want

\* get_model_provider_type, and the adapter of that type: a model may differ from its provider.
TypeOf(p, m) == IF p.types[1] = m THEN p.types[2] ELSE p.type

\* _provider_for_adapter hides the settings that belong to another type.
Bug_AllSettings(p, type) == p.sets
Settings(p, type) == p.sets \cap MdKnown[type]

\* build_request refuses a budget that the provider would refuse.
Refused(type, budget) == MdFormat[type] = "anthropic" /\ budget = "small"

\* create_llm, with what went wrong.
Trouble(to, budget) ==
  CASE to = MdNone \/ to[1] \notin Ids(mdMem) -> "unavailable"
    [] to[1] \in Ids(mdMem) /\ to[2] \notin ToSet(Provider(mdMem, to[1]).models) -> "unavailable"
    [] to[1] \in Ids(mdMem) /\ to[2] \in ToSet(Provider(mdMem, to[1]).models) ->
         LET p == Provider(mdMem, to[1])
         IN IF KeyOf(p) = "" THEN "credential" ELSE IF Refused(TypeOf(p, to[2]), budget) THEN "refused" ELSE ""
Made(client) ==
  LET to == Resolved(client.want)
      p == Provider(mdMem, to[1])
      type == TypeOf(p, to[2])
  IN [NoClient EXCEPT !.how = IF client.how = "probe" THEN "probe" ELSE "agent", !.is = "ready", !.to = to, !.key = KeyOf(p), !.type = type, !.sent = Settings(p, type),
                    !.main = IF ByDefault(client.want) THEN mdMain.model ELSE MdNone]
ReadsMain(want) == mdCache' = IF ByDefault(want) THEN Cached ELSE mdCache

\* create_startup_llm puts off what is not configured yet; anything else ends the
\* server's start.  The probe turns thinking off.
BudgetOf(how, budget) == IF how = "probe" THEN "" ELSE budget
MdMakes ==
  /\ mdUp
  /\ \E c \in MdClients, w \in MdWants, how \in {"startup", "create", "probe"} :
       LET client == [NoClient EXCEPT !.how = how, !.want = w.model, !.budget = BudgetOf(how, w.budget)]
           trouble == Trouble(Resolved(w.model), client.budget)
       IN /\ mdClient[c].is = "none" /\ ReadsMain(w.model)
          /\ how = "probe" => w.model[1] # ""
          /\ CASE trouble = "" -> mdClient' = [mdClient EXCEPT ![c] = Made(client)] /\ UNCHANGED <<mdUp, mdMem, mdCall>>
               [] trouble \in {"unavailable", "credential"} /\ how = "startup" ->
                    mdClient' = [mdClient EXCEPT ![c] = [client EXCEPT !.is = "deferred"]] /\ UNCHANGED <<mdUp, mdMem, mdCall>>
               [] trouble = "refused" \/ (trouble # "" /\ how # "startup") ->
                    \/ UNCHANGED <<mdUp, mdMem, mdClient, mdCall>>
                    \/ how = "startup" /\ Stops
  /\ UNCHANGED <<mdFile, mdTold, mdUnsure, mdOps, mdCalls, mdMishaps>> /\ MdAlone

\* update_session_model: a session that is at rest changes to a model there is, which
\* becomes the main agent's too; where that cannot be saved nothing changes.
MdSwitches ==
  /\ MdOp
  /\ \E c \in MdClients, w \in MdWants, quick \in BOOLEAN :
       LET client == [NoClient EXCEPT !.how = "startup", !.want = w.model, !.budget = w.budget]
           trouble == Trouble(w.model, w.budget)
       IN /\ mdClient[c].how \in {"startup", "agent"} /\ mdCall[c].pc \in {"idle", "over"}
          /\ w.model[1] # "" /\ trouble \in {"", "credential"}
          /\ mdClient' = [mdClient EXCEPT ![c] = IF trouble = "" THEN Made(client) ELSE [client EXCEPT !.is = "deferred"]]
          /\ mdCall' = [mdCall EXCEPT ![c] = NoCall]
          /\ MainBecomes(w.model, quick)
  /\ UNCHANGED <<mdUp, mdStore, mdEnv, mdCache, mdCalls>>

-----------------------------------------------------------------------------
(***************************************************************************)
(* Calls                                                                   *)
(***************************************************************************)
\* classify_provider_error: what a user is told, in the order in which it is asked.
Wrapped(c) == mdClient[c].how # "probe" /\ MdRetries > 0
Classified(e) ==
  CASE e.code = "quota" -> "quota_exhausted"
    [] e.code # "quota" /\ e.status = 429 -> "rate_limited"
    [] e.code # "quota" /\ e.status \in {401, 403} -> "authentication_failed"
    [] e.code # "quota" /\ e.status >= 500 -> "service_unavailable"
    [] OTHER -> "unknown"
Presented(c, e) == IF e.is = "invalid" /\ ~Wrapped(c) THEN "session_failed" ELSE Classified(e)
NotMade(trouble) == IF trouble = "credential" THEN "authentication_failed" ELSE IF trouble = "refused" THEN "session_failed" ELSE "unknown"

Becomes(c, call) == mdCall' = [mdCall EXCEPT ![c] = call]
MdCallOnly == UNCHANGED <<mdUp, mdStore, mdEnv, mdAgent, mdOps>>

\* A call; a client that was put off is made now, and kept.
MdAsks ==
  /\ mdCalls < MdMaxCalls /\ mdCalls' = mdCalls + 1
  /\ \E c \in MdClients, as \in {"stream", "invoke"} :
       LET client == mdClient[c]
           trouble == Trouble(Resolved(client.want), client.budget)
           asking == [NoCall EXCEPT !.pc = "asking", !.as = as, !.try = 1]
       IN /\ mdCall[c].pc \in {"idle", "over"}
          /\ client.how = "probe" => as = "invoke"
          /\ \/ client.is = "ready" /\ Becomes(c, asking) /\ UNCHANGED <<mdClient, mdCache>>
             \/ /\ client.is = "deferred" /\ ReadsMain(client.want)
                /\ IF trouble = "" THEN Becomes(c, asking) /\ mdClient' = [mdClient EXCEPT ![c] = Made(client)]
                   ELSE Becomes(c, [NoCall EXCEPT !.pc = "over", !.end = NotMade(trouble)]) /\ UNCHANGED mdClient
  /\ UNCHANGED mdMishaps /\ MdCallOnly

Asking(c) == mdCall[c].pc = "asking"

\* A piece of the answer is there: it goes on to the one who asked.
MdPiece ==
  /\ \E c \in MdClients :
       /\ Asking(c) /\ mdClient[c].how # "probe"
       /\ Becomes(c, [mdCall[c] EXCEPT !.got = @ \cup {mdCall[c].try}])
  /\ UNCHANGED <<mdClient, mdCache, mdCalls, mdMishaps>> /\ MdCallOnly

MdAnswers ==
  /\ \E c \in MdClients, end \in {"answer", "empty_output"} :
       /\ Asking(c)
       /\ end = "empty_output" => mdClient[c].how = "probe"
       /\ mdCall[c].as = "stream" => mdCall[c].got # {}
       /\ Becomes(c, [mdCall[c] EXCEPT !.pc = "over", !.end = end])
  /\ UNCHANGED <<mdClient, mdCache, mdCalls, mdMishaps>> /\ MdCallOnly

\* _wrap_llm_with_retry: what was refused, what is not a message (of a stream) and what
\* failed after a piece went on is not asked again.
Started(c) == mdCall[c].try \in mdCall[c].got
Bug_AfterPieces(c, e) == ~Wrapped(c) \/ e.is = "bad" \/ mdCall[c].try > MdRetries
Bug_OneMore(c, e) == ~Wrapped(c) \/ e.is = "bad" \/ Started(c) \/ mdCall[c].try > MdRetries + 1
GivesUp(c, e) ==
  \/ ~Wrapped(c)
  \/ e.is = "bad"
  \/ e.is = "invalid" /\ mdCall[c].as = "stream"
  \/ Started(c)
  \/ mdCall[c].try > MdRetries
MdFails ==
  /\ \E c \in MdClients, e \in MdErrors :
       /\ Asking(c)
       /\ Becomes(c, [mdCall[c] EXCEPT !.failed = Append(@, e.is),
                                       !.pc = IF GivesUp(c, e) THEN "over" ELSE "waits",
                                       !.end = IF GivesUp(c, e) THEN Presented(c, e) ELSE ""])
  /\ UNCHANGED <<mdClient, mdCache, mdCalls, mdMishaps>> /\ MdCallOnly
MdAgain ==
  /\ \E c \in MdClients :
       mdCall[c].pc = "waits" /\ Becomes(c, [mdCall[c] EXCEPT !.pc = "asking", !.try = @ + 1])
  /\ UNCHANGED <<mdClient, mdCache, mdCalls, mdMishaps>> /\ MdCallOnly

\* The turn is stopped, or the time of the probe is over.
MdCancels ==
  /\ MdMishap
  /\ \E c \in MdClients :
       mdCall[c].pc \in {"asking", "waits"} /\ Becomes(c, [mdCall[c] EXCEPT !.pc = "over", !.end = "stopped"])
  /\ UNCHANGED <<mdClient, mdCache, mdCalls>> /\ MdCallOnly

MdNext ==
  \/ MdStarts \/ MdExits \/ MdAdds \/ MdUpdates \/ MdDeletes \/ MdFronts \/ MdMains \/ MdMakes \/ MdSwitches
  \/ MdAsks \/ MdPiece \/ MdAnswers \/ MdFails \/ MdAgain \/ MdCancels

-----------------------------------------------------------------------------
(***************************************************************************)
(* Properties                                                              *)
(***************************************************************************)
MdTypeOK ==
  /\ mdUp \in BOOLEAN /\ Cardinality(Ids(mdMem)) = Len(mdMem)
  /\ \A c \in MdClients :
       /\ mdClient[c].is \in {"none", "ready", "deferred"}
       /\ mdCall[c].pc \in {"idle", "asking", "waits", "over"} /\ mdCall[c].try \in 0..MdRetries + 1

\* model_manager.py: what users were told of the providers is what the server has, and
\* what it will have after a restart, except where a change of theirs failed.
Sure(ps) == {p \in ps : p.id \notin mdUnsure}
ProvidersKept ==
  /\ mdUp => Sure(ToSet(mdMem)) = Sure(mdTold)
  /\ Sure(ToSet(Migrated(mdFile))) = Sure(mdTold)

\* llm_client.py: an answer never has pieces of two requests, a request that a provider
\* refused is not made again, and no call makes more than it may.
AnswersWhole ==
  \A c \in MdClients :
    LET call == mdCall[c]
    IN /\ Cardinality(call.got) <= 1
       /\ call.end = "answer" /\ call.got # {} => call.try \in call.got
       /\ Len(call.failed) <= (IF mdClient[c].how = "probe" THEN 1 ELSE MdRetries + 1)
       /\ \A i \in DOMAIN call.failed : call.failed[i] = "bad" => i = Len(call.failed) /\ call.pc = "over"

\* A client that nobody chose a model for was made for the one that the main agent had
\* then, if the clock told its file apart from the one read before; a client has a key,
\* and no settings of another type of provider.
ClientsFit ==
  \A c \in MdClients :
    LET client == mdClient[c]
    IN client.is = "ready" =>
         /\ client.key # "" /\ client.sent \subseteq MdKnown[client.type]
         /\ client.main # MdNone /\ ~mdQuick => client.to = client.main

ModelsKept == ProvidersKept /\ AnswersWhole /\ ClientsFit
===============================================================================
