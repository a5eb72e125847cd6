---------------------------- MODULE ModelRouting ----------------------------
(*****************************************************************************)
(* ModelRouter (src/llm/router.py): which provider and model serve each role  *)
(* under the user's settings, and the cache of clients, with remote providers *)
(* that cannot be built.  A router belongs to the thread that made it, so a   *)
(* call is one step.                                                         *)
(*                                                                           *)
(* Of the providers only two matter: Pearl's own, which is a remote gateway   *)
(* when its key is set and local inference otherwise, and any other.  A model *)
(* is named for the setting it comes from.                                   *)
(*****************************************************************************)
EXTENDS Naturals, FiniteSets, Sequences, SequencesExt

CONSTANTS Configurations, \* settings to check, see Configuration
          MaxCalls        \* bound: clients asked for

Roles == {"planning", "chat", "edit", "condenser", "autocomplete", "vision", "reflection"}
LatencyCritical == {"autocomplete"}
ReasoningRoles == {"planning", "reflection", "edit"}
Derived == {"edit", "condenser", "reflection"}
Unset == "unset"
Providers == {"pearl", "other"}

\* llm: LLM_PROVIDER; provider, model: the per-role settings; gateway, key: the
\* credentials of Pearl's gateway and of another provider; fallback:
\* MODEL_FALLBACK_TO_LOCAL; tiers: the plan and the chat model differ; files: the
\* autocomplete GGUF differs from the default one.
Configuration ==
    [llm : Providers, profile : {"auto", "local", "hybrid", "cloud", "typo"},
     provider : [Roles -> Providers \cup {Unset}], model : [Roles -> {Unset, "own"}],
     gateway : BOOLEAN, key : BOOLEAN, fallback : BOOLEAN,
     tiers : BOOLEAN, files : BOOLEAN]

VARIABLES cfg,     \* the settings, fixed while a router lives
          clients, \* ModelRouter._clients: role -> client, numbered by creation
          made,    \* the clients: the identity each was filed under
          raised,  \* roles whose request raised
          calls

vars == <<cfg, clients, made, raised, calls>>

TypeOK ==
    /\ DOMAIN clients \subseteq Roles
    /\ \A r \in DOMAIN clients : clients[r] \in DOMAIN made
    /\ raised \subseteq Roles /\ calls \in 0 .. MaxCalls
    /\ Len(made) <= calls

Init == /\ cfg \in Configurations
        /\ clients = [r \in {} |-> 0] /\ made = <<>> /\ raised = {} /\ calls = 0

-----------------------------------------------------------------------------
(* Settings to provider and model.                                           *)

ExplicitProvider(r) == cfg.provider[r]
RemoteKeyConfigured == cfg.key \/ cfg.gateway

\* "auto" honours a provider chosen for everything; a profile that is none
\* degrades to "local".
ResolveProfile ==
    CASE cfg.profile = "auto" -> IF cfg.llm # "pearl" THEN "cloud"
                                 ELSE IF RemoteKeyConfigured THEN "hybrid" ELSE "local"
      [] cfg.profile \in {"local", "hybrid", "cloud"} -> cfg.profile
      [] OTHER -> "local"

GoesByGlobal(r) ==
    \/ r \in LatencyCritical
    \/ r \notin LatencyCritical /\ ResolveProfile = "cloud"
    \/ r \in ReasoningRoles /\ ResolveProfile = "hybrid"
ProfileProvider(r) == IF GoesByGlobal(r) THEN cfg.llm ELSE "pearl"

EffectiveProvider(r) ==
    CASE ExplicitProvider(r) # Unset -> ExplicitProvider(r)
      [] ExplicitProvider(r) = Unset /\ r \in Derived /\ cfg.provider["chat"] # Unset
           -> cfg.provider["chat"]
      [] OTHER -> ProfileProvider(r)

ChatModel == "chat tier"
PlanModel == IF cfg.tiers THEN "plan tier" ELSE ChatModel

OverrideModel(provider, r) ==
    CASE cfg.model[r] # Unset -> <<r, cfg.model[r]>>
      [] cfg.model[r] = Unset /\ provider = "pearl" ->
           <<CASE r = "planning" -> PlanModel
               [] r = "autocomplete" -> "small"
               [] OTHER -> ChatModel>>
      [] OTHER -> <<>>

IsLocalPearl(provider) == provider = "pearl" /\ ~cfg.gateway

\* The GGUF to load, where it is not the default one.
LocalModelFile(provider, r) ==
    IF IsLocalPearl(provider) /\ r = "autocomplete" /\ cfg.files THEN "small" ELSE Unset

Identity(r, provider) ==
    [provider |-> provider, model |-> OverrideModel(provider, r),
     file |-> LocalModelFile(provider, r)]

-----------------------------------------------------------------------------
(* client_for.                                                               *)

\* Building a client of local inference cannot fail: the model is loaded later.
Builds(provider) == IF IsLocalPearl(provider) THEN {TRUE} ELSE BOOLEAN

Filed(identity) == {c \in DOMAIN made : made[c] = identity}

Serve(r, c) == clients' = [x \in DOMAIN clients \cup {r} |-> IF x = r THEN c ELSE clients[x]]

\* The client filed under the identity, or a new one.
FileOrBuild(r, provider) ==
    LET identity == Identity(r, provider)
    IN  /\ IF Filed(identity) # {}
           THEN Serve(r, CHOOSE c \in Filed(identity) : TRUE) /\ made' = made
           ELSE Serve(r, Len(made) + 1) /\ made' = Append(made, identity)
        /\ UNCHANGED raised

Raise(r) == raised' = raised \cup {r} /\ UNCHANGED <<clients, made>>

MayFallBack(r, provider) == cfg.fallback /\ provider # "pearl" /\ r # "vision"

ClientFor(r) ==
    LET provider == EffectiveProvider(r)
        shared == Filed(Identity(r, provider)) # {}
    IN  IF r \in DOMAIN clients THEN UNCHANGED <<clients, made, raised>>
        ELSE \/ /\ shared \/ TRUE \in Builds(provider)
                /\ FileOrBuild(r, provider)
             \/ /\ ~shared /\ FALSE \in Builds(provider)
                /\ IF ~MayFallBack(r, provider) THEN Raise(r)
                   ELSE \/ FileOrBuild(r, "pearl")
                        \/ /\ Filed(Identity(r, "pearl")) = {}
                           /\ FALSE \in Builds("pearl")
                           /\ Raise(r)

\* planning_client, chat_client and autocomplete_client ask for their own role;
\* the derived roles for the chat client unless they are configured.
Configured(r) == cfg.provider[r] # Unset \/ cfg.model[r] # Unset
Asks(r) == IF r \in Derived /\ ~Configured(r) THEN "chat" ELSE r

Ask(r) ==
    /\ calls < MaxCalls
    /\ calls' = calls + 1
    /\ r = "vision" => Configured(r)
    /\ ClientFor(Asks(r))
    /\ UNCHANGED cfg

Next == \E r \in Roles : Ask(r)

Spec == Init /\ [][Next]_vars

-----------------------------------------------------------------------------
\* all_same_provider, which lets the session use its planning client for chat.
AllSameProvider ==
    /\ EffectiveProvider("planning") = EffectiveProvider("chat")
    /\ cfg.model["planning"] = Unset /\ cfg.model["chat"] = Unset
    /\ EffectiveProvider("planning") = "pearl" => ~cfg.tiers

\* Roles that come to the same provider, model and file share one client,
\* whichever failed and fell back before (router.py: otherwise "for local
\* inference that means loading the same multi-gigabyte model into memory twice");
\* without a gateway key and with the fallback on, every role but vision is served;
\* and where the session takes one client for planning and chat, the router would
\* have given them the same.
RoutesAreSound ==
    /\ \A c, d \in DOMAIN made : made[c] = made[d] => c = d
    /\ cfg.fallback /\ ~cfg.gateway => raised \subseteq {"vision"}
    /\ AllSameProvider =>
         Identity("planning", EffectiveProvider("planning")) =
         Identity("chat", EffectiveProvider("chat"))
=============================================================================
