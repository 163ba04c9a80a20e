---------------------------- MODULE ModelManager ---------------------------
(* The providers of language models (config/model_manager.py): the file     *)
(* they are loaded from, and a chat completion with its fallbacks.          *)
(*                                                                          *)
(* Data abstracted: a provider is its name; of its configuration only       *)
(* whether it is enabled, of a type the manager knows, and what it is the   *)
(* preferred provider of; a list of fallbacks names nobody twice. What a    *)
(* provider answers is whether it succeeded.                                *)
EXTENDS Naturals, FiniteSets, Sequences, Functions

CONSTANTS Names,     \* provider names, "gateway" among them
          Roles      \* agent roles that may have models of their own

VARIABLES providers,  \* those loaded
          primary, fallbacks,
          special,    \* agent_specific_models: the preference of each role
          gateway,    \* AGNOS_LLM_GATEWAY_ENABLED
          request     \* the completion under way: whom it has asked, and how far in its list

modelVars == <<providers, primary, fallbacks, special, gateway, request>>
loaded    == <<providers, primary, fallbacks, special, gateway>>

None     == "none"
Orders   == {s \in UNION {[1 .. k -> Names] : k \in 0 .. 2} : IsInjective(s)}
NoRequest == [step |-> "idle", target |-> None, role |-> None, wanted |-> <<>>, first |-> None,
              place |-> 0, asked |-> <<>>, result |-> None]

\* load_config keeps what is enabled and can be built; with the gateway
\* enabled the gateway is primary, and no fallback.
Kept(enabled, known, gw) == {p \in known : p \in enabled \/ (p = "gateway" /\ gw)}
GatewayLeads(kept, gw)   == gw /\ "gateway" \in kept
Lists(s, p)          == \E i \in DOMAIN s : s[i] = p

Default == "openai"     \* the only provider _create_default_config writes

Init ==
  /\ providers = {} /\ primary = None /\ fallbacks = <<>>
  /\ special = [r \in Roles |-> None] /\ gateway = FALSE
  /\ request = NoRequest

Starting == providers = {} /\ primary = None

\* load_config of a file that can be read.
LoadConfig ==
  /\ Starting
  /\ \E enabled, known \in SUBSET Names, p \in Names, gw \in BOOLEAN :
       LET kept == Kept(enabled, known, gw)
       IN  /\ providers' = kept /\ gateway' = gw
           /\ primary' = IF GatewayLeads(kept, gw) THEN "gateway" ELSE p
           /\ fallbacks' \in {fb \in Orders : GatewayLeads(kept, gw) => ~Lists(fb, "gateway")}
  /\ special' \in [Roles -> Names \cup {None}]
  /\ UNCHANGED request

\* _create_default_config, when the file is absent or cannot be read: the
\* default is written in its place and loaded, without agent-specific models.
CreateDefaultConfig ==
  /\ Starting /\ gateway' \in BOOLEAN
  /\ providers' = {Default} /\ primary' = Default /\ fallbacks' = <<>>
  /\ UNCHANGED <<special, request>>

------------------------------------------------------------------------------
(* chat_completion *)

\* The role's own preference, which the gateway overrides, and its fallbacks,
\* which are its own or the general ones; a preference that is not loaded is
\* replaced by the target with the general fallbacks.
Preferred(target, role) ==
  IF role = None \/ target = "gateway" \/ special[role] = None THEN target ELSE special[role]
First(target, role) ==
  IF Preferred(target, role) \in providers THEN Preferred(target, role) ELSE target

OwnFallbacks(target, role) ==
  IF role # None /\ First(target, role) = Preferred(target, role) THEN Orders \cup {fallbacks}
  ELSE {fallbacks}

Target(t) == IF t = None THEN primary ELSE t

Refuse(t) ==
  /\ Target(t) \notin providers
  /\ request' = [NoRequest EXCEPT !.step = "done", !.target = t, !.result = "unavailable"]

Serve(t, r) ==
  /\ Target(t) \in providers
  /\ \E wanted \in OwnFallbacks(Target(t), r) :
       request' = [step |-> "ask", target |-> t, role |-> r, wanted |-> wanted,
                   first |-> First(Target(t), r), place |-> 0,
                   asked |-> <<First(Target(t), r)>>, result |-> None]

Complete ==
  /\ ~Starting /\ request.step = "idle"
  /\ \E t \in Names \cup {None}, r \in Roles \cup {None} : Refuse(t) \/ Serve(t, r)
  /\ UNCHANGED loaded

------------------------------------------------------------------------------
(* A provider's chat_completion: which replies of the service it passes on  *)
(* as a success. A stream skips every line it cannot use, so any status 200 *)
(* succeeds.                                                                *)

ProviderReplies == {"content", "no_fields", "no_json", "status", "unreachable"}
Answered200 == {"content", "no_fields", "no_json"}

OpenAISucceeds(reply)    == reply = "content"
AnthropicSucceeds(reply) == reply = "content"
GoogleSucceeds(reply)    == reply = "content"
StreamSucceeds(reply)    == reply \in Answered200
OllamaSucceeds(reply, stream)   == IF stream THEN StreamSucceeds(reply) ELSE reply = "content"
LmStudioSucceeds(reply, stream) == IF stream THEN StreamSucceeds(reply) ELSE reply = "content"
CustomSucceeds(reply, stream)   ==
  IF stream THEN StreamSucceeds(reply) ELSE reply \in {"content", "no_fields"}

\* A provider's type is not remembered: every type its name may have is tried.
Types(p) == IF p \in {"gateway", Default} THEN {"openai"}
            ELSE {"openai", "anthropic", "google", "ollama", "lm_studio", "custom"}
Succeeds(type, reply, stream) ==
  CASE type = "openai"    -> OpenAISucceeds(reply)
    [] type = "anthropic" -> AnthropicSucceeds(reply)
    [] type = "google"    -> GoogleSucceeds(reply)
    [] type = "ollama"    -> OllamaSucceeds(reply, stream)
    [] type = "lm_studio" -> LmStudioSucceeds(reply, stream)
    [] type = "custom"    -> CustomSucceeds(reply, stream)

\* The loop over the fallbacks comes to the loaded ones that were not the first.
Ahead == {i \in DOMAIN request.wanted :
            i > request.place /\ request.wanted[i] \in providers /\ request.wanted[i] # request.first}

\* The provider asked last.
Latest == request.asked[Len(request.asked)]

ProviderAnswers ==
  /\ request.step = "ask"
  /\ \E type \in Types(Latest), reply \in ProviderReplies, stream \in BOOLEAN :
       Succeeds(type, reply, stream)
  /\ request' = [request EXCEPT !.step = "done", !.result = Latest]
  /\ UNCHANGED loaded

\* What is returned when nobody succeeds is the first provider's failure.
ProviderFails ==
  /\ request.step = "ask"
  /\ \E type \in Types(Latest), reply \in ProviderReplies, stream \in BOOLEAN :
       ~Succeeds(type, reply, stream)
  /\ \/ Ahead = {} /\ request' = [request EXCEPT !.step = "done", !.result = "failed"]
     \/ \E i \in Ahead :
          /\ \A j \in Ahead : i <= j
          /\ request' = [request EXCEPT !.place = i, !.asked = Append(@, request.wanted[i])]
  /\ UNCHANGED loaded

Return ==
  /\ request.step = "done" /\ request' = NoRequest
  /\ UNCHANGED loaded

Next == LoadConfig \/ CreateDefaultConfig \/ Complete \/ ProviderAnswers \/ ProviderFails \/ Return

------------------------------------------------------------------------------
(* Properties *)

Asked == {request.asked[i] : i \in DOMAIN request.asked}
Wanted == {request.wanted[i] : i \in DOMAIN request.wanted}

\* A completion fails only after every loaded provider it may use has been
\* asked, each once, whichever of them the role, the gateway or the target put
\* first, and nobody else was (ModelManager.chat_completion).
EveryFallbackAsked ==
  request.step = "done" /\ request.result = "failed" =>
    /\ Asked = {request.first} \cup (Wanted \cap providers)
    /\ Len(request.asked) = Cardinality(Asked)

\* With the gateway enabled and loaded, a call that names no provider goes to
\* the gateway first whatever the role prefers, and never falls back to it.
GatewayFirst ==
  GatewayLeads(providers, gateway) /\ request.asked # <<>> /\ request.target = None =>
    request.asked[1] = "gateway"
=============================================================================
