----------------------------- MODULE Providers ------------------------------
(***************************************************************************)
(* Which model provider answers a chat request (internal/llm/registry.go)  *)
(* and which models the chat composer offers (internal/llm/catalog.go).    *)
(* Labels, groups and the order of the offer are left out.                 *)
(*                                                                         *)
(* A configuration is a record [default, providers, key, ollamaModel,      *)
(* allowlist, openRouterModel]: the default provider, the enabled ones,    *)
(* whether there is an OpenRouter key, the model of Ollama, the allowlist  *)
(* (a sequence) and default model of OpenRouter; "" stands for none.       *)
(***************************************************************************)
EXTENDS Sequences, Functions

Refused == [provider |-> "", model |-> ""]
Either(a, b) == IF a # "" THEN a ELSE b

\* The server does not start with a default provider that is not enabled.
NewRegistry(config) == config.default \in config.providers

\* The allowlist restricts the models unless it is empty.
ValidateOpenRouterModel(config, model) ==
    config.allowlist = << >> \/ model \in Range(config.allowlist)

Resolve(config, provider, model) ==
    LET p == Either(provider, config.default)
        cloud == Either(model, config.openRouterModel)
    IN IF p \notin config.providers THEN Refused
       ELSE CASE p = "ollama" -> [provider |-> p, model |-> Either(model, config.ollamaModel)]
              [] p = "openrouter" /\ config.key /\ cloud # "" /\ ValidateOpenRouterModel(config, cloud) ->
                   [provider |-> p, model |-> cloud]
              [] OTHER -> Refused

\* Bug: the default model is offered next to the allowlist.
AllModels(config) == Range(config.allowlist) \cup ({config.openRouterModel} \ {""})
OpenRouterModels(config) ==
    IF config.allowlist # << >> THEN Range(config.allowlist)
                                ELSE {config.openRouterModel} \ {""}

defaultSelection(config) ==
    IF config.default = "openrouter"
    THEN [provider |-> "openrouter",
          model |-> Either(config.openRouterModel,
                           IF config.allowlist = << >> THEN "" ELSE Head(config.allowlist))]
    ELSE [provider |-> "ollama", model |-> config.ollamaModel]

Options(config) ==
    {[provider |-> "ollama", model |-> config.ollamaModel] : p \in config.providers \cap {"ollama"}} \cup
    {[provider |-> "openrouter", model |-> m] :
        m \in IF "openrouter" \in config.providers /\ config.key
              THEN OpenRouterModels(config) ELSE {}}
ModelCatalog(config) == [default |-> defaultSelection(config), options |-> Options(config)]
=============================================================================
