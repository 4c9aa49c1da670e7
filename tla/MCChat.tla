------------------------------- MODULE MCChat -------------------------------
(***************************************************************************)
(* Chat with two turns of up to two calls and one delta.  The              *)
(* configurations: both providers with and without an allowlist, no key,   *)
(* and a default model that the allowlist does not have.                   *)
(***************************************************************************)
EXTENDS Chat

Both == [default |-> "ollama", providers |-> {"ollama", "openrouter"}, key |-> TRUE,
         ollamaModel |-> "llama", allowlist |-> <<"gpt">>, openRouterModel |-> "gpt"]
MCConfig ==
    {Both,
     [Both EXCEPT !.key = FALSE],
     [Both EXCEPT !.allowlist = << >>, !.default = "openrouter"],
     [Both EXCEPT !.allowlist = << >>, !.openRouterModel = ""],
     [Both EXCEPT !.openRouterModel = "claude", !.default = "openrouter"],
     [Both EXCEPT !.providers = {"openrouter"}, !.default = "openrouter"]}
=============================================================================
