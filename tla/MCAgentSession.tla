--------------------------- MODULE MCAgentSession ---------------------------
(***************************************************************************)
(* Sessions for TLC.                                                       *)
(***************************************************************************)
EXTENDS AgentSession

NameOf(id, family, compound, profile) ==
    [id |-> id, family |-> family, compound |-> compound, profile |-> profile]

OpenAI    == NameOf("openai", "openai", FALSE, "none")
Anthropic == NameOf("provider-anthropic", "anthropic", FALSE, "none")
Azure     == NameOf("azure-openai", "openai", TRUE, "none")
ChatGPT   == NameOf("openai-chatgpt", "openai", TRUE, "anthropic")
Terra     == NameOf("terra", "none", FALSE, "none")

On(key, module) == [key |-> key, module |-> module]

Plain == [max_rounds |-> 0, max_turns |-> 0, parallel |-> TRUE, nested |-> TRUE,
          asked |-> NoName, mounts |-> <<On(OpenAI, OpenAI)>>, base |-> "default",
          retention |-> 1, seeds |-> <<>>]

\* Executes its tools together, seeded; one by one, within limits; an instance
\* mount that is asked for; a provider that is not mounted; an empty prompt.
SomeConfigs ==
    {[Plain EXCEPT !.seeds = <<"system", "user", "asking", "tool">>],
     [Plain EXCEPT !.max_rounds = 1, !.parallel = FALSE, !.retention = 0, !.nested = FALSE],
     [Plain EXCEPT !.max_turns = 3, !.asked = Terra, !.nested = FALSE,
                   !.mounts = <<On(Anthropic, Anthropic), On(Terra, OpenAI)>>],
     [Plain EXCEPT !.asked = OpenAI, !.nested = FALSE,
                   !.mounts = <<On(Anthropic, Anthropic), On(Azure, Azure)>>],
     [Plain EXCEPT !.base = "empty_file", !.asked = ChatGPT, !.nested = FALSE,
                   !.mounts = <<On(ChatGPT, ChatGPT)>>]}
=============================================================================
