--------------------------- MODULE MCLLMDecision ---------------------------
EXTENDS LLMDecision

Setup(policy, decides, chat, attempts, tries, logprobs, mode) ==
    [policy |-> policy, decide |-> decides, chat |-> chat, reasoning |-> TRUE,
     attempts |-> attempts, tries |-> tries, logprobs |-> logprobs, dimmer_mode |-> mode,
     servers |-> 3, dimmer |-> 0]

MCSetups ==
    {Setup("null", "score", TRUE, 1, 1, FALSE, "levels"),
     Setup("random", "score", TRUE, 1, 1, FALSE, "step"),
     Setup("static", "score", TRUE, 1, 1, FALSE, "levels"),
     \* OpenRouterBackend
     Setup("llm", "score", TRUE, 2, 2, TRUE, "levels"),
     Setup("llm", "generate", TRUE, 2, 2, TRUE, "step"),
     \* OpenAICompatBackend with a completion model, and StubBackend
     [Setup("llm", "score", FALSE, 1, 1, FALSE, "levels") EXCEPT !.reasoning = FALSE],
     Setup("llm", "generate", TRUE, 1, 1, FALSE, "levels")}

MCDimmerRepresentatives == {0, One}
=============================================================================
