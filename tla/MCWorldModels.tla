----------------------------- MODULE MCWorldModels -----------------------------
EXTENDS WorldModels

MCNaN == -1
Profile(rt, conf, cpu) == [rt |-> rt, conf |-> conf, cpu |-> cpu]

MCMetrics == {"utility", "cpu_usage", "confidence", "image_processing_time"}
Alone ==
    [values |-> ("utility" :> {40, 90}) @@ ("cpu_usage" :> {50, 90}) @@ ("confidence" :> {})
                 @@ ("image_processing_time" :> {}),
     outside |-> {}, calibrated |-> TRUE, profiles |-> <<>>]
WithOthers ==
    [values |-> ("utility" :> {40, MCNaN}) @@ ("cpu_usage" :> {}) @@ ("confidence" :> {90})
                 @@ ("image_processing_time" :> {20}),
     outside |-> {"utility"}, calibrated |-> FALSE,
     profiles |-> ("yolov5n" :> Profile(10, 60, 60)) @@ ("yolov5s" :> Profile(20, 75, 100))]
MCTracked == {Alone, WithOthers}

MCPeriods == {1}

CONSTANTS r1, r2, r3
MCRequests == {r1, r2, r3}
Mix(a, b, c) == (r1 :> a) @@ (r2 :> b) @@ (r3 :> c)
Configuration(w, f, o, c, k, d, a) ==
    [framework |-> w, file |-> f, override |-> o, config |-> c, key |-> k, deployment |-> d, asked |-> a]
Simulations == Mix("simulate", "simulate", "diagnose")
Questions == Mix("query", "query", "health")
MCMixes == {Simulations, Questions}
Full == {"api_key_env", "model"}
MCConfigurations ==
    {Configuration("bayesian", "none", "none", {}, FALSE, Alone, Questions),
     \* the files differ, and an option that has no effect
     Configuration("mock", "kalman", "mock", {}, FALSE, WithOthers, Questions),
     Configuration("gemini", "llm", "none", Full, FALSE, Alone, Simulations),
     Configuration("gemini", "none", "none", Full, TRUE, Alone, Questions),
     Configuration("mock", "none", "gemini", {}, FALSE, Alone, Questions),
     \* nothing that can be loaded, or that is registered
     Configuration("bayesian", "gemini", "bayesian", Full, FALSE, Alone, Questions),
     Configuration("gemini", "none", "none", {"model"}, TRUE, Alone, Questions),
     Configuration("statistical", "none", "none", {}, FALSE, Alone, Questions)}
=============================================================================
