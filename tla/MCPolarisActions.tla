-------------------------- MODULE MCPolarisActions --------------------------
EXTENDS PolarisServices

Deployment(r, v, c, p, n) ==
    [reasoner |-> r, enable_verification |-> v, constraints |-> c, prompt |-> p, actions |-> n]

MCSetups == {Deployment(FALSE, FALSE, "none", TRUE, 8),
             Deployment(TRUE, FALSE, "none", FALSE, 2),
             Deployment(TRUE, TRUE, "default", TRUE, 2),
             Deployment(TRUE, TRUE, "framework", FALSE, 1),
             Deployment(TRUE, TRUE, "plugin", TRUE, 2)}

Server(c, n, s) == [capture |-> c, named |-> n, serial |-> s]

MCNLASetups == {Server("full", FALSE, TRUE), Server("full", TRUE, TRUE),
                Server("full", FALSE, FALSE), Server("text", TRUE, FALSE),
                Server("off", FALSE, FALSE)}

MCDecisions == {Plain("ADD_SERVER"), [Plain("ADD_SERVER") EXCEPT !.error = TRUE],
                Plain("NO_ACTION"), [Plain("SET_DIMMER") EXCEPT !.readable = FALSE],
                [Plain("SET_DIMMER") EXCEPT !.lowers = TRUE]}

MCMeasured == {[response_time |-> rt, utilization |-> 0] : rt \in {0, 60}}
=============================================================================
