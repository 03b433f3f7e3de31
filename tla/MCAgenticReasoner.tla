--------------------------- MODULE MCAgenticReasoner ---------------------------
EXTENDS AgenticReasoner

MCChannels == <<"telemetry_batch", "execution_results">>

Message(c, e, r) == [channel |-> c, events |-> e, readable |-> r]

MCTraffic == <<Message("telemetry_batch", <<"good", "good">>, TRUE),
               Message("execution_results", <<"good">>, TRUE),
               Message("telemetry_batch", <<"refused", "good">>, TRUE),
               Message("execution_results", <<>>, FALSE),
               Message("execution_results", <<"good">>, TRUE)>>

Around(t, r, c, a) == [traffic |-> t, reloads |-> r, crashes |-> c, asked |-> a]

MCSetups == {Around(MCTraffic, 0, 1, FALSE), Around(SubSeq(MCTraffic, 1, 1), 3, 1, FALSE),
             Around(<<>>, 0, 1, TRUE)}
=============================================================================
