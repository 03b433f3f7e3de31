---------------------------- MODULE MCMetaLearner ----------------------------
EXTENDS MetaLearner

Direct(type, tags, source, metric_name, words) ==
    [data_type |-> type, tags |-> tags, source |-> source, metric_name |-> metric_name,
     words |-> words, window |-> <<0, 0>>, total_updates |-> 0]

MCDirectEntries == {Direct("adaptation_decision", {"adaptation", "success"}, "execution", "", {"add"}),
                    Direct("observation", {"adaptation"}, "", "servers", {"add", "first"})}

Deployment(m, s, r, c, n) ==
    [metrics |-> m, stream |-> s, reliable |-> r, callers |-> c, cycles |-> n,
     tuned |-> FALSE]

One == <<"servers">>
Mixed == <<"servers", "mode">>
Two == <<"servers", "response_time">>

MCSetups == {Deployment(One, FALSE, TRUE, FALSE, 5), Deployment(Two, FALSE, TRUE, FALSE, 3),
             Deployment(Mixed, FALSE, FALSE, FALSE, 2), Deployment(Two, TRUE, TRUE, FALSE, 2),
             Deployment(One, FALSE, TRUE, TRUE, 3),
             [Deployment(<<>>, FALSE, TRUE, TRUE, 0) EXCEPT !.tuned = TRUE]}

Change(k, v, n) == [key |-> k, value |-> v, number |-> n]
Text(k, a) == [key |-> k, acceptable |-> a]

MCThresholds == [target_response_time_ms |-> 500, max_servers |-> 3]

Lower == Change("target_response_time_ms", 300, TRUE)
Higher == Change("target_response_time_ms", 600, TRUE)
New == Change("danger", 85, TRUE)
Fixed == Change("max_servers", 4, TRUE)

Reply(t, p) == [thresholds |-> t, parts |-> p]

MCReplies ==
    {Reply(<<Lower, New>>, <<>>), Reply(<<New>>, <<Text("constraints", FALSE)>>),
     Reply(<<Fixed, Lower>>, <<Text("observed_learnings", TRUE), Text("constraints", TRUE)>>),
     Reply(<<Higher>>, <<>>), Reply(<<Change("danger", 1, FALSE)>>, <<>>)}
=============================================================================
