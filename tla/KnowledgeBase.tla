----------------------------- MODULE KnowledgeBase -----------------------------
(***************************************************************************)
(* InMemoryKnowledgeBase of POLARIS: entries under their ids, five         *)
(* indexes over them, and a buffer of raw telemetry per metric that        *)
(* becomes, when an event finds it full, one observation entry which is    *)
(* from then on updated in place.                                          *)
(*                                                                         *)
(* The indexes are one set of triples <<field, key, id>>.  Of a text only  *)
(* the words a search could ask for are kept; of the statistics of an      *)
(* observation its window, the numbers of the first and last event in it.  *)
(*                                                                         *)
(* An operator named Bug... is a plausible mistake in the definition that  *)
(* follows it; nothing uses it.                                            *)
(***************************************************************************)
EXTENDS Integers, Sequences, FiniteSets

CONSTANTS
    MetricNames,     \* the metrics there is raw telemetry of
    DirectEntries,   \* entries other than observations of raw telemetry that may be stored
    DirectIds,       \* and their ids
    BufferSize       \* telemetry_buffer_size

EntryType == [data_type : STRING, tags : SUBSET STRING, source : STRING,
              metric_name : STRING, words : SUBSET STRING, window : Nat \X Nat,
              total_updates : Nat]

ASSUME KnowledgeBaseAssumption ==
    /\ MetricNames \subseteq STRING /\ BufferSize \in Nat \ {0}
    /\ \A e \in DirectEntries : e \in EntryType /\ e.data_type # "raw_telemetry_event"
    /\ DirectIds \cap MetricNames = {}

(* The texts the knowledge base puts into an observation are strings,      *)
(* which is for the provers: to them a literal is a value of its own.      *)
ASSUME TextAssumption == {"observation", "aggregated", "swim_monitor", "first", "updated"} \subseteq STRING

(* A knowledge base is a record: `entries', ids to entries, where an       *)
(* observation of a metric has the metric as its id; `index', the five     *)
(* indexes; `buffers', metrics to the events they buffer.                  *)
VARIABLE kb

NoEntries == [i \in {} |-> {}]
EmptyBuffers == [m \in MetricNames |-> <<>>]
KBInit == kb = [entries |-> NoEntries, index |-> {}, buffers |-> EmptyBuffers]

-----------------------------------------------------------------------------
(* _add_to_indexes.  An empty source or metric_name is not indexed.        *)
FieldTriples(id, e) ==
    {<<"data_type", e.data_type, id>>}
    \cup {<<"tag", t, id>> : t \in e.tags}
    \cup {<<"source", s, id>> : s \in {e.source} \ {""}}
    \cup {<<"metric_name", m, id>> : m \in {e.metric_name} \ {""}}

Triples(id, e) == FieldTriples(id, e) \cup {<<"keyword", w, id>> : w \in e.words}

(* _remove_from_indexes: the fields by what the entry says now, keywords   *)
(* wherever the id is found.                                               *)
Unindexed(ix, id, e) ==
    ix \ (FieldTriples(id, e) \cup {t \in ix : t[1] = "keyword" /\ t[3] = id})

(* store, of an entry that is no raw telemetry: a stored entry of the same *)
(* id is replaced.                                                         *)
IndexWith(k, id, e) ==
    (IF id \in DOMAIN k.entries THEN Unindexed(k.index, id, k.entries[id]) ELSE k.index)
    \cup Triples(id, e)

EntriesWith(k, id, e) ==
    [i \in DOMAIN k.entries \cup {id} |-> IF i = id THEN e ELSE k.entries[i]]

Stored(k, id, e) ==
    [entries |-> EntriesWith(k, id, e), index |-> IndexWith(k, id, e), buffers |-> k.buffers]

(* delete                                                                  *)
IndexWithout(k, id) == Unindexed(k.index, id, k.entries[id])

Deleted(k, id) ==
    [entries |-> [i \in DOMAIN k.entries \ {id} |-> k.entries[i]],
     index |-> IndexWithout(k, id), buffers |-> k.buffers]

(* clear                                                                   *)
Cleared == [entries |-> NoEntries, index |-> {}, buffers |-> EmptyBuffers]

-----------------------------------------------------------------------------
(* _aggregate_and_store_buffer                                             *)
FirstObservation(m, window) ==
    [data_type |-> "observation", tags |-> {"aggregated", "observation", m},
     source |-> "swim_monitor", metric_name |-> m, words |-> {"first", m},
     window |-> window, total_updates |-> 1]

UpdatedObservation(e, m, window) ==
    [e EXCEPT !.words = {"updated", m}, !.window = window, !.total_updates = @ + 1]

Window(events) == <<events[1], events[Len(events)]>>

(* An observation that exists is changed where it is, and its index not.   *)
Aggregated(k, m, window) ==
    IF m \in DOMAIN k.entries
    THEN [k EXCEPT !.entries[m] = UpdatedObservation(@, m, window)]
    ELSE Stored(k, m, FirstObservation(m, window))

(* _handle_raw_telemetry                                                   *)
BugNextBuffer(buffer, n) ==
    IF Len(buffer) = BufferSize THEN Append(Tail(buffer), n) ELSE Append(buffer, n)
NextBuffer(buffer, n) == IF Len(buffer) = BufferSize THEN <<n>> ELSE Append(buffer, n)

WithRawTelemetry(k, m, n) ==
    LET aggregated == IF Len(k.buffers[m]) = BufferSize
                      THEN Aggregated(k, m, Window(k.buffers[m])) ELSE k
    IN  [aggregated EXCEPT !.buffers[m] = NextBuffer(@, n)]

-----------------------------------------------------------------------------
(* _execute_structured_query: candidates are narrowed by an index only     *)
(* when it finds something, and every one left is compared with the        *)
(* filters.  A filter that is not there is the empty set.                  *)
Ids(field, key) == {t[3] : t \in {u \in kb.index : u[1] = field /\ u[2] = key}}

Narrowed(candidates, found) == IF found = {} THEN candidates ELSE candidates \cap found

TaggedAll(tags) == {id \in {u[3] : u \in kb.index} : \A t \in tags : id \in Ids("tag", t)}

MatchesFilters(id, q) ==
    /\ q.tags \subseteq kb.entries[id].tags
    /\ q.source = {} \/ kb.entries[id].source \in q.source
    /\ q.metric_name = {} \/ kb.entries[id].metric_name \in q.metric_name

StructuredQuery(q) ==
    LET typed   == IF q.data_types = {} THEN DOMAIN kb.entries
                   ELSE DOMAIN kb.entries \cap UNION {Ids("data_type", d) : d \in q.data_types}
        tagged  == IF q.tags = {} THEN typed ELSE Narrowed(typed, TaggedAll(q.tags))
        sourced == Narrowed(tagged, UNION {Ids("source", s) : s \in q.source})
        named   == Narrowed(sourced, UNION {Ids("metric_name", m) : m \in q.metric_name})
    IN  {id \in named : MatchesFilters(id, q)}

(* The reference: every entry the query describes.                         *)
Scan(q) == {id \in DOMAIN kb.entries :
              /\ q.data_types = {} \/ kb.entries[id].data_type \in q.data_types
              /\ MatchesFilters(id, q)}

(* _execute_natural_language_query: the ids the keyword index has for all  *)
(* words asked for, each of which it then looks up.                        *)
KeywordIds(words) ==
    {id \in {t[3] : t \in kb.index} : \A w \in words : <<"keyword", w, id>> \in kb.index}
=============================================================================
