------------------------------ MODULE NLAServer ------------------------------
(***************************************************************************)
(* The NLA server, the language model POLARIS's reasoner may be pointed    *)
(* at: completions, which leave a trace of the activations behind their    *)
(* tokens, and the chat and the analyses of the web page.  Every request   *)
(* is handled by a thread of a pool, over one model whose probe layer      *)
(* leaves what it computed in one cache for all of them (_act_cache).      *)
(*                                                                         *)
(* Activations are known by the request whose tokens the model was fed and *)
(* by which: those of "all" its tokens, of a "prefix", or what its         *)
(* "decoding" left, the last token but one.  A trace is two files of a     *)
(* run's directory, known by its number there; a file is torn from the     *)
(* moment it is opened until it is written.                                *)
(***************************************************************************)
EXTENDS Naturals, FiniteSets

CONSTANTS
    NLARequests,     \* the requests the server may get
    NoRequest,
    NLASetups,       \* the deployments to consider
    MaxStarts        \* bound: the processes of the server, one after the other

(* NLA_CAPTURE, whether NLA_RUN_ID names the run, and whether whoever asks *)
(* waits for the answer before anyone asks again.                          *)
NLASetupType == [capture : {"off", "text", "full"}, named : BOOLEAN, serial : BOOLEAN]

ASSUME NLAAssumption ==
    /\ IsFiniteSet(NLARequests) /\ NoRequest \notin NLARequests
    /\ NLASetups \subseteq NLASetupType /\ MaxStarts \in Nat \ {0}

VARIABLES
    nla,
    starts,          \* processes so far
    asked, stage,    \* per request: what it asks, and how far its thread is
    resid,           \* _act_cache["resid"]
    taken,           \* per request: the activations its thread read
    file, sidecar,   \* per request: where its trace goes, and what became of it
    count,           \* TraceWriter._n
    npz, json,       \* the files
    trace_error,     \* state["trace_error"] is set
    listed           \* the traces the page shows

requestVars == <<asked, stage, taken, file, sidecar>>
diskVars == <<npz, json>>
nlaVars == <<nla, starts, requestVars, resid, count, diskVars, trace_error, listed>>

NoFile == <<0, 0>>
Files == (1..MaxStarts) \X (1..Cardinality(NLARequests))
Activations == [of : NLARequests, tokens : {"all", "prefix", "decoding"}]
None == [of |-> NoRequest, tokens |-> "none"]
Absent == [written |-> "no", of |-> NoRequest]
Ended == {"answered", "refused", "error", "lost"}

NLATypeOK ==
    /\ nla \in NLASetups /\ starts \in 1..MaxStarts
    /\ asked \in [NLARequests -> {"nothing", "completion", "chat", "analysis"}]
    /\ stage \in [NLARequests -> Ended \cup {"unasked", "generate", "number", "forward", "read",
                                             "save", "saving", "describe", "describing"}]
    /\ resid \in Activations \cup {None} /\ taken \in [NLARequests -> Activations \cup {None}]
    /\ file \in [NLARequests -> Files \cup {NoFile}]
    /\ sidecar \in [NLARequests -> {"text", "activations", "error", "unwritten"}]
    /\ count \in 0..Cardinality(NLARequests)
    /\ npz \in [Files -> [written : {"no", "torn", "whole"}, of : NLARequests \cup {NoRequest}]]
    /\ json \in [Files -> [written : {"no", "torn", "whole"}, of : NLARequests \cup {NoRequest}]]
    /\ trace_error \in BOOLEAN /\ listed \subseteq Files

NLAInit ==
    /\ nla \in NLASetups /\ starts = 1
    /\ asked = [r \in NLARequests |-> "nothing"] /\ stage = [r \in NLARequests |-> "unasked"]
    /\ resid = None /\ taken = [r \in NLARequests |-> None]
    /\ file = [r \in NLARequests |-> NoFile] /\ sidecar = [r \in NLARequests |-> "text"]
    /\ count = 0
    /\ npz = [f \in Files |-> Absent] /\ json = [f \in Files |-> Absent]
    /\ trace_error = FALSE /\ listed = {}

-----------------------------------------------------------------------------
Goes(r, s) == stage' = [stage EXCEPT ![r] = s]
InHand == {r \in NLARequests : stage[r] \notin Ended \cup {"unasked"}}

(* What the page and the completions endpoint check before they begin.     *)
Ask(r) ==
    /\ stage[r] = "unasked" /\ (nla.serial => InHand = {})
    /\ \E k \in {"completion", "chat", "analysis"} :
          /\ asked' = [asked EXCEPT ![r] = k]
          /\ Goes(r, IF k = "analysis" THEN "forward" ELSE "generate") \/ Goes(r, "refused")
    /\ UNCHANGED <<nla, starts, resid, taken, file, sidecar, count, diskVars, trace_error, listed>>

(* NLAInference.chat: every token decoded goes through the probe layer.    *)
Decode(r) ==
    /\ stage[r] = "generate"
    /\ resid' = [of |-> r, tokens |-> "decoding"]
    /\ UNCHANGED <<nla, starts, requestVars, count, diskVars, trace_error, listed>>

Generated(r) ==
    /\ stage[r] = "generate"
    /\ \/ /\ resid' = [of |-> r, tokens |-> "decoding"]
          /\ Goes(r, IF asked[r] = "chat" \/ nla.capture = "off" THEN "answered" ELSE "number")
       \/ Goes(r, "error") /\ UNCHANGED resid
    /\ UNCHANGED <<nla, starts, asked, taken, file, sidecar, count, diskVars, trace_error, listed>>

(* next_request_id, under its lock.                                        *)
Directory == IF nla.named THEN 1 ELSE starts

Number(r) ==
    /\ stage[r] = "number"
    /\ count' = count + 1
    /\ file' = [file EXCEPT ![r] = <<Directory, count + 1>>]
    /\ Goes(r, IF nla.capture = "full" THEN "forward" ELSE "describe")
    /\ UNCHANGED <<nla, starts, asked, resid, taken, sidecar, diskVars, trace_error, listed>>

(* activations_for and _extract_activation: a pass over the tokens, and    *)
(* what the hook left.                                                     *)
BugPass(r) == UNCHANGED resid
Pass(r) == resid' = [of |-> r, tokens |-> IF asked[r] = "analysis" THEN "prefix" ELSE "all"]

Forward(r) ==
    /\ stage[r] = "forward"
    /\ Pass(r) /\ Goes(r, "read")
    /\ UNCHANGED <<nla, starts, asked, taken, file, sidecar, count, diskVars, trace_error, listed>>

Read(r) ==
    /\ stage[r] = "read"
    /\ taken' = [taken EXCEPT ![r] = resid]
    /\ Goes(r, IF asked[r] = "analysis" THEN "answered" ELSE "save")
    /\ UNCHANGED <<nla, starts, asked, resid, file, sidecar, count, diskVars, trace_error, listed>>

(* Out of memory, before the hook or after it.                             *)
PassFails(r) ==
    /\ stage[r] \in {"forward", "read"}
    /\ IF asked[r] = "analysis"
       THEN Goes(r, "error") /\ UNCHANGED trace_error
       ELSE Goes(r, "describe") /\ trace_error' = TRUE
    /\ UNCHANGED <<nla, starts, asked, resid, taken, file, sidecar, count, diskVars, listed>>

-----------------------------------------------------------------------------
(* TraceWriter.write                                                       *)

SaveActivations(r) ==
    /\ \/ /\ stage[r] = "save"                         \* the file is opened
          /\ npz' = [npz EXCEPT ![file[r]] = [written |-> "torn", of |-> r]]
          /\ Goes(r, "saving") /\ UNCHANGED sidecar
       \/ /\ stage[r] = "saving"
          /\ npz' = [npz EXCEPT ![file[r]] = [written |-> "whole", of |-> r]]
          /\ Goes(r, "describe") /\ sidecar' = [sidecar EXCEPT ![r] = "activations"]
       \/ /\ stage[r] \in {"save", "saving"}           \* an exception
          /\ Goes(r, "describe") /\ sidecar' = [sidecar EXCEPT ![r] = "error"]
          /\ UNCHANGED npz
    /\ UNCHANGED <<nla, starts, asked, resid, taken, file, count, json, trace_error, listed>>

WriteSidecar(r) ==
    /\ \/ /\ stage[r] = "describe"
          /\ json' = [json EXCEPT ![file[r]] = [written |-> "torn", of |-> r]]
          /\ Goes(r, "describing") /\ UNCHANGED sidecar
       \/ /\ stage[r] = "describing"
          /\ json' = [json EXCEPT ![file[r]] = [written |-> "whole", of |-> r]]
          /\ Goes(r, "answered") /\ UNCHANGED sidecar
       \/ /\ stage[r] \in {"describe", "describing"}
          /\ Goes(r, "answered") /\ sidecar' = [sidecar EXCEPT ![r] = "unwritten"]
          /\ UNCHANGED json
    /\ UNCHANGED <<nla, starts, asked, resid, taken, file, count, npz, trace_error, listed>>

-----------------------------------------------------------------------------
(* The process ends, with what its threads were doing, and another one     *)
(* numbers its traces from the beginning.                                  *)
Restart ==
    /\ starts < MaxStarts
    /\ starts' = starts + 1 /\ count' = 0 /\ resid' = None /\ trace_error' = FALSE
    /\ stage' = [r \in NLARequests |-> IF r \in InHand THEN "lost" ELSE stage[r]]
    /\ UNCHANGED <<nla, asked, taken, file, sidecar, diskVars, listed>>

(* get_trace: what is no JSON is an error of the server.                   *)
Opens(f) == json[f].written = "whole"

(* list_traces of a run: what does not parse is skipped.                   *)
ListTraces ==
    /\ \E d \in 1..starts : listed' = {f \in Files : f[1] = d /\ Opens(f)}
    /\ UNCHANGED <<nla, starts, requestVars, resid, count, diskVars, trace_error>>

Serve(r) == Generated(r) \/ Number(r) \/ Forward(r) \/ Read(r) \/ PassFails(r)
            \/ SaveActivations(r) \/ WriteSidecar(r)

NLANext == (\E r \in NLARequests : Ask(r) \/ Decode(r) \/ Serve(r)) \/ Restart \/ ListTraces

(* A thread of the pool goes on; max_new_tokens ends the decoding.         *)
NLAFairness == \A r \in NLARequests : WF_nlaVars(Serve(r))

-----------------------------------------------------------------------------
(* A run named by NLA_RUN_ID goes on in the directory of its last process. *)
Reused == nla.named /\ starts > 1

Traces == {f \in Files : json[f].written = "whole"}
Promises(f) == sidecar[json[f].of] = "activations"

(* load_trace of a run whose directory is its own: a sidecar that was      *)
(* written and names activations has the whole file of the same call.      *)
PairsMatch ==
    ~Reused => \A f \in Traces : Promises(f) => npz[f] = [written |-> "whole", of |-> json[f].of]

(* While whoever asks waits for the answer, a trace holds one activation   *)
(* for each token of its own call, and an analysis explains its own text.  *)
(* Two requests at once may take each other's (inference.py:192).          *)
OwnActivations ==
    nla.serial =>
       /\ \A f \in Traces : Promises(f) => taken[json[f].of] = [of |-> json[f].of, tokens |-> "all"]
       /\ \A r \in NLARequests :
             asked[r] = "analysis" /\ stage[r] = "answered"
             => taken[r] = [of |-> r, tokens |-> "prefix"]

(* Every completion answered while traces are kept has one, or its sidecar *)
(* could not be written; no other call takes its number.                   *)
AnsweredAreTraced ==
    ~Reused /\ nla.capture # "off" =>
       \A r \in NLARequests :
          asked[r] = "completion" /\ stage[r] = "answered" /\ sidecar[r] # "unwritten"
          => json[file[r]] = [written |-> "whole", of |-> r]

(* A full trace without activations says why, or /api/health does.         *)
FailuresShown ==
    ~Reused /\ nla.capture = "full" =>
       \A f \in Traces : f[1] = Directory /\ sidecar[json[f].of] = "text" => trace_error

(* What the page lists can be opened.                                      *)
ListedOpens == ~Reused => \A f \in listed : Opens(f)

(* What holds of the server and of the traces it leaves: the five above.   *)
NLAInv == NLATypeOK /\ PairsMatch /\ OwnActivations /\ AnsweredAreTraced /\ FailuresShown
          /\ ListedOpens

(* A call that is taken up is answered, with what it asked or an error,    *)
(* unless the server goes down.                                            *)
EveryCallAnswered == \A r \in NLARequests : r \in InHand ~> stage[r] \in Ended
=============================================================================
