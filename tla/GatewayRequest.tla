--------------------------- MODULE GatewayRequest ---------------------------
(***************************************************************************)
(* One chat-completion request through the gateway: the pipeline of         *)
(* chatCompletions and admitCandidates (internal/gateway/server.go), then   *)
(* tryBackends with its attemptWriter and the reverse proxy's ErrorHandler   *)
(* (internal/gateway/proxy.go), up to the metrics the handler records and    *)
(* the answer net/http sends.  The client may hang up between any two steps  *)
(* and every round trip may end in any of the ways the transport has.        *)
(***************************************************************************)
EXTENDS Integers, Sequences, FiniteSets

CONSTANTS
    Backends,   \* the InferenceDeployments that serve the model
    Statuses    \* status codes an upstream may answer with

ASSUME StatusAssumption == Statuses \subseteq 200..599
ASSUME BackendsAssumption == IsFiniteSet(Backends)

VARIABLES
    stage, mode,
    resolved,     \* what backendsFor returned, best first
    targets,      \* the reachable prefix every later stage sees
    decision,     \* the admission decision and what it cost
    i,            \* the attempt under way
    att,          \* its attemptWriter
    rec,          \* the statusRecorder
    lastFailure, advanced,
    cancelled,    \* r.Context() is done: the client hung up
    reply,        \* what was sent to the client
    errorsAtCancel, \* history: upstream_errors_total when the client hung up
    received,     \* backends the request was delivered to
    metrics       \* requests_total, upstream_errors_total, backend_fallbacks_total

reqVars == <<stage, mode, resolved, targets, decision, i, att, rec, lastFailure, advanced,
          cancelled, errorsAtCancel, reply, received, metrics>>

-----------------------------------------------------------------------------
maxBackendAttempts == 2

ToSet(s) == {s[n] : n \in DOMAIN s}

\* The orders in which backendsFor can return distinct candidates.
Candidates == {s \in UNION {[1..n -> Backends] : n \in 1..Cardinality(Backends)} :
                  \A m, n \in DOMAIN s : m # n => s[m] # s[n]}

Modes    == {"off", "static-cap", "kv-aware"}
Pipeline == <<"auth", "policy", "limit", "parse", "route">>

\* The status codes each stage can end the request with.
RefusalCodes ==
    [auth   |-> {503, 401},   \* the Secret is unreadable; no such key
     policy |-> {403, 502},   \* ErrNoPolicy; the lookup failed
     limit  |-> {503, 429},   \* limiter never initialised; no token left
     parse  |-> {413, 400},   \* MaxBytesError; malformed or no model
     route  |-> {404, 502}]   \* ErrNoRoute; the lookup failed

Gateway == "gateway"          \* the writer of a response the gateway composed
NoClient == [status |-> 0, writers |-> {}, headers |-> {}]
NewAttempt(last) == [suppress |-> ~last, failed |-> FALSE, wrote |-> FALSE,
                     replayable |-> FALSE, scratch |-> {}]

FinalAttempt == i = Len(targets)
Ended == stage \in {"done", "aborted"}

ReqInit ==
    /\ stage = "auth"
    /\ mode \in Modes
    /\ resolved = <<>> /\ targets = <<>>
    /\ decision = [made |-> FALSE, admit |-> FALSE, reason |-> "", charges |-> 0,
                   asked |-> {}, registered |-> {}]
    /\ i = 0
    /\ att = NewAttempt(TRUE)
    /\ rec = [code |-> 200, answered |-> FALSE]
    /\ lastFailure = 0 /\ advanced = FALSE
    /\ cancelled = FALSE /\ errorsAtCancel = 0
    /\ reply = NoClient
    /\ received = {}
    /\ metrics = [requests |-> <<>>, upstreamErrors |-> 0, fallbacks |-> 0]

cancelVars == <<cancelled, errorsAtCancel>>
proxyVars == <<i, att, rec, lastFailure, advanced, received>>

-----------------------------------------------------------------------------
(* Stages 1 to 6.                                                          *)

\* fail, failUnresolvedModel, failReason: count the code and write the envelope.
Fail(code) ==
    /\ stage' = "done"
    /\ reply' = [status |-> code, writers |-> {Gateway}, headers |-> {Gateway}]
    /\ metrics' = [metrics EXCEPT !.requests = Append(@, code)]

\* A stage refuses the request.
StageRefuses(s) ==
    /\ stage = Pipeline[s]
    /\ \E code \in RefusalCodes[Pipeline[s]] : Fail(code)
    /\ UNCHANGED <<mode, resolved, targets, decision, proxyVars, cancelVars>>

\* A stage before routing lets it pass.
StagePasses(s) ==
    /\ s < Len(Pipeline) /\ stage = Pipeline[s]
    /\ stage' = Pipeline[s + 1]
    /\ UNCHANGED <<mode, resolved, targets, decision, proxyVars, cancelVars, reply, metrics>>

CapBackendAttempts(s) == SubSeq(s, 1, IF Len(s) > maxBackendAttempts
                                      THEN maxBackendAttempts ELSE Len(s))

\* backendsFor found candidates; the reachable set is cut once, here.
Route ==
    /\ stage = "route"
    /\ \E order \in Candidates : /\ resolved' = order
                                /\ targets' = CapBackendAttempts(order)
    /\ stage' = "admit"
    /\ UNCHANGED <<mode, decision, proxyVars, cancelVars, reply, metrics>>

-----------------------------------------------------------------------------
(* Stage 7: admitCandidates and the refusal.                               *)

\* static-cap is stateful: it is asked about the head only, and an eligible
\* request it admits is charged to that backend's bucket.
AskHead ==
    \/ \E r \in {"premium_tier", "below_threshold", "within_budget"} :
          decision' = [made |-> TRUE, admit |-> TRUE, reason |-> r,
                       charges |-> IF r = "within_budget" THEN 1 ELSE 0,
                       asked |-> {targets[1]}, registered |-> {}]
    \/ \E r \in {"input_exceeds_burst", "input_rate_limit"} :
          decision' = [made |-> TRUE, admit |-> FALSE, charges |-> 0, reason |-> r,
                       asked |-> {targets[1]}, registered |-> {}]

\* kv-aware registers every candidate and asks about each until one dissents.
\* The reason of an admit is not returned.
AskEvery ==
    \/ decision' = [made |-> TRUE, admit |-> TRUE, charges |-> 0, reason |-> "",
                    asked |-> ToSet(targets), registered |-> ToSet(targets)]
    \/ \E n \in DOMAIN targets :
          decision' = [made |-> TRUE, admit |-> FALSE, charges |-> 0,
                       reason |-> "kv_cache_pressure",
                       asked |-> ToSet(SubSeq(targets, 1, n)),
                       registered |-> ToSet(targets)]

AdmitCandidates ==
    \/ /\ mode = "off"
       /\ decision' = [made |-> TRUE, admit |-> TRUE, charges |-> 0, reason |-> "admission_off",
                       asked |-> {targets[1]}, registered |-> {}]
    \/ mode = "static-cap" /\ AskHead
    \/ mode = "kv-aware" /\ AskEvery

\* The refusal: 413 when no later attempt could fit either, else 429.
AdmitOrRefuse ==
    /\ stage = "admit"
    /\ AdmitCandidates
    /\ \/ /\ decision'.admit
          /\ stage' = "attempt" /\ i' = 1
          /\ UNCHANGED <<reply, metrics>>
       \/ /\ ~decision'.admit
          /\ Fail(IF decision'.reason = "input_exceeds_burst" THEN 413 ELSE 429)
          /\ UNCHANGED i
    /\ UNCHANGED <<mode, resolved, targets, att, rec, lastFailure, advanced, cancelVars, received>>

-----------------------------------------------------------------------------
(* Stage 8: tryBackends.                                                   *)

pipelineVars == <<mode, resolved, targets, decision>>

\* One iteration starts: a fresh attemptWriter and proxy, then ServeHTTP.
StartAttempt ==
    /\ stage = "attempt"
    /\ att' = NewAttempt(FinalAttempt)
    /\ stage' = "roundtrip"
    /\ UNCHANGED <<pipelineVars, i, rec, lastFailure, advanced, cancelVars, reply, received, metrics>>

\* Mutant of Commit: Header() is the real writer's map, so what a suppressed
\* attempt set stays behind in it.
CommitSharedHeader(a, code, writer) ==
    IF a.failed /\ a.suppress
    THEN /\ att' = a
         /\ reply' = [reply EXCEPT !.headers = @ \cup {writer}]
    ELSE /\ att' = [a EXCEPT !.wrote = TRUE]
         /\ reply' = [status  |-> IF reply.status = 0 THEN code ELSE reply.status,
                      writers |-> reply.writers \cup {writer},
                      headers |-> reply.headers \cup {writer}]

\* attemptWriter.WriteHeader: promote this attempt's headers and send, unless a
\* failed attempt is being suppressed.
Commit(a, code, writer) ==
    IF a.failed /\ a.suppress
    THEN /\ att' = [a EXCEPT !.scratch = {writer}]
         /\ UNCHANGED reply
    ELSE /\ att' = [a EXCEPT !.wrote = TRUE, !.scratch = {}]
         /\ reply' = [status  |-> IF reply.status = 0 THEN code ELSE reply.status,
                      writers |-> reply.writers \cup {writer},
                      headers |-> reply.headers \cup {writer}]

\* How a round trip fails, and what the ErrorHandler can tell of it: a dial
\* that never connected, a pooled connection that broke before anything was
\* sent, or any failure after the request was delivered.
Failures ==
    [sent : {FALSE}, dialOp : {TRUE}, code : {502, 504}]
    \cup [sent : BOOLEAN, dialOp : {FALSE}, code : {502, 504}]

\* Mutant of NeverReachedBackend: "the client saw nothing" taken as evidence.
NeverReachedBackendAlways(f) == TRUE

NeverReachedBackend(f) == f.dialOp

\* The round trip fails: ErrorHandler reports the failure, then writes the
\* gateway's envelope through the attempt's writer.
RoundTripFails ==
    /\ stage = "roundtrip"
    /\ \E f \in Failures :
          LET a == [att EXCEPT !.failed = TRUE, !.replayable = NeverReachedBackend(f)]
              shown == ~(a.failed /\ a.suppress) IN
          /\ received' = IF f.sent THEN received \cup {targets[i]} ELSE received
          /\ metrics' = [metrics EXCEPT !.upstreamErrors = @ + 1]
          /\ lastFailure' = f.code
          /\ rec' = [code |-> IF FinalAttempt \/ shown THEN f.code ELSE rec.code,
                     answered |-> rec.answered \/ shown]
          /\ Commit(a, f.code, Gateway)
    /\ stage' = "between"
    /\ UNCHANGED <<pipelineVars, i, advanced, cancelVars>>

\* The upstream answers: its status and headers are committed to the client and
\* the body starts to stream.
UpstreamAnswers(status) ==
    /\ stage = "roundtrip" /\ ~cancelled
    /\ received' = received \cup {targets[i]}
    /\ rec' = [code |-> status, answered |-> TRUE]
    /\ Commit(att, status, targets[i])
    /\ stage' = "streaming"
    /\ UNCHANGED <<pipelineVars, i, lastFailure, advanced, cancelVars, metrics>>

\* The body was copied to the end.
StreamEnds ==
    /\ stage = "streaming" /\ ~cancelled
    /\ stage' = "between"
    /\ UNCHANGED <<pipelineVars, proxyVars, cancelVars, reply, metrics>>

\* The upstream or the client broke mid-body: ReverseProxy panics with
\* http.ErrAbortHandler and the rest of the handler does not run.
StreamBreaks ==
    /\ stage = "streaming"
    /\ stage' = "aborted"
    /\ UNCHANGED <<pipelineVars, proxyVars, cancelVars, reply, metrics>>

\* The guards that let the loop go on to another candidate.
MayRetry ==
    /\ att.failed /\ ~att.wrote /\ ~FinalAttempt
    /\ att.replayable
    /\ ~cancelled

\* Past every guard: the next iteration tries another backend.
NextBackend ==
    /\ stage = "between" /\ MayRetry
    /\ i' = i + 1 /\ advanced' = TRUE
    /\ stage' = "attempt"
    /\ UNCHANGED <<pipelineVars, att, rec, lastFailure, cancelVars, reply, received, metrics>>

\* Mutant of FinalCode: the recorder's seeded 200 is published as it stands.
FinalCodeSeeded == rec.code

\* Nothing reached the client: the last failure is what happened.
FinalCode == IF ~rec.answered /\ lastFailure # 0 THEN lastFailure ELSE rec.code

\* A fallback is counted when another candidate was tried and its answer is 2xx/3xx.
CountsAsFallback(code) == advanced /\ code >= 200 /\ code < 400

\* tryBackends returns: account for the request and let the handler return.
\* net/http sends an implicit empty 200 for a handler that wrote nothing.
Account ==
    /\ stage = "between" /\ ~MayRetry
    /\ rec' = [rec EXCEPT !.code = FinalCode]
    /\ metrics' = [metrics EXCEPT !.requests = Append(@, FinalCode),
                                  !.fallbacks = IF CountsAsFallback(FinalCode) THEN @ + 1 ELSE @]
    /\ reply' = IF reply.status = 0 THEN [reply EXCEPT !.status = 200] ELSE reply
    /\ stage' = "done"
    /\ UNCHANGED <<pipelineVars, i, att, lastFailure, advanced, cancelVars, received>>

\* The client hangs up.
ClientCancels ==
    /\ ~cancelled /\ ~Ended
    /\ cancelled' = TRUE /\ errorsAtCancel' = metrics.upstreamErrors
    /\ UNCHANGED <<stage, pipelineVars, proxyVars, reply, metrics>>

ReqNext ==
    \/ \E s \in DOMAIN Pipeline : StageRefuses(s) \/ StagePasses(s)
    \/ Route \/ AdmitOrRefuse
    \/ StartAttempt \/ RoundTripFails
    \/ \E status \in Statuses : UpstreamAnswers(status)
    \/ StreamEnds \/ StreamBreaks
    \/ NextBackend \/ Account
    \/ ClientCancels

ReqSpec == ReqInit /\ [][ReqNext]_reqVars

-----------------------------------------------------------------------------
(* Properties.                                                             *)

ReqTypeOK ==
    /\ stage \in ToSet(Pipeline) \cup {"admit", "attempt", "roundtrip", "streaming", "between",
                                    "done", "aborted"}
    /\ mode \in Modes
    /\ resolved \in Seq(Backends) /\ targets \in Seq(Backends)
    /\ Len(targets) <= maxBackendAttempts
    /\ i \in 0..maxBackendAttempts
    /\ att \in [suppress : BOOLEAN, failed : BOOLEAN, wrote : BOOLEAN, replayable : BOOLEAN,
                scratch : SUBSET (Backends \cup {Gateway})]
    /\ rec \in [code : Nat, answered : BOOLEAN]
    /\ lastFailure \in {0, 502, 504}
    /\ advanced \in BOOLEAN /\ cancelled \in BOOLEAN /\ errorsAtCancel \in Nat
    /\ reply \in [status : Nat, writers : SUBSET (Backends \cup {Gateway}),
                   headers : SUBSET (Backends \cup {Gateway})]
    /\ received \subseteq Backends
    /\ metrics.upstreamErrors \in Nat /\ metrics.fallbacks \in Nat

\* neverReachedBackend (proxy.go:487-504): a completion is not idempotent, so no
\* request is ever delivered to two backends.
AtMostOneBackend == Cardinality(received) <= 1

\* attemptWriter (proxy.go:506-538): the client hears one voice.  Status, body and
\* headers come from a single attempt, and a suppressed one leaves no trace.
OneVoice ==
    /\ Cardinality(reply.writers) <= 1
    /\ reply.writers # {} => reply.headers \subseteq reply.writers

\* server.go:521-529: requests_total counts a success only when a backend gave
\* the client that very status.
RecordedSuccessIsReal ==
    \A n \in DOMAIN metrics.requests :
        metrics.requests[n] < 400 =>
            /\ reply.status = metrics.requests[n]
            /\ reply.writers \subseteq Backends /\ reply.writers # {}

\* metrics.go:95-104: a counted fallback is a request the head never received
\* and the spare answered with 2xx or 3xx.
FallbackIsRescue ==
    metrics.fallbacks > 0 =>
        /\ reply.writers = {targets[2]} /\ received = {targets[2]}
        /\ reply.status >= 200 /\ reply.status < 400

\* tryBackends on a cancelled request (proxy.go:682-689): one disconnect is at
\* most one upstream error, wherever in the loop it happens.
OneErrorPerDisconnect ==
    cancelled => metrics.upstreamErrors <= errorsAtCancel + 1

-----------------------------------------------------------------------------
(* What comments say and the code does not keep.                           *)

\* Stage 8 of chatCompletions: "proxy: hand off upstream (502/504, or whatever the
\* upstream returns)" (server.go:276): a client that is still there and that no
\* backend answered is told so.
ClientSeesFailure ==
    stage = "done" /\ ~cancelled /\ reply.writers \cap Backends = {} => reply.status >= 400

\* "The reason travels on every decision, not only refusals" (server.go:453).
ReasonOnEveryDecision == decision.made => decision.reason # ""

\* requests "counts handled requests by tenant, model, and status code"
\* (metrics.go:53): every request that ends is counted exactly once.
EveryRequestCounted == Ended => Len(metrics.requests) = 1
=============================================================================
