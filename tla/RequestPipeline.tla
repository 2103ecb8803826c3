--------------------------- MODULE RequestPipeline ---------------------------
(***************************************************************************)
(* The course of a request through the handlers of the six provider        *)
(* surfaces: what each of them checks, records, captures and counts, in    *)
(* which order, and on which paths it gives its concurrency slot back.     *)
(*                                                                         *)
(* The gate is the semaphore that ConcurrencyGate implements; checkFaults  *)
(* (FaultGate) and the writing of the response (StreamInjector) are here   *)
(* steps with the outcomes those modules allow.                            *)
(***************************************************************************)
EXTENDS Integers, Sequences, FiniteSets

CONSTANTS
  Requests,        \* requests, each handled by a goroutine of its own
  Arrivals,        \* what a request can be
  Crowds,          \* the requests that come together, [Requests -> Arrivals]
  MaxConcurrent,   \* [Providers -> max_concurrent]
  MaxRecorded,     \* maxRecordedRequests, 1000 in the code
  MaxClears        \* bound: times the recording is cleared

Providers == {"openai", "anthropic", "bedrock"}

Surfaces == {"chat", "messages", "completions", "responses", "converse", "embeddings"}
FaultOutcomes == {"none", "bad_header", "answer", "cut", "panic"}

ASSUME RequestsAssumption ==
  /\ IsFiniteSet(Requests)
  /\ \A a \in Arrivals : a.surface \in Surfaces \cup {"none"} /\ a.faults \in FaultOutcomes

ASSUME BoundsAssumption ==
  /\ Crowds \subseteq [Requests -> Arrivals]
  /\ MaxConcurrent \in [Providers -> Int]
  /\ MaxRecorded \in Nat \ {0} /\ MaxClears \in Nat

VARIABLES
  req,        \* the request
  at,         \* its position in the stages of its surface; 0 before it arrives
  result,     \* how it ended: a stage that refused it, or an outcome
  holds,      \* it was counted in by the gate
  active,     \* the active counters of the providers
  records,    \* state.records
  recorded,   \* history: requests recorded since the last clear, in order
  ever,       \* history: requests ever recorded
  captured,   \* history: requests captured by a scenario
  counted,    \* history: requests counted by NextAttempt
  clears,     \* history: how often the recording was cleared
  client      \* the client is connected

recording == <<records, recorded, ever, clears>>
oracles == <<recording, captured, counted>>
gate == <<holds, active>>
vars == <<req, at, result, gate, oracles, client>>
-----------------------------------------------------------------------------
(* The stages of each handler, in the order of its code.                   *)

handleOpenAIChat ==
  <<"gate", "body", "record", "decode", "scenario", "capture", "cache_control",
    "faults", "thinking_delay", "tokens", "slow_header", "respond">>

handleAnthropicMessages ==
  <<"auth", "gate", "body", "record", "decode", "scenario", "capture",
    "cache_control", "faults", "strict", "thinking_delay", "tokens", "slow_header",
    "respond">>

handleOpenAICompletions ==
  <<"unwired", "gate", "body", "record", "decode", "cache_control", "faults",
    "tokens", "slow_header", "respond">>

\* Mutant: faults come before the cache_control oracle.
ResponsesFaultsFirst ==
  <<"unwired", "gate", "body", "record", "decode", "faults", "cache_control",
    "thinking_delay", "tokens", "slow_header", "respond">>

handleOpenAIResponses ==
  <<"unwired", "gate", "body", "record", "decode", "cache_control", "faults",
    "thinking_delay", "tokens", "slow_header", "respond">>

\* Mutant: recorded only once the scenario has captured.
ConverseRecordsLate ==
  <<"gate", "body", "decode", "scenario", "capture", "record", "cache_control",
    "faults", "thinking_delay", "tokens", "slow_header", "respond">>

handleBedrockConverse ==
  <<"gate", "body", "record", "decode", "scenario", "capture", "cache_control",
    "faults", "thinking_delay", "tokens", "slow_header", "respond">>

handleOpenAIEmbeddings ==
  <<"unwired", "gate", "body", "record", "decode", "cache_control", "faults",
    "respond">>

Handler(surface) ==
  CASE surface = "chat" -> handleOpenAIChat
    [] surface = "messages" -> handleAnthropicMessages
    [] surface = "completions" -> handleOpenAICompletions
    [] surface = "responses" -> handleOpenAIResponses
    [] surface = "converse" -> handleBedrockConverse
    [] surface = "embeddings" -> handleOpenAIEmbeddings
    [] surface = "none" -> << >>   \* a request that never comes

Unwired == {"completions", "responses", "embeddings"}

providerOf(surface) ==
  IF surface = "messages" THEN "anthropic"
  ELSE IF surface = "converse" THEN "bedrock" ELSE "openai"

Stages(r) == Handler(req[r].surface)
Provider(r) == providerOf(req[r].surface)

Returning == 100
Over == 101
Running(r) == at[r] \in 1..Len(Stages(r))
In(r, stage) == Running(r) /\ Stages(r)[at[r]] = stage
-----------------------------------------------------------------------------
Init ==
  /\ req \in Crowds
  /\ at = [r \in Requests |-> 0]
  /\ result = [r \in Requests |-> "none"]
  /\ holds = [r \in Requests |-> FALSE]
  /\ active = [p \in Providers |-> 0]
  /\ records = << >>
  /\ recorded = << >>
  /\ ever = {}
  /\ captured = {}
  /\ counted = {}
  /\ clears = 0
  /\ client = [r \in Requests |-> TRUE]

Arrive(r) ==
  /\ at[r] = 0 /\ Stages(r) # << >>
  /\ at' = [at EXCEPT ![r] = 1]
  /\ UNCHANGED <<req, result, gate, oracles, client>>

Advance(r) == at' = [at EXCEPT ![r] = @ + 1] /\ UNCHANGED result

\* The handler is about to return: answered, cut or abandoned.
Return(r, how) ==
  /\ at' = [at EXCEPT ![r] = Returning]
  /\ result' = [result EXCEPT ![r] = how]

\* Mutant: a panic skips the release, which is not deferred.
ReleaseUnlessPanic(r) ==
  /\ at[r] = Returning
  /\ at' = [at EXCEPT ![r] = Over]
  /\ IF result[r] = "panic" THEN UNCHANGED gate
     ELSE /\ active' = [active EXCEPT ![Provider(r)] = IF holds[r] THEN @ - 1 ELSE @]
          /\ holds' = [holds EXCEPT ![r] = FALSE]
  /\ UNCHANGED <<req, result, oracles, client>>

\* The deferred ReleaseConcurrency, after the client may have its answer.
Release(r) ==
  /\ at[r] = Returning
  /\ at' = [at EXCEPT ![r] = Over]
  /\ active' = [active EXCEPT ![Provider(r)] = IF holds[r] THEN @ - 1 ELSE @]
  /\ holds' = [holds EXCEPT ![r] = FALSE]
  /\ UNCHANGED <<req, result, oracles, client>>

(***************************************************************************)
(* The stages that only look at the request and refuse it or let it pass.  *)
(***************************************************************************)
\* The oracle inspects what json.Unmarshal takes; the handlers decode the
\* first value of the body and leave what trails it alone.
LeakFound(r) == req[r].leak /\ req[r].body = "json"

Refused(r, stage) ==
  CASE stage = "auth" -> ~req[r].auth
    [] stage = "unwired" -> req[r].targeted
    [] stage = "body" -> req[r].body = "unreadable"
    [] stage = "decode" -> req[r].body = "malformed"
    [] stage = "scenario" -> req[r].scenario = "refused"
    [] stage = "cache_control" -> LeakFound(r)
    [] stage = "strict" -> req[r].off_spec
    [] stage = "tokens" -> req[r].bad_tokens

Checks == {"auth", "unwired", "body", "decode", "scenario", "cache_control", "strict",
           "tokens"}

Check(r) ==
  /\ \E stage \in Checks :
       /\ In(r, stage)
       /\ \/ ~Refused(r, stage) /\ Advance(r)
          \/ Refused(r, stage) /\ Return(r, stage)
  /\ UNCHANGED <<req, gate, oracles, client>>

(***************************************************************************)
(* The stages with effects.                                                *)
(***************************************************************************)
Limit(r) == MaxConcurrent[Provider(r)]

AcquireConcurrency(r) ==
  /\ In(r, "gate")
  /\ \/ /\ Limit(r) <= 0
        /\ Advance(r)
        /\ UNCHANGED gate
     \/ /\ Limit(r) > 0 /\ active[Provider(r)] < Limit(r)
        /\ Advance(r)
        /\ holds' = [holds EXCEPT ![r] = TRUE]
        /\ active' = [active EXCEPT ![Provider(r)] = @ + 1]
     \/ /\ Limit(r) > 0 /\ active[Provider(r)] >= Limit(r)
        /\ Return(r, "gate")
        /\ UNCHANGED gate
  /\ UNCHANGED <<req, oracles, client>>

\* Mutant: the oldest entries are kept.
Earliest(log) == IF Len(log) > MaxRecorded THEN SubSeq(log, 1, MaxRecorded) ELSE log

\* The newest MaxRecorded entries of a recording.
Newest(log) ==
  IF Len(log) > MaxRecorded THEN SubSeq(log, Len(log) - MaxRecorded + 1, Len(log)) ELSE log

RecordRequest(r) ==
  /\ In(r, "record")
  /\ records' = Newest(Append(records, r))
  /\ recorded' = Append(recorded, r)
  /\ ever' = ever \cup {r}
  /\ Advance(r)
  /\ UNCHANGED <<req, gate, captured, counted, clears, client>>

applyScenario(r) ==
  /\ In(r, "capture")
  /\ captured' = IF req[r].scenario = "match" THEN captured \cup {r} ELSE captured
  /\ Advance(r)
  /\ UNCHANGED <<req, gate, recording, counted, client>>

\* A malformed fault header is answered before the request counts; then it
\* goes on, is answered, cut, or panics on a status no response can have.
checkFaults(r) ==
  /\ In(r, "faults")
  /\ counted' = IF req[r].faults = "bad_header" THEN counted ELSE counted \cup {r}
  /\ IF req[r].faults = "none" THEN Advance(r) ELSE Return(r, req[r].faults)
  /\ UNCHANGED <<req, gate, recording, captured, client>>

Delays == {"thinking_delay", "slow_header"}

Delay(r) ==
  /\ \E stage \in Delays : In(r, stage)
  /\ Advance(r)
  /\ UNCHANGED <<req, gate, oracles, client>>

\* Mutant: a stalled response does not see its client leave.
GiveUpExceptStalls(r) ==
  /\ ~client[r]
  /\ \E stage \in Delays \cup {"faults"} : In(r, stage)
  /\ counted' = IF In(r, "faults") THEN counted \cup {r} ELSE counted
  /\ In(r, "faults") => req[r].faults # "bad_header"
  /\ Return(r, "gone")
  /\ UNCHANGED <<req, gate, recording, captured, client>>

\* A wait the client did not outlast: in fault processing, a delay or the
\* response itself.
GiveUp(r) ==
  /\ ~client[r]
  /\ \E stage \in Delays \cup {"faults", "respond"} : In(r, stage)
  /\ counted' = IF In(r, "faults") THEN counted \cup {r} ELSE counted
  /\ In(r, "faults") => req[r].faults # "bad_header"
  /\ Return(r, "gone")
  /\ UNCHANGED <<req, gate, recording, captured, client>>

\* The body or the stream is through, or a stream fault cut it.
Respond(r) ==
  /\ In(r, "respond")
  /\ ~req[r].stalls
  /\ \E how \in {"served", "cut"} : Return(r, how)
  /\ UNCHANGED <<req, gate, oracles, client>>

ClearRequests ==
  /\ clears < MaxClears
  /\ clears' = clears + 1
  /\ records' = << >>
  /\ recorded' = << >>
  /\ UNCHANGED <<req, at, result, gate, ever, captured, counted, client>>

ClientLeaves(r) ==
  /\ client[r] /\ Running(r)
  /\ client' = [client EXCEPT ![r] = FALSE]
  /\ UNCHANGED <<req, at, result, gate, oracles>>

Handle(r) ==
  \/ Check(r) \/ AcquireConcurrency(r) \/ RecordRequest(r) \/ applyScenario(r)
  \/ checkFaults(r) \/ Delay(r) \/ GiveUp(r) \/ Respond(r) \/ Release(r)

Next ==
  \/ \E r \in Requests : Arrive(r) \/ Handle(r) \/ ClientLeaves(r)
  \/ ClearRequests

Spec == Init /\ [][Next]_vars

\* Handlers run; clients of stalled responses need not leave.
FairSpec == Spec /\ \A r \in Requests : WF_vars(Handle(r))
-----------------------------------------------------------------------------
Outcomes == Checks \cup {"none", "gate", "bad_header", "answer", "cut", "panic", "gone",
                         "served"}

TypeOK ==
  /\ \A r \in Requests : at[r] \in 0..Len(Stages(r)) \cup {Returning, Over}
  /\ result \in [Requests -> Outcomes]
  /\ holds \in [Requests -> BOOLEAN]
  /\ active \in [Providers -> Int]
  /\ Len(records) <= MaxRecorded
  /\ clears \in 0..MaxClears
  /\ client \in [Requests -> BOOLEAN]

\* r has got past a stage of its handler.
Passed(r, stage) ==
  \E i \in 1..Len(Stages(r)) :
    Stages(r)[i] = stage /\ i < at[r] /\ (at[r] > Len(Stages(r)) => result[r] # stage)

(***************************************************************************)
(* The slots in use are those of the requests that are past the gate and   *)
(* have not returned, on every path out of the handlers: refusals, faults, *)
(* cuts, panics and clients that leave give the slot back exactly once,    *)
(* and the requests turned away before or at the gate take none (the       *)
(* deferred ReleaseConcurrency of every handler).                          *)
(***************************************************************************)
BeforeGate == {"none", "auth", "unwired", "gate"}

Inside(r) ==
  \/ Running(r) /\ (\E i \in 1..(at[r] - 1) : Stages(r)[i] = "gate")
  \/ at[r] = Returning /\ result[r] \notin BeforeGate

SlotsAreReturned ==
  \A p \in Providers :
    active[p] = IF MaxConcurrent[p] <= 0 THEN 0
                ELSE Cardinality({ r \in Requests : Provider(r) = p /\ Inside(r) })

(***************************************************************************)
(* The recording is the newest part of what was recorded since it was      *)
(* cleared, in order, whoever records concurrently (RecordRequest drops    *)
(* the oldest entries first).                                              *)
(***************************************************************************)
RecordingIsRecent ==
  LET kept == IF Len(recorded) < MaxRecorded THEN Len(recorded) ELSE MaxRecorded
  IN records = SubSeq(recorded, Len(recorded) - kept + 1, Len(recorded))

(***************************************************************************)
(* The oracles agree on every surface: a request that a scenario captured  *)
(* or an attempt counter counted was recorded, one that a scenario serves  *)
(* is captured before it is counted, and exactly the requests turned away  *)
(* for their credentials, their scenario header, a full gate or a body     *)
(* that cannot be read leave no record (the order of the handlers).  A     *)
(* scenario header on a surface that knows no scenarios gets its refusal   *)
(* and nothing else, so no oracle ever sees its request.                   *)
(***************************************************************************)
Unrecorded == {"auth", "unwired", "gate", "body"}

OraclesAgree ==
  /\ captured \cup counted \subseteq ever
  /\ \A r \in counted :
       req[r].surface \notin Unwired /\ req[r].scenario = "match" => r \in captured
  /\ \A r \in Requests :
       at[r] \in {Returning, Over} => (r \in ever <=> result[r] \notin Unrecorded)
  /\ \A r \in Requests :
       req[r].surface \in Unwired /\ req[r].targeted => result[r] \in {"none", "unwired"}

(***************************************************************************)
(* A leaked cache_control is what the request is answered with, on every   *)
(* surface, whatever fault is configured, and such a request does not      *)
(* count as an attempt; only what makes the request unusable comes first   *)
(* (README:175 "a configured fault can't mask the assertion").             *)
(***************************************************************************)
LeakIsNotMasked ==
  \A r \in Requests :
    LeakFound(r) =>
      /\ r \notin counted
      /\ result[r] \in {"none", "auth", "unwired", "gate", "scenario", "cache_control"}

(***************************************************************************)
(* A scenario header on a surface that does not know scenarios is refused  *)
(* whatever else the request is: even while the gate is full, and without  *)
(* taking a slot or leaving a record (rejectScenarioHeaderUnwired).        *)
(***************************************************************************)
UnwiredIsRefused ==
  \A r \in Requests :
    req[r].surface \in Unwired /\ req[r].targeted =>
      /\ result[r] \in {"none", "unwired"}
      /\ r \notin ever /\ ~holds[r]

(***************************************************************************)
(* A request that has come is over in the end, with its slot given back,   *)
(* unless its response stalls and its client stays with it for ever: one   *)
(* that leaves, before the stall or in the midst of it, lets the handler   *)
(* return (the waits on r.Context(), the deferred ReleaseConcurrency).     *)
(***************************************************************************)
Stalled(r) == In(r, "respond") /\ req[r].stalls /\ client[r]

RequestsEnd == \A r \in Requests : <>[](at[r] \in {0, Over} \/ Stalled(r))
=============================================================================
