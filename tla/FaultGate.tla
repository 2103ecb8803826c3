------------------------------ MODULE FaultGate ------------------------------
(***************************************************************************)
(* Fault processing of one provider: checkFaults of src/fault.go with the  *)
(* shared state of src/state.go it works on.  Handlers take their snapshot *)
(* of configuration and limiter, draw attempt numbers from atomic counters *)
(* no lock protects, pass the rate limiter, and walk the configured faults *)
(* with cancelable waits, while admin requests swap the configuration and  *)
(* zero the counters.                                                      *)
(*                                                                         *)
(* A request is served once; `client` says whether its client is still     *)
(* connected.  A configuration is a record of the knobs the gate reads; a  *)
(* header is a record of some of these knobs.                              *)
(***************************************************************************)
EXTENDS Integers, Sequences, FiniteSets

CONSTANTS
  Requests,         \* requests, each handled by a goroutine of its own
  Scenarios,        \* registered scenarios, each with an attempt counter
  Configs,          \* provider configurations an admin may install
  InitialConfig,    \* the configuration of the start-up file
  ScenarioConfig,   \* [Scenarios -> configuration]
  Headers,          \* values of X-MockLM-Fault: NoHeader, BadHeader, records
  NoHeader, BadHeader,
  NoLimiter,        \* nil
  MaxSwaps,         \* bound: configuration swaps
  MaxZeroings       \* bound: resets of one attempt counter by an admin

Knobs == {"rate_limit_rpm", "fail_first_n", "error_rate", "timeout_ms",
          "latency_ms", "faults", "attempt_faults"}

ASSUME BoundsAssumption == MaxSwaps \in Nat /\ MaxZeroings \in Nat

ASSUME ConfigAssumption ==
  /\ InitialConfig \in Configs
  /\ \A c \in Configs :
       DOMAIN c = Knobs /\ c.rate_limit_rpm \in Int /\ c.fail_first_n \in Int
  /\ \A s \in Scenarios :
       /\ DOMAIN ScenarioConfig[s] = Knobs
       /\ ScenarioConfig[s].rate_limit_rpm = 0
       /\ ScenarioConfig[s].fail_first_n \in Int

ASSUME HeaderAssumption ==
  \A h \in Headers \ {NoHeader, BadHeader} :
    "fail_first_n" \in DOMAIN h => h.fail_first_n \in Int

ASSUME NilAssumption ==
  /\ NoHeader \in Headers /\ NoHeader # BadHeader
  /\ NoLimiter \notin Nat
  /\ "provider" \notin Scenarios

VARIABLES
  config,           \* cfg of the provider
  limiter,          \* its *RateLimiter: the number of the swap that built it
  swaps,            \* how often the configuration was swapped
  counter,          \* the attempt counters: one provider, one per scenario
  zeroings,         \* history: how often each counter was zeroed
  used,             \* entries in the window of each limiter
  rate,             \* rl.rpm of each limiter
  stage,            \* where each handler is
  cfg,              \* the handler's own copy of the configuration
  reqLimiter,       \* the limiter it snapshotted
  takenAt,          \* history: the swap its snapshot belongs to
  scenario,         \* the scenario it matched, or Provider
  header,           \* the X-MockLM-Fault header it carries
  drawn,            \* the number drawn from each counter, 0 if none
  drawnIn,          \* history: zeroings of the counter when it was drawn
  admitted,         \* history: the limiter let it pass
  step,             \* position in the walk over the pre-body faults
  answers,          \* responses started
  result,           \* how the request ended
  client            \* the client is connected

Provider == "provider"
Counters == {Provider} \cup Scenarios
Swaps == 0..MaxSwaps
Limiters == Swaps \cup {NoLimiter}

shared == <<config, limiter, swaps, counter, zeroings, used, rate>>
identity == <<reqLimiter, takenAt, scenario, header>>
outcome == <<answers, result>>
local == <<stage, cfg, identity, drawn, drawnIn, admitted, step, outcome, client>>
vars == <<shared, local>>

Stages == {"idle", "begun", "own_counter", "resolve", "errors", "walk", "served",
           "over"}

Results == {"none", "bad_header", "bad_spec", "rate_limited", "fail_first",
            "random_error", "fault_error", "non_json_body", "bad_gateway",
            "served", "cut", "gone"}

\* A disconnect that has a WHEN is of the stream phase.
StreamModes == {"malformed_chunk", "unknown_event", "unknown_block",
                "stream_error", "stall", "disconnect_mid_stream"}
PreBodyModes == {"delay", "error", "non_json_body", "disconnect"}
-----------------------------------------------------------------------------
(* Configuration swaps. *)

\* rebuildLimiters: a limiter exists exactly when a rate is configured.
LimiterFor(c, n) == IF c.rate_limit_rpm > 0 THEN n ELSE NoLimiter

Init ==
  /\ config = InitialConfig
  /\ limiter = LimiterFor(InitialConfig, 0)
  /\ swaps = 0
  /\ counter = [c \in Counters |-> 0]
  /\ zeroings = [c \in Counters |-> 0]
  /\ used = [n \in Swaps |-> 0]
  /\ rate = [n \in Swaps |-> IF n = 0 THEN InitialConfig.rate_limit_rpm ELSE 0]
  /\ stage = [r \in Requests |-> "idle"]
  /\ cfg = [r \in Requests |-> InitialConfig]
  /\ reqLimiter = [r \in Requests |-> NoLimiter]
  /\ takenAt = [r \in Requests |-> 0]
  /\ scenario = [r \in Requests |-> Provider]
  /\ header = [r \in Requests |-> NoHeader]
  /\ drawn = [r \in Requests |-> [c \in Counters |-> 0]]
  /\ drawnIn = [r \in Requests |-> [c \in Counters |-> 0]]
  /\ admitted = [r \in Requests |-> FALSE]
  /\ step = [r \in Requests |-> 1]
  /\ answers = [r \in Requests |-> 0]
  /\ result = [r \in Requests |-> "none"]
  /\ client = [r \in Requests |-> TRUE]

Zero(c) ==
  /\ counter' = [counter EXCEPT ![c] = 0]
  /\ zeroings' = [zeroings EXCEPT ![c] = @ + 1]

\* Update, under the write lock: configuration, limiter and provider counter
\* change together; the counters of the scenarios are left alone.
Update(c) ==
  /\ swaps < MaxSwaps
  /\ config' = c
  /\ limiter' = LimiterFor(c, swaps + 1)
  /\ rate' = [rate EXCEPT ![swaps + 1] = c.rate_limit_rpm]
  /\ swaps' = swaps + 1
  /\ Zero(Provider)
  /\ UNCHANGED <<used, local>>

\* Reset, under the write lock: the start-up configuration comes back.
Reset == Update(InitialConfig)

\* POST /admin/request-count/reset and the attempt-count reset of a scenario.
ResetAttempts(c) ==
  /\ zeroings[c] < MaxZeroings
  /\ Zero(c)
  /\ UNCHANGED <<config, limiter, swaps, used, rate, local>>

\* An entry of a limiter's window grows older than 60 s.
Expire(n) ==
  /\ used[n] > 0
  /\ used' = [used EXCEPT ![n] = @ - 1]
  /\ UNCHANGED <<config, limiter, swaps, counter, zeroings, rate, local>>
-----------------------------------------------------------------------------
(* The handler. *)

Go(r, to) == stage' = [stage EXCEPT ![r] = to]

\* writeErrorResponse, or the HTML page: the request ends with an answer.
Answer(r, how) ==
  /\ Go(r, "over")
  /\ result' = [result EXCEPT ![r] = how]
  /\ answers' = [answers EXCEPT ![r] = @ + 1]

\* The connection is gone or cut: the handler returns without an answer.
End(r, how) ==
  /\ Go(r, "over")
  /\ result' = [result EXCEPT ![r] = how]
  /\ UNCHANGED answers

\* applyScenario: the scenario's configuration with the provider's rate.
ConfigFor(s) ==
  IF s = Provider
  THEN config
  ELSE [ScenarioConfig[s] EXCEPT !.rate_limit_rpm = config.rate_limit_rpm]

\* hijackAndClose: the connection is cut; one that cannot be hijacked (HTTP/2)
\* is answered with a 502.
Cut(r) == End(r, "cut") \/ Answer(r, "bad_gateway")

\* The handler takes configuration and limiter under one read lock and matches
\* a scenario, or none.
Begin(r) ==
  /\ stage[r] = "idle"
  /\ \E s \in Counters, h \in Headers :
       /\ scenario' = [scenario EXCEPT ![r] = s]
       /\ header' = [header EXCEPT ![r] = h]
       /\ cfg' = [cfg EXCEPT ![r] = ConfigFor(s)]
  /\ reqLimiter' = [reqLimiter EXCEPT ![r] = limiter]
  /\ takenAt' = [takenAt EXCEPT ![r] = swaps]
  /\ Go(r, "begun")
  /\ UNCHANGED <<shared, drawn, drawnIn, admitted, step, outcome, client>>

\* applyFaultHeader: the knobs of the header replace those of the copy.
Overlay(c, h) == [k \in DOMAIN c |-> IF k \in DOMAIN h THEN h[k] ELSE c[k]]

RejectHeader(r) ==
  /\ stage[r] = "begun"
  /\ header[r] = BadHeader
  /\ Answer(r, "bad_header")
  /\ UNCHANGED <<shared, cfg, identity, drawn, drawnIn, admitted, step, client>>

\* atomic.Int64.Add(1)
Draw(r, c) ==
  /\ counter' = [counter EXCEPT ![c] = @ + 1]
  /\ drawn' = [drawn EXCEPT ![r][c] = counter[c] + 1]
  /\ drawnIn' = [drawnIn EXCEPT ![r][c] = zeroings[c]]
  /\ UNCHANGED zeroings

\* Mutant: a scenario's request does not count for the provider.
NextAttemptOfProviderOnly(r) ==
  /\ stage[r] = "begun"
  /\ header[r] # BadHeader
  /\ cfg' = [cfg EXCEPT ![r] = IF header[r] = NoHeader THEN @ ELSE Overlay(@, header[r])]
  /\ IF scenario[r] = Provider
     THEN Draw(r, Provider)
     ELSE UNCHANGED <<counter, drawn, drawnIn, zeroings>>
  /\ Go(r, IF scenario[r] = Provider THEN "resolve" ELSE "own_counter")
  /\ UNCHANGED <<config, limiter, swaps, used, rate, identity, admitted, step,
                 outcome, client>>

\* NextAttempt: every request that gets here counts for the provider.
NextAttempt(r) ==
  /\ stage[r] = "begun"
  /\ header[r] # BadHeader
  /\ cfg' = [cfg EXCEPT ![r] = IF header[r] = NoHeader THEN @ ELSE Overlay(@, header[r])]
  /\ Draw(r, Provider)
  /\ Go(r, IF scenario[r] = Provider THEN "resolve" ELSE "own_counter")
  /\ UNCHANGED <<config, limiter, swaps, used, rate, identity, admitted, step,
                 outcome, client>>

\* Mutant: the attempt of a scenario comes from the provider's counter.
NextFaultAttemptShared(r) ==
  /\ stage[r] = "own_counter"
  /\ Draw(r, Provider)
  /\ Go(r, "resolve")
  /\ UNCHANGED <<config, limiter, swaps, used, rate, cfg, identity, admitted,
                 step, outcome, client>>

\* A matched scenario draws the fault attempt from its own counter.
NextFaultAttempt(r) ==
  /\ stage[r] = "own_counter"
  /\ Draw(r, scenario[r])
  /\ Go(r, "resolve")
  /\ UNCHANGED <<config, limiter, swaps, used, rate, cfg, identity, admitted,
                 step, outcome, client>>

Attempt(r) == drawn[r][scenario[r]]

\* The faults of this request: the global ones, then those of its attempt.
Active(r) ==
  cfg[r].faults \o
    (IF Attempt(r) \in 1..Len(cfg[r].attempt_faults)
     THEN cfg[r].attempt_faults[Attempt(r)]
     ELSE << >>)

\* validateFaultSpec accepts the known modes; streamPhase sorts out those that
\* wait for the body.
Invalid(r) == \E i \in 1..Len(Active(r)) : Active(r)[i] \notin PreBodyModes \cup StreamModes
PreBody(r) == SelectSeq(Active(r), LAMBDA f : f \in PreBodyModes)

RejectFaultSpec(r) ==
  /\ stage[r] = "resolve"
  /\ Invalid(r)
  /\ Answer(r, "bad_spec")
  /\ UNCHANGED <<shared, cfg, identity, drawn, drawnIn, admitted, step, client>>

Limited(r) == cfg[r].rate_limit_rpm > 0 /\ reqLimiter[r] # NoLimiter

\* Mutant: a limiter compares with the rate in force now.
FullAtCurrentRate(r) == used[reqLimiter[r]] >= config.rate_limit_rpm

Full(r) == used[reqLimiter[r]] >= rate[reqLimiter[r]]

\* Mutant: the 429 is written, and the handler goes on.
RateLimitedGoesOn(r) ==
  /\ stage[r] = "resolve"
  /\ ~Invalid(r)
  /\ Limited(r)
  /\ Full(r)
  /\ Go(r, "errors")
  /\ answers' = [answers EXCEPT ![r] = @ + 1]
  /\ UNCHANGED <<shared, cfg, identity, drawn, drawnIn, admitted, step, result, client>>

RateLimited(r) ==
  /\ stage[r] = "resolve"
  /\ ~Invalid(r)
  /\ Limited(r)
  /\ Full(r)
  /\ Answer(r, "rate_limited")
  /\ UNCHANGED <<shared, cfg, identity, drawn, drawnIn, admitted, step, client>>

LimiterAdmits(r) ==
  /\ stage[r] = "resolve"
  /\ ~Invalid(r)
  /\ Limited(r)
  /\ ~Full(r)
  /\ used' = [used EXCEPT ![reqLimiter[r]] = @ + 1]
  /\ admitted' = [admitted EXCEPT ![r] = TRUE]
  /\ Go(r, "errors")
  /\ UNCHANGED <<config, limiter, swaps, counter, zeroings, rate, cfg, identity,
                 drawn, drawnIn, step, outcome, client>>

Unlimited(r) ==
  /\ stage[r] = "resolve"
  /\ ~Invalid(r)
  /\ ~Limited(r)
  /\ Go(r, "errors")
  /\ UNCHANGED <<shared, cfg, identity, drawn, drawnIn, admitted, step, outcome,
                 client>>

\* Mutant: attempts numbered from 0.
FailsOneMore(r) == cfg[r].fail_first_n > 0 /\ Attempt(r) - 1 <= cfg[r].fail_first_n

FailsFirst(r) == cfg[r].fail_first_n > 0 /\ Attempt(r) <= cfg[r].fail_first_n

FailFirst(r) ==
  /\ stage[r] = "errors"
  /\ FailsFirst(r)
  /\ Answer(r, "fail_first")
  /\ UNCHANGED <<shared, cfg, identity, drawn, drawnIn, admitted, step, client>>

\* rand.Float64() < error_rate: any outcome unless the rate is 0 or 1.
RandomError(r) ==
  /\ stage[r] = "errors"
  /\ ~FailsFirst(r)
  /\ cfg[r].error_rate > 0
  /\ Answer(r, "random_error")
  /\ UNCHANGED <<shared, cfg, identity, drawn, drawnIn, admitted, step, client>>

NoError(r) ==
  /\ stage[r] = "errors"
  /\ ~FailsFirst(r)
  /\ cfg[r].error_rate < 100
  /\ Go(r, "walk")
  /\ UNCHANGED <<shared, cfg, identity, drawn, drawnIn, admitted, step, outcome,
                 client>>

Walking(r) == stage[r] = "walk" /\ step[r] <= Len(PreBody(r))

\* Mutant: the walk does not get past a delay.
DelayAgain(r) ==
  /\ Walking(r)
  /\ PreBody(r)[step[r]] = "delay"
  /\ UNCHANGED vars

\* "delay" holds the handler and goes on.
Delay(r) ==
  /\ Walking(r)
  /\ PreBody(r)[step[r]] = "delay"
  /\ step' = [step EXCEPT ![r] = @ + 1]
  /\ UNCHANGED <<shared, stage, cfg, identity, drawn, drawnIn, admitted, outcome,
                 client>>

\* The first terminal fault ends the request, with an answer or by cutting the
\* connection.
Terminal(r) ==
  /\ Walking(r)
  /\ \/ PreBody(r)[step[r]] = "error" /\ Answer(r, "fault_error")
     \/ PreBody(r)[step[r]] = "non_json_body" /\ Answer(r, "non_json_body")
     \/ PreBody(r)[step[r]] = "disconnect" /\ Cut(r)
  /\ UNCHANGED <<shared, cfg, identity, drawn, drawnIn, admitted, step, client>>

WalkDone(r) == stage[r] = "walk" /\ step[r] > Len(PreBody(r))

\* timeout_ms: held, then cut, whether or not the client waited.
Timeout(r) ==
  /\ WalkDone(r)
  /\ cfg[r].timeout_ms > 0
  /\ Cut(r)
  /\ UNCHANGED <<shared, cfg, identity, drawn, drawnIn, admitted, step, client>>

\* latency_ms has passed, or is not set: the handler goes on to the response.
Serve(r) ==
  /\ WalkDone(r)
  /\ cfg[r].timeout_ms <= 0
  /\ Go(r, "served")
  /\ result' = [result EXCEPT ![r] = "served"]
  /\ UNCHANGED <<shared, cfg, identity, drawn, drawnIn, admitted, step, answers,
                 client>>

\* waitCancelable returns early: the client left during a delay, before a
\* terminal fault or during the latency.
GiveUp(r) ==
  /\ ~client[r]
  /\ \/ Walking(r)
     \/ WalkDone(r) /\ cfg[r].timeout_ms <= 0 /\ cfg[r].latency_ms > 0
  /\ End(r, "gone")
  /\ UNCHANGED <<shared, cfg, identity, drawn, drawnIn, admitted, step, client>>

\* Seen by the waits only, so it is enough that it happens before one.
ClientLeaves(r) ==
  /\ client[r]
  /\ stage[r] = "walk"
  /\ client' = [client EXCEPT ![r] = FALSE]
  /\ UNCHANGED <<shared, stage, cfg, identity, drawn, drawnIn, admitted, step,
                 outcome>>

checkFaults(r) ==
  \/ RejectHeader(r) \/ NextAttempt(r) \/ NextFaultAttempt(r)
  \/ RejectFaultSpec(r) \/ RateLimited(r) \/ LimiterAdmits(r) \/ Unlimited(r)
  \/ FailFirst(r) \/ RandomError(r) \/ NoError(r)
  \/ Delay(r) \/ Terminal(r) \/ Timeout(r) \/ Serve(r) \/ GiveUp(r)

Next ==
  \/ \E c \in Configs : Update(c)
  \/ Reset
  \/ \E c \in Counters : ResetAttempts(c)
  \/ \E n \in Swaps : Expire(n)
  \/ \E r \in Requests : Begin(r) \/ checkFaults(r) \/ ClientLeaves(r)

Spec == Init /\ [][Next]_vars

\* Running goroutines run; timers fire.
Fairness == \A r \in Requests : WF_vars(checkFaults(r))

FairSpec == Spec /\ Fairness
-----------------------------------------------------------------------------
TypeOK ==
  /\ swaps \in Swaps
  /\ limiter \in Limiters
  /\ counter \in [Counters -> Nat]
  /\ zeroings \in [Counters -> Nat]
  /\ used \in [Swaps -> Nat]
  /\ rate \in [Swaps -> Int]
  /\ stage \in [Requests -> Stages]
  /\ reqLimiter \in [Requests -> Limiters]
  /\ takenAt \in [Requests -> Swaps]
  /\ scenario \in [Requests -> Counters]
  /\ header \in [Requests -> Headers]
  /\ drawn \in [Requests -> [Counters -> Nat]]
  /\ drawnIn \in [Requests -> [Counters -> Nat]]
  /\ admitted \in [Requests -> BOOLEAN]
  /\ step \in [Requests -> Nat]
  /\ answers \in [Requests -> Nat]
  /\ result \in [Requests -> Results]
  /\ client \in [Requests -> BOOLEAN]

\* The requests that drew from counter c since it was last zeroed.
DrewFrom(c) == { r \in Requests : drawn[r][c] > 0 /\ drawnIn[r][c] = zeroings[c] }

(***************************************************************************)
(* Since a counter was last zeroed, the attempts drawn from it are 1, 2,   *)
(* 3, ... with none missing and none drawn twice, however requests,        *)
(* configuration swaps and resets interleave; and a scenario's counter is  *)
(* drawn from by the requests that matched it only, so other traffic       *)
(* cannot shift its fault sequence (NextAttempt, checkFaults).             *)
(***************************************************************************)
AttemptsInSequence ==
  \A c \in Counters :
    /\ \A r \in DrewFrom(c) :
         /\ drawn[r][c] \in 1..counter[c]
         /\ c # Provider => scenario[r] = c
    /\ \A r, q \in DrewFrom(c) : drawn[r][c] = drawn[q][c] => r = q
    /\ \A n \in 1..counter[c] : \E r \in DrewFrom(c) : drawn[r][c] = n

(***************************************************************************)
(* GET /admin/request-count is an exact oracle: the provider counter is    *)
(* the number of requests that got past their header and into fault        *)
(* processing since it was zeroed, those rate limited, failed or abandoned *)
(* included.                                                               *)
(***************************************************************************)
InFaultProcessing(r) == stage[r] \notin {"idle", "begun"} /\ result[r] # "bad_header"

CountIsExact ==
  counter[Provider] =
    Cardinality({ r \in Requests :
      InFaultProcessing(r) /\ drawnIn[r][Provider] = zeroings[Provider] })

(***************************************************************************)
(* fail_first_n fails no more than n requests: among the requests that     *)
(* drew from one counter between two of its zeroings, at most n fail that  *)
(* were configured to fail the first n or fewer.                           *)
(***************************************************************************)
FailedFirst(c, z, n) ==
  { r \in Requests : /\ scenario[r] = c
                     /\ result[r] = "fail_first"
                     /\ drawnIn[r][c] = z
                     /\ cfg[r].fail_first_n <= n }

FailFirstBudget ==
  \A c \in Counters, r \in Requests :
    result[r] = "fail_first" =>
      Cardinality(FailedFirst(c, drawnIn[r][c], cfg[r].fail_first_n))
        <= cfg[r].fail_first_n

(***************************************************************************)
(* A request whose provider configuration sets a rate gets past the        *)
(* limiter only by being admitted by it, whatever its header says: the     *)
(* limiter is cross-request and a header cannot target it (fault.go        *)
(* 198-199).                                                               *)
(***************************************************************************)
LimiterUntargetable ==
  \A r \in Requests :
    reqLimiter[r] # NoLimiter /\ stage[r] \in {"errors", "walk", "served"}
      => admitted[r]

(***************************************************************************)
(* No limiter ever holds more than the rate it was built for, though old   *)
(* limiters stay in use by the requests that snapshotted them and a header *)
(* may claim another rate; and a snapshot pairs a configuration with the   *)
(* limiter built for it (Update, OpenAI, checkFaults).                     *)
(***************************************************************************)
LimitersKeepTheirRate ==
  /\ \A n \in Swaps : used[n] > 0 => used[n] <= rate[n]
  /\ \A r \in Requests :
       reqLimiter[r] # NoLimiter => reqLimiter[r] = takenAt[r] /\ rate[takenAt[r]] > 0

(***************************************************************************)
(* A request is answered at most once, and one that goes on to its         *)
(* response, is cut or abandoned has not been answered (the early returns  *)
(* of checkFaults).                                                        *)
(***************************************************************************)
OneAnswer ==
  \A r \in Requests :
    /\ answers[r] <= 1
    /\ result[r] \in {"none", "served", "cut", "gone"} <=> answers[r] = 0

(***************************************************************************)
(* A fresh provider configuration starts counting from zero (state.go      *)
(* 50-52): the attempts of the requests that run under it are the first    *)
(* ones, as many as there are such requests.                               *)
(***************************************************************************)
FreshSequence ==
  \A r \in DrewFrom(Provider) :
    takenAt[r] = swaps =>
      drawn[r][Provider] <=
        Cardinality({ q \in DrewFrom(Provider) : takenAt[q] = swaps })

(***************************************************************************)
(* Every request leaves fault processing: delays, holds and walks end even *)
(* if the client stays connected and faults are configured without end.    *)
(***************************************************************************)
FaultProcessingEnds ==
  \A r \in Requests : stage[r] = "begun" ~> stage[r] \in {"served", "over"}
=============================================================================
