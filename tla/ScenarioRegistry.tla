-------------------------- MODULE ScenarioRegistry --------------------------
(***************************************************************************)
(* The scenario registry of src/scenario.go: scenarios are published,      *)
(* replaced, taken over and deleted by admins while requests match them,   *)
(* capture into them and draw from their attempt counters.                 *)
(*                                                                         *)
(* A published *Scenario is an incarnation, a number that is never reused; *)
(* 0 stands for nil.  Requests and admin handlers hold such a pointer      *)
(* after the store's lock is released, so they may work on an incarnation  *)
(* that has left the store.                                                *)
(***************************************************************************)
EXTENDS Integers, FiniteSets

CONSTANTS
  Ids, NoId,
  Models, NoModel,
  Definitions,       \* bodies of POST /admin/scenarios
  Requests,          \* requests, each handled by a goroutine of its own
  Admins,            \* admin requests that reset a counter
  MaxIncarnations,   \* bound: scenarios ever published
  MaxResets          \* bound: resets of one counter

Providers == {"openai", "anthropic", "bedrock"}

surfaceForProvider ==
  [openai |-> "chat", anthropic |-> "messages", bedrock |-> "converse"]

ASSUME BoundsAssumption == MaxIncarnations \in Nat /\ MaxResets \in Nat
ASSUME RequestsAssumption == IsFiniteSet(Requests)
ASSUME NilAssumption ==
  NoId \notin Ids /\ NoModel \notin Models /\ "no request" \notin Requests
ASSUME DefinitionAssumption ==
  Definitions \subseteq
    [id : Ids, provider : STRING, model : Models \cup {NoModel}, surface : STRING,
     rate_limit_rpm : Int, max_concurrent : Int, output : BOOLEAN,
     tool_use_response : BOOLEAN, faults_valid : BOOLEAN]

VARIABLES
  byID,              \* [Ids -> incarnation]
  byKey,             \* the model index: [Keys -> id]
  published,         \* the number of scenarios published so far
  def,               \* the definition of each incarnation
  captureCount, faultAttempts, lastRequest,   \* its atomics
  stage,             \* where each request is
  route,             \* the provider whose route it came in on
  model,             \* its model
  sc,                \* the *Scenario it matched, or was refused by
  admin,             \* the *Scenario an admin handler looked up, and what for
  resets,            \* history: resets of the two counters of an incarnation
  countedAt,         \* history: resets of the counter when a request counted,
  drawnAt            \* or drew; Never before that

registry == <<byID, byKey, published, def>>
request == <<stage, route, model, sc>>
vars == <<registry, captureCount, faultAttempts, lastRequest, request, admin, resets,
          countedAt, drawnAt>>

Incarnations == 1..MaxIncarnations
Keys == Providers \X Models
Nil == 0
NoDefinition == [id |-> NoId]
Counters == {"request-count", "attempt-count"}
NoRequest == "no request"
Never == -1

Claimed(d) == d.model # NoModel
Key(d) == <<d.provider, d.model>>
-----------------------------------------------------------------------------
Init ==
  /\ byID = [i \in Ids |-> Nil]
  /\ byKey = [k \in Keys |-> NoId]
  /\ published = 0
  /\ def = [n \in Incarnations |-> NoDefinition]
  /\ captureCount = [n \in Incarnations |-> 0]
  /\ faultAttempts = [n \in Incarnations |-> 0]
  /\ lastRequest = [n \in Incarnations |-> NoRequest]
  /\ stage = [r \in Requests |-> "idle"]
  /\ route = [r \in Requests |-> "openai"]
  /\ model = [r \in Requests |-> NoModel]
  /\ sc = [r \in Requests |-> Nil]
  /\ admin = [a \in Admins |-> Nil]
  /\ resets = [n \in Incarnations |-> [c \in Counters |-> 0]]
  /\ countedAt = [r \in Requests |-> Never]
  /\ drawnAt = [r \in Requests |-> Never]

atomics == <<captureCount, faultAttempts, lastRequest>>
runtime == <<atomics, request, admin, resets, countedAt, drawnAt>>

(***************************************************************************)
(* The store, each operation under its write lock.                         *)
(***************************************************************************)
\* validateScenarioDef: the surface defaults from the provider; provider-global
\* knobs, exact output with tool calls and faults that cannot fire are refused.
Valid(d) ==
  /\ d.provider \in Providers
  /\ d.surface \in {"", surfaceForProvider[d.provider]}
  /\ d.rate_limit_rpm = 0 /\ d.max_concurrent = 0
  /\ ~(d.output /\ d.tool_use_response)
  /\ d.faults_valid

Defaulted(d) == [d EXCEPT !.surface = surfaceForProvider[d.provider]]

\* The claim a definition would take from another id.
ClaimedByOther(d) == Claimed(d) /\ byKey[Key(d)] \notin {NoId, d.id}

\* The entry the old incarnation of an id has in the index, if it is its own.
OwnEntries(i) ==
  { k \in Keys : /\ byID[i] # Nil
                 /\ Claimed(def[byID[i]])
                 /\ k = Key(def[byID[i]])
                 /\ byKey[k] = i }

\* POST /admin/scenarios, accepted.  Invalid bodies (400) and conflicts without
\* ?replace=1 (409) change nothing.
Register(d, replace) ==
  /\ published < MaxIncarnations
  /\ Valid(d)
  /\ ClaimedByOther(d) => replace
  /\ published' = published + 1
  /\ def' = [def EXCEPT ![published + 1] = Defaulted(d)]
  /\ byID' = [byID EXCEPT ![d.id] = published + 1]
  /\ byKey' = [k \in Keys |->
                 IF Claimed(d) /\ k = Key(d) THEN d.id
                 ELSE IF k \in OwnEntries(d.id) THEN NoId
                 ELSE byKey[k]]
  /\ UNCHANGED runtime

\* Mutants: the index keeps the deleted id; its claim falls back to another
\* scenario that asked for the model.
DeleteKeepsIndex(i) ==
  /\ byID[i] # Nil
  /\ byID' = [byID EXCEPT ![i] = Nil]
  /\ UNCHANGED <<byKey, published, def, runtime>>

DeleteFallsBack(i) ==
  /\ byID[i] # Nil
  /\ byID' = [byID EXCEPT ![i] = Nil]
  /\ byKey' = [k \in Keys |->
                 IF k \notin OwnEntries(i) THEN byKey[k]
                 ELSE LET heirs == { j \in Ids \ {i} : /\ byID[j] # Nil
                                                        /\ Claimed(def[byID[j]])
                                                        /\ Key(def[byID[j]]) = k }
                      IN IF heirs = {} THEN NoId ELSE CHOOSE j \in heirs : TRUE]
  /\ UNCHANGED <<published, def, runtime>>

Delete(i) ==
  /\ byID[i] # Nil
  /\ byID' = [byID EXCEPT ![i] = Nil]
  /\ byKey' = [k \in Keys |-> IF k \in OwnEntries(i) THEN NoId ELSE byKey[k]]
  /\ UNCHANGED <<published, def, runtime>>

Clear ==
  /\ \E i \in Ids : byID[i] # Nil
  /\ byID' = [i \in Ids |-> Nil]
  /\ byKey' = [k \in Keys |-> NoId]
  /\ UNCHANGED <<published, def, runtime>>
-----------------------------------------------------------------------------
(* A request: matchScenario under the read lock, then applyScenario and    *)
(* checkFaults on the scenario it got.                                     *)

Arrive(r, p, m, n, to) ==
  /\ stage[r] = "idle"
  /\ stage' = [stage EXCEPT ![r] = to]
  /\ route' = [route EXCEPT ![r] = p]
  /\ model' = [model EXCEPT ![r] = m]
  /\ sc' = [sc EXCEPT ![r] = n]
  /\ UNCHANGED <<registry, atomics, admin, resets, countedAt, drawnAt>>

\* Mutant: a header matches on any route.
HeaderMatchAnywhere(r, p, m, i) ==
  /\ byID[i] # Nil
  /\ Arrive(r, p, m, byID[i], "matched")

\* X-MockLM-Scenario names a scenario of this route.
HeaderMatch(r, p, m, i) ==
  /\ byID[i] # Nil
  /\ def[byID[i]].provider = p
  /\ def[byID[i]].surface = surfaceForProvider[p]
  /\ Arrive(r, p, m, byID[i], "matched")

\* It names none (404) ...
UnknownScenario(r, p, m, i) ==
  /\ byID[i] = Nil
  /\ Arrive(r, p, m, Nil, "unknown")

\* ... or one of another route (409).
WrongRoute(r, p, m, i) ==
  /\ byID[i] # Nil
  /\ \/ def[byID[i]].provider # p
     \/ def[byID[i]].surface # surfaceForProvider[p]
  /\ Arrive(r, p, m, byID[i], "refused")

\* MatchModel: index, then scenario.
MatchModel(p, m) ==
  IF m # NoModel /\ byKey[<<p, m>>] # NoId THEN byID[byKey[<<p, m>>]] ELSE Nil

FoundByModel(p, m) ==
  MatchModel(p, m) # Nil /\ def[MatchModel(p, m)].surface = surfaceForProvider[p]

ModelMatch(r, p, m) ==
  /\ FoundByModel(p, m)
  /\ Arrive(r, p, m, MatchModel(p, m), "matched")

\* No scenario: the provider's configuration serves the request.
NoMatch(r, p, m) ==
  /\ ~FoundByModel(p, m)
  /\ Arrive(r, p, m, Nil, "global")

matchScenario(r) ==
  \E p \in Providers, m \in Models \cup {NoModel} :
    \/ ModelMatch(r, p, m) \/ NoMatch(r, p, m)
    \/ \E i \in Ids : HeaderMatch(r, p, m, i) \/ UnknownScenario(r, p, m, i)
                        \/ WrongRoute(r, p, m, i)

Proceed(r, from, to) ==
  /\ stage[r] = from
  /\ stage' = [stage EXCEPT ![r] = to]
  /\ UNCHANGED <<registry, route, model, sc, admin, resets>>

\* capture: the request is stored, then counted.
StoreRequest(r) ==
  /\ Proceed(r, "matched", "stored")
  /\ lastRequest' = [lastRequest EXCEPT ![sc[r]] = r]
  /\ UNCHANGED <<captureCount, faultAttempts, countedAt, drawnAt>>

CountRequest(r) ==
  /\ Proceed(r, "stored", "captured")
  /\ captureCount' = [captureCount EXCEPT ![sc[r]] = @ + 1]
  /\ countedAt' = [countedAt EXCEPT ![r] = resets[sc[r]]["request-count"]]
  /\ UNCHANGED <<faultAttempts, lastRequest, drawnAt>>

\* Mutant: the attempt is drawn before the capture.
DrawAttemptFirst(r) ==
  /\ Proceed(r, "matched", "drawn")
  /\ faultAttempts' = [faultAttempts EXCEPT ![sc[r]] = @ + 1]
  /\ drawnAt' = [drawnAt EXCEPT ![r] = resets[sc[r]]["attempt-count"]]
  /\ UNCHANGED <<captureCount, lastRequest, countedAt>>

\* checkFaults draws from the scenario's own counter ...
DrawAttempt(r) ==
  /\ Proceed(r, "captured", "drawn")
  /\ faultAttempts' = [faultAttempts EXCEPT ![sc[r]] = @ + 1]
  /\ drawnAt' = [drawnAt EXCEPT ![r] = resets[sc[r]]["attempt-count"]]
  /\ UNCHANGED <<captureCount, lastRequest, countedAt>>

\* ... unless a leaked cache_control or a bad fault header came first.
RejectBeforeFaults(r) ==
  /\ Proceed(r, "captured", "rejected")
  /\ UNCHANGED <<atomics, countedAt, drawnAt>>

\* Mutant: capture counts, then stores.
CountThenStore(r) ==
  \/ /\ Proceed(r, "matched", "stored")
     /\ captureCount' = [captureCount EXCEPT ![sc[r]] = @ + 1]
     /\ countedAt' = [countedAt EXCEPT ![r] = resets[sc[r]]["request-count"]]
     /\ UNCHANGED <<faultAttempts, lastRequest, drawnAt>>
  \/ /\ Proceed(r, "stored", "captured")
     /\ lastRequest' = [lastRequest EXCEPT ![sc[r]] = r]
     /\ UNCHANGED <<captureCount, faultAttempts, countedAt, drawnAt>>

applyScenario(r) == StoreRequest(r) \/ CountRequest(r)
-----------------------------------------------------------------------------
(* Admin resets look the scenario up under the read lock and store into it *)
(* later.                                                                  *)

Lookup(a, i) ==
  /\ admin[a] = Nil
  /\ byID[i] # Nil
  /\ admin' = [admin EXCEPT ![a] = byID[i]]
  /\ UNCHANGED <<registry, atomics, request, resets, countedAt, drawnAt>>

ResetCounter(a, c) ==
  /\ admin[a] # Nil
  /\ resets[admin[a]][c] < MaxResets
  /\ resets' = [resets EXCEPT ![admin[a]][c] = @ + 1]
  /\ admin' = [admin EXCEPT ![a] = Nil]
  /\ UNCHANGED <<registry, lastRequest, request, countedAt, drawnAt>>

ResetRequestCount(a) ==
  /\ ResetCounter(a, "request-count")
  /\ captureCount' = [captureCount EXCEPT ![admin[a]] = 0]
  /\ UNCHANGED faultAttempts

\* Mutant: the id is looked up again, and may have been replaced.
ResetAttemptCountById(a) ==
  /\ ResetCounter(a, "attempt-count")
  /\ faultAttempts' = [faultAttempts EXCEPT ![byID[def[admin[a]].id]] = 0]
  /\ UNCHANGED captureCount

ResetAttemptCount(a) ==
  /\ ResetCounter(a, "attempt-count")
  /\ faultAttempts' = [faultAttempts EXCEPT ![admin[a]] = 0]
  /\ UNCHANGED captureCount

Next ==
  \/ \E d \in Definitions, replace \in BOOLEAN : Register(d, replace)
  \/ \E i \in Ids : Delete(i)
  \/ Clear
  \/ \E r \in Requests : \/ matchScenario(r) \/ applyScenario(r)
                         \/ DrawAttempt(r) \/ RejectBeforeFaults(r)
  \/ \E a \in Admins : \/ \E i \in Ids : Lookup(a, i)
                       \/ ResetRequestCount(a) \/ ResetAttemptCount(a)

Spec == Init /\ [][Next]_vars
-----------------------------------------------------------------------------
Stages == {"idle", "matched", "stored", "captured", "drawn", "rejected", "unknown",
           "refused", "global"}

TypeOK ==
  /\ byID \in [Ids -> 0..published]
  /\ byKey \in [Keys -> Ids \cup {NoId}]
  /\ published \in 0..MaxIncarnations
  /\ captureCount \in [Incarnations -> Nat]
  /\ faultAttempts \in [Incarnations -> Nat]
  /\ lastRequest \in [Incarnations -> Requests \cup {NoRequest}]
  /\ stage \in [Requests -> Stages]
  /\ route \in [Requests -> Providers]
  /\ model \in [Requests -> Models \cup {NoModel}]
  /\ sc \in [Requests -> 0..published]
  /\ admin \in [Admins -> 0..published]
  /\ resets \in [Incarnations -> [Counters -> Nat]]
  /\ countedAt \in [Requests -> Nat \cup {Never}]
  /\ drawnAt \in [Requests -> Nat \cup {Never}]

(***************************************************************************)
(* The model index never dangles and never lies: the scenario it names is  *)
(* registered under that id and claims that provider and model, through    *)
(* replacements that change the model, takeovers and deletions in any      *)
(* order (Register, Delete).                                               *)
(***************************************************************************)
IndexSound ==
  \A k \in Keys :
    byKey[k] # NoId =>
      /\ byID[byKey[k]] # Nil
      /\ def[byID[byKey[k]]].id = byKey[k]
      /\ Claimed(def[byID[byKey[k]]]) /\ Key(def[byID[byKey[k]]]) = k

(***************************************************************************)
(* A scenario claims only one model: an id is never found under two keys,  *)
(* so re-posting it with another model leaves no stale mapping behind      *)
(* (Register).                                                             *)
(***************************************************************************)
OneClaimPerId ==
  \A k, l \in Keys : byKey[k] # NoId /\ byKey[k] = byKey[l] => k = l

Matched == {"matched", "stored", "captured", "drawn", "rejected"}

(***************************************************************************)
(* No request is steered to a scenario of another route, and only a        *)
(* scenario of another provider is ever refused to a header that names it: *)
(* whatever is registered can be matched on its own route.                 *)
(***************************************************************************)
ServedOnItsRoute ==
  \A r \in Requests :
    /\ stage[r] \in Matched => def[sc[r]].provider = route[r]
    /\ stage[r] = "refused" => def[sc[r]].provider # route[r]

(***************************************************************************)
(* A count is never seen before the request it counts: as soon as          *)
(* request-count is positive, last-request has a body to return (capture). *)
(***************************************************************************)
CapturedBeforeCounted ==
  \A n \in Incarnations : captureCount[n] > 0 => lastRequest[n] # NoRequest

(***************************************************************************)
(* The counters of a scenario count its own requests, one each, since      *)
(* their last reset: neither its replacement, its deletion, resets meant   *)
(* for its predecessor nor requests still in flight on that predecessor    *)
(* disturb them (README "in-flight request holding the old scenario        *)
(* finishes against the old counter").                                     *)
(***************************************************************************)
CountersAreExact ==
  \A n \in Incarnations :
    /\ captureCount[n] =
         Cardinality({ r \in Requests :
           sc[r] = n /\ countedAt[r] = resets[n]["request-count"] })
    /\ faultAttempts[n] =
         Cardinality({ r \in Requests :
           sc[r] = n /\ drawnAt[r] = resets[n]["attempt-count"] })

(***************************************************************************)
(* Every attempt was captured first: unless the request count was reset, a *)
(* scenario never shows more attempts than requests (applyScenario before  *)
(* checkFaults).                                                           *)
(***************************************************************************)
AttemptsWereCaptured ==
  \A n \in Incarnations :
    resets[n]["request-count"] = 0 => faultAttempts[n] <= captureCount[n]

(***************************************************************************)
(* A claim passes from one id to another only to a scenario published in   *)
(* that very step; it is never inherited when its holder is deleted or     *)
(* moves to another model.                                                 *)
(***************************************************************************)
ClaimsMoveByTakeover ==
  [][\A k \in Keys :
       byKey'[k] \notin {byKey[k], NoId} =>
         byID'[byKey'[k]] = published' /\ published' = published + 1]_vars
=============================================================================
