----------------------- MODULE ScenarioRegistryProofs -----------------------
(***************************************************************************)
(* The scenario registry for any ids, models, definitions and finite set   *)
(* of requests.                                                            *)
(***************************************************************************)
EXTENDS ScenarioRegistry, FiniteSetTheorems, TLAPS

\* What validation guarantees of every published definition.
Published(d) ==
  /\ d.id \in Ids
  /\ d.provider \in Providers
  /\ d.model \in Models \cup {NoModel}
  /\ d.surface = surfaceForProvider[d.provider]

(***************************************************************************)
(* The inductive invariant.  The store: published definitions are valid    *)
(* and never change, an id leads to its own scenario, and the index is     *)
(* sound.  The handlers: what each stage has stored, counted and drawn.    *)
(***************************************************************************)
StoreInv ==
  /\ def = [n \in Incarnations |-> def[n]]
  /\ \A n \in 1..published : Published(def[n])
  /\ \A i \in Ids : byID[i] # Nil => def[byID[i]].id = i

Holding == Matched \cup {"refused"}
Uncounted == {"idle", "unknown", "global", "refused", "matched", "stored"}
Undrawn == Uncounted \cup {"captured", "rejected"}

StageInv ==
  \A r \in Requests :
    /\ stage[r] \in Holding => sc[r] \in 1..published
    /\ stage[r] = "stored" => lastRequest[sc[r]] # NoRequest
    /\ stage[r] \in Uncounted => countedAt[r] = Never
    /\ stage[r] \in Undrawn => drawnAt[r] = Never
    /\ stage[r] \in {"captured", "rejected", "drawn"} => countedAt[r] # Never

HistoryInv ==
  \A r \in Requests :
    /\ countedAt[r] # Never =>
         sc[r] \in 1..published /\ countedAt[r] <= resets[sc[r]]["request-count"]
    /\ drawnAt[r] # Never =>
         sc[r] \in 1..published /\ drawnAt[r] <= resets[sc[r]]["attempt-count"]

LocalInv == TypeOK /\ StoreInv /\ IndexSound /\ StageInv

RegistryInv ==
  LocalInv /\ HistoryInv /\ ServedOnItsRoute /\ CapturedBeforeCounted /\ CountersAreExact

(***************************************************************************)
(* The steps, for the proofs below: those of the store, those that only a  *)
(* request takes and those of the admins.                                  *)
(***************************************************************************)
StoreStep ==
  \/ \E d \in Definitions, replace \in BOOLEAN : Register(d, replace)
  \/ \E i \in Ids : Delete(i)
  \/ Clear

RequestStep(r) ==
  matchScenario(r) \/ applyScenario(r) \/ DrawAttempt(r) \/ RejectBeforeFaults(r)

AdminStep(a) ==
  (\E i \in Ids : Lookup(a, i)) \/ ResetRequestCount(a) \/ ResetAttemptCount(a)

LEMMA NextSteps ==
  ASSUME Next
  PROVE  \/ StoreStep
         \/ \E r \in Requests : RequestStep(r)
         \/ \E a \in Admins : AdminStep(a)
BY Zenon DEF Next, StoreStep, RequestStep, AdminStep

LEMMA UnchangedParts ==
  ASSUME UNCHANGED vars
  PROVE  UNCHANGED <<byID, byKey, published, def, captureCount, faultAttempts,
                     lastRequest, stage, route, model, sc, admin, resets, countedAt,
                     drawnAt>>
BY DEF vars, registry, request

(***************************************************************************)
(* A step of the store leaves the handlers alone, publishes at most one    *)
(* incarnation and keeps all those published before.                       *)
(***************************************************************************)
StoreEffect ==
  /\ byID' \in [Ids -> 0..published']
  /\ published \in 0..published' /\ published' \in 0..MaxIncarnations
  /\ \A n \in 1..published : def'[n] = def[n]
  /\ UNCHANGED <<captureCount, faultAttempts, lastRequest, stage, route, model, sc,
                 admin, resets, countedAt, drawnAt>>
  /\ StoreInv' /\ IndexSound'
  /\ byKey' \in [Keys -> Ids \cup {NoId}]

LEMMA RegisteredDefinition ==
  ASSUME NEW d \in Definitions, Valid(d)
  PROVE  /\ d.id \in Ids /\ d.model \in Models \cup {NoModel} /\ d.provider \in Providers
         /\ Published(Defaulted(d))
         /\ Defaulted(d).id = d.id
         /\ Claimed(Defaulted(d)) <=> Claimed(d)
         /\ Key(Defaulted(d)) = Key(d)
         /\ Claimed(d) => Key(d) \in Keys
BY DefinitionAssumption
   DEF Valid, Published, Defaulted, Claimed, Key, Keys, Providers, surfaceForProvider

LEMMA RegisterEffect ==
  ASSUME LocalInv, NEW d \in Definitions, NEW replace \in BOOLEAN, Register(d, replace)
  PROVE  StoreEffect
<1> DEFINE n == published + 1
<1>1. /\ published \in 0..MaxIncarnations /\ n \in Incarnations /\ published' = n
      /\ n \in 0..MaxIncarnations
  BY BoundsAssumption DEF Register, LocalInv, TypeOK, Incarnations
<1>2. /\ Published(Defaulted(d)) /\ Defaulted(d).id = d.id /\ d.id \in Ids
      /\ Claimed(Defaulted(d)) <=> Claimed(d)
      /\ Key(Defaulted(d)) = Key(d)
      /\ Claimed(d) => Key(d) \in Keys
  BY RegisteredDefinition DEF Register
<1>3. /\ def' = [m \in Incarnations |-> IF m = n THEN Defaulted(d) ELSE def[m]]
      /\ byID' = [i \in Ids |-> IF i = d.id THEN n ELSE byID[i]]
  BY <1>1, <1>2 DEF Register, LocalInv, StoreInv, TypeOK
<1>4. byID \in [Ids -> 0..published] /\ byKey \in [Keys -> Ids \cup {NoId}]
  BY DEF LocalInv, TypeOK
<1>5. byID' \in [Ids -> 0..published']
  BY <1>1, <1>3, <1>4
<1>6. byKey' \in [Keys -> Ids \cup {NoId}]
  BY <1>2, <1>4 DEF Register
<1>7. \A m \in 1..published : def'[m] = def[m]
  <2> TAKE m \in 1..published
  <2>1. m \in Incarnations /\ m # n
    BY <1>1, BoundsAssumption DEF Incarnations
  <2> QED BY <2>1, <1>3
<1>8. StoreInv'
  <2>1. \A m \in 1..published' : Published(def'[m])
    <3> TAKE m \in 1..published'
    <3>1. CASE m = n
      BY <3>1, <1>1, <1>2, <1>3
    <3>2. CASE m # n
      BY <3>2, <1>1, <1>7 DEF LocalInv, StoreInv
    <3> QED BY <3>1, <3>2
  <2>2. \A i \in Ids : byID'[i] # Nil => def'[byID'[i]].id = i
    <3> TAKE i \in Ids
    <3> HAVE byID'[i] # Nil
    <3>1. CASE i = d.id
      BY <3>1, <1>1, <1>2, <1>3
    <3>2. CASE i # d.id
      <4>1. byID'[i] = byID[i] /\ byID[i] \in 1..published
        BY <3>2, <1>1, <1>3, <1>4 DEF Nil
      <4> QED BY <4>1, <1>7 DEF LocalInv, StoreInv, Nil
    <3> QED BY <3>1, <3>2
  <2> QED
    BY <2>1, <2>2, <1>3 DEF StoreInv, Incarnations
<1>9. IndexSound'
  <2> SUFFICES ASSUME NEW k \in Keys, byKey'[k] # NoId
               PROVE  /\ byID'[byKey'[k]] # Nil
                      /\ def'[byID'[byKey'[k]]].id = byKey'[k]
                      /\ Claimed(def'[byID'[byKey'[k]]])
                      /\ Key(def'[byID'[byKey'[k]]]) = k
    BY DEF IndexSound, Claimed, Key
  <2>1. CASE Claimed(d) /\ k = Key(d)
    <3>1. byKey'[k] = d.id
      BY <2>1 DEF Register
    <3>2. byID'[d.id] = n /\ def'[n] = Defaulted(d)
      BY <1>1, <1>2, <1>3
    <3> QED BY <3>1, <3>2, <2>1, <1>1, <1>2 DEF Nil
  <2>2. CASE ~(Claimed(d) /\ k = Key(d))
    <3>1. byKey'[k] = byKey[k] /\ k \notin OwnEntries(d.id) /\ byKey[k] \in Ids
      BY <2>2, <1>4 DEF Register
    <3>2. /\ byID[byKey[k]] # Nil /\ def[byID[byKey[k]]].id = byKey[k]
          /\ Claimed(def[byID[byKey[k]]]) /\ Key(def[byID[byKey[k]]]) = k
      BY <3>1 DEF LocalInv, IndexSound
    <3>3. byKey[k] # d.id
      BY <3>1, <3>2 DEF OwnEntries
    <3>4. byID'[byKey[k]] = byID[byKey[k]] /\ byID[byKey[k]] \in 1..published
      BY <1>1, <1>3, <1>4, <3>1, <3>2, <3>3 DEF Nil
    <3> QED BY <3>1, <3>2, <3>4, <1>7
  <2> QED BY <2>1, <2>2
<1> QED
  BY <1>1, <1>5, <1>6, <1>7, <1>8, <1>9
     DEF Register, StoreEffect, runtime, atomics, request

LEMMA DeleteEffect ==
  ASSUME LocalInv, NEW j \in Ids, Delete(j)
  PROVE  StoreEffect
<1>1. /\ byID \in [Ids -> 0..published] /\ byKey \in [Keys -> Ids \cup {NoId}]
      /\ published \in 0..MaxIncarnations
  BY DEF LocalInv, TypeOK
<1>2. /\ byID' = [i \in Ids |-> IF i = j THEN Nil ELSE byID[i]]
      /\ published' = published /\ def' = def
  BY <1>1 DEF Delete
<1>3. byID' \in [Ids -> 0..published'] /\ byKey' \in [Keys -> Ids \cup {NoId}]
  BY <1>1, <1>2, BoundsAssumption DEF Delete, Nil
<1>4. StoreInv'
  BY <1>2 DEF LocalInv, StoreInv, Nil
<1>5. IndexSound'
  <2> SUFFICES ASSUME NEW k \in Keys, byKey'[k] # NoId
               PROVE  /\ byID'[byKey'[k]] # Nil
                      /\ def[byID'[byKey'[k]]].id = byKey'[k]
                      /\ Claimed(def[byID'[byKey'[k]]])
                      /\ Key(def[byID'[byKey'[k]]]) = k
    BY <1>2 DEF IndexSound, Claimed, Key
  <2>1. byKey'[k] = byKey[k] /\ k \notin OwnEntries(j) /\ byKey[k] \in Ids
    BY <1>1 DEF Delete
  <2>2. /\ byID[byKey[k]] # Nil /\ def[byID[byKey[k]]].id = byKey[k]
        /\ Claimed(def[byID[byKey[k]]]) /\ Key(def[byID[byKey[k]]]) = k
    BY <2>1 DEF LocalInv, IndexSound
  <2>3. byKey[k] # j
    BY <2>1, <2>2 DEF OwnEntries
  <2> QED BY <2>1, <2>2, <2>3, <1>2
<1> QED
  BY <1>1, <1>2, <1>3, <1>4, <1>5, BoundsAssumption
     DEF Delete, StoreEffect, runtime, atomics, request

LEMMA ClearEffect ==
  ASSUME LocalInv, Clear
  PROVE  StoreEffect
<1>1. published \in 0..MaxIncarnations /\ published' = published /\ def' = def
  BY DEF LocalInv, TypeOK, Clear
<1>2. byID' \in [Ids -> 0..published'] /\ byKey' \in [Keys -> Ids \cup {NoId}]
  BY <1>1, BoundsAssumption DEF Clear, Nil
<1>3. StoreInv' /\ IndexSound'
  BY <1>1 DEF LocalInv, StoreInv, IndexSound, Clear, Nil
<1> QED
  BY <1>1, <1>2, <1>3, BoundsAssumption DEF Clear, StoreEffect, runtime, atomics, request

LEMMA StoreStepEffect ==
  ASSUME LocalInv, StoreStep
  PROVE  StoreEffect
BY RegisterEffect, DeleteEffect, ClearEffect, Zenon DEF StoreStep

\* What the other steps leave alone, and so keep.
LEMMA StoreIsKept ==
  ASSUME LocalInv, UNCHANGED registry
  PROVE  StoreInv' /\ IndexSound'
BY DEF LocalInv, registry, StoreInv, IndexSound, Claimed, Key

LEMMA StoreStepKeepsLocalInv ==
  ASSUME LocalInv, StoreStep
  PROVE  LocalInv'
<1>1. StoreEffect
  BY StoreStepEffect
<1>2. TypeOK'
  BY <1>1, BoundsAssumption DEF StoreEffect, TypeOK, LocalInv
<1>3. StageInv'
  BY <1>1, BoundsAssumption DEF StoreEffect, StageInv, LocalInv, TypeOK
<1> QED
  BY <1>1, <1>2, <1>3 DEF StoreEffect, LocalInv

(***************************************************************************)
(* What a match hands to the handler: a published scenario of its own      *)
(* route, or one of another provider that it is refused.                   *)
(***************************************************************************)
Suits(p, n, to) ==
  \/ to \in {"unknown", "global"} /\ n = Nil
  \/ to = "matched" /\ n \in 1..published /\ def[n].provider = p
  \/ to = "refused" /\ n \in 1..published /\ def[n].provider # p

LEMMA MatchSuits ==
  ASSUME LocalInv, NEW r \in Requests, matchScenario(r)
  PROVE  \E p \in Providers, m \in Models \cup {NoModel}, n \in 0..published,
            to \in {"unknown", "global", "matched", "refused"} :
           Arrive(r, p, m, n, to) /\ Suits(p, n, to)
<1> USE DEF Suits
<1>0. /\ byID \in [Ids -> 0..published] /\ byKey \in [Keys -> Ids \cup {NoId}]
      /\ published \in Nat /\ Nil \in 0..published
      /\ \A n \in 1..published : def[n].surface = surfaceForProvider[def[n].provider]
  <2>1. /\ byID \in [Ids -> 0..published] /\ byKey \in [Keys -> Ids \cup {NoId}]
        /\ published \in 0..MaxIncarnations
    BY DEF LocalInv, TypeOK
  <2>2. published \in Nat /\ Nil \in 0..published
    BY <2>1, BoundsAssumption DEF Nil
  <2>3. \A n \in 1..published : def[n].surface = surfaceForProvider[def[n].provider]
    BY DEF LocalInv, StoreInv, Published
  <2> QED BY <2>1, <2>2, <2>3
<1>1. PICK p \in Providers, m \in Models \cup {NoModel} :
        \/ ModelMatch(r, p, m) \/ NoMatch(r, p, m)
        \/ \E i \in Ids : HeaderMatch(r, p, m, i) \/ UnknownScenario(r, p, m, i)
                            \/ WrongRoute(r, p, m, i)
  BY Zenon DEF matchScenario
<1>2. CASE ModelMatch(r, p, m)
  <2>1. m # NoModel /\ byKey[<<p, m>>] # NoId /\ <<p, m>> \in Keys
    BY <1>2, <1>1 DEF ModelMatch, FoundByModel, MatchModel, Keys
  <2> DEFINE n == byID[byKey[<<p, m>>]]
  <2>2. n = MatchModel(p, m)
    BY <2>1 DEF MatchModel
  <2>3. n \in 1..published /\ Key(def[n]) = <<p, m>>
    BY <2>1, <1>0 DEF LocalInv, IndexSound, Nil
  <2>4. def[n].provider = p
    BY <2>3 DEF Key
  <2>5. Arrive(r, p, m, n, "matched")
    BY <1>2, <2>2 DEF ModelMatch
  <2> QED BY <2>3, <2>4, <2>5
<1>3. CASE NoMatch(r, p, m)
  BY <1>3, <1>0 DEF NoMatch
<1>4. ASSUME NEW i \in Ids, HeaderMatch(r, p, m, i)
      PROVE  Arrive(r, p, m, byID[i], "matched") /\ Suits(p, byID[i], "matched")
             /\ byID[i] \in 0..published
  BY <1>4, <1>0 DEF HeaderMatch, Nil
<1>5. ASSUME NEW i \in Ids, UnknownScenario(r, p, m, i)
      PROVE  Arrive(r, p, m, Nil, "unknown")
  BY <1>5 DEF UnknownScenario
<1>6. ASSUME NEW i \in Ids, WrongRoute(r, p, m, i)
      PROVE  Arrive(r, p, m, byID[i], "refused") /\ Suits(p, byID[i], "refused")
             /\ byID[i] \in 0..published
  <2>1. byID[i] \in 1..published
    BY <1>6, <1>0 DEF WrongRoute, Nil
  <2> QED BY <1>6, <2>1, <1>0 DEF WrongRoute
<1> QED
  BY <1>0, <1>1, <1>2, <1>3, <1>4, <1>5, <1>6

LEMMA MatchKeepsLocalInv ==
  ASSUME LocalInv, NEW r \in Requests, matchScenario(r)
  PROVE  LocalInv'
<1>1. PICK p \in Providers, m \in Models \cup {NoModel}, n \in 0..published,
           to \in {"unknown", "global", "matched", "refused"} :
        Arrive(r, p, m, n, to) /\ Suits(p, n, to)
  BY MatchSuits
<1>2. StoreInv' /\ IndexSound'
  BY <1>1, StoreIsKept DEF Arrive
<1>3. TypeOK'
  BY <1>1 DEF Arrive, TypeOK, LocalInv, registry, atomics, Stages
<1>4. StageInv'
  <2>1. stage[r] = "idle"
    BY <1>1 DEF Arrive
  <2> QED
    BY <1>1, <2>1 DEF Arrive, StageInv, LocalInv, TypeOK, registry, atomics, Holding,
       Matched, Uncounted, Undrawn, Suits
<1> QED BY <1>2, <1>3, <1>4 DEF LocalInv

\* The scenario a handler works on is one of the incarnations.
LEMMA HeldIsPublished ==
  ASSUME LocalInv, NEW r \in Requests, stage[r] \in Holding
  PROVE  sc[r] \in 1..published /\ sc[r] \in Incarnations
<1>1. sc[r] \in 1..published /\ published \in 0..MaxIncarnations
  BY DEF LocalInv, StageInv, TypeOK
<1> QED
  BY <1>1, BoundsAssumption DEF Incarnations

LEMMA HandlerKeepsLocalInv ==
  ASSUME LocalInv, NEW r \in Requests,
         applyScenario(r) \/ DrawAttempt(r) \/ RejectBeforeFaults(r)
  PROVE  LocalInv'
<1>1. UNCHANGED <<registry, route, model, sc, admin, resets>>
  BY DEF applyScenario, StoreRequest, CountRequest, DrawAttempt, RejectBeforeFaults, Proceed
<1>2. StoreInv' /\ IndexSound'
  BY <1>1, StoreIsKept
<1>3. stage[r] \in Holding /\ sc[r] \in 1..published /\ sc[r] \in Incarnations
  <2>1. stage[r] \in Holding
    BY DEF applyScenario, StoreRequest, CountRequest, DrawAttempt, RejectBeforeFaults,
           Proceed, Holding, Matched
  <2> QED BY <2>1, HeldIsPublished
<1> USE DEF Proceed
<1>4. /\ resets[sc[r]]["request-count"] \in Nat /\ resets[sc[r]]["attempt-count"] \in Nat
      /\ captureCount[sc[r]] \in Nat /\ faultAttempts[sc[r]] \in Nat
  BY <1>3 DEF LocalInv, TypeOK, Counters
<1>5. CASE StoreRequest(r)
  <2>1. TypeOK'
    BY <1>1, <1>3, <1>5 DEF StoreRequest, LocalInv, TypeOK, registry, Stages
  <2>2. lastRequest'[sc[r]] = r /\ r # NoRequest
    BY <1>3, <1>5, NilAssumption DEF StoreRequest, LocalInv, TypeOK, NoRequest
  <2>3. \A q \in Requests :
          lastRequest[sc[q]] # NoRequest => lastRequest'[sc[q]] # NoRequest
    BY <1>3, <1>5, <2>2 DEF StoreRequest, LocalInv, TypeOK
  <2>4. StageInv'
    BY <1>1, <1>3, <1>5, <2>2, <2>3 DEF StoreRequest, LocalInv, TypeOK, StageInv, registry,
       Holding, Matched, Uncounted, Undrawn
  <2> QED BY <1>2, <2>1, <2>4 DEF LocalInv
<1>6. CASE CountRequest(r)
  <2>1. TypeOK'
    BY <1>1, <1>3, <1>4, <1>6 DEF CountRequest, LocalInv, TypeOK, registry, Stages
  <2>2. StageInv'
    BY <1>1, <1>3, <1>4, <1>6 DEF CountRequest, LocalInv, TypeOK, StageInv, registry,
       Holding, Matched, Uncounted, Undrawn, Never
  <2> QED BY <1>2, <2>1, <2>2 DEF LocalInv
<1>7. CASE DrawAttempt(r)
  <2>1. TypeOK'
    BY <1>1, <1>3, <1>4, <1>7 DEF DrawAttempt, LocalInv, TypeOK, registry, Stages
  <2>2. StageInv'
    BY <1>1, <1>3, <1>4, <1>7 DEF DrawAttempt, LocalInv, TypeOK, StageInv, registry,
       Holding, Matched, Uncounted, Undrawn
  <2> QED BY <1>2, <2>1, <2>2 DEF LocalInv
<1>8. CASE RejectBeforeFaults(r)
  <2>1. TypeOK'
    BY <1>1, <1>8 DEF RejectBeforeFaults, LocalInv, TypeOK, registry, atomics, Stages
  <2>2. StageInv'
    BY <1>1, <1>3, <1>8 DEF RejectBeforeFaults, LocalInv, TypeOK, StageInv, registry,
       atomics, Holding, Matched, Uncounted, Undrawn
  <2> QED BY <1>2, <2>1, <2>2 DEF LocalInv
<1> QED
  BY <1>5, <1>6, <1>7, <1>8 DEF applyScenario

LEMMA AdminKeepsLocalInv ==
  ASSUME LocalInv, NEW a \in Admins, AdminStep(a)
  PROVE  LocalInv'
<1>1. UNCHANGED <<registry, lastRequest, request, countedAt, drawnAt>>
  BY DEF AdminStep, Lookup, ResetRequestCount, ResetAttemptCount, ResetCounter, atomics
<1>2. StoreInv' /\ IndexSound' /\ StageInv'
  BY <1>1, StoreIsKept DEF LocalInv, StageInv, registry, request
<1>3. TypeOK'
  <2>1. CASE \E i \in Ids : Lookup(a, i)
    BY <1>1, <2>1 DEF Lookup, LocalInv, TypeOK, registry, request, atomics
  <2>2. ASSUME NEW c \in Counters, ResetCounter(a, c),
               captureCount' \in [Incarnations -> Nat],
               faultAttempts' \in [Incarnations -> Nat]
        PROVE  TypeOK'
    <3>1. resets' \in [Incarnations -> [Counters -> Nat]]
      <4>1. resets \in [Incarnations -> [Counters -> Nat]] /\ admin[a] \in Incarnations
        <5>1. /\ resets \in [Incarnations -> [Counters -> Nat]]
              /\ admin[a] \in 0..published /\ published \in 0..MaxIncarnations
          BY DEF LocalInv, TypeOK
        <5>2. admin[a] # 0
          BY <2>2 DEF ResetCounter, Nil
        <5> QED BY <5>1, <5>2, BoundsAssumption DEF Incarnations
      <4>2. resets[admin[a]] \in [Counters -> Nat] /\ resets[admin[a]][c] + 1 \in Nat
        BY <4>1
      <4>3. [resets[admin[a]] EXCEPT ![c] = @ + 1] \in [Counters -> Nat]
        BY <4>2
      <4>4. resets' =
              [resets EXCEPT ![admin[a]] = [resets[admin[a]] EXCEPT ![c] = @ + 1]]
        BY <2>2 DEF ResetCounter
      <4> QED BY <4>1, <4>3, <4>4
    <3>2. admin' \in [Admins -> 0..published]
      BY <2>2 DEF ResetCounter, LocalInv, TypeOK, Nil
    <3> QED
      BY <1>1, <2>2, <3>1, <3>2 DEF LocalInv, TypeOK, registry, request
  <2>3. CASE ResetRequestCount(a)
    BY <2>2, <2>3 DEF ResetRequestCount, LocalInv, TypeOK, Counters
  <2>4. CASE ResetAttemptCount(a)
    BY <2>2, <2>4 DEF ResetAttemptCount, LocalInv, TypeOK, Counters
  <2> QED BY <2>1, <2>3, <2>4 DEF AdminStep
<1> QED BY <1>2, <1>3 DEF LocalInv

LEMMA LocalInvStep ==
  ASSUME LocalInv, [Next]_vars
  PROVE  LocalInv'
<1>1. CASE UNCHANGED vars
  BY <1>1, UnchangedParts
     DEF LocalInv, TypeOK, StoreInv, IndexSound, Claimed, Key, StageInv
<1>2. CASE Next
  BY <1>2, NextSteps, StoreStepKeepsLocalInv, MatchKeepsLocalInv, HandlerKeepsLocalInv,
     AdminKeepsLocalInv DEF RequestStep
<1> QED BY <1>1, <1>2

(***************************************************************************)
(* Routes: the scenario of a request was of its route when it matched, and *)
(* published definitions do not change.                                    *)
(***************************************************************************)
LEMMA RouteStep ==
  ASSUME LocalInv, ServedOnItsRoute, [Next]_vars
  PROVE  ServedOnItsRoute'
<1>0. \A r \in Requests : stage[r] \in Holding => sc[r] \in 1..published
  BY DEF LocalInv, StageInv
<1>1. CASE UNCHANGED vars
  BY <1>1, UnchangedParts DEF ServedOnItsRoute
<1>2. CASE StoreStep
  <2>1. /\ \A n \in 1..published : def'[n] = def[n]
        /\ UNCHANGED <<stage, route, sc>>
    BY <1>2, StoreStepEffect DEF StoreEffect
  <2> QED BY <1>0, <2>1 DEF ServedOnItsRoute, Holding
<1>3. ASSUME NEW r \in Requests, matchScenario(r)
      PROVE  ServedOnItsRoute'
  <2>1. PICK p \in Providers, m \in Models \cup {NoModel}, n \in 0..published,
             to \in {"unknown", "global", "matched", "refused"} :
          Arrive(r, p, m, n, to) /\ Suits(p, n, to)
    BY <1>3, MatchSuits
  <2> QED
    BY <2>1 DEF Arrive, Suits, ServedOnItsRoute, Matched, LocalInv, TypeOK, registry
<1>4. ASSUME NEW r \in Requests,
             applyScenario(r) \/ DrawAttempt(r) \/ RejectBeforeFaults(r)
      PROVE  ServedOnItsRoute'
  <2>1. /\ UNCHANGED <<def, route, sc>> /\ stage[r] \in Matched
        /\ \E to \in Matched : stage' = [stage EXCEPT ![r] = to]
    BY <1>4 DEF applyScenario, StoreRequest, CountRequest, DrawAttempt, RejectBeforeFaults,
       Proceed, registry, Matched
  <2> QED BY <2>1 DEF ServedOnItsRoute, Matched, LocalInv, TypeOK
<1>5. ASSUME NEW a \in Admins, AdminStep(a)
      PROVE  ServedOnItsRoute'
  <2>1. UNCHANGED <<def, route, sc, stage>>
    BY <1>5 DEF AdminStep, Lookup, ResetRequestCount, ResetAttemptCount, ResetCounter,
       registry, request
  <2> QED BY <2>1 DEF ServedOnItsRoute
<1> QED
  BY <1>1, <1>2, <1>3, <1>4, <1>5, NextSteps DEF RequestStep

(***************************************************************************)
(* Capture: the count rises only after a request was stored, and what was  *)
(* stored is never taken back.                                             *)
(***************************************************************************)
LEMMA CaptureStep ==
  ASSUME LocalInv, CapturedBeforeCounted, [Next]_vars
  PROVE  CapturedBeforeCounted'
<1>0. /\ captureCount \in [Incarnations -> Nat]
      /\ lastRequest \in [Incarnations -> Requests \cup {NoRequest}]
      /\ \A r \in Requests : stage[r] = "stored" => lastRequest[sc[r]] # NoRequest
  BY DEF LocalInv, TypeOK, StageInv
<1>1. CASE UNCHANGED <<captureCount, lastRequest>>
  BY <1>1 DEF CapturedBeforeCounted
<1>2. ASSUME NEW r \in Requests, StoreRequest(r)
      PROVE  CapturedBeforeCounted'
  BY <1>0, <1>2, NilAssumption DEF StoreRequest, CapturedBeforeCounted, NoRequest
<1>3. ASSUME NEW r \in Requests, CountRequest(r)
      PROVE  CapturedBeforeCounted'
  BY <1>0, <1>3 DEF CountRequest, Proceed, CapturedBeforeCounted
<1>4. ASSUME NEW a \in Admins, ResetRequestCount(a)
      PROVE  CapturedBeforeCounted'
  BY <1>0, <1>4 DEF ResetRequestCount, ResetCounter, CapturedBeforeCounted
<1>5. ASSUME ~UNCHANGED <<captureCount, lastRequest>>
      PROVE  \/ \E r \in Requests : StoreRequest(r) \/ CountRequest(r)
             \/ \E a \in Admins : ResetRequestCount(a)
  <2>1. StoreStep => UNCHANGED <<captureCount, lastRequest>>
    BY StoreStepEffect DEF StoreEffect
  <2>2. \A r \in Requests : matchScenario(r) => UNCHANGED <<captureCount, lastRequest>>
    BY MatchSuits DEF Arrive, atomics
  <2>3. \A r \in Requests : DrawAttempt(r) \/ RejectBeforeFaults(r)
                              => UNCHANGED <<captureCount, lastRequest>>
    BY DEF DrawAttempt, RejectBeforeFaults, atomics
  <2>4. \A a \in Admins : (\E i \in Ids : Lookup(a, i)) \/ ResetAttemptCount(a)
                           => UNCHANGED <<captureCount, lastRequest>>
    BY DEF Lookup, ResetAttemptCount, ResetCounter, atomics
  <2>5. UNCHANGED vars => UNCHANGED <<captureCount, lastRequest>>
    BY UnchangedParts
  <2> QED
    BY <1>5, <2>1, <2>2, <2>3, <2>4, <2>5, NextSteps
       DEF RequestStep, applyScenario, AdminStep
<1> QED BY <1>1, <1>2, <1>3, <1>4, <1>5

(***************************************************************************)
(* Counters: the requests behind the counts of an incarnation.             *)
(***************************************************************************)
Behind(n) ==
  { r \in Requests : sc[r] = n /\ countedAt[r] = resets[n]["request-count"] }
BehindAttempts(n) ==
  { r \in Requests : sc[r] = n /\ drawnAt[r] = resets[n]["attempt-count"] }

CountInv == HistoryInv /\ CountersAreExact

\* An incarnation whose counters, holders and resets stay as they are keeps
\* its counts; a request that has not counted may come to hold it.
CountsKept ==
  /\ UNCHANGED <<captureCount, faultAttempts, resets, countedAt, drawnAt>>
  /\ published <= published' /\ published' \in Nat
  /\ \A r \in Requests :
       sc'[r] = sc[r] \/ (countedAt[r] = Never /\ drawnAt[r] = Never)

LEMMA CountsKeptStep ==
  ASSUME LocalInv, CountInv, CountsKept
  PROVE  CountInv'
<1>1. /\ resets \in [Incarnations -> [Counters -> Nat]] /\ published \in 0..MaxIncarnations
      /\ published \in Nat
  BY BoundsAssumption DEF LocalInv, TypeOK
<1>2. HistoryInv'
  BY <1>1 DEF CountsKept, CountInv, HistoryInv, Never
<1>3. \A n \in Incarnations : Behind(n)' = Behind(n)
  BY <1>1 DEF CountsKept, Behind, Never, Counters
<1>4. \A n \in Incarnations : BehindAttempts(n)' = BehindAttempts(n)
  BY <1>1 DEF CountsKept, BehindAttempts, Never, Counters
<1>5. CountersAreExact'
  BY <1>3, <1>4 DEF CountInv, CountersAreExact, CountsKept, Behind, BehindAttempts
<1> QED BY <1>2, <1>5 DEF CountInv

LEMMA OneMoreBehind ==
  ASSUME NEW S, NEW T, NEW r, IsFiniteSet(S), r \notin S, T = S \cup {r}
  PROVE  Cardinality(T) = Cardinality(S) + 1
BY FS_AddElement

LEMMA FiniteBehind ==
  ASSUME NEW n
  PROVE  IsFiniteSet(Behind(n)) /\ IsFiniteSet(BehindAttempts(n))
<1>1. Behind(n) \subseteq Requests /\ BehindAttempts(n) \subseteq Requests
  BY DEF Behind, BehindAttempts
<1> QED BY <1>1, RequestsAssumption, FS_Subset

LEMMA CountStep ==
  ASSUME LocalInv, CountInv, NEW r \in Requests, CountRequest(r)
  PROVE  CountInv'
<1> DEFINE m == sc[r]
<1>1. /\ stage[r] = "stored" /\ countedAt[r] = Never /\ m \in 1..published
      /\ m \in Incarnations
  BY HeldIsPublished DEF CountRequest, Proceed, LocalInv, StageInv, Uncounted, Holding, Matched
<1>2. /\ captureCount \in [Incarnations -> Nat] /\ countedAt \in [Requests -> Nat \cup {Never}]
      /\ resets \in [Incarnations -> [Counters -> Nat]] /\ resets[m]["request-count"] \in Nat
  BY <1>1 DEF LocalInv, TypeOK, Counters
<1>3. /\ captureCount' = [captureCount EXCEPT ![m] = @ + 1]
      /\ countedAt' = [countedAt EXCEPT ![r] = resets[m]["request-count"]]
      /\ UNCHANGED <<sc, resets, published, faultAttempts, drawnAt>>
  BY DEF CountRequest, Proceed, registry
<1>4. HistoryInv'
  BY <1>1, <1>2, <1>3 DEF CountInv, HistoryInv, Never
<1>5. ASSUME NEW n \in Incarnations
      PROVE  captureCount'[n] = Cardinality(Behind(n)')
  <2>1. CASE n = m
    <3>1. r \notin Behind(m) /\ Behind(m)' = Behind(m) \cup {r}
      BY <1>1, <1>2, <1>3 DEF Behind, Never
    <3>2. Cardinality(Behind(m)') = Cardinality(Behind(m)) + 1
      BY <3>1, FiniteBehind, OneMoreBehind
    <3> QED
      BY <2>1, <3>2, <1>1, <1>2, <1>3 DEF CountInv, CountersAreExact, Behind
  <2>2. CASE n # m
    <3>1. Behind(n)' = Behind(n)
      BY <2>2, <1>2, <1>3 DEF Behind
    <3> QED
      BY <2>2, <3>1, <1>2, <1>3 DEF CountInv, CountersAreExact, Behind
  <2> QED BY <2>1, <2>2
<1>6. CountersAreExact'
  BY <1>3, <1>5 DEF CountInv, CountersAreExact, Behind
<1> QED BY <1>4, <1>6 DEF CountInv

LEMMA DrawStep ==
  ASSUME LocalInv, CountInv, NEW r \in Requests, DrawAttempt(r)
  PROVE  CountInv'
<1> DEFINE m == sc[r]
<1>1. /\ stage[r] = "captured" /\ drawnAt[r] = Never /\ m \in 1..published
      /\ m \in Incarnations
  BY HeldIsPublished
     DEF DrawAttempt, Proceed, LocalInv, StageInv, Undrawn, Uncounted, Holding, Matched
<1>2. /\ faultAttempts \in [Incarnations -> Nat] /\ drawnAt \in [Requests -> Nat \cup {Never}]
      /\ resets \in [Incarnations -> [Counters -> Nat]] /\ resets[m]["attempt-count"] \in Nat
  BY <1>1 DEF LocalInv, TypeOK, Counters
<1>3. /\ faultAttempts' = [faultAttempts EXCEPT ![m] = @ + 1]
      /\ drawnAt' = [drawnAt EXCEPT ![r] = resets[m]["attempt-count"]]
      /\ UNCHANGED <<sc, resets, published, captureCount, countedAt>>
  BY DEF DrawAttempt, Proceed, registry
<1>4. HistoryInv'
  BY <1>1, <1>2, <1>3 DEF CountInv, HistoryInv, Never
<1>5. ASSUME NEW n \in Incarnations
      PROVE  faultAttempts'[n] = Cardinality(BehindAttempts(n)')
  <2>1. CASE n = m
    <3>1. r \notin BehindAttempts(m) /\ BehindAttempts(m)' = BehindAttempts(m) \cup {r}
      BY <1>1, <1>2, <1>3 DEF BehindAttempts, Never
    <3>2. Cardinality(BehindAttempts(m)') = Cardinality(BehindAttempts(m)) + 1
      BY <3>1, FiniteBehind, OneMoreBehind
    <3> QED
      BY <2>1, <3>2, <1>1, <1>2, <1>3 DEF CountInv, CountersAreExact, BehindAttempts
  <2>2. CASE n # m
    <3>1. BehindAttempts(n)' = BehindAttempts(n)
      BY <2>2, <1>2, <1>3 DEF BehindAttempts
    <3> QED
      BY <2>2, <3>1, <1>2, <1>3 DEF CountInv, CountersAreExact, BehindAttempts
  <2> QED BY <2>1, <2>2
<1>6. CountersAreExact'
  BY <1>3, <1>5 DEF CountInv, CountersAreExact, BehindAttempts
<1> QED BY <1>4, <1>6 DEF CountInv

\* A reset starts a new count that no earlier request belongs to.
LEMMA ResetStep ==
  ASSUME LocalInv, CountInv, NEW a \in Admins,
         ResetRequestCount(a) \/ ResetAttemptCount(a)
  PROVE  CountInv'
<1>a. PICK m : m = admin[a]
  OBVIOUS
<1>1. /\ captureCount \in [Incarnations -> Nat] /\ faultAttempts \in [Incarnations -> Nat]
      /\ countedAt \in [Requests -> Nat \cup {Never}]
      /\ drawnAt \in [Requests -> Nat \cup {Never}]
      /\ resets \in [Incarnations -> [Counters -> Nat]]
      /\ m \in 0..published /\ published \in 0..MaxIncarnations
  BY <1>a DEF LocalInv, TypeOK
<1>2. m \in 1..published
  BY <1>a, <1>1, BoundsAssumption DEF ResetRequestCount, ResetAttemptCount, ResetCounter, Nil
<1>3. m \in Incarnations /\ published \in Nat
  BY <1>1, <1>2, BoundsAssumption DEF Incarnations
<1>b. /\ \A n \in 1..published : n \in Incarnations
      /\ \A n \in Incarnations : /\ resets[n]["request-count"] \in Nat
                                /\ resets[n]["attempt-count"] \in Nat
  BY <1>1, BoundsAssumption DEF Incarnations, Counters
<1>4. UNCHANGED <<sc, countedAt, drawnAt, published>>
  BY DEF ResetRequestCount, ResetAttemptCount, ResetCounter, registry, request
<1>5. CASE ResetRequestCount(a)
  <2>1. /\ captureCount' = [captureCount EXCEPT ![m] = 0] /\ faultAttempts' = faultAttempts
        /\ \A n \in Incarnations :
             /\ resets'[n]["attempt-count"] = resets[n]["attempt-count"]
             /\ n # m => resets'[n]["request-count"] = resets[n]["request-count"]
        /\ resets'[m]["request-count"] = resets[m]["request-count"] + 1
    BY <1>a, <1>1, <1>3, <1>5 DEF ResetRequestCount, ResetCounter, Counters
  <2>2. HistoryInv'
    <3>1. \A n \in Incarnations : /\ resets[n]["request-count"] <= resets'[n]["request-count"]
                                 /\ resets'[n]["attempt-count"] = resets[n]["attempt-count"]
                                 /\ resets'[n]["request-count"] \in Nat
      BY <1>b, <1>3, <2>1
    <3> QED
      BY <1>b, <1>1, <1>4, <3>1 DEF CountInv, HistoryInv, Never
  <2>3. Behind(m)' = {}
    <3> SUFFICES ASSUME NEW q \in Requests, sc[q] = m,
                        countedAt[q] = resets[m]["request-count"] + 1
                 PROVE  FALSE
      BY <1>4, <2>1 DEF Behind
    <3>1. countedAt[q] # Never
      BY <1>b, <1>3 DEF Never
    <3> QED BY <1>b, <1>3, <3>1 DEF CountInv, HistoryInv
  <2>4. \A n \in Incarnations : n # m => Behind(n)' = Behind(n)
    BY <1>4, <2>1 DEF Behind
  <2>5. \A n \in Incarnations : BehindAttempts(n)' = BehindAttempts(n)
    BY <1>4, <2>1 DEF BehindAttempts
  <2>6. \A n \in Incarnations : captureCount'[n] = Cardinality(Behind(n)')
    <3> TAKE n \in Incarnations
    <3>1. CASE n = m
      BY <3>1, <1>1, <1>3, <2>1, <2>3, FS_EmptySet
    <3>2. CASE n # m
      BY <3>2, <1>1, <2>1, <2>4 DEF CountInv, CountersAreExact, Behind
    <3> QED BY <3>1, <3>2
  <2>7. \A n \in Incarnations : faultAttempts'[n] = Cardinality(BehindAttempts(n)')
    BY <2>1, <2>5 DEF CountInv, CountersAreExact, BehindAttempts
  <2> QED
    BY <2>2, <2>6, <2>7 DEF CountInv, CountersAreExact, Behind, BehindAttempts
<1>6. CASE ResetAttemptCount(a)
  <2>1. /\ faultAttempts' = [faultAttempts EXCEPT ![m] = 0] /\ captureCount' = captureCount
        /\ \A n \in Incarnations :
             /\ resets'[n]["request-count"] = resets[n]["request-count"]
             /\ n # m => resets'[n]["attempt-count"] = resets[n]["attempt-count"]
        /\ resets'[m]["attempt-count"] = resets[m]["attempt-count"] + 1
    BY <1>a, <1>1, <1>3, <1>6 DEF ResetAttemptCount, ResetCounter, Counters
  <2>2. HistoryInv'
    <3>1. \A n \in Incarnations : /\ resets[n]["attempt-count"] <= resets'[n]["attempt-count"]
                                 /\ resets'[n]["request-count"] = resets[n]["request-count"]
                                 /\ resets'[n]["attempt-count"] \in Nat
      BY <1>b, <1>3, <2>1
    <3> QED
      BY <1>b, <1>1, <1>4, <3>1 DEF CountInv, HistoryInv, Never
  <2>3. BehindAttempts(m)' = {}
    <3> SUFFICES ASSUME NEW q \in Requests, sc[q] = m,
                        drawnAt[q] = resets[m]["attempt-count"] + 1
                 PROVE  FALSE
      BY <1>4, <2>1 DEF BehindAttempts
    <3>1. drawnAt[q] # Never
      BY <1>b, <1>3 DEF Never
    <3> QED BY <1>b, <1>3, <3>1 DEF CountInv, HistoryInv
  <2>4. \A n \in Incarnations : n # m => BehindAttempts(n)' = BehindAttempts(n)
    BY <1>4, <2>1 DEF BehindAttempts
  <2>5. \A n \in Incarnations : Behind(n)' = Behind(n)
    BY <1>4, <2>1 DEF Behind
  <2>6. \A n \in Incarnations : faultAttempts'[n] = Cardinality(BehindAttempts(n)')
    <3> TAKE n \in Incarnations
    <3>1. CASE n = m
      BY <3>1, <1>1, <1>3, <2>1, <2>3, FS_EmptySet
    <3>2. CASE n # m
      BY <3>2, <1>1, <2>1, <2>4 DEF CountInv, CountersAreExact, BehindAttempts
    <3> QED BY <3>1, <3>2
  <2>7. \A n \in Incarnations : captureCount'[n] = Cardinality(Behind(n)')
    BY <2>1, <2>5 DEF CountInv, CountersAreExact, Behind
  <2> QED
    BY <2>2, <2>6, <2>7 DEF CountInv, CountersAreExact, Behind, BehindAttempts
<1> QED BY <1>5, <1>6

LEMMA CountInvStep ==
  ASSUME LocalInv, CountInv, [Next]_vars
  PROVE  CountInv'
<1>0. published \in Nat
  BY BoundsAssumption DEF LocalInv, TypeOK
<1>1. UNCHANGED vars => CountsKept
  BY <1>0, UnchangedParts DEF CountsKept
<1>2. StoreStep => CountsKept
  <2> SUFFICES ASSUME StoreEffect PROVE CountsKept
    BY StoreStepEffect
  <2>1. published <= published' /\ published' \in Nat
    BY <1>0, BoundsAssumption DEF StoreEffect
  <2> QED BY <2>1 DEF StoreEffect, CountsKept
<1>3. ASSUME NEW r \in Requests, matchScenario(r)
      PROVE  CountsKept
  <2>1. PICK p \in Providers, m \in Models \cup {NoModel}, n \in 0..published,
             to \in {"unknown", "global", "matched", "refused"} : Arrive(r, p, m, n, to)
    BY <1>3, MatchSuits
  <2>2. countedAt[r] = Never /\ drawnAt[r] = Never
    BY <2>1 DEF Arrive, LocalInv, StageInv, Uncounted, Undrawn
  <2>3. \A q \in Requests : q # r => sc'[q] = sc[q]
    BY <2>1 DEF Arrive, LocalInv, TypeOK
  <2> QED BY <1>0, <2>1, <2>2, <2>3 DEF Arrive, CountsKept, registry, atomics
<1>4. ASSUME NEW r \in Requests, StoreRequest(r) \/ RejectBeforeFaults(r)
      PROVE  CountsKept
  BY <1>0, <1>4 DEF StoreRequest, RejectBeforeFaults, Proceed, CountsKept, registry, atomics
<1>5. ASSUME NEW a \in Admins, NEW i \in Ids, Lookup(a, i)
      PROVE  CountsKept
  BY <1>0, <1>5 DEF Lookup, CountsKept, registry, atomics, request
<1> QED
  BY <1>1, <1>2, <1>3, <1>4, <1>5, CountsKeptStep, CountStep, DrawStep, ResetStep, NextSteps
     DEF RequestStep, applyScenario, AdminStep
-----------------------------------------------------------------------------
LEMMA InvariantInit ==
  ASSUME Init
  PROVE  LocalInv /\ ServedOnItsRoute /\ CapturedBeforeCounted /\ CountInv
<1>1. LocalInv
  <2>1. published \in 0..MaxIncarnations /\ 0..published = {0} /\ 1..published = {}
    BY BoundsAssumption DEF Init
  <2>2. TypeOK
    BY <2>1 DEF Init, TypeOK, Nil, Never, Stages, Providers, NoRequest
  <2>3. StoreInv /\ IndexSound /\ StageInv
    BY <2>1 DEF Init, StoreInv, IndexSound, StageInv, Holding, Matched, Nil
  <2> QED BY <2>2, <2>3 DEF LocalInv
<1>2. ServedOnItsRoute /\ CapturedBeforeCounted /\ HistoryInv
  BY DEF Init, ServedOnItsRoute, Matched, CapturedBeforeCounted, HistoryInv
<1>3. ASSUME NEW n \in Incarnations
      PROVE  Behind(n) = {} /\ BehindAttempts(n) = {}
  BY DEF Init, Behind, BehindAttempts, Counters, Never
<1>4. CountersAreExact
  BY <1>3, FS_EmptySet DEF Init, CountersAreExact, Behind, BehindAttempts
<1> QED BY <1>1, <1>2, <1>4 DEF CountInv

(***************************************************************************)
(* The inductive invariant holds in every reachable state.                 *)
(***************************************************************************)
THEOREM Invariance == Spec => []RegistryInv
<1> DEFINE Inv == LocalInv /\ ServedOnItsRoute /\ CapturedBeforeCounted /\ CountInv
<1>1. Init => Inv
  BY InvariantInit
<1>2. Inv /\ [Next]_vars => Inv'
  BY LocalInvStep, RouteStep, CaptureStep, CountInvStep
<1>3. Inv => RegistryInv
  BY DEF RegistryInv, CountInv
<1> QED
  <2> HIDE DEF Inv
  <2> QED BY <1>1, <1>2, <1>3, PTL DEF Spec

(***************************************************************************)
(* The registry, its counters and the handlers' pointers are well typed.   *)
(***************************************************************************)
THEOREM TypeCorrect == Spec => []TypeOK
<1>1. RegistryInv => TypeOK
  BY DEF RegistryInv, LocalInv
<1> QED BY <1>1, Invariance, PTL

(***************************************************************************)
(* The model index never dangles and never lies, whatever registrations,   *)
(* takeovers and deletions come in whatever order (Register, Delete).      *)
(***************************************************************************)
THEOREM IndexIsSound == Spec => []IndexSound
<1>1. RegistryInv => IndexSound
  BY DEF RegistryInv, LocalInv
<1> QED BY <1>1, Invariance, PTL

(***************************************************************************)
(* No id is found under two models: it follows from the soundness of the   *)
(* index, since the definition of a scenario names one model (Register).   *)
(***************************************************************************)
THEOREM ClaimsAreUnique == Spec => []OneClaimPerId
<1>1. RegistryInv => OneClaimPerId
  BY DEF RegistryInv, LocalInv, IndexSound, OneClaimPerId
<1> QED BY <1>1, Invariance, PTL

(***************************************************************************)
(* A request is served by a scenario of its own route and refused only for *)
(* one of another provider (matchScenario).                                *)
(***************************************************************************)
THEOREM RoutesAreKept == Spec => []ServedOnItsRoute
<1>1. RegistryInv => ServedOnItsRoute
  BY DEF RegistryInv
<1> QED BY <1>1, Invariance, PTL

(***************************************************************************)
(* A positive count has a request to show (capture).                       *)
(***************************************************************************)
THEOREM CaptureComesFirst == Spec => []CapturedBeforeCounted
<1>1. RegistryInv => CapturedBeforeCounted
  BY DEF RegistryInv
<1> QED BY <1>1, Invariance, PTL

(***************************************************************************)
(* Each incarnation of a scenario counts exactly its own requests since    *)
(* the last reset, for any number of requests, replacements and resets.    *)
(***************************************************************************)
THEOREM CountsAreExact == Spec => []CountersAreExact
<1>1. RegistryInv => CountersAreExact
  BY DEF RegistryInv
<1> QED BY <1>1, Invariance, PTL

(***************************************************************************)
(* A scenario never shows more attempts than captured requests unless its  *)
(* request count was reset: the requests behind its attempts are among     *)
(* those behind its count (applyScenario before checkFaults).              *)
(***************************************************************************)
THEOREM AttemptsFollowCapture == Spec => []AttemptsWereCaptured
<1>1. ASSUME RegistryInv, NEW n \in Incarnations, resets[n]["request-count"] = 0
      PROVE  faultAttempts[n] <= captureCount[n]
  <2>1. \A r \in Requests : drawnAt[r] # Never => countedAt[r] # Never
    BY <1>1 DEF RegistryInv, LocalInv, StageInv, TypeOK, Stages, Undrawn, Uncounted
  <2>2. \A r \in BehindAttempts(n) : sc[r] = n /\ drawnAt[r] # Never
    BY <1>1 DEF RegistryInv, LocalInv, TypeOK, Counters, BehindAttempts, Never
  <2>3. \A r \in BehindAttempts(n) : countedAt[r] \in Nat /\ countedAt[r] <= 0
    BY <1>1, <2>1, <2>2 DEF RegistryInv, LocalInv, TypeOK, HistoryInv, BehindAttempts, Never
  <2>4. BehindAttempts(n) \subseteq Behind(n)
    BY <1>1, <2>2, <2>3 DEF Behind, BehindAttempts
  <2>5. Cardinality(BehindAttempts(n)) <= Cardinality(Behind(n))
    BY <2>4, FiniteBehind, FS_Subset
  <2> QED
    BY <1>1, <2>5 DEF RegistryInv, CountersAreExact, Behind, BehindAttempts
<1>2. RegistryInv => AttemptsWereCaptured
  BY <1>1 DEF AttemptsWereCaptured
<1> QED BY <1>2, Invariance, PTL

(***************************************************************************)
(* A claim moves to another id only by the registration that takes it.     *)
(***************************************************************************)
THEOREM ClaimsMoveOnlyByTakeover == Spec => ClaimsMoveByTakeover
<1> DEFINE Move ==
      \A k \in Keys :
        byKey'[k] \notin {byKey[k], NoId} =>
          byID'[byKey'[k]] = published' /\ published' = published + 1
<1>1. ASSUME LocalInv, Next
      PROVE  Move
  <2>1. byID \in [Ids -> 0..published] /\ byKey \in [Keys -> Ids \cup {NoId}]
    BY <1>1 DEF LocalInv, TypeOK
  <2>2. ASSUME NEW d \in Definitions, NEW replace \in BOOLEAN, Register(d, replace)
        PROVE  Move
    BY <2>1, <2>2, RegisteredDefinition DEF Register
  <2>3. ASSUME NEW i \in Ids, Delete(i) PROVE Move
    BY <2>1, <2>3 DEF Delete
  <2>4. ASSUME Clear PROVE Move
    BY <2>4 DEF Clear
  <2>5. ASSUME UNCHANGED byKey PROVE Move
    BY <2>5
  <2>6. ASSUME NEW r \in Requests, RequestStep(r) PROVE UNCHANGED byKey
    <3>1. matchScenario(r) => UNCHANGED byKey
      BY <1>1, MatchSuits DEF Arrive, registry
    <3> QED
      BY <2>6, <3>1 DEF RequestStep, applyScenario, StoreRequest, CountRequest,
         DrawAttempt, RejectBeforeFaults, Proceed, registry
  <2>7. ASSUME NEW a \in Admins, AdminStep(a) PROVE UNCHANGED byKey
    BY <2>7 DEF AdminStep, Lookup, ResetRequestCount, ResetAttemptCount, ResetCounter,
       registry
  <2> HIDE DEF Move
  <2> QED
    BY <1>1, <2>2, <2>3, <2>4, <2>5, <2>6, <2>7, NextSteps DEF StoreStep
<1>2. RegistryInv => LocalInv
  BY DEF RegistryInv
<1>3. RegistryInv /\ [Next]_vars => [Move]_vars
  BY <1>1, <1>2
<1> QED
  <2>1. Spec => [][Move]_vars
    <3> HIDE DEF Move
    <3> QED BY <1>3, Invariance, PTL DEF Spec
  <2> QED BY <2>1 DEF ClaimsMoveByTakeover
=============================================================================
