--------------------------- MODULE FaultGateProofs ---------------------------
(***************************************************************************)
(* Fault processing for any number of requests, scenarios, configurations, *)
(* headers, swaps and resets.                                              *)
(***************************************************************************)
EXTENDS FaultGate, FunctionTheorems, FiniteSetTheorems, TLAPS

\* The steps of a handler that draw no number and touch no counter.
QuietStep(r) ==
  \/ RejectHeader(r) \/ RejectFaultSpec(r) \/ RateLimited(r) \/ LimiterAdmits(r)
  \/ Unlimited(r) \/ FailFirst(r) \/ RandomError(r) \/ NoError(r) \/ Delay(r)
  \/ Terminal(r) \/ Timeout(r) \/ Serve(r) \/ GiveUp(r)

(***************************************************************************)
(* The numbers: each was drawn between two zeroings, once in them, and the *)
(* counter is the greatest drawn since the last.                           *)
(***************************************************************************)
Numbers ==
  \A c \in Counters :
    /\ \A r \in Requests : drawnIn[r][c] <= zeroings[c]
    /\ \A r \in DrewFrom(c) : drawn[r][c] <= counter[c]
    /\ \A r, q \in Requests :
         drawn[r][c] > 0 /\ drawn[q][c] = drawn[r][c] /\ drawnIn[q][c] = drawnIn[r][c]
           => q = r
    /\ \A n \in 1..counter[c] : \E r \in DrewFrom(c) : drawn[r][c] = n

(***************************************************************************)
(* The stage of a handler tells which counters it has drawn from.          *)
(***************************************************************************)
Drawn(r, c) == drawn[r][c] > 0

StageInv ==
  \A r \in Requests :
    /\ \A c \in Counters : Drawn(r, c) => c \in {Provider, scenario[r]}
    /\ stage[r] \in {"idle", "begun"} => ~Drawn(r, Provider)
    /\ Drawn(r, scenario[r]) => Drawn(r, Provider)
    /\ stage[r] = "own_counter" => /\ Drawn(r, Provider)
                                   /\ ~Drawn(r, scenario[r])
                                   /\ scenario[r] # Provider
    /\ stage[r] \in {"resolve", "errors", "walk", "served"} => Drawn(r, scenario[r])
    /\ stage[r] # "over" => result[r] \in {"none", "served"}
    /\ stage[r] = "over" => result[r] = "bad_header" \/ Drawn(r, scenario[r])
    /\ result[r] = "bad_header" => stage[r] = "over" /\ ~Drawn(r, Provider)
    /\ result[r] = "fail_first" => stage[r] = "over" /\ FailsFirst(r)

GateInv == TypeOK /\ Numbers /\ StageInv
-----------------------------------------------------------------------------
LEMMA ProviderIsCounter == Provider \in Counters /\ Provider \notin Scenarios
BY NilAssumption DEF Counters, Provider

LEMMA UnchangedParts ==
  /\ UNCHANGED shared <=>
       UNCHANGED <<config, limiter, swaps, counter, zeroings, used, rate>>
  /\ UNCHANGED identity <=> UNCHANGED <<reqLimiter, takenAt, scenario, header>>
  /\ UNCHANGED outcome <=> UNCHANGED <<answers, result>>
  /\ UNCHANGED local <=>
       /\ UNCHANGED <<stage, cfg, drawn, drawnIn, admitted, step, client>>
       /\ UNCHANGED identity
       /\ UNCHANGED outcome
  /\ UNCHANGED vars <=> UNCHANGED shared /\ UNCHANGED local
<1>1. UNCHANGED local <=>
       /\ UNCHANGED <<stage, cfg, drawn, drawnIn, admitted, step, client>>
       /\ UNCHANGED identity
       /\ UNCHANGED outcome
  BY DEF local
<1>2. UNCHANGED vars <=> UNCHANGED shared /\ UNCHANGED local
  BY DEF vars
<1>3. QED
  BY <1>1, <1>2 DEF shared, identity, outcome

LEMMA TypeOKInit == Init => TypeOK
<1> SUFFICES ASSUME Init PROVE TypeOK
  OBVIOUS
<1>1. limiter \in Limiters
  BY BoundsAssumption DEF Init, LimiterFor, Swaps, Limiters
<1>2. rate \in [Swaps -> Int]
  BY ConfigAssumption DEF Init, Swaps
<1>3. header \in [Requests -> Headers]
  BY NilAssumption DEF Init
<1>4. 0 \in Swaps
  BY BoundsAssumption DEF Swaps
<1>5. /\ drawn \in [Requests -> [Counters -> Nat]]
      /\ drawnIn \in [Requests -> [Counters -> Nat]]
      /\ scenario \in [Requests -> Counters]
      /\ stage \in [Requests -> Stages]
  BY ProviderIsCounter DEF Init, Stages
<1>6. /\ reqLimiter \in [Requests -> Limiters]
      /\ takenAt \in [Requests -> Swaps]
      /\ used \in [Swaps -> Nat]
      /\ result \in [Requests -> Results]
  BY <1>4 DEF Results, Init, Limiters
<1>7. QED
  BY <1>1, <1>2, <1>3, <1>4, <1>5, <1>6 DEF Init, TypeOK

(* What a quiet step does to the request that takes it. *)
QuietEffect(r, to, how) ==
  /\ stage' = [stage EXCEPT ![r] = to]
  /\ result' = [result EXCEPT ![r] = how]
  /\ answers' = [answers EXCEPT ![r] = IF how \in {"none", "served", "cut", "gone"}
                                       THEN @ ELSE @ + 1]
  /\ stage[r] \in {"begun", "resolve", "errors", "walk"}
  /\ stage[r] = "begun" <=> how = "bad_header"
  /\ how = "fail_first" => FailsFirst(r)
  /\ to = "over" <=> how \notin {"none", "served"}

Effect(r) ==
  \E to \in {"errors", "walk", "served", "over"}, how \in Results : QuietEffect(r, to, how)

LEMMA EffectIntro ==
  ASSUME NEW r, NEW to \in {"errors", "walk", "served", "over"}, NEW how \in Results,
         QuietEffect(r, to, how)
  PROVE  Effect(r)
BY DEF Effect

LEMMA ResultNames ==
  /\ "bad_header" \in Results /\ "bad_spec" \in Results
  /\ "rate_limited" \in Results /\ "fail_first" \in Results
  /\ "random_error" \in Results /\ "fault_error" \in Results
  /\ "non_json_body" \in Results /\ "bad_gateway" \in Results
  /\ "served" \in Results /\ "cut" \in Results /\ "gone" \in Results
BY DEF Results

LEMMA QuietSteps ==
  ASSUME TypeOK, StageInv, NEW r \in Requests, QuietStep(r)
  PROVE  /\ UNCHANGED <<config, limiter, swaps, counter, zeroings, rate>>
         /\ UNCHANGED <<cfg, identity, drawn, drawnIn, client>>
         /\ step' \in [Requests -> Nat]
         /\ Effect(r)
<1> USE UnchangedParts
<1>1. /\ UNCHANGED <<config, limiter, swaps, counter, zeroings, rate>>
      /\ UNCHANGED <<cfg, identity, drawn, drawnIn, client>>
  BY DEF QuietStep, RejectHeader, RejectFaultSpec, RateLimited, LimiterAdmits,
     Unlimited, FailFirst, RandomError, NoError, Delay, Terminal, Timeout, Serve,
     GiveUp
<1>2. CASE Delay(r)
  <2>1. step' \in [Requests -> Nat]
    BY <1>2 DEF Delay, TypeOK
  <2>2. QuietEffect(r, "walk", result[r])
    BY <1>2 DEF Delay, Walking, QuietEffect, TypeOK, StageInv
  <2>3. QED
    BY <1>1, <2>1, <2>2, EffectIntro DEF TypeOK
<1>3. CASE ~Delay(r)
  <2>1. step' \in [Requests -> Nat]
    <3>1. UNCHANGED step
      BY <1>3 DEF QuietStep, RejectHeader, RejectFaultSpec, RateLimited, LimiterAdmits,
         Unlimited, FailFirst, RandomError, NoError, Terminal, Timeout, Serve, GiveUp
    <3>2. QED
      BY <3>1 DEF TypeOK
  <2>2. Effect(r)
    <3>1. CASE RejectHeader(r)
      <4>1. QuietEffect(r, "over", "bad_header")
        BY <3>1 DEF RejectHeader, Answer, Go, QuietEffect
      <4>2. QED
        BY <4>1, EffectIntro, ResultNames
    <3>2. CASE RejectFaultSpec(r)
      <4>1. QuietEffect(r, "over", "bad_spec")
        BY <3>2 DEF RejectFaultSpec, Answer, Go, QuietEffect
      <4>2. QED
        BY <4>1, EffectIntro, ResultNames
    <3>3. CASE RateLimited(r)
      <4>1. QuietEffect(r, "over", "rate_limited")
        BY <3>3 DEF RateLimited, Answer, Go, QuietEffect
      <4>2. QED
        BY <4>1, EffectIntro, ResultNames
    <3>4. CASE FailFirst(r)
      <4>1. QuietEffect(r, "over", "fail_first")
        BY <3>4 DEF FailFirst, Answer, Go, QuietEffect
      <4>2. QED
        BY <4>1, EffectIntro, ResultNames
    <3>5. CASE RandomError(r)
      <4>1. QuietEffect(r, "over", "random_error")
        BY <3>5 DEF RandomError, Answer, Go, QuietEffect
      <4>2. QED
        BY <4>1, EffectIntro, ResultNames
    <3>6. CASE LimiterAdmits(r) \/ Unlimited(r) \/ NoError(r)
      <4>1. UNCHANGED <<answers, result>> /\ stage[r] \in {"resolve", "errors"}
        BY <3>6 DEF LimiterAdmits, Unlimited, NoError
      <4>2. Go(r, "errors") \/ Go(r, "walk")
        BY <3>6 DEF LimiterAdmits, Unlimited, NoError
      <4>3. QuietEffect(r, "errors", result[r]) \/ QuietEffect(r, "walk", result[r])
        BY <4>1, <4>2 DEF Go, QuietEffect, TypeOK, StageInv
      <4>4. QED
        BY <4>3, EffectIntro DEF TypeOK
    <3>7. CASE Terminal(r)
      <4>1. stage[r] = "walk"
        BY <3>7 DEF Terminal, Walking
      <4>2. \/ Answer(r, "fault_error") \/ Answer(r, "non_json_body")
            \/ Answer(r, "bad_gateway") \/ End(r, "cut")
        BY <3>7 DEF Terminal, Cut
      <4>3. \/ QuietEffect(r, "over", "fault_error")
            \/ QuietEffect(r, "over", "non_json_body")
            \/ QuietEffect(r, "over", "bad_gateway")
            \/ QuietEffect(r, "over", "cut")
        BY <4>1, <4>2 DEF Answer, End, Go, QuietEffect, TypeOK
      <4>4. QED
        BY <4>3, EffectIntro, ResultNames
    <3>8. CASE Timeout(r)
      <4>1. stage[r] = "walk"
        BY <3>8 DEF Timeout, WalkDone
      <4>2. Answer(r, "bad_gateway") \/ End(r, "cut")
        BY <3>8 DEF Timeout, Cut
      <4>3. QuietEffect(r, "over", "bad_gateway") \/ QuietEffect(r, "over", "cut")
        BY <4>1, <4>2 DEF Answer, End, Go, QuietEffect, TypeOK
      <4>4. QED
        BY <4>3, EffectIntro, ResultNames
    <3>9. CASE Serve(r)
      <4>1. QuietEffect(r, "served", "served")
        BY <3>9 DEF Serve, WalkDone, Go, QuietEffect, TypeOK
      <4>2. QED
        BY <4>1, EffectIntro, ResultNames
    <3>10. CASE GiveUp(r)
      <4>1. QuietEffect(r, "over", "gone")
        BY <3>10 DEF GiveUp, Walking, WalkDone, End, Go, QuietEffect, TypeOK
      <4>2. QED
        BY <4>1, EffectIntro, ResultNames
    <3>11. QED
      BY <1>3, <3>1, <3>2, <3>3, <3>4, <3>5, <3>6, <3>7, <3>8, <3>9, <3>10 DEF QuietStep
  <2>3. QED
    BY <1>1, <2>1, <2>2
<1>4. QED
  BY <1>2, <1>3

LEMMA TypeOKStep == TypeOK /\ StageInv /\ [Next]_vars => TypeOK'
<1> SUFFICES ASSUME TypeOK, StageInv, [Next]_vars PROVE TypeOK'
  OBVIOUS
<1> USE BoundsAssumption, ProviderIsCounter, UnchangedParts DEF TypeOK
<1>1. ASSUME NEW c \in Configs, Update(c)
      PROVE  TypeOK'
  <2>1. c.rate_limit_rpm \in Int
    BY ConfigAssumption
  <2>2. swaps' \in Swaps /\ limiter' \in Limiters
    BY <1>1 DEF Update, LimiterFor, Swaps, Limiters
  <2>3. rate' \in [Swaps -> Int]
    BY <1>1, <2>1 DEF Update, Swaps
  <2>4. QED
    BY <1>1, <2>2, <2>3 DEF Update, Zero
<1>2. CASE Reset
  BY <1>1, <1>2, ConfigAssumption DEF Reset
<1>3. ASSUME NEW c \in Counters, ResetAttempts(c)
      PROVE  TypeOK'
  BY <1>3 DEF ResetAttempts, Zero
<1>4. ASSUME NEW n \in Swaps, Expire(n)
      PROVE  TypeOK'
  BY <1>4 DEF Expire
<1>5. ASSUME NEW r \in Requests, Begin(r)
      PROVE  TypeOK'
  <2>1. PICK s \in Counters, h \in Headers :
          /\ scenario' = [scenario EXCEPT ![r] = s]
          /\ header' = [header EXCEPT ![r] = h]
    BY <1>5 DEF Begin
  <2>2. /\ scenario' \in [Requests -> Counters]
        /\ header' \in [Requests -> Headers]
    BY <2>1
  <2>3. QED
    BY <1>5, <2>2 DEF Begin, Go, Stages
<1>6. ASSUME NEW r \in Requests, NextAttempt(r)
      PROVE  TypeOK'
  BY <1>6 DEF NextAttempt, Draw, Go, Stages
<1>7. ASSUME NEW r \in Requests, NextFaultAttempt(r)
      PROVE  TypeOK'
  BY <1>7 DEF NextFaultAttempt, Draw, Go, Stages
<1>8. ASSUME NEW r \in Requests, QuietStep(r)
      PROVE  TypeOK'
  <2>1. PICK to \in {"errors", "walk", "served", "over"}, how \in Results :
          QuietEffect(r, to, how)
    BY <1>8, QuietSteps DEF Effect
  <2>2. /\ stage' \in [Requests -> Stages]
        /\ result' \in [Requests -> Results]
        /\ answers' \in [Requests -> Nat]
    BY <2>1 DEF QuietEffect, Stages
  <2>3. /\ used' \in [Swaps -> Nat]
        /\ admitted' \in [Requests -> BOOLEAN]
    <3>1. CASE LimiterAdmits(r)
      <4>1. reqLimiter[r] \in Swaps
        BY <3>1 DEF LimiterAdmits, Limited, Limiters
      <4>2. QED
        BY <3>1, <4>1 DEF LimiterAdmits
    <3>2. CASE ~LimiterAdmits(r)
      BY <1>8, <3>2 DEF QuietStep, RejectHeader, RejectFaultSpec, RateLimited,
         Unlimited, FailFirst, RandomError, NoError, Delay, Terminal, Timeout, Serve,
         GiveUp
    <3>3. QED
      BY <3>1, <3>2
  <2>4. QED
    BY <1>8, <2>2, <2>3, QuietSteps
<1>9. ASSUME NEW r \in Requests, ClientLeaves(r)
       PROVE  TypeOK'
  BY <1>9 DEF ClientLeaves
<1>10. CASE UNCHANGED vars
  BY <1>10
<1>11. QED
  BY <1>1, <1>2, <1>3, <1>4, <1>5, <1>6, <1>7, <1>8, <1>9, <1>10
  DEF Next, checkFaults, QuietStep, Swaps

-----------------------------------------------------------------------------
(* Zeroing a counter starts it anew: no request has drawn from it since.   *)
LEMMA ZeroKeepsNumbers ==
  ASSUME TypeOK, Numbers, NEW z \in Counters, Zero(z), UNCHANGED <<drawn, drawnIn>>
  PROVE  Numbers'
<1> SUFFICES ASSUME NEW c \in Counters
             PROVE  /\ \A r \in Requests : drawnIn'[r][c] <= zeroings'[c]
                    /\ \A r \in DrewFrom(c)' : drawn'[r][c] <= counter'[c]
                    /\ \A r, q \in Requests :
                         drawn'[r][c] > 0 /\ drawn'[q][c] = drawn'[r][c]
                           /\ drawnIn'[q][c] = drawnIn'[r][c] => q = r
                    /\ \A n \in 1..counter'[c] :
                         \E r \in DrewFrom(c)' : drawn'[r][c] = n
  BY DEF Numbers
<1>1. CASE c = z
  <2>1. /\ counter'[c] = 0 /\ zeroings'[c] = zeroings[c] + 1 /\ zeroings[c] \in Nat
        /\ drawn' = drawn /\ drawnIn' = drawnIn
        /\ \A r \in Requests : drawnIn[r][c] \in Nat /\ drawnIn[r][c] <= zeroings[c]
    BY <1>1 DEF Numbers, Zero, TypeOK
  <2>2. DrewFrom(c)' = {}
    BY <2>1 DEF DrewFrom
  <2>3. \A r \in Requests : drawnIn'[r][c] <= zeroings'[c]
    BY <2>1
  <2>4. QED
    BY <2>1, <2>2, <2>3 DEF Numbers
<1>2. CASE c # z
  <2>1. /\ counter'[c] = counter[c] /\ zeroings'[c] = zeroings[c]
        /\ drawn' = drawn /\ drawnIn' = drawnIn
    BY <1>2 DEF Zero, TypeOK
  <2>2. DrewFrom(c)' = DrewFrom(c)
    BY <2>1 DEF DrewFrom
  <2>3. QED
    BY <2>1, <2>2 DEF Numbers
<1>3. QED
  BY <1>1, <1>2

(* Drawing from a counter takes its next number, for a request that has    *)
(* none of it yet.                                                         *)
LEMMA DrawKeepsNumbers ==
  ASSUME TypeOK, Numbers, NEW d \in Counters, NEW p \in Requests, Draw(p, d),
         drawn[p][d] = 0
  PROVE  Numbers'
<1> SUFFICES ASSUME NEW c \in Counters
             PROVE  /\ \A r \in Requests : drawnIn'[r][c] <= zeroings'[c]
                    /\ \A r \in DrewFrom(c)' : drawn'[r][c] <= counter'[c]
                    /\ \A r, q \in Requests :
                         drawn'[r][c] > 0 /\ drawn'[q][c] = drawn'[r][c]
                           /\ drawnIn'[q][c] = drawnIn'[r][c] => q = r
                    /\ \A n \in 1..counter'[c] :
                         \E r \in DrewFrom(c)' : drawn'[r][c] = n
  BY DEF Numbers
<1>1. CASE c # d
  <2>1. /\ counter'[c] = counter[c] /\ zeroings'[c] = zeroings[c]
        /\ \A r \in Requests : drawn'[r][c] = drawn[r][c] /\ drawnIn'[r][c] = drawnIn[r][c]
    BY <1>1 DEF Draw, TypeOK
  <2>2. DrewFrom(c)' = DrewFrom(c)
    BY <2>1 DEF DrewFrom
  <2>3. QED
    BY <2>1, <2>2 DEF Numbers, DrewFrom
<1>2. CASE c = d
  <2>1. /\ counter'[c] = counter[c] + 1 /\ zeroings'[c] = zeroings[c]
        /\ drawn'[p][c] = counter[c] + 1 /\ drawnIn'[p][c] = zeroings[c]
        /\ \A r \in Requests \ {p} :
             drawn'[r][c] = drawn[r][c] /\ drawnIn'[r][c] = drawnIn[r][c]
        /\ counter[c] \in Nat /\ zeroings[c] \in Nat
        /\ \A r \in Requests : drawn[r][c] \in Nat /\ drawnIn[r][c] \in Nat
    BY <1>2 DEF Draw, TypeOK
  <2>2. DrewFrom(c)' = DrewFrom(c) \cup {p}
    BY <1>2, <2>1 DEF DrewFrom
  <2>3. \A r \in Requests : drawnIn'[r][c] <= zeroings'[c]
    BY <2>1 DEF Numbers
  <2>4. \A r \in DrewFrom(c)' : drawn'[r][c] <= counter'[c]
    BY <2>1, <2>2 DEF Numbers, DrewFrom
  <2>5. ASSUME NEW r \in Requests, NEW q \in Requests, drawn'[r][c] > 0,
               drawn'[q][c] = drawn'[r][c], drawnIn'[q][c] = drawnIn'[r][c]
        PROVE  q = r
    <3>1. CASE r = p \/ q = p
      BY <2>1, <2>5, <3>1 DEF Numbers, DrewFrom
    <3>2. CASE r # p /\ q # p
      BY <2>1, <2>5, <3>2 DEF Numbers
    <3>3. QED
      BY <3>1, <3>2
  <2>6. ASSUME NEW n \in 1..counter'[c]
        PROVE  \E r \in DrewFrom(c)' : drawn'[r][c] = n
    <3>1. CASE n = counter[c] + 1
      BY <2>1, <2>2, <3>1
    <3>2. CASE n # counter[c] + 1
      <4>1. n \in 1..counter[c]
        BY <2>1, <3>2
      <4>2. PICK r \in DrewFrom(c) : drawn[r][c] = n
        BY <4>1 DEF Numbers
      <4>3. r # p
        BY <1>2, <4>1, <4>2
      <4>4. QED
        BY <2>1, <2>2, <4>2, <4>3 DEF DrewFrom
    <3>3. QED
      BY <3>1, <3>2
  <2>7. QED
    BY <2>3, <2>4, <2>5, <2>6
<1>3. QED
  BY <1>1, <1>2

LEMMA NumbersStep == GateInv /\ [Next]_vars => Numbers'
<1> SUFFICES ASSUME GateInv, [Next]_vars PROVE Numbers'
  OBVIOUS
<1> USE ProviderIsCounter, UnchangedParts DEF GateInv
<1>0. ASSUME UNCHANGED <<counter, zeroings, drawn, drawnIn>>
      PROVE  Numbers'
  BY <1>0 DEF Numbers, DrewFrom
<1>1. ASSUME NEW c \in Configs, Update(c)
      PROVE  Numbers'
  BY <1>1, ZeroKeepsNumbers DEF Update
<1>2. CASE Reset
  BY <1>1, <1>2, ConfigAssumption DEF Reset
<1>3. ASSUME NEW c \in Counters, ResetAttempts(c)
      PROVE  Numbers'
  BY <1>3, ZeroKeepsNumbers DEF ResetAttempts
<1>4. ASSUME NEW r \in Requests, NextAttempt(r)
      PROVE  Numbers'
  <2>1. drawn[r][Provider] = 0
    BY <1>4 DEF NextAttempt, StageInv, Drawn, TypeOK
  <2>2. QED
    BY <1>4, <2>1, DrawKeepsNumbers DEF NextAttempt
<1>5. ASSUME NEW r \in Requests, NextFaultAttempt(r)
      PROVE  Numbers'
  <2>1. scenario[r] \in Counters /\ drawn[r][scenario[r]] = 0
    BY <1>5 DEF NextFaultAttempt, StageInv, Drawn, TypeOK
  <2>2. QED
    BY <1>5, <2>1, DrawKeepsNumbers DEF NextFaultAttempt
<1>6. ASSUME NEW r \in Requests, QuietStep(r)
      PROVE  Numbers'
  BY <1>0, <1>6, QuietSteps
<1>7. ASSUME NEW n \in Swaps, Expire(n)
      PROVE  Numbers'
  BY <1>0, <1>7 DEF Expire
<1>8. ASSUME NEW r \in Requests, Begin(r) \/ ClientLeaves(r)
      PROVE  Numbers'
  BY <1>0, <1>8 DEF Begin, ClientLeaves
<1>9. CASE UNCHANGED vars
  BY <1>0, <1>9
<1>10. QED
  BY <1>1, <1>2, <1>3, <1>4, <1>5, <1>6, <1>7, <1>8, <1>9
  DEF Next, checkFaults, QuietStep

LEMMA StageStep == GateInv /\ [Next]_vars => StageInv'
<1> SUFFICES ASSUME GateInv, [Next]_vars PROVE StageInv'
  OBVIOUS
<1> USE ProviderIsCounter, UnchangedParts DEF GateInv
<1>0. ASSUME UNCHANGED <<stage, scenario, drawn, result, cfg>>
      PROVE  StageInv'
  BY <1>0 DEF StageInv, Drawn, FailsFirst, Attempt
<1>1. ASSUME NEW c \in Configs, Update(c)
      PROVE  StageInv'
  BY <1>0, <1>1 DEF Update
<1>2. CASE Reset
  BY <1>1, <1>2, ConfigAssumption DEF Reset
<1>3. ASSUME NEW c \in Counters, ResetAttempts(c)
      PROVE  StageInv'
  BY <1>0, <1>3 DEF ResetAttempts
<1>4. ASSUME NEW n \in Swaps, Expire(n)
      PROVE  StageInv'
  BY <1>0, <1>4 DEF Expire
<1>5. ASSUME NEW r \in Requests, Begin(r)
      PROVE  StageInv'
  <2>1. /\ stage[r] = "idle" /\ stage' = [stage EXCEPT ![r] = "begun"]
        /\ UNCHANGED <<drawn, result>>
        /\ \A q \in Requests \ {r} : scenario'[q] = scenario[q] /\ cfg'[q] = cfg[q]
    BY <1>5 DEF Begin, Go, TypeOK
  <2>2. \A c \in Counters : ~Drawn(r, c)
    BY <2>1 DEF StageInv
  <2>3. scenario' \in [Requests -> Counters]
    BY TypeOKStep DEF TypeOK
  <2>4. QED
    BY <2>1, <2>2, <2>3 DEF StageInv, Drawn, FailsFirst, Attempt, TypeOK
<1>6. ASSUME NEW r \in Requests, NextAttempt(r)
      PROVE  StageInv'
  BY <1>6 DEF NextAttempt, Draw, Go, StageInv, Drawn, FailsFirst, Attempt, TypeOK
<1>7. ASSUME NEW r \in Requests, NextFaultAttempt(r)
      PROVE  StageInv'
  BY <1>7 DEF NextFaultAttempt, Draw, Go, StageInv, Drawn, FailsFirst, Attempt, TypeOK
<1>8. ASSUME NEW r \in Requests, QuietStep(r)
      PROVE  StageInv'
  <2>1. PICK to \in {"errors", "walk", "served", "over"}, how \in Results :
          QuietEffect(r, to, how)
    BY <1>8, QuietSteps DEF Effect
  <2>2. UNCHANGED <<scenario, drawn, cfg>>
    BY <1>8, QuietSteps
  <2>3. QED
    BY <2>1, <2>2 DEF QuietEffect, StageInv, Drawn, FailsFirst, Attempt, TypeOK
<1>9. ASSUME NEW r \in Requests, ClientLeaves(r)
      PROVE  StageInv'
  BY <1>0, <1>9 DEF ClientLeaves
<1>10. CASE UNCHANGED vars
  BY <1>0, <1>10
<1>11. QED
  BY <1>1, <1>2, <1>3, <1>4, <1>5, <1>6, <1>7, <1>8, <1>9, <1>10
  DEF Next, checkFaults, QuietStep
-----------------------------------------------------------------------------
(* What a handler's copy of the configuration always is.                   *)
CopyInv ==
  /\ config \in Configs
  /\ cfg = [r \in Requests |-> cfg[r]]
  /\ \A r \in Requests : DOMAIN cfg[r] = Knobs /\ cfg[r].fail_first_n \in Int

LEMMA CopyStep == GateInv /\ CopyInv /\ [Next]_vars => CopyInv'
<1> SUFFICES ASSUME GateInv, CopyInv, [Next]_vars PROVE CopyInv'
  OBVIOUS
<1> USE UnchangedParts DEF GateInv
<1>0. ASSUME UNCHANGED cfg, config' \in Configs
      PROVE  CopyInv'
  BY <1>0 DEF CopyInv
<1>1. ASSUME NEW c \in Configs, Update(c)
      PROVE  CopyInv'
  BY <1>0, <1>1 DEF Update
<1>2. CASE Reset
  BY <1>1, <1>2, ConfigAssumption DEF Reset
<1>3. ASSUME NEW c \in Counters, ResetAttempts(c)
      PROVE  CopyInv'
  BY <1>0, <1>3 DEF ResetAttempts, CopyInv
<1>4. ASSUME NEW n \in Swaps, Expire(n)
      PROVE  CopyInv'
  BY <1>0, <1>4 DEF Expire, CopyInv
<1>5. ASSUME NEW r \in Requests, Begin(r)
      PROVE  CopyInv'
  <2>1. PICK s \in Counters : cfg' = [cfg EXCEPT ![r] = ConfigFor(s)]
    BY <1>5 DEF Begin
  <2>2. DOMAIN ConfigFor(s) = Knobs /\ ConfigFor(s).fail_first_n \in Int
    <3>1. CASE s = Provider
      BY <3>1, ConfigAssumption DEF ConfigFor, CopyInv
    <3>2. CASE s # Provider
      BY <3>2, ConfigAssumption DEF ConfigFor, Counters, Knobs
    <3>3. QED
      BY <3>1, <3>2
  <2>3. QED
    BY <1>5, <2>1, <2>2 DEF Begin, CopyInv
<1>6. ASSUME NEW r \in Requests, NextAttempt(r)
      PROVE  CopyInv'
  <2>1. CASE header[r] = NoHeader
    BY <1>6, <2>1 DEF NextAttempt, CopyInv
  <2>2. CASE header[r] # NoHeader
    <3> DEFINE new == Overlay(cfg[r], header[r])
    <3>1. header[r] \in Headers \ {NoHeader, BadHeader}
      BY <1>6, <2>2 DEF NextAttempt, TypeOK
    <3>2. DOMAIN new = Knobs
      BY DEF Overlay, CopyInv
    <3>3. new.fail_first_n \in Int
      BY <3>1, HeaderAssumption DEF Overlay, CopyInv, Knobs
    <3>4. cfg' = [cfg EXCEPT ![r] = new]
      BY <1>6, <2>2 DEF NextAttempt
    <3> HIDE DEF new
    <3>5. QED
      BY <1>6, <3>2, <3>3, <3>4 DEF NextAttempt, CopyInv
  <2>3. QED
    BY <2>1, <2>2
<1>7. ASSUME NEW r \in Requests, NextFaultAttempt(r) \/ ClientLeaves(r)
      PROVE  CopyInv'
  BY <1>0, <1>7 DEF NextFaultAttempt, ClientLeaves, CopyInv
<1>8. ASSUME NEW r \in Requests, QuietStep(r)
      PROVE  CopyInv'
  BY <1>0, <1>8, QuietSteps DEF CopyInv
<1>9. CASE UNCHANGED vars
  BY <1>0, <1>9 DEF CopyInv
<1>10. QED
  BY <1>1, <1>2, <1>3, <1>4, <1>5, <1>6, <1>7, <1>8, <1>9
  DEF Next, checkFaults, QuietStep

LEMMA InvariantInit == Init => GateInv /\ CopyInv
<1> SUFFICES ASSUME Init PROVE GateInv /\ CopyInv
  OBVIOUS
<1>1. TypeOK
  BY TypeOKInit
<1>2. \A r \in Requests, c \in Counters : drawn[r][c] = 0 /\ drawnIn[r][c] = 0
  BY DEF Init
<1>3. Numbers
  BY <1>2 DEF Init, Numbers, DrewFrom
<1>4. StageInv
  BY <1>2, ProviderIsCounter DEF Init, StageInv, Drawn
<1>5. CopyInv
  BY ConfigAssumption DEF Init, CopyInv
<1>6. QED
  BY <1>1, <1>3, <1>4, <1>5 DEF GateInv

THEOREM Invariance == Spec => [](GateInv /\ CopyInv)
<1>1. GateInv /\ CopyInv /\ [Next]_vars => (GateInv /\ CopyInv)'
  BY TypeOKStep, NumbersStep, StageStep, CopyStep DEF GateInv
<1>2. QED
  BY <1>1, InvariantInit, PTL DEF Spec

(***************************************************************************)
(* Every state of the gate is well typed.                                  *)
(***************************************************************************)
THEOREM TypeCorrect == Spec => []TypeOK
<1>1. GateInv => TypeOK
  BY DEF GateInv
<1>2. QED
  BY <1>1, Invariance, PTL

(***************************************************************************)
(* Attempts are drawn 1, 2, 3, ... from every counter, and a scenario's    *)
(* only by its own requests, however many requests interleave with swaps   *)
(* and resets (NextAttempt, checkFaults).                                  *)
(***************************************************************************)
THEOREM AttemptsAreInSequence == Spec => []AttemptsInSequence
<1>1. GateInv => AttemptsInSequence
  <2> SUFFICES ASSUME GateInv, NEW c \in Counters
               PROVE  /\ \A r \in DrewFrom(c) :
                           /\ drawn[r][c] \in 1..counter[c]
                           /\ c # Provider => scenario[r] = c
                      /\ \A r, q \in DrewFrom(c) : drawn[r][c] = drawn[q][c] => r = q
                      /\ \A n \in 1..counter[c] : \E r \in DrewFrom(c) : drawn[r][c] = n
    BY DEF AttemptsInSequence
  <2>1. ASSUME NEW r \in DrewFrom(c)
        PROVE  drawn[r][c] \in 1..counter[c] /\ (c # Provider => scenario[r] = c)
    BY <2>1 DEF GateInv, Numbers, StageInv, Drawn, DrewFrom, TypeOK
  <2>2. \A r, q \in DrewFrom(c) : drawn[r][c] = drawn[q][c] => r = q
    BY DEF GateInv, Numbers, DrewFrom
  <2>3. QED
    BY <2>1, <2>2 DEF GateInv, Numbers
<1>2. QED
  BY <1>1, Invariance, PTL

(***************************************************************************)
(* The request count is exact: as many requests drew from the provider     *)
(* counter since it was zeroed as its value says.                          *)
(***************************************************************************)
THEOREM RequestCountIsExact == Spec => []CountIsExact
<1>1. GateInv => CountIsExact
  <2> SUFFICES ASSUME GateInv PROVE CountIsExact
    OBVIOUS
  <2> DEFINE S == DrewFrom(Provider)
             n == counter[Provider]
             f == [i \in 1..n |-> CHOOSE r \in S : drawn[r][Provider] = i]
  <2>1. ASSUME NEW r \in Requests
        PROVE  InFaultProcessing(r) <=> drawn[r][Provider] > 0
    BY ProviderIsCounter DEF GateInv, StageInv, Drawn, InFaultProcessing, TypeOK, Stages
  <2>2. S = { r \in Requests :
                InFaultProcessing(r) /\ drawnIn[r][Provider] = zeroings[Provider] }
    BY <2>1 DEF DrewFrom
  <2>3. \A i \in 1..n : f[i] \in S /\ drawn[f[i]][Provider] = i
    BY ProviderIsCounter DEF GateInv, Numbers
  <2>4. ASSUME NEW r \in S
        PROVE  drawn[r][Provider] \in 1..n /\ f[drawn[r][Provider]] = r
    <3>1. drawn[r][Provider] \in 1..n
      BY ProviderIsCounter DEF GateInv, Numbers, DrewFrom, TypeOK
    <3>2. f[drawn[r][Provider]] \in S
          /\ drawn[f[drawn[r][Provider]]][Provider] = drawn[r][Provider]
      BY <2>3, <3>1
    <3> HIDE DEF f
    <3>3. QED
      BY <3>1, <3>2, ProviderIsCounter DEF GateInv, Numbers, DrewFrom
  <2>5. f \in Bijection(1..n, S)
    <3>1. f \in [1..n -> S]
      BY <2>3
    <3>2. \A i, j \in 1..n : f[i] = f[j] => i = j
      BY <2>3
    <3>3. \A r \in S : \E i \in 1..n : f[i] = r
      BY <2>4
    <3> HIDE DEF f, S, n
    <3>4. QED
      BY <3>1, <3>2, <3>3, Fun_IsBij
  <2>6. n \in Nat
    BY ProviderIsCounter DEF GateInv, TypeOK
  <2>7. ExistsBijection(1..n, S)
    BY <2>5 DEF ExistsBijection
  <2>8. Cardinality(S) = n
    <3> HIDE DEF S, n, f
    <3>1. QED
      BY <2>6, <2>7, FS_CountingElements
  <2>9. QED
    BY <2>2, <2>8 DEF CountIsExact
<1>2. QED
  BY <1>1, Invariance, PTL

(***************************************************************************)
(* fail_first_n fails no more than n of the requests that share a counter. *)
(***************************************************************************)
THEOREM FailFirstIsBudgeted == Spec => []FailFirstBudget
<1>1. GateInv /\ CopyInv => FailFirstBudget
  <2> SUFFICES ASSUME GateInv, CopyInv, NEW c \in Counters, NEW r \in Requests,
                      result[r] = "fail_first"
               PROVE  Cardinality(FailedFirst(c, drawnIn[r][c], cfg[r].fail_first_n))
                        <= cfg[r].fail_first_n
    BY DEF FailFirstBudget
  <2> DEFINE n == cfg[r].fail_first_n
             S == FailedFirst(c, drawnIn[r][c], n)
             f == [q \in S |-> drawn[q][c]]
  <2>1. n \in Nat
    BY DEF GateInv, CopyInv, StageInv, FailsFirst
  <2>2. ASSUME NEW q \in S
        PROVE  /\ q \in Requests /\ drawn[q][c] \in 1..n
               /\ drawnIn[q][c] = drawnIn[r][c]
    <3>1. /\ q \in Requests /\ scenario[q] = c /\ result[q] = "fail_first"
          /\ drawnIn[q][c] = drawnIn[r][c] /\ cfg[q].fail_first_n <= n
      BY DEF FailedFirst
    <3>2. drawn[q][c] > 0 /\ drawn[q][c] <= cfg[q].fail_first_n
      BY <3>1 DEF GateInv, StageInv, FailsFirst, Attempt, Drawn
    <3>3. drawn[q][c] \in Nat /\ cfg[q].fail_first_n \in Int
      BY <3>1 DEF GateInv, TypeOK, CopyInv
    <3> HIDE DEF n
    <3>4. QED
      BY <2>1, <3>1, <3>2, <3>3
  <2>3. f \in Injection(S, 1..n)
    <3>1. f \in [S -> 1..n]
      BY <2>2
    <3>2. \A q, p \in S : f[q] = f[p] => q = p
      BY <2>2 DEF GateInv, Numbers
    <3> HIDE DEF f, S, n
    <3>3. QED
      BY <3>1, <3>2, Fun_IsInj
  <2>4. IsFiniteSet(1..n) /\ Cardinality(1..n) = n
    <3> HIDE DEF n
    <3>1. QED
      BY <2>1, FS_Interval
  <2>5. Cardinality(S) <= Cardinality(1..n)
    <3> HIDE DEF f, S, n
    <3>1. QED
      BY <2>3, <2>4, FS_Injection
  <2>6. QED
    BY <2>4, <2>5
<1>2. QED
  BY <1>1, Invariance, PTL
-----------------------------------------------------------------------------
(* Answers: a handler that is not over has not answered, so the step that  *)
(* answers is the first to.                                                *)
LEMMA OneAnswerStep == GateInv /\ OneAnswer /\ [Next]_vars => OneAnswer'
<1> SUFFICES ASSUME GateInv, OneAnswer, [Next]_vars PROVE OneAnswer'
  OBVIOUS
<1> USE UnchangedParts DEF GateInv
<1>0. ASSUME UNCHANGED <<answers, result>>
      PROVE  OneAnswer'
  BY <1>0 DEF OneAnswer
<1>1. ASSUME NEW r \in Requests, QuietStep(r)
      PROVE  OneAnswer'
  <2>1. PICK to \in {"errors", "walk", "served", "over"}, how \in Results :
          QuietEffect(r, to, how)
    BY <1>1, QuietSteps DEF Effect
  <2>2. answers[r] = 0
    BY <2>1 DEF QuietEffect, StageInv, OneAnswer
  <2>3. QED
    BY <2>1, <2>2 DEF QuietEffect, OneAnswer, TypeOK
<1>2. CASE \E c \in Configs : Update(c)
  BY <1>0, <1>2 DEF Update
<1>3. CASE Reset
  BY <1>0, <1>3 DEF Reset, Update
<1>4. CASE \/ \E c \in Counters : ResetAttempts(c)
           \/ \E n \in Swaps : Expire(n)
  BY <1>0, <1>4 DEF ResetAttempts, Expire
<1>5. ASSUME NEW r \in Requests,
             Begin(r) \/ NextAttempt(r) \/ NextFaultAttempt(r) \/ ClientLeaves(r)
      PROVE  OneAnswer'
  BY <1>0, <1>5 DEF Begin, NextAttempt, NextFaultAttempt, ClientLeaves
<1>6. CASE UNCHANGED vars
  BY <1>0, <1>6
<1>7. QED
  BY <1>1, <1>2, <1>3, <1>4, <1>5, <1>6 DEF Next, checkFaults, QuietStep

(***************************************************************************)
(* Each early return of checkFaults answers once, and what is served, cut  *)
(* or abandoned was not answered before.                                   *)
(***************************************************************************)
THEOREM AnswersAreUnique == Spec => []OneAnswer
<1>1. Init => OneAnswer
  BY DEF Init, OneAnswer
<1>2. QED
  BY <1>1, OneAnswerStep, Invariance, PTL DEF Spec

-----------------------------------------------------------------------------
(* Limiters: the one in force was built by the last swap, those of later   *)
(* swaps are still empty, and snapshots are of swaps that happened.        *)
RateInv ==
  /\ \A n \in Swaps : n > swaps => used[n] = 0
  /\ limiter # NoLimiter => limiter = swaps /\ rate[swaps] > 0
  /\ \A r \in Requests : takenAt[r] <= swaps
  /\ LimitersKeepTheirRate

LEMMA RateInit == Init => RateInv
BY BoundsAssumption, ConfigAssumption
DEF Init, RateInv, LimitersKeepTheirRate, LimiterFor, Swaps

LEMMA SwapKeepsRates ==
  ASSUME GateInv, RateInv, NEW c, Update(c)
  PROVE  RateInv'
<1> USE BoundsAssumption, UnchangedParts DEF GateInv
<1>1. /\ swaps \in Nat /\ MaxSwaps \in Nat /\ swaps < MaxSwaps
      /\ swaps' = swaps + 1 /\ swaps' \in Swaps
      /\ rate' = [rate EXCEPT ![swaps + 1] = c.rate_limit_rpm]
      /\ limiter' = LimiterFor(c, swaps + 1)
      /\ UNCHANGED <<used, reqLimiter, takenAt>>
      /\ takenAt \in [Requests -> Swaps]
  BY DEF Update, TypeOK, Swaps
<1>2. rate'[swaps'] = c.rate_limit_rpm /\ \A n \in Swaps : n # swaps' => rate'[n] = rate[n]
  BY <1>1 DEF TypeOK
<1>3. \A n \in Swaps : n > swaps' => used'[n] = 0
  BY <1>1 DEF RateInv, Swaps
<1>4. limiter' # NoLimiter => limiter' = swaps' /\ rate'[swaps'] > 0
  BY <1>1, <1>2 DEF LimiterFor
<1>5. \A r \in Requests : takenAt[r] \in Swaps /\ takenAt[r] <= swaps
  BY <1>1 DEF RateInv
<1>6. \A r \in Requests : takenAt'[r] <= swaps' /\ takenAt[r] # swaps'
  BY <1>1, <1>5 DEF Swaps
<1>7. \A n \in Swaps : used'[n] > 0 => used'[n] <= rate'[n]
  <2>1. used[swaps'] = 0
    BY <1>1 DEF RateInv
  <2>2. QED
    BY <1>1, <1>2, <2>1 DEF RateInv, LimitersKeepTheirRate
<1>8. \A r \in Requests :
        reqLimiter'[r] # NoLimiter => reqLimiter'[r] = takenAt'[r] /\ rate'[takenAt'[r]] > 0
  BY <1>1, <1>2, <1>5, <1>6 DEF RateInv, LimitersKeepTheirRate
<1>9. QED
  BY <1>3, <1>4, <1>6, <1>7, <1>8 DEF RateInv, LimitersKeepTheirRate

LEMMA RateStep == GateInv /\ RateInv /\ [Next]_vars => RateInv'
<1> SUFFICES ASSUME GateInv, RateInv, [Next]_vars PROVE RateInv'
  OBVIOUS
<1> USE UnchangedParts DEF GateInv
<1>0. ASSUME UNCHANGED <<limiter, swaps, used, rate, reqLimiter, takenAt>>
      PROVE  RateInv'
  BY <1>0 DEF RateInv, LimitersKeepTheirRate
<1>1. ASSUME NEW c \in Configs, Update(c)
      PROVE  RateInv'
  BY <1>1, SwapKeepsRates
<1>2. CASE Reset
  BY <1>2, SwapKeepsRates DEF Reset
<1>3. ASSUME NEW c \in Counters, ResetAttempts(c)
      PROVE  RateInv'
  BY <1>0, <1>3 DEF ResetAttempts
<1>4. ASSUME NEW n \in Swaps, Expire(n)
      PROVE  RateInv'
  BY <1>4 DEF Expire, RateInv, LimitersKeepTheirRate, TypeOK
<1>5. ASSUME NEW r \in Requests, Begin(r)
      PROVE  RateInv'
  <2>1. /\ reqLimiter' = [reqLimiter EXCEPT ![r] = limiter]
        /\ takenAt' = [takenAt EXCEPT ![r] = swaps]
        /\ UNCHANGED <<limiter, swaps, used, rate>>
    BY <1>5 DEF Begin
  <2>2. /\ reqLimiter'[r] = limiter /\ takenAt'[r] = swaps
        /\ \A q \in Requests \ {r} :
             reqLimiter'[q] = reqLimiter[q] /\ takenAt'[q] = takenAt[q]
    BY <2>1 DEF TypeOK
  <2>3. swaps \in Nat
    BY BoundsAssumption DEF TypeOK, Swaps
  <2>4. \A q \in Requests : takenAt'[q] <= swaps
    BY <2>2, <2>3 DEF RateInv
  <2>5. \A q \in Requests :
          reqLimiter'[q] # NoLimiter =>
            reqLimiter'[q] = takenAt'[q] /\ rate[takenAt'[q]] > 0
    BY <2>2 DEF RateInv, LimitersKeepTheirRate
  <2>6. QED
    BY <2>1, <2>4, <2>5 DEF RateInv, LimitersKeepTheirRate
<1>6. ASSUME NEW r \in Requests, LimiterAdmits(r)
      PROVE  RateInv'
  <2> DEFINE n == reqLimiter[r]
  <2>1. /\ n # NoLimiter /\ ~(used[n] >= rate[n])
        /\ used' = [used EXCEPT ![n] = @ + 1]
        /\ UNCHANGED <<limiter, swaps, rate, reqLimiter, takenAt>>
    BY <1>6 DEF LimiterAdmits, Full, Limited
  <2>2. n = takenAt[r] /\ n \in Swaps /\ n <= swaps
    BY <2>1 DEF RateInv, LimitersKeepTheirRate, TypeOK
  <2>3. used[n] \in Nat /\ rate[n] \in Int /\ swaps \in Int /\ n \in Int
    BY <2>2 DEF TypeOK, Swaps
  <2> HIDE DEF n
  <2>4. used'[n] = used[n] + 1 /\ \A m \in Swaps : m # n => used'[m] = used[m]
    BY <2>1, <2>2 DEF TypeOK
  <2>5. \A m \in Swaps : m > swaps => used'[m] = 0
    BY <2>2, <2>3, <2>4 DEF RateInv
  <2>6. \A m \in Swaps : used'[m] > 0 => used'[m] <= rate[m]
    BY <2>1, <2>3, <2>4 DEF RateInv, LimitersKeepTheirRate
  <2>7. QED
    BY <2>1, <2>5, <2>6 DEF RateInv, LimitersKeepTheirRate
<1>7. ASSUME NEW r \in Requests, QuietStep(r), ~LimiterAdmits(r)
      PROVE  RateInv'
  <2>1. UNCHANGED used
    BY <1>7 DEF QuietStep, RejectHeader, RejectFaultSpec, RateLimited, Unlimited,
       FailFirst, RandomError, NoError, Delay, Terminal, Timeout, Serve, GiveUp
  <2>2. QED
    BY <1>0, <1>7, <2>1, QuietSteps
<1>8. ASSUME NEW r \in Requests, NextAttempt(r) \/ NextFaultAttempt(r) \/ ClientLeaves(r)
      PROVE  RateInv'
  BY <1>0, <1>8 DEF NextAttempt, NextFaultAttempt, ClientLeaves
<1>9. CASE UNCHANGED vars
  BY <1>0, <1>9
<1>10. QED
  BY <1>1, <1>2, <1>3, <1>4, <1>5, <1>6, <1>7, <1>8, <1>9
  DEF Next, checkFaults, QuietStep

(***************************************************************************)
(* Every limiter keeps the rate it was built for, whatever a header says   *)
(* and whichever limiters a swap has left in use.                          *)
(***************************************************************************)
THEOREM RatesAreKept == Spec => []LimitersKeepTheirRate
<1>1. RateInv => LimitersKeepTheirRate
  BY DEF RateInv
<1>2. QED
  BY <1>1, RateInit, RateStep, Invariance, PTL DEF Spec
=============================================================================
