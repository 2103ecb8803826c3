------------------------ MODULE RequestPipelineProofs ------------------------
(***************************************************************************)
(* The request pipeline for any finite set of requests, any limits and any *)
(* capacity of the recording.                                              *)
(***************************************************************************)
EXTENDS RequestPipeline, FiniteSetTheorems, SequenceTheorems, TLAPS

(***************************************************************************)
(* What all handlers have in common: the gate comes first but for the      *)
(* checks of credentials and scenario headers, then the body is read and   *)
(* recorded, a scenario captures and the cache_control oracle looks before *)
(* the faults, and the response is last.                                   *)
(***************************************************************************)
Early == {"auth", "unwired"}
BeforeFaults == {"decode", "scenario", "capture", "cache_control"}
AfterFaults == {"strict", "thinking_delay", "tokens", "slow_header"}

\* The positions of the gate, the capture, the oracle and the faults.
Ordered(s, g, c, o, f) ==
  /\ g \in 1..2 /\ g + 2 < c /\ c <= o /\ o < f /\ f < Len(s) /\ Len(s) \in 1..14
  /\ \A i \in 1..Len(s) :
       /\ i < g => s[i] \in Early
       /\ i = g => s[i] = "gate"
       /\ i = g + 1 => s[i] = "body"
       /\ i = g + 2 => s[i] = "record"
       /\ g + 2 < i /\ i < f => s[i] \in BeforeFaults
       /\ s[i] = "capture" => i = c
       /\ s[i] = "cache_control" => i = o
       /\ i = o => s[i] = "cache_control"
       /\ i = f => s[i] = "faults"
       /\ f < i /\ i < Len(s) => s[i] \in AfterFaults
       /\ i = Len(s) => s[i] = "respond"

LEMMA ChatIsOrdered == Ordered(handleOpenAIChat, 1, 6, 7, 8) /\ handleOpenAIChat[6] = "capture"
BY DEF Ordered, handleOpenAIChat, Early, BeforeFaults, AfterFaults

LEMMA MessagesIsOrdered ==
  Ordered(handleAnthropicMessages, 2, 7, 8, 9) /\ handleAnthropicMessages[7] = "capture"
BY DEF Ordered, handleAnthropicMessages, Early, BeforeFaults, AfterFaults

LEMMA ConverseIsOrdered ==
  Ordered(handleBedrockConverse, 1, 6, 7, 8) /\ handleBedrockConverse[6] = "capture"
BY DEF Ordered, handleBedrockConverse, Early, BeforeFaults, AfterFaults

LEMMA CompletionsIsOrdered ==
  Ordered(handleOpenAICompletions, 2, 6, 6, 7) /\ handleOpenAICompletions[1] = "unwired"
BY DEF Ordered, handleOpenAICompletions, Early, BeforeFaults, AfterFaults

LEMMA ResponsesIsOrdered ==
  Ordered(handleOpenAIResponses, 2, 6, 6, 7) /\ handleOpenAIResponses[1] = "unwired"
BY DEF Ordered, handleOpenAIResponses, Early, BeforeFaults, AfterFaults

LEMMA EmbeddingsIsOrdered ==
  Ordered(handleOpenAIEmbeddings, 2, 6, 6, 7) /\ handleOpenAIEmbeddings[1] = "unwired"
BY DEF Ordered, handleOpenAIEmbeddings, Early, BeforeFaults, AfterFaults

GateAt(s) == IF s \in {"chat", "converse"} THEN 1 ELSE 2
FaultsAt(s) ==
  IF s \in {"chat", "converse"} THEN 8 ELSE IF s = "messages" THEN 9 ELSE 7
OracleAt(s) == FaultsAt(s) - 1
CaptureAt(s) == IF s \in Unwired THEN FaultsAt(s) - 1 ELSE FaultsAt(s) - 2

LEMMA HandlersAreOrdered ==
  ASSUME NEW s \in Surfaces
  PROVE  /\ Ordered(Handler(s), GateAt(s), CaptureAt(s), OracleAt(s), FaultsAt(s))
         /\ s \in Unwired => Handler(s)[1] = "unwired" /\ GateAt(s) = 2
         /\ s \notin Unwired => Handler(s)[CaptureAt(s)] = "capture"
<1> USE DEF GateAt, FaultsAt, OracleAt, CaptureAt, Unwired, Handler
<1>1. CASE s = "chat"
  BY <1>1, ChatIsOrdered
<1>2. CASE s = "messages"
  BY <1>2, MessagesIsOrdered
<1>3. CASE s = "converse"
  BY <1>3, ConverseIsOrdered
<1>4. CASE s = "completions"
  BY <1>4, CompletionsIsOrdered
<1>5. CASE s = "responses"
  BY <1>5, ResponsesIsOrdered
<1>6. CASE s = "embeddings"
  BY <1>6, EmbeddingsIsOrdered
<1> QED
  BY <1>1, <1>2, <1>3, <1>4, <1>5, <1>6 DEF Surfaces

gateAt(r) == GateAt(req[r].surface)
faultsAt(r) == FaultsAt(req[r].surface)
oracleAt(r) == OracleAt(req[r].surface)
captureAt(r) == CaptureAt(req[r].surface)
last(r) == Len(Stages(r))

(***************************************************************************)
(* Where a request is: nowhere, at a stage, or on its way out with a       *)
(* result.                                                                 *)
(***************************************************************************)
Out(r) == at[r] \in {Returning, Over}

PosInv ==
  /\ req \in [Requests -> Arrivals]
  /\ at \in [Requests -> 0..14 \cup {Returning, Over}]
  /\ result \in [Requests -> Outcomes]
  /\ \A r \in Requests :
       /\ Out(r) \/ at[r] \in 0..last(r)
       /\ at[r] # 0 => req[r].surface \in Surfaces
       /\ result[r] # "none" <=> Out(r)

LEMMA Positions ==
  ASSUME PosInv, NEW r \in Requests, req[r].surface \in Surfaces
  PROVE  /\ gateAt(r) \in 1..2 /\ gateAt(r) + 2 < captureAt(r)
         /\ captureAt(r) <= oracleAt(r) /\ oracleAt(r) < faultsAt(r)
         /\ faultsAt(r) < last(r) /\ last(r) \in 1..14
         /\ captureAt(r) \in Nat /\ oracleAt(r) \in Nat /\ faultsAt(r) \in Nat
<1>1. Ordered(Stages(r), gateAt(r), captureAt(r), oracleAt(r), faultsAt(r))
  BY HandlersAreOrdered DEF Stages, gateAt, captureAt, oracleAt, faultsAt
<1>2. captureAt(r) \in Nat /\ oracleAt(r) \in Nat /\ faultsAt(r) \in Nat
  BY DEF captureAt, oracleAt, faultsAt, CaptureAt, OracleAt, FaultsAt
<1> QED
  BY <1>1, <1>2 DEF Ordered, last

\* A stage tells the position of the request.
LEMMA StageTellsPosition ==
  ASSUME PosInv, NEW r \in Requests, NEW stage, In(r, stage)
  PROVE  /\ req[r].surface \in Surfaces /\ at[r] \in 1..last(r) /\ result[r] = "none"
         /\ stage \in Early => at[r] < gateAt(r)
         /\ stage = "gate" => at[r] = gateAt(r)
         /\ stage = "body" => at[r] = gateAt(r) + 1
         /\ stage = "record" => at[r] = gateAt(r) + 2
         /\ stage \in BeforeFaults => gateAt(r) + 2 < at[r] /\ at[r] < faultsAt(r)
         /\ stage = "capture" => at[r] = captureAt(r)
         /\ stage = "cache_control" => at[r] = oracleAt(r)
         /\ stage = "faults" => at[r] = faultsAt(r)
         /\ stage \in AfterFaults => faultsAt(r) < at[r] /\ at[r] < last(r)
         /\ stage = "respond" => at[r] = last(r)
<1>1. at[r] \in 1..last(r) /\ Stages(r)[at[r]] = stage
  BY DEF In, Running, last
<1>2. req[r].surface \in Surfaces /\ result[r] = "none"
  <2>1. at[r] # 0 /\ ~Out(r)
    <3>1. req[r].surface \in Surfaces
      BY <1>1 DEF PosInv
    <3>2. last(r) \in 1..14
      BY <3>1, Positions
    <3> QED BY <1>1, <3>2 DEF Out, Returning, Over
  <2> QED BY <2>1 DEF PosInv
<1>3. Ordered(Stages(r), gateAt(r), captureAt(r), oracleAt(r), faultsAt(r))
  BY <1>2, HandlersAreOrdered DEF Stages, gateAt, captureAt, oracleAt, faultsAt
<1> DEFINE i == at[r]
           g == gateAt(r)
           f == faultsAt(r)
<1>4. /\ i \in 1..last(r) /\ g \in 1..2 /\ g + 2 < f /\ f < last(r) /\ last(r) \in 1..14
      /\ f \in Nat
  BY <1>1, <1>2, Positions
<1>5. /\ i < g => stage \in Early
      /\ i = g => stage = "gate"
      /\ i = g + 1 => stage = "body"
      /\ i = g + 2 => stage = "record"
      /\ g + 2 < i /\ i < f => stage \in BeforeFaults
      /\ stage = "capture" => i = captureAt(r)
      /\ stage = "cache_control" => i = oracleAt(r)
      /\ i = f => stage = "faults"
      /\ f < i /\ i < last(r) => stage \in AfterFaults
      /\ i = last(r) => stage = "respond"
  BY <1>1, <1>3, <1>4 DEF Ordered, last
<1> HIDE DEF i, g, f
<1>6. \/ i < g \/ i = g \/ i = g + 1 \/ i = g + 2 \/ (g + 2 < i /\ i < f)
      \/ i = f \/ (f < i /\ i < last(r)) \/ i = last(r)
  BY <1>4
<1>7. /\ stage \in Early => i < g
      /\ stage = "gate" => i = g
      /\ stage = "body" => i = g + 1
      /\ stage = "record" => i = g + 2
      /\ stage \in BeforeFaults => g + 2 < i /\ i < f
      /\ stage = "faults" => i = f
      /\ stage \in AfterFaults => f < i /\ i < last(r)
      /\ stage = "respond" => i = last(r)
  BY <1>5, <1>6 DEF Early, BeforeFaults, AfterFaults
<1> QED
  BY <1>1, <1>2, <1>5, <1>7 DEF i, g, f

(***************************************************************************)
(* How a step moves a request: in, on to the next stage, out with a        *)
(* result, or away.                                                        *)
(***************************************************************************)
Enters(r) ==
  /\ at[r] = 0 /\ req[r].surface \in Surfaces
  /\ at' = [at EXCEPT ![r] = 1] /\ UNCHANGED result
Moves(r) ==
  /\ at[r] \in 1..last(r) /\ at[r] < last(r) /\ req[r].surface \in Surfaces
  /\ at' = [at EXCEPT ![r] = at[r] + 1] /\ UNCHANGED result
Returns(r, how) ==
  /\ at[r] \in 1..last(r) /\ req[r].surface \in Surfaces
  /\ at' = [at EXCEPT ![r] = Returning] /\ result' = [result EXCEPT ![r] = how]
Leaves(r) ==
  at[r] = Returning /\ at' = [at EXCEPT ![r] = Over] /\ UNCHANGED result

Transition(r) ==
  \/ Enters(r) \/ Moves(r) \/ Leaves(r)
  \/ \E how \in Outcomes \ {"none"} : Returns(r, how)

LEMMA ArriveMoves ==
  ASSUME PosInv, NEW r \in Requests, Arrive(r)
  PROVE  Enters(r)
<1>1. req[r] \in Arrivals /\ req[r].surface \in Surfaces \cup {"none"}
  BY RequestsAssumption DEF PosInv
<1>2. req[r].surface # "none"
  BY DEF Arrive, Stages, Handler
<1> QED BY <1>1, <1>2 DEF Arrive, Enters

\* A stage that is not the last goes on; any may return.
LEMMA AdvanceMoves ==
  ASSUME PosInv, NEW r \in Requests, NEW stage, In(r, stage), stage # "respond", Advance(r)
  PROVE  Moves(r)
<1>1. /\ req[r].surface \in Surfaces /\ at[r] \in 1..last(r)
      /\ Stages(r)[at[r]] = stage
  BY StageTellsPosition DEF In
<1>2. Ordered(Stages(r), gateAt(r), captureAt(r), oracleAt(r), faultsAt(r))
  BY <1>1, HandlersAreOrdered DEF Stages, gateAt, captureAt, oracleAt, faultsAt
<1>3. at[r] # last(r)
  BY <1>1, <1>2 DEF Ordered, last
<1>4. last(r) \in 1..14
  BY <1>1, Positions
<1> QED
  BY <1>1, <1>3, <1>4 DEF Advance, Moves

LEMMA ReturnMoves ==
  ASSUME PosInv, NEW r \in Requests, NEW stage, In(r, stage), NEW how, Return(r, how)
  PROVE  Returns(r, how)
BY StageTellsPosition DEF Return, Returns

LEMMA HandleMoves ==
  ASSUME PosInv, NEW r \in Requests, Handle(r)
  PROVE  Transition(r) /\ UNCHANGED req
<1> USE DEF Transition
<1>0. req[r] \in Arrivals /\ req[r].faults \in FaultOutcomes
  BY RequestsAssumption DEF PosInv
<1>1. CASE Check(r)
  <2>1. PICK stage \in Checks : In(r, stage) /\ (Advance(r) \/ Return(r, stage))
    BY <1>1 DEF Check
  <2>2. stage # "respond" /\ stage \in Outcomes \ {"none"}
    BY DEF Checks, Outcomes
  <2> QED BY <1>1, <2>1, <2>2, AdvanceMoves, ReturnMoves DEF Check
<1>2. CASE AcquireConcurrency(r)
  <2>1. In(r, "gate") /\ (Advance(r) \/ Return(r, "gate")) /\ UNCHANGED req
    BY <1>2 DEF AcquireConcurrency
  <2>2. "gate" \in Outcomes \ {"none"}
    BY DEF Outcomes
  <2> QED BY <2>1, <2>2, AdvanceMoves, ReturnMoves
<1>3. CASE RecordRequest(r)
  BY <1>3, AdvanceMoves DEF RecordRequest
<1>4. CASE applyScenario(r)
  BY <1>4, AdvanceMoves DEF applyScenario
<1>5. CASE checkFaults(r)
  <2>1. /\ In(r, "faults") /\ UNCHANGED req
        /\ Advance(r) \/ (req[r].faults # "none" /\ Return(r, req[r].faults))
    BY <1>5 DEF checkFaults
  <2>2. req[r].faults # "none" => req[r].faults \in Outcomes \ {"none"}
    BY <1>0 DEF Outcomes, FaultOutcomes
  <2> QED BY <2>1, <2>2, AdvanceMoves, ReturnMoves
<1>6. CASE Delay(r)
  BY <1>6, AdvanceMoves DEF Delay, Delays
<1>7. CASE GiveUp(r)
  <2>1. PICK stage : In(r, stage)
    BY <1>7 DEF GiveUp
  <2>2. "gone" \in Outcomes \ {"none"}
    BY DEF Outcomes
  <2> QED BY <1>7, <2>1, <2>2, ReturnMoves DEF GiveUp
<1>8. CASE Respond(r)
  <2>1. PICK how \in {"served", "cut"} : Return(r, how)
    BY <1>8 DEF Respond
  <2>2. how \in Outcomes \ {"none"}
    BY DEF Outcomes
  <2> QED BY <1>8, <2>1, <2>2, ReturnMoves DEF Respond
<1>9. CASE Release(r)
  BY <1>9 DEF Release, Leaves
<1> QED
  BY <1>1, <1>2, <1>3, <1>4, <1>5, <1>6, <1>7, <1>8, <1>9 DEF Handle

LEMMA TransitionKeepsPos ==
  ASSUME PosInv, NEW r \in Requests, Transition(r), UNCHANGED req
  PROVE  PosInv'
<1>1. /\ req \in [Requests -> Arrivals] /\ at \in [Requests -> 0..14 \cup {Returning, Over}]
      /\ result \in [Requests -> Outcomes]
  BY DEF PosInv
<1>2. \A q \in Requests : last(q)' = last(q)
  BY DEF last, Stages
<1>3. req[r].surface \in Surfaces => last(r) \in 1..14
  BY Positions
<1>4. CASE Enters(r)
  BY <1>1, <1>2, <1>3, <1>4 DEF Enters, PosInv, Out, Returning, Over
<1>5. CASE Moves(r)
  BY <1>1, <1>2, <1>3, <1>5 DEF Moves, PosInv, Out, Returning, Over
<1>6. CASE Leaves(r)
  BY <1>1, <1>2, <1>3, <1>6 DEF Leaves, PosInv, Out, Returning, Over
<1>7. ASSUME NEW how \in Outcomes \ {"none"}, Returns(r, how)
      PROVE  PosInv'
  BY <1>1, <1>2, <1>3, <1>7 DEF Returns, PosInv, Out, Returning, Over
<1> QED BY <1>4, <1>5, <1>6, <1>7 DEF Transition

LEMMA PosInit == Init => PosInv
<1> SUFFICES ASSUME Init PROVE PosInv
  OBVIOUS
<1>1. req \in [Requests -> Arrivals]
  BY BoundsAssumption DEF Init
<1>2. \A r \in Requests : at[r] = 0 /\ result[r] = "none" /\ ~Out(r)
  BY DEF Init, Out, Returning, Over
<1>3. \A r \in Requests : last(r) \in Nat
  <2> TAKE r \in Requests
  <2>1. req[r].surface \in Surfaces \cup {"none"}
    BY <1>1, RequestsAssumption
  <2>2. CASE req[r].surface = "none"
    BY <2>2 DEF last, Stages, Handler
  <2>3. CASE req[r].surface \in Surfaces
    BY <2>3, HandlersAreOrdered DEF last, Stages, Ordered
  <2> QED BY <2>1, <2>2, <2>3
<1> QED
  BY <1>1, <1>2, <1>3 DEF Init, PosInv, Outcomes

LEMMA PosStep == PosInv /\ [Next]_vars => PosInv'
<1> SUFFICES ASSUME PosInv, [Next]_vars PROVE PosInv'
  OBVIOUS
<1>1. ASSUME NEW r \in Requests, Arrive(r) PROVE PosInv'
  <2>1. Transition(r) /\ UNCHANGED req
    BY <1>1, ArriveMoves DEF Transition, Arrive
  <2> QED BY <2>1, TransitionKeepsPos
<1>2. ASSUME NEW r \in Requests, Handle(r) PROVE PosInv'
  BY <1>2, HandleMoves, TransitionKeepsPos
<1>3. ASSUME UNCHANGED <<req, at, result>> PROVE PosInv'
  BY <1>3 DEF PosInv, Out, last, Stages
<1>4. ASSUME NEW r \in Requests, ClientLeaves(r) PROVE PosInv'
  BY <1>3, <1>4 DEF ClientLeaves
<1>5. CASE ClearRequests
  BY <1>3, <1>5 DEF ClearRequests
<1>6. CASE UNCHANGED vars
  BY <1>3, <1>6 DEF vars
<1> QED BY <1>1, <1>2, <1>4, <1>5, <1>6 DEF Next

(***************************************************************************)
(* What is true of one request: it holds a slot between the gate and its   *)
(* return, it is recorded once past its recording, captured once past its  *)
(* capture, and a leak or a header out of place stops it where it is       *)
(* found.                                                                  *)
(***************************************************************************)
Past(r) ==
  \/ at[r] \in 1..last(r) /\ gateAt(r) < at[r]
  \/ at[r] = Returning /\ result[r] \notin BeforeGate

Seen(r) ==
  \/ at[r] \in 1..last(r) /\ gateAt(r) + 2 < at[r]
  \/ Out(r) /\ result[r] \notin Unrecorded

Matches(r) == req[r].surface \notin Unwired /\ req[r].scenario = "match"

LeakResults == {"none", "auth", "unwired", "gate", "scenario", "cache_control"}

ReqInv(r) ==
  /\ holds[r] <=> Limit(r) > 0 /\ Past(r)
  /\ r \in ever <=> Seen(r)
  /\ r \in captured \cup counted => r \in ever
  /\ Matches(r) /\ ((at[r] \in 1..last(r) /\ captureAt(r) < at[r]) \/ r \in counted)
       => r \in captured
  /\ LeakFound(r) =>
       /\ at[r] \in 1..last(r) => at[r] <= oracleAt(r)
       /\ r \notin counted /\ result[r] \in LeakResults
  /\ req[r].surface \in Unwired /\ req[r].targeted =>
       /\ at[r] \in 1..last(r) => at[r] = 1
       /\ result[r] \in {"none", "unwired"}

\* The facts about the stages of r that do not change.
Places(r) ==
  /\ gateAt(r)' = gateAt(r) /\ oracleAt(r)' = oracleAt(r) /\ captureAt(r)' = captureAt(r)
  /\ faultsAt(r)' = faultsAt(r) /\ last(r)' = last(r) /\ Limit(r)' = Limit(r)
  /\ (LeakFound(r))' = LeakFound(r) /\ (Matches(r))' = Matches(r) /\ req[r]' = req[r]

LEMMA PlacesKeep ==
  ASSUME NEW r, UNCHANGED req
  PROVE  Places(r)
BY DEF Places, gateAt, oracleAt, captureAt, faultsAt, last, Limit, Provider, LeakFound,
       Matches, Stages

\* A step that leaves what is said of r alone.
Same(r) ==
  /\ at'[r] = at[r] /\ result'[r] = result[r] /\ holds'[r] = holds[r]
  /\ r \in ever' <=> r \in ever
  /\ r \in captured' <=> r \in captured
  /\ r \in counted' <=> r \in counted

LEMMA SameKeeps ==
  ASSUME NEW r, UNCHANGED req, Same(r), ReqInv(r)
  PROVE  ReqInv(r)'
<1>1. Places(r)
  BY PlacesKeep
<1>2. (Past(r)' <=> Past(r)) /\ (Seen(r)' <=> Seen(r))
  BY <1>1 DEF Places, Same, Past, Seen, Out
<1> QED
  BY <1>1, <1>2 DEF Same, Places, ReqInv

LEMMA ArriveKeeps ==
  ASSUME PosInv, NEW r \in Requests, ReqInv(r), Arrive(r)
  PROVE  ReqInv(r)'
<1>1. Enters(r) /\ Places(r)
  BY ArriveMoves, PlacesKeep DEF Arrive
<1>2. /\ gateAt(r) \in 1..2 /\ gateAt(r) + 2 < captureAt(r) /\ last(r) \in 1..14
      /\ captureAt(r) <= oracleAt(r) /\ captureAt(r) \in Nat /\ oracleAt(r) \in Nat
  BY <1>1, Positions DEF Enters
<1>3. at'[r] = 1 /\ at[r] = 0 /\ result[r] = "none" /\ result' = result
  BY <1>1 DEF Enters, PosInv, Out, Returning, Over
<1>4. UNCHANGED <<holds, ever, captured, counted>>
  BY DEF Arrive, gate, oracles, recording
<1>5. ~Past(r) /\ ~Past(r)' /\ ~Seen(r) /\ ~Seen(r)'
  BY <1>1, <1>2, <1>3 DEF Past, Seen, Out, Places, Returning, Over
<1> QED
  BY <1>1, <1>2, <1>3, <1>4, <1>5 DEF ReqInv, Places

\* What a stage that only looks passes or refuses.
LEMMA CheckKeeps ==
  ASSUME PosInv, NEW r \in Requests, ReqInv(r), Check(r)
  PROVE  ReqInv(r)'
<1>1. PICK stage \in Checks :
        /\ In(r, stage)
        /\ \/ ~Refused(r, stage) /\ Advance(r)
           \/ Refused(r, stage) /\ Return(r, stage)
  BY DEF Check
<1>2. Places(r) /\ UNCHANGED <<holds, ever, captured, counted>>
  BY PlacesKeep DEF Check, gate, oracles, recording
<1>3. /\ req[r].surface \in Surfaces /\ at[r] \in 1..last(r) /\ result[r] = "none"
      /\ stage \in Early => at[r] < gateAt(r)
      /\ stage = "body" => at[r] = gateAt(r) + 1
      /\ stage \in BeforeFaults => gateAt(r) + 2 < at[r] /\ at[r] < faultsAt(r)
      /\ stage = "cache_control" => at[r] = oracleAt(r)
      /\ stage \in AfterFaults => faultsAt(r) < at[r] /\ at[r] < last(r)
  BY <1>1, StageTellsPosition
<1>4. /\ gateAt(r) \in 1..2 /\ gateAt(r) + 2 < captureAt(r) /\ last(r) \in 1..14
      /\ captureAt(r) <= oracleAt(r) /\ captureAt(r) \in Nat /\ oracleAt(r) \in Nat
      /\ oracleAt(r) < faultsAt(r) /\ faultsAt(r) \in Nat
  BY <1>3, Positions
<1>5. stage \in Early \cup {"body"} \cup BeforeFaults \cup AfterFaults /\ stage # "capture"
  BY DEF Checks, Early, BeforeFaults, AfterFaults
<1>5a. ~Out(r) /\ at[r] # Returning
  BY <1>3 DEF PosInv, Out
\* A capture never lies at a stage that only looks.
<1>6. at[r] # captureAt(r) \/ ~Matches(r)
  <2> SUFFICES ASSUME at[r] = captureAt(r), req[r].surface \notin Unwired PROVE FALSE
    BY DEF Matches
  <2>1. Stages(r)[at[r]] = "capture"
    BY <1>3, HandlersAreOrdered DEF Stages, captureAt
  <2> QED BY <1>1, <1>5, <2>1 DEF In
\* The refusal of scenario headers comes first on the surfaces without scenarios.
<1>7. req[r].surface \in Unwired /\ at[r] = 1 => stage = "unwired"
  BY <1>1, <1>3, HandlersAreOrdered DEF In, Stages
<1>8. CASE ~Refused(r, stage) /\ Advance(r)
  <2>1. at'[r] = at[r] + 1 /\ result'[r] = "none" /\ at'[r] \in 1..last(r) /\ ~Out(r)'
    <3>1. Moves(r)
      BY <1>1, <1>8, AdvanceMoves DEF Checks
    <3> QED
      BY <1>3, <1>4, <3>1 DEF Moves, Out, PosInv, Returning, Over
  <2>2. Past(r)' <=> Past(r)
    BY <1>2, <1>3, <1>4, <1>5, <1>5a, <2>1 DEF Past, Places, Out
  <2>3. Seen(r)' <=> Seen(r)
    BY <1>2, <1>3, <1>4, <1>5, <1>5a, <2>1 DEF Seen, Places
  <2>4. LeakFound(r) => at'[r] <= oracleAt(r)
    <3>1. stage = "cache_control" => ~LeakFound(r)
      BY <1>8 DEF Refused
    <3>2. at[r] = oracleAt(r) => stage = "cache_control"
      BY <1>1, <1>3, <1>4, HandlersAreOrdered DEF In, Stages, oracleAt, Ordered, last
    <3> QED BY <1>3, <1>4, <2>1, <3>1, <3>2 DEF ReqInv
  <2>5. req[r].surface \in Unwired => ~req[r].targeted
    <3>1. stage = "unwired" => ~req[r].targeted
      BY <1>8 DEF Refused
    <3> QED BY <1>3, <1>7, <3>1 DEF ReqInv
  <2> QED
    BY <1>2, <1>3, <1>4, <1>6, <2>1, <2>2, <2>3, <2>4, <2>5 DEF ReqInv, Places
<1>9. CASE Refused(r, stage) /\ Return(r, stage)
  <2>1. at'[r] = Returning /\ result'[r] = stage /\ Out(r)' /\ at'[r] \notin 1..last(r)
    <3>1. Returns(r, stage)
      BY <1>1, <1>9, ReturnMoves
    <3> QED
      BY <1>4, <3>1 DEF Returns, Out, PosInv, Returning, Over
  <2>2. Past(r)' <=> Past(r)
    BY <1>2, <1>3, <1>4, <1>5, <1>5a, <2>1
       DEF Past, Places, BeforeGate, Early, BeforeFaults, AfterFaults
  <2>3. Seen(r)' <=> Seen(r)
    BY <1>2, <1>3, <1>4, <1>5, <1>5a, <2>1
       DEF Seen, Places, Unrecorded, Early, BeforeFaults, AfterFaults
  <2>4. LeakFound(r) => stage \in LeakResults
    <3>1. stage \notin {"body", "decode"} \/ ~LeakFound(r)
      BY <1>9 DEF Refused, LeakFound
    <3>2. LeakFound(r) => at[r] <= oracleAt(r)
      BY <1>3 DEF ReqInv
    <3> QED BY <1>3, <1>4, <1>5, <3>1, <3>2 DEF LeakResults, Early, BeforeFaults
  <2>5. req[r].surface \in Unwired /\ req[r].targeted => stage = "unwired"
    BY <1>3, <1>7 DEF ReqInv
  <2> QED
    BY <1>2, <1>3, <1>4, <2>1, <2>2, <2>3, <2>4, <2>5 DEF ReqInv, Places
<1> QED BY <1>1, <1>8, <1>9

\* A move past the faults or a later stage.
LEMMA MoveKeeps ==
  ASSUME PosInv, NEW r \in Requests, ReqInv(r), Moves(r), UNCHANGED req,
         faultsAt(r) <= at[r], UNCHANGED <<holds, ever, captured>>,
         counted' = counted \/ counted' = counted \cup {r}
  PROVE  ReqInv(r)'
<1>1. Places(r)
  BY PlacesKeep
<1>2. /\ gateAt(r) \in 1..2 /\ gateAt(r) + 2 < captureAt(r) /\ last(r) \in 1..14
      /\ captureAt(r) <= oracleAt(r) /\ captureAt(r) \in Nat /\ oracleAt(r) \in Nat
      /\ oracleAt(r) < faultsAt(r) /\ faultsAt(r) \in Nat
  BY Positions DEF Moves
<1>3. /\ at[r] \in 1..last(r) /\ at[r] # Returning /\ ~Out(r)
      /\ at'[r] = at[r] + 1 /\ at'[r] \in 1..last(r) /\ ~Out(r)' /\ result'[r] = result[r]
  BY <1>2 DEF Moves, PosInv, Out, Returning, Over
<1>4. (Past(r)' <=> Past(r)) /\ (Seen(r)' <=> Seen(r)) /\ Seen(r)
  BY <1>1, <1>2, <1>3 DEF Past, Seen, Places
<1>5. ~LeakFound(r) /\ ~(req[r].surface \in Unwired /\ req[r].targeted)
  BY <1>2, <1>3 DEF ReqInv
<1>6. r \in ever /\ (Matches(r) => r \in captured)
  BY <1>2, <1>3, <1>4 DEF ReqInv
<1> QED
  BY <1>1, <1>3, <1>4, <1>5, <1>6 DEF ReqInv, Places

\* A return past the faults.
LEMMA ReturnKeeps ==
  ASSUME PosInv, NEW r \in Requests, ReqInv(r), NEW how, Returns(r, how), UNCHANGED req,
         how \notin BeforeGate \cup Unrecorded, faultsAt(r) <= at[r],
         UNCHANGED <<holds, ever, captured>>,
         counted' = counted \/ counted' = counted \cup {r}
  PROVE  ReqInv(r)'
<1>1. Places(r)
  BY PlacesKeep
<1>2. /\ gateAt(r) \in 1..2 /\ gateAt(r) + 2 < captureAt(r) /\ last(r) \in 1..14
      /\ captureAt(r) <= oracleAt(r) /\ captureAt(r) \in Nat /\ oracleAt(r) \in Nat
      /\ oracleAt(r) < faultsAt(r) /\ faultsAt(r) \in Nat
  BY Positions DEF Returns
<1>3. /\ at[r] \in 1..last(r) /\ at[r] # Returning /\ ~Out(r)
      /\ at'[r] = Returning /\ Out(r)' /\ result'[r] = how /\ at'[r] \notin 1..last(r)
  BY <1>2 DEF Returns, PosInv, Out, Returning, Over
<1>4. (Past(r)' <=> Past(r)) /\ (Seen(r)' <=> Seen(r)) /\ Seen(r)
  BY <1>1, <1>2, <1>3 DEF Past, Seen, Places
<1>5. ~LeakFound(r) /\ ~(req[r].surface \in Unwired /\ req[r].targeted)
  BY <1>2, <1>3 DEF ReqInv
<1>6. r \in ever /\ (Matches(r) => r \in captured)
  BY <1>2, <1>3, <1>4 DEF ReqInv
<1> QED
  BY <1>1, <1>3, <1>4, <1>5, <1>6 DEF ReqInv, Places

LEMMA GateKeeps ==
  ASSUME PosInv, NEW r \in Requests, ReqInv(r), AcquireConcurrency(r),
         holds \in [Requests -> BOOLEAN]
  PROVE  ReqInv(r)'
<1>1. Places(r) /\ UNCHANGED <<ever, captured, counted>> /\ In(r, "gate")
  BY PlacesKeep DEF AcquireConcurrency, oracles, recording
<1>2. req[r].surface \in Surfaces /\ at[r] = gateAt(r) /\ result[r] = "none"
      /\ at[r] \in 1..last(r)
  BY <1>1, StageTellsPosition
<1>3. /\ gateAt(r) \in 1..2 /\ gateAt(r) + 2 < captureAt(r) /\ last(r) \in 1..14
      /\ captureAt(r) <= oracleAt(r) /\ captureAt(r) \in Nat /\ oracleAt(r) \in Nat
  BY <1>2, Positions
<1>4. at[r] # Returning /\ ~Out(r)
  BY <1>2 DEF PosInv, Out
<1>5. ~(req[r].surface \in Unwired /\ req[r].targeted)
  BY <1>2, HandlersAreOrdered DEF ReqInv, gateAt
<1>6. CASE Advance(r)
  <2>1. at'[r] = at[r] + 1 /\ result'[r] = "none" /\ at'[r] \in 1..last(r) /\ ~Out(r)'
    <3>1. Moves(r)
      BY <1>1, <1>6, AdvanceMoves
    <3> QED
      BY <1>2, <1>3, <3>1 DEF Moves, Out, PosInv, Returning, Over
  <2>2. ~Past(r) /\ Past(r)' /\ ~Seen(r) /\ ~Seen(r)'
    BY <1>1, <1>2, <1>3, <1>4, <2>1 DEF Past, Seen, Places
  <2>3. holds'[r] <=> Limit(r) > 0
    <3>1. \/ Limit(r) <= 0 /\ holds' = holds
          \/ Limit(r) > 0 /\ holds' = [holds EXCEPT ![r] = TRUE]
          \/ Return(r, "gate") /\ at'[r] # at[r] + 1
      BY <1>2, <1>3, <1>6, <2>1 DEF AcquireConcurrency, gate, Return, PosInv, Returning
    <3>2. ~holds[r]
      BY <2>2 DEF ReqInv
    <3>3. Limit(r) <= 0 => ~(Limit(r) > 0)
      <4>1. Limit(r) \in Int
        BY BoundsAssumption DEF Limit, Provider, providerOf, Providers
      <4> QED BY <4>1
    <3> QED BY <2>1, <3>1, <3>2, <3>3
  <2> QED
    BY <1>1, <1>2, <1>3, <1>5, <2>1, <2>2, <2>3 DEF ReqInv, Places
<1>7. CASE Return(r, "gate") /\ UNCHANGED gate
  <2>1. at'[r] = Returning /\ result'[r] = "gate" /\ Out(r)' /\ at'[r] \notin 1..last(r)
        /\ holds' = holds
    <3>1. Returns(r, "gate")
      BY <1>1, <1>7, ReturnMoves
    <3> QED
      BY <1>3, <1>7, <3>1 DEF Returns, Out, PosInv, Returning, Over, gate
  <2>2. ~Past(r) /\ ~Past(r)' /\ ~Seen(r) /\ ~Seen(r)'
    BY <1>1, <1>2, <1>3, <1>4, <2>1 DEF Past, Seen, Places, BeforeGate, Unrecorded
  <2> QED
    BY <1>1, <1>2, <1>3, <1>5, <2>1, <2>2 DEF ReqInv, Places, LeakResults
<1> QED BY <1>6, <1>7 DEF AcquireConcurrency

LEMMA RecordKeeps ==
  ASSUME PosInv, NEW r \in Requests, ReqInv(r), RecordRequest(r)
  PROVE  ReqInv(r)'
<1>1. Places(r) /\ UNCHANGED <<holds, captured, counted>> /\ In(r, "record") /\ r \in ever'
  BY PlacesKeep DEF RecordRequest, gate
<1>2. req[r].surface \in Surfaces /\ at[r] = gateAt(r) + 2 /\ result[r] = "none"
      /\ at[r] \in 1..last(r)
  BY <1>1, StageTellsPosition
<1>3. /\ gateAt(r) \in 1..2 /\ gateAt(r) + 2 < captureAt(r) /\ last(r) \in 1..14
      /\ captureAt(r) <= oracleAt(r) /\ captureAt(r) \in Nat /\ oracleAt(r) \in Nat
  BY <1>2, Positions
<1>4. at'[r] = at[r] + 1 /\ result'[r] = "none" /\ at'[r] \in 1..last(r)
  <2>1. Moves(r)
    BY <1>1, AdvanceMoves DEF RecordRequest
  <2> QED
    BY <1>2, <1>3, <2>1 DEF Moves, PosInv
<1>5. Past(r) /\ Past(r)' /\ Seen(r)'
  BY <1>1, <1>2, <1>3, <1>4 DEF Past, Seen, Places
<1>6. ~(req[r].surface \in Unwired /\ req[r].targeted)
  BY <1>2, <1>3 DEF ReqInv
<1> QED
  BY <1>1, <1>2, <1>3, <1>4, <1>5, <1>6 DEF ReqInv, Places

LEMMA CaptureKeeps ==
  ASSUME PosInv, NEW r \in Requests, ReqInv(r), applyScenario(r)
  PROVE  ReqInv(r)'
<1>1. Places(r) /\ UNCHANGED <<holds, ever, counted>> /\ In(r, "capture")
  BY PlacesKeep DEF applyScenario, gate, recording
<1>2. req[r].surface \in Surfaces /\ at[r] = captureAt(r) /\ result[r] = "none"
      /\ at[r] \in 1..last(r)
  BY <1>1, StageTellsPosition
<1>3. /\ gateAt(r) \in 1..2 /\ gateAt(r) + 2 < captureAt(r) /\ last(r) \in 1..14
      /\ captureAt(r) <= oracleAt(r) /\ captureAt(r) \in Nat /\ oracleAt(r) \in Nat
  BY <1>2, Positions
<1>4. at'[r] = at[r] + 1 /\ result'[r] = "none" /\ at'[r] \in 1..last(r) /\ ~Out(r)'
  <2>1. Moves(r)
    BY <1>1, AdvanceMoves DEF applyScenario
  <2> QED
    BY <1>2, <1>3, <2>1 DEF Moves, PosInv, Out, Returning, Over
<1>5. Past(r) /\ Past(r)' /\ Seen(r) /\ Seen(r)'
  BY <1>1, <1>2, <1>3, <1>4 DEF Past, Seen, Places
<1>6. ~(req[r].surface \in Unwired /\ req[r].targeted)
  BY <1>2, <1>3 DEF ReqInv
\* The oracle comes after the capture.
<1>7. captureAt(r) # oracleAt(r)
  BY <1>1, <1>2, <1>3, HandlersAreOrdered DEF In, Stages, oracleAt, Ordered, last
<1>8. captured' = captured \cup {r} \/ (captured' = captured /\ ~Matches(r))
  BY DEF applyScenario, Matches
<1> QED
  BY <1>1, <1>2, <1>3, <1>4, <1>5, <1>6, <1>7, <1>8 DEF ReqInv, Places

LEMMA FaultsKeep ==
  ASSUME PosInv, NEW r \in Requests, ReqInv(r), checkFaults(r)
  PROVE  ReqInv(r)'
<1>1. /\ UNCHANGED <<req, holds, ever, captured>> /\ In(r, "faults")
      /\ counted' = counted \/ counted' = counted \cup {r}
  BY DEF checkFaults, gate, recording
<1>2. req[r].surface \in Surfaces /\ at[r] = faultsAt(r) /\ faultsAt(r) \in Nat
  BY <1>1, StageTellsPosition, Positions
<1>3. CASE Advance(r)
  <2>1. Moves(r)
    BY <1>1, <1>3, AdvanceMoves
  <2> QED BY <1>1, <1>2, <2>1, MoveKeeps
<1>4. CASE req[r].faults # "none" /\ Return(r, req[r].faults)
  <2>1. req[r] \in Arrivals /\ req[r].faults \in FaultOutcomes
    BY RequestsAssumption DEF PosInv
  <2>2. req[r].faults \notin BeforeGate \cup Unrecorded
    BY <1>4, <2>1 DEF FaultOutcomes, BeforeGate, Unrecorded
  <2>3. Returns(r, req[r].faults)
    BY <1>1, <1>4, ReturnMoves
  <2> QED BY <1>1, <1>2, <2>2, <2>3, ReturnKeeps
<1> QED BY <1>3, <1>4 DEF checkFaults

LEMMA LateKeeps ==
  ASSUME PosInv, NEW r \in Requests, ReqInv(r), Delay(r) \/ GiveUp(r) \/ Respond(r)
  PROVE  ReqInv(r)'
<1>1. /\ UNCHANGED <<req, holds, ever, captured>>
      /\ counted' = counted \/ counted' = counted \cup {r}
  BY DEF Delay, GiveUp, Respond, gate, recording, oracles
<1>2. PICK stage \in Delays \cup {"faults", "respond"} : In(r, stage)
  BY DEF Delay, GiveUp, Respond
<1>3. faultsAt(r) <= at[r]
  <2>1. req[r].surface \in Surfaces /\ faultsAt(r) \in Nat /\ faultsAt(r) < last(r)
        /\ last(r) \in 1..14
    BY <1>2, StageTellsPosition, Positions
  <2>2. \/ at[r] = faultsAt(r) \/ at[r] = last(r)
        \/ faultsAt(r) < at[r] /\ at[r] \in 1..last(r)
    BY <1>2, StageTellsPosition DEF Delays, AfterFaults
  <2> QED BY <2>1, <2>2
<1>4. CASE Delay(r)
  <2>1. Moves(r)
    BY <1>4, AdvanceMoves DEF Delay, Delays
  <2> QED BY <1>1, <1>3, <2>1, MoveKeeps
<1>5. ASSUME NEW how \in {"gone", "served", "cut"}, Return(r, how)
      PROVE  ReqInv(r)'
  <2>1. Returns(r, how)
    BY <1>2, <1>5, ReturnMoves
  <2>2. how \notin BeforeGate \cup Unrecorded
    BY DEF BeforeGate, Unrecorded
  <2> QED BY <1>1, <1>3, <2>1, <2>2, ReturnKeeps
<1> QED BY <1>4, <1>5 DEF GiveUp, Respond

LEMMA ReleaseKeeps ==
  ASSUME PosInv, NEW r \in Requests, ReqInv(r), Release(r), holds \in [Requests -> BOOLEAN]
  PROVE  ReqInv(r)'
<1>1. Places(r) /\ UNCHANGED <<ever, captured, counted, result>>
  BY PlacesKeep DEF Release, oracles, recording
<1>2. at[r] = Returning /\ at'[r] = Over /\ holds'[r] = FALSE
  BY DEF Release, PosInv
<1>3. at[r] \notin 1..last(r) /\ at'[r] \notin 1..last(r)
  <2>1. req[r].surface \in Surfaces
    BY <1>2 DEF PosInv, Returning
  <2> QED BY <1>2, <2>1, Positions DEF Returning, Over
<1>4. ~Past(r)' /\ (Seen(r)' <=> Seen(r))
  BY <1>1, <1>2, <1>3 DEF Past, Seen, Out, Places, Returning, Over
<1> QED
  BY <1>1, <1>2, <1>3, <1>4 DEF ReqInv, Places

(***************************************************************************)
(* Together: what is true of every request.                                *)
(***************************************************************************)
Held == holds \in [Requests -> BOOLEAN]

RequestInv == PosInv /\ Held /\ \A r \in Requests : ReqInv(r)

LEMMA HandleKeeps ==
  ASSUME RequestInv, NEW r \in Requests, Arrive(r) \/ Handle(r)
  PROVE  ReqInv(r)'
BY ArriveKeeps, CheckKeeps, GateKeeps, RecordKeeps, CaptureKeeps, FaultsKeep, LateKeeps,
   ReleaseKeeps DEF Handle, RequestInv, Held

\* The others see nothing of a step of r.
LEMMA OthersKeep ==
  ASSUME RequestInv, NEW r \in Requests, Arrive(r) \/ Handle(r),
         NEW q \in Requests, q # r
  PROVE  ReqInv(q)'
<1>1. UNCHANGED req
  BY HandleMoves DEF Arrive, RequestInv
<1>2. at'[q] = at[q] /\ result'[q] = result[q]
  <2>1. Transition(r)
    BY ArriveMoves, HandleMoves DEF RequestInv, Transition
  <2> QED BY <2>1 DEF Transition, Enters, Moves, Returns, Leaves, RequestInv, PosInv
<1>3. /\ ever' \in {ever, ever \cup {r}} /\ captured' \in {captured, captured \cup {r}}
      /\ counted' \in {counted, counted \cup {r}}
  BY DEF Arrive, Handle, Check, AcquireConcurrency, RecordRequest, applyScenario,
         checkFaults, Delay, GiveUp, Respond, Release, oracles, recording
<1>4. holds'[q] = holds[q]
  <2>1. \/ holds' = holds \/ holds' = [holds EXCEPT ![r] = TRUE]
        \/ holds' = [holds EXCEPT ![r] = FALSE]
    BY DEF Arrive, Handle, Check, AcquireConcurrency, RecordRequest, applyScenario,
           checkFaults, Delay, GiveUp, Respond, Release, gate
  <2> QED BY <2>1 DEF RequestInv, Held
<1>5. Same(q)
  BY <1>2, <1>3, <1>4 DEF Same
<1> QED BY <1>1, <1>5, SameKeeps DEF RequestInv

LEMMA RequestInit == Init => RequestInv
<1> SUFFICES ASSUME Init PROVE RequestInv
  OBVIOUS
<1>1. PosInv /\ Held
  BY PosInit DEF Init, Held
<1>2. ASSUME NEW r \in Requests PROVE ReqInv(r)
  <2>1. /\ at[r] = 0 /\ result[r] = "none" /\ ~holds[r]
        /\ r \notin ever /\ r \notin captured /\ r \notin counted
    BY DEF Init
  <2>2. at[r] \notin 1..last(r) /\ ~Out(r)
    BY <2>1 DEF Out, Returning, Over
  <2>3. ~Past(r) /\ ~Seen(r)
    BY <2>1, <2>2 DEF Past, Seen, Returning
  <2> QED BY <2>1, <2>2, <2>3 DEF ReqInv, LeakResults
<1> QED BY <1>1, <1>2 DEF RequestInv

LEMMA RequestStep == RequestInv /\ [Next]_vars => RequestInv'
<1> SUFFICES ASSUME RequestInv, [Next]_vars PROVE RequestInv'
  OBVIOUS
<1>1. PosInv'
  BY PosStep DEF RequestInv
<1>2. Held'
  BY DEF RequestInv, Held, Next, Arrive, Handle, Check, AcquireConcurrency, RecordRequest,
         applyScenario, checkFaults, Delay, GiveUp, Respond, Release, ClientLeaves,
         ClearRequests, gate, vars
<1>3. ASSUME NEW q \in Requests PROVE ReqInv(q)'
  <2>1. ASSUME NEW r \in Requests, Arrive(r) \/ Handle(r) PROVE ReqInv(q)'
    BY <2>1, HandleKeeps, OthersKeep
  <2>2. ASSUME UNCHANGED <<req, at, result, holds, ever, captured, counted>>
        PROVE  ReqInv(q)'
    BY <2>2, SameKeeps DEF Same, RequestInv
  <2>3. ASSUME NEW r \in Requests, ClientLeaves(r) PROVE ReqInv(q)'
    BY <2>2, <2>3 DEF ClientLeaves, gate, oracles, recording
  <2>4. CASE ClearRequests
    BY <2>2, <2>4 DEF ClearRequests, gate
  <2>5. CASE UNCHANGED vars
    BY <2>2, <2>5 DEF vars, gate, oracles, recording
  <2> QED BY <2>1, <2>3, <2>4, <2>5 DEF Next
<1> QED BY <1>1, <1>2, <1>3 DEF RequestInv

(***************************************************************************)
(* The slots: the counter of a provider is the number of requests that     *)
(* hold one of its slots.                                                  *)
(***************************************************************************)
Holding(p) == { r \in Requests : Provider(r) = p /\ holds[r] }

CountInv == active \in [Providers -> Int] /\ \A p \in Providers : active[p] = Cardinality(Holding(p))

LEMMA HoldingIsFinite ==
  ASSUME NEW p
  PROVE  IsFiniteSet(Holding(p)) /\ IsFiniteSet(Holding(p)')
<1>1. Holding(p) \subseteq Requests /\ Holding(p)' \subseteq Requests
  BY DEF Holding
<1> QED BY <1>1, RequestsAssumption, FS_Subset

LEMMA ProviderIsOne == \A r \in Requests : Provider(r) \in Providers
BY DEF Provider, providerOf, Providers

LEMMA SameHolding ==
  ASSUME UNCHANGED <<req, gate>>, CountInv
  PROVE  CountInv'
<1>1. \A p \in Providers : Holding(p)' = Holding(p)
  BY DEF Holding, Provider, gate
<1> QED BY <1>1 DEF CountInv, gate

LEMMA CountStep ==
  ASSUME RequestInv, CountInv, [Next]_vars
  PROVE  CountInv'
<1>1. ASSUME NEW r \in Requests, AcquireConcurrency(r), ~UNCHANGED gate
      PROVE  CountInv'
  <2>0. PICK q \in Providers : q = Provider(r)
    BY ProviderIsOne
  <2>1. /\ holds' = [holds EXCEPT ![r] = TRUE] /\ UNCHANGED req
        /\ active' = [active EXCEPT ![q] = active[q] + 1]
    BY <1>1, <2>0 DEF AcquireConcurrency
  <2>2. ~holds[r]
    <3>1. ~Past(r)
      <4>1. req[r].surface \in Surfaces /\ at[r] = gateAt(r) /\ at[r] \in 1..last(r)
        BY <1>1, StageTellsPosition DEF AcquireConcurrency, RequestInv
      <4>2. gateAt(r) \in 1..2
        BY <4>1, Positions DEF RequestInv
      <4> QED BY <4>1, <4>2 DEF Past, Returning
    <3> QED BY <3>1 DEF RequestInv, ReqInv
  <2>3. Holding(q)' = Holding(q) \cup {r} /\ r \notin Holding(q)
    BY <2>0, <2>1, <2>2 DEF Holding, Provider, RequestInv, Held
  <2>4. \A p \in Providers \ {q} : Holding(p)' = Holding(p)
    BY <2>0, <2>1 DEF Holding, Provider, RequestInv, Held
  <2>5. Cardinality(Holding(q)') = Cardinality(Holding(q)) + 1
    BY <2>3, HoldingIsFinite, FS_AddElement
  <2> QED BY <2>1, <2>4, <2>5 DEF CountInv
<1>2. ASSUME NEW r \in Requests, Release(r) PROVE CountInv'
  <2>0. PICK q \in Providers : q = Provider(r)
    BY ProviderIsOne
  <2>1. /\ holds' = [holds EXCEPT ![r] = FALSE] /\ UNCHANGED req
        /\ active' = [active EXCEPT ![q] = IF holds[r] THEN active[q] - 1 ELSE active[q]]
    BY <1>2, <2>0 DEF Release
  <2>2. Holding(q)' = Holding(q) \ {r} /\ (r \in Holding(q) <=> holds[r])
    BY <2>0, <2>1 DEF Holding, Provider, RequestInv, Held
  <2>3. \A p \in Providers \ {q} : Holding(p)' = Holding(p)
    BY <2>0, <2>1 DEF Holding, Provider, RequestInv, Held
  <2>4. Cardinality(Holding(q)')
          = IF holds[r] THEN Cardinality(Holding(q)) - 1 ELSE Cardinality(Holding(q))
    BY <2>2, HoldingIsFinite, FS_RemoveElement
  <2> QED BY <2>1, <2>3, <2>4 DEF CountInv
<1>3. ASSUME NEW r \in Requests, Arrive(r) \/ Handle(r), ~Release(r), UNCHANGED gate
      PROVE  CountInv'
  <2>1. UNCHANGED req
    BY <1>3, HandleMoves DEF Arrive, RequestInv
  <2> QED BY <1>3, <2>1, SameHolding
<1>4. ASSUME NEW r \in Requests, Arrive(r) \/ Handle(r), ~Release(r), ~AcquireConcurrency(r)
      PROVE  UNCHANGED gate
  BY <1>4 DEF Arrive, Handle, Check, RecordRequest, applyScenario, checkFaults, Delay,
              GiveUp, Respond
<1>5. ASSUME NEW r \in Requests, ClientLeaves(r) PROVE CountInv'
  BY <1>5, SameHolding DEF ClientLeaves
<1>6. CASE ClearRequests
  BY <1>6, SameHolding DEF ClearRequests
<1>7. CASE UNCHANGED vars
  BY <1>7, SameHolding DEF vars
<1> QED BY <1>1, <1>2, <1>3, <1>4, <1>5, <1>6, <1>7 DEF Next, Handle

LEMMA InsideIsPast ==
  ASSUME PosInv, NEW r \in Requests
  PROVE  Inside(r) <=> Past(r)
<1>1. CASE at[r] \in 1..last(r)
  <2>1. req[r].surface \in Surfaces
    <3>1. at[r] # 0
      BY <1>1
    <3> QED BY <3>1 DEF PosInv
  <2>2. Ordered(Stages(r), gateAt(r), captureAt(r), oracleAt(r), faultsAt(r))
    BY <2>1, HandlersAreOrdered DEF Stages, gateAt, captureAt, oracleAt, faultsAt
  <2>3. /\ gateAt(r) \in 1..2 /\ last(r) \in 1..14 /\ gateAt(r) + 2 < faultsAt(r)
        /\ faultsAt(r) < last(r) /\ faultsAt(r) \in Nat
    BY <2>1, Positions
  <2>4. Stages(r)[gateAt(r)] = "gate"
    BY <2>2, <2>3 DEF Ordered, last
  <2>5. ASSUME NEW i \in 1..last(r), Stages(r)[i] = "gate" PROVE i = gateAt(r)
    <3>1. /\ i < gateAt(r) => Stages(r)[i] \in Early
          /\ i = gateAt(r) + 1 => Stages(r)[i] = "body"
          /\ i = gateAt(r) + 2 => Stages(r)[i] = "record"
          /\ gateAt(r) + 2 < i /\ i < faultsAt(r) => Stages(r)[i] \in BeforeFaults
          /\ i = faultsAt(r) => Stages(r)[i] = "faults"
          /\ faultsAt(r) < i /\ i < last(r) => Stages(r)[i] \in AfterFaults
          /\ i = last(r) => Stages(r)[i] = "respond"
      BY <2>2, <2>3 DEF Ordered, last
    <3> QED BY <2>3, <2>5, <3>1 DEF Early, BeforeFaults, AfterFaults
  <2>6. at[r] # Returning
    BY <1>1, <2>3 DEF Returning
  <2>7. (\E i \in 1..(at[r] - 1) : Stages(r)[i] = "gate") <=> gateAt(r) < at[r]
    BY <1>1, <2>3, <2>4, <2>5
  <2> QED BY <1>1, <2>6, <2>7 DEF Inside, Past, Running, last
<1>2. CASE at[r] \notin 1..last(r)
  BY <1>2 DEF Inside, Past, Running, last
<1> QED BY <1>1, <1>2

LEMMA SlotsFollow == RequestInv /\ CountInv => SlotsAreReturned
<1> SUFFICES ASSUME RequestInv, CountInv, NEW p \in Providers
             PROVE  active[p] = IF MaxConcurrent[p] <= 0 THEN 0
                      ELSE Cardinality({ r \in Requests : Provider(r) = p /\ Inside(r) })
  BY DEF SlotsAreReturned
<1>1. active[p] = Cardinality(Holding(p)) /\ MaxConcurrent[p] \in Int
  BY BoundsAssumption DEF CountInv
<1>2. \A r \in Requests : Provider(r) = p =>
         (holds[r] <=> MaxConcurrent[p] > 0 /\ Inside(r))
  BY InsideIsPast DEF RequestInv, ReqInv, Limit
<1>3. CASE MaxConcurrent[p] <= 0
  <2>1. Holding(p) = {}
    BY <1>1, <1>2, <1>3 DEF Holding
  <2> QED BY <1>1, <1>3, <2>1, FS_EmptySet
<1>4. CASE ~(MaxConcurrent[p] <= 0)
  <2>1. Holding(p) = { r \in Requests : Provider(r) = p /\ Inside(r) }
    BY <1>1, <1>2, <1>4 DEF Holding
  <2> QED BY <1>1, <1>4, <2>1
<1> QED BY <1>3, <1>4

(***************************************************************************)
(* The recording.                                                          *)
(***************************************************************************)
IsNewestOf(kept, log) ==
  /\ Len(kept) = IF Len(log) < MaxRecorded THEN Len(log) ELSE MaxRecorded
  /\ \A i \in 1..Len(kept) : kept[i] = log[Len(log) - Len(kept) + i]

\* Newest of a recording that has got one entry more is the newest part of
\* a history that has.
LEMMA NewestOfAppend ==
  ASSUME NEW S, NEW kept \in Seq(S), NEW log \in Seq(S), NEW e \in S,
         IsNewestOf(kept, log)
  PROVE  /\ Newest(Append(kept, e)) \in Seq(S) /\ Append(log, e) \in Seq(S)
         /\ IsNewestOf(Newest(Append(kept, e)), Append(log, e))
<1> DEFINE M == MaxRecorded
           A == Append(kept, e)
           L == Append(log, e)
<1>1. M \in Nat \ {0} /\ Len(kept) \in Nat /\ Len(log) \in Nat
  BY BoundsAssumption, LenProperties
<1>2. /\ A \in Seq(S) /\ Len(A) = Len(kept) + 1
      /\ \A i \in 1..Len(kept) : A[i] = kept[i]
      /\ A[Len(kept) + 1] = e
  BY AppendProperties
<1>3. /\ L \in Seq(S) /\ Len(L) = Len(log) + 1
      /\ \A i \in 1..Len(log) : L[i] = log[i]
      /\ L[Len(log) + 1] = e
  BY AppendProperties
<1>4. /\ Len(kept) = IF Len(log) < M THEN Len(log) ELSE M
      /\ \A i \in 1..Len(kept) : kept[i] = log[Len(log) - Len(kept) + i]
  BY DEF IsNewestOf
<1> HIDE DEF A, L, M
<1>5. \A i \in 1..Len(A) : A[i] = L[Len(L) - Len(A) + i]
  <2> TAKE i \in 1..Len(A)
  <2>1. CASE i = Len(kept) + 1
    BY <1>1, <1>2, <1>3, <2>1
  <2>2. CASE i \in 1..Len(kept)
    <3>1. A[i] = kept[i] /\ kept[i] = log[Len(log) - Len(kept) + i]
      BY <1>2, <1>4, <2>2
    <3>2. Len(log) - Len(kept) + i \in 1..Len(log)
      BY <1>1, <1>4, <2>2
    <3>3. L[Len(log) - Len(kept) + i] = log[Len(log) - Len(kept) + i]
      BY <1>3, <3>2
    <3>4. Len(L) - Len(A) + i = Len(log) - Len(kept) + i
      BY <1>1, <1>2, <1>3, <2>2
    <3> QED BY <3>1, <3>3, <3>4
  <2> QED BY <1>1, <1>2, <2>1, <2>2
<1>6. CASE Len(A) <= M
  <2>1. Newest(A) = A
    BY <1>1, <1>2, <1>6 DEF Newest, M
  <2>2. Len(A) = IF Len(L) < M THEN Len(L) ELSE M
    BY <1>1, <1>2, <1>3, <1>4, <1>6
  <2>3. IsNewestOf(A, L)
    BY <1>5, <2>2 DEF IsNewestOf, M
  <2> QED BY <1>2, <1>3, <2>1, <2>3 DEF A, L
<1>7. CASE Len(A) > M
  <2> DEFINE m == Len(A) - M + 1
             N == SubSeq(A, m, Len(A))
  <2>1. Newest(A) = N
    BY <1>7 DEF Newest, M
  <2>2. m = 2 /\ Len(A) = M + 1 /\ Len(log) >= M
    BY <1>1, <1>2, <1>4, <1>7
  <2> HIDE DEF m
  <2>3. \A i \in m..Len(A) : A[i] \in S
    <3>1. A \in [1..Len(A) -> S]
      BY <1>2, LenProperties
    <3> QED BY <1>1, <2>2, <3>1
  <2>4. /\ N \in Seq(S)
        /\ Len(N) = IF m <= Len(A) THEN Len(A) - m + 1 ELSE 0
        /\ \A i \in 1..(Len(A) - m + 1) : N[i] = A[m + i - 1]
    <3>1. Len(A) \in Int /\ m \in Int
      BY <1>1, <2>2
    <3> QED BY <2>3, <3>1, SubSeqProperties
  <2> HIDE DEF N
  <2>5. Len(N) = M
    BY <1>1, <2>2, <2>4
  <2>6. \A i \in 1..Len(N) : N[i] = L[Len(L) - Len(N) + i]
    <3> TAKE i \in 1..Len(N)
    <3>1. N[i] = A[m + i - 1]
      BY <1>1, <2>2, <2>4, <2>5
    <3>2. m + i - 1 = i + 1 /\ i + 1 \in 1..Len(A)
      BY <1>1, <2>2, <2>5
    <3>3. A[i + 1] = L[Len(L) - Len(A) + (i + 1)]
      BY <1>5, <3>2
    <3>4. Len(L) - Len(A) + (i + 1) = Len(L) - Len(N) + i
      BY <1>1, <1>3, <2>2, <2>5
    <3> QED BY <3>1, <3>2, <3>3, <3>4
  <2>7. Len(N) = IF Len(L) < M THEN Len(L) ELSE M
    BY <1>1, <1>3, <2>2, <2>5
  <2>8. IsNewestOf(N, L)
    BY <2>6, <2>7 DEF IsNewestOf, M
  <2> QED BY <1>3, <2>1, <2>4, <2>8 DEF A, L
<1> QED BY <1>1, <1>2, <1>6, <1>7

RecInv ==
  /\ records \in Seq(Requests) /\ recorded \in Seq(Requests)
  /\ IsNewestOf(records, recorded)

LEMMA RecStep ==
  ASSUME RecInv, [Next]_vars
  PROVE  RecInv'
<1>1. ASSUME NEW r \in Requests, RecordRequest(r) PROVE RecInv'
  BY <1>1, NewestOfAppend DEF RecordRequest, RecInv
<1>2. ASSUME UNCHANGED <<records, recorded>> PROVE RecInv'
  BY <1>2 DEF RecInv
<1>3. ASSUME NEW r \in Requests, Arrive(r) \/ Handle(r) \/ ClientLeaves(r), ~RecordRequest(r)
      PROVE  RecInv'
  BY <1>2, <1>3 DEF Arrive, Handle, Check, AcquireConcurrency, applyScenario, checkFaults,
                    Delay, GiveUp, Respond, Release, ClientLeaves, oracles, recording
<1>4. CASE ClearRequests
  <2>1. records' = << >> /\ recorded' = << >>
    BY <1>4 DEF ClearRequests
  <2>2. << >> \in Seq(Requests) /\ Len(<< >>) = 0
    BY EmptySeq
  <2> QED BY <2>1, <2>2, BoundsAssumption DEF RecInv, IsNewestOf
<1>5. CASE UNCHANGED vars
  BY <1>2, <1>5 DEF vars, oracles, recording
<1> QED BY <1>1, <1>3, <1>4, <1>5 DEF Next

LEMMA RecFollows == RecInv => RecordingIsRecent /\ Len(records) <= MaxRecorded
<1> SUFFICES ASSUME RecInv PROVE RecordingIsRecent /\ Len(records) <= MaxRecorded
  OBVIOUS
<1> DEFINE k == IF Len(recorded) < MaxRecorded THEN Len(recorded) ELSE MaxRecorded
           m == Len(recorded) - k + 1
           T == SubSeq(recorded, m, Len(recorded))
<1>1. /\ MaxRecorded \in Nat \ {0} /\ Len(recorded) \in Nat
      /\ recorded \in [1..Len(recorded) -> Requests]
  BY BoundsAssumption, LenProperties DEF RecInv
<1>2. /\ Len(records) = k
      /\ \A i \in 1..k : records[i] = recorded[Len(recorded) - k + i]
  BY DEF RecInv, IsNewestOf
<1>3. k \in 0..Len(recorded) /\ k <= MaxRecorded
  BY <1>1
<1> HIDE DEF k
<1>4. m \in Int /\ \A i \in m..Len(recorded) : recorded[i] \in Requests
  BY <1>1, <1>3
<1>5. /\ T \in Seq(Requests)
      /\ Len(T) = IF m <= Len(recorded) THEN Len(recorded) - m + 1 ELSE 0
      /\ \A i \in 1..(Len(recorded) - m + 1) : T[i] = recorded[m + i - 1]
  BY <1>1, <1>4, SubSeqProperties
<1> HIDE DEF T
<1>6. Len(T) = k
  BY <1>1, <1>3, <1>5
<1>7. \A i \in 1..Len(records) : records[i] = T[i]
  <2> TAKE i \in 1..Len(records)
  <2>1. i \in 1..(Len(recorded) - m + 1) /\ m + i - 1 = Len(recorded) - k + i
    BY <1>1, <1>2, <1>3
  <2> QED BY <1>2, <1>5, <2>1
<1>8. records = T
  BY <1>2, <1>5, <1>6, <1>7, SeqEqual DEF RecInv
<1> QED
  BY <1>2, <1>3, <1>8 DEF RecordingIsRecent, k, T

(***************************************************************************)
(* The inductive invariant and what follows from it.                       *)
(***************************************************************************)
HistoryInv ==
  /\ captured \subseteq Requests /\ counted \subseteq Requests
  /\ clears \in 0..MaxClears
  /\ client \in [Requests -> BOOLEAN]

IInv == RequestInv /\ CountInv /\ RecInv /\ HistoryInv

LEMMA InvInit == Init => IInv
<1> SUFFICES ASSUME Init PROVE IInv
  OBVIOUS
<1>1. RequestInv
  BY RequestInit
<1>2. CountInv
  <2>1. \A p \in Providers : Holding(p) = {}
    BY DEF Init, Holding
  <2>2. Cardinality({}) = 0
    BY FS_EmptySet
  <2>3. active = [p \in Providers |-> 0]
    BY DEF Init
  <2>4. \A p \in Providers : active[p] = Cardinality(Holding(p))
    BY <2>1, <2>2, <2>3
  <2>5. active \in [Providers -> Int]
    BY <2>3
  <2> QED BY <2>4, <2>5 DEF CountInv
<1>3. RecInv
  <2>1. << >> \in Seq(Requests) /\ Len(<< >>) = 0
    BY EmptySeq
  <2> QED BY <2>1, BoundsAssumption DEF Init, RecInv, IsNewestOf
<1>4. HistoryInv
  BY BoundsAssumption DEF Init, HistoryInv
<1> QED BY <1>1, <1>2, <1>3, <1>4 DEF IInv

LEMMA HistoryStep == HistoryInv /\ [Next]_vars => HistoryInv'
<1> SUFFICES ASSUME HistoryInv, [Next]_vars PROVE HistoryInv'
  OBVIOUS
<1>1. captured' \subseteq Requests /\ counted' \subseteq Requests
  BY DEF HistoryInv, Next, Arrive, Handle, Check, AcquireConcurrency, RecordRequest,
         applyScenario, checkFaults, Delay, GiveUp, Respond, Release, ClientLeaves,
         ClearRequests, oracles, recording, vars
<1>2. clears' = clears \/ (clears < MaxClears /\ clears' = clears + 1)
  BY DEF Next, Arrive, Handle, Check, AcquireConcurrency, RecordRequest,
         applyScenario, checkFaults, Delay, GiveUp, Respond, Release, ClientLeaves,
         ClearRequests, oracles, recording, vars
<1>3. clears' \in 0..MaxClears
  BY <1>2, BoundsAssumption DEF HistoryInv
<1>4. client' \in [Requests -> BOOLEAN]
  BY DEF HistoryInv, Next, Arrive, Handle, Check, AcquireConcurrency, RecordRequest,
         applyScenario, checkFaults, Delay, GiveUp, Respond, Release, ClientLeaves,
         ClearRequests, vars
<1> QED BY <1>1, <1>3, <1>4 DEF HistoryInv

LEMMA InvStep == IInv /\ [Next]_vars => IInv'
BY RequestStep, CountStep, RecStep, HistoryStep DEF IInv

(***************************************************************************)
(* The inductive invariant of the pipeline holds always.                   *)
(***************************************************************************)
THEOREM Invariance == Spec => []IInv
BY InvInit, InvStep, PTL DEF Spec

LEMMA TypeFollows == IInv => TypeOK
<1> SUFFICES ASSUME IInv PROVE TypeOK
  OBVIOUS
<1>1. \A r \in Requests : at[r] \in 0..Len(Stages(r)) \cup {Returning, Over}
  BY DEF IInv, RequestInv, PosInv, Out, last
<1>2. result \in [Requests -> Outcomes] /\ holds \in [Requests -> BOOLEAN]
  BY DEF IInv, RequestInv, PosInv, Held
<1>3. active \in [Providers -> Int] /\ Len(records) <= MaxRecorded
  BY RecFollows DEF IInv, CountInv
<1> QED BY <1>1, <1>2, <1>3 DEF IInv, HistoryInv, TypeOK

\* A request that is out is at no stage.
LEMMA OutIsNowhere ==
  ASSUME PosInv, NEW r \in Requests, Out(r)
  PROVE  at[r] \notin 1..last(r)
<1>1. req[r].surface \in Surfaces
  BY DEF PosInv, Out, Returning, Over
<1> QED BY <1>1, Positions DEF Out, Returning, Over

LEMMA OraclesFollow == IInv => OraclesAgree
<1> SUFFICES ASSUME IInv PROVE OraclesAgree
  OBVIOUS
<1>1. PosInv /\ \A r \in Requests : ReqInv(r)
  BY DEF IInv, RequestInv
<1>2. captured \cup counted \subseteq ever
  BY <1>1 DEF IInv, HistoryInv, ReqInv
<1>3. ASSUME NEW r \in counted,
             req[r].surface \notin Unwired, req[r].scenario = "match"
      PROVE  r \in captured
  BY <1>1, <1>3 DEF IInv, HistoryInv, ReqInv, Matches
<1>4. ASSUME NEW r \in Requests, at[r] \in {Returning, Over}
      PROVE  r \in ever <=> result[r] \notin Unrecorded
  BY <1>1, <1>4, OutIsNowhere DEF ReqInv, Seen, Out
<1>5. ASSUME NEW r \in Requests, req[r].surface \in Unwired, req[r].targeted
      PROVE  result[r] \in {"none", "unwired"}
  BY <1>1, <1>5 DEF ReqInv
<1> QED BY <1>2, <1>3, <1>4, <1>5 DEF OraclesAgree

LEMMA LeakFollows == IInv => LeakIsNotMasked
BY DEF IInv, RequestInv, ReqInv, LeakIsNotMasked, LeakResults

LEMMA UnwiredFollows == IInv => UnwiredIsRefused
<1> SUFFICES ASSUME IInv, NEW r \in Requests, req[r].surface \in Unwired, req[r].targeted
             PROVE  /\ result[r] \in {"none", "unwired"}
                    /\ r \notin ever /\ ~holds[r]
  BY DEF UnwiredIsRefused
<1>1. PosInv /\ ReqInv(r)
  BY DEF IInv, RequestInv
<1>2. gateAt(r) = 2
  BY HandlersAreOrdered DEF gateAt, Surfaces, Unwired
<1>3. result[r] \in {"none", "unwired"} /\ (at[r] \in 1..last(r) => at[r] = 1)
  BY <1>1 DEF ReqInv
<1>4. Out(r) => result[r] = "unwired"
  BY <1>1, <1>3 DEF PosInv
<1>5. ~Past(r) /\ ~Seen(r)
  BY <1>1, <1>2, <1>3, <1>4 DEF Past, Seen, Out, BeforeGate, Unrecorded
<1> QED BY <1>1, <1>3, <1>5 DEF ReqInv

(***************************************************************************)
(* The variables keep their types, and the recording its capacity          *)
(* (RecordRequest).                                                        *)
(***************************************************************************)
THEOREM TypeCorrect == Spec => []TypeOK
BY Invariance, TypeFollows, PTL

(***************************************************************************)
(* On every path out of every handler the slot is given back exactly once: *)
(* the counters are the requests inside (the deferred ReleaseConcurrency). *)
(***************************************************************************)
THEOREM SlotsComeBack == Spec => []SlotsAreReturned
<1>1. IInv => SlotsAreReturned
  BY SlotsFollow DEF IInv
<1> QED BY <1>1, Invariance, PTL

(***************************************************************************)
(* The recording is the newest part of what came since it was cleared      *)
(* (RecordRequest, ClearRequests), for any capacity.                       *)
(***************************************************************************)
THEOREM RecordingKeepsTheNewest == Spec => []RecordingIsRecent
<1>1. IInv => RecordingIsRecent
  BY RecFollows DEF IInv
<1> QED BY <1>1, Invariance, PTL

(***************************************************************************)
(* What is captured or counted was recorded, a match is captured before it *)
(* counts, only the early refusals leave no record (the order of the       *)
(* handlers), and a scenario header out of place gets nothing but its      *)
(* refusal.                                                                *)
(***************************************************************************)
THEOREM OraclesAlwaysAgree == Spec => []OraclesAgree
BY Invariance, OraclesFollow, PTL

(***************************************************************************)
(* No fault answers in the place of the cache_control oracle               *)
(* (rejectLeakedCacheControl before checkFaults in every handler).         *)
(***************************************************************************)
THEOREM LeaksAreAnswered == Spec => []LeakIsNotMasked
BY Invariance, LeakFollows, PTL

(***************************************************************************)
(* A scenario header out of place is refused before anything is taken or   *)
(* recorded (rejectScenarioHeaderUnwired).                                 *)
(***************************************************************************)
THEOREM UnwiredComesFirst == Spec => []UnwiredIsRefused
BY Invariance, UnwiredFollows, PTL
=============================================================================
