------------------------ MODULE StreamInjectorProofs ------------------------
(***************************************************************************)
(* The streamed response, for any configuration: any number of chunks,     *)
(* specs, repetitions, coalesced frames and pings.  In this order:         *)
(*   - a stream nothing cuts is complete: as long as the handler is at its *)
(*     frames, the connection and the coalescing buffer together carry     *)
(*     exactly those before it, in order (StreamInv);                      *)
(*   - every stream implements OrderedStream, what is delivered being a    *)
(*     prefix of the real frames at every moment;                          *)
(*   - the injector's pending calls and their types (InjectorType);        *)
(*   - cuts fall where they were asked for (ScheduleInv, ChunkInv, CutInv);*)
(*   - a disconnect keyed on an injected error cuts right behind it        *)
(*     (ErrorInv);                                                         *)
(*   - injected blocks stay apart (BlocksInv);                             *)
(*   - specs are one-shot (FireInv).                                       *)
(***************************************************************************)
EXTENDS StreamInjector, SequenceTheorems, FiniteSetTheorems, TLAPS

(* The frames of a response are a finite sequence.                         *)
EventNames ==
  {"", "message_start", "ping", "content_block_start", "content_block_delta",
   "content_block_stop", "message_delta", "message_stop", "messageStart",
   "contentBlockDelta", "contentBlockStop", "messageStop", "metadata",
   "response.created", "response.output_item.added", "response.content_part.added",
   "response.output_text.delta", "response.output_text.done",
   "response.content_part.done", "response.output_item.done", "response.completed"}

ScriptFrames == [event : EventNames, block : Int, chunk : Nat, waits : BOOLEAN]

LEMMA FramesOfScripts ==
  /\ \A e \in EventNames, b \in Int : Frame(e, b) \in ScriptFrames
  /\ \A e \in EventNames, b \in Int :
       [Frame(e, b) EXCEPT !.waits = TRUE] \in ScriptFrames
  /\ \A e \in EventNames, b \in Int, n \in Nat :
       [Frame(e, b) EXCEPT !.chunk = n] \in ScriptFrames
  /\ \A e \in EventNames, b \in Int, n \in Nat : Deltas(e, b, n) \in Seq(ScriptFrames)
  /\ \A s \in Seq(ScriptFrames) : \A c : If(c, s) \in Seq(ScriptFrames)
<1>1. \A e \in EventNames, b \in Int :
        /\ Frame(e, b) \in ScriptFrames
        /\ [Frame(e, b) EXCEPT !.waits = TRUE] \in ScriptFrames
        /\ \A n \in Nat : [Frame(e, b) EXCEPT !.chunk = n] \in ScriptFrames
  BY DEF Frame, ScriptFrames
<1>2. \A e \in EventNames, b \in Int, n \in Nat : Deltas(e, b, n) \in Seq(ScriptFrames)
  <2> SUFFICES ASSUME NEW e \in EventNames, NEW b \in Int, NEW n \in Nat
               PROVE  Deltas(e, b, n) \in Seq(ScriptFrames)
    OBVIOUS
  <2>1. Deltas(e, b, n) \in [1..n -> ScriptFrames]
    BY DEF Deltas, ScriptFrames
  <2>2. QED
    BY <2>1, SeqDef
<1>3. ASSUME NEW s \in Seq(ScriptFrames), NEW c
      PROVE  If(c, s) \in Seq(ScriptFrames)
  BY EmptySeq DEF If
<1>4. QED
  BY <1>1, <1>2, <1>3

LEMMA Joins ==
  ASSUME NEW S
  PROVE  /\ \A s, t \in Seq(S) : s \o t \in Seq(S)
         /\ \A f \in S : << f >> \in Seq(S)
         /\ \A f, g \in S : << f, g >> \in Seq(S)
         /\ \A f, g, h \in S : << f, g, h >> \in Seq(S)
         /\ \A f, g, h, i \in S : << f, g, h, i >> \in Seq(S)
         /\ \A f, g, h, i, j \in S : << f, g, h, i, j >> \in Seq(S)
  OBVIOUS

LEMMA ScriptIsFinite ==
  ASSUME NEW c \in Configs
  PROVE  Script(c) \in Seq(ScriptFrames)
<1> DEFINE S == ScriptFrames
           tb == TextBlock(c)
<1>1. /\ c.surface \in Surfaces /\ c.deltas \in Nat
      /\ NoBlock \in Int /\ tb \in Int /\ tb + 1 \in Int /\ 0 \in Int
  BY ConfigAssumption DEF NoBlock, TextBlock
<1>2. /\ \A e \in EventNames, b \in Int : Frame(e, b) \in S
      /\ \A e \in EventNames, b \in Int : [Frame(e, b) EXCEPT !.waits = TRUE] \in S
      /\ \A e \in EventNames, b \in Int, n \in Nat : [Frame(e, b) EXCEPT !.chunk = n] \in S
      /\ \A e \in EventNames, b \in Int : Deltas(e, b, c.deltas) \in Seq(S)
      /\ \A s \in Seq(S) : \A t : If(t, s) \in Seq(S)
  BY <1>1, FramesOfScripts
<1> HIDE DEF S, tb
<1>3. AnthropicStream(c) \in Seq(S)
  <2>1. << Frame("message_start", NoBlock) >> \o If(c.ping, << Frame("ping", NoBlock) >>)
          \in Seq(S)
    BY <1>1, <1>2, Joins DEF EventNames
  <2>2. If(c.thinking,
           << Frame("content_block_start", 0),
              [Frame("content_block_delta", 0) EXCEPT !.waits = TRUE],
              Frame("content_block_delta", 0),
              Frame("content_block_stop", 0) >>) \in Seq(S)
    BY <1>1, <1>2, Joins DEF EventNames
  <2>3. /\ << Frame("content_block_start", tb) >> \in Seq(S)
        /\ Deltas("content_block_delta", tb, c.deltas) \in Seq(S)
        /\ << Frame("content_block_stop", tb) >> \in Seq(S)
    BY <1>1, <1>2, Joins DEF EventNames
  <2>4. If(c.tool,
           << Frame("content_block_start", tb + 1),
              Frame("content_block_delta", tb + 1),
              Frame("content_block_delta", tb + 1),
              Frame("content_block_delta", tb + 1),
              Frame("content_block_stop", tb + 1) >>) \in Seq(S)
    BY <1>1, <1>2, Joins DEF EventNames
  <2>5. << Frame("message_delta", NoBlock), Frame("message_stop", NoBlock) >> \in Seq(S)
    BY <1>1, <1>2, Joins DEF EventNames
  <2>6. QED
    BY <2>1, <2>2, <2>3, <2>4, <2>5, Joins DEF AnthropicStream, tb
<1>4. OpenAIChatStream(c) \in Seq(S)
  <2>1. << Frame("", NoBlock) >> \in Seq(S) /\ Deltas("", NoBlock, c.deltas) \in Seq(S)
    BY <1>1, <1>2, Joins DEF EventNames
  <2>2. /\ If(c.tool, << Frame("", NoBlock) >>) \in Seq(S)
        /\ If(c.usage, << Frame("", NoBlock) >>) \in Seq(S)
    BY <1>2, <2>1 DEF EventNames
  <2>3. QED
    BY <2>1, <2>2, Joins DEF OpenAIChatStream
<1>5. CompletionsStream(c) \in Seq(S)
  <2>1. \A i \in 1..2 : [Frame("", NoBlock) EXCEPT !.chunk = i] \in ScriptFrames
    <3>1. "" \in EventNames /\ \A i \in 1..2 : i \in Nat
      BY DEF EventNames
    <3>2. QED
      BY <1>1, <1>2, <3>1, Zenon DEF S
  <2>3. CompletionsStream(c) \in [1..2 -> S]
    BY <2>1 DEF CompletionsStream, S
  <2>2. QED
    BY <2>3, SeqDef
<1>6. ResponsesStream(c) \in Seq(S)
  <2>1. << Frame("response.created", NoBlock), Frame("response.output_item.added", NoBlock),
           Frame("response.content_part.added", NoBlock) >> \in Seq(S)
    BY <1>1, <1>2, Joins DEF EventNames
  <2>2. << Frame("response.output_text.done", NoBlock),
           Frame("response.content_part.done", NoBlock),
           Frame("response.output_item.done", NoBlock),
           Frame("response.completed", NoBlock) >> \in Seq(S)
    BY <1>1, <1>2, Joins DEF EventNames
  <2>3. Deltas("response.output_text.delta", NoBlock, c.deltas) \in Seq(S)
    BY <1>1, <1>2 DEF EventNames
  <2>4. QED
    BY <2>1, <2>2, <2>3, Joins DEF ResponsesStream
<1>7. BedrockConverseStream(c) \in Seq(S)
  <2>1. << Frame("messageStart", NoBlock) >> \in Seq(S)
    BY <1>1, <1>2, Joins DEF EventNames
  <2>2. << Frame("contentBlockStop", 0), Frame("messageStop", NoBlock),
           Frame("metadata", NoBlock) >> \in Seq(S)
    BY <1>1, <1>2, Joins DEF EventNames
  <2>3. Deltas("contentBlockDelta", 0, c.deltas) \in Seq(S)
    BY <1>1, <1>2 DEF EventNames
  <2>4. QED
    BY <2>1, <2>2, <2>3, Joins DEF BedrockConverseStream
<1>8. QED
  BY <1>1, <1>3, <1>4, <1>5, <1>6, <1>7 DEF Script, Surfaces, S
-----------------------------------------------------------------------------
(* Sequences of frames on the wire.                                        *)
Numbered(seq) == \A k \in 1..Len(seq) : seq[k].pos \in Nat

Precedes(s, t) == \A p \in Carried(s), q \in Carried(t) : p < q

LEMMA ConcatCarries ==
  ASSUME NEW S, NEW s \in Seq(S), NEW t \in Seq(S), Numbered(s), Numbered(t)
  PROVE  /\ s \o t \in Seq(S) /\ Numbered(s \o t)
         /\ Carried(s \o t) = Carried(s) \cup Carried(t)
<1>1. /\ s \o t \in Seq(S) /\ Len(s \o t) = Len(s) + Len(t)
      /\ \A k \in 1..Len(s) : (s \o t)[k] = s[k]
      /\ \A k \in 1..Len(t) : (s \o t)[Len(s) + k] = t[k]
      /\ Len(s) \in Nat /\ Len(t) \in Nat
  BY ConcatProperties
<1> DEFINE u == s \o t
<1> HIDE DEF u
<1>2. \A k \in 1..Len(u) : \/ k \in 1..Len(s) /\ u[k] = s[k]
                           \/ k - Len(s) \in 1..Len(t) /\ u[k] = t[k - Len(s)]
  <2> SUFFICES ASSUME NEW k \in 1..Len(u), k \notin 1..Len(s)
               PROVE  k - Len(s) \in 1..Len(t) /\ u[k] = t[k - Len(s)]
    BY <1>1 DEF u
  <2>1. k - Len(s) \in 1..Len(t) /\ Len(s) + (k - Len(s)) = k
    BY <1>1 DEF u
  <2>2. u[Len(s) + (k - Len(s))] = t[k - Len(s)]
    BY <1>1, <2>1 DEF u
  <2>3. QED
    BY <2>1, <2>2
<1>3. Numbered(u)
  BY <1>2 DEF Numbered
<1>4. Carried(u) \subseteq Carried(s) \cup Carried(t)
  BY <1>2 DEF Carried
<1>5. Carried(s) \subseteq Carried(u)
  <2>1. \A k \in 1..Len(s) : k \in 1..Len(u) /\ u[k] = s[k]
    BY <1>1 DEF u
  <2>2. QED
    BY <2>1 DEF Carried
<1>6. Carried(t) \subseteq Carried(u)
  <2>1. \A k \in 1..Len(t) : Len(s) + k \in 1..Len(u) /\ u[Len(s) + k] = t[k]
    BY <1>1 DEF u
  <2>2. QED
    BY <2>1 DEF Carried
<1>7. QED
  BY <1>1, <1>3, <1>4, <1>5, <1>6 DEF u

LEMMA ConcatOrders ==
  ASSUME NEW S, NEW s \in Seq(S), NEW t \in Seq(S), Numbered(s), Numbered(t),
         InOrder(s), InOrder(t), Precedes(s, t)
  PROVE  InOrder(s \o t)
<1> DEFINE u == s \o t
<1>1. /\ Len(u) = Len(s) + Len(t) /\ Len(s) \in Nat /\ Len(t) \in Nat
      /\ \A k \in 1..Len(s) : u[k] = s[k]
      /\ \A k \in 1..Len(t) : u[Len(s) + k] = t[k]
  BY ConcatProperties
<1> HIDE DEF u
<1> SUFFICES ASSUME NEW i \in 1..Len(u), NEW j \in 1..Len(u), i < j,
                    IsReal(u[i]), IsReal(u[j])
             PROVE  u[i].pos < u[j].pos
  BY DEF InOrder, u
<1>2. \A k \in 1..Len(u) : k \notin 1..Len(s) =>
        k - Len(s) \in 1..Len(t) /\ u[k] = t[k - Len(s)]
  <2> SUFFICES ASSUME NEW k \in 1..Len(u), k \notin 1..Len(s)
               PROVE  k - Len(s) \in 1..Len(t) /\ u[k] = t[k - Len(s)]
    OBVIOUS
  <2>1. k - Len(s) \in 1..Len(t) /\ Len(s) + (k - Len(s)) = k
    BY <1>1
  <2>2. u[Len(s) + (k - Len(s))] = t[k - Len(s)]
    BY <1>1, <2>1
  <2>3. QED
    BY <2>1, <2>2
<1>3. CASE i \in 1..Len(s) /\ j \in 1..Len(s)
  BY <1>1, <1>3 DEF InOrder
<1>4. CASE i \in 1..Len(s) /\ j \notin 1..Len(s)
  <2>1. u[i].pos \in Carried(s)
    BY <1>1, <1>4 DEF Carried, IsReal
  <2>2. u[j].pos \in Carried(t)
    BY <1>2, <1>4 DEF Carried, IsReal
  <2>3. QED
    BY <2>1, <2>2 DEF Precedes
<1>5. CASE i \notin 1..Len(s)
  <2>1. j \notin 1..Len(s)
    BY <1>1, <1>5
  <2>2. i - Len(s) < j - Len(s)
    BY <1>1
  <2>3. QED
    BY <1>2, <1>5, <2>1, <2>2 DEF InOrder
<1>6. QED
  BY <1>3, <1>4, <1>5
-----------------------------------------------------------------------------
(***************************************************************************)
(* The invariant.  Out is the number of real frames written so far; as     *)
(* long as the handler is at its frames, or is through with all of them,   *)
(* connection and buffer carry 1..Out between them, in order.              *)
(***************************************************************************)
Phases == {"ttft", "check", "wait", "emit", "match", "stalled", "finish", "over"}

Sequences == /\ \E S : wire \in Seq(S) /\ pending \in Seq(S)
             /\ Numbered(wire) /\ Numbered(pending)

Ordered == InOrder(wire) /\ InOrder(pending) /\ Precedes(wire, pending)

Written == Carried(wire) \cup Carried(pending)

Out == IF phase \in {"match", "stalled"} THEN pos ELSE pos - 1

Uncut == cause = <<"none", 0>>

ControlInv ==
  /\ pos \in Nat \ {0} /\ Len(script) \in Nat /\ phase \in Phases
  /\ phase \notin {"finish", "over"} => Uncut
  /\ cause[1] = "none" => Uncut
  /\ phase # "over" => cause # <<"end", 0>>
  /\ Uncut => conn = "open"
  /\ phase = "finish" /\ Uncut => pos = Len(script) + 1
  /\ phase = "finish" /\ ~Uncut => cfg.surface = "messages"

Filled ==
  /\ Ordered
  /\ \E n \in Nat, m \in 0..Total :
       n <= m /\ Carried(wire) = 1..n /\ Carried(pending) = (n + 1)..m

FlowInv == Filled /\ (Uncut => Written = 1..Out)

StreamInv == ControlInv /\ Sequences /\ FlowInv /\ UncutIsComplete

(* Writing a frame behind all others keeps everything in order.            *)
LEMMA WriteKeepsOrder ==
  ASSUME Sequences, NEW f, f.pos \in Nat, Write(f)
  PROVE  /\ Sequences'
         /\ \/ /\ Carried(wire') = Carried(wire)
               /\ Carried(pending') = Carried(pending) \cup ({f.pos} \ {0})
            \/ /\ Carried(wire') = Written \cup ({f.pos} \ {0})
               /\ Carried(pending') = {}
         /\ Ordered /\ (f.pos = 0 \/ \A p \in Written : p < f.pos) => Ordered'
<1>1. PICK S0 : wire \in Seq(S0) /\ pending \in Seq(S0)
  BY DEF Sequences
<1> DEFINE S == S0 \cup {f}
           one == << f >>
           all == Append(pending, f)
<1>2. wire \in Seq(S) /\ pending \in Seq(S) /\ f \in S /\ one \in Seq(S)
  BY <1>1, SeqMonotonic
<1> HIDE DEF S
<1>3. all = pending \o one
  BY <1>2, AppendIsConcat
<1>4. Numbered(one) /\ Carried(one) = {f.pos} \ {0} /\ InOrder(one)
  BY DEF Numbered, Carried, InOrder
<1> HIDE DEF one, all
<1>5. all \in Seq(S) /\ Numbered(all) /\ Carried(all) = Carried(pending) \cup ({f.pos} \ {0})
  BY <1>2, <1>3, <1>4, ConcatCarries DEF Sequences
<1>6. ASSUME Ordered, f.pos = 0 \/ \A p \in Written : p < f.pos
      PROVE  InOrder(all) /\ Precedes(wire, all)
  <2>1. Precedes(pending, one)
    BY <1>4, <1>6 DEF Precedes, Written
  <2>2. InOrder(all)
    BY <1>2, <1>3, <1>4, <1>6, <2>1, ConcatOrders DEF Ordered, Sequences
  <2>3. Precedes(wire, all)
    BY <1>5, <1>6 DEF Precedes, Written, Ordered
  <2>4. QED
    BY <2>2, <2>3
<1>7. CASE wire' = wire /\ pending' = all
  BY <1>2, <1>5, <1>6, <1>7 DEF Sequences, Ordered, Written
<1>8. CASE wire' = wire \o all /\ pending' = << >>
  <2>1. /\ wire' \in Seq(S) /\ Numbered(wire')
        /\ Carried(wire') = Carried(wire) \cup Carried(all)
    BY <1>2, <1>5, <1>8, ConcatCarries DEF Sequences
  <2>2. /\ pending' \in Seq(S) /\ Numbered(pending') /\ Carried(pending') = {}
        /\ InOrder(pending')
    BY <1>8 DEF Numbered, Carried, InOrder
  <2>3. ASSUME Ordered, f.pos = 0 \/ \A p \in Written : p < f.pos
        PROVE  InOrder(wire')
    BY <1>2, <1>5, <1>6, <1>8, <2>3, ConcatOrders DEF Sequences, Ordered
  <2>4. QED
    BY <1>5, <2>1, <2>2, <2>3 DEF Sequences, Ordered, Written, Precedes
<1>9. QED
  BY <1>7, <1>8 DEF Write, all

LEMMA WriteBesides ==
  ASSUME Sequences, NEW f, f.pos = 0, Write(f)
  PROVE  Sequences' /\ Written' = Written /\ (UNCHANGED response /\ Filled => Filled')
<1>1. f.pos \in Nat /\ {f.pos} \ {0} = {}
  OBVIOUS
<1>2. /\ Sequences' /\ (Ordered => Ordered')
      /\ \/ Carried(wire') = Carried(wire) /\ Carried(pending') = Carried(pending)
         \/ Carried(wire') = Written /\ Carried(pending') = {}
  BY <1>1, WriteKeepsOrder
<1>3. Written' = Written
  BY <1>2 DEF Written
<1>4. ASSUME Filled, UNCHANGED response
      PROVE  Filled'
  <2>1. PICK n \in Nat, m \in 0..Total :
          n <= m /\ Carried(wire) = 1..n /\ Carried(pending) = (n + 1)..m
    BY <1>4 DEF Filled
  <2>2. Total' = Total /\ Ordered'
    BY <1>2, <1>4 DEF response, Total, Filled
  <2>3. Written = 1..m
    BY <2>1 DEF Written
  <2>4. m \in Nat /\ (m + 1)..m = {}
    BY <2>1
  <2>5. QED
    BY <1>2, <2>1, <2>2, <2>3, <2>4 DEF Filled
<1>5. QED
  BY <1>2, <1>3, <1>4

(* The corrupt chunk of the SSE surfaces goes past the buffer.             *)
LEMMA PastTheBuffer ==
  ASSUME Sequences, NEW f, f.pos = 0, wire' = Append(wire, f), UNCHANGED pending
  PROVE  /\ Sequences' /\ Written' = Written /\ Carried(wire') = Carried(wire)
         /\ UNCHANGED response /\ Filled => Filled'
<1>1. PICK S0 : wire \in Seq(S0) /\ pending \in Seq(S0)
  BY DEF Sequences
<1> DEFINE S == S0 \cup {f}
           one == << f >>
<1>2. wire \in Seq(S) /\ pending \in Seq(S) /\ f \in S /\ one \in Seq(S)
  BY <1>1, SeqMonotonic
<1> HIDE DEF S
<1>3. wire' = wire \o one
  BY <1>2, AppendIsConcat
<1>4. Numbered(one) /\ Carried(one) = {} /\ InOrder(one)
  BY DEF Numbered, Carried, InOrder
<1> HIDE DEF one
<1>5. wire' \in Seq(S) /\ Numbered(wire') /\ Carried(wire') = Carried(wire)
  <2>1. Numbered(wire)
    BY DEF Sequences
  <2>2. /\ wire \o one \in Seq(S) /\ Numbered(wire \o one)
        /\ Carried(wire \o one) = Carried(wire) \cup Carried(one)
    BY <1>2, <1>4, <2>1, ConcatCarries
  <2>3. QED
    BY <1>3, <1>4, <2>2
<1>6. Ordered => InOrder(wire')
  BY <1>2, <1>3, <1>4, ConcatOrders DEF Sequences, Ordered, Precedes
<1>7. Sequences' /\ Written' = Written /\ (Ordered => Ordered')
  BY <1>2, <1>5, <1>6 DEF Sequences, Ordered, Written, Precedes
<1>8. UNCHANGED response => Total' = Total
  BY DEF response, Total
<1>9. QED
  BY <1>5, <1>7, <1>8 DEF Filled

-----------------------------------------------------------------------------
(* The steps.                                                              *)

LEMMA SinkFlows ==
  ASSUME Filled, UNCHANGED <<response, wire, pending>>
  PROVE  Filled'
<1>1. Total' = Total /\ Carried(wire)' = Carried(wire) /\ Carried(pending)' = Carried(pending)
  BY DEF Carried, Total, response
<1>2. Ordered'
  BY DEF Filled, Ordered, InOrder, Precedes, Carried
<1>3. QED
  BY <1>1, <1>2 DEF Filled

\* Nothing is written, and nothing ends.
LEMMA SilentKeeps ==
  ASSUME StreamInv, UNCHANGED <<response, sink, conn, cause>>,
         pos' = pos, phase' \in Phases \ {"finish", "over"},
         phase \notin {"finish", "over"}, Out' = Out
  PROVE  StreamInv'
<1>1. ControlInv'
  BY DEF StreamInv, ControlInv, Uncut, response
<1>2. UNCHANGED <<wire, pending>>
  BY DEF sink
<1>3. Sequences'
  BY <1>2 DEF StreamInv, Sequences, Numbered
<1>4. FlowInv'
  BY <1>2, SinkFlows DEF StreamInv, FlowInv, Uncut, Written, Carried
<1>5. UncutIsComplete'
  BY DEF UncutIsComplete, Phases
<1>6. QED
  BY <1>1, <1>3, <1>4, <1>5 DEF StreamInv

\* Something unnumbered is written, and nothing ends.
LEMMA BesidesKeeps ==
  ASSUME StreamInv, Sequences', Written' = Written, Filled => Filled',
         UNCHANGED <<response, conn, cause>>,
         pos' = pos, phase' \in Phases \ {"finish", "over"},
         phase \notin {"finish", "over"}, Out' = Out
  PROVE  StreamInv'
<1>1. ControlInv'
  BY DEF StreamInv, ControlInv, Uncut, response
<1>2. FlowInv'
  BY DEF StreamInv, FlowInv, Uncut
<1>3. UncutIsComplete'
  BY DEF UncutIsComplete, Phases
<1>4. QED
  BY <1>1, <1>2, <1>3 DEF StreamInv

\* The response is cut or abandoned.
LEMMA EndsKeep ==
  ASSUME StreamInv, Sequences', Filled', UNCHANGED <<response, pos>>,
         phase' \in {"finish", "over"}, cause'[1] # "none", cause' # <<"end", 0>>,
         phase' = "finish" => cfg.surface = "messages"
  PROVE  StreamInv'
<1>1. ~Uncut'
  BY DEF Uncut
<1>2. ControlInv'
  BY <1>1 DEF StreamInv, ControlInv, Phases, response
<1>3. FlowInv'
  BY <1>1 DEF FlowInv
<1>4. UncutIsComplete'
  BY DEF UncutIsComplete
<1>5. QED
  BY <1>2, <1>3, <1>4 DEF StreamInv

LEMMA SinkKeeps ==
  ASSUME StreamInv, UNCHANGED <<response, sink>>
  PROVE  Sequences' /\ Filled'
BY SinkFlows DEF StreamInv, Sequences, Numbered, FlowInv, sink

LEMMA SegmentsDiffer ==
  ASSUME NEW m \in Nat, NEW n \in Nat, 1..m = 1..n
  PROVE  m = n
<1>1. m # 0 => m \in 1..n
  OBVIOUS
<1>2. n # 0 => n \in 1..m
  OBVIOUS
<1>3. QED
  BY <1>1, <1>2

\* The real frames.
LEMMA EmitFrameKeeps == StreamInv /\ EmitFrame => StreamInv'
<1> SUFFICES ASSUME StreamInv, EmitFrame PROVE StreamInv'
  OBVIOUS
<1> DEFINE f == OnWire(Now.event, Now.block, pos)
<1>1. f.pos = pos /\ f.pos \in Nat \ {0} /\ Write(f)
  BY DEF EmitFrame, OnWire, StreamInv, ControlInv
<1>2. phase = "emit" /\ Uncut /\ Out = pos - 1 /\ UNCHANGED <<response, pos>>
  BY DEF EmitFrame, At, StreamInv, ControlInv, Out
<1> HIDE DEF f
<1>3. Ordered /\ Written = 1..(pos - 1)
  BY <1>2 DEF StreamInv, FlowInv, Filled
<1>4. \A p \in Written : p < f.pos
  BY <1>1, <1>3
<1>5. /\ Sequences' /\ Ordered'
      /\ \/ Carried(wire') = Carried(wire) /\ Carried(pending') = Carried(pending) \cup {pos}
         \/ Carried(wire') = Written \cup {pos} /\ Carried(pending') = {}
  BY <1>1, <1>3, <1>4, WriteKeepsOrder DEF StreamInv
<1>6. Written' = 1..pos
  <2>1. Written' = Written \cup {pos}
    BY <1>5 DEF Written
  <2>2. QED
    BY <1>1, <1>3, <2>1
<1>10. Filled'
  <2>1. PICK n \in Nat, m \in 0..Total :
          n <= m /\ Carried(wire) = 1..n /\ Carried(pending) = (n + 1)..m
    BY DEF StreamInv, FlowInv, Filled
  <2>2. pos \in Nat \ {0} /\ pos <= Len(script) /\ Len(script) \in Nat
    BY DEF EmitFrame, At, StreamInv, ControlInv
  <2>3. Total' = Total /\ pos \in 0..Total
    BY <1>2, <2>2 DEF response, Total
  <2>4. 1..m = 1..(pos - 1) /\ m \in Nat
    <3>1. m \in Nat /\ 1..n \cup (n + 1)..m = 1..m
      BY <2>1, <2>3
    <3>2. QED
      BY <1>3, <2>1, <3>1 DEF Written
  <2>5. m = pos - 1
    BY <2>2, <2>4, SegmentsDiffer
  <2>6. (n + 1)..(pos - 1) \cup {pos} = (n + 1)..pos /\ (pos + 1)..pos = {}
        /\ 1..(pos - 1) \cup {pos} = 1..pos
    BY <2>1, <2>2, <2>5
  <2>7. CASE Carried(wire') = Carried(wire) /\ Carried(pending') = Carried(pending) \cup {pos}
    <3>1. n <= pos /\ Carried(wire') = 1..n /\ Carried(pending') = (n + 1)..pos
      BY <2>1, <2>2, <2>5, <2>6, <2>7
    <3>2. QED
      BY <1>5, <2>3, <3>1 DEF Filled
  <2>8. CASE Carried(wire') = Written \cup {pos} /\ Carried(pending') = {}
    <3>1. Carried(wire') = 1..pos /\ Carried(pending') = (pos + 1)..pos
      BY <1>3, <2>6, <2>8
    <3>2. QED
      BY <1>5, <2>2, <2>3, <3>1 DEF Filled
  <2>9. QED
    BY <1>5, <2>7, <2>8
<1>7. CASE CutAfter(Now.event)
  <2>1. /\ phase' \in {"finish", "over"} /\ cause' = <<"event", 0>>
        /\ phase' = "finish" => cfg.surface = "messages"
    BY <1>7 DEF EmitFrame, Cut, Return
  <2>2. QED
    BY <1>2, <1>5, <1>10, <2>1, EndsKeep
<1>8. CASE ~CutAfter(Now.event)
  <2>1. phase' = "match" /\ UNCHANGED <<conn, cause>>
    BY <1>8 DEF EmitFrame
  <2>2. Out' = pos
    BY <1>2, <2>1 DEF Out
  <2>3. FlowInv'
    BY <1>6, <1>10, <2>2 DEF FlowInv
  <2>4. ControlInv'
    BY <1>2, <2>1 DEF StreamInv, ControlInv, Phases, Uncut, response
  <2>5. UncutIsComplete'
    BY <2>1 DEF UncutIsComplete
  <2>6. QED
    BY <1>5, <2>3, <2>4, <2>5 DEF StreamInv
<1>9. QED
  BY <1>7, <1>8

LEMMA NextFrameKeeps == StreamInv /\ NextFrame => StreamInv'
<1> SUFFICES ASSUME StreamInv, NextFrame PROVE StreamInv'
  OBVIOUS
<1>1. /\ phase = "match" /\ pos' = pos + 1 /\ phase' \in {"finish", "check"}
      /\ phase' = "finish" => pos = Len(script)
      /\ UNCHANGED <<response, sink, conn, cause>>
  BY DEF NextFrame
<1>2. Out = pos /\ Out' = pos /\ UNCHANGED <<wire, pending>>
  BY <1>1 DEF Out, sink, StreamInv, ControlInv
<1>3. ControlInv'
  BY <1>1 DEF StreamInv, ControlInv, Phases, Uncut, response
<1>4. FlowInv'
  BY <1>1, <1>2, SinkFlows DEF StreamInv, FlowInv, Uncut, Carried, Written
<1>5. Sequences' /\ UncutIsComplete'
  BY <1>1, SinkKeeps DEF UncutIsComplete, StreamInv
<1>6. QED
  BY <1>3, <1>4, <1>5 DEF StreamInv

\* The tail goes out: with it the response is complete, unless it was cut.
LEMMA FinishKeeps == StreamInv /\ Finish => StreamInv'
<1> SUFFICES ASSUME StreamInv, Finish PROVE StreamInv'
  OBVIOUS
<1> DEFINE done == OnWire("[DONE]", NoBlock, Total)
           last == If(EndsWithDone(cfg), << done >>)
           tail == pending \o last
<1>1. PICK S0 : wire \in Seq(S0) /\ pending \in Seq(S0)
  BY DEF StreamInv, Sequences
<1> DEFINE S == S0 \cup {done}
<1>2. wire \in Seq(S) /\ pending \in Seq(S) /\ << done >> \in Seq(S) /\ << >> \in Seq(S)
  BY <1>1, SeqMonotonic
<1>3. /\ (Len(script) \in Nat /\ Total \in Nat \ {0}) \/ ~EndsWithDone(cfg)
      /\ Total = IF EndsWithDone(cfg) THEN Len(script) + 1 ELSE Len(script)
      /\ done.pos = Total
  BY DEF Total, StreamInv, ControlInv, OnWire
<1> HIDE DEF S, done
<1>4. /\ last \in Seq(S) /\ Numbered(last) /\ InOrder(last)
      /\ Carried(last) = IF EndsWithDone(cfg) THEN {Total} ELSE {}
  BY <1>2, <1>3 DEF If, Numbered, InOrder, Carried
<1> HIDE DEF last
<1>5. Numbered(wire) /\ Numbered(pending)
  BY DEF StreamInv, Sequences
<1>6. tail \in Seq(S) /\ Numbered(tail) /\ Carried(tail) = Carried(pending) \cup Carried(last)
  BY <1>2, <1>4, <1>5, ConcatCarries
<1> HIDE DEF tail
<1>7. /\ wire \o tail \in Seq(S) /\ Numbered(wire \o tail)
      /\ Carried(wire \o tail) = Carried(wire) \cup Carried(tail)
  BY <1>2, <1>5, <1>6, ConcatCarries
<1>8. /\ phase = "finish" /\ phase' = "over" /\ pending' = << >>
      /\ wire' = IF conn = "open" THEN wire \o tail ELSE wire
      /\ cause' = IF cause[1] = "none" THEN <<"end", 0>> ELSE cause
      /\ UNCHANGED <<response, pos>>
  BY DEF Finish, tail, last, done
<1>9. Sequences'
  BY <1>2, <1>5, <1>7, <1>8 DEF Sequences, Numbered
<1>13. Total' = Total /\ Total \in Nat
  <2>1. Len(script) \in Nat
    BY DEF StreamInv, ControlInv
  <2>2. QED
    BY <1>3, <1>8, <2>1 DEF response, Total
<1>14. pending' \in Seq(S) /\ Carried(pending') = {} /\ InOrder(pending')
  BY <1>2, <1>8 DEF Carried, InOrder
<1>10. CASE cause[1] # "none"
  <2>1. PICK n \in Nat, m \in 0..Total :
          n <= m /\ Carried(wire) = 1..n /\ Carried(pending) = (n + 1)..m
    BY DEF StreamInv, FlowInv, Filled
  <2>2. Ordered
    BY DEF StreamInv, FlowInv, Filled
  <2>3. Carried(last) = {}
    BY <1>4, <1>8, <1>10 DEF StreamInv, ControlInv, Uncut, EndsWithDone
  <2>4. m \in Nat /\ (m + 1)..m = {} /\ (n + 1)..n = {} /\ 1..n \cup (n + 1)..m = 1..m
        /\ n \in 0..Total
    BY <1>13, <2>1
  <2>5. Precedes(pending, last) /\ Precedes(wire, tail)
    BY <1>6, <2>2, <2>3 DEF Precedes, Ordered
  <2>6. InOrder(wire \o tail)
    <3>1. InOrder(tail)
      BY <1>2, <1>4, <1>5, <2>2, <2>5, ConcatOrders DEF Ordered, tail
    <3>2. QED
      BY <1>2, <1>5, <1>6, <2>2, <2>5, <3>1, ConcatOrders DEF Ordered
  <2>7. Ordered'
    BY <1>8, <1>14, <2>2, <2>6 DEF Ordered, Precedes
  <2>8. Carried(wire \o tail) = 1..m
    BY <1>6, <1>7, <2>1, <2>3, <2>4
  <2>9. Carried(wire') = 1..m \/ Carried(wire') = 1..n
    BY <1>8, <2>1, <2>8
  <2>10. Filled'
    <3>1. CASE Carried(wire') = 1..m
      <4>1. Carried(pending') = (m + 1)..m /\ m <= m
        BY <1>14, <2>4
      <4>2. QED
        BY <1>13, <2>1, <2>4, <2>7, <3>1, <4>1 DEF Filled
    <3>2. CASE Carried(wire') = 1..n
      <4>1. Carried(pending') = (n + 1)..n /\ n <= n
        BY <1>14, <2>4
      <4>2. QED
        BY <1>13, <2>1, <2>4, <2>7, <3>2, <4>1 DEF Filled
    <3>3. QED
      BY <2>9, <3>1, <3>2
  <2>11. QED
    BY <1>8, <1>9, <1>10, <2>10, EndsKeep DEF StreamInv, ControlInv
<1>11. CASE cause[1] = "none"
  <2>1. Uncut /\ conn = "open" /\ Out = Len(script)
    BY <1>8, <1>11 DEF StreamInv, ControlInv, Out
  <2>2. Ordered /\ Written = 1..Len(script)
    BY <2>1 DEF StreamInv, FlowInv, Filled
  <2>3. Precedes(pending, last)
    BY <1>3, <1>4, <2>2 DEF Precedes, Written
  <2>4. InOrder(tail)
    BY <1>2, <1>4, <1>5, <2>2, <2>3, ConcatOrders DEF Ordered, tail
  <2>5. Precedes(wire, tail)
    BY <1>3, <1>4, <1>6, <2>2 DEF Precedes, Written, Ordered
  <2>6. InOrder(wire \o tail)
    BY <1>2, <1>5, <1>6, <2>2, <2>4, <2>5, ConcatOrders DEF Ordered
  <2>7. Carried(wire \o tail) = 1..Total
    BY <1>3, <1>4, <1>6, <1>7, <2>2 DEF Written
  <2>8. UncutIsComplete'
    BY <1>8, <1>13, <2>1, <2>6, <2>7 DEF UncutIsComplete
  <2>9. ~Uncut' /\ cause'[1] # "none"
    BY <1>8, <1>11 DEF Uncut
  <2>10. ControlInv'
    BY <1>8, <2>9 DEF StreamInv, ControlInv, Phases, response
  <2>11. Filled'
    <3>1. Carried(wire') = 1..Total /\ Carried(pending') = (Total + 1)..Total
      <4>1. (Total + 1)..Total = {}
        BY <1>13
      <4>2. wire' = wire \o tail
        BY <1>8, <2>1
      <4>3. QED
        BY <1>14, <2>7, <4>1, <4>2
    <3>2. Ordered'
      BY <1>8, <1>14, <2>1, <2>6 DEF Ordered, Precedes
    <3>3. QED
      BY <1>13, <3>1, <3>2 DEF Filled
  <2>12. QED
    BY <1>9, <2>8, <2>9, <2>10, <2>11 DEF StreamInv, FlowInv
<1>12. QED
  BY <1>10, <1>11

LEMMA ReturnEnds ==
  ASSUME NEW why, Return(why)
  PROVE  /\ phase' \in {"finish", "over"} /\ cause' = why
         /\ phase' = "finish" => cfg.surface = "messages"
BY DEF Return

\* The handler between two frames.
LEMMA HandlerKeeps ==
  ASSUME StreamInv, WaitOver \/ GiveUp \/ Sever \/ CorruptChunk \/ NoLegacyFault \/ Ping
  PROVE  StreamInv'
<1>1. CASE WaitOver \/ NoLegacyFault
  <2>1. /\ phase \in {"ttft", "check", "wait"} /\ phase' \in {"check", "wait", "emit"}
        /\ UNCHANGED <<response, sink, pos, conn, cause>>
    BY <1>1 DEF WaitOver, NoLegacyFault, At
  <2>2. QED
    BY <2>1, SilentKeeps DEF Out, Phases
<1>2. CASE GiveUp
  <2>1. /\ UNCHANGED <<response, pos, sink>> /\ phase' = "over"
        /\ cause' = <<"client", 0>>
    BY <1>2 DEF GiveUp
  <2>2. QED
    BY <2>1, SinkKeeps, EndsKeep
<1>3. CASE Sever
  <2>1. UNCHANGED <<response, pos, sink>> /\ Return(<<"chunks", 0>>)
    BY <1>3 DEF Sever, Cut
  <2>2. QED
    BY <2>1, ReturnEnds, SinkKeeps, EndsKeep
<1>4. CASE CorruptChunk
  <2>1. /\ phase = "check" /\ phase' = "wait" /\ UNCHANGED <<response, pos, conn, cause>>
        /\ \/ wire' = Append(wire, Corrupt) /\ UNCHANGED pending
           \/ Write(Corrupt)
    BY <1>4 DEF CorruptChunk, At
  <2>2. Corrupt.pos = 0
    BY DEF Corrupt, OnWire
  <2>3. Sequences' /\ Written' = Written /\ (Filled => Filled')
    BY <2>1, <2>2, WriteBesides, PastTheBuffer DEF StreamInv
  <2>4. QED
    BY <2>1, <2>3, BesidesKeeps DEF Out, Phases
<1>5. CASE Ping
  <2>1. /\ phase \in {"ttft", "wait"} /\ UNCHANGED <<response, phase, pos, conn, cause>>
        /\ Write(OnWire(": ping", NoBlock, 0))
    BY <1>5 DEF Ping, Waiting, At
  <2>2. OnWire(": ping", NoBlock, 0).pos = 0
    BY DEF OnWire
  <2>3. Sequences' /\ Written' = Written /\ (Filled => Filled')
    BY <2>1, <2>2, WriteBesides DEF StreamInv
  <2>4. QED
    BY <2>1, <2>3, BesidesKeeps DEF Out, Phases
<1>6. QED
  BY <1>1, <1>2, <1>3, <1>4, <1>5

\* The injector.
LEMMA InjectorKeeps == StreamInv /\ (afterFrame \/ StallOver) => StreamInv'
<1> SUFFICES ASSUME StreamInv, afterFrame \/ StallOver PROVE StreamInv'
  OBVIOUS
<1>1. CASE MatchDone \/ Skip \/ OpenBlock \/ FireInjection \/ FireStall
  <2>1. /\ phase = "match" /\ phase' \in {"match", "stalled"}
        /\ UNCHANGED <<response, sink, pos, conn, cause>>
    BY <1>1 DEF MatchDone, Skip, OpenBlock, FireInjection, FireStall, Firing, Matching,
       Injecting
  <2>2. QED
    BY <2>1, SilentKeeps DEF Out, Phases
<1>2. CASE FireDisconnect
  <2>1. UNCHANGED <<response, pos, sink>> /\ Return(<<"spec", Top.next>>)
    BY <1>2 DEF FireDisconnect, Firing, Cut
  <2>2. QED
    BY <2>1, ReturnEnds, SinkKeeps, EndsKeep
<1>3. CASE FailValidation
  <2>1. UNCHANGED <<response, pos, sink>> /\ Return(<<"validation", 0>>)
    BY <1>3 DEF FailValidation, Cut
  <2>2. QED
    BY <2>1, ReturnEnds, SinkKeeps, EndsKeep
<1>4. CASE StallOver
  <2>1. UNCHANGED <<response, pos, sink>> /\ Return(<<"client", 0>>)
    BY <1>4 DEF StallOver
  <2>2. QED
    BY <2>1, ReturnEnds, SinkKeeps, EndsKeep
<1>5. CASE FireCorrupt
  <2>1. /\ phase = "match" /\ UNCHANGED <<response, phase, pos, conn, cause>>
        /\ Write(Corrupt)
    BY <1>5 DEF FireCorrupt, Firing, Matching
  <2>2. Corrupt.pos = 0
    BY DEF Corrupt, OnWire
  <2>3. Sequences' /\ Written' = Written /\ (Filled => Filled')
    BY <2>1, <2>2, WriteBesides DEF StreamInv
  <2>4. QED
    BY <2>1, <2>3, BesidesKeeps DEF Out, Phases
<1>6. CASE FireException
  <2>1. /\ UNCHANGED <<response, pos>> /\ Write(OnWire("exception", NoBlock, 0))
        /\ Return(<<"exception", Top.next>>)
    BY <1>6 DEF FireException, Firing
  <2>2. OnWire("exception", NoBlock, 0).pos = 0
    BY DEF OnWire
  <2>3. Sequences' /\ Filled'
    BY <2>1, <2>2, WriteBesides DEF StreamInv, FlowInv
  <2>4. QED
    BY <2>1, <2>3, ReturnEnds, EndsKeep
<1>7. CASE EmitInjected
  <2> DEFINE f == OnWire(Due.event, Due.block, 0)
  <2>1. /\ phase = "match" /\ UNCHANGED <<response, pos>> /\ Write(f)
        /\ \/ Return(<<"event", 0>>)
           \/ UNCHANGED <<phase, conn, cause>>
    BY <1>7 DEF EmitInjected, Injecting, Cut
  <2>2. f.pos = 0
    BY DEF OnWire
  <2> HIDE DEF f
  <2>3. Sequences' /\ Written' = Written /\ (Filled => Filled')
    BY <2>1, <2>2, WriteBesides DEF StreamInv
  <2>4. CASE Return(<<"event", 0>>)
    BY <2>1, <2>3, <2>4, ReturnEnds, EndsKeep DEF StreamInv, FlowInv
  <2>5. CASE UNCHANGED <<phase, conn, cause>>
    BY <2>1, <2>3, <2>5, BesidesKeeps DEF Out, Phases
  <2>6. QED
    BY <2>1, <2>4, <2>5
<1>8. QED
  BY <1>1, <1>2, <1>3, <1>4, <1>5, <1>6, <1>7 DEF afterFrame

\* Nothing the invariant speaks of changes.
LEMMA OutsideKeeps ==
  ASSUME StreamInv, UNCHANGED <<response, pos, phase, sink, conn, cause>>
  PROVE  StreamInv'
<1>1. UNCHANGED <<script, cfg, wire, pending>>
  BY DEF response, sink
<1>2. ControlInv'
  BY <1>1 DEF StreamInv, ControlInv, Uncut
<1>3. FlowInv'
  BY <1>1, SinkFlows DEF StreamInv, FlowInv, Uncut, Out, Carried, Written
<1>4. UncutIsComplete'
  BY <1>1 DEF StreamInv, UncutIsComplete, InOrder, Carried, Total
<1>5. QED
  BY <1>2, <1>3, <1>4, SinkKeeps DEF StreamInv

LEMMA StreamInit == Init => StreamInv
<1> SUFFICES ASSUME Init PROVE StreamInv
  OBVIOUS
<1>1. Len(script) \in Nat
  <2>1. script \in Seq(ScriptFrames)
    BY ScriptIsFinite DEF Init
  <2>2. QED
    BY <2>1, LenProperties
<1>2. ControlInv
  BY <1>1 DEF Init, ControlInv, Phases, Uncut
<1>3. Carried(wire) = {} /\ Carried(pending) = {} /\ Ordered
  BY DEF Init, Carried, Ordered, InOrder, Precedes
<1>4. Sequences
  <2>1. wire \in Seq({}) /\ pending \in Seq({}) /\ Numbered(wire) /\ Numbered(pending)
    BY EmptySeq DEF Init, Numbered
  <2>2. QED
    BY <2>1 DEF Sequences
<1>5. FlowInv
  <2>1. Total \in Nat /\ 1..0 = {} /\ (0 + 1)..0 = {}
    BY <1>1 DEF Total
  <2>2. Filled
    BY <1>3, <2>1 DEF Filled
  <2>3. QED
    BY <1>3, <2>2 DEF Init, FlowInv, Out, Written
<1>6. UncutIsComplete
  BY DEF Init, UncutIsComplete
<1>7. QED
  BY <1>2, <1>4, <1>5, <1>6 DEF StreamInv

LEMMA StreamStep == StreamInv /\ [Next]_vars => StreamInv'
<1> SUFFICES ASSUME StreamInv, [Next]_vars PROVE StreamInv'
  OBVIOUS
<1>1. CASE EmitFrame \/ NextFrame \/ Finish
  BY <1>1, EmitFrameKeeps, NextFrameKeeps, FinishKeeps
<1>2. CASE WaitOver \/ GiveUp \/ Sever \/ CorruptChunk \/ NoLegacyFault \/ Ping
  BY <1>2, HandlerKeeps
<1>3. CASE afterFrame \/ StallOver
  BY <1>3, InjectorKeeps
<1>4. CASE ClientLeaves \/ TimePasses
  BY <1>4, OutsideKeeps DEF ClientLeaves, TimePasses
<1>5. CASE UNCHANGED vars
  BY <1>5, OutsideKeeps DEF vars
<1>6. QED
  BY <1>1, <1>2, <1>3, <1>4, <1>5 DEF Next, Handler

(***************************************************************************)
(* Whatever specs inject, corrupt, delay and coalesce: a stream that ended *)
(* by itself has delivered every real frame and the [DONE], once and in    *)
(* order, and left nothing in the buffer (emit, writeFrame, flushPending). *)
(***************************************************************************)
THEOREM UncutStreamsAreComplete == Spec => []UncutIsComplete
<1>1. StreamInv => UncutIsComplete
  BY DEF StreamInv
<1>2. QED
  BY <1>1, StreamInit, StreamStep, PTL DEF Spec
-----------------------------------------------------------------------------
(***************************************************************************)
(* The refinement.  The provers do no induction; a claim about a recursive *)
(* definition is proved by its least counterexample.                       *)
(***************************************************************************)
LEMMA Least ==
  ASSUME NEW T, T \subseteq Nat, T # {}
  PROVE  \E n \in T : \A m \in T : n <= m
<1> DEFINE seg == { 0..n : n \in T }
<1>1. IsWellFoundedOn(StrictSubsetOrdering(Nat), FiniteSubsetsOf(Nat))
  BY FS_StrictSubsetOrderingWellFounded
<1>2. seg \subseteq FiniteSubsetsOf(Nat)
  <2>1. \A n \in T : 0..n \subseteq Nat /\ IsFiniteSet(0..n)
    BY FS_Interval
  <2>2. QED
    BY <2>1 DEF FiniteSubsetsOf
<1>3. PICK s \in seg : \A t \in seg : <<t, s>> \notin StrictSubsetOrdering(Nat)
  <2>1. seg # {}
    OBVIOUS
  <2> HIDE DEF seg
  <2>2. QED
    BY <1>1, <1>2, <2>1, WFMin, Zenon
<1>4. PICK n \in T : s = 0..n
  OBVIOUS
<1>5. ASSUME NEW m \in T, m < n
      PROVE  FALSE
  <2>1. n \in 0..n /\ n \notin 0..m /\ 0..m \subseteq 0..n /\ 0..n \subseteq Nat
    BY <1>5
  <2>2. <<0..m, 0..n>> \in StrictSubsetOrdering(Nat)
    BY <2>1 DEF StrictSubsetOrdering
  <2>3. QED
    BY <1>3, <1>4, <1>5, <2>2
<1>6. QED
  BY <1>5

\* The first of 0..L at which a claim fails, and what holds right before it.
LEMMA FirstFailure ==
  ASSUME NEW L \in Nat, NEW T, T \subseteq 0..L, T # {}
  PROVE  \E k \in T : k # 0 => k - 1 \in 0..L /\ k - 1 \notin T
<1>1. T \subseteq Nat
  OBVIOUS
<1>2. PICK k \in T : \A l \in T : k <= l
  BY <1>1, Least
<1>3. k \in 0..L
  OBVIOUS
<1>4. ASSUME k # 0
      PROVE  k - 1 \in 0..L /\ k - 1 \notin T
  BY <1>2, <1>3, <1>4
<1>5. QED
  BY <1>4

\* Real frames that carry 1..n in order fill 1..m in every prefix.
UpTo(s, k) == { s[j].pos : j \in 1..k } \ {0}

LEMMA PrefixesAreFilled ==
  ASSUME NEW S, NEW s \in Seq(S), Numbered(s), InOrder(s),
         NEW n \in Nat, Carried(s) = 1..n
  PROVE  \A k \in 0..Len(s) : \E m \in Nat : UpTo(s, k) = 1..m
<1> DEFINE part(k) == UpTo(s, k)
           T == { k \in 0..Len(s) : \A m \in Nat : part(k) # 1..m }
<1>1. Len(s) \in Nat /\ T \subseteq 0..Len(s)
  BY LenProperties
<1>2. SUFFICES ASSUME T # {} PROVE FALSE
  OBVIOUS
<1>3. PICK k \in T : k # 0 => k - 1 \in 0..Len(s) /\ k - 1 \notin T
  <2> HIDE DEF T
  <2> QED
    BY <1>1, <1>2, FirstFailure
<1>4. k # 0
  <2>1. part(0) = {} /\ 1..0 = {}
    BY DEF UpTo
  <2>2. QED
    BY <2>1
<1>5. k \in 1..Len(s) /\ k - 1 \in 0..Len(s) /\ k - 1 \notin T
  BY <1>1, <1>3, <1>4
<1>6. PICK m \in Nat : part(k - 1) = 1..m
  BY <1>5
<1>7. s[k].pos \in Nat
  BY <1>5 DEF Numbered
<1>8. 1..k = 1..(k - 1) \cup {k}
  BY <1>1, <1>5
<1>9. part(k) = part(k - 1) \cup ({s[k].pos} \ {0})
  BY <1>8 DEF UpTo
<1>10. CASE s[k].pos = 0
  BY <1>6, <1>9, <1>10
<1>11. CASE s[k].pos # 0
  <2>1. m < s[k].pos
    <3>1. CASE m = 0
      BY <1>7, <1>11, <3>1
    <3>2. CASE m # 0
      <4>1. m \in part(k - 1)
        BY <1>6, <3>2
      <4>2. PICK j \in 1..(k - 1) : s[j].pos = m
        BY <4>1 DEF UpTo
      <4>3. QED
        BY <1>1, <1>5, <1>7, <1>11, <3>2, <4>2 DEF InOrder, IsReal
    <3>3. QED
      BY <3>1, <3>2
  <2>2. s[k].pos \in 1..n
    BY <1>5, <1>11 DEF Carried
  <2>3. s[k].pos = m + 1
    <3> SUFFICES ASSUME s[k].pos # m + 1 PROVE FALSE
      OBVIOUS
    <3>1. m + 1 \in Carried(s)
      BY <2>1, <2>2
    <3>2. PICK j \in 1..Len(s) : s[j].pos = m + 1
      BY <3>1 DEF Carried
    <3>3. j # k /\ ~(k < j)
      BY <1>5, <1>7, <2>1, <3>2 DEF InOrder, IsReal
    <3>4. j \in 1..(k - 1)
      BY <1>1, <1>5, <3>3
    <3>5. m + 1 \in part(k - 1)
      BY <3>2, <3>4 DEF UpTo
    <3>6. QED
      BY <1>6, <3>5
  <2>4. part(k) = 1..(m + 1)
    BY <1>6, <1>9, <1>11, <2>3
  <2>5. QED
    BY <2>4
<1>12. QED
  BY <1>10, <1>11

LEMMA AppendToSegment ==
  ASSUME NEW m \in Nat
  PROVE  Append([i \in 1..m |-> i], m + 1) = [i \in 1..(m + 1) |-> i]
<1> DEFINE t == [i \in 1..m |-> i]
           u == [i \in 1..(m + 1) |-> i]
<1>1. t \in Seq(Nat) /\ u \in Seq(Nat)
  <2>1. t \in [1..m -> Nat] /\ u \in [1..(m + 1) -> Nat]
    OBVIOUS
  <2>2. QED
    BY <2>1, SeqDef
<1>2. Len(t) = m /\ Len(u) = m + 1
  BY LenProperties
<1>3. /\ Append(t, m + 1) \in Seq(Nat) /\ Len(Append(t, m + 1)) = m + 1
      /\ \A i \in 1..m : Append(t, m + 1)[i] = i
      /\ Append(t, m + 1)[m + 1] = m + 1
  BY <1>1, <1>2, AppendProperties
<1>4. \A i \in 1..(m + 1) : Append(t, m + 1)[i] = u[i]
  BY <1>3
<1>5. QED
  BY <1>1, <1>2, <1>3, <1>4, SeqEqual

LEMMA PositionsInOrder ==
  ASSUME NEW S, NEW s \in Seq(S), Numbered(s), InOrder(s),
         NEW n \in Nat, Carried(s) = 1..n
  PROVE  Positions(s) = [i \in 1..n |-> i]
<1> DEFINE L == Len(s)
           part(k) == UpTo(s, k)
           count(k) == CHOOSE m \in Nat : part(k) = 1..m
           g == [k \in 0..L |-> [i \in 1..count(k) |-> i]]
           Solves(f) ==
             f = [k \in 0..L |->
                    IF k = 0 THEN << >>
                    ELSE IF IsReal(s[k]) THEN Append(f[k - 1], s[k].pos) ELSE f[k - 1]]
           upTo == CHOOSE f : Solves(f)
<1>1. L \in Nat
  BY LenProperties
<1>2. \A k \in 0..L : count(k) \in Nat /\ part(k) = 1..count(k)
  <2> SUFFICES ASSUME NEW k \in 0..L PROVE count(k) \in Nat /\ part(k) = 1..count(k)
    OBVIOUS
  <2>1. \E m \in Nat : part(k) = 1..m
    BY PrefixesAreFilled
  <2> HIDE DEF part
  <2>2. QED
    BY <2>1, Zenon
<1>3. count(0) = 0
  <2>1. part(0) = {} /\ 1..0 = {} /\ 0 \in Nat
    BY DEF UpTo
  <2>2. 1..count(0) = 1..0 /\ count(0) \in Nat
    BY <1>1, <1>2, <2>1
  <2>3. QED
    BY <2>2, SegmentsDiffer
<1>4. ASSUME NEW k \in 1..L
      PROVE  IF IsReal(s[k]) THEN count(k) = count(k - 1) + 1 /\ s[k].pos = count(k)
                             ELSE count(k) = count(k - 1)
  <2>1. k \in 0..L /\ k - 1 \in 0..L /\ 1..k = 1..(k - 1) \cup {k} /\ s[k].pos \in Nat
    BY <1>1 DEF Numbered
  <2>2. part(k) = part(k - 1) \cup ({s[k].pos} \ {0})
    BY <2>1 DEF UpTo
  <2>3. /\ count(k) \in Nat /\ part(k) = 1..count(k)
        /\ count(k - 1) \in Nat /\ part(k - 1) = 1..count(k - 1)
    BY <1>2, <2>1
  <2>4. CASE ~IsReal(s[k])
    <3>1. s[k].pos = 0
      BY <2>1, <2>4 DEF IsReal
    <3>2. part(k) = part(k - 1)
      BY <2>2, <3>1
    <3> HIDE DEF part, count
    <3>3. count(k) = count(k - 1)
      BY <2>3, <3>2, SegmentsDiffer
    <3>4. QED
      BY <2>4, <3>3
  <2>5. CASE IsReal(s[k])
    <3>1. s[k].pos # 0
      BY <2>1, <2>5 DEF IsReal
    <3>2. \A j \in 1..(k - 1) : s[j].pos # s[k].pos
      BY <1>1, <2>1, <2>5, <3>1 DEF InOrder, IsReal
    <3>3. s[k].pos \notin part(k - 1)
      BY <3>2 DEF UpTo
    <3>4. \A p \in part(k - 1) : p < s[k].pos
      <4> SUFFICES ASSUME NEW j \in 1..(k - 1), s[j].pos # 0
                   PROVE  s[j].pos < s[k].pos
        BY DEF UpTo
      <4>1. j \in 1..L /\ s[j].pos \in Nat
        BY <1>1 DEF Numbered
      <4>2. QED
        BY <1>1, <2>5, <4>1 DEF InOrder, IsReal
    <3> HIDE DEF part, count
    <3>5. s[k].pos \in 1..count(k) /\ 1..count(k) = 1..count(k - 1) \cup {s[k].pos}
      BY <2>2, <2>3, <3>1
    <3>6. s[k].pos = count(k)
      <4>1. count(k) \in 1..count(k) /\ s[k].pos <= count(k)
        BY <2>3, <3>5
      <4>2. count(k) \in 1..count(k - 1) \/ count(k) = s[k].pos
        BY <3>5, <4>1
      <4>3. count(k) \in 1..count(k - 1) => count(k) < s[k].pos
        BY <2>3, <3>4
      <4>4. QED
        BY <2>1, <2>3, <4>1, <4>2, <4>3
    <3>7. 1..(count(k) - 1) = 1..count(k - 1)
      <4>1. count(k) \notin 1..count(k - 1)
        BY <2>3, <3>3, <3>6
      <4>2. 1..count(k) = 1..count(k - 1) \cup {count(k)}
        BY <3>5, <3>6
      <4>3. 1..(count(k) - 1) = 1..count(k) \ {count(k)}
        BY <2>3
      <4>4. QED
        BY <4>1, <4>2, <4>3
    <3>8. count(k) - 1 \in Nat
      BY <2>3, <3>5
    <3>9. count(k) - 1 = count(k - 1)
      BY <2>3, <3>7, <3>8, SegmentsDiffer
    <3>10. QED
      BY <2>3, <2>5, <3>6, <3>9
  <2>6. QED
    BY <2>4, <2>5
<1> HIDE DEF count, part
<1>5. Solves(g)
  <2>1. ASSUME NEW k \in 0..L
        PROVE  g[k] = IF k = 0 THEN << >>
                      ELSE IF IsReal(s[k]) THEN Append(g[k - 1], s[k].pos) ELSE g[k - 1]
    <3>1. CASE k = 0
      BY <1>3, <3>1
    <3>2. CASE k # 0
      <4>1. k \in 1..L /\ k - 1 \in 0..L
        BY <1>1, <3>2
      <4>2. g[k] = [i \in 1..count(k) |-> i] /\ g[k - 1] = [i \in 1..count(k - 1) |-> i]
        BY <4>1
      <4>3. CASE ~IsReal(s[k])
        BY <1>4, <3>2, <4>1, <4>2, <4>3
      <4>4. CASE IsReal(s[k])
        <5>1. count(k) = count(k - 1) + 1 /\ s[k].pos = count(k) /\ count(k - 1) \in Nat
          BY <1>2, <1>4, <4>1, <4>4
        <5>2. Append([i \in 1..count(k - 1) |-> i], count(k)) = [i \in 1..count(k) |-> i]
          BY <5>1, AppendToSegment
        <5>3. QED
          BY <3>2, <4>2, <4>4, <5>1, <5>2
      <4>5. QED
        BY <4>3, <4>4
    <3>3. QED
      BY <3>1, <3>2
  <2>2. QED
    BY <2>1, Zenon
<1>6. Solves(upTo)
  BY <1>5, Zenon
<1>7. Positions(s) = upTo[L]
  BY DEF Positions
<1> HIDE DEF upTo
<1>8. upTo[L] = g[L]
  <2> DEFINE T == { k \in 0..L : upTo[k] # g[k] }
  <2>1. SUFFICES ASSUME T # {} PROVE FALSE
    <3>1. L \in 0..L
      BY <1>1
    <3> HIDE DEF g, L
    <3>2. QED
      BY <3>1, <2>1
  <2>8. T \subseteq 0..L
    OBVIOUS
  <2>2. PICK k \in T : k # 0 => k - 1 \in 0..L /\ k - 1 \notin T
    <3> HIDE DEF T
    <3> QED
      BY <1>1, <2>1, <2>8, FirstFailure
  <2>3. k \in 0..L /\ (k # 0 => k - 1 \in 0..L /\ k - 1 \notin T)
    BY <1>1, <2>2
  <2>4. k # 0 => upTo[k - 1] = g[k - 1]
    BY <2>3
  <2>5. \A f : Solves(f) =>
          f[k] = IF k = 0 THEN << >>
                 ELSE IF IsReal(s[k]) THEN Append(f[k - 1], s[k].pos) ELSE f[k - 1]
    <3> TAKE f
    <3> HAVE Solves(f)
    <3> DEFINE h == [l \in 0..L |->
                    IF l = 0 THEN << >>
                    ELSE IF IsReal(s[l]) THEN Append(f[l - 1], s[l].pos) ELSE f[l - 1]]
    <3>1. f = h
      OBVIOUS
    <3>2. h[k] = IF k = 0 THEN << >>
                 ELSE IF IsReal(s[k]) THEN Append(f[k - 1], s[k].pos) ELSE f[k - 1]
      BY <2>3
    <3>3. QED
      BY <3>1, <3>2, Zenon
  <2> HIDE DEF Solves, g
  <2>6. upTo[k] = g[k]
    BY <1>5, <1>6, <2>4, <2>5
  <2>7. QED
    BY <2>2, <2>6
<1>9. count(L) = n
  <2>1. part(L) = 1..n
    BY DEF part, UpTo, Carried
  <2>2. QED
    BY <1>1, <1>2, <2>1, SegmentsDiffer
<1>10. g[L] = [i \in 1..n |-> i]
  BY <1>1, <1>9
<1>11. QED
  BY <1>7, <1>8, <1>10

Segment(n) == [i \in 1..n |-> i]

LEMMA SegmentIsPrefix ==
  ASSUME NEW m \in Nat, NEW n \in 0..m
  PROVE  Len(Segment(n)) = n /\ SubSeq(Segment(m), 1, n) = Segment(n)
<1>1. Segment(m) \in Seq(Nat) /\ Segment(n) \in Seq(Nat)
  <2>1. Segment(m) \in [1..m -> Nat] /\ Segment(n) \in [1..n -> Nat]
    BY DEF Segment
  <2>2. QED
    BY <2>1, SeqDef
<1>2. Len(Segment(m)) = m /\ Len(Segment(n)) = n
  BY DEF Segment
<1>3. /\ SubSeq(Segment(m), 1, n) \in Seq(Nat)
      /\ Len(SubSeq(Segment(m), 1, n)) = n
      /\ \A i \in 1..n : SubSeq(Segment(m), 1, n)[i] = Segment(m)[i]
  BY <1>1, <1>2, SubSeqProperties
<1>4. \A i \in 1..n : SubSeq(Segment(m), 1, n)[i] = Segment(n)[i]
  BY <1>3 DEF Segment
<1>5. QED
  BY <1>1, <1>2, <1>3, <1>4, SeqEqual

\* What has been delivered is a prefix of the response.
Prefix == \E n \in 0..Total : Carried(wire) = 1..n /\ Positions(wire) = Segment(n)

LEMMA DeliveredIsPrefix == StreamInv => Prefix
<1> SUFFICES ASSUME StreamInv PROVE Prefix
  OBVIOUS
<1>1. PICK n \in Nat, m \in 0..Total : n <= m /\ Carried(wire) = 1..n
  BY DEF StreamInv, FlowInv, Filled
<1>2. PICK S : wire \in Seq(S)
  BY DEF StreamInv, Sequences
<1>3. Numbered(wire) /\ InOrder(wire)
  BY DEF StreamInv, Sequences, FlowInv, Filled, Ordered
<1>4. Positions(wire) = Segment(n)
  BY <1>1, <1>2, <1>3, PositionsInOrder DEF Segment
<1>5. Total \in Nat
  BY DEF StreamInv, ControlInv, Total
<1>6. n \in 0..Total
  BY <1>1, <1>5
<1>7. QED
  BY <1>1, <1>4, <1>6 DEF Prefix

\* A step takes nothing back, and changes nothing after the end.
LEMMA WireGrows ==
  ASSUME StreamInv, [Next]_vars
  PROVE  /\ UNCHANGED response
         /\ Carried(wire) \subseteq Carried(wire')
         /\ phase = "over" \/ conn # "open" => UNCHANGED wire
         /\ phase = "over" => UNCHANGED phase
         /\ conn # "open" => conn' # "open"
<1> DEFINE Grows == Carried(wire) \subseteq Carried(wire')
           Busy == phase \notin {"finish", "over"}
<1>1. Busy => conn = "open"
  BY DEF StreamInv, ControlInv
<1>2. ASSUME NEW f, f.pos \in Nat, Write(f)
      PROVE  Grows
  BY <1>2, WriteKeepsOrder DEF StreamInv, Written
<1>3. ASSUME UNCHANGED wire
      PROVE  Grows
  BY <1>3
<1>4. CASE WaitOver \/ GiveUp \/ Sever \/ NoLegacyFault \/ NextFrame \/ StallOver
  <2>1. Busy /\ UNCHANGED <<response, wire>>
    BY <1>4 DEF WaitOver, GiveUp, Sever, NoLegacyFault, NextFrame, StallOver, Waiting, At,
       sink
  <2>2. QED
    BY <1>1, <1>3, <2>1
<1>5. CASE CorruptChunk
  <2>1. Corrupt.pos = 0 /\ Busy /\ UNCHANGED response
    BY <1>5 DEF Corrupt, OnWire, CorruptChunk, At
  <2>2. Grows
    <3>1. \/ wire' = Append(wire, Corrupt) /\ UNCHANGED pending
          \/ Write(Corrupt)
      BY <1>5 DEF CorruptChunk
    <3>2. Write(Corrupt) => Grows
      BY <1>2, <2>1
    <3>3. QED
      BY <2>1, <3>1, <3>2, PastTheBuffer DEF StreamInv
  <2>3. QED
    BY <1>1, <2>1, <2>2
<1>6. CASE Ping \/ EmitFrame
  <2> DEFINE ping == OnWire(": ping", NoBlock, 0)
             real == OnWire(Now.event, Now.block, pos)
  <2>1. ping.pos \in Nat /\ real.pos \in Nat
    BY DEF OnWire, StreamInv, ControlInv
  <2>2. Busy /\ UNCHANGED response
    BY <1>6 DEF Ping, EmitFrame, Waiting, At
  <2>3. Write(ping) \/ Write(real)
    BY <1>6 DEF Ping, EmitFrame
  <2> HIDE DEF ping, real
  <2>4. QED
    BY <1>1, <1>2, <2>1, <2>2, <2>3
<1>7. CASE afterFrame
  <2>1. phase = "match" /\ UNCHANGED response
    BY <1>7 DEF afterFrame, MatchDone, Skip, FireDisconnect, FireStall, FireCorrupt,
       FireException, FireInjection, OpenBlock, FailValidation, EmitInjected, Firing,
       Matching, Injecting
  <2>2. UNCHANGED wire \/ Grows
    <3>1. CASE MatchDone \/ Skip \/ FireDisconnect \/ FireStall \/ FireInjection
                 \/ OpenBlock \/ FailValidation
      BY <3>1 DEF MatchDone, Skip, FireDisconnect, FireStall, FireInjection, OpenBlock,
         FailValidation, sink
    <3>2. CASE FireCorrupt \/ FireException \/ EmitInjected
      <4>1. Corrupt.pos = 0 /\ OnWire("exception", NoBlock, 0).pos = 0
            /\ OnWire(Due.event, Due.block, 0).pos = 0
        BY DEF Corrupt, OnWire
      <4>2. \/ Write(Corrupt) \/ Write(OnWire("exception", NoBlock, 0))
            \/ Write(OnWire(Due.event, Due.block, 0))
        BY <3>2 DEF FireCorrupt, FireException, EmitInjected
      <4>3. Write(Corrupt) => Grows
        BY <1>2, <4>1
      <4>4. Write(OnWire("exception", NoBlock, 0)) => Grows
        BY <1>2, <4>1
      <4>5. Write(OnWire(Due.event, Due.block, 0)) => Grows
        BY <1>2, <4>1
      <4>6. QED
        BY <4>2, <4>3, <4>4, <4>5
    <3>3. QED
      BY <1>7, <3>1, <3>2 DEF afterFrame
  <2>3. QED
    BY <1>1, <1>3, <2>1, <2>2
<1>8. CASE Finish
  <2>1. phase = "finish" /\ UNCHANGED <<response, conn>>
    BY <1>8 DEF Finish
  <2>2. CASE conn = "open"
    <3> DEFINE done == OnWire("[DONE]", NoBlock, Total)
               tail == pending \o If(EndsWithDone(cfg), << done >>)
    <3>1. PICK S0 : wire \in Seq(S0) /\ pending \in Seq(S0)
      BY DEF StreamInv, Sequences
    <3> DEFINE S == S0 \cup {done}
    <3>2. wire \in Seq(S) /\ pending \in Seq(S) /\ << done >> \in Seq(S) /\ << >> \in Seq(S)
      BY <3>1, SeqMonotonic
    <3> HIDE DEF S, done
    <3>3. tail \in Seq(S) /\ wire \in Seq(S)
      BY <3>2 DEF If
    <3>4. wire' = wire \o tail
      BY <1>8, <2>2 DEF Finish, done
    <3> HIDE DEF tail
    <3>5. \A k \in 1..Len(wire) : k \in 1..Len(wire') /\ wire'[k] = wire[k]
      BY <3>3, <3>4, ConcatProperties
    <3>6. QED
      BY <2>1, <2>2, <3>5 DEF Carried
  <2>3. CASE conn # "open"
    <3>1. UNCHANGED wire
      BY <1>8, <2>3 DEF Finish
    <3>2. QED
      BY <1>3, <2>1, <3>1
  <2>4. QED
    BY <2>2, <2>3
<1>9. CASE ClientLeaves \/ TimePasses \/ UNCHANGED vars
  <2>1. UNCHANGED <<response, phase, wire, conn>>
    BY <1>9 DEF ClientLeaves, TimePasses, vars, sink
  <2>2. QED
    BY <1>3, <2>1
<1>10. QED
  BY <1>4, <1>5, <1>6, <1>7, <1>8, <1>9 DEF Next, Handler

(***************************************************************************)
(* The stream implements OrderedStream: after any step the client has a    *)
(* prefix of the response, the prefix only grows, and once the response is *)
(* over or its connection cut it never grows again (writeFrame,            *)
(* flushPending, emit, hijackAndClose).                                    *)
(***************************************************************************)
THEOREM StreamsAreOrdered == Spec => ImplementsOrderedStream
<1>1. ASSUME Init
      PROVE  Contract!Init
  <2>1. Positions(wire) = << >>
    <3>1. wire \in Seq({}) /\ Numbered(wire) /\ InOrder(wire) /\ Carried(wire) = 1..0
      BY <1>1, EmptySeq DEF Init, Numbered, InOrder, Carried
    <3>2. Positions(wire) = [i \in 1..0 |-> i]
      BY <3>1, PositionsInOrder
    <3>3. QED
      BY <3>2
  <2>2. phase # "over" /\ conn = "open"
    BY <1>1 DEF Init
  <2>3. QED
    BY <2>1, <2>2 DEF Contract!Init
<1>2. ASSUME StreamInv, Prefix, Prefix', [Next]_vars
      PROVE  [Contract!Next]_Contract!vars
  <2>1. PICK n \in 0..Total : Carried(wire) = 1..n /\ Positions(wire) = Segment(n)
    BY <1>2 DEF Prefix
  <2>2. PICK n1 \in 0..Total' : Carried(wire') = 1..n1 /\ Positions(wire') = Segment(n1)
    BY <1>2 DEF Prefix
  <2>3. /\ UNCHANGED response /\ Carried(wire) \subseteq Carried(wire')
        /\ phase = "over" \/ conn # "open" => UNCHANGED wire
        /\ phase = "over" => UNCHANGED phase
        /\ conn # "open" => conn' # "open"
    BY <1>2, WireGrows
  <2>4. Total' = Total /\ Total \in Nat
    BY <1>2, <2>3 DEF Total, response, StreamInv, ControlInv
  <2>5. n <= n1
    BY <2>1, <2>2, <2>3, <2>4
  <2> DEFINE open == phase # "over" /\ conn = "open"
  <2>6. open' => open
    BY <2>3
  <2>7. CASE n < n1
    <3>1. open
      BY <2>1, <2>2, <2>3, <2>4, <2>7, SegmentsDiffer
    <3>2. /\ n1 \in 1..Total /\ Len(Segment(n)) = n /\ Len(Segment(Total)) = Total
          /\ Segment(n1) = SubSeq(Segment(Total), 1, n1)
      BY <2>1, <2>2, <2>4, <2>7, SegmentIsPrefix
    <3>3. Contract!Deliver
      BY <2>1, <2>2, <2>4, <2>7, <3>1, <3>2 DEF Contract!Deliver, Segment
    <3>4. QED
      BY <3>3 DEF Contract!Next
  <2>8. CASE n = n1
    <3>1. Positions(wire') = Positions(wire)
      BY <2>1, <2>2, <2>8
    <3>2. CASE open /\ ~open'
      BY <2>4, <3>1, <3>2 DEF Contract!Next, Contract!Close
    <3>3. CASE open' = open
      BY <2>4, <3>1, <3>3 DEF Contract!vars
    <3>4. QED
      BY <2>6, <3>2, <3>3
  <2>9. QED
    BY <2>1, <2>2, <2>4, <2>5, <2>7, <2>8
<1>3. QED
  BY <1>1, <1>2, DeliveredIsPrefix, StreamInit, StreamStep, PTL DEF Spec, ImplementsOrderedStream, Contract!Spec
-----------------------------------------------------------------------------
(***************************************************************************)
(* The injector: the pending calls of matchAndFire and what they still     *)
(* have to inject.                                                         *)
(***************************************************************************)
InjectedNames ==
  {"error", "message_future", "messageFuture", "content_block_start",
   "content_block_stop", "contentBlockStart", "contentBlockStop"}

\* No prover knows that a literal is a string.
Names == STRING \cup EventNames \cup InjectedNames

Items == [op : {"frame", "block"}, event : Names, block : Int, offspec : BOOLEAN]
Activations == [event : Names, next : Nat \ {0}, todo : Seq(Items)]

Busy == phase \notin {"finish", "over"}

InjectorType ==
  /\ cfg \in Configs /\ script = Script(cfg)
  /\ stack \in Seq(Activations)
  /\ fired \subseteq Nat
  /\ frames \in Nat
  /\ blockIndex \in Nat /\ blockIndex >= 50

LEMMA ConfigTypes ==
  ASSUME InjectorType
  PROVE  /\ cfg.surface \in Surfaces /\ cfg.deltas \in Nat /\ cfg.disconnect_after_chunks \in Int
         /\ Len(cfg.specs) \in Nat
         /\ \A i \in 1..Len(cfg.specs) : SpecAt(i) \in FaultSpecs
<1>1. cfg.specs \in Seq(FaultSpecs)
  BY ConfigAssumption DEF InjectorType
<1>2. QED
  BY <1>1, ConfigAssumption DEF InjectorType, SpecAt

\* The three ways the stack changes.
Popped ==
  Len(stack') = Len(stack) - 1 /\ \A d \in 1..(Len(stack) - 1) : stack'[d] = stack[d]

TopBecomes(a) ==
  /\ Len(stack') = Len(stack) /\ stack'[Len(stack)] = a
  /\ \A d \in 1..(Len(stack) - 1) : stack'[d] = stack[d]

Pushed(a, b) ==
  /\ Len(stack') = Len(stack) + 1
  /\ stack'[Len(stack)] = a /\ stack'[Len(stack) + 1] = b
  /\ \A d \in 1..(Len(stack) - 1) : stack'[d] = stack[d]

LEMMA TopIsTyped ==
  ASSUME InjectorType, stack # << >>
  PROVE  Len(stack) \in Nat \ {0} /\ Top \in Activations /\ stack[Len(stack)] = Top
BY DEF InjectorType, Top

LEMMA ActivationsChange ==
  ASSUME NEW a \in Activations
  PROVE  /\ [a EXCEPT !.next = @ + 1] \in Activations
         /\ \A t \in Seq(Items) :
              /\ [a EXCEPT !.todo = t] \in Activations
              /\ [event |-> a.event, next |-> a.next + 1, todo |-> t] \in Activations
BY DEF Activations

LEMMA SetTop ==
  ASSUME InjectorType, stack # << >>, NEW a \in Activations,
         stack' = [stack EXCEPT ![Len(stack)] = a]
  PROVE  TopBecomes(a) /\ stack' \in Seq(Activations)
<1>1. Len(stack) \in Nat \ {0} /\ stack \in Seq(Activations)
  BY TopIsTyped DEF InjectorType
<1>2. stack' \in Seq(Activations) /\ Len(stack') = Len(stack)
      /\ \A d \in 1..Len(stack) : stack'[d] = IF d = Len(stack) THEN a ELSE stack[d]
  BY <1>1
<1>3. stack'[Len(stack)] = a /\ \A d \in 1..(Len(stack) - 1) : stack'[d] = stack[d]
  <2> DEFINE L == Len(stack)
             t == stack'
  <2>1. L \in Nat \ {0} /\ \A d \in 1..L : t[d] = IF d = L THEN a ELSE stack[d]
    BY <1>1, <1>2
  <2> HIDE DEF L, t
  <2>2. t[L] = a /\ \A d \in 1..(L - 1) : t[d] = stack[d]
    BY <2>1
  <2>3. QED
    BY <2>2 DEF L, t
<1>4. QED
  BY <1>2, <1>3 DEF TopBecomes

LEMMA PushTop ==
  ASSUME InjectorType, stack # << >>, NEW a \in Activations, NEW b \in Activations,
         stack' = Append([stack EXCEPT ![Len(stack)] = a], b)
  PROVE  Pushed(a, b) /\ stack' \in Seq(Activations)
<1> DEFINE t == [stack EXCEPT ![Len(stack)] = a]
<1>1. Len(stack) \in Nat \ {0} /\ stack \in Seq(Activations)
  BY TopIsTyped DEF InjectorType
<1>2. t \in Seq(Activations) /\ Len(t) = Len(stack)
      /\ \A d \in 1..Len(stack) : t[d] = IF d = Len(stack) THEN a ELSE stack[d]
  BY <1>1
<1> HIDE DEF t
<1>3. /\ Append(t, b) \in Seq(Activations) /\ Len(Append(t, b)) = Len(t) + 1
      /\ \A d \in 1..Len(t) : Append(t, b)[d] = t[d]
      /\ Append(t, b)[Len(t) + 1] = b
  BY <1>2, AppendProperties
<1>4. stack' = Append(t, b)
  BY DEF t
<1>5. QED
  BY <1>1, <1>2, <1>3, <1>4 DEF Pushed

LEMMA InjectedIsTyped ==
  ASSUME NEW f \in FaultSpecs
  PROVE  /\ Injected(f) \in Seq(Items)
         /\ \A j \in 1..Len(Injected(f)) :
              /\ Injected(f)[j].block = NoBlock
              /\ Injected(f)[j].event = "error" => Injected(f)[j].offspec
<1> DEFINE Good == { i \in Items : i.block = NoBlock /\ (i.event = "error" => i.offspec) }
<1>1. Injected(f) \in Seq(Good)
  <2> DEFINE event == IF f.event_type # "" THEN f.event_type
                      ELSE IF IsSSE THEN "message_future" ELSE "messageFuture"
             a == [op |-> "frame", event |-> event, block |-> NoBlock, offspec |-> TRUE]
             b == [op |-> "block", event |-> "", block |-> NoBlock, offspec |-> f.offspec]
             c == [op |-> "frame", event |-> "error", block |-> NoBlock, offspec |-> TRUE]
  <2>1. /\ "error" \in Names /\ "" \in Names /\ "" # "error"
        /\ NoBlock \in Int /\ f.repeat \in Nat /\ f.offspec \in BOOLEAN
    BY DEF FaultSpecs, NoBlock, Names, EventNames, InjectedNames
  <2>8. event \in Names
    <3>1. f.event_type \in STRING
      BY DEF FaultSpecs
    <3>2. QED
      BY <3>1 DEF Names, InjectedNames
  <2> HIDE DEF event
  <2>2. a \in Good /\ b \in Good /\ c \in Good
    BY <2>1, <2>8 DEF Items
  <2> HIDE DEF a, b, c, Good
  <2>6. [i \in 1..f.repeat |-> a] \in [1..f.repeat -> Good]
        /\ [i \in 1..f.repeat |-> b] \in [1..f.repeat -> Good]
    BY <2>2
  <2>7. \A t \in [1..f.repeat -> Good] : t \in Seq(Good)
    BY <2>1, SeqDef
  <2>3. [i \in 1..f.repeat |-> a] \in Seq(Good) /\ [i \in 1..f.repeat |-> b] \in Seq(Good)
        /\ << c >> \in Seq(Good) /\ << >> \in Seq(Good)
    BY <2>2, <2>6, <2>7
  <2>4. Injected(f) = CASE f.mode = "unknown_event" -> [i \in 1..f.repeat |-> a]
                        [] f.mode = "unknown_block" -> [i \in 1..f.repeat |-> b]
                        [] f.mode = "stream_error" -> << c >>
                        [] OTHER -> << >>
    BY DEF Injected, a, b, c, event
  <2>5. QED
    BY <2>3, <2>4
<1>2. Seq(Good) \subseteq Seq(Items)
  BY SeqMonotonic
<1>3. \A j \in 1..Len(Injected(f)) : Injected(f)[j] \in Good
  BY <1>1, ElementOfSeq
<1>4. QED
  BY <1>1, <1>2, <1>3

\* A block to be opened becomes its start and its stop.
BlockNames == IF IsSSE THEN <<"content_block_start", "content_block_stop">>
              ELSE <<"contentBlockStart", "contentBlockStop">>

Opening(offspec) ==
  [i \in 1..2 |-> [op |-> "frame", event |-> BlockNames[i], block |-> blockIndex,
                   offspec |-> offspec /\ i = 1]]

LEMMA PairsAreSequences ==
  ASSUME NEW S, NEW t \in [1..2 -> S]
  PROVE  t \in Seq(S) /\ Len(t) = 2
<1>1. t \in Seq(S)
  BY SeqDef
<1>2. Len(t) = 2
  OBVIOUS
<1>3. QED
  BY <1>1, <1>2

LEMMA OpeningIsTyped ==
  ASSUME InjectorType, NEW o \in BOOLEAN
  PROVE  /\ Opening(o) \in Seq(Items) /\ Len(Opening(o)) = 2
         /\ \A i \in 1..2 : /\ Opening(o)[i].op = "frame"
                            /\ Opening(o)[i].event = BlockNames[i]
                            /\ Opening(o)[i].block = blockIndex
<1>1. \A i \in 1..2 : BlockNames[i] \in Names
  BY DEF BlockNames, Names, InjectedNames
<1>2. Opening(o) \in [1..2 -> Items]
  <2>1. blockIndex \in Int
    BY DEF InjectorType
  <2>2. \A i \in 1..2 :
          [op |-> "frame", event |-> BlockNames[i], block |-> blockIndex,
           offspec |-> o /\ i = 1] \in Items
    BY <1>1, <2>1 DEF Items
  <2>3. QED
    BY <2>2 DEF Opening
<1> DEFINE t == Opening(o)
<1>3. t \in [1..2 -> Items]
  BY <1>2
<1>5. \A i \in 1..2 : /\ t[i].op = "frame" /\ t[i].event = BlockNames[i]
                      /\ t[i].block = blockIndex
  BY DEF Opening
<1> HIDE DEF t
<1>6. t \in Seq(Items) /\ Len(t) = 2
  BY <1>3, PairsAreSequences, Zenon
<1>7. QED
  BY <1>5, <1>6 DEF t

\* What each action of the injector does to the stack.
LEMMA StackMoves ==
  ASSUME InjectorType, phase = "match", stack # << >>
  PROVE  /\ MatchDone => Popped /\ stack' \in Seq(Activations)
         /\ Skip \/ FireCorrupt =>
              /\ TopBecomes([Top EXCEPT !.next = @ + 1])
              /\ stack' \in Seq(Activations)
         /\ FireInjection =>
              /\ TopBecomes([event |-> Top.event, next |-> Top.next + 1,
                             todo |-> Injected(SpecAt(Top.next))])
              /\ stack' \in Seq(Activations)
         /\ OpenBlock =>
              /\ TopBecomes([Top EXCEPT !.todo = Opening(Due.offspec) \o Tail(@)])
              /\ stack' \in Seq(Activations)
         /\ EmitInjected /\ ~CutAfter(Due.event) =>
              /\ Pushed([Top EXCEPT !.todo = Tail(@)], Activation(Due.event))
              /\ stack' \in Seq(Activations)
<1>1. /\ Len(stack) \in Nat \ {0} /\ Top \in Activations /\ stack[Len(stack)] = Top
      /\ stack \in Seq(Activations)
  BY TopIsTyped DEF InjectorType
<1>2. ASSUME MatchDone
      PROVE  Popped /\ stack' \in Seq(Activations)
  <2>1. stack' = SubSeq(stack, 1, Len(stack) - 1)
    BY <1>2 DEF MatchDone, Pop
  <2>2. /\ 1 \in Int /\ Len(stack) - 1 \in Int
        /\ \A d \in 1..(Len(stack) - 1) : stack[d] \in Activations
    BY <1>1
  <2>3. /\ stack' \in Seq(Activations)
        /\ Len(stack') = IF 1 <= Len(stack) - 1 THEN Len(stack) - 1 - 1 + 1 ELSE 0
        /\ \A d \in 1..(Len(stack) - 1 - 1 + 1) : stack'[d] = stack[1 + d - 1]
    BY <2>1, <2>2, SubSeqProperties
  <2> DEFINE L == Len(stack)
             t == stack'
  <2>4. /\ L \in Nat \ {0} /\ t \in Seq(Activations)
        /\ Len(t) = IF 1 <= L - 1 THEN L - 1 - 1 + 1 ELSE 0
        /\ \A d \in 1..(L - 1 - 1 + 1) : t[d] = stack[1 + d - 1]
    BY <1>1, <2>3
  <2> HIDE DEF L, t
  <2>5. Len(t) = L - 1
    BY <2>4
  <2>6. \A d \in 1..(L - 1) : t[d] = stack[d]
    <3> SUFFICES ASSUME NEW d \in 1..(L - 1) PROVE t[d] = stack[d]
      OBVIOUS
    <3>1. d \in 1..(L - 1 - 1 + 1) /\ 1 + d - 1 = d
      BY <2>4
    <3>2. QED
      BY <2>4, <3>1
  <2>7. QED
    BY <2>4, <2>5, <2>6 DEF Popped, L, t
<1>3. ASSUME Skip \/ FireCorrupt
      PROVE  TopBecomes([Top EXCEPT !.next = @ + 1]) /\ stack' \in Seq(Activations)
  <2> DEFINE a == [Top EXCEPT !.next = @ + 1]
  <2>1. a \in Activations
    BY <1>1, ActivationsChange
  <2>2. stack' = [stack EXCEPT ![Len(stack)] = a]
    <3>1. stack' = [stack EXCEPT ![Len(stack)].next = @ + 1]
      BY <1>3 DEF Skip, FireCorrupt
    <3>2. QED
      BY <1>1, <3>1
  <2> HIDE DEF a
  <2>3. TopBecomes(a) /\ stack' \in Seq(Activations)
    BY <2>1, <2>2, SetTop
  <2>4. QED
    BY <2>3 DEF a
<1>4. ASSUME FireInjection
      PROVE  /\ TopBecomes([event |-> Top.event, next |-> Top.next + 1,
                            todo |-> Injected(SpecAt(Top.next))])
             /\ stack' \in Seq(Activations)
  <2> DEFINE a == [event |-> Top.event, next |-> Top.next + 1,
                   todo |-> Injected(SpecAt(Top.next))]
  <2>1. Injected(SpecAt(Top.next)) \in Seq(Items)
    <3>1. Top.next \in 1..Len(cfg.specs)
      BY <1>1, <1>4, ConfigTypes DEF FireInjection, Firing, Activations
    <3>2. QED
      BY <3>1, ConfigTypes, InjectedIsTyped
  <2>2. a \in Activations
    BY <1>1, <2>1, ActivationsChange
  <2>3. stack' = [stack EXCEPT ![Len(stack)] = a]
    BY <1>4 DEF FireInjection
  <2> HIDE DEF a
  <2>4. TopBecomes(a) /\ stack' \in Seq(Activations)
    BY <2>2, <2>3, SetTop
  <2>5. QED
    BY <2>4 DEF a
<1>5. ASSUME Injecting
      PROVE  /\ Due \in Items /\ Tail(Top.todo) \in Seq(Items) /\ Top.todo \in Seq(Items)
             /\ Top.todo # << >>
  BY <1>1, <1>5 DEF Injecting, Due, Activations
<1>6. ASSUME OpenBlock
      PROVE  /\ TopBecomes([Top EXCEPT !.todo = Opening(Due.offspec) \o Tail(@)])
             /\ stack' \in Seq(Activations)
  <2> DEFINE a == [Top EXCEPT !.todo = Opening(Due.offspec) \o Tail(@)]
  <2>1. Injecting
    BY <1>6 DEF OpenBlock
  <2>2. Opening(Due.offspec) \o Tail(Top.todo) \in Seq(Items)
    BY <1>5, <2>1, OpeningIsTyped DEF Items
  <2>3. a \in Activations
    BY <1>1, <2>2, ActivationsChange
  <2>4. stack' = [stack EXCEPT ![Len(stack)].todo = Opening(Due.offspec) \o Tail(@)]
    BY <1>6 DEF OpenBlock, Opening, BlockNames
  <2>5. stack' = [stack EXCEPT ![Len(stack)] = a]
    BY <1>1, <2>4
  <2> HIDE DEF a
  <2>6. TopBecomes(a) /\ stack' \in Seq(Activations)
    BY <2>3, <2>5, SetTop
  <2>7. QED
    BY <2>6 DEF a
<1>7. ASSUME EmitInjected, ~CutAfter(Due.event)
      PROVE  /\ Pushed([Top EXCEPT !.todo = Tail(@)], Activation(Due.event))
             /\ stack' \in Seq(Activations)
  <2> DEFINE a == [Top EXCEPT !.todo = Tail(@)]
             b == Activation(Due.event)
  <2>1. Injecting
    BY <1>7 DEF EmitInjected
  <2>2. a \in Activations
    BY <1>1, <1>5, <2>1, ActivationsChange
  <2>3. b \in Activations
    BY <1>5, <2>1 DEF Activations, Activation, Items
  <2>4. stack' = Append([stack EXCEPT ![Len(stack)].todo = Tail(@)], b)
    BY <1>7 DEF EmitInjected
  <2>5. stack' = Append([stack EXCEPT ![Len(stack)] = a], b)
    BY <1>1, <2>4
  <2> HIDE DEF a, b
  <2>6. Pushed(a, b) /\ stack' \in Seq(Activations)
    BY <2>2, <2>3, <2>5, PushTop
  <2>7. QED
    BY <2>6 DEF a, b
<1>8. QED
  BY <1>2, <1>3, <1>4, <1>6, <1>7

LEMMA afterFrameKeeps ==
  ASSUME afterFrame
  PROVE  phase = "match" /\ stack # << >> /\ UNCHANGED <<response, pos, frames>>
<1>1. CASE MatchDone \/ Skip
  BY <1>1 DEF MatchDone, Skip, Matching
<1>2. CASE FireDisconnect \/ FireStall \/ FireCorrupt \/ FireException \/ FireInjection
  BY <1>2 DEF FireDisconnect, FireStall, FireCorrupt, FireException, FireInjection, Firing,
     Matching
<1>3. CASE OpenBlock \/ FailValidation \/ EmitInjected
  BY <1>3 DEF OpenBlock, FailValidation, EmitInjected, Injecting, injector
<1>4. QED
  BY <1>1, <1>2, <1>3 DEF afterFrame

\* The frame the handler is at.
LEMMA NowIsTyped ==
  ASSUME StreamInv, InjectorType, pos <= Len(script)
  PROVE  pos \in 1..Len(script) /\ Now \in ScriptFrames
<1>1. script \in Seq(ScriptFrames) /\ pos \in 1..Len(script)
  BY ScriptIsFinite DEF StreamInv, ControlInv, InjectorType
<1>2. QED
  BY <1>1, ElementOfSeq DEF Now

LEMMA InjectorTypeStep ==
  ASSUME StreamInv, InjectorType, [Next]_vars
  PROVE  InjectorType'
<1>1. CASE UNCHANGED <<response, injector>>
  BY <1>1 DEF InjectorType, response, injector
<1>2. CASE EmitFrame
  <2>1. CASE CutAfter(Now.event)
    BY <1>2, <2>1 DEF EmitFrame, InjectorType, response
  <2>2. CASE ~CutAfter(Now.event)
    <3>1. Now.event \in EventNames
      BY <1>2, NowIsTyped DEF EmitFrame, At, ScriptFrames
    <3>2. Activation(Now.event) \in Activations
      BY <3>1 DEF Activation, Activations, Names
    <3>3. stack' = << Activation(Now.event) >> /\ frames' = frames + 1
          /\ UNCHANGED <<response, fired, blockIndex>>
      BY <1>2, <2>2 DEF EmitFrame
    <3>4. stack' \in Seq(Activations)
      BY <3>2, <3>3
    <3>5. QED
      BY <3>3, <3>4 DEF InjectorType, response
  <2>3. QED
    BY <2>1, <2>2
<1>3. CASE afterFrame
  <2>1. phase = "match" /\ stack # << >> /\ UNCHANGED <<response, frames>>
    BY <1>3, afterFrameKeeps
  <2>2. Top.next \in Nat
    BY <2>1, TopIsTyped DEF Activations
  <2>3. stack' \in Seq(Activations)
    <3>1. CASE FireDisconnect \/ FireStall \/ FireException \/ FailValidation
      BY <3>1 DEF FireDisconnect, FireStall, FireException, FailValidation, InjectorType,
         injector
    <3>2. CASE MatchDone \/ Skip \/ FireCorrupt \/ FireInjection \/ OpenBlock
      BY <2>1, <3>2, StackMoves
    <3>3. CASE EmitInjected
      <4>1. CASE CutAfter(Due.event)
        BY <3>3, <4>1 DEF EmitInjected, InjectorType
      <4>2. CASE ~CutAfter(Due.event)
        BY <2>1, <3>3, <4>2, StackMoves
      <4>3. QED
        BY <4>1, <4>2
    <3>4. QED
      BY <1>3, <3>1, <3>2, <3>3 DEF afterFrame
  <2>4. fired' = fired \/ fired' = fired \cup {Top.next}
    BY <1>3 DEF afterFrame, MatchDone, Skip, FireDisconnect, FireStall, FireCorrupt,
       FireException, FireInjection, Firing, OpenBlock, FailValidation, EmitInjected, injector
  <2>5. blockIndex' = blockIndex \/ blockIndex' = blockIndex + 1
    BY <1>3 DEF afterFrame, MatchDone, Skip, FireDisconnect, FireStall, FireCorrupt,
       FireException, FireInjection, Firing, OpenBlock, FailValidation, EmitInjected, injector
  <2>6. fired' \subseteq Nat
    BY <2>2, <2>4 DEF InjectorType
  <2>9. blockIndex' \in Nat /\ blockIndex' >= 50
    BY <2>5 DEF InjectorType
  <2>7. cfg' = cfg /\ script' = script /\ frames' = frames
    BY <2>1 DEF response
  <2>8. QED
    BY <2>3, <2>6, <2>7, <2>9 DEF InjectorType
<1>4. CASE WaitOver \/ GiveUp \/ Sever \/ CorruptChunk \/ NoLegacyFault \/ NextFrame
             \/ StallOver \/ Finish \/ Ping \/ ClientLeaves \/ TimePasses
  <2>1. UNCHANGED <<response, injector>>
    BY <1>4 DEF WaitOver, GiveUp, Sever, CorruptChunk, NoLegacyFault, NextFrame, StallOver,
       Finish, Ping, ClientLeaves, TimePasses
  <2>2. QED
    BY <1>1, <2>1
<1>5. CASE UNCHANGED vars
  BY <1>1, <1>5 DEF vars
<1>6. QED
  BY <1>2, <1>3, <1>4, <1>5 DEF Next, Handler

LEMMA InjectorTypeInit == Init => InjectorType
BY DEF Init, InjectorType
-----------------------------------------------------------------------------
(***************************************************************************)
(* A disconnect scheduled by after_n alone.  Its frame count has not been  *)
(* passed while it is still to fire: every call of matchAndFire that has   *)
(* gone by it found the count not reached.                                 *)
(***************************************************************************)
DisconnectsEnd == Busy => \A i \in fired : SpecAt(i).mode # "disconnect"

ScheduleOf(i) ==
  LET n == SpecAt(i).after_n
  IN /\ cause = <<"spec", i>> => frames = n
     /\ Busy => frames <= n
     /\ Busy /\ (phase \notin {"match", "stalled"} \/ stack = << >>) => frames < n
     /\ phase = "match" => \A d \in 1..Len(stack) : stack[d].next > i => frames < n

ScheduleInv ==
  /\ DisconnectsEnd
  /\ \A i \in 1..Len(cfg.specs) : OnlyAfterN(SpecAt(i)) => ScheduleOf(i)

\* The actions of the handler, by what they do to the schedule.
LEMMA HandlerMoves ==
  ASSUME StreamInv
  PROVE  /\ WaitOver \/ NoLegacyFault \/ CorruptChunk \/ Ping =>
              /\ {phase, phase'} \subseteq {"ttft", "check", "wait", "emit"}
              /\ UNCHANGED <<response, injector, cause, conn>>
         /\ GiveUp \/ Sever =>
              /\ phase \in {"ttft", "check", "wait"} /\ phase' \in {"finish", "over"}
              /\ UNCHANGED <<response, injector, sink>>
              /\ cause' \in {<<"client", 0>>, <<"chunks", 0>>}
         /\ StallOver =>
              /\ phase = "stalled" /\ phase' \in {"finish", "over"}
              /\ UNCHANGED <<response, injector, sink>>
              /\ cause' = <<"client", 0>>
<1>1. ASSUME WaitOver \/ NoLegacyFault \/ CorruptChunk
      PROVE  /\ {phase, phase'} \subseteq {"ttft", "check", "wait", "emit"}
             /\ UNCHANGED <<response, injector, cause, conn>>
  BY <1>1 DEF WaitOver, NoLegacyFault, CorruptChunk, At
<1>2. ASSUME Ping
      PROVE  /\ {phase, phase'} \subseteq {"ttft", "check", "wait", "emit"}
             /\ UNCHANGED <<response, injector, cause, conn>>
  BY <1>2 DEF Ping, Waiting, At
<1>3. ASSUME GiveUp
      PROVE  /\ phase \in {"ttft", "check", "wait"} /\ phase' \in {"finish", "over"}
             /\ UNCHANGED <<response, injector, sink>>
             /\ cause' \in {<<"client", 0>>, <<"chunks", 0>>}
  BY <1>3 DEF GiveUp, Waiting, At
<1>4. ASSUME Sever
      PROVE  /\ phase \in {"ttft", "check", "wait"} /\ phase' \in {"finish", "over"}
             /\ UNCHANGED <<response, injector, sink>>
             /\ cause' \in {<<"client", 0>>, <<"chunks", 0>>}
  BY <1>4 DEF Sever, Cut, Return, At
<1>5. ASSUME StallOver
      PROVE  /\ phase = "stalled" /\ phase' \in {"finish", "over"}
             /\ UNCHANGED <<response, injector, sink>>
             /\ cause' = <<"client", 0>>
  BY <1>5 DEF StallOver, Return
<1>6. QED
  BY <1>1, <1>2, <1>3, <1>4, <1>5

\* The actions of the injector, by what they do to the schedule.
LEMMA InjectorEnds ==
  ASSUME FireException \/ FailValidation \/ (EmitInjected /\ CutAfter(Due.event))
           \/ (EmitFrame /\ CutAfter(Now.event))
  PROVE  /\ phase' \in {"finish", "over"} /\ UNCHANGED <<response, frames, stack>>
         /\ \/ FireException /\ cause' = <<"exception", Top.next>>
            \/ FailValidation /\ cause' = <<"validation", 0>>
            \/ cause' = <<"event", 0>>
<1>1. CASE FireException
  BY <1>1 DEF FireException, Firing, Return
<1>2. CASE FailValidation
  BY <1>2 DEF FailValidation, Cut, Return, injector
<1>3. CASE EmitInjected /\ CutAfter(Due.event)
  BY <1>3 DEF EmitInjected, Cut, Return
<1>4. CASE EmitFrame /\ CutAfter(Now.event)
  BY <1>4 DEF EmitFrame, Cut, Return
<1>5. QED
  BY <1>1, <1>2, <1>3, <1>4

LEMMA EndsForGood ==
  ASSUME StreamInv, [Next]_vars, ~Busy
  PROVE  /\ ~Busy' /\ (cause' = cause \/ (cause' = <<"end", 0>> /\ Uncut /\ Finish))
         /\ UNCHANGED <<response, injector, pos>>
         /\ UNCHANGED sink \/ Finish
<1>1. CASE afterFrame
  BY <1>1, afterFrameKeeps DEF Busy
<1>2. CASE WaitOver \/ NoLegacyFault \/ CorruptChunk \/ Ping \/ GiveUp \/ Sever \/ StallOver
  BY <1>2, HandlerMoves DEF Busy
<1>3. CASE EmitFrame \/ NextFrame
  <2>1. phase \in {"emit", "match"}
    BY <1>3 DEF EmitFrame, NextFrame, At
  <2>2. QED
    BY <2>1 DEF Busy
<1>4. CASE Finish
  <2>1. /\ phase' = "over" /\ UNCHANGED <<response, injector, pos>>
        /\ cause' = IF cause[1] = "none" THEN <<"end", 0>> ELSE cause
    BY <1>4 DEF Finish
  <2>2. cause[1] = "none" => Uncut
    BY DEF StreamInv, ControlInv
  <2>3. QED
    BY <1>4, <2>1, <2>2 DEF Busy
<1>5. CASE ClientLeaves \/ TimePasses \/ UNCHANGED vars
  BY <1>5 DEF Busy, ClientLeaves, TimePasses, vars
<1>6. QED
  BY <1>1, <1>2, <1>3, <1>4, <1>5 DEF Next, Handler

LEMMA DisconnectsEndStep ==
  ASSUME StreamInv, InjectorType, DisconnectsEnd, [Next]_vars
  PROVE  DisconnectsEnd'
<1> SUFFICES ASSUME Busy', NEW i \in fired'
             PROVE  SpecAt(i)'.mode # "disconnect"
  BY DEF DisconnectsEnd
<1>1. Busy
  BY EndsForGood
<1>2. CASE UNCHANGED <<response, fired>>
  BY <1>1, <1>2 DEF DisconnectsEnd, response, SpecAt
<1>3. CASE FireStall \/ FireCorrupt \/ FireInjection
  <2>1. /\ fired' = fired \cup {Top.next} /\ UNCHANGED response
        /\ SpecAt(Top.next).mode # "disconnect"
    BY <1>3 DEF FireStall, FireCorrupt, FireInjection, Firing
  <2>2. QED
    BY <1>1, <2>1 DEF DisconnectsEnd, response, SpecAt
<1>4. CASE FireDisconnect \/ FireException
  BY <1>4 DEF FireDisconnect, FireException, Firing, Cut, Return, Busy
<1>5. CASE EmitFrame
  BY <1>2, <1>5 DEF EmitFrame
<1>6. CASE MatchDone \/ Skip \/ OpenBlock \/ FailValidation \/ EmitInjected
  BY <1>2, <1>6 DEF MatchDone, Skip, OpenBlock, FailValidation, EmitInjected, injector
<1>7. CASE WaitOver \/ NoLegacyFault \/ CorruptChunk \/ Ping \/ GiveUp \/ Sever \/ StallOver
  BY <1>2, <1>7, HandlerMoves DEF injector
<1>8. CASE NextFrame \/ Finish \/ ClientLeaves \/ TimePasses \/ UNCHANGED vars
  BY <1>2, <1>8 DEF NextFrame, Finish, ClientLeaves, TimePasses, vars, injector
<1>9. QED
  BY <1>3, <1>4, <1>5, <1>6, <1>7, <1>8 DEF Next, Handler, afterFrame

LEMMA ScheduleOfStep ==
  ASSUME StreamInv, InjectorType, DisconnectsEnd, [Next]_vars,
         NEW i \in 1..Len(cfg.specs), OnlyAfterN(SpecAt(i)), ScheduleOf(i)
  PROVE  ScheduleOf(i)'
<1> DEFINE n == SpecAt(i).after_n
<1>1. n \in Int /\ n > 0 /\ SpecAt(i).mode = "disconnect" /\ i \in Nat \ {0}
      /\ Len(cfg.specs) \in Nat
  <2>1. SpecAt(i) \in FaultSpecs /\ Len(cfg.specs) \in Nat
    BY ConfigTypes
  <2>2. SpecAt(i).after_n \in Int
    BY <2>1 DEF FaultSpecs
  <2>3. /\ SpecAt(i).mode = "disconnect" /\ SpecAt(i).after_n > 0
        /\ SpecAt(i).after_event = "" /\ SpecAt(i).after_bytes = 0 /\ SpecAt(i).after_ms = 0
    BY DEF OnlyAfterN
  <2>4. i \in Nat \ {0}
    BY <2>1
  <2>5. QED
    BY <2>1, <2>2, <2>3, <2>4
<1>16. \A e : frames >= n => matched(SpecAt(i), e)
  <2>1. /\ SpecAt(i).after_event = "" /\ SpecAt(i).after_bytes = 0 /\ SpecAt(i).after_ms = 0
    BY DEF OnlyAfterN
  <2>2. ~(SpecAt(i).after_bytes > 0) /\ ~(SpecAt(i).after_ms > 0)
    <3>1. \A x : x = 0 => ~(x > 0)
      OBVIOUS
    <3>2. QED
      BY <2>1, <3>1, Zenon
  <2>3. QED
    BY <2>1, <2>2, Zenon DEF matched, n
<1>17. \A e : matched(SpecAt(i), e) => frames >= n
  BY <1>1 DEF matched
<1>2. /\ cause = <<"spec", i>> => frames = n
      /\ Busy => frames <= n
      /\ Busy /\ (phase \notin {"match", "stalled"} \/ stack = << >>) => frames < n
      /\ phase = "match" => \A d \in 1..Len(stack) : stack[d].next > i => frames < n
  BY DEF ScheduleOf
<1>3. UNCHANGED response => SpecAt(i)' = SpecAt(i) /\ n' = n
  BY DEF response, SpecAt
<1>4. frames \in Nat /\ stack \in Seq(Activations) /\ Len(stack) \in Nat
  BY DEF InjectorType
<1>5. Busy => Uncut /\ cause # <<"spec", i>>
  BY DEF StreamInv, ControlInv, Busy, Uncut
<1> HIDE DEF n
<1>6. SUFFICES ASSUME UNCHANGED response
               PROVE  /\ cause' = <<"spec", i>> => frames' = n
                      /\ Busy' => frames' <= n
                      /\ Busy' /\ (phase' \notin {"match", "stalled"} \/ stack' = << >>)
                           => frames' < n
                      /\ phase' = "match" =>
                           \A d \in 1..Len(stack') : stack'[d].next > i => frames' < n
  <2>1. UNCHANGED response
    BY WireGrows
  <2>2. n' = n
    BY <1>3, <2>1
  <2>3. QED
    BY <1>6, <2>1, <2>2 DEF ScheduleOf, n
<1>7. CASE WaitOver \/ NoLegacyFault \/ CorruptChunk \/ Ping
  <2>1. /\ {phase, phase'} \subseteq {"ttft", "check", "wait", "emit"}
        /\ UNCHANGED <<frames, cause>>
    BY <1>7, HandlerMoves DEF injector
  <2>2. QED
    BY <1>2, <2>1 DEF Busy
<1>8. CASE GiveUp \/ Sever \/ StallOver
  BY <1>8, HandlerMoves DEF Busy
<1>9. CASE FireException \/ FailValidation \/ (EmitInjected /\ CutAfter(Due.event))
             \/ (EmitFrame /\ CutAfter(Now.event))
  BY <1>9, InjectorEnds DEF Busy
<1>10. CASE EmitFrame /\ ~CutAfter(Now.event)
  <2>1. /\ phase = "emit" /\ phase' = "match" /\ frames' = frames + 1 /\ cause' = cause
        /\ stack' = << Activation(Now.event) >>
    BY <1>10 DEF EmitFrame, At
  <2>2. Busy /\ frames < n
    BY <1>2, <2>1 DEF Busy
  <2>3. Len(stack') = 1 /\ stack'[1].next = 1 /\ stack' # << >>
    BY <2>1 DEF Activation
  <2>4. QED
    BY <1>1, <1>4, <1>5, <2>1, <2>2, <2>3
<1>11. CASE NextFrame
  BY <1>2, <1>5, <1>11 DEF NextFrame, Busy, injector
<1>12. CASE afterFrame
  <2>1. phase = "match" /\ Busy /\ stack # << >> /\ frames' = frames
    BY <1>12, afterFrameKeeps DEF Busy
  <2>2. Len(stack) \in Nat \ {0} /\ Top \in Activations /\ stack[Len(stack)] = Top
        /\ Top.next \in Nat \ {0}
    BY <2>1, TopIsTyped DEF Activations
  <2>3. CASE MatchDone
    <3>1. Popped /\ Top.next > Len(cfg.specs) /\ UNCHANGED <<phase, cause>>
      BY <2>1, <2>3, StackMoves DEF MatchDone
    <3>2. frames < n
      <4>1. Top.next > i
        BY <1>1, <2>2, <3>1
      <4>2. QED
        BY <1>2, <2>1, <2>2, <4>1
    <3>3. QED
      BY <1>1, <1>4, <1>5, <2>1, <3>1, <3>2
  <2>4. CASE Skip \/ FireCorrupt \/ FireInjection
    <3>1. PICK a : TopBecomes(a) /\ a.next = Top.next + 1
      <4> DEFINE b == [Top EXCEPT !.next = @ + 1]
                 c == [event |-> Top.event, next |-> Top.next + 1,
                       todo |-> Injected(SpecAt(Top.next))]
      <4>1. b.next = Top.next + 1 /\ c.next = Top.next + 1
        BY <2>2 DEF Activations
      <4>2. TopBecomes(b) \/ TopBecomes(c)
        BY <2>1, <2>4, StackMoves
      <4> HIDE DEF b, c
      <4>3. QED
        BY <4>1, <4>2
    <3>2. UNCHANGED <<phase, cause>>
      BY <2>4 DEF Skip, FireCorrupt, FireInjection
    <3>3. ASSUME Top.next = i
          PROVE  frames < n
      <4>1. CASE Skip
        <5>1. ~Fires
          BY <4>1 DEF Skip
        <5>2. i \notin fired
          BY <1>1, <2>1 DEF DisconnectsEnd
        <5>3. ~matched(SpecAt(i), Top.event)
          BY <3>3, <5>1, <5>2 DEF Fires
        <5>4. QED
          BY <1>1, <1>4, <1>16, <5>3
      <4>2. CASE FireCorrupt \/ FireInjection
        BY <1>1, <3>3, <4>2 DEF FireCorrupt, FireInjection, Firing
      <4>3. QED
        BY <2>4, <4>1, <4>2
    <3>4. ASSUME NEW d \in 1..Len(stack'), stack'[d].next > i
          PROVE  frames < n
      <4>1. CASE d = Len(stack)
        <5>1. Top.next >= i
          BY <1>1, <2>2, <3>1, <3>4, <4>1 DEF TopBecomes
        <5>2. QED
          BY <1>1, <1>2, <2>1, <2>2, <3>3, <5>1
      <4>2. CASE d # Len(stack)
        BY <1>2, <2>1, <2>2, <3>1, <3>4, <4>2 DEF TopBecomes
      <4>3. QED
        BY <4>1, <4>2
    <3>5. stack' # << >>
      BY <2>2, <3>1 DEF TopBecomes
    <3>6. QED
      BY <1>2, <1>5, <2>1, <3>2, <3>4, <3>5
  <2>5. CASE OpenBlock \/ (EmitInjected /\ ~CutAfter(Due.event))
    <3>1. UNCHANGED <<phase, cause>>
      BY <2>5 DEF OpenBlock, EmitInjected
    <3>2. \A d \in 1..Len(stack') : stack'[d].next > i => frames < n
      <4>1. \A t : [Top EXCEPT !.todo = t].next = Top.next
        BY <2>2 DEF Activations
      <4>2. CASE OpenBlock
        <5> DEFINE a == [Top EXCEPT !.todo = Opening(Due.offspec) \o Tail(@)]
        <5>1. TopBecomes(a) /\ a.next = Top.next
          BY <2>1, <2>2, <4>2, StackMoves DEF Activations
        <5> HIDE DEF a
        <5>2. QED
          BY <1>2, <2>1, <2>2, <5>1 DEF TopBecomes
      <4>3. CASE EmitInjected /\ ~CutAfter(Due.event)
        <5>1. PICK a, b : Pushed(a, b) /\ a.next = Top.next /\ b.next = 1
          <6>1. Activation(Due.event).next = 1
            BY DEF Activation
          <6>2. QED
            BY <2>1, <4>1, <4>3, <6>1, StackMoves
        <5>2. QED
          BY <1>1, <1>2, <2>1, <2>2, <5>1 DEF Pushed
      <4>4. QED
        BY <2>5, <4>2, <4>3
    <3>3. stack' # << >>
      <4>1. Len(stack') >= 1
        BY <2>1, <2>2, <2>5, StackMoves DEF TopBecomes, Pushed
      <4>2. QED
        BY <4>1
    <3>4. QED
      BY <1>2, <1>5, <2>1, <3>1, <3>2, <3>3
  <2>6. CASE FireDisconnect
    <3>1. phase' \in {"finish", "over"} /\ cause' = <<"spec", Top.next>>
      BY <2>6 DEF FireDisconnect, Cut, Return
    <3>2. ASSUME Top.next = i
          PROVE  frames = n
      <4>1. matched(SpecAt(i), Top.event)
        BY <2>6, <3>2 DEF FireDisconnect, Firing, Fires
      <4>2. frames >= n
        BY <1>17, <4>1
      <4>3. QED
        BY <1>1, <1>2, <1>4, <2>1, <4>2
    <3>3. QED
      BY <2>1, <3>1, <3>2 DEF Busy
  <2>7. CASE FireStall
    <3>1. phase' = "stalled" /\ UNCHANGED <<stack, cause>>
      BY <2>7 DEF FireStall
    <3>2. QED
      BY <1>2, <1>5, <2>1, <3>1
  <2>8. QED
    BY <1>9, <1>12, <2>3, <2>4, <2>5, <2>6, <2>7 DEF afterFrame
<1>13. CASE Finish
  BY <1>2, <1>13 DEF Finish, Busy, injector
<1>14. CASE ClientLeaves \/ TimePasses \/ UNCHANGED vars
  <2>1. UNCHANGED <<phase, cause, frames, stack>>
    BY <1>14 DEF ClientLeaves, TimePasses, vars, injector
  <2>2. QED
    BY <1>2, <2>1 DEF Busy
<1>15. QED
  BY <1>7, <1>8, <1>9, <1>10, <1>11, <1>12, <1>13, <1>14 DEF Next, Handler

LEMMA ScheduleStep ==
  ASSUME StreamInv, InjectorType, ScheduleInv, [Next]_vars
  PROVE  ScheduleInv'
<1>1. cfg' = cfg
  BY WireGrows DEF response
<1>2. DisconnectsEnd'
  BY DisconnectsEndStep DEF ScheduleInv
<1>3. ASSUME NEW i \in 1..Len(cfg.specs), OnlyAfterN(SpecAt(i))
      PROVE  ScheduleOf(i)'
  BY <1>3, ScheduleOfStep DEF ScheduleInv
<1>4. QED
  BY <1>1, <1>2, <1>3 DEF ScheduleInv, SpecAt

LEMMA ScheduleInit == Init => ScheduleInv
<1> SUFFICES ASSUME Init PROVE ScheduleInv
  OBVIOUS
<1>1. ASSUME NEW i \in 1..Len(cfg.specs), OnlyAfterN(SpecAt(i))
      PROVE  ScheduleOf(i)
  <2>1. SpecAt(i).after_n \in Int /\ SpecAt(i).after_n > 0
    BY <1>1, InjectorTypeInit, ConfigTypes DEF OnlyAfterN, FaultSpecs
  <2>2. frames = 0 /\ cause = <<"none", 0>> /\ phase # "match"
    BY DEF Init
  <2>3. QED
    BY <2>1, <2>2 DEF ScheduleOf
<1>2. DisconnectsEnd
  BY DEF Init, DisconnectsEnd
<1>3. QED
  BY <1>1, <1>2 DEF ScheduleInv
-----------------------------------------------------------------------------
(***************************************************************************)
(* The legacy disconnect_after_chunks.  The chunks of a response are next  *)
(* to each other and numbered from 1, on every surface.                    *)
(***************************************************************************)
Unchunked == { f \in ScriptFrames : f.chunk = 0 }

Chunked(s, n) ==
  \E a \in Nat :
    /\ a + n <= Len(s)
    /\ \A p \in 1..Len(s) : s[p].chunk = IF p \in (a + 1)..(a + n) THEN p - a ELSE 0

LEMMA ChunksJoin ==
  ASSUME NEW n \in Nat, NEW u \in Seq(Unchunked), NEW d \in Seq(ScriptFrames),
         Len(d) = n, \A i \in 1..n : d[i].chunk = i
  PROVE  u \o d \in Seq(ScriptFrames) /\ Chunked(u \o d, n)
<1>1. u \in Seq(ScriptFrames)
  BY SeqMonotonic DEF Unchunked
<1> DEFINE s == u \o d
<1>2. /\ s \in Seq(ScriptFrames) /\ Len(s) = Len(u) + n
      /\ \A p \in 1..Len(u) : s[p] = u[p]
      /\ \A i \in 1..n : s[Len(u) + i] = d[i]
      /\ Len(u) \in Nat
  BY <1>1, ConcatProperties
<1>3. \A p \in 1..Len(u) : u[p].chunk = 0
  BY ElementOfSeq DEF Unchunked
<1> HIDE DEF s
<1>4. \A p \in 1..Len(s) :
        s[p].chunk = IF p \in (Len(u) + 1)..(Len(u) + n) THEN p - Len(u) ELSE 0
  <2> SUFFICES ASSUME NEW p \in 1..Len(s), p \notin 1..Len(u)
               PROVE  p \in (Len(u) + 1)..(Len(u) + n) /\ s[p].chunk = p - Len(u)
    BY <1>2, <1>3
  <2>1. p \in (Len(u) + 1)..(Len(u) + n) /\ p - Len(u) \in 1..n /\ Len(u) + (p - Len(u)) = p
    BY <1>2
  <2>2. s[Len(u) + (p - Len(u))] = d[p - Len(u)]
    BY <1>2, <2>1
  <2>3. QED
    BY <2>1, <2>2
<1>5. Chunked(s, n)
  <2>1. Len(u) \in Nat /\ Len(u) + n <= Len(s)
    BY <1>2
  <2>2. QED
    BY <1>4, <2>1, Zenon DEF Chunked
<1>6. QED
  BY <1>2, <1>5 DEF s

LEMMA ChunksStay ==
  ASSUME NEW n \in Nat, NEW s \in Seq(ScriptFrames), Chunked(s, n), NEW u \in Seq(Unchunked)
  PROVE  s \o u \in Seq(ScriptFrames) /\ Chunked(s \o u, n)
<1>1. u \in Seq(ScriptFrames)
  BY SeqMonotonic DEF Unchunked
<1> DEFINE t == s \o u
<1>2. /\ t \in Seq(ScriptFrames) /\ Len(t) = Len(s) + Len(u)
      /\ \A p \in 1..Len(s) : t[p] = s[p]
      /\ \A i \in 1..Len(u) : t[Len(s) + i] = u[i]
      /\ Len(u) \in Nat /\ Len(s) \in Nat
  BY <1>1, ConcatProperties
<1>3. \A p \in 1..Len(u) : u[p].chunk = 0
  BY ElementOfSeq DEF Unchunked
<1>4. PICK a \in Nat :
        /\ a + n <= Len(s)
        /\ \A p \in 1..Len(s) : s[p].chunk = IF p \in (a + 1)..(a + n) THEN p - a ELSE 0
  BY DEF Chunked
<1> HIDE DEF t
<1>5. \A p \in 1..Len(t) : t[p].chunk = IF p \in (a + 1)..(a + n) THEN p - a ELSE 0
  <2> TAKE p \in 1..Len(t)
  <2>1. CASE p \in 1..Len(s)
    BY <1>2, <1>4, <2>1
  <2>2. CASE p \notin 1..Len(s)
    <3>1. p - Len(s) \in 1..Len(u) /\ Len(s) + (p - Len(s)) = p /\ p \notin (a + 1)..(a + n)
      BY <1>2, <1>4, <2>2
    <3>2. t[Len(s) + (p - Len(s))] = u[p - Len(s)]
      BY <1>2, <3>1
    <3>3. QED
      BY <1>3, <3>1, <3>2
  <2>3. QED
    BY <2>1, <2>2
<1>6. a + n <= Len(t)
  BY <1>2, <1>4
<1>7. Chunked(t, n)
  BY <1>5, <1>6, Zenon DEF Chunked
<1>8. QED
  BY <1>2, <1>7 DEF t

LEMMA ScriptIsChunked ==
  ASSUME NEW c \in Configs
  PROVE  Chunks(c) \in Nat /\ Chunked(Script(c), Chunks(c))
<1> DEFINE S == ScriptFrames
           U == Unchunked
           tb == TextBlock(c)
           n == c.deltas
<1>1. /\ c.surface \in Surfaces /\ n \in Nat
      /\ NoBlock \in Int /\ tb \in Int /\ tb + 1 \in Int /\ 0 \in Int
  BY ConfigAssumption DEF NoBlock, TextBlock
<1>2. /\ \A e \in EventNames, b \in Int : Frame(e, b) \in U
      /\ \A e \in EventNames, b \in Int : [Frame(e, b) EXCEPT !.waits = TRUE] \in U
  BY DEF Frame, ScriptFrames, Unchunked
<1>3. /\ \A s \in Seq(U) : \A t : If(t, s) \in Seq(U)
      /\ << >> \in Seq(U)
  BY EmptySeq DEF If
<1>4. ASSUME NEW e \in EventNames, NEW b \in Int
      PROVE  /\ Deltas(e, b, n) \in Seq(S) /\ Len(Deltas(e, b, n)) = n
             /\ \A i \in 1..n : Deltas(e, b, n)[i].chunk = i
  <2>1. Deltas(e, b, n) \in Seq(S)
    BY <1>1, FramesOfScripts
  <2>2. QED
    BY <1>1, <2>1 DEF Deltas
<1> HIDE DEF S, U, tb, n
<1>5. Chunked(AnthropicStream(c), n)
  <2> DEFINE pre == << Frame("message_start", NoBlock) >>
                    \o If(c.ping, << Frame("ping", NoBlock) >>)
                    \o If(c.thinking,
                          << Frame("content_block_start", 0),
                             [Frame("content_block_delta", 0) EXCEPT !.waits = TRUE],
                             Frame("content_block_delta", 0),
                             Frame("content_block_stop", 0) >>)
                    \o << Frame("content_block_start", tb) >>
             deltas == Deltas("content_block_delta", tb, n)
             stop == << Frame("content_block_stop", tb) >>
             tool == If(c.tool,
                        << Frame("content_block_start", tb + 1),
                           Frame("content_block_delta", tb + 1),
                           Frame("content_block_delta", tb + 1),
                           Frame("content_block_delta", tb + 1),
                           Frame("content_block_stop", tb + 1) >>)
             end == << Frame("message_delta", NoBlock), Frame("message_stop", NoBlock) >>
  <2>1. << Frame("message_start", NoBlock) >> \in Seq(U)
        /\ If(c.ping, << Frame("ping", NoBlock) >>) \in Seq(U)
    BY <1>1, <1>2, <1>3, Joins DEF EventNames
  <2>2. If(c.thinking,
           << Frame("content_block_start", 0),
              [Frame("content_block_delta", 0) EXCEPT !.waits = TRUE],
              Frame("content_block_delta", 0),
              Frame("content_block_stop", 0) >>) \in Seq(U)
    BY <1>1, <1>2, <1>3, Joins DEF EventNames
  <2>3. << Frame("content_block_start", tb) >> \in Seq(U) /\ stop \in Seq(U)
    BY <1>1, <1>2, Joins DEF EventNames
  <2>4. pre \in Seq(U)
    BY <2>1, <2>2, <2>3, Joins
  <2>5. tool \in Seq(U)
    BY <1>1, <1>2, <1>3, Joins DEF EventNames
  <2>6. end \in Seq(U)
    BY <1>1, <1>2, Joins DEF EventNames
  <2>7. /\ deltas \in Seq(S) /\ Len(deltas) = n
        /\ \A i \in 1..n : deltas[i].chunk = i
    BY <1>1, <1>4 DEF EventNames
  <2>8. AnthropicStream(c) = pre \o deltas \o stop \o tool \o end
    BY Zenon DEF AnthropicStream, tb, n
  <2> HIDE DEF pre, deltas, stop, tool, end
  <2>9. pre \o deltas \in Seq(S) /\ Chunked(pre \o deltas, n)
    BY <1>1, <2>4, <2>7, ChunksJoin DEF S, U
  <2>10. pre \o deltas \o stop \in Seq(S) /\ Chunked(pre \o deltas \o stop, n)
    BY <1>1, <2>3, <2>9, ChunksStay DEF S, U
  <2>11. pre \o deltas \o stop \o tool \in Seq(S) /\ Chunked(pre \o deltas \o stop \o tool, n)
    BY <1>1, <2>5, <2>10, ChunksStay DEF S, U
  <2>12. Chunked(pre \o deltas \o stop \o tool \o end, n)
    BY <1>1, <2>6, <2>11, ChunksStay DEF S, U
  <2>13. QED
    BY <2>8, <2>12
<1>6. Chunked(OpenAIChatStream(c), n)
  <2> DEFINE one == << Frame("", NoBlock) >>
             deltas == Deltas("", NoBlock, n)
             tool == If(c.tool, << Frame("", NoBlock) >>)
             usage == If(c.usage, << Frame("", NoBlock) >>)
  <2>1. one \in Seq(U) /\ tool \in Seq(U) /\ usage \in Seq(U)
    BY <1>1, <1>2, <1>3, Joins DEF EventNames
  <2>2. /\ deltas \in Seq(S) /\ Len(deltas) = n
        /\ \A i \in 1..n : deltas[i].chunk = i
    BY <1>1, <1>4 DEF EventNames
  <2>3. OpenAIChatStream(c) = one \o deltas \o tool \o one \o usage
    BY Zenon DEF OpenAIChatStream, n
  <2> HIDE DEF one, deltas, tool, usage
  <2>4. one \o deltas \in Seq(S) /\ Chunked(one \o deltas, n)
    BY <1>1, <2>1, <2>2, ChunksJoin DEF S, U
  <2>5. one \o deltas \o tool \in Seq(S) /\ Chunked(one \o deltas \o tool, n)
    BY <1>1, <2>1, <2>4, ChunksStay DEF S, U
  <2>6. one \o deltas \o tool \o one \in Seq(S) /\ Chunked(one \o deltas \o tool \o one, n)
    BY <1>1, <2>1, <2>5, ChunksStay DEF S, U
  <2>7. Chunked(one \o deltas \o tool \o one \o usage, n)
    BY <1>1, <2>1, <2>6, ChunksStay DEF S, U
  <2>8. QED
    BY <2>3, <2>7
<1>7. Chunked(CompletionsStream(c), 2)
  <2>1. \A i \in 1..2 : CompletionsStream(c)[i].chunk = i
    BY DEF CompletionsStream, Frame
  <2>2. CompletionsStream(c) \in [1..2 -> { [Frame("", NoBlock) EXCEPT !.chunk = i] : i \in 1..2 }]
    BY DEF CompletionsStream
  <2>3. Len(CompletionsStream(c)) = 2
    BY <2>2, PairsAreSequences, Zenon
  <2>4. \A p \in 1..2 : CompletionsStream(c)[p].chunk
                          = IF p \in (0 + 1)..(0 + 2) THEN p - 0 ELSE 0
    BY <2>1
  <2>5. 0 + 2 <= 2 /\ 0 \in Nat
    OBVIOUS
  <2>6. QED
    BY <2>3, <2>4, <2>5 DEF Chunked
<1>8. Chunked(ResponsesStream(c), n)
  <2> DEFINE pre == << Frame("response.created", NoBlock),
                       Frame("response.output_item.added", NoBlock),
                       Frame("response.content_part.added", NoBlock) >>
             deltas == Deltas("response.output_text.delta", NoBlock, n)
             end == << Frame("response.output_text.done", NoBlock),
                       Frame("response.content_part.done", NoBlock),
                       Frame("response.output_item.done", NoBlock),
                       Frame("response.completed", NoBlock) >>
  <2>1. pre \in Seq(U)
    BY <1>1, <1>2, Joins DEF EventNames
  <2>2. end \in Seq(U)
    BY <1>1, <1>2, Joins DEF EventNames
  <2>3. /\ deltas \in Seq(S) /\ Len(deltas) = n
        /\ \A i \in 1..n : deltas[i].chunk = i
    BY <1>1, <1>4 DEF EventNames
  <2>4. ResponsesStream(c) = pre \o deltas \o end
    BY Zenon DEF ResponsesStream, n
  <2> HIDE DEF pre, deltas, end
  <2>5. pre \o deltas \in Seq(S) /\ Chunked(pre \o deltas, n)
    BY <1>1, <2>1, <2>3, ChunksJoin DEF S, U
  <2>6. Chunked(pre \o deltas \o end, n)
    BY <1>1, <2>2, <2>5, ChunksStay DEF S, U
  <2>7. QED
    BY <2>4, <2>6
<1>9. Chunked(BedrockConverseStream(c), n)
  <2> DEFINE pre == << Frame("messageStart", NoBlock) >>
             deltas == Deltas("contentBlockDelta", 0, n)
             end == << Frame("contentBlockStop", 0), Frame("messageStop", NoBlock),
                       Frame("metadata", NoBlock) >>
  <2>1. pre \in Seq(U)
    BY <1>1, <1>2, Joins DEF EventNames
  <2>2. end \in Seq(U)
    BY <1>1, <1>2, Joins DEF EventNames
  <2>3. /\ deltas \in Seq(S) /\ Len(deltas) = n
        /\ \A i \in 1..n : deltas[i].chunk = i
    BY <1>1, <1>4 DEF EventNames
  <2>4. BedrockConverseStream(c) = pre \o deltas \o end
    BY Zenon DEF BedrockConverseStream, n
  <2> HIDE DEF pre, deltas, end
  <2>5. pre \o deltas \in Seq(S) /\ Chunked(pre \o deltas, n)
    BY <1>1, <2>1, <2>3, ChunksJoin DEF S, U
  <2>6. Chunked(pre \o deltas \o end, n)
    BY <1>1, <2>2, <2>5, ChunksStay DEF S, U
  <2>7. QED
    BY <2>4, <2>6
<1>10. QED
  BY <1>1, <1>5, <1>6, <1>7, <1>8, <1>9 DEF Script, Surfaces, Chunks, n

SeversAt(p) ==
  /\ script[p].chunk > 0 /\ cfg.disconnect_after_chunks > 0
  /\ script[p].chunk - 1 >= cfg.disconnect_after_chunks

\* The last frame that has passed the legacy check.
Checked == IF phase \in {"wait", "emit", "match", "stalled"} THEN pos ELSE pos - 1

ChunkInv ==
  /\ Uncut => \A p \in 1..Len(script) : p <= Checked => ~SeversAt(p)
  /\ cause = <<"chunks", 0>> => ChunksOut = cfg.disconnect_after_chunks
  /\ cause = <<"end", 0>> => \A p \in 1..Len(script) : ~SeversAt(p)

\* The chunks before a chunk are those with a smaller number.
LEMMA ChunksBefore ==
  ASSUME InjectorType, pos \in 1..Len(script), Now.chunk > 0
  PROVE  /\ Now.chunk \in Nat /\ ChunksOut = Now.chunk - 1
         /\ Now.chunk > 1 =>
              pos - 1 \in 1..Len(script) /\ script[pos - 1].chunk = Now.chunk - 1
<1> DEFINE n == Chunks(cfg)
<1>1. n \in Nat /\ Chunked(script, n)
  BY ScriptIsChunked DEF InjectorType
<1>2. Len(script) \in Nat
  BY ScriptIsFinite, LenProperties DEF InjectorType
<1> HIDE DEF n
<1>3. PICK a \in Nat :
        /\ a + n <= Len(script)
        /\ \A p \in 1..Len(script) :
             script[p].chunk = IF p \in (a + 1)..(a + n) THEN p - a ELSE 0
  BY <1>1 DEF Chunked
<1>4. pos \in (a + 1)..(a + n) /\ Now.chunk = pos - a
  BY <1>3 DEF Now
<1>5. { p \in 1..(pos - 1) : script[p].chunk > 0 } = (a + 1)..(pos - 1)
  <2>1. \A p \in 1..(pos - 1) : p \in 1..Len(script) /\ (script[p].chunk > 0 <=> p >= a + 1)
    BY <1>1, <1>2, <1>3, <1>4
  <2>2. \A p \in (a + 1)..(pos - 1) : p \in 1..(pos - 1) /\ p >= a + 1
    BY <1>3
  <2>3. \A p \in 1..(pos - 1) : p >= a + 1 => p \in (a + 1)..(pos - 1)
    BY <1>3
  <2>4. QED
    BY <2>1, <2>2, <2>3
<1>6. Cardinality((a + 1)..(pos - 1)) = pos - 1 - a
  <2>1. a + 1 \in Int /\ pos - 1 \in Int
    BY <1>3
  <2>2. Cardinality((a + 1)..(pos - 1))
          = IF a + 1 > pos - 1 THEN 0 ELSE (pos - 1) - (a + 1) + 1
    BY <2>1, FS_Interval
  <2>3. QED
    BY <1>2, <1>3, <1>4, <2>2
<1>7. ChunksOut = Now.chunk - 1
  <2>1. ChunksOut = Cardinality((a + 1)..(pos - 1))
    BY <1>5 DEF ChunksOut
  <2>2. QED
    BY <1>1, <1>3, <1>4, <1>6, <2>1
<1>8. ASSUME Now.chunk > 1
      PROVE  pos - 1 \in 1..Len(script) /\ script[pos - 1].chunk = Now.chunk - 1
  <2>1. pos - 1 \in 1..Len(script) /\ pos - 1 \in (a + 1)..(a + n)
    BY <1>1, <1>2, <1>3, <1>4, <1>8
  <2>2. QED
    BY <1>3, <1>4, <2>1
<1>9. QED
  BY <1>3, <1>4, <1>7, <1>8

LEMMA SeverIsExact ==
  ASSUME StreamInv, InjectorType, ChunkInv, Sever
  PROVE  ChunksOut = cfg.disconnect_after_chunks
<1> DEFINE d == cfg.disconnect_after_chunks
<1>1. /\ phase = "check" /\ pos \in 1..Len(script) /\ Uncut
      /\ Now.chunk > 0 /\ d > 0 /\ Now.chunk - 1 >= d /\ d \in Int
  BY NowIsTyped, ConfigTypes DEF Sever, At, SeversHere, StreamInv, ControlInv
<1>2. /\ Now.chunk \in Nat /\ ChunksOut = Now.chunk - 1
      /\ Now.chunk > 1 => pos - 1 \in 1..Len(script) /\ script[pos - 1].chunk = Now.chunk - 1
  BY <1>1, ChunksBefore
<1>3. pos - 1 \in 1..Len(script) /\ script[pos - 1].chunk = Now.chunk - 1
  BY <1>1, <1>2
<1>4. ~SeversAt(pos - 1)
  <2>1. pos - 1 <= Checked
    BY <1>1 DEF Checked
  <2>2. QED
    BY <1>1, <1>3, <2>1 DEF ChunkInv
<1>5. Now.chunk - 1 - 1 < d
  BY <1>1, <1>2, <1>3, <1>4 DEF SeversAt
<1>6. QED
  BY <1>1, <1>2, <1>5

\* Only the legacy check takes the handler to a frame further.
LEMMA CheckedMoves ==
  ASSUME StreamInv, [Next]_vars, Busy, Busy'
  PROVE  NoLegacyFault \/ CorruptChunk \/ Checked' = Checked
<1>1. pos \in Nat \ {0}
  BY DEF StreamInv, ControlInv
<1>2. CASE WaitOver \/ Ping
  BY <1>2 DEF WaitOver, Ping, Checked, At
<1>3. CASE EmitFrame
  <2>1. phase = "emit" /\ phase' \in {"match", "finish", "over"} /\ pos' = pos
    BY <1>3 DEF EmitFrame, At, Cut, Return
  <2>2. QED
    BY <2>1 DEF Checked, Busy
<1>4. CASE NextFrame
  <2>1. phase = "match" /\ phase' \in {"finish", "check"} /\ pos' = pos + 1
    BY <1>4 DEF NextFrame
  <2>2. QED
    BY <1>1, <2>1 DEF Checked
<1>5. CASE afterFrame
  <2>1. phase = "match" /\ pos' = pos
    BY <1>5, afterFrameKeeps
  <2>2. phase' \in {"match", "stalled"}
    <3>1. CASE MatchDone \/ Skip \/ FireCorrupt \/ FireInjection \/ OpenBlock \/ FireStall
      BY <2>1, <3>1 DEF MatchDone, Skip, FireCorrupt, FireInjection, OpenBlock, FireStall
    <3>2. CASE FireDisconnect
      BY <3>2 DEF FireDisconnect, Cut, Return, Busy
    <3>3. CASE FireException \/ FailValidation \/ (EmitInjected /\ CutAfter(Due.event))
      BY <3>3, InjectorEnds DEF Busy
    <3>4. CASE EmitInjected /\ ~CutAfter(Due.event)
      BY <2>1, <3>4 DEF EmitInjected
    <3>5. QED
      BY <1>5, <3>1, <3>2, <3>3, <3>4 DEF afterFrame
  <2>3. QED
    BY <2>1, <2>2 DEF Checked
<1>6. CASE ClientLeaves \/ TimePasses \/ UNCHANGED vars
  BY <1>6 DEF ClientLeaves, TimePasses, vars, Checked
<1>7. CASE GiveUp \/ Sever \/ StallOver
  BY <1>7, HandlerMoves DEF Busy
<1>8. CASE Finish
  BY <1>8 DEF Finish, Busy
<1>9. QED
  BY <1>2, <1>3, <1>4, <1>5, <1>6, <1>7, <1>8 DEF Next, Handler

LEMMA ChunkStep ==
  ASSUME StreamInv, InjectorType, ChunkInv, [Next]_vars
  PROVE  ChunkInv'
<1> DEFINE Clear(q) == \A p \in 1..Len(script) : p <= q => ~SeversAt(p)
           d == cfg.disconnect_after_chunks
<1>1. UNCHANGED response /\ pos \in Nat \ {0} /\ Len(script) \in Nat
  BY WireGrows DEF StreamInv, ControlInv
<1>2. \A p : SeversAt(p)' <=> SeversAt(p)
  BY <1>1 DEF SeversAt, response
<1>3. /\ Uncut => Clear(Checked)
      /\ cause = <<"chunks", 0>> => ChunksOut = d
      /\ cause = <<"end", 0>> => Clear(Len(script))
  BY <1>1 DEF ChunkInv
<1>4. pos' = pos => ChunksOut' = ChunksOut
  BY <1>1 DEF ChunksOut, response
<1> HIDE DEF Clear
<1>5. SUFFICES /\ cause' = <<"none", 0>> => Clear(Checked')
               /\ cause' = <<"chunks", 0>> => ChunksOut' = d
               /\ cause' = <<"end", 0>> => Clear(Len(script))
  <2>1. d' = d /\ Len(script') = Len(script)
    BY <1>1 DEF response
  <2>2. QED
    BY <1>1, <1>2, <1>5, <2>1 DEF ChunkInv, Clear, Uncut
<1>6. CASE ~Busy
  <2>1. /\ pos' = pos /\ Checked = pos - 1 /\ Checked' = pos - 1
        /\ cause' = cause \/ (cause' = <<"end", 0>> /\ Uncut /\ Finish)
    BY <1>6, EndsForGood DEF Checked, Busy
  <2>2. ASSUME Uncut, Finish
        PROVE  Clear(Len(script))
    <3>1. pos = Len(script) + 1
      BY <2>2 DEF Finish, StreamInv, ControlInv
    <3>2. Checked = Len(script)
      BY <1>1, <2>1, <3>1
    <3>3. QED
      BY <1>3, <2>2, <3>2
  <2>3. QED
    BY <1>3, <1>4, <2>1, <2>2 DEF Uncut
<1>7. CASE Busy /\ Busy'
  <2>1. Uncut /\ cause' = <<"none", 0>>
    <3>1. Uncut'
      BY <1>7, StreamStep DEF StreamInv, ControlInv, Busy
    <3>2. QED
      BY <1>7, <3>1 DEF StreamInv, ControlInv, Busy, Uncut
  <2>2. CASE NoLegacyFault \/ CorruptChunk
    <3>1. /\ phase = "check" /\ phase' = "wait" /\ pos' = pos /\ ~SeversHere
          /\ pos \in 1..Len(script)
      BY <2>2, <1>1 DEF NoLegacyFault, CorruptChunk, At
    <3>2. ~SeversAt(pos) /\ Clear(pos - 1)
      BY <1>3, <2>1, <3>1 DEF SeversAt, SeversHere, Now, Checked
    <3>3. Clear(pos)
      BY <1>1, <3>2 DEF Clear
    <3>4. QED
      BY <2>1, <3>1, <3>3 DEF Checked
  <2>3. CASE Checked' = Checked
    BY <1>3, <2>1, <2>3
  <2>4. QED
    BY <1>7, <2>2, <2>3, CheckedMoves
<1>8. CASE Busy /\ ~Busy'
  <2>1. CASE Sever
    <3>1. ChunksOut = d
      BY <2>1, SeverIsExact
    <3>2. pos' = pos /\ cause' = <<"chunks", 0>>
      BY <2>1 DEF Sever, Cut, Return
    <3>3. QED
      BY <1>4, <3>1, <3>2
  <2>2. CASE GiveUp \/ StallOver
    BY <2>2 DEF GiveUp, StallOver, Return
  <2>3. CASE FireDisconnect
    BY <2>3 DEF FireDisconnect, Cut, Return
  <2>4. CASE FireException \/ FailValidation \/ (EmitInjected /\ CutAfter(Due.event))
               \/ (EmitFrame /\ CutAfter(Now.event))
    BY <2>4, InjectorEnds
  <2>5. CASE NextFrame
    <3>1. /\ pos' = pos + 1 /\ cause' = cause /\ Uncut /\ phase = "match"
          /\ phase' \in {"finish", "check"}
      BY <1>8, <2>5 DEF NextFrame, Busy, StreamInv, ControlInv
    <3>2. Checked' = Checked
      BY <1>1, <3>1 DEF Checked
    <3>3. QED
      BY <1>3, <3>1, <3>2 DEF Uncut
  <2>6. CASE WaitOver \/ NoLegacyFault \/ CorruptChunk \/ Ping
    BY <1>8, <2>6, HandlerMoves DEF Busy
  <2>7. CASE (EmitFrame /\ ~CutAfter(Now.event))
    BY <1>8, <2>7 DEF EmitFrame, Busy
  <2>8. CASE MatchDone \/ Skip \/ FireCorrupt \/ FireInjection \/ OpenBlock \/ FireStall
               \/ (EmitInjected /\ ~CutAfter(Due.event))
    BY <1>8, <2>8 DEF MatchDone, Skip, FireCorrupt, FireInjection, OpenBlock, FireStall,
       EmitInjected, Busy
  <2>9. CASE Finish \/ ClientLeaves \/ TimePasses \/ UNCHANGED vars
    BY <1>8, <2>9 DEF Finish, ClientLeaves, TimePasses, vars, Busy
  <2>10. QED
    BY <2>1, <2>2, <2>3, <2>4, <2>5, <2>6, <2>7, <2>8, <2>9 DEF Next, Handler, afterFrame
<1>9. QED
  BY <1>6, <1>7, <1>8

LEMMA ChunkInit == Init => ChunkInv
<1> SUFFICES ASSUME Init PROVE ChunkInv
  OBVIOUS
<1>1. Checked = 0 /\ cause = <<"none", 0>>
  BY DEF Init, Checked
<1>2. QED
  BY <1>1 DEF ChunkInv
-----------------------------------------------------------------------------
(***************************************************************************)
(* What has been sent, frame by frame: a step adds a frame behind all      *)
(* others, or, for the corrupt chunk of the SSE surfaces, before the       *)
(* coalesced ones.                                                         *)
(***************************************************************************)
Adds(f) ==
  /\ Len(Sent') = Len(Sent) + 1 /\ Sent'[Len(Sent) + 1] = f
  /\ \A k \in 1..Len(Sent) : Sent'[k] = Sent[k]

Inserts(f) ==
  \E w \in 0..Len(Sent) :
    /\ Len(Sent') = Len(Sent) + 1 /\ Sent'[w + 1] = f
    /\ \A k \in 1..w : Sent'[k] = Sent[k]
    /\ \A k \in (w + 1)..Len(Sent) : Sent'[k + 1] = Sent[k]

Keeps ==
  Len(Sent') <= Len(Sent) /\ \A k \in 1..Len(Sent') : Sent'[k] = Sent[k]

Neutral(f) == f.event \in Unnamed /\ f.block = NoBlock /\ f.pos = 0

LEMMA SentIsFinite ==
  ASSUME Sequences
  PROVE  /\ Len(Sent) \in Nat
         /\ \A k \in 1..Len(Sent) : Sent[k].pos \in Nat
         /\ { Sent[k].pos : k \in 1..Len(Sent) } \ {0} = Written
<1>1. PICK S : wire \in Seq(S) /\ pending \in Seq(S)
  BY DEF Sequences
<1>2. /\ Sent \in Seq(S) /\ Numbered(Sent)
      /\ Carried(Sent) = Carried(wire) \cup Carried(pending)
  BY <1>1, ConcatCarries DEF Sequences, Sent
<1>3. Len(Sent) \in Nat
  BY <1>2, LenProperties
<1>4. QED
  BY <1>2, <1>3 DEF Numbered, Carried, Written

LEMMA ConcatParts ==
  ASSUME NEW S, NEW s \in Seq(S), NEW t \in Seq(S)
  PROVE  /\ s \o t \in Seq(S) /\ Len(s \o t) = Len(s) + Len(t)
         /\ \A k \in 1..Len(s) : (s \o t)[k] = s[k]
         /\ \A k \in 1..Len(t) : (s \o t)[Len(s) + k] = t[k]
BY ConcatProperties

LEMMA ConcatAdds ==
  ASSUME NEW S, NEW s \in Seq(S), NEW t \in Seq(S), NEW f
  PROVE  /\ Len(s \o Append(t, f)) = Len(s \o t) + 1
         /\ (s \o Append(t, f))[Len(s \o t) + 1] = f
         /\ \A k \in 1..Len(s \o t) : (s \o Append(t, f))[k] = (s \o t)[k]
<1> DEFINE Z == S \cup {f}
           u == Append(t, f)
<1>1. s \in Seq(Z) /\ t \in Seq(Z) /\ f \in Z
  BY SeqMonotonic
<1> HIDE DEF Z
<1>2. /\ u \in Seq(Z) /\ Len(u) = Len(t) + 1
      /\ \A i \in 1..Len(t) : u[i] = t[i]
      /\ u[Len(t) + 1] = f
  BY <1>1, AppendProperties
<1> HIDE DEF u
<1>9. /\ Len(s \o u) = Len(s) + Len(u)
      /\ \A k \in 1..Len(s) : (s \o u)[k] = s[k]
      /\ \A k \in 1..Len(u) : (s \o u)[Len(s) + k] = u[k]
  <2>1. ASSUME NEW v \in Seq(Z)
        PROVE  /\ Len(s \o v) = Len(s) + Len(v)
               /\ \A k \in 1..Len(s) : (s \o v)[k] = s[k]
               /\ \A k \in 1..Len(v) : (s \o v)[Len(s) + k] = v[k]
    BY <1>1, ConcatParts
  <2>2. QED
    BY <1>2, <2>1
<1>10. Len(s) \in Nat /\ Len(t) \in Nat
  BY LenProperties
<1>3. /\ Len(s \o u) = Len(s) + Len(t) + 1
      /\ \A k \in 1..Len(s) : (s \o u)[k] = s[k]
      /\ \A k \in 1..Len(u) : (s \o u)[Len(s) + k] = u[k]
      /\ Len(s) \in Nat /\ Len(t) \in Nat
  BY <1>2, <1>9, <1>10
<1>4. /\ Len(s \o t) = Len(s) + Len(t)
      /\ \A k \in 1..Len(s) : (s \o t)[k] = s[k]
      /\ \A k \in 1..Len(t) : (s \o t)[Len(s) + k] = t[k]
  BY ConcatProperties
<1>5. (s \o u)[Len(s) + (Len(t) + 1)] = f
  <2>1. Len(t) + 1 \in 1..Len(u)
    BY <1>2, <1>3
  <2>2. QED
    BY <1>2, <1>3, <2>1
<1>6. ASSUME NEW k \in 1..(Len(s) + Len(t))
      PROVE  (s \o u)[k] = (s \o t)[k]
  <2>1. CASE k \in 1..Len(s)
    BY <1>3, <1>4, <2>1
  <2>2. CASE k \notin 1..Len(s)
    <3> DEFINE j == k - Len(s)
    <3>1. j \in 1..Len(t) /\ j \in 1..Len(u) /\ Len(s) + j = k
      BY <1>2, <1>3, <2>2
    <3> HIDE DEF j
    <3>2. (s \o u)[Len(s) + j] = t[j] /\ (s \o t)[Len(s) + j] = t[j]
      BY <1>2, <1>3, <1>4, <3>1
    <3>3. QED
      BY <3>1, <3>2
  <2>3. QED
    BY <2>1, <2>2
<1>7. Len(s) + (Len(t) + 1) = Len(s \o t) + 1
  BY <1>3, <1>4
<1>8. QED
  BY <1>3, <1>4, <1>5, <1>6, <1>7 DEF u

LEMMA WriteAdds ==
  ASSUME Sequences, NEW f, Write(f)
  PROVE  Adds(f)
<1>1. PICK S : wire \in Seq(S) /\ pending \in Seq(S)
  BY DEF Sequences
<1>2. Sent' = wire \o Append(pending, f)
  <2>1. CASE wire' = wire /\ pending' = Append(pending, f)
    BY <2>1 DEF Sent
  <2>2. CASE wire' = wire \o Append(pending, f) /\ pending' = << >>
    <3>1. Append(pending, f) \in Seq(S \cup {f}) /\ wire \in Seq(S \cup {f})
      BY <1>1, AppendProperties, SeqMonotonic
    <3>2. wire' \in Seq(S \cup {f})
      BY <2>2, <3>1, ConcatProperties
    <3>3. wire' \o << >> = wire'
      BY <3>2, ConcatEmptySeq
    <3>4. QED
      BY <2>2, <3>3 DEF Sent
  <2>3. QED
    BY <2>1, <2>2 DEF Write
<1>3. QED
  BY <1>1, <1>2, ConcatAdds DEF Adds, Sent

LEMMA PastTheBufferInserts ==
  ASSUME Sequences, NEW f, wire' = Append(wire, f), UNCHANGED pending
  PROVE  Inserts(f)
<1>1. PICK S0 : wire \in Seq(S0) /\ pending \in Seq(S0)
  BY DEF Sequences
<1> DEFINE S == S0 \cup {f}
           w == Len(wire)
<1>2. wire \in Seq(S) /\ pending \in Seq(S) /\ f \in S
  BY <1>1, SeqMonotonic
<1> HIDE DEF S
<1>3. /\ wire' \in Seq(S) /\ Len(wire') = w + 1
      /\ \A k \in 1..w : wire'[k] = wire[k]
      /\ wire'[w + 1] = f
      /\ w \in Nat
  BY <1>2, AppendProperties
<1>4. /\ Len(Sent) = w + Len(pending)
      /\ \A k \in 1..w : Sent[k] = wire[k]
      /\ \A k \in 1..Len(pending) : Sent[w + k] = pending[k]
      /\ Len(pending) \in Nat
  BY <1>2, ConcatProperties DEF Sent
<1>5. /\ Len(Sent') = w + 1 + Len(pending)
      /\ \A k \in 1..(w + 1) : Sent'[k] = wire'[k]
      /\ \A k \in 1..Len(pending) : Sent'[w + 1 + k] = pending[k]
  <2>1. Sent' = wire' \o pending
    BY DEF Sent
  <2> DEFINE t == wire'
  <2>2. t \in Seq(S) /\ Len(t) = w + 1
    BY <1>3
  <2> HIDE DEF t, w
  <2>3. /\ Len(t \o pending) = Len(t) + Len(pending)
        /\ \A k \in 1..Len(t) : (t \o pending)[k] = t[k]
        /\ \A k \in 1..Len(pending) : (t \o pending)[Len(t) + k] = pending[k]
    <3>1. ASSUME NEW v \in Seq(S)
          PROVE  /\ Len(v \o pending) = Len(v) + Len(pending)
                 /\ \A k \in 1..Len(v) : (v \o pending)[k] = v[k]
                 /\ \A k \in 1..Len(pending) : (v \o pending)[Len(v) + k] = pending[k]
      BY <1>2, ConcatParts
    <3>2. QED
      BY <2>2, <3>1
  <2>4. QED
    BY <2>1, <2>2, <2>3 DEF t
<1> HIDE DEF w
<1>6. w \in 0..Len(Sent) /\ Len(Sent') = Len(Sent) + 1
  BY <1>3, <1>4, <1>5
<1>7. Sent'[w + 1] = f
  BY <1>3, <1>5
<1>8. \A k \in 1..w : Sent'[k] = Sent[k]
  BY <1>3, <1>4, <1>5
<1>9. ASSUME NEW k \in (w + 1)..Len(Sent)
      PROVE  Sent'[k + 1] = Sent[k]
  <2> DEFINE j == k - w
  <2>1. j \in 1..Len(pending) /\ w + j = k /\ w + 1 + j = k + 1
    BY <1>3, <1>4
  <2> HIDE DEF j
  <2>2. Sent[w + j] = pending[j] /\ Sent'[w + 1 + j] = pending[j]
    BY <1>4, <1>5, <2>1
  <2>3. QED
    BY <2>1, <2>2
<1>10. QED
  BY <1>6, <1>7, <1>8, <1>9 DEF Inserts

\* At the end only [DONE] is added, to a stream nothing has cut.
LEMMA FinishSends ==
  ASSUME StreamInv, Finish
  PROVE  Keeps \/ (Adds(OnWire("[DONE]", NoBlock, Total)) /\ EndsWithDone(cfg) /\ Uncut)
<1> DEFINE done == OnWire("[DONE]", NoBlock, Total)
<1>1. PICK S : wire \in Seq(S) /\ pending \in Seq(S)
  BY DEF StreamInv, Sequences
<1>2. phase = "finish" /\ pending' = << >>
      /\ wire' = IF conn = "open" THEN wire \o (pending \o If(EndsWithDone(cfg), << done >>))
                 ELSE wire
  BY DEF Finish
<1> HIDE DEF done
<1>3. Sent \in Seq(S) /\ Len(Sent) = Len(wire) + Len(pending)
      /\ Len(wire) \in Nat /\ Len(pending) \in Nat
      /\ \A k \in 1..Len(wire) : Sent[k] = wire[k]
  BY <1>1, ConcatProperties DEF Sent
<1>4. CASE conn # "open"
  <2>1. Sent' = wire
    BY <1>1, <1>2, <1>4, ConcatEmptySeq DEF Sent
  <2>2. QED
    BY <1>3, <2>1 DEF Keeps
<1>5. CASE conn = "open" /\ ~EndsWithDone(cfg)
  <2>1. pending \o << >> = pending
    BY <1>1, ConcatEmptySeq
  <2>2. wire' = Sent
    BY <1>2, <1>5, <2>1 DEF If, Sent
  <2>3. Sent' = Sent
    BY <1>2, <1>3, <2>2, ConcatEmptySeq DEF Sent
  <2>4. QED
    BY <1>3, <2>3 DEF Keeps
<1>6. CASE conn = "open" /\ EndsWithDone(cfg)
  <2>1. Uncut
    BY <1>2, <1>6 DEF StreamInv, ControlInv, EndsWithDone
  <2>2. pending \o << done >> = Append(pending, done)
    <3>1. pending \in Seq(S \cup {done}) /\ done \in S \cup {done}
      BY <1>1, SeqMonotonic
    <3>2. QED
      BY <3>1, AppendIsConcat
  <2>3. wire' = wire \o Append(pending, done)
    BY <1>2, <1>6, <2>2 DEF If
  <2>4. Sent' = wire \o Append(pending, done)
    <3>1. wire \o Append(pending, done) \in Seq(S \cup {done})
      <4>1. wire \in Seq(S \cup {done}) /\ Append(pending, done) \in Seq(S \cup {done})
        BY <1>1, SeqMonotonic, AppendProperties
      <4>2. QED
        BY <4>1, ConcatProperties
    <3>2. QED
      BY <1>2, <2>3, <3>1, ConcatEmptySeq DEF Sent
  <2>5. Adds(done)
    BY <1>1, <2>4, ConcatAdds DEF Adds, Sent
  <2>6. QED
    BY <1>6, <2>1, <2>5 DEF done
<1>7. QED
  BY <1>4, <1>5, <1>6

\* What a step sends while the response goes on.
LEMMA SentMoves ==
  ASSUME StreamInv, [Next]_vars, Busy
  PROVE  \/ UNCHANGED sink
         \/ \E f : Neutral(f) /\ Adds(f)
         \/ EmitFrame /\ Adds(OnWire(Now.event, Now.block, pos))
         \/ EmitInjected /\ Adds(OnWire(Due.event, Due.block, 0))
         \/ CorruptChunk /\ Inserts(Corrupt)
<1> DEFINE ping == OnWire(": ping", NoBlock, 0)
           exception == OnWire("exception", NoBlock, 0)
<1>1. Sequences
  BY DEF StreamInv
<1>2. Neutral(ping) /\ Neutral(exception) /\ Neutral(Corrupt)
  BY DEF Neutral, OnWire, Corrupt, Unnamed
<1> HIDE DEF ping, exception
<1>3. CASE Ping
  <2>1. Write(ping)
    BY <1>3 DEF Ping, ping
  <2>2. QED
    BY <1>1, <1>2, <2>1, WriteAdds
<1>4. CASE CorruptChunk
  <2>1. \/ wire' = Append(wire, Corrupt) /\ UNCHANGED pending
        \/ Write(Corrupt)
    BY <1>4 DEF CorruptChunk
  <2>2. QED
    BY <1>1, <1>2, <1>4, <2>1, WriteAdds, PastTheBufferInserts
<1>5. CASE EmitFrame
  <2>1. Write(OnWire(Now.event, Now.block, pos))
    BY <1>5 DEF EmitFrame
  <2>2. QED
    BY <1>1, <1>5, <2>1, WriteAdds
<1>6. CASE EmitInjected
  <2>1. Write(OnWire(Due.event, Due.block, 0))
    BY <1>6 DEF EmitInjected
  <2>2. QED
    BY <1>1, <1>6, <2>1, WriteAdds
<1>7. CASE FireCorrupt
  <2>1. Write(Corrupt)
    BY <1>7 DEF FireCorrupt
  <2>2. QED
    BY <1>1, <1>2, <2>1, WriteAdds
<1>8. CASE FireException
  <2>1. Write(exception)
    BY <1>8 DEF FireException, exception
  <2>2. QED
    BY <1>1, <1>2, <2>1, WriteAdds
<1>9. CASE WaitOver \/ GiveUp \/ Sever \/ NoLegacyFault \/ NextFrame \/ StallOver
  BY <1>9 DEF WaitOver, GiveUp, Sever, NoLegacyFault, NextFrame, StallOver
<1>10. CASE MatchDone \/ Skip \/ FireDisconnect \/ FireStall \/ FireInjection \/ OpenBlock
              \/ FailValidation
  BY <1>10 DEF MatchDone, Skip, FireDisconnect, FireStall, FireInjection, OpenBlock,
     FailValidation
<1>11. CASE Finish
  BY <1>11 DEF Finish, Busy
<1>12. CASE ClientLeaves \/ TimePasses \/ UNCHANGED vars
  BY <1>12 DEF ClientLeaves, TimePasses, vars
<1>13. QED
  BY <1>3, <1>4, <1>5, <1>6, <1>7, <1>8, <1>9, <1>10, <1>11, <1>12 DEF Next, Handler, afterFrame

\* Every frame sent was sent before, or is the new one.
LEMMA SentFrom ==
  ASSUME Sequences, NEW f, Adds(f) \/ Inserts(f)
  PROVE  \A k \in 1..Len(Sent') : Sent'[k] = f \/ \E j \in 1..Len(Sent) : Sent'[k] = Sent[j]
<1>1. Len(Sent) \in Nat
  BY SentIsFinite
<1>2. CASE Adds(f)
  BY <1>1, <1>2 DEF Adds
<1>3. CASE Inserts(f)
  <2>1. PICK w \in 0..Len(Sent) :
          /\ Len(Sent') = Len(Sent) + 1 /\ Sent'[w + 1] = f
          /\ \A k \in 1..w : Sent'[k] = Sent[k]
          /\ \A k \in (w + 1)..Len(Sent) : Sent'[k + 1] = Sent[k]
    BY <1>3 DEF Inserts
  <2> TAKE k \in 1..Len(Sent')
  <2>2. CASE k \in 1..w
    BY <1>1, <2>1, <2>2
  <2>3. CASE k = w + 1
    BY <2>1, <2>3
  <2>4. CASE k - 1 \in (w + 1)..Len(Sent)
    <3>1. k - 1 + 1 = k /\ k - 1 \in 1..Len(Sent)
      BY <1>1, <2>1, <2>4
    <3>2. Sent'[k - 1 + 1] = Sent[k - 1]
      BY <2>1, <2>4
    <3>3. QED
      BY <3>1, <3>2
  <2>5. QED
    BY <1>1, <2>1, <2>2, <2>3, <2>4
<1>4. QED
  BY <1>2, <1>3
-----------------------------------------------------------------------------
(***************************************************************************)
(* Cuts.  The event of disconnect_after_event is the last that is sent.    *)
(***************************************************************************)
CutInv ==
  \A k \in 1..Len(Sent) : CutsAt(Sent[k]) => k = Len(Sent) /\ cause = <<"event", 0>>

LEMMA SentIsKept ==
  ASSUME Len(Sent) \in Nat, UNCHANGED sink
  PROVE  Keeps
<1>1. Sent' = Sent
  BY DEF Sent, sink
<1>2. QED
  BY <1>1 DEF Keeps

LEMMA CutStep ==
  ASSUME StreamInv, CutInv, [Next]_vars
  PROVE  CutInv'
<1>1. UNCHANGED response /\ Sequences /\ Len(Sent) \in Nat
  BY WireGrows, SentIsFinite DEF StreamInv
<1>2. \A f : CutsAt(f)' <=> CutsAt(f)
  BY <1>1 DEF CutsAt, CutAfter, response
<1>3. ASSUME NEW f, Adds(f) \/ Inserts(f), ~CutsAt(f), Uncut
      PROVE  CutInv'
  <2>1. \A k \in 1..Len(Sent) : ~CutsAt(Sent[k])
    BY <1>3 DEF CutInv, Uncut
  <2>2. \A k \in 1..Len(Sent') : ~CutsAt(Sent'[k])
    BY <1>1, <1>3, <2>1, SentFrom
  <2>3. QED
    BY <1>2, <2>2 DEF CutInv
<1>4. CASE ~Busy
  <2>1. UNCHANGED sink \/ Finish
    BY <1>4, EndsForGood
  <2>2. cause' = cause \/ (cause' = <<"end", 0>> /\ Uncut)
    BY <1>4, EndsForGood
  <2>3. CASE Keeps \/ UNCHANGED sink
    <3>1. Keeps
      BY <1>1, <2>3, SentIsKept
    <3>2. ASSUME NEW k \in 1..Len(Sent'), CutsAt(Sent'[k])
          PROVE  k = Len(Sent') /\ cause' = <<"event", 0>>
      <4>1. Len(Sent') <= Len(Sent) /\ Sent'[k] = Sent[k]
        BY <3>1 DEF Keeps
      <4>2. k = Len(Sent) /\ cause = <<"event", 0>>
        <5>1. k \in 1..Len(Sent)
          <6>1. CASE Len(Sent') \in Int
            BY <1>1, <4>1, <6>1
          <6>2. QED
            BY <1>1, <4>1, StreamStep, SentIsFinite DEF StreamInv
        <5>2. QED
          BY <3>2, <4>1, <5>1 DEF CutInv
      <4>3. QED
        BY <1>1, <2>2, <4>1, <4>2 DEF Uncut
    <3>3. QED
      BY <1>2, <3>2 DEF CutInv
  <2>4. CASE Adds(OnWire("[DONE]", NoBlock, Total)) /\ Uncut
    <3>1. ~CutsAt(OnWire("[DONE]", NoBlock, Total))
      BY DEF CutsAt, OnWire, Unnamed
    <3>2. QED
      BY <1>3, <2>4, <3>1
  <2>5. QED
    BY <2>1, <2>3, <2>4, FinishSends
<1>5. CASE Busy
  <2>1. Uncut /\ \A k \in 1..Len(Sent) : ~CutsAt(Sent[k])
    BY <1>5 DEF StreamInv, ControlInv, Busy, CutInv, Uncut
  <2>2. CASE UNCHANGED sink
    <3>1. Sent' = Sent
      BY <2>2 DEF Sent, sink
    <3>2. QED
      BY <1>2, <2>1, <3>1 DEF CutInv
  <2>3. CASE \E f : Neutral(f) /\ Adds(f)
    BY <1>3, <2>1, <2>3 DEF Neutral, CutsAt
  <2>4. CASE CorruptChunk /\ Inserts(Corrupt)
    <3>1. ~CutsAt(Corrupt)
      BY DEF CutsAt, Corrupt, OnWire, Unnamed
    <3>2. QED
      BY <1>3, <2>1, <2>4, <3>1
  <2>5. ASSUME NEW e, NEW b, NEW p, Adds(OnWire(e, b, p)), CutAfter(e) => cause' = <<"event", 0>>
        PROVE  CutInv'
    <3>1. CASE CutAfter(e)
      <4>1. \A k \in 1..Len(Sent) : ~CutsAt(Sent'[k])
        BY <2>1, <2>5 DEF Adds
      <4>2. Len(Sent') = Len(Sent) + 1
        BY <2>5 DEF Adds
      <4>3. QED
        BY <1>1, <1>2, <2>5, <3>1, <4>1, <4>2 DEF CutInv
    <3>2. CASE ~CutAfter(e)
      <4>1. ~CutsAt(OnWire(e, b, p))
        BY <3>2 DEF CutsAt, OnWire
      <4>2. QED
        BY <1>3, <2>1, <2>5, <4>1
    <3>3. QED
      BY <3>1, <3>2
  <2>6. CASE EmitFrame /\ Adds(OnWire(Now.event, Now.block, pos))
    BY <2>5, <2>6 DEF EmitFrame, Cut, Return
  <2>7. CASE EmitInjected /\ Adds(OnWire(Due.event, Due.block, 0))
    BY <2>5, <2>7 DEF EmitInjected, Cut, Return
  <2>8. QED
    BY <1>5, <2>2, <2>3, <2>4, <2>6, <2>7, SentMoves
<1>6. QED
  BY <1>4, <1>5

LEMMA CutInit == Init => CutInv
BY DEF Init, CutInv, Sent

CutsInv == StreamInv /\ InjectorType /\ ScheduleInv /\ ChunkInv /\ CutInv

LEMMA CutsFollow == CutsInv => CutsAreExact
<1> SUFFICES ASSUME CutsInv PROVE CutsAreExact
  OBVIOUS
<1>1. \A i \in 1..Len(cfg.specs) :
        cause = <<"spec", i>> /\ OnlyAfterN(SpecAt(i)) => frames = SpecAt(i).after_n
  BY DEF CutsInv, ScheduleInv, ScheduleOf
<1>2. cause = <<"chunks", 0>> => ChunksOut = cfg.disconnect_after_chunks
  BY DEF CutsInv, ChunkInv
<1>3. ASSUME cause = <<"end", 0>>, cfg.disconnect_after_chunks \in 1..(Chunks(cfg) - 1)
      PROVE  FALSE
  <2> DEFINE n == Chunks(cfg)
             d == cfg.disconnect_after_chunks
  <2>1. n \in Nat /\ Chunked(script, n) /\ d \in Int
    BY ScriptIsChunked, ConfigTypes DEF CutsInv, InjectorType
  <2>2. d \in 1..(n - 1)
    BY <1>3
  <2>3. Len(script) \in Nat
    BY DEF CutsInv, StreamInv, ControlInv
  <2> HIDE DEF n, d
  <2>4. PICK a \in Nat :
          /\ a + n <= Len(script)
          /\ \A p \in 1..Len(script) :
               script[p].chunk = IF p \in (a + 1)..(a + n) THEN p - a ELSE 0
    BY <2>1 DEF Chunked
  <2>5. a + d + 1 \in 1..Len(script) /\ a + d + 1 \in (a + 1)..(a + n)
    BY <2>1, <2>2, <2>3, <2>4
  <2>6. script[a + d + 1].chunk = d + 1
    BY <2>1, <2>4, <2>5
  <2>7. SeversAt(a + d + 1)
    BY <2>1, <2>2, <2>6 DEF SeversAt, d
  <2>8. QED
    BY <1>3, <2>5, <2>7 DEF CutsInv, ChunkInv
<1>4. \A k \in 1..Len(Sent) :
        CutsAt(Sent[k]) => k = Len(Sent) /\ cause # <<"end", 0>>
  BY DEF CutsInv, CutInv
<1>5. QED
  BY <1>1, <1>2, <1>3, <1>4 DEF CutsAreExact

(***************************************************************************)
(* Whatever is injected, coalesced and delayed in between, a disconnect    *)
(* set by after_n alone cuts after exactly that many real frames, the      *)
(* legacy one lets exactly disconnect_after_chunks chunks out and misses   *)
(* no response that has more, and nothing is sent behind the event of      *)
(* disconnect_after_event (matched, checkStreamingFault, emit).            *)
(***************************************************************************)
THEOREM CutsAreWhereAsked == Spec => []CutsAreExact
<1>1. Init => CutsInv
  BY StreamInit, InjectorTypeInit, ScheduleInit, ChunkInit, CutInit DEF CutsInv
<1>2. CutsInv /\ [Next]_vars => CutsInv'
  BY StreamStep, InjectorTypeStep, ScheduleStep, ChunkStep, CutStep DEF CutsInv
<1>3. QED
  BY <1>1, <1>2, CutsFollow, PTL DEF Spec
-----------------------------------------------------------------------------
(***************************************************************************)
(* What the pending calls still have to inject.                            *)
(***************************************************************************)
LEMMA TodoIsTyped ==
  ASSUME InjectorType, NEW d \in 1..Len(stack)
  PROVE  /\ stack[d] \in Activations /\ stack[d].todo \in Seq(Items)
         /\ Len(stack[d].todo) \in Nat
<1>1. stack \in Seq(Activations)
  BY DEF InjectorType
<1>2. stack[d] \in Activations
  BY <1>1, ElementOfSeq
<1>3. QED
  BY <1>2, LenProperties DEF Activations

LEMMA TailParts ==
  ASSUME NEW S, NEW s \in Seq(S), s # << >>
  PROVE  /\ Tail(s) \in Seq(S) /\ Len(s) \in Nat \ {0} /\ Len(Tail(s)) = Len(s) - 1
         /\ Head(s) = s[1]
         /\ \A j \in 1..(Len(s) - 1) : Tail(s)[j] = s[j + 1]
BY HeadTailProperties, EmptySeq, LenProperties

\* What becomes of the list of one call.
LEMMA TodosMove ==
  ASSUME StreamInv, InjectorType, [Next]_vars, NEW d \in 1..Len(stack')
  PROVE  \/ d <= Len(stack) /\ stack'[d].todo = stack[d].todo
         \/ stack'[d].todo = << >>
         \/ /\ FireInjection /\ d = Len(stack) /\ SpecAt(Top.next) \in FaultSpecs
            /\ stack'[d].todo = Injected(SpecAt(Top.next))
         \/ /\ OpenBlock /\ d = Len(stack) /\ Top.todo # << >>
            /\ stack'[d].todo = Opening(Due.offspec) \o Tail(Top.todo)
         \/ /\ EmitInjected /\ d = Len(stack) /\ Top.todo # << >>
            /\ stack'[d].todo = Tail(Top.todo)
<1>0. d \in Nat \ {0} /\ d <= Len(stack') /\ Len(stack) \in Nat
  <2>1. Len(stack') \in Nat /\ Len(stack) \in Nat
    BY InjectorTypeStep, LenProperties DEF InjectorType
  <2>2. QED
    BY <2>1
<1>1. CASE UNCHANGED stack
  BY <1>0, <1>1
<1>2. CASE EmitFrame /\ ~CutAfter(Now.event)
  <2>1. stack' = << Activation(Now.event) >>
    BY <1>2 DEF EmitFrame
  <2>2. d = 1 /\ stack'[1] = Activation(Now.event)
    BY <2>1
  <2>3. QED
    BY <1>0, <2>2 DEF Activation
<1>3. ASSUME afterFrame
      PROVE  /\ phase = "match" /\ stack # << >> /\ Len(stack) \in Nat \ {0}
             /\ Top \in Activations /\ stack[Len(stack)] = Top
  BY <1>3, afterFrameKeeps, TopIsTyped
<1>4. ASSUME NEW a, TopBecomes(a), Len(stack) \in Nat \ {0}
      PROVE  \/ d <= Len(stack) /\ stack'[d].todo = stack[d].todo
             \/ d = Len(stack) /\ stack'[d].todo = a.todo
  <2>1. CASE d < Len(stack)
    BY <1>0, <1>4, <2>1 DEF TopBecomes
  <2>2. CASE d = Len(stack)
    BY <1>4, <2>2 DEF TopBecomes
  <2>3. QED
    BY <1>0, <1>4, <2>1, <2>2 DEF TopBecomes
<1>5. CASE MatchDone
  <2>1. Popped /\ Len(stack) \in Nat \ {0}
    BY <1>3, <1>5, StackMoves DEF afterFrame
  <2>2. d \in 1..(Len(stack) - 1)
    BY <1>0, <2>1 DEF Popped
  <2>3. d <= Len(stack) /\ stack'[d] = stack[d]
    BY <2>1, <2>2 DEF Popped
  <2>4. QED
    BY <2>3
<1>6. CASE Skip \/ FireCorrupt
  <2> DEFINE a == [Top EXCEPT !.next = @ + 1]
  <2>1. TopBecomes(a) /\ Len(stack) \in Nat \ {0} /\ stack[Len(stack)] = Top
    BY <1>3, <1>6, StackMoves DEF afterFrame
  <2>2. a.todo = Top.todo
    BY <1>3, <1>6 DEF afterFrame, Activations
  <2> HIDE DEF a
  <2>3. \/ d <= Len(stack) /\ stack'[d].todo = stack[d].todo
        \/ d = Len(stack) /\ stack'[d].todo = a.todo
    BY <1>4, <2>1
  <2>4. d <= Len(stack) /\ stack'[d].todo = stack[d].todo
    BY <1>0, <2>1, <2>2, <2>3
  <2>5. QED
    BY <2>4
<1>7. CASE FireInjection
  <2> DEFINE a == [event |-> Top.event, next |-> Top.next + 1,
                   todo |-> Injected(SpecAt(Top.next))]
  <2>1. TopBecomes(a) /\ Len(stack) \in Nat \ {0}
    BY <1>3, <1>7, StackMoves DEF afterFrame
  <2>2. Top.next \in 1..Len(cfg.specs)
    BY <1>3, <1>7 DEF FireInjection, Firing, afterFrame, Activations
  <2>3. SpecAt(Top.next) \in FaultSpecs
    BY <2>2, ConfigTypes
  <2>4. a.todo = Injected(SpecAt(Top.next))
    OBVIOUS
  <2> HIDE DEF a
  <2>5. \/ d <= Len(stack) /\ stack'[d].todo = stack[d].todo
        \/ d = Len(stack) /\ stack'[d].todo = a.todo
    BY <1>4, <2>1
  <2>6. QED
    BY <1>7, <2>3, <2>4, <2>5
<1>8. CASE OpenBlock
  <2> DEFINE a == [Top EXCEPT !.todo = Opening(Due.offspec) \o Tail(@)]
  <2>1. TopBecomes(a) /\ Len(stack) \in Nat \ {0}
    BY <1>3, <1>8, StackMoves DEF afterFrame
  <2>2. a.todo = Opening(Due.offspec) \o Tail(Top.todo)
    BY <1>3, <1>8 DEF afterFrame, Activations
  <2>3. Top.todo # << >>
    BY <1>8 DEF OpenBlock, Injecting
  <2> HIDE DEF a
  <2>4. \/ d <= Len(stack) /\ stack'[d].todo = stack[d].todo
        \/ d = Len(stack) /\ stack'[d].todo = a.todo
    BY <1>4, <2>1
  <2>5. QED
    BY <1>8, <2>2, <2>3, <2>4
<1>9. CASE EmitInjected /\ ~CutAfter(Due.event)
  <2> DEFINE a == [Top EXCEPT !.todo = Tail(@)]
             b == Activation(Due.event)
  <2>1. Pushed(a, b) /\ Len(stack) \in Nat \ {0}
    BY <1>3, <1>9, StackMoves DEF afterFrame
  <2>2. a.todo = Tail(Top.todo) /\ b.todo = << >>
    BY <1>3, <1>9 DEF afterFrame, Activations, Activation
  <2>3. Top.todo # << >>
    BY <1>9 DEF EmitInjected, Injecting
  <2> HIDE DEF a, b
  <2>4. \/ d < Len(stack) /\ stack'[d] = stack[d]
        \/ d = Len(stack) /\ stack'[d] = a
        \/ stack'[d] = b
    BY <1>0, <2>1 DEF Pushed
  <2>5. \/ d <= Len(stack) /\ stack'[d].todo = stack[d].todo
        \/ d = Len(stack) /\ stack'[d].todo = Tail(Top.todo)
        \/ stack'[d].todo = << >>
    <3>1. CASE d < Len(stack) /\ stack'[d] = stack[d]
      BY <1>0, <3>1
    <3>2. CASE d = Len(stack) /\ stack'[d] = a
      BY <2>2, <3>2
    <3>3. CASE stack'[d] = b
      BY <2>2, <3>3
    <3>4. QED
      BY <2>4, <3>1, <3>2, <3>3
  <2>6. QED
    BY <1>9, <2>3, <2>5
<1>10. CASE FireDisconnect \/ FireStall \/ FireException \/ FailValidation
             \/ (EmitInjected /\ CutAfter(Due.event)) \/ (EmitFrame /\ CutAfter(Now.event))
  <2>1. UNCHANGED stack
    BY <1>10, InjectorEnds DEF FireDisconnect, FireStall
  <2>2. QED
    BY <1>1, <2>1
<1>11. CASE WaitOver \/ NoLegacyFault \/ CorruptChunk \/ Ping \/ GiveUp \/ Sever \/ StallOver
  BY <1>1, <1>11, HandlerMoves DEF injector
<1>12. CASE NextFrame \/ Finish \/ ClientLeaves \/ TimePasses \/ UNCHANGED vars
  BY <1>1, <1>12 DEF NextFrame, Finish, ClientLeaves, TimePasses, vars, injector
<1>13. QED
  BY <1>2, <1>5, <1>6, <1>7, <1>8, <1>9, <1>10, <1>11, <1>12 DEF Next, Handler, afterFrame

\* An item of a changed list is one of the block being opened or was there.
LEMMA ItemsAfterOpening ==
  ASSUME InjectorType, stack # << >>, Top.todo # << >>, NEW o \in BOOLEAN,
         NEW j \in 1..Len(Opening(o) \o Tail(Top.todo))
  PROVE  \/ j \in 1..2 /\ (Opening(o) \o Tail(Top.todo))[j] = Opening(o)[j]
         \/ /\ j > 2 /\ j - 1 \in 2..Len(Top.todo)
            /\ (Opening(o) \o Tail(Top.todo))[j] = Top.todo[j - 1]
<1> DEFINE u == Opening(o)
           t == Tail(Top.todo)
<1>1. u \in Seq(Items) /\ Len(u) = 2
  BY OpeningIsTyped
<1>2. /\ t \in Seq(Items) /\ Len(Top.todo) \in Nat \ {0} /\ Len(t) = Len(Top.todo) - 1
      /\ \A i \in 1..(Len(Top.todo) - 1) : t[i] = Top.todo[i + 1]
  <2>1. Top.todo \in Seq(Items)
    BY TopIsTyped DEF Activations
  <2>2. QED
    BY <2>1, TailParts
<1>3. j \in 1..Len(u \o t)
  OBVIOUS
<1> HIDE DEF u, t
<1>4. /\ Len(u \o t) = Len(u) + Len(t)
      /\ \A k \in 1..Len(u) : (u \o t)[k] = u[k]
      /\ \A k \in 1..Len(t) : (u \o t)[Len(u) + k] = t[k]
  <2>1. ASSUME NEW v \in Seq(Items), NEW w \in Seq(Items)
        PROVE  /\ Len(v \o w) = Len(v) + Len(w)
               /\ \A k \in 1..Len(v) : (v \o w)[k] = v[k]
               /\ \A k \in 1..Len(w) : (v \o w)[Len(v) + k] = w[k]
    BY ConcatParts
  <2>2. QED
    BY <1>1, <1>2, <2>1
<1>5. CASE j \in 1..2
  BY <1>1, <1>4, <1>5 DEF u, t
<1>6. CASE j \notin 1..2
  <2>1. j - 2 \in 1..Len(t) /\ j - 2 + 1 = j - 1 /\ 2 + (j - 2) = j
    BY <1>1, <1>2, <1>3, <1>4, <1>6
  <2>2. (u \o t)[2 + (j - 2)] = t[j - 2] /\ t[j - 2] = Top.todo[j - 2 + 1]
    BY <1>1, <1>2, <1>4, <2>1
  <2>3. j > 2 /\ j - 1 \in 2..Len(Top.todo)
    BY <1>2, <2>1
  <2>4. QED
    BY <2>1, <2>2, <2>3 DEF u, t
<1>7. QED
  BY <1>5, <1>6

LEMMA DueIsTyped ==
  ASSUME InjectorType, stack # << >>, Top.todo # << >>
  PROVE  /\ Due \in Items /\ Due = Top.todo[1] /\ Top.todo \in Seq(Items)
         /\ Len(Top.todo) \in Nat \ {0} /\ Len(stack) \in Nat \ {0}
         /\ stack[Len(stack)] = Top
<1>1. Len(stack) \in Nat \ {0} /\ Top \in Activations /\ stack[Len(stack)] = Top
  BY TopIsTyped
<1>2. Top.todo \in Seq(Items)
  BY <1>1 DEF Activations
<1>3. Len(Top.todo) \in Nat \ {0} /\ Head(Top.todo) = Top.todo[1]
  BY <1>2, TailParts
<1>4. Top.todo[1] \in Items
  BY <1>2, <1>3, ElementOfSeq
<1>5. QED
  BY <1>1, <1>2, <1>3, <1>4 DEF Due
-----------------------------------------------------------------------------
(***************************************************************************)
(* Errors.  An injected error is sent only where it passes the validation, *)
(* and from then on the call made for it waits for every disconnect keyed  *)
(* on it: nothing the other calls do gets the handler past that.           *)
(***************************************************************************)
ErrorsAreOffspec ==
  \A d \in 1..Len(stack) : \A j \in 1..Len(stack[d].todo) :
    stack[d].todo[j].event = "error" => stack[d].todo[j].offspec

Validated == cfg.validate /\ cfg.surface \in {"messages", "chat"}
ErrorOut == \E k \in 1..Len(Sent) : Sent[k].event = "error"
ErrorsPass == ErrorOut => ~Validated

Cutter == \E i \in 1..Len(cfg.specs) : CutsOnError(SpecAt(i))

AwaitsCut(a) ==
  a.event = "error" /\ \A i \in 1..Len(cfg.specs) : CutsOnError(SpecAt(i)) => a.next <= i

Ending ==
  \/ phase = "match" /\ \E d \in 1..Len(stack) : AwaitsCut(stack[d])
  \/ phase = "stalled"
  \/ ~Busy /\ cause[1] \in {"spec", "event", "exception", "client"}

NothingReal ==
  \A k \in 1..Len(Sent) :
    Sent[k].event = "error" => \A j \in (k + 1)..Len(Sent) : ~IsReal(Sent[j])

ErrorInv ==
  /\ ErrorsAreOffspec /\ ErrorsPass
  /\ Cutter /\ ErrorOut => Ending
  /\ Cutter => NothingReal

LEMMA ErrorsAreOffspecStep ==
  ASSUME StreamInv, InjectorType, ErrorsAreOffspec, [Next]_vars
  PROVE  ErrorsAreOffspec'
<1> SUFFICES ASSUME NEW d \in 1..Len(stack'), NEW j \in 1..Len(stack'[d].todo),
                    stack'[d].todo[j].event = "error"
             PROVE  stack'[d].todo[j].offspec
  BY DEF ErrorsAreOffspec
<1>1. d \in Nat \ {0} /\ Len(stack) \in Nat
  <2>1. Len(stack') \in Nat /\ Len(stack) \in Nat
    BY InjectorTypeStep, LenProperties DEF InjectorType
  <2>2. QED
    BY <2>1
<1>2. CASE d <= Len(stack) /\ stack'[d].todo = stack[d].todo
  BY <1>1, <1>2 DEF ErrorsAreOffspec
<1>3. CASE stack'[d].todo = << >>
  BY <1>3
<1>4. CASE SpecAt(Top.next) \in FaultSpecs /\ stack'[d].todo = Injected(SpecAt(Top.next))
  BY <1>4, InjectedIsTyped
<1>5. CASE /\ OpenBlock /\ d = Len(stack) /\ Top.todo # << >>
           /\ stack'[d].todo = Opening(Due.offspec) \o Tail(Top.todo)
  <2>1. stack # << >> /\ Due.offspec \in BOOLEAN /\ stack[Len(stack)] = Top
    BY <1>5, DueIsTyped DEF OpenBlock, Injecting, Items
  <2>2. CASE j \in 1..2 /\ stack'[d].todo[j] = Opening(Due.offspec)[j]
    <3>1. stack'[d].todo[j].event = BlockNames[j]
      BY <2>1, <2>2, OpeningIsTyped
    <3>2. BlockNames[j] # "error"
      BY <2>2 DEF BlockNames
    <3>3. QED
      BY <3>1, <3>2
  <2>3. CASE j - 1 \in 2..Len(Top.todo) /\ stack'[d].todo[j] = Top.todo[j - 1]
    <3>1. Len(Top.todo) \in Nat /\ d \in 1..Len(stack)
      BY <1>1, <1>5, <2>1, DueIsTyped
    <3>2. j - 1 \in 1..Len(stack[d].todo) /\ stack[d].todo[j - 1] = Top.todo[j - 1]
      BY <1>5, <2>1, <2>3, <3>1
    <3>3. QED
      BY <2>3, <3>1, <3>2 DEF ErrorsAreOffspec
  <2>4. QED
    BY <1>5, <2>1, <2>2, <2>3, ItemsAfterOpening
<1>6. CASE EmitInjected /\ d = Len(stack) /\ Top.todo # << >> /\ stack'[d].todo = Tail(Top.todo)
  <2>1. /\ stack # << >> /\ stack[Len(stack)] = Top /\ Top.todo \in Seq(Items)
        /\ d \in 1..Len(stack)
    BY <1>1, <1>6, DueIsTyped DEF EmitInjected, Injecting
  <2>2. /\ Len(Top.todo) \in Nat \ {0} /\ Len(Tail(Top.todo)) = Len(Top.todo) - 1
        /\ \A i \in 1..(Len(Top.todo) - 1) : Tail(Top.todo)[i] = Top.todo[i + 1]
    BY <1>6, <2>1, TailParts
  <2>3. j + 1 \in 1..Len(stack[d].todo) /\ stack'[d].todo[j] = stack[d].todo[j + 1]
    BY <1>6, <2>1, <2>2
  <2>4. QED
    BY <2>1, <2>3 DEF ErrorsAreOffspec
<1>7. QED
  BY <1>2, <1>3, <1>4, <1>5, <1>6, TodosMove

\* A frame named error is an injected one that passed.
LEMMA ErrorsComeFrom ==
  ASSUME StreamInv, InjectorType, ErrorsAreOffspec, [Next]_vars, ErrorOut'
  PROVE  \/ ErrorOut
         \/ /\ EmitInjected /\ Due.event = "error" /\ ~Validated
            /\ Adds(OnWire(Due.event, Due.block, 0))
<1>1. Sequences /\ Len(Sent) \in Nat
  BY SentIsFinite DEF StreamInv
<1>2. PICK k \in 1..Len(Sent') : Sent'[k].event = "error"
  BY DEF ErrorOut
<1>3. ASSUME NEW f, Adds(f) \/ Inserts(f), ~ErrorOut
      PROVE  f.event = "error"
  BY <1>1, <1>2, <1>3, SentFrom DEF ErrorOut
<1>4. CASE ~Busy
  <2>1. CASE Keeps \/ UNCHANGED sink
    <3>1. Keeps
      BY <1>1, <2>1, SentIsKept
    <3>2. Len(Sent') \in Nat
      BY StreamStep, SentIsFinite DEF StreamInv
    <3>3. k \in 1..Len(Sent) /\ Sent[k] = Sent'[k]
      BY <1>1, <3>1, <3>2 DEF Keeps
    <3>4. QED
      BY <1>2, <3>3 DEF ErrorOut
  <2>2. CASE Adds(OnWire("[DONE]", NoBlock, Total))
    BY <1>3, <2>2 DEF OnWire
  <2>3. QED
    BY <1>4, <2>1, <2>2, EndsForGood, FinishSends
<1>5. CASE Busy
  <2>1. CASE UNCHANGED sink
    <3>1. Sent' = Sent
      BY <2>1 DEF Sent, sink
    <3>2. QED
      BY <1>2, <3>1 DEF ErrorOut
  <2>2. CASE \E f : Neutral(f) /\ Adds(f)
    BY <1>3, <2>2 DEF Neutral, Unnamed
  <2>3. CASE CorruptChunk /\ Inserts(Corrupt)
    BY <1>3, <2>3 DEF Corrupt, OnWire
  <2>4. CASE EmitFrame /\ Adds(OnWire(Now.event, Now.block, pos))
    <3>1. Now.event \in EventNames
      BY <2>4, NowIsTyped DEF EmitFrame, At, ScriptFrames
    <3>2. Now.event # "error"
      BY <3>1 DEF EventNames
    <3>3. QED
      BY <1>3, <2>4, <3>2 DEF OnWire
  <2>5. CASE EmitInjected /\ Adds(OnWire(Due.event, Due.block, 0))
    <3>1. ASSUME ~ErrorOut
          PROVE  Due.event = "error"
      BY <1>3, <2>5, <3>1 DEF OnWire
    <3>2. ASSUME Due.event = "error"
          PROVE  ~Validated
      <4>1. stack # << >> /\ Top.todo # << >> /\ ~Refused
        BY <2>5 DEF EmitInjected, Injecting
      <4>2. /\ Len(stack) \in 1..Len(stack) /\ 1 \in 1..Len(stack[Len(stack)].todo)
            /\ stack[Len(stack)].todo[1] = Due
        BY <4>1, DueIsTyped
      <4>3. Due.offspec
        BY <3>2, <4>2 DEF ErrorsAreOffspec
      <4>4. QED
        BY <4>1, <4>3 DEF Refused, Validated
    <3>3. QED
      BY <2>5, <3>1, <3>2
  <2>6. QED
    BY <1>5, <2>1, <2>2, <2>3, <2>4, <2>5, SentMoves
<1>6. QED
  BY <1>4, <1>5

\* The call made for an error does not get past a disconnect that waits for it.
LEMMA CutIsNotSkipped ==
  ASSUME StreamInv, InjectorType, DisconnectsEnd, phase = "match", stack # << >>,
         AwaitsCut(Top), Skip \/ FireCorrupt \/ FireInjection,
         NEW i \in 1..Len(cfg.specs), CutsOnError(SpecAt(i))
  PROVE  Top.next + 1 <= i
<1>1. Top.next \in Nat /\ Top.next <= i /\ Top.event = "error"
  BY TopIsTyped DEF Activations, AwaitsCut
<1>2. /\ SpecAt(i).mode = "disconnect" /\ SpecAt(i).after_event = "error"
      /\ ~(SpecAt(i).after_n > 0) /\ ~(SpecAt(i).after_bytes > 0) /\ ~(SpecAt(i).after_ms > 0)
  <2>1. SpecAt(i) \in FaultSpecs
    BY ConfigTypes
  <2>2. /\ SpecAt(i).after_n \in Int /\ SpecAt(i).after_bytes \in Int
        /\ SpecAt(i).after_ms \in Int
    BY <2>1 DEF FaultSpecs
  <2>3. /\ SpecAt(i).mode = "disconnect" /\ SpecAt(i).after_event = "error"
        /\ SpecAt(i).after_n <= 0 /\ SpecAt(i).after_bytes <= 0 /\ SpecAt(i).after_ms <= 0
    BY DEF CutsOnError
  <2>4. QED
    BY <2>2, <2>3
<1>3. Top.next # i
  <2> SUFFICES ASSUME Top.next = i PROVE FALSE
    OBVIOUS
  <2>1. CASE FireCorrupt \/ FireInjection
    <3>1. SpecAt(Top.next).mode # "disconnect"
      BY <2>1 DEF FireCorrupt, FireInjection, Firing
    <3>2. QED
      BY <1>2, <3>1
  <2>2. CASE Skip
    <3>1. matched(SpecAt(i), "error")
      BY <1>2 DEF matched
    <3>2. i \notin fired
      BY <1>2 DEF DisconnectsEnd, Busy
    <3>3. Fires
      BY <1>1, <3>1, <3>2 DEF Fires
    <3>4. QED
      BY <2>2, <3>3 DEF Skip
  <2>3. QED
    BY <2>1, <2>2
<1>4. i \in Nat
  BY ConfigTypes
<1>5. QED
  BY <1>1, <1>3, <1>4

LEMMA EndingStep ==
  ASSUME StreamInv, InjectorType, DisconnectsEnd, ErrorInv, [Next]_vars, Cutter, ErrorOut
  PROVE  Ending'
<1> DEFINE causes == {"spec", "event", "exception", "client"}
<1>1. Ending /\ ~Validated /\ UNCHANGED response
  BY WireGrows DEF ErrorInv, ErrorsPass
<1>2. \A a : AwaitsCut(a)' <=> AwaitsCut(a)
  BY <1>1 DEF AwaitsCut, CutsOnError, SpecAt, response
<1>3. ASSUME ~Busy', cause'[1] \in causes
      PROVE  Ending'
  BY <1>3 DEF Ending
<1>4. CASE ~Busy /\ cause[1] \in causes
  <2>1. ~Uncut
    BY <1>4 DEF Uncut
  <2>2. ~Busy' /\ cause' = cause
    BY <1>4, <2>1, EndsForGood
  <2>3. QED
    BY <1>3, <1>4, <2>2
<1>5. CASE phase = "stalled"
  <2>1. CASE StallOver
    <3>1. ~Busy' /\ cause' = <<"client", 0>>
      BY <2>1, HandlerMoves DEF Busy
    <3>2. QED
      BY <1>3, <3>1
  <2>2. CASE ClientLeaves \/ TimePasses \/ UNCHANGED vars
    <3>1. phase' = "stalled"
      BY <1>5, <2>2 DEF ClientLeaves, TimePasses, vars
    <3>2. QED
      BY <3>1 DEF Ending
  <2>3. CASE WaitOver \/ NoLegacyFault \/ CorruptChunk \/ Ping \/ GiveUp \/ Sever
    BY <1>5, <2>3, HandlerMoves
  <2>4. CASE EmitFrame \/ NextFrame \/ Finish
    BY <1>5, <2>4 DEF EmitFrame, NextFrame, Finish, At
  <2>5. CASE afterFrame
    BY <1>5, <2>5, afterFrameKeeps
  <2>6. QED
    BY <2>1, <2>2, <2>3, <2>4, <2>5 DEF Next, Handler
<1>6. CASE phase = "match" /\ \E d \in 1..Len(stack) : AwaitsCut(stack[d])
  <2>1. PICK d \in 1..Len(stack) : AwaitsCut(stack[d])
    BY <1>6
  <2>2. Len(stack) \in Nat /\ d \in Nat \ {0} /\ d <= Len(stack) /\ stack # << >>
    <3>1. Len(stack) \in Nat
      BY LenProperties DEF InjectorType
    <3>2. stack # << >>
      BY <2>1
    <3>3. QED
      BY <3>1, <3>2
  <2>3. Len(stack) \in Nat \ {0} /\ Top \in Activations /\ stack[Len(stack)] = Top
    BY <2>2, TopIsTyped
  <2>4. ASSUME phase' = "match", NEW e \in 1..Len(stack'), AwaitsCut(stack'[e])
        PROVE  Ending'
    BY <1>2, <2>4 DEF Ending
  <2>5. ASSUME NEW a, TopBecomes(a), phase' = "match", AwaitsCut(Top) => AwaitsCut(a)
        PROVE  Ending'
    <3>1. AwaitsCut(stack'[d])
      BY <2>1, <2>2, <2>3, <2>5 DEF TopBecomes
    <3>2. d \in 1..Len(stack')
      BY <2>5 DEF TopBecomes
    <3>3. QED
      BY <2>4, <2>5, <3>1, <3>2
  <2>6. CASE MatchDone
    <3>1. ~AwaitsCut(Top)
      <4>1. PICK i \in 1..Len(cfg.specs) : CutsOnError(SpecAt(i))
        BY DEF Cutter
      <4>2. i \in Nat /\ i <= Len(cfg.specs) /\ Len(cfg.specs) \in Nat /\ Top.next \in Nat
        BY <2>3, ConfigTypes DEF Activations
      <4>3. Top.next > Len(cfg.specs)
        BY <2>6 DEF MatchDone
      <4>4. ~(Top.next <= i)
        BY <4>2, <4>3
      <4>5. QED
        BY <4>1, <4>4 DEF AwaitsCut
    <3>2. Popped
      BY <1>6, <2>2, <2>6, StackMoves
    <3>3. d # Len(stack)
      BY <2>1, <2>3, <3>1
    <3>4. d \in 1..(Len(stack) - 1)
      BY <2>2, <3>3
    <3>5. d \in 1..Len(stack') /\ stack'[d] = stack[d]
      BY <3>2, <3>4 DEF Popped
    <3>6. phase' = "match"
      BY <1>6, <2>6 DEF MatchDone
    <3>7. QED
      BY <2>1, <2>4, <3>5, <3>6
  <2>7. CASE Skip \/ FireCorrupt
    <3> DEFINE a == [Top EXCEPT !.next = @ + 1]
    <3>1. TopBecomes(a) /\ phase' = "match"
      BY <1>6, <2>2, <2>7, StackMoves DEF Skip, FireCorrupt
    <3>2. a.event = Top.event /\ a.next = Top.next + 1
      BY <2>3 DEF Activations
    <3> HIDE DEF a
    <3>3. AwaitsCut(Top) => AwaitsCut(a)
      <4> SUFFICES ASSUME AwaitsCut(Top) PROVE AwaitsCut(a)
        OBVIOUS
      <4>1. a.event = "error"
        BY <3>2 DEF AwaitsCut
      <4>2. ASSUME NEW i \in 1..Len(cfg.specs), CutsOnError(SpecAt(i))
            PROVE  a.next <= i
        BY <1>6, <2>2, <2>7, <3>2, <4>2, CutIsNotSkipped
      <4>3. QED
        BY <4>1, <4>2 DEF AwaitsCut
    <3>4. QED
      BY <2>5, <3>1, <3>3
  <2>8. CASE FireInjection
    <3> DEFINE a == [event |-> Top.event, next |-> Top.next + 1,
                     todo |-> Injected(SpecAt(Top.next))]
    <3>1. TopBecomes(a) /\ phase' = "match"
      BY <1>6, <2>2, <2>8, StackMoves DEF FireInjection
    <3>2. a.event = Top.event /\ a.next = Top.next + 1
      OBVIOUS
    <3> HIDE DEF a
    <3>3. AwaitsCut(Top) => AwaitsCut(a)
      <4> SUFFICES ASSUME AwaitsCut(Top) PROVE AwaitsCut(a)
        OBVIOUS
      <4>1. a.event = "error"
        BY <3>2 DEF AwaitsCut
      <4>2. ASSUME NEW i \in 1..Len(cfg.specs), CutsOnError(SpecAt(i))
            PROVE  a.next <= i
        BY <1>6, <2>2, <2>8, <3>2, <4>2, CutIsNotSkipped
      <4>3. QED
        BY <4>1, <4>2 DEF AwaitsCut
    <3>4. QED
      BY <2>5, <3>1, <3>3
  <2>9. CASE OpenBlock
    <3> DEFINE a == [Top EXCEPT !.todo = Opening(Due.offspec) \o Tail(@)]
    <3>1. TopBecomes(a) /\ phase' = "match"
      BY <1>6, <2>2, <2>9, StackMoves DEF OpenBlock
    <3>2. a.event = Top.event /\ a.next = Top.next
      BY <2>3 DEF Activations
    <3> HIDE DEF a
    <3>3. AwaitsCut(Top) => AwaitsCut(a)
      BY <3>2 DEF AwaitsCut
    <3>4. QED
      BY <2>5, <3>1, <3>3
  <2>10. CASE EmitInjected /\ ~CutAfter(Due.event)
    <3> DEFINE a == [Top EXCEPT !.todo = Tail(@)]
               b == Activation(Due.event)
    <3>1. Pushed(a, b) /\ phase' = "match"
      BY <1>6, <2>2, <2>10, StackMoves DEF EmitInjected
    <3>2. a.event = Top.event /\ a.next = Top.next
      BY <2>3 DEF Activations
    <3> HIDE DEF a, b
    <3>3. AwaitsCut(Top) => AwaitsCut(a)
      BY <3>2 DEF AwaitsCut
    <3>4. AwaitsCut(stack'[d])
      BY <2>1, <2>2, <2>3, <3>1, <3>3 DEF Pushed
    <3>5. d \in 1..Len(stack')
      BY <2>2, <3>1 DEF Pushed
    <3>6. QED
      BY <2>4, <3>1, <3>4, <3>5
  <2>11. CASE FireDisconnect
    <3>1. ~Busy' /\ cause' = <<"spec", Top.next>>
      BY <2>11 DEF FireDisconnect, Cut, Return, Busy
    <3>2. QED
      BY <1>3, <3>1
  <2>12. CASE FireStall
    BY <2>12 DEF FireStall, Ending
  <2>13. CASE FailValidation
    BY <1>1, <2>13 DEF FailValidation, Refused, Validated
  <2>14. CASE FireException \/ (EmitInjected /\ CutAfter(Due.event))
    <3>1. ~Busy' /\ cause'[1] \in {"exception", "event"}
      BY <2>14 DEF FireException, EmitInjected, Cut, Return, Busy
    <3>2. QED
      BY <1>3, <3>1
  <2>15. CASE ClientLeaves \/ TimePasses \/ UNCHANGED vars
    <3>1. phase' = "match" /\ stack' = stack
      BY <1>6, <2>15 DEF ClientLeaves, TimePasses, vars, injector
    <3>2. QED
      BY <2>1, <2>4, <3>1
  <2>16. CASE WaitOver \/ NoLegacyFault \/ CorruptChunk \/ Ping \/ GiveUp \/ Sever \/ StallOver
    BY <1>6, <2>16, HandlerMoves
  <2>17. CASE EmitFrame \/ NextFrame \/ Finish
    BY <1>6, <2>2, <2>17 DEF EmitFrame, NextFrame, Finish, At
  <2>18. QED
    BY <2>6, <2>7, <2>8, <2>9, <2>10, <2>11, <2>12, <2>13, <2>14, <2>15, <2>16, <2>17
       DEF Next, Handler, afterFrame
<1>7. QED
  BY <1>1, <1>4, <1>5, <1>6 DEF Ending

\* While an error waits for its cut, no real frame is written.
LEMMA NothingRealStep ==
  ASSUME StreamInv, ErrorInv, [Next]_vars, Cutter
  PROVE  NothingReal'
<1>1. Sequences /\ Len(Sent) \in Nat /\ Len(Sent') \in Nat
  BY StreamStep, SentIsFinite DEF StreamInv
<1>2. NothingReal /\ (ErrorOut => Ending)
  BY DEF ErrorInv
<1>3. ASSUME NEW f, Adds(f), ErrorOut => ~IsReal(f)
      PROVE  NothingReal'
  <2> SUFFICES ASSUME NEW k \in 1..Len(Sent'), Sent'[k].event = "error",
                      NEW j \in (k + 1)..Len(Sent')
               PROVE  ~IsReal(Sent'[j])
    BY DEF NothingReal
  <2>1. k \in 1..Len(Sent) /\ Sent'[k] = Sent[k]
    BY <1>1, <1>3 DEF Adds
  <2>2. ErrorOut
    BY <2>1 DEF ErrorOut
  <2>3. CASE j = Len(Sent) + 1
    BY <1>3, <2>2, <2>3 DEF Adds
  <2>4. CASE j # Len(Sent) + 1
    <3>1. j \in (k + 1)..Len(Sent) /\ j \in 1..Len(Sent)
      BY <1>1, <1>3, <2>4 DEF Adds
    <3>2. Sent'[j] = Sent[j]
      BY <1>3, <3>1 DEF Adds
    <3>3. QED
      BY <1>2, <2>1, <3>1, <3>2 DEF NothingReal
  <2>5. QED
    BY <2>3, <2>4
<1>4. CASE Keeps \/ UNCHANGED sink
  <2>1. Keeps
    BY <1>1, <1>4, SentIsKept
  <2> SUFFICES ASSUME NEW k \in 1..Len(Sent'), Sent'[k].event = "error",
                      NEW j \in (k + 1)..Len(Sent')
               PROVE  ~IsReal(Sent'[j])
    BY DEF NothingReal
  <2>2. k \in 1..Len(Sent) /\ j \in (k + 1)..Len(Sent) /\ j \in 1..Len(Sent')
    BY <1>1, <2>1 DEF Keeps
  <2>3. Sent'[k] = Sent[k] /\ Sent'[j] = Sent[j]
    BY <2>1, <2>2 DEF Keeps
  <2>4. QED
    BY <1>2, <2>2, <2>3 DEF NothingReal
<1>5. CASE ~Busy
  <2>1. ErrorOut => ~Uncut
    BY <1>2, <1>5 DEF Ending, Busy, Uncut
  <2>2. CASE Adds(OnWire("[DONE]", NoBlock, Total)) /\ Uncut
    BY <1>3, <2>1, <2>2
  <2>3. QED
    BY <1>4, <1>5, <2>2, EndsForGood, FinishSends
<1>6. CASE Busy
  <2>1. CASE \E f : Neutral(f) /\ Adds(f)
    <3>1. PICK f : Neutral(f) /\ Adds(f)
      BY <2>1
    <3>2. ~IsReal(f)
      BY <3>1 DEF Neutral, IsReal
    <3>3. QED
      BY <1>3, <3>1, <3>2
  <2>2. CASE EmitInjected /\ Adds(OnWire(Due.event, Due.block, 0))
    <3>1. ~IsReal(OnWire(Due.event, Due.block, 0))
      BY DEF IsReal, OnWire
    <3>2. QED
      BY <1>3, <2>2, <3>1
  <2>3. CASE EmitFrame /\ Adds(OnWire(Now.event, Now.block, pos))
    <3>1. ~ErrorOut
      BY <1>2, <1>6, <2>3 DEF Ending, EmitFrame, At
    <3>2. QED
      BY <1>3, <2>3, <3>1
  <2>4. CASE CorruptChunk /\ Inserts(Corrupt)
    <3>1. ~ErrorOut
      BY <1>2, <1>6, <2>4 DEF Ending, CorruptChunk, At
    <3>2. \A k \in 1..Len(Sent') : Sent'[k].event # "error"
      <4>1. Corrupt.event # "error"
        BY DEF Corrupt, OnWire
      <4>2. QED
        BY <1>1, <2>4, <3>1, <4>1, SentFrom DEF ErrorOut
    <3>3. QED
      BY <3>2 DEF NothingReal
  <2>5. QED
    BY <1>4, <1>6, <2>1, <2>2, <2>3, <2>4, SentMoves
<1>7. QED
  BY <1>5, <1>6

LEMMA ErrorStep ==
  ASSUME StreamInv, InjectorType, DisconnectsEnd, ErrorInv, [Next]_vars
  PROVE  ErrorInv'
<1>1. ErrorsAreOffspec' /\ UNCHANGED response
  BY ErrorsAreOffspecStep, WireGrows DEF ErrorInv
<1>2. Cutter' = Cutter /\ Validated' = Validated
  BY <1>1 DEF Cutter, CutsOnError, SpecAt, Validated, response
<1>3. ErrorsPass'
  BY <1>2, ErrorsComeFrom DEF ErrorInv, ErrorsPass
<1>4. ASSUME Cutter, ErrorOut'
      PROVE  Ending'
  <2>1. CASE ErrorOut
    BY <1>4, <2>1, EndingStep
  <2>2. CASE EmitInjected /\ Due.event = "error" /\ CutAfter(Due.event)
    BY <2>2 DEF EmitInjected, Cut, Return, Busy, Ending
  <2>3. CASE EmitInjected /\ Due.event = "error" /\ ~CutAfter(Due.event)
    <3>1. phase = "match" /\ stack # << >> /\ phase' = "match"
      BY <2>3 DEF EmitInjected, Injecting
    <3>2. /\ Pushed([Top EXCEPT !.todo = Tail(@)], Activation(Due.event))
          /\ Len(stack) \in Nat
      BY <2>3, <3>1, StackMoves, TopIsTyped
    <3>3. Len(stack) + 1 \in 1..Len(stack') /\ stack'[Len(stack) + 1] = Activation("error")
      BY <2>3, <3>2 DEF Pushed
    <3>4. AwaitsCut(Activation("error"))'
      <4>1. \A i \in 1..Len(cfg.specs) : 1 <= i
        BY ConfigTypes
      <4>2. cfg' = cfg
        BY <1>1 DEF response
      <4>3. QED
        BY <4>1, <4>2 DEF AwaitsCut, Activation
    <3>5. QED
      BY <3>1, <3>3, <3>4 DEF Ending, AwaitsCut, Activation
  <2>4. QED
    BY <1>4, <2>1, <2>2, <2>3, ErrorsComeFrom DEF ErrorInv
<1>5. Cutter => NothingReal'
  BY NothingRealStep
<1>6. QED
  BY <1>1, <1>2, <1>3, <1>4, <1>5 DEF ErrorInv

LEMMA ErrorInit == Init => ErrorInv
<1> SUFFICES ASSUME Init PROVE ErrorInv
  OBVIOUS
<1>1. stack = << >> /\ Sent = << >>
  BY DEF Init, Sent
<1>2. Len(stack) = 0 /\ Len(Sent) = 0
  BY <1>1
<1>3. ErrorsAreOffspec /\ ~ErrorOut /\ NothingReal
  BY <1>2 DEF ErrorsAreOffspec, ErrorOut, NothingReal
<1>4. QED
  BY <1>3 DEF ErrorInv, ErrorsPass

ErrorsInv == StreamInv /\ InjectorType /\ ScheduleInv /\ ErrorInv

(***************************************************************************)
(* A disconnect keyed on the error another spec injects cuts behind it     *)
(* before the handler goes on, at any depth of injection and with any      *)
(* other specs: no real frame follows the error, and the response ends by  *)
(* a spec, its event, an exception or the client (matchAndFire).           *)
(***************************************************************************)
THEOREM CutsFollowErrors == Spec => []CutFollowsError
<1>1. Init => ErrorsInv
  BY StreamInit, InjectorTypeInit, ScheduleInit, ErrorInit DEF ErrorsInv
<1>2. ErrorsInv /\ [Next]_vars => ErrorsInv'
  BY StreamStep, InjectorTypeStep, ScheduleStep, ErrorStep DEF ErrorsInv, ScheduleInv
<1>3. ErrorsInv => CutFollowsError
  <2> SUFFICES ASSUME ErrorsInv, Cutter, NEW k \in 1..Len(Sent), Sent[k].event = "error"
               PROVE  /\ \A j \in (k + 1)..Len(Sent) : ~IsReal(Sent[j])
                      /\ phase = "over" => cause[1] \in {"spec", "event", "exception", "client"}
    BY DEF CutFollowsError, Cutter
  <2>1. NothingReal /\ Ending
    BY DEF ErrorsInv, ErrorInv, ErrorOut
  <2>2. QED
    BY <2>1 DEF NothingReal, Ending
<1>4. QED
  BY <1>1, <1>2, <1>3, PTL DEF Spec
-----------------------------------------------------------------------------
(***************************************************************************)
(* Content blocks.  The response opens its own blocks 0, 1, ... once each. *)
(***************************************************************************)
BlockStarts == {"content_block_start", "contentBlockStart"}
Silent == { f \in ScriptFrames : f.event \notin BlockStarts }

Opens(s, lo, hi) ==
  /\ s \in Seq(ScriptFrames)
  /\ \A p \in 1..Len(s) : Starts(s[p]) => s[p].block \in lo..(hi - 1)
  /\ \A p, q \in 1..Len(s) :
       Starts(s[p]) /\ Starts(s[q]) /\ s[p].block = s[q].block => p = q

LEMMA SilentOpens ==
  ASSUME NEW s \in Seq(Silent), NEW lo \in Int, NEW hi \in Int
  PROVE  Opens(s, lo, hi)
<1>1. s \in Seq(ScriptFrames)
  BY SeqMonotonic DEF Silent
<1>2. \A p \in 1..Len(s) : ~Starts(s[p])
  BY ElementOfSeq DEF Silent, Starts, BlockStarts
<1>3. QED
  BY <1>1, <1>2 DEF Opens

LEMMA FirstOpens ==
  ASSUME NEW s \in Seq(ScriptFrames), NEW b \in Int, s[1].block = b,
         \A p \in 1..Len(s) : p # 1 => s[p].event \notin BlockStarts
  PROVE  Opens(s, b, b + 1)
<1>1. \A p \in 1..Len(s) : Starts(s[p]) => p = 1
  BY DEF Starts, BlockStarts
<1>2. b \in b..(b + 1 - 1)
  OBVIOUS
<1>3. \A p \in 1..Len(s) : Starts(s[p]) => s[p].block \in b..(b + 1 - 1)
  BY <1>1, <1>2
<1>4. QED
  BY <1>1, <1>3 DEF Opens

LEMMA OpensWithin ==
  ASSUME NEW s, NEW lo \in Int, NEW mid \in Int, NEW hi \in Int, mid <= hi,
         Opens(s, lo, mid)
  PROVE  Opens(s, lo, hi)
<1>1. lo..(mid - 1) \subseteq lo..(hi - 1)
  OBVIOUS
<1>2. QED
  BY <1>1 DEF Opens

LEMMA OpensJoin ==
  ASSUME NEW lo \in Int, NEW mid \in Int, NEW hi \in Int, lo <= mid, mid <= hi,
         NEW s, NEW t, Opens(s, lo, mid), Opens(t, mid, hi)
  PROVE  Opens(s \o t, lo, hi)
<1> DEFINE u == s \o t
<1>1. /\ s \in Seq(ScriptFrames) /\ t \in Seq(ScriptFrames)
      /\ Len(s) \in Nat /\ Len(t) \in Nat
  BY LenProperties DEF Opens
<1>2. /\ u \in Seq(ScriptFrames) /\ Len(u) = Len(s) + Len(t)
      /\ \A k \in 1..Len(s) : u[k] = s[k]
      /\ \A k \in 1..Len(t) : u[Len(s) + k] = t[k]
  BY <1>1, ConcatParts
<1> HIDE DEF u
<1>3. \A k \in 1..Len(u) : k \notin 1..Len(s) =>
        k - Len(s) \in 1..Len(t) /\ u[k] = t[k - Len(s)]
  <2> SUFFICES ASSUME NEW k \in 1..Len(u), k \notin 1..Len(s)
               PROVE  k - Len(s) \in 1..Len(t) /\ u[k] = t[k - Len(s)]
    OBVIOUS
  <2>1. k - Len(s) \in 1..Len(t) /\ Len(s) + (k - Len(s)) = k
    BY <1>1, <1>2
  <2>2. u[Len(s) + (k - Len(s))] = t[k - Len(s)]
    BY <1>2, <2>1
  <2>3. QED
    BY <2>1, <2>2
<1>4. \A k \in 1..Len(u) : Starts(u[k]) =>
        u[k].block \in (IF k \in 1..Len(s) THEN lo..(mid - 1) ELSE mid..(hi - 1))
  <2> SUFFICES ASSUME NEW k \in 1..Len(u), Starts(u[k])
               PROVE  u[k].block \in (IF k \in 1..Len(s) THEN lo..(mid - 1) ELSE mid..(hi - 1))
    OBVIOUS
  <2>1. CASE k \in 1..Len(s)
    BY <1>2, <2>1 DEF Opens
  <2>2. CASE k \notin 1..Len(s)
    BY <1>3, <2>2 DEF Opens
  <2>3. QED
    BY <2>1, <2>2
<1>5. \A k \in 1..Len(u) : Starts(u[k]) => u[k].block \in lo..(hi - 1)
  BY <1>4
<1>6. ASSUME NEW p \in 1..Len(u), NEW q \in 1..Len(u), Starts(u[p]), Starts(u[q]),
             u[p].block = u[q].block
      PROVE  p = q
  <2>1. CASE p \in 1..Len(s) /\ q \in 1..Len(s)
    BY <1>2, <1>6, <2>1 DEF Opens
  <2>2. CASE p \notin 1..Len(s) /\ q \notin 1..Len(s)
    <3>1. /\ p - Len(s) \in 1..Len(t) /\ u[p] = t[p - Len(s)]
          /\ q - Len(s) \in 1..Len(t) /\ u[q] = t[q - Len(s)]
      BY <1>3, <2>2
    <3>2. p - Len(s) = q - Len(s)
      BY <1>6, <3>1 DEF Opens
    <3>3. QED
      BY <1>1, <1>2, <3>2
  <2>3. CASE (p \in 1..Len(s)) # (q \in 1..Len(s))
    <3>1. /\ u[p].block \in (IF p \in 1..Len(s) THEN lo..(mid - 1) ELSE mid..(hi - 1))
          /\ u[q].block \in (IF q \in 1..Len(s) THEN lo..(mid - 1) ELSE mid..(hi - 1))
      BY <1>4, <1>6
    <3>2. CASE p \in 1..Len(s) /\ q \notin 1..Len(s)
      BY <1>6, <3>1, <3>2
    <3>3. CASE p \notin 1..Len(s) /\ q \in 1..Len(s)
      BY <1>6, <3>1, <3>3
    <3>4. QED
      BY <2>3, <3>2, <3>3
  <2>4. QED
    BY <2>1, <2>2, <2>3
<1>7. QED
  BY <1>2, <1>5, <1>6 DEF Opens, u

LEMMA ScriptOpensOnce ==
  ASSUME NEW c \in Configs
  PROVE  Opens(Script(c), 0, 3)
<1> DEFINE U == Silent
           tb == TextBlock(c)
           n == c.deltas
<1>1. /\ c.surface \in Surfaces /\ n \in Nat
      /\ NoBlock \in Int /\ tb \in {0, 1} /\ tb \in Int /\ tb + 1 \in Int /\ 0 \in Int
      /\ c.thinking <=> tb = 1
  BY ConfigAssumption DEF NoBlock, TextBlock
<1>2. /\ \A e \in EventNames \ BlockStarts, b \in Int :
           Frame(e, b) \in U /\ [Frame(e, b) EXCEPT !.waits = TRUE] \in U
      /\ \A e \in EventNames \ BlockStarts, b \in Int, i \in Nat :
           [Frame(e, b) EXCEPT !.chunk = i] \in U
  BY DEF Frame, ScriptFrames, Silent
<1>3. \A e \in EventNames, b \in Int :
        /\ Frame(e, b) \in ScriptFrames /\ Frame(e, b).block = b
  BY DEF Frame, ScriptFrames
<1>4. /\ \A s \in Seq(U) : \A t : If(t, s) \in Seq(U)
      /\ << >> \in Seq(U)
  BY EmptySeq DEF If
<1>5. ASSUME NEW e \in EventNames \ BlockStarts, NEW b \in Int
      PROVE  Deltas(e, b, n) \in Seq(U)
  <2>1. Deltas(e, b, n) \in [1..n -> U]
    BY <1>1 DEF Deltas, ScriptFrames, Silent
  <2>2. QED
    BY <1>1, <2>1, SeqDef
<1>6. \A f \in U : f \in ScriptFrames /\ f.event \notin BlockStarts
  BY DEF Silent
<1> HIDE DEF U, tb, n
<1>7. Opens(AnthropicStream(c), 0, 3)
  <2> DEFINE pre == << Frame("message_start", NoBlock) >>
                    \o If(c.ping, << Frame("ping", NoBlock) >>)
             thought == << Frame("content_block_start", 0),
                           [Frame("content_block_delta", 0) EXCEPT !.waits = TRUE],
                           Frame("content_block_delta", 0),
                           Frame("content_block_stop", 0) >>
             think == If(c.thinking, thought)
             start == << Frame("content_block_start", tb) >>
             deltas == Deltas("content_block_delta", tb, n)
             stop == << Frame("content_block_stop", tb) >>
             use == << Frame("content_block_start", tb + 1),
                       Frame("content_block_delta", tb + 1),
                       Frame("content_block_delta", tb + 1),
                       Frame("content_block_delta", tb + 1),
                       Frame("content_block_stop", tb + 1) >>
             tool == If(c.tool, use)
             end == << Frame("message_delta", NoBlock), Frame("message_stop", NoBlock) >>
  <2>1. pre \in Seq(U) /\ end \in Seq(U)
    <3>1. /\ << Frame("message_start", NoBlock) >> \in Seq(U)
          /\ If(c.ping, << Frame("ping", NoBlock) >>) \in Seq(U)
          /\ end \in Seq(U)
      BY <1>1, <1>2, <1>4, Joins DEF EventNames, BlockStarts
    <3>2. QED
      BY <3>1, Joins
  <2>2. deltas \in Seq(U) /\ stop \in Seq(U)
    BY <1>1, <1>2, <1>5, Joins DEF EventNames, BlockStarts
  <2>3. Opens(thought, 0, 0 + 1)
    <3> DEFINE a == Frame("content_block_start", 0)
               d1 == [Frame("content_block_delta", 0) EXCEPT !.waits = TRUE]
               d2 == Frame("content_block_delta", 0)
               z == Frame("content_block_stop", 0)
    <3>1. a \in ScriptFrames /\ a.block = 0 /\ d1 \in U /\ d2 \in U /\ z \in U
      BY <1>1, <1>2, <1>3 DEF EventNames, BlockStarts
    <3>2. thought = << a, d1, d2, z >>
      OBVIOUS
    <3> HIDE DEF a, d1, d2, z, thought
    <3>3. thought \in Seq(ScriptFrames)
      BY <1>6, <3>1, <3>2, Joins
    <3>4. thought[1].block = 0 /\ \A p \in 1..Len(thought) : p # 1 => thought[p].event \notin BlockStarts
      BY <1>6, <3>1, <3>2
    <3>5. QED
      BY <1>1, <3>3, <3>4, FirstOpens
  <2>4. Opens(use, tb + 1, tb + 1 + 1)
    <3> DEFINE a == Frame("content_block_start", tb + 1)
               d == Frame("content_block_delta", tb + 1)
               z == Frame("content_block_stop", tb + 1)
    <3>1. a \in ScriptFrames /\ a.block = tb + 1 /\ d \in U /\ z \in U
      BY <1>1, <1>2, <1>3 DEF EventNames, BlockStarts
    <3>2. use = << a, d, d, d, z >>
      OBVIOUS
    <3> HIDE DEF a, d, z, use
    <3>3. use \in Seq(ScriptFrames)
      BY <1>6, <3>1, <3>2, Joins
    <3>4. use[1].block = tb + 1 /\ \A p \in 1..Len(use) : p # 1 => use[p].event \notin BlockStarts
      BY <1>6, <3>1, <3>2
    <3>5. QED
      BY <1>1, <3>3, <3>4, FirstOpens
  <2>5. Opens(start, tb, tb + 1)
    <3> DEFINE a == Frame("content_block_start", tb)
    <3>1. a \in ScriptFrames /\ a.block = tb
      BY <1>1, <1>3 DEF EventNames
    <3> HIDE DEF a
    <3>2. << a >> \in Seq(ScriptFrames)
      BY <3>1, Joins
    <3>3. << a >>[1].block = tb /\ \A p \in 1..Len(<< a >>) : p = 1
      BY <3>1
    <3>4. Opens(<< a >>, tb, tb + 1)
      BY <1>1, <3>2, <3>3, FirstOpens
    <3>5. QED
      BY <3>4 DEF a
  <2>6. AnthropicStream(c) = pre \o think \o start \o deltas \o stop \o tool \o end
    <3>1. << Frame("message_start", NoBlock) >> \o If(c.ping, << Frame("ping", NoBlock) >>) = pre
      BY Zenon DEF pre
    <3>2. QED
      BY <3>1, Zenon DEF AnthropicStream, tb, n
  <2>7. << >> \in Seq(Silent)
    BY <1>4 DEF U
  <2>8. Opens(think, 0, tb)
    <3>1. CASE c.thinking
      BY <1>1, <2>3, <3>1 DEF If
    <3>2. CASE ~c.thinking
      BY <1>1, <2>7, <3>2, SilentOpens DEF If
    <3>3. QED
      BY <3>1, <3>2
  <2>9. Opens(tool, tb + 1, 3)
    <3> DEFINE lo == tb + 1
               mid == tb + 1 + 1
    <3>4. lo \in Int /\ mid \in Int /\ mid <= 3 /\ 3 \in Int /\ Opens(use, lo, mid)
      BY <1>1, <2>4
    <3>1. CASE c.tool
      <4>1. tool = use
        BY <3>1 DEF If
      <4> HIDE DEF lo, mid, use, tool
      <4>2. Opens(use, lo, 3)
        BY <3>4, OpensWithin
      <4>3. Opens(tool, lo, 3)
        BY <4>1, <4>2
      <4>4. QED
        BY <4>3 DEF lo
    <3>2. CASE ~c.tool
      <4>1. tool = << >>
        BY <3>2 DEF If
      <4> HIDE DEF lo, mid, use, tool
      <4>2. Opens(<< >>, lo, 3)
        BY <2>7, <3>4, SilentOpens
      <4>3. Opens(tool, lo, 3)
        BY <4>1, <4>2
      <4>4. QED
        BY <4>3 DEF lo
    <3>3. QED
      BY <3>1, <3>2
  <2> HIDE DEF pre, think, start, deltas, stop, tool, end
  <2>10. Opens(pre, 0, 0) /\ Opens(deltas, tb + 1, tb + 1) /\ Opens(stop, tb + 1, tb + 1)
         /\ Opens(end, 3, 3)
    BY <1>1, <2>1, <2>2, SilentOpens DEF U
  <2>11. Opens(pre \o think, 0, tb)
    BY <1>1, <2>8, <2>10, OpensJoin
  <2>12. Opens(pre \o think \o start, 0, tb + 1)
    BY <1>1, <2>5, <2>11, OpensJoin
  <2>13. Opens(pre \o think \o start \o deltas, 0, tb + 1)
    BY <1>1, <2>10, <2>12, OpensJoin
  <2>14. Opens(pre \o think \o start \o deltas \o stop, 0, tb + 1)
    BY <1>1, <2>10, <2>13, OpensJoin
  <2>15. Opens(pre \o think \o start \o deltas \o stop \o tool, 0, 3)
    BY <1>1, <2>9, <2>14, OpensJoin
  <2>16. Opens(pre \o think \o start \o deltas \o stop \o tool \o end, 0, 3)
    BY <1>1, <2>10, <2>15, OpensJoin
  <2>17. QED
    BY <2>6, <2>16
<1>8. OpenAIChatStream(c) \in Seq(U)
  <2>1. << Frame("", NoBlock) >> \in Seq(U) /\ Deltas("", NoBlock, n) \in Seq(U)
    BY <1>1, <1>2, <1>5, Joins DEF EventNames, BlockStarts
  <2>2. /\ If(c.tool, << Frame("", NoBlock) >>) \in Seq(U)
        /\ If(c.usage, << Frame("", NoBlock) >>) \in Seq(U)
    BY <1>4, <2>1
  <2>3. QED
    BY <2>1, <2>2, Joins DEF OpenAIChatStream, n
<1>9. CompletionsStream(c) \in Seq(U)
  <2>1. \A i \in 1..2 : [Frame("", NoBlock) EXCEPT !.chunk = i] \in U
    <3>1. "" \in EventNames \ BlockStarts /\ \A i \in 1..2 : i \in Nat
      BY DEF EventNames, BlockStarts
    <3>2. QED
      BY <1>1, <1>2, <3>1, Zenon
  <2>2. CompletionsStream(c) \in [1..2 -> U]
    BY <2>1 DEF CompletionsStream
  <2>3. QED
    BY <2>2, SeqDef
<1>10. ResponsesStream(c) \in Seq(U)
  <2>1. << Frame("response.created", NoBlock), Frame("response.output_item.added", NoBlock),
           Frame("response.content_part.added", NoBlock) >> \in Seq(U)
    BY <1>1, <1>2, Joins DEF EventNames, BlockStarts
  <2>2. << Frame("response.output_text.done", NoBlock),
           Frame("response.content_part.done", NoBlock),
           Frame("response.output_item.done", NoBlock),
           Frame("response.completed", NoBlock) >> \in Seq(U)
    BY <1>1, <1>2, Joins DEF EventNames, BlockStarts
  <2>3. Deltas("response.output_text.delta", NoBlock, n) \in Seq(U)
    BY <1>1, <1>5 DEF EventNames, BlockStarts
  <2>4. QED
    BY <2>1, <2>2, <2>3, Joins DEF ResponsesStream, n
<1>11. BedrockConverseStream(c) \in Seq(U)
  <2>1. << Frame("messageStart", NoBlock) >> \in Seq(U)
    BY <1>1, <1>2, Joins DEF EventNames, BlockStarts
  <2>2. << Frame("contentBlockStop", 0), Frame("messageStop", NoBlock),
           Frame("metadata", NoBlock) >> \in Seq(U)
    BY <1>1, <1>2, Joins DEF EventNames, BlockStarts
  <2>3. Deltas("contentBlockDelta", 0, n) \in Seq(U)
    BY <1>1, <1>5 DEF EventNames, BlockStarts
  <2>4. QED
    BY <2>1, <2>2, <2>3, Joins DEF BedrockConverseStream, n
<1>12. \A s \in Seq(U) : Opens(s, 0, 3)
  BY SilentOpens DEF U
<1>13. QED
  BY <1>1, <1>7, <1>8, <1>9, <1>10, <1>11, <1>12 DEF Script, Surfaces

\* The blocks opened by what has been sent, and where their starts are from.
OpenBlocks == { Sent[k].block : k \in { i \in 1..Len(Sent) : Starts(Sent[i]) } }

StartsOnce ==
  \A i, j \in 1..Len(Sent) :
    Starts(Sent[i]) /\ Starts(Sent[j]) /\ Sent[i].block = Sent[j].block => i = j

StopsFollow ==
  \A j \in 1..Len(Sent) :
    Stops(Sent[j]) /\ ~IsReal(Sent[j]) =>
      \E k \in 1..(j - 1) : Starts(Sent[k]) /\ Sent[k].block = Sent[j].block

Origin(f) ==
  IF IsReal(f)
  THEN f.pos \in 1..Len(script) /\ Starts(script[f.pos]) /\ f.block = script[f.pos].block
  ELSE f.block \in 50..(blockIndex - 1)

StartsInv == \A k \in 1..Len(Sent) : Starts(Sent[k]) => Origin(Sent[k])

SentBlocks == StartsOnce /\ StopsFollow /\ StartsInv

\* Item j of a list: a start is due at once and its index is still free, a stop
\* comes after its start.
Sound(todo, j, top, open, index) ==
  /\ todo[j].op = "block" => todo[j].block = NoBlock
  /\ Starts(todo[j]) => top /\ j = 1 /\ todo[j].block \in (50..(index - 1)) \ open
  /\ Stops(todo[j]) =>
       \/ todo[j].block \in open
       \/ j = 2 /\ Starts(todo[1]) /\ todo[1].block = todo[j].block

TodoInv ==
  phase = "match" =>
    \A d \in 1..Len(stack) : \A j \in 1..Len(stack[d].todo) :
      Sound(stack[d].todo, j, d = Len(stack), OpenBlocks, blockIndex)

BlocksInv == SentBlocks /\ TodoInv

LEMMA BlockIndexGrows ==
  ASSUME StreamInv, InjectorType, [Next]_vars
  PROVE  /\ UNCHANGED response /\ blockIndex \in Nat /\ blockIndex' \in Nat
         /\ blockIndex' = blockIndex \/ (OpenBlock /\ blockIndex' = blockIndex + 1)
         /\ \A f : Origin(f) => Origin(f)'
<1>1. UNCHANGED response /\ blockIndex \in Nat /\ blockIndex' \in Nat
  BY WireGrows, InjectorTypeStep DEF InjectorType
<1>2. blockIndex' = blockIndex \/ (OpenBlock /\ blockIndex' = blockIndex + 1)
  <2>1. CASE WaitOver \/ NoLegacyFault \/ CorruptChunk \/ Ping \/ GiveUp \/ Sever \/ StallOver
    BY <2>1, HandlerMoves DEF injector
  <2>2. CASE NextFrame \/ Finish \/ ClientLeaves \/ TimePasses \/ UNCHANGED vars
    BY <2>2 DEF NextFrame, Finish, ClientLeaves, TimePasses, vars, injector
  <2>3. CASE EmitFrame
    BY <2>3 DEF EmitFrame
  <2>4. CASE afterFrame
    BY <2>4 DEF afterFrame, MatchDone, Skip, FireDisconnect, FireStall, FireCorrupt,
       FireException, FireInjection, Firing, OpenBlock, FailValidation, EmitInjected, injector
  <2>5. QED
    BY <2>1, <2>2, <2>3, <2>4 DEF Next, Handler
<1>3. ASSUME NEW f, Origin(f)
      PROVE  Origin(f)'
  <2>1. script' = script
    BY <1>1 DEF response
  <2>2. CASE IsReal(f)
    BY <1>3, <2>1, <2>2 DEF Origin
  <2>3. CASE ~IsReal(f)
    <3>1. f.block \in 50..(blockIndex - 1)
      BY <1>3, <2>3 DEF Origin
    <3>2. f.block \in 50..(blockIndex' - 1)
      BY <1>1, <1>2, <3>1
    <3>3. QED
      BY <2>3, <3>2 DEF Origin
  <2>4. QED
    BY <2>2, <2>3
<1>4. QED
  BY <1>1, <1>2, <1>3

LEMMA SentBlocksKeep ==
  ASSUME StreamInv, InjectorType, [Next]_vars, SentBlocks, Keeps
  PROVE  SentBlocks'
<1>1. Len(Sent) \in Nat /\ Len(Sent') \in Nat
  BY StreamStep, SentIsFinite DEF StreamInv
<1>2. Len(Sent') <= Len(Sent) /\ \A k \in 1..Len(Sent') : k \in 1..Len(Sent) /\ Sent'[k] = Sent[k]
  BY <1>1 DEF Keeps
<1>3. StartsOnce'
  BY <1>2 DEF SentBlocks, StartsOnce
<1>4. StopsFollow'
  <2> SUFFICES ASSUME NEW j \in 1..Len(Sent'), Stops(Sent'[j]), ~IsReal(Sent'[j])
               PROVE  \E k \in 1..(j - 1) : Starts(Sent'[k]) /\ Sent'[k].block = Sent'[j].block
    BY DEF StopsFollow
  <2>1. PICK k \in 1..(j - 1) : Starts(Sent[k]) /\ Sent[k].block = Sent[j].block
    BY <1>2 DEF SentBlocks, StopsFollow
  <2>2. k \in 1..Len(Sent')
    BY <1>1, <2>1
  <2>3. QED
    BY <1>2, <2>1, <2>2
<1>5. StartsInv'
  BY <1>2, BlockIndexGrows DEF SentBlocks, StartsInv
<1>6. QED
  BY <1>3, <1>4, <1>5 DEF SentBlocks

LEMMA SentBlocksAdd ==
  ASSUME StreamInv, InjectorType, [Next]_vars, SentBlocks, NEW f, Adds(f),
         Starts(f) => f.block \notin OpenBlocks /\ Origin(f),
         Stops(f) /\ ~IsReal(f) => f.block \in OpenBlocks
  PROVE  SentBlocks'
<1> DEFINE n == Len(Sent)
<1>1. n \in Nat /\ Len(Sent') = n + 1 /\ Sent'[n + 1] = f /\ \A k \in 1..n : Sent'[k] = Sent[k]
  BY SentIsFinite DEF StreamInv, Adds
<1>2. \A k \in 1..n : Starts(Sent[k]) => Sent[k].block \in OpenBlocks
  BY DEF OpenBlocks
<1>3. \A b \in OpenBlocks : \E k \in 1..n : Starts(Sent[k]) /\ Sent[k].block = b
  BY DEF OpenBlocks
<1>4. StartsOnce /\ StopsFollow /\ StartsInv
  BY DEF SentBlocks
<1>5. StartsOnce'
  <2> SUFFICES ASSUME NEW i \in 1..Len(Sent'), NEW j \in 1..Len(Sent'),
                      Starts(Sent'[i]), Starts(Sent'[j]), Sent'[i].block = Sent'[j].block
               PROVE  i = j
    BY DEF StartsOnce
  <2>1. (i \in 1..n \/ i = n + 1) /\ (j \in 1..n \/ j = n + 1)
    BY <1>1
  <2>2. CASE i \in 1..n /\ j \in 1..n
    BY <1>1, <1>4, <2>2 DEF StartsOnce
  <2>3. CASE i \in 1..n /\ j = n + 1
    BY <1>1, <1>2, <2>3
  <2>4. CASE i = n + 1 /\ j \in 1..n
    BY <1>1, <1>2, <2>4
  <2>5. QED
    BY <2>1, <2>2, <2>3, <2>4
<1>6. StopsFollow'
  <2> SUFFICES ASSUME NEW j \in 1..Len(Sent'), Stops(Sent'[j]), ~IsReal(Sent'[j])
               PROVE  \E k \in 1..(j - 1) : Starts(Sent'[k]) /\ Sent'[k].block = Sent'[j].block
    BY DEF StopsFollow
  <2>1. CASE j \in 1..n
    <3>1. PICK k \in 1..(j - 1) : Starts(Sent[k]) /\ Sent[k].block = Sent[j].block
      BY <1>1, <1>4, <2>1 DEF StopsFollow
    <3>2. k \in 1..n
      BY <1>1, <2>1
    <3>3. QED
      BY <1>1, <2>1, <3>1, <3>2
  <2>2. CASE j = n + 1
    <3>1. PICK k \in 1..n : Starts(Sent[k]) /\ Sent[k].block = f.block
      BY <1>1, <1>3, <2>2
    <3>2. k \in 1..(j - 1)
      BY <1>1, <2>2
    <3>3. QED
      BY <1>1, <2>2, <3>1, <3>2
  <2>3. QED
    BY <1>1, <2>1, <2>2
<1>7. StartsInv'
  <2> SUFFICES ASSUME NEW k \in 1..Len(Sent'), Starts(Sent'[k])
               PROVE  Origin(Sent[k])'
    BY DEF StartsInv
  <2>1. Origin(Sent'[k])
    BY <1>1, <1>4 DEF StartsInv
  <2>2. \A g : Origin(g) => Origin(g)'
    BY BlockIndexGrows
  <2>3. QED
    BY <2>1, <2>2
<1>8. QED
  BY <1>5, <1>6, <1>7 DEF SentBlocks

LEMMA SentBlocksInsert ==
  ASSUME StreamInv, InjectorType, [Next]_vars, SentBlocks, NEW f, Inserts(f),
         ~Starts(f), ~Stops(f)
  PROVE  SentBlocks'
<1> DEFINE n == Len(Sent)
<1>1. PICK w \in 0..n :
        /\ Len(Sent') = n + 1 /\ Sent'[w + 1] = f
        /\ \A k \in 1..w : Sent'[k] = Sent[k]
        /\ \A k \in (w + 1)..n : Sent'[k + 1] = Sent[k]
  BY DEF Inserts
<1>2. n \in Nat
  BY SentIsFinite DEF StreamInv
<1> DEFINE at(k) == IF k <= w THEN k ELSE k - 1
           to(k) == IF k <= w THEN k ELSE k + 1
<1>3. \A k \in 1..Len(Sent') : k # w + 1 => at(k) \in 1..n /\ to(at(k)) = k /\ Sent'[k] = Sent[at(k)]
  <2> SUFFICES ASSUME NEW k \in 1..Len(Sent'), k # w + 1
               PROVE  at(k) \in 1..n /\ to(at(k)) = k /\ Sent'[k] = Sent[at(k)]
    OBVIOUS
  <2>1. CASE k <= w
    BY <1>1, <1>2, <2>1
  <2>2. CASE k > w
    <3>1. k - 1 \in (w + 1)..n /\ k - 1 + 1 = k
      BY <1>1, <1>2, <2>2
    <3>2. Sent'[k - 1 + 1] = Sent[k - 1]
      BY <1>1, <3>1
    <3>3. QED
      BY <1>1, <1>2, <2>2, <3>1, <3>2
  <2>3. QED
    BY <1>1, <1>2, <2>1, <2>2
<1>4. \A k \in 1..n : to(k) \in 1..(n + 1) /\ Sent'[to(k)] = Sent[k]
  BY <1>1, <1>2
<1>5. \A k \in 1..Len(Sent') : Starts(Sent'[k]) \/ Stops(Sent'[k]) => k # w + 1
  BY <1>1
<1>6. StartsOnce /\ StopsFollow /\ StartsInv
  BY DEF SentBlocks
<1>7. StartsOnce'
  <2> SUFFICES ASSUME NEW i \in 1..Len(Sent'), NEW j \in 1..Len(Sent'),
                      Starts(Sent'[i]), Starts(Sent'[j]), Sent'[i].block = Sent'[j].block
               PROVE  i = j
    BY DEF StartsOnce
  <2>1. /\ at(i) \in 1..n /\ to(at(i)) = i /\ Sent'[i] = Sent[at(i)]
        /\ at(j) \in 1..n /\ to(at(j)) = j /\ Sent'[j] = Sent[at(j)]
    BY <1>3, <1>5
  <2> HIDE DEF at, to
  <2>2. at(i) = at(j)
    BY <1>6, <2>1 DEF StartsOnce
  <2>3. QED
    BY <2>1, <2>2
<1>8. StopsFollow'
  <2> SUFFICES ASSUME NEW j \in 1..Len(Sent'), Stops(Sent'[j]), ~IsReal(Sent'[j])
               PROVE  \E k \in 1..(j - 1) : Starts(Sent'[k]) /\ Sent'[k].block = Sent'[j].block
    BY DEF StopsFollow
  <2>1. j # w + 1 /\ at(j) \in 1..n /\ to(at(j)) = j /\ Sent'[j] = Sent[at(j)]
    BY <1>3, <1>5
  <2>2. PICK k \in 1..(at(j) - 1) : Starts(Sent[k]) /\ Sent[k].block = Sent[at(j)].block
    <3> HIDE DEF at, to
    <3>1. QED
      BY <1>6, <2>1 DEF StopsFollow
  <2>3. k \in 1..n /\ to(k) \in 1..(j - 1)
    BY <1>2, <2>1, <2>2
  <2>4. Sent'[to(k)] = Sent[k]
    BY <1>4, <2>3
  <2>5. QED
    BY <2>1, <2>2, <2>3, <2>4
<1>9. StartsInv'
  <2> SUFFICES ASSUME NEW k \in 1..Len(Sent'), Starts(Sent'[k])
               PROVE  Origin(Sent[k])'
    BY DEF StartsInv
  <2>1. at(k) \in 1..n /\ Sent'[k] = Sent[at(k)]
    BY <1>3, <1>5
  <2> HIDE DEF at, to
  <2>2. Origin(Sent'[k])
    BY <1>6, <2>1 DEF StartsInv
  <2>3. \A g : Origin(g) => Origin(g)'
    BY BlockIndexGrows
  <2>4. QED
    BY <2>2, <2>3
<1>10. QED
  BY <1>7, <1>8, <1>9 DEF SentBlocks

LEMMA OpenBlocksAdd ==
  ASSUME Sequences, NEW f, Adds(f)
  PROVE  OpenBlocks' = OpenBlocks \cup (IF Starts(f) THEN {f.block} ELSE {})
<1>1. /\ Len(Sent) \in Nat /\ Len(Sent') = Len(Sent) + 1 /\ Sent'[Len(Sent) + 1] = f
      /\ \A k \in 1..Len(Sent) : k \in 1..Len(Sent') /\ Sent'[k] = Sent[k]
  BY SentIsFinite DEF Adds
<1>2. \A k \in 1..Len(Sent') : k \in 1..Len(Sent) \/ k = Len(Sent) + 1
  BY <1>1
<1>3. Len(Sent) + 1 \in 1..Len(Sent')
  BY <1>1
<1>4. OpenBlocks \subseteq OpenBlocks'
  BY <1>1 DEF OpenBlocks
<1>5. Starts(f) => f.block \in OpenBlocks'
  BY <1>1, <1>3 DEF OpenBlocks
<1>6. ASSUME NEW b \in OpenBlocks'
      PROVE  b \in OpenBlocks \/ (Starts(f) /\ b = f.block)
  <2>1. PICK k \in 1..Len(Sent') : Starts(Sent'[k]) /\ Sent'[k].block = b
    BY DEF OpenBlocks
  <2>2. CASE k \in 1..Len(Sent)
    BY <1>1, <2>1, <2>2 DEF OpenBlocks
  <2>3. CASE k = Len(Sent) + 1
    BY <1>1, <2>1, <2>3
  <2>4. QED
    BY <1>2, <2>2, <2>3
<1>7. QED
  BY <1>4, <1>5, <1>6

\* A block the handler opens is its own and has not been opened.
LEMMA RealStartsAreFresh ==
  ASSUME StreamInv, InjectorType, SentBlocks, EmitFrame, Starts(Now)
  PROVE  /\ Now.block \notin OpenBlocks
         /\ Origin(OnWire(Now.event, Now.block, pos))
<1>1. pos \in 1..Len(script) /\ phase = "emit" /\ Uncut /\ Len(script) \in Nat
  BY NowIsTyped DEF EmitFrame, At, StreamInv, ControlInv
<1>2. Opens(script, 0, 3)
  BY ScriptOpensOnce DEF InjectorType
<1>3. Now.block \in 0..2
  BY <1>1, <1>2 DEF Opens, Now
<1>4. Written = 1..(pos - 1)
  BY <1>1 DEF StreamInv, FlowInv, Out
<1>5. ASSUME Now.block \in OpenBlocks
      PROVE  FALSE
  <2>1. PICK k \in 1..Len(Sent) : Starts(Sent[k]) /\ Sent[k].block = Now.block
    BY <1>5 DEF OpenBlocks
  <2>2. Origin(Sent[k]) /\ Sent[k].pos \in Nat
    BY <2>1, SentIsFinite DEF SentBlocks, StartsInv, StreamInv
  <2>3. IsReal(Sent[k])
    <3> SUFFICES ASSUME ~IsReal(Sent[k]) PROVE FALSE
      OBVIOUS
    <3>1. Now.block \in 50..(blockIndex - 1)
      BY <2>1, <2>2 DEF Origin
    <3>2. QED
      BY <1>3, <3>1 DEF InjectorType
  <2> DEFINE q == Sent[k].pos
  <2>4. q \in 1..Len(script) /\ Starts(script[q]) /\ script[q].block = Now.block
    BY <2>1, <2>2, <2>3 DEF Origin
  <2>5. q = pos
    BY <1>1, <1>2, <2>4 DEF Opens, Now
  <2>6. q \in Written
    <3>1. q \in { Sent[i].pos : i \in 1..Len(Sent) } /\ q # 0
      BY <2>4
    <3>2. QED
      BY <3>1, SentIsFinite DEF StreamInv
  <2>7. QED
    BY <1>1, <1>4, <2>5, <2>6
<1>6. Origin(OnWire(Now.event, Now.block, pos))
  BY <1>1 DEF Origin, OnWire, IsReal, Now
<1>7. QED
  BY <1>5, <1>6

LEMMA SentBlocksStep ==
  ASSUME StreamInv, InjectorType, BlocksInv, [Next]_vars
  PROVE  SentBlocks'
<1>1. SentBlocks /\ TodoInv /\ Len(Sent) \in Nat
  BY SentIsFinite DEF BlocksInv, StreamInv
<1>2. ASSUME NEW f, f.block = NoBlock
      PROVE  ~Starts(f) /\ ~Stops(f)
  BY <1>2 DEF Starts, Stops
<1>3. CASE Keeps \/ UNCHANGED sink
  <2>1. Keeps
    BY <1>1, <1>3, SentIsKept
  <2>2. QED
    BY <1>1, <2>1, SentBlocksKeep
<1>4. ASSUME NEW f, f.block = NoBlock, Adds(f) \/ Inserts(f)
      PROVE  SentBlocks'
  BY <1>1, <1>2, <1>4, SentBlocksAdd, SentBlocksInsert
<1>5. CASE ~Busy
  <2>1. CASE Adds(OnWire("[DONE]", NoBlock, Total))
    BY <1>4, <2>1 DEF OnWire
  <2>2. QED
    BY <1>3, <1>5, <2>1, EndsForGood, FinishSends
<1>6. CASE Busy
  <2>1. CASE \E f : Neutral(f) /\ Adds(f)
    BY <1>4, <2>1 DEF Neutral
  <2>2. CASE CorruptChunk /\ Inserts(Corrupt)
    BY <1>4, <2>2 DEF Corrupt, OnWire
  <2>3. CASE EmitFrame /\ Adds(OnWire(Now.event, Now.block, pos))
    <3> DEFINE f == OnWire(Now.event, Now.block, pos)
    <3>1. Starts(f) => Starts(Now) /\ f.block = Now.block
      BY DEF Starts, OnWire
    <3>2. Starts(f) => f.block \notin OpenBlocks /\ Origin(f)
      BY <1>1, <2>3, <3>1, RealStartsAreFresh
    <3>3. IsReal(f)
      BY DEF StreamInv, ControlInv, IsReal, OnWire
    <3>4. Adds(f)
      BY <2>3
    <3> HIDE DEF f
    <3>5. QED
      BY <1>1, <3>2, <3>3, <3>4, SentBlocksAdd
  <2>4. CASE EmitInjected /\ Adds(OnWire(Due.event, Due.block, 0))
    <3> DEFINE f == OnWire(Due.event, Due.block, 0)
    <3>1. phase = "match" /\ stack # << >> /\ Top.todo # << >>
      BY <2>4 DEF EmitInjected, Injecting
    <3>2. /\ Len(stack) \in Nat \ {0} /\ stack[Len(stack)] = Top
          /\ Due = Top.todo[1] /\ Len(Top.todo) \in Nat \ {0}
      BY <3>1, DueIsTyped
    <3>3. Sound(Top.todo, 1, TRUE, OpenBlocks, blockIndex)
      <4>1. Len(stack) \in 1..Len(stack) /\ 1 \in 1..Len(stack[Len(stack)].todo)
        BY <3>2
      <4>2. Sound(stack[Len(stack)].todo, 1, Len(stack) = Len(stack), OpenBlocks, blockIndex)
        BY <1>1, <3>1, <4>1 DEF TodoInv
      <4>3. QED
        BY <3>2, <4>2
    <3>4. /\ Starts(Due) => Due.block \in (50..(blockIndex - 1)) \ OpenBlocks
          /\ Stops(Due) => Due.block \in OpenBlocks
      BY <3>2, <3>3 DEF Sound
    <3>5. /\ Starts(f) => Starts(Due) /\ f.block = Due.block
          /\ Stops(f) => Stops(Due) /\ f.block = Due.block
          /\ ~IsReal(f)
      BY DEF Starts, Stops, OnWire, IsReal
    <3>6. Starts(f) => f.block \notin OpenBlocks /\ Origin(f)
      BY <3>4, <3>5 DEF Origin
    <3>7. Stops(f) => f.block \in OpenBlocks
      BY <3>4, <3>5
    <3>8. Adds(f)
      BY <2>4
    <3> HIDE DEF f
    <3>9. QED
      BY <1>1, <3>6, <3>7, <3>8, SentBlocksAdd
  <2>5. QED
    BY <1>3, <1>6, <2>1, <2>2, <2>3, <2>4, SentMoves
<1>7. QED
  BY <1>5, <1>6

LEMMA TodoInvStep ==
  ASSUME StreamInv, InjectorType, BlocksInv, [Next]_vars
  PROVE  TodoInv'
<1> DEFINE L == Len(stack)
<1> SUFFICES ASSUME phase' = "match", NEW d \in 1..Len(stack'), NEW j \in 1..Len(stack'[d].todo)
             PROVE  Sound(stack'[d].todo, j, d = Len(stack'), OpenBlocks', blockIndex')
  BY DEF TodoInv
<1>1. /\ SentBlocks /\ TodoInv /\ Sequences
      /\ blockIndex \in Nat /\ blockIndex' \in Nat /\ blockIndex >= 50
      /\ blockIndex' = blockIndex \/ (OpenBlock /\ blockIndex' = blockIndex + 1)
      /\ L \in Nat /\ Len(stack') \in Nat /\ d \in Nat \ {0}
  <2>1. L \in Nat /\ Len(stack') \in Nat
    BY InjectorTypeStep, LenProperties DEF InjectorType
  <2>2. QED
    BY <2>1, BlockIndexGrows DEF BlocksInv, StreamInv, InjectorType
<1>2. CASE UNCHANGED <<stack, phase, sink, blockIndex>>
  <2>1. OpenBlocks' = OpenBlocks
    BY <1>2 DEF OpenBlocks, Sent, sink
  <2>2. QED
    BY <1>1, <1>2, <2>1 DEF TodoInv
<1>3. CASE EmitFrame
  <2>1. stack' = << Activation(Now.event) >>
    BY <1>3 DEF EmitFrame, Cut, Return
  <2>2. d = 1 /\ stack'[1] = Activation(Now.event)
    BY <2>1
  <2>3. stack'[d].todo = << >>
    BY <2>2 DEF Activation
  <2>4. QED
    BY <2>3
<1>4. ASSUME afterFrame
      PROVE  /\ phase = "match" /\ stack # << >> /\ L \in Nat \ {0}
             /\ Top \in Activations /\ stack[L] = Top
  BY <1>4, afterFrameKeeps, TopIsTyped
<1>5. ASSUME phase = "match", NEW e \in 1..L, NEW i \in 1..Len(stack[e].todo)
      PROVE  Sound(stack[e].todo, i, e = L, OpenBlocks, blockIndex)
  BY <1>1, <1>5 DEF TodoInv
\* The lists below the top hold no start.
<1>6. ASSUME phase = "match", d < L, stack'[d] = stack[d], OpenBlocks \subseteq OpenBlocks'
      PROVE  Sound(stack'[d].todo, j, d = Len(stack'), OpenBlocks', blockIndex')
  <2>1. Sound(stack[d].todo, j, d = L, OpenBlocks, blockIndex)
    BY <1>1, <1>5, <1>6
  <2>2. d # L
    BY <1>1, <1>6
  <2>3. QED
    BY <1>6, <2>1, <2>2 DEF Sound
<1>7. ASSUME UNCHANGED sink
      PROVE  OpenBlocks' = OpenBlocks
  BY <1>7 DEF OpenBlocks, Sent, sink
<1>8. ASSUME NEW a, TopBecomes(a), L \in Nat \ {0}
      PROVE  /\ Len(stack') = L
             /\ (d < L /\ stack'[d] = stack[d]) \/ (d = L /\ stack'[d] = a)
  BY <1>1, <1>8 DEF TopBecomes
<1>9. CASE MatchDone
  <2>1. Popped /\ L \in Nat \ {0} /\ phase = "match"
    BY <1>4, <1>9, StackMoves DEF afterFrame
  <2>2. d \in 1..(L - 1)
    BY <1>1, <2>1 DEF Popped
  <2>3. d < L /\ stack'[d] = stack[d]
    BY <1>1, <2>1, <2>2 DEF Popped
  <2>4. OpenBlocks' = OpenBlocks
    BY <1>7, <1>9 DEF MatchDone
  <2>5. QED
    BY <1>6, <2>1, <2>3, <2>4
<1>10. CASE Skip \/ FireCorrupt
  <2> DEFINE a == [Top EXCEPT !.next = @ + 1]
  <2>1. TopBecomes(a) /\ L \in Nat \ {0} /\ phase = "match"
    BY <1>4, <1>10, StackMoves DEF afterFrame
  <2>2. a.todo = Top.todo
    BY <1>4, <1>10 DEF afterFrame, Activations
  <2>3. Top.todo = << >>
    BY <1>10 DEF Skip, FireCorrupt, Firing, Matching
  <2> HIDE DEF a
  <2>4. d < L /\ stack'[d] = stack[d]
    <3>1. stack'[d] # a
      BY <2>2, <2>3
    <3>2. QED
      BY <1>8, <2>1, <3>1
  <2>5. OpenBlocks' = OpenBlocks
    <3>1. CASE Skip
      BY <1>7, <3>1 DEF Skip
    <3>2. CASE FireCorrupt
      <4>1. Adds(Corrupt) /\ ~Starts(Corrupt)
        BY <1>1, <3>2, WriteAdds DEF FireCorrupt, Starts, Corrupt, OnWire
      <4>2. QED
        BY <1>1, <4>1, OpenBlocksAdd
    <3>3. QED
      BY <1>10, <3>1, <3>2
  <2>6. QED
    BY <1>6, <2>1, <2>4, <2>5
<1>11. CASE FireInjection
  <2> DEFINE a == [event |-> Top.event, next |-> Top.next + 1,
                   todo |-> Injected(SpecAt(Top.next))]
  <2>1. TopBecomes(a) /\ L \in Nat \ {0} /\ phase = "match"
    BY <1>4, <1>11, StackMoves DEF afterFrame
  <2>2. a.todo = Injected(SpecAt(Top.next))
    OBVIOUS
  <2>3. SpecAt(Top.next) \in FaultSpecs
    <3>1. Top.next \in 1..Len(cfg.specs)
      BY <1>4, <1>11 DEF FireInjection, Firing, afterFrame, Activations
    <3>2. QED
      BY <3>1, ConfigTypes
  <2> HIDE DEF a
  <2>4. OpenBlocks' = OpenBlocks
    BY <1>7, <1>11 DEF FireInjection
  <2>5. CASE d < L /\ stack'[d] = stack[d]
    BY <1>6, <2>1, <2>4, <2>5
  <2>6. CASE d = L /\ stack'[d] = a
    <3>1. stack'[d].todo[j].block = NoBlock
      BY <2>2, <2>3, <2>6, InjectedIsTyped
    <3>2. QED
      BY <3>1 DEF Sound, Starts, Stops
  <2>7. QED
    BY <1>8, <2>1, <2>5, <2>6
<1>12. CASE OpenBlock
  <2> DEFINE o == Due.offspec
             a == [Top EXCEPT !.todo = Opening(o) \o Tail(@)]
             t == Opening(o) \o Tail(Top.todo)
  <2>1. TopBecomes(a) /\ L \in Nat \ {0} /\ phase = "match" /\ stack # << >> /\ stack[L] = Top
    BY <1>4, <1>12, StackMoves DEF afterFrame
  <2>2. a.todo = t
    BY <1>4, <1>12 DEF afterFrame, Activations
  <2>3. Top.todo # << >> /\ Due.op = "block"
    BY <1>12 DEF OpenBlock, Injecting
  <2>4. OpenBlocks' = OpenBlocks
    BY <1>7, <1>12 DEF OpenBlock
  <2>5. blockIndex' = blockIndex + 1
    BY <1>12 DEF OpenBlock
  <2>6. o \in BOOLEAN /\ Due = Top.todo[1] /\ Len(Top.todo) \in Nat \ {0}
    BY <2>1, <2>3, DueIsTyped DEF Items
  <2> HIDE DEF a
  <2>7. CASE d < L /\ stack'[d] = stack[d]
    BY <1>6, <2>1, <2>4, <2>7
  <2>8. CASE d = L /\ stack'[d] = a
    <3>1. \A i \in 1..2 : /\ Opening(o)[i].op = "frame"
                          /\ Opening(o)[i].event = BlockNames[i]
                          /\ Opening(o)[i].block = blockIndex
      BY <2>6, OpeningIsTyped
    <3>2. ASSUME NEW i \in 1..Len(t)
          PROVE  \/ i \in 1..2 /\ t[i] = Opening(o)[i]
                 \/ i > 2 /\ i - 1 \in 2..Len(Top.todo) /\ t[i] = Top.todo[i - 1]
      BY <2>1, <2>3, <2>6, <3>2, ItemsAfterOpening
    <3>3. Len(t) >= 2 /\ 1 \in 1..Len(t)
      <4>1. Opening(o) \in Seq(Items) /\ Len(Opening(o)) = 2
        BY <2>6, OpeningIsTyped
      <4>2. Tail(Top.todo) \in Seq(Items)
        <5>1. Top.todo \in Seq(Items)
          BY <2>1, <2>3, DueIsTyped
        <5>2. QED
          BY <2>3, <5>1, TailParts
      <4>3. ASSUME NEW u \in Seq(Items), NEW v \in Seq(Items)
            PROVE  Len(u \o v) = Len(u) + Len(v) /\ Len(v) \in Nat
        BY ConcatParts, LenProperties
      <4>4. /\ Len(t) = Len(Opening(o)) + Len(Tail(Top.todo))
            /\ Len(Tail(Top.todo)) \in Nat
        BY <4>1, <4>2, <4>3
      <4> HIDE DEF t
      <4>5. QED
        BY <4>1, <4>4
    <3>4. t[1] = Opening(o)[1]
      <4> HIDE DEF t
      <4>1. \/ 1 \in 1..2 /\ t[1] = Opening(o)[1]
            \/ 1 > 2
        BY <3>2, <3>3
      <4>2. QED
        BY <4>1
    <3> HIDE DEF t, o
    <3>5. j \in 1..Len(t) /\ stack'[d].todo = t
      BY <2>2, <2>8
    <3>6. blockIndex \notin OpenBlocks
      <4> SUFFICES ASSUME blockIndex \in OpenBlocks PROVE FALSE
        OBVIOUS
      <4>1. PICK k \in 1..Len(Sent) : Starts(Sent[k]) /\ Sent[k].block = blockIndex
        BY DEF OpenBlocks
      <4>2. Origin(Sent[k])
        BY <1>1, <4>1 DEF SentBlocks, StartsInv
      <4>3. CASE IsReal(Sent[k])
        <5>1. Opens(script, 0, 3)
          BY ScriptOpensOnce DEF InjectorType
        <5>2. Sent[k].block \in 0..2
          BY <4>2, <4>3, <5>1 DEF Origin, Opens
        <5>3. QED
          BY <1>1, <4>1, <5>2
      <4>4. CASE ~IsReal(Sent[k])
        <5>1. Sent[k].block \in 50..(blockIndex - 1)
          BY <4>2, <4>4 DEF Origin
        <5>2. QED
          BY <1>1, <4>1, <5>1
      <4>5. QED
        BY <4>3, <4>4
    <3>7. blockIndex \in 50..(blockIndex' - 1) /\ blockIndex # NoBlock
      BY <1>1, <2>5 DEF NoBlock
    <3>8. Starts(t[1]) /\ t[1].block = blockIndex
      <4>1. t[1].event = BlockNames[1] /\ t[1].block = blockIndex
        BY <3>1, <3>4
      <4>2. BlockNames[1] \in {"content_block_start", "contentBlockStart"}
        BY DEF BlockNames
      <4>3. QED
        BY <3>7, <4>1, <4>2 DEF Starts
    <3>9. d = Len(stack')
      BY <1>8, <2>1, <2>8
    <3>10. CASE j = 1
      <4>1. ~Stops(t[1]) /\ t[1].op = "frame"
        BY <3>1, <3>4, <3>8 DEF Starts, Stops
      <4>2. QED
        BY <2>4, <3>5, <3>6, <3>7, <3>8, <3>9, <3>10, <4>1 DEF Sound
    <3>11. CASE j = 2
      <4>1. t[2] = Opening(o)[2]
        BY <3>2, <3>5, <3>11
      <4>2. t[2].op = "frame" /\ t[2].event = BlockNames[2] /\ t[2].block = blockIndex
        BY <3>1, <4>1
      <4>3. BlockNames[2] \notin {"content_block_start", "contentBlockStart"}
        BY DEF BlockNames
      <4>4. ~Starts(t[2])
        BY <4>2, <4>3 DEF Starts
      <4>5. QED
        BY <3>5, <3>8, <3>11, <4>2, <4>4 DEF Sound
    <3>12. CASE j > 2
      <4>1. j - 1 \in 2..Len(Top.todo) /\ t[j] = Top.todo[j - 1]
        BY <3>2, <3>5, <3>12
      <4>2. /\ Sound(Top.todo, j - 1, TRUE, OpenBlocks, blockIndex)
            /\ Sound(Top.todo, 1, TRUE, OpenBlocks, blockIndex)
        <5>1. L \in 1..L /\ j - 1 \in 1..Len(stack[L].todo) /\ 1 \in 1..Len(stack[L].todo)
          BY <2>1, <2>6, <4>1
        <5>2. /\ Sound(stack[L].todo, j - 1, L = L, OpenBlocks, blockIndex)
              /\ Sound(stack[L].todo, 1, L = L, OpenBlocks, blockIndex)
          BY <1>5, <2>1, <5>1
        <5>3. QED
          BY <2>1, <5>2
      <4>3. ~Starts(Top.todo[1])
        BY <2>3, <2>6, <4>2 DEF Sound, Starts
      <4>4. j - 1 # 1
        BY <4>1
      <4>5. QED
        BY <2>4, <3>5, <4>1, <4>2, <4>3, <4>4 DEF Sound
    <3>13. QED
      BY <3>5, <3>10, <3>11, <3>12
  <2>9. QED
    BY <1>8, <2>1, <2>7, <2>8
<1>13. CASE EmitInjected /\ ~CutAfter(Due.event)
  <2> DEFINE a == [Top EXCEPT !.todo = Tail(@)]
             b == Activation(Due.event)
             f == OnWire(Due.event, Due.block, 0)
  <2>1. Pushed(a, b) /\ L \in Nat \ {0} /\ phase = "match" /\ stack # << >> /\ stack[L] = Top
    BY <1>4, <1>13, StackMoves DEF afterFrame
  <2>2. a.todo = Tail(Top.todo) /\ b.todo = << >>
    BY <1>4, <1>13 DEF afterFrame, Activations, Activation
  <2>3. Top.todo # << >> /\ Adds(f)
    BY <1>1, <1>13, WriteAdds DEF EmitInjected, Injecting
  <2>4. /\ Due = Top.todo[1] /\ Top.todo \in Seq(Items) /\ Len(Top.todo) \in Nat \ {0}
        /\ Len(Tail(Top.todo)) = Len(Top.todo) - 1
        /\ \A i \in 1..(Len(Top.todo) - 1) : Tail(Top.todo)[i] = Top.todo[i + 1]
    <3>1. Due = Top.todo[1] /\ Top.todo \in Seq(Items)
      BY <2>1, <2>3, DueIsTyped
    <3>2. QED
      BY <2>3, <3>1, TailParts
  <2>5. /\ OpenBlocks \subseteq OpenBlocks'
        /\ Starts(Due) => Due.block \in OpenBlocks'
    <3>1. OpenBlocks' = OpenBlocks \cup (IF Starts(f) THEN {f.block} ELSE {})
      BY <1>1, <2>3, OpenBlocksAdd
    <3>2. Starts(Due) => Starts(f) /\ f.block = Due.block
      BY DEF Starts, OnWire
    <3>3. QED
      BY <3>1, <3>2
  <2> HIDE DEF a, b, f
  <2>6. \/ d < L /\ stack'[d] = stack[d]
        \/ d = L /\ stack'[d] = a
        \/ stack'[d] = b
    BY <1>1, <2>1 DEF Pushed
  <2>7. CASE d < L /\ stack'[d] = stack[d]
    BY <1>6, <2>1, <2>5, <2>7
  <2>8. CASE d = L /\ stack'[d] = a
    <3>1. j \in 1..(Len(Top.todo) - 1) /\ stack'[d].todo[j] = Top.todo[j + 1]
      BY <2>2, <2>4, <2>8
    <3>2. j + 1 \in 1..Len(Top.todo) /\ j + 1 # 1 /\ (j + 1 = 2 => j = 1)
      BY <2>4, <3>1
    <3>3. Sound(Top.todo, j + 1, TRUE, OpenBlocks, blockIndex)
      <4>1. L \in 1..L /\ j + 1 \in 1..Len(stack[L].todo)
        BY <2>1, <3>2
      <4>2. Sound(stack[L].todo, j + 1, L = L, OpenBlocks, blockIndex)
        BY <1>5, <2>1, <4>1
      <4>3. QED
        BY <2>1, <4>2
    <3>4. ~Starts(Top.todo[j + 1])
      BY <3>2, <3>3 DEF Sound
    <3>5. Stops(Top.todo[j + 1]) => Top.todo[j + 1].block \in OpenBlocks'
      BY <2>4, <2>5, <3>3 DEF Sound
    <3>6. Top.todo[j + 1].op = "block" => Top.todo[j + 1].block = NoBlock
      BY <3>3 DEF Sound
    <3>7. QED
      BY <3>1, <3>4, <3>5, <3>6 DEF Sound
  <2>9. CASE stack'[d] = b
    BY <2>2, <2>9
  <2>10. QED
    BY <2>6, <2>7, <2>8, <2>9
<1>14. CASE FireDisconnect \/ FireStall
  BY <1>14 DEF FireDisconnect, FireStall, Cut, Return
<1>15. CASE FireException \/ FailValidation \/ (EmitInjected /\ CutAfter(Due.event))
  BY <1>15, InjectorEnds
<1>16. CASE WaitOver \/ NoLegacyFault \/ CorruptChunk \/ Ping \/ GiveUp \/ Sever \/ StallOver
  BY <1>16, HandlerMoves
<1>17. CASE NextFrame \/ Finish
  BY <1>17 DEF NextFrame, Finish
<1>18. CASE ClientLeaves \/ TimePasses \/ UNCHANGED vars
  BY <1>2, <1>18 DEF ClientLeaves, TimePasses, vars, injector
<1>19. QED
  BY <1>3, <1>9, <1>10, <1>11, <1>12, <1>13, <1>14, <1>15, <1>16, <1>17, <1>18
     DEF Next, Handler, afterFrame

LEMMA BlocksInit == Init => BlocksInv
<1> SUFFICES ASSUME Init PROVE BlocksInv
  OBVIOUS
<1>1. Sent = << >> /\ phase # "match"
  BY DEF Init, Sent
<1>2. Len(Sent) = 0
  BY <1>1
<1>3. QED
  BY <1>1, <1>2 DEF BlocksInv, SentBlocks, StartsOnce, StopsFollow, StartsInv, TodoInv

(***************************************************************************)
(* Whatever specs fire between the start and the stop of an injected block *)
(* and inject blocks of their own: no index is opened twice, neither by    *)
(* two injected blocks nor by one and the response, and every injected     *)
(* stop follows its start (fire, emitInjected, blockIndex).                *)
(***************************************************************************)
THEOREM BlocksStayApart == Spec => []BlocksDoNotCollide
<1> DEFINE Inv == StreamInv /\ InjectorType /\ BlocksInv
<1>1. Init => Inv
  BY StreamInit, InjectorTypeInit, BlocksInit
<1>2. Inv /\ [Next]_vars => Inv'
  <2> SUFFICES ASSUME Inv, [Next]_vars PROVE Inv'
    OBVIOUS
  <2>1. StreamInv' /\ InjectorType'
    BY StreamStep, InjectorTypeStep
  <2>2. SentBlocks' /\ TodoInv'
    BY SentBlocksStep, TodoInvStep
  <2>3. QED
    BY <2>1, <2>2 DEF BlocksInv
<1>3. Inv => BlocksDoNotCollide
  BY DEF BlocksInv, SentBlocks, StartsOnce, StopsFollow, BlocksDoNotCollide
<1>4. QED
  BY <1>1, <1>2, <1>3, PTL DEF Spec
-----------------------------------------------------------------------------
(***************************************************************************)
(* Every spec fires once.  What has been injected and what the pending     *)
(* calls still owe is paid for by the specs that have fired: an item is    *)
(* owed from the firing of its spec on, and a frame for each item.  The    *)
(* items of a list are counted from its back, where they stay when the     *)
(* list loses its head.                                                    *)
(***************************************************************************)
Noise == { k \in 1..Len(Sent) : ~IsReal(Sent[k]) }

\* A block is a start and a stop.
Weight(item) == IF item.op = "block" THEN 2 ELSE 1

Owed(todo, r, c) == r \in 1..Len(todo) /\ c \in 1..Weight(todo[Len(todo) + 1 - r])

OwedAt(d, todo) == { x \in Nat \X Nat \X Nat : x[1] = d /\ Owed(todo, x[2], x[3]) }

Outstanding ==
  { x \in Nat \X Nat \X Nat :
      x[1] \in 1..Len(stack) /\ Owed(stack[x[1]].todo, x[2], x[3]) }

AskedOf(i) == {i} \X (1..Asked(SpecAt(i)))

AskedUpTo(k) == { x \in (1..k) \X Nat : x[2] \in 1..Asked(SpecAt(x[1])) }

Paid == { x \in AskedUpTo(Len(cfg.specs)) : x[1] \in fired }

CorruptsAt(p) ==
  script[p].chunk > 0 /\ cfg.malformed_chunk /\ script[p].chunk - 1 = Chunks(cfg) \div 2

Corrupted == IF \E p \in 1..Len(script) : p <= Checked /\ CorruptsAt(p) THEN 1 ELSE 0

FireInv ==
  /\ IsFiniteSet(Noise)
  /\ Cardinality(Noise) <= pings + (IF cfg.malformed_chunk THEN 1 ELSE 0) + Cardinality(Paid)
  /\ pings \in Nat
  /\ Busy =>
       /\ IsFiniteSet(Outstanding)
       /\ Cardinality(Noise) + Cardinality(Outstanding)
            <= pings + Corrupted + Cardinality(Paid)

\* What the specs ask for, added up.
LEMMA AskedIsNat ==
  ASSUME InjectorType, NEW i \in 1..Len(cfg.specs)
  PROVE  Asked(SpecAt(i)) \in Nat
<1>1. SpecAt(i) \in FaultSpecs
  BY ConfigTypes
<1>2. SpecAt(i).repeat \in Nat
  BY <1>1 DEF FaultSpecs
<1>3. QED
  BY <1>2 DEF Asked

LEMMA PairsCount ==
  ASSUME NEW i, NEW a \in Nat, NEW T, IsFiniteSet(T), \A x \in T : x[1] # i
  PROVE  /\ IsFiniteSet(T \cup ({i} \X (1..a)))
         /\ Cardinality(T \cup ({i} \X (1..a))) = Cardinality(T) + a
<1> DEFINE P == {i} \X (1..a)
<1>1. IsFiniteSet({i}) /\ Cardinality({i}) = 1
  BY FS_Singleton
<1>2. IsFiniteSet(1..a) /\ Cardinality(1..a) = a
  <2>1. 1 \in Int /\ a \in Int
    OBVIOUS
  <2>2. IsFiniteSet(1..a) /\ Cardinality(1..a) = IF 1 > a THEN 0 ELSE a - 1 + 1
    BY <2>1, FS_Interval
  <2>3. QED
    BY <2>2
<1>3. IsFiniteSet(P) /\ Cardinality(P) = a
  <2>1. IsFiniteSet(P) /\ Cardinality(P) = Cardinality({i}) * Cardinality(1..a)
    BY <1>1, <1>2, FS_Product, Zenon
  <2> HIDE DEF P
  <2>2. Cardinality(P) = 1 * a
    BY <1>1, <1>2, <2>1
  <2>3. QED
    BY <2>1, <2>2
<1>4. T \cap P = {}
  OBVIOUS
<1> HIDE DEF P
<1>5. /\ IsFiniteSet(T \cup P)
      /\ Cardinality(T \cup P) = Cardinality(T) + Cardinality(P) - Cardinality(T \cap P)
  BY <1>3, FS_Union
<1>6. Cardinality(T \cap P) = 0 /\ Cardinality(T) \in Nat
  BY <1>4, FS_EmptySet, FS_CardinalityType
<1>7. QED
  BY <1>3, <1>5, <1>6 DEF P

LEMMA AskedGrows ==
  ASSUME InjectorType, NEW k \in 1..Len(cfg.specs)
  PROVE  /\ AskedUpTo(k) = AskedUpTo(k - 1) \cup AskedOf(k)
         /\ \A x \in AskedUpTo(k - 1) : x[1] # k
<1>1. 1..k = 1..(k - 1) \cup {k} /\ k \notin 1..(k - 1)
  BY ConfigTypes
<1>2. AskedOf(k) = { x \in {k} \X Nat : x[2] \in 1..Asked(SpecAt(x[1])) }
  <2>1. 1..Asked(SpecAt(k)) \subseteq Nat
    BY AskedIsNat
  <2>2. QED
    BY <2>1 DEF AskedOf
<1>3. QED
  BY <1>1, <1>2 DEF AskedUpTo

LEMMA AskedIsSummed ==
  ASSUME InjectorType
  PROVE  /\ IsFiniteSet(AskedUpTo(Len(cfg.specs)))
         /\ Cardinality(AskedUpTo(Len(cfg.specs)))
              = LET sum[i \in 0..Len(cfg.specs)] ==
                      IF i = 0 THEN 0 ELSE sum[i - 1] + Asked(SpecAt(i))
                IN sum[Len(cfg.specs)]
<1> DEFINE L == Len(cfg.specs)
           Solves(f) ==
             f = [i \in 0..L |-> IF i = 0 THEN 0 ELSE f[i - 1] + Asked(SpecAt(i))]
           g == [k \in 0..L |-> Cardinality(AskedUpTo(k))]
           sum == CHOOSE f : Solves(f)
<1>1. L \in Nat
  BY ConfigTypes
<1>2. AskedUpTo(0) = {}
  BY DEF AskedUpTo
<1>3. \A k \in 0..L : IsFiniteSet(AskedUpTo(k))
  <2> DEFINE T == { k \in 0..L : ~IsFiniteSet(AskedUpTo(k)) }
  <2>1. SUFFICES ASSUME T # {} PROVE FALSE
    OBVIOUS
  <2>2. T \subseteq 0..L
    OBVIOUS
  <2>3. PICK k \in T : k # 0 => k - 1 \in 0..L /\ k - 1 \notin T
    <3> HIDE DEF T, L
    <3> QED
      BY <1>1, <2>1, <2>2, FirstFailure
  <2>4. k # 0
    BY <1>2, FS_EmptySet
  <2>5. k \in 1..L /\ k - 1 \in 0..L /\ IsFiniteSet(AskedUpTo(k - 1))
    BY <1>1, <2>3, <2>4
  <2>6. IsFiniteSet(AskedUpTo(k - 1) \cup AskedOf(k))
    BY <2>5, AskedGrows, AskedIsNat, PairsCount DEF AskedOf
  <2>7. QED
    BY <2>5, <2>6, AskedGrows
<1>4. ASSUME NEW k \in 1..L
      PROVE  Cardinality(AskedUpTo(k)) = Cardinality(AskedUpTo(k - 1)) + Asked(SpecAt(k))
  <2>1. k - 1 \in 0..L
    BY <1>1
  <2>2. /\ IsFiniteSet(AskedUpTo(k - 1)) /\ Asked(SpecAt(k)) \in Nat
        /\ AskedUpTo(k) = AskedUpTo(k - 1) \cup AskedOf(k)
        /\ \A x \in AskedUpTo(k - 1) : x[1] # k
    BY <1>3, <2>1, AskedGrows, AskedIsNat
  <2>3. Cardinality(AskedUpTo(k - 1) \cup AskedOf(k))
          = Cardinality(AskedUpTo(k - 1)) + Asked(SpecAt(k))
    BY <2>2, PairsCount, Zenon DEF AskedOf
  <2>4. QED
    BY <2>2, <2>3, Zenon
<1>5. Solves(g)
  <2>1. ASSUME NEW k \in 0..L
        PROVE  g[k] = IF k = 0 THEN 0 ELSE g[k - 1] + Asked(SpecAt(k))
    <3>1. CASE k = 0
      BY <1>2, <3>1, FS_EmptySet
    <3>2. CASE k # 0
      <4>1. k \in 1..L /\ k - 1 \in 0..L
        BY <1>1, <3>2
      <4>2. QED
        BY <1>4, <3>2, <4>1
    <3>3. QED
      BY <3>1, <3>2
  <2>2. QED
    BY <2>1, Zenon
<1>6. Solves(sum)
  BY <1>5, Zenon
<1> HIDE DEF sum
<1>7. sum[L] = g[L]
  <2> DEFINE T == { k \in 0..L : sum[k] # g[k] }
  <2>1. SUFFICES ASSUME T # {} PROVE FALSE
    <3>1. L \in 0..L
      BY <1>1
    <3> HIDE DEF g, L
    <3>2. QED
      BY <3>1, <2>1
  <2>2. T \subseteq 0..L
    OBVIOUS
  <2>3. PICK k \in T : k # 0 => k - 1 \in 0..L /\ k - 1 \notin T
    <3> HIDE DEF T, L
    <3> QED
      BY <1>1, <2>1, <2>2, FirstFailure
  <2>4. k \in 0..L /\ (k # 0 => k - 1 \in 0..L /\ sum[k - 1] = g[k - 1])
    BY <1>1, <2>3
  <2>5. \A f : Solves(f) => f[k] = IF k = 0 THEN 0 ELSE f[k - 1] + Asked(SpecAt(k))
    <3> TAKE f
    <3> HAVE Solves(f)
    <3> DEFINE h == [i \in 0..L |-> IF i = 0 THEN 0 ELSE f[i - 1] + Asked(SpecAt(i))]
    <3>1. f = h
      OBVIOUS
    <3>2. h[k] = IF k = 0 THEN 0 ELSE f[k - 1] + Asked(SpecAt(k))
      BY <2>4
    <3>3. QED
      BY <3>1, <3>2, Zenon
  <2> HIDE DEF Solves, g
  <2>6. sum[k] = g[k]
    BY <1>5, <1>6, <2>4, <2>5
  <2>7. QED
    BY <2>3, <2>6
<1>8. g[L] = Cardinality(AskedUpTo(L)) /\ IsFiniteSet(AskedUpTo(L))
  BY <1>1, <1>3
<1> HIDE DEF g
<1>9. QED
  BY <1>7, <1>8 DEF sum

\* What a step adds to the frames that are not real.
LEMMA NoiseAdds ==
  ASSUME Sequences, IsFiniteSet(Noise), NEW f, Adds(f) \/ Inserts(f), f.pos \in Nat
  PROVE  /\ IsFiniteSet(Noise')
         /\ Cardinality(Noise') <= Cardinality(Noise) + (IF IsReal(f) THEN 0 ELSE 1)
<1> DEFINE n == Len(Sent)
<1>1. n \in Nat /\ \A k \in 1..n : Sent[k].pos \in Nat
  BY SentIsFinite
<1>2. PICK w \in 0..n :
        /\ Len(Sent') = n + 1 /\ Sent'[w + 1] = f
        /\ \A k \in 1..w : Sent'[k] = Sent[k]
        /\ \A k \in (w + 1)..n : Sent'[k + 1] = Sent[k]
  <2>1. CASE Adds(f)
    <3>1. n \in 0..n /\ (n + 1)..n = {}
      BY <1>1
    <3>2. QED
      BY <2>1, <3>1 DEF Adds
  <2>2. CASE Inserts(f)
    BY <2>2 DEF Inserts
  <2>3. QED
    BY <2>1, <2>2
<1> DEFINE old == [k \in Noise' \ {w + 1} |-> IF k <= w THEN k ELSE k - 1]
<1>3. ASSUME NEW k \in Noise' \ {w + 1}
      PROVE  old[k] \in Noise /\ k = IF old[k] <= w THEN old[k] ELSE old[k] + 1
  <2>1. k \in 1..(n + 1) /\ k # w + 1 /\ ~IsReal(Sent'[k])
    BY <1>2 DEF Noise
  <2>2. CASE k <= w
    <3>1. k \in 1..w /\ k \in 1..n
      BY <1>1, <1>2, <2>1, <2>2
    <3>2. QED
      BY <1>2, <2>1, <2>2, <3>1 DEF Noise
  <2>3. CASE ~(k <= w)
    <3>1. k - 1 \in (w + 1)..n /\ k - 1 + 1 = k /\ k - 1 \in 1..n /\ ~(k - 1 <= w)
      BY <1>1, <1>2, <2>1, <2>3
    <3>2. Sent'[k - 1 + 1] = Sent[k - 1]
      BY <1>2, <3>1
    <3>3. QED
      BY <2>1, <2>3, <3>1, <3>2 DEF Noise
  <2>4. QED
    BY <2>2, <2>3
<1>4. old \in Injection(Noise' \ {w + 1}, Noise)
  <2>1. old \in [Noise' \ {w + 1} -> Noise]
    BY <1>3
  <2>2. \A a, b \in Noise' \ {w + 1} : old[a] = old[b] => a = b
    <3> HIDE DEF old
    <3> QED
      BY <1>3
  <2> HIDE DEF old
  <2>3. QED
    BY <2>1, <2>2 DEF Injection, IsInjective
<1> HIDE DEF old
<1>5. IsFiniteSet(Noise' \ {w + 1}) /\ Cardinality(Noise' \ {w + 1}) <= Cardinality(Noise)
  BY <1>4, FS_Injection
<1>6. CASE IsReal(f)
  <2>1. Noise' \ {w + 1} = Noise'
    BY <1>2, <1>6 DEF Noise
  <2>2. Cardinality(Noise') <= Cardinality(Noise)
    BY <1>5, <2>1
  <2>3. IsFiniteSet(Noise')
    BY <1>5, <2>1
  <2>4. Cardinality(Noise) \in Nat /\ Cardinality(Noise') \in Nat
    BY <2>3, FS_CardinalityType
  <2>5. QED
    BY <1>6, <2>2, <2>3, <2>4
<1>7. CASE ~IsReal(f)
  <2> DEFINE N == Noise' \ {w + 1}
  <2>1. N \cup {w + 1} = Noise'
    <3>1. w + 1 \in 1..(n + 1)
      BY <1>1
    <3>2. w + 1 \in Noise'
      BY <1>2, <1>7, <3>1 DEF Noise
    <3>3. QED
      BY <3>2
  <2>2. w + 1 \notin N
    OBVIOUS
  <2> HIDE DEF N
  <2>3. IsFiniteSet(N) /\ Cardinality(N) <= Cardinality(Noise)
    BY <1>5 DEF N
  <2>4. IsFiniteSet(Noise') /\ Cardinality(Noise') = Cardinality(N) + 1
    BY <2>1, <2>2, <2>3, FS_AddElement
  <2>5. Cardinality(N) \in Nat /\ Cardinality(Noise) \in Nat
    BY <2>3, FS_CardinalityType
  <2>6. QED
    BY <1>7, <2>3, <2>4, <2>5
<1>8. QED
  BY <1>6, <1>7

LEMMA NoiseStays ==
  ASSUME Sequences, IsFiniteSet(Noise), Keeps \/ UNCHANGED sink
  PROVE  IsFiniteSet(Noise') /\ Cardinality(Noise') <= Cardinality(Noise)
<1>1. Noise' \subseteq Noise
  <2>1. CASE UNCHANGED sink
    BY <2>1 DEF Noise, Sent, sink
  <2>2. CASE Keeps
    <3>1. Len(Sent') <= Len(Sent) /\ \A k \in 1..Len(Sent') : Sent'[k] = Sent[k]
      BY <2>2 DEF Keeps
    <3>2. Len(Sent) \in Nat /\ Len(Sent') \in Nat
      BY SentIsFinite
    <3>3. \A k \in 1..Len(Sent') : k \in 1..Len(Sent)
      BY <3>1, <3>2
    <3>4. QED
      BY <3>1, <3>3 DEF Noise
  <2>3. QED
    BY <2>1, <2>2
<1>2. QED
  BY <1>1, FS_Subset

\* What the lists of the pending calls owe.
LEMMA OwedByTail ==
  ASSUME NEW t \in Seq(Items), t # << >>, NEW r \in Nat, NEW c \in Nat
  PROVE  Owed(Tail(t), r, c) <=> Owed(t, r, c) /\ r # Len(t)
<1> DEFINE u == Tail(t)
           n == Len(t)
<1>1. n \in Nat \ {0} /\ Len(u) = n - 1 /\ \A j \in 1..(n - 1) : u[j] = t[j + 1]
  BY TailParts
<1> HIDE DEF u, n
<1>2. r \in 1..(n - 1) <=> r \in 1..n /\ r # n
  BY <1>1
<1>3. ASSUME r \in 1..(n - 1)
      PROVE  u[Len(u) + 1 - r] = t[n + 1 - r]
  <2>1. n - r \in 1..(n - 1) /\ Len(u) + 1 - r = n - r /\ n - r + 1 = n + 1 - r
    BY <1>1, <1>3
  <2>2. QED
    BY <1>1, <2>1
<1>4. Owed(u, r, c) <=> r \in 1..(n - 1) /\ c \in 1..Weight(u[Len(u) + 1 - r])
  BY <1>1 DEF Owed
<1>5. Owed(t, r, c) <=> r \in 1..n /\ c \in 1..Weight(t[n + 1 - r])
  BY DEF Owed, n
<1>6. QED
  BY <1>2, <1>3, <1>4, <1>5 DEF u, n

LEMMA OwedByHead ==
  ASSUME NEW t \in Seq(Items), t # << >>
  PROVE  /\ Owed(t, Len(t), 1)
         /\ t[1].op = "block" => Owed(t, Len(t), 2)
<1> DEFINE n == Len(t)
<1>1. n \in Nat \ {0}
  BY TailParts
<1>2. n \in 1..n /\ n + 1 - n = 1
  BY <1>1
<1>3. Weight(t[1]) \in {1, 2} /\ (t[1].op = "block" => Weight(t[1]) = 2)
  BY DEF Weight
<1>4. 1 \in 1..Weight(t[1]) /\ (t[1].op = "block" => 2 \in 1..Weight(t[1]))
  BY <1>3
<1>5. QED
  BY <1>2, <1>4 DEF Owed

LEMMA OwedByOpening ==
  ASSUME InjectorType, stack # << >>, Top.todo # << >>, NEW o \in BOOLEAN,
         NEW r \in Nat, NEW c \in Nat, Owed(Opening(o) \o Tail(Top.todo), r, c)
  PROVE  \/ Owed(Top.todo, r, c) /\ r # Len(Top.todo)
         \/ r \in {Len(Top.todo), Len(Top.todo) + 1} /\ c = 1
<1> DEFINE u == Opening(o)
           t == Tail(Top.todo)
           n == Len(Top.todo)
           v == u \o t
<1>1. /\ u \in Seq(Items) /\ Len(u) = 2 /\ \A i \in 1..2 : u[i].op = "frame"
      /\ Top.todo \in Seq(Items) /\ t \in Seq(Items)
      /\ n \in Nat \ {0} /\ Len(t) = n - 1
  BY OpeningIsTyped, DueIsTyped, TailParts
<1>2. Owed(v, r, c)
  OBVIOUS
<1>10. Owed(t, r, c) <=> Owed(Top.todo, r, c) /\ r # n
  BY <1>1, OwedByTail
<1> HIDE DEF u, t, n
<1>3. /\ Len(v) = n + 1
      /\ \A k \in 1..2 : v[k] = u[k]
      /\ \A k \in 1..(n - 1) : v[2 + k] = t[k]
  <2>1. ASSUME NEW a \in Seq(Items), NEW b \in Seq(Items)
        PROVE  /\ Len(a \o b) = Len(a) + Len(b)
               /\ \A k \in 1..Len(a) : (a \o b)[k] = a[k]
               /\ \A k \in 1..Len(b) : (a \o b)[Len(a) + k] = b[k]
    BY ConcatParts
  <2>2. /\ Len(v) = Len(u) + Len(t)
        /\ \A k \in 1..Len(u) : v[k] = u[k]
        /\ \A k \in 1..Len(t) : v[Len(u) + k] = t[k]
    BY <1>1, <2>1
  <2> HIDE DEF v
  <2>3. QED
    BY <1>1, <2>2
<1> HIDE DEF v
<1>4. r \in 1..(n + 1) /\ c \in 1..Weight(v[n + 1 + 1 - r])
  BY <1>2, <1>3 DEF Owed
<1>5. CASE r \in {n, n + 1}
  <2>1. n + 1 + 1 - r \in 1..2
    BY <1>1, <1>5
  <2>2. Weight(v[n + 1 + 1 - r]) = 1
    BY <1>1, <1>3, <2>1 DEF Weight
  <2>3. c = 1
    BY <1>4, <2>2
  <2>4. QED
    BY <1>5, <2>3 DEF n
<1>6. CASE r \notin {n, n + 1}
  <2>1. /\ r \in 1..(n - 1) /\ n - r \in 1..(n - 1) /\ 2 + (n - r) = n + 1 + 1 - r
        /\ Len(t) + 1 - r = n - r
    BY <1>1, <1>4, <1>6
  <2>2. v[n + 1 + 1 - r] = t[Len(t) + 1 - r]
    BY <1>3, <2>1
  <2>3. Owed(t, r, c)
    BY <1>1, <1>4, <2>1, <2>2 DEF Owed
  <2>4. QED
    BY <1>10, <2>3 DEF n
<1>7. QED
  BY <1>5, <1>6

\* A spec owes what it asks for when it fires.
LEMMA OwedByInjection ==
  ASSUME NEW f \in FaultSpecs, NEW d \in Nat
  PROVE  /\ IsFiniteSet(OwedAt(d, Injected(f)))
         /\ Cardinality(OwedAt(d, Injected(f))) <= Asked(f)
<1> DEFINE t == Injected(f)
           O == OwedAt(d, t)
           number == [x \in O |-> IF f.mode = "unknown_block" THEN 2 * (x[2] - 1) + x[3] ELSE x[2]]
<1>1. f.repeat \in Nat
  BY DEF FaultSpecs
<1>2. \/ f.mode = "unknown_block" /\ Len(t) = f.repeat /\ Asked(f) = 2 * f.repeat
         /\ \A j \in 1..Len(t) : Weight(t[j]) = 2
      \/ f.mode # "unknown_block" /\ Len(t) = Asked(f) /\ \A j \in 1..Len(t) : Weight(t[j]) = 1
      \/ f.mode # "unknown_block" /\ Len(t) = 0
  <2>1. CASE f.mode = "unknown_block"
    <3> DEFINE item == [op |-> "block", event |-> "", block |-> NoBlock, offspec |-> f.offspec]
    <3>1. t = [i \in 1..f.repeat |-> item] /\ Asked(f) = 2 * f.repeat
      BY <2>1 DEF Injected, Asked
    <3>2. Weight(item) = 2
      BY DEF Weight
    <3> HIDE DEF item, t
    <3>3. Len(t) = f.repeat
      BY <1>1, <3>1
    <3>4. QED
      BY <2>1, <3>1, <3>2, <3>3
  <2>2. CASE f.mode = "unknown_event"
    <3> DEFINE item == [op |-> "frame",
                        event |-> IF f.event_type # "" THEN f.event_type
                                  ELSE IF IsSSE THEN "message_future" ELSE "messageFuture",
                        block |-> NoBlock, offspec |-> TRUE]
    <3>1. t = [i \in 1..f.repeat |-> item] /\ Asked(f) = f.repeat
      BY <2>2 DEF Injected, Asked
    <3>2. Weight(item) = 1
      BY DEF Weight
    <3> HIDE DEF item, t
    <3>3. Len(t) = f.repeat
      BY <1>1, <3>1
    <3>4. QED
      BY <2>2, <3>1, <3>2, <3>3
  <2>3. CASE f.mode = "stream_error"
    <3> DEFINE item == [op |-> "frame", event |-> "error", block |-> NoBlock, offspec |-> TRUE]
    <3>1. t = << item >> /\ Asked(f) = 1
      BY <2>3 DEF Injected, Asked
    <3>2. Weight(item) = 1
      BY DEF Weight
    <3> HIDE DEF item, t
    <3>3. QED
      BY <2>3, <3>1, <3>2
  <2>4. CASE f.mode \notin {"unknown_block", "unknown_event", "stream_error"}
    <3>1. t = << >>
      BY <2>4 DEF Injected
    <3> HIDE DEF t
    <3>2. QED
      BY <2>4, <3>1
  <2>5. QED
    BY <2>1, <2>2, <2>3, <2>4
<1>3. \A x \in O : /\ x[1] = d /\ x[2] \in Nat /\ x[3] \in Nat
                   /\ Owed(t, x[2], x[3]) /\ x = <<x[1], x[2], x[3]>>
  BY DEF OwedAt
<1>8. Asked(f) \in Nat
  BY <1>1 DEF Asked
<1> HIDE DEF O, t
<1>4. ASSUME NEW x \in O
      PROVE  /\ number[x] \in 1..Asked(f)
             /\ f.mode = "unknown_block" => x[3] \in 1..2
             /\ f.mode # "unknown_block" => x[3] = 1
  <2> DEFINE r == x[2]
             c == x[3]
  <2>1. r \in 1..Len(t) /\ c \in 1..Weight(t[Len(t) + 1 - r]) /\ c \in Nat
    BY <1>3 DEF Owed
  <2>2. Len(t) \in Nat => Len(t) + 1 - r \in 1..Len(t)
    BY <2>1
  <2>3. number[x] = IF f.mode = "unknown_block" THEN 2 * (r - 1) + c ELSE r
    OBVIOUS
  <2> HIDE DEF number, r, c
  <2>4. CASE f.mode = "unknown_block"
    <3>1. Len(t) = f.repeat /\ Asked(f) = 2 * f.repeat /\ Weight(t[Len(t) + 1 - r]) = 2
      BY <1>1, <1>2, <2>2, <2>4
    <3>2. r \in 1..f.repeat /\ c \in 1..2
      BY <2>1, <3>1
    <3>3. QED
      BY <1>1, <2>3, <2>4, <3>1, <3>2 DEF r, c
  <2>5. CASE f.mode # "unknown_block"
    <3>1. Len(t) # 0
      BY <2>1
    <3>2. Len(t) = Asked(f) /\ Weight(t[Len(t) + 1 - r]) = 1
      BY <1>2, <1>8, <2>2, <2>5, <3>1
    <3>3. c = 1
      BY <2>1, <3>2
    <3>4. QED
      BY <2>1, <2>3, <2>5, <3>2, <3>3 DEF r, c
  <2>6. QED
    BY <2>4, <2>5
<1>5. ASSUME NEW x \in O, NEW y \in O, number[x] = number[y]
      PROVE  x = y
  <2>1. x[2] = y[2] /\ x[3] = y[3]
    <3>1. CASE f.mode = "unknown_block"
      <4>1. 2 * (x[2] - 1) + x[3] = 2 * (y[2] - 1) + y[3]
        BY <1>5, <3>1
      <4>2. x[3] \in 1..2 /\ y[3] \in 1..2 /\ x[2] \in Nat /\ y[2] \in Nat
        BY <1>3, <1>4, <3>1
      <4>3. QED
        BY <4>1, <4>2
    <3>2. CASE f.mode # "unknown_block"
      BY <1>4, <1>5, <3>2
    <3>3. QED
      BY <3>1, <3>2
  <2>2. QED
    BY <1>3, <2>1
<1>6. number \in Injection(O, 1..Asked(f))
  <2>1. number \in [O -> 1..Asked(f)]
    BY <1>4
  <2> HIDE DEF number
  <2>2. QED
    BY <1>5, <2>1 DEF Injection, IsInjective
<1>7. IsFiniteSet(1..Asked(f)) /\ Cardinality(1..Asked(f)) = Asked(f)
  <2>1. 1 \in Int /\ Asked(f) \in Int
    BY <1>8
  <2>2. IsFiniteSet(1..Asked(f))
        /\ Cardinality(1..Asked(f)) = IF 1 > Asked(f) THEN 0 ELSE Asked(f) - 1 + 1
    BY <2>1, FS_Interval
  <2>3. QED
    BY <1>8, <2>2
<1> HIDE DEF number
<1>9. IsFiniteSet(O) /\ Cardinality(O) <= Asked(f)
  BY <1>6, <1>7, FS_Injection
<1>10. QED
  BY <1>9 DEF O, t

\* What the fired specs have paid.
LEMMA PaidIsFinite ==
  ASSUME InjectorType
  PROVE  /\ IsFiniteSet(Paid) /\ Cardinality(Paid) \in Nat
         /\ Cardinality(AskedUpTo(Len(cfg.specs))) \in Nat
         /\ Cardinality(Paid) <= Cardinality(AskedUpTo(Len(cfg.specs)))
<1>1. IsFiniteSet(AskedUpTo(Len(cfg.specs)))
  BY AskedIsSummed
<1>2. Paid \in SUBSET AskedUpTo(Len(cfg.specs))
  BY DEF Paid
<1>3. QED
  BY <1>1, <1>2, FS_Subset, FS_CardinalityType

LEMMA PaidByFiring ==
  ASSUME InjectorType, NEW modes, Firing(modes)
  PROVE  /\ SpecAt(Top.next) \in FaultSpecs /\ SpecAt(Top.next).mode \in modes
         /\ Asked(SpecAt(Top.next)) \in Nat
         /\ IsFiniteSet(Paid')
         /\ Cardinality(Paid') = Cardinality(Paid) + Asked(SpecAt(Top.next))
<1> DEFINE i == Top.next
           N == Len(cfg.specs)
<1>1. Top \in Activations
  BY TopIsTyped DEF Firing, Matching
<1>2. /\ i \in 1..N /\ i \notin fired /\ fired' = fired \cup {i} /\ cfg' = cfg
      /\ SpecAt(i).mode \in modes
  BY <1>1, ConfigTypes DEF Firing, Fires, response, Activations
<1>3. Asked(SpecAt(i)) \in Nat /\ SpecAt(i) \in FaultSpecs
  BY <1>2, AskedIsNat, ConfigTypes
<1> HIDE DEF i
<1>4. AskedOf(i) = { x \in {i} \X Nat : x[2] \in 1..Asked(SpecAt(x[1])) }
  <2>1. 1..Asked(SpecAt(i)) \subseteq Nat
    BY <1>3
  <2>2. QED
    BY <2>1 DEF AskedOf
<1>5. Paid' = Paid \cup AskedOf(i)
  <2>1. AskedUpTo(N)' = AskedUpTo(N) /\ N' = N
    BY <1>2 DEF AskedUpTo, Asked, SpecAt
  <2>2. Paid' = { x \in AskedUpTo(N) : x[1] \in fired \cup {i} }
    BY <1>2, <2>1 DEF Paid
  <2>3. { x \in AskedUpTo(N) : x[1] = i } = AskedOf(i)
    BY <1>2, <1>4 DEF AskedUpTo
  <2>4. QED
    BY <2>2, <2>3 DEF Paid
<1>6. \A x \in Paid : x[1] # i
  BY <1>2 DEF Paid
<1>7. IsFiniteSet(Paid)
  BY PaidIsFinite
<1>8. /\ IsFiniteSet(Paid \cup AskedOf(i))
      /\ Cardinality(Paid \cup AskedOf(i)) = Cardinality(Paid) + Asked(SpecAt(i))
  BY <1>3, <1>6, <1>7, PairsCount, Zenon DEF AskedOf
<1>9. QED
  BY <1>2, <1>3, <1>5, <1>8 DEF i

LEMMA PaidMoves ==
  ASSUME StreamInv, InjectorType, [Next]_vars
  PROVE  Cardinality(Paid') \in Nat /\ Cardinality(Paid) <= Cardinality(Paid')
<1>1. cfg' = cfg
  BY WireGrows DEF response
<1>2. Cardinality(Paid) \in Nat /\ IsFiniteSet(Paid)
  BY PaidIsFinite
<1>3. CASE UNCHANGED fired
  <2>1. AskedUpTo(Len(cfg.specs))' = AskedUpTo(Len(cfg.specs))
    BY <1>1 DEF AskedUpTo, Asked, SpecAt
  <2>2. Paid' = Paid
    BY <1>1, <1>3, <2>1 DEF Paid
  <2>3. QED
    BY <1>2, <2>2
<1>4. ASSUME NEW modes, Firing(modes)
      PROVE  Cardinality(Paid') \in Nat /\ Cardinality(Paid) <= Cardinality(Paid')
  <2>1. /\ IsFiniteSet(Paid') /\ Asked(SpecAt(Top.next)) \in Nat
        /\ Cardinality(Paid') = Cardinality(Paid) + Asked(SpecAt(Top.next))
    BY <1>4, PaidByFiring
  <2>2. QED
    BY <1>2, <2>1
<1>5. CASE FireDisconnect \/ FireStall \/ FireCorrupt \/ FireException \/ FireInjection
  BY <1>4, <1>5 DEF FireDisconnect, FireStall, FireCorrupt, FireException, FireInjection
<1>6. CASE MatchDone \/ Skip \/ OpenBlock \/ FailValidation \/ EmitInjected
  BY <1>3, <1>6 DEF MatchDone, Skip, OpenBlock, FailValidation, EmitInjected, injector
<1>7. CASE WaitOver \/ NoLegacyFault \/ CorruptChunk \/ Ping \/ GiveUp \/ Sever \/ StallOver
  BY <1>3, <1>7, HandlerMoves DEF injector
<1>8. CASE EmitFrame \/ NextFrame \/ Finish \/ ClientLeaves \/ TimePasses \/ UNCHANGED vars
  BY <1>3, <1>8 DEF EmitFrame, NextFrame, Finish, ClientLeaves, TimePasses, vars, injector
<1>9. QED
  BY <1>5, <1>6, <1>7, <1>8 DEF Next, Handler, afterFrame

\* The one corrupt chunk a response can get.
LEMMA CorruptsOnce ==
  ASSUME InjectorType, NEW p \in 1..Len(script), NEW q \in 1..Len(script),
         CorruptsAt(p), CorruptsAt(q)
  PROVE  p = q
<1> DEFINE n == Chunks(cfg)
<1>1. n \in Nat /\ Chunked(script, n)
  BY ScriptIsChunked DEF InjectorType
<1>2. script[p].chunk > 0 /\ script[q].chunk > 0
      /\ script[p].chunk - 1 = n \div 2 /\ script[q].chunk - 1 = n \div 2
  BY DEF CorruptsAt
<1>6. n \div 2 \in Nat
  BY <1>1
<1> DEFINE half == n \div 2
<1> HIDE DEF n, half
<1>3. PICK a \in Nat :
        \A k \in 1..Len(script) : script[k].chunk = IF k \in (a + 1)..(a + n) THEN k - a ELSE 0
  BY <1>1 DEF Chunked
<1>4. p \in Int /\ q \in Int
  OBVIOUS
<1>5. p - a - 1 = half /\ q - a - 1 = half
  BY <1>2, <1>3 DEF half
<1>7. QED
  BY <1>4, <1>5, <1>6, <1>3 DEF half

LEMMA CorruptedMoves ==
  ASSUME StreamInv, InjectorType, [Next]_vars, Busy, Busy'
  PROVE  /\ Corrupted \in {0, 1} /\ Corrupted' \in {0, 1} /\ Corrupted <= Corrupted'
         /\ CorruptChunk => Corrupted = 0 /\ Corrupted' = 1
<1> DEFINE Past(k) == \E p \in 1..Len(script) : p <= k /\ CorruptsAt(p)
<1>1. UNCHANGED response /\ pos \in Nat \ {0} /\ Len(script) \in Nat
  BY WireGrows DEF StreamInv, ControlInv
<1>2. /\ \A p : CorruptsAt(p)' <=> CorruptsAt(p)
      /\ Len(script') = Len(script)
  BY <1>1 DEF CorruptsAt, Chunks, response
<1>3. /\ Corrupted = IF Past(Checked) THEN 1 ELSE 0
      /\ Corrupted' = IF Past(Checked') THEN 1 ELSE 0
  BY <1>2 DEF Corrupted
<1>4. ASSUME Checked' = Checked
      PROVE  Past(Checked') <=> Past(Checked)
  BY <1>4
<1>5. CASE NoLegacyFault \/ CorruptChunk
  <2>1. /\ phase = "check" /\ phase' = "wait" /\ pos' = pos
        /\ pos \in 1..Len(script)
        /\ CorruptChunk => CorruptsHere
    BY <1>1, <1>5 DEF NoLegacyFault, CorruptChunk, At
  <2>2. Checked = pos - 1 /\ Checked' = pos
    BY <2>1 DEF Checked
  <2>3. \A p \in 1..Len(script) : p <= pos - 1 => p <= pos
    BY <1>1
  <2>4. Past(Checked) => Past(Checked')
    BY <2>2, <2>3
  <2>5. ASSUME CorruptChunk
        PROVE  ~Past(Checked) /\ Past(Checked')
    <3>1. CorruptsAt(pos)
      BY <2>1, <2>5 DEF CorruptsHere, CorruptsAt, Now
    <3>2. \A p \in 1..Len(script) : p <= pos - 1 => p # pos
      BY <1>1
    <3>3. pos <= pos
      BY <1>1
    <3>4. QED
      BY <2>1, <2>2, <3>1, <3>2, <3>3, CorruptsOnce
  <2> HIDE DEF Past
  <2>6. QED
    BY <1>3, <2>4, <2>5
<1>6. CASE ~(NoLegacyFault \/ CorruptChunk)
  <2>1. Checked' = Checked
    BY <1>6, CheckedMoves
  <2> HIDE DEF Past
  <2>2. QED
    BY <1>3, <1>4, <1>6, <2>1
<1>7. QED
  BY <1>5, <1>6

LEMMA SubsetCounts ==
  ASSUME NEW S, IsFiniteSet(S), NEW T, T \subseteq S
  PROVE  IsFiniteSet(T) /\ Cardinality(T) <= Cardinality(S)
<1>1. T \in SUBSET S
  OBVIOUS
<1>2. QED
  BY <1>1, FS_Subset

\* How what is owed changes: a firing spec adds what it asks for, a frame takes
\* its item away, and opening a block splits one.
LEMMA OutstandingMoves ==
  ASSUME StreamInv, InjectorType, [Next]_vars, IsFiniteSet(Outstanding)
  PROVE  /\ IsFiniteSet(Outstanding') /\ Cardinality(Outstanding) \in Nat
         /\ FireInjection =>
              Cardinality(Outstanding') <= Cardinality(Outstanding) + Asked(SpecAt(Top.next))
         /\ EmitInjected => Cardinality(Outstanding) >= 1
         /\ EmitInjected /\ ~CutAfter(Due.event) =>
              Cardinality(Outstanding') <= Cardinality(Outstanding) - 1
         /\ ~FireInjection /\ ~EmitInjected =>
              Cardinality(Outstanding') <= Cardinality(Outstanding)
<1> DEFINE O == Outstanding
           L == Len(stack)
           n == Len(Top.todo)
<1>1. Cardinality(O) \in Nat /\ L \in Nat /\ Len(stack') \in Nat
  BY FS_CardinalityType, InjectorTypeStep, LenProperties DEF InjectorType
<1>2. ASSUME ~FireInjection, ~OpenBlock, ~(EmitInjected /\ ~CutAfter(Due.event))
      PROVE  IsFiniteSet(Outstanding') /\ Cardinality(Outstanding') <= Cardinality(O)
  <2>1. ASSUME NEW x \in Outstanding'
        PROVE  x \in O
    <3>1. /\ x \in Nat \X Nat \X Nat
          /\ x[1] \in 1..Len(stack') /\ Owed(stack'[x[1]].todo, x[2], x[3])
      BY DEF Outstanding, Owed, Weight
    <3>2. stack'[x[1]].todo # << >>
      <4>1. Len(stack'[x[1]].todo) # 0
        BY <3>1 DEF Owed
      <4>2. QED
        BY <4>1
    <3>3. ~(EmitInjected /\ stack' = stack) => x[1] <= L /\ stack'[x[1]].todo = stack[x[1]].todo
      <4>1. EmitInjected => stack' = stack
        BY <1>2, InjectorEnds
      <4>2. QED
        BY <1>2, <3>1, <3>2, <4>1, TodosMove
    <3>4. x[1] \in 1..L /\ stack'[x[1]].todo = stack[x[1]].todo
      BY <1>1, <3>1, <3>3
    <3>5. QED
      BY <3>1, <3>4 DEF Outstanding
  <2>2. Outstanding' \subseteq O
    BY <2>1
  <2>3. QED
    BY <2>2, SubsetCounts
<1>3. ASSUME FireInjection
      PROVE  /\ IsFiniteSet(Outstanding')
             /\ Cardinality(Outstanding') <= Cardinality(O) + Asked(SpecAt(Top.next))
  <2> DEFINE f == SpecAt(Top.next)
             new == OwedAt(L, Injected(f))
  <2>1. /\ f \in FaultSpecs /\ Asked(f) \in Nat /\ ~OpenBlock /\ ~EmitInjected
        /\ phase = "match" /\ stack # << >>
    <3>1. Firing({"unknown_event", "unknown_block"} \cup {m \in {"stream_error"} : IsSSE})
      BY <1>3 DEF FireInjection
    <3>2. f \in FaultSpecs /\ Asked(f) \in Nat
      BY <3>1, PaidByFiring
    <3>3. Top.todo = << >> /\ phase = "match" /\ stack # << >>
      BY <3>1 DEF Firing, Matching
    <3>4. QED
      BY <3>2, <3>3 DEF OpenBlock, EmitInjected, Injecting
  <2>2. IsFiniteSet(new) /\ Cardinality(new) <= Asked(f)
    BY <1>1, <2>1, OwedByInjection
  <2>3. ASSUME NEW x \in Outstanding'
        PROVE  x \in O \cup new
    <3>1. /\ x \in Nat \X Nat \X Nat
          /\ x[1] \in 1..Len(stack') /\ Owed(stack'[x[1]].todo, x[2], x[3])
      BY DEF Outstanding, Owed, Weight
    <3>2. stack'[x[1]].todo # << >>
      <4>1. Len(stack'[x[1]].todo) # 0
        BY <3>1 DEF Owed
      <4>2. QED
        BY <4>1
    <3>3. \/ x[1] <= L /\ stack'[x[1]].todo = stack[x[1]].todo
          \/ x[1] = L /\ stack'[x[1]].todo = Injected(f)
      BY <2>1, <3>1, <3>2, TodosMove
    <3>4. CASE x[1] <= L /\ stack'[x[1]].todo = stack[x[1]].todo
      <4>1. x[1] \in 1..L
        BY <1>1, <3>1, <3>4
      <4>2. QED
        BY <3>1, <3>4, <4>1 DEF Outstanding
    <3>5. CASE x[1] = L /\ stack'[x[1]].todo = Injected(f)
      BY <3>1, <3>5 DEF OwedAt
    <3>6. QED
      BY <3>3, <3>4, <3>5
  <2> HIDE DEF new, f
  <2>4. IsFiniteSet(O \cup new)
        /\ Cardinality(O \cup new) = Cardinality(O) + Cardinality(new) - Cardinality(O \cap new)
    BY <2>2, FS_Union
  <2>5. IsFiniteSet(O \cap new)
    BY FS_Intersection
  <2>6. /\ Cardinality(O \cap new) \in Nat /\ Cardinality(new) \in Nat
        /\ Cardinality(O \cup new) \in Nat
    BY <2>2, <2>4, <2>5, FS_CardinalityType
  <2>7. Outstanding' \subseteq O \cup new
    BY <2>3
  <2>8. IsFiniteSet(Outstanding') /\ Cardinality(Outstanding') <= Cardinality(O \cup new)
    BY <2>4, <2>7, SubsetCounts
  <2>9. Cardinality(Outstanding') \in Nat
    BY <2>8, FS_CardinalityType
  <2>10. QED
    BY <1>1, <2>1, <2>2, <2>4, <2>6, <2>8, <2>9 DEF f
<1>4. ASSUME Injecting
      PROVE  /\ phase = "match" /\ stack # << >> /\ Top.todo # << >> /\ L \in Nat \ {0}
             /\ Due \in Items /\ Due = Top.todo[1] /\ stack[L] = Top /\ Top \in Activations
             /\ Top.todo \in Seq(Items) /\ n \in Nat \ {0}
             /\ Owed(Top.todo, n, 1) /\ <<L, n, 1>> \in O
  <2>1. phase = "match" /\ stack # << >> /\ Top.todo # << >>
    BY <1>4 DEF Injecting
  <2>2. /\ Due \in Items /\ Due = Top.todo[1] /\ stack[L] = Top
        /\ Top.todo \in Seq(Items) /\ n \in Nat \ {0} /\ L \in Nat \ {0} /\ Top \in Activations
    BY <2>1, DueIsTyped, TopIsTyped
  <2>3. Owed(Top.todo, n, 1)
    BY <2>1, <2>2, OwedByHead
  <2>4. <<L, n, 1>> \in O
    BY <2>2, <2>3 DEF Outstanding
  <2>5. QED
    BY <2>1, <2>2, <2>3, <2>4
<1>5. ASSUME EmitInjected
      PROVE  Cardinality(O) >= 1
  <2>1. O # {}
    BY <1>4, <1>5 DEF EmitInjected
  <2>2. Cardinality(O) # 0
    BY <2>1, FS_EmptySet
  <2>3. QED
    BY <1>1, <2>2
<1>6. ASSUME EmitInjected, ~CutAfter(Due.event)
      PROVE  /\ IsFiniteSet(Outstanding')
             /\ Cardinality(Outstanding') <= Cardinality(O) - 1
  <2> DEFINE a == [Top EXCEPT !.todo = Tail(@)]
             b == Activation(Due.event)
             t == Tail(Top.todo)
  <2>1. Injecting
    BY <1>6 DEF EmitInjected
  <2>2. Pushed(a, b) /\ a.todo = t /\ b.todo = << >>
    <3>1. Pushed(a, b)
      BY <1>4, <1>6, <2>1, StackMoves
    <3>2. a.todo = t
      BY <1>4, <2>1 DEF Activations
    <3>3. QED
      BY <3>1, <3>2 DEF Activation
  <2> HIDE DEF a, b, t
  <2>3. ASSUME NEW x \in Outstanding'
        PROVE  x \in O \ {<<L, n, 1>>}
    <3>1. /\ x \in Nat \X Nat \X Nat /\ x[2] \in Nat /\ x[3] \in Nat
          /\ x[1] \in 1..Len(stack') /\ Owed(stack'[x[1]].todo, x[2], x[3])
      BY DEF Outstanding, Owed, Weight
    <3>2. stack'[x[1]].todo # << >>
      <4>1. Len(stack'[x[1]].todo) # 0
        BY <3>1 DEF Owed
      <4>2. QED
        BY <4>1
    <3>3. x[1] # L + 1
      BY <2>2, <3>2 DEF Pushed
    <3>4. CASE x[1] = L
      <4>1. Owed(t, x[2], x[3])
        BY <2>2, <3>1, <3>4 DEF Pushed
      <4>2. Owed(Top.todo, x[2], x[3]) /\ x[2] # n
        BY <1>4, <2>1, <3>1, <4>1, OwedByTail DEF t
      <4>3. QED
        BY <1>4, <2>1, <3>1, <3>4, <4>2 DEF Outstanding
    <3>5. CASE x[1] \in 1..(L - 1)
      <4>1. stack'[x[1]] = stack[x[1]]
        BY <2>2, <3>5 DEF Pushed
      <4>2. x[1] \in 1..L /\ x[1] # L
        BY <1>1, <3>5
      <4>3. QED
        BY <3>1, <4>1, <4>2 DEF Outstanding
    <3>6. QED
      BY <1>1, <2>2, <3>1, <3>3, <3>4, <3>5 DEF Pushed
  <2>4. Outstanding' \subseteq O \ {<<L, n, 1>>}
    BY <2>3
  <2>5. IsFiniteSet(O \ {<<L, n, 1>>}) /\ Cardinality(O \ {<<L, n, 1>>}) = Cardinality(O) - 1
    <3> DEFINE e == <<L, n, 1>>
    <3>1. e \in O
      BY <1>4, <2>1
    <3> HIDE DEF e, O
    <3>2. IsFiniteSet(O)
      BY DEF O
    <3>3. IsFiniteSet(O \ {e}) /\ Cardinality(O \ {e}) = Cardinality(O) - 1
      BY <3>1, <3>2, FS_RemoveElement
    <3>4. QED
      BY <3>3 DEF e
  <2>6. QED
    BY <2>4, <2>5, SubsetCounts
<1>7. ASSUME OpenBlock
      PROVE  /\ IsFiniteSet(Outstanding')
             /\ Cardinality(Outstanding') <= Cardinality(O)
  <2> DEFINE t == Opening(Due.offspec) \o Tail(Top.todo)
             a == [Top EXCEPT !.todo = Opening(Due.offspec) \o Tail(@)]
             M == (O \ {<<L, n, 2>>}) \cup {<<L, n + 1, 1>>}
  <2>1. Injecting /\ Due.op = "block"
    BY <1>7 DEF OpenBlock
  <2>2. TopBecomes(a) /\ a.todo = t
    <3>1. TopBecomes(a)
      BY <1>4, <1>7, <2>1, StackMoves
    <3>2. a.todo = t
      BY <1>4, <2>1 DEF Activations
    <3>3. QED
      BY <3>1, <3>2
  <2> HIDE DEF a
  <2>3. <<L, n, 2>> \in O
    <3>1. Owed(Top.todo, n, 2)
      BY <1>4, <2>1, OwedByHead
    <3>2. QED
      BY <1>4, <2>1, <3>1 DEF Outstanding
  <2>4. ASSUME NEW x \in Outstanding'
        PROVE  x \in M
    <3>1. /\ x \in Nat \X Nat \X Nat /\ x[2] \in Nat /\ x[3] \in Nat
          /\ x = <<x[1], x[2], x[3]>>
          /\ x[1] \in 1..Len(stack') /\ Owed(stack'[x[1]].todo, x[2], x[3])
      BY DEF Outstanding, Owed, Weight
    <3>2. CASE x[1] = L
      <4>1. Owed(t, x[2], x[3])
        BY <2>2, <3>1, <3>2 DEF TopBecomes
      <4>2. \/ Owed(Top.todo, x[2], x[3]) /\ x[2] # n
            \/ x[2] \in {n, n + 1} /\ x[3] = 1
        <5>1. Due.offspec \in BOOLEAN
          BY <1>4, <2>1 DEF Items
        <5>2. QED
          BY <1>4, <2>1, <3>1, <4>1, <5>1, OwedByOpening
      <4> HIDE DEF t
      <4>3. CASE Owed(Top.todo, x[2], x[3]) /\ x[2] # n
        <5>1. x \in O
          BY <1>4, <2>1, <3>1, <3>2, <4>3 DEF Outstanding
        <5>2. QED
          BY <4>3, <5>1
      <4>4. CASE x[2] = n /\ x[3] = 1
        <5>1. x = <<L, n, 1>>
          BY <3>1, <3>2, <4>4
        <5>2. QED
          BY <1>4, <2>1, <5>1
      <4>5. CASE x[2] = n + 1 /\ x[3] = 1
        BY <3>1, <3>2, <4>5
      <4>6. QED
        BY <4>2, <4>3, <4>4, <4>5
    <3>3. CASE x[1] \in 1..(L - 1)
      <4>1. stack'[x[1]] = stack[x[1]]
        BY <2>2, <3>3 DEF TopBecomes
      <4>2. x[1] \in 1..L /\ x[1] # L
        BY <1>1, <3>3
      <4>3. x \in O
        BY <3>1, <4>1, <4>2 DEF Outstanding
      <4>4. QED
        BY <4>2, <4>3
    <3>4. QED
      BY <1>1, <2>2, <3>1, <3>2, <3>3 DEF TopBecomes
  <2> DEFINE R == O \ {<<L, n, 2>>}
  <2>5. IsFiniteSet(R) /\ Cardinality(R) = Cardinality(O) - 1
    BY <2>3, FS_RemoveElement
  <2> HIDE DEF R, O
  <2>6. /\ IsFiniteSet(R \cup {<<L, n + 1, 1>>})
        /\ Cardinality(R \cup {<<L, n + 1, 1>>}) <= Cardinality(R) + 1
    <3>1. Cardinality(R) \in Nat
      BY <2>5, FS_CardinalityType
    <3>2. QED
      <4> DEFINE e == <<L, n + 1, 1>>
      <4> HIDE DEF e
      <4>1. /\ IsFiniteSet(R \cup {e})
            /\ Cardinality(R \cup {e})
                 = IF e \in R THEN Cardinality(R) ELSE Cardinality(R) + 1
        BY <2>5, FS_AddElement, Zenon
      <4>2. Cardinality(R \cup {e}) <= Cardinality(R) + 1
        BY <3>1, <4>1
      <4>3. QED
        BY <4>1, <4>2 DEF e
  <2>7. Outstanding' \subseteq R \cup {<<L, n + 1, 1>>}
    BY <2>4 DEF R
  <2>8. IsFiniteSet(Outstanding')
        /\ Cardinality(Outstanding') <= Cardinality(R \cup {<<L, n + 1, 1>>})
    BY <2>6, <2>7, SubsetCounts
  <2>9. Cardinality(R \cup {<<L, n + 1, 1>>}) \in Nat /\ Cardinality(Outstanding') \in Nat
    BY <2>6, <2>8, FS_CardinalityType
  <2>10. QED
    BY <1>1, <2>5, <2>6, <2>8, <2>9 DEF O
<1>8. ~(OpenBlock /\ EmitInjected) /\ ~(FireInjection /\ EmitInjected)
  BY DEF OpenBlock, EmitInjected, FireInjection, Firing, Matching, Injecting
<1>9. CASE FireInjection
  BY <1>1, <1>3, <1>8, <1>9
<1>10. CASE EmitInjected /\ ~CutAfter(Due.event)
  BY <1>1, <1>5, <1>6, <1>8, <1>10
<1>11. CASE OpenBlock
  BY <1>1, <1>3, <1>7, <1>8, <1>11
<1>12. CASE ~FireInjection /\ ~OpenBlock /\ ~(EmitInjected /\ ~CutAfter(Due.event))
  BY <1>1, <1>2, <1>5, <1>12
<1>13. QED
  BY <1>9, <1>10, <1>11, <1>12

\* What reaches the client besides the real frames while the response goes on.
LEMMA NoiseMoves ==
  ASSUME StreamInv, [Next]_vars, Busy, IsFiniteSet(Noise)
  PROVE  /\ IsFiniteSet(Noise') /\ Cardinality(Noise) \in Nat /\ Cardinality(Noise') \in Nat
         /\ Cardinality(Noise') <= Cardinality(Noise) + 1
         /\ Ping \/ CorruptChunk \/ FireCorrupt \/ FireException \/ EmitInjected
              \/ Cardinality(Noise') <= Cardinality(Noise)
<1>1. Sequences /\ Cardinality(Noise) \in Nat
  BY FS_CardinalityType DEF StreamInv
<1>2. ASSUME UNCHANGED sink
      PROVE  IsFiniteSet(Noise') /\ Cardinality(Noise') <= Cardinality(Noise)
  BY <1>1, <1>2, NoiseStays
<1>3. ASSUME NEW f, Adds(f) \/ Inserts(f), f.pos \in Nat
      PROVE  /\ IsFiniteSet(Noise')
             /\ Cardinality(Noise') <= Cardinality(Noise) + (IF IsReal(f) THEN 0 ELSE 1)
  BY <1>1, <1>3, NoiseAdds
<1>4. ASSUME NEW f, Adds(f) \/ Inserts(f), f.pos \in Nat
      PROVE  IsFiniteSet(Noise') /\ Cardinality(Noise') <= Cardinality(Noise) + 1
  <2>1. /\ IsFiniteSet(Noise')
        /\ Cardinality(Noise') <= Cardinality(Noise) + (IF IsReal(f) THEN 0 ELSE 1)
    BY <1>3, <1>4
  <2>2. Cardinality(Noise') \in Nat
    BY <2>1, FS_CardinalityType
  <2>3. QED
    BY <1>1, <2>1, <2>2
<1>5. CASE EmitFrame
  <2> DEFINE f == OnWire(Now.event, Now.block, pos)
  <2>1. f.pos \in Nat /\ IsReal(f)
    BY DEF StreamInv, ControlInv, OnWire, IsReal
  <2>2. Adds(f)
    BY <1>1, <1>5, WriteAdds DEF EmitFrame
  <2> HIDE DEF f
  <2>3. IsFiniteSet(Noise') /\ Cardinality(Noise') <= Cardinality(Noise) + 0
    BY <1>3, <2>1, <2>2
  <2>4. Cardinality(Noise') \in Nat
    BY <2>3, FS_CardinalityType
  <2>5. QED
    BY <1>1, <2>3, <2>4
<1>6. CASE Ping \/ CorruptChunk \/ FireCorrupt \/ FireException \/ EmitInjected
  <2>1. \/ UNCHANGED sink
        \/ \E f : f.pos \in Nat /\ (Adds(f) \/ Inserts(f))
    <3>1. ASSUME NEW e, NEW b PROVE OnWire(e, b, 0).pos \in Nat /\ Corrupt.pos \in Nat
      BY DEF OnWire, Corrupt
    <3>2. \A f : Neutral(f) => f.pos \in Nat
      BY DEF Neutral
    <3>3. pos \in Nat
      BY DEF StreamInv, ControlInv
    <3>4. OnWire(Now.event, Now.block, pos).pos = pos
      BY DEF OnWire
    <3>5. QED
      BY <3>1, <3>2, <3>3, <3>4, SentMoves
  <2>2. IsFiniteSet(Noise') /\ Cardinality(Noise') <= Cardinality(Noise) + 1
    <3>1. CASE UNCHANGED sink
      <4>1. IsFiniteSet(Noise') /\ Cardinality(Noise') <= Cardinality(Noise)
        BY <1>2, <3>1
      <4>2. Cardinality(Noise') \in Nat
        BY <4>1, FS_CardinalityType
      <4>3. QED
        BY <1>1, <4>1, <4>2
    <3>2. QED
      BY <1>4, <2>1, <3>1
  <2>3. Cardinality(Noise') \in Nat
    BY <2>2, FS_CardinalityType
  <2>4. QED
    BY <1>1, <1>6, <2>2, <2>3
<1>7. CASE UNCHANGED sink
  <2>1. IsFiniteSet(Noise') /\ Cardinality(Noise') <= Cardinality(Noise)
    BY <1>2, <1>7
  <2>2. Cardinality(Noise') \in Nat
    BY <2>1, FS_CardinalityType
  <2>3. QED
    BY <1>1, <2>1, <2>2
<1>8. CASE WaitOver \/ GiveUp \/ Sever \/ NoLegacyFault \/ NextFrame \/ StallOver
  BY <1>7, <1>8 DEF WaitOver, GiveUp, Sever, NoLegacyFault, NextFrame, StallOver
<1>9. CASE MatchDone \/ Skip \/ FireDisconnect \/ FireStall \/ FireInjection \/ OpenBlock
             \/ FailValidation
  BY <1>7, <1>9 DEF MatchDone, Skip, FireDisconnect, FireStall, FireInjection, OpenBlock,
     FailValidation
<1>10. CASE Finish
  BY <1>10 DEF Finish, Busy
<1>11. CASE ClientLeaves \/ TimePasses \/ UNCHANGED vars
  BY <1>7, <1>11 DEF ClientLeaves, TimePasses, vars
<1>12. QED
  BY <1>5, <1>6, <1>8, <1>9, <1>10, <1>11 DEF Next, Handler, afterFrame

\* Pings are counted.
LEMMA PingsCount ==
  ASSUME [Next]_vars, pings \in Nat
  PROVE  pings' \in Nat /\ pings <= pings' /\ (Ping => pings' = pings + 1)
<1>1. Ping => pings' = pings + 1
  BY DEF Ping
<1>2. ASSUME ~Ping
      PROVE  UNCHANGED pings
  <2>1. CASE WaitOver \/ GiveUp \/ Sever \/ NoLegacyFault \/ CorruptChunk \/ NextFrame
               \/ StallOver \/ EmitFrame \/ Finish
    BY <2>1 DEF WaitOver, GiveUp, Sever, NoLegacyFault, CorruptChunk, NextFrame, StallOver,
       EmitFrame, Finish
  <2>2. CASE FireDisconnect \/ FireStall \/ FireCorrupt \/ FireException \/ FireInjection
    BY <2>2 DEF FireDisconnect, FireStall, FireCorrupt, FireException, FireInjection, Firing
  <2>3. CASE MatchDone \/ Skip \/ OpenBlock \/ FailValidation \/ EmitInjected
    BY <2>3 DEF MatchDone, Skip, OpenBlock, FailValidation, EmitInjected
  <2>4. CASE ClientLeaves \/ TimePasses \/ UNCHANGED vars
    BY <2>4 DEF ClientLeaves, TimePasses, vars
  <2>5. QED
    BY <1>2, <2>1, <2>2, <2>3, <2>4 DEF Next, Handler, afterFrame
<1>3. pings' = pings \/ pings' = pings + 1
  BY <1>1, <1>2
<1>4. QED
  BY <1>1, <1>3

LEMMA SumsGrow ==
  ASSUME NEW a \in Nat, NEW b \in Nat, NEW c \in Nat, NEW d \in Nat, NEW x \in Nat, NEW y \in Nat,
         a <= b, c <= d, x <= y
  PROVE  a + c + x \in Nat /\ b + d + y \in Nat /\ a + c + x <= b + d + y
OBVIOUS

LEMMA FireStep ==
  ASSUME StreamInv, InjectorType, FireInv, [Next]_vars
  PROVE  FireInv'
<1> DEFINE n == Cardinality(Noise)
           m == Cardinality(Noise')
           o == Cardinality(Outstanding)
           r == Cardinality(Outstanding')
           p == Cardinality(Paid)
           q == Cardinality(Paid')
           extra == IF cfg.malformed_chunk THEN 1 ELSE 0
<1>0. cfg' = cfg
  BY WireGrows DEF response
<1>1. /\ p \in Nat /\ q \in Nat /\ extra \in Nat /\ n \in Nat
      /\ pings \in Nat /\ pings' \in Nat
  BY PaidIsFinite, PaidMoves, PingsCount, FS_CardinalityType DEF FireInv
<1>2. p <= q /\ pings <= pings' /\ (Ping => pings' = pings + 1)
  BY <1>1, PaidMoves, PingsCount
<1>3. IsFiniteSet(Noise) /\ n <= pings + extra + p
  BY DEF FireInv
<1>4. pings' <= pings' /\ extra <= extra /\ q <= q
  BY <1>1
<1>5. CASE ~Busy
  <2>1. ~Busy' /\ (UNCHANGED sink \/ Finish)
    BY <1>5, EndsForGood
  <2>2. Sequences /\ n \in Nat
    BY <1>3, FS_CardinalityType DEF StreamInv
  <2>3. IsFiniteSet(Noise') /\ m <= n
    <3>1. CASE UNCHANGED sink \/ Keeps
      BY <1>3, <2>2, <3>1, NoiseStays
    <3>2. CASE Adds(OnWire("[DONE]", NoBlock, Total)) /\ EndsWithDone(cfg)
      <4> DEFINE f == OnWire("[DONE]", NoBlock, Total)
      <4>1. Total \in Nat /\ Total > 0
        BY <3>2 DEF Total, StreamInv, ControlInv
      <4>2. f.pos \in Nat /\ IsReal(f)
        BY <4>1 DEF OnWire, IsReal
      <4>3. Adds(f)
        BY <3>2
      <4> HIDE DEF f
      <4>4. IsFiniteSet(Noise') /\ m <= n + 0
        BY <1>3, <2>2, <4>2, <4>3, NoiseAdds
      <4>5. m \in Nat
        BY <4>4, FS_CardinalityType
      <4>6. QED
        BY <2>2, <4>4, <4>5
    <3>3. QED
      BY <2>1, <3>1, <3>2, FinishSends
  <2>4. m \in Nat
    BY <2>3, FS_CardinalityType
  <2> HIDE DEF n, m, p, q, extra
  <2>5. m <= pings' + extra + q
    <3> DEFINE old == pings + extra + p
               new == pings' + extra + q
    <3>1. old \in Nat /\ new \in Nat /\ old <= new
      BY <1>1, <1>2, <1>4, SumsGrow, Zenon
    <3>2. n <= old
      BY <1>3
    <3> HIDE DEF old, new
    <3>3. m <= new
      BY <1>1, <2>3, <2>4, <3>1, <3>2
    <3>4. QED
      BY <3>3 DEF new
  <2>6. QED
    BY <1>0, <1>1, <2>1, <2>3, <2>5 DEF FireInv, m, q, extra
<1>6. CASE Busy
  <2>1. /\ IsFiniteSet(Outstanding) /\ Corrupted \in {0, 1} /\ Corrupted <= extra
        /\ n + o <= pings + Corrupted + p
    BY <1>6 DEF FireInv, Corrupted, CorruptsAt
  <2>2. /\ IsFiniteSet(Noise') /\ n \in Nat /\ m \in Nat /\ m <= n + 1
        /\ Ping \/ CorruptChunk \/ FireCorrupt \/ FireException \/ EmitInjected \/ m <= n
    BY <1>3, <1>6, NoiseMoves
  <2>3. /\ IsFiniteSet(Outstanding') /\ o \in Nat
        /\ FireInjection => r <= o + Asked(SpecAt(Top.next))
        /\ EmitInjected => o >= 1
        /\ EmitInjected /\ ~CutAfter(Due.event) => r <= o - 1
        /\ ~FireInjection /\ ~EmitInjected => r <= o
    BY <2>1, OutstandingMoves
  <2>4. r \in Nat
    BY <2>3, FS_CardinalityType
  <2>5. /\ FireInjection => Asked(SpecAt(Top.next)) \in Nat /\ q = p + Asked(SpecAt(Top.next))
        /\ FireCorrupt \/ FireException => q = p + 1
    <3>1. ASSUME FireInjection
          PROVE  Asked(SpecAt(Top.next)) \in Nat /\ q = p + Asked(SpecAt(Top.next))
      BY <3>1, PaidByFiring DEF FireInjection
    <3>2. ASSUME FireCorrupt
          PROVE  q = p + 1
      <4>1. Firing({"malformed_chunk"})
        BY <3>2 DEF FireCorrupt
      <4>2. SpecAt(Top.next).mode = "malformed_chunk" /\ q = p + Asked(SpecAt(Top.next))
        BY <4>1, PaidByFiring
      <4>3. Asked(SpecAt(Top.next)) = 1
        BY <4>2 DEF Asked
      <4>4. QED
        BY <4>2, <4>3
    <3>3. ASSUME FireException
          PROVE  q = p + 1
      <4>1. Firing({"stream_error"})
        BY <3>3 DEF FireException
      <4>2. SpecAt(Top.next).mode = "stream_error" /\ q = p + Asked(SpecAt(Top.next))
        BY <4>1, PaidByFiring
      <4>3. Asked(SpecAt(Top.next)) = 1
        BY <4>2 DEF Asked
      <4>4. QED
        BY <4>2, <4>3
    <3>4. QED
      BY <3>1, <3>2, <3>3
  <2>6. Busy' => /\ Corrupted' \in {0, 1} /\ Corrupted <= Corrupted' /\ Corrupted' <= extra
                 /\ CorruptChunk => Corrupted = 0 /\ Corrupted' = 1
    <3>1. Corrupted' <= extra
      BY <1>0 DEF Corrupted, CorruptsAt
    <3>2. QED
      BY <1>1, <1>6, <3>1, CorruptedMoves
  <2>7. /\ FireException => ~Busy'
        /\ EmitInjected /\ CutAfter(Due.event) => ~Busy'
        /\ CorruptChunk \/ FireCorrupt \/ Ping => Busy'
    <3>1. CorruptChunk \/ FireCorrupt \/ Ping => Busy'
      BY <1>6 DEF CorruptChunk, FireCorrupt, Ping, Busy
    <3>2. QED
      BY <3>1, InjectorEnds DEF Busy
  <2>8. ~(FireInjection /\ FireCorrupt)
    BY DEF FireInjection, FireCorrupt, Firing
  <2> HIDE DEF n, m, o, r, p, q, extra
  <2>9. Busy' => m + r <= pings' + Corrupted' + q
    BY <1>1, <1>2, <2>1, <2>2, <2>3, <2>4, <2>5, <2>6, <2>7, <2>8
  <2>10. m <= pings' + extra + q
    <3> DEFINE old == pings + extra + p
               new == pings' + extra + q
    <3>1. CASE Busy'
      <4> DEFINE mid == pings' + Corrupted' + q
      <4>1. m <= mid
        BY <1>1, <2>2, <2>4, <2>6, <2>9, <3>1
      <4>2. mid \in Nat /\ new \in Nat /\ mid <= new
        <5>1. Corrupted' \in Nat /\ Corrupted' <= extra
          BY <2>6, <3>1
        <5>2. QED
          BY <1>1, <1>4, <5>1, SumsGrow, Zenon
      <4> HIDE DEF mid, new
      <4>3. m <= new
        BY <2>2, <4>1, <4>2
      <4>4. QED
        BY <4>3 DEF new
    <3>2. CASE ~Busy'
      <4>1. old \in Nat /\ new \in Nat /\ old <= new
        BY <1>1, <1>2, <1>4, SumsGrow, Zenon
      <4>2. n + o <= old
        BY <1>1, <2>1, <2>3
      <4>3. CASE FireException
        <5>1. n <= old
          BY <1>1, <2>3, <4>1, <4>2
        <5>2. new >= old + 1
          <6>1. q = p + 1 /\ old + 1 = pings + extra + q
            BY <1>1, <2>5, <4>3
          <6>2. pings + extra + q <= new
            BY <1>1, <1>2, <1>4, SumsGrow, Zenon
          <6>3. QED
            BY <6>1, <6>2
        <5> HIDE DEF old, new
        <5>3. m <= new
          BY <1>1, <2>2, <4>1, <5>1, <5>2
        <5>4. QED
          BY <5>3 DEF new
      <4>4. CASE FireCorrupt \/ Ping
        BY <2>7, <3>2, <4>4
      <4>5. CASE EmitInjected
        <5>1. n + 1 <= n + o
          BY <1>1, <2>3, <4>5
        <5> HIDE DEF old, new
        <5>2. m <= new
          BY <1>1, <2>2, <2>3, <4>1, <4>2, <5>1
        <5>3. QED
          BY <5>2 DEF new
      <4>6. CASE m <= n
        <5> HIDE DEF old, new
        <5>1. m <= new
          BY <1>1, <2>2, <2>3, <4>1, <4>2, <4>6
        <5>2. QED
          BY <5>1 DEF new
      <4>7. QED
        BY <2>2, <2>7, <3>2, <4>3, <4>4, <4>5, <4>6
    <3>3. QED
      BY <3>1, <3>2
  <2>11. QED
    BY <1>0, <1>1, <2>2, <2>3, <2>9, <2>10 DEF FireInv, m, r, q, extra
<1>7. QED
  BY <1>5, <1>6

LEMMA FireInit == Init => FireInv
<1> SUFFICES ASSUME Init PROVE FireInv
  OBVIOUS
<1>1. /\ Sent = << >> /\ stack = << >> /\ fired = {} /\ pings = 0
  BY DEF Init, Sent
<1>2. Noise = {} /\ Outstanding = {} /\ Paid = {}
  BY <1>1 DEF Noise, Outstanding, Paid
<1>3. Corrupted \in {0, 1}
  BY DEF Corrupted
<1>4. QED
  BY <1>1, <1>2, <1>3, FS_EmptySet DEF FireInv

(***************************************************************************)
(* Though each injected frame is offered to every spec again, what is      *)
(* injected on the way is no more than the specs ask for, each of them     *)
(* once: however deep the calls of matchAndFire nest, whatever the         *)
(* repetitions (matchAndFire, the fired flags).                            *)
(***************************************************************************)
THEOREM SpecsAreOneShot == Spec => []SpecsFireOnce
<1> DEFINE Inv == StreamInv /\ InjectorType /\ FireInv
<1>1. Init => Inv
  BY StreamInit, InjectorTypeInit, FireInit
<1>2. Inv /\ [Next]_vars => Inv'
  BY StreamStep, InjectorTypeStep, FireStep
<1>3. Inv => SpecsFireOnce
  <2> SUFFICES ASSUME Inv PROVE SpecsFireOnce
    OBVIOUS
  <2> DEFINE n == Cardinality(Noise)
             e == IF cfg.malformed_chunk THEN 1 ELSE 0
             p == Cardinality(Paid)
             a == Cardinality(AskedUpTo(Len(cfg.specs)))
  <2>1. n <= pings + e + p /\ pings \in Nat /\ n \in Nat /\ e \in {0, 1}
    BY FS_CardinalityType DEF FireInv
  <2>2. p \in Nat /\ a \in Nat /\ p <= a
    BY PaidIsFinite
  <2> HIDE DEF n, e, p, a
  <2>3. n <= pings + e + a
    BY <2>1, <2>2
  <2>4. QED
    BY <2>3, AskedIsSummed DEF SpecsFireOnce, Noise, n, e, a
<1>4. QED
  BY <1>1, <1>2, <1>3, PTL DEF Spec
=============================================================================
