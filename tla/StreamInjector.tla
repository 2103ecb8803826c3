--------------------------- MODULE StreamInjector ---------------------------
(***************************************************************************)
(* One streamed response: the handlers of the five stream surfaces write   *)
(* their frames through the SSE or eventstream writer, and after each of   *)
(* them the fault injector of src/fault.go fires the stream-phase specs    *)
(* whose WHEN holds.  Frames a spec injects are matched against the other  *)
(* specs again, so that faults compose: the recursion of matchAndFire and  *)
(* emitInjected is the explicit `stack` of activations.                    *)
(*                                                                         *)
(* A frame is its event name, its content block and its position in the    *)
(* response (0 for injected frames, pings and corrupt ones); it counts as  *)
(* one byte of body.                                                       *)
(***************************************************************************)
EXTENDS Integers, Sequences, FiniteSets

CONSTANTS
  Configs,    \* what a request and its configuration make of the stream
  MaxPings    \* bound: keep-alive pings of one response

ASSUME PingsAssumption == MaxPings \in Nat

VARIABLES
  cfg,          \* the configuration of this response
  script,       \* the frames of the complete response
  pos,          \* the frame the handler is at
  phase,        \* what it does with it
  stack,        \* the pending calls of matchAndFire
  fired,        \* inj.fired: the indexes of the fired specs
  frames,       \* inj.frames
  blockIndex,   \* inj.blockIndex
  bytes,        \* bodyBytes() of the writer
  pings,        \* history: keep-alive pings written
  pending,      \* coalesced frames
  wire,         \* frames handed to the connection
  conn,         \* "open", or "cut" once hijacked
  cause,        \* history: what ended the stream, and the spec that did
  client,       \* the client is connected
  late          \* the after_ms of the specs have passed

injector == <<stack, fired, frames, blockIndex>>
sink == <<bytes, pending, wire>>
response == <<cfg, script>>
vars == <<response, pos, phase, injector, sink, pings, conn, cause, client, late>>

Surfaces == {"chat", "messages", "completions", "responses", "converse"}
NoBlock == -1

\* FaultSpec, as far as a stream is concerned; fire takes a repeat below 1 for 1.
FaultSpecs ==
  [mode : STRING, after_event : STRING, after_n : Int, after_bytes : Int, after_ms : Int,
   repeat : Nat \ {0}, event_type : STRING, offspec : BOOLEAN]

ASSUME ConfigAssumption ==
  \A c \in Configs :
    /\ c.surface \in Surfaces /\ c.deltas \in Nat
    /\ c.specs \in Seq(FaultSpecs)
    /\ c.disconnect_after_chunks \in Int
-----------------------------------------------------------------------------
(* The frames of a complete response, per surface.                         *)

Frame(event, block) == [event |-> event, block |-> block, chunk |-> 0, waits |-> FALSE]

\* A streamed delta: each comes after the legacy fault check and its delay.
Deltas(event, block, n) ==
  [i \in 1..n |-> [event |-> event, block |-> block, chunk |-> i, waits |-> TRUE]]

If(condition, seq) == IF condition THEN seq ELSE << >>

TextBlock(c) == IF c.thinking THEN 1 ELSE 0

AnthropicStream(c) ==
  << Frame("message_start", NoBlock) >>
  \o If(c.ping, << Frame("ping", NoBlock) >>)
  \o If(c.thinking,
        << Frame("content_block_start", 0),
           [Frame("content_block_delta", 0) EXCEPT !.waits = TRUE],
           Frame("content_block_delta", 0),
           Frame("content_block_stop", 0) >>)
  \o << Frame("content_block_start", TextBlock(c)) >>
  \o Deltas("content_block_delta", TextBlock(c), c.deltas)
  \o << Frame("content_block_stop", TextBlock(c)) >>
  \o If(c.tool,
        << Frame("content_block_start", TextBlock(c) + 1),
           Frame("content_block_delta", TextBlock(c) + 1),
           Frame("content_block_delta", TextBlock(c) + 1),
           Frame("content_block_delta", TextBlock(c) + 1),
           Frame("content_block_stop", TextBlock(c) + 1) >>)
  \o << Frame("message_delta", NoBlock), Frame("message_stop", NoBlock) >>

\* Role, content, tool call, finish, usage: data-only frames.
OpenAIChatStream(c) ==
  << Frame("", NoBlock) >> \o Deltas("", NoBlock, c.deltas)
  \o If(c.tool, << Frame("", NoBlock) >>) \o << Frame("", NoBlock) >>
  \o If(c.usage, << Frame("", NoBlock) >>)

\* Content and finish, each after a legacy check.
CompletionsStream(c) ==
  [i \in 1..2 |-> [Frame("", NoBlock) EXCEPT !.chunk = i]]

ResponsesStream(c) ==
  << Frame("response.created", NoBlock), Frame("response.output_item.added", NoBlock),
     Frame("response.content_part.added", NoBlock) >>
  \o Deltas("response.output_text.delta", NoBlock, c.deltas)
  \o << Frame("response.output_text.done", NoBlock),
        Frame("response.content_part.done", NoBlock),
        Frame("response.output_item.done", NoBlock),
        Frame("response.completed", NoBlock) >>

BedrockConverseStream(c) ==
  << Frame("messageStart", NoBlock) >> \o Deltas("contentBlockDelta", 0, c.deltas)
  \o << Frame("contentBlockStop", 0), Frame("messageStop", NoBlock),
        Frame("metadata", NoBlock) >>

Script(c) ==
  CASE c.surface = "messages" -> AnthropicStream(c)
    [] c.surface = "chat" -> OpenAIChatStream(c)
    [] c.surface = "completions" -> CompletionsStream(c)
    [] c.surface = "responses" -> ResponsesStream(c)
    [] c.surface = "converse" -> BedrockConverseStream(c)

Chunks(c) == IF c.surface = "completions" THEN 2 ELSE c.deltas

\* The OpenAI surfaces close with a [DONE] no fault spec sees.
EndsWithDone(c) == c.surface \in {"chat", "completions"}
-----------------------------------------------------------------------------
Init ==
  /\ cfg \in Configs
  /\ script = Script(cfg)
  /\ pos = 1
  /\ phase = IF cfg.ttft THEN "ttft" ELSE "check"
  /\ stack = << >>
  /\ fired = {}
  /\ frames = 0
  /\ blockIndex = 50
  /\ bytes = 0
  /\ pings = 0
  /\ pending = << >>
  /\ wire = << >>
  /\ conn = "open"
  /\ cause = <<"none", 0>>
  /\ client = TRUE
  /\ late = FALSE

Total == Len(script) + (IF EndsWithDone(cfg) THEN 1 ELSE 0)

IsSSE == cfg.surface # "converse"

\* Mutant: a frame overtakes the coalesced ones it releases.
WriteOvertaking(f) ==
  /\ bytes' = bytes + 1
  /\ LET all == Append(pending, f)
     IN IF IsSSE /\ Len(all) < cfg.coalesce
        THEN pending' = all /\ UNCHANGED wire
        ELSE pending' = << >> /\ wire' = wire \o <<f>> \o pending

\* writeFrame of sseWriter, writeRaw of eventStreamWriter: the frame joins the
\* coalesced ones, which go out together, or goes out by itself.
Write(f) ==
  /\ bytes' = bytes + 1
  /\ LET all == Append(pending, f)
     IN IF IsSSE /\ Len(all) < cfg.coalesce
        THEN pending' = all /\ UNCHANGED wire
        ELSE pending' = << >> /\ wire' = wire \o all

\* The position a real frame has on the wire; 0 for all others.
OnWire(event, block, p) == [event |-> event, block |-> block, pos |-> p]
Corrupt == OnWire("corrupt", NoBlock, 0)

\* The handler returns; only the Anthropic one, after its last frame, does not
\* look at what became of it before it flushes.
Return(why) ==
  /\ phase' = IF cfg.surface = "messages" /\ pos = Len(script) THEN "finish" ELSE "over"
  /\ cause' = why

\* hijackAndClose; what cannot be hijacked (HTTP/2) stays open and gets a
\* status nobody reads.
Cut(why) ==
  /\ conn' = IF cfg.h1 THEN "cut" ELSE conn
  /\ Return(why)
-----------------------------------------------------------------------------
(* The handler between two frames.                                         *)

Now == script[pos]
At(p) == phase = p /\ pos <= Len(script)

\* sleepWithPings, before the first frame and before a delta.
Waiting == phase = "ttft" \/ (At("wait") /\ Now.waits)

Ping ==
  /\ Waiting
  /\ IsSSE
  /\ pings < MaxPings
  /\ pings' = pings + 1
  /\ Write(OnWire(": ping", NoBlock, 0))
  /\ UNCHANGED <<response, pos, phase, injector, conn, cause, client, late>>

WaitOver ==
  /\ phase = "ttft" \/ At("wait")
  /\ phase' = IF phase = "ttft" THEN "check" ELSE "emit"
  /\ UNCHANGED <<response, pos, injector, sink, pings, conn, cause, client, late>>

GiveUp ==
  /\ Waiting
  /\ ~client
  /\ phase' = "over"
  /\ cause' = <<"client", 0>>
  /\ UNCHANGED <<response, pos, injector, sink, pings, conn, client, late>>

\* checkStreamingFault, checkBedrockStreamingFault: chunk i of the loop is
\* number i + 1.
SeversHere ==
  Now.chunk > 0 /\ cfg.disconnect_after_chunks > 0
    /\ Now.chunk - 1 >= cfg.disconnect_after_chunks

CorruptsHere ==
  Now.chunk > 0 /\ cfg.malformed_chunk /\ Now.chunk - 1 = Chunks(cfg) \div 2

Sever ==
  /\ At("check")
  /\ SeversHere
  /\ Cut(<<"chunks", 0>>)
  /\ UNCHANGED <<response, pos, injector, sink, pings, client, late>>

\* The SSE surfaces write the corrupt chunk with a writer of its own, past the
\* coalescing buffer and the byte count.
CorruptChunk ==
  /\ At("check")
  /\ ~SeversHere
  /\ CorruptsHere
  /\ IF IsSSE
     THEN wire' = Append(wire, Corrupt) /\ UNCHANGED <<bytes, pending>>
     ELSE Write(Corrupt)
  /\ phase' = "wait"
  /\ UNCHANGED <<response, pos, injector, pings, conn, cause, client, late>>

NoLegacyFault ==
  /\ At("check")
  /\ ~SeversHere /\ ~CorruptsHere
  /\ phase' = "wait"
  /\ UNCHANGED <<response, pos, injector, sink, pings, conn, cause, client, late>>

CutAfter(event) ==
  /\ cfg.surface \in {"messages", "converse"}
  /\ cfg.disconnect_after_event # "" /\ cfg.disconnect_after_event = event

Activation(event) == [event |-> event, next |-> 1, todo |-> << >>]

\* The handler's frame goes out, then afterFrame.
EmitFrame ==
  /\ At("emit")
  /\ Write(OnWire(Now.event, Now.block, pos))
  /\ IF CutAfter(Now.event)
     THEN Cut(<<"event", 0>>) /\ UNCHANGED <<stack, frames>>
     ELSE /\ frames' = frames + 1
          /\ stack' = << Activation(Now.event) >>
          /\ phase' = "match"
          /\ UNCHANGED <<conn, cause>>
  /\ UNCHANGED <<response, pos, fired, blockIndex, pings, client, late>>

NextFrame ==
  /\ phase = "match"
  /\ stack = << >>
  /\ pos' = pos + 1
  /\ phase' = IF pos = Len(script) THEN "finish" ELSE "check"
  /\ UNCHANGED <<response, injector, sink, pings, conn, cause, client, late>>

\* Mutant: the coalesced tail is not flushed.
FinishUnflushed ==
  /\ phase = "finish"
  /\ LET tail == If(EndsWithDone(cfg), << OnWire("[DONE]", NoBlock, Total) >>)
     IN wire' = IF conn = "open" THEN wire \o tail ELSE wire
  /\ pending' = << >>
  /\ phase' = "over"
  /\ cause' = IF cause[1] = "none" THEN <<"end", 0>> ELSE cause
  /\ UNCHANGED <<response, pos, injector, bytes, pings, conn, client, late>>

\* writeDone, flushPending: the coalesced tail goes out with the stream.
Finish ==
  /\ phase = "finish"
  /\ LET tail == pending \o If(EndsWithDone(cfg), << OnWire("[DONE]", NoBlock, Total) >>)
     IN wire' = IF conn = "open" THEN wire \o tail ELSE wire
  /\ pending' = << >>
  /\ phase' = "over"
  /\ cause' = IF cause[1] = "none" THEN <<"end", 0>> ELSE cause
  /\ UNCHANGED <<response, pos, injector, bytes, pings, conn, client, late>>
-----------------------------------------------------------------------------
(* The injector.                                                           *)

Top == stack[Len(stack)]
Pop == SubSeq(stack, 1, Len(stack) - 1)
SpecAt(i) == cfg.specs[i]

\* Mutant: after_n is passed, not reached.
matchedLate(f, event) ==
  /\ f.after_event # "" => f.after_event = event
  /\ f.after_n > 0 => frames > f.after_n
  /\ f.after_bytes > 0 => bytes >= f.after_bytes
  /\ f.after_ms > 0 => late

matched(f, event) ==
  /\ f.after_event # "" => f.after_event = event
  /\ f.after_n > 0 => frames >= f.after_n
  /\ f.after_bytes > 0 => bytes >= f.after_bytes
  /\ f.after_ms > 0 => late

Matching == phase = "match" /\ stack # << >> /\ Top.todo = << >>
Fires == Top.next \notin fired /\ matched(SpecAt(Top.next), Top.event)

\* The loop is through: back to the frame this call was made for.
MatchDone ==
  /\ Matching
  /\ Top.next > Len(cfg.specs)
  /\ stack' = Pop
  /\ UNCHANGED <<response, pos, phase, fired, frames, blockIndex, sink, pings, conn, cause,
                 client, late>>

Skip ==
  /\ Matching
  /\ Top.next <= Len(cfg.specs)
  /\ ~Fires
  /\ stack' = [stack EXCEPT ![Len(stack)].next = @ + 1]
  /\ UNCHANGED <<response, pos, phase, fired, frames, blockIndex, sink, pings, conn, cause,
                 client, late>>

\* The frames a spec injects: an event, an error, or a block still to be given
\* an index.
Injected(f) ==
  LET event == IF f.event_type # "" THEN f.event_type
               ELSE IF IsSSE THEN "message_future" ELSE "messageFuture"
  IN CASE f.mode = "unknown_event" ->
            [i \in 1..f.repeat |-> [op |-> "frame", event |-> event, block |-> NoBlock,
                                    offspec |-> TRUE]]
       [] f.mode = "unknown_block" ->
            [i \in 1..f.repeat |-> [op |-> "block", event |-> "", block |-> NoBlock,
                                    offspec |-> f.offspec]]
       [] f.mode = "stream_error" ->
            << [op |-> "frame", event |-> "error", block |-> NoBlock, offspec |-> TRUE] >>
       [] OTHER -> << >>

\* Mutant: a fired spec stays armed.
FiringAgain(modes) ==
  /\ Matching
  /\ Top.next <= Len(cfg.specs)
  /\ Fires
  /\ SpecAt(Top.next).mode \in modes
  /\ UNCHANGED <<response, pos, fired, frames, blockIndex, pings, client, late>>

Firing(modes) ==
  /\ Matching
  /\ Top.next <= Len(cfg.specs)
  /\ Fires
  /\ SpecAt(Top.next).mode \in modes
  /\ fired' = fired \cup {Top.next}
  /\ UNCHANGED <<response, pos, frames, blockIndex, pings, client, late>>

FireDisconnect ==
  /\ Firing({"disconnect"})
  /\ Cut(<<"spec", Top.next>>)
  /\ UNCHANGED <<stack, sink>>

FireStall ==
  /\ Firing({"stall"})
  /\ phase' = "stalled"
  /\ UNCHANGED <<stack, sink, conn, cause>>

FireCorrupt ==
  /\ Firing({"malformed_chunk"})
  /\ Write(Corrupt)
  /\ stack' = [stack EXCEPT ![Len(stack)].next = @ + 1]
  /\ UNCHANGED <<phase, conn, cause>>

\* An eventstream is over after an exception.
FireException ==
  /\ ~IsSSE
  /\ Firing({"stream_error"})
  /\ Write(OnWire("exception", NoBlock, 0))
  /\ Return(<<"exception", Top.next>>)
  /\ UNCHANGED <<stack, conn>>

FireInjection ==
  /\ Firing({"unknown_event", "unknown_block"} \cup {m \in {"stream_error"} : IsSSE})
  /\ stack' = [stack EXCEPT ![Len(stack)] =
                 [event |-> Top.event, next |-> Top.next + 1,
                  todo |-> Injected(SpecAt(Top.next))]]
  /\ UNCHANGED <<sink, phase, conn, cause>>

\* A call of emitInjected is due.
Injecting == phase = "match" /\ stack # << >> /\ Top.todo # << >>
Due == Head(Top.todo)

\* Mutant: every injected block takes the same index.
OpenBlockAgain ==
  /\ Injecting
  /\ Due.op = "block"
  /\ LET names == IF IsSSE THEN <<"content_block_start", "content_block_stop">>
                  ELSE <<"contentBlockStart", "contentBlockStop">>
         block == [i \in 1..2 |-> [op |-> "frame", event |-> names[i], block |-> blockIndex,
                                   offspec |-> Due.offspec /\ i = 1]]
     IN stack' = [stack EXCEPT ![Len(stack)].todo = block \o Tail(@)]
  /\ UNCHANGED <<response, pos, phase, fired, frames, blockIndex, sink, pings, conn, cause,
                 client, late>>

\* The index is taken before the block is written: a block injected while this
\* one is open gets another.
OpenBlock ==
  /\ Injecting
  /\ Due.op = "block"
  /\ LET names == IF IsSSE THEN <<"content_block_start", "content_block_stop">>
                  ELSE <<"contentBlockStart", "contentBlockStop">>
         block == [i \in 1..2 |-> [op |-> "frame", event |-> names[i], block |-> blockIndex,
                                   offspec |-> Due.offspec /\ i = 1]]
     IN stack' = [stack EXCEPT ![Len(stack)].todo = block \o Tail(@)]
  /\ blockIndex' = blockIndex + 1
  /\ UNCHANGED <<response, pos, phase, fired, frames, sink, pings, conn, cause, client, late>>

Refused == cfg.validate /\ cfg.surface \in {"messages", "chat"} /\ Due.offspec

\* failStreamValidation
FailValidation ==
  /\ Injecting
  /\ Due.op = "frame" /\ Refused
  /\ Cut(<<"validation", 0>>)
  /\ UNCHANGED <<response, pos, injector, sink, pings, client, late>>

\* Mutant: no other spec sees an injected frame.
EmitInjectedUnseen ==
  /\ Injecting
  /\ Due.op = "frame" /\ ~Refused
  /\ Write(OnWire(Due.event, Due.block, 0))
  /\ stack' = [stack EXCEPT ![Len(stack)].todo = Tail(@)]
  /\ UNCHANGED <<response, pos, phase, fired, frames, blockIndex, pings, conn, cause,
                 client, late>>

\* emitInjected: written like a real frame, then matched under its own name.
EmitInjected ==
  /\ Injecting
  /\ Due.op = "frame" /\ ~Refused
  /\ Write(OnWire(Due.event, Due.block, 0))
  /\ IF CutAfter(Due.event)
     THEN Cut(<<"event", 0>>) /\ UNCHANGED stack
     ELSE /\ stack' = Append([stack EXCEPT ![Len(stack)].todo = Tail(@)],
                             Activation(Due.event))
          /\ UNCHANGED <<phase, conn, cause>>
  /\ UNCHANGED <<response, pos, fired, frames, blockIndex, pings, client, late>>

\* Mutant: the stall waits for something a client that left cannot give.
StallWaitsForClient ==
  /\ phase = "stalled"
  /\ client
  /\ Return(<<"client", 0>>)
  /\ UNCHANGED <<response, pos, injector, sink, pings, conn, client, late>>

\* A stall ends when the client gives up, and the stream with it.
StallOver ==
  /\ phase = "stalled"
  /\ ~client
  /\ Return(<<"client", 0>>)
  /\ UNCHANGED <<response, pos, injector, sink, pings, conn, client, late>>
-----------------------------------------------------------------------------
\* Seen by the waits only, so it is enough that these happen in time for one.
ClientLeaves ==
  /\ client
  /\ Waiting \/ phase = "stalled"
  /\ client' = FALSE
  /\ UNCHANGED <<response, pos, phase, injector, sink, pings, conn, cause, late>>

TimePasses ==
  /\ ~late /\ phase # "over"
  /\ \E i \in 1..Len(cfg.specs) : SpecAt(i).after_ms > 0
  /\ late' = TRUE
  /\ UNCHANGED <<response, pos, phase, injector, sink, pings, conn, cause, client>>

afterFrame ==
  \/ MatchDone \/ Skip \/ FireDisconnect \/ FireStall \/ FireCorrupt \/ FireException
  \/ FireInjection \/ OpenBlock \/ FailValidation \/ EmitInjected

Handler ==
  \/ WaitOver \/ GiveUp \/ Sever \/ CorruptChunk \/ NoLegacyFault
  \/ EmitFrame \/ afterFrame \/ NextFrame \/ StallOver \/ Finish

Next == Handler \/ Ping \/ ClientLeaves \/ TimePasses

Spec == Init /\ [][Next]_vars

\* The goroutine runs and its timers fire; a client need never leave.
FairSpec == Spec /\ WF_vars(Handler)
-----------------------------------------------------------------------------
IsReal(f) == f.pos > 0

\* What has been written, coalesced frames last.
Sent == wire \o pending

\* The positions of the real frames, in the order they are in.
Positions(seq) ==
  LET upTo[k \in 0..Len(seq)] ==
        IF k = 0 THEN << >>
        ELSE IF IsReal(seq[k]) THEN Append(upTo[k - 1], seq[k].pos) ELSE upTo[k - 1]
  IN upTo[Len(seq)]

\* What the client may rely on whatever is injected (OrderedStream).
Contract == INSTANCE OrderedStream WITH
  script <- [i \in 1..Total |-> i],
  delivered <- Positions(wire),
  open <- phase # "over" /\ conn = "open"

(***************************************************************************)
(* Whatever faults, pings, coalescing and injected frames do, the real     *)
(* frames reach the connection in order, with no gap and none twice, and   *)
(* nothing follows the end of the response (writeFrame, flushPending,      *)
(* emit and its callers on all five surfaces).                             *)
(***************************************************************************)
ImplementsOrderedStream == Contract!Spec

(***************************************************************************)
(* A stream that nothing cut is complete: every real frame, the [DONE] and *)
(* the coalesced tail have reached the connection, once and in their order *)
(* (README:311).                                                           *)
(***************************************************************************)
Carried(seq) == { seq[k].pos : k \in 1..Len(seq) } \ {0}

InOrder(seq) ==
  \A i, j \in 1..Len(seq) :
    i < j /\ IsReal(seq[i]) /\ IsReal(seq[j]) => seq[i].pos < seq[j].pos

UncutIsComplete ==
  phase = "over" /\ cause = <<"end", 0>> =>
    /\ Carried(wire) = 1..Total
    /\ InOrder(wire)
    /\ pending = << >>

(***************************************************************************)
(* No content block is opened twice under one index, and every injected    *)
(* stop follows the start of its block, even when a spec fires between the *)
(* two and injects a block of its own (fire, blockIndex).                  *)
(***************************************************************************)
Starts(f) == f.event \in {"content_block_start", "contentBlockStart"} /\ f.block # NoBlock
Stops(f) == f.event \in {"content_block_stop", "contentBlockStop"} /\ f.block # NoBlock

BlocksDoNotCollide ==
  \A i, j \in 1..Len(Sent) :
    /\ Starts(Sent[i]) /\ Starts(Sent[j]) /\ Sent[i].block = Sent[j].block => i = j
    /\ Stops(Sent[j]) /\ ~IsReal(Sent[j]) =>
         \E k \in 1..(j - 1) : Starts(Sent[k]) /\ Sent[k].block = Sent[j].block

(***************************************************************************)
(* Every cut falls where it was asked for, whatever is injected and        *)
(* coalesced in between.  A disconnect scheduled by after_n alone cuts     *)
(* after exactly that many real frames (matched; README:834).  The legacy  *)
(* disconnect_after_chunks lets that many chunks out, and a response with  *)
(* more of them does not run to its end (checkStreamingFault).  Behind the *)
(* event of disconnect_after_event nothing follows, though the event may   *)
(* itself be in the coalescing buffer still (emit, emitInjected).          *)
(***************************************************************************)
\* Comments, corrupt data, exceptions and [DONE] are not events with a name.
Unnamed == {": ping", "corrupt", "exception", "[DONE]"}
CutsAt(frame) == frame.event \notin Unnamed /\ CutAfter(frame.event)

OnlyAfterN(f) ==
  f.mode = "disconnect" /\ f.after_n > 0
    /\ f.after_event = "" /\ f.after_bytes = 0 /\ f.after_ms = 0

ChunksOut == Cardinality({ p \in 1..(pos - 1) : script[p].chunk > 0 })

CutsAreExact ==
  /\ \A i \in 1..Len(cfg.specs) :
       cause = <<"spec", i>> /\ OnlyAfterN(SpecAt(i)) => frames = SpecAt(i).after_n
  /\ cause = <<"chunks", 0>> => ChunksOut = cfg.disconnect_after_chunks
  /\ cause = <<"end", 0>> => cfg.disconnect_after_chunks \notin 1..(Chunks(cfg) - 1)
  /\ \A k \in 1..Len(Sent) :
       CutsAt(Sent[k]) => k = Len(Sent) /\ cause # <<"end", 0>>

(***************************************************************************)
(* A disconnect keyed on the event another spec injects cuts right behind  *)
(* it: no real frame follows the injected error, and the response does not *)
(* end otherwise, unless another spec or the client ends it before that    *)
(* (matchAndFire, README:266).                                             *)
(***************************************************************************)
CutsOnError(f) ==
  /\ f.mode = "disconnect" /\ f.after_event = "error"
  /\ f.after_n <= 0 /\ f.after_bytes <= 0 /\ f.after_ms <= 0

CutFollowsError ==
  (\E i \in 1..Len(cfg.specs) : CutsOnError(SpecAt(i))) =>
    \A k \in 1..Len(Sent) :
      Sent[k].event = "error" =>
        /\ \A j \in (k + 1)..Len(Sent) : ~IsReal(Sent[j])
        /\ phase = "over" => cause[1] \in {"spec", "event", "exception", "client"}

(***************************************************************************)
(* Every spec fires once: the injected frames on the way are no more than  *)
(* the specs ask for, though each is offered to every spec again           *)
(* (matchAndFire "The fired flags make each spec one-shot").               *)
(***************************************************************************)
Asked(f) ==
  CASE f.mode = "unknown_event" -> f.repeat
    [] f.mode = "unknown_block" -> 2 * f.repeat
    [] f.mode \in {"stream_error", "malformed_chunk"} -> 1
    [] OTHER -> 0

SpecsFireOnce ==
  Cardinality({ k \in 1..Len(Sent) : ~IsReal(Sent[k]) })
    <= pings + (IF cfg.malformed_chunk THEN 1 ELSE 0)
         + (LET sum[i \in 0..Len(cfg.specs)] ==
                  IF i = 0 THEN 0 ELSE sum[i - 1] + Asked(SpecAt(i))
            IN sum[Len(cfg.specs)])

(***************************************************************************)
(* A response ends unless it stalls for a client that stays: no chain of   *)
(* specs keeps the handler, and the slot it holds, for ever, and a stalled *)
(* stream whose client leaves does not stay stalled.                       *)
(***************************************************************************)
StreamsEnd == <>[](phase = "over" \/ (phase = "stalled" /\ client))
=============================================================================
