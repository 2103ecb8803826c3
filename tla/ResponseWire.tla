----------------------------- MODULE ResponseWire -----------------------------
(***************************************************************************)
(* What a client reads: the text of one response on its way through the    *)
(* handlers, the SSE writer of src/sse.go with its transport faults (CRLF, *)
(* coalesced and fragmented frames), the eventstream writer, pings, and    *)
(* the corrupt chunk of the legacy knob, which goes past the writer.  The  *)
(* frames around the text are one before it and one behind it; what faults *)
(* of the injector do is in StreamInjector.                                *)
(***************************************************************************)
EXTENDS Content, EventStream

CONSTANTS
  Requests,    \* requests, with the configuration they meet and their headers
  MaxPings     \* bound: keep-alive pings of one response

Surfaces == {"chat", "messages", "completions", "responses", "converse"}

\* Exact texts are valid UTF-8: they begin with a rune.  A blank is one byte (of
\* the blanks of several bytes, such as U+00A0, there is none in the model).
IsText(s) ==
  /\ s \in Seq(Alphabet)
  /\ \A i \in 1..Len(s) :
       s[i] \in Continuation => i > 1 /\ s[i - 1] \notin Space

\* X-MockLM-Fault: its members replace those of the handler's own copy of the
\* configuration (a header that cannot be decoded gets no further than the gate).
applyFaultHeader(c, header) ==
  [k \in DOMAIN c |-> IF k \in DOMAIN header THEN header[k] ELSE c[k]]

ConfigOf(r) == applyFaultHeader(r.cfg, r.fault)

ASSUME RequestAssumption ==
  \A r \in Requests :
    /\ r.surface \in Surfaces
    /\ r.stream \in BOOLEAN
    /\ {r.header.n, r.max_tokens, ConfigOf(r).tokens, ConfigOf(r).min_tokens} \subseteq Int
    /\ {r.coalesce_frames, r.fragment_offset} \subseteq Int
    /\ r.event_type \in Nat
    /\ ConfigOf(r).content_text \in Seq(Alphabet)
    /\ r.exact.given =>
         /\ IsText(r.exact.text)
         /\ r.exact.chunking.size \in Int
         /\ r.exact.chunking.mode \in {"whole", "words", "runes"}

VARIABLES
  o,           \* the request
  words,       \* the words generated for it
  deltas,      \* the texts its frames carry
  phase,       \* what the handler is at
  next,        \* the frame it is at
  corrupted,   \* the corrupt chunk is written
  pings,       \* keep-alive pings written
  body,        \* the text of an answer that is not streamed
  pending,     \* coalesced bytes
  pendingN,    \* and the frames they are
  rest,        \* the part of a fragmented frame still to be written
  wire,        \* what was handed to the connection, write by write
  client       \* the client is connected

writer == <<pending, pendingN, rest, wire>>
made == <<words, deltas>>
vars == <<o, made, phase, next, corrupted, pings, body, writer, client>>

\* The configuration the request is answered under.
cfg == ConfigOf(o)

IsSSE == o.surface # "converse"
-----------------------------------------------------------------------------
(* Frames.                                                                 *)

\* json.Marshal of a text.
Marshal(text) ==
  FlattenSeq([i \in 1..Len(text) |-> IF text[i] = "lf" THEN <<"\\", "n">> ELSE <<text[i]>>])

Plain == <<"{", "}">>
Payload(key, text) == <<"{", key>> \o Marshal(text) \o <<"}">>

Item(event, data, chunk) == [event |-> event, data |-> data, chunk |-> chunk]

\* The names of the first frame, the deltas and the last one.
Names ==
  [messages |-> << <<"message_start">>, <<"content_block_delta">>, <<"message_stop">> >>,
   responses |-> << <<"response.created">>, <<"response.output_text.delta">>,
                    <<"response.completed">> >>,
   converse |-> << <<"messageStart">>, <<"contentBlockDelta">>, <<"metadata">> >>,
   chat |-> << << >>, << >>, << >> >>]

\* The unknown_event of a fault spec that fires after the first frame: its
\* name is the configuration's, and goes nowhere on data-only surfaces.
Injected ==
  IF o.event_type = 0 THEN << >>
  ELSE << Item(IF o.surface \in {"chat", "completions"} THEN << >>
               ELSE [i \in 1..o.event_type |-> "x"], Plain, 0) >>

Items ==
  IF o.surface = "completions"
  THEN << Item(<< >>, Payload("text:", deltas[1]), 1) >> \o Injected
       \o << Item(<< >>, Plain, 2) >>
  ELSE LET name == Names[o.surface]
       IN << Item(name[1], Plain, 0) >> \o Injected
          \o [i \in 1..Len(deltas) |-> Item(name[2], Payload("text:", deltas[i]), i)]
          \o (IF o.surface = "responses"
              THEN << Item(<<"response.output_text.done">>,
                           Payload("full:", joinContent(words)), 0) >>
              ELSE << >>)
          \o << Item(name[3], Plain, 0) >>

Chunks == IF o.surface = "completions" THEN 2 ELSE Len(deltas)

eol == IF o.crlf THEN <<"cr", "nl">> ELSE <<"nl">>

Data(data, e) == <<"data:">> \o data \o e \o e
Event(event, data) == <<"event:">> \o event \o eol \o Data(data, eol)

Frame(item) ==
  IF ~IsSSE THEN EventMessage(item.event, item.data)
  ELSE IF item.event = << >> THEN Data(item.data, eol) ELSE Event(item.event, item.data)

\* What a second SSE writer, with no knob set, writes for the corrupt chunk.
CorruptFrame ==
  IF IsSSE THEN Data(<<"{", "INVALID">>, <<"nl">>) ELSE CorruptMessage
-----------------------------------------------------------------------------
(* The SSE writer.                                                         *)

First(S) == CHOOSE i \in S : \A j \in S : i <= j

OffsetPoint(frame) ==
  IF o.fragment_offset > 0 /\ o.fragment_offset < Len(frame) THEN o.fragment_offset ELSE 0

\* Mutant: the cut comes one byte too late.
splitPointLate(frame) ==
  LET continued == {i \in 1..Len(frame) : frame[i] \in Continuation}
  IN IF o.fragment_split = "rune" /\ continued # {} THEN First(continued)
     ELSE OffsetPoint(frame)

\* Where a frame is cut in two; 0 for nowhere.
splitPoint(frame) ==
  LET continued == {i \in 1..Len(frame) : frame[i] \in Continuation}
      lineEnd == First({i \in 1..Len(frame) : frame[i] = eol[1]}) + Len(eol) - 1
  IN CASE o.fragment_split = "rune" /\ continued # {} -> First(continued) - 1
       [] o.fragment_split = "event" -> IF lineEnd < Len(frame) THEN lineEnd ELSE 0
       [] OTHER -> OffsetPoint(frame)

\* writeFrame, writeRaw: coalescing wins over fragmentation.
Write(frame) ==
  CASE ~IsSSE ->
         wire' = Append(wire, frame) /\ UNCHANGED <<pending, pendingN, rest>>
    [] IsSSE /\ o.coalesce_frames > 1 ->
         /\ IF pendingN + 1 >= o.coalesce_frames
            THEN wire' = Append(wire, pending \o frame) /\ pending' = << >> /\ pendingN' = 0
            ELSE pending' = pending \o frame /\ pendingN' = pendingN + 1 /\ UNCHANGED wire
         /\ UNCHANGED rest
    [] IsSSE /\ o.coalesce_frames <= 1 ->
         LET p == splitPoint(frame)
         IN /\ wire' = Append(wire, IF p > 0 THEN SubSeq(frame, 1, p) ELSE frame)
            /\ rest' = IF p > 0 THEN SubSeq(frame, p + 1, Len(frame)) ELSE << >>
            /\ UNCHANGED <<pending, pendingN>>
-----------------------------------------------------------------------------
Init ==
  /\ o \in Requests
  /\ words = << >> /\ deltas = << >>
  /\ phase = "resolve"
  /\ next = 1
  /\ corrupted = FALSE
  /\ pings = 0
  /\ body = << >>
  /\ pending = << >> /\ pendingN = 0 /\ rest = << >> /\ wire = << >>
  /\ client = TRUE

Tokens == resolveTokenCount(o.header, o.max_tokens, cfg)

Refused == o.header.given /\ ~o.header.ok

RefuseTokens ==
  /\ phase = "resolve"
  /\ Refused
  /\ phase' = "refused"
  /\ UNCHANGED <<o, made, next, corrupted, pings, body, writer, client>>

\* make([]string, n) panics; the server drops the connection.
PanicInGenerate ==
  /\ phase = "resolve"
  /\ ~Refused /\ Tokens < 0
  /\ phase' = "panicked"
  /\ UNCHANGED <<o, made, next, corrupted, pings, body, writer, client>>

PinsContent == o.surface \in {"chat", "messages", "converse"} /\ cfg.content_text # << >>
Deterministic == o.surface \in {"messages", "completions", "converse"} /\ cfg.deterministic

\* The completions stream sends its text at once, and the end as a chunk too.
DeltaTexts(w) ==
  CASE o.surface \in {"chat", "messages", "converse"} -> streamDeltas(cfg, w, o.exact)
    [] o.surface = "responses" -> Decorated(w, FALSE)
    [] o.surface = "completions" -> <<joinContent(w)>>

GenerateWords ==
  /\ phase = "resolve"
  /\ ~Refused /\ Tokens >= 0
  /\ \E offset \in IF Deterministic \/ PinsContent THEN {0} ELSE 0..(Len(WordList) - 1) :
       words' = IF PinsContent THEN Fields(cfg.content_text)
                ELSE generateWords(Tokens, offset)
  /\ deltas' = IF o.stream THEN DeltaTexts(words') ELSE << >>
  /\ phase' = IF o.stream THEN "stream" ELSE "answer"
  /\ UNCHANGED <<o, next, corrupted, pings, body, writer, client>>

\* The text of an answer in one piece.
Content ==
  IF o.surface \in {"chat", "messages", "converse"} /\ o.exact.given THEN o.exact.text
  ELSE IF PinsContent THEN Joined(words) ELSE joinContent(words)

Answer ==
  /\ phase = "answer"
  /\ body' = Content
  /\ phase' = "over"
  /\ UNCHANGED <<o, made, next, corrupted, pings, writer, client>>
-----------------------------------------------------------------------------
Streaming == phase = "stream" /\ rest = << >>
Now == Items[next]
IsDelta == next <= Len(Items) /\ Now.chunk > 0

CorruptDue ==
  IsDelta /\ o.malformed_chunk /\ ~corrupted /\ Now.chunk - 1 = Chunks \div 2

\* checkStreamingFault
CorruptChunk ==
  /\ Streaming
  /\ CorruptDue
  /\ corrupted' = TRUE
  /\ wire' = Append(wire, CorruptFrame)
  /\ UNCHANGED <<o, made, phase, next, pings, body, pending, pendingN, rest, client>>

\* The handler sleeps before the first frame and before a delta.
Waiting ==
  Streaming /\ ~CorruptDue /\ (next = 1 \/ (IsDelta /\ o.surface # "completions"))

Ping ==
  /\ Waiting /\ IsSSE
  /\ pings < MaxPings /\ o.keepalive
  /\ pings' = pings + 1
  /\ Write(<<":", "ping">> \o eol \o eol)
  /\ UNCHANGED <<o, made, phase, next, corrupted, body, client>>

GiveUp ==
  /\ Waiting
  /\ ~client
  /\ phase' = "over"
  /\ UNCHANGED <<o, made, next, corrupted, pings, body, writer, client>>

EmitFrame ==
  /\ Streaming
  /\ next <= Len(Items) /\ ~CorruptDue
  /\ Write(Frame(Now))
  /\ next' = next + 1
  /\ UNCHANGED <<o, made, phase, corrupted, pings, body, client>>

\* The pause inside a fragmented frame is over, or is cut short: then the rest
\* of the frame is lost, and the handler goes on as if it were written.
WriteRest ==
  /\ rest # << >>
  /\ wire' = Append(wire, rest)
  /\ rest' = << >>
  /\ UNCHANGED <<o, made, phase, next, corrupted, pings, body, pending, pendingN, client>>

LoseRest ==
  /\ rest # << >>
  /\ ~client
  /\ rest' = << >>
  /\ UNCHANGED <<o, made, phase, next, corrupted, pings, body, pending, pendingN, wire,
                 client>>

Done == Data(<<"[DONE]">>, eol)
EndsWithDone == o.surface \in {"chat", "completions"}

\* Mutant: writeDone leaves the coalesced frames where they are.
WriteDoneUnflushed ==
  /\ Streaming
  /\ next > Len(Items)
  /\ IF EndsWithDone /\ next = Len(Items) + 1
     THEN Write(Done) /\ next' = next + 1 /\ UNCHANGED phase
     ELSE phase' = "over" /\ UNCHANGED <<next, writer>>
  /\ UNCHANGED <<o, made, corrupted, pings, body, client>>

\* writeDone, flushPending
WriteDone ==
  /\ Streaming
  /\ next > Len(Items)
  /\ IF EndsWithDone /\ next = Len(Items) + 1
     THEN Write(Done) /\ next' = next + 1 /\ UNCHANGED phase
     ELSE /\ phase' = "over"
          /\ wire' = IF pending = << >> THEN wire ELSE Append(wire, pending)
          /\ pending' = << >> /\ pendingN' = 0
          /\ UNCHANGED <<next, rest>>
  /\ UNCHANGED <<o, made, corrupted, pings, body, client>>

ClientLeaves ==
  /\ client
  /\ phase = "stream"
  /\ client' = FALSE
  /\ UNCHANGED <<o, made, phase, next, corrupted, pings, body, writer>>

Handler ==
  \/ RefuseTokens \/ PanicInGenerate \/ GenerateWords \/ Answer
  \/ CorruptChunk \/ Ping \/ GiveUp \/ EmitFrame \/ WriteRest \/ LoseRest \/ WriteDone

Next == Handler \/ ClientLeaves

Spec == Init /\ [][Next]_vars
-----------------------------------------------------------------------------
(* The reading side: events by the rules for event streams, or messages.   *)

EndLine(acc) ==
  CASE acc.line = << >> ->
         IF acc.data = << >> THEN acc
         ELSE [acc EXCEPT !.events = Append(@, acc.data), !.data = << >>]
    [] acc.line # << >> /\ Head(acc.line) = "data:" ->
         [acc EXCEPT !.data = @ \o Tail(acc.line), !.line = << >>]
    [] OTHER -> [acc EXCEPT !.line = << >>]

ReadByte(acc, b) ==
  CASE b = "nl" /\ acc.cr -> [acc EXCEPT !.cr = FALSE]
    [] b = "cr" \/ (b = "nl" /\ ~acc.cr) -> [EndLine(acc) EXCEPT !.cr = b = "cr"]
    [] OTHER -> [acc EXCEPT !.line = Append(@, b), !.cr = FALSE]

Unread == [line |-> << >>, data |-> << >>, cr |-> FALSE, events |-> << >>]

ReadAll(acc, bytes) ==
  LET read[i \in 0..Len(bytes)] ==
        IF i = 0 THEN acc ELSE ReadByte(read[i - 1], bytes[i])
  IN read[Len(bytes)]

Events(bytes) == ReadAll(Unread, bytes).events

\* The payloads read so far; << >> for a message that cannot be read.
Received ==
  LET bytes == FlattenSeq(wire)
  IN IF IsSSE THEN Events(bytes)
     ELSE LET all == Messages(bytes) IN [i \in 1..Len(all) |-> all[i].payload]

IsObject(p) == Len(p) > 1 /\ Head(p) = "{" /\ p[Len(p)] = "}"
IsBad(p) == ~IsObject(p) /\ p # <<"[DONE]">>
Holds(key, p) == IsObject(p) /\ Len(p) > 2 /\ p[2] = key

Unmarshal(s) ==
  FlattenSeq([i \in 1..Len(s) |->
                IF s[i] = "\\" THEN <<"lf">>
                ELSE IF i > 1 /\ s[i - 1] = "\\" THEN << >> ELSE <<s[i]>>])

TextOf(p) == Unmarshal(SubSeq(p, 3, Len(p) - 1))

TextRead(received) ==
  FlattenSeq([i \in 1..Len(received) |->
                IF Holds("text:", received[i]) THEN TextOf(received[i]) ELSE << >>])

BadIn(received) == Cardinality({i \in 1..Len(received) : IsBad(received[i])})
-----------------------------------------------------------------------------
\* A name whose length two bytes cannot hold.
Overlong == ~IsSSE /\ o.event_type >= ByteLimit * ByteLimit

Corruptions == IF o.malformed_chunk /\ Chunks > 0 THEN 1 ELSE 0

(***************************************************************************)
(* However the frames are cut, buffered, ended or mixed with pings and a   *)
(* corrupt chunk, a client reads a prefix of the text the same request     *)
(* would get unstreamed, and at the end all of it and every other frame;   *)
(* nothing but the corrupt chunk, and an event whose name is too long for  *)
(* its length field, is unreadable (writeFrame, writeEvent, streamDeltas   *)
(* against joinContent; content.go:119 "the generated path keeps ...").    *)
(***************************************************************************)
TextArrives ==
  o.stream /\ client /\ phase \in {"stream", "over"} =>
    LET received == Received
        bad == BadIn(received)
    IN /\ IsPrefix(TextRead(received), Content)
       /\ bad <= Corruptions + (IF Overlong THEN 1 ELSE 0)
       /\ \A i \in 1..Len(received) :
            Holds("full:", received[i]) => TextOf(received[i]) = Content
       /\ phase = "over" =>
            /\ TextRead(received) = Content
            /\ bad = Corruptions + (IF Overlong THEN 1 ELSE 0)
            /\ Len(received) =
                 Len(Items) + Corruptions + (IF EndsWithDone THEN 1 ELSE 0)

(***************************************************************************)
(* Exact output is cut without loss, into chunks that hold whole runes and *)
(* as many of them, or of words, as configured, the last one fewer; no     *)
(* chunk is empty and none but the first begins inside a word or with the  *)
(* blanks before one (content.go:52 "The load-bearing property").          *)
(***************************************************************************)
RunesOf(s) == Cardinality({i \in 1..Len(s) : s[i] \notin Continuation})

ChunksAreClean ==
  phase = "stream" /\ next = 1 /\ o.exact.given =>
    LET s == o.exact.text
        size == o.exact.chunking.size
        mode == o.exact.chunking.mode
        d == chunkExact(s, o.exact.chunking)
        unit(t) == IF mode = "words" THEN Cardinality(WordStarts(t)) ELSE RunesOf(t)
    IN /\ FlattenSeq(d) = s
       /\ \A i \in 1..Len(d) : d[i] # << >> /\ Head(d[i]) \notin Continuation
       /\ size <= 0 \/ mode = "whole" => Len(d) <= 1
       /\ size > 0 /\ mode # "whole" =>
            /\ \A i \in 1..(Len(d) - 1) : unit(d[i]) = size
            /\ \A i \in 1..Len(d) : unit(d[i]) <= size
            /\ mode = "words" =>
                 \A i \in 2..Len(d) :
                   Head(d[i]) \notin Space /\ d[i - 1][Len(d[i - 1])] \in Space

(***************************************************************************)
(* A count a client asks for, by X-MockLM-Tokens or in a body that counts, *)
(* is clamped on its way to every surface: the words are no fewer than     *)
(* min_tokens, unless the configuration pins them, and make([]string, n)   *)
(* does not panic on it.  What does panic is a count nobody clamps: a      *)
(* negative min_tokens, or a negative tokens of the configuration or of    *)
(* X-MockLM-Fault where the client asks for no count (tokens.go).          *)
(***************************************************************************)
AsksForCount == o.header.given \/ (cfg.honor_max_tokens /\ o.max_tokens > 0)
Resolved == phase \notin {"resolve", "refused"}

AskedCountsAreClamped ==
  /\ phase = "panicked" => cfg.min_tokens < 0 \/ (cfg.tokens < 0 /\ ~AsksForCount)
  /\ Resolved /\ phase # "panicked" /\ AsksForCount /\ ~PinsContent =>
       Len(words) >= cfg.min_tokens

(***************************************************************************)
(* The transport faults strike where they are documented to: under         *)
(* fragment_split "rune" the first multibyte rune of a frame is never in   *)
(* one write, under "event" no write holds both lines of a frame, and the  *)
(* corrupt chunk comes after exactly half of the chunks, or before that    *)
(* when it overtakes coalesced frames, never later (splitPoint,            *)
(* checkStreamingFault; sse.go:128).                                       *)
(***************************************************************************)
CutInside(k) ==
  k > 1 /\ wire[k][1] \in Continuation /\ wire[k - 1][Len(wire[k - 1])] \notin Continuation

HasRune(w) == \E i \in 1..Len(w) : i > 1 /\ w[i] \in Continuation

FaultsLandWhereAsked ==
  IsSSE /\ client =>
    /\ o.coalesce_frames <= 1 /\ o.fragment_split = "rune" =>
         \A k \in 1..Len(wire) : HasRune(wire[k]) => CutInside(k)
    /\ o.coalesce_frames <= 1 /\ o.fragment_split = "event" =>
         \A k \in 1..Len(wire) : \A i \in 2..Len(wire[k]) : wire[k][i] # "data:"
    /\ corrupted =>
         LET received == Received
             before(i) == Cardinality({j \in 1..(i - 1) : Holds("text:", received[j])})
         IN \A i \in 1..Len(received) :
              IsBad(received[i]) =>
                IF o.coalesce_frames > 1 THEN before(i) <= Chunks \div 2
                ELSE before(i) = Chunks \div 2
=============================================================================
