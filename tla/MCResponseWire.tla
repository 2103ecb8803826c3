---------------------------- MODULE MCResponseWire ----------------------------
(* Instances of ResponseWire: all token counts, all short exact texts, and  *)
(* the texts that matter under every combination of transport faults.       *)
EXTENDS ResponseWire

Characters == {"a", "A", "b", "B", "e1", "e2", " ", "lf", "."}
Vocabulary == << <<"a">>, <<"b", "a">>, <<"b">> >>

Count2 == [tokens |-> 2, min_tokens |-> 1, honor_max_tokens |-> FALSE,
           content_text |-> << >>, deterministic |-> FALSE]

\* The members of X-MockLM-Fault.
NoFault == [k \in {} |-> 0]

NoHeader == [given |-> FALSE, ok |-> TRUE, n |-> 0]
HeaderOf(n) == [given |-> TRUE, ok |-> TRUE, n |-> n]
NoExact == [given |-> FALSE, text |-> << >>, chunking |-> [mode |-> "whole", size |-> 0]]
ExactOf(text, mode, size) ==
  [given |-> TRUE, text |-> text, chunking |-> [mode |-> mode, size |-> size]]

Request ==
  [surface |-> "chat", stream |-> TRUE, header |-> NoHeader, max_tokens |-> 0,
   cfg |-> Count2, fault |-> NoFault, exact |-> NoExact, event_type |-> 0, crlf |-> FALSE,
   coalesce_frames |-> 0, fragment_offset |-> 0, fragment_split |-> "",
   malformed_chunk |-> FALSE, keepalive |-> FALSE]

WithExact == {"chat", "messages", "converse"}

\* Every source of a token count, negative ones and X-MockLM-Fault included.
TokenRequests ==
  { [Request EXCEPT !.surface = s, !.stream = b, !.header = h, !.max_tokens = m, !.fault = f,
                    !.cfg = [Count2 EXCEPT !.tokens = t, !.min_tokens = k,
                                           !.honor_max_tokens = g, !.deterministic = g]] :
      s \in Surfaces, b \in BOOLEAN,
      h \in {NoHeader, [HeaderOf(0) EXCEPT !.ok = FALSE], HeaderOf(-1), HeaderOf(0), HeaderOf(3)},
      f \in {NoFault, [tokens |-> -1], [min_tokens |-> 3]},
      m \in {-1, 0, 2}, t \in {-1, 0, 3}, k \in {-1, 0, 1}, g \in BOOLEAN }

\* Every text of up to four runes, in every chunking.
Runes == { <<"a">>, <<"e1", "e2">>, <<" ">> }
Texts == { FlattenSeq(s) : s \in UNION { [1..n -> Runes] : n \in 0..4 } }

ChunkRequests ==
  { [Request EXCEPT !.exact = ExactOf(text, mode, size)] :
      text \in Texts, mode \in {"whole", "runes", "words"}, size \in 0..2 }

\* Newlines, runes and blanks through every transport.
Exact == ExactOf(<<"e1", "e2", " ", "lf", "b", "e1", "e2">>, "runes", 2)
Pinned == [Count2 EXCEPT !.content_text = <<" ", "e1", "e2", "lf", " ", "b">>]
Contents == { [exact |-> Exact, cfg |-> Count2], [exact |-> NoExact, cfg |-> Pinned],
              [exact |-> NoExact, cfg |-> [Count2 EXCEPT !.deterministic = TRUE]] }

Transports ==
  { [Request EXCEPT !.crlf = c, !.coalesce_frames = n, !.fragment_offset = p,
                    !.fragment_split = f, !.malformed_chunk = m, !.keepalive = k] :
      c \in BOOLEAN, n \in {0, 3}, p \in {0, 4}, f \in {"", "rune", "event"},
      m \in BOOLEAN, k \in BOOLEAN }

TransportRequests ==
  { [t EXCEPT !.surface = s, !.exact = x.exact, !.cfg = x.cfg] :
      t \in Transports, s \in Surfaces, x \in Contents }

\* Coalescing wins over fragmentation, and the eventstream knows neither.
Distinct(r) ==
  /\ r.exact.given => r.surface \in WithExact
  /\ r.coalesce_frames > 0 => r.fragment_offset = 0 /\ r.fragment_split = ""
  /\ r.fragment_offset > 0 => r.fragment_split # "event" /\ ~r.keepalive
  /\ r.surface = "converse" =>
       ~r.crlf /\ r.coalesce_frames = 0 /\ r.fragment_offset = 0 /\ r.fragment_split = ""

\* Names that fit their length field, and one that does not.
NameRequests ==
  { [Request EXCEPT !.surface = s, !.event_type = n, !.malformed_chunk = m] :
      s \in Surfaces, n \in {1, 63, 64}, m \in BOOLEAN }

WireRequests ==
  TokenRequests \cup ChunkRequests \cup NameRequests
  \cup { r \in TransportRequests : Distinct(r) }
=============================================================================
