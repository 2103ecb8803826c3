--------------------------- MODULE MCStreamInjector ---------------------------
(* Instances of StreamInjector: every surface with pairs of specs, and with *)
(* the legacy and transport knobs.                                          *)
EXTENDS StreamInjector

Plain ==
  [surface |-> "messages", specs |-> << >>, coalesce |-> 0, disconnect_after_event |-> "",
   disconnect_after_chunks |-> 0, malformed_chunk |-> FALSE, deltas |-> 2,
   thinking |-> FALSE, tool |-> FALSE, ping |-> TRUE, usage |-> FALSE,
   validate |-> FALSE, h1 |-> TRUE, ttft |-> FALSE]

A(mode) ==
  [mode |-> mode, after_event |-> "", after_n |-> 0, after_bytes |-> 0, after_ms |-> 0,
   repeat |-> 1, event_type |-> "", offspec |-> FALSE]

StreamSpecs ==
  { [A("disconnect") EXCEPT !.after_n = 2],
    [A("disconnect") EXCEPT !.after_event = "error"],
    [A("disconnect") EXCEPT !.after_bytes = 4],
    A("stall"),
    [A("malformed_chunk") EXCEPT !.after_ms = 1],
    [A("unknown_event") EXCEPT !.repeat = 2],
    [A("unknown_event") EXCEPT !.event_type = "error", !.after_n = 1],
    [A("unknown_block") EXCEPT !.repeat = 2, !.offspec = TRUE],
    [A("unknown_block") EXCEPT !.after_event = "content_block_start"],
    [A("unknown_block") EXCEPT !.after_event = "contentBlockStart"],
    [A("stream_error") EXCEPT !.after_n = 2] }

SpecLists ==
  {<<f>> : f \in StreamSpecs} \cup {<<f, g>> : f, g \in StreamSpecs} \cup
  {<<[A("malformed_chunk") EXCEPT !.after_ms = 1], [A("stream_error") EXCEPT !.after_n = 2],
     [A("disconnect") EXCEPT !.after_event = "error"]>>}

\* Two specs on every surface, coalesced or not, validated where frames are.
SpecConfigs ==
  { [Plain EXCEPT !.surface = s, !.specs = l, !.coalesce = n, !.deltas = 1, !.ping = FALSE] :
      s \in Surfaces, l \in SpecLists, n \in {0, 3} } \cup
  { [Plain EXCEPT !.surface = s, !.specs = l, !.validate = TRUE, !.deltas = 1,
                  !.ping = FALSE] :
      s \in {"messages", "chat"}, l \in SpecLists }

\* The other knobs, with no spec or one.
KnobConfigs ==
  { [Plain EXCEPT !.surface = s, !.specs = l, !.coalesce = n, !.malformed_chunk = m,
                  !.disconnect_after_chunks = k, !.disconnect_after_event = e,
                  !.thinking = t, !.tool = t, !.usage = t, !.ttft = t, !.h1 = h] :
      s \in Surfaces, n \in {0, 2}, m \in BOOLEAN, k \in {0, 1, 2},
      e \in {"", "content_block_delta", "message_stop", "messageStop"},
      t \in BOOLEAN, h \in BOOLEAN,
      l \in {<< >>, <<[A("unknown_event") EXCEPT !.after_bytes = 2]>>} }

HasEvents(c) == c.disconnect_after_event # "" => c.surface \in {"messages", "converse"}
CutsAnyway(c) == c.h1 \/ c.disconnect_after_chunks > 0 \/ c.disconnect_after_event # ""

StreamConfigs == SpecConfigs \cup { c \in KnobConfigs : HasEvents(c) /\ CutsAnyway(c) }
=============================================================================
