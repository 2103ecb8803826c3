-------------------------- MODULE MCRequestPipeline --------------------------
(* Instances of RequestPipeline: single requests with every pair of defects *)
(* on every surface, contending ones, and more than are recorded.           *)
EXTENDS RequestPipeline

Clean(surface) ==
  [surface |-> surface, auth |-> TRUE, targeted |-> FALSE, body |-> "json",
   leak |-> FALSE, scenario |-> "none", faults |-> "none", off_spec |-> FALSE,
   bad_tokens |-> FALSE, stalls |-> FALSE]

Defects ==
  {"none", "auth", "targeted", "unreadable", "malformed", "trailing", "leak", "refused",
   "match", "bad_header", "answer", "cut", "panic", "off_spec", "bad_tokens", "stalls"}

With(a, d) ==
  CASE d = "none" -> a
    [] d = "auth" -> [a EXCEPT !.auth = FALSE]
    [] d = "targeted" -> [a EXCEPT !.targeted = TRUE]
    [] d \in {"unreadable", "malformed", "trailing"} -> [a EXCEPT !.body = d]
    [] d = "leak" -> [a EXCEPT !.leak = TRUE]
    [] d \in {"refused", "match"} -> [a EXCEPT !.scenario = d]
    [] d \in {"bad_header", "answer", "cut", "panic"} -> [a EXCEPT !.faults = d]
    [] d = "off_spec" -> [a EXCEPT !.off_spec = TRUE]
    [] d = "bad_tokens" -> [a EXCEPT !.bad_tokens = TRUE]
    [] d = "stalls" -> [a EXCEPT !.stalls = TRUE]

\* A body that could not be read or parsed holds no leak anyone could see.
Sensible(a) == a.leak => a.body \in {"json", "trailing"}

\* Every surface with every two defects.
PairArrivals ==
  { a \in { With(With(Clean(s), d), e) : s \in Surfaces, d, e \in Defects } : Sensible(a) }

\* What contends for one provider's slots and for the recording.
ContendingArrivals ==
  { With(Clean("chat"), d) : d \in {"none", "malformed", "panic", "stalls"} } \cup
  { With(Clean("embeddings"), "answer") } \cup
  { With(Clean("messages"), d) : d \in {"auth", "match"} }

Absent == Clean("none")

AllArrivals == PairArrivals \cup ContendingArrivals \cup {Absent}

One == CHOOSE r \in Requests : TRUE

Two == CHOOSE r \in Requests : r # One

\* What is soon over once it is recorded, with a gate and without one.
RecordingArrivals ==
  { With(Clean("embeddings"), "answer"), With(Clean("converse"), "malformed") }

\* One request with every two defects, two that contend, or one more that are
\* recorded than the recording holds.
OneTwoOrThree ==
  { [r \in Requests |-> IF r = One THEN a ELSE Absent] : a \in PairArrivals }
  \cup { [r \in Requests |-> IF r = One THEN a ELSE IF r = Two THEN b ELSE Absent] :
           a, b \in ContendingArrivals }
  \cup [Requests -> RecordingArrivals]

Gated == [p \in Providers |-> IF p = "bedrock" THEN 0 ELSE 1]
=============================================================================
