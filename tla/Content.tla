------------------------------- MODULE Content -------------------------------
(***************************************************************************)
(* The text of a response: how many words (src/tokens.go), which words and *)
(* which pieces of them a stream carries (src/content.go).                 *)
(*                                                                         *)
(* A text is a sequence of bytes, a byte a one-symbol string; "e1" "e2" is *)
(* a rune of two bytes, "lf" a newline inside a text.                      *)
(***************************************************************************)
EXTENDS Integers, Sequences, FiniteSets, SequencesExt

CONSTANTS
  Alphabet,    \* the bytes of texts
  WordList     \* the vocabulary: a sequence of texts

Upper(b) == CASE b = "a" -> "A" [] b = "b" -> "B" [] OTHER -> b

\* What frames a text on the wire; a text that holds one of these has it escaped.
Framing == {"nl", "cr", "\\", "data:"}

ASSUME AlphabetAssumption ==
  /\ Alphabet \cap Framing = {}
  /\ {" ", "."} \subseteq Alphabet
  /\ \A b \in Alphabet : Upper(b) \in Alphabet

ASSUME WordAssumption == WordList \in Seq(Seq(Alphabet)) /\ Len(WordList) > 0

Continuation == {"e2"}
Space == {" ", "lf"}

-----------------------------------------------------------------------------
(* Tokens.                                                                 *)

Clamped(n, cfg) == IF n < cfg.min_tokens THEN cfg.min_tokens ELSE n

\* Mutant: the header is taken as it comes.
resolveTokenCountRaw(header, bodyMax, cfg) ==
  CASE header.given -> header.n
    [] ~header.given /\ cfg.honor_max_tokens /\ bodyMax > 0 -> Clamped(bodyMax, cfg)
    [] OTHER -> cfg.tokens

\* X-MockLM-Tokens, the max_tokens of the body, the configuration.
resolveTokenCount(header, bodyMax, cfg) ==
  CASE header.given -> Clamped(header.n, cfg)
    [] ~header.given /\ cfg.honor_max_tokens /\ bodyMax > 0 -> Clamped(bodyMax, cfg)
    [] OTHER -> cfg.tokens
-----------------------------------------------------------------------------
(* Words.                                                                  *)

generateWords(n, offset) ==
  [i \in 1..n |-> WordList[((offset + i - 1) % Len(WordList)) + 1]]

\* Where a word starts: a byte that is no blank, with a blank or nothing before.
WordStarts(s) == {i \in 1..Len(s) : s[i] \notin Space /\ (i = 1 \/ s[i - 1] \in Space)}

\* strings.Fields: the k-th word is what is no blank from the k-th start on.
Fields(text) ==
  LET wordOf(j) == Cardinality({i \in WordStarts(text) : i <= j})
  IN [k \in 1..Cardinality(WordStarts(text)) |->
        FlattenSeq([j \in 1..Len(text) |->
                      IF text[j] \notin Space /\ wordOf(j) = k THEN <<text[j]>> ELSE << >>])]

\* strings.Join with one blank.
Joined(words) ==
  FlattenSeq([i \in 1..Len(words) |-> IF i = 1 THEN words[i] ELSE <<" ">> \o words[i]])

capitalize(text) == IF text = << >> THEN text ELSE <<Upper(Head(text))>> \o Tail(text)

joinContent(words) ==
  IF words = << >> THEN << >> ELSE Append(capitalize(Joined(words)), ".")
-----------------------------------------------------------------------------
(* Chunks: texts cut at rune starts, as `range` over a string visits them. *)

Scan == [chunks |-> << >>, start |-> 1, n |-> 0, prevSpace |-> TRUE]

\* The scan at rune start i: a chunk ends before it, or not.
CutAt(s, acc, i, cut) ==
  IF cut
  THEN [acc EXCEPT !.chunks = Append(@, SubSeq(s, acc.start, i - 1)), !.start = i]
  ELSE acc

\* Mutant: every index is taken for the start of a rune.
RuneStepBytes(s, size, acc, i) ==
  [CutAt(s, acc, i, acc.n > 0 /\ acc.n % size = 0) EXCEPT !.n = acc.n + 1]

RuneStep(s, size, acc, i) ==
  IF s[i] \in Continuation THEN acc
  ELSE [CutAt(s, acc, i, acc.n > 0 /\ acc.n % size = 0) EXCEPT !.n = acc.n + 1]

\* A word starts where a blank, or nothing, is before it.
WordStep(s, size, acc, i) ==
  LET isSpace == s[i] \in Space
      starts == ~isSpace /\ acc.prevSpace
  IN IF s[i] \in Continuation THEN acc
     ELSE [CutAt(s, acc, i, starts /\ acc.n > 0 /\ acc.n % size = 0)
             EXCEPT !.n = IF starts THEN acc.n + 1 ELSE acc.n, !.prevSpace = isSpace]

LastChunk(s, end) == Append(end.chunks, SubSeq(s, end.start, Len(s)))

chunkExactRunes(s, size) ==
  LET scan[i \in 0..Len(s)] ==
        IF i = 0 THEN Scan ELSE RuneStep(s, size, scan[i - 1], i)
  IN LastChunk(s, scan[Len(s)])

chunkExactWords(s, size) ==
  LET scan[i \in 0..Len(s)] ==
        IF i = 0 THEN Scan ELSE WordStep(s, size, scan[i - 1], i)
  IN LastChunk(s, scan[Len(s)])

chunkExact(s, c) ==
  CASE s = << >> -> << >>
    [] s # << >> /\ (c.size <= 0 \/ c.mode = "whole") -> <<s>>
    [] s # << >> /\ c.size > 0 /\ c.mode = "words" -> chunkExactWords(s, c.size)
    [] s # << >> /\ c.size > 0 /\ c.mode = "runes" -> chunkExactRunes(s, c.size)

\* Words as deltas: the last keeps no blank behind it; generated words begin
\* with a capital and end with a period.
Decorated(words, pinned) ==
  [i \in 1..Len(words) |->
     (IF i = 1 /\ ~pinned THEN capitalize(words[i]) ELSE words[i])
     \o (IF i = Len(words) THEN (IF pinned THEN << >> ELSE <<".">>) ELSE <<" ">>)]

streamDeltas(cfg, words, exact) ==
  IF exact.given THEN chunkExact(exact.text, exact.chunking)
  ELSE Decorated(words, cfg.content_text # << >>)
=============================================================================
