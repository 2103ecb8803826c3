------------------------- MODULE ResponseWireProofs -------------------------
(***************************************************************************)
(* The text of a response, for every text, chunk size and request: counts  *)
(* that make no handler panic, chunks that join to the text they were cut  *)
(* from, and what an SSE client reads of the bytes written so far: the     *)
(* text, and the corrupt chunk at the place that was asked for.            *)
(***************************************************************************)
EXTENDS ResponseWire, SequenceTheorems, FiniteSetTheorems, TLAPS

(* Every nonempty set of naturals has a least element. *)
LEMMA Least ==
  ASSUME NEW T, T \subseteq Nat, T # {}
  PROVE  \E n \in T : \A m \in T : n <= m
<1> DEFINE Less == OpToRel(<, Nat)
<1>1. Less = {ss \in Nat \X Nat : ss[1] < ss[2]}
  BY DEF OpToRel
<1>2. PICK n \in T : \A m \in T : ~ (<<m, n>> \in Less)
  BY WFMin, NatLessThanWellFounded
<1>3. ASSUME NEW m \in T, m < n
      PROVE  FALSE
  BY <1>1, <1>2, <1>3
<1>4. QED
  BY <1>3

(* A claim that holds at 0 and carries over from k - 1 to k holds up to L, *)
(* the set T being where it holds.                                         *)
LEMMA Upwards ==
  ASSUME NEW L \in Nat, NEW T, 0 \in T,
         \A k \in 1..L : k - 1 \in T => k \in T
  PROVE  \A k \in 0..L : k \in T
<1> DEFINE U == { k \in 0..L : k \notin T }
<1>1. SUFFICES ASSUME U # {} PROVE FALSE
  OBVIOUS
<1>2. U \subseteq Nat
  OBVIOUS
<1>3. PICK k \in U : \A l \in U : k <= l
  BY <1>1, <1>2, Least
<1>4. k \in 1..L /\ k - 1 \in 0..L /\ k - 1 \notin U
  BY <1>3
<1>5. QED
  BY <1>3, <1>4

(* A function given by a first value and a step exists.                    *)
Along(F, L, base, step) ==
  F[0] = base /\ \A j \in 1..L : F[j] = step[<<F[j - 1], j>>]

LEMMA Paths ==
  ASSUME NEW L \in Nat, NEW A, NEW base \in A, NEW step \in [A \X (1..L) -> A]
  PROVE  \E F \in [0..L -> A] : Along(F, L, base, step)
<1> DEFINE T == { k \in 0..L : \E F \in [0..k -> A] : Along(F, k, base, step) }
<1>1. 0 \in T
  <2>1. [j \in 0..0 |-> base] \in [0..0 -> A]
    OBVIOUS
  <2>2. Along([j \in 0..0 |-> base], 0, base, step)
    BY DEF Along
  <2>3. QED
    BY <2>1, <2>2
<1>2. ASSUME NEW k \in 1..L, k - 1 \in T
      PROVE  k \in T
  <2>1. PICK F \in [0..(k - 1) -> A] : Along(F, k - 1, base, step)
    BY <1>2
  <2>2. k - 1 \in 0..(k - 1) /\ 0 \in 0..(k - 1) /\ k - 1 \in Nat /\ k \in 0..L
    OBVIOUS
  <2>3. step[<<F[k - 1], k>>] \in A
    BY <2>2
  <2> DEFINE G == [j \in 0..k |-> IF j = k THEN step[<<F[k - 1], k>>] ELSE F[j]]
  <2>4. G \in [0..k -> A]
    <3>1. \A j \in 0..k : j # k => j \in 0..(k - 1)
      OBVIOUS
    <3>2. QED
      BY <2>3, <3>1
  <2>5. /\ \A j \in 0..(k - 1) : G[j] = F[j]
        /\ G[k] = step[<<F[k - 1], k>>]
    OBVIOUS
  <2> HIDE DEF G
  <2>6. Along(G, k, base, step)
    <3>1. G[0] = base
      BY <2>1, <2>2, <2>5 DEF Along
    <3>2. ASSUME NEW j \in 1..k
          PROVE  G[j] = step[<<G[j - 1], j>>]
      <4>1. CASE j = k
        BY <2>2, <2>5, <4>1
      <4>2. CASE j # k
        <5>1. j \in 1..(k - 1) /\ j \in 0..(k - 1) /\ j - 1 \in 0..(k - 1)
          BY <4>2
        <5>2. F[j] = step[<<F[j - 1], j>>]
          BY <2>1, <5>1 DEF Along
        <5>3. QED
          BY <2>5, <5>1, <5>2
      <4>3. QED
        BY <4>1, <4>2
    <3>3. QED
      BY <3>1, <3>2 DEF Along
  <2>7. QED
    BY <2>2, <2>4, <2>6
<1>3. \A k \in 0..L : k \in T
  <2> HIDE DEF T
  <2> QED
    BY <1>1, <1>2, Upwards
<1>4. L \in T
  BY <1>3
<1>5. QED
  BY <1>4

(* It is the only one.                                                     *)
LEMMA PathsAgree ==
  ASSUME NEW L \in Nat, NEW base, NEW step, NEW F, NEW G,
         Along(F, L, base, step), Along(G, L, base, step)
  PROVE  \A k \in 0..L : F[k] = G[k]
<1> DEFINE T == { k \in 0..L : F[k] = G[k] }
<1>1. 0 \in T
  BY DEF Along
<1>2. ASSUME NEW k \in 1..L, k - 1 \in T
      PROVE  k \in T
  <2>1. k \in 0..L /\ F[k - 1] = G[k - 1]
    BY <1>2
  <2>2. F[k] = step[<<F[k - 1], k>>] /\ G[k] = step[<<G[k - 1], k>>]
    BY DEF Along
  <2>3. QED
    BY <2>1, <2>2
<1>3. QED
  <2> HIDE DEF T
  <2>1. \A k \in 0..L : k \in T
    BY <1>1, <1>2, Upwards
  <2>2. QED
    BY <2>1 DEF T
-----------------------------------------------------------------------------
(***************************************************************************)
(* The scans of chunkExact, as the sequence of what they have found.       *)
(***************************************************************************)
Founds == [chunks : Seq(Seq(Alphabet)), start : Nat \ {0}, n : Nat, prevSpace : BOOLEAN]

LEMMA CutsAreTyped ==
  ASSUME NEW s \in Seq(Alphabet), NEW acc \in Founds, NEW i \in 1..Len(s), NEW cut
  PROVE  CutAt(s, acc, i, cut) \in Founds
<1>1. SubSeq(s, acc.start, i - 1) \in Seq(Alphabet)
  <2>1. acc.start \in Nat \ {0} /\ Len(s) \in Nat
    BY LenProperties DEF Founds
  <2>2. \A j \in acc.start..(i - 1) : j \in 1..Len(s)
    BY <2>1
  <2>3. QED
    BY <2>1, <2>2, SubSeqProperties
<1>2. Append(acc.chunks, SubSeq(s, acc.start, i - 1)) \in Seq(Seq(Alphabet))
  BY <1>1, AppendProperties DEF Founds
<1>3. i \in Nat \ {0}
  OBVIOUS
<1>4. QED
  BY <1>2, <1>3 DEF CutAt, Founds

LEMMA StepsAreTyped ==
  ASSUME NEW s \in Seq(Alphabet), NEW size, NEW acc \in Founds, NEW i \in 1..Len(s)
  PROVE  RuneStep(s, size, acc, i) \in Founds /\ WordStep(s, size, acc, i) \in Founds
<1>1. acc.n \in Nat /\ acc.n + 1 \in Nat
  BY DEF Founds
<1>2. \A f \in Founds, m \in Nat, p \in BOOLEAN :
        /\ [f EXCEPT !.n = m] \in Founds
        /\ [f EXCEPT !.n = m, !.prevSpace = p] \in Founds
  BY DEF Founds
<1>3. RuneStep(s, size, acc, i) \in Founds
  BY <1>1, <1>2, CutsAreTyped DEF RuneStep
<1>4. WordStep(s, size, acc, i) \in Founds
  <2> DEFINE isSpace == s[i] \in Space
             starts == ~isSpace /\ acc.prevSpace
             cut == CutAt(s, acc, i, starts /\ acc.n > 0 /\ acc.n % size = 0)
  <2>1. cut \in Founds
    BY CutsAreTyped
  <2>2. (IF starts THEN acc.n + 1 ELSE acc.n) \in Nat /\ isSpace \in BOOLEAN
    BY <1>1
  <2> HIDE DEF cut, starts, isSpace
  <2>3. [cut EXCEPT !.n = IF starts THEN acc.n + 1 ELSE acc.n, !.prevSpace = isSpace]
          \in Founds
    BY <1>2, <2>1, <2>2
  <2>4. QED
    BY <2>3 DEF WordStep, cut, starts, isSpace
<1>5. QED
  BY <1>3, <1>4

LEMMA RuneScan ==
  ASSUME NEW s \in Seq(Alphabet), NEW size
  PROVE  \E F \in [0..Len(s) -> Founds] :
           /\ F[0] = Scan
           /\ \A i \in 1..Len(s) : F[i] = RuneStep(s, size, F[i - 1], i)
           /\ chunkExactRunes(s, size) = LastChunk(s, F[Len(s)])
<1> DEFINE L == Len(s)
           step == [x \in Founds \X (1..L) |-> RuneStep(s, size, x[1], x[2])]
           Solves(f) ==
             f = [i \in 0..L |-> IF i = 0 THEN Scan ELSE RuneStep(s, size, f[i - 1], i)]
<1>1. L \in Nat /\ Scan \in Founds
  BY LenProperties, EmptySeq DEF Scan, Founds
<1>2. step \in [Founds \X (1..L) -> Founds]
  BY StepsAreTyped
<1>3. PICK F \in [0..L -> Founds] : Along(F, L, Scan, step)
  <2> HIDE DEF L, step
  <2> QED
    BY <1>1, <1>2, Paths
<1>4. F[0] = Scan /\ \A i \in 1..L : F[i] = RuneStep(s, size, F[i - 1], i)
  <2>1. \A i \in 1..L : F[i - 1] \in Founds
    BY <1>1
  <2>2. \A i \in 1..L : step[<<F[i - 1], i>>] = RuneStep(s, size, F[i - 1], i)
    BY <2>1
  <2>3. QED
    BY <1>3, <2>2 DEF Along
<1>5. Solves(F)
  <2>1. \A i \in 0..L : i # 0 => i \in 1..L
    BY <1>1
  <2>2. \A i \in 0..L : F[i] = IF i = 0 THEN Scan ELSE RuneStep(s, size, F[i - 1], i)
    BY <1>4, <2>1
  <2>3. QED
    BY <2>2
<1>6. \A G : Solves(G) => G = F
  <2> SUFFICES ASSUME NEW G, Solves(G)
               PROVE  G = F
    OBVIOUS
  <2>1. \A i \in 0..L : G[i] = IF i = 0 THEN Scan ELSE RuneStep(s, size, G[i - 1], i)
    OBVIOUS
  <2> DEFINE T == { k \in 0..L : G[k] = F[k] }
  <2>2. 0 \in T
    BY <1>1, <1>4, <2>1
  <2>3. ASSUME NEW k \in 1..L, k - 1 \in T
        PROVE  k \in T
    BY <1>1, <1>4, <2>1, <2>3
  <2>4. \A k \in 0..L : k \in T
    <3> HIDE DEF T, L, Solves
    <3> QED
      BY <1>1, <2>2, <2>3, Upwards
  <2>5. G = [i \in 0..L |-> G[i]] /\ F = [i \in 0..L |-> F[i]]
    OBVIOUS
  <2>6. QED
    BY <2>4, <2>5
<1>7. (CHOOSE f : Solves(f)) = F
  <2> HIDE DEF Solves
  <2> QED
    BY <1>5, <1>6
<1>8. chunkExactRunes(s, size) = LastChunk(s, F[Len(s)])
  BY <1>7 DEF chunkExactRunes
<1>9. QED
  BY <1>4, <1>8

LEMMA WordScan ==
  ASSUME NEW s \in Seq(Alphabet), NEW size
  PROVE  \E F \in [0..Len(s) -> Founds] :
           /\ F[0] = Scan
           /\ \A i \in 1..Len(s) : F[i] = WordStep(s, size, F[i - 1], i)
           /\ chunkExactWords(s, size) = LastChunk(s, F[Len(s)])
<1> DEFINE L == Len(s)
           step == [x \in Founds \X (1..L) |-> WordStep(s, size, x[1], x[2])]
           Solves(f) ==
             f = [i \in 0..L |-> IF i = 0 THEN Scan ELSE WordStep(s, size, f[i - 1], i)]
<1>1. L \in Nat /\ Scan \in Founds
  BY LenProperties, EmptySeq DEF Scan, Founds
<1>2. step \in [Founds \X (1..L) -> Founds]
  BY StepsAreTyped
<1>3. PICK F \in [0..L -> Founds] : Along(F, L, Scan, step)
  <2> HIDE DEF L, step
  <2> QED
    BY <1>1, <1>2, Paths
<1>4. F[0] = Scan /\ \A i \in 1..L : F[i] = WordStep(s, size, F[i - 1], i)
  <2>1. \A i \in 1..L : F[i - 1] \in Founds
    BY <1>1
  <2>2. \A i \in 1..L : step[<<F[i - 1], i>>] = WordStep(s, size, F[i - 1], i)
    BY <2>1
  <2>3. QED
    BY <1>3, <2>2 DEF Along
<1>5. Solves(F)
  <2>1. \A i \in 0..L : i # 0 => i \in 1..L
    BY <1>1
  <2>2. \A i \in 0..L : F[i] = IF i = 0 THEN Scan ELSE WordStep(s, size, F[i - 1], i)
    BY <1>4, <2>1
  <2>3. QED
    BY <2>2
<1>6. \A G : Solves(G) => G = F
  <2> SUFFICES ASSUME NEW G, Solves(G)
               PROVE  G = F
    OBVIOUS
  <2>1. \A i \in 0..L : G[i] = IF i = 0 THEN Scan ELSE WordStep(s, size, G[i - 1], i)
    OBVIOUS
  <2> DEFINE T == { k \in 0..L : G[k] = F[k] }
  <2>2. 0 \in T
    BY <1>1, <1>4, <2>1
  <2>3. ASSUME NEW k \in 1..L, k - 1 \in T
        PROVE  k \in T
    BY <1>1, <1>4, <2>1, <2>3
  <2>4. \A k \in 0..L : k \in T
    <3> HIDE DEF T, L, Solves
    <3> QED
      BY <1>1, <2>2, <2>3, Upwards
  <2>5. G = [i \in 0..L |-> G[i]] /\ F = [i \in 0..L |-> F[i]]
    OBVIOUS
  <2>6. QED
    BY <2>4, <2>5
<1>7. (CHOOSE f : Solves(f)) = F
  <2> HIDE DEF Solves
  <2> QED
    BY <1>5, <1>6
<1>8. chunkExactWords(s, size) = LastChunk(s, F[Len(s)])
  BY <1>7 DEF chunkExactWords
<1>9. QED
  BY <1>4, <1>8
-----------------------------------------------------------------------------
(* FlattenSeq joins from the left.                                         *)
LEMMA Flattened ==
  ASSUME NEW S, NEW c \in Seq(Seq(S))
  PROVE  \E F \in [0..Len(c) -> Seq(S)] :
           /\ F[0] = << >>
           /\ \A k \in 1..Len(c) : F[k] = F[k - 1] \o c[k]
           /\ FlattenSeq(c) = F[Len(c)]
<1> DEFINE L == Len(c)
           step == [x \in Seq(S) \X (1..L) |-> x[1] \o c[x[2]]]
           Solves(f) ==
             f = [i \in 1..L |-> IF i = 1 THEN c[i] ELSE f[i - 1] \o c[i]]
<1>1. L \in Nat /\ << >> \in Seq(S) /\ \A k \in 1..L : c[k] \in Seq(S)
  BY LenProperties, EmptySeq, ElementOfSeq
<1>2. step \in [Seq(S) \X (1..L) -> Seq(S)]
  BY <1>1, ConcatProperties
<1>3. PICK F \in [0..L -> Seq(S)] : Along(F, L, << >>, step)
  <2> HIDE DEF L, step
  <2> QED
    BY <1>1, <1>2, Paths
<1>4. F[0] = << >> /\ \A k \in 1..L : F[k] = F[k - 1] \o c[k]
  <2>1. \A k \in 1..L : F[k - 1] \in Seq(S)
    <3>1. \A k \in 1..L : k - 1 \in 0..L
      BY <1>1
    <3>2. QED
      BY <3>1
  <2>2. \A k \in 1..L : step[<<F[k - 1], k>>] = F[k - 1] \o c[k]
    BY <2>1
  <2>3. QED
    BY <1>3, <2>2 DEF Along
<1>5. CASE L = 0
  <2>1. FlattenSeq(c) = c /\ c = << >>
    BY <1>5, EmptySeq DEF FlattenSeq
  <2>2. QED
    BY <1>4, <1>5, <2>1
<1>6. CASE L # 0
  <2> DEFINE H == [i \in 1..L |-> F[i]]
  <2>1. 1 \in 1..L /\ L \in 1..L
    BY <1>1, <1>6
  <2>2. F[1] = c[1]
    <3>1. F[1] = F[1 - 1] \o c[1]
      BY <1>4, <2>1, Zenon
    <3>0. 1 - 1 = 0
      OBVIOUS
    <3>2. F[1] = << >> \o c[1]
      <4> HIDE DEF L
      <4> QED
        BY <1>4, <3>0, <3>1, Zenon
    <3>3. c[1] \in Seq(S)
      BY <1>1, <2>1
    <3>4. QED
      BY <3>2, <3>3, ConcatEmptySeq
  <2>3. Solves(H)
    <3>1. \A i \in 1..L : i # 1 => i - 1 \in 1..L
      BY <1>1
    <3>2. \A i \in 1..L : H[i] = IF i = 1 THEN c[i] ELSE H[i - 1] \o c[i]
      BY <1>4, <2>2, <3>1
    <3>3. QED
      BY <3>2
  <2>4. \A G : Solves(G) => G = H
    <3> SUFFICES ASSUME NEW G, Solves(G)
                 PROVE  G = H
      OBVIOUS
    <3>1. \A i \in 1..L : G[i] = IF i = 1 THEN c[i] ELSE G[i - 1] \o c[i]
      OBVIOUS
    <3> DEFINE T == { k \in 0..L : k # 0 => G[k] = F[k] }
    <3>2. 0 \in T
      BY <1>1
    <3>3. ASSUME NEW k \in 1..L, k - 1 \in T
          PROVE  k \in T
      <4>1. CASE k = 1
        BY <1>1, <2>1, <2>2, <3>1, <4>1
      <4>2. CASE k # 1
        <5>1. G[k - 1] = F[k - 1] /\ k \in 0..L
          BY <3>3, <4>2
        <5>2. F[k] = F[k - 1] \o c[k] /\ G[k] = G[k - 1] \o c[k]
          BY <1>4, <3>1, <4>2
        <5>3. QED
          BY <5>1, <5>2
      <4>3. QED
        BY <4>1, <4>2
    <3>4. \A k \in 0..L : k \in T
      <4> HIDE DEF T, L, Solves
      <4> QED
        BY <1>1, <3>2, <3>3, Upwards
    <3>5. \A i \in 1..L : G[i] = H[i]
      <4>1. \A i \in 1..L : i \in 0..L /\ i # 0
        BY <1>1
      <4>2. QED
        BY <3>4, <4>1
    <3>6. G = [i \in 1..L |-> G[i]] /\ H = [i \in 1..L |-> H[i]]
      OBVIOUS
    <3>7. QED
      BY <3>5, <3>6
  <2>5. (CHOOSE f : Solves(f)) = H
    <3> HIDE DEF Solves
    <3> QED
      BY <2>3, <2>4
  <2>6. FlattenSeq(c) = F[L]
    BY <1>6, <2>1, <2>5 DEF FlattenSeq
  <2>7. QED
    BY <1>4, <2>6
<1>7. QED
  BY <1>5, <1>6

LEMMA FlattenIsTyped ==
  ASSUME NEW S, NEW c \in Seq(Seq(S))
  PROVE  FlattenSeq(c) \in Seq(S)
<1>1. PICK F \in [0..Len(c) -> Seq(S)] : FlattenSeq(c) = F[Len(c)]
  BY Flattened
<1>2. Len(c) \in 0..Len(c)
  BY LenProperties
<1>3. QED
  BY <1>1, <1>2

LEMMA FlattenNothing == FlattenSeq(<< >>) = << >>
BY EmptySeq DEF FlattenSeq

LEMMA FlattenAppend ==
  ASSUME NEW S, NEW c \in Seq(Seq(S)), NEW t \in Seq(S)
  PROVE  FlattenSeq(Append(c, t)) = FlattenSeq(c) \o t
<1> DEFINE L == Len(c)
           e == Append(c, t)
           step == [x \in Seq(S) \X (1..L) |-> x[1] \o c[x[2]]]
<1>1. /\ L \in Nat /\ e \in Seq(Seq(S)) /\ Len(e) = L + 1
      /\ \A k \in 1..L : e[k] = c[k]
      /\ e[L + 1] = t
  BY LenProperties, AppendProperties
<1>2. PICK F \in [0..L -> Seq(S)] :
        /\ F[0] = << >>
        /\ \A k \in 1..L : F[k] = F[k - 1] \o c[k]
        /\ FlattenSeq(c) = F[L]
  BY Flattened
<1> HIDE DEF e
<1>3. PICK G \in [0..(L + 1) -> Seq(S)] :
        /\ G[0] = << >>
        /\ \A k \in 1..(L + 1) : G[k] = G[k - 1] \o e[k]
        /\ FlattenSeq(e) = G[L + 1]
  <2>1. PICK G \in [0..Len(e) -> Seq(S)] :
          /\ G[0] = << >>
          /\ \A k \in 1..Len(e) : G[k] = G[k - 1] \o e[k]
          /\ FlattenSeq(e) = G[Len(e)]
    BY <1>1, Flattened
  <2>2. QED
    BY <1>1, <2>1, Zenon
<1>4. Along(F, L, << >>, step) /\ Along(G, L, << >>, step)
  <2>1. \A k \in 1..L :
          /\ F[k - 1] \in Seq(S) /\ G[k - 1] \in Seq(S)
          /\ k \in 1..(L + 1)
    <3>1. \A k \in 1..L : k - 1 \in 0..L /\ k - 1 \in 0..(L + 1) /\ k \in 1..(L + 1)
      BY <1>1
    <3>2. QED
      BY <3>1
  <2>2. \A k \in 1..L :
          /\ step[<<F[k - 1], k>>] = F[k - 1] \o c[k]
          /\ step[<<G[k - 1], k>>] = G[k - 1] \o c[k]
    BY <2>1
  <2>3. \A k \in 1..L : F[k] = F[k - 1] \o c[k] /\ G[k] = G[k - 1] \o c[k]
    BY <1>1, <1>2, <1>3, <2>1
  <2>4. QED
    BY <1>2, <1>3, <2>2, <2>3 DEF Along
<1>5. F[L] = G[L]
  <2>1. ASSUME NEW f, NEW g, f = F, g = G
        PROVE  \A k \in 0..L : f[k] = g[k]
    <3>1. L \in Nat /\ Along(f, L, << >>, step) /\ Along(g, L, << >>, step)
      BY <1>1, <1>4, <2>1
    <3> HIDE DEF L, step
    <3>2. QED
      BY <3>1, PathsAgree
  <2>2. \A k \in 0..L : F[k] = G[k]
    BY <2>1, Zenon
  <2>3. L \in 0..L
    BY <1>1
  <2>4. QED
    BY <2>2, <2>3
<1>6. G[L + 1] = G[L] \o e[L + 1]
  <2>1. L + 1 \in 1..(L + 1) /\ (L + 1) - 1 = L
    BY <1>1
  <2>2. G[L + 1] = G[(L + 1) - 1] \o e[L + 1]
    BY <1>3, <2>1
  <2>3. QED
    BY <2>1, <2>2
<1>7. QED
  BY <1>1, <1>2, <1>3, <1>5, <1>6 DEF e
-----------------------------------------------------------------------------
(***************************************************************************)
(* What both scans do: U is where a unit (a rune, a word) starts.          *)
(***************************************************************************)
CountIn(U, a, b) == Cardinality(U \cap (a..b))

Walks(s, size, U, f, g, i) ==
  IF i \in U
  THEN /\ g.n = f.n + 1
       /\ IF f.n > 0 /\ f.n % size = 0
          THEN g.start = i /\ g.chunks = Append(f.chunks, SubSeq(s, f.start, i - 1))
          ELSE g.start = f.start /\ g.chunks = f.chunks
  ELSE g.n = f.n /\ g.start = f.start /\ g.chunks = f.chunks

LEMMA CountNothing ==
  ASSUME NEW U, NEW a \in Int, NEW b \in Int, b < a
  PROVE  CountIn(U, a, b) = 0
<1>1. U \cap (a..b) = {}
  OBVIOUS
<1>2. QED
  BY <1>1, FS_EmptySet DEF CountIn

LEMMA CountIsNat ==
  ASSUME NEW U, NEW a \in Int, NEW b \in Int
  PROVE  IsFiniteSet(U \cap (a..b)) /\ CountIn(U, a, b) \in Nat
<1>1. IsFiniteSet(a..b)
  BY FS_Interval
<1>2. IsFiniteSet(U \cap (a..b))
  BY <1>1, FS_Subset
<1>3. QED
  BY <1>2, FS_CardinalityType DEF CountIn

LEMMA CountNext ==
  ASSUME NEW U, NEW a \in Int, NEW b \in Int, a <= b
  PROVE  CountIn(U, a, b) = CountIn(U, a, b - 1) + (IF b \in U THEN 1 ELSE 0)
<1> DEFINE V == U \cap (a..(b - 1))
<1>1. IsFiniteSet(V) /\ b \notin V /\ Cardinality(V) \in Nat
  <2>1. b - 1 \in Int
    OBVIOUS
  <2>2. IsFiniteSet(V) /\ Cardinality(V) \in Nat
    BY <2>1, CountIsNat DEF CountIn
  <2>3. QED
    BY <2>2
<1>2. U \cap (a..b) = IF b \in U THEN V \cup {b} ELSE V
  <2>1. a..b = (a..(b - 1)) \cup {b}
    OBVIOUS
  <2>2. QED
    BY <2>1
<1>3. CASE b \in U
  <2> HIDE DEF V
  <2>1. Cardinality(V \cup {b}) = Cardinality(V) + 1
    BY <1>1, FS_AddElement
  <2>2. QED
    BY <1>2, <1>3, <2>1 DEF CountIn, V
<1>4. CASE b \notin U
  <2>1. U \cap (a..b) = V
    BY <1>2, <1>4
  <2>2. CountIn(U, a, b) = CountIn(U, a, b - 1)
    BY <2>1 DEF CountIn
  <2>3. CountIn(U, a, b - 1) \in Nat
    BY <1>1 DEF CountIn
  <2>4. QED
    BY <1>4, <2>2, <2>3
<1>5. QED
  BY <1>3, <1>4

LEMMA Multiples ==
  ASSUME NEW m \in Nat \ {0}, NEW q \in Nat, NEW r \in 1..m
  PROVE  /\ q * m \in Nat
         /\ (q * m + r) % m = 0 <=> r = m
         /\ q * m + m + 1 = (q + 1) * m + 1
OBVIOUS

\* The k-th piece: units from a, up to the one that starts behind b.
Piece(s, size, U, k, t, a, b) ==
  /\ a <= b
  /\ t = SubSeq(s, a, b)
  /\ IF k = 1 THEN a = 1 ELSE a \in U
  /\ b + 1 \in U
  /\ CountIn(U, a, b) = size

Covers(s, size, U, f) ==
  \A k \in 1..Len(f.chunks) :
    \E a, b \in 1..Len(s) : Piece(s, size, U, k, f.chunks[k], a, b)

Counts(size, U, f, i) ==
  /\ f.start = 1 \/ (f.start \in U /\ f.start <= i)
  /\ f.chunks = << >> <=> f.start = 1
  /\ f.n = 0 => f.start = 1 /\ CountIn(U, 1, i) = 0
  /\ f.n > 0 =>
       /\ CountIn(U, f.start, i) \in 1..size
       /\ \E q \in Nat : f.n = q * size + CountIn(U, f.start, i)

Progress(s, size, U, f, i) ==
  /\ f \in Founds
  /\ FlattenSeq(f.chunks) = SubSeq(s, 1, f.start - 1)
  /\ Covers(s, size, U, f)
  /\ Counts(size, U, f, i)

LEMMA CountsStep ==
  ASSUME NEW s \in Seq(Alphabet), NEW size \in Nat \ {0}, NEW U, U \subseteq 1..Len(s),
         NEW f \in Founds, NEW g \in Founds, NEW i \in 1..Len(s),
         Counts(size, U, f, i - 1), Walks(s, size, U, f, g, i)
  PROVE  Counts(size, U, g, i)
<1>1. /\ f.start \in Nat \ {0} /\ f.n \in Nat /\ f.chunks \in Seq(Seq(Alphabet))
      /\ i \in Nat \ {0} /\ i - 1 \in Nat /\ 1 \in Int
  BY DEF Founds
<1>2. CASE i \notin U
  <2>1. g.n = f.n /\ g.start = f.start /\ g.chunks = f.chunks
    BY <1>2 DEF Walks
  <2>2. ASSUME NEW a \in Nat, a <= i
        PROVE  CountIn(U, a, i) = CountIn(U, a, i - 1)
    <3>1. CountIn(U, a, i) = CountIn(U, a, i - 1) + (IF i \in U THEN 1 ELSE 0)
      BY <2>2, CountNext
    <3>2. CountIn(U, a, i - 1) \in Nat
      <4>1. a \in Int /\ i - 1 \in Int
        OBVIOUS
      <4>2. QED
        BY <4>1, CountIsNat
    <3>3. QED
      BY <1>2, <3>1, <3>2
  <2>3. f.start <= i
    BY <1>1 DEF Counts
  <2>4. CountIn(U, f.start, i) = CountIn(U, f.start, i - 1)
        /\ CountIn(U, 1, i) = CountIn(U, 1, i - 1)
    BY <1>1, <2>2, <2>3
  <2>5. g.start = 1 \/ (g.start \in U /\ g.start <= i)
    BY <1>1, <2>1 DEF Counts
  <2>6. QED
    BY <2>1, <2>4, <2>5 DEF Counts
<1>3. CASE i \in U /\ f.n = 0
  <2>1. g.n = 1 /\ g.start = f.start /\ g.chunks = f.chunks
    BY <1>3 DEF Walks
  <2>2. f.start = 1 /\ CountIn(U, 1, i - 1) = 0 /\ f.chunks = << >>
    BY <1>3 DEF Counts
  <2>3. CountIn(U, 1, i) = 1
    BY <1>1, <1>3, <2>2, CountNext
  <2>4. \E q \in Nat : g.n = q * size + CountIn(U, g.start, i)
    <3>1. g.n = 0 * size + CountIn(U, g.start, i)
      BY <2>1, <2>2, <2>3
    <3>2. QED
      BY <3>1, Zenon
  <2>5. CountIn(U, g.start, i) \in 1..size /\ g.n # 0
    BY <2>1, <2>2, <2>3
  <2>6. QED
    BY <2>1, <2>2, <2>4, <2>5 DEF Counts
<1>4. CASE i \in U /\ f.n > 0
  <2> DEFINE c == CountIn(U, f.start, i - 1)
  <2>1. PICK q \in Nat : f.n = q * size + c
    BY <1>4 DEF Counts
  <2>2. c \in 1..size
    BY <1>4 DEF Counts
  <2> HIDE DEF c
  <2>3. /\ q * size \in Nat
        /\ f.n % size = 0 <=> c = size
        /\ q * size + size + 1 = (q + 1) * size + 1
    BY <2>1, <2>2, Multiples
  <2>4. f.start <= i - 1
    <3>1. CASE i - 1 < f.start
      BY <1>1, <2>2, <3>1, CountNothing DEF c
    <3>2. QED
      BY <1>1, <3>1
  <2>5. g.n = f.n + 1
    BY <1>4 DEF Walks
  <2>6. CASE c = size
    <3>1. g.start = i /\ g.chunks = Append(f.chunks, SubSeq(s, f.start, i - 1))
      BY <1>4, <2>3, <2>6 DEF Walks
    <3>2. g.chunks # << >>
      <4>1. \A c1 \in Seq(Seq(Alphabet)) : \A t : Append(c1, t) # << >>
        OBVIOUS
      <4>2. QED
        BY <1>1, <3>1, <4>1, Zenon
    <3>3. CountIn(U, i, i) = 1
      <4>1. CountIn(U, i, i - 1) = 0
        BY <1>1, CountNothing
      <4>2. QED
        BY <1>1, <1>4, <4>1, CountNext
    <3>4. g.n = (q + 1) * size + 1 /\ q + 1 \in Nat /\ g.n > 0
      BY <2>1, <2>3, <2>5, <2>6
    <3>5. i # 1 /\ i \in U /\ i <= i
      BY <1>1, <1>4, <2>4
    <3>6. CountIn(U, g.start, i) \in 1..size /\ g.n = (q + 1) * size + CountIn(U, g.start, i)
      BY <3>1, <3>3, <3>4
    <3>7. \E p \in Nat : g.n = p * size + CountIn(U, g.start, i)
      BY <3>4, <3>6, Zenon
    <3>8. g.n # 0 /\ g.start # 1 /\ g.start \in U /\ g.start <= i
      BY <3>1, <3>4, <3>5
    <3>9. QED
      BY <3>2, <3>6, <3>7, <3>8 DEF Counts
  <2>7. CASE c # size
    <3>1. g.start = f.start /\ g.chunks = f.chunks
      BY <1>4, <2>3, <2>7 DEF Walks
    <3>2. CountIn(U, f.start, i) = c + 1
      BY <1>1, <1>4, <2>4, CountNext DEF c
    <3>3. c + 1 \in 1..size /\ g.n = q * size + (c + 1) /\ g.n > 0
      BY <2>1, <2>2, <2>3, <2>5, <2>7
    <3>4. g.start = 1 \/ (g.start \in U /\ g.start <= i)
      BY <1>1, <3>1 DEF Counts
    <3>5. \E p \in Nat : g.n = p * size + CountIn(U, g.start, i)
      BY <3>1, <3>2, <3>3, Zenon
    <3>6. CountIn(U, g.start, i) \in 1..size /\ g.n # 0
      BY <3>1, <3>2, <3>3
    <3>7. QED
      BY <3>1, <3>4, <3>5, <3>6 DEF Counts
  <2>8. QED
    BY <2>6, <2>7
<1>5. QED
  BY <1>1, <1>2, <1>3, <1>4

LEMMA CoversStep ==
  ASSUME NEW s \in Seq(Alphabet), NEW size \in Nat \ {0}, NEW U, U \subseteq 1..Len(s),
         NEW f \in Founds, NEW g \in Founds, NEW i \in 1..Len(s),
         Counts(size, U, f, i - 1), Covers(s, size, U, f), Walks(s, size, U, f, g, i)
  PROVE  Covers(s, size, U, g)
<1>1. /\ f.start \in Nat \ {0} /\ f.n \in Nat /\ f.chunks \in Seq(Seq(Alphabet))
      /\ i \in Nat \ {0} /\ i - 1 \in Nat /\ Len(s) \in Nat
  BY LenProperties DEF Founds
<1>2. CASE g.chunks = f.chunks
  BY <1>2 DEF Covers
<1>3. CASE g.chunks # f.chunks
  <2> DEFINE t == SubSeq(s, f.start, i - 1)
  <2>1. i \in U /\ f.n > 0 /\ f.n % size = 0 /\ g.chunks = Append(f.chunks, t)
    BY <1>3 DEF Walks
  <2>2. CountIn(U, f.start, i - 1) = size
    <3> DEFINE c == CountIn(U, f.start, i - 1)
    <3>1. PICK q \in Nat : f.n = q * size + c
      BY <2>1 DEF Counts
    <3>2. c \in 1..size
      BY <2>1 DEF Counts
    <3> HIDE DEF c
    <3>3. f.n % size = 0 <=> c = size
      BY <3>1, <3>2, Multiples
    <3>4. QED
      BY <2>1, <3>3 DEF c
  <2>3. f.start <= i - 1
    <3>1. CASE i - 1 < f.start
      BY <1>1, <2>2, <3>1, CountNothing
    <3>2. QED
      BY <1>1, <3>1
  <2>4. f.start \in 1..Len(s) /\ i - 1 \in 1..Len(s) /\ (i - 1) + 1 = i
    BY <1>1, <2>3
  <2> HIDE DEF t
  <2>5. ASSUME NEW k \in 1..Len(g.chunks)
        PROVE  \E a, b \in 1..Len(s) : Piece(s, size, U, k, g.chunks[k], a, b)
    <3>1. Len(g.chunks) = Len(f.chunks) + 1 /\ Len(f.chunks) \in Nat
      <4>1. \A c1 \in Seq(Seq(Alphabet)) : \A x : Len(Append(c1, x)) = Len(c1) + 1
        OBVIOUS
      <4>2. QED
        BY <1>1, <2>1, <4>1, LenProperties
    <3>2. CASE k \in 1..Len(f.chunks)
      <4>1. g.chunks[k] = f.chunks[k]
        <5>1. \A c1 \in Seq(Seq(Alphabet)) : \A x : \A j \in 1..Len(c1) : Append(c1, x)[j] = c1[j]
          OBVIOUS
        <5>2. QED
          BY <1>1, <2>1, <3>2, <5>1
      <4>2. QED
        BY <3>2, <4>1 DEF Covers
    <3>3. CASE k = Len(f.chunks) + 1
      <4>1. g.chunks[k] = t
        <5>1. \A c1 \in Seq(Seq(Alphabet)) : \A x : Append(c1, x)[Len(c1) + 1] = x
          OBVIOUS
        <5>2. QED
          BY <1>1, <2>1, <3>3, <5>1
      <4>2. IF k = 1 THEN f.start = 1 ELSE f.start \in U
        <5>1. f.chunks = << >> <=> k = 1
          BY <1>1, <3>1, <3>3, EmptySeq
        <5>2. QED
          BY <5>1 DEF Counts
      <4>3. Piece(s, size, U, k, g.chunks[k], f.start, i - 1)
        BY <2>1, <2>2, <2>3, <2>4, <4>1, <4>2 DEF Piece, t
      <4>4. QED
        BY <2>4, <4>3, Zenon
    <3>4. QED
      BY <3>1, <3>2, <3>3
  <2>6. QED
    BY <2>5 DEF Covers
<1>4. QED
  BY <1>2, <1>3

LEMMA Halves ==
  ASSUME NEW S, NEW s \in Seq(S), NEW a \in 1..(Len(s) + 1), NEW b \in (a - 1)..Len(s)
  PROVE  SubSeq(s, 1, a - 1) \o SubSeq(s, a, b) = SubSeq(s, 1, b)
<1>1. Len(s) \in Nat
  BY LenProperties
<1>2. /\ 1 \in 1..(Len(s) + 1) /\ a - 1 \in (1 - 1)..Len(s) /\ b \in (a - 1)..Len(s)
      /\ (a - 1) + 1 = a
  BY <1>1
<1>3. SubSeq(s, 1, a - 1) \o SubSeq(s, (a - 1) + 1, b) = SubSeq(s, 1, b)
  BY <1>2, ConcatAdjacentSubSeq
<1>4. QED
  BY <1>2, <1>3

LEMMA JoinsStep ==
  ASSUME NEW s \in Seq(Alphabet), NEW size \in Nat \ {0}, NEW U, U \subseteq 1..Len(s),
         NEW f \in Founds, NEW g \in Founds, NEW i \in 1..Len(s),
         Counts(size, U, f, i - 1), Walks(s, size, U, f, g, i),
         FlattenSeq(f.chunks) = SubSeq(s, 1, f.start - 1)
  PROVE  FlattenSeq(g.chunks) = SubSeq(s, 1, g.start - 1)
<1>1. /\ f.start \in Nat \ {0} /\ f.chunks \in Seq(Seq(Alphabet))
      /\ i \in Nat \ {0} /\ i - 1 \in Nat /\ Len(s) \in Nat /\ f.start <= i
  BY LenProperties DEF Founds, Counts
<1>2. CASE g.chunks = f.chunks /\ g.start = f.start
  BY <1>2
<1>3. CASE g.chunks = Append(f.chunks, SubSeq(s, f.start, i - 1)) /\ g.start = i
  <2>1. f.start \in 1..(Len(s) + 1) /\ i - 1 \in (f.start - 1)..Len(s)
    BY <1>1
  <2>2. SubSeq(s, 1, f.start - 1) \o SubSeq(s, f.start, i - 1) = SubSeq(s, 1, i - 1)
    BY <2>1, Halves
  <2>3. SubSeq(s, f.start, i - 1) \in Seq(Alphabet)
    <3>1. \A j \in f.start..(i - 1) : j \in 1..Len(s)
      BY <1>1
    <3>2. QED
      BY <1>1, <3>1, SubSeqProperties
  <2>4. FlattenSeq(g.chunks) = FlattenSeq(f.chunks) \o SubSeq(s, f.start, i - 1)
    BY <1>1, <1>3, <2>3, FlattenAppend, Zenon
  <2>5. QED
    BY <1>3, <2>2, <2>4
<1>4. QED
  BY <1>2, <1>3 DEF Walks

LEMMA ScanProgress ==
  ASSUME NEW s \in Seq(Alphabet), NEW size \in Nat \ {0}, NEW U, U \subseteq 1..Len(s),
         NEW F \in [0..Len(s) -> Founds], F[0] = Scan,
         \A i \in 1..Len(s) : Walks(s, size, U, F[i - 1], F[i], i)
  PROVE  Progress(s, size, U, F[Len(s)], Len(s))
<1> DEFINE L == Len(s)
           T == { k \in 0..L : Progress(s, size, U, F[k], k) }
<1>1. L \in Nat
  BY LenProperties
<1>2. 0 \in T
  <2>1. Scan \in Founds /\ Scan.start = 1 /\ Scan.n = 0 /\ Scan.chunks = << >>
    BY EmptySeq DEF Scan, Founds
  <2>2. SubSeq(s, 1, 1 - 1) = << >>
    BY SubSeqEmpty
  <2>3. Covers(s, size, U, Scan)
    <3>1. Len(Scan.chunks) = 0
      BY <2>1, EmptySeq
    <3>2. QED
      BY <3>1 DEF Covers
  <2>4. Counts(size, U, Scan, 0)
    <3>1. CountIn(U, 1, 0) = 0
      BY CountNothing
    <3>2. QED
      BY <2>1, <3>1 DEF Counts
  <2>5. FlattenSeq(Scan.chunks) = SubSeq(s, 1, Scan.start - 1)
    BY <2>1, <2>2, FlattenNothing
  <2>6. QED
    BY <1>1, <2>1, <2>3, <2>4, <2>5 DEF Progress
<1>3. ASSUME NEW k \in 1..L, k - 1 \in T
      PROVE  k \in T
  <2>1. k - 1 \in 0..L /\ k \in 0..L
    BY <1>1
  <2>2. F[k - 1] \in Founds /\ F[k] \in Founds
    BY <2>1
  <2>3. Progress(s, size, U, F[k - 1], k - 1)
    BY <1>3
  <2>4. Walks(s, size, U, F[k - 1], F[k], k)
    OBVIOUS
  <2>5. ASSUME NEW f, NEW g, f = F[k - 1], g = F[k]
        PROVE  Progress(s, size, U, g, k)
    <3>1. f \in Founds /\ g \in Founds /\ Counts(size, U, f, k - 1) /\ Covers(s, size, U, f)
          /\ FlattenSeq(f.chunks) = SubSeq(s, 1, f.start - 1)
          /\ Walks(s, size, U, f, g, k)
      BY <2>2, <2>3, <2>4, <2>5 DEF Progress
    <3> HIDE DEF T
    <3>2. Counts(size, U, g, k)
      BY <3>1, CountsStep
    <3>3. Covers(s, size, U, g)
      BY <3>1, CoversStep
    <3>4. FlattenSeq(g.chunks) = SubSeq(s, 1, g.start - 1)
      BY <3>1, JoinsStep
    <3>5. QED
      BY <3>1, <3>2, <3>3, <3>4 DEF Progress
  <2>6. QED
    BY <2>1, <2>5
<1>4. \A k \in 0..L : k \in T
  <2> HIDE DEF T, L
  <2> QED
    BY <1>1, <1>2, <1>3, Upwards
<1>5. QED
  BY <1>1, <1>4
-----------------------------------------------------------------------------
(* A rune starts at every byte that continues none. *)
RuneStarts(s) == {i \in 1..Len(s) : s[i] \notin Continuation}

LEMMA RunesWalk ==
  ASSUME NEW s \in Seq(Alphabet), NEW size \in Nat \ {0}, NEW f \in Founds,
         NEW i \in 1..Len(s)
  PROVE  Walks(s, size, RuneStarts(s), f, RuneStep(s, size, f, i), i)
<1>1. i \in RuneStarts(s) <=> s[i] \notin Continuation
  BY DEF RuneStarts
<1>2. CASE s[i] \in Continuation
  BY <1>1, <1>2 DEF Walks, RuneStep
<1>3. CASE s[i] \notin Continuation
  BY <1>1, <1>3 DEF Walks, RuneStep, CutAt, Founds
<1>4. QED
  BY <1>2, <1>3

(* A word, where a blank or nothing is before a byte that is none, if the  *)
(* scan knows the byte before.                                             *)
LEMMA WordsWalk ==
  ASSUME NEW s, IsText(s), NEW size \in Nat \ {0}, NEW f \in Founds,
         NEW i \in 1..Len(s), f.prevSpace <=> (i = 1 \/ s[i - 1] \in Space)
  PROVE  LET g == WordStep(s, size, f, i)
         IN Walks(s, size, WordStarts(s), f, g, i) /\ (g.prevSpace <=> s[i] \in Space)
<1> DEFINE g == WordStep(s, size, f, i)
<1>1. s \in Seq(Alphabet) /\ (s[i] \in Continuation => i > 1 /\ s[i - 1] \notin Space)
  BY DEF IsText
<1>2. i \in WordStarts(s) <=> s[i] \notin Space /\ f.prevSpace
  BY DEF WordStarts
<1>3. CASE s[i] \in Continuation
  <2>1. s[i] \notin Space
    BY <1>3 DEF Continuation, Space
  <2>2. ~f.prevSpace /\ g = f
    BY <1>1, <1>3 DEF WordStep
  <2>3. QED
    BY <1>2, <2>1, <2>2 DEF Walks
<1>4. CASE s[i] \notin Continuation
  <2>1. g.prevSpace = (s[i] \in Space)
    BY <1>4 DEF WordStep, CutAt, Founds
  <2>2. Walks(s, size, WordStarts(s), f, g, i)
    BY <1>2, <1>4 DEF Walks, WordStep, CutAt, Founds
  <2>3. QED
    BY <2>1, <2>2
<1>5. QED
  BY <1>3, <1>4
-----------------------------------------------------------------------------
(* The k-th chunk of d reaches from a to b. *)
Chunk(s, size, U, d, k, a, b) ==
  /\ a <= b
  /\ d[k] = SubSeq(s, a, b)
  /\ IF k = 1 THEN a = 1 ELSE a \in U
  /\ CountIn(U, a, b) <= size
  /\ k < Len(d) => b + 1 \in U /\ CountIn(U, a, b) = size

LEMMA LastCovers ==
  ASSUME NEW s \in Seq(Alphabet), s # << >>, NEW size \in Nat \ {0},
         NEW U, U \subseteq 1..Len(s), NEW f \in Founds, Progress(s, size, U, f, Len(s))
  PROVE  LET d == LastChunk(s, f)
         IN /\ FlattenSeq(d) = s
            /\ Len(d) \in Nat
            /\ \A k \in 1..Len(d) : \E a, b \in 1..Len(s) : Chunk(s, size, U, d, k, a, b)
<1> DEFINE d == LastChunk(s, f)
           L == Len(s)
           n == Len(f.chunks)
           t == SubSeq(s, f.start, L)
<1>1. /\ f.start \in Nat \ {0} /\ f.n \in Nat /\ f.chunks \in Seq(Seq(Alphabet))
      /\ L \in Nat \ {0} /\ n \in Nat
  BY LenProperties, EmptySeq DEF Founds
<1>2. /\ FlattenSeq(f.chunks) = SubSeq(s, 1, f.start - 1)
      /\ Covers(s, size, U, f) /\ Counts(size, U, f, L)
  BY DEF Progress
<1>3. f.start \in 1..L /\ L \in 1..L
  BY <1>1, <1>2 DEF Counts
<1>4. t \in Seq(Alphabet)
  <2>1. \A j \in f.start..L : j \in 1..L
    BY <1>1
  <2>2. QED
    BY <1>1, <2>1, SubSeqProperties
<1> HIDE DEF t
<1>5. FlattenSeq(d) = s
  <2>1. f.start \in 1..(L + 1) /\ L \in (f.start - 1)..L
    BY <1>1, <1>3
  <2>2. SubSeq(s, 1, f.start - 1) \o t = SubSeq(s, 1, L)
    BY <2>1, Halves DEF t
  <2>3. SubSeq(s, 1, L) = s
    OBVIOUS
  <2>4. FlattenSeq(d) = FlattenSeq(f.chunks) \o t
    BY <1>1, <1>4, FlattenAppend, Zenon DEF LastChunk, t
  <2>5. QED
    BY <1>2, <2>2, <2>3, <2>4
<1>6. /\ Len(d) = n + 1
      /\ d[n + 1] = t
      /\ \A k \in 1..n : d[k] = f.chunks[k]
  <2>1. d = Append(f.chunks, t)
    BY DEF LastChunk, t
  <2> HIDE DEF d
  <2>2. ASSUME NEW c, c = f.chunks
        PROVE  /\ Len(Append(c, t)) = Len(c) + 1
               /\ Append(c, t)[Len(c) + 1] = t
               /\ \A k \in 1..Len(c) : Append(c, t)[k] = c[k]
    <3>1. c \in Seq(Seq(Alphabet))
      BY <1>1, <2>2
    <3>2. QED
      BY <1>4, <3>1, AppendProperties
  <2>3. QED
    BY <2>1, <2>2, Zenon
<1> HIDE DEF d, L, n
<1>7. ASSUME NEW k \in 1..Len(d)
      PROVE  \E a, b \in 1..Len(s) : Chunk(s, size, U, d, k, a, b)
  <2>1. CASE k \in 1..n
    <3>1. PICK a, b \in 1..Len(s) : Piece(s, size, U, k, f.chunks[k], a, b)
      BY <1>2, <2>1 DEF Covers, n
    <3>2. Chunk(s, size, U, d, k, a, b)
      BY <1>6, <2>1, <3>1 DEF Piece, Chunk
    <3>3. QED
      BY <3>2
  <2>2. CASE k = n + 1
    <3>1. f.chunks = << >> <=> k = 1
      BY <1>1, <2>2, EmptySeq DEF n
    <3>2. IF k = 1 THEN f.start = 1 ELSE f.start \in U
      BY <1>2, <3>1 DEF Counts
    <3>3. CountIn(U, f.start, L) <= size
      <4>1. CASE f.n = 0
        BY <1>2, <4>1 DEF Counts
      <4>2. CASE f.n # 0
        <5>1. CountIn(U, f.start, L) \in 1..size
          BY <1>1, <1>2, <4>2 DEF Counts
        <5>2. QED
          BY <5>1
      <4>3. QED
        BY <4>1, <4>2
    <3>4. f.start <= L /\ ~(k < Len(d)) /\ d[k] = SubSeq(s, f.start, L)
      BY <1>1, <1>3, <1>6, <2>2 DEF t
    <3>5. Chunk(s, size, U, d, k, f.start, L)
      BY <3>2, <3>3, <3>4 DEF Chunk
    <3>6. QED
      BY <1>3, <3>5 DEF L
  <2>3. QED
    BY <1>1, <1>6, <2>1, <2>2
<1>8. QED
  BY <1>1, <1>5, <1>6, <1>7 DEF d

(* Counting in a piece is counting in the text.                            *)
LEMMA Shifted ==
  ASSUME NEW U, NEW a \in Nat \ {0}, NEW b \in Nat, a <= b
  PROVE  Cardinality({j \in 1..(b - a + 1) : a + j - 1 \in U}) = CountIn(U, a, b)
<1> DEFINE V == {j \in 1..(b - a + 1) : a + j - 1 \in U}
           W == U \cap (a..b)
           f == [j \in V |-> a + j - 1]
<1>1. IsFiniteSet(V)
  <2>1. IsFiniteSet(1..(b - a + 1)) /\ V \subseteq 1..(b - a + 1)
    BY FS_Interval
  <2>2. QED
    BY <2>1, FS_Subset
<1>2. f \in [V -> W]
  OBVIOUS
<1>3. \A j, k \in V : f[j] = f[k] => j = k
  OBVIOUS
<1>4. \A w \in W : \E j \in V : f[j] = w
  <2> SUFFICES ASSUME NEW w \in W
               PROVE  \E j \in V : f[j] = w
    OBVIOUS
  <2>1. w - a + 1 \in V /\ a + (w - a + 1) - 1 = w
    OBVIOUS
  <2>2. f[w - a + 1] = w
    BY <2>1
  <2>3. QED
    BY <2>1, <2>2
<1> HIDE DEF f, V, W
<1>5. ExistsBijection(V, W)
  BY <1>2, <1>3, <1>4 DEF ExistsBijection, Bijection, Injection, Surjection, IsInjective
<1>6. Cardinality(W) = Cardinality(V)
  BY <1>1, <1>5, FS_Bijection
<1>7. QED
  BY <1>6 DEF V, W, CountIn

LEMMA RunesCounted ==
  ASSUME NEW s \in Seq(Alphabet), NEW a \in 1..Len(s), NEW b \in 1..Len(s), a <= b
  PROVE  RunesOf(SubSeq(s, a, b)) = CountIn(RuneStarts(s), a, b)
<1> DEFINE t == SubSeq(s, a, b)
<1>1. Len(s) \in Nat /\ a \in Nat \ {0} /\ b \in Nat
  BY LenProperties
<1>2. Len(t) = b - a + 1 /\ \A j \in 1..(b - a + 1) : t[j] = s[a + j - 1]
  BY <1>1
<1> HIDE DEF t
<1>3. ASSUME NEW j \in 1..(b - a + 1)
      PROVE  t[j] \notin Continuation <=> a + j - 1 \in RuneStarts(s)
  <2>1. a + j - 1 \in 1..Len(s)
    BY <1>1
  <2>2. QED
    BY <1>2, <2>1 DEF RuneStarts
<1>4. {j \in 1..Len(t) : t[j] \notin Continuation}
        = {j \in 1..(b - a + 1) : a + j - 1 \in RuneStarts(s)}
  BY <1>2, <1>3
<1>5. QED
  BY <1>1, <1>4, Shifted DEF RunesOf, t

LEMMA WordsCounted ==
  ASSUME NEW s \in Seq(Alphabet), NEW a \in 1..Len(s), NEW b \in 1..Len(s), a <= b,
         a = 1 \/ a \in WordStarts(s)
  PROVE  Cardinality(WordStarts(SubSeq(s, a, b))) = CountIn(WordStarts(s), a, b)
<1> DEFINE t == SubSeq(s, a, b)
<1>1. Len(s) \in Nat /\ a \in Nat \ {0} /\ b \in Nat
  BY LenProperties
<1>2. Len(t) = b - a + 1 /\ \A j \in 1..(b - a + 1) : t[j] = s[a + j - 1]
  BY <1>1
<1> HIDE DEF t
<1>3. ASSUME NEW j \in 1..(b - a + 1)
      PROVE  t[j] \notin Space /\ (j = 1 \/ t[j - 1] \in Space)
               <=> a + j - 1 \in WordStarts(s)
  <2>1. a + j - 1 \in 1..Len(s) /\ t[j] = s[a + j - 1]
    BY <1>1, <1>2
  <2>2. CASE j = 1
    <3>1. a + j - 1 = a
      BY <1>1, <2>2
    <3>2. QED
      BY <2>1, <2>2, <3>1 DEF WordStarts
  <2>3. CASE j # 1
    <3>1. /\ j - 1 \in 1..(b - a + 1) /\ a + (j - 1) - 1 = (a + j - 1) - 1
          /\ a + j - 1 # 1
      BY <1>1, <2>3
    <3>2. t[j - 1] = s[(a + j - 1) - 1]
      BY <1>2, <3>1
    <3>3. QED
      BY <2>1, <2>3, <3>1, <3>2 DEF WordStarts
  <2>4. QED
    BY <2>2, <2>3
<1>4. WordStarts(t) = {j \in 1..(b - a + 1) : a + j - 1 \in WordStarts(s)}
  <2>1. WordStarts(t)
          = {j \in 1..(b - a + 1) : t[j] \notin Space /\ (j = 1 \/ t[j - 1] \in Space)}
    BY <1>2 DEF WordStarts
  <2>2. QED
    BY <1>3, <2>1
<1>5. QED
  BY <1>1, <1>4, Shifted DEF t
-----------------------------------------------------------------------------
LEMMA RuneChunks ==
  ASSUME NEW s, IsText(s), s # << >>, NEW size \in Nat \ {0}
  PROVE  LET d == chunkExactRunes(s, size)
         IN /\ FlattenSeq(d) = s
            /\ Len(d) \in Nat
            /\ \A k \in 1..Len(d) : \E a, b \in 1..Len(s) :
                 Chunk(s, size, RuneStarts(s), d, k, a, b)
<1> DEFINE U == RuneStarts(s)
           d == chunkExactRunes(s, size)
           L == Len(s)
<1>1. s \in Seq(Alphabet) /\ U \subseteq 1..L
  BY DEF IsText, RuneStarts
<1>2. PICK F \in [0..L -> Founds] :
        /\ F[0] = Scan
        /\ \A i \in 1..L : F[i] = RuneStep(s, size, F[i - 1], i)
        /\ d = LastChunk(s, F[L])
  BY <1>1, RuneScan
<1>3. L \in Nat /\ L \in 0..L /\ \A i \in 1..L : i - 1 \in 0..L
  BY <1>1, LenProperties
<1>4. \A i \in 1..L : Walks(s, size, U, F[i - 1], F[i], i)
  <2> SUFFICES ASSUME NEW i \in 1..L
               PROVE  Walks(s, size, U, F[i - 1], F[i], i)
    OBVIOUS
  <2>1. F[i - 1] \in Founds /\ F[i] = RuneStep(s, size, F[i - 1], i)
    BY <1>2, <1>3
  <2>2. ASSUME NEW f \in Founds
        PROVE  Walks(s, size, U, f, RuneStep(s, size, f, i), i)
    BY <1>1, RunesWalk
  <2>3. QED
    BY <2>1, <2>2, Zenon
<1> HIDE DEF U, d, L
<1>5. Progress(s, size, U, F[L], L)
  <2>1. ASSUME NEW G, G = F
        PROVE  Progress(s, size, U, G[L], L)
    BY <1>1, <1>2, <1>4, <2>1, ScanProgress DEF L
  <2>2. QED
    BY <2>1
<1>6. F[L] \in Founds
  BY <1>3
<1>7. ASSUME NEW f \in Founds, f = F[L]
      PROVE  /\ FlattenSeq(d) = s
             /\ Len(d) \in Nat
             /\ \A k \in 1..Len(d) : \E a, b \in 1..Len(s) : Chunk(s, size, U, d, k, a, b)
  <2>1. Progress(s, size, U, f, Len(s)) /\ U \subseteq 1..Len(s) /\ d = LastChunk(s, f)
    BY <1>1, <1>2, <1>5, <1>7 DEF L
  <2>2. QED
    BY <1>1, <2>1, LastCovers
<1>8. QED
  BY <1>6, <1>7 DEF U, d

LEMMA WordChunks ==
  ASSUME NEW s, IsText(s), s # << >>, NEW size \in Nat \ {0}
  PROVE  LET d == chunkExactWords(s, size)
         IN /\ FlattenSeq(d) = s
            /\ Len(d) \in Nat
            /\ \A k \in 1..Len(d) : \E a, b \in 1..Len(s) :
                 Chunk(s, size, WordStarts(s), d, k, a, b)
<1> DEFINE U == WordStarts(s)
           d == chunkExactWords(s, size)
           L == Len(s)
<1>1. s \in Seq(Alphabet) /\ U \subseteq 1..L
  BY DEF IsText, WordStarts
<1>2. PICK F \in [0..L -> Founds] :
        /\ F[0] = Scan
        /\ \A i \in 1..L : F[i] = WordStep(s, size, F[i - 1], i)
        /\ d = LastChunk(s, F[L])
  BY <1>1, WordScan
<1>3. L \in Nat /\ L \in 0..L /\ \A i \in 1..L : i - 1 \in 0..L
  BY <1>1, LenProperties
<1>4. ASSUME NEW f \in Founds, NEW i \in 1..L, f.prevSpace <=> (i = 1 \/ s[i - 1] \in Space)
      PROVE  /\ Walks(s, size, U, f, WordStep(s, size, f, i), i)
             /\ WordStep(s, size, f, i).prevSpace <=> s[i] \in Space
  BY <1>1, <1>4, WordsWalk
<1> DEFINE T == { k \in 0..L : F[k].prevSpace <=> (k = 0 \/ s[k] \in Space) }
<1> HIDE DEF U, d
<1>5. 0 \in T
  BY <1>2, <1>3 DEF Scan
<1>6. ASSUME NEW k \in 1..L, k - 1 \in T
      PROVE  k \in T /\ Walks(s, size, U, F[k - 1], F[k], k)
  <2>1. F[k - 1] \in Founds /\ F[k] = WordStep(s, size, F[k - 1], k) /\ k \in 0..L /\ k # 0
    BY <1>2, <1>3
  <2>2. F[k - 1].prevSpace <=> (k = 1 \/ s[k - 1] \in Space)
    <3>1. k - 1 = 0 <=> k = 1
      OBVIOUS
    <3>2. QED
      BY <1>6, <3>1
  <2>3. /\ Walks(s, size, U, F[k - 1], F[k], k)
        /\ F[k].prevSpace <=> s[k] \in Space
    <3> HIDE DEF T, L
    <3> QED
      BY <1>4, <2>1, <2>2, Zenon
  <2>4. QED
    BY <2>1, <2>3
<1>7. \A k \in 0..L : k \in T
  <2> HIDE DEF T, L
  <2> QED
    BY <1>3, <1>5, <1>6, Upwards
<1>8. \A i \in 1..L : Walks(s, size, U, F[i - 1], F[i], i)
  <2> HIDE DEF T, L
  <2> QED
    BY <1>3, <1>6, <1>7
<1> HIDE DEF L, T
<1>9. Progress(s, size, U, F[L], L)
  <2>1. ASSUME NEW G, G = F
        PROVE  Progress(s, size, U, G[L], L)
    BY <1>1, <1>2, <1>8, <2>1, ScanProgress DEF L
  <2>2. QED
    BY <2>1
<1>10. F[L] \in Founds
  BY <1>3
<1>11. ASSUME NEW f \in Founds, f = F[L]
       PROVE  /\ FlattenSeq(d) = s
              /\ Len(d) \in Nat
              /\ \A k \in 1..Len(d) : \E a, b \in 1..Len(s) : Chunk(s, size, U, d, k, a, b)
  <2>1. Progress(s, size, U, f, Len(s)) /\ U \subseteq 1..Len(s) /\ d = LastChunk(s, f)
    BY <1>1, <1>2, <1>9, <1>11 DEF L
  <2>2. QED
    BY <1>1, <2>1, LastCovers
<1>12. QED
  BY <1>10, <1>11 DEF U, d

(* A piece of a text is not empty, and begins and ends as the text does    *)
(* there.                                                                  *)
LEMMA Pieces ==
  ASSUME NEW s \in Seq(Alphabet), NEW a \in 1..Len(s), NEW b \in 1..Len(s), a <= b
  PROVE  LET t == SubSeq(s, a, b)
         IN t # << >> /\ Head(t) = s[a] /\ t[Len(t)] = s[b]
<1>1. Len(s) \in Nat /\ a \in Nat \ {0} /\ b \in Nat
  BY LenProperties
<1> DEFINE t == SubSeq(s, a, b)
<1>2. t \in Seq(Alphabet) /\ Len(t) = b - a + 1
  BY <1>1
<1>3. \A j \in 1..(b - a + 1) : t[j] = s[a + j - 1]
  BY <1>1
<1> HIDE DEF t
<1>4. t # << >> /\ Head(t) = t[1]
  BY <1>1, <1>2
<1>5. t[1] = s[a] /\ t[Len(t)] = s[b]
  <2>1. 1 \in 1..(b - a + 1) /\ b - a + 1 \in 1..(b - a + 1)
        /\ a + 1 - 1 = a /\ a + (b - a + 1) - 1 = b
    BY <1>1
  <2>2. t[1] = s[a + 1 - 1] /\ t[b - a + 1] = s[a + (b - a + 1) - 1]
    BY <1>3, <2>1
  <2>3. QED
    BY <1>2, <2>1, <2>2
<1>6. QED
  BY <1>4, <1>5 DEF t

LEMMA RuneChunksAreClean ==
  ASSUME NEW s, IsText(s), s # << >>, NEW size \in Nat \ {0}
  PROVE  LET d == chunkExactRunes(s, size)
         IN /\ FlattenSeq(d) = s
            /\ \A i \in 1..Len(d) : d[i] # << >> /\ Head(d[i]) \notin Continuation
            /\ \A i \in 1..(Len(d) - 1) : RunesOf(d[i]) = size
            /\ \A i \in 1..Len(d) : RunesOf(d[i]) <= size
<1> DEFINE d == chunkExactRunes(s, size)
           U == RuneStarts(s)
<1> HIDE DEF d, U
<1>1. /\ FlattenSeq(d) = s
      /\ Len(d) \in Nat
      /\ \A k \in 1..Len(d) : \E a, b \in 1..Len(s) : Chunk(s, size, U, d, k, a, b)
  BY RuneChunks DEF d, U
<1>2. s \in Seq(Alphabet)
  BY DEF IsText
<1>3. ASSUME NEW i \in 1..Len(d)
      PROVE  /\ d[i] # << >> /\ Head(d[i]) \notin Continuation
             /\ i < Len(d) => RunesOf(d[i]) = size
             /\ RunesOf(d[i]) <= size
  <2>1. PICK a, b \in 1..Len(s) : Chunk(s, size, U, d, i, a, b)
    BY <1>1
  <2>2. a <= b /\ d[i] = SubSeq(s, a, b) /\ (a = 1 \/ a \in U)
    BY <2>1 DEF Chunk
  <2>3. d[i] # << >> /\ Head(d[i]) = s[a]
    <3> DEFINE t == SubSeq(s, a, b)
    <3>1. t # << >> /\ Head(t) = s[a]
      BY <1>2, <2>2, Pieces
    <3> HIDE DEF t
    <3>2. d[i] = t
      BY <2>2 DEF t
    <3>3. QED
      BY <3>1, <3>2, Zenon
  <2>4. s[a] \notin Continuation
    <3>1. CASE a = 1
      <4>1. s[a] \in Continuation => a > 1
        BY DEF IsText
      <4>2. QED
        BY <3>1, <4>1
    <3>2. QED
      BY <2>2, <3>1 DEF U, RuneStarts
  <2>5. RunesOf(d[i]) = CountIn(U, a, b)
    BY <1>2, <2>2, RunesCounted DEF U
  <2>6. QED
    BY <2>1, <2>3, <2>4, <2>5 DEF Chunk
<1>4. \A i \in 1..(Len(d) - 1) : i \in 1..Len(d) /\ i < Len(d)
  BY <1>1
<1>5. QED
  BY <1>1, <1>3, <1>4 DEF d

LEMMA WordChunksAreClean ==
  ASSUME NEW s, IsText(s), s # << >>, NEW size \in Nat \ {0}
  PROVE  LET d == chunkExactWords(s, size)
         IN /\ FlattenSeq(d) = s
            /\ \A i \in 1..Len(d) : d[i] # << >> /\ Head(d[i]) \notin Continuation
            /\ \A i \in 1..(Len(d) - 1) : Cardinality(WordStarts(d[i])) = size
            /\ \A i \in 1..Len(d) : Cardinality(WordStarts(d[i])) <= size
            /\ \A i \in 2..Len(d) :
                 Head(d[i]) \notin Space /\ d[i - 1][Len(d[i - 1])] \in Space
<1> DEFINE d == chunkExactWords(s, size)
           U == WordStarts(s)
<1> HIDE DEF d, U
<1>1. /\ FlattenSeq(d) = s
      /\ Len(d) \in Nat
      /\ \A k \in 1..Len(d) : \E a, b \in 1..Len(s) : Chunk(s, size, U, d, k, a, b)
  BY WordChunks DEF d, U
<1>2. s \in Seq(Alphabet) /\ Len(s) \in Nat
  BY LenProperties DEF IsText
<1>3. ASSUME NEW i \in 1..Len(d)
      PROVE  /\ d[i] # << >> /\ Head(d[i]) \notin Continuation
             /\ i < Len(d) => Cardinality(WordStarts(d[i])) = size
             /\ Cardinality(WordStarts(d[i])) <= size
             /\ i > 1 => Head(d[i]) \notin Space
             /\ i < Len(d) => d[i][Len(d[i])] \in Space
  <2>1. PICK a, b \in 1..Len(s) : Chunk(s, size, U, d, i, a, b)
    BY <1>1
  <2>2. /\ a <= b /\ d[i] = SubSeq(s, a, b) /\ (a = 1 \/ a \in U)
        /\ i > 1 => a \in U
        /\ i < Len(d) => b + 1 \in U
    BY <2>1 DEF Chunk
  <2>3. d[i] # << >> /\ Head(d[i]) = s[a] /\ d[i][Len(d[i])] = s[b]
    <3> DEFINE t == SubSeq(s, a, b)
    <3>1. t # << >> /\ Head(t) = s[a] /\ t[Len(t)] = s[b]
      BY <1>2, <2>2, Pieces
    <3> HIDE DEF t
    <3>2. d[i] = t
      BY <2>2 DEF t
    <3>3. QED
      BY <3>1, <3>2, Zenon
  <2>4. s[a] \in Continuation => a > 1 /\ s[a - 1] \notin Space
    BY DEF IsText
  <2>5. a \in U => s[a] \notin Space /\ (a = 1 \/ s[a - 1] \in Space)
    BY DEF U, WordStarts
  <2>6. b + 1 \in U => s[b] \in Space
    <3>1. b + 1 # 1 /\ (b + 1) - 1 = b
      BY <1>2
    <3>2. QED
      BY <3>1 DEF U, WordStarts
  <2>7. Cardinality(WordStarts(d[i])) = CountIn(U, a, b)
    BY <1>2, <2>2, WordsCounted DEF U
  <2>8. Head(d[i]) \notin Continuation
    <3>1. CASE a = 1
      <4>1. ~(a > 1)
        BY <3>1
      <4>2. QED
        BY <2>3, <2>4, <4>1
    <3>2. CASE a # 1
      BY <2>2, <2>3, <2>4, <2>5, <3>2, Zenon
    <3>3. QED
      BY <3>1, <3>2
  <2>9. QED
    BY <2>1, <2>2, <2>3, <2>5, <2>6, <2>7, <2>8 DEF Chunk
<1>4. \A i \in 1..(Len(d) - 1) : i \in 1..Len(d) /\ i < Len(d)
  BY <1>1
<1>5. \A i \in 2..Len(d) : i \in 1..Len(d) /\ i > 1 /\ i - 1 \in 1..Len(d) /\ i - 1 < Len(d)
  BY <1>1
<1>6. QED
  BY <1>1, <1>3, <1>4, <1>5 DEF d
-----------------------------------------------------------------------------
(***************************************************************************)
(* The request of a handler stays what it was.                             *)
(***************************************************************************)
Asked == o \in Requests

(* The request of a handler is one of those the model gives it, always. *)
LEMMA AskedHolds == Spec => []Asked
<1>1. Init => Asked
  BY DEF Init, Asked
<1>2. Asked /\ [Next]_vars => Asked'
  BY DEF Asked, vars, Next, Handler, RefuseTokens, PanicInGenerate, GenerateWords, Answer,
         CorruptChunk, Ping, GiveUp, EmitFrame, WriteRest, LoseRest, WriteDone, ClientLeaves
<1>3. QED
  BY <1>1, <1>2, PTL DEF Spec

(* Exact output of any request, of any size of chunk, is cut without loss, *)
(* between runes, into chunks of as many runes or words as asked for, and  *)
(* in words before a word and behind the blank that is there (content.go,  *)
(* chunkExact).                                                            *)
THEOREM ChunksAreAlwaysClean == Spec => []ChunksAreClean
<1>1. Asked => ChunksAreClean
  <2> SUFFICES ASSUME Asked, o.exact.given
               PROVE  ChunksAreClean
    BY DEF ChunksAreClean
  <2> DEFINE s == o.exact.text
             size == o.exact.chunking.size
             mode == o.exact.chunking.mode
             d == chunkExact(s, o.exact.chunking)
             unit(t) == IF mode = "words" THEN Cardinality(WordStarts(t)) ELSE RunesOf(t)
  <2>1. IsText(s) /\ size \in Int /\ mode \in {"whole", "words", "runes"}
    BY RequestAssumption DEF Asked
  <2>2. s \in Seq(Alphabet)
    BY <2>1 DEF IsText
  <2>3. CASE s = << >>
    <3>1. d = << >>
      BY <2>3 DEF chunkExact
    <3>2. Len(d) = 0 /\ FlattenSeq(d) = s
      BY <2>3, <3>1, FlattenNothing, EmptySeq
    <3> HIDE DEF d, s, size, mode
    <3>3. 1..Len(d) = {} /\ 1..(Len(d) - 1) = {} /\ 2..Len(d) = {} /\ Len(d) <= 1
      BY <3>2
    <3>4. QED
      BY <3>2, <3>3 DEF ChunksAreClean, d, s, size, mode
  <2>4. CASE s # << >> /\ (size <= 0 \/ mode = "whole")
    <3>1. d = <<s>>
      BY <2>1, <2>4 DEF chunkExact
    <3>2. FlattenSeq(<<s>>) = s
      <4>1. << >> \in Seq(Seq(Alphabet)) /\ Append(<< >>, s) = <<s>>
        BY EmptySeq
      <4>2. << >> \o s = s
        BY <2>2, ConcatEmptySeq
      <4>3. FlattenSeq(Append(<< >>, s)) = FlattenSeq(<< >>) \o s
        BY <2>2, <4>1, FlattenAppend
      <4>4. QED
        BY <4>1, <4>2, <4>3, FlattenNothing
    <3>3. Head(s) \notin Continuation
      <4>1. 1 \in 1..Len(s) /\ Head(s) = s[1]
        BY <2>2, <2>4, EmptySeq, LenProperties
      <4>2. s[1] \in Continuation => 1 > 1
        BY <2>1, <4>1 DEF IsText
      <4>3. QED
        BY <4>1, <4>2
    <3>4. Len(d) = 1 /\ d[1] = s
      BY <3>1
    <3>5. \A i \in 1..Len(d) : d[i] # << >> /\ Head(d[i]) \notin Continuation
      <4>1. \A i \in 1..Len(d) : d[i] = s
        BY <3>4
      <4>2. QED
        BY <2>4, <3>3, <4>1
    <3>6. FlattenSeq(d) = s /\ Len(d) <= 1 /\ ~(size > 0 /\ mode # "whole")
      BY <2>1, <2>4, <3>1, <3>2, <3>4
    <3> HIDE DEF d, s, size, mode
    <3>7. QED
      BY <3>5, <3>6 DEF ChunksAreClean, d, s, size, mode
  <2>5. CASE s # << >> /\ size > 0 /\ mode = "runes"
    <3>1. d = chunkExactRunes(s, size)
      BY <2>5 DEF chunkExact
    <3>2. size \in Nat \ {0} /\ ~(size <= 0)
      BY <2>1, <2>5
    <3> HIDE DEF d, s, size, mode
    <3>3. /\ FlattenSeq(d) = s
          /\ \A i \in 1..Len(d) : d[i] # << >> /\ Head(d[i]) \notin Continuation
          /\ \A i \in 1..(Len(d) - 1) : RunesOf(d[i]) = size
          /\ \A i \in 1..Len(d) : RunesOf(d[i]) <= size
      BY <2>1, <2>5, <3>1, <3>2, RuneChunksAreClean
    <3>4. mode # "whole" /\ mode # "words"
      BY <2>5
    <3>5. QED
      BY <3>2, <3>3, <3>4 DEF ChunksAreClean, d, s, size, mode
  <2>6. CASE s # << >> /\ size > 0 /\ mode = "words"
    <3>1. d = chunkExactWords(s, size)
      BY <2>6 DEF chunkExact
    <3>2. size \in Nat \ {0} /\ ~(size <= 0)
      BY <2>1, <2>6
    <3> HIDE DEF d, s, size, mode
    <3>3. /\ FlattenSeq(d) = s
          /\ \A i \in 1..Len(d) : d[i] # << >> /\ Head(d[i]) \notin Continuation
          /\ \A i \in 1..(Len(d) - 1) : Cardinality(WordStarts(d[i])) = size
          /\ \A i \in 1..Len(d) : Cardinality(WordStarts(d[i])) <= size
          /\ \A i \in 2..Len(d) :
               Head(d[i]) \notin Space /\ d[i - 1][Len(d[i - 1])] \in Space
      BY <2>1, <2>6, <3>1, <3>2, WordChunksAreClean
    <3>4. mode # "whole"
      BY <2>6
    <3>5. QED
      BY <2>6, <3>2, <3>3, <3>4 DEF ChunksAreClean, d, s, size, mode
  <2>7. QED
    BY <2>1, <2>3, <2>4, <2>5, <2>6
<1>2. QED
  BY <1>1, AskedHolds, PTL

(* The first n words of the vocabulary, from some word on, are n words. *)
LEMMA GeneratedCount ==
  ASSUME NEW n \in Nat, NEW offset
  PROVE  Len(generateWords(n, offset)) = n
<1> DEFINE w == generateWords(n, offset)
<1>1. DOMAIN w = 1..n
  BY DEF generateWords
<1>2. w \in Seq({w[i] : i \in 1..n})
  <2>1. w \in [1..n -> {w[i] : i \in 1..n}]
    BY DEF generateWords
  <2>2. QED
    BY <2>1, SeqDef
<1>3. QED
  BY <1>1, <1>2, LenProperties

(* Whatever count X-MockLM-Tokens or a body asks for, the words are made   *)
(* with no fewer than min_tokens, and no such count makes the handler      *)
(* panic unless min_tokens is negative; only a count nobody clamps, of the *)
(* configuration or of X-MockLM-Fault, does (tokens.go,                    *)
(* resolveTokenCount, applyFaultHeader).                                   *)
THEOREM AskedCountsAreAlwaysClamped == Spec => []AskedCountsAreClamped
<1> DEFINE Inv == Asked /\ AskedCountsAreClamped
<1>1. Init => Inv
  BY DEF Init, Asked, AskedCountsAreClamped, Resolved
<1>2. Inv /\ [Next]_vars => Inv'
  <2> SUFFICES ASSUME Asked, AskedCountsAreClamped, [Next]_vars
               PROVE  Asked' /\ AskedCountsAreClamped'
    OBVIOUS
  <2>1. {o.header.n, o.max_tokens, cfg.tokens, cfg.min_tokens} \subseteq Int
    BY RequestAssumption DEF Asked, cfg
  <2>2. o' = o => /\ cfg' = cfg
                  /\ AsksForCount' = AsksForCount
                  /\ PinsContent' = PinsContent
    BY DEF cfg, AsksForCount, PinsContent
  <2>3. CASE PanicInGenerate
    <3>1. o' = o /\ phase' = "panicked" /\ Tokens < 0
      BY <2>3 DEF PanicInGenerate
    <3>2. cfg.min_tokens < 0 \/ (cfg.tokens < 0 /\ ~AsksForCount)
      BY <2>1, <3>1 DEF Tokens, resolveTokenCount, Clamped, AsksForCount
    <3>3. QED
      BY <2>2, <3>1, <3>2 DEF Asked, AskedCountsAreClamped
  <2>4. CASE GenerateWords
    <3>1. o' = o /\ phase' # "panicked" /\ Tokens >= 0
      BY <2>4 DEF GenerateWords
    <3>2. Tokens \in Nat
      BY <2>1, <3>1 DEF Tokens, resolveTokenCount, Clamped
    <3>3. ~PinsContent => Len(words') = Tokens
      BY <2>4, <3>2, GeneratedCount DEF GenerateWords
    <3>4. AsksForCount => Tokens >= cfg.min_tokens
      BY <2>1 DEF Tokens, resolveTokenCount, Clamped, AsksForCount
    <3>5. QED
      BY <2>2, <3>1, <3>3, <3>4 DEF Asked, AskedCountsAreClamped
  <2>5. CASE Next /\ ~PanicInGenerate /\ ~GenerateWords
    <3>1. /\ o' = o /\ words' = words
          /\ phase' = "panicked" => phase = "panicked"
          /\ phase' \in {"resolve", "refused", "panicked"} \/ Resolved
      BY <2>5 DEF Next, Handler, RefuseTokens, Answer, CorruptChunk, Ping, GiveUp, EmitFrame,
           WriteRest, LoseRest, WriteDone, ClientLeaves, Resolved, Streaming, Waiting, made
    <3>2. Resolved' /\ phase' # "panicked" => Resolved /\ phase # "panicked"
      BY <2>5 DEF Next, Handler, RefuseTokens, Answer, CorruptChunk, Ping, GiveUp, EmitFrame,
           WriteRest, LoseRest, WriteDone, ClientLeaves, Resolved, Streaming, Waiting
    <3>3. QED
      BY <2>2, <3>1, <3>2 DEF Asked, AskedCountsAreClamped
  <2>6. CASE UNCHANGED vars
    BY <2>2, <2>6 DEF vars, made, Asked, AskedCountsAreClamped, Resolved
  <2>7. QED
    BY <2>3, <2>4, <2>5, <2>6
<1>3. Inv => AskedCountsAreClamped
  OBVIOUS
<1>4. QED
  BY <1>1, <1>2, <1>3, PTL DEF Spec

(* What holds of the empty sequence and of every sequence with one more    *)
(* element holds of all, T being the set of those it holds of.             *)
LEMMA Extending ==
  ASSUME NEW S, NEW T, << >> \in T,
         \A s \in Seq(S) : s \in T => \A e \in S : Append(s, e) \in T
  PROVE  \A s \in Seq(S) : s \in T
<1> SUFFICES ASSUME NEW s \in Seq(S)
             PROVE  s \in T
  OBVIOUS
<1> DEFINE L == Len(s)
           K == { k \in 0..L : SubSeq(s, 1, k) \in T }
<1>1. L \in Nat /\ L \in 0..L
  BY LenProperties
<1>2. 0 \in K
  <2>1. SubSeq(s, 1, 0) = << >>
    BY SubSeqEmpty
  <2>2. SubSeq(s, 1, 0) \in T
    BY <2>1, Zenon
  <2>4. 0 \in 0..L
    BY <1>1
  <2>3. QED
    BY <2>2, <2>4
<1>3. ASSUME NEW k \in 1..L, k - 1 \in K
      PROVE  k \in K
  <2>1. k - 1 \in 0..L /\ k \in 0..L /\ 1 \in 1..L /\ k \in 1..L
    BY <1>1
  <2>2. SubSeq(s, 1, k - 1) \in Seq(S) /\ s[k] \in S
    <3>1. \A j \in 1..(k - 1) : s[j] \in S
      BY <1>1, ElementOfSeq
    <3>2. k - 1 \in Int
      OBVIOUS
    <3>3. QED
      BY <3>1, <3>2, SubSeqProperties, ElementOfSeq
  <2>3. SubSeq(s, 1, k) = Append(SubSeq(s, 1, k - 1), s[k])
    <3>1. SubSeq(s, 1, k) = SubSeq(s, 1, k - 1) \o << s[k] >>
      BY <2>1, SubSeqRecursiveSecond
    <3>2. QED
      BY <2>2, <3>1, AppendIsConcat
  <2>4. SubSeq(s, 1, k - 1) \in T
    BY <1>3
  <2>5. Append(SubSeq(s, 1, k - 1), s[k]) \in T
    BY <2>2, <2>4
  <2>6. QED
    BY <2>1, <2>3, <2>5
<1>4. \A k \in 0..L : k \in K
  <2> HIDE DEF K, L
  <2> QED
    BY <1>1, <1>2, <1>3, Upwards
<1>5. SubSeq(s, 1, L) = s
  BY SubSeqFull
<1>6. QED
  BY <1>1, <1>4, <1>5

(* A sequence of one element. *)
LEMMA Single ==
  ASSUME NEW S, NEW e \in S
  PROVE  <<e>> \in Seq(S) /\ Len(<<e>>) = 1 /\ <<e>>[1] = e
OBVIOUS

(* A sequence of two, written in three ways. *)
LEMMA Couple ==
  ASSUME NEW x, NEW y
  PROVE  Append(<<x>>, y) = <<x, y>> /\ <<x>> \o <<y>> = <<x, y>>
<1> DEFINE S == {x, y}
           a == Append(<<x>>, y)
           b == <<x, y>>
<1>1. b \in Seq(S) /\ Len(b) = 2 /\ b[1] = x /\ b[2] = y
  OBVIOUS
<1>2. <<x>> \in Seq(S) /\ Len(<<x>>) = 1 /\ <<x>>[1] = x /\ y \in S
  OBVIOUS
<1> HIDE DEF S
<1>3. a \in Seq(S) /\ Len(a) = 2 /\ a[1] = x /\ a[2] = y
  BY <1>2, AppendProperties
<1>7. a = <<x>> \o <<y>>
  BY <1>2, AppendIsConcat
<1> HIDE DEF a, b
<1>4. \A i \in 1..2 : a[i] = b[i]
  BY <1>1, <1>3
<1>5. a = b
  BY <1>1, <1>3, <1>4, SeqEqual
<1>6. QED
  BY <1>5, <1>7 DEF a, b

(* An element in front of a sequence. *)
LEMMA Headed ==
  ASSUME NEW S, NEW b \in S, NEW t \in Seq(S)
  PROVE  LET m == <<b>> \o t
         IN /\ m \in Seq(S) /\ m # << >> /\ Len(m) = 1 + Len(t)
            /\ m[1] = b /\ Head(m) = b /\ Tail(m) = t
            /\ \A i \in 1..Len(t) : m[i + 1] = t[i]
<1> DEFINE m == <<b>> \o t
<1>1. <<b>> \in Seq(S) /\ Len(<<b>>) = 1 /\ <<b>>[1] = b /\ Len(t) \in Nat
  BY LenProperties
<1>2. /\ m \in Seq(S) /\ Len(m) = 1 + Len(t)
      /\ \A i \in 1..(1 + Len(t)) : m[i] = IF i <= 1 THEN <<b>>[i] ELSE t[i - 1]
  BY <1>1, ConcatProperties
<1> HIDE DEF m
<1>3. m # << >> /\ Head(m) = b /\ m[1] = b
  <2>1. 1 \in 1..(1 + Len(t)) /\ Len(m) # 0
    BY <1>1, <1>2
  <2>2. m[1] = b
    BY <1>1, <1>2, <2>1
  <2>3. QED
    BY <1>2, <2>1, <2>2, EmptySeq
<1>4. \A i \in 1..Len(t) : m[i + 1] = t[i]
  <2>1. \A i \in 1..Len(t) : i + 1 \in 1..(1 + Len(t)) /\ ~(i + 1 <= 1) /\ (i + 1) - 1 = i
    BY <1>1
  <2>2. QED
    BY <1>2, <2>1
<1>5. /\ Tail(m) \in Seq(S) /\ Len(Tail(m)) = Len(t)
      /\ \A i \in 1..Len(Tail(m)) : Tail(m)[i] = m[i + 1]
  BY <1>1, <1>2, <1>3, HeadTailProperties
<1>6. Tail(m) = t
  BY <1>4, <1>5, SeqEqual
<1>7. QED
  BY <1>2, <1>3, <1>4, <1>6 DEF m

(* The first element of a concatenation is that of its first part. *)
LEMMA FirstOf ==
  ASSUME NEW S, NEW x \in Seq(S), NEW y \in Seq(S), x # << >>
  PROVE  x \o y \in Seq(S) /\ x \o y # << >> /\ (x \o y)[1] = x[1]
<1> DEFINE z == x \o y
<1>1. Len(x) \in Nat \ {0} /\ Len(y) \in Nat
  BY EmptySeq, LenProperties
<1>2. /\ z \in Seq(S) /\ Len(z) = Len(x) + Len(y)
      /\ \A i \in 1..(Len(x) + Len(y)) : z[i] = IF i <= Len(x) THEN x[i] ELSE y[i - Len(x)]
  BY ConcatProperties
<1> HIDE DEF z
<1>3. 1 \in 1..(Len(x) + Len(y)) /\ 1 <= Len(x) /\ Len(z) # 0
  BY <1>1, <1>2
<1>4. z # << >>
  BY <1>3, EmptySeq
<1>5. QED
  BY <1>2, <1>3, <1>4 DEF z

(* Flattening distributes over concatenation. *)
LEMMA FlattenConcat ==
  ASSUME NEW S, NEW c \in Seq(Seq(S)), NEW d \in Seq(Seq(S))
  PROVE  FlattenSeq(c \o d) = FlattenSeq(c) \o FlattenSeq(d)
<1> DEFINE T == { x \in Seq(Seq(S)) : FlattenSeq(c \o x) = FlattenSeq(c) \o FlattenSeq(x) }
<1>1. << >> \in T
  <2>1. FlattenSeq(c) \in Seq(S)
    BY FlattenIsTyped
  <2>2. c \o << >> = c /\ FlattenSeq(c) \o << >> = FlattenSeq(c) /\ << >> \in Seq(Seq(S))
    BY <2>1, ConcatEmptySeq, EmptySeq
  <2>3. QED
    BY <2>2, FlattenNothing
<1>2. ASSUME NEW x \in Seq(Seq(S)), x \in T, NEW e \in Seq(S)
      PROVE  Append(x, e) \in T
  <2>1. /\ c \o x \in Seq(Seq(S)) /\ Append(x, e) \in Seq(Seq(S))
        /\ FlattenSeq(c) \in Seq(S) /\ FlattenSeq(x) \in Seq(S)
        /\ FlattenSeq(c \o x) = FlattenSeq(c) \o FlattenSeq(x)
    BY <1>2, ConcatProperties, AppendProperties, FlattenIsTyped
  <2>2. c \o Append(x, e) = Append(c \o x, e)
    <3>1. Append(x, e) = x \o <<e>> /\ Append(c \o x, e) = (c \o x) \o <<e>>
      BY <2>1, AppendIsConcat
    <3>2. <<e>> \in Seq(Seq(S))
      OBVIOUS
    <3>3. QED
      BY <3>1, <3>2, ConcatAssociative
  <2>3. FlattenSeq(Append(c \o x, e)) = FlattenSeq(c \o x) \o e
    BY <2>1, FlattenAppend
  <2>4. FlattenSeq(Append(x, e)) = FlattenSeq(x) \o e
    BY FlattenAppend
  <2>5. (FlattenSeq(c) \o FlattenSeq(x)) \o e = FlattenSeq(c) \o (FlattenSeq(x) \o e)
    BY <2>1, ConcatAssociative
  <2>6. QED
    BY <2>1, <2>2, <2>3, <2>4, <2>5
<1>3. \A x \in Seq(Seq(S)) : x \in T
  <2> HIDE DEF T
  <2> QED
    BY <1>1, <1>2, Extending
<1>4. QED
  BY <1>3

(* A sequence of images, one element at a time.                            *)
LEMMA FlattenOne ==
  ASSUME NEW S, NEW t \in Seq(S)
  PROVE  FlattenSeq(<<t>>) = t
<1>1. << >> \in Seq(Seq(S)) /\ Append(<< >>, t) = <<t>>
  BY EmptySeq
<1>2. FlattenSeq(Append(<< >>, t)) = FlattenSeq(<< >>) \o t
  BY <1>1, FlattenAppend
<1>3. << >> \o t = t
  BY ConcatEmptySeq
<1>4. QED
  BY <1>1, <1>2, <1>3, FlattenNothing
-----------------------------------------------------------------------------
(***************************************************************************)
(* The reader of event streams, one byte after the other.                  *)
(***************************************************************************)
Bytes ==
  Alphabet \cup
  { "nl", "cr", "\\", "n", "data:", "event:", ":", "ping", "{", "}", "text:", "full:",
    "INVALID", "[DONE]", "x",
    "message_start", "content_block_delta", "message_stop", "response.created",
    "response.output_text.delta", "response.output_text.done", "response.completed" }

Reads ==
  [line : Seq(Bytes), data : Seq(Bytes), cr : BOOLEAN, events : Seq(Seq(Bytes))]

(* The end of a line leaves the reader a reader. *)
LEMMA LinesAreTyped ==
  ASSUME NEW acc \in Reads
  PROVE  EndLine(acc) \in Reads
<1>1. /\ acc.line \in Seq(Bytes) /\ acc.data \in Seq(Bytes)
      /\ acc.events \in Seq(Seq(Bytes)) /\ << >> \in Seq(Bytes)
  BY EmptySeq DEF Reads
<1>2. Append(acc.events, acc.data) \in Seq(Seq(Bytes))
  BY <1>1, AppendProperties
<1>3. acc.line # << >> => acc.data \o Tail(acc.line) \in Seq(Bytes)
  BY <1>1, HeadTailProperties, ConcatProperties
<1>4. CASE acc.line = << >>
  BY <1>1, <1>2, <1>4 DEF EndLine, Reads
<1>5. CASE acc.line # << >>
  BY <1>1, <1>3, <1>5 DEF EndLine, Reads
<1>6. QED
  BY <1>4, <1>5

(* A byte leaves the reader a reader. *)
LEMMA ReadsAreTyped ==
  ASSUME NEW acc \in Reads, NEW b \in Bytes
  PROVE  ReadByte(acc, b) \in Reads
<1>1. EndLine(acc) \in Reads
  BY LinesAreTyped
<1>2. Append(acc.line, b) \in Seq(Bytes)
  BY AppendProperties DEF Reads
<1>3. ASSUME NEW r \in Reads, NEW c \in BOOLEAN
      PROVE  [r EXCEPT !.cr = c] \in Reads
  BY DEF Reads
<1>8. ASSUME NEW l \in Seq(Bytes)
      PROVE  [acc EXCEPT !.line = l, !.cr = FALSE] \in Reads
  BY DEF Reads
<1>4. CASE b = "nl" /\ acc.cr
  <2>1. ReadByte(acc, b) = [acc EXCEPT !.cr = FALSE]
    BY <1>4 DEF ReadByte
  <2>2. QED
    BY <1>3, <2>1
<1>5. CASE b = "cr" \/ (b = "nl" /\ ~acc.cr)
  <2>1. ReadByte(acc, b) = [EndLine(acc) EXCEPT !.cr = (b = "cr")]
    BY <1>5 DEF ReadByte
  <2>2. (b = "cr") \in BOOLEAN
    OBVIOUS
  <2>3. QED
    BY <1>1, <1>3, <2>1, <2>2
<1>6. CASE b # "cr" /\ b # "nl"
  <2>1. ReadByte(acc, b) = [acc EXCEPT !.line = Append(acc.line, b), !.cr = FALSE]
    BY <1>6 DEF ReadByte
  <2>2. QED
    BY <1>2, <1>8, <2>1
<1>7. QED
  BY <1>4, <1>5, <1>6

(* The recursion of ReadAll, as a function over the prefixes. *)
LEMMA ReadScan ==
  ASSUME NEW acc \in Reads, NEW bytes \in Seq(Bytes)
  PROVE  \E F \in [0..Len(bytes) -> Reads] :
           /\ F[0] = acc
           /\ \A i \in 1..Len(bytes) : F[i] = ReadByte(F[i - 1], bytes[i])
           /\ ReadAll(acc, bytes) = F[Len(bytes)]
<1> DEFINE L == Len(bytes)
           step == [x \in Reads \X (1..L) |-> ReadByte(x[1], bytes[x[2]])]
           Solves(f) ==
             f = [i \in 0..L |-> IF i = 0 THEN acc ELSE ReadByte(f[i - 1], bytes[i])]
<1>1. L \in Nat /\ \A i \in 1..L : bytes[i] \in Bytes
  BY LenProperties, ElementOfSeq
<1>2. step \in [Reads \X (1..L) -> Reads]
  BY <1>1, ReadsAreTyped
<1>3. PICK F \in [0..L -> Reads] : Along(F, L, acc, step)
  <2> HIDE DEF L, step
  <2> QED
    BY <1>1, <1>2, Paths
<1>4. F[0] = acc /\ \A i \in 1..L : F[i] = ReadByte(F[i - 1], bytes[i])
  <2>1. \A i \in 1..L : F[i - 1] \in Reads
    BY <1>1
  <2>2. \A i \in 1..L : step[<<F[i - 1], i>>] = ReadByte(F[i - 1], bytes[i])
    BY <2>1
  <2>3. QED
    BY <1>3, <2>2 DEF Along
<1>5. Solves(F)
  <2>1. \A i \in 0..L : i # 0 => i \in 1..L
    BY <1>1
  <2>2. \A i \in 0..L : F[i] = IF i = 0 THEN acc ELSE ReadByte(F[i - 1], bytes[i])
    BY <1>4, <2>1
  <2>3. QED
    BY <2>2
<1>6. \A G : Solves(G) => G = F
  <2> SUFFICES ASSUME NEW G, Solves(G)
               PROVE  G = F
    OBVIOUS
  <2>1. \A i \in 0..L : G[i] = IF i = 0 THEN acc ELSE ReadByte(G[i - 1], bytes[i])
    OBVIOUS
  <2> DEFINE T == { k \in 0..L : G[k] = F[k] }
  <2>2. 0 \in T
    BY <1>1, <1>4, <2>1
  <2>3. ASSUME NEW k \in 1..L, k - 1 \in T
        PROVE  k \in T
    BY <1>1, <1>4, <2>1, <2>3
  <2>4. \A k \in 0..L : k \in T
    <3> HIDE DEF T, L, Solves
    <3> QED
      BY <1>1, <2>2, <2>3, Upwards
  <2>5. G = [i \in 0..L |-> G[i]] /\ F = [i \in 0..L |-> F[i]]
    OBVIOUS
  <2>6. QED
    BY <2>4, <2>5
<1>7. (CHOOSE f : Solves(f)) = F
  <2> HIDE DEF Solves
  <2> QED
    BY <1>5, <1>6
<1>8. ReadAll(acc, bytes) = F[Len(bytes)]
  BY <1>7 DEF ReadAll
<1>9. QED
  BY <1>4, <1>8

(* Nothing read changes nothing. *)
LEMMA ReadNothing ==
  ASSUME NEW acc \in Reads
  PROVE  ReadAll(acc, << >>) = acc
<1> DEFINE none == << >>
<1>1. none \in Seq(Bytes) /\ Len(none) = 0
  BY EmptySeq
<1> HIDE DEF none
<1>2. PICK F \in [0..Len(none) -> Reads] : F[0] = acc /\ ReadAll(acc, none) = F[Len(none)]
  BY <1>1, ReadScan
<1>3. QED
  BY <1>1, <1>2 DEF none

(* Any number of bytes leaves the reader a reader. *)
LEMMA ReadAllIsTyped ==
  ASSUME NEW acc \in Reads, NEW bytes \in Seq(Bytes)
  PROVE  ReadAll(acc, bytes) \in Reads
<1>1. PICK F \in [0..Len(bytes) -> Reads] : ReadAll(acc, bytes) = F[Len(bytes)]
  BY ReadScan
<1>2. Len(bytes) \in 0..Len(bytes)
  BY LenProperties
<1>3. QED
  BY <1>1, <1>2

(* Reading one byte more is reading that byte last. *)
LEMMA ReadOneMore ==
  ASSUME NEW acc \in Reads, NEW bytes \in Seq(Bytes), NEW b \in Bytes
  PROVE  ReadAll(acc, Append(bytes, b)) = ReadByte(ReadAll(acc, bytes), b)
<1> DEFINE L == Len(bytes)
           e == Append(bytes, b)
           step == [x \in Reads \X (1..L) |-> ReadByte(x[1], bytes[x[2]])]
<1>1. /\ L \in Nat /\ e \in Seq(Bytes) /\ Len(e) = L + 1
      /\ \A k \in 1..L : e[k] = bytes[k]
      /\ e[L + 1] = b
  BY LenProperties, AppendProperties
<1>2. PICK F \in [0..L -> Reads] :
        /\ F[0] = acc
        /\ \A k \in 1..L : F[k] = ReadByte(F[k - 1], bytes[k])
        /\ ReadAll(acc, bytes) = F[L]
  BY ReadScan
<1> HIDE DEF e
<1>3. PICK G \in [0..(L + 1) -> Reads] :
        /\ G[0] = acc
        /\ \A k \in 1..(L + 1) : G[k] = ReadByte(G[k - 1], e[k])
        /\ ReadAll(acc, e) = G[L + 1]
  <2>1. PICK G \in [0..Len(e) -> Reads] :
          /\ G[0] = acc
          /\ \A k \in 1..Len(e) : G[k] = ReadByte(G[k - 1], e[k])
          /\ ReadAll(acc, e) = G[Len(e)]
    BY <1>1, ReadScan
  <2>2. QED
    BY <1>1, <2>1, Zenon
<1>4. Along(F, L, acc, step) /\ Along(G, L, acc, step)
  <2>1. \A k \in 1..L :
          /\ F[k - 1] \in Reads /\ G[k - 1] \in Reads
          /\ k \in 1..(L + 1)
    <3>1. \A k \in 1..L : k - 1 \in 0..L /\ k - 1 \in 0..(L + 1) /\ k \in 1..(L + 1)
      BY <1>1
    <3>2. QED
      BY <3>1
  <2>2. \A k \in 1..L :
          /\ step[<<F[k - 1], k>>] = ReadByte(F[k - 1], bytes[k])
          /\ step[<<G[k - 1], k>>] = ReadByte(G[k - 1], bytes[k])
    BY <2>1
  <2>3. \A k \in 1..L : /\ F[k] = ReadByte(F[k - 1], bytes[k])
                        /\ G[k] = ReadByte(G[k - 1], bytes[k])
    BY <1>1, <1>2, <1>3, <2>1
  <2>4. QED
    BY <1>2, <1>3, <2>2, <2>3 DEF Along
<1>5. F[L] = G[L]
  <2>1. ASSUME NEW f, NEW g, f = F, g = G
        PROVE  \A k \in 0..L : f[k] = g[k]
    <3>1. L \in Nat /\ Along(f, L, acc, step) /\ Along(g, L, acc, step)
      BY <1>1, <1>4, <2>1
    <3> HIDE DEF L, step
    <3>2. QED
      BY <3>1, PathsAgree
  <2>2. \A k \in 0..L : F[k] = G[k]
    BY <2>1, Zenon
  <2>3. L \in 0..L
    BY <1>1
  <2>4. QED
    BY <2>2, <2>3
<1>6. G[L + 1] = ReadByte(G[L], e[L + 1])
  <2>1. L + 1 \in 1..(L + 1) /\ (L + 1) - 1 = L
    BY <1>1
  <2>2. G[L + 1] = ReadByte(G[(L + 1) - 1], e[L + 1])
    BY <1>3, <2>1
  <2>3. QED
    BY <2>1, <2>2
<1>7. QED
  BY <1>1, <1>2, <1>3, <1>5, <1>6 DEF e

(* What is read in two parts is read one after the other: writes may cut anywhere. *)
LEMMA ReadConcat ==
  ASSUME NEW acc \in Reads, NEW x \in Seq(Bytes), NEW y \in Seq(Bytes)
  PROVE  ReadAll(acc, x \o y) = ReadAll(ReadAll(acc, x), y)
<1> DEFINE mid == ReadAll(acc, x)
           T == { z \in Seq(Bytes) : ReadAll(acc, x \o z) = ReadAll(mid, z) }
<1>1. mid \in Reads
  BY ReadAllIsTyped
<1>2. << >> \in T
  <2>1. x \o << >> = x /\ << >> \in Seq(Bytes)
    BY ConcatEmptySeq, EmptySeq
  <2>2. ReadAll(mid, << >>) = mid
    <3> HIDE DEF mid
    <3> QED
      BY <1>1, ReadNothing
  <2>3. QED
    BY <2>1, <2>2
<1>3. ASSUME NEW z \in Seq(Bytes), z \in T, NEW b \in Bytes
      PROVE  Append(z, b) \in T
  <2>1. x \o z \in Seq(Bytes) /\ Append(z, b) \in Seq(Bytes)
    BY ConcatProperties, AppendProperties
  <2>2. x \o Append(z, b) = Append(x \o z, b)
    <3>1. Append(z, b) = z \o <<b>> /\ Append(x \o z, b) = (x \o z) \o <<b>>
      BY <2>1, AppendIsConcat
    <3>2. <<b>> \in Seq(Bytes)
      BY Single
    <3>3. QED
      BY <3>1, <3>2, ConcatAssociative
  <2>3. ReadAll(acc, Append(x \o z, b)) = ReadByte(ReadAll(acc, x \o z), b)
    BY <2>1, ReadOneMore
  <2>4. ReadAll(mid, Append(z, b)) = ReadByte(ReadAll(mid, z), b)
    <3> HIDE DEF mid
    <3> QED
      BY <1>1, ReadOneMore
  <2>5. ReadAll(acc, x \o z) = ReadAll(mid, z)
    BY <1>3
  <2>6. QED
    BY <2>1, <2>2, <2>3, <2>4, <2>5
<1>4. \A z \in Seq(Bytes) : z \in T
  <2> HIDE DEF T
  <2> QED
    BY <1>2, <1>3, Extending
<1>5. QED
  BY <1>4
-----------------------------------------------------------------------------
(***************************************************************************)
(* What whole lines and frames add to what a reader between two frames has *)
(* read: Spells(x, E) when x adds the events E.                            *)
(***************************************************************************)
InLine == Bytes \ {"nl", "cr"}
Eols == { <<"nl">>, <<"cr", "nl">> }

Reading(l, d, c, A) == [line |-> l, data |-> d, cr |-> c, events |-> A]
Read(A) == Reading(<< >>, << >>, FALSE, A)

Spells(x, E) ==
  /\ x \in Seq(Bytes) /\ E \in Seq(Seq(Bytes))
  /\ \A A \in Seq(Seq(Bytes)) : ReadAll(Read(A), x) = Read(A \o E)

(* The states of a reader inside a line and between events. *)
LEMMA ReadingsAreReads ==
  ASSUME NEW l \in Seq(Bytes), NEW d \in Seq(Bytes), NEW c \in BOOLEAN,
         NEW A \in Seq(Seq(Bytes))
  PROVE  Reading(l, d, c, A) \in Reads /\ Read(A) \in Reads
<1>1. << >> \in Seq(Bytes)
  BY EmptySeq
<1>2. QED
  BY <1>1 DEF Reading, Read, Reads

(* No bytes spell no events. *)
LEMMA SpellsNothing == Spells(<< >>, << >>)
<1>1. << >> \in Seq(Bytes) /\ << >> \in Seq(Seq(Bytes))
  BY EmptySeq
<1>2. ASSUME NEW A \in Seq(Seq(Bytes))
      PROVE  ReadAll(Read(A), << >>) = Read(A \o << >>)
  <2>1. Read(A) \in Reads
    BY <1>1, ReadingsAreReads
  <2>2. ReadAll(Read(A), << >>) = Read(A)
    BY <2>1, ReadNothing
  <2>3. A \o << >> = A
    BY ConcatEmptySeq
  <2>4. QED
    BY <2>2, <2>3
<1>3. QED
  BY <1>1, <1>2 DEF Spells

(* Bytes that spell events can be put one after the other. *)
LEMMA SpellsConcat ==
  ASSUME NEW x, NEW E, NEW y, NEW F, Spells(x, E), Spells(y, F)
  PROVE  Spells(x \o y, E \o F)
<1>1. /\ x \in Seq(Bytes) /\ y \in Seq(Bytes)
      /\ E \in Seq(Seq(Bytes)) /\ F \in Seq(Seq(Bytes))
  BY DEF Spells
<1>2. x \o y \in Seq(Bytes) /\ E \o F \in Seq(Seq(Bytes))
  BY <1>1, ConcatProperties
<1>3. ASSUME NEW A \in Seq(Seq(Bytes))
      PROVE  ReadAll(Read(A), x \o y) = Read(A \o (E \o F))
  <2>1. A \o E \in Seq(Seq(Bytes)) /\ (A \o E) \o F = A \o (E \o F)
    BY <1>1, ConcatProperties, ConcatAssociative
  <2>2. << >> \in Seq(Bytes)
    BY EmptySeq
  <2>3. Read(A) \in Reads
    BY <2>2, ReadingsAreReads
  <2>4. ReadAll(Read(A), x \o y) = ReadAll(ReadAll(Read(A), x), y)
    BY <1>1, <2>3, ReadConcat
  <2>5. ReadAll(Read(A), x) = Read(A \o E)
    BY DEF Spells
  <2>6. ReadAll(Read(A \o E), y) = Read((A \o E) \o F)
    BY <2>1 DEF Spells
  <2>7. QED
    BY <2>1, <2>4, <2>5, <2>6
<1>4. QED
  BY <1>2, <1>3 DEF Spells

(* Bytes that end no line go to the line.                                  *)
LEMMA LineRead ==
  ASSUME NEW l \in Seq(Bytes), NEW d \in Seq(Bytes), NEW A \in Seq(Seq(Bytes)),
         NEW t \in Seq(InLine)
  PROVE  ReadAll(Reading(l, d, FALSE, A), t) = Reading(l \o t, d, FALSE, A)
<1> DEFINE acc == Reading(l, d, FALSE, A)
           T == { x \in Seq(InLine) : ReadAll(acc, x) = Reading(l \o x, d, FALSE, A) }
<1>1. acc \in Reads
  BY ReadingsAreReads
<1>2. << >> \in T
  <2>1. << >> \in Seq(InLine) /\ l \o << >> = l
    BY EmptySeq, ConcatEmptySeq
  <2>2. ReadAll(acc, << >>) = acc
    <3> HIDE DEF acc
    <3> QED
      BY <1>1, ReadNothing
  <2>3. QED
    BY <2>1, <2>2
<1>3. ASSUME NEW x \in Seq(InLine), x \in T, NEW b \in InLine
      PROVE  Append(x, b) \in T
  <2>0. InLine \subseteq Bytes
    BY DEF InLine
  <2>1. x \in Seq(Bytes) /\ b \in Bytes
    <3>1. x \in Seq(Bytes)
      BY <2>0, SeqMonotonic
    <3>2. QED
      BY <2>0, <3>1
  <2>2. Append(x, b) \in Seq(InLine) /\ l \o x \in Seq(Bytes)
    BY <2>1, AppendProperties, ConcatProperties
  <2>3. l \o Append(x, b) = Append(l \o x, b)
    <3>1. Append(x, b) = x \o <<b>> /\ Append(l \o x, b) = (l \o x) \o <<b>>
      BY <2>1, <2>2, AppendIsConcat
    <3>2. <<b>> \in Seq(Bytes)
      BY <2>1, Single
    <3>3. QED
      BY <2>1, <3>1, <3>2, ConcatAssociative
  <2>4. ReadAll(acc, Append(x, b)) = ReadByte(ReadAll(acc, x), b)
    <3> HIDE DEF acc
    <3> QED
      BY <1>1, <2>1, ReadOneMore
  <2>5. ReadAll(acc, x) = Reading(l \o x, d, FALSE, A)
    BY <1>3
  <2>6. ReadByte(Reading(l \o x, d, FALSE, A), b) = Reading(Append(l \o x, b), d, FALSE, A)
    <3> DEFINE m == l \o x
    <3> HIDE DEF m
    <3>1. b # "nl" /\ b # "cr"
      BY DEF InLine
    <3>2. ReadByte(Reading(m, d, FALSE, A), b) = Reading(Append(m, b), d, FALSE, A)
      BY <3>1 DEF ReadByte, Reading
    <3>3. QED
      BY <3>2 DEF m
  <2>7. QED
    BY <2>2, <2>3, <2>4, <2>5, <2>6
<1>4. \A x \in Seq(InLine) : x \in T
  <2> HIDE DEF T
  <2> QED
    BY <1>2, <1>3, Extending
<1>5. QED
  BY <1>4

(* A line ends alike, whichever the ending.                                *)
LEMMA EolRead ==
  ASSUME NEW l \in Seq(Bytes), NEW d \in Seq(Bytes), NEW A \in Seq(Seq(Bytes)),
         NEW e \in Eols
  PROVE  ReadAll(Reading(l, d, FALSE, A), e) = EndLine(Reading(l, d, FALSE, A))
<1> DEFINE acc == Reading(l, d, FALSE, A)
<1>1. acc \in Reads
  BY ReadingsAreReads
<1>2. EndLine(acc) \in Reads
  <2> HIDE DEF acc
  <2> QED
    BY <1>1, LinesAreTyped
<1>3. ~acc.cr /\ ~EndLine(acc).cr
  BY DEF Reading, EndLine
<1>4. "nl" \in Bytes /\ "cr" \in Bytes
  BY DEF Bytes
<1>5. \A b \in Bytes : ReadAll(acc, <<b>>) = ReadByte(acc, b)
  <2> SUFFICES ASSUME NEW b \in Bytes
               PROVE  ReadAll(acc, <<b>>) = ReadByte(acc, b)
    OBVIOUS
  <2> HIDE DEF acc
  <2>1. Append(<< >>, b) = <<b>>
    OBVIOUS
  <2>4. << >> \in Seq(Bytes)
    BY EmptySeq
  <2>2. ReadAll(acc, Append(<< >>, b)) = ReadByte(ReadAll(acc, << >>), b)
    BY <1>1, <2>4, ReadOneMore
  <2>3. QED
    BY <1>1, <2>1, <2>2, ReadNothing
<1> HIDE DEF acc
<1>6. ReadByte(acc, "nl") = EndLine(acc)
  <2>1. ReadByte(acc, "nl") = [EndLine(acc) EXCEPT !.cr = ("nl" = "cr")]
    BY <1>3 DEF ReadByte
  <2>2. ("nl" = "cr") = FALSE
    OBVIOUS
  <2>3. ASSUME NEW r \in Reads, ~r.cr
        PROVE  [r EXCEPT !.cr = FALSE] = r
    BY <2>3 DEF Reads
  <2>4. [EndLine(acc) EXCEPT !.cr = FALSE] = EndLine(acc)
    BY <1>2, <1>3, <2>3
  <2>5. QED
    BY <2>1, <2>2, <2>4, Zenon
<1>7. CASE e = <<"nl">>
  <2>1. ReadAll(acc, <<"nl">>) = EndLine(acc)
    BY <1>4, <1>5, <1>6, Zenon
  <2>2. QED
    BY <1>7, <2>1, Zenon DEF acc
<1>8. CASE e = <<"cr", "nl">>
  <2>1. ReadByte(acc, "cr") = [EndLine(acc) EXCEPT !.cr = TRUE]
    <3>1. ReadByte(acc, "cr") = [EndLine(acc) EXCEPT !.cr = ("cr" = "cr")]
      BY <1>3 DEF ReadByte
    <3>2. ("cr" = "cr") = TRUE
      OBVIOUS
    <3>3. QED
      BY <3>1, <3>2, Zenon
  <2>2. ASSUME NEW r \in Reads, ~r.cr
        PROVE  /\ [r EXCEPT !.cr = TRUE].cr
               /\ [[r EXCEPT !.cr = TRUE] EXCEPT !.cr = FALSE] = r
    BY <2>2 DEF Reads
  <2>3. ReadByte([EndLine(acc) EXCEPT !.cr = TRUE], "nl") = EndLine(acc)
    <3>1. /\ [EndLine(acc) EXCEPT !.cr = TRUE].cr
          /\ [[EndLine(acc) EXCEPT !.cr = TRUE] EXCEPT !.cr = FALSE] = EndLine(acc)
      BY <1>2, <1>3, <2>2
    <3> DEFINE m == [EndLine(acc) EXCEPT !.cr = TRUE]
    <3> HIDE DEF m
    <3>2. m.cr => ReadByte(m, "nl") = [m EXCEPT !.cr = FALSE]
      BY DEF ReadByte
    <3>3. QED
      BY <3>1, <3>2 DEF m
  <2>4. <<"cr">> \in Seq(Bytes)
    BY <1>4, Single
  <2>9. Append(<<"cr">>, "nl") = <<"cr", "nl">>
    BY Couple
  <2>5. ReadAll(acc, Append(<<"cr">>, "nl")) = ReadByte(ReadAll(acc, <<"cr">>), "nl")
    BY <1>1, <1>4, <2>4, ReadOneMore
  <2>6. ReadAll(acc, <<"cr">>) = [EndLine(acc) EXCEPT !.cr = TRUE]
    BY <1>4, <1>5, <2>1, Zenon
  <2>8. ReadAll(acc, <<"cr", "nl">>) = EndLine(acc)
    BY <2>3, <2>5, <2>6, <2>9, Zenon
  <2>7. QED
    BY <1>8, <2>8, Zenon DEF acc
<1>9. QED
  BY <1>7, <1>8 DEF Eols, acc

(* Both ends of a line are bytes, and not empty. *)
LEMMA EolsAreBytes ==
  ASSUME NEW e \in Eols
  PROVE  e \in Seq(Bytes) /\ e # << >>
<1>1. \A x, y \in Bytes : <<x>> \in Seq(Bytes) /\ <<x, y>> \in Seq(Bytes)
  OBVIOUS
<1>2. "nl" \in Bytes /\ "cr" \in Bytes
  BY DEF Bytes
<1>3. <<"nl">> \in Seq(Bytes) /\ <<"cr", "nl">> \in Seq(Bytes)
  BY <1>1, <1>2, Zenon
<1>4. \A x, y : <<x>> # << >> /\ <<x, y>> # << >>
  OBVIOUS
<1>5. QED
  BY <1>3, <1>4, Zenon DEF Eols

(* What may be inside a line is bytes. *)
LEMMA InLineIsBytes ==
  ASSUME NEW t \in Seq(InLine)
  PROVE  t \in Seq(Bytes)
<1>1. InLine \subseteq Bytes
  BY DEF InLine
<1>2. QED
  BY <1>1, SeqMonotonic

(* A blank line with nothing before it adds nothing.                       *)
LEMMA BlankLine ==
  ASSUME NEW e \in Eols
  PROVE  Spells(e, << >>)
<1>1. e \in Seq(Bytes) /\ << >> \in Seq(Bytes) /\ << >> \in Seq(Seq(Bytes))
  BY EolsAreBytes, EmptySeq
<1>2. ASSUME NEW A \in Seq(Seq(Bytes))
      PROVE  ReadAll(Read(A), e) = Read(A \o << >>)
  <2>1. ReadAll(Read(A), e) = EndLine(Read(A))
    BY <1>1, EolRead DEF Read
  <2>2. EndLine(Read(A)) = Read(A)
    BY DEF EndLine, Read, Reading
  <2>3. A \o << >> = A
    BY ConcatEmptySeq
  <2>4. QED
    BY <2>1, <2>2, <2>3
<1>3. QED
  BY <1>1, <1>2 DEF Spells

(* A line and its end, LF or CRLF, are read as that line. *)
LEMMA LineEnds ==
  ASSUME NEW l \in Seq(InLine), NEW e \in Eols, NEW A \in Seq(Seq(Bytes))
  PROVE  /\ l \o e \in Seq(Bytes)
         /\ ReadAll(Read(A), l \o e) = EndLine(Reading(l, << >>, FALSE, A))
<1>1. l \in Seq(Bytes) /\ e \in Seq(Bytes) /\ << >> \in Seq(Bytes)
  BY EolsAreBytes, InLineIsBytes, EmptySeq
<1>2. Read(A) \in Reads
  BY <1>1, ReadingsAreReads
<1>3. ReadAll(Read(A), l) = Reading(<< >> \o l, << >>, FALSE, A)
  BY <1>1, LineRead DEF Read
<1>4. << >> \o l = l
  BY <1>1, ConcatEmptySeq
<1>5. ReadAll(Reading(l, << >>, FALSE, A), e) = EndLine(Reading(l, << >>, FALSE, A))
  BY <1>1, EolRead
<1>6. ReadAll(Read(A), l \o e) = ReadAll(ReadAll(Read(A), l), e)
  BY <1>1, <1>2, ReadConcat
<1>7. QED
  BY <1>1, <1>3, <1>4, <1>5, <1>6, ConcatProperties

(* A line that is no data line, a comment or the name of an event.         *)
LEMMA OtherLine ==
  ASSUME NEW l \in Seq(InLine), NEW e \in Eols, l # << >>, Head(l) # "data:"
  PROVE  Spells(l \o e, << >>)
<1>1. l \in Seq(Bytes) /\ e \in Seq(Bytes) /\ << >> \in Seq(Bytes) /\ << >> \in Seq(Seq(Bytes))
  BY EolsAreBytes, InLineIsBytes, EmptySeq
<1>2. l \o e \in Seq(Bytes)
  BY <1>1, ConcatProperties
<1>3. ASSUME NEW A \in Seq(Seq(Bytes))
      PROVE  ReadAll(Read(A), l \o e) = Read(A \o << >>)
  <2>1. ReadAll(Read(A), l \o e) = EndLine(Reading(l, << >>, FALSE, A))
    BY LineEnds
  <2>2. EndLine(Reading(l, << >>, FALSE, A)) = Read(A)
    BY DEF EndLine, Read, Reading
  <2>3. A \o << >> = A
    BY ConcatEmptySeq
  <2>4. QED
    BY <2>1, <2>2, <2>3
<1>4. QED
  BY <1>1, <1>2, <1>3 DEF Spells

(* A data line and the blank line behind it are one event.                 *)
LEMMA DataSpells ==
  ASSUME NEW t \in Seq(InLine), NEW e \in Eols, t # << >>
  PROVE  Spells(Data(t, e), <<t>>)
<1> DEFINE l == <<"data:">> \o t
<1>1. "data:" \in InLine /\ t \in Seq(Bytes) /\ e \in Seq(Bytes)
  BY EolsAreBytes, InLineIsBytes DEF InLine, Bytes
<1>2. l \in Seq(InLine) /\ l # << >> /\ Head(l) = "data:" /\ Tail(l) = t
  <2>1. \A b \in InLine : /\ <<b>> \o t \in Seq(InLine) /\ <<b>> \o t # << >>
                          /\ Head(<<b>> \o t) = b /\ Tail(<<b>> \o t) = t
    BY Headed
  <2>2. QED
    BY <1>1, <2>1, Zenon
<1>3. Data(t, e) = (l \o e) \o e
  BY DEF Data
<1> HIDE DEF l
<1>4. l \o e \in Seq(Bytes) /\ l \in Seq(Bytes)
  <2>1. l \in Seq(Bytes)
    BY <1>2, InLineIsBytes
  <2>2. QED
    BY <1>1, <2>1, ConcatProperties
<1>5. << >> \in Seq(Bytes) /\ <<t>> \in Seq(Seq(Bytes)) /\ (l \o e) \o e \in Seq(Bytes)
  BY <1>1, <1>4, EmptySeq, Single, ConcatProperties
<1>6. ASSUME NEW A \in Seq(Seq(Bytes))
      PROVE  ReadAll(Read(A), (l \o e) \o e) = Read(A \o <<t>>)
  <2>1. ReadAll(Read(A), l \o e) = EndLine(Reading(l, << >>, FALSE, A))
    BY <1>2, LineEnds
  <2>2. EndLine(Reading(l, << >>, FALSE, A)) = Reading(<< >>, t, FALSE, A)
    <3>1. << >> \o t = t
      BY <1>1, ConcatEmptySeq
    <3>2. EndLine(Reading(l, << >>, FALSE, A)) = Reading(<< >>, << >> \o Tail(l), FALSE, A)
      BY <1>2 DEF EndLine, Reading
    <3>3. QED
      BY <1>2, <3>1, <3>2
  <2>3. ReadAll(Reading(<< >>, t, FALSE, A), e) = EndLine(Reading(<< >>, t, FALSE, A))
    BY <1>1, <1>5, EolRead
  <2>4. EndLine(Reading(<< >>, t, FALSE, A)) = Read(Append(A, t))
    BY DEF EndLine, Read, Reading
  <2>5. Append(A, t) = A \o <<t>>
    BY <1>1, AppendIsConcat
  <2>6. ReadAll(Read(A), (l \o e) \o e) = ReadAll(ReadAll(Read(A), l \o e), e)
    <3>1. Read(A) \in Reads
      BY <1>5, ReadingsAreReads
    <3>2. QED
      BY <1>1, <1>4, <3>1, ReadConcat
  <2>7. QED
    BY <2>1, <2>2, <2>3, <2>4, <2>5, <2>6
<1>7. QED
  BY <1>3, <1>5, <1>6 DEF Spells

(* An event with a name spells its data. *)
LEMMA EventSpells ==
  ASSUME NEW n \in Seq(InLine), NEW t \in Seq(InLine), t # << >>
  PROVE  Spells(Event(n, t), <<t>>)
<1> DEFINE l == <<"event:">> \o n
<1>1. eol \in Eols
  BY DEF eol, Eols
<1>2. l \in Seq(InLine) /\ l # << >> /\ Head(l) = "event:"
  <2>1. \A b \in InLine : /\ <<b>> \o n \in Seq(InLine) /\ <<b>> \o n # << >>
                          /\ Head(<<b>> \o n) = b
    BY Headed
  <2>2. "event:" \in InLine
    BY DEF InLine, Bytes
  <2>3. QED
    BY <2>1, <2>2, Zenon
<1>3. Event(n, t) = (l \o eol) \o Data(t, eol)
  <2>1. Event(n, t) = <<"event:">> \o n \o eol \o Data(t, eol)
    BY DEF Event
  <2>2. QED
    BY <2>1
<1> HIDE DEF l
<1>4. Spells(l \o eol, << >>)
  <2>1. Head(l) # "data:"
    BY <1>2
  <2>2. QED
    BY <1>1, <1>2, <2>1, OtherLine
<1>5. Spells(Data(t, eol), <<t>>)
  BY <1>1, DataSpells
<1>6. << >> \o <<t>> = <<t>>
  OBVIOUS
<1>7. QED
  BY <1>3, <1>4, <1>5, <1>6, SpellsConcat

PingFrame == <<":", "ping">> \o eol \o eol

(* A ping spells no event. *)
LEMMA PingSpells == Spells(PingFrame, << >>)
<1> DEFINE l == <<":", "ping">>
<1>1. eol \in Eols
  BY DEF eol, Eols
<1>2. l \in Seq(InLine) /\ l # << >> /\ Head(l) # "data:"
  <2>1. ":" \in InLine /\ "ping" \in InLine
    BY DEF InLine, Bytes
  <2>2. \A x, y \in InLine : <<x, y>> \in Seq(InLine) /\ <<x, y>> # << >> /\ Head(<<x, y>>) = x
    OBVIOUS
  <2>3. l \in Seq(InLine) /\ l # << >> /\ Head(l) = ":"
    BY <2>1, <2>2, Zenon
  <2>4. QED
    BY <2>3
<1>3. PingFrame = (l \o eol) \o eol
  BY DEF PingFrame
<1> HIDE DEF l
<1>4. Spells(l \o eol, << >>) /\ Spells(eol, << >>)
  BY <1>1, <1>2, OtherLine, BlankLine
<1>5. << >> \o << >> = << >>
  OBVIOUS
<1>6. QED
  BY <1>3, <1>4, <1>5, SpellsConcat

(* More bytes only add to the events read.                                 *)
LEMMA LineAdds ==
  ASSUME NEW acc \in Reads, NEW b \in Bytes
  PROVE  \E D \in Seq(Seq(Bytes)) : ReadByte(acc, b).events = acc.events \o D
<1>1. acc.events \in Seq(Seq(Bytes)) /\ acc.data \in Seq(Bytes) /\ << >> \in Seq(Seq(Bytes))
  BY EmptySeq DEF Reads
<1>2. acc.events \o << >> = acc.events
  BY <1>1, ConcatEmptySeq
<1>3. Append(acc.events, acc.data) = acc.events \o <<acc.data>> /\ <<acc.data>> \in Seq(Seq(Bytes))
  BY <1>1, AppendIsConcat, Single
<1>4. EndLine(acc).events \in {acc.events, Append(acc.events, acc.data)}
  BY DEF EndLine, Reads
<1>5. ReadByte(acc, b).events \in {acc.events, EndLine(acc).events}
  <2>1. EndLine(acc) \in Reads
    BY LinesAreTyped
  <2>2. \A r \in Reads : \A l, c : /\ [r EXCEPT !.cr = c].events = r.events
                                   /\ [r EXCEPT !.line = l, !.cr = c].events = r.events
    BY DEF Reads
  <2>3. QED
    BY <2>1, <2>2 DEF ReadByte
<1>6. QED
  BY <1>1, <1>2, <1>3, <1>4, <1>5

(* A reader takes no event back. *)
LEMMA ReadAdds ==
  ASSUME NEW acc \in Reads, NEW y \in Seq(Bytes)
  PROVE  \E D \in Seq(Seq(Bytes)) : ReadAll(acc, y).events = acc.events \o D
<1> DEFINE Adds(z) == \E D \in Seq(Seq(Bytes)) : ReadAll(acc, z).events = acc.events \o D
           T == { z \in Seq(Bytes) : Adds(z) }
<1>0. acc.events \in Seq(Seq(Bytes))
  BY DEF Reads
<1>1. << >> \in T
  <2>1. << >> \in Seq(Bytes) /\ << >> \in Seq(Seq(Bytes)) /\ acc.events \o << >> = acc.events
    BY <1>0, EmptySeq, ConcatEmptySeq
  <2>2. ReadAll(acc, << >>) = acc
    BY ReadNothing
  <2>3. QED
    BY <2>1, <2>2
<1>2. ASSUME NEW z \in Seq(Bytes), z \in T, NEW b \in Bytes
      PROVE  Append(z, b) \in T
  <2>1. PICK D \in Seq(Seq(Bytes)) : ReadAll(acc, z).events = acc.events \o D
    BY <1>2
  <2>2. ReadAll(acc, z) \in Reads
    BY ReadAllIsTyped
  <2>3. PICK E \in Seq(Seq(Bytes)) :
          ReadByte(ReadAll(acc, z), b).events = ReadAll(acc, z).events \o E
    BY <2>2, LineAdds
  <2>4. (acc.events \o D) \o E = acc.events \o (D \o E)
    <3> DEFINE e == acc.events
    <3>1. e \in Seq(Seq(Bytes))
      BY <1>0
    <3> HIDE DEF e
    <3>2. (e \o D) \o E = e \o (D \o E)
      BY <3>1, ConcatAssociative
    <3>3. QED
      BY <3>2 DEF e
  <2>8. D \o E \in Seq(Seq(Bytes))
    BY ConcatProperties
  <2>5. ReadAll(acc, Append(z, b)) = ReadByte(ReadAll(acc, z), b)
    BY ReadOneMore
  <2>6. Append(z, b) \in Seq(Bytes)
    BY AppendProperties
  <2>7. QED
    BY <2>1, <2>3, <2>4, <2>5, <2>6, <2>8
<1>3. \A z \in Seq(Bytes) : z \in T
  <2> HIDE DEF T
  <2> QED
    BY <1>1, <1>2, Extending
<1>4. QED
  BY <1>3

PartOf(r, W) == r \in Seq(Seq(Bytes)) /\ \E D \in Seq(Seq(Bytes)) : W = r \o D

(* Of bytes that spell W with others behind them, the first events of W are read. *)
LEMMA PartRead ==
  ASSUME NEW x \in Seq(Bytes), NEW y \in Seq(Bytes), NEW W, Spells(x \o y, W)
  PROVE  PartOf(Events(x), W)
<1>1. W \in Seq(Seq(Bytes)) /\ << >> \in Seq(Seq(Bytes)) /\ << >> \in Seq(Bytes)
  BY EmptySeq DEF Spells
<1>2. Unread = Read(<< >>)
  BY DEF Unread, Read, Reading
<1>3. Unread \in Reads
  BY <1>1, <1>2, ReadingsAreReads
<1>4. ReadAll(Unread, x) \in Reads
  BY <1>3, ReadAllIsTyped
<1>5. ReadAll(Unread, x \o y) = ReadAll(ReadAll(Unread, x), y)
  BY <1>3, ReadConcat
<1>6. ReadAll(Unread, x \o y) = Read(W)
  <2>1. << >> \o W = W
    BY <1>1, ConcatEmptySeq
  <2>2. ReadAll(Read(<< >>), x \o y) = Read(<< >> \o W)
    BY <1>1 DEF Spells
  <2>3. QED
    BY <1>2, <2>1, <2>2
<1>7. PICK D \in Seq(Seq(Bytes)) :
        ReadAll(ReadAll(Unread, x), y).events = ReadAll(Unread, x).events \o D
  BY <1>4, ReadAdds
<1>8. Read(W).events = W
  BY DEF Read, Reading
<1>9. W = Events(x) \o D /\ Events(x) \in Seq(Seq(Bytes))
  BY <1>4, <1>5, <1>6, <1>7, <1>8 DEF Events, Reads
<1>10. QED
  BY <1>9 DEF PartOf

(* Of bytes that spell W, W is read. *)
LEMMA AllRead ==
  ASSUME NEW x, NEW W, Spells(x, W)
  PROVE  Events(x) = W
<1>1. x \in Seq(Bytes) /\ W \in Seq(Seq(Bytes)) /\ << >> \in Seq(Seq(Bytes))
  BY EmptySeq DEF Spells
<1>2. ReadAll(Read(<< >>), x) = Read(<< >> \o W) /\ << >> \o W = W
  BY <1>1, ConcatEmptySeq DEF Spells
<1>3. Unread = Read(<< >>) /\ Read(W).events = W
  BY DEF Unread, Read, Reading
<1>4. QED
  BY <1>2, <1>3 DEF Events

(* No bytes spell nothing else. *)
LEMMA NothingSpelled ==
  ASSUME NEW W, Spells(<< >>, W)
  PROVE  W = << >>
<1>1. Spells(<< >>, << >>)
  BY SpellsNothing
<1>2. QED
  BY <1>1, AllRead
-----------------------------------------------------------------------------
(***************************************************************************)
(* The frames of a stream: a line, and more.                               *)
(***************************************************************************)
OneLine(w) == \A i \in 2..Len(w) : w[i] # "data:"

IsFrame(f, E) ==
  /\ Spells(f, E)
  /\ f[1] \notin Continuation
  /\ \E l \in Seq(InLine), m \in Seq(Bytes) :
       /\ l # << >> /\ m # << >> /\ f = (l \o eol) \o m
       /\ OneLine(l) /\ OneLine(m)

(* First is the least element. *)
LEMMA FirstIsLeast ==
  ASSUME NEW S, S \subseteq Nat, S # {}
  PROVE  First(S) \in S /\ \A j \in S : First(S) <= j
<1>1. \E i \in S : \A j \in S : i <= j
  BY Least
<1>2. QED
  BY <1>1 DEF First

(* The first line of a frame ends where its first line ending does.        *)
LEMMA FirstLine ==
  ASSUME NEW l \in Seq(InLine), NEW m \in Seq(Bytes), m # << >>, l # << >>,
         OneLine(l), OneLine(m)
  PROVE  LET f == (l \o eol) \o m
             end == First({i \in 1..Len(f) : f[i] = eol[1]}) + Len(eol) - 1
         IN /\ f \in Seq(Bytes) /\ end \in Nat \ {0} /\ end < Len(f)
            /\ OneLine(SubSeq(f, 1, end)) /\ OneLine(SubSeq(f, end + 1, Len(f)))
<1> DEFINE h == l \o eol
           f == h \o m
           S == {i \in 1..Len(f) : f[i] = eol[1]}
           end == First(S) + Len(eol) - 1
<1>1. eol \in Eols /\ eol \in Seq(Bytes) /\ eol # << >> /\ l \in Seq(Bytes)
  BY EolsAreBytes, InLineIsBytes DEF eol, Eols
<1>2. /\ eol[1] \in {"nl", "cr"} /\ Len(eol) \in 1..2
      /\ \A i \in 1..Len(eol) : eol[i] \in {"nl", "cr"}
  <2>1. \A x, y : /\ Len(<<x>>) = 1 /\ <<x>>[1] = x /\ Len(<<x, y>>) = 2
                  /\ <<x, y>>[1] = x /\ <<x, y>>[2] = y
    OBVIOUS
  <2>2. CASE eol = <<"nl">>
    <3>1. Len(eol) = 1 /\ eol[1] = "nl"
      BY <2>1, <2>2, Zenon
    <3>2. QED
      BY <3>1
  <2>3. CASE eol = <<"cr", "nl">>
    <3>1. Len(eol) = 2 /\ eol[1] = "cr" /\ eol[2] = "nl"
      BY <2>1, <2>3, Zenon
    <3>2. QED
      BY <3>1
  <2>4. QED
    BY <1>1, <2>2, <2>3 DEF Eols
<1>3. /\ h \in Seq(Bytes) /\ Len(h) = Len(l) + Len(eol)
      /\ \A i \in 1..(Len(l) + Len(eol)) :
           h[i] = IF i <= Len(l) THEN l[i] ELSE eol[i - Len(l)]
  BY <1>1, ConcatProperties
<1> HIDE DEF h
<1>4. /\ f \in Seq(Bytes) /\ Len(f) = Len(h) + Len(m)
      /\ \A i \in 1..(Len(h) + Len(m)) : f[i] = IF i <= Len(h) THEN h[i] ELSE m[i - Len(h)]
  <2>1. h \in Seq(Bytes)
    BY <1>3
  <2>2. QED
    BY <2>1, ConcatProperties
<1>5. Len(l) \in Nat \ {0} /\ Len(m) \in Nat \ {0} /\ Len(eol) \in Nat \ {0}
  BY <1>1, <1>2, EmptySeq
<1> HIDE DEF f
<1>6. Len(l) + 1 \in S /\ \A i \in S : Len(l) + 1 <= i
  <2>1. Len(l) + 1 \in 1..Len(f) /\ f[Len(l) + 1] = eol[1]
    <3>1. /\ Len(l) + 1 \in 1..(Len(h) + Len(m)) /\ Len(l) + 1 <= Len(h)
          /\ Len(l) + 1 \in 1..(Len(l) + Len(eol)) /\ ~(Len(l) + 1 <= Len(l))
          /\ (Len(l) + 1) - Len(l) = 1
      BY <1>3, <1>5
    <3>2. f[Len(l) + 1] = h[Len(l) + 1] /\ h[Len(l) + 1] = eol[1]
      BY <1>3, <1>4, <3>1
    <3>3. QED
      BY <1>4, <3>1, <3>2
  <2>2. ASSUME NEW i \in 1..Len(l)
        PROVE  f[i] # eol[1]
    <3>1. /\ i \in 1..(Len(h) + Len(m)) /\ i <= Len(h)
          /\ i \in 1..(Len(l) + Len(eol)) /\ i <= Len(l)
      BY <1>3, <1>5
    <3>2. f[i] = l[i] /\ l[i] \in InLine
      BY <1>3, <1>4, <3>1, ElementOfSeq
    <3>3. QED
      BY <1>2, <3>2 DEF InLine
  <2>3. QED
    BY <1>5, <2>1, <2>2
<1>7. First(S) = Len(l) + 1
  <2>1. S \subseteq Nat /\ S # {}
    BY <1>6
  <2> HIDE DEF S
  <2>2. First(S) \in S /\ \A j \in S : First(S) <= j
    BY <2>1, FirstIsLeast
  <2>3. First(S) \in Nat
    BY <2>1, <2>2
  <2>4. First(S) <= Len(l) + 1 /\ Len(l) + 1 <= First(S)
    BY <1>6, <2>2
  <2>5. QED
    BY <1>5, <2>3, <2>4
<1>8. end = Len(h) /\ Len(h) \in Nat \ {0} /\ Len(h) < Len(f)
  BY <1>3, <1>4, <1>5, <1>7
<1> HIDE DEF end, S
<1>9. OneLine(SubSeq(f, 1, Len(h)))
  <2>1. \A i \in 1..Len(h) : f[i] \in Bytes
    BY <1>4, <1>8, ElementOfSeq
  <2>2. /\ Len(SubSeq(f, 1, Len(h))) = Len(h)
        /\ \A i \in 1..Len(h) : SubSeq(f, 1, Len(h))[i] = f[i]
    BY <1>8
  <2>3. ASSUME NEW i \in 2..Len(h)
        PROVE  f[i] # "data:"
    <3>1. i \in 1..(Len(h) + Len(m)) /\ i <= Len(h) /\ i \in 1..(Len(l) + Len(eol))
      BY <1>3, <1>5
    <3>2. f[i] = IF i <= Len(l) THEN l[i] ELSE eol[i - Len(l)]
      BY <1>3, <1>4, <3>1
    <3>3. CASE i <= Len(l)
      <4>1. i \in 2..Len(l)
        BY <1>5, <3>3
      <4>2. QED
        BY <3>2, <3>3, <4>1 DEF OneLine
    <3>4. CASE ~(i <= Len(l))
      <4>1. i - Len(l) \in 1..Len(eol)
        BY <1>3, <1>5, <3>4
      <4>2. f[i] \in {"nl", "cr"}
        BY <1>2, <3>2, <3>4, <4>1
      <4>3. QED
        BY <4>2
    <3>5. QED
      BY <3>3, <3>4
  <2>4. \A i \in 2..Len(h) : i \in 1..Len(h)
    BY <1>8
  <2>5. QED
    BY <2>2, <2>3, <2>4 DEF OneLine
<1>10. OneLine(SubSeq(f, Len(h) + 1, Len(f)))
  <2>1. /\ Len(SubSeq(f, Len(h) + 1, Len(f))) = Len(m)
        /\ \A i \in 1..Len(m) : SubSeq(f, Len(h) + 1, Len(f))[i] = f[Len(h) + 1 + i - 1]
    <3>1. \A i \in (Len(h) + 1)..Len(f) : f[i] \in Bytes
      <4>1. \A i \in (Len(h) + 1)..Len(f) : i \in 1..Len(f)
        BY <1>8
      <4>2. QED
        BY <1>4, <4>1, ElementOfSeq
    <3>2. Len(h) + 1 \in Int /\ Len(f) \in Int /\ Len(h) + 1 <= Len(f)
          /\ Len(f) - (Len(h) + 1) + 1 = Len(m)
      BY <1>4, <1>5, <1>8
    <3> DEFINE a == Len(h) + 1
               b == Len(f)
    <3>3. /\ Len(SubSeq(f, a, b)) = IF a <= b THEN b - a + 1 ELSE 0
          /\ \A i \in 1..(b - a + 1) : SubSeq(f, a, b)[i] = f[a + i - 1]
      <4>1. a \in Int /\ b \in Int /\ \A i \in a..b : f[i] \in Bytes
        BY <3>1, <3>2
      <4> HIDE DEF a, b
      <4>2. QED
        BY <4>1, SubSeqProperties
    <3>4. QED
      BY <3>2, <3>3
  <2>2. ASSUME NEW i \in 1..Len(m)
        PROVE  f[Len(h) + 1 + i - 1] = m[i]
    <3>1. /\ Len(h) + 1 + i - 1 \in 1..(Len(h) + Len(m)) /\ ~(Len(h) + 1 + i - 1 <= Len(h))
          /\ (Len(h) + 1 + i - 1) - Len(h) = i
      BY <1>5, <1>8
    <3>2. QED
      BY <1>4, <3>1
  <2>3. \A i \in 2..Len(m) : i \in 1..Len(m)
    BY <1>5
  <2>4. QED
    BY <2>1, <2>2, <2>3 DEF OneLine
<1>11. QED
  BY <1>4, <1>8, <1>9, <1>10 DEF f, h, end, S

Inner == InLine \ {"data:"}

(* The line end of the writer is one of the two a reader accepts. *)
LEMMA EolLines ==
  /\ eol \in Eols /\ eol \in Seq(Bytes) /\ eol # << >>
  /\ \A i \in 1..Len(eol) : eol[i] \in {"nl", "cr"}
<1>1. eol \in Eols
  BY DEF eol, Eols
<1>2. \A x, y : /\ Len(<<x>>) = 1 /\ <<x>>[1] = x /\ Len(<<x, y>>) = 2
                /\ <<x, y>>[1] = x /\ <<x, y>>[2] = y
  OBVIOUS
<1>3. CASE eol = <<"nl">>
  <2>1. Len(eol) = 1 /\ eol[1] = "nl"
    BY <1>2, <1>3, Zenon
  <2>2. QED
    BY <1>1, <2>1, EolsAreBytes
<1>4. CASE eol = <<"cr", "nl">>
  <2>1. Len(eol) = 2 /\ eol[1] = "cr" /\ eol[2] = "nl"
    BY <1>2, <1>4, Zenon
  <2>2. \A i \in 1..2 : i = 1 \/ i = 2
    OBVIOUS
  <2>3. QED
    BY <1>1, <2>1, <2>2, EolsAreBytes
<1>5. QED
  BY <1>1, <1>3, <1>4 DEF Eols

(* No byte of a joined pair is a data field if none of the two holds one.  *)
LEMMA OneLineHeaded ==
  ASSUME NEW b \in Bytes, NEW t \in Seq(Bytes), \A i \in 1..Len(t) : t[i] # "data:"
  PROVE  OneLine(<<b>> \o t)
<1> DEFINE m == <<b>> \o t
<1>1. Len(t) \in Nat /\ Len(m) = 1 + Len(t) /\ \A i \in 1..Len(t) : m[i + 1] = t[i]
  BY Headed, LenProperties
<1> HIDE DEF m
<1>2. ASSUME NEW i \in 2..Len(m)
      PROVE  m[i] # "data:"
  <2>1. i - 1 \in 1..Len(t) /\ (i - 1) + 1 = i
    BY <1>1
  <2>2. QED
    BY <1>1, <2>1
<1>3. QED
  BY <1>2 DEF OneLine, m

(* Two texts without a line of data, joined, have none. *)
LEMMA Purely ==
  ASSUME NEW x \in Seq(Bytes), NEW y \in Seq(Bytes),
         \A i \in 1..Len(x) : x[i] # "data:", \A i \in 1..Len(y) : y[i] # "data:"
  PROVE  x \o y \in Seq(Bytes) /\ \A i \in 1..Len(x \o y) : (x \o y)[i] # "data:"
<1> DEFINE z == x \o y
<1>1. /\ z \in Seq(Bytes) /\ Len(z) = Len(x) + Len(y)
      /\ \A i \in 1..(Len(x) + Len(y)) : z[i] = IF i <= Len(x) THEN x[i] ELSE y[i - Len(x)]
      /\ Len(x) \in Nat /\ Len(y) \in Nat
  BY ConcatProperties, LenProperties
<1> HIDE DEF z
<1>2. ASSUME NEW i \in 1..Len(z)
      PROVE  z[i] # "data:"
  <2>1. i \in 1..(Len(x) + Len(y)) /\ (i <= Len(x) => i \in 1..Len(x))
        /\ (~(i <= Len(x)) => i - Len(x) \in 1..Len(y))
    BY <1>1
  <2>2. QED
    BY <1>1, <2>1
<1>3. QED
  BY <1>1, <1>2 DEF z

(* A payload is inside a line and holds no second one. *)
LEMMA InnerIsPure ==
  ASSUME NEW t \in Seq(Inner)
  PROVE  /\ t \in Seq(InLine) /\ t \in Seq(Bytes)
         /\ \A i \in 1..Len(t) : t[i] # "data:"
<1>1. t \in Seq(InLine)
  <2>1. Inner \subseteq InLine
    BY DEF Inner
  <2>2. QED
    BY <2>1, SeqMonotonic
<1>2. \A i \in 1..Len(t) : t[i] # "data:"
  BY ElementOfSeq DEF Inner
<1>3. QED
  BY <1>1, <1>2, InLineIsBytes

(* A frame of data has one line of data, at its front. *)
LEMMA DataIsOneLine ==
  ASSUME NEW t \in Seq(Inner), NEW e \in Seq(Bytes), \A i \in 1..Len(e) : e[i] # "data:"
  PROVE  OneLine(Data(t, e)) /\ Data(t, e)[1] = "data:"
<1> DEFINE v == (t \o e) \o e
<1>1. t \in Seq(Bytes) /\ \A i \in 1..Len(t) : t[i] # "data:"
  BY InnerIsPure
<1>2. "data:" \in Bytes
  BY DEF Bytes
<1>3. \A b \in Bytes : ((<<b>> \o t) \o e) \o e = <<b>> \o v
  <2> SUFFICES ASSUME NEW b \in Bytes
               PROVE  ((<<b>> \o t) \o e) \o e = <<b>> \o ((t \o e) \o e)
    OBVIOUS
  <2>1. <<b>> \in Seq(Bytes) /\ <<b>> \o t \in Seq(Bytes) /\ t \o e \in Seq(Bytes)
    BY <1>1, Single, ConcatProperties
  <2>2. (<<b>> \o t) \o e = <<b>> \o (t \o e)
    BY <1>1, <2>1, ConcatAssociative
  <2>3. (<<b>> \o (t \o e)) \o e = <<b>> \o ((t \o e) \o e)
    BY <1>1, <2>1, ConcatAssociative
  <2>4. QED
    BY <2>2, <2>3
<1>4. t \o e \in Seq(Bytes) /\ \A i \in 1..Len(t \o e) : (t \o e)[i] # "data:"
  BY <1>1, Purely
<1>5. v \in Seq(Bytes) /\ \A i \in 1..Len(v) : v[i] # "data:"
  BY <1>4, Purely
<1>6. Data(t, e) = ((<<"data:">> \o t) \o e) \o e
  BY DEF Data
<1> HIDE DEF v
<1>7. \A b \in Bytes : OneLine(<<b>> \o v) /\ (<<b>> \o v)[1] = b
  BY <1>5, OneLineHeaded, Headed
<1>8. QED
  BY <1>2, <1>3, <1>6, <1>7, Zenon

(* A frame without a name, as the chat surface writes it. *)
LEMMA DataIsFrame ==
  ASSUME NEW t \in Seq(Inner), t # << >>
  PROVE  IsFrame(Data(t, eol), <<t>>) /\ OneLine(Data(t, eol))
<1> DEFINE l == <<"data:">> \o t
<1>1. t \in Seq(InLine) /\ t \in Seq(Bytes) /\ \A i \in 1..Len(t) : t[i] # "data:"
  BY InnerIsPure
<1>2. "data:" \in InLine /\ "data:" \in Bytes
  BY DEF InLine, Bytes
<1>3. /\ eol \in Eols /\ eol \in Seq(Bytes) /\ eol # << >>
      /\ \A i \in 1..Len(eol) : eol[i] # "data:"
  <2>1. \A x \in {"nl", "cr"} : x # "data:"
    OBVIOUS
  <2>2. QED
    BY <2>1, EolLines
<1>4. l \in Seq(InLine) /\ l # << >> /\ OneLine(l)
  <2>1. \A b \in InLine : <<b>> \o t \in Seq(InLine) /\ <<b>> \o t # << >>
    BY <1>1, Headed
  <2>2. \A b \in Bytes : OneLine(<<b>> \o t)
    BY <1>1, OneLineHeaded
  <2>3. QED
    BY <1>2, <2>1, <2>2, Zenon
<1>5. OneLine(eol)
  <2>1. \A i \in 2..Len(eol) : i \in 1..Len(eol)
    OBVIOUS
  <2>2. QED
    BY <1>3, <2>1 DEF OneLine
<1>6. Data(t, eol) = (l \o eol) \o eol
  BY DEF Data
<1>7. Spells(Data(t, eol), <<t>>)
  BY <1>1, <1>3, DataSpells
<1> HIDE DEF l
<1>8. OneLine(Data(t, eol)) /\ Data(t, eol)[1] = "data:"
  BY <1>3, DataIsOneLine
<1>9. Data(t, eol)[1] \notin Continuation
  BY <1>8 DEF Continuation
<1>10. QED
  BY <1>3, <1>4, <1>5, <1>6, <1>7, <1>8, <1>9 DEF IsFrame

(* A frame with a name, as the other surfaces write it. *)
LEMMA EventIsFrame ==
  ASSUME NEW n \in Seq(Inner), NEW t \in Seq(Inner), t # << >>
  PROVE  IsFrame(Event(n, t), <<t>>)
<1> DEFINE l == <<"event:">> \o n
           m == Data(t, eol)
<1>1. /\ n \in Seq(InLine) /\ n \in Seq(Bytes) /\ t \in Seq(InLine)
      /\ \A i \in 1..Len(n) : n[i] # "data:"
  BY InnerIsPure
<1>2. "event:" \in InLine /\ "event:" \in Bytes
  BY DEF InLine, Bytes
<1>3. l \in Seq(InLine) /\ l # << >> /\ OneLine(l) /\ l[1] = "event:"
  <2>1. \A b \in InLine : <<b>> \o n \in Seq(InLine) /\ <<b>> \o n # << >> /\ (<<b>> \o n)[1] = b
    BY <1>1, Headed
  <2>2. \A b \in Bytes : OneLine(<<b>> \o n)
    BY <1>1, OneLineHeaded
  <2>3. QED
    BY <1>2, <2>1, <2>2, Zenon
<1>4. IsFrame(m, <<t>>) /\ OneLine(m)
  BY DataIsFrame
<1>5. m \in Seq(Bytes) /\ m # << >>
  <2>1. Spells(m, <<t>>)
    BY <1>4 DEF IsFrame
  <2>2. m = << >> => <<t>> = << >>
    BY <2>1, NothingSpelled
  <2>3. <<t>> # << >>
    OBVIOUS
  <2>4. QED
    BY <2>1, <2>2, <2>3 DEF Spells
<1>6. Event(n, t) = (l \o eol) \o m
  <2>1. Event(n, t) = <<"event:">> \o n \o eol \o Data(t, eol)
    BY DEF Event
  <2>2. QED
    BY <2>1
<1>7. Spells(Event(n, t), <<t>>)
  BY <1>1, EventSpells
<1> HIDE DEF l, m
<1>8. ((l \o eol) \o m)[1] = "event:"
  <2>1. l \in Seq(Bytes) /\ eol \in Seq(Bytes)
    BY <1>3, InLineIsBytes, EolLines
  <2>2. l \o eol \in Seq(Bytes) /\ l \o eol # << >> /\ (l \o eol)[1] = l[1]
    BY <1>3, <2>1, FirstOf
  <2>3. ((l \o eol) \o m)[1] = (l \o eol)[1]
    BY <1>5, <2>2, FirstOf
  <2>4. QED
    BY <1>3, <2>2, <2>3
<1>9. Event(n, t)[1] \notin Continuation
  BY <1>6, <1>8 DEF Continuation
<1>10. QED
  BY <1>3, <1>4, <1>5, <1>6, <1>7, <1>9 DEF IsFrame

(* A ping is a frame that carries nothing. *)
LEMMA PingIsFrame == IsFrame(PingFrame, << >>)
<1> DEFINE l == <<":", "ping">>
<1>1. l \in Seq(InLine) /\ l # << >> /\ Len(l) = 2 /\ l[1] = ":" /\ l[2] = "ping"
  <2>1. ":" \in InLine /\ "ping" \in InLine
    BY DEF InLine, Bytes
  <2>2. \A x, y \in InLine : <<x, y>> \in Seq(InLine) /\ <<x, y>> # << >> /\ Len(<<x, y>>) = 2
                             /\ <<x, y>>[1] = x /\ <<x, y>>[2] = y
    OBVIOUS
  <2>3. QED
    BY <2>1, <2>2, Zenon
<1>2. PingFrame = (l \o eol) \o eol
  BY DEF PingFrame
<1> HIDE DEF l
<1>3. OneLine(l)
  <2>1. \A i \in 2..2 : i = 2
    OBVIOUS
  <2>2. QED
    BY <1>1, <2>1 DEF OneLine
<1>4. eol \in Seq(Bytes) /\ eol # << >> /\ OneLine(eol)
  <2>1. \A x \in {"nl", "cr"} : x # "data:"
    OBVIOUS
  <2>2. \A i \in 2..Len(eol) : i \in 1..Len(eol)
    OBVIOUS
  <2>3. QED
    BY <2>1, <2>2, EolLines DEF OneLine
<1>5. ((l \o eol) \o eol)[1] = ":"
  <2>1. l \in Seq(Bytes)
    BY <1>1, InLineIsBytes
  <2>2. l \o eol \in Seq(Bytes) /\ l \o eol # << >> /\ (l \o eol)[1] = l[1]
    BY <1>1, <1>4, <2>1, FirstOf
  <2>3. ((l \o eol) \o eol)[1] = (l \o eol)[1]
    BY <1>4, <2>2, FirstOf
  <2>4. QED
    BY <1>1, <2>2, <2>3
<1>6. PingFrame[1] \notin Continuation
  BY <1>2, <1>5 DEF Continuation
<1>7. QED
  BY <1>1, <1>2, <1>3, <1>4, <1>6, PingSpells DEF IsFrame
-----------------------------------------------------------------------------
(***************************************************************************)
(* Where frames are cut, and what one write does to what is spelled.       *)
(***************************************************************************)
LEMMA PartsOf ==
  ASSUME NEW f \in Seq(Bytes), NEW p \in 1..(Len(f) - 1)
  PROVE  LET x == SubSeq(f, 1, p)
             y == SubSeq(f, p + 1, Len(f))
         IN /\ x \in Seq(Bytes) /\ Len(x) = p /\ \A i \in 1..p : x[i] = f[i]
            /\ y \in Seq(Bytes) /\ Len(y) = Len(f) - p
            /\ \A i \in 1..(Len(f) - p) : y[i] = f[p + i]
            /\ x \o y = f /\ x # << >> /\ y # << >>
<1> DEFINE L == Len(f)
           x == SubSeq(f, 1, p)
           y == SubSeq(f, p + 1, L)
<1>1. L \in Nat /\ p \in Nat \ {0} /\ p < L
  BY LenProperties
<1>2. x \in Seq(Bytes) /\ Len(x) = p /\ \A i \in 1..p : x[i] = f[i]
  <2>1. \A i \in 1..p : i \in 1..L
    BY <1>1
  <2>2. \A i \in 1..p : f[i] \in Bytes
    BY <2>1, ElementOfSeq
  <2>3. QED
    BY <1>1, <2>2, SubSeqProperties
<1>3. /\ y \in Seq(Bytes) /\ Len(y) = L - p
      /\ \A i \in 1..(L - p) : y[i] = f[p + i]
  <2> DEFINE a == p + 1
  <2>1. \A i \in a..L : f[i] \in Bytes
    <3>1. \A i \in a..L : i \in 1..L
      BY <1>1
    <3>2. QED
      BY <3>1, ElementOfSeq
  <2>2. a \in Int /\ L \in Int /\ a <= L /\ L - a + 1 = L - p
        /\ \A i \in 1..(L - p) : a + i - 1 = p + i
    BY <1>1
  <2> HIDE DEF a, L
  <2>3. /\ SubSeq(f, a, L) \in Seq(Bytes)
        /\ Len(SubSeq(f, a, L)) = IF a <= L THEN L - a + 1 ELSE 0
        /\ \A i \in 1..(L - a + 1) : SubSeq(f, a, L)[i] = f[a + i - 1]
    BY <2>1, <2>2, SubSeqProperties
  <2>4. QED
    BY <2>2, <2>3 DEF a
<1>4. x \o y = f
  <2>1. /\ 1 \in 1..(L + 1) /\ p \in (1 - 1)..L /\ L \in p..L
    BY <1>1
  <2>2. SubSeq(f, 1, p) \o SubSeq(f, p + 1, L) = SubSeq(f, 1, L)
    BY <2>1, ConcatAdjacentSubSeq
  <2>3. SubSeq(f, 1, L) = f
    BY SubSeqFull
  <2>4. QED
    BY <2>2, <2>3
<1>5. x # << >> /\ y # << >>
  <2> HIDE DEF x, y
  <2>1. Len(x) # 0 /\ Len(y) # 0
    BY <1>1, <1>2, <1>3
  <2>2. QED
    BY <2>1, EmptySeq
<1>6. QED
  BY <1>2, <1>3, <1>4, <1>5

(* A frame is cut inside, for "event" behind its first line, for "rune" so *)
(* that its first rune of several bytes is in two parts.                   *)
LEMMA SplitInside ==
  ASSUME NEW f, NEW E, IsFrame(f, E), o.fragment_offset \in Int
  PROVE  LET p == splitPoint(f)
             x == SubSeq(f, 1, p)
             y == SubSeq(f, p + 1, Len(f))
         IN /\ f \in Seq(Bytes) /\ f # << >> /\ p \in 0..(Len(f) - 1)
            /\ o.fragment_split = "event" => p # 0 /\ OneLine(x) /\ OneLine(y)
            /\ o.fragment_split = "rune" =>
                 IF p = 0 THEN ~HasRune(f)
                 ELSE /\ ~HasRune(x) /\ x[Len(x)] \notin Continuation
                      /\ HasRune(y) => y[1] \in Continuation
<1> DEFINE p == splitPoint(f)
           x == SubSeq(f, 1, p)
           y == SubSeq(f, p + 1, Len(f))
           continued == {i \in 1..Len(f) : f[i] \in Continuation}
           end == First({i \in 1..Len(f) : f[i] = eol[1]}) + Len(eol) - 1
<1>1. PICK l \in Seq(InLine), m \in Seq(Bytes) :
        /\ l # << >> /\ m # << >> /\ f = (l \o eol) \o m
        /\ OneLine(l) /\ OneLine(m)
  BY DEF IsFrame
<1>2. /\ f \in Seq(Bytes) /\ end \in Nat \ {0} /\ end < Len(f)
      /\ OneLine(SubSeq(f, 1, end)) /\ OneLine(SubSeq(f, end + 1, Len(f)))
  BY <1>1, FirstLine
<1>3. Len(f) \in Nat \ {0} /\ f # << >> /\ f[1] \notin Continuation
  BY <1>2, LenProperties, EmptySeq DEF IsFrame
<1>4. OffsetPoint(f) \in 0..(Len(f) - 1)
  BY <1>3 DEF OffsetPoint
<1>5. continued # {} => /\ First(continued) \in 2..Len(f) /\ f[First(continued)] \in Continuation
                        /\ \A i \in 1..(First(continued) - 1) : f[i] \notin Continuation
  <2> SUFFICES ASSUME continued # {}
               PROVE  /\ First(continued) \in 2..Len(f) /\ f[First(continued)] \in Continuation
                      /\ \A i \in 1..(First(continued) - 1) : f[i] \notin Continuation
    OBVIOUS
  <2>1. continued \subseteq Nat
    BY <1>3
  <2>2. First(continued) \in continued /\ \A j \in continued : First(continued) <= j
    <3> HIDE DEF continued
    <3> QED
      BY <2>1, FirstIsLeast
  <2> DEFINE c == First(continued)
  <2>3. c \in 1..Len(f) /\ f[c] \in Continuation
    BY <2>2
  <2>4. \A i \in 1..Len(f) : f[i] \in Continuation => c <= i
    BY <2>2
  <2> HIDE DEF c, continued
  <2>5. c # 1
    BY <1>3, <2>3
  <2>6. c \in 2..Len(f)
    BY <1>3, <2>3, <2>5
  <2>7. ASSUME NEW i \in 1..(c - 1)
        PROVE  f[i] \notin Continuation
    <3>1. i \in 1..Len(f) /\ ~(c <= i)
      BY <1>3, <2>6
    <3>2. QED
      BY <2>4, <3>1
  <2>8. QED
    BY <2>3, <2>6, <2>7 DEF c
<1>6. p = CASE o.fragment_split = "rune" /\ continued # {} -> First(continued) - 1
            [] o.fragment_split = "event" -> IF end < Len(f) THEN end ELSE 0
            [] OTHER -> OffsetPoint(f)
  BY DEF splitPoint
<1> HIDE DEF p, continued, end
<1>7. CASE o.fragment_split = "rune" /\ continued # {}
  <2>1. p = First(continued) - 1 /\ o.fragment_split # "event"
    <3>1. o.fragment_split # "event"
      BY <1>7
    <3>2. QED
      BY <1>6, <1>7, <3>1
  <2>2. p \in 1..(Len(f) - 1) /\ p # 0 /\ p \in 0..(Len(f) - 1) /\ p + 1 = First(continued)
    BY <1>3, <1>5, <1>7, <2>1
  <2>3. /\ x \in Seq(Bytes) /\ Len(x) = p /\ \A i \in 1..p : x[i] = f[i]
        /\ y \in Seq(Bytes) /\ Len(y) = Len(f) - p
        /\ \A i \in 1..(Len(f) - p) : y[i] = f[p + i]
    BY <1>2, <2>2, PartsOf
  <2> HIDE DEF x, y
  <2>4. \A i \in 1..p : x[i] \notin Continuation
    BY <1>5, <1>7, <2>1, <2>3
  <2>5. ~HasRune(x) /\ x[Len(x)] \notin Continuation
    <3>1. p \in 1..p
      BY <2>2
    <3>2. QED
      BY <2>3, <2>4, <3>1 DEF HasRune
  <2>6. y[1] \in Continuation
    <3>1. 1 \in 1..(Len(f) - p)
      BY <1>3, <2>2
    <3>2. QED
      BY <1>5, <1>7, <2>2, <2>3, <3>1
  <2>7. QED
    BY <1>2, <1>3, <2>1, <2>2, <2>5, <2>6 DEF p, x, y
<1>8. CASE o.fragment_split = "event"
  <2>1. p = end /\ o.fragment_split # "rune"
    <3>1. o.fragment_split # "rune"
      BY <1>8
    <3>2. QED
      BY <1>2, <1>6, <1>8, <3>1
  <2>2. p # 0 /\ p \in 0..(Len(f) - 1)
    BY <1>2, <1>3, <2>1
  <2>3. QED
    BY <1>2, <1>3, <1>8, <2>1, <2>2 DEF p, x, y
<1>9. CASE ~(o.fragment_split = "rune" /\ continued # {}) /\ o.fragment_split # "event"
  <2>1. p = OffsetPoint(f)
    BY <1>6, <1>9
  <2>2. p \in 0..(Len(f) - 1)
    BY <1>4, <2>1
  <2>3. ASSUME o.fragment_split = "rune"
        PROVE  IF p = 0 THEN ~HasRune(f)
               ELSE /\ ~HasRune(x) /\ x[Len(x)] \notin Continuation
                    /\ HasRune(y) => y[1] \in Continuation
    <3>1. \A i \in 1..Len(f) : f[i] \notin Continuation
      BY <1>9, <2>3 DEF continued
    <3>2. CASE p = 0
      BY <3>1, <3>2 DEF HasRune
    <3>3. CASE p # 0
      <4>1. p \in 1..(Len(f) - 1)
        BY <1>3, <2>2, <3>3
      <4>2. /\ x \in Seq(Bytes) /\ Len(x) = p /\ \A i \in 1..p : x[i] = f[i]
            /\ y \in Seq(Bytes) /\ Len(y) = Len(f) - p
            /\ \A i \in 1..(Len(f) - p) : y[i] = f[p + i]
        BY <1>2, <4>1, PartsOf
      <4>3. \A i \in 1..p : i \in 1..Len(f)
        BY <1>3, <4>1
      <4>4. \A i \in 1..(Len(f) - p) : p + i \in 1..Len(f)
        BY <1>3, <4>1
      <4> HIDE DEF x, y
      <4>5. /\ \A i \in 1..p : x[i] \notin Continuation
            /\ \A i \in 1..(Len(f) - p) : y[i] \notin Continuation
        BY <3>1, <4>2, <4>3, <4>4
      <4>6. ~HasRune(x) /\ ~HasRune(y)
        BY <4>2, <4>5 DEF HasRune
      <4>7. p \in 1..p
        BY <4>1
      <4>8. x[Len(x)] \notin Continuation
        BY <4>2, <4>5, <4>7
      <4>9. QED
        BY <3>3, <4>6, <4>8
    <3>4. QED
      BY <3>2, <3>3
  <2>4. QED
    BY <1>2, <1>3, <1>9, <2>2, <2>3 DEF p, x, y
<1>10. QED
  BY <1>7, <1>8, <1>9

Typed == wire \in Seq(Seq(Bytes)) /\ rest \in Seq(Bytes) /\ pending \in Seq(Bytes)

EndOf(w) == w[Len(w)]

\* What a write w behind the others keeps.
Fits(w) ==
  /\ o.fragment_split = "rune" =>
       (HasRune(w) => wire # << >> /\ w[1] \in Continuation
                      /\ EndOf(EndOf(wire)) \notin Continuation)
  /\ o.fragment_split = "event" => OneLine(w)

CutsRight ==
  o.coalesce_frames <= 1 =>
    /\ o.fragment_split = "rune" =>
         \A k \in 1..Len(wire) : HasRune(wire[k]) => CutInside(k)
    /\ o.fragment_split = "event" => \A k \in 1..Len(wire) : OneLine(wire[k])
    /\ Fits(rest)

(* An empty rest has neither a rune to cut nor a second line. *)
LEMMA NoRuneInNothing == ~HasRune(<< >>) /\ OneLine(<< >>)
<1>1. Len(<< >>) = 0
  BY EmptySeq
<1>2. QED
  BY <1>1 DEF HasRune, OneLine

(* A write that fits keeps the cuts where fragment_split asks for them (sse.go:128). *)
LEMMA CutsAppend ==
  ASSUME NEW w \in Seq(Bytes), Typed, CutsRight, o' = o,
         wire' = Append(wire, w), o.coalesce_frames <= 1 => Fits(w)
  PROVE  /\ wire' # << >> /\ EndOf(wire') = w
         /\ o.coalesce_frames <= 1 =>
              /\ o.fragment_split = "rune" =>
                   \A k \in 1..Len(wire') : HasRune(wire'[k]) => CutInside(k)'
              /\ o.fragment_split = "event" => \A k \in 1..Len(wire') : OneLine(wire'[k])
<1> DEFINE L == Len(wire)
           v == wire'
<1>1. /\ L \in Nat /\ v \in Seq(Seq(Bytes)) /\ v # << >> /\ Len(v) = L + 1
      /\ \A k \in 1..L : v[k] = wire[k]
      /\ v[L + 1] = w
  BY LenProperties, AppendProperties DEF Typed
<1>2. EndOf(v) = w
  BY <1>1 DEF EndOf
<1>3. wire # << >> => L \in 1..L
  BY EmptySeq DEF Typed
<1>4. ASSUME o.coalesce_frames <= 1, o.fragment_split = "rune", NEW k \in 1..Len(v),
             HasRune(v[k])
      PROVE  CutInside(k)'
  <2>0. CutInside(k)' <=> /\ k > 1 /\ v[k][1] \in Continuation
                          /\ v[k - 1][Len(v[k - 1])] \notin Continuation
    BY DEF CutInside
  <2> HIDE DEF v
  <2>1. CASE k \in 1..L
    <3>1. v[k] = wire[k] /\ CutInside(k)
      BY <1>1, <1>4, <2>1 DEF CutsRight
    <3>2. k > 1 => k - 1 \in 1..L
      BY <1>1, <2>1
    <3>3. QED
      BY <1>1, <2>0, <3>1, <3>2 DEF CutInside
  <2>2. CASE k = L + 1
    <3>1. /\ wire # << >> /\ w[1] \in Continuation
          /\ wire[L][Len(wire[L])] \notin Continuation
      BY <1>1, <1>4, <2>2 DEF Fits, EndOf
    <3>2. L \in 1..L /\ k > 1 /\ k - 1 = L
      BY <1>1, <1>3, <2>2, <3>1
    <3>3. v[k - 1] = wire[L] /\ v[k] = w
      BY <1>1, <2>2, <3>2
    <3>4. QED
      BY <2>0, <3>1, <3>2, <3>3
  <2>3. QED
    BY <1>1, <2>1, <2>2
<1>5. ASSUME o.coalesce_frames <= 1, o.fragment_split = "event", NEW k \in 1..Len(v)
      PROVE  OneLine(v[k])
  <2> HIDE DEF v
  <2>1. CASE k \in 1..L
    BY <1>1, <1>5, <2>1 DEF CutsRight
  <2>2. CASE k = L + 1
    BY <1>1, <1>5, <2>2 DEF Fits
  <2>3. QED
    BY <1>1, <2>1, <2>2
<1>6. QED
  BY <1>1, <1>2, <1>4, <1>5

(* What is spelled by the bytes written and the rest of a frame being      *)
(* written, and by those that wait to be.                                  *)
Written(W) == Spells(FlattenSeq(wire) \o rest, W)
Waits(P) == Spells(pending, P) /\ (o.coalesce_frames <= 1 => pending = << >>)

(* Concatenation is associative, for the first prover. *)
LEMMA Regrouped ==
  ASSUME NEW S, NEW a \in Seq(S), NEW b \in Seq(S), NEW c \in Seq(S)
  PROVE  (a \o b) \o c = a \o (b \o c)
BY ConcatAssociative

(* The bytes on the wire after one write more. *)
LEMMA WireFlat ==
  ASSUME Typed, NEW w \in Seq(Bytes)
  PROVE  /\ FlattenSeq(wire) \in Seq(Bytes)
         /\ Append(wire, w) \in Seq(Seq(Bytes))
         /\ FlattenSeq(Append(wire, w)) = FlattenSeq(wire) \o w
<1>1. wire \in Seq(Seq(Bytes))
  BY DEF Typed
<1>2. QED
  BY <1>1, FlattenIsTyped, FlattenAppend, AppendProperties

(* The branches of a write.                                                *)
Coalesced(f) ==
  /\ IF pendingN + 1 >= o.coalesce_frames
     THEN wire' = Append(wire, pending \o f) /\ pending' = << >> /\ pendingN' = 0
     ELSE pending' = pending \o f /\ pendingN' = pendingN + 1 /\ UNCHANGED wire
  /\ UNCHANGED rest

Fragmented(f) ==
  LET p == splitPoint(f)
  IN /\ wire' = Append(wire, IF p > 0 THEN SubSeq(f, 1, p) ELSE f)
     /\ rest' = IF p > 0 THEN SubSeq(f, p + 1, Len(f)) ELSE << >>
     /\ UNCHANGED <<pending, pendingN>>

(* writeFrame either coalesces or fragments (sse.go:96). *)
LEMMA WriteUnfolds ==
  ASSUME IsSSE, o.coalesce_frames \in Int, NEW f, Write(f)
  PROVE  /\ o.coalesce_frames > 1 => Coalesced(f)
         /\ o.coalesce_frames <= 1 => Fragmented(f)
<1> DEFINE A == wire' = Append(wire, f) /\ UNCHANGED <<pending, pendingN, rest>>
<1>1. (CASE ~IsSSE -> A
       [] IsSSE /\ o.coalesce_frames > 1 -> Coalesced(f)
       [] IsSSE /\ o.coalesce_frames <= 1 -> Fragmented(f))
  BY DEF Write, Coalesced, Fragmented
<1> HIDE DEF A
<1>2. o.coalesce_frames > 1 => ~(o.coalesce_frames <= 1)
  OBVIOUS
<1>3. QED
  BY <1>1, <1>2

\* The types of what is written, and where frames are cut.
LEMMA WriteKeeps ==
  ASSUME IsSSE, Typed, CutsRight, rest = << >>, o' = o,
         o.coalesce_frames \in Int, o.fragment_offset \in Int,
         NEW f, NEW E, IsFrame(f, E), Write(f)
  PROVE  Typed' /\ CutsRight'
<1>1. f \in Seq(Bytes) /\ << >> \in Seq(Bytes)
  BY EmptySeq DEF IsFrame, Spells
<1>2. pending \in Seq(Bytes) /\ pending \o f \in Seq(Bytes)
  BY <1>1, ConcatProperties DEF Typed
<1>3. CASE o.coalesce_frames > 1 /\ pendingN + 1 >= o.coalesce_frames
  <2>1. /\ wire' = Append(wire, pending \o f) /\ pending' = << >> /\ rest' = rest
        /\ ~(o.coalesce_frames <= 1)
    BY <1>3, WriteUnfolds DEF Coalesced
  <2>2. wire' \in Seq(Seq(Bytes))
    BY <1>2, <2>1, WireFlat
  <2>3. QED
    BY <1>1, <2>1, <2>2 DEF Typed, CutsRight
<1>4. CASE o.coalesce_frames > 1 /\ ~(pendingN + 1 >= o.coalesce_frames)
  <2>1. /\ wire' = wire /\ pending' = pending \o f /\ rest' = rest
        /\ ~(o.coalesce_frames <= 1)
    BY <1>4, WriteUnfolds DEF Coalesced
  <2>2. QED
    BY <1>1, <1>2, <2>1 DEF Typed, CutsRight
<1>5. CASE o.coalesce_frames <= 1
  <2> DEFINE p == splitPoint(f)
             x == SubSeq(f, 1, p)
             y == SubSeq(f, p + 1, Len(f))
  <2>1. /\ wire' = Append(wire, IF p > 0 THEN x ELSE f)
        /\ rest' = IF p > 0 THEN y ELSE << >>
        /\ pending' = pending
    BY <1>5, WriteUnfolds DEF Fragmented
  <2>2. /\ f # << >> /\ p \in 0..(Len(f) - 1)
        /\ o.fragment_split = "event" => p # 0 /\ OneLine(x) /\ OneLine(y)
        /\ o.fragment_split = "rune" =>
             IF p = 0 THEN ~HasRune(f)
             ELSE /\ ~HasRune(x) /\ x[Len(x)] \notin Continuation
                  /\ HasRune(y) => y[1] \in Continuation
    BY SplitInside
  <2> HIDE DEF p, x, y
  <2>3. CASE p = 0
    <3>1. wire' = Append(wire, f) /\ rest' = << >>
      BY <2>1, <2>3
    <3>2. wire' \in Seq(Seq(Bytes))
      BY <1>1, <3>1, WireFlat
    <3>3. Fits(f)
      BY <2>2, <2>3 DEF Fits
    <3>4. Typed'
      BY <1>1, <1>2, <2>1, <3>1, <3>2 DEF Typed
    <3>5. /\ o.fragment_split = "rune" =>
               \A k \in 1..Len(wire') : HasRune(wire'[k]) => CutInside(k)'
          /\ o.fragment_split = "event" => \A k \in 1..Len(wire') : OneLine(wire'[k])
      BY <1>1, <1>5, <3>1, <3>3, CutsAppend
    <3>6. Fits(rest)'
      BY <3>1, NoRuneInNothing DEF Fits
    <3>7. QED
      BY <3>4, <3>5, <3>6 DEF CutsRight
  <2>4. CASE p # 0
    <3>1. p \in 1..(Len(f) - 1) /\ p > 0
      BY <1>1, <2>2, <2>4, LenProperties
    <3>2. x \in Seq(Bytes) /\ y \in Seq(Bytes)
      BY <1>1, <3>1, PartsOf DEF x, y
    <3>3. wire' = Append(wire, x) /\ rest' = y
      BY <2>1, <3>1
    <3>4. wire' \in Seq(Seq(Bytes))
      BY <3>2, <3>3, WireFlat
    <3>5. Typed'
      BY <1>1, <1>2, <2>1, <3>2, <3>3, <3>4 DEF Typed
    <3>6. Fits(x)
      BY <2>2, <2>4 DEF Fits
    <3>7. /\ o.fragment_split = "rune" =>
               \A k \in 1..Len(wire') : HasRune(wire'[k]) => CutInside(k)'
          /\ o.fragment_split = "event" => \A k \in 1..Len(wire') : OneLine(wire'[k])
          /\ wire' # << >> /\ EndOf(wire') = x
      BY <1>5, <3>2, <3>3, <3>6, CutsAppend
    <3>8. Fits(rest)'
      <4>1. o.fragment_split = "rune" =>
              (HasRune(y) => wire' # << >> /\ y[1] \in Continuation
                             /\ EndOf(EndOf(wire')) \notin Continuation)
        BY <2>2, <2>4, <3>7 DEF EndOf
      <4>2. o.fragment_split = "event" => OneLine(y)
        BY <2>2
      <4>3. QED
        BY <3>3, <4>1, <4>2 DEF Fits
    <3>9. QED
      BY <3>5, <3>7, <3>8 DEF CutsRight
  <2>5. QED
    BY <2>3, <2>4
<1>6. o.coalesce_frames > 1 \/ o.coalesce_frames <= 1
  OBVIOUS
<1>7. QED
  BY <1>3, <1>4, <1>5, <1>6

\* A write moves some of what waits, and of what it adds, to what is written.
Moved(W, P, E) ==
  \E D, Q \in Seq(Seq(Bytes)) : Written(W \o D)' /\ Waits(Q)' /\ D \o Q = P \o E

(* A frame that is written, held back, flushed or cut loses no event and moves none. *)
LEMMA WriteStep ==
  ASSUME IsSSE, Typed, rest = << >>, o' = o,
         o.coalesce_frames \in Int, o.fragment_offset \in Int,
         NEW f, NEW E, IsFrame(f, E), Write(f),
         NEW W, NEW P, Written(W), Waits(P)
  PROVE  Moved(W, P, E)
<1>1. /\ f \in Seq(Bytes) /\ E \in Seq(Seq(Bytes)) /\ W \in Seq(Seq(Bytes))
      /\ P \in Seq(Seq(Bytes)) /\ Spells(f, E) /\ << >> \in Seq(Bytes)
      /\ << >> \in Seq(Seq(Bytes))
  BY EmptySeq DEF IsFrame, Spells, Written, Waits
<1>2. /\ P \o << >> = P /\ << >> \o E = E /\ W \o << >> = W
      /\ << >> \o (P \o E) = P \o E /\ (P \o E) \o << >> = P \o E
      /\ P \o E \in Seq(Seq(Bytes))
  <2>1. P \o E \in Seq(Seq(Bytes))
    BY <1>1, ConcatProperties
  <2>2. QED
    BY <1>1, <2>1, ConcatEmptySeq
<1>3. FlattenSeq(wire) \in Seq(Bytes) /\ FlattenSeq(wire) \o rest = FlattenSeq(wire)
  BY <1>1, WireFlat, ConcatEmptySeq
<1>4. Spells(FlattenSeq(wire), W) /\ Spells(pending, P)
  BY <1>3 DEF Written, Waits
<1>5. CASE o.coalesce_frames > 1 /\ pendingN + 1 >= o.coalesce_frames
  <2>1. /\ wire' = Append(wire, pending \o f) /\ pending' = << >> /\ rest' = rest
        /\ ~(o.coalesce_frames <= 1)
    BY <1>5, WriteUnfolds DEF Coalesced
  <2>2. pending \o f \in Seq(Bytes) /\ Spells(pending \o f, P \o E)
    BY <1>1, <1>4, SpellsConcat, ConcatProperties DEF Typed
  <2>3. /\ FlattenSeq(wire') = FlattenSeq(wire) \o (pending \o f)
        /\ FlattenSeq(wire') \in Seq(Bytes)
    <3>1. /\ wire' \in Seq(Seq(Bytes))
          /\ FlattenSeq(wire') = FlattenSeq(wire) \o (pending \o f)
      BY <2>1, <2>2, WireFlat
    <3>2. QED
      BY <3>1, FlattenIsTyped
  <2>4. Spells(FlattenSeq(wire'), W \o (P \o E))
    BY <1>4, <2>2, <2>3, SpellsConcat
  <2>5. FlattenSeq(wire') \o rest' = FlattenSeq(wire')
    BY <2>1, <2>3, ConcatEmptySeq
  <2>6. Written(W \o (P \o E))' /\ Waits(<< >>)'
    BY <2>1, <2>4, <2>5, SpellsNothing DEF Written, Waits
  <2>7. QED
    BY <1>1, <1>2, <2>6 DEF Moved
<1>6. CASE o.coalesce_frames > 1 /\ ~(pendingN + 1 >= o.coalesce_frames)
  <2>1. /\ wire' = wire /\ pending' = pending \o f /\ rest' = rest
        /\ ~(o.coalesce_frames <= 1)
    BY <1>6, WriteUnfolds DEF Coalesced
  <2>2. pending \o f \in Seq(Bytes) /\ Spells(pending \o f, P \o E)
    BY <1>1, <1>4, SpellsConcat, ConcatProperties DEF Typed
  <2>3. Written(W \o << >>)' /\ Waits(P \o E)'
    BY <1>2, <2>1, <2>2 DEF Written, Waits
  <2>4. QED
    BY <1>1, <1>2, <2>3 DEF Moved
<1>7. CASE o.coalesce_frames <= 1
  <2> DEFINE p == splitPoint(f)
             x == SubSeq(f, 1, p)
             y == SubSeq(f, p + 1, Len(f))
  <2>0. pending = << >> /\ P = << >>
    BY <1>4, <1>7, NothingSpelled DEF Waits
  <2>1. /\ wire' = Append(wire, IF p > 0 THEN x ELSE f)
        /\ rest' = IF p > 0 THEN y ELSE << >>
        /\ pending' = pending
    BY <1>7, WriteUnfolds DEF Fragmented
  <2>2. f # << >> /\ p \in 0..(Len(f) - 1)
    BY SplitInside
  <2>3. Waits(<< >>)'
    BY <2>0, <2>1, SpellsNothing DEF Waits
  <2>4. << >> \o E = E /\ P \o E = E /\ E \o << >> = E
    BY <1>1, <2>0, ConcatEmptySeq
  <2> HIDE DEF p, x, y
  <2>5. FlattenSeq(wire') \o rest' = FlattenSeq(wire) \o f
    <3>1. CASE p = 0
      <4>1. wire' = Append(wire, f) /\ rest' = << >>
        BY <2>1, <3>1
      <4>2. wire' \in Seq(Seq(Bytes)) /\ FlattenSeq(wire') = FlattenSeq(wire) \o f
        BY <1>1, <4>1, WireFlat
      <4>3. FlattenSeq(wire') \in Seq(Bytes)
        BY <4>2, FlattenIsTyped
      <4>4. FlattenSeq(wire') \o rest' = FlattenSeq(wire')
        BY <4>1, <4>3, ConcatEmptySeq
      <4>5. QED
        BY <4>2, <4>4
    <3>2. CASE p # 0
      <4>1. p \in 1..(Len(f) - 1) /\ p > 0
        BY <1>1, <2>2, <3>2, LenProperties
      <4>2. x \in Seq(Bytes) /\ y \in Seq(Bytes) /\ x \o y = f
        BY <1>1, <4>1, PartsOf DEF x, y
      <4>3. wire' = Append(wire, x) /\ rest' = y
        BY <2>1, <4>1
      <4> DEFINE w == FlattenSeq(wire)
                 v == FlattenSeq(wire')
      <4>4. w \in Seq(Bytes) /\ v = w \o x
        BY <1>3, <4>2, <4>3, WireFlat
      <4> HIDE DEF w, v
      <4>5. (w \o x) \o y = w \o (x \o y)
        <5>1. \A a, b, c \in Seq(Bytes) : (a \o b) \o c = a \o (b \o c)
          BY Regrouped
        <5>2. w \in Seq(Bytes) /\ x \in Seq(Bytes) /\ y \in Seq(Bytes)
          BY <4>2, <4>4
        <5>3. QED
          BY <5>1, <5>2, Zenon
      <4>6. v \o rest' = w \o f
        BY <4>2, <4>3, <4>4, <4>5
      <4>7. QED
        BY <4>6 DEF v, w
    <3>3. QED
      BY <3>1, <3>2
  <2>6. Written(W \o E)'
    BY <1>1, <1>4, <2>5, SpellsConcat DEF Written
  <2>7. QED
    BY <1>1, <2>3, <2>4, <2>6 DEF Moved
<1>8. o.coalesce_frames > 1 \/ o.coalesce_frames <= 1
  OBVIOUS
<1>9. QED
  BY <1>5, <1>6, <1>7, <1>8
-----------------------------------------------------------------------------
(***************************************************************************)
(* Texts in messages.                                                      *)
(***************************************************************************)
LEMMA Functional ==
  ASSUME NEW S, NEW n \in Nat, NEW f \in [1..n -> S]
  PROVE  f \in Seq(S) /\ Len(f) = n
<1>1. f \in Seq(S)
  BY SeqDef
<1>2. QED
  BY <1>1, LenProperties

(* A function with one value more is the sequence with one element more. *)
LEMMA Grown ==
  ASSUME NEW S, NEW n \in Nat, NEW f \in [1..n -> S], NEW g \in [1..(n + 1) -> S],
         \A i \in 1..n : g[i] = f[i]
  PROVE  f \in Seq(S) /\ g \in Seq(S) /\ g[n + 1] \in S /\ g = Append(f, g[n + 1])
<1>1. f \in Seq(S) /\ Len(f) = n /\ g \in Seq(S) /\ Len(g) = n + 1
  BY Functional
<1>2. n + 1 \in 1..(n + 1)
  OBVIOUS
<1>3. g[n + 1] \in S
  BY <1>2
<1> DEFINE e == g[n + 1]
           a == Append(f, e)
<1> HIDE DEF e
<1>4. /\ a \in Seq(S) /\ Len(a) = n + 1
      /\ \A i \in 1..n : a[i] = f[i]
      /\ a[n + 1] = e
  BY <1>1, <1>3, AppendProperties DEF e
<1> HIDE DEF a
<1>5. \A i \in 1..(n + 1) : g[i] = a[i]
  <2>1. \A i \in 1..(n + 1) : i \in 1..n \/ i = n + 1
    OBVIOUS
  <2>2. QED
    BY <1>4, <2>1 DEF e
<1>6. g = a
  BY <1>1, <1>4, <1>5, SeqEqual
<1>7. QED
  BY <1>1, <1>3, <1>6 DEF a, e

(* The elements of a sequence with one appended. *)
LEMMA Appended ==
  ASSUME NEW S, NEW s \in Seq(S), NEW e \in S
  PROVE  /\ Append(s, e) \in Seq(S) /\ Len(Append(s, e)) = Len(s) + 1
         /\ Append(s, e) # << >> /\ Len(s) \in Nat
         /\ \A i \in 1..Len(s) : Append(s, e)[i] = s[i]
         /\ Append(s, e)[Len(s) + 1] = e
<1>1. Len(s) \in Nat
  BY LenProperties
<1>2. Append(s, e) # << >>
  BY AppendProperties
<1>3. QED
  BY <1>1, <1>2, AppendProperties

Escaped(b) == IF b = "lf" THEN <<"\\", "n">> ELSE <<b>>

(* No character of a text is escaped to what frames a line. *)
LEMMA EscapedInner ==
  /\ "lf" \notin Framing /\ "\\" \in Inner /\ "n" \in Inner /\ "\\" # "lf" /\ "n" # "\\"
  /\ \A b \in Alphabet : b \in Inner /\ b # "\\" /\ Escaped(b) \in Seq(Inner)
<1>1. "lf" \notin Framing /\ "\\" \in Inner /\ "n" \in Inner
  BY DEF Framing, Inner, InLine, Bytes
<1>2. ASSUME NEW b \in Alphabet
      PROVE  b \in Inner /\ b # "\\" /\ Escaped(b) \in Seq(Inner)
  <2>1. b \notin Framing /\ b \in Bytes
    BY AlphabetAssumption DEF Bytes
  <2>2. b \in Inner /\ b # "\\"
    BY <2>1 DEF Framing, Inner, InLine
  <2>3. \A x, y \in Inner : <<x, y>> \in Seq(Inner) /\ <<x>> \in Seq(Inner)
    OBVIOUS
  <2>4. <<"\\", "n">> \in Seq(Inner) /\ <<b>> \in Seq(Inner)
    BY <1>1, <2>2, <2>3, Zenon
  <2>5. QED
    BY <2>2, <2>4, Zenon DEF Escaped
<1>3. "\\" # "lf" /\ "n" # "\\"
  OBVIOUS
<1>4. QED
  BY <1>1, <1>2, <1>3

(* JSON escapes character by character. *)
LEMMA MarshalAppend ==
  ASSUME NEW t \in Seq(Alphabet), NEW b \in Alphabet
  PROVE  /\ Marshal(t) \in Seq(Inner)
         /\ Marshal(Append(t, b)) = Marshal(t) \o Escaped(b)
<1> DEFINE n == Len(t)
           u == Append(t, b)
           f == [i \in 1..n |-> Escaped(t[i])]
           g == [i \in 1..(n + 1) |-> Escaped(u[i])]
<1>1. /\ n \in Nat /\ u \in Seq(Alphabet) /\ Len(u) = n + 1
      /\ \A i \in 1..n : u[i] = t[i]
      /\ u[n + 1] = b
  BY Appended
<1>2. Marshal(t) = FlattenSeq(f)
  BY DEF Marshal, Escaped
<1>3. Marshal(u) = FlattenSeq(g)
  BY <1>1 DEF Marshal, Escaped
<1>4. (\A i \in 1..n : t[i] \in Alphabet) /\ (\A i \in 1..(n + 1) : u[i] \in Alphabet)
  BY <1>1, ElementOfSeq
<1> HIDE DEF n, u
<1>5. f \in [1..n -> Seq(Inner)] /\ g \in [1..(n + 1) -> Seq(Inner)]
  BY <1>4, EscapedInner
<1>6. (\A i \in 1..n : g[i] = f[i]) /\ g[n + 1] = Escaped(b)
  <2>1. n + 1 \in 1..(n + 1) /\ \A i \in 1..n : i \in 1..(n + 1)
    BY <1>1
  <2>2. QED
    BY <1>1, <2>1
<1> HIDE DEF f, g
<1>7. f \in Seq(Seq(Inner)) /\ Escaped(b) \in Seq(Inner) /\ g = Append(f, Escaped(b))
  BY <1>1, <1>5, <1>6, Grown
<1>8. FlattenSeq(f) \in Seq(Inner) /\ FlattenSeq(g) = FlattenSeq(f) \o Escaped(b)
  BY <1>7, FlattenIsTyped, FlattenAppend
<1>9. QED
  BY <1>2, <1>3, <1>8 DEF u

(* A marshalled text fits into a line. *)
LEMMA MarshalIsTyped ==
  ASSUME NEW t \in Seq(Alphabet)
  PROVE  Marshal(t) \in Seq(Inner)
<1> DEFINE f == [i \in 1..Len(t) |-> Escaped(t[i])]
<1>1. Marshal(t) = FlattenSeq(f)
  BY DEF Marshal, Escaped
<1>2. Len(t) \in Nat /\ \A i \in 1..Len(t) : t[i] \in Alphabet
  BY LenProperties, ElementOfSeq
<1>3. f \in [1..Len(t) -> Seq(Inner)]
  BY <1>2, EscapedInner
<1> HIDE DEF f
<1>4. f \in Seq(Seq(Inner))
  BY <1>2, <1>3, Functional
<1>5. QED
  BY <1>1, <1>4, FlattenIsTyped

(* The empty text is marshalled to nothing. *)
LEMMA MarshalNothing == Marshal(<< >>) = << >>
<1>1. Len(<< >>) = 0
  BY EmptySeq
<1>2. [i \in 1..0 |-> IF (<< >>)[i] = "lf" THEN <<"\\", "n">> ELSE <<(<< >>)[i]>>] = << >>
  OBVIOUS
<1>3. QED
  BY <1>1, <1>2, FlattenNothing DEF Marshal

Marks == Bytes \cup {"lf"}
Unescaped(s, i) ==
  IF s[i] = "\\" THEN <<"lf">>
  ELSE IF i > 1 /\ s[i - 1] = "\\" THEN << >> ELSE <<s[i]>>

\* A text of which the last byte, if there is one, escapes nothing.
Closed(s) == s = << >> \/ EndOf(s) # "\\"

(* What a byte of a marshalled text stands for. *)
LEMMA UnescapedIsTyped ==
  ASSUME NEW s \in Seq(Bytes), NEW i \in 1..Len(s)
  PROVE  Unescaped(s, i) \in Seq(Marks)
<1>1. s[i] \in Marks /\ "lf" \in Marks
  BY ElementOfSeq DEF Marks
<1>2. \A x \in Marks : <<x>> \in Seq(Marks)
  BY Single
<1>3. << >> \in Seq(Marks)
  BY EmptySeq
<1>4. <<"lf">> \in Seq(Marks) /\ <<s[i]>> \in Seq(Marks)
  BY <1>1, <1>2, Zenon
<1>5. QED
  BY <1>3, <1>4 DEF Unescaped

(* An unmarshalled text is a text. *)
LEMMA UnmarshalIsTyped ==
  ASSUME NEW s \in Seq(Bytes)
  PROVE  Unmarshal(s) \in Seq(Marks)
<1> DEFINE f == [i \in 1..Len(s) |-> Unescaped(s, i)]
<1>1. Unmarshal(s) = FlattenSeq(f)
  BY DEF Unmarshal, Unescaped
<1>2. Len(s) \in Nat /\ f \in [1..Len(s) -> Seq(Marks)]
  BY UnescapedIsTyped, LenProperties
<1> HIDE DEF f
<1>3. f \in Seq(Seq(Marks))
  BY <1>2, Functional
<1>4. QED
  BY <1>1, <1>3, FlattenIsTyped

(* Unmarshalling goes byte by byte, a newline being two of them. *)
LEMMA UnmarshalAppend ==
  ASSUME NEW s \in Seq(Bytes), NEW b \in Bytes
  PROVE  /\ b = "\\" => Unmarshal(Append(s, b)) = Unmarshal(s) \o <<"lf">>
         /\ b # "\\" /\ Closed(s) => Unmarshal(Append(s, b)) = Unmarshal(s) \o <<b>>
         /\ b # "\\" /\ ~Closed(s) => Unmarshal(Append(s, b)) = Unmarshal(s)
<1> DEFINE n == Len(s)
           u == Append(s, b)
           f == [i \in 1..n |-> Unescaped(s, i)]
           g == [i \in 1..(n + 1) |-> Unescaped(u, i)]
<1>1. /\ n \in Nat /\ u \in Seq(Bytes) /\ Len(u) = n + 1
      /\ \A i \in 1..n : u[i] = s[i]
      /\ u[n + 1] = b
  BY Appended
<1>2. Unmarshal(s) = FlattenSeq(f)
  BY DEF Unmarshal, Unescaped
<1>3. Unmarshal(u) = FlattenSeq(g)
  BY <1>1 DEF Unmarshal, Unescaped
<1>4. s # << >> => n \in 1..n
  BY <1>1, EmptySeq
<1>5. Len(<< >>) = 0
  BY EmptySeq
<1>6. s = << >> <=> n = 0
  BY <1>4, <1>5
<1> HIDE DEF u
<1>7. \A i \in 1..n : Unescaped(u, i) = Unescaped(s, i)
  <2> SUFFICES ASSUME NEW i \in 1..n
               PROVE  Unescaped(u, i) = Unescaped(s, i)
    OBVIOUS
  <2>1. u[i] = s[i] /\ (i > 1 => u[i - 1] = s[i - 1])
    <3>1. i > 1 => i - 1 \in 1..n
      BY <1>1
    <3>2. QED
      BY <1>1, <3>1
  <2> HIDE DEF n
  <2>2. QED
    BY <2>1, Zenon DEF Unescaped
<1>8. Unescaped(u, n + 1) =
        IF b = "\\" THEN <<"lf">> ELSE IF Closed(s) THEN <<b>> ELSE << >>
  <2>1. n + 1 > 1 /\ u[(n + 1) - 1] = "\\" <=> ~Closed(s)
    <3>1. CASE s = << >>
      BY <1>1, <1>6, <3>1 DEF Closed
    <3>2. CASE s # << >>
      <4>1. n + 1 > 1 /\ (n + 1) - 1 = n /\ u[n] = s[n]
        BY <1>1, <1>4, <3>2
      <4>2. Closed(s) <=> s[n] # "\\"
        BY <3>2 DEF Closed, EndOf
      <4>3. QED
        BY <4>1, <4>2
    <3>3. QED
      BY <3>1, <3>2
  <2>2. QED
    BY <1>1, <2>1, Zenon DEF Unescaped
<1>9. f \in [1..n -> Seq(Marks)] /\ g \in [1..(n + 1) -> Seq(Marks)]
  BY <1>1, UnescapedIsTyped
<1>10. (\A i \in 1..n : g[i] = f[i]) /\ g[n + 1] = Unescaped(u, n + 1)
  <2>1. n + 1 \in 1..(n + 1) /\ \A i \in 1..n : i \in 1..(n + 1)
    BY <1>1
  <2>2. QED
    BY <1>7, <2>1
<1> HIDE DEF f, g
<1> DEFINE e == Unescaped(u, n + 1)
<1>16. n \in Nat /\ g[n + 1] = e /\ \A i \in 1..n : g[i] = f[i]
  BY <1>1, <1>10
<1> HIDE DEF e, n
<1>11. f \in Seq(Seq(Marks)) /\ e \in Seq(Marks) /\ g = Append(f, e)
  <2>1. f \in Seq(Seq(Marks)) /\ g[n + 1] \in Seq(Marks) /\ g = Append(f, g[n + 1])
    BY <1>9, <1>16, Grown
  <2>2. QED
    BY <1>16, <2>1
<1>12. FlattenSeq(f) \in Seq(Marks) /\ FlattenSeq(g) = FlattenSeq(f) \o e
  BY <1>11, FlattenIsTyped, FlattenAppend
<1>13. Unmarshal(u) = Unmarshal(s) \o e /\ Unmarshal(s) \o << >> = Unmarshal(s)
  BY <1>2, <1>3, <1>12, ConcatEmptySeq
<1>14. /\ b = "\\" => e = <<"lf">>
       /\ b # "\\" /\ Closed(s) => e = <<b>>
       /\ b # "\\" /\ ~Closed(s) => e = << >>
  BY <1>8, Zenon DEF e
<1>15. QED
  BY <1>13, <1>14, Zenon DEF u

(* Nothing unmarshals to nothing. *)
LEMMA UnmarshalNothing == Unmarshal(<< >>) = << >>
<1>1. Len(<< >>) = 0
  BY EmptySeq
<1>2. [i \in 1..0 |-> Unescaped(<< >>, i)] = << >>
  OBVIOUS
<1>3. Unmarshal(<< >>) = FlattenSeq([i \in 1..Len(<< >>) |-> Unescaped(<< >>, i)])
  BY DEF Unmarshal, Unescaped
<1>4. QED
  BY <1>1, <1>2, <1>3, FlattenNothing

\* What is marshalled is what is unmarshalled.
LEMMA Roundtrip ==
  ASSUME NEW t \in Seq(Alphabet)
  PROVE  Unmarshal(Marshal(t)) = t
<1> DEFINE Back(x) == Closed(Marshal(x)) /\ Unmarshal(Marshal(x)) = x
           T == { x \in Seq(Alphabet) : Back(x) }
<1>1. << >> \in T
  BY EmptySeq, MarshalNothing, UnmarshalNothing DEF Closed
<1>2. ASSUME NEW x \in Seq(Alphabet), x \in T, NEW b \in Alphabet
      PROVE  Append(x, b) \in T
  <2> DEFINE m == Marshal(x)
  <2>1. /\ m \in Seq(Inner) /\ Marshal(Append(x, b)) = m \o Escaped(b)
        /\ Append(x, b) \in Seq(Alphabet) /\ Append(x, b) = x \o <<b>>
    BY MarshalAppend, Appended, AppendIsConcat
  <2>2. Closed(m) /\ Unmarshal(m) = x
    BY <1>2
  <2>3. m \in Seq(Bytes)
    BY <2>1, InnerIsPure
  <2> HIDE DEF m
  <2>4. CASE b # "lf"
    <3>1. b \in Bytes /\ b # "\\" /\ Escaped(b) = <<b>>
      BY <2>4, EscapedInner DEF Escaped, Inner, InLine
    <3>2. m \o <<b>> = Append(m, b)
      BY <2>3, <3>1, AppendIsConcat
    <3>3. Unmarshal(Append(m, b)) = x \o <<b>>
      BY <2>2, <2>3, <3>1, UnmarshalAppend
    <3>4. Closed(Append(m, b))
      BY <2>3, <3>1, Appended DEF Closed, EndOf
    <3>5. QED
      BY <2>1, <3>1, <3>2, <3>3, <3>4
  <2>5. CASE b = "lf"
    <3>1. Escaped(b) = <<"\\", "n">> /\ "\\" \in Bytes /\ "n" \in Bytes /\ "n" # "\\"
      BY <2>5 DEF Escaped, Bytes
    <3>2. \A p, q \in Bytes : m \o <<p, q>> = Append(Append(m, p), q)
      <4> SUFFICES ASSUME NEW p \in Bytes, NEW q \in Bytes
                   PROVE  m \o <<p, q>> = Append(Append(m, p), q)
        OBVIOUS
      <4>1. <<p>> \in Seq(Bytes) /\ <<q>> \in Seq(Bytes) /\ <<p>> \o <<q>> = <<p, q>>
        BY Single, Couple
      <4>2. Append(m, p) = m \o <<p>> /\ Append(m, p) \in Seq(Bytes)
        BY <2>3, AppendIsConcat, AppendProperties
      <4>3. Append(Append(m, p), q) = (m \o <<p>>) \o <<q>>
        BY <4>2, AppendIsConcat
      <4>4. (m \o <<p>>) \o <<q>> = m \o (<<p>> \o <<q>>)
        BY <2>3, <4>1, Regrouped
      <4>5. QED
        BY <4>1, <4>3, <4>4, Zenon
    <3> DEFINE k == Append(m, "\\")
               l == Append(k, "n")
    <3>3. Marshal(Append(x, b)) = l
      BY <2>1, <3>1, <3>2, Zenon
    <3>4. k \in Seq(Bytes) /\ ~Closed(k)
      BY <2>3, <3>1, Appended DEF Closed, EndOf
    <3>5. Unmarshal(k) = x \o <<"lf">>
      BY <2>2, <2>3, <3>1, UnmarshalAppend
    <3> HIDE DEF k
    <3>6. Unmarshal(l) = x \o <<"lf">>
      <4>1. Unmarshal(l) = Unmarshal(k)
        BY <3>1, <3>4, UnmarshalAppend
      <4>2. QED
        BY <3>5, <4>1
    <3>7. Closed(l)
      BY <3>1, <3>4, Appended DEF Closed, EndOf
    <3>8. QED
      BY <2>1, <2>5, <3>3, <3>6, <3>7, Zenon
  <2>6. QED
    BY <2>4, <2>5
<1>3. \A x \in Seq(Alphabet) : x \in T
  <2> HIDE DEF T
  <2> QED
    BY <1>1, <1>2, Extending
<1>4. QED
  BY <1>3
-----------------------------------------------------------------------------
(***************************************************************************)
(* The messages of a stream, and what is read in them.                     *)
(***************************************************************************)
DoneMark == <<"[DONE]">>
Invalid == <<"{", "INVALID">>

\* A message of the stream, and its bytes.
Message(p) == p \in Seq(Inner) /\ p # << >> /\ ~IsBad(p)

Enclosed(x, y, m, z) == (<<x, y>> \o m) \o <<z>>

Encloses(q, x, y, m, z) ==
  /\ q \in Seq(Inner) /\ q # << >> /\ Len(q) = Len(m) + 3 /\ Len(m) \in Nat
  /\ Head(q) = x /\ q[2] = y /\ q[Len(q)] = z
  /\ SubSeq(q, 3, Len(q) - 1) = m

(* A payload enclosed in its braces and key, taken apart again. *)
LEMMA Wrapped ==
  ASSUME NEW m \in Seq(Inner)
  PROVE  \A x, y, z \in Inner : Encloses(Enclosed(x, y, m, z), x, y, m, z)
<1> SUFFICES ASSUME NEW x \in Inner, NEW y \in Inner, NEW z \in Inner
             PROVE  Encloses(Enclosed(x, y, m, z), x, y, m, z)
  OBVIOUS
<1> DEFINE c == <<x, y>>
           a == c \o m
           p == a \o <<z>>
           n == Len(m)
<1>13. Enclosed(x, y, m, z) = p
  BY DEF Enclosed
<1>1. c \in Seq(Inner) /\ Len(c) = 2 /\ c[1] = x /\ c[2] = y
  OBVIOUS
<1>2. <<z>> \in Seq(Inner) /\ Len(<<z>>) = 1 /\ <<z>>[1] = z
  OBVIOUS
<1>3. n \in Nat
  BY LenProperties
<1> DEFINE w == <<z>>
<1> HIDE DEF c, w
<1>4. /\ a \in Seq(Inner) /\ Len(a) = 2 + n
      /\ \A i \in 1..(2 + n) : a[i] = IF i <= 2 THEN c[i] ELSE m[i - 2]
  <2>1. /\ a \in Seq(Inner) /\ Len(a) = Len(c) + n
        /\ \A i \in 1..(Len(c) + n) : a[i] = IF i <= Len(c) THEN c[i] ELSE m[i - Len(c)]
    BY <1>1, ConcatProperties
  <2>2. QED
    BY <1>1, <2>1
<1> HIDE DEF a, n
<1>12. p = a \o w /\ w \in Seq(Inner) /\ Len(w) = 1 /\ w[1] = z
  BY <1>2 DEF w
<1> HIDE DEF p
<1>5. /\ p \in Seq(Inner) /\ Len(p) = (2 + n) + 1
      /\ \A i \in 1..((2 + n) + 1) : p[i] = IF i <= 2 + n THEN a[i] ELSE w[i - (2 + n)]
  <2>1. /\ p \in Seq(Inner) /\ Len(p) = Len(a) + Len(w)
        /\ \A i \in 1..(Len(a) + Len(w)) : p[i] = IF i <= Len(a) THEN a[i] ELSE w[i - Len(a)]
    BY <1>4, <1>12, ConcatProperties
  <2>2. QED
    BY <1>4, <1>12, <2>1
<1>6. Len(p) = n + 3 /\ Len(p) - 1 = n + 2 /\ p # << >>
  BY <1>3, <1>5, EmptySeq
<1>7. p[1] = x /\ p[2] = y
  <2>1. /\ 1 \in 1..((2 + n) + 1) /\ 2 \in 1..((2 + n) + 1) /\ 1 <= 2 + n /\ 2 <= 2 + n
        /\ 1 \in 1..(2 + n) /\ 2 \in 1..(2 + n)
    BY <1>3
  <2>2. p[1] = a[1] /\ p[2] = a[2]
    BY <1>5, <2>1
  <2>3. a[1] = c[1] /\ a[2] = c[2]
    BY <1>4, <2>1
  <2>4. QED
    BY <1>1, <2>2, <2>3
<1>8. p[n + 3] = z
  <2> DEFINE k == n + 3
  <2>1. k \in 1..((2 + n) + 1) /\ ~(k <= 2 + n) /\ k - (2 + n) = 1
    BY <1>3
  <2> HIDE DEF k
  <2>2. p[k] = w[k - (2 + n)]
    BY <1>5, <2>1
  <2>3. QED
    BY <1>12, <2>1, <2>2 DEF k
<1>9. SubSeq(p, 3, n + 2) = m
  <2>1. \A i \in 3..(n + 2) : p[i] \in Inner
    BY <1>3, <1>5, <1>6, ElementOfSeq
  <2>2. /\ SubSeq(p, 3, n + 2) \in Seq(Inner)
        /\ Len(SubSeq(p, 3, n + 2)) = IF 3 <= n + 2 THEN (n + 2) - 3 + 1 ELSE 0
        /\ \A i \in 1..((n + 2) - 3 + 1) : SubSeq(p, 3, n + 2)[i] = p[3 + i - 1]
    BY <1>3, <2>1, SubSeqProperties
  <2> DEFINE s == SubSeq(p, 3, n + 2)
  <2> HIDE DEF s
  <2>3. Len(s) = n
    BY <1>3, <2>2 DEF s
  <2>4. \A i \in 1..n : s[i] = m[i]
    <3> SUFFICES ASSUME NEW i \in 1..n
                 PROVE  s[i] = m[i]
      OBVIOUS
    <3>1. /\ i \in 1..((n + 2) - 3 + 1) /\ 3 + i - 1 = i + 2 /\ i + 2 \in 1..((2 + n) + 1)
          /\ i + 2 <= 2 + n /\ i + 2 \in 1..(2 + n) /\ ~(i + 2 <= 2) /\ i + 2 - 2 = i
      BY <1>3
    <3>2. s[i] = p[i + 2]
      BY <2>2, <3>1 DEF s
    <3>3. p[i + 2] = a[i + 2]
      BY <1>5, <3>1
    <3>4. a[i + 2] = m[i]
      BY <1>4, <3>1
    <3>5. QED
      BY <3>2, <3>3, <3>4
  <2>5. s \in Seq(Inner) /\ Len(m) = n
    BY <2>2 DEF s, n
  <2>6. s = m
    BY <2>3, <2>4, <2>5, SeqEqual
  <2>7. QED
    BY <2>6 DEF s
<1>10. Head(p) = x
  BY <1>5, <1>6, <1>7
<1>11. QED
  BY <1>3, <1>5, <1>6, <1>7, <1>8, <1>9, <1>10, <1>13 DEF n, Encloses

(* What IsObject and Holds ask of a message. *)
LEMMA ObjectIs ==
  ASSUME NEW p
  PROVE  /\ Len(p) > 1 /\ Head(p) = "{" /\ p[Len(p)] = "}" => IsObject(p)
         /\ IsObject(p) => Len(p) > 1 /\ p[Len(p)] = "}"
         /\ \A k : Holds(k, p) => IsObject(p) /\ Len(p) > 2 /\ p[2] = k
         /\ \A k : IsObject(p) /\ Len(p) > 2 /\ p[2] = k => Holds(k, p)
BY Zenon DEF IsObject, Holds

Keys == {"text:", "full:"}

(* A payload is an object of its key, and its text is the one marshalled into it. *)
LEMMA PayloadRead ==
  ASSUME NEW key \in Keys, NEW t \in Seq(Alphabet)
  PROVE  LET p == Payload(key, t)
         IN /\ Message(p) /\ TextOf(p) = t
            /\ \A k \in Keys : Holds(k, p) <=> k = key
<1> DEFINE p == Payload(key, t)
           m == Marshal(t)
<1>1. "{" \in Inner /\ "}" \in Inner /\ key \in Inner
  BY DEF Keys, Inner, InLine, Bytes
<1>2. m \in Seq(Inner)
  BY MarshalIsTyped
<1>3. p = Enclosed("{", key, m, "}")
  BY DEF Payload, Enclosed
<1>4. Unmarshal(m) = t
  BY Roundtrip
<1> HIDE DEF p, m
<1>5. /\ p \in Seq(Inner) /\ p # << >> /\ Len(p) = Len(m) + 3 /\ Len(m) \in Nat
      /\ Head(p) = "{" /\ p[2] = key /\ p[Len(p)] = "}"
      /\ SubSeq(p, 3, Len(p) - 1) = m
  <2>1. Encloses(p, "{", key, m, "}")
    BY <1>1, <1>2, <1>3, Wrapped, Zenon
  <2>2. QED
    BY <2>1, Zenon DEF Encloses
<1>6. IsObject(p) /\ Len(p) > 2
  <2>1. Len(p) = Len(m) + 3 /\ Len(m) \in Nat
    BY <1>5, Zenon
  <2>2. Len(p) > 1 /\ Len(p) > 2
    BY <2>1
  <2>3. QED
    BY <1>5, <2>2, ObjectIs, Zenon
<1>7. Message(p)
  BY <1>5, <1>6 DEF Message, IsBad
<1>8. TextOf(p) = t
  BY <1>4, <1>5 DEF TextOf
<1>9. \A k : Holds(k, p) <=> k = key
  BY <1>5, <1>6 DEF Holds
<1>10. QED
  BY <1>7, <1>8, <1>9 DEF p

(* The messages that carry no text, and the corrupt chunk, which is no message. *)
LEMMA OtherMessages ==
  /\ Message(Plain) /\ Message(DoneMark)
  /\ \A k : ~Holds(k, Plain) /\ ~Holds(k, DoneMark) /\ ~Holds(k, Invalid)
  /\ Invalid \in Seq(Inner) /\ Invalid # << >> /\ IsBad(Invalid)
<1>1. /\ "{" \in Inner /\ "}" \in Inner /\ "[DONE]" \in Inner /\ "INVALID" \in Inner
      /\ "INVALID" # "}"
  BY DEF Inner, InLine, Bytes
<1>2. \A x, y \in Inner : /\ <<x, y>> \in Seq(Inner) /\ <<x, y>> # << >> /\ Len(<<x, y>>) = 2
                          /\ Head(<<x, y>>) = x /\ <<x, y>>[2] = y
                          /\ \A z : <<x, y>> # <<z>>
  OBVIOUS
<1>3. \A x \in Inner : <<x>> \in Seq(Inner) /\ <<x>> # << >> /\ Len(<<x>>) = 1
  OBVIOUS
<1>4. /\ Plain \in Seq(Inner) /\ Plain # << >> /\ Len(Plain) = 2 /\ Head(Plain) = "{"
      /\ Plain[2] = "}"
  BY <1>1, <1>2, Zenon DEF Plain
<1>5. /\ Invalid \in Seq(Inner) /\ Invalid # << >> /\ Len(Invalid) = 2
      /\ Invalid[2] = "INVALID" /\ Invalid # DoneMark
  BY <1>1, <1>2, Zenon DEF Invalid, DoneMark
<1>6. DoneMark \in Seq(Inner) /\ DoneMark # << >> /\ Len(DoneMark) = 1
  BY <1>1, <1>3, Zenon DEF DoneMark
<1>7. IsObject(Plain) /\ \A k : ~Holds(k, Plain)
  <2>1. Len(Plain) = 2
    BY <1>4, Zenon
  <2>2. Len(Plain) > 1 /\ ~(Len(Plain) > 2)
    BY <2>1
  <2>3. QED
    BY <1>4, <2>1, <2>2, ObjectIs, Zenon
<1>8. ~IsObject(DoneMark) /\ ~IsObject(Invalid)
  <2>1. ~(Len(DoneMark) > 1)
    BY <1>6
  <2>2. ~(Invalid[Len(Invalid)] = "}")
    BY <1>1, <1>5, Zenon
  <2>3. QED
    BY <2>1, <2>2, ObjectIs, Zenon
<1>9. (\A k : ~Holds(k, DoneMark)) /\ (\A k : ~Holds(k, Invalid))
  BY <1>8 DEF Holds
<1>10. ~IsBad(Plain) /\ ~IsBad(DoneMark) /\ IsBad(Invalid)
  BY <1>5, <1>7, <1>8 DEF IsBad, DoneMark
<1>11. QED
  BY <1>4, <1>5, <1>6, <1>7, <1>9, <1>10 DEF Message

\* What a payload adds to the text read.
Said(p) == IF Holds("text:", p) THEN TextOf(p) ELSE << >>
AllSaid(r) == [i \in 1..Len(r) |-> Said(r[i])]

(* What a message says is a text. *)
LEMMA SaidIsTyped ==
  ASSUME NEW p \in Seq(Bytes)
  PROVE  Said(p) \in Seq(Marks)
<1> DEFINE s == SubSeq(p, 3, Len(p) - 1)
<1>1. Len(p) \in Nat
  BY LenProperties
<1>2. \A i \in 3..(Len(p) - 1) : p[i] \in Bytes
  <2>1. \A i \in 3..(Len(p) - 1) : i \in 1..Len(p)
    BY <1>1
  <2>2. QED
    BY <2>1, ElementOfSeq
<1>3. s \in Seq(Bytes)
  BY <1>1, <1>2, SubSeqProperties
<1> HIDE DEF s
<1>4. Unmarshal(s) \in Seq(Marks)
  BY <1>3, UnmarshalIsTyped
<1>5. << >> \in Seq(Marks)
  BY EmptySeq
<1>6. QED
  BY <1>4, <1>5 DEF Said, TextOf, s

(* Only the deltas say something. *)
LEMMA SaidInMessages ==
  /\ \A t \in Seq(Alphabet) :
       Said(Payload("text:", t)) = t /\ Said(Payload("full:", t)) = << >>
  /\ Said(Plain) = << >> /\ Said(DoneMark) = << >> /\ Said(Invalid) = << >>
<1>1. "text:" \in Keys /\ "full:" \in Keys /\ "text:" # "full:"
  BY DEF Keys
<1>2. \A t \in Seq(Alphabet) : \A key \in Keys :
        /\ TextOf(Payload(key, t)) = t
        /\ Holds("text:", Payload(key, t)) <=> "text:" = key
  BY <1>1, PayloadRead
<1>3. \A t \in Seq(Alphabet) :
        Said(Payload("text:", t)) = t /\ Said(Payload("full:", t)) = << >>
  BY <1>1, <1>2, Zenon DEF Said
<1>4. QED
  BY <1>3, OtherMessages DEF Said

(* The texts of all messages, one by one. *)
LEMMA AllSaidIsTyped ==
  ASSUME NEW r \in Seq(Seq(Bytes))
  PROVE  /\ AllSaid(r) \in Seq(Seq(Marks)) /\ Len(AllSaid(r)) = Len(r) /\ Len(r) \in Nat
         /\ \A i \in 1..Len(r) : AllSaid(r)[i] = Said(r[i])
         /\ TextRead(r) = FlattenSeq(AllSaid(r)) /\ TextRead(r) \in Seq(Marks)
<1>1. Len(r) \in Nat /\ \A i \in 1..Len(r) : r[i] \in Seq(Bytes)
  BY LenProperties, ElementOfSeq
<1>2. AllSaid(r) \in [1..Len(r) -> Seq(Marks)]
  BY <1>1, SaidIsTyped DEF AllSaid
<1>3. AllSaid(r) \in Seq(Seq(Marks)) /\ Len(AllSaid(r)) = Len(r)
  BY <1>1, <1>2, Functional
<1>4. TextRead(r) = FlattenSeq(AllSaid(r))
  BY DEF TextRead, AllSaid, Said
<1>5. \A i \in 1..Len(r) : AllSaid(r)[i] = Said(r[i])
  BY DEF AllSaid
<1>6. QED
  BY <1>1, <1>3, <1>4, <1>5, FlattenIsTyped

(* The text of messages in two parts is that of the one and that of the other. *)
LEMMA TextReadConcat ==
  ASSUME NEW r \in Seq(Seq(Bytes)), NEW s \in Seq(Seq(Bytes))
  PROVE  TextRead(r \o s) = TextRead(r) \o TextRead(s)
<1> DEFINE v == r \o s
           a == AllSaid(r)
           b == AllSaid(s)
           c == AllSaid(v)
           d == a \o b
<1>1. /\ v \in Seq(Seq(Bytes)) /\ Len(v) = Len(r) + Len(s)
      /\ \A i \in 1..(Len(r) + Len(s)) : v[i] = IF i <= Len(r) THEN r[i] ELSE s[i - Len(r)]
  BY ConcatProperties
<1> HIDE DEF v
<1>2. /\ a \in Seq(Seq(Marks)) /\ Len(a) = Len(r) /\ Len(r) \in Nat
      /\ \A i \in 1..Len(r) : a[i] = Said(r[i])
      /\ TextRead(r) = FlattenSeq(a)
  BY AllSaidIsTyped
<1>3. /\ b \in Seq(Seq(Marks)) /\ Len(b) = Len(s) /\ Len(s) \in Nat
      /\ \A i \in 1..Len(s) : b[i] = Said(s[i])
      /\ TextRead(s) = FlattenSeq(b)
  BY AllSaidIsTyped
<1>4. /\ c \in Seq(Seq(Marks)) /\ Len(c) = Len(v)
      /\ \A i \in 1..Len(v) : c[i] = Said(v[i])
      /\ TextRead(v) = FlattenSeq(c)
  BY <1>1, AllSaidIsTyped
<1> HIDE DEF a, b, c
<1>5. /\ d \in Seq(Seq(Marks)) /\ Len(d) = Len(a) + Len(b)
      /\ \A i \in 1..(Len(a) + Len(b)) : d[i] = IF i <= Len(a) THEN a[i] ELSE b[i - Len(a)]
  <2>1. a \in Seq(Seq(Marks)) /\ b \in Seq(Seq(Marks))
    BY <1>2, <1>3
  <2>2. QED
    BY <2>1, ConcatProperties
<1> HIDE DEF d
<1>6. \A i \in 1..Len(c) : c[i] = d[i]
  <2> SUFFICES ASSUME NEW i \in 1..(Len(r) + Len(s))
               PROVE  c[i] = d[i]
    BY <1>1, <1>4
  <2>1. CASE i <= Len(r)
    <3>1. i \in 1..Len(r) /\ i \in 1..(Len(a) + Len(b)) /\ i <= Len(a) /\ i \in 1..Len(v)
      BY <1>1, <1>2, <1>3, <2>1
    <3>2. v[i] = r[i] /\ d[i] = a[i] /\ c[i] = Said(v[i]) /\ a[i] = Said(r[i])
      BY <1>1, <1>2, <1>4, <1>5, <2>1, <3>1
    <3>3. QED
      BY <3>2
  <2>2. CASE ~(i <= Len(r))
    <3>1. i - Len(r) \in 1..Len(s)
      BY <1>2, <1>3, <2>2
    <3>2. v[i] = s[i - Len(r)] /\ d[i] = b[i - Len(r)] /\ c[i] = Said(v[i])
      BY <1>1, <1>2, <1>3, <1>4, <1>5, <2>2
    <3>3. QED
      BY <1>3, <3>1, <3>2
  <2>3. QED
    BY <2>1, <2>2
<1>7. c = d
  BY <1>1, <1>2, <1>3, <1>4, <1>5, <1>6, SeqEqual
<1>8. FlattenSeq(d) = FlattenSeq(a) \o FlattenSeq(b)
  BY <1>2, <1>3, FlattenConcat DEF d
<1>9. QED
  BY <1>2, <1>3, <1>4, <1>7, <1>8 DEF v

(* The text of no message, and of one. *)
LEMMA TextReadOne ==
  /\ TextRead(<< >>) = << >>
  /\ \A p \in Seq(Bytes) : TextRead(<<p>>) = Said(p)
<1>1. TextRead(<< >>) = << >>
  <2>1. Len(<< >>) = 0
    BY EmptySeq
  <2>2. AllSaid(<< >>) = << >>
    BY <2>1 DEF AllSaid
  <2>3. << >> \in Seq(Seq(Bytes))
    BY EmptySeq
  <2>4. TextRead(<< >>) = FlattenSeq(AllSaid(<< >>))
    BY <2>3, AllSaidIsTyped
  <2>5. QED
    BY <2>2, <2>4, FlattenNothing
<1>2. ASSUME NEW p \in Seq(Bytes)
      PROVE  TextRead(<<p>>) = Said(p)
  <2> DEFINE r == <<p>>
             e == Said(p)
  <2>1. r \in Seq(Seq(Bytes)) /\ Len(r) = 1 /\ r[1] = p
    BY Single
  <2>2. e \in Seq(Marks)
    BY SaidIsTyped
  <2> HIDE DEF r, e
  <2>3. /\ AllSaid(r) \in Seq(Seq(Marks)) /\ Len(AllSaid(r)) = 1
        /\ AllSaid(r)[1] = Said(r[1])
        /\ TextRead(r) = FlattenSeq(AllSaid(r))
    <3>1. 1 \in 1..Len(r)
      BY <2>1
    <3>2. QED
      BY <2>1, <3>1, AllSaidIsTyped
  <2>4. <<e>> \in Seq(Seq(Marks)) /\ Len(<<e>>) = 1 /\ <<e>>[1] = e
    BY <2>2, Single
  <2> DEFINE w == <<e>>
  <2> HIDE DEF w
  <2>5. AllSaid(r) = w
    <3>1. \A i \in 1..1 : AllSaid(r)[i] = w[i]
      BY <2>1, <2>3, <2>4 DEF w, e
    <3>2. QED
      BY <2>3, <2>4, <3>1, SeqEqual DEF w
  <2>6. FlattenSeq(w) = e
    BY <2>2, FlattenOne DEF w
  <2>7. QED
    BY <2>3, <2>5, <2>6 DEF r, e
<1>3. QED
  BY <1>1, <1>2

(* A sequence is a prefix of what it begins. *)
LEMMA PrefixOf ==
  ASSUME NEW S, NEW x \in Seq(S), NEW y \in Seq(S)
  PROVE  IsPrefix(x, x \o y)
<1> DEFINE z == x \o y
           n == Len(x)
<1>1. /\ z \in Seq(S) /\ Len(z) = n + Len(y) /\ n \in Nat /\ Len(y) \in Nat
      /\ \A i \in 1..(n + Len(y)) : z[i] = IF i <= n THEN x[i] ELSE y[i - n]
  BY ConcatProperties, LenProperties
<1> HIDE DEF z
<1>2. n <= Len(z) /\ SubSeq(x, 1, n) = x
  BY <1>1, SubSeqFull
<1>3. \A i \in 1..n : i \in 1..(n + Len(y)) /\ i <= n
  BY <1>1
<1>4. \A i \in 1..n : z[i] = x[i] /\ x[i] \in S
  BY <1>1, <1>3, ElementOfSeq
<1>5. /\ SubSeq(z, 1, n) \in Seq(S) /\ Len(SubSeq(z, 1, n)) = n
      /\ \A i \in 1..n : SubSeq(z, 1, n)[i] = z[i]
  <2>1. /\ SubSeq(z, 1, n) \in Seq(S) /\ Len(SubSeq(z, 1, n)) = IF 1 <= n THEN n - 1 + 1 ELSE 0
        /\ \A i \in 1..(n - 1 + 1) : SubSeq(z, 1, n)[i] = z[1 + i - 1]
    BY <1>1, <1>4, SubSeqProperties
  <2> DEFINE w == SubSeq(z, 1, n)
  <2> HIDE DEF w
  <2>2. /\ w \in Seq(S) /\ Len(w) = n /\ \A i \in 1..n : w[i] = z[i]
    BY <1>1, <2>1 DEF w
  <2>3. QED
    BY <2>2 DEF w
<1>6. SubSeq(z, 1, n) = x
  BY <1>4, <1>5, SeqEqual
<1>7. QED
  BY <1>2, <1>6 DEF IsPrefix, z, n
-----------------------------------------------------------------------------
(***************************************************************************)
(* The deltas of a stream, put together, are the text of the answer.       *)
(***************************************************************************)
Shuffles(a, b, c, d) == (a \o b) \o (c \o d) = (a \o (b \o c)) \o d

(* The ways to bracket four texts. *)
LEMMA Shuffled ==
  ASSUME NEW a \in Seq(Alphabet), NEW b \in Seq(Alphabet), NEW c \in Seq(Alphabet),
         NEW d \in Seq(Alphabet)
  PROVE  Shuffles(a, b, c, d)
<1>1. a \o b \in Seq(Alphabet)
  BY ConcatProperties
<1>2. (a \o b) \o c = a \o (b \o c)
  BY ConcatAssociative
<1> DEFINE x == a \o b
<1>3. x \in Seq(Alphabet)
  BY <1>1
<1> HIDE DEF x
<1>4. (x \o c) \o d = x \o (c \o d)
  BY <1>3, ConcatAssociative
<1>5. QED
  BY <1>2, <1>4, Zenon DEF Shuffles, x

Gap == <<" ">>
Stop == <<".">>

(* The blank between words and the full stop are text. *)
LEMMA GapIsTyped == Gap \in Seq(Alphabet) /\ Stop \in Seq(Alphabet) /\ Upper(" ") = " "
<1>1. " " \in Alphabet /\ "." \in Alphabet
  BY AlphabetAssumption
<1>2. \A b \in Alphabet : <<b>> \in Seq(Alphabet)
  BY Single
<1>3. Gap \in Seq(Alphabet) /\ Stop \in Seq(Alphabet)
  BY <1>1, <1>2, Zenon DEF Gap, Stop
<1>4. Upper(" ") = " "
  BY DEF Upper
<1>5. QED
  BY <1>3, <1>4

(* A capitalized text is a text. *)
LEMMA CapIsTyped ==
  ASSUME NEW t \in Seq(Alphabet)
  PROVE  capitalize(t) \in Seq(Alphabet)
<1>1. CASE t = << >>
  BY <1>1 DEF capitalize
<1>2. CASE t # << >>
  <2>1. Head(t) \in Alphabet /\ Tail(t) \in Seq(Alphabet)
    BY <1>2, HeadTailProperties
  <2>2. Upper(Head(t)) \in Alphabet
    BY <2>1, AlphabetAssumption
  <2>3. <<Upper(Head(t))>> \o Tail(t) \in Seq(Alphabet)
    BY <2>1, <2>2, Headed
  <2>4. QED
    BY <1>2, <2>3 DEF capitalize
<1>3. QED
  BY <1>1, <1>2

(* Nothing to capitalize. *)
LEMMA CapNothing == capitalize(<< >>) = << >>
BY DEF capitalize

(* The first word decides what is capitalized (openai.go:492). *)
LEMMA CapOf ==
  ASSUME NEW s \in Seq(Alphabet), NEW t \in Seq(Alphabet)
  PROVE  capitalize(s \o (Gap \o t)) = capitalize(s) \o (Gap \o t)
<1> DEFINE x == Gap \o t
<1>1. x \in Seq(Alphabet)
  BY GapIsTyped, ConcatProperties
<1>2. CASE s = << >>
  <2>1. x # << >> /\ Head(x) = " " /\ Tail(x) = t
    <3>1. " " \in Alphabet
      BY AlphabetAssumption
    <3>2. \A b \in Alphabet : <<b>> \o t # << >> /\ Head(<<b>> \o t) = b /\ Tail(<<b>> \o t) = t
      BY Headed
    <3>3. QED
      BY <3>1, <3>2, Zenon DEF Gap
  <2>2. capitalize(x) = x
    <3>1. capitalize(x) = <<Upper(Head(x))>> \o Tail(x)
      BY <2>1, Zenon DEF capitalize
    <3>2. QED
      BY <2>1, <3>1, GapIsTyped, Zenon DEF Gap
  <2> HIDE DEF x
  <2>3. << >> \o x = x
    BY <1>1, ConcatEmptySeq
  <2>4. QED
    BY <1>2, <2>2, <2>3, CapNothing DEF x
<1>3. CASE s # << >>
  <2> HIDE DEF x
  <2> DEFINE h == Head(s)
             r == Tail(s)
  <2>1. h \in Alphabet /\ r \in Seq(Alphabet) /\ Upper(h) \in Alphabet
    BY <1>3, HeadTailProperties, AlphabetAssumption
  <2>2. s = <<h>> \o r
    <3>1. /\ s \in Seq(Alphabet) /\ Len(s) \in Nat \ {0} /\ Head(s) = s[1] /\ Len(r) = Len(s) - 1
          /\ \A i \in 1..Len(r) : r[i] = s[i + 1]
      BY <1>3, HeadTailProperties, EmptySeq
    <3> DEFINE m == <<h>> \o r
    <3>2. /\ m \in Seq(Alphabet) /\ Len(m) = 1 + Len(r) /\ m[1] = h
          /\ \A i \in 1..Len(r) : m[i + 1] = r[i]
      BY <2>1, Headed
    <3> HIDE DEF m, r
    <3>3. \A i \in 1..Len(s) : s[i] = m[i]
      <4> SUFFICES ASSUME NEW i \in 1..Len(s)
                   PROVE  s[i] = m[i]
        OBVIOUS
      <4>1. CASE i = 1
        BY <3>1, <3>2, <4>1
      <4>2. CASE i # 1
        <5> DEFINE j == i - 1
        <5>1. j \in 1..Len(r) /\ j + 1 = i
          BY <3>1, <4>2
        <5> HIDE DEF j
        <5>2. r[j] = s[j + 1] /\ m[j + 1] = r[j]
          BY <3>1, <3>2, <5>1
        <5>3. QED
          BY <5>1, <5>2
      <4>3. QED
        BY <4>1, <4>2
    <3>4. Len(s) = Len(m)
      BY <3>1, <3>2
    <3>5. QED
      BY <3>2, <3>3, <3>4, SeqEqual DEF m, r
  <2>3. s \o x \in Seq(Alphabet) /\ s \o x = <<h>> \o (r \o x)
        /\ r \o x \in Seq(Alphabet)
    <3>1. <<h>> \in Seq(Alphabet)
      BY <2>1, Single
    <3> HIDE DEF h, r
    <3>2. (<<h>> \o r) \o x = <<h>> \o (r \o x)
      BY <1>1, <2>1, <3>1, Regrouped
    <3>3. QED
      BY <1>1, <2>1, <2>2, <3>2, ConcatProperties
  <2> HIDE DEF h, r
  <2>4. s \o x # << >> /\ Head(s \o x) = h /\ Tail(s \o x) = r \o x
    BY <2>1, <2>3, Headed
  <2>5. capitalize(s \o x) = <<Upper(h)>> \o (r \o x)
    BY <2>4, Zenon DEF capitalize
  <2>6. capitalize(s) = <<Upper(h)>> \o r
    BY <1>3, Zenon DEF capitalize, h, r
  <2>7. (<<Upper(h)>> \o r) \o x = <<Upper(h)>> \o (r \o x)
    <3> DEFINE u == <<Upper(h)>>
    <3>1. u \in Seq(Alphabet)
      BY <2>1, Single
    <3> HIDE DEF u
    <3>2. \A a, b, c \in Seq(Alphabet) : (a \o b) \o c = a \o (b \o c)
      BY Regrouped
    <3>3. QED
      BY <1>1, <2>1, <3>1, <3>2, Zenon DEF u
  <2>8. QED
    BY <2>5, <2>6, <2>7, Zenon DEF x
<1>4. QED
  BY <1>2, <1>3

(* One word more, joined by a blank. *)
LEMMA JoinedAppend ==
  ASSUME NEW w \in Seq(Seq(Alphabet)), NEW x \in Seq(Alphabet)
  PROVE  /\ Joined(w) \in Seq(Alphabet)
         /\ Joined(Append(w, x)) =
              IF w = << >> THEN x ELSE Joined(w) \o (Gap \o x)
<1> DEFINE n == Len(w)
           u == Append(w, x)
           piece(i, y) == IF i = 1 THEN y ELSE Gap \o y
           f == [i \in 1..n |-> piece(i, w[i])]
           g == [i \in 1..(n + 1) |-> piece(i, u[i])]
<1>1. /\ n \in Nat /\ u \in Seq(Seq(Alphabet)) /\ Len(u) = n + 1
      /\ \A i \in 1..n : u[i] = w[i]
      /\ u[n + 1] = x
  BY Appended
<1>2. Joined(w) = FlattenSeq(f)
  BY DEF Joined, Gap
<1>3. Joined(u) = FlattenSeq(g)
  BY <1>1 DEF Joined, Gap
<1>4. (\A i \in 1..n : w[i] \in Seq(Alphabet)) /\ (\A i \in 1..(n + 1) : u[i] \in Seq(Alphabet))
  BY <1>1, ElementOfSeq
<1>5. \A i : \A y \in Seq(Alphabet) : piece(i, y) \in Seq(Alphabet)
  BY GapIsTyped, ConcatProperties
<1>6. w = << >> <=> n = 0
  BY EmptySeq
<1> HIDE DEF n, u, piece
<1>7. f \in [1..n -> Seq(Alphabet)] /\ g \in [1..(n + 1) -> Seq(Alphabet)]
  BY <1>4, <1>5
<1>8. (\A i \in 1..n : g[i] = f[i]) /\ g[n + 1] = piece(n + 1, x)
  <2>1. n + 1 \in 1..(n + 1) /\ \A i \in 1..n : i \in 1..(n + 1)
    BY <1>1
  <2>2. QED
    BY <1>1, <2>1
<1> HIDE DEF f, g
<1>9. f \in Seq(Seq(Alphabet)) /\ g = Append(f, piece(n + 1, x))
  BY <1>1, <1>7, <1>8, Grown
<1>10. piece(n + 1, x) \in Seq(Alphabet)
  BY <1>5
<1>11. FlattenSeq(f) \in Seq(Alphabet) /\ FlattenSeq(g) = FlattenSeq(f) \o piece(n + 1, x)
  BY <1>9, <1>10, FlattenIsTyped, FlattenAppend
<1>12. CASE w = << >>
  <2>1. n + 1 = 1
    BY <1>6, <1>12
  <2>2. piece(n + 1, x) = x
    BY <2>1 DEF piece
  <2>3. Joined(w) = << >>
    <3>1. f = << >>
      BY <1>6, <1>12 DEF f
    <3>2. QED
      BY <1>2, <3>1, FlattenNothing
  <2>4. << >> \o x = x
    BY ConcatEmptySeq
  <2>5. QED
    BY <1>2, <1>3, <1>11, <1>12, <2>2, <2>3, <2>4, Zenon DEF u
<1>13. CASE w # << >>
  <2>1. n + 1 # 1
    BY <1>1, <1>6, <1>13
  <2>2. piece(n + 1, x) = Gap \o x
    BY <2>1 DEF piece
  <2>3. QED
    BY <1>2, <1>3, <1>11, <1>13, <2>2, Zenon DEF u
<1>14. QED
  BY <1>12, <1>13

\* Words with the blank, and the end, that follow them in a stream.
Cap(i, y, p) == IF i = 1 /\ ~p THEN capitalize(y) ELSE y
End(p) == IF p THEN << >> ELSE Stop
Leading(w, p) == [i \in 1..Len(w) |-> Cap(i, w[i], p) \o Gap]
Text(w, p) == IF p THEN Joined(w) ELSE capitalize(Joined(w))

(* The pieces of a decorated word are text. *)
LEMMA EndsAreTyped ==
  ASSUME NEW i, NEW y \in Seq(Alphabet), NEW p \in BOOLEAN
  PROVE  /\ Cap(i, y, p) \in Seq(Alphabet) /\ End(p) \in Seq(Alphabet)
         /\ Cap(i, y, p) \o Gap \in Seq(Alphabet) /\ Cap(i, y, p) \o End(p) \in Seq(Alphabet)
<1>1. Cap(i, y, p) \in Seq(Alphabet)
  BY CapIsTyped DEF Cap
<1>2. End(p) \in Seq(Alphabet)
  BY GapIsTyped, EmptySeq DEF End
<1>3. QED
  BY <1>1, <1>2, GapIsTyped, ConcatProperties

(* One word more: the word before is followed by a blank, the new one by the end. *)
LEMMA LeadingAppend ==
  ASSUME NEW w \in Seq(Seq(Alphabet)), NEW x \in Seq(Alphabet), NEW p \in BOOLEAN
  PROVE  /\ Leading(w, p) \in Seq(Seq(Alphabet))
         /\ Leading(Append(w, x), p) = Append(Leading(w, p), Cap(Len(w) + 1, x, p) \o Gap)
         /\ Decorated(Append(w, x), p) = Append(Leading(w, p), Cap(Len(w) + 1, x, p) \o End(p))
<1> DEFINE n == Len(w)
           u == Append(w, x)
           f == [i \in 1..n |-> Cap(i, w[i], p) \o Gap]
           g == [i \in 1..(n + 1) |-> Cap(i, u[i], p) \o Gap]
           h == [i \in 1..(n + 1) |-> Cap(i, u[i], p) \o (IF i = n + 1 THEN End(p) ELSE Gap)]
<1>1. /\ n \in Nat /\ u \in Seq(Seq(Alphabet)) /\ Len(u) = n + 1
      /\ \A i \in 1..n : u[i] = w[i]
      /\ u[n + 1] = x
  BY Appended
<1>2. Leading(w, p) = f
  BY DEF Leading
<1>3. Leading(u, p) = g
  BY <1>1 DEF Leading
<1>4. Decorated(u, p) = h
  BY <1>1 DEF Decorated, Cap, End, Gap, Stop
<1>5. (\A i \in 1..n : w[i] \in Seq(Alphabet)) /\ (\A i \in 1..(n + 1) : u[i] \in Seq(Alphabet))
  BY <1>1, ElementOfSeq
<1> HIDE DEF n, u
<1>6. /\ f \in [1..n -> Seq(Alphabet)] /\ g \in [1..(n + 1) -> Seq(Alphabet)]
      /\ h \in [1..(n + 1) -> Seq(Alphabet)]
  <2>1. /\ \A i \in 1..n : Cap(i, w[i], p) \o Gap \in Seq(Alphabet)
        /\ \A i \in 1..(n + 1) : /\ Cap(i, u[i], p) \o Gap \in Seq(Alphabet)
                                 /\ Cap(i, u[i], p) \o End(p) \in Seq(Alphabet)
    BY <1>5, EndsAreTyped
  <2>2. QED
    BY <2>1
<1>7. /\ \A i \in 1..n : g[i] = f[i] /\ h[i] = f[i]
      /\ g[n + 1] = Cap(n + 1, x, p) \o Gap
      /\ h[n + 1] = Cap(n + 1, x, p) \o End(p)
  <2>1. n + 1 \in 1..(n + 1) /\ \A i \in 1..n : i \in 1..(n + 1) /\ i # n + 1
    BY <1>1
  <2>2. QED
    BY <1>1, <2>1
<1>11. n \in Nat /\ (\A i \in 1..n : g[i] = f[i]) /\ (\A i \in 1..n : h[i] = f[i])
  BY <1>1, <1>7
<1> HIDE DEF f, g, h
<1>8. f \in Seq(Seq(Alphabet)) /\ g = Append(f, g[n + 1])
  <2>1. /\ n \in Nat /\ f \in [1..n -> Seq(Alphabet)] /\ g \in [1..(n + 1) -> Seq(Alphabet)]
        /\ \A i \in 1..n : g[i] = f[i]
    BY <1>6, <1>11
  <2>2. QED
    BY <2>1, Grown
<1>9. h = Append(f, h[n + 1])
  <2>1. /\ n \in Nat /\ f \in [1..n -> Seq(Alphabet)] /\ h \in [1..(n + 1) -> Seq(Alphabet)]
        /\ \A i \in 1..n : h[i] = f[i]
    BY <1>6, <1>11
  <2>2. QED
    BY <2>1, Grown
<1>10. QED
  BY <1>2, <1>3, <1>4, <1>7, <1>8, <1>9, Zenon DEF u, n

(* One word more in the unstreamed text. *)
LEMMA CapText ==
  ASSUME NEW w \in Seq(Seq(Alphabet)), NEW x \in Seq(Alphabet), NEW p \in BOOLEAN
  PROVE  /\ Text(w, p) \in Seq(Alphabet)
         /\ w = << >> => Text(Append(w, x), p) = Cap(Len(w) + 1, x, p)
         /\ w # << >> => /\ Text(Append(w, x), p) = Text(w, p) \o (Gap \o x)
                         /\ Cap(Len(w) + 1, x, p) = x
<1>1. /\ Joined(w) \in Seq(Alphabet)
      /\ Joined(Append(w, x)) = IF w = << >> THEN x ELSE Joined(w) \o (Gap \o x)
  BY JoinedAppend
<1>2. Text(w, p) \in Seq(Alphabet)
  BY <1>1, CapIsTyped DEF Text
<1>3. w = << >> => Len(w) + 1 = 1
  BY EmptySeq
<1>4. w # << >> => Len(w) + 1 # 1
  BY EmptySeq
<1>5. ASSUME w = << >>
      PROVE  Text(Append(w, x), p) = Cap(Len(w) + 1, x, p)
  BY <1>1, <1>3, <1>5, Zenon DEF Text, Cap
<1>6. ASSUME w # << >>
      PROVE  /\ Text(Append(w, x), p) = Text(w, p) \o (Gap \o x)
             /\ Cap(Len(w) + 1, x, p) = x
  <2>1. Joined(Append(w, x)) = Joined(w) \o (Gap \o x)
    BY <1>1, <1>6
  <2>2. capitalize(Joined(w) \o (Gap \o x)) = capitalize(Joined(w)) \o (Gap \o x)
    BY <1>1, CapOf
  <2>3. QED
    BY <1>4, <1>6, <2>1, <2>2, Zenon DEF Text, Cap
<1>7. QED
  BY <1>2, <1>5, <1>6

(* The words but the last, streamed, join to the text of them. *)
LEMMA LeadingText ==
  ASSUME NEW p \in BOOLEAN
  PROVE  \A w \in Seq(Seq(Alphabet)) :
           IF w = << >> THEN Leading(w, p) = << >>
           ELSE FlattenSeq(Leading(w, p)) = Text(w, p) \o Gap
<1> DEFINE Leads(w) == IF w = << >> THEN Leading(w, p) = << >>
                       ELSE FlattenSeq(Leading(w, p)) = Text(w, p) \o Gap
           T == { w \in Seq(Seq(Alphabet)) : Leads(w) }
<1>1. << >> \in T
  <2>1. Len(<< >>) = 0 /\ << >> \in Seq(Seq(Alphabet))
    BY EmptySeq
  <2>2. Leading(<< >>, p) = << >>
    BY <2>1 DEF Leading
  <2>3. QED
    BY <2>1, <2>2
<1>2. ASSUME NEW w \in Seq(Seq(Alphabet)), w \in T, NEW x \in Seq(Alphabet)
      PROVE  Append(w, x) \in T
  <2> DEFINE u == Append(w, x)
             c == Cap(Len(w) + 1, x, p)
             F == Leading(w, p)
  <2>1. u \in Seq(Seq(Alphabet)) /\ u # << >>
    BY Appended
  <2>2. /\ F \in Seq(Seq(Alphabet)) /\ Leading(u, p) = Append(F, c \o Gap)
        /\ c \o Gap \in Seq(Alphabet)
    BY LeadingAppend, EndsAreTyped
  <2>3. FlattenSeq(Leading(u, p)) = FlattenSeq(F) \o (c \o Gap)
    <3> HIDE DEF F, c, u
    <3> QED
      BY <2>2, FlattenAppend
  <2>4. CASE w = << >>
    <3>1. F = << >>
      BY <1>2, <2>4
    <3>2. Text(u, p) = c
      BY <2>4, CapText
    <3>3. << >> \o (c \o Gap) = c \o Gap
      <4> HIDE DEF c
      <4> QED
        BY <2>2, ConcatEmptySeq
    <3>4. FlattenSeq(Leading(u, p)) = Text(u, p) \o Gap
      BY <2>3, <3>1, <3>2, <3>3, FlattenNothing, Zenon
    <3>5. QED
      BY <2>1, <3>4
  <2>5. CASE w # << >>
    <3>1. FlattenSeq(F) = Text(w, p) \o Gap
      BY <1>2, <2>5
    <3>2. Text(u, p) = Text(w, p) \o (Gap \o x) /\ c = x /\ Text(w, p) \in Seq(Alphabet)
      BY <2>5, CapText
    <3>4. FlattenSeq(Leading(u, p)) = Text(u, p) \o Gap
      <4> DEFINE v == Text(w, p)
      <4>1. FlattenSeq(Leading(u, p)) = (v \o Gap) \o (x \o Gap)
        BY <2>3, <3>1, <3>2, Zenon
      <4>2. (v \o Gap) \o (x \o Gap) = (v \o (Gap \o x)) \o Gap
        <5>2. v \in Seq(Alphabet) /\ x \in Seq(Alphabet) /\ Gap \in Seq(Alphabet)
          BY <3>2, GapIsTyped
        <5> HIDE DEF v
        <5>4. Shuffles(v, Gap, x, Gap)
          BY <5>2, Shuffled
        <5>3. QED
          BY <5>4, Zenon DEF Shuffles
      <4>3. QED
        BY <3>2, <4>1, <4>2, Zenon
    <3>5. QED
      BY <2>1, <3>4
  <2>6. QED
    BY <2>4, <2>5
<1>3. \A w \in Seq(Seq(Alphabet)) : w \in T
  <2> HIDE DEF T
  <2> QED
    BY <1>1, <1>2, Extending
<1>4. QED
  BY <1>3

(* The words of streamDeltas join to the text of joinContent (content.go:119). *)
LEMMA DecoratedText ==
  ASSUME NEW p \in BOOLEAN
  PROVE  \A w \in Seq(Seq(Alphabet)) :
           /\ Decorated(w, p) \in Seq(Seq(Alphabet))
           /\ IF w = << >> THEN Decorated(w, p) = << >>
              ELSE FlattenSeq(Decorated(w, p)) = Text(w, p) \o End(p)
<1> DEFINE Says(w) == /\ Decorated(w, p) \in Seq(Seq(Alphabet))
                      /\ IF w = << >> THEN Decorated(w, p) = << >>
                         ELSE FlattenSeq(Decorated(w, p)) = Text(w, p) \o End(p)
           T == { w \in Seq(Seq(Alphabet)) : Says(w) }
<1>1. << >> \in T
  <2>1. Len(<< >>) = 0 /\ << >> \in Seq(Seq(Alphabet))
    BY EmptySeq
  <2>2. Decorated(<< >>, p) = << >>
    BY <2>1 DEF Decorated
  <2>3. QED
    BY <2>1, <2>2
<1>2. ASSUME NEW w \in Seq(Seq(Alphabet)), w \in T, NEW x \in Seq(Alphabet)
      PROVE  Append(w, x) \in T
  <2> DEFINE u == Append(w, x)
             c == Cap(Len(w) + 1, x, p)
             F == Leading(w, p)
  <2>1. u \in Seq(Seq(Alphabet)) /\ u # << >>
    BY Appended
  <2>2. /\ F \in Seq(Seq(Alphabet)) /\ Decorated(u, p) = Append(F, c \o End(p))
        /\ c \o End(p) \in Seq(Alphabet) /\ c \in Seq(Alphabet) /\ End(p) \in Seq(Alphabet)
    BY LeadingAppend, EndsAreTyped
  <2>3. /\ FlattenSeq(Decorated(u, p)) = FlattenSeq(F) \o (c \o End(p))
        /\ Decorated(u, p) \in Seq(Seq(Alphabet))
    <3> DEFINE d == c \o End(p)
    <3>1. F \in Seq(Seq(Alphabet)) /\ Decorated(u, p) = Append(F, d) /\ d \in Seq(Alphabet)
      BY <2>2
    <3> HIDE DEF F, c, u, d
    <3>2. FlattenSeq(Append(F, d)) = FlattenSeq(F) \o d
      BY <3>1, FlattenAppend
    <3>3. Append(F, d) \in Seq(Seq(Alphabet))
      BY <3>1, AppendProperties
    <3>4. QED
      BY <3>1, <3>2, <3>3 DEF d
  <2>4. CASE w = << >>
    <3>1. F = << >>
      BY <2>4, LeadingText
    <3>2. Text(u, p) = c
      BY <2>4, CapText
    <3>3. << >> \o (c \o End(p)) = c \o End(p)
      <4> HIDE DEF c
      <4> QED
        BY <2>2, ConcatEmptySeq
    <3>4. FlattenSeq(Decorated(u, p)) = Text(u, p) \o End(p)
      BY <2>3, <3>1, <3>2, <3>3, FlattenNothing, Zenon
    <3>5. QED
      BY <2>1, <2>3, <3>4
  <2>5. CASE w # << >>
    <3>1. FlattenSeq(F) = Text(w, p) \o Gap
      BY <2>5, LeadingText
    <3>2. Text(u, p) = Text(w, p) \o (Gap \o x) /\ c = x /\ Text(w, p) \in Seq(Alphabet)
      BY <2>5, CapText
    <3>4. FlattenSeq(Decorated(u, p)) = Text(u, p) \o End(p)
      <4> DEFINE v == Text(w, p)
      <4>1. FlattenSeq(Decorated(u, p)) = (v \o Gap) \o (x \o End(p))
        BY <2>3, <3>1, <3>2, Zenon
      <4>2. (v \o Gap) \o (x \o End(p)) = (v \o (Gap \o x)) \o End(p)
        <5>2. v \in Seq(Alphabet) /\ x \in Seq(Alphabet) /\ Gap \in Seq(Alphabet)
              /\ End(p) \in Seq(Alphabet)
          BY <2>2, <3>2, GapIsTyped
        <5> HIDE DEF v
        <5>4. Shuffles(v, Gap, x, End(p))
          BY <5>2, Shuffled
        <5>3. QED
          BY <5>4, Zenon DEF Shuffles
      <4>3. QED
        BY <3>2, <4>1, <4>2, Zenon
    <3>5. QED
      BY <2>1, <2>3, <3>4
  <2>6. QED
    BY <2>4, <2>5
<1>3. \A w \in Seq(Seq(Alphabet)) : w \in T
  <2> HIDE DEF T
  <2> QED
    BY <1>1, <1>2, Extending
<1>4. QED
  BY <1>3

(* The last chunk is a text. *)
LEMMA LastIsTyped ==
  ASSUME NEW s \in Seq(Alphabet), NEW f \in Founds
  PROVE  LastChunk(s, f) \in Seq(Seq(Alphabet))
<1>1. f.chunks \in Seq(Seq(Alphabet)) /\ f.start \in Nat \ {0} /\ Len(s) \in Nat
  BY LenProperties DEF Founds
<1>2. \A j \in f.start..Len(s) : j \in 1..Len(s)
  BY <1>1
<1>3. \A j \in f.start..Len(s) : s[j] \in Alphabet
  BY <1>2, ElementOfSeq
<1>4. SubSeq(s, f.start, Len(s)) \in Seq(Alphabet)
  BY <1>1, <1>3, SubSeqProperties
<1>5. QED
  BY <1>1, <1>4, AppendProperties DEF LastChunk

(* The chunks of exact output join to the text, whatever the mode is. *)
LEMMA ExactText ==
  ASSUME Asked, o.exact.given
  PROVE  LET d == chunkExact(o.exact.text, o.exact.chunking)
         IN d \in Seq(Seq(Alphabet)) /\ FlattenSeq(d) = o.exact.text
<1> DEFINE s == o.exact.text
           size == o.exact.chunking.size
           mode == o.exact.chunking.mode
           d == chunkExact(s, o.exact.chunking)
<1>1. IsText(s) /\ size \in Int /\ mode \in {"whole", "words", "runes"}
  BY RequestAssumption DEF Asked
<1>2. s \in Seq(Alphabet) /\ Len(s) \in 0..Len(s)
  BY <1>1, LenProperties DEF IsText
<1>3. CASE s = << >>
  <2>1. d = << >>
    BY <1>3 DEF chunkExact
  <2>2. << >> \in Seq(Seq(Alphabet))
    BY EmptySeq
  <2>3. QED
    BY <1>3, <2>1, <2>2, FlattenNothing
<1>4. CASE s # << >> /\ (size <= 0 \/ mode = "whole")
  <2>1. d = <<s>>
    BY <1>1, <1>4 DEF chunkExact
  <2> HIDE DEF d, s, size, mode
  <2>2. <<s>> \in Seq(Seq(Alphabet))
    BY <1>2, Single
  <2>3. FlattenSeq(<<s>>) = s
    BY <1>2, FlattenOne
  <2>4. QED
    BY <2>1, <2>2, <2>3 DEF d, s
<1>5. CASE s # << >> /\ size > 0 /\ mode = "runes"
  <2>1. d = chunkExactRunes(s, size)
    BY <1>5 DEF chunkExact
  <2> HIDE DEF d, s, size, mode
  <2>2. size \in Nat \ {0}
    BY <1>1, <1>5
  <2>3. FlattenSeq(d) = s
    BY <1>1, <1>5, <2>1, <2>2, RuneChunksAreClean
  <2>4. PICK F \in [0..Len(s) -> Founds] : d = LastChunk(s, F[Len(s)])
    BY <1>2, <2>1, RuneScan
  <2>5. d \in Seq(Seq(Alphabet))
    BY <1>2, <2>4, LastIsTyped
  <2>6. QED
    BY <2>3, <2>5 DEF d, s
<1>6. CASE s # << >> /\ size > 0 /\ mode = "words"
  <2>1. d = chunkExactWords(s, size)
    BY <1>6 DEF chunkExact
  <2> HIDE DEF d, s, size, mode
  <2>2. size \in Nat \ {0}
    BY <1>1, <1>6
  <2>3. FlattenSeq(d) = s
    BY <1>1, <1>6, <2>1, <2>2, WordChunksAreClean
  <2>4. PICK F \in [0..Len(s) -> Founds] : d = LastChunk(s, F[Len(s)])
    BY <1>2, <2>1, WordScan
  <2>5. d \in Seq(Seq(Alphabet))
    BY <1>2, <2>4, LastIsTyped
  <2>6. QED
    BY <2>3, <2>5 DEF d, s
<1>7. QED
  BY <1>1, <1>3, <1>4, <1>5, <1>6

(* The unstreamed text is a text. *)
LEMMA JoinsAreTyped ==
  ASSUME NEW w \in Seq(Seq(Alphabet))
  PROVE  Joined(w) \in Seq(Alphabet) /\ joinContent(w) \in Seq(Alphabet)
<1>1. << >> \in Seq(Alphabet)
  BY EmptySeq
<1>2. Joined(w) \in Seq(Alphabet)
  BY <1>1, JoinedAppend
<1>3. capitalize(Joined(w)) \in Seq(Alphabet)
  BY <1>2, CapIsTyped
<1> DEFINE c == capitalize(Joined(w))
<1>4. c \o Stop \in Seq(Alphabet) /\ Append(c, ".") = c \o Stop
  <2> HIDE DEF c
  <2>1. c \in Seq(Alphabet) /\ "." \in Alphabet
    BY <1>3, AlphabetAssumption DEF c
  <2>2. \A b \in Alphabet : Append(c, b) = c \o <<b>>
    BY <2>1, AppendIsConcat
  <2>3. Append(c, ".") = c \o Stop
    BY <2>1, <2>2, Zenon DEF Stop
  <2>4. QED
    BY <2>1, <2>3, GapIsTyped, ConcatProperties
<1>5. QED
  BY <1>1, <1>2, <1>4, Zenon DEF joinContent

(* Streamed words join to the unstreamed text, pinned or generated. *)
LEMMA JoinedText ==
  ASSUME NEW w \in Seq(Seq(Alphabet))
  PROVE  /\ Decorated(w, TRUE) \in Seq(Seq(Alphabet))
         /\ FlattenSeq(Decorated(w, TRUE)) = Joined(w)
         /\ Decorated(w, FALSE) \in Seq(Seq(Alphabet))
         /\ FlattenSeq(Decorated(w, FALSE)) = joinContent(w)
<1>1. TRUE \in BOOLEAN /\ FALSE \in BOOLEAN
  OBVIOUS
<1>2. Decorated(w, TRUE) \in Seq(Seq(Alphabet)) /\ Decorated(w, FALSE) \in Seq(Seq(Alphabet))
  BY <1>1, DecoratedText
<1>3. CASE w = << >>
  <2>1. Decorated(w, TRUE) = << >> /\ Decorated(w, FALSE) = << >>
    BY <1>1, <1>3, DecoratedText
  <2>2. joinContent(w) = << >>
    BY <1>3 DEF joinContent
  <2>3. Joined(w) = << >>
    <3>1. Len(<< >>) = 0
      BY EmptySeq
    <3>2. [i \in 1..0 |-> IF i = 1 THEN (<< >>)[i] ELSE <<" ">> \o (<< >>)[i]] = << >>
      OBVIOUS
    <3>3. QED
      BY <1>3, <3>1, <3>2, FlattenNothing DEF Joined
  <2>4. QED
    BY <1>2, <2>1, <2>2, <2>3, FlattenNothing
<1>4. CASE w # << >>
  <2>1. Joined(w) \in Seq(Alphabet) /\ capitalize(Joined(w)) \in Seq(Alphabet)
    BY JoinsAreTyped, CapIsTyped
  <2>2. FlattenSeq(Decorated(w, TRUE)) = Joined(w) \o << >>
    <3>1. FlattenSeq(Decorated(w, TRUE)) = Text(w, TRUE) \o End(TRUE)
      BY <1>1, <1>4, DecoratedText
    <3>2. Text(w, TRUE) = Joined(w) /\ End(TRUE) = << >>
      BY DEF Text, End
    <3>3. QED
      BY <3>1, <3>2
  <2>3. FlattenSeq(Decorated(w, FALSE)) = capitalize(Joined(w)) \o Stop
    <3>1. FlattenSeq(Decorated(w, FALSE)) = Text(w, FALSE) \o End(FALSE)
      BY <1>1, <1>4, DecoratedText
    <3>2. Text(w, FALSE) = capitalize(Joined(w)) /\ End(FALSE) = Stop
      BY DEF Text, End
    <3>3. QED
      BY <3>1, <3>2
  <2>4. Joined(w) \o << >> = Joined(w)
    BY <2>1, ConcatEmptySeq
  <2>5. joinContent(w) = capitalize(Joined(w)) \o Stop
    <3> DEFINE c == capitalize(Joined(w))
    <3>1. "." \in Alphabet
      BY AlphabetAssumption
    <3>2. joinContent(w) = Append(c, ".")
      BY <1>4, Zenon DEF joinContent
    <3> HIDE DEF c
    <3>3. \A b \in Alphabet : Append(c, b) = c \o <<b>>
      BY <2>1, AppendIsConcat DEF c
    <3>4. QED
      BY <3>1, <3>2, <3>3, Zenon DEF Stop, c
  <2>6. QED
    BY <1>2, <2>2, <2>3, <2>4, <2>5
<1>5. QED
  BY <1>3, <1>4

(* Both generators give words. *)
LEMMA GeneratedAreTyped ==
  /\ \A n \in Nat, k \in Nat : generateWords(n, k) \in Seq(Seq(Alphabet))
  /\ \A text \in Seq(Alphabet) : Fields(text) \in Seq(Seq(Alphabet))
<1>1. ASSUME NEW n \in Nat, NEW k \in Nat
      PROVE  generateWords(n, k) \in Seq(Seq(Alphabet))
  <2> DEFINE L == Len(WordList)
             g == [i \in 1..n |-> WordList[((k + i - 1) % L) + 1]]
  <2>1. L \in Nat \ {0} /\ \A j \in 1..L : WordList[j] \in Seq(Alphabet)
    BY WordAssumption, LenProperties, ElementOfSeq
  <2> HIDE DEF L
  <2>2. \A i \in 1..n : ((k + i - 1) % L) + 1 \in 1..L
    <3>1. \A m \in Int : m % L \in 0..(L - 1)
      BY <2>1
    <3>2. \A i \in 1..n : k + i - 1 \in Int
      OBVIOUS
    <3>3. \A m \in 0..(L - 1) : m + 1 \in 1..L
      BY <2>1
    <3>4. QED
      BY <3>1, <3>2, <3>3
  <2>3. g \in [1..n -> Seq(Alphabet)]
    BY <2>1, <2>2
  <2>4. generateWords(n, k) = g
    BY DEF generateWords, L
  <2> HIDE DEF g
  <2>5. QED
    BY <2>3, <2>4, Functional
<1>2. ASSUME NEW text \in Seq(Alphabet)
      PROVE  Fields(text) \in Seq(Seq(Alphabet))
  <2> DEFINE K == Cardinality(WordStarts(text))
             wordOf(j) == Cardinality({i \in WordStarts(text) : i <= j})
             part(j, k) == IF text[j] \notin Space /\ wordOf(j) = k THEN <<text[j]>> ELSE << >>
             f(k) == [j \in 1..Len(text) |-> part(j, k)]
             g == [k \in 1..K |-> FlattenSeq(f(k))]
  <2>1. K \in Nat
    <3>1. WordStarts(text) \subseteq 1..Len(text) /\ IsFiniteSet(1..Len(text))
      BY LenProperties, FS_Interval DEF WordStarts
    <3>2. QED
      BY <3>1, FS_Subset, FS_CardinalityType
  <2>2. \A j \in 1..Len(text) : \A k : part(j, k) \in Seq(Alphabet)
    <3>1. \A j \in 1..Len(text) : <<text[j]>> \in Seq(Alphabet)
      BY ElementOfSeq, Single
    <3>2. << >> \in Seq(Alphabet)
      BY EmptySeq
    <3>3. QED
      BY <3>1, <3>2
  <2>3. Fields(text) = g
    BY DEF Fields
  <2> HIDE DEF K, part
  <2>4. \A k \in 1..K : f(k) \in [1..Len(text) -> Seq(Alphabet)]
    BY <2>2
  <2>5. Len(text) \in Nat
    BY LenProperties
  <2> HIDE DEF f
  <2>6. \A k \in 1..K : f(k) \in Seq(Seq(Alphabet))
    BY <2>4, <2>5, Functional
  <2>7. \A k \in 1..K : FlattenSeq(f(k)) \in Seq(Alphabet)
    BY <2>6, FlattenIsTyped
  <2>8. g \in [1..K -> Seq(Alphabet)]
    BY <2>7
  <2> HIDE DEF g
  <2>9. QED
    BY <2>1, <2>3, <2>8, Functional
<1>3. QED
  BY <1>1, <1>2

(* On every surface the deltas of a stream join to the unstreamed answer. *)
LEMMA DeltasSay ==
  ASSUME Asked, words \in Seq(Seq(Alphabet))
  PROVE  /\ DeltaTexts(words) \in Seq(Seq(Alphabet))
         /\ FlattenSeq(DeltaTexts(words)) = Content
         /\ Content \in Seq(Alphabet)
         /\ o.surface = "completions" => Len(DeltaTexts(words)) = 1
         /\ o.surface = "responses" => Content = joinContent(words)
<1> DEFINE d == DeltaTexts(words)
           pins == cfg.content_text # << >>
<1>1. o.surface \in Surfaces
  BY RequestAssumption DEF Asked
<1>2. /\ Decorated(words, TRUE) \in Seq(Seq(Alphabet))
      /\ FlattenSeq(Decorated(words, TRUE)) = Joined(words)
      /\ Decorated(words, FALSE) \in Seq(Seq(Alphabet))
      /\ FlattenSeq(Decorated(words, FALSE)) = joinContent(words)
      /\ joinContent(words) \in Seq(Alphabet)
  BY JoinedText, JoinsAreTyped
<1>3. d \in Seq(Seq(Alphabet)) => FlattenSeq(d) \in Seq(Alphabet)
  BY FlattenIsTyped
<1>4. CASE o.surface \in {"chat", "messages", "converse"} /\ o.exact.given
  <2>1. d = chunkExact(o.exact.text, o.exact.chunking)
    BY <1>4 DEF DeltaTexts, streamDeltas
  <2>2. Content = o.exact.text
    BY <1>4 DEF Content
  <2>3. d \in Seq(Seq(Alphabet)) /\ FlattenSeq(d) = o.exact.text
    BY <1>4, <2>1, ExactText
  <2>4. QED
    BY <1>3, <1>4, <2>2, <2>3
<1>5. CASE o.surface \in {"chat", "messages", "converse"} /\ ~o.exact.given
  <2>1. d = Decorated(words, pins)
    BY <1>5 DEF DeltaTexts, streamDeltas
  <2>2. Content = IF pins THEN Joined(words) ELSE joinContent(words)
    BY <1>5 DEF Content, PinsContent
  <2>3. pins = TRUE \/ pins = FALSE
    OBVIOUS
  <2> HIDE DEF pins, d
  <2>4. d \in Seq(Seq(Alphabet)) /\ FlattenSeq(d) = Content
    BY <1>2, <2>1, <2>2, <2>3
  <2>5. QED
    BY <1>3, <1>5, <2>4 DEF d
<1>6. CASE o.surface = "responses"
  <2>1. d = Decorated(words, FALSE)
    BY <1>6 DEF DeltaTexts
  <2>2. Content = joinContent(words)
    BY <1>6 DEF Content, PinsContent
  <2>3. QED
    BY <1>2, <1>6, <2>1, <2>2
<1>7. CASE o.surface = "completions"
  <2>1. d = <<joinContent(words)>>
    BY <1>7 DEF DeltaTexts
  <2>2. Content = joinContent(words)
    BY <1>7 DEF Content, PinsContent
  <2>3. /\ <<joinContent(words)>> \in Seq(Seq(Alphabet)) /\ Len(<<joinContent(words)>>) = 1
        /\ FlattenSeq(<<joinContent(words)>>) = joinContent(words)
    BY <1>2, Single, FlattenOne
  <2>4. QED
    BY <1>2, <1>7, <2>1, <2>2, <2>3
<1>8. QED
  BY <1>1, <1>4, <1>5, <1>6, <1>7 DEF Surfaces

(* The words a handler answers with are words. *)
LEMMA WordsAreTyped ==
  ASSUME Asked, GenerateWords
  PROVE  words' \in Seq(Seq(Alphabet))
<1>1. /\ {o.header.n, o.max_tokens, cfg.tokens, cfg.min_tokens} \subseteq Int
      /\ cfg.content_text \in Seq(Alphabet)
  BY RequestAssumption DEF Asked, cfg
<1>2. Tokens \in Int
  BY <1>1 DEF Tokens, resolveTokenCount, Clamped
<1>3. Tokens \in Nat
  BY <1>2 DEF GenerateWords
<1>4. Len(WordList) \in Nat \ {0}
  BY WordAssumption, LenProperties
<1>5. \E offset \in IF Deterministic \/ PinsContent THEN {0} ELSE 0..(Len(WordList) - 1) :
        words' = IF PinsContent THEN Fields(cfg.content_text) ELSE generateWords(Tokens, offset)
  BY DEF GenerateWords
<1>6. \A k \in IF Deterministic \/ PinsContent THEN {0} ELSE 0..(Len(WordList) - 1) : k \in Nat
  BY <1>4
<1>7. QED
  BY <1>1, <1>3, <1>5, <1>6, GeneratedAreTyped
-----------------------------------------------------------------------------
(***************************************************************************)
(* The frames of a stream: some, those of the deltas, some more.           *)
(***************************************************************************)
Things == [event : Seq(Inner), data : Seq(Inner), chunk : Nat]

\* A frame that carries no delta.
Aside(it) ==
  /\ it \in Things
  /\ \/ it.data = Plain
     \/ o.surface = "responses" /\ it.data = Payload("full:", joinContent(words))

(* The elements of a concatenation. *)
LEMMA Beside ==
  ASSUME NEW S, NEW x \in Seq(S), NEW y \in Seq(S)
  PROVE  LET z == x \o y
         IN /\ z \in Seq(S) /\ Len(z) = Len(x) + Len(y) /\ Len(x) \in Nat /\ Len(y) \in Nat
            /\ \A i \in 1..Len(x) : z[i] = x[i]
            /\ \A i \in 1..Len(y) : z[Len(x) + i] = y[i]
            /\ \A i \in 1..Len(z) : i \in 1..Len(x) \/ i - Len(x) \in 1..Len(y)
            /\ \A i \in 1..Len(z) :
                 z[i] = IF i \in 1..Len(x) THEN x[i] ELSE y[i - Len(x)]
<1> DEFINE z == x \o y
           m == Len(x)
           n == Len(y)
<1>1. /\ z \in Seq(S) /\ Len(z) = m + n
      /\ \A i \in 1..(m + n) : z[i] = IF i <= m THEN x[i] ELSE y[i - m]
      /\ m \in Nat /\ n \in Nat
  BY ConcatProperties, LenProperties
<1> HIDE DEF z, m, n
<1>2. \A i \in 1..m : z[i] = x[i]
  <2>1. \A i \in 1..m : i \in 1..(m + n) /\ i <= m
    BY <1>1
  <2>2. QED
    BY <1>1, <2>1
<1>3. \A i \in 1..n : z[m + i] = y[i]
  <2>1. \A i \in 1..n : m + i \in 1..(m + n) /\ ~(m + i <= m) /\ m + i - m = i
    BY <1>1
  <2>2. QED
    BY <1>1, <2>1
<1>4. \A i \in 1..(m + n) : i \in 1..m \/ i - m \in 1..n
  BY <1>1
<1>5. \A i \in 1..(m + n) : z[i] = IF i \in 1..m THEN x[i] ELSE y[i - m]
  <2>1. \A i \in 1..(m + n) : i \in 1..m <=> i <= m
    BY <1>1
  <2>2. QED
    BY <1>1, <2>1
<1>6. QED
  BY <1>1, <1>2, <1>3, <1>4, <1>5 DEF z, m, n

(* The names of events fit into a line. *)
LEMMA NamesAreTyped ==
  ASSUME Asked, IsSSE, o.surface # "completions"
  PROVE  \A k \in 1..3 : Names[o.surface][k] \in Seq(Inner)
<1>1. o.surface \in {"chat", "messages", "responses"}
  BY RequestAssumption DEF Asked, Surfaces, IsSSE
<1>2. \A b \in Inner : <<b>> \in Seq(Inner)
  BY Single
<1>3. /\ "message_start" \in Inner /\ "content_block_delta" \in Inner
      /\ "message_stop" \in Inner /\ "response.created" \in Inner
      /\ "response.output_text.delta" \in Inner /\ "response.completed" \in Inner
  BY DEF Inner, InLine, Bytes
<1>4. /\ <<"message_start">> \in Seq(Inner) /\ <<"content_block_delta">> \in Seq(Inner)
      /\ <<"message_stop">> \in Seq(Inner) /\ <<"response.created">> \in Seq(Inner)
      /\ <<"response.output_text.delta">> \in Seq(Inner)
      /\ <<"response.completed">> \in Seq(Inner)
  BY <1>2, <1>3, Zenon
<1>5. << >> \in Seq(Inner)
  BY EmptySeq
<1>6. \A x, y, z \in Seq(Inner) : \A k \in 1..3 : <<x, y, z>>[k] \in Seq(Inner)
  <2>1. \A k \in 1..3 : k = 1 \/ k = 2 \/ k = 3
    OBVIOUS
  <2>3. SUFFICES ASSUME NEW x \in Seq(Inner), NEW y \in Seq(Inner), NEW z \in Seq(Inner),
                        NEW k \in 1..3
                 PROVE  <<x, y, z>>[k] \in Seq(Inner)
    OBVIOUS
  <2>4. k = 1 \/ k = 2 \/ k = 3
    BY <2>1
  <2>5. <<x, y, z>>[1] = x /\ <<x, y, z>>[2] = y /\ <<x, y, z>>[3] = z
    OBVIOUS
  <2>6. CASE k = 1
    BY <2>5, <2>6, Zenon
  <2>7. CASE k = 2
    BY <2>5, <2>7, Zenon
  <2>8. CASE k = 3
    BY <2>5, <2>8, Zenon
  <2>9. QED
    BY <2>4, <2>6, <2>7, <2>8
<1>7. CASE o.surface = "chat"
  <2>1. Names["chat"] = << << >>, << >>, << >> >>
    BY DEF Names
  <2>2. QED
    BY <1>5, <1>6, <1>7, <2>1, Zenon
<1>8. CASE o.surface = "messages"
  <2>1. Names["messages"] =
          << <<"message_start">>, <<"content_block_delta">>, <<"message_stop">> >>
    BY DEF Names
  <2>2. QED
    BY <1>4, <1>6, <1>8, <2>1, Zenon
<1>9. CASE o.surface = "responses"
  <2>1. Names["responses"] =
          << <<"response.created">>, <<"response.output_text.delta">>,
             <<"response.completed">> >>
    BY DEF Names
  <2>2. QED
    BY <1>4, <1>6, <1>9, <2>1, Zenon
<1>10. QED
  BY <1>1, <1>7, <1>8, <1>9

(* An injected event carries no text. *)
LEMMA InjectedIsAside ==
  ASSUME Asked
  PROVE  /\ Injected \in Seq(Things)
         /\ \A i \in 1..Len(Injected) : Aside(Injected[i]) /\ Injected[i].chunk = 0
<1>1. o.event_type \in Nat
  BY RequestAssumption DEF Asked
<1> DEFINE x == [i \in 1..o.event_type |-> "x"]
           e == IF o.surface \in {"chat", "completions"} THEN << >> ELSE x
           it == Item(e, Plain, 0)
<1>2. e \in Seq(Inner)
  <2>1. "x" \in Inner
    BY DEF Inner, InLine, Bytes
  <2>2. x \in [1..o.event_type -> Inner]
    BY <2>1
  <2> HIDE DEF x
  <2>3. x \in Seq(Inner)
    BY <1>1, <2>2, Functional
  <2>4. << >> \in Seq(Inner)
    BY EmptySeq
  <2>5. QED
    BY <2>3, <2>4
<1> HIDE DEF e
<1>3. Plain \in Seq(Inner)
  BY OtherMessages DEF Message
<1>4. it \in Things /\ it.chunk = 0 /\ it.data = Plain
  BY <1>2, <1>3 DEF Item, Things
<1>5. Aside(it)
  BY <1>4 DEF Aside
<1>6. Injected = IF o.event_type = 0 THEN << >> ELSE <<it>>
  BY DEF Injected, e
<1> HIDE DEF it
<1>7. CASE o.event_type = 0
  <2>1. Injected = << >>
    BY <1>6, <1>7
  <2>2. << >> \in Seq(Things) /\ Len(<< >>) = 0
    BY EmptySeq
  <2>3. QED
    BY <2>1, <2>2
<1>8. CASE o.event_type # 0
  <2>1. Injected = <<it>>
    BY <1>6, <1>8
  <2>2. <<it>> \in Seq(Things) /\ Len(<<it>>) = 1 /\ <<it>>[1] = it
    BY <1>4, Single
  <2>3. \A i \in 1..1 : i = 1
    OBVIOUS
  <2>4. QED
    BY <1>4, <1>5, <2>1, <2>2, <2>3
<1>9. QED
  BY <1>7, <1>8

DeltasFrom == IF o.surface = "completions" THEN 0 ELSE 1 + Len(Injected)

Shape ==
  LET h == DeltasFrom
      n == Len(deltas)
  IN /\ Items \in Seq(Things) /\ Len(Items) \in Nat
     /\ h \in Nat /\ n \in Nat /\ h + n < Len(Items)
     /\ \A i \in 1..Len(Items) :
          IF i - h \in 1..n
          THEN Items[i].data = Payload("text:", deltas[i - h]) /\ Items[i].chunk = i - h
          ELSE /\ Aside(Items[i])
               /\ Items[i].chunk > 0 =>
                    o.surface = "completions" /\ i = Len(Items) /\ Items[i].chunk = 2
     /\ o.surface = "completions" => n = 1 /\ Items[Len(Items)].chunk = 2

(* Frames around the deltas make a stream of the shape above.              *)
LEMMA Assembled ==
  ASSUME NEW x \in Seq(Things), NEW d \in Seq(Things), NEW y \in Seq(Things),
         Items = (x \o d) \o y,
         Len(x) = DeltasFrom, Len(d) = Len(deltas), y # << >>,
         \A i \in 1..Len(x) : Aside(x[i]) /\ x[i].chunk = 0,
         \A i \in 1..Len(d) : d[i].data = Payload("text:", deltas[i]) /\ d[i].chunk = i,
         \A i \in 1..Len(y) :
           /\ Aside(y[i])
           /\ y[i].chunk > 0 => o.surface = "completions" /\ i = Len(y) /\ y[i].chunk = 2,
         o.surface = "completions" => Len(deltas) = 1 /\ y[Len(y)].chunk = 2
  PROVE  Shape
<1> DEFINE z == x \o d
           w == z \o y
           h == Len(x)
           n == Len(d)
           k == Len(y)
<1>1. /\ z \in Seq(Things) /\ Len(z) = h + n /\ h \in Nat /\ n \in Nat
      /\ \A i \in 1..Len(z) : i \in 1..h \/ i - h \in 1..n
      /\ \A i \in 1..Len(z) : z[i] = IF i \in 1..h THEN x[i] ELSE d[i - h]
  BY Beside
<1> HIDE DEF z
<1>2. /\ w \in Seq(Things) /\ Len(w) = Len(z) + k /\ k \in Nat
      /\ \A i \in 1..Len(w) : i \in 1..Len(z) \/ i - Len(z) \in 1..k
      /\ \A i \in 1..Len(w) : w[i] = IF i \in 1..Len(z) THEN z[i] ELSE y[i - Len(z)]
  BY <1>1, Beside
<1>3. k \in Nat \ {0}
  BY EmptySeq
<1>4. Items = w
  BY DEF z
<1> HIDE DEF w, h, n, k
<1>5. Len(w) = h + n + k /\ h + n < Len(w) /\ Len(w) \in Nat
  BY <1>1, <1>2, <1>3
<1>6. ASSUME NEW i \in 1..Len(w), i - h \in 1..n
      PROVE  w[i] = d[i - h]
  <2>1. i \in 1..Len(z) /\ i \notin 1..h
    BY <1>1, <1>6
  <2>2. QED
    BY <1>1, <1>2, <2>1
<1>7. ASSUME NEW i \in 1..Len(w), i - h \notin 1..n
      PROVE  \/ i \in 1..h /\ w[i] = x[i]
             \/ i - (h + n) \in 1..k /\ w[i] = y[i - (h + n)]
  <2>1. CASE i \in 1..h
    <3>1. i \in 1..Len(z)
      BY <1>1, <2>1
    <3>2. QED
      BY <1>1, <1>2, <2>1, <3>1
  <2>2. CASE i \notin 1..h
    <3>1. i \notin 1..Len(z)
      BY <1>1, <1>7, <2>2
    <3>2. QED
      BY <1>1, <1>2, <3>1
  <2>3. QED
    BY <2>1, <2>2
<1>8. ASSUME NEW i \in 1..Len(w)
      PROVE  IF i - h \in 1..n
             THEN w[i].data = Payload("text:", deltas[i - h]) /\ w[i].chunk = i - h
             ELSE /\ Aside(w[i])
                  /\ w[i].chunk > 0 =>
                       o.surface = "completions" /\ i = Len(w) /\ w[i].chunk = 2
  <2>1. CASE i - h \in 1..n
    <3>1. w[i] = d[i - h]
      BY <1>6, <2>1
    <3>2. QED
      BY <2>1, <3>1 DEF n
  <2>2. CASE i - h \notin 1..n
    <3>1. CASE i \in 1..h /\ w[i] = x[i]
      <4>1. Aside(w[i]) /\ w[i].chunk = 0
        BY <3>1 DEF h
      <4>2. QED
        BY <2>2, <4>1
    <3>2. CASE i - (h + n) \in 1..k /\ w[i] = y[i - (h + n)]
      <4> DEFINE j == i - (h + n)
      <4>1. j \in 1..k /\ w[i] = y[j]
        BY <3>2
      <4>2. j = k => i = Len(w)
        BY <1>1, <1>3, <1>5
      <4> HIDE DEF j
      <4>3. /\ Aside(w[i])
            /\ w[i].chunk > 0 => o.surface = "completions" /\ j = k /\ w[i].chunk = 2
        BY <4>1 DEF k
      <4>4. QED
        BY <2>2, <4>2, <4>3
    <3>3. QED
      BY <1>7, <2>2, <3>1, <3>2
  <2>3. QED
    BY <2>1, <2>2
<1>9. o.surface = "completions" => Len(deltas) = 1 /\ w[Len(w)].chunk = 2
  <2> SUFFICES ASSUME o.surface = "completions"
               PROVE  Len(deltas) = 1 /\ w[Len(w)].chunk = 2
    OBVIOUS
  <2>1. Len(w) \in 1..Len(w) /\ Len(w) \notin 1..Len(z) /\ Len(w) - Len(z) = k
    BY <1>1, <1>2, <1>3, <1>5
  <2>2. w[Len(w)] = y[k]
    BY <1>2, <2>1
  <2>3. QED
    BY <2>2 DEF k
<1>10. h = DeltasFrom /\ n = Len(deltas)
  BY DEF h, n
<1>11. QED
  BY <1>1, <1>2, <1>4, <1>5, <1>8, <1>9, <1>10 DEF Shape

(* The frames of every SSE surface have the shape of a stream. *)
LEMMA ItemsAre ==
  ASSUME Asked, IsSSE, deltas \in Seq(Seq(Alphabet)), words \in Seq(Seq(Alphabet)),
         o.surface = "completions" => Len(deltas) = 1
  PROVE  Shape
<1>1. Plain \in Seq(Inner) /\ << >> \in Seq(Inner) /\ Len(deltas) \in Nat
  BY OtherMessages, EmptySeq, LenProperties DEF Message
<1>2. /\ \A i \in 1..Len(deltas) : Payload("text:", deltas[i]) \in Seq(Inner)
      /\ Payload("full:", joinContent(words)) \in Seq(Inner)
  <2>1. "text:" \in Keys /\ "full:" \in Keys
    BY DEF Keys
  <2>2. \A k \in Keys : \A t \in Seq(Alphabet) : Payload(k, t) \in Seq(Inner)
    BY PayloadRead DEF Message
  <2>3. joinContent(words) \in Seq(Alphabet)
    BY JoinsAreTyped
  <2>4. \A i \in 1..Len(deltas) : deltas[i] \in Seq(Alphabet)
    BY ElementOfSeq
  <2>5. QED
    BY <2>1, <2>2, <2>3, <2>4, Zenon
<1>3. \A e \in Seq(Inner) : \A p \in Seq(Inner) : \A c \in Nat :
        /\ Item(e, p, c) \in Things /\ Item(e, p, c).data = p /\ Item(e, p, c).chunk = c
  BY DEF Item, Things
<1>4. /\ Injected \in Seq(Things) /\ Len(Injected) \in Nat
      /\ \A i \in 1..Len(Injected) : Aside(Injected[i]) /\ Injected[i].chunk = 0
  BY InjectedIsAside, LenProperties
<1>5. CASE o.surface = "completions"
  <2> DEFINE a == Item(<< >>, Payload("text:", deltas[1]), 1)
             b == Item(<< >>, Plain, 2)
  <2>15. Len(deltas) = 1
    BY <1>5
  <2>1. 1 \in 1..Len(deltas)
    BY <2>15
  <2>2. /\ a \in Things /\ a.data = Payload("text:", deltas[1]) /\ a.chunk = 1
        /\ b \in Things /\ b.data = Plain /\ b.chunk = 2
    <3>1. Payload("text:", deltas[1]) \in Seq(Inner)
      BY <1>2, <2>1
    <3>2. 1 \in Nat /\ 2 \in Nat
      OBVIOUS
    <3>3. QED
      <4> DEFINE n == << >>
                 t == Payload("text:", deltas[1])
                 u == Plain
      <4>1. t \in Seq(Inner) /\ n \in Seq(Inner) /\ u \in Seq(Inner)
        BY <1>1, <3>1
      <4> HIDE DEF t, n, u
      <4>2. /\ Item(n, t, 1) \in Things /\ Item(n, t, 1).data = t /\ Item(n, t, 1).chunk = 1
            /\ Item(n, u, 2) \in Things /\ Item(n, u, 2).data = u /\ Item(n, u, 2).chunk = 2
        BY <1>3, <3>2, <4>1
      <4>3. QED
        BY <4>2 DEF t, n, u
  <2>3. Items = (<<a>> \o Injected) \o <<b>>
    BY <1>5 DEF Items
  <2> HIDE DEF a, b
  <2> DEFINE d == <<a>>
             e == <<b>>
             y == Injected \o e
  <2>4. /\ d \in Seq(Things) /\ Len(d) = 1 /\ d[1] = a
        /\ e \in Seq(Things) /\ Len(e) = 1 /\ e[1] = b
    BY <2>2, Single
  <2> HIDE DEF d, e
  <2>5. << >> \in Seq(Things) /\ Len(<< >>) = 0
    BY EmptySeq
  <2>6. /\ y \in Seq(Things) /\ Len(y) = Len(Injected) + 1
        /\ \A i \in 1..Len(Injected) : y[i] = Injected[i]
        /\ y[Len(Injected) + 1] = b
        /\ \A i \in 1..Len(y) : i \in 1..Len(Injected) \/ i - Len(Injected) \in 1..1
    <3>1. /\ y \in Seq(Things) /\ Len(y) = Len(Injected) + Len(e)
          /\ \A i \in 1..Len(Injected) : y[i] = Injected[i]
          /\ \A i \in 1..Len(e) : y[Len(Injected) + i] = e[i]
          /\ \A i \in 1..Len(y) : i \in 1..Len(Injected) \/ i - Len(Injected) \in 1..Len(e)
      <4>1. Injected \in Seq(Things) /\ e \in Seq(Things)
        BY <1>4, <2>4
      <4>2. QED
        BY <4>1, Beside
    <3> HIDE DEF y
    <3>2. QED
      BY <2>4, <3>1
  <2>7. Items = (<< >> \o d) \o y
    <3>1. (d \o Injected) \o e = d \o (Injected \o e)
      <4>1. Injected \in Seq(Things) /\ e \in Seq(Things) /\ d \in Seq(Things)
        BY <1>4, <2>4
      <4>2. QED
        BY <4>1, ConcatAssociative
    <3>2. << >> \o d = d
      BY <2>4, ConcatEmptySeq
    <3>3. QED
      BY <2>3, <3>1, <3>2, Zenon DEF d, e
  <2> HIDE DEF y
  <2>8. y # << >>
    BY <1>4, <2>5, <2>6
  <2>9. Aside(b)
    BY <2>2 DEF Aside
  <2>10. ASSUME NEW i \in 1..Len(y)
         PROVE  /\ Aside(y[i])
                /\ y[i].chunk > 0 => o.surface = "completions" /\ i = Len(y) /\ y[i].chunk = 2
    <3>1. CASE i \in 1..Len(Injected)
      <4>1. Aside(y[i]) /\ y[i].chunk = 0
        BY <1>4, <2>6, <3>1
      <4>2. QED
        BY <4>1
    <3>2. CASE i \notin 1..Len(Injected)
      <4>1. i = Len(Injected) + 1
        BY <1>4, <2>6, <3>2
      <4>2. y[i] = b
        BY <2>6, <4>1
      <4>3. QED
        BY <1>5, <2>2, <2>6, <2>9, <4>1, <4>2
    <3>3. QED
      BY <3>1, <3>2
  <2>11. \A i \in 1..Len(d) : d[i].data = Payload("text:", deltas[i]) /\ d[i].chunk = i
    <3>1. \A i \in 1..Len(d) : i = 1
      BY <2>4
    <3>2. QED
      BY <2>2, <2>4, <3>1
  <2>12. /\ Len(<< >>) = DeltasFrom /\ Len(d) = Len(deltas)
         /\ \A i \in 1..Len(<< >>) : Aside((<< >>)[i]) /\ (<< >>)[i].chunk = 0
    BY <1>5, <2>4, <2>5 DEF DeltasFrom
  <2>13. Len(deltas) = 1 /\ y[Len(y)].chunk = 2
    BY <1>5, <2>2, <2>6
  <2>14. QED
    BY <2>4, <2>5, <2>6, <2>7, <2>8, <2>10, <2>11, <2>12, <2>13, Assembled
<1>6. CASE o.surface # "completions"
  <2> DEFINE name == Names[o.surface]
             a == Item(name[1], Plain, 0)
             b == Item(name[3], Plain, 0)
             d == [i \in 1..Len(deltas) |-> Item(name[2], Payload("text:", deltas[i]), i)]
             f == Item(<<"response.output_text.done">>, Payload("full:", joinContent(words)), 0)
             r == IF o.surface = "responses" THEN <<f>> ELSE << >>
  <2>1. name[1] \in Seq(Inner) /\ name[2] \in Seq(Inner) /\ name[3] \in Seq(Inner)
    <3>1. 1 \in 1..3 /\ 2 \in 1..3 /\ 3 \in 1..3
      OBVIOUS
    <3>2. QED
      BY <1>6, <3>1, NamesAreTyped
  <2>2. Items = (((<<a>> \o Injected) \o d) \o r) \o <<b>>
    BY <1>6 DEF Items
  <2> HIDE DEF name
  <2>3. /\ a \in Things /\ a.data = Plain /\ a.chunk = 0
        /\ b \in Things /\ b.data = Plain /\ b.chunk = 0
    BY <1>1, <1>3, <2>1
  <2>4. /\ d \in Seq(Things) /\ Len(d) = Len(deltas)
        /\ \A i \in 1..Len(d) : d[i].data = Payload("text:", deltas[i]) /\ d[i].chunk = i
    <3>1. \A i \in 1..Len(deltas) : Item(name[2], Payload("text:", deltas[i]), i) \in Things
      BY <1>2, <1>3, <2>1
    <3>2. d \in [1..Len(deltas) -> Things]
      BY <3>1
    <3>3. d \in Seq(Things) /\ Len(d) = Len(deltas)
      <4>1. Len(deltas) \in Nat
        BY <1>1
      <4> HIDE DEF d
      <4> QED
        BY <3>2, <4>1, Functional
    <3>4. \A i \in 1..Len(deltas) : d[i] = Item(name[2], Payload("text:", deltas[i]), i)
      OBVIOUS
    <3>5. \A i \in 1..Len(deltas) : i \in Nat
      OBVIOUS
    <3> HIDE DEF d
    <3>6. \A i \in 1..Len(deltas) : d[i].data = Payload("text:", deltas[i]) /\ d[i].chunk = i
      <4> SUFFICES ASSUME NEW i \in 1..Len(deltas)
                   PROVE  d[i].data = Payload("text:", deltas[i]) /\ d[i].chunk = i
        OBVIOUS
      <4> DEFINE t == Payload("text:", deltas[i])
                 n == name[2]
      <4>1. t \in Seq(Inner) /\ n \in Seq(Inner) /\ i \in Nat /\ d[i] = Item(n, t, i)
        BY <1>2, <2>1, <3>4, <3>5
      <4> HIDE DEF t, n
      <4>2. Item(n, t, i).data = t /\ Item(n, t, i).chunk = i
        BY <1>3, <4>1
      <4>3. QED
        BY <4>1, <4>2 DEF t
    <3>7. QED
      BY <3>3, <3>6
  <2>5. f \in Things /\ f.data = Payload("full:", joinContent(words)) /\ f.chunk = 0
    <3>1. "response.output_text.done" \in Inner
      BY DEF Inner, InLine, Bytes
    <3>2. \A k \in Inner : <<k>> \in Seq(Inner)
      BY Single
    <3>3. <<"response.output_text.done">> \in Seq(Inner)
      BY <3>1, <3>2, Zenon
    <3>4. 0 \in Nat
      OBVIOUS
    <3>5. QED
      <4> DEFINE n == <<"response.output_text.done">>
                 t == Payload("full:", joinContent(words))
      <4>1. n \in Seq(Inner) /\ t \in Seq(Inner)
        BY <1>2, <3>3
      <4> HIDE DEF n, t
      <4>2. Item(n, t, 0) \in Things /\ Item(n, t, 0).data = t /\ Item(n, t, 0).chunk = 0
        BY <1>3, <3>4, <4>1
      <4>3. QED
        BY <4>2 DEF n, t
  <2> HIDE DEF a, b, d, f
  <2>6. /\ r \in Seq(Things) /\ Len(r) \in Nat
        /\ \A i \in 1..Len(r) : Aside(r[i]) /\ r[i].chunk = 0
    <3>1. CASE o.surface = "responses"
      <4>1. r = <<f>>
        BY <3>1
      <4>2. <<f>> \in Seq(Things) /\ Len(<<f>>) = 1 /\ <<f>>[1] = f
        BY <2>5, Single
      <4>3. Aside(f)
        BY <2>5, <3>1 DEF Aside
      <4>4. \A i \in 1..1 : i = 1
        OBVIOUS
      <4>5. QED
        BY <2>5, <4>1, <4>2, <4>3, <4>4
    <3>2. CASE o.surface # "responses"
      <4>1. r = << >>
        BY <3>2
      <4>2. << >> \in Seq(Things) /\ Len(<< >>) = 0
        BY EmptySeq
      <4>3. QED
        BY <4>1, <4>2
    <3>3. QED
      BY <3>1, <3>2
  <2> DEFINE p == <<a>>
             q == <<b>>
             x == p \o Injected
             y == r \o q
  <2>7. /\ p \in Seq(Things) /\ Len(p) = 1 /\ p[1] = a
        /\ q \in Seq(Things) /\ Len(q) = 1 /\ q[1] = b
    BY <2>3, Single
  <2>9. Aside(a) /\ Aside(b)
    BY <2>3 DEF Aside
  <2>10. Items = ((x \o d) \o r) \o q
    BY <2>2
  <2> HIDE DEF p, q, r
  <2>11. /\ x \in Seq(Things) /\ Len(x) = 1 + Len(Injected)
         /\ \A i \in 1..Len(x) : Aside(x[i]) /\ x[i].chunk = 0
    <3>1. /\ x \in Seq(Things) /\ Len(x) = Len(p) + Len(Injected)
          /\ \A i \in 1..Len(x) : i \in 1..Len(p) \/ i - Len(p) \in 1..Len(Injected)
          /\ \A i \in 1..Len(x) : x[i] = IF i \in 1..Len(p) THEN p[i] ELSE Injected[i - Len(p)]
      <4>1. p \in Seq(Things) /\ Injected \in Seq(Things)
        BY <1>4, <2>7
      <4>2. QED
        BY <4>1, Beside
    <3> HIDE DEF x
    <3>2. ASSUME NEW i \in 1..Len(x)
          PROVE  Aside(x[i]) /\ x[i].chunk = 0
      <4>1. CASE i \in 1..1
        <5>1. x[i] = a
          BY <2>7, <3>1, <4>1
        <5>2. QED
          BY <2>3, <2>9, <5>1
      <4>2. CASE i \notin 1..1
        <5>1. x[i] = Injected[i - 1] /\ i - 1 \in 1..Len(Injected)
          BY <2>7, <3>1, <4>2
        <5>2. QED
          BY <1>4, <5>1
      <4>3. QED
        BY <4>1, <4>2
    <3>3. QED
      BY <2>7, <3>1, <3>2
  <2>12. /\ y \in Seq(Things) /\ y # << >>
         /\ \A i \in 1..Len(y) : Aside(y[i]) /\ y[i].chunk = 0
    <3>1. /\ y \in Seq(Things) /\ Len(y) = Len(r) + Len(q)
          /\ \A i \in 1..Len(y) : i \in 1..Len(r) \/ i - Len(r) \in 1..Len(q)
          /\ \A i \in 1..Len(y) : y[i] = IF i \in 1..Len(r) THEN r[i] ELSE q[i - Len(r)]
      <4>1. r \in Seq(Things) /\ q \in Seq(Things)
        BY <2>6, <2>7
      <4>2. QED
        BY <4>1, Beside
    <3> HIDE DEF y
    <3>2. ASSUME NEW i \in 1..Len(y)
          PROVE  Aside(y[i]) /\ y[i].chunk = 0
      <4>1. CASE i \in 1..Len(r)
        <5>1. y[i] = r[i]
          BY <3>1, <4>1
        <5>2. QED
          BY <2>6, <4>1, <5>1
      <4>2. CASE i \notin 1..Len(r)
        <5>1. i - Len(r) = 1 /\ y[i] = q[i - Len(r)]
          BY <2>6, <2>7, <3>1, <4>2
        <5>2. QED
          BY <2>3, <2>7, <2>9, <5>1
      <4>3. QED
        BY <4>1, <4>2
    <3>3. Len(y) # 0 /\ Len(<< >>) = 0
      BY <2>6, <2>7, <3>1, EmptySeq
    <3>4. QED
      BY <3>1, <3>2, <3>3
  <2>13. Items = (x \o d) \o y
    <3> DEFINE w == x \o d
    <3>1. w \in Seq(Things) /\ Items = (w \o r) \o q
      BY <2>4, <2>10, <2>11, ConcatProperties
    <3> HIDE DEF w
    <3>2. (w \o r) \o q = w \o (r \o q)
      <4>1. w \in Seq(Things) /\ r \in Seq(Things) /\ q \in Seq(Things)
        BY <2>6, <2>7, <3>1
      <4>2. QED
        BY <4>1, ConcatAssociative
    <3>3. QED
      BY <3>1, <3>2, Zenon DEF w
  <2> HIDE DEF x, y
  <2>14. Len(x) = DeltasFrom
    BY <1>6, <2>11 DEF DeltasFrom
  <2>15. \A i \in 1..Len(y) :
           /\ Aside(y[i])
           /\ y[i].chunk > 0 => o.surface = "completions" /\ i = Len(y) /\ y[i].chunk = 2
    <3>1. \A i \in 1..Len(y) : Aside(y[i]) /\ ~(y[i].chunk > 0)
      BY <2>12
    <3>2. QED
      BY <3>1
  <2>16. QED
    BY <1>6, <2>4, <2>11, <2>12, <2>13, <2>14, <2>15, Assembled
<1>7. QED
  BY <1>5, <1>6
-----------------------------------------------------------------------------
(***************************************************************************)
(* The messages of a stream that no fault disturbs.                        *)
(***************************************************************************)
ItemData == [i \in 1..Len(Items) |-> Items[i].data]
Closing == IF EndsWithDone THEN <<DoneMark>> ELSE << >>
Payloads == ItemData \o Closing

Blanks(k) == [i \in 1..k |-> << >>]

(* Messages that say nothing join to no text. *)
LEMMA BlanksAreNothing ==
  ASSUME NEW k \in Nat
  PROVE  /\ Blanks(k) \in Seq(Seq(Marks)) /\ Len(Blanks(k)) = k
         /\ FlattenSeq(Blanks(k)) = << >>
<1> DEFINE N == { << >> }
           T == { s \in Seq(N) : s \in Seq(Seq(Marks)) /\ FlattenSeq(s) = << >> }
<1>1. << >> \in Seq(Marks) /\ << >> \in Seq(Seq(Marks)) /\ << >> \in Seq(N)
  BY EmptySeq
<1>2. << >> \in T
  BY <1>1, FlattenNothing
<1>3. ASSUME NEW s \in Seq(N), s \in T, NEW e \in N
      PROVE  Append(s, e) \in T
  <2>1. s \in Seq(Seq(Marks)) /\ FlattenSeq(s) = << >> /\ e = << >>
    BY <1>3
  <2>2. Append(s, e) \in Seq(N) /\ Append(s, e) \in Seq(Seq(Marks))
    BY <1>1, <2>1, AppendProperties
  <2>3. FlattenSeq(Append(s, e)) = FlattenSeq(s) \o e
    BY <1>1, <2>1, FlattenAppend
  <2>4. << >> \o << >> = << >>
    BY <1>1, ConcatEmptySeq
  <2>5. QED
    BY <2>1, <2>2, <2>3, <2>4
<1>4. \A s \in Seq(N) : s \in T
  <2> HIDE DEF T, N
  <2> QED
    BY <1>2, <1>3, Extending
<1>5. Blanks(k) \in [1..k -> N]
  BY DEF Blanks
<1>6. Blanks(k) \in Seq(N) /\ Len(Blanks(k)) = k
  <2> HIDE DEF N
  <2> QED
    BY <1>5, Functional
<1>7. QED
  BY <1>4, <1>6

(* The payloads of a stream are those of its frames, and [DONE] where there is one. *)
LEMMA PayloadsAre ==
  ASSUME Shape
  PROVE  /\ Payloads \in Seq(Seq(Inner)) /\ Len(Payloads) \in Nat
         /\ Len(Payloads) = Len(Items) + (IF EndsWithDone THEN 1 ELSE 0)
         /\ \A i \in 1..Len(Items) : Payloads[i] = Items[i].data
         /\ EndsWithDone => Payloads[Len(Items) + 1] = DoneMark
<1>1. Items \in Seq(Things) /\ Len(Items) \in Nat
  BY DEF Shape
<1>2. ItemData \in [1..Len(Items) -> Seq(Inner)]
  <2>1. \A i \in 1..Len(Items) : Items[i] \in Things
    BY <1>1, ElementOfSeq
  <2>2. QED
    BY <2>1 DEF ItemData, Things
<1>3. ItemData \in Seq(Seq(Inner)) /\ Len(ItemData) = Len(Items)
  BY <1>1, <1>2, Functional
<1>4. DoneMark \in Seq(Inner) /\ << >> \in Seq(Seq(Inner)) /\ Len(<< >>) = 0
  BY OtherMessages, EmptySeq DEF Message
<1>5. /\ <<DoneMark>> \in Seq(Seq(Inner)) /\ Len(<<DoneMark>>) = 1
      /\ <<DoneMark>>[1] = DoneMark
  BY <1>4, Single
<1>6. /\ Closing \in Seq(Seq(Inner)) /\ Len(Closing) = (IF EndsWithDone THEN 1 ELSE 0)
      /\ EndsWithDone => Closing[1] = DoneMark
  BY <1>4, <1>5 DEF Closing
<1>7. /\ ItemData \o Closing \in Seq(Seq(Inner))
      /\ Len(ItemData \o Closing) = Len(ItemData) + Len(Closing)
      /\ Len(ItemData \o Closing) \in Nat
      /\ \A i \in 1..Len(ItemData) : (ItemData \o Closing)[i] = ItemData[i]
      /\ \A i \in 1..Len(Closing) : (ItemData \o Closing)[Len(ItemData) + i] = Closing[i]
  <2>1. /\ ItemData \o Closing \in Seq(Seq(Inner))
        /\ Len(ItemData \o Closing) = Len(ItemData) + Len(Closing)
        /\ \A i \in 1..Len(ItemData) : (ItemData \o Closing)[i] = ItemData[i]
        /\ \A i \in 1..Len(Closing) : (ItemData \o Closing)[Len(ItemData) + i] = Closing[i]
    BY <1>3, <1>6, Beside
  <2>2. QED
    BY <2>1, LenProperties
<1> DEFINE p == Payloads
<1>8. /\ p \in Seq(Seq(Inner)) /\ Len(p) = Len(Items) + Len(Closing) /\ Len(p) \in Nat
      /\ \A i \in 1..Len(Items) : p[i] = ItemData[i]
      /\ \A i \in 1..Len(Closing) : p[Len(Items) + i] = Closing[i]
  BY <1>3, <1>7 DEF Payloads
<1> HIDE DEF p
<1>9. \A i \in 1..Len(Items) : p[i] = Items[i].data
  BY <1>8 DEF ItemData
<1>10. EndsWithDone => p[Len(Items) + 1] = DoneMark
  BY <1>6, <1>8
<1>11. QED
  BY <1>6, <1>8, <1>9, <1>10 DEF p

\* What each of them is.
Kept(i) ==
  LET p == Payloads[i]
      k == i - DeltasFrom
  IN /\ Message(p)
     /\ Holds("text:", p) <=> k \in 1..Len(deltas)
     /\ Said(p) = IF k \in 1..Len(deltas) THEN deltas[k] ELSE << >>
     /\ Holds("full:", p) => o.surface = "responses" /\ TextOf(p) = joinContent(words)

(* What each payload of a stream says. *)
LEMMA PayloadsSay ==
  ASSUME Shape, deltas \in Seq(Seq(Alphabet)), words \in Seq(Seq(Alphabet))
  PROVE  \A i \in 1..Len(Payloads) : Kept(i)
<1>1. "text:" \in Keys /\ "full:" \in Keys /\ "text:" # "full:"
  BY DEF Keys
<1>2. \A t \in Seq(Alphabet) :
        /\ Message(Payload("text:", t)) /\ Message(Payload("full:", t))
        /\ Holds("text:", Payload("text:", t)) /\ ~Holds("full:", Payload("text:", t))
        /\ ~Holds("text:", Payload("full:", t)) /\ TextOf(Payload("full:", t)) = t
        /\ Said(Payload("text:", t)) = t /\ Said(Payload("full:", t)) = << >>
  <2> SUFFICES ASSUME NEW t \in Seq(Alphabet)
               PROVE  /\ Message(Payload("text:", t)) /\ Message(Payload("full:", t))
                      /\ Holds("text:", Payload("text:", t))
                      /\ ~Holds("full:", Payload("text:", t))
                      /\ ~Holds("text:", Payload("full:", t))
                      /\ TextOf(Payload("full:", t)) = t
                      /\ Said(Payload("text:", t)) = t /\ Said(Payload("full:", t)) = << >>
    OBVIOUS
  <2>1. \A key \in Keys : /\ Message(Payload(key, t)) /\ TextOf(Payload(key, t)) = t
                          /\ \A k \in Keys : Holds(k, Payload(key, t)) <=> k = key
    BY PayloadRead
  <2>2. QED
    BY <1>1, <2>1, SaidInMessages, Zenon
<1>3. /\ Message(Plain) /\ ~Holds("text:", Plain) /\ ~Holds("full:", Plain)
      /\ Said(Plain) = << >>
      /\ Message(DoneMark) /\ ~Holds("text:", DoneMark) /\ ~Holds("full:", DoneMark)
      /\ Said(DoneMark) = << >>
  BY OtherMessages, SaidInMessages
<1>4. joinContent(words) \in Seq(Alphabet) /\ \A j \in 1..Len(deltas) : deltas[j] \in Seq(Alphabet)
  BY JoinsAreTyped, ElementOfSeq
<1>5. ASSUME NEW i \in 1..Len(Items)
      PROVE  Kept(i)
  <2> DEFINE k == i - DeltasFrom
  <2>1. Payloads[i] = Items[i].data
    BY PayloadsAre
  <2>2. IF k \in 1..Len(deltas) THEN Items[i].data = Payload("text:", deltas[k])
        ELSE Aside(Items[i])
    BY DEF Shape
  <2> HIDE DEF k
  <2>3. CASE k \in 1..Len(deltas)
    <3>1. Payloads[i] = Payload("text:", deltas[k]) /\ deltas[k] \in Seq(Alphabet)
      BY <1>4, <2>1, <2>2, <2>3
    <3>2. QED
      BY <1>2, <2>3, <3>1, Zenon DEF Kept, k
  <2>4. CASE k \notin 1..Len(deltas)
    <3>1. Aside(Items[i])
      BY <2>2, <2>4
    <3>2. CASE Payloads[i] = Plain
      BY <1>3, <2>4, <3>2, Zenon DEF Kept, k
    <3>3. CASE o.surface = "responses" /\ Payloads[i] = Payload("full:", joinContent(words))
      BY <1>2, <1>4, <2>4, <3>3, Zenon DEF Kept, k
    <3>4. QED
      BY <2>1, <3>1, <3>2, <3>3 DEF Aside
  <2>5. QED
    BY <2>3, <2>4
<1>6. ASSUME NEW i \in 1..Len(Payloads), i \notin 1..Len(Items)
      PROVE  Kept(i)
  <2>1. /\ Len(Items) \in Nat /\ DeltasFrom \in Nat /\ Len(deltas) \in Nat
        /\ DeltasFrom + Len(deltas) < Len(Items)
    BY DEF Shape
  <2>2. EndsWithDone /\ i = Len(Items) + 1
    BY <1>6, <2>1, PayloadsAre
  <2>3. Payloads[i] = DoneMark
    BY <2>2, PayloadsAre
  <2>4. i - DeltasFrom \notin 1..Len(deltas)
    BY <2>1, <2>2
  <2>5. QED
    BY <1>3, <2>3, <2>4, Zenon DEF Kept
<1>7. QED
  BY <1>5, <1>6

(* All payloads together say what the deltas say. *)
LEMMA PayloadsText ==
  ASSUME Shape, deltas \in Seq(Seq(Alphabet)), words \in Seq(Seq(Alphabet))
  PROVE  TextRead(Payloads) = FlattenSeq(deltas)
<1> DEFINE h == DeltasFrom
           n == Len(deltas)
           L == Len(Payloads)
           r == L - (h + n)
           u == Blanks(h) \o deltas
           v == u \o Blanks(r)
           a == AllSaid(Payloads)
<1>1. h \in Nat /\ n \in Nat /\ L \in Nat /\ r \in Nat /\ h + n + r = L
  <2>1. /\ h \in Nat /\ n \in Nat /\ Len(Items) \in Nat /\ h + n < Len(Items)
    BY DEF Shape
  <2>2. L = Len(Items) + (IF EndsWithDone THEN 1 ELSE 0)
    BY PayloadsAre
  <2> HIDE DEF h, n, L
  <2>3. L \in Nat /\ L >= Len(Items)
    BY <2>1, <2>2
  <2>4. QED
    BY <2>1, <2>3
<1>2. /\ deltas \in Seq(Seq(Marks)) /\ Payloads \in Seq(Seq(Bytes))
  <2>1. Alphabet \subseteq Marks /\ Inner \subseteq Bytes
    BY DEF Marks, Bytes, Inner, InLine
  <2>2. \A t \in Seq(Alphabet) : t \in Seq(Marks)
    BY <2>1, SeqMonotonic
  <2>3. \A t \in Seq(Inner) : t \in Seq(Bytes)
    BY <2>1, SeqMonotonic
  <2>4. Payloads \in Seq(Seq(Inner))
    BY PayloadsAre
  <2>5. QED
    BY <2>2, <2>3, <2>4, SeqMonotonic
<1>3. /\ a \in Seq(Seq(Marks)) /\ Len(a) = L
      /\ \A i \in 1..L : a[i] = Said(Payloads[i])
      /\ TextRead(Payloads) = FlattenSeq(a)
  BY <1>2, AllSaidIsTyped
<1> HIDE DEF a, L, r, h, n
<1>4. /\ Blanks(h) \in Seq(Seq(Marks)) /\ Len(Blanks(h)) = h /\ FlattenSeq(Blanks(h)) = << >>
      /\ Blanks(r) \in Seq(Seq(Marks)) /\ Len(Blanks(r)) = r /\ FlattenSeq(Blanks(r)) = << >>
  BY <1>1, BlanksAreNothing
<1>5. /\ u \in Seq(Seq(Marks)) /\ Len(u) = h + n
      /\ \A i \in 1..Len(u) : u[i] = IF i \in 1..h THEN Blanks(h)[i] ELSE deltas[i - h]
  <2>1. /\ u \in Seq(Seq(Marks)) /\ Len(u) = Len(Blanks(h)) + Len(deltas)
        /\ \A i \in 1..Len(u) :
             u[i] = IF i \in 1..Len(Blanks(h)) THEN Blanks(h)[i] ELSE deltas[i - Len(Blanks(h))]
    <3>1. Blanks(h) \in Seq(Seq(Marks))
      BY <1>4
    <3>2. QED
      BY <1>2, <3>1, Beside
  <2> HIDE DEF u
  <2>2. QED
    BY <1>4, <2>1 DEF n
<1> HIDE DEF u
<1>6. /\ v \in Seq(Seq(Marks)) /\ Len(v) = h + n + r
      /\ \A i \in 1..Len(v) : v[i] = IF i \in 1..(h + n) THEN u[i] ELSE Blanks(r)[i - (h + n)]
  <2>1. /\ v \in Seq(Seq(Marks)) /\ Len(v) = Len(u) + Len(Blanks(r))
        /\ \A i \in 1..Len(v) :
             v[i] = IF i \in 1..Len(u) THEN u[i] ELSE Blanks(r)[i - Len(u)]
    <3>1. Blanks(r) \in Seq(Seq(Marks)) /\ u \in Seq(Seq(Marks))
      BY <1>4, <1>5
    <3>2. QED
      BY <3>1, Beside
  <2> HIDE DEF v
  <2>2. QED
    BY <1>4, <1>5, <2>1
<1> HIDE DEF v
<1>7. ASSUME NEW i \in 1..L
      PROVE  a[i] = v[i]
  <2>1. Kept(i)
    BY PayloadsSay DEF L
  <2>2. Said(Payloads[i]) = IF i - h \in 1..n THEN deltas[i - h] ELSE << >>
    BY <2>1 DEF Kept, h, n
  <2>3. i \in 1..Len(v)
    BY <1>1, <1>6
  <2>4. CASE i - h \in 1..n
    <3>1. i \in 1..(h + n) /\ i \notin 1..h
      BY <1>1, <2>4
    <3>2. v[i] = deltas[i - h]
      BY <1>5, <1>6, <2>3, <3>1
    <3>3. QED
      BY <1>3, <2>2, <2>4, <3>2
  <2>5. CASE i - h \notin 1..n
    <3>1. i \in 1..h \/ (i \notin 1..(h + n) /\ i - (h + n) \in 1..r)
      BY <1>1, <2>5
    <3>2. CASE i \in 1..h
      <4>1. i \in 1..(h + n)
        BY <1>1, <3>2
      <4>2. v[i] = Blanks(h)[i]
        BY <1>5, <1>6, <2>3, <3>2, <4>1
      <4>3. Blanks(h)[i] = << >>
        BY <3>2 DEF Blanks
      <4>4. QED
        BY <1>3, <2>2, <2>5, <4>2, <4>3
    <3>3. CASE i \notin 1..(h + n) /\ i - (h + n) \in 1..r
      <4>1. v[i] = Blanks(r)[i - (h + n)]
        BY <1>6, <2>3, <3>3
      <4>2. Blanks(r)[i - (h + n)] = << >>
        BY <3>3 DEF Blanks
      <4>3. QED
        BY <1>3, <2>2, <2>5, <4>1, <4>2
    <3>4. QED
      BY <3>1, <3>2, <3>3
  <2>6. QED
    BY <2>4, <2>5
<1>8. a = v
  BY <1>1, <1>3, <1>6, <1>7, SeqEqual
<1>9. FlattenSeq(v) = FlattenSeq(deltas)
  <2>1. FlattenSeq(v) = FlattenSeq(u) \o FlattenSeq(Blanks(r))
    BY <1>4, <1>5, FlattenConcat DEF v
  <2>2. FlattenSeq(u) = FlattenSeq(Blanks(h)) \o FlattenSeq(deltas)
    BY <1>2, <1>4, FlattenConcat DEF u
  <2>3. FlattenSeq(deltas) \in Seq(Marks) /\ FlattenSeq(u) \in Seq(Marks)
    BY <1>2, <1>5, FlattenIsTyped
  <2>4. << >> \o FlattenSeq(deltas) = FlattenSeq(deltas) /\ FlattenSeq(u) \o << >> = FlattenSeq(u)
    BY <2>3, ConcatEmptySeq
  <2>5. QED
    BY <1>4, <2>1, <2>2, <2>4
<1>10. QED
  BY <1>3, <1>8, <1>9
-----------------------------------------------------------------------------
(***************************************************************************)
(* What the client of a stream has been told, and what it will be: the     *)
(* messages before the frame the handler is at, and the corrupt chunk.     *)
(***************************************************************************)
Streamed == o.stream /\ phase \in {"stream", "over"}

\* The frame before which the corrupt chunk is due.
Due(c) ==
  c \in 1..Len(Items) /\ Items[c].chunk > 0 /\ Items[c].chunk - 1 = Chunks \div 2

\* Where it was written: n messages are before it.
Struck(c, n) == Due(c) /\ n <= c - 1 /\ (o.coalesce_frames <= 1 => n = c - 1)

\* The messages V were written, and the corrupt chunk among them if W holds it.
Laid(W, V) ==
  IF corrupted
  THEN \E A, B \in Seq(Seq(Bytes)) :
         /\ W = (A \o <<Invalid>>) \o B /\ V = A \o B
         /\ \E c : Struck(c, Len(A))
  ELSE W = V

Told(n) == SubSeq(Payloads, 1, n)

Accounted(W, V, P) ==
  Written(W) /\ Waits(P) /\ Laid(W, V) /\ V \o P = Told(next - 1)

\* Nothing is written before the stream begins.
Calm ==
  phase = "resolve" =>
    next = 1 /\ ~corrupted /\ wire = << >> /\ rest = << >> /\ pending = << >>

Kinds ==
  /\ phase = "stream" => o.stream
  /\ phase = "answer" => ~o.stream
  /\ corrupted => Streamed /\ o.malformed_chunk

\* Without coalescing nothing waits.
Buffered == o.coalesce_frames <= 1 => pending = << >>

Made == Streamed => words \in Seq(Seq(Alphabet)) /\ deltas = DeltaTexts(words)

Placed ==
  Streamed =>
    /\ next \in 1..(Len(Payloads) + 1)
    /\ o.malformed_chunk /\ ~corrupted => \A c \in 1..(next - 1) : ~Due(c)
    /\ phase = "over" /\ client =>
         next = Len(Payloads) + 1 /\ pending = << >> /\ rest = << >>

Heard ==
  Streamed /\ client => \E W, V, P \in Seq(Seq(Bytes)) : Accounted(W, V, P)

WireInv ==
  IsSSE => Typed /\ CutsRight /\ Calm /\ Kinds /\ Buffered /\ Made /\ Placed /\ Heard

(* A stream has the shape above, and its deltas join to the answer. *)
LEMMA StreamShape ==
  ASSUME Asked, IsSSE, Made, Streamed
  PROVE  /\ words \in Seq(Seq(Alphabet)) /\ deltas \in Seq(Seq(Alphabet))
         /\ FlattenSeq(deltas) = Content /\ Content \in Seq(Alphabet)
         /\ o.surface = "responses" => Content = joinContent(words)
         /\ Shape
<1>1. words \in Seq(Seq(Alphabet)) /\ deltas = DeltaTexts(words)
  BY DEF Made
<1>2. QED
  BY <1>1, DeltasSay, ItemsAre

\* A step that leaves the request and its texts alone leaves the frames alone.
LEMMA SameStream ==
  ASSUME UNCHANGED <<o, made>>
  PROVE  /\ Items' = Items /\ Payloads' = Payloads /\ Chunks' = Chunks
         /\ DeltaTexts(words)' = DeltaTexts(words)
         /\ \A c : Due(c)' <=> Due(c)
         /\ \A c, n : Struck(c, n)' <=> Struck(c, n)
         /\ \A n : Told(n)' = Told(n)
         /\ IsSSE' = IsSSE
<1>1. o' = o /\ words' = words /\ deltas' = deltas
  BY DEF made
<1>2. Injected' = Injected
  BY <1>1 DEF Injected
<1>3. Items' = Items
  BY <1>1, <1>2 DEF Items
<1>4. Chunks' = Chunks
  BY <1>1 DEF Chunks
<1>5. Payloads' = Payloads
  <2>1. ItemData' = ItemData
    BY <1>3 DEF ItemData
  <2>2. Closing' = Closing
    BY <1>1 DEF Closing, EndsWithDone
  <2>3. QED
    BY <2>1, <2>2 DEF Payloads
<1>6. DeltaTexts(words)' = DeltaTexts(words)
  BY <1>1 DEF DeltaTexts, cfg
<1>7. \A c : Due(c)' <=> Due(c)
  BY <1>3, <1>4 DEF Due
<1>8. \A c, n : Struck(c, n)' <=> Struck(c, n)
  BY <1>1, <1>7 DEF Struck
<1>9. \A n : Told(n)' = Told(n)
  BY <1>5 DEF Told
<1>10. IsSSE' = IsSSE
  BY <1>1 DEF IsSSE
<1>11. QED
  BY <1>3, <1>4, <1>5, <1>6, <1>7, <1>8, <1>9, <1>10

(* The corrupt chunk stays where it is while request and frames do.         *)
LEMMA SameLaid ==
  ASSUME UNCHANGED <<o, made>>, corrupted' = corrupted, NEW W, NEW V
  PROVE  Laid(W, V)' <=> Laid(W, V)
BY SameStream DEF Laid

Groups(S) == \A a, b, c \in Seq(S) : (a \o b) \o c = a \o (b \o c)

(* Concatenation is associative, for the second prover. *)
LEMMA Grouping ==
  ASSUME NEW S
  PROVE  Groups(S)
BY Regrouped DEF Groups

(* Frames behind the corrupt chunk do not move it. *)
LEMMA LaidConcat ==
  ASSUME NEW W \in Seq(Seq(Bytes)), NEW V \in Seq(Seq(Bytes)), NEW D \in Seq(Seq(Bytes)),
         Laid(W, V)
  PROVE  Laid(W \o D, V \o D)
<1>1. CASE ~corrupted
  BY <1>1 DEF Laid
<1>2. CASE corrupted
  <2>1. PICK A \in Seq(Seq(Bytes)), B \in Seq(Seq(Bytes)) :
          /\ W = (A \o <<Invalid>>) \o B /\ V = A \o B
          /\ \E c : Struck(c, Len(A))
    BY <1>2 DEF Laid
  <2> DEFINE Z == A \o <<Invalid>>
  <2>2. <<Invalid>> \in Seq(Seq(Bytes))
    BY OtherMessages, InnerIsPure, Single
  <2>3. Z \in Seq(Seq(Bytes)) /\ B \o D \in Seq(Seq(Bytes))
    BY <2>2, ConcatProperties
  <2>10. \A a, b, c \in Seq(Seq(Bytes)) : (a \o b) \o c = a \o (b \o c)
    <3>1. Groups(Seq(Bytes))
      BY Grouping
    <3>2. QED
      BY <3>1 DEF Groups
  <2>4. V \o D = A \o (B \o D)
    <3>1. (A \o B) \o D = A \o (B \o D)
      BY <2>10, Zenon
    <3>2. QED
      BY <2>1, <3>1
  <2>5. W \o D = Z \o (B \o D)
    <3>1. W = Z \o B
      BY <2>1
    <3> HIDE DEF Z
    <3>2. (Z \o B) \o D = Z \o (B \o D)
      <4>1. Z \in Seq(Seq(Bytes))
        BY <2>3
      <4>2. QED
        BY <2>10, <4>1, Zenon
    <3>3. QED
      BY <3>1, <3>2, Zenon
  <2>6. QED
    BY <1>2, <2>1, <2>3, <2>4, <2>5 DEF Laid
<1>3. QED
  BY <1>1, <1>2

(* The knobs of a request are integers, and its surface is one of the five. *)
LEMMA TypedRequest ==
  ASSUME Asked
  PROVE  o.coalesce_frames \in Int /\ o.fragment_offset \in Int /\ o.surface \in Surfaces
BY RequestAssumption DEF Asked

(* The payloads up to a frame. *)
LEMMA ToldIsTyped ==
  ASSUME Shape
  PROVE  /\ Payloads \in Seq(Seq(Bytes)) /\ Len(Payloads) \in Nat
         /\ Told(0) = << >> /\ Told(Len(Payloads)) = Payloads
         /\ \A n \in 1..Len(Payloads) : Told(n) = Told(n - 1) \o <<Payloads[n]>>
         /\ \A n \in 0..Len(Payloads) :
              /\ Told(n) \in Seq(Seq(Bytes)) /\ Len(Told(n)) = n
              /\ Told(n) \o << >> = Told(n)
              /\ \A i \in 1..n : Told(n)[i] = Payloads[i]
<1> DEFINE p == Payloads
<1>1. p \in Seq(Seq(Bytes)) /\ Len(p) \in Nat
  <2>1. \A t \in Seq(Inner) : t \in Seq(Bytes)
    BY InnerIsPure
  <2>2. p \in Seq(Seq(Inner)) /\ Len(p) \in Nat
    BY PayloadsAre
  <2> HIDE DEF p
  <2>3. QED
    BY <2>1, <2>2, SeqMonotonic
<1>2. \A n : Told(n) = SubSeq(p, 1, n)
  BY DEF Told
<1> HIDE DEF p
<1>3. SubSeq(p, 1, 0) = << >>
  BY SubSeqEmpty
<1>4. SubSeq(p, 1, Len(p)) = p
  BY <1>1, SubSeqFull
<1>5. ASSUME NEW n \in 1..Len(p)
      PROVE  SubSeq(p, 1, n) = SubSeq(p, 1, n - 1) \o <<p[n]>>
  <2>1. 1 \in 1..Len(p)
    BY <1>1
  <2>2. QED
    BY <1>1, <2>1, SubSeqRecursiveSecond
<1>6. ASSUME NEW n \in 0..Len(p)
      PROVE  LET q == SubSeq(p, 1, n)
             IN /\ q \in Seq(Seq(Bytes)) /\ Len(q) = n /\ q \o << >> = q
                /\ \A i \in 1..n : q[i] = p[i]
  <2> DEFINE q == SubSeq(p, 1, n)
  <2>1. \A i \in 1..n : p[i] \in Seq(Bytes)
    BY <1>1, ElementOfSeq
  <2>2. /\ q \in Seq(Seq(Bytes)) /\ Len(q) = (IF 1 <= n THEN n - 1 + 1 ELSE 0)
        /\ \A i \in 1..(n - 1 + 1) : q[i] = p[1 + i - 1]
    BY <1>1, <2>1, SubSeqProperties
  <2> HIDE DEF q
  <2>3. Len(q) = n
    BY <1>1, <2>2
  <2>4. ASSUME NEW i \in 1..n
        PROVE  q[i] = p[i]
    <3>1. i \in 1..(n - 1 + 1) /\ 1 + i - 1 = i
      BY <1>1
    <3>2. QED
      BY <2>2, <3>1
  <2>5. q \o << >> = q
    BY <2>2, ConcatEmptySeq
  <2>6. QED
    BY <2>2, <2>3, <2>4, <2>5 DEF q
<1>7. QED
  BY <1>1, <1>2, <1>3, <1>4, <1>5, <1>6 DEF p

\* A frame that the SSE writer takes is told, now or when it is flushed.
LEMMA FrameHeard ==
  ASSUME Asked, IsSSE, Typed, rest = << >>, UNCHANGED <<o, made>>, corrupted' = corrupted,
         NEW f, NEW E, IsFrame(f, E), Write(f),
         NEW W \in Seq(Seq(Bytes)), NEW V \in Seq(Seq(Bytes)), NEW P \in Seq(Seq(Bytes)),
         Accounted(W, V, P), Told(next - 1) \o E = Told(next' - 1)
  PROVE  (\E X, Y, Z \in Seq(Seq(Bytes)) : Accounted(X, Y, Z))'
<1>1. o' = o
  OBVIOUS
<1>2. Written(W) /\ Waits(P) /\ Laid(W, V) /\ V \o P = Told(next - 1)
  BY DEF Accounted
<1>3. PICK D \in Seq(Seq(Bytes)), Q \in Seq(Seq(Bytes)) :
        Written(W \o D)' /\ Waits(Q)' /\ D \o Q = P \o E
  <2>1. Moved(W, P, E)
    BY <1>1, <1>2, TypedRequest, WriteStep
  <2>2. QED
    BY <2>1 DEF Moved
<1>4. W \o D \in Seq(Seq(Bytes)) /\ V \o D \in Seq(Seq(Bytes))
  BY ConcatProperties
<1>5. Laid(W \o D, V \o D)
  BY <1>2, LaidConcat
<1>6. Laid(W \o D, V \o D)'
  BY <1>5, SameLaid
<1>7. E \in Seq(Seq(Bytes))
  BY DEF IsFrame, Spells
<1>8. (V \o D) \o Q = Told(next' - 1)
  <2>1. \A a, b, c \in Seq(Seq(Bytes)) : (a \o b) \o c = a \o (b \o c)
    <3>1. Groups(Seq(Bytes))
      BY Grouping
    <3>2. QED
      BY <3>1 DEF Groups
  <2>2. (V \o D) \o Q = V \o (D \o Q)
    BY <2>1, Zenon
  <2>3. (V \o P) \o E = V \o (P \o E)
    BY <1>7, <2>1, Zenon
  <2>4. QED
    BY <1>2, <1>3, <2>2, <2>3
<1>9. Told(next - 1)' = Told(next' - 1)
  BY SameStream DEF Told
<1>10. Accounted(W \o D, V \o D, Q)'
  BY <1>3, <1>6, <1>8, <1>9 DEF Accounted
<1>11. QED
  BY <1>4, <1>10

(* The corrupt chunk is one message, in one line, without a rune to cut. *)
LEMMA CorruptSpells ==
  ASSUME IsSSE
  PROVE  /\ Spells(CorruptFrame, <<Invalid>>) /\ CorruptFrame \in Seq(Bytes)
         /\ ~HasRune(CorruptFrame) /\ OneLine(CorruptFrame)
<1> DEFINE e == <<"nl">>
           t == Invalid
           f == Data(t, e)
           C == {"data:", "nl", "{", "INVALID"}
<1>1. CorruptFrame = f
  BY DEF CorruptFrame, Invalid
<1>2. t \in Seq(Inner) /\ t # << >> /\ t \in Seq(InLine)
  BY OtherMessages, InnerIsPure
<1>3. "nl" \in Bytes /\ "nl" # "data:"
  BY DEF Bytes
<1>4. e \in Eols /\ e \in Seq(Bytes) /\ \A i \in 1..Len(e) : e[i] # "data:"
  <2> DEFINE Pure(s) == s \in Seq(Bytes) /\ \A i \in 1..Len(s) : s[i] # "data:"
  <2>1. \A b \in Bytes : b # "data:" => Pure(<<b>>)
    OBVIOUS
  <2>2. e \in Eols
    BY DEF Eols
  <2>3. Pure(e)
    <3> HIDE DEF Pure
    <3> QED
      BY <1>3, <2>1, Zenon
  <2>4. QED
    BY <2>2, <2>3
<1>5. Spells(f, <<t>>)
  BY <1>2, <1>4, DataSpells
<1>6. OneLine(f)
  BY <1>2, <1>4, DataIsOneLine
<1>7. f \in Seq(C)
  <2>1. "data:" \in C /\ "nl" \in C /\ "{" \in C /\ "INVALID" \in C
    OBVIOUS
  <2>2. \A x, y \in C : <<x>> \in Seq(C) /\ <<x, y>> \in Seq(C)
    <3> HIDE DEF C
    <3> QED
      OBVIOUS
  <2>3. <<"data:">> \in Seq(C) /\ e \in Seq(C) /\ t \in Seq(C)
    BY <2>1, <2>2, Zenon DEF Invalid
  <2>4. f = ((<<"data:">> \o t) \o e) \o e
    BY DEF Data
  <2> HIDE DEF C, e, t, f
  <2>5. <<"data:">> \o t \in Seq(C)
    BY <2>3, ConcatProperties
  <2>6. (<<"data:">> \o t) \o e \in Seq(C)
    BY <2>3, <2>5, ConcatProperties
  <2>7. QED
    BY <2>3, <2>4, <2>6, ConcatProperties
<1>8. ~HasRune(f)
  <2> HIDE DEF f
  <2>1. \A i \in 1..Len(f) : f[i] \in C
    BY <1>7, ElementOfSeq
  <2>2. C \cap Continuation = {}
    BY DEF Continuation
  <2>3. QED
    BY <2>1, <2>2 DEF HasRune
<1>9. QED
  BY <1>1, <1>5, <1>6, <1>8 DEF Spells

(* The parts of the invariant. *)
LEMMA InvParts ==
  ASSUME IsSSE, WireInv
  PROVE  Typed /\ CutsRight /\ Calm /\ Kinds /\ Buffered /\ Made /\ Placed /\ Heard
BY DEF WireInv

\* One frame is written, the stream goes on.
LEMMA FrameStep ==
  ASSUME Asked, IsSSE, WireInv, phase = "stream", rest = << >>,
         UNCHANGED <<o, made>>, phase' = phase, corrupted' = corrupted, client' = client,
         NEW f, NEW E, IsFrame(f, E), Write(f),
         next' \in 1..(Len(Payloads) + 1), Told(next - 1) \o E = Told(next' - 1),
         o.malformed_chunk /\ ~corrupted => \A c \in 1..(next' - 1) : ~Due(c)
  PROVE  WireInv'
<1>1. Typed /\ CutsRight /\ Calm /\ Kinds /\ Buffered /\ Made /\ Placed /\ Heard
  BY InvParts
<1>2. o' = o /\ o.stream /\ Streamed /\ (Streamed' <=> Streamed)
  BY <1>1 DEF Kinds, Streamed
<1>3. Typed' /\ CutsRight'
  BY <1>1, <1>2, TypedRequest, WriteKeeps
<1>4. Calm' /\ Kinds'
  BY <1>1, <1>2 DEF Calm, Kinds
<1>5. Buffered'
  <2>1. o.coalesce_frames <= 1 => pending' = pending
    BY TypedRequest, WriteUnfolds DEF Fragmented
  <2>2. QED
    BY <1>1, <1>2, <2>1 DEF Buffered
<1>6. Made'
  <2>1. words' = words /\ deltas' = deltas /\ DeltaTexts(words)' = DeltaTexts(words)
    BY SameStream DEF made
  <2>2. QED
    BY <1>1, <1>2, <2>1 DEF Made
<1>7. Placed'
  <2>1. Payloads' = Payloads /\ \A c : Due(c)' <=> Due(c)
    BY SameStream
  <2>2. phase' # "over"
    OBVIOUS
  <2>3. QED
    BY <1>2, <2>1, <2>2 DEF Placed
<1>8. Heard'
  <2>1. CASE ~client
    BY <2>1 DEF Heard
  <2>2. CASE client
    <3>1. PICK W \in Seq(Seq(Bytes)), V \in Seq(Seq(Bytes)), P \in Seq(Seq(Bytes)) :
            Accounted(W, V, P)
      BY <1>1, <1>2, <2>2 DEF Heard
    <3>2. (\E X, Y, Z \in Seq(Seq(Bytes)) : Accounted(X, Y, Z))'
      BY <1>1, <3>1, FrameHeard
    <3>3. QED
      BY <3>2 DEF Heard
  <2>3. QED
    BY <2>1, <2>2
<1>9. QED
  BY <1>3, <1>4, <1>5, <1>6, <1>7, <1>8 DEF WireInv

\* Nothing is written; the phase may change, the client may leave.
LEMMA QuietStep ==
  ASSUME WireInv, UNCHANGED <<o, made>>, UNCHANGED <<next, corrupted>>,
         UNCHANGED <<wire, rest, pending>>, client' => client,
         Streamed' <=> Streamed,
         phase' = "resolve" => phase = "resolve",
         phase' = "stream" => phase = "stream",
         phase' = "answer" => phase = "answer",
         Streamed /\ phase' = "over" /\ client' => phase = "over"
  PROVE  WireInv'
<1> SUFFICES ASSUME IsSSE
             PROVE  WireInv'
  <2>1. IsSSE' = IsSSE
    BY SameStream
  <2>2. QED
    BY <2>1 DEF WireInv
<1>1. Typed /\ CutsRight /\ Calm /\ Kinds /\ Buffered /\ Made /\ Placed /\ Heard
  BY InvParts
<1>2. o' = o /\ next' = next /\ corrupted' = corrupted /\ wire' = wire /\ rest' = rest
      /\ pending' = pending /\ words' = words /\ deltas' = deltas
  BY DEF made
<1>3. Typed'
  BY <1>1, <1>2 DEF Typed
<1>4. CutsRight'
  BY <1>1, <1>2 DEF CutsRight, CutInside, Fits
<1>5. Calm' /\ Kinds' /\ Buffered'
  BY <1>1, <1>2 DEF Calm, Kinds, Buffered
<1>6. Made'
  <2>1. DeltaTexts(words)' = DeltaTexts(words)
    BY SameStream
  <2>2. QED
    BY <1>1, <1>2, <2>1 DEF Made
<1>7. Placed'
  <2>1. Payloads' = Payloads /\ \A c : Due(c)' <=> Due(c)
    BY SameStream
  <2>2. QED
    BY <1>1, <1>2, <2>1 DEF Placed
<1>8. Heard'
  <2>1. CASE ~(Streamed /\ client)
    BY <2>1 DEF Heard
  <2>2. CASE Streamed /\ client
    <3>1. PICK W \in Seq(Seq(Bytes)), V \in Seq(Seq(Bytes)), P \in Seq(Seq(Bytes)) :
            Accounted(W, V, P)
      BY <1>1, <2>2 DEF Heard
    <3>2. Written(W)' /\ Waits(P)'
      BY <1>2, <3>1 DEF Accounted, Written, Waits
    <3>3. Laid(W, V)'
      BY <1>2, <3>1, SameLaid DEF Accounted
    <3>4. Told(next - 1)' = Told(next - 1)
      BY <1>2, SameStream DEF Told
    <3>5. Accounted(W, V, P)'
      BY <3>1, <3>2, <3>3, <3>4 DEF Accounted
    <3>6. QED
      BY <3>5 DEF Heard
  <2>3. QED
    BY <2>1, <2>2
<1>9. QED
  BY <1>3, <1>4, <1>5, <1>6, <1>7, <1>8 DEF WireInv

(* The invariant holds of a handler that has not begun. *)
LEMMA InvStarts ==
  ASSUME Init
  PROVE  WireInv
<1>1. /\ wire = << >> /\ rest = << >> /\ pending = << >> /\ phase = "resolve" /\ next = 1
      /\ corrupted = FALSE /\ Len(<< >>) = 0
  BY EmptySeq DEF Init
<1>2. Typed
  BY <1>1, EmptySeq DEF Typed
<1>3. CutsRight
  <2>1. Fits(rest)
    BY <1>1, NoRuneInNothing DEF Fits
  <2>2. QED
    BY <1>1, <2>1 DEF CutsRight
<1>4. ~Streamed
  BY <1>1 DEF Streamed
<1>5. QED
  BY <1>1, <1>2, <1>3, <1>4 DEF WireInv, Calm, Kinds, Buffered, Made, Placed, Heard

(* Steps that write nothing. *)
LEMMA QuietSteps ==
  ASSUME WireInv, RefuseTokens \/ PanicInGenerate \/ Answer \/ GiveUp \/ ClientLeaves
                  \/ UNCHANGED vars
  PROVE  WireInv'
<1> SUFFICES ASSUME IsSSE
             PROVE  WireInv'
  <2>1. o' = o
    BY DEF RefuseTokens, PanicInGenerate, Answer, GiveUp, ClientLeaves, vars
  <2>2. QED
    BY <2>1 DEF WireInv, IsSSE
<1>1. (phase = "answer" => ~o.stream) /\ (phase = "stream" => o.stream)
  BY InvParts DEF Kinds
<1>2. /\ o' = o /\ UNCHANGED <<o, made>> /\ UNCHANGED <<next, corrupted>>
      /\ UNCHANGED <<wire, rest, pending>> /\ (client' => client)
  BY DEF RefuseTokens, PanicInGenerate, Answer, GiveUp, ClientLeaves, vars, writer, made
<1>3. \/ phase = "resolve" /\ phase' \in {"refused", "panicked"}
      \/ phase = "answer" /\ phase' = "over"
      \/ phase = "stream" /\ phase' = "over" /\ ~client
      \/ phase' = phase
  BY DEF RefuseTokens, PanicInGenerate, Answer, GiveUp, ClientLeaves, vars, Waiting, Streaming
<1>4. Streamed' <=> Streamed
  BY <1>1, <1>2, <1>3 DEF Streamed
<1>5. /\ phase' = "resolve" => phase = "resolve"
      /\ phase' = "stream" => phase = "stream"
      /\ phase' = "answer" => phase = "answer"
  BY <1>3
<1>6. Streamed /\ phase' = "over" /\ client' => phase = "over"
  BY <1>1, <1>2, <1>3 DEF Streamed
<1>7. QED
  BY <1>2, <1>4, <1>5, <1>6, QuietStep

(* A ping moves no message. *)
LEMMA PingStep ==
  ASSUME Asked, IsSSE, WireInv, Ping
  PROVE  WireInv'
<1>1. /\ phase = "stream" /\ rest = << >> /\ UNCHANGED <<o, made>> /\ phase' = phase
      /\ corrupted' = corrupted /\ client' = client /\ next' = next /\ Write(PingFrame)
  BY DEF Ping, Waiting, Streaming, PingFrame, made
<1>2. Streamed /\ Shape
  BY <1>1, InvParts, StreamShape DEF Kinds, Streamed
<1>3. /\ next \in 1..(Len(Payloads) + 1)
      /\ o.malformed_chunk /\ ~corrupted => \A c \in 1..(next - 1) : ~Due(c)
  BY <1>2, InvParts DEF Placed
<1>4. Told(next - 1) \o << >> = Told(next - 1)
  <2>1. next - 1 \in 0..Len(Payloads)
    BY <1>2, <1>3, ToldIsTyped
  <2>2. QED
    BY <1>2, <2>1, ToldIsTyped
<1>5. QED
  BY <1>1, <1>3, <1>4, PingIsFrame, FrameStep

(* The next frame is told, at once or later. *)
LEMMA EmitStep ==
  ASSUME Asked, IsSSE, WireInv, EmitFrame
  PROVE  WireInv'
<1>1. /\ phase = "stream" /\ rest = << >> /\ UNCHANGED <<o, made>> /\ phase' = phase
      /\ corrupted' = corrupted /\ client' = client /\ next' = next + 1 /\ Write(Frame(Now))
      /\ next <= Len(Items) /\ ~CorruptDue
  BY DEF EmitFrame, Streaming, made
<1>2. Streamed /\ Shape /\ deltas \in Seq(Seq(Alphabet)) /\ words \in Seq(Seq(Alphabet))
  BY <1>1, InvParts, StreamShape DEF Kinds, Streamed
<1>3. /\ next \in 1..(Len(Payloads) + 1)
      /\ o.malformed_chunk /\ ~corrupted => \A c \in 1..(next - 1) : ~Due(c)
  BY <1>2, InvParts DEF Placed
<1>4. /\ Items \in Seq(Things) /\ Len(Items) \in Nat /\ Len(Payloads) \in Nat
      /\ Len(Payloads) >= Len(Items)
  BY <1>2, PayloadsAre DEF Shape
<1>5. next \in 1..Len(Items) /\ next \in 1..Len(Payloads) /\ next' \in 1..(Len(Payloads) + 1)
      /\ next' - 1 = next
  BY <1>1, <1>3, <1>4
<1>6. Now \in Things /\ Payloads[next] = Now.data
  BY <1>2, <1>4, <1>5, ElementOfSeq, PayloadsAre DEF Now
<1>7. Now.data # << >> /\ Now.data \in Seq(Inner) /\ Now.event \in Seq(Inner)
  <2>1. Kept(next)
    BY <1>2, <1>5, PayloadsSay
  <2>2. QED
    BY <1>6, <2>1 DEF Kept, Message, Things
<1>8. IsFrame(Frame(Now), <<Payloads[next]>>)
  <2>1. CASE Now.event = << >>
    <3>1. Frame(Now) = Data(Now.data, eol)
      BY <2>1 DEF Frame
    <3>2. IsFrame(Data(Now.data, eol), <<Now.data>>)
      BY <1>7, DataIsFrame
    <3>3. QED
      BY <1>6, <3>1, <3>2
  <2>2. CASE Now.event # << >>
    <3>1. Frame(Now) = Event(Now.event, Now.data)
      BY <2>2 DEF Frame
    <3>2. IsFrame(Event(Now.event, Now.data), <<Now.data>>)
      BY <1>7, EventIsFrame
    <3>3. QED
      BY <1>6, <3>1, <3>2
  <2>3. QED
    BY <2>1, <2>2
<1>9. Told(next - 1) \o <<Payloads[next]>> = Told(next' - 1)
  BY <1>2, <1>5, ToldIsTyped
<1>10. ASSUME o.malformed_chunk, ~corrupted, NEW c \in 1..(next' - 1)
       PROVE  ~Due(c)
  <2>1. CASE c \in 1..(next - 1)
    BY <1>3, <1>10, <2>1
  <2>2. CASE c = next
    BY <1>1, <1>5, <1>10, <2>2 DEF CorruptDue, IsDelta, Now, Due
  <2>3. next \in Int /\ c \in 1..next
    <3>1. c \in 1..(next' - 1)
      BY <1>10
    <3>2. next' - 1 = next /\ next \in 1..Len(Payloads)
      BY <1>5
    <3>3. next \in Int
      BY <1>4, <3>2
    <3>4. QED
      BY <3>1, <3>2, <3>3
  <2>4. c \in 1..(next - 1) \/ c = next
    BY <2>3
  <2>5. QED
    BY <2>1, <2>2, <2>4
<1>11. QED
  BY <1>1, <1>5, <1>8, <1>9, <1>10, FrameStep

(* [DONE] is told, and what waited before it. *)
LEMMA DoneFrameStep ==
  ASSUME Asked, IsSSE, WireInv, WriteDone, EndsWithDone /\ next = Len(Items) + 1
  PROVE  WireInv'
<1>1. /\ phase = "stream" /\ rest = << >> /\ UNCHANGED <<o, made>> /\ phase' = phase
      /\ corrupted' = corrupted /\ client' = client /\ next' = next + 1 /\ Write(Done)
  BY DEF WriteDone, Streaming, made
<1>2. Streamed /\ Shape
  BY <1>1, InvParts, StreamShape DEF Kinds, Streamed
<1>3. o.malformed_chunk /\ ~corrupted => \A c \in 1..(next - 1) : ~Due(c)
  BY <1>2, InvParts DEF Placed
<1>4. /\ Len(Items) \in Nat /\ Len(Payloads) = Len(Items) + 1
      /\ Payloads[Len(Items) + 1] = DoneMark
  BY <1>2, PayloadsAre DEF Shape
<1>5. next \in 1..Len(Payloads) /\ next' \in 1..(Len(Payloads) + 1) /\ next' - 1 = next
  BY <1>1, <1>4
<1>6. IsFrame(Done, <<Payloads[next]>>)
  <2>1. DoneMark \in Seq(Inner) /\ DoneMark # << >>
    BY OtherMessages DEF Message
  <2>2. IsFrame(Data(DoneMark, eol), <<DoneMark>>)
    BY <2>1, DataIsFrame
  <2>3. Done = Data(DoneMark, eol)
    BY DEF Done, DoneMark
  <2>4. QED
    BY <1>4, <2>2, <2>3
<1>7. Told(next - 1) \o <<Payloads[next]>> = Told(next' - 1)
  BY <1>2, <1>5, ToldIsTyped
<1>8. ASSUME o.malformed_chunk, ~corrupted, NEW c \in 1..(next' - 1)
      PROVE  ~Due(c)
  <2>1. CASE c \in 1..(next - 1)
    BY <1>3, <1>8, <2>1
  <2>2. CASE c = next
    BY <1>4, <2>2 DEF Due
  <2>3. next \in Int /\ c \in 1..next
    <3>1. c \in 1..(next' - 1)
      BY <1>8
    <3>2. next' - 1 = next /\ next \in 1..Len(Payloads)
      BY <1>5
    <3>3. next \in Int
      BY <1>4, <3>2
    <3>4. QED
      BY <3>1, <3>2, <3>3
  <2>4. c \in 1..(next - 1) \/ c = next
    BY <2>3
  <2>5. QED
    BY <2>1, <2>2, <2>4
<1>9. QED
  BY <1>1, <1>5, <1>6, <1>7, <1>8, FrameStep

(* A stream that ends without [DONE], or after it, flushes what waits. *)
LEMMA FlushStep ==
  ASSUME Asked, IsSSE, WireInv, WriteDone, ~(EndsWithDone /\ next = Len(Items) + 1)
  PROVE  WireInv'
<1> DEFINE w == IF pending = << >> THEN wire ELSE Append(wire, pending)
<1>1. /\ phase = "stream" /\ rest = << >> /\ rest' = rest /\ UNCHANGED <<o, made>>
      /\ phase' = "over" /\ corrupted' = corrupted /\ client' = client /\ next' = next
      /\ next > Len(Items) /\ wire' = w /\ pending' = << >>
  BY DEF WriteDone, Streaming, made
<1>2. Typed /\ CutsRight /\ Calm /\ Kinds /\ Buffered /\ Made /\ Placed /\ Heard
  BY InvParts
<1>3. Streamed /\ Shape /\ o.stream /\ Streamed'
  BY <1>1, <1>2, StreamShape DEF Kinds, Streamed
<1>4. << >> \in Seq(Bytes) /\ << >> \in Seq(Seq(Bytes)) /\ pending \in Seq(Bytes)
  BY <1>2, EmptySeq DEF Typed
<1>5. /\ wire' \in Seq(Seq(Bytes)) /\ FlattenSeq(wire) \in Seq(Bytes)
      /\ FlattenSeq(wire') = FlattenSeq(wire) \o pending
  <2>1. CASE pending = << >>
    <3>1. FlattenSeq(wire) \in Seq(Bytes) /\ wire' = wire /\ wire \in Seq(Seq(Bytes))
      BY <1>1, <1>2, <1>4, <2>1, WireFlat DEF Typed
    <3>2. FlattenSeq(wire) \o << >> = FlattenSeq(wire)
      BY <3>1, ConcatEmptySeq
    <3>3. QED
      BY <2>1, <3>1, <3>2
  <2>2. CASE pending # << >>
    <3>1. wire' = Append(wire, pending)
      BY <1>1, <2>2
    <3>2. QED
      BY <1>2, <1>4, <3>1, WireFlat
  <2>3. QED
    BY <2>1, <2>2
<1>6. Typed'
  BY <1>1, <1>2, <1>4, <1>5 DEF Typed
<1>7. CutsRight'
  <2>1. CASE ~(o.coalesce_frames <= 1)
    BY <1>1, <2>1 DEF CutsRight
  <2>2. CASE o.coalesce_frames <= 1
    <3>1. o' = o /\ wire' = wire /\ rest' = rest
      BY <1>1, <1>2, <2>2 DEF Buffered
    <3>2. QED
      BY <1>2, <3>1 DEF CutsRight, CutInside, Fits
  <2>3. QED
    BY <2>1, <2>2
<1>8. Calm' /\ Kinds' /\ Buffered'
  BY <1>1, <1>2, <1>3 DEF Calm, Kinds, Buffered
<1>9. Made'
  <2>1. words' = words /\ deltas' = deltas /\ DeltaTexts(words)' = DeltaTexts(words)
    BY <1>1, SameStream DEF made
  <2>2. QED
    BY <1>2, <1>3, <2>1 DEF Made
<1>10. Placed'
  <2>1. Payloads' = Payloads /\ \A c : Due(c)' <=> Due(c)
    BY <1>1, SameStream
  <2>2. /\ next \in 1..(Len(Payloads) + 1)
        /\ o.malformed_chunk /\ ~corrupted => \A c \in 1..(next - 1) : ~Due(c)
    BY <1>2, <1>3 DEF Placed
  <2>3. next = Len(Payloads) + 1
    <3>1. /\ Len(Items) \in Nat
          /\ Len(Payloads) = Len(Items) + (IF EndsWithDone THEN 1 ELSE 0)
      BY <1>3, PayloadsAre DEF Shape
    <3>2. QED
      BY <1>1, <2>2, <3>1
  <2>4. QED
    BY <1>1, <2>1, <2>2, <2>3 DEF Placed
<1>11. Heard'
  <2>1. CASE ~client
    BY <1>1, <2>1 DEF Heard
  <2>2. CASE client
    <3>1. PICK W \in Seq(Seq(Bytes)), V \in Seq(Seq(Bytes)), P \in Seq(Seq(Bytes)) :
            Accounted(W, V, P)
      BY <1>2, <1>3, <2>2 DEF Heard
    <3>2. Written(W) /\ Waits(P) /\ Laid(W, V) /\ V \o P = Told(next - 1)
      BY <3>1 DEF Accounted
    <3>3. W \o P \in Seq(Seq(Bytes)) /\ V \o P \in Seq(Seq(Bytes)) /\ (V \o P) \o << >> = V \o P
      <4>1. W \o P \in Seq(Seq(Bytes)) /\ V \o P \in Seq(Seq(Bytes))
        BY ConcatProperties
      <4>2. QED
        BY <4>1, ConcatEmptySeq
    <3>4. Written(W \o P)'
      <4>1. Spells(FlattenSeq(wire), W) /\ Spells(pending, P)
        <5>1. FlattenSeq(wire) \o rest = FlattenSeq(wire)
          BY <1>1, <1>5, ConcatEmptySeq
        <5>2. QED
          BY <3>2, <5>1 DEF Written, Waits
      <4>2. Spells(FlattenSeq(wire'), W \o P)
        BY <1>5, <4>1, SpellsConcat
      <4>3. FlattenSeq(wire') \o rest' = FlattenSeq(wire')
        <5>1. FlattenSeq(wire') \in Seq(Bytes)
          BY <4>2 DEF Spells
        <5>2. QED
          BY <1>1, <5>1, ConcatEmptySeq
      <4>4. QED
        BY <4>2, <4>3 DEF Written
    <3>5. Waits(<< >>)'
      BY <1>1, SpellsNothing DEF Waits
    <3>6. Laid(W \o P, V \o P)'
      <4>1. Laid(W \o P, V \o P)
        BY <3>2, LaidConcat
      <4>2. QED
        BY <1>1, <4>1, SameLaid
    <3>7. Told(next - 1)' = Told(next - 1)
      BY <1>1, SameStream DEF Told
    <3>8. Accounted(W \o P, V \o P, << >>)'
      BY <3>2, <3>3, <3>4, <3>5, <3>6, <3>7 DEF Accounted
    <3>9. QED
      BY <1>4, <3>3, <3>8 DEF Heard
  <2>3. QED
    BY <2>1, <2>2
<1>12. QED
  BY <1>6, <1>7, <1>8, <1>9, <1>10, <1>11 DEF WireInv

(* The rest of a fragmented frame goes out, or the client is gone. *)
LEMMA RestStep ==
  ASSUME Asked, IsSSE, WireInv, WriteRest \/ LoseRest
  PROVE  WireInv'
<1>1. /\ rest' = << >> /\ pending' = pending /\ UNCHANGED <<o, made>> /\ phase' = phase
      /\ corrupted' = corrupted /\ client' = client /\ next' = next
      /\ \/ wire' = Append(wire, rest)
         \/ wire' = wire /\ ~client
      /\ rest # << >>
  BY DEF WriteRest, LoseRest, made
<1>2. Typed /\ CutsRight /\ Calm /\ Kinds /\ Buffered /\ Made /\ Placed /\ Heard
  BY InvParts
<1>3. << >> \in Seq(Bytes) /\ rest \in Seq(Bytes) /\ (Streamed' <=> Streamed) /\ o' = o
  BY <1>1, <1>2, EmptySeq DEF Typed, Streamed
<1>4. Typed'
  <2>1. wire' \in Seq(Seq(Bytes))
    BY <1>1, <1>2, <1>3, WireFlat DEF Typed
  <2>2. QED
    BY <1>1, <1>2, <1>3, <2>1 DEF Typed
<1>5. Fits(rest)'
  BY <1>1, NoRuneInNothing DEF Fits
<1>6. CutsRight'
  <2>1. CASE wire' = Append(wire, rest)
    <3>1. o.coalesce_frames <= 1 => Fits(rest)
      BY <1>2 DEF CutsRight
    <3>2. o.coalesce_frames <= 1 =>
            /\ o.fragment_split = "rune" =>
                 \A k \in 1..Len(wire') : HasRune(wire'[k]) => CutInside(k)'
            /\ o.fragment_split = "event" => \A k \in 1..Len(wire') : OneLine(wire'[k])
      BY <1>2, <1>3, <2>1, <3>1, CutsAppend
    <3>3. QED
      BY <1>3, <1>5, <3>2 DEF CutsRight
  <2>2. CASE wire' = wire
    BY <1>2, <1>3, <1>5, <2>2 DEF CutsRight, CutInside
  <2>3. QED
    BY <1>1, <2>1, <2>2
<1>7. Calm' /\ Kinds' /\ Buffered'
  BY <1>1, <1>2, <1>3 DEF Calm, Kinds, Buffered
<1>8. Made'
  <2>1. words' = words /\ deltas' = deltas /\ DeltaTexts(words)' = DeltaTexts(words)
    BY <1>1, SameStream DEF made
  <2>2. QED
    BY <1>2, <1>3, <2>1 DEF Made
<1>9. Placed'
  <2>1. Payloads' = Payloads /\ \A c : Due(c)' <=> Due(c)
    BY <1>1, SameStream
  <2>2. QED
    BY <1>1, <1>2, <1>3, <2>1 DEF Placed
<1>10. Heard'
  <2>1. CASE ~(Streamed /\ client)
    BY <1>1, <1>3, <2>1 DEF Heard
  <2>2. CASE Streamed /\ client
    <3>1. PICK W \in Seq(Seq(Bytes)), V \in Seq(Seq(Bytes)), P \in Seq(Seq(Bytes)) :
            Accounted(W, V, P)
      BY <1>2, <2>2 DEF Heard
    <3>2. Written(W)'
      <4>1. /\ FlattenSeq(wire) \in Seq(Bytes) /\ wire' \in Seq(Seq(Bytes))
            /\ FlattenSeq(wire') = FlattenSeq(wire) \o rest
        BY <1>1, <1>2, <1>3, <2>2, WireFlat
      <4>2. FlattenSeq(wire') \in Seq(Bytes)
        BY <4>1, FlattenIsTyped
      <4>3. FlattenSeq(wire') \o << >> = FlattenSeq(wire) \o rest
        BY <4>1, <4>2, ConcatEmptySeq
      <4>4. QED
        BY <1>1, <3>1, <4>3 DEF Accounted, Written
    <3>3. Waits(P)'
      BY <1>1, <3>1 DEF Accounted, Waits
    <3>4. Laid(W, V)'
      BY <1>1, <3>1, SameLaid DEF Accounted
    <3>5. Told(next - 1)' = Told(next - 1)
      BY <1>1, SameStream DEF Told
    <3>6. Accounted(W, V, P)'
      BY <3>1, <3>2, <3>3, <3>4, <3>5 DEF Accounted
    <3>7. QED
      BY <3>6 DEF Heard
  <2>3. QED
    BY <2>1, <2>2
<1>11. QED
  BY <1>4, <1>6, <1>7, <1>8, <1>9, <1>10 DEF WireInv

(* The corrupt chunk overtakes what waits (fault.go:445) and nothing else. *)
LEMMA CorruptStep ==
  ASSUME Asked, IsSSE, WireInv, CorruptChunk
  PROVE  WireInv'
<1> DEFINE f == CorruptFrame
<1>1. /\ phase = "stream" /\ rest = << >> /\ rest' = rest /\ UNCHANGED <<o, made>>
      /\ phase' = phase /\ corrupted' = TRUE /\ client' = client /\ next' = next
      /\ wire' = Append(wire, f) /\ pending' = pending /\ CorruptDue
  BY DEF CorruptChunk, Streaming, made
<1>2. Typed /\ CutsRight /\ Calm /\ Kinds /\ Buffered /\ Made /\ Placed /\ Heard
  BY InvParts
<1>3. Streamed /\ Shape /\ o.stream /\ Streamed' /\ o' = o
  BY <1>1, <1>2, StreamShape DEF Kinds, Streamed
<1>4. ~corrupted /\ o.malformed_chunk /\ next <= Len(Items) /\ Items[next].chunk > 0
      /\ Items[next].chunk - 1 = Chunks \div 2
  BY <1>1 DEF CorruptDue, IsDelta, Now
<1>5. Spells(f, <<Invalid>>) /\ f \in Seq(Bytes) /\ ~HasRune(f) /\ OneLine(f)
  BY CorruptSpells
<1> HIDE DEF f
<1>6. /\ wire' \in Seq(Seq(Bytes)) /\ FlattenSeq(wire) \in Seq(Bytes)
      /\ FlattenSeq(wire') = FlattenSeq(wire) \o f
  BY <1>1, <1>2, <1>5, WireFlat
<1>7. Typed'
  BY <1>1, <1>2, <1>6 DEF Typed
<1>8. CutsRight'
  <2>1. Fits(f)
    BY <1>5 DEF Fits
  <2>2. Fits(rest)'
    BY <1>1, NoRuneInNothing DEF Fits
  <2>3. o.coalesce_frames <= 1 =>
          /\ o.fragment_split = "rune" =>
               \A k \in 1..Len(wire') : HasRune(wire'[k]) => CutInside(k)'
          /\ o.fragment_split = "event" => \A k \in 1..Len(wire') : OneLine(wire'[k])
    BY <1>1, <1>2, <1>3, <1>5, <2>1, CutsAppend
  <2>4. QED
    BY <1>3, <2>2, <2>3 DEF CutsRight
<1>9. Calm' /\ Kinds' /\ Buffered'
  BY <1>1, <1>2, <1>3, <1>4 DEF Calm, Kinds, Buffered
<1>10. Made'
  <2>1. words' = words /\ deltas' = deltas /\ DeltaTexts(words)' = DeltaTexts(words)
    BY <1>1, SameStream DEF made
  <2>2. QED
    BY <1>2, <1>3, <2>1 DEF Made
<1>11. Placed'
  <2>1. Payloads' = Payloads
    BY <1>1, SameStream
  <2>2. QED
    BY <1>1, <1>2, <1>3, <2>1 DEF Placed
<1>12. next \in 1..Len(Items) /\ next - 1 \in 0..Len(Payloads) /\ Due(next)
  <2>1. next \in 1..(Len(Payloads) + 1) /\ Len(Items) \in Nat /\ Len(Payloads) \in Nat
    BY <1>2, <1>3, PayloadsAre DEF Placed, Shape
  <2>2. next \in 1..Len(Items) /\ next - 1 \in 0..Len(Payloads)
    BY <1>4, <2>1
  <2>3. QED
    BY <1>4, <2>2 DEF Due
<1>13. Heard'
  <2>1. CASE ~client
    BY <1>1, <2>1 DEF Heard
  <2>2. CASE client
    <3>1. PICK W \in Seq(Seq(Bytes)), V \in Seq(Seq(Bytes)), P \in Seq(Seq(Bytes)) :
            Accounted(W, V, P)
      BY <1>2, <1>3, <2>2 DEF Heard
    <3>2. Written(W) /\ Waits(P) /\ W = V /\ V \o P = Told(next - 1)
      BY <1>4, <3>1 DEF Accounted, Laid
    <3> DEFINE I == <<Invalid>>
               N == << >>
    <3>3. N \in Seq(Seq(Bytes)) /\ I \in Seq(Seq(Bytes))
      BY OtherMessages, InnerIsPure, Single, EmptySeq
    <3> HIDE DEF I, N
    <3>4. W \o I \in Seq(Seq(Bytes)) /\ (W \o I) \o N = W \o I /\ W \o N = V
      <4>1. W \o I \in Seq(Seq(Bytes))
        BY <3>3, ConcatProperties
      <4>2. QED
        BY <3>2, <4>1, ConcatEmptySeq DEF N
    <3>5. Written(W \o I)'
      <4>1. Spells(FlattenSeq(wire), W)
        <5>1. FlattenSeq(wire) \o rest = FlattenSeq(wire)
          BY <1>1, <1>6, ConcatEmptySeq
        <5>2. QED
          BY <3>2, <5>1 DEF Written
      <4>2. Spells(FlattenSeq(wire'), W \o I)
        BY <1>5, <1>6, <4>1, SpellsConcat DEF I
      <4>3. FlattenSeq(wire') \o rest' = FlattenSeq(wire')
        <5>1. FlattenSeq(wire') \in Seq(Bytes)
          BY <4>2 DEF Spells
        <5>2. QED
          BY <1>1, <5>1, ConcatEmptySeq
      <4>4. QED
        BY <4>2, <4>3 DEF Written
    <3>6. Waits(P)'
      BY <1>1, <3>2 DEF Waits
    <3>7. Struck(next, Len(W))
      <4>1. Len(Told(next - 1)) = next - 1
        BY <1>3, <1>12, ToldIsTyped
      <4>2. Len(V \o P) = Len(V) + Len(P) /\ Len(V) \in Nat /\ Len(P) \in Nat
        BY ConcatProperties, LenProperties
      <4>3. Len(W) <= next - 1 /\ (P = << >> => Len(W) = next - 1)
        <5>1. P = << >> => Len(P) = 0
          BY EmptySeq
        <5>2. Len(V) + Len(P) = next - 1
          BY <3>2, <4>1, <4>2
        <5>3. next - 1 \in Nat
          BY <1>12
        <5>4. QED
          BY <3>2, <4>2, <5>1, <5>2, <5>3
      <4>4. o.coalesce_frames <= 1 => P = << >>
        BY <3>2, NothingSpelled DEF Waits
      <4>5. QED
        BY <1>12, <4>3, <4>4 DEF Struck
    <3>8. Laid(W \o I, V)'
      <4>1. Struck(next, Len(W))'
        <5>1. \A c, n : Struck(c, n)' <=> Struck(c, n)
          BY <1>1, SameStream
        <5>2. QED
          BY <1>1, <3>7, <5>1
      <4>2. \E c : Struck(c, Len(W))'
        BY <4>1
      <4>3. W \o I = (W \o <<Invalid>>) \o N /\ V = W \o N
        BY <3>4 DEF I
      <4>4. QED
        BY <1>1, <3>3, <4>2, <4>3 DEF Laid
    <3>9. Told(next - 1)' = Told(next - 1)
      BY <1>1, SameStream DEF Told
    <3>10. Accounted(W \o I, V, P)'
      BY <3>2, <3>5, <3>6, <3>8, <3>9 DEF Accounted
    <3>11. QED
      BY <3>4, <3>10 DEF Heard
  <2>3. QED
    BY <2>1, <2>2
<1>14. QED
  BY <1>7, <1>8, <1>9, <1>10, <1>11, <1>13 DEF WireInv

Counted == Len(Payloads) \in Nat

(* The counts of the frames and chunks of a stream. *)
LEMMA StreamShaped == Asked /\ IsSSE /\ Made /\ Streamed => Counted
BY StreamShape, PayloadsAre DEF Counted

(* A stream begins with nothing told. *)
LEMMA GenerateStep ==
  ASSUME Asked, IsSSE, WireInv, GenerateWords
  PROVE  WireInv'
<1>1. /\ phase = "resolve" /\ o' = o /\ next' = next /\ corrupted' = corrupted
      /\ wire' = wire /\ rest' = rest /\ pending' = pending /\ client' = client
      /\ deltas' = (IF o.stream THEN DeltaTexts(words') ELSE << >>)
      /\ phase' = (IF o.stream THEN "stream" ELSE "answer")
  BY DEF GenerateWords, writer
<1>2. Typed /\ CutsRight /\ Calm /\ Kinds /\ Buffered /\ Made /\ Placed /\ Heard
  BY InvParts
<1>3. /\ next' = 1 /\ ~corrupted' /\ wire' = << >> /\ rest' = << >> /\ pending' = << >>
  BY <1>1, <1>2 DEF Calm
<1>4. Typed' /\ CutsRight' /\ Calm' /\ Kinds' /\ Buffered'
  <2>1. Typed'
    BY <1>1, <1>2 DEF Typed
  <2>2. CutsRight'
    BY <1>1, <1>2 DEF CutsRight, CutInside, Fits
  <2>3. Calm' /\ Kinds' /\ Buffered'
    BY <1>1, <1>2, <1>3 DEF Calm, Kinds, Buffered
  <2>4. QED
    BY <2>1, <2>2, <2>3
<1>5. Streamed' => o.stream
  BY <1>1 DEF Streamed
<1>6. Made'
  <2>1. words' \in Seq(Seq(Alphabet))
    BY WordsAreTyped
  <2>2. DeltaTexts(words)' = DeltaTexts(words')
    BY <1>1 DEF DeltaTexts, cfg
  <2>3. QED
    BY <1>1, <1>5, <2>1, <2>2 DEF Made
<1>7. Asked' /\ IsSSE'
  BY <1>1 DEF Asked, IsSSE
<1>8. Streamed' => Len(Payloads)' \in Nat
  <2>1. Asked' /\ IsSSE' /\ Made' /\ Streamed' => Counted'
    BY StreamShaped, PTL
  <2>2. QED
    BY <1>6, <1>7, <2>1 DEF Counted
<1>9. Placed'
  <2>1. phase' # "over"
    BY <1>1
  <2>2. QED
    BY <1>3, <1>8, <2>1 DEF Placed
<1>10. Heard'
  <2>1. << >> \in Seq(Bytes) /\ << >> \in Seq(Seq(Bytes))
    BY EmptySeq
  <2>2. << >> \o << >> = << >>
    BY <2>1, ConcatEmptySeq
  <2>3. Written(<< >>)' /\ Waits(<< >>)'
    BY <1>3, <2>2, FlattenNothing, SpellsNothing DEF Written, Waits
  <2>4. Laid(<< >>, << >>)'
    BY <1>3 DEF Laid
  <2>5. Told(next - 1)' = << >>
    <3>1. Told(next - 1)' = SubSeq(Payloads', 1, 0)
      BY <1>3 DEF Told
    <3>2. QED
      BY <3>1, SubSeqEmpty
  <2>6. Accounted(<< >>, << >>, << >>)'
    BY <2>2, <2>3, <2>4, <2>5 DEF Accounted
  <2>7. QED
    BY <2>1, <2>6 DEF Heard
<1>11. QED
  BY <1>4, <1>6, <1>9, <1>10 DEF WireInv

(* The invariant holds of every request. *)
LEMMA WireInvHolds == Spec => [](Asked /\ WireInv)
<1>1. Init => Asked /\ WireInv
  BY InvStarts DEF Init, Asked
<1>2. Asked /\ WireInv /\ [Next]_vars => Asked' /\ WireInv'
  <2> SUFFICES ASSUME Asked, WireInv, [Next]_vars
               PROVE  Asked' /\ WireInv'
    OBVIOUS
  <2>1. o' = o
    BY DEF vars, Next, Handler, RefuseTokens, PanicInGenerate, GenerateWords, Answer,
           CorruptChunk, Ping, GiveUp, EmitFrame, WriteRest, LoseRest, WriteDone, ClientLeaves
  <2>2. Asked'
    BY <2>1 DEF Asked
  <2>3. ASSUME IsSSE
        PROVE  WireInv'
    <3>1. CASE RefuseTokens \/ PanicInGenerate \/ Answer \/ GiveUp \/ ClientLeaves
               \/ UNCHANGED vars
      BY <3>1, QuietSteps
    <3>2. CASE GenerateWords
      BY <2>3, <3>2, GenerateStep
    <3>3. CASE CorruptChunk
      BY <2>3, <3>3, CorruptStep
    <3>4. CASE Ping
      BY <2>3, <3>4, PingStep
    <3>5. CASE EmitFrame
      BY <2>3, <3>5, EmitStep
    <3>6. CASE WriteRest \/ LoseRest
      BY <2>3, <3>6, RestStep
    <3>7. CASE WriteDone
      BY <2>3, <3>7, DoneFrameStep, FlushStep
    <3>8. QED
      BY <3>1, <3>2, <3>3, <3>4, <3>5, <3>6, <3>7 DEF Next, Handler
  <2>4. ASSUME ~IsSSE
        PROVE  WireInv'
    BY <2>1, <2>4 DEF WireInv, IsSSE
  <2>5. QED
    BY <2>2, <2>3, <2>4
<1>3. QED
  BY <1>1, <1>2, PTL DEF Spec
-----------------------------------------------------------------------------
(***************************************************************************)
(* What a client reads.                                                    *)
(***************************************************************************)
\* The message at i, if the corrupt chunk is behind the first n messages.
Slot(i, n) == IF corrupted /\ i > n THEN i - 1 ELSE i

Piled(W, n) ==
  /\ n \in Nat
  /\ corrupted => n < Len(W) /\ W[n + 1] = Invalid /\ \E c : Struck(c, n)
  /\ \A i \in 1..Len(W) :
       ~(corrupted /\ i = n + 1) =>
         Slot(i, n) \in 1..Len(Payloads) /\ W[i] = Payloads[Slot(i, n)]

(* What was written comes first among the payloads. *)
LEMMA ToldInFront ==
  ASSUME Shape, next \in 1..(Len(Payloads) + 1),
         NEW V \in Seq(Seq(Bytes)), NEW P \in Seq(Seq(Bytes)), V \o P = Told(next - 1)
  PROVE  /\ Len(V) \in 0..Len(Payloads) /\ \A i \in 1..Len(V) : V[i] = Payloads[i]
         /\ \E Y \in Seq(Seq(Bytes)) : Payloads = V \o Y
<1> DEFINE p == Payloads
           L == Len(p)
           m == next - 1
           t == Told(m)
           z == SubSeq(p, m + 1, L)
<1>1. p \in Seq(Seq(Bytes)) /\ L \in Nat /\ m \in 0..L
  BY ToldIsTyped
<1>2. t \in Seq(Seq(Bytes)) /\ Len(t) = m /\ \A i \in 1..m : t[i] = p[i]
  BY <1>1, ToldIsTyped
<1>3. /\ Len(V) \in Nat /\ Len(P) \in Nat /\ Len(t) = Len(V) + Len(P)
      /\ \A i \in 1..Len(V) : t[i] = V[i]
  BY Beside DEF t, m
<1>4. t \o z = p
  <2>1. SubSeq(p, 1, L) = p
    BY <1>1, SubSeqFull
  <2>2. t = SubSeq(p, 1, m)
    BY DEF Told
  <2>3. 1 \in 1..(L + 1) /\ m \in (1 - 1)..L /\ L \in m..L
    BY <1>1
  <2> HIDE DEF p, m, t, L
  <2>4. SubSeq(p, 1, m) \o SubSeq(p, m + 1, L) = SubSeq(p, 1, L)
    BY <1>1, <2>3, ConcatAdjacentSubSeq DEF L
  <2>5. QED
    BY <2>1, <2>2, <2>4
<1>5. z \in Seq(Seq(Bytes))
  <2>1. \A i \in (m + 1)..L : i \in 1..L
    BY <1>1
  <2>2. \A i \in (m + 1)..L : p[i] \in Seq(Bytes)
    BY <1>1, <2>1, ElementOfSeq
  <2>3. m + 1 \in Int /\ L \in Int
    BY <1>1
  <2> HIDE DEF p, m, L
  <2>4. QED
    BY <2>2, <2>3, SubSeqProperties
<1>6. P \o z \in Seq(Seq(Bytes)) /\ p = V \o (P \o z)
  <2> HIDE DEF z, p
  <2>1. P \o z \in Seq(Seq(Bytes))
    BY <1>5, ConcatProperties
  <2>2. \A a, b, c \in Seq(Seq(Bytes)) : (a \o b) \o c = a \o (b \o c)
    <3>1. Groups(Seq(Bytes))
      BY Grouping
    <3>2. QED
      BY <3>1 DEF Groups
  <2>3. (V \o P) \o z = V \o (P \o z)
    BY <1>5, <2>2, Zenon
  <2>4. QED
    BY <1>4, <2>1, <2>3 DEF t, m
<1>7. Len(V) \in 0..L /\ \A i \in 1..Len(V) : V[i] = p[i]
  <2> HIDE DEF p, L, t, m, z
  <2>1. Len(V) \in 0..m /\ m \in 0..L /\ L \in Nat
    BY <1>1, <1>2, <1>3
  <2>2. Len(V) \in 0..L
    BY <2>1
  <2>3. ASSUME NEW i \in 1..Len(V) PROVE V[i] = p[i]
    <3>1. i \in 1..m
      BY <2>1
    <3>2. t[i] = p[i] /\ t[i] = V[i]
      BY <1>2, <1>3, <3>1
    <3>3. QED
      BY <3>2
  <2>4. QED
    BY <2>2, <2>3
<1>8. QED
  BY <1>6, <1>7

(* What was written is payloads in order, and at most one corrupt chunk among them. *)
LEMMA WrittenIs ==
  ASSUME Shape, next \in 1..(Len(Payloads) + 1),
         NEW W \in Seq(Seq(Bytes)), NEW V \in Seq(Seq(Bytes)), NEW P \in Seq(Seq(Bytes)),
         Laid(W, V), V \o P = Told(next - 1)
  PROVE  /\ \E n : Piled(W, n)
         /\ TextRead(W) = TextRead(V)
         /\ Len(W) = Len(V) + (IF corrupted THEN 1 ELSE 0)
<1>1. Len(V) \in 0..Len(Payloads) /\ \A i \in 1..Len(V) : V[i] = Payloads[i]
  BY ToldInFront
<1>2. Len(Payloads) \in Nat /\ Len(V) \in Nat
  BY ToldIsTyped, LenProperties
<1>3. CASE ~corrupted
  <2>1. W = V
    BY <1>3 DEF Laid
  <2>2. Piled(W, 0)
    BY <1>1, <1>2, <1>3, <2>1 DEF Piled, Slot
  <2>3. QED
    BY <1>2, <1>3, <2>1, <2>2
<1>4. CASE corrupted
  <2>1. PICK A \in Seq(Seq(Bytes)), B \in Seq(Seq(Bytes)) :
          /\ W = (A \o <<Invalid>>) \o B /\ V = A \o B
          /\ \E c : Struck(c, Len(A))
    BY <1>4 DEF Laid
  <2> DEFINE I == <<Invalid>>
             Z == A \o I
             n == Len(A)
             k == Len(B)
  <2>2. I \in Seq(Seq(Bytes)) /\ Len(I) = 1 /\ I[1] = Invalid /\ Invalid \in Seq(Bytes)
    BY OtherMessages, InnerIsPure, Single
  <2>3. TextRead(I) = << >>
    BY <2>2, TextReadOne, SaidInMessages
  <2> HIDE DEF I
  <2>4. /\ Z \in Seq(Seq(Bytes)) /\ Len(Z) = n + 1 /\ n \in Nat
        /\ \A i \in 1..n : Z[i] = A[i]
        /\ Z[n + 1] = Invalid
    <3>1. /\ Z \in Seq(Seq(Bytes)) /\ Len(Z) = n + Len(I) /\ n \in Nat
          /\ \A i \in 1..n : Z[i] = A[i]
          /\ \A i \in 1..Len(I) : Z[n + i] = I[i]
      <4>1. I \in Seq(Seq(Bytes))
        BY <2>2
      <4>2. QED
        BY <4>1, Beside
    <3>2. QED
      BY <2>2, <3>1
  <2>5. W = Z \o B
    BY <2>1 DEF I
  <2> HIDE DEF Z
  <2>6. /\ Len(W) = n + 1 + k /\ k \in Nat
        /\ \A i \in 1..Len(W) : W[i] = IF i \in 1..(n + 1) THEN Z[i] ELSE B[i - (n + 1)]
    <3>1. /\ Len(Z \o B) = Len(Z) + k /\ k \in Nat
          /\ \A i \in 1..Len(Z \o B) :
               (Z \o B)[i] = IF i \in 1..Len(Z) THEN Z[i] ELSE B[i - Len(Z)]
      <4>1. Z \in Seq(Seq(Bytes))
        BY <2>4
      <4>2. QED
        BY <4>1, Beside
    <3> HIDE DEF k
    <3>2. Len(Z) = n + 1
      BY <2>4
    <3>3. QED
      BY <2>5, <3>1, <3>2
  <2>7. /\ Len(V) = n + k
        /\ \A i \in 1..n : V[i] = A[i]
        /\ \A i \in 1..k : V[n + i] = B[i]
    BY <2>1, Beside
  <2> HIDE DEF n, k
  <2>8. n < Len(W) /\ W[n + 1] = Invalid
    <3>1. n + 1 \in 1..Len(W) /\ n + 1 \in 1..(n + 1) /\ n < Len(W)
      BY <2>4, <2>6
    <3>2. QED
      BY <2>4, <2>6, <3>1
  <2>9. ASSUME NEW i \in 1..Len(W), i # n + 1
        PROVE  Slot(i, n) \in 1..Len(Payloads) /\ W[i] = Payloads[Slot(i, n)]
    <3>1. CASE i > n
      <4>1. Slot(i, n) = i - 1
        BY <1>4, <3>1 DEF Slot
      <4>2. /\ i - (n + 1) \in 1..k /\ n + (i - (n + 1)) = i - 1 /\ i \notin 1..(n + 1)
            /\ i - 1 \in 1..Len(V)
        BY <2>4, <2>6, <2>7, <2>9, <3>1
      <4>3. W[i] = B[i - (n + 1)]
        BY <2>6, <4>2
      <4>4. V[n + (i - (n + 1))] = B[i - (n + 1)]
        BY <2>7, <4>2
      <4>5. V[i - 1] = Payloads[i - 1] /\ i - 1 \in 1..Len(Payloads)
        <5> DEFINE j == i - 1
        <5>1. j \in 1..Len(V)
          BY <4>2
        <5> HIDE DEF j
        <5>2. V[j] = Payloads[j] /\ j \in 1..Len(Payloads)
          BY <1>1, <1>2, <5>1
        <5>3. QED
          BY <5>2 DEF j
      <4>6. QED
        BY <4>1, <4>2, <4>3, <4>4, <4>5
    <3>2. CASE ~(i > n)
      <4>1. Slot(i, n) = i
        BY <3>2 DEF Slot
      <4>2. i \in 1..n /\ i \in 1..(n + 1) /\ i \in 1..Len(V) /\ i \in 1..Len(Payloads)
        BY <1>1, <1>2, <2>4, <2>6, <2>7, <3>2
      <4>3. W[i] = Z[i] /\ Z[i] = A[i] /\ V[i] = A[i] /\ V[i] = Payloads[i]
        BY <1>1, <2>4, <2>6, <2>7, <4>2
      <4>4. QED
        BY <4>1, <4>2, <4>3
    <3>3. QED
      BY <3>1, <3>2
  <2>10. Piled(W, n)
    <3>1. \E c : Struck(c, n)
      BY <2>1 DEF n
    <3>2. QED
      <4>1. \A i \in 1..Len(W) :
              i # n + 1 => Slot(i, n) \in 1..Len(Payloads) /\ W[i] = Payloads[Slot(i, n)]
        BY <2>9
      <4>2. n \in Nat
        BY <2>4
      <4>3. QED
        BY <1>4, <2>8, <3>1, <4>1, <4>2 DEF Piled
  <2>11. TextRead(W) = TextRead(V)
    <3>1. TextRead(A) \in Seq(Marks)
      BY AllSaidIsTyped
    <3>2. TextRead(Z) = TextRead(A) \o TextRead(I)
      BY <2>2, TextReadConcat DEF Z
    <3>3. TextRead(Z) = TextRead(A)
      BY <2>3, <3>1, <3>2, ConcatEmptySeq
    <3>4. TextRead(W) = TextRead(Z) \o TextRead(B)
      BY <2>4, <2>5, TextReadConcat
    <3>5. TextRead(V) = TextRead(A) \o TextRead(B)
      BY <2>1, TextReadConcat
    <3>6. QED
      BY <3>3, <3>4, <3>5
  <2>12. Len(W) = Len(V) + 1
    BY <2>4, <2>6, <2>7
  <2>13. QED
    BY <1>4, <2>10, <2>11, <2>12
<1>5. QED
  BY <1>3, <1>4

\* What a client is reading: a part of what was written, in the end all of it.
LEMMA ReadingIs ==
  ASSUME Asked, IsSSE, WireInv, Streamed, client
  PROVE  /\ Received \in Seq(Seq(Bytes))
         /\ \E W, V, P, D \in Seq(Seq(Bytes)) :
              /\ Laid(W, V) /\ V \o P = Told(next - 1) /\ W = Received \o D
              /\ phase = "over" => W = Received /\ V = Payloads
<1>1. Typed /\ CutsRight /\ Calm /\ Kinds /\ Buffered /\ Made /\ Placed /\ Heard
  BY InvParts
<1>2. Shape
  BY <1>1, StreamShape
<1>3. PICK W \in Seq(Seq(Bytes)), V \in Seq(Seq(Bytes)), P \in Seq(Seq(Bytes)) :
        Accounted(W, V, P)
  BY <1>1 DEF Heard
<1>4. Written(W) /\ Waits(P) /\ Laid(W, V) /\ V \o P = Told(next - 1)
  BY <1>3 DEF Accounted
<1> DEFINE b == FlattenSeq(wire)
<1>5. Received = Events(b)
  BY DEF Received
<1>6. b \in Seq(Bytes) /\ rest \in Seq(Bytes) /\ Spells(b \o rest, W)
  <2>1. << >> \in Seq(Bytes)
    BY EmptySeq
  <2>2. QED
    BY <1>1, <1>4, <2>1, WireFlat DEF Typed, Written
<1> HIDE DEF b
<1>7. Events(b) \in Seq(Seq(Bytes)) /\ \E D \in Seq(Seq(Bytes)) : W = Events(b) \o D
  <2>1. b \in Seq(Bytes) /\ rest \in Seq(Bytes)
    BY <1>6
  <2>2. Spells(b \o rest, W)
    BY <1>6
  <2>3. PartOf(Events(b), W)
    BY <2>1, <2>2, PartRead
  <2>4. QED
    BY <2>3 DEF PartOf
<1>8. ASSUME phase = "over"
      PROVE  W = Events(b) /\ V = Payloads
  <2>1. next = Len(Payloads) + 1 /\ pending = << >> /\ rest = << >>
    BY <1>1, <1>8 DEF Placed
  <2>2. b \o rest = b
    BY <1>6, <2>1, ConcatEmptySeq
  <2>3. W = Events(b)
    BY <1>6, <2>2, AllRead
  <2>4. P = << >>
    BY <1>4, <2>1, NothingSpelled DEF Waits
  <2>5. V \o P = V
    BY <2>4, ConcatEmptySeq
  <2>6. next - 1 = Len(Payloads) /\ Told(Len(Payloads)) = Payloads
    BY <1>2, <2>1, ToldIsTyped
  <2>7. QED
    BY <1>4, <2>3, <2>5, <2>6
<1>9. QED
  BY <1>4, <1>5, <1>7, <1>8

(* A response with a chunk has a place for the corrupt chunk. *)
LEMMA DueOnce ==
  ASSUME Shape
  PROVE  /\ Chunks > 0 => \E c : Due(c)
         /\ \A c : Due(c) => Chunks > 0
<1> DEFINE h == DeltasFrom
           n == Len(deltas)
           L == Len(Items)
<1>1. /\ h \in Nat /\ n \in Nat /\ L \in Nat /\ h + n < L
      /\ \A i \in 1..L :
           IF i - h \in 1..n THEN Items[i].chunk = i - h
           ELSE Items[i].chunk > 0 =>
                  o.surface = "completions" /\ i = L /\ Items[i].chunk = 2
      /\ o.surface = "completions" => n = 1 /\ Items[L].chunk = 2
  BY DEF Shape
<1>2. Chunks = IF o.surface = "completions" THEN 2 ELSE n
  BY DEF Chunks
<1>3. \A c : Due(c) <=> /\ c \in 1..L /\ Items[c].chunk > 0
                        /\ Items[c].chunk - 1 = Chunks \div 2
  BY DEF Due
<1> HIDE DEF h, n, L
<1>4. CASE o.surface = "completions"
  <2>1. L \in 1..L
    BY <1>1
  <2>2. Due(L)
    BY <1>1, <1>2, <1>3, <1>4, <2>1
  <2>3. QED
    BY <1>2, <1>4, <2>2
<1>5. CASE o.surface # "completions"
  <2>1. ASSUME Chunks > 0
        PROVE  \E c : Due(c)
    <3> DEFINE k == n \div 2 + 1
               c == h + k
    <3>1. k \in 1..n /\ c \in 1..L /\ c - h = k
      BY <1>1, <1>2, <1>5, <2>1
    <3> HIDE DEF c
    <3>2. Items[c].chunk = k
      BY <1>1, <3>1
    <3>3. Due(c)
      BY <1>1, <1>2, <1>3, <1>5, <3>1, <3>2
    <3>4. QED
      BY <3>3
  <2>2. ASSUME NEW c, Due(c)
        PROVE  Chunks > 0
    <3>1. c \in 1..L /\ Items[c].chunk > 0
      BY <1>3, <2>2
    <3>2. c - h \in 1..n
      BY <1>1, <1>5, <3>1
    <3>3. QED
      BY <1>1, <1>2, <1>5, <3>2
  <2>3. QED
    BY <2>1, <2>2
<1>6. QED
  BY <1>4, <1>5

\* The texts before the corrupt chunk: half of the chunks, or fewer.
LEMMA TextsBefore ==
  ASSUME Shape, NEW n \in Nat, NEW c, Struck(c, n)
  PROVE  LET k == Cardinality({ j \in 1..n : j - DeltasFrom \in 1..Len(deltas) })
         IN /\ k <= Chunks \div 2
            /\ o.coalesce_frames <= 1 => k = Chunks \div 2
<1> DEFINE h == DeltasFrom
           m == Len(deltas)
           L == Len(Items)
           q == Chunks \div 2
           S == { j \in 1..n : j - h \in 1..m }
           e == IF n < h + m THEN n ELSE h + m
<1>1. /\ h \in Nat /\ m \in Nat /\ L \in Nat /\ h + m < L
      /\ \A i \in 1..L :
           IF i - h \in 1..m THEN Items[i].chunk = i - h
           ELSE Items[i].chunk > 0 =>
                  o.surface = "completions" /\ i = L /\ Items[i].chunk = 2
      /\ o.surface = "completions" => m = 1 /\ h = 0
  BY DEF Shape, DeltasFrom
<1>2. Chunks = IF o.surface = "completions" THEN 2 ELSE m
  BY DEF Chunks
<1>3. /\ c \in 1..L /\ Items[c].chunk > 0 /\ Items[c].chunk - 1 = q
      /\ n <= c - 1 /\ (o.coalesce_frames <= 1 => n = c - 1)
  BY DEF Struck, Due
<1>4. S = (h + 1)..e /\ h + 1 \in Int /\ e \in Int
  <2> HIDE DEF h, m
  <2>1. \A j : j \in S <=> j \in (h + 1)..e
    BY <1>1
  <2>2. QED
    BY <1>1, <2>1
<1>5. Cardinality(S) = IF h + 1 > e THEN 0 ELSE e - (h + 1) + 1
  <2>1. Cardinality((h + 1)..e) = IF h + 1 > e THEN 0 ELSE e - (h + 1) + 1
    <3> HIDE DEF h, e
    <3> QED
      BY <1>4, FS_Interval
  <2> HIDE DEF S, e, h
  <2>2. QED
    BY <1>4, <2>1
<1> HIDE DEF S, h, m, L
<1>6. CASE o.surface = "completions"
  <2>1. q = 1
    BY <1>2, <1>6
  <2>2. c = L
    BY <1>1, <1>3, <1>6, <2>1
  <2>3. QED
    <3>1. h = 0 /\ m = 1 /\ n <= L - 1 /\ 1 < L /\ (o.coalesce_frames <= 1 => n = L - 1)
      BY <1>1, <1>3, <1>6, <2>2
    <3>2. e \in 0..1 /\ (n # 0 => e = 1) /\ L \in Nat
      BY <1>1, <3>1
    <3>3. Cardinality(S) = e
      BY <1>5, <3>1, <3>2
    <3>4. Cardinality(S) <= q /\ (o.coalesce_frames <= 1 => Cardinality(S) = q)
      BY <2>1, <3>1, <3>2, <3>3
    <3>5. QED
      BY <3>4 DEF S, h, m
<1>7. CASE o.surface # "completions"
  <2>1. c - h \in 1..m /\ c - h - 1 = q
    BY <1>1, <1>3, <1>7
  <2> HIDE DEF q
  <2>2. /\ h \in Nat /\ m \in Nat /\ c \in Nat /\ q \in Int
        /\ n <= h + q /\ (o.coalesce_frames <= 1 => n = h + q) /\ q < m
    BY <1>1, <1>3, <2>1
  <2>3. e = n
    BY <2>2
  <2> HIDE DEF e
  <2>4. q >= 0
    BY <2>1, <2>2
  <2>5. Cardinality(S) <= q /\ (o.coalesce_frames <= 1 => Cardinality(S) = q)
    BY <1>5, <2>2, <2>3, <2>4
  <2>6. QED
    BY <2>5 DEF S, h, m, q
<1>8. QED
  BY <1>6, <1>7

(* What the messages read are, one by one. *)
LEMMA ReadMessages ==
  ASSUME Shape, words \in Seq(Seq(Alphabet)), deltas \in Seq(Seq(Alphabet)),
         NEW R \in Seq(Seq(Bytes)), NEW W, PartOf(R, W), NEW n, Piled(W, n)
  PROVE  /\ Len(R) \in Nat
         /\ \A i \in 1..Len(R) :
              /\ IsBad(R[i]) <=> corrupted /\ i = n + 1
              /\ Holds("full:", R[i]) =>
                   o.surface = "responses" /\ TextOf(R[i]) = joinContent(words)
              /\ i <= n => (Holds("text:", R[i]) <=> i - DeltasFrom \in 1..Len(deltas))
<1>1. PICK D \in Seq(Seq(Bytes)) : W = R \o D
  BY DEF PartOf
<1>2. /\ Len(R) \in Nat /\ Len(D) \in Nat /\ Len(W) = Len(R) + Len(D)
      /\ \A i \in 1..Len(R) : W[i] = R[i]
  BY <1>1, Beside
<1>3. /\ n \in Nat
      /\ corrupted => W[n + 1] = Invalid
      /\ \A i \in 1..Len(W) :
           ~(corrupted /\ i = n + 1) =>
             Slot(i, n) \in 1..Len(Payloads) /\ W[i] = Payloads[Slot(i, n)]
  BY DEF Piled
<1>4. ASSUME NEW i \in 1..Len(R)
      PROVE  /\ IsBad(R[i]) <=> corrupted /\ i = n + 1
             /\ Holds("full:", R[i]) =>
                  o.surface = "responses" /\ TextOf(R[i]) = joinContent(words)
             /\ i <= n => (Holds("text:", R[i]) <=> i - DeltasFrom \in 1..Len(deltas))
  <2>1. R[i] = W[i] /\ i \in 1..Len(W)
    BY <1>2
  <2>2. CASE corrupted /\ i = n + 1
    <3>1. R[i] = Invalid /\ ~(i <= n)
      BY <1>3, <2>1, <2>2
    <3>2. IsBad(Invalid) /\ ~Holds("full:", Invalid)
      BY OtherMessages
    <3>3. QED
      BY <2>2, <3>1, <3>2
  <2>3. CASE ~(corrupted /\ i = n + 1)
    <3> DEFINE s == Slot(i, n)
    <3>1. s \in 1..Len(Payloads) /\ R[i] = Payloads[s]
      BY <1>3, <2>1, <2>3
    <3>2. i <= n => s = i
      BY <1>2, <1>3 DEF Slot
    <3> HIDE DEF s
    <3>3. Kept(s)
      BY <3>1, PayloadsSay
    <3>4. /\ ~IsBad(Payloads[s])
          /\ Holds("text:", Payloads[s]) <=> s - DeltasFrom \in 1..Len(deltas)
          /\ Holds("full:", Payloads[s]) =>
               o.surface = "responses" /\ TextOf(Payloads[s]) = joinContent(words)
      BY <3>3 DEF Kept, Message
    <3>5. QED
      BY <2>3, <3>1, <3>2, <3>4
  <2>4. QED
    BY <2>2, <2>3
<1>5. QED
  BY <1>2, <1>4

\* No message but the corrupt chunk is one that cannot be read.
LEMMA BadMessages ==
  ASSUME Shape, words \in Seq(Seq(Alphabet)), deltas \in Seq(Seq(Alphabet)),
         NEW R \in Seq(Seq(Bytes)), NEW W, PartOf(R, W), NEW n, Piled(W, n)
  PROVE  /\ BadIn(R) \in Nat
         /\ BadIn(R) <= (IF corrupted THEN 1 ELSE 0)
         /\ W = R => BadIn(R) = (IF corrupted THEN 1 ELSE 0)
<1> DEFINE B == { i \in 1..Len(R) : IsBad(R[i]) }
<1>1. /\ Len(R) \in Nat
      /\ \A i \in 1..Len(R) : IsBad(R[i]) <=> corrupted /\ i = n + 1
  BY ReadMessages
<1>2. n \in Nat /\ (corrupted => n < Len(W))
  BY DEF Piled
<1>3. BadIn(R) = Cardinality(B)
  BY DEF BadIn
<1>4. B = IF corrupted /\ n + 1 <= Len(R) THEN {n + 1} ELSE {}
  BY <1>1, <1>2
<1> HIDE DEF B
<1>5. Cardinality(B) = IF corrupted /\ n + 1 <= Len(R) THEN 1 ELSE 0
  BY <1>4, FS_EmptySet, FS_Singleton
<1>6. QED
  BY <1>1, <1>2, <1>3, <1>5

(* A stream that is over has had its corrupt chunk, if it asked for one. *)
LEMMA CorruptedOnce ==
  ASSUME Asked, IsSSE, WireInv, Streamed, client, NEW W, NEW n, Piled(W, n)
  PROVE  /\ (IF corrupted THEN 1 ELSE 0) <= Corruptions /\ Corruptions \in {0, 1}
         /\ phase = "over" => Corruptions = (IF corrupted THEN 1 ELSE 0)
<1>1. Kinds /\ Placed /\ Made
  BY InvParts
<1>2. Shape
  BY <1>1, StreamShape
<1>3. (Chunks > 0 => \E c : Due(c)) /\ \A c : Due(c) => Chunks > 0
  BY <1>2, DueOnce
<1>4. Corruptions \in {0, 1} /\ (Corruptions = 1 <=> o.malformed_chunk /\ Chunks > 0)
  BY DEF Corruptions
<1>5. corrupted => Corruptions = 1
  <2>1. corrupted => o.malformed_chunk
    BY <1>1 DEF Kinds
  <2>2. corrupted => \E c : Due(c)
    BY DEF Piled, Struck
  <2>3. QED
    BY <1>3, <1>4, <2>1, <2>2
<1>6. ASSUME phase = "over", ~corrupted
      PROVE  Corruptions # 1
  <2>1. next = Len(Payloads) + 1 /\ (o.malformed_chunk => \A c \in 1..(next - 1) : ~Due(c))
    BY <1>1, <1>6 DEF Placed
  <2>2. \A c : Due(c) => c \in 1..(next - 1)
    <3>1. Len(Items) \in Nat /\ Len(Payloads) \in Nat /\ Len(Payloads) >= Len(Items)
      BY <1>2, PayloadsAre DEF Shape
    <3>2. QED
      BY <2>1, <3>1 DEF Due
  <2>3. QED
    BY <1>3, <1>4, <2>1, <2>2
<1>7. QED
  BY <1>4, <1>5, <1>6

(* What TextArrives says, of SSE streams. *)
LEMMA TextsArrive ==
  ASSUME Asked, IsSSE, WireInv, o.stream, client, phase \in {"stream", "over"}
  PROVE  /\ IsPrefix(TextRead(Received), Content)
         /\ BadIn(Received) <= Corruptions
         /\ \A i \in 1..Len(Received) :
              Holds("full:", Received[i]) => TextOf(Received[i]) = Content
         /\ phase = "over" =>
              /\ TextRead(Received) = Content
              /\ BadIn(Received) = Corruptions
              /\ Len(Received) = Len(Items) + Corruptions + (IF EndsWithDone THEN 1 ELSE 0)
<1> DEFINE r == Received
<1>1. Streamed
  BY DEF Streamed
<1>2. Kinds /\ Placed /\ Made
  BY InvParts
<1>3. /\ words \in Seq(Seq(Alphabet)) /\ deltas \in Seq(Seq(Alphabet))
      /\ FlattenSeq(deltas) = Content
      /\ o.surface = "responses" => Content = joinContent(words)
      /\ Shape
  BY <1>1, <1>2, StreamShape
<1>4. r \in Seq(Seq(Bytes)) /\ next \in 1..(Len(Payloads) + 1)
  BY <1>1, <1>2, ReadingIs DEF Placed
<1>5. PICK W \in Seq(Seq(Bytes)), V \in Seq(Seq(Bytes)), P \in Seq(Seq(Bytes)),
           D \in Seq(Seq(Bytes)) :
        /\ Laid(W, V) /\ V \o P = Told(next - 1) /\ W = r \o D
        /\ phase = "over" => W = r /\ V = Payloads
  BY <1>1, ReadingIs
<1>6. PartOf(r, W)
  BY <1>4, <1>5 DEF PartOf
<1>7. /\ \E n : Piled(W, n)
      /\ TextRead(W) = TextRead(V)
      /\ Len(W) = Len(V) + (IF corrupted THEN 1 ELSE 0)
  BY <1>3, <1>4, <1>5, WrittenIs
<1>8. PICK n : Piled(W, n)
  BY <1>7
<1>9. /\ (IF corrupted THEN 1 ELSE 0) <= Corruptions /\ Corruptions \in {0, 1}
      /\ phase = "over" => Corruptions = (IF corrupted THEN 1 ELSE 0)
  BY <1>1, <1>8, CorruptedOnce
<1> HIDE DEF r
<1>10. TextRead(Payloads) = Content
  BY <1>3, PayloadsText
<1>11. IsPrefix(TextRead(r), Content)
  <2>1. PICK Y \in Seq(Seq(Bytes)) : Payloads = V \o Y
    BY <1>3, <1>4, <1>5, ToldInFront
  <2> DEFINE a == TextRead(r)
             b == TextRead(D)
             c == TextRead(Y)
  <2>2. a \in Seq(Marks) /\ b \in Seq(Marks) /\ c \in Seq(Marks)
    BY <1>4, AllSaidIsTyped
  <2>3. Content = TextRead(V) \o c
    BY <1>10, <2>1, TextReadConcat
  <2>4. TextRead(W) = a \o b
    BY <1>4, <1>5, TextReadConcat
  <2>5. Content = (a \o b) \o c
    BY <1>7, <2>3, <2>4
  <2> HIDE DEF a, b, c
  <2>6. (a \o b) \o c = a \o (b \o c) /\ b \o c \in Seq(Marks)
    BY <2>2, Regrouped, ConcatProperties
  <2>7. IsPrefix(a, a \o (b \o c))
    BY <2>2, <2>6, PrefixOf
  <2>8. QED
    BY <2>5, <2>6, <2>7 DEF a
<1>12. BadIn(r) \in Nat /\ BadIn(r) <= (IF corrupted THEN 1 ELSE 0)
       /\ (W = r => BadIn(r) = (IF corrupted THEN 1 ELSE 0))
  BY <1>3, <1>4, <1>6, <1>8, BadMessages
<1>13. BadIn(r) <= Corruptions
  BY <1>9, <1>12
<1>14. \A i \in 1..Len(r) : Holds("full:", r[i]) => TextOf(r[i]) = Content
  BY <1>3, <1>4, <1>6, <1>8, ReadMessages
<1>15. ASSUME phase = "over"
       PROVE  /\ TextRead(r) = Content
              /\ BadIn(r) = Corruptions
              /\ Len(r) = Len(Items) + Corruptions + (IF EndsWithDone THEN 1 ELSE 0)
  <2>1. W = r /\ V = Payloads /\ Corruptions = (IF corrupted THEN 1 ELSE 0)
    BY <1>5, <1>9, <1>15
  <2>2. TextRead(r) = Content
    BY <1>7, <1>10, <2>1
  <2>3. /\ Len(Payloads) = Len(Items) + (IF EndsWithDone THEN 1 ELSE 0)
        /\ Len(Items) \in Nat
    BY <1>3, PayloadsAre DEF Shape
  <2>4. BadIn(r) = Corruptions
    BY <1>12, <2>1
  <2>5. Len(r) = Len(Payloads) + Corruptions
    <3>1. Len(r) = Len(Payloads) + (IF corrupted THEN 1 ELSE 0)
      BY <1>7, <2>1
    <3>2. QED
      BY <2>1, <3>1
  <2>6. Len(r) = Len(Items) + Corruptions + (IF EndsWithDone THEN 1 ELSE 0)
    BY <1>9, <2>3, <2>5
  <2>7. QED
    BY <2>2, <2>4, <2>6
<1>16. QED
  BY <1>11, <1>13, <1>14, <1>15 DEF r

(* However its frames are cut, buffered, ended or mixed with pings and a   *)
(* corrupt chunk, the client of an SSE stream reads a prefix of the text   *)
(* the request would get unstreamed, and at the end all of it and every    *)
(* other message; nothing but the corrupt chunk is unreadable (writeFrame, *)
(* writeEvent, checkStreamingFault, streamDeltas against joinContent).     *)
THEOREM StreamedTextArrives == Spec => [](IsSSE => TextArrives)
<1>1. Asked /\ WireInv => (IsSSE => TextArrives)
  <2> SUFFICES ASSUME Asked, WireInv, IsSSE, o.stream, client, phase \in {"stream", "over"}
               PROVE  LET received == Received
                          bad == BadIn(received)
                      IN /\ IsPrefix(TextRead(received), Content)
                         /\ bad <= Corruptions + (IF Overlong THEN 1 ELSE 0)
                         /\ \A i \in 1..Len(received) :
                              Holds("full:", received[i]) => TextOf(received[i]) = Content
                         /\ phase = "over" =>
                              /\ TextRead(received) = Content
                              /\ bad = Corruptions + (IF Overlong THEN 1 ELSE 0)
                              /\ Len(received) =
                                   Len(Items) + Corruptions + (IF EndsWithDone THEN 1 ELSE 0)
    BY DEF TextArrives
  <2>1. ~Overlong
    BY DEF Overlong
  <2>2. Corruptions \in {0, 1}
    BY DEF Corruptions
  <2>3. Corruptions + (IF Overlong THEN 1 ELSE 0) = Corruptions
    BY <2>1, <2>2
  <2>4. QED
    BY <2>3, TextsArrive
<1>2. QED
  BY <1>1, WireInvHolds, PTL

(* Before the corrupt chunk come as many texts as it was asked to have. *)
LEMMA CorruptionLands ==
  ASSUME Asked, IsSSE, WireInv, client, corrupted,
         NEW i \in 1..Len(Received), IsBad(Received[i])
  PROVE  LET k == Cardinality({ j \in 1..(i - 1) : Holds("text:", Received[j]) })
         IN IF o.coalesce_frames > 1 THEN k <= Chunks \div 2 ELSE k = Chunks \div 2
<1> DEFINE r == Received
<1>1. Kinds /\ Placed /\ Made
  BY InvParts
<1>2. Streamed
  BY <1>1 DEF Kinds
<1>3. words \in Seq(Seq(Alphabet)) /\ deltas \in Seq(Seq(Alphabet)) /\ Shape
  BY <1>1, <1>2, StreamShape
<1>4. r \in Seq(Seq(Bytes)) /\ next \in 1..(Len(Payloads) + 1)
  BY <1>1, <1>2, ReadingIs DEF Placed
<1>5. PICK W \in Seq(Seq(Bytes)), V \in Seq(Seq(Bytes)), P \in Seq(Seq(Bytes)),
           D \in Seq(Seq(Bytes)) :
        Laid(W, V) /\ V \o P = Told(next - 1) /\ W = r \o D
  BY <1>2, ReadingIs
<1>6. PartOf(r, W)
  BY <1>4, <1>5 DEF PartOf
<1>7. PICK n : Piled(W, n)
  BY <1>3, <1>4, <1>5, WrittenIs
<1>8. IsBad(r[i]) /\ i \in 1..Len(r)
  OBVIOUS
<1> HIDE DEF r
<1>9. /\ Len(r) \in Nat
      /\ IsBad(r[i]) <=> corrupted /\ i = n + 1
      /\ \A j \in 1..Len(r) :
           j <= n => (Holds("text:", r[j]) <=> j - DeltasFrom \in 1..Len(deltas))
  BY <1>3, <1>4, <1>6, <1>7, <1>8, ReadMessages
<1>10. n \in Nat /\ i = n + 1 /\ i - 1 = n /\ \E c : Struck(c, n)
  BY <1>7, <1>8, <1>9 DEF Piled
<1>11. { j \in 1..(i - 1) : Holds("text:", r[j]) }
         = { j \in 1..n : j - DeltasFrom \in 1..Len(deltas) }
  <2>1. \A j \in 1..n : j \in 1..Len(r) /\ j <= n
    BY <1>8, <1>9, <1>10
  <2>2. \A j \in 1..n : Holds("text:", r[j]) <=> j - DeltasFrom \in 1..Len(deltas)
    BY <1>9, <2>1
  <2>3. QED
    BY <1>10, <2>2
<1> DEFINE k == Cardinality({ j \in 1..n : j - DeltasFrom \in 1..Len(deltas) })
<1>12. k <= Chunks \div 2 /\ (o.coalesce_frames <= 1 => k = Chunks \div 2)
  BY <1>3, <1>10, TextsBefore
<1> HIDE DEF k
<1>13. IF o.coalesce_frames > 1 THEN k <= Chunks \div 2 ELSE k = Chunks \div 2
  BY <1>12, TypedRequest
<1>14. QED
  BY <1>11, <1>13 DEF k, r

(* The transport faults of an SSE stream strike where they are documented  *)
(* to: the first rune of several bytes of a frame is never in one write,   *)
(* no write holds both lines of a frame, and the corrupt chunk comes after *)
(* half of the chunks, or before that when it overtakes coalesced frames   *)
(* (splitPoint, checkStreamingFault; sse.go:128).                          *)
THEOREM FaultsAlwaysLandWhereAsked == Spec => []FaultsLandWhereAsked
<1>1. Asked /\ WireInv => FaultsLandWhereAsked
  <2> SUFFICES ASSUME Asked, WireInv, IsSSE, client
               PROVE  FaultsLandWhereAsked
    BY DEF FaultsLandWhereAsked
  <2>1. CutsRight
    BY InvParts
  <2>2. o.coalesce_frames <= 1 /\ o.fragment_split = "rune" =>
          \A k \in 1..Len(wire) : HasRune(wire[k]) => CutInside(k)
    BY <2>1 DEF CutsRight
  <2>3. o.coalesce_frames <= 1 /\ o.fragment_split = "event" =>
          \A k \in 1..Len(wire) : \A i \in 2..Len(wire[k]) : wire[k][i] # "data:"
    BY <2>1 DEF CutsRight, OneLine
  <2>4. ASSUME corrupted, NEW i \in 1..Len(Received), IsBad(Received[i])
        PROVE  LET k == Cardinality({ j \in 1..(i - 1) : Holds("text:", Received[j]) })
               IN IF o.coalesce_frames > 1 THEN k <= Chunks \div 2 ELSE k = Chunks \div 2
    BY <2>4, CorruptionLands
  <2>5. QED
    BY <2>2, <2>3, <2>4 DEF FaultsLandWhereAsked
<1>2. QED
  BY <1>1, WireInvHolds, PTL
=============================================================================
