---------------------------- MODULE SpecSyncProofs ----------------------------
(***************************************************************************)
(* Proofs about SpecSync, for any names, roots, documents and number of    *)
(* refreshes.  The walk is exact because the stack only ever holds         *)
(* reachable names and what a visited name refers to is visited, dangling  *)
(* or on the stack; the pins vouch because a run writes them last and      *)
(* versions only grow: what a run has read is at least what the pins name. *)
(***************************************************************************)
EXTENDS SpecSync, TLAPS

Types ==
  /\ source \in [Providers -> [version : Nat, doc : Catalogue]]
  /\ read \in [Providers -> [version : Nat, doc : Catalogue \cup {NoDoc}]]
  /\ stage \in {"idle", "read", "roots", "closing", "write", "truncated"}
  /\ i \in 1..3
  /\ stage \in {"read", "roots", "closing"} => i \in 1..2
  /\ stage = "idle" => i = 1
  /\ stack \in SUBSET Names /\ seen \in SUBSET Names /\ dangling \in SUBSET Names
  /\ DOMAIN file = Providers \cup {"pins"}
  /\ DOMAIN extracted = Providers

Position(p) == IF p = "openai" THEN 1 ELSE 2

\* What the run has read of p is a version that was in place, and no older
\* than the pins.
ReadOf(p) ==
  /\ read[p].doc \in Catalogue
  /\ read[p].version <= source[p].version
  /\ read[p].version = source[p].version => read[p].doc = source[p].doc
  /\ file["pins"] # Partial => file["pins"][p] <= read[p].version

HasRead(p) ==
  \/ stage \in {"roots", "closing", "write", "truncated"}
  \/ stage = "read" /\ Position(p) < i

ReadInv == \A p \in Providers : HasRead(p) => ReadOf(p)

\* The pins name versions that were in place.
PinsInv ==
  file["pins"] # Partial =>
    /\ file["pins"] \in [Providers -> Nat]
    /\ \A p \in Providers : file["pins"][p] <= source[p].version

WalkInv ==
  stage = "closing" =>
    LET reachable == Reachable(Doc, Roots[Order[i]])
    IN /\ seen \subseteq reachable \cap DOMAIN Doc
       /\ dangling \subseteq reachable \ DOMAIN Doc
       /\ stack \subseteq reachable
       /\ Roots[Order[i]] \subseteq seen \cup dangling \cup stack
       /\ \A n \in seen : collectRefs(Doc[n]) \subseteq seen \cup dangling \cup stack

Extracted(p) == Complete(p, read[p].doc) /\ extracted[p] = Closure(p, read[p].doc)

ExtractedInv ==
  \A p \in Providers :
    \/ stage \in {"write", "truncated"}
    \/ stage \in {"roots", "closing"} /\ Position(p) < i
    => Extracted(p)

WrittenInv ==
  \A p \in Providers :
    stage \in {"write", "truncated"} /\ Position(p) < i =>
      file[p] = Closure(p, read[p].doc)

\* A schema file is always the closure of some document that has all of it.
SchemaInv ==
  \A p \in Providers :
    file[p] # Partial =>
      \E doc \in Catalogue : Complete(p, doc) /\ file[p] = Closure(p, doc)

IInv ==
  /\ Types /\ ReadInv /\ PinsInv /\ WalkInv /\ ExtractedInv /\ WrittenInv
  /\ SchemaInv /\ PinsVouch

LEMMA OrderFacts ==
  /\ Order[1] = "openai" /\ Order[2] = "anthropic"
  /\ \A j \in 1..2 : Order[j] \in Providers /\ Position(Order[j]) = j
  /\ \A p \in Providers : Position(p) \in 1..2 /\ Order[Position(p)] = p
  /\ Files[1] = "openai" /\ Files[2] = "anthropic" /\ Files[3] = "pins"
  /\ "pins" \notin Providers
  BY DEF Order, Providers, Position, Files

-----------------------------------------------------------------------------
(* The closure as mathematics.                                             *)

LEMMA ReachableContains ==
  ASSUME NEW doc \in Catalogue, NEW roots \in SUBSET Names
  PROVE  /\ Reachable(doc, roots) \subseteq Names
         /\ roots \subseteq Reachable(doc, roots)
         /\ \A n \in Reachable(doc, roots) \cap DOMAIN doc :
              collectRefs(doc[n]) \subseteq Reachable(doc, roots)
<1>1. Reachable(doc, roots) \subseteq Names /\ roots \subseteq Reachable(doc, roots)
  BY DEF Reachable
<1>2. ASSUME NEW n \in Reachable(doc, roots), n \in DOMAIN doc, NEW m \in collectRefs(doc[n])
      PROVE  m \in Reachable(doc, roots)
  <2>1. m \in Names
    BY <1>2, DocumentsAssumption DEF collectRefs, Pointers
  <2>2. ASSUME NEW S \in SUBSET Names, roots \subseteq S, ClosedUnderRefs(doc, S)
        PROVE  m \in S
    <3>1. n \in S
      BY <2>2 DEF Reachable
    <3> QED
      BY <1>2, <2>2, <3>1 DEF ClosedUnderRefs
  <2> QED
    BY <2>1, <2>2 DEF Reachable
<1> QED
  BY <1>1, <1>2

\* A closed set with the roots has all that is reachable.
LEMMA ReachableIsLeast ==
  ASSUME NEW doc, NEW roots, NEW S \in SUBSET Names,
         roots \subseteq S, ClosedUnderRefs(doc, S)
  PROVE  Reachable(doc, roots) \subseteq S
  BY DEF Reachable

\* The document made from a complete closure is self-contained.
LEMMA ClosuresAreSelfContained ==
  ASSUME NEW p \in Providers, NEW doc \in Catalogue, Complete(p, doc),
         NEW n \in DOMAIN Closure(p, doc), NEW q \in Closure(p, doc)[n].pointers
  PROVE  q.into = "$defs" /\ (q.key = "$ref" => q.to \in DOMAIN Closure(p, doc))
<1> DEFINE R == Reachable(doc, Roots[p])
           schema == IF p = "openai" THEN rewriteNullableFlag(doc[n]) ELSE doc[n]
<1>1. DOMAIN Closure(p, doc) = R /\ n \in R /\ n \in DOMAIN doc
  BY DEF Closure, Defined, Complete
<1>2. q \in rewriteRefs(schema)
  BY <1>1 DEF Closure, Defined, Def
<1>3. doc[n] \subseteq Pointers
  BY <1>1, DocumentsAssumption
<1>4. \A x \in schema : x \in Pointers /\ \E y \in doc[n] : y.key = x.key /\ y.to = x.to
  BY <1>3 DEF rewriteNullableFlag, Pointers
<1>5. PICK x \in schema : q = [x EXCEPT !.into = "$defs"]
  BY <1>2 DEF rewriteRefs
<1>6. q.into = "$defs" /\ q.key = x.key /\ q.to = x.to
  BY <1>4, <1>5 DEF Pointers
<1>7. q.key = "$ref" => q.to \in collectRefs(doc[n])
  BY <1>4, <1>6 DEF collectRefs
<1>8. collectRefs(doc[n]) \subseteq R
  BY <1>1, ReachableContains, DocumentsAssumption
<1> QED
  BY <1>1, <1>6, <1>7, <1>8

-----------------------------------------------------------------------------
LEMMA InitIInv == Init => IInv
<1> SUFFICES ASSUME Init PROVE IInv
  OBVIOUS
<1>1. Types
  BY DocumentsAssumption DEF Init, Idle, Types, NothingRead, NothingExtracted
<1>2. ReadInv /\ WalkInv /\ ExtractedInv /\ WrittenInv
  BY DEF Init, Idle, ReadInv, HasRead, WalkInv, ExtractedInv, WrittenInv
<1>3. PinsInv
  BY DEF Init, PinsInv
<1>4. \A p \in Providers : file[p] = Closure(p, Shipped[p]) /\ source[p].doc = Shipped[p]
  BY OrderFacts DEF Init
<1>5. SchemaInv
  BY <1>4, ShippedAssumption, DocumentsAssumption DEF SchemaInv
<1>6. PinsVouch
  BY <1>4 DEF PinsVouch
<1> QED
  BY <1>1, <1>2, <1>3, <1>5, <1>6 DEF IInv

\* A run that is refused or dies leaves the files as they are.
LEMMA ExitIInv == IInv /\ Exit => IInv'
<1> SUFFICES ASSUME IInv, Exit PROVE IInv'
  OBVIOUS
<1>1. Types'
  BY DEF IInv, Types, Exit, NothingRead, NothingExtracted
<1>2. ReadInv' /\ WalkInv' /\ ExtractedInv' /\ WrittenInv'
  BY DEF Exit, ReadInv, HasRead, WalkInv, ExtractedInv, WrittenInv
<1>3. PinsInv' /\ SchemaInv' /\ PinsVouch'
  BY DEF IInv, Exit, PinsInv, SchemaInv, PinsVouch
<1> QED
  BY <1>1, <1>2, <1>3 DEF IInv

\* A new version has a number the pins and the run do not know.
LEMMA RefreshIInv ==
  ASSUME IInv, NEW p \in Providers, Refresh(p)
  PROVE  IInv'
<1>1. PICK doc \in Catalogue :
        source' = [source EXCEPT ![p] = [version |-> @.version + 1, doc |-> doc]]
  BY DEF Refresh
<1>2. UNCHANGED <<file, stage, i, read, stack, seen, dangling, extracted>>
  BY DEF Refresh, run, closing
<1>3. \A q \in Providers :
        /\ source[q].version \in Nat /\ source'[q].version \in Nat
        /\ read[q].version \in Nat
        /\ q # p => source'[q] = source[q]
        /\ q = p => source'[q].version = source[q].version + 1
  BY <1>1 DEF IInv, Types
<1>4. Types'
  BY <1>1, <1>2 DEF IInv, Types
<1>5. PinsInv'
  BY <1>2, <1>3 DEF IInv, PinsInv
<1>6. ReadInv'
  <2> SUFFICES ASSUME NEW q \in Providers, HasRead(q)' PROVE ReadOf(q)'
    BY DEF ReadInv
  <2>1. ReadOf(q)
    BY <1>2 DEF IInv, ReadInv, HasRead
  <2> QED
    BY <1>2, <1>3, <2>1 DEF ReadOf
<1>7. WalkInv' /\ ExtractedInv' /\ WrittenInv' /\ SchemaInv'
  BY <1>2 DEF IInv, WalkInv, ExtractedInv, WrittenInv, SchemaInv, Extracted, Doc
<1>8. PinsVouch'
  <2> SUFFICES ASSUME NEW q \in Providers, file["pins"] # Partial,
                      file["pins"][q] = source'[q].version
               PROVE  file[q] \in {Partial, Closure(q, source'[q].doc)}
    BY <1>2 DEF PinsVouch
  <2>1. file["pins"][q] <= source[q].version /\ file["pins"][q] \in Nat
    BY DEF IInv, PinsInv
  <2>2. q # p
    BY <1>3, <2>1
  <2> QED
    BY <1>3, <2>2 DEF IInv, PinsVouch
<1> QED
  BY <1>4, <1>5, <1>6, <1>7, <1>8 DEF IInv

LEMMA ReadFileIInv == IInv /\ ReadFile => IInv'
<1> SUFFICES ASSUME IInv, ReadFile PROVE IInv'
  OBVIOUS
<1> DEFINE p == Order[i]
<1>1. stage = "read" /\ i \in 1..2 /\ p \in Providers /\ Position(p) = i
  BY OrderFacts DEF IInv, Types, ReadFile
<1>2. /\ read' = [read EXCEPT ![p] = source[p]]
      /\ i' = (IF i < 2 THEN i + 1 ELSE 1)
      /\ stage' = (IF i < 2 THEN "read" ELSE "roots")
      /\ UNCHANGED <<source, file, stack, seen, dangling, extracted>>
  BY DEF ReadFile, Turn, closing
<1>3. Types'
  <2>1. read' \in [Providers -> [version : Nat, doc : Catalogue \cup {NoDoc}]]
    BY <1>1, <1>2 DEF IInv, Types
  <2>2. i' \in 1..2 /\ stage' \in {"read", "roots"}
    BY <1>1, <1>2
  <2> QED
    BY <1>2, <2>1, <2>2 DEF IInv, Types
<1>4. ReadInv'
  <2> SUFFICES ASSUME NEW q \in Providers, HasRead(q)' PROVE ReadOf(q)'
    BY DEF ReadInv
  <2>1. CASE q = p
    <3>1. read'[q] = source[q]
      BY <1>2, <2>1 DEF IInv, Types
    <3>2. file["pins"] # Partial => file["pins"][q] <= source[q].version
      BY DEF IInv, PinsInv
    <3>3. source[q].version \in Nat /\ source[q].doc \in Catalogue
      BY DEF IInv, Types
    <3> QED
      BY <1>2, <3>1, <3>2, <3>3 DEF ReadOf
  <2>2. CASE q # p
    <3>1. read'[q] = read[q]
      BY <1>2, <2>2 DEF IInv, Types
    <3>2. Position(q) \in 1..2 /\ Position(q) # i
      BY <1>1, <2>2, OrderFacts
    <3>3. HasRead(q)
      <4>1. CASE stage' = "read" /\ Position(q) < i'
        BY <1>1, <1>2, <3>2, <4>1 DEF HasRead
      <4>2. CASE stage' = "roots"
        BY <1>1, <1>2, <3>2, <4>2 DEF HasRead
      <4> QED
        BY <1>1, <1>2, <4>1, <4>2 DEF HasRead
    <3> QED
      BY <1>2, <3>1, <3>3 DEF IInv, ReadInv, ReadOf
  <2> QED
    BY <2>1, <2>2
<1>5. ExtractedInv'
  <2>1. \A q \in Providers : ~(Position(q) < 1)
    BY OrderFacts
  <2> QED
    BY <1>1, <1>2, <2>1 DEF ExtractedInv
<1>6. WalkInv' /\ WrittenInv' /\ PinsInv' /\ SchemaInv' /\ PinsVouch'
  BY <1>1, <1>2 DEF IInv, WalkInv, WrittenInv, PinsInv, SchemaInv, PinsVouch
<1> QED
  BY <1>3, <1>4, <1>5, <1>6 DEF IInv

\* What a step of the run leaves alone while it is past reading.
LEMMA FilesUntouched ==
  ASSUME IInv, UNCHANGED <<source, file, read>>,
         \A p \in Providers : HasRead(p)' => HasRead(p)
  PROVE  ReadInv' /\ PinsInv' /\ SchemaInv' /\ PinsVouch'
<1>1. ReadInv'
  BY DEF IInv, ReadInv, ReadOf
<1> QED
  BY <1>1 DEF IInv, PinsInv, SchemaInv, PinsVouch

LEMMA StartIInv == IInv /\ Start => IInv'
<1> SUFFICES ASSUME IInv, Start PROVE IInv'
  OBVIOUS
<1>1. /\ stage = "idle" /\ stage' = "read" /\ i = 1
      /\ UNCHANGED <<source, file, i, read, stack, seen, dangling, extracted>>
  BY DEF Start, closing, IInv, Types
<1>2. \A p \in Providers : ~(Position(p) < 1)
  BY OrderFacts
<1>3. ReadInv' /\ PinsInv' /\ SchemaInv' /\ PinsVouch'
  BY <1>1, <1>2, FilesUntouched DEF HasRead
<1>4. Types' /\ WalkInv' /\ ExtractedInv' /\ WrittenInv'
  BY <1>1 DEF IInv, Types, WalkInv, ExtractedInv, WrittenInv
<1> QED
  BY <1>3, <1>4 DEF IInv

LEMMA BeginClosureIInv == IInv /\ BeginClosure => IInv'
<1> SUFFICES ASSUME IInv, BeginClosure PROVE IInv'
  OBVIOUS
<1> DEFINE p == Order[i]
<1>1. /\ stage = "roots" /\ stage' = "closing" /\ i \in 1..2
      /\ stack' = Roots[p] /\ seen' = {} /\ dangling' = {}
      /\ UNCHANGED <<source, file, i, read, extracted>>
  BY DEF BeginClosure, IInv, Types
<1>2. p \in Providers /\ Roots[p] \in SUBSET Names
  BY <1>1, OrderFacts, DocumentsAssumption
<1>3. Doc \in Catalogue /\ Doc' = Doc
  BY <1>1, <1>2 DEF IInv, ReadInv, HasRead, ReadOf, Doc
<1>4. Types'
  BY <1>1, <1>2 DEF IInv, Types
<1>5. ReadInv' /\ PinsInv' /\ SchemaInv' /\ PinsVouch'
  BY <1>1, FilesUntouched DEF HasRead
<1>6. WalkInv'
  BY <1>1, <1>2, <1>3, ReachableContains DEF WalkInv
<1>7. ExtractedInv' /\ WrittenInv'
  BY <1>1 DEF IInv, ExtractedInv, WrittenInv, Extracted
<1> QED
  BY <1>4, <1>5, <1>6, <1>7 DEF IInv

LEMMA VisitIInv ==
  ASSUME IInv, NEW n \in Names, Visit(n)
  PROVE  IInv'
<1> DEFINE p == Order[i]
           R == Reachable(Doc, Roots[p])
<1>1. /\ stage = "closing" /\ i \in 1..2 /\ n \in stack
      /\ UNCHANGED <<source, file, stage, i, read, extracted>>
  BY DEF Visit, IInv, Types
<1>2. p \in Providers /\ Roots[p] \in SUBSET Names
  BY <1>1, OrderFacts, DocumentsAssumption
<1>3. Doc \in Catalogue /\ Doc' = Doc
  BY <1>1, <1>2 DEF IInv, ReadInv, HasRead, ReadOf, Doc
<1>4. /\ seen \subseteq R \cap DOMAIN Doc
      /\ dangling \subseteq R \ DOMAIN Doc
      /\ stack \subseteq R
      /\ Roots[p] \subseteq seen \cup dangling \cup stack
      /\ \A m \in seen : collectRefs(Doc[m]) \subseteq seen \cup dangling \cup stack
  BY <1>1 DEF IInv, WalkInv
<1>5. R \subseteq Names /\ \A m \in R \cap DOMAIN Doc : collectRefs(Doc[m]) \subseteq R
  BY <1>2, <1>3, ReachableContains
<1>6. /\ seen' \subseteq R \cap DOMAIN Doc
      /\ dangling' \subseteq R \ DOMAIN Doc
      /\ stack' \subseteq R
      /\ Roots[p] \subseteq seen' \cup dangling' \cup stack'
      /\ \A m \in seen' : collectRefs(Doc[m]) \subseteq seen' \cup dangling' \cup stack'
  <2> HIDE DEF R, p
  <2>1. CASE n \in seen /\ stack' = stack \ {n} /\ UNCHANGED <<seen, dangling>>
    BY <1>1, <1>4, <2>1
  <2>2. CASE /\ n \notin seen \cup DOMAIN Doc
             /\ dangling' = dangling \cup {n} /\ stack' = stack \ {n} /\ UNCHANGED seen
    BY <1>1, <1>4, <2>2
  <2>3. CASE /\ n \in DOMAIN Doc \ seen
             /\ seen' = seen \cup {n}
             /\ stack' = (stack \ {n}) \cup collectRefs(Doc[n])
             /\ UNCHANGED dangling
    BY <1>1, <1>4, <1>5, <2>3
  <2> QED
    BY <2>1, <2>2, <2>3 DEF Visit
<1>7. Types'
  BY <1>1, <1>5, <1>6 DEF IInv, Types
<1>8. WalkInv'
  BY <1>1, <1>3, <1>6 DEF WalkInv
<1>9. ReadInv' /\ PinsInv' /\ SchemaInv' /\ PinsVouch'
  BY <1>1, FilesUntouched DEF HasRead
<1>10. ExtractedInv' /\ WrittenInv'
  BY <1>1 DEF IInv, ExtractedInv, WrittenInv, Extracted
<1> QED
  BY <1>7, <1>8, <1>9, <1>10 DEF IInv

\* With nothing left on the stack, what was met is what is reachable.
LEMMA EmptyStackIsClosed ==
  ASSUME IInv, stage = "closing", stack = {}
  PROVE  seen \cup dangling = Reachable(Doc, Roots[Order[i]])
<1> DEFINE R == Reachable(Doc, Roots[Order[i]])
           S == seen \cup dangling
<1>1. S \subseteq R /\ S \in SUBSET Names
  BY DEF IInv, WalkInv, Types
<1>2. Roots[Order[i]] \subseteq S
  BY DEF IInv, WalkInv
<1>3. ClosedUnderRefs(Doc, S)
  BY DEF IInv, WalkInv, ClosedUnderRefs
<1>4. R \subseteq S
  BY <1>1, <1>2, <1>3, ReachableIsLeast
<1> QED
  BY <1>1, <1>4

LEMMA RewriteIInv == IInv /\ Rewrite => IInv'
<1> SUFFICES ASSUME IInv, Rewrite PROVE IInv'
  OBVIOUS
<1> DEFINE p == Order[i]
<1>1. /\ stage = "closing" /\ stack = {} /\ dangling = {} /\ i \in 1..2
      /\ extracted' = [extracted EXCEPT ![p] = Defined(p, Doc, seen)]
      /\ i' = (IF i < 2 THEN i + 1 ELSE 1)
      /\ stage' = (IF i < 2 THEN "roots" ELSE "write")
      /\ UNCHANGED <<source, file, read, stack, seen, dangling>>
  BY DEF Rewrite, Turn, closing, IInv, Types
<1>2. p \in Providers /\ Position(p) = i /\ Doc = read[p].doc
  BY <1>1, OrderFacts DEF Doc
<1>3. seen = Reachable(Doc, Roots[p]) /\ seen \subseteq DOMAIN Doc
  BY <1>1, EmptyStackIsClosed DEF IInv, WalkInv
<1>4. Types'
  BY <1>1, <1>2 DEF IInv, Types
<1>5. ReadInv' /\ PinsInv' /\ SchemaInv' /\ PinsVouch'
  BY <1>1, FilesUntouched DEF HasRead
<1>6. ExtractedInv'
  <2> SUFFICES ASSUME NEW q \in Providers,
                      \/ stage' = "write"
                      \/ stage' = "roots" /\ Position(q) < i'
               PROVE  Extracted(q)'
    BY <1>1 DEF ExtractedInv
  <2>1. CASE q = p
    <3>1. extracted'[q] = Defined(p, Doc, seen)
      BY <1>1, <1>2, <2>1 DEF IInv, Types
    <3> QED
      BY <1>1, <1>2, <1>3, <2>1, <3>1 DEF Extracted, Closure, Complete
  <2>2. CASE q # p
    <3>1. Position(q) \in 1..2 /\ Position(q) # i
      BY <1>2, <2>2, OrderFacts
    <3>2. Position(q) < i
      BY <1>1, <3>1
    <3>3. Extracted(q)
      BY <1>1, <3>2 DEF IInv, ExtractedInv
    <3>4. extracted'[q] = extracted[q]
      BY <1>1, <2>2 DEF IInv, Types
    <3> QED
      BY <1>1, <3>3, <3>4 DEF Extracted
  <2> QED
    BY <2>1, <2>2
<1>7. WalkInv' /\ WrittenInv'
  <2>1. \A q \in Providers : ~(Position(q) < 1)
    BY OrderFacts
  <2> QED
    BY <1>1, <2>1 DEF WalkInv, WrittenInv
<1> QED
  BY <1>4, <1>5, <1>6, <1>7 DEF IInv

LEMMA TruncateIInv == IInv /\ Truncate => IInv'
<1> SUFFICES ASSUME IInv, Truncate PROVE IInv'
  OBVIOUS
<1> DEFINE f == Files[i]
<1>1. /\ stage = "write" /\ stage' = "truncated" /\ i \in 1..3
      /\ file' = [file EXCEPT ![f] = Partial]
      /\ UNCHANGED <<source, i, read, stack, seen, dangling, extracted>>
  BY DEF Truncate, closing, IInv, Types
<1>2. \A g \in Providers \cup {"pins"} : file'[g] = IF g = f THEN Partial ELSE file[g]
  BY <1>1 DEF IInv, Types
<1>3. \A p \in Providers : Position(p) < i => p # f
  <2>1. i = 1 \/ i = 2 \/ i = 3
    BY <1>1
  <2> QED
    BY <2>1, OrderFacts DEF Position
<1>4. Types'
  BY <1>1 DEF IInv, Types
<1>5. ReadInv' /\ PinsInv'
  BY <1>1, <1>2 DEF IInv, ReadInv, HasRead, ReadOf, PinsInv
<1>6. WalkInv' /\ ExtractedInv'
  BY <1>1 DEF IInv, WalkInv, ExtractedInv, Extracted
<1>7. WrittenInv'
  BY <1>1, <1>2, <1>3 DEF IInv, WrittenInv
<1>8. SchemaInv' /\ PinsVouch'
  BY <1>1, <1>2 DEF IInv, SchemaInv, PinsVouch
<1> QED
  BY <1>4, <1>5, <1>6, <1>7, <1>8 DEF IInv

\* A schema file: the pins are not newer than what it was made from, and as
\* new only if it was made from what is in place.
LEMMA WriteFileIInv == IInv /\ WriteFile => IInv'
<1> SUFFICES ASSUME IInv, WriteFile PROVE IInv'
  OBVIOUS
<1> DEFINE f == Files[i]
<1>1. /\ stage = "truncated" /\ stage' = "write" /\ i \in 1..2 /\ i' = i + 1
      /\ file' = [file EXCEPT ![f] = Contents(f)]
      /\ UNCHANGED <<source, read, stack, seen, dangling, extracted>>
  BY DEF WriteFile, closing, IInv, Types
<1>2. f \in Providers /\ f # "pins" /\ Position(f) = i
  <2>1. i = 1 \/ i = 2
    BY <1>1
  <2> QED
    BY <2>1, OrderFacts DEF Position, Providers
<1>3. Extracted(f) /\ ReadOf(f) /\ Contents(f) = extracted[f]
  BY <1>1, <1>2 DEF IInv, ExtractedInv, ReadInv, HasRead, Contents
<1>4. \A g \in Providers \cup {"pins"} :
        file'[g] = IF g = f THEN Closure(f, read[f].doc) ELSE file[g]
  BY <1>1, <1>3 DEF IInv, Types, Extracted
<1>5. Types'
  BY <1>1 DEF IInv, Types
<1>6. ReadInv' /\ PinsInv'
  BY <1>1, <1>2, <1>4 DEF IInv, ReadInv, HasRead, ReadOf, PinsInv
<1>7. WalkInv' /\ ExtractedInv'
  BY <1>1 DEF IInv, WalkInv, ExtractedInv, Extracted
<1>8. WrittenInv'
  <2> SUFFICES ASSUME NEW q \in Providers, Position(q) < i'
               PROVE  file'[q] = Closure(q, read[q].doc)
    BY <1>1 DEF WrittenInv
  <2>1. CASE q = f
    BY <1>4, <2>1
  <2>2. CASE q # f
    <3>1. Position(q) \in 1..2 /\ Position(q) # i
      BY <1>2, <2>2, OrderFacts DEF Position, Providers
    <3>2. Position(q) < i
      BY <1>1, <3>1
    <3> QED
      BY <1>1, <1>4, <2>2, <3>2 DEF IInv, WrittenInv
  <2> QED
    BY <2>1, <2>2
<1>9. SchemaInv'
  BY <1>3, <1>4 DEF IInv, SchemaInv, Extracted, ReadOf
<1>10. PinsVouch'
  <2> SUFFICES ASSUME NEW q \in Providers, file'["pins"] # Partial,
                      file'["pins"][q] = source[q].version
               PROVE  file'[q] \in {Partial, Closure(q, source[q].doc)}
    BY <1>1 DEF PinsVouch
  <2>1. file'["pins"] = file["pins"]
    BY <1>2, <1>4
  <2>2. CASE q = f
    <3>1. read[q].version \in Nat /\ source[q].version \in Nat
      BY DEF IInv, Types
    <3>2. read[q].version = source[q].version
      BY <1>3, <2>1, <2>2, <3>1 DEF ReadOf
    <3> QED
      BY <1>3, <1>4, <2>2, <3>2 DEF ReadOf
  <2>3. CASE q # f
    BY <1>4, <2>1, <2>3 DEF IInv, PinsVouch
  <2> QED
    BY <2>2, <2>3
<1> QED
  BY <1>5, <1>6, <1>7, <1>8, <1>9, <1>10 DEF IInv

\* The pins: both schema files have been written from what they name.
LEMMA WriteLastIInv == IInv /\ WriteLast => IInv'
<1> SUFFICES ASSUME IInv, WriteLast PROVE IInv'
  OBVIOUS
<1>1. /\ stage = "truncated" /\ stage' = "idle" /\ i = 3 /\ i' = 1
      /\ file' = [file EXCEPT !["pins"] = [p \in Providers |-> read[p].version]]
      /\ read' = NothingRead /\ extracted' = NothingExtracted
      /\ stack' = {} /\ seen' = {} /\ dangling' = {}
      /\ UNCHANGED source
  BY OrderFacts DEF WriteLast, Contents
<1>2. /\ file'["pins"] = [p \in Providers |-> read[p].version]
      /\ \A p \in Providers : file'[p] = file[p]
  BY <1>1, OrderFacts DEF IInv, Types
<1>3. \A p \in Providers : ReadOf(p) /\ file[p] = Closure(p, read[p].doc)
  BY <1>1, OrderFacts DEF IInv, ReadInv, HasRead, WrittenInv
<1>4. Types'
  BY <1>1 DEF IInv, Types, NothingRead, NothingExtracted
<1>5. PinsInv'
  BY <1>1, <1>2, <1>3 DEF IInv, Types, PinsInv, ReadOf
<1>6. ReadInv' /\ WalkInv' /\ ExtractedInv' /\ WrittenInv'
  BY <1>1 DEF ReadInv, HasRead, WalkInv, ExtractedInv, WrittenInv
<1>7. SchemaInv'
  BY <1>2 DEF IInv, SchemaInv
<1>8. PinsVouch'
  BY <1>1, <1>2, <1>3 DEF PinsVouch, ReadOf
<1> QED
  BY <1>4, <1>5, <1>6, <1>7, <1>8 DEF IInv

LEMMA NextIInv == IInv /\ [Next]_vars => IInv'
<1> SUFFICES ASSUME IInv, [Next]_vars PROVE IInv'
  OBVIOUS
<1>1. CASE UNCHANGED vars
  BY <1>1 DEF vars, run, closing, IInv, Types, ReadInv, HasRead, ReadOf, PinsInv, WalkInv,
     ExtractedInv, Extracted, WrittenInv, SchemaInv, PinsVouch, Doc
<1>2. CASE MissingRoots \/ DanglingRefs \/ Crash
  BY <1>2, ExitIInv DEF MissingRoots, DanglingRefs, Crash
<1> QED
  BY <1>1, <1>2, StartIInv, ReadFileIInv, BeginClosureIInv, VisitIInv, RewriteIInv,
     TruncateIInv, WriteFileIInv, WriteLastIInv, RefreshIInv
  DEF Next, Step

LEMMA Invariance == Spec => []IInv
  BY InitIInv, NextIInv, PTL DEF Spec

(***************************************************************************)
(* The closure walk is exact, for any graph of schemas and in any order    *)
(* the maps are read (closure, collectRefs).                               *)
(***************************************************************************)
THEOREM ClosureWalkIsExact == Spec => []ClosureIsExact
<1>1. IInv => ClosureIsExact
  <2> SUFFICES ASSUME IInv PROVE ClosureIsExact
    OBVIOUS
  <2> QED
    BY EmptyStackIsClosed DEF IInv, WalkInv, ClosureIsExact
<1> QED
  BY <1>1, Invariance, PTL

(***************************************************************************)
(* No schema file has a $ref that leads out of it, whatever run was        *)
(* refused or interrupted (extract, rewriteRefs, main).                    *)
(***************************************************************************)
THEOREM SchemasStayInside == Spec => []SchemasAreSelfContained
<1>1. IInv => SchemasAreSelfContained
  <2> SUFFICES ASSUME IInv, NEW p \in Providers, file[p] # Partial,
                      NEW n \in DOMAIN file[p], NEW q \in file[p][n].pointers
               PROVE  q.into = "$defs" /\ (q.key = "$ref" => q.to \in DOMAIN file[p])
    BY DEF SchemasAreSelfContained
  <2>1. PICK doc \in Catalogue : Complete(p, doc) /\ file[p] = Closure(p, doc)
    BY DEF IInv, SchemaInv
  <2> QED
    BY <2>1, ClosuresAreSelfContained
<1> QED
  BY <1>1, Invariance, PTL

(***************************************************************************)
(* Matching pins mean that a schema file is cut off or current, for any    *)
(* number of refreshes and crashes (main, TestSpecPinsMatchNanollm).       *)
(***************************************************************************)
THEOREM PinsAlwaysVouch == Spec => []PinsVouch
<1>1. IInv => PinsVouch
  BY DEF IInv
<1> QED
  BY <1>1, Invariance, PTL
=============================================================================
