------------------------------- MODULE SpecSync -------------------------------
(***************************************************************************)
(* The specsync tool (src/cmd/specsync/main.go, src/internal/specsync):    *)
(* it reads the two vendored OpenAPI files, takes the closure of the       *)
(* response schemas under $ref, rewrites it into a JSON Schema document    *)
(* and writes two schema files and then the pins.  A run may be refused,   *)
(* or die between any two steps; the files it leaves stay.                 *)
(*                                                                         *)
(* A document is a function from the names it defines to the pointers in   *)
(* each schema.  A pointer is the value of a $ref or of a discriminator    *)
(* mapping; beside a $ref there may be the flag nullable.  The hash of a   *)
(* file is its version.                                                    *)
(***************************************************************************)
EXTENDS Integers, Sequences

CONSTANTS
  Names,             \* names of schemas, those a document leaves undefined too
  Roots,             \* [Providers -> SUBSET Names]: OpenAIRoots, AnthropicRoots
  Strict,            \* openaiInjectStrict
  Catalogue,         \* the documents that may be vendored
  Shipped,           \* [Providers -> Catalogue]: what the repository ships
  MaxVersion,        \* bound: how often a file is refreshed
  Partial            \* a file that was truncated and not written

Providers == {"openai", "anthropic"}
Order == <<"openai", "anthropic">>
Pointers ==
  [key : {"$ref", "mapping"}, to : Names, into : {"components", "$defs"},
   null : {"no", "flag", "union"}]

ASSUME DocumentsAssumption ==
  /\ Roots \in [Providers -> SUBSET Names]
  /\ Shipped \in [Providers -> Catalogue]
  /\ \A doc \in Catalogue :
       /\ DOMAIN doc \subseteq Names
       /\ doc \in [DOMAIN doc -> SUBSET Pointers]
  /\ MaxVersion \in Nat

VARIABLES
  source,            \* the vendored OpenAPI file of each provider
  file,              \* what is in spec/: the two schema files and the pins
  stage, i,          \* where the run is, and at which provider or file
  read,              \* the files as it read them
  stack, seen, dangling,   \* closure
  extracted          \* the schema documents it made

closing == <<stack, seen, dangling>>
run == <<stage, i, read, closing, extracted>>
vars == <<source, file, run>>
-----------------------------------------------------------------------------
(* The pure part: extract and what it calls.                               *)

collectRefs(schema) == { q.to : q \in {q \in schema : q.key = "$ref"} }

\* {$ref, nullable} becomes a oneOf of the $ref and null.
rewriteNullableFlag(schema) ==
  { IF q.key = "$ref" /\ q.null = "flag" THEN [q EXCEPT !.null = "union"] ELSE q :
      q \in schema }

\* Mutant: the walk does not enter the oneOf.
rewriteRefsOutside(schema) ==
  { IF q.null = "union" THEN q ELSE [q EXCEPT !.into = "$defs"] : q \in schema }

\* Every string with the prefix is rewritten, wherever it is.
rewriteRefs(schema) == { [q EXCEPT !.into = "$defs"] : q \in schema }

\* One entry of $defs; the rules are those of the OpenAI document.
Def(p, n, schema) ==
  [pointers |-> rewriteRefs(IF p = "openai" THEN rewriteNullableFlag(schema) ELSE schema),
   strict |-> p = "openai" /\ n \in Strict]
-----------------------------------------------------------------------------
Defined(p, doc, names) == [n \in names |-> Def(p, n, doc[n])]

\* The references as mathematics: the least set with the roots that is closed.
ClosedUnderRefs(doc, S) == \A n \in S \cap DOMAIN doc : collectRefs(doc[n]) \subseteq S
Reachable(doc, roots) ==
  { n \in Names : \A S \in SUBSET Names :
      roots \subseteq S /\ ClosedUnderRefs(doc, S) => n \in S }
Closure(p, doc) == Defined(p, doc, Reachable(doc, Roots[p]))
Complete(p, doc) == Reachable(doc, Roots[p]) \subseteq DOMAIN doc

ASSUME ShippedAssumption == \A p \in Providers : Complete(p, Shipped[p])

NoDoc == [n \in {} |-> {}]
NothingRead == [p \in Providers |-> [version |-> 0, doc |-> NoDoc]]
NothingExtracted == [p \in Providers |-> Partial]

Idle ==
  /\ stage = "idle" /\ i = 1
  /\ read = NothingRead
  /\ stack = {} /\ seen = {} /\ dangling = {}
  /\ extracted = NothingExtracted

\* The repository as it is committed: spec/ belongs to testdata/nanollm-spec.
Init ==
  /\ source = [p \in Providers |-> [version |-> 1, doc |-> Shipped[p]]]
  /\ file = [f \in Providers \cup {"pins"} |->
               IF f = "pins" THEN [p \in Providers |-> 1] ELSE Closure(f, Shipped[f])]
  /\ Idle

\* scripts/refresh-specs.sh or a checkout puts the next version in place.
Refresh(p) ==
  /\ source[p].version < MaxVersion
  /\ \E doc \in Catalogue :
       source' = [source EXCEPT ![p] = [version |-> @.version + 1, doc |-> doc]]
  /\ UNCHANGED <<file, run>>

\* The next of n providers or files, then the next stage.
Turn(n, again, next) ==
  /\ i' = IF i < n THEN i + 1 ELSE 1
  /\ stage' = IF i < n THEN again ELSE next

Start ==
  /\ stage = "idle"
  /\ stage' = "read"
  /\ UNCHANGED <<source, file, i, read, closing, extracted>>

ReadFile ==
  /\ stage = "read"
  /\ read' = [read EXCEPT ![Order[i]] = source[Order[i]]]
  /\ Turn(2, "read", "roots")
  /\ UNCHANGED <<source, file, closing, extracted>>

\* log.Fatalf, or the end of the process for another reason.
Exit ==
  /\ stage' = "idle" /\ i' = 1
  /\ read' = NothingRead
  /\ stack' = {} /\ seen' = {} /\ dangling' = {}
  /\ extracted' = NothingExtracted
  /\ UNCHANGED <<source, file>>

Crash == stage # "idle" /\ Exit

Doc == read[Order[i]].doc

MissingRoots ==
  /\ stage = "roots"
  /\ ~(Roots[Order[i]] \subseteq DOMAIN Doc)
  /\ Exit

BeginClosure ==
  /\ stage = "roots"
  /\ Roots[Order[i]] \subseteq DOMAIN Doc
  /\ stage' = "closing"
  /\ stack' = Roots[Order[i]]
  /\ seen' = {} /\ dangling' = {}
  /\ UNCHANGED <<source, file, i, read, extracted>>

\* Mutant: a name is marked before it is looked up.
VisitMarkedFirst(n) ==
  /\ stage = "closing" /\ n \in stack
  /\ seen' = seen \cup {n}
  /\ dangling' = IF n \in DOMAIN Doc \cup seen THEN dangling ELSE dangling \cup {n}
  /\ stack' = (stack \ {n}) \cup (IF n \in DOMAIN Doc \ seen THEN collectRefs(Doc[n]) ELSE {})
  /\ UNCHANGED <<source, file, stage, i, read, extracted>>

\* Mutant: a name is expanded again each time it is met.
VisitAgain(n) ==
  /\ stage = "closing" /\ n \in stack
  /\ seen' = seen \cup ({n} \cap DOMAIN Doc)
  /\ dangling' = dangling \cup ({n} \ DOMAIN Doc)
  /\ stack' = (stack \ {n}) \cup (IF n \in DOMAIN Doc THEN collectRefs(Doc[n]) ELSE {})
  /\ UNCHANGED <<source, file, stage, i, read, extracted>>

\* One turn of the loop.  collectRefs ranges over maps, whose order is random:
\* any name on the stack may be the next.
Visit(n) ==
  /\ stage = "closing" /\ n \in stack
  /\ \/ /\ n \in seen
        /\ stack' = stack \ {n}
        /\ UNCHANGED <<seen, dangling>>
     \/ /\ n \notin seen \cup DOMAIN Doc
        /\ dangling' = dangling \cup {n}
        /\ stack' = stack \ {n}
        /\ UNCHANGED seen
     \/ /\ n \in DOMAIN Doc \ seen
        /\ seen' = seen \cup {n}
        /\ stack' = (stack \ {n}) \cup collectRefs(Doc[n])
        /\ UNCHANGED dangling
  /\ UNCHANGED <<source, file, stage, i, read, extracted>>

DanglingRefs ==
  /\ stage = "closing" /\ stack = {}
  /\ dangling # {}
  /\ Exit

\* The closure is normalised and becomes the $defs of the document.
Rewrite ==
  /\ stage = "closing" /\ stack = {}
  /\ dangling = {}
  /\ extracted' = [extracted EXCEPT ![Order[i]] = Defined(Order[i], Doc, seen)]
  /\ Turn(2, "roots", "write")
  /\ UNCHANGED <<source, file, read, closing>>

\* Mutant: the pins are written before what they stand for.
FilesPinsFirst == <<"pins", "openai", "anthropic">>

Files == <<"openai", "anthropic", "pins">>

Contents(f) ==
  IF f = "pins" THEN [p \in Providers |-> read[p].version] ELSE extracted[f]

\* os.WriteFile truncates the file and then writes it.
Truncate ==
  /\ stage = "write"
  /\ file' = [file EXCEPT ![Files[i]] = Partial]
  /\ stage' = "truncated"
  /\ UNCHANGED <<source, i, read, closing, extracted>>

WriteFile ==
  /\ stage = "truncated" /\ i < 3
  /\ file' = [file EXCEPT ![Files[i]] = Contents(Files[i])]
  /\ i' = i + 1
  /\ stage' = "write"
  /\ UNCHANGED <<source, read, closing, extracted>>

WriteLast ==
  /\ stage = "truncated" /\ i = 3
  /\ file' = [file EXCEPT ![Files[i]] = Contents(Files[i])]
  /\ stage' = "idle" /\ i' = 1
  /\ read' = NothingRead
  /\ stack' = {} /\ seen' = {} /\ dangling' = {}
  /\ extracted' = NothingExtracted
  /\ UNCHANGED source

Step ==
  \/ ReadFile
  \/ MissingRoots \/ BeginClosure
  \/ \E n \in Names : Visit(n)
  \/ DanglingRefs \/ Rewrite
  \/ Truncate \/ WriteFile \/ WriteLast

Next == Start \/ Step \/ Crash \/ (\E p \in Providers : Refresh(p))

Spec == Init /\ [][Next]_vars

\* The process runs; nothing makes anybody start it.
FairSpec == Spec /\ WF_vars(Step)
-----------------------------------------------------------------------------
(***************************************************************************)
(* The walk over cyclic references visits exactly what is reachable from   *)
(* the roots, in whatever order the maps are read, and tells the names     *)
(* that exist from the dangling ones (closure, collectRefs).               *)
(***************************************************************************)
ClosureIsExact ==
  stage = "closing" =>
    LET reachable == Reachable(Doc, Roots[Order[i]])
    IN /\ seen \subseteq reachable \cap DOMAIN Doc
       /\ dangling \subseteq reachable \ DOMAIN Doc
       /\ stack = {} => seen \cup dangling = reachable

(***************************************************************************)
(* A schema file that was written is self-contained: each pointer in it    *)
(* goes to #/$defs, and each $ref to an entry that is there, whatever was  *)
(* refused or interrupted before (extract, rewriteRefs, main).             *)
(***************************************************************************)
SchemasAreSelfContained ==
  \A p \in Providers :
    file[p] # Partial =>
      \A n \in DOMAIN file[p] : \A q \in file[p][n].pointers :
        q.into = "$defs" /\ (q.key = "$ref" => q.to \in DOMAIN file[p])

(***************************************************************************)
(* The pins vouch for the schemas: when they name the vendored file of a   *)
(* provider, its schema file is the closure of that very file, unless a    *)
(* run was cut off in the middle of writing it; so the cheap comparison of *)
(* hashes finds every stale schema (main, TestSpecPinsMatchNanollm).       *)
(***************************************************************************)
PinsVouch ==
  \A p \in Providers :
    file["pins"] # Partial /\ file["pins"][p] = source[p].version =>
      file[p] \in {Partial, Closure(p, source[p].doc)}

(***************************************************************************)
(* A run of the tool ends, on cyclic references too: with the files        *)
(* written, or refused (closure).                                          *)
(***************************************************************************)
RunsEnd == stage # "idle" ~> stage = "idle"
=============================================================================
