------------------------------ MODULE MCSpecSync ------------------------------
(* Instances of SpecSync: documents with cycles, diamonds, nullable $refs,  *)
(* mappings to schemas nothing else leads to, missing roots and references  *)
(* that dangle inside and outside of the closure.                           *)
EXTENDS SpecSync, TLC

CONSTANTS root, a, b, gone

Ref(n) == [key |-> "$ref", to |-> n, into |-> "components", null |-> "no"]
Nullable(n) == [Ref(n) EXCEPT !.null = "flag"]
Mapping(n) == [Ref(n) EXCEPT !.key = "mapping"]

Cycle == root :> {Ref(a)} @@ a :> {Ref(b), Nullable(a)} @@ b :> {Ref(root)}
Mapped == root :> {Mapping(b), Nullable(a)} @@ a :> {} @@ b :> {Ref(gone)}
Dangles == root :> {Ref(a), Ref(b)} @@ a :> {Ref(gone)} @@ b :> {Ref(a)}
Rootless == a :> {Ref(b)} @@ b :> {}

Documents == {Cycle, Mapped, Dangles, Rootless}
RootNames == [p \in Providers |-> IF p = "openai" THEN {root} ELSE {root, b}]
FirstDocuments == [p \in Providers |-> IF p = "openai" THEN Mapped ELSE Cycle]
=============================================================================
