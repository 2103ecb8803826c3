----------------------------- MODULE SharedConfig -----------------------------
(***************************************************************************)
(* Who shares memory with whom.  A ProviderConfig is copied by value from  *)
(* the provider's configuration, from a fault preset or from a scenario,   *)
(* and X-MockLM-Fault and the body of POST /admin/scenarios are decoded    *)
(* over the copy (src/state.go, src/scenario.go, src/fault.go).  The copy  *)
(* is shallow: its slices and its *bool point to the memory of the         *)
(* original, and encoding/json decodes into that memory where it fits.     *)
(*                                                                         *)
(* One provider.  The heap holds arrays of fault specs and the booleans    *)
(* ValidateResponses points to, an array of one cell.  A fault spec is a   *)
(* record of two of its knobs; a document is what a client may send: the   *)
(* members faults and validate_responses, each absent, null or a value,    *)
(* and whether some other member has the wrong type.                       *)
(***************************************************************************)
EXTENDS Integers, Sequences

CONSTANTS
  Requests,          \* goroutines that serve model requests, one after another
  Admins,            \* goroutines that serve POST /admin/scenarios
  Scenarios,         \* scenario ids
  Presets,           \* the built-in fault presets that hold references
  Bodies,            \* configurations sent to the admin API
  Headers,           \* values of X-MockLM-Fault, those left out included
  Contents,          \* [Presets and Startup -> the configuration at start-up]
  Home,              \* [Presets and Startup -> the two places it occupies]
  MaxRefs,           \* bound: places of the heap
  Families,          \* names for the lineages of configurations
  NoFamily,
  Absent, Null,      \* of a member of a document
  NoScenario

Refs == 1..MaxRefs
Nil == 0
Startup == "initialCfg"
Origins == Presets \cup {Startup}
Handlers == Requests \cup Admins
Holders == Origins \cup {"cfg"} \cup Scenarios \cup Handlers

ZeroFault == [mode |-> "", status |-> 0]
Modes == {"error", "disconnect"}

ASSUME HomeAssumption ==
  /\ MaxRefs \in Nat
  /\ Home \in [Origins -> [faults : Refs, validate : Refs]]
  /\ \A p, q \in Origins :
       /\ Home[p].faults # Home[q].validate
       /\ p # q => Home[p].faults # Home[q].faults /\ Home[p].validate # Home[q].validate

ASSUME HolderAssumption ==
  /\ "cfg" \notin Origins \cup Scenarios \cup Handlers
  /\ Handlers \cap (Origins \cup Scenarios) = {}
  /\ Origins \cap Scenarios = {}
  /\ Requests \cap Admins = {}
  /\ NoScenario \notin Scenarios

ASSUME FamilyAssumption == NoFamily \notin Families /\ Origins \subseteq Families

\* A member of a document that is neither left out nor null.
IsArray(member) == member # Absent /\ member # Null

ASSUME MemberAssumption == Absent \notin {Null, << >>}

ASSUME LengthAssumption ==
  /\ \A p \in Origins : Len(Contents[p].faults) \in Nat
  /\ \A d \in Bodies \cup Headers : IsArray(d.faults) => Len(d.faults) \in Nat

VARIABLES
  heap,              \* the cells of each place
  view,              \* what each holder's ProviderConfig points to
  published,         \* the registered scenarios
  stage, doc, at,    \* of a handler: its overlay and the element it is at
  target,            \* the scenario it registers
  family,            \* history: the lineage a holder's configuration is of
  asPublished        \* history: the definition a scenario was registered with

handler == <<stage, doc, at, target>>
history == <<family, asPublished>>
vars == <<heap, view, published, handler, history>>

Empty == [faults |-> Nil, len |-> 0, validate |-> Nil]
NoDocument == [faults |-> Absent, validate |-> Absent, mistyped |-> FALSE]

RefsOf(v) == {v.faults, v.validate} \ {Nil}
Live == UNION {RefsOf(view[h]) : h \in Holders}

\* The allocator hands out memory nothing points to (the first such place).
Free(taken) == { a \in Refs \ taken : \A b \in Refs \ taken : a <= b }
Used == {family[h] : h \in Holders}

\* Every step collects the memory nothing points to any more.
Collect == heap' = [r \in Live' |-> heap[r]]
Write(a, cells) == heap' = [r \in Live' |-> IF r = a THEN cells ELSE heap[r]]

\* What a holder's configuration says now.
Definition(v) ==
  [faults |-> IF v.faults = Nil THEN << >> ELSE SubSeq(heap[v.faults], 1, v.len),
   validate |-> IF v.validate = Nil THEN Absent ELSE heap[v.validate][1]]
-----------------------------------------------------------------------------
\* Loading a file or a literal: every slice and pointer gets memory of its own.
Loaded(p) ==
  [faults |-> Home[p].faults, len |-> Len(Contents[p].faults), validate |-> Home[p].validate]

\* NewServerState: cfg and initialCfg are copies of one configuration.
Init ==
  /\ view = [h \in Holders |-> IF h \in Origins THEN Loaded(h)
                               ELSE IF h = "cfg" THEN Loaded(Startup) ELSE Empty]
  /\ heap = [a \in Live |-> CHOOSE cells \in
               UNION { {Contents[p].faults : q \in {q \in {p} : a = Home[q].faults}} \cup
                       {<<Contents[p].validate>> : q \in {q \in {p} : a = Home[q].validate}} :
                         p \in Origins } : TRUE]
  /\ published = {}
  /\ stage = [g \in Handlers |-> "idle"]
  /\ doc = [g \in Handlers |-> NoDocument]
  /\ at = [g \in Handlers |-> 1]
  /\ target = [g \in Handlers |-> NoScenario]
  /\ family = [h \in Holders |-> IF h \in Origins THEN h
                                 ELSE IF h = "cfg" THEN Startup ELSE NoFamily]
  /\ asPublished = [s \in Scenarios |-> Definition(Empty)]

\* A struct assignment: the pointers are copied, not what they point to.
Assign(to, from) ==
  /\ view' = [view EXCEPT ![to] = view[from]]
  /\ family' = [family EXCEPT ![to] = family[from]]

\* A configuration no other one was copied to or from.
Found(to, v) ==
  /\ Families \ Used # {}
  /\ view' = [view EXCEPT ![to] = v]
  /\ family' = [family EXCEPT ![to] = CHOOSE f \in Families \ Used : TRUE]

Begin(g, d, s) ==
  /\ stage[g] = "idle"
  /\ stage' = [stage EXCEPT ![g] = "faults"]
  /\ doc' = [doc EXCEPT ![g] = d]
  /\ at' = [at EXCEPT ![g] = 1]
  /\ target' = [target EXCEPT ![g] = s]
  /\ UNCHANGED <<published, asPublished>>

\* A request: OpenAI() and its siblings, or applyScenario; the header follows.
Request(g) ==
  \E d \in Headers, from \in {"cfg"} \cup published :
    Begin(g, d, NoScenario) /\ Assign(g, from) /\ Collect

\* POST /admin/scenarios: the base is a fault preset, or the zero value.
Post(g) ==
  \E d \in Bodies, s \in Scenarios :
    /\ Begin(g, d, s)
    /\ (\E p \in Presets : Assign(g, p)) \/ Found(g, Empty)
    /\ Collect
-----------------------------------------------------------------------------
(* json.Unmarshal over a configuration that is in use.                     *)

Cap(v) == IF v.faults = Nil THEN 0 ELSE Len(heap[v.faults])

\* The knobs of the element replace those of the cell, the others stay.
Merge(cell, element) ==
  [k \in DOMAIN cell |-> IF k \in DOMAIN element THEN element[k] ELSE cell[k]]

AtElement(g) ==
  stage[g] = "faults" /\ IsArray(doc[g].faults) /\ at[g] <= Len(doc[g].faults)

Advance(g, n) ==
  /\ at' = [at EXCEPT ![g] = @ + 1]
  /\ view' = [view EXCEPT ![g].faults = n, ![g].len = IF at[g] > @ THEN at[g] ELSE @]
  /\ UNCHANGED <<published, stage, doc, target, history>>

\* It fits: the cell is decoded over, whoever shares the array.
ReuseElement(g) ==
  /\ AtElement(g)
  /\ at[g] <= Cap(view[g])
  /\ Advance(g, view[g].faults)
  /\ Write(view[g].faults,
           [heap[view[g].faults] EXCEPT ![at[g]] = Merge(@, doc[g].faults[at[g]])])

\* append doubles small arrays.
Doubled(n) == IF n = 0 THEN 1 ELSE 2 * n

\* It does not: from here on the copy has an array of its own.
GrowArray(g) ==
  /\ AtElement(g)
  /\ at[g] > Cap(view[g])
  /\ \E a \in Free(Live) :
       /\ Advance(g, a)
       /\ Write(a, [i \in 1..Doubled(Cap(view[g])) |->
                      IF i < at[g] THEN heap[view[g].faults][i]
                      ELSE IF i = at[g] THEN Merge(ZeroFault, doc[g].faults[i])
                      ELSE ZeroFault])

\* The length is that of the document, in the copy's own header; null and []
\* leave the array to the others.
EndFaults(g) ==
  /\ stage[g] = "faults"
  /\ ~AtElement(g)
  /\ stage' = [stage EXCEPT ![g] = "validate"]
  /\ view' = [view EXCEPT ![g] =
       CASE doc[g].faults = Absent -> @
         [] doc[g].faults \in {Null, << >>} -> [@ EXCEPT !.faults = Nil, !.len = 0]
         [] OTHER -> [@ EXCEPT !.len = Len(doc[g].faults)]]
  /\ Collect
  /\ UNCHANGED <<published, doc, at, target, history>>

\* validate_responses: through the pointer if there is one.
Validate(g) ==
  /\ stage[g] = "validate"
  /\ stage' = [stage EXCEPT ![g] = "check"]
  /\ \/ /\ doc[g].validate \notin BOOLEAN
        /\ view' = [view EXCEPT ![g].validate = IF doc[g].validate = Null THEN Nil ELSE @]
        /\ Collect
     \/ /\ doc[g].validate \in BOOLEAN
        /\ view[g].validate # Nil
        /\ UNCHANGED view
        /\ Write(view[g].validate, <<doc[g].validate>>)
     \/ /\ doc[g].validate \in BOOLEAN
        /\ view[g].validate = Nil
        /\ \E a \in Free(Live) :
             /\ view' = [view EXCEPT ![g].validate = a]
             /\ Write(a, <<doc[g].validate>>)
  /\ UNCHANGED <<published, doc, at, target, history>>
-----------------------------------------------------------------------------
(* What becomes of the copy.                                               *)

\* The decoder's error is reported when it has decoded all the rest; the
\* definition is validated after that.
Accepted(g) ==
  /\ ~doc[g].mistyped
  /\ \A i \in 1..view[g].len : heap[view[g].faults][i].mode \in Modes

Drop(g) ==
  /\ stage' = [stage EXCEPT ![g] = "idle"]
  /\ doc' = [doc EXCEPT ![g] = NoDocument]
  /\ at' = [at EXCEPT ![g] = 1]
  /\ target' = [target EXCEPT ![g] = NoScenario]

\* A request is over, with whatever answer; a registration is refused, for it
\* is invalid or its model is claimed already.
Finish(g) ==
  /\ stage[g] = "check"
  /\ Drop(g)
  /\ view' = [view EXCEPT ![g] = Empty]
  /\ family' = [family EXCEPT ![g] = NoFamily]
  /\ Collect
  /\ UNCHANGED <<published, asPublished>>

\* Register publishes the copy, and replaces what was published under the id.
Register(g) ==
  /\ stage[g] = "check"
  /\ Accepted(g)
  /\ Drop(g)
  /\ view' = [view EXCEPT ![target[g]] = view[g], ![g] = Empty]
  /\ family' = [family EXCEPT ![target[g]] = family[g], ![g] = NoFamily]
  /\ published' = published \cup {target[g]}
  /\ asPublished' = [asPublished EXCEPT ![target[g]] = Definition(view[g])]
  /\ Collect

Delete(s) ==
  /\ s \in published
  /\ published' = published \ {s}
  /\ view' = [view EXCEPT ![s] = Empty]
  /\ family' = [family EXCEPT ![s] = NoFamily]
  /\ asPublished' = [asPublished EXCEPT ![s] = Definition(Empty)]
  /\ Collect
  /\ UNCHANGED handler
-----------------------------------------------------------------------------
(* The provider's configuration, swapped under the write lock.             *)

\* The capacity an array gets when n elements are appended one by one.
Grown[n \in Nat] == IF n <= 1 THEN n ELSE 2 * Grown[(n + 1) \div 2]

Filled(elements) ==
  [i \in 1..Grown[Len(elements)] |->
     IF i <= Len(elements) THEN Merge(ZeroFault, elements[i]) ELSE ZeroFault]

\* Mutant: decoded over a copy of the configuration in force.
PutConfigOverCurrent(d) ==
  /\ ~d.mistyped
  /\ Found("cfg", view["cfg"])
  /\ Collect
  /\ UNCHANGED <<published, handler, asPublished>>

\* PUT /admin/config: decoded into the zero value, hence into fresh memory.
PutConfig(d) ==
  /\ ~d.mistyped
  /\ \E a \in Free(Live) : \E b \in Free(Live \cup {a}) :
       LET faults == IsArray(d.faults) /\ d.faults # << >>
           validate == d.validate \in BOOLEAN
       IN /\ Found("cfg", [faults |-> IF faults THEN a ELSE Nil,
                           len |-> IF faults THEN Len(d.faults) ELSE 0,
                           validate |-> IF validate THEN b ELSE Nil])
          /\ heap' = [r \in Live' |-> IF r = a THEN Filled(d.faults)
                                      ELSE IF r = b THEN <<d.validate>>
                                      ELSE heap[r]]
  /\ UNCHANGED <<published, handler, asPublished>>

\* PUT /admin/preset/{name}: the built-in presets hold no reference.
PutPreset ==
  /\ view["cfg"] # Empty
  /\ Found("cfg", Empty)
  /\ Collect
  /\ UNCHANGED <<published, handler, asPublished>>

\* Mutant: the start-up faults are copied into the array in force.
ResetInPlace ==
  /\ view["cfg"].faults # Nil
  /\ UNCHANGED <<view, published, handler, history>>
  /\ LET there == heap[view["cfg"].faults]
         initial == heap[view[Startup].faults]
     IN Write(view["cfg"].faults,
              [k \in 1..Len(there) |-> IF k <= Len(initial) THEN initial[k] ELSE there[k]])

\* Reset: cfg becomes a copy of initialCfg again.
Reset ==
  /\ Assign("cfg", Startup)
  /\ Collect
  /\ UNCHANGED <<published, handler, asPublished>>

Decode(g) == ReuseElement(g) \/ GrowArray(g) \/ EndFaults(g) \/ Validate(g)

Next ==
  \/ \E g \in Requests : Request(g)
  \/ \E g \in Admins : Post(g) \/ Register(g)
  \/ \E g \in Handlers : Decode(g) \/ Finish(g)
  \/ \E s \in Scenarios : Delete(s)
  \/ \E d \in Bodies : PutConfig(d)
  \/ PutPreset \/ Reset

Spec == Init /\ [][Next]_vars
-----------------------------------------------------------------------------
(***************************************************************************)
(* Memory is shared along the copies only: two configurations that point   *)
(* to one place descend from one start-up file, one fault preset, one PUT  *)
(* or one registration.  So a PUT severs the configuration from every      *)
(* request in flight and from initialCfg, and scenarios made from          *)
(* different presets, or from none, never meet (Update, Reset,             *)
(* handleAdminPutConfig, handleAdminPostScenario, applyScenario).          *)
(***************************************************************************)
SharingStaysInTheFamily ==
  \A h, k \in Holders :
    RefsOf(view[h]) \cap RefsOf(view[k]) # {} => family[h] = family[k]

(***************************************************************************)
(* What a configuration says changes behind the back of its holder only    *)
(* while an overlay is decoded over a copy of its own family; swapping,    *)
(* resetting, registering and deleting disturb no other configuration      *)
(* (Update, Reset, applyFaultHeader, json.Unmarshal).                      *)
(***************************************************************************)
WritesStayInTheFamily ==
  [][\A h \in Holders :
       view'[h] = view[h] /\ Definition(view[h])' # Definition(view[h]) =>
         \E g \in Handlers : /\ stage[g] \in {"faults", "validate"}
                             /\ family[g] = family[h]]_vars

(***************************************************************************)
(* "Published scenarios are IMMUTABLE except for the atomics"              *)
(* (scenario.go:144-145): a registered scenario says what it said when it  *)
(* was registered.                                                         *)
(***************************************************************************)
PublishedIsImmutable ==
  \A s \in published : Definition(view[s]) = asPublished[s]
=============================================================================
