-------------------------- MODULE SharedConfigProofs --------------------------
(***************************************************************************)
(* Proofs about SharedConfig: the places two configurations share are      *)
(* explained by their lineage, for any number of handlers, scenarios,      *)
(* presets, documents and places.  The sharing invariant is inductive once *)
(* the types of the views are known: a copy takes over the lineage with    *)
(* the references, and the allocator only hands out places nothing points  *)
(* to.                                                                     *)
(***************************************************************************)
EXTENDS SharedConfig, TLAPS

Views == [faults : Refs \cup {Nil}, len : Nat, validate : Refs \cup {Nil}]

Types ==
  /\ view \in [Holders -> Views]
  /\ family \in [Holders -> Families \cup {NoFamily}]
  /\ published \subseteq Scenarios
  /\ at \in [Handlers -> Nat]
  /\ doc \in [Handlers -> Bodies \cup Headers \cup {NoDocument}]
  /\ target \in [Handlers -> Scenarios \cup {NoScenario}]
  /\ stage \in [Handlers -> {"idle", "faults", "validate", "check"}]
  /\ \A g \in Admins : stage[g] # "idle" => target[g] \in Scenarios

IInv == Types /\ SharingStaysInTheFamily

LEMMA EmptyIsAView == Empty \in Views /\ RefsOf(Empty) = {}
  BY DEF Empty, Views, RefsOf, Nil

\* What the allocator hands out is a place that is not taken.
LEMMA FreshIsFree ==
  ASSUME NEW taken, NEW a \in Free(taken)
  PROVE  a \in Refs /\ a \notin taken /\ a # Nil
  BY HomeAssumption DEF Free, Refs, Nil

LEMMA HoldersOfAKind ==
  /\ "cfg" \in Holders /\ Startup \in Holders /\ Handlers \subseteq Holders
  /\ Scenarios \subseteq Holders /\ Presets \subseteq Holders
  /\ Requests \subseteq Handlers /\ Admins \subseteq Handlers
  /\ "cfg" \notin Handlers /\ Handlers \cap Scenarios = {}
  /\ Requests \cap Admins = {}
  BY HolderAssumption DEF Holders, Origins, Handlers

-----------------------------------------------------------------------------
(* Three ways a step changes the views, and why sharing stays explained.   *)

\* One view becomes a copy of another.
LEMMA CopiesKeepSharing ==
  ASSUME IInv, NEW to \in Holders, NEW from \in Holders, Assign(to, from)
  PROVE  /\ view' \in [Holders -> Views]
         /\ family' \in [Holders -> Families \cup {NoFamily}]
         /\ SharingStaysInTheFamily'
  BY DEF IInv, Types, Assign, SharingStaysInTheFamily

\* One view comes to point to some of its own places and to fresh ones.
LEMMA FreshPlacesKeepSharing ==
  ASSUME IInv, NEW to \in Holders, NEW v \in Views,
         RefsOf(v) \subseteq RefsOf(view[to]) \cup (Refs \ Live),
         view' = [view EXCEPT ![to] = v],
         family' = family
  PROVE  view' \in [Holders -> Views] /\ SharingStaysInTheFamily'
<1>1. view' \in [Holders -> Views]
  BY DEF IInv, Types
<1>2. ASSUME NEW h \in Holders, h # to, RefsOf(v) \cap RefsOf(view[h]) # {}
      PROVE  family[to] = family[h]
  <2>1. RefsOf(view[h]) \subseteq Live
    BY DEF Live
  <2>2. RefsOf(view[to]) \cap RefsOf(view[h]) # {}
    BY <1>2, <2>1
  <2> QED
    BY <2>2 DEF IInv, SharingStaysInTheFamily
<1>3. ASSUME NEW h \in Holders, NEW k \in Holders,
             RefsOf(view'[h]) \cap RefsOf(view'[k]) # {}
      PROVE  family[h] = family[k]
  <2>1. /\ view'[h] = IF h = to THEN v ELSE view[h]
        /\ view'[k] = IF k = to THEN v ELSE view[k]
    BY DEF IInv, Types
  <2>2. CASE h = to /\ k # to
    BY <1>2, <1>3, <2>1, <2>2
  <2>3. CASE h # to /\ k = to
    BY <1>2, <1>3, <2>1, <2>3
  <2>4. CASE h # to /\ k # to
    BY <1>3, <2>1, <2>4 DEF IInv, SharingStaysInTheFamily
  <2> QED
    BY <2>2, <2>3, <2>4
<1> QED
  BY <1>1, <1>3 DEF SharingStaysInTheFamily

\* One view is replaced by one that only points to fresh places.
LEMMA NewcomersKeepSharing ==
  ASSUME IInv, NEW to \in Holders, NEW v \in Views,
         RefsOf(v) \cap Live = {}, Found(to, v)
  PROVE  /\ view' \in [Holders -> Views]
         /\ family' \in [Holders -> Families \cup {NoFamily}]
         /\ SharingStaysInTheFamily'
<1>1. view' \in [Holders -> Views] /\ family' \in [Holders -> Families \cup {NoFamily}]
  BY DEF IInv, Types, Found
<1>2. \A h \in Holders : RefsOf(view[h]) \subseteq Live
  BY DEF Live
<1>3. ASSUME NEW h \in Holders, NEW k \in Holders,
             RefsOf(view'[h]) \cap RefsOf(view'[k]) # {}
      PROVE  family'[h] = family'[k]
  <2>1. /\ view'[h] = IF h = to THEN v ELSE view[h]
        /\ view'[k] = IF k = to THEN v ELSE view[k]
    BY DEF IInv, Types, Found
  <2>2. CASE h = k
    BY <2>2
  <2>3. CASE h # to /\ k # to
    <3>1. family[h] = family[k]
      BY <1>3, <2>1, <2>3 DEF IInv, SharingStaysInTheFamily
    <3> QED
      BY <2>3, <3>1 DEF IInv, Types, Found
  <2>4. CASE h # k /\ (h = to \/ k = to)
    BY <1>2, <1>3, <2>1, <2>4
  <2> QED
    BY <2>2, <2>3, <2>4
<1> QED
  BY <1>1, <1>3 DEF SharingStaysInTheFamily

\* A configuration is let go of.
LEMMA LettingGoKeepsSharing ==
  ASSUME IInv, NEW to \in Holders,
         view' = [view EXCEPT ![to] = Empty],
         family' = [family EXCEPT ![to] = NoFamily]
  PROVE  /\ view' \in [Holders -> Views]
         /\ family' \in [Holders -> Families \cup {NoFamily}]
         /\ SharingStaysInTheFamily'
  BY EmptyIsAView DEF IInv, Types, SharingStaysInTheFamily
-----------------------------------------------------------------------------
\* At the start cfg is the one copy, and it is of the start-up family.
LEMMA InitIInv == Init => IInv
<1> SUFFICES ASSUME Init PROVE IInv
  OBVIOUS
<1>1. \A p \in Origins : Loaded(p) \in Views /\ RefsOf(Loaded(p)) = {Home[p].faults, Home[p].validate}
  BY HomeAssumption, LengthAssumption DEF Loaded, Views, RefsOf, Refs, Nil
<1>2. Types
  BY <1>1, EmptyIsAView, HolderAssumption, FamilyAssumption
  DEF Init, Types, Holders, Origins, Handlers, Startup
<1>3. ASSUME NEW h \in Holders, NEW k \in Holders,
             RefsOf(view[h]) \cap RefsOf(view[k]) # {}
      PROVE  family[h] = family[k]
  <2> DEFINE Origin(x) == IF x = "cfg" THEN Startup ELSE x
  <2>1. \A x \in Holders :
          x \in Origins \cup {"cfg"} \/ RefsOf(view[x]) = {}
    BY EmptyIsAView, HolderAssumption DEF Init, Holders
  <2>2. \A x \in Origins \cup {"cfg"} :
          /\ view[x] = Loaded(Origin(x)) /\ family[x] = Origin(x) /\ Origin(x) \in Origins
    BY HolderAssumption DEF Init, Holders, Origins
  <2>3. h \in Origins \cup {"cfg"} /\ k \in Origins \cup {"cfg"}
    BY <1>3, <2>1
  <2> DEFINE p == Origin(h)
             q == Origin(k)
  <2>4. p \in Origins /\ q \in Origins
    BY <2>2, <2>3
  <2>5. p # q => {Home[p].faults, Home[p].validate} \cap {Home[q].faults, Home[q].validate} = {}
    <3> HIDE DEF p, q
    <3> QED BY <2>4, HomeAssumption
  <2>6. RefsOf(Loaded(p)) \cap RefsOf(Loaded(q)) # {}
    BY <1>3, <2>2, <2>3
  <2>7. p = q
    <3> HIDE DEF p, q
    <3> QED BY <1>1, <2>4, <2>5, <2>6
  <2> QED
    BY <2>2, <2>3, <2>7
<1> QED
  BY <1>2, <1>3 DEF IInv, SharingStaysInTheFamily

\* What a decoding handler writes about is only its own view.
LEMMA DecodeIInv ==
  ASSUME IInv, NEW g \in Handlers, Decode(g)
  PROVE  IInv'
<1> g \in Holders
  BY HoldersOfAKind
<1> USE DEF IInv
<1>t. /\ view[g] \in Views /\ at[g] \in Nat
      /\ doc[g] \in Bodies \cup Headers \cup {NoDocument}
      /\ IsArray(doc[g].faults) => Len(doc[g].faults) \in Nat
  BY LengthAssumption DEF Types, NoDocument, IsArray
<1>s. SUFFICES /\ Types'
               /\ SharingStaysInTheFamily'
  OBVIOUS
<1>1. CASE ReuseElement(g)
  <2> DEFINE v == [view[g] EXCEPT !.len = IF at[g] > @ THEN at[g] ELSE @]
  <2>1. v \in Views /\ RefsOf(v) = RefsOf(view[g])
    BY <1>t DEF Views, RefsOf
  <2>2. view' = [view EXCEPT ![g] = v] /\ family' = family
    BY <1>1, <1>t DEF ReuseElement, Advance, Types, Views, history
  <2>3. view' \in [Holders -> Views] /\ SharingStaysInTheFamily'
    BY <2>1, <2>2, FreshPlacesKeepSharing
  <2>4. Types'
    BY <1>1, <2>2, <2>3 DEF ReuseElement, Advance, Types, history
  <2> QED
    BY <2>3, <2>4
<1>2. CASE GrowArray(g)
  <2>1. PICK a \in Free(Live) : Advance(g, a)
    BY <1>2 DEF GrowArray
  <2> DEFINE v == [view[g] EXCEPT !.faults = a, !.len = IF at[g] > @ THEN at[g] ELSE @]
  <2>a. a \in Refs \ Live
    BY FreshIsFree
  <2>b. /\ v.faults = a /\ v.validate = view[g].validate
        /\ v \in Views
    BY <1>t, <2>a DEF Views
  <2>2. v \in Views /\ RefsOf(v) \subseteq RefsOf(view[g]) \cup (Refs \ Live)
    BY <2>a, <2>b DEF RefsOf
  <2>3. view' = [view EXCEPT ![g] = v] /\ family' = family
    BY <2>1, <1>t DEF Advance, Types, Views, history
  <2>4. view' \in [Holders -> Views] /\ SharingStaysInTheFamily'
    BY <2>2, <2>3, FreshPlacesKeepSharing
  <2>5. Types'
    BY <2>1, <2>3, <2>4 DEF Advance, Types, history
  <2> QED
    BY <2>4, <2>5
<1>3. CASE EndFaults(g)
  <2> DEFINE v == CASE doc[g].faults = Absent -> view[g]
                    [] doc[g].faults \in {Null, << >>} -> [view[g] EXCEPT !.faults = Nil, !.len = 0]
                    [] OTHER -> [view[g] EXCEPT !.len = Len(doc[g].faults)]
  <2>1. v \in Views /\ RefsOf(v) \subseteq RefsOf(view[g])
    <3>1. CASE doc[g].faults = Absent
      <4>1. v = view[g]
        BY <3>1, MemberAssumption
      <4> QED
        BY <1>t, <4>1
    <3>2. CASE doc[g].faults \in {Null, << >>}
      <4>1. v = [view[g] EXCEPT !.faults = Nil, !.len = 0]
        BY <3>2, MemberAssumption
      <4> HIDE DEF v
      <4> QED
        BY <1>t, <4>1 DEF Views, RefsOf, Nil
    <3>3. CASE doc[g].faults # Absent /\ doc[g].faults \notin {Null, << >>}
      <4>1. v = [view[g] EXCEPT !.len = Len(doc[g].faults)] /\ Len(doc[g].faults) \in Nat
        BY <1>t, <3>3 DEF IsArray
      <4> HIDE DEF v
      <4> QED
        BY <1>t, <4>1 DEF Views, RefsOf
    <3> QED
      BY <3>1, <3>2, <3>3
  <2>2. view' = [view EXCEPT ![g] = v] /\ family' = family
    BY <1>3 DEF EndFaults, history
  <2>3. view' \in [Holders -> Views] /\ SharingStaysInTheFamily'
    <3> HIDE DEF v
    <3> QED BY <2>1, <2>2, FreshPlacesKeepSharing
  <2>4. Types'
    BY <1>3, <2>2, <2>3 DEF EndFaults, Types, history
  <2> QED
    BY <2>3, <2>4
<1>4. CASE Validate(g)
  <2>1. PICK v \in Views :
          /\ view' = [view EXCEPT ![g] = v]
          /\ RefsOf(v) \subseteq RefsOf(view[g]) \cup (Refs \ Live)
    <3>1. CASE UNCHANGED view
      BY <1>t, <3>1 DEF Types
    <3>2. CASE view' = [view EXCEPT ![g].validate = IF doc[g].validate = Null THEN Nil ELSE @]
      <4> DEFINE v == [view[g] EXCEPT !.validate = IF doc[g].validate = Null THEN Nil ELSE @]
      <4>1. v \in Views /\ RefsOf(v) \subseteq RefsOf(view[g])
        BY <1>t DEF Views, RefsOf, Nil
      <4>2. view' = [view EXCEPT ![g] = v]
        BY <3>2
      <4> QED
        BY <4>1, <4>2
    <3>3. ASSUME NEW a \in Free(Live), view' = [view EXCEPT ![g].validate = a]
          PROVE  \E v \in Views :
                   /\ view' = [view EXCEPT ![g] = v]
                   /\ RefsOf(v) \subseteq RefsOf(view[g]) \cup (Refs \ Live)
      <4> DEFINE v == [view[g] EXCEPT !.validate = a]
      <4>1. v \in Views /\ RefsOf(v) \subseteq RefsOf(view[g]) \cup (Refs \ Live)
        BY <1>t, FreshIsFree DEF Views, RefsOf
      <4>2. view' = [view EXCEPT ![g] = v]
        BY <3>3
      <4> QED
        BY <4>1, <4>2
    <3> QED
      BY <1>4, <3>1, <3>2, <3>3 DEF Validate
  <2>2. family' = family
    BY <1>4 DEF Validate, history
  <2>3. view' \in [Holders -> Views] /\ SharingStaysInTheFamily'
    BY <2>1, <2>2, FreshPlacesKeepSharing
  <2>4. Types'
    BY <1>4, <2>2, <2>3 DEF Validate, Types, history
  <2> QED
    BY <2>3, <2>4
<1> QED
  BY <1>1, <1>2, <1>3, <1>4 DEF Decode

LEMMA NextIInv == IInv /\ [Next]_vars => IInv'
<1> SUFFICES ASSUME IInv, [Next]_vars PROVE IInv'
  OBVIOUS
<1> USE DEF IInv
<1>1. ASSUME NEW g \in Requests, Request(g) PROVE IInv'
  <2>1. PICK d \in Headers, from \in {"cfg"} \cup published :
          Begin(g, d, NoScenario) /\ Assign(g, from)
    BY <1>1 DEF Request
  <2>2. from \in Holders /\ g \in Holders /\ g \in Handlers /\ g \notin Admins
    BY HoldersOfAKind DEF Types
  <2>3. /\ view' \in [Holders -> Views]
        /\ family' \in [Holders -> Families \cup {NoFamily}]
        /\ SharingStaysInTheFamily'
    BY <2>1, <2>2, CopiesKeepSharing
  <2> QED
    BY <2>1, <2>2, <2>3 DEF Types, Begin
<1>2. ASSUME NEW g \in Admins, Post(g) PROVE IInv'
  <2>1. PICK d \in Bodies, s \in Scenarios :
          /\ Begin(g, d, s)
          /\ (\E p \in Presets : Assign(g, p)) \/ Found(g, Empty)
    BY <1>2 DEF Post
  <2>2. g \in Holders /\ g \in Handlers /\ Presets \subseteq Holders
    BY HoldersOfAKind
  <2>3. /\ view' \in [Holders -> Views]
        /\ family' \in [Holders -> Families \cup {NoFamily}]
        /\ SharingStaysInTheFamily'
    <3>1. CASE Found(g, Empty)
      BY <2>2, <3>1, EmptyIsAView, NewcomersKeepSharing
    <3>2. ASSUME NEW p \in Presets, Assign(g, p)
          PROVE  /\ view' \in [Holders -> Views]
                 /\ family' \in [Holders -> Families \cup {NoFamily}]
                 /\ SharingStaysInTheFamily'
      BY <2>2, <3>2, CopiesKeepSharing
    <3> QED
      BY <2>1, <3>1, <3>2
  <2> QED
    BY <2>1, <2>2, <2>3 DEF Types, Begin
<1>3. ASSUME NEW g \in Admins, Register(g) PROVE IInv'
  <2>1. /\ g \in Holders /\ g \in Handlers /\ target[g] \in Scenarios
        /\ target[g] \in Holders /\ target[g] # g
    BY <1>3, HoldersOfAKind DEF Register, Types
  <2>2. /\ view' \in [Holders -> Views]
        /\ family' \in [Holders -> Families \cup {NoFamily}]
    BY <1>3, <2>1, EmptyIsAView DEF Register, Types
  <2>3. ASSUME NEW h \in Holders, NEW k \in Holders,
               RefsOf(view'[h]) \cap RefsOf(view'[k]) # {}
        PROVE  family'[h] = family'[k]
    <3> DEFINE Before(x) == IF x = target[g] THEN g ELSE x
    <3>1. \A x \in Holders :
            \/ RefsOf(view'[x]) = {}
            \/ /\ Before(x) \in Holders
               /\ view'[x] = view[Before(x)] /\ family'[x] = family[Before(x)]
      BY <1>3, <2>1, EmptyIsAView DEF Register, Types
    <3>2. PICK x \in Holders, y \in Holders :
            /\ view'[h] = view[x] /\ family'[h] = family[x]
            /\ view'[k] = view[y] /\ family'[k] = family[y]
      BY <2>3, <3>1
    <3> QED
      BY <2>3, <3>2 DEF SharingStaysInTheFamily
  <2>4. Types'
    BY <1>3, <2>1, <2>2 DEF Register, Drop, Types, NoDocument
  <2> QED
    BY <2>3, <2>4 DEF SharingStaysInTheFamily
<1>4. ASSUME NEW g \in Handlers, Finish(g) PROVE IInv'
  <2>1. g \in Holders
    BY HoldersOfAKind
  <2>2. /\ view' \in [Holders -> Views]
        /\ family' \in [Holders -> Families \cup {NoFamily}]
        /\ SharingStaysInTheFamily'
    BY <1>4, <2>1, LettingGoKeepsSharing DEF Finish
  <2> QED
    BY <1>4, <2>2 DEF Finish, Drop, Types, NoDocument
<1>5. ASSUME NEW s \in Scenarios, Delete(s) PROVE IInv'
  <2>1. s \in Holders
    BY HoldersOfAKind
  <2>2. /\ view' \in [Holders -> Views]
        /\ family' \in [Holders -> Families \cup {NoFamily}]
        /\ SharingStaysInTheFamily'
    BY <1>5, <2>1, LettingGoKeepsSharing DEF Delete
  <2> QED
    BY <1>5, <2>2 DEF Delete, Types, handler
<1>6. ASSUME NEW d \in Bodies, PutConfig(d) PROVE IInv'
  <2>1. PICK v :
          /\ Found("cfg", v)
          /\ v \in Views /\ RefsOf(v) \cap Live = {}
    <3>0. PICK a \in Free(Live) : \E b \in Free(Live \cup {a}) :
            Found("cfg", [faults |-> IF IsArray(d.faults) /\ d.faults # << >> THEN a ELSE Nil,
                          len |-> IF IsArray(d.faults) /\ d.faults # << >> THEN Len(d.faults) ELSE 0,
                          validate |-> IF d.validate \in BOOLEAN THEN b ELSE Nil])
      BY <1>6 DEF PutConfig
    <3>1. PICK b \in Free(Live \cup {a}) :
            Found("cfg", [faults |-> IF IsArray(d.faults) /\ d.faults # << >> THEN a ELSE Nil,
                          len |-> IF IsArray(d.faults) /\ d.faults # << >> THEN Len(d.faults) ELSE 0,
                          validate |-> IF d.validate \in BOOLEAN THEN b ELSE Nil])
      BY <3>0
    <3>2. a \in Refs \ Live /\ b \in Refs \ Live
      BY FreshIsFree
    <3>3. Nil \notin Live
      BY DEF Live, RefsOf
    <3> QED
      BY <3>1, <3>2, <3>3, LengthAssumption DEF Views, RefsOf
  <2>2. /\ view' \in [Holders -> Views]
        /\ family' \in [Holders -> Families \cup {NoFamily}]
        /\ SharingStaysInTheFamily'
    BY <2>1, HoldersOfAKind, NewcomersKeepSharing
  <2> QED
    BY <1>6, <2>2 DEF PutConfig, Types, handler
<1>7. CASE PutPreset
  <2>1. /\ view' \in [Holders -> Views]
        /\ family' \in [Holders -> Families \cup {NoFamily}]
        /\ SharingStaysInTheFamily'
    BY <1>7, HoldersOfAKind, EmptyIsAView, NewcomersKeepSharing DEF PutPreset
  <2> QED
    BY <1>7, <2>1 DEF PutPreset, Types, handler
<1>8. CASE Reset
  <2>1. /\ view' \in [Holders -> Views]
        /\ family' \in [Holders -> Families \cup {NoFamily}]
        /\ SharingStaysInTheFamily'
    BY <1>8, HoldersOfAKind, CopiesKeepSharing DEF Reset
  <2> QED
    BY <1>8, <2>1 DEF Reset, Types, handler
<1>9. CASE UNCHANGED vars
  BY <1>9 DEF vars, handler, history, Types, SharingStaysInTheFamily
<1> QED
  BY <1>1, <1>2, <1>3, <1>4, <1>5, <1>6, <1>7, <1>8, <1>9, DecodeIInv DEF Next

(***************************************************************************)
(* Memory is shared along copies only, for any number of requests, admin   *)
(* calls, scenarios and presets, and any overlays (Update, Reset,          *)
(* handleAdminPutConfig, handleAdminPostScenario, applyScenario).          *)
(***************************************************************************)
THEOREM SharingIsInherited == Spec => []SharingStaysInTheFamily
<1>1. IInv => SharingStaysInTheFamily
  BY DEF IInv
<1> QED
  BY <1>1, InitIInv, NextIInv, PTL DEF Spec

-----------------------------------------------------------------------------
(* A step that spares the places of a configuration spares what it says.   *)

LEMMA SparedPlacesSayTheSame ==
  ASSUME NEW h \in Holders, view'[h] = view[h],
         \A r \in RefsOf(view[h]) : heap'[r] = heap[r]
  PROVE  Definition(view[h])' = Definition(view[h])
<1>1. view[h].faults # Nil => heap'[view[h].faults] = heap[view[h].faults]
  BY DEF RefsOf
<1>2. view[h].validate # Nil => heap'[view[h].validate] = heap[view[h].validate]
  BY DEF RefsOf
<1> QED
  BY <1>1, <1>2 DEF Definition

\* Collecting moves nothing a holder still points to.
LEMMA CollectSparesAll ==
  ASSUME Collect, NEW h \in Holders, view'[h] = view[h]
  PROVE  \A r \in RefsOf(view[h]) : heap'[r] = heap[r]
<1>1. RefsOf(view[h]) \subseteq Live'
  BY DEF Live
<1> QED
  BY <1>1 DEF Collect

LEMMA WriteSparesTheRest ==
  ASSUME NEW a, NEW cells, Write(a, cells), NEW h \in Holders, view'[h] = view[h]
  PROVE  \A r \in RefsOf(view[h]) : r # a => heap'[r] = heap[r]
<1>1. RefsOf(view[h]) \subseteq Live'
  BY DEF Live
<1> QED
  BY <1>1 DEF Write

\* What WritesStayInTheFamily says of one step and one holder.
Undisturbed(h) == Definition(view[h])' = Definition(view[h])
Explained(h) ==
  \E g \in Handlers : stage[g] \in {"faults", "validate"} /\ family[g] = family[h]

LEMMA DecodeDisturbsTheFamily ==
  ASSUME IInv, NEW g \in Handlers, Decode(g), NEW h \in Holders, view'[h] = view[h]
  PROVE  Undisturbed(h) \/ Explained(h)
<1> g \in Holders
  BY HoldersOfAKind
<1>1. \A a : a \in RefsOf(view[g]) \cap RefsOf(view[h]) => family[g] = family[h]
  BY DEF IInv, SharingStaysInTheFamily
<1>2. RefsOf(view[h]) \subseteq Live /\ Nil \notin RefsOf(view[h])
  BY DEF Live, RefsOf
<1>3. CASE ReuseElement(g)
  <2>1. PICK cells : Write(view[g].faults, cells)
    BY <1>3 DEF ReuseElement
  <2>2. stage[g] = "faults"
    BY <1>3 DEF ReuseElement, AtElement
  <2>3. CASE view[g].faults \in RefsOf(view[h])
    <3>1. view[g].faults \in RefsOf(view[g])
      BY <1>2, <2>3 DEF RefsOf
    <3> QED
      BY <1>1, <2>2, <2>3, <3>1 DEF Explained
  <2>4. CASE view[g].faults \notin RefsOf(view[h])
    BY <2>1, <2>4, WriteSparesTheRest, SparedPlacesSayTheSame DEF Undisturbed
  <2> QED
    BY <2>3, <2>4
<1>4. ASSUME NEW a \in Free(Live), NEW cells, Write(a, cells)
      PROVE  Undisturbed(h)
  BY <1>2, <1>4, FreshIsFree, WriteSparesTheRest, SparedPlacesSayTheSame DEF Undisturbed
<1>5. CASE GrowArray(g)
  BY <1>4, <1>5 DEF GrowArray
<1>6. ASSUME Collect PROVE Undisturbed(h)
  BY <1>6, CollectSparesAll, SparedPlacesSayTheSame DEF Undisturbed
<1>7. CASE EndFaults(g)
  BY <1>6, <1>7 DEF EndFaults
<1>8. CASE Validate(g)
  <2>1. ASSUME Write(view[g].validate, <<doc[g].validate>>)
        PROVE  Undisturbed(h) \/ Explained(h)
    <3>1. CASE view[g].validate \in RefsOf(view[h])
      <4>1. view[g].validate \in RefsOf(view[g])
        BY <1>2, <3>1 DEF RefsOf
      <4> QED
        BY <1>1, <1>8, <3>1, <4>1 DEF Explained, Validate
    <3>2. CASE view[g].validate \notin RefsOf(view[h])
      BY <2>1, <3>2, WriteSparesTheRest, SparedPlacesSayTheSame DEF Undisturbed
    <3> QED
      BY <3>1, <3>2
  <2> QED
    BY <1>4, <1>6, <1>8, <2>1 DEF Validate
<1> QED
  BY <1>3, <1>5, <1>7, <1>8 DEF Decode

LEMMA StepsDisturbTheFamily ==
  ASSUME IInv, Next, NEW h \in Holders, view'[h] = view[h]
  PROVE  Undisturbed(h) \/ Explained(h)
<1>1. ASSUME Collect PROVE Undisturbed(h)
  BY <1>1, CollectSparesAll, SparedPlacesSayTheSame DEF Undisturbed
<1>2. ASSUME NEW d \in Bodies, PutConfig(d) PROVE Undisturbed(h)
  <2>1. PICK a \in Free(Live) : \E b \in Free(Live \cup {a}) :
          heap' = [r \in Live' |-> IF r = a THEN Filled(d.faults)
                                   ELSE IF r = b THEN <<d.validate>> ELSE heap[r]]
    BY <1>2 DEF PutConfig
  <2>2. PICK b \in Free(Live \cup {a}) :
          heap' = [r \in Live' |-> IF r = a THEN Filled(d.faults)
                                   ELSE IF r = b THEN <<d.validate>> ELSE heap[r]]
    BY <2>1
  <2>3. RefsOf(view[h]) \subseteq Live /\ RefsOf(view[h]) \subseteq Live'
    BY DEF Live
  <2>4. a \notin Live /\ b \notin Live
    BY FreshIsFree
  <2> QED
    BY <2>2, <2>3, <2>4, SparedPlacesSayTheSame DEF Undisturbed
<1>3. ASSUME NEW g \in Requests, Request(g) PROVE Undisturbed(h)
  BY <1>1, <1>3 DEF Request
<1>4. ASSUME NEW g \in Admins, Post(g) \/ Register(g) PROVE Undisturbed(h)
  BY <1>1, <1>4 DEF Post, Register
<1>5. ASSUME NEW g \in Handlers, Finish(g) PROVE Undisturbed(h)
  BY <1>1, <1>5 DEF Finish
<1>6. ASSUME NEW s \in Scenarios, Delete(s) PROVE Undisturbed(h)
  BY <1>1, <1>6 DEF Delete
<1>7. CASE PutPreset \/ Reset
  BY <1>1, <1>7 DEF PutPreset, Reset
<1> QED
  BY <1>2, <1>3, <1>4, <1>5, <1>6, <1>7, DecodeDisturbsTheFamily DEF Next

(***************************************************************************)
(* A configuration changes behind the back of its holder only while an     *)
(* overlay is decoded over a copy of its own family, for any number of     *)
(* handlers and any overlays (Update, Reset, applyFaultHeader).            *)
(***************************************************************************)
THEOREM WritesAreInherited == Spec => WritesStayInTheFamily
<1>1. ASSUME IInv, [Next]_vars, NEW h \in Holders,
             view'[h] = view[h], Definition(view[h])' # Definition(view[h])
      PROVE  Explained(h)
  <2>1. CASE Next
    BY <1>1, <2>1, StepsDisturbTheFamily DEF Undisturbed
  <2>2. CASE UNCHANGED vars
    BY <1>1, <2>2 DEF vars, Definition
  <2> QED
    BY <1>1, <2>1, <2>2
<1>2. IInv /\ [Next]_vars =>
        [\A h \in Holders :
           view'[h] = view[h] /\ Definition(view[h])' # Definition(view[h]) =>
             \E g \in Handlers : /\ stage[g] \in {"faults", "validate"}
                                 /\ family[g] = family[h]]_vars
  BY <1>1 DEF Explained
<1> QED
  BY <1>2, InitIInv, NextIInv, PTL DEF Spec, WritesStayInTheFamily
=============================================================================
