---------------------------- MODULE LimitProofs ----------------------------
(***************************************************************************)
(* The two limits of a provider: what holds of the rate limiter for every  *)
(* rate, window and clock, and of the concurrency gate for any finite      *)
(* number of handlers and any limits.                                      *)
(***************************************************************************)
EXTENDS RateLimiter, ConcurrencyGate, FiniteSetTheorems, TLAPS
-----------------------------------------------------------------------------
(* The rate limiter.                                                       *)

(* The arithmetic of Retry-After: dividing by a positive number rounds     *)
(* down, and adding one takes the product past the dividend.               *)
LEMMA DivisionBounds ==
  ASSUME NEW a \in Nat, NEW b \in Nat \ {0}
  PROVE  /\ a \div b \in Nat
         /\ (a \div b) * b <= a
         /\ a < (a \div b + 1) * b
OBVIOUS

(* Every nonempty set of naturals has a least element. *)
LEMMA LeastNatural ==
  ASSUME NEW S \in SUBSET Nat, S # {}
  PROVE  \E i \in S : \A j \in S : i <= j
<1> DEFINE Less == OpToRel(<, Nat)
<1>1. Less = {ss \in Nat \X Nat : ss[1] < ss[2]}
  BY DEF OpToRel
<1>2. PICK i \in S : \A j \in S : ~ (<<j, i>> \in Less)
  BY WFMin, NatLessThanWellFounded
<1>3. ASSUME NEW j \in S, j < i
      PROVE  FALSE
  BY <1>1, <1>2, <1>3
<1>4. QED
  BY <1>3
-----------------------------------------------------------------------------
(***************************************************************************)
(* The inductive invariant.  Retained is the heart of it: an admission of  *)
(* the current window is never lost from the slice, so the pruned slice    *)
(* counts the whole window.  Promise keeps, for the caller refused last,   *)
(* the admission whose leaving makes room for it.                          *)
(***************************************************************************)
Past == \A i \in 1..Len(grants) : grants[i] <= now

InOrder == \A i, j \in 1..Len(grants) : i <= j => grants[i] <= grants[j]

Retained == \A i \in 1..Len(grants) : grants[i] > now - Window => i \in requests

Full == Cardinality(requests) <= Rpm

InWindow(t) == { i \in 1..Len(grants) : grants[i] > t - Window }

Promise ==
  ~reply.allowed =>
    /\ reply.at <= now
    /\ Cardinality(InWindow(reply.at)) <= Rpm
    /\ \E first \in InWindow(reply.at) :
         grants[first] + Window < reply.at + reply.retryAfter * Second

LimiterInv ==
  /\ TypeOK
  /\ Past
  /\ InOrder
  /\ Retained
  /\ Full
  /\ WindowBound
  /\ Promise

(* The pruned slice holds numbers of admissions. *)
LEMMA SliceNumbers ==
  ASSUME TypeOK
  PROVE  /\ Len(grants) \in Nat
         /\ Valid \subseteq requests
         /\ requests \subseteq 1..Len(grants)
         /\ \A i \in Valid : i \in 1..Len(grants) /\ i \in Nat
<1>1. Len(grants) \in Nat /\ requests \subseteq 1..Len(grants)
  BY DEF TypeOK
<1>2. Valid \subseteq requests
  BY DEF Valid
<1>3. QED
  BY <1>1, <1>2

(* The pruned slice is finite, so that counting it makes sense. *)
LEMMA FiniteSlice ==
  ASSUME TypeOK
  PROVE  /\ Len(grants) \in Nat
         /\ IsFiniteSet(1..Len(grants))
         /\ IsFiniteSet(requests)
         /\ IsFiniteSet(Valid)
         /\ Cardinality(Valid) \in Nat
         /\ Cardinality(Valid) <= Cardinality(requests)
         /\ Cardinality(requests) \in Nat
<1>1. Len(grants) \in Nat
  BY DEF TypeOK
<1>2. IsFiniteSet(1..Len(grants))
  BY <1>1, FS_Interval
<1>3. IsFiniteSet(requests)
  BY <1>2, FS_Subset DEF TypeOK
<1>4. Valid \in SUBSET requests
  BY DEF Valid
<1>5. QED
  BY <1>1, <1>2, <1>3, <1>4, FS_Subset, FS_CardinalityType

(* The pruned slice is the window that ends now. *)
LEMMA ValidIsWindow ==
  ASSUME TypeOK, Retained
  PROVE  Valid = InWindow(now)
BY DEF Valid, InWindow, TypeOK, Retained

(* Appending an admission keeps the earlier ones and their numbers. *)
LEMMA GrantsAppend ==
  ASSUME TypeOK, AllowAdmits
  PROVE  /\ grants' \in Seq(Nat)
         /\ Len(grants') = Len(grants) + 1
         /\ \A i \in 1..Len(grants) : grants'[i] = grants[i]
         /\ grants'[Len(grants) + 1] = now
BY DEF TypeOK, AllowAdmits

(* A refusal happens over a nonempty window, whose first admission is      *)
(* still inside it; Retry-After is the least number of seconds longer than *)
(* what that admission has left.                                           *)
LEMMA RefusalFacts ==
  ASSUME TypeOK, AllowRefuses
  PROVE  /\ Oldest \in Valid
         /\ \A j \in Valid : Oldest <= j
         /\ RetryAfter \in Nat \ {0}
         /\ (RetryAfter - 1) * Second <= grants[Oldest] + Window - now
         /\ grants[Oldest] + Window - now < RetryAfter * Second
         /\ RetryAfter <= grants[Oldest] + Window - now + 1
<1> USE LimiterAssumption
<1>1. Valid # {}
  BY FS_EmptySet DEF AllowRefuses
<1>3. Oldest \in Valid /\ \A j \in Valid : Oldest <= j
  <2>1. Valid \in SUBSET Nat
    BY SliceNumbers
  <2>2. QED
    BY <1>1, <2>1, LeastNatural DEF Oldest
<1> DEFINE rest == grants[Oldest] + Window - now
<1>4. rest \in Nat
  BY <1>3 DEF Valid, TypeOK
<1>5. /\ rest \div Second \in Nat
      /\ (rest \div Second) * Second <= rest
      /\ rest < (rest \div Second + 1) * Second
  BY <1>4, DivisionBounds
<1>6. RetryAfter = rest \div Second + 1
  BY <1>4, <1>5 DEF RetryAfter
<1>7. rest \div Second <= (rest \div Second) * Second
  BY <1>5
<1> HIDE DEF rest
<1>8. RetryAfter \in Nat \ {0} /\ RetryAfter - 1 = rest \div Second
  BY <1>5, <1>6
<1>9. /\ (RetryAfter - 1) * Second <= rest
      /\ rest < RetryAfter * Second
      /\ RetryAfter <= rest + 1
  BY <1>4, <1>5, <1>6, <1>7, <1>8
<1>10. QED
  BY <1>3, <1>8, <1>9 DEF rest

LEMMA TypeOKStep ==
  ASSUME TypeOK, [Next]_vars
  PROVE  TypeOK'
<1> USE LimiterAssumption
<1>1. CASE Tick
  BY <1>1 DEF Tick, TypeOK
<1>2. CASE AllowRefuses
  BY <1>2, RefusalFacts DEF AllowRefuses, Valid, TypeOK
<1>3. CASE AllowAdmits
  <2>1. Valid \subseteq 1..(Len(grants) + 1)
    BY SliceNumbers
  <2>2. requests' \subseteq 1..Len(grants')
    <3>1. Len(grants) + 1 \in 1..(Len(grants) + 1)
      BY SliceNumbers
    <3>2. requests' = Valid \cup {Len(grants) + 1}
      BY <1>3 DEF AllowAdmits
    <3>3. Len(grants') = Len(grants) + 1
      BY <1>3, GrantsAppend
    <3>4. QED
      BY <2>1, <3>1, <3>2, <3>3
  <2>3. QED
    BY <1>3, <2>2, GrantsAppend DEF AllowAdmits, TypeOK
<1>4. CASE UNCHANGED vars
  BY <1>4 DEF vars, TypeOK
<1>5. QED
  BY <1>1, <1>2, <1>3, <1>4 DEF Next, Allow
-----------------------------------------------------------------------------
(* The parts of the invariant that speak of the slice and the clock. *)
LEMMA SliceStep ==
  ASSUME LimiterInv, [Next]_vars
  PROVE  Past' /\ InOrder' /\ Retained' /\ Full'
<1> USE LimiterAssumption
<1>1. CASE Tick
  BY <1>1 DEF Tick, LimiterInv, TypeOK, Past, InOrder, Retained, Full
<1>2. CASE AllowRefuses
  <2>1. Full'
    BY <1>2, FiniteSlice DEF AllowRefuses, LimiterInv, Full
  <2>2. Retained'
    BY <1>2 DEF AllowRefuses, LimiterInv, TypeOK, Retained, Valid
  <2>3. QED
    BY <1>2, <2>1, <2>2 DEF AllowRefuses, LimiterInv, Past, InOrder
<1>3. CASE AllowAdmits
  <2>1. now' = now /\ TypeOK
    BY <1>3 DEF AllowAdmits, LimiterInv
  <2>2. Past' /\ InOrder'
    <3>1. \A i \in 1..Len(grants') : i \in 1..Len(grants) \/ i = Len(grants) + 1
      BY <1>3, <2>1, GrantsAppend, SliceNumbers
    <3>2. /\ Past
          /\ InOrder
          /\ now \in Nat
          /\ \A i \in 1..Len(grants) : grants[i] \in Nat
      BY DEF LimiterInv, TypeOK
    <3>3. Past'
      BY <1>3, <2>1, <3>1, <3>2, GrantsAppend DEF Past
    <3>4. InOrder'
      BY <1>3, <2>1, <3>1, <3>2, GrantsAppend, SliceNumbers DEF Past, InOrder
    <3>5. QED
      BY <3>3, <3>4
  <2>3. Retained'
    BY <1>3, <2>1, GrantsAppend
       DEF AllowAdmits, LimiterInv, TypeOK, Retained, Valid
  <2>4. Len(grants) + 1 \notin Valid
    BY <2>1 DEF Valid, TypeOK
  <2>5. Cardinality(requests') = Cardinality(Valid) + 1
    BY <1>3, <2>1, <2>4, FiniteSlice, FS_AddElement DEF AllowAdmits
  <2>6. Full'
    BY <1>3, <2>1, <2>5, FiniteSlice DEF AllowAdmits, Full
  <2>7. QED
    BY <2>2, <2>3, <2>6
<1>4. CASE UNCHANGED vars
  BY <1>4 DEF vars, LimiterInv, Past, InOrder, Retained, Full
<1>5. QED
  BY <1>1, <1>2, <1>3, <1>4 DEF Next, Allow
-----------------------------------------------------------------------------
(* An admission lands in a window that held fewer than Rpm others; every   *)
(* other step leaves the history alone.                                    *)
LEMMA WindowBoundStep ==
  ASSUME LimiterInv, [Next]_vars
  PROVE  WindowBound'
<1>1. CASE grants' = grants
  BY <1>1 DEF LimiterInv, WindowBound
<1>2. CASE AllowAdmits
  <2>1. /\ TypeOK
        /\ Retained
        /\ WindowBound
        /\ Len(grants) \in Nat
        /\ Rpm \in Nat
    BY LimiterAssumption DEF LimiterInv, TypeOK
  <2>2. SUFFICES
          ASSUME NEW i \in 1..Len(grants')
          PROVE  Cardinality({ j \in 1..i : grants'[j] > grants'[i] - Window }) <= Rpm
    BY DEF WindowBound
  <2>3. CASE i \in 1..Len(grants)
    <3>1. \A j \in 1..i : j \in 1..Len(grants)
      BY <2>1, <2>3
    <3>2. { j \in 1..i : grants'[j] > grants'[i] - Window }
            = { j \in 1..i : grants[j] > grants[i] - Window }
      BY <1>2, <2>1, <2>3, <3>1, GrantsAppend
    <3>3. QED
      BY <2>1, <2>3, <3>2 DEF WindowBound
  <2>4. CASE i = Len(grants) + 1
    <3> DEFINE W == { j \in 1..i : grants'[j] > grants'[i] - Window }
    <3>1. grants'[i] = now
      BY <1>2, <2>1, <2>4, GrantsAppend
    <3>2. W \subseteq Valid \cup {i}
      <4>1. ASSUME NEW j \in W, j # i
            PROVE  j \in Valid
        <5>1. j \in 1..Len(grants) /\ grants'[j] > now - Window
          BY <2>1, <2>4, <3>1, <4>1
        <5>2. grants[j] > now - Window
          BY <1>2, <2>1, <5>1, GrantsAppend
        <5>3. QED
          BY <2>1, <5>1, <5>2 DEF Retained, Valid
      <4>2. QED
        BY <4>1
    <3>3. IsFiniteSet(Valid \cup {i}) /\ Cardinality(Valid \cup {i}) <= Rpm
      <4>1. i \notin Valid
        BY <2>1, <2>4, SliceNumbers
      <4>2. Cardinality(Valid) < Rpm
        BY <1>2 DEF AllowAdmits
      <4>3. IsFiniteSet(Valid) /\ Cardinality(Valid) \in Nat
        BY <2>1, FiniteSlice
      <4>4. /\ IsFiniteSet(Valid \cup {i})
            /\ Cardinality(Valid \cup {i}) = Cardinality(Valid) + 1
        BY <4>1, <4>3, FS_AddElement
      <4>5. QED
        BY <2>1, <4>2, <4>3, <4>4
    <3>4. /\ Cardinality(W) <= Cardinality(Valid \cup {i})
          /\ Cardinality(W) \in Nat
          /\ Cardinality(Valid \cup {i}) \in Nat
      <4>1. W \in SUBSET (Valid \cup {i})
        BY <3>2
      <4> HIDE DEF W
      <4>2. QED
        BY <3>3, <4>1, FS_Subset, FS_CardinalityType
    <3>5. QED
      BY <2>1, <3>3, <3>4
  <2>5. QED
    BY <1>2, <2>1, <2>2, <2>3, <2>4, GrantsAppend
<1>3. QED
  BY <1>1, <1>2 DEF Next, Allow, Tick, AllowRefuses, vars

(* What a refusal promises stays true until the next admission. *)
LEMMA PromiseStep ==
  ASSUME LimiterInv, [Next]_vars
  PROVE  Promise'
<1>1. TypeOK /\ Promise /\ Retained /\ Full /\ now \in Nat
  BY DEF LimiterInv, TypeOK
<1>2. CASE Tick
  BY <1>1, <1>2 DEF Tick, Promise, InWindow, TypeOK
<1>3. CASE AllowRefuses
  <2>1. /\ reply'.at = now
        /\ reply'.retryAfter = RetryAfter
        /\ grants' = grants
        /\ now' = now
    BY <1>3 DEF AllowRefuses
  <2>2. InWindow(reply.at)' = Valid
    BY <1>1, <2>1, ValidIsWindow DEF InWindow
  <2>3. Cardinality(Valid) <= Rpm
    BY <1>1, FiniteSlice, LimiterAssumption DEF Full
  <2>4. Oldest \in Valid /\ grants[Oldest] + Window < now + RetryAfter * Second
    <3>1. grants[Oldest] \in Nat
      BY <1>1, <1>3, RefusalFacts, SliceNumbers DEF TypeOK
    <3>2. grants[Oldest] + Window - now < RetryAfter * Second /\ RetryAfter \in Nat
      BY <1>1, <1>3, RefusalFacts
    <3>3. QED
      BY <1>1, <1>3, <3>1, <3>2, RefusalFacts, LimiterAssumption
  <2>5. QED
    BY <1>1, <2>1, <2>2, <2>3, <2>4 DEF Promise
<1>4. CASE AllowAdmits
  BY <1>4 DEF AllowAdmits, Promise
<1>5. CASE UNCHANGED vars
  BY <1>1, <1>5 DEF vars, Promise, InWindow
<1>6. QED
  BY <1>2, <1>3, <1>4, <1>5 DEF Next, Allow

LEMMA LimiterInvHolds == Spec => []LimiterInv
<1>1. Init => LimiterInv
  <2> SUFFICES ASSUME Init
               PROVE  LimiterInv
    OBVIOUS
  <2>1. TypeOK
    BY DEF Init, TypeOK
  <2>2. Len(grants) = 0
    BY DEF Init
  <2>3. Full
    BY FS_EmptySet, LimiterAssumption DEF Init, Full
  <2>4. Promise
    BY DEF Init, Promise
  <2>5. QED
    BY <2>1, <2>2, <2>3, <2>4
       DEF LimiterInv, Past, InOrder, Retained, WindowBound
<1>2. LimiterInv /\ [Next]_vars => LimiterInv'
  <2> SUFFICES ASSUME LimiterInv, [Next]_vars
               PROVE  LimiterInv'
    OBVIOUS
  <2>1. TypeOK'
    BY TypeOKStep DEF LimiterInv
  <2>2. QED
    BY <2>1, SliceStep, WindowBoundStep, PromiseStep DEF LimiterInv
<1>3. QED
  BY <1>1, <1>2, PTL DEF Spec
-----------------------------------------------------------------------------
(* Every reachable state of the limiter is well typed, for every rate and  *)
(* window.                                                                 *)
THEOREM LimiterTypeCorrect == Spec => []TypeOK
<1>1. LimiterInv => TypeOK
  BY DEF LimiterInv
<1>2. QED
  BY <1>1, LimiterInvHolds, PTL

(* RateLimiter.Allow never admits more than rpm requests in any window of  *)
(* 60 s, for every rate, window and number of calls.                       *)
THEOREM WindowBounded == Spec => []WindowBound
<1>1. LimiterInv => WindowBound
  BY DEF LimiterInv
<1>2. QED
  BY <1>1, LimiterInvHolds, PTL

(* The Retry-After of a 429 is long enough: the caller that waits for it   *)
(* finds room unless somebody else was admitted in between.                *)
THEOREM RetryAfterCorrect == Spec => []RetryAfterSuffices
<1>1. LimiterInv => RetryAfterSuffices
  <2> SUFFICES ASSUME LimiterInv,
                      ~reply.allowed,
                      now >= reply.at + reply.retryAfter * Second
               PROVE  Cardinality(Valid) < Rpm
    BY DEF RetryAfterSuffices
  <2> USE LimiterAssumption
  <2>1. TypeOK /\ Retained /\ Promise
    BY DEF LimiterInv
  <2>2. PICK first \in InWindow(reply.at) :
               grants[first] + Window < reply.at + reply.retryAfter * Second
    BY <2>1 DEF Promise
  <2>3. /\ first \in 1..Len(grants)
        /\ grants[first] \in Nat
        /\ reply.at \in Nat
        /\ reply.retryAfter \in Nat
        /\ now \in Nat
    BY <2>1, <2>2 DEF InWindow, TypeOK
  <2>4. first \notin Valid
    BY <2>2, <2>3 DEF Valid
  <2>5. Valid \subseteq InWindow(reply.at) \ {first}
    <3>1. reply.at <= now
      BY <2>1 DEF Promise
    <3>2. \A i \in Valid : i \in 1..Len(grants) /\ grants[i] > now - Window
      BY <2>1, SliceNumbers DEF Valid
    <3>3. \A i \in Valid : grants[i] \in Nat
      BY <2>1, <3>2 DEF TypeOK
    <3>4. \A i \in Valid : grants[i] > reply.at - Window
      BY <2>3, <3>1, <3>2, <3>3
    <3>5. QED
      BY <2>4, <3>2, <3>4 DEF InWindow
  <2>6. /\ IsFiniteSet(InWindow(reply.at))
        /\ Cardinality(InWindow(reply.at)) \in Nat
    <3>1. InWindow(reply.at) \in SUBSET (1..Len(grants))
      BY DEF InWindow
    <3>2. QED
      BY <2>1, <3>1, FiniteSlice, FS_Subset, FS_CardinalityType
  <2>7. /\ IsFiniteSet(InWindow(reply.at) \ {first})
        /\ Cardinality(InWindow(reply.at) \ {first}) = Cardinality(InWindow(reply.at)) - 1
    BY <2>2, <2>6, FS_RemoveElement
  <2>8. Cardinality(Valid) <= Cardinality(InWindow(reply.at) \ {first})
    BY <2>5, <2>7, FS_Subset
  <2>9. Cardinality(Valid) \in Nat /\ Cardinality(InWindow(reply.at)) <= Rpm
    BY <2>1, FiniteSlice DEF Promise
  <2>10. QED
    BY <2>6, <2>7, <2>8, <2>9
<1>2. QED
  BY <1>1, LimiterInvHolds, PTL

(* The history is in order, so the pruned slice is its tail and counting   *)
(* it is the same as looking at the admission Rpm places from the end.     *)
LEMMA RoomIsCount ==
  ASSUME TypeOK, InOrder, Retained
  PROVE  Abstract!Room <=> Cardinality(Valid) < Rpm
<1> DEFINE n == Len(grants)
<1> USE LimiterAssumption
<1>1. /\ n \in Nat
      /\ now \in Nat
      /\ \A i \in 1..n : grants[i] \in Nat
      /\ \A i \in Valid : i \in 1..n /\ grants[i] > now - Window
  BY SliceNumbers DEF TypeOK, Valid
<1>2. CASE Valid = {}
  <2>1. Cardinality(Valid) < Rpm
    BY <1>2, FS_EmptySet
  <2>2. n < Rpm \/ grants[n - Rpm + 1] <= now - Window
    <3>1. SUFFICES ASSUME n >= Rpm
                   PROVE  grants[n - Rpm + 1] <= now - Window
      BY <1>1
    <3>2. n - Rpm + 1 \in 1..n
      BY <1>1, <3>1
    <3>3. n - Rpm + 1 \notin Valid
      BY <1>2
    <3>4. QED
      BY <1>1, <3>2, <3>3 DEF Valid, Retained
  <2>3. QED
    BY <2>1, <2>2 DEF Abstract!Room
<1>3. CASE Valid # {}
  <2>1. Valid \in SUBSET Nat
    BY SliceNumbers
  <2>2. PICK lo \in Valid : \A j \in Valid : lo <= j
    BY <1>3, <2>1, LeastNatural
  <2>3. Valid = lo..n
    <3>1. \A j \in lo..n : j \in Valid
      <4> SUFFICES ASSUME NEW j \in lo..n
                   PROVE  j \in Valid
        OBVIOUS
      <4>1. j \in 1..n /\ grants[lo] <= grants[j]
        BY <1>1, <2>2 DEF InOrder
      <4>2. grants[j] > now - Window
        BY <1>1, <2>2, <4>1
      <4>3. QED
        BY <4>1, <4>2 DEF Valid, Retained
    <3>2. \A j \in Valid : j \in lo..n
      BY <1>1, <2>2
    <3>3. Valid \subseteq lo..n /\ lo..n \subseteq Valid
      BY <3>1, <3>2, Zenon
    <3>4. QED
      BY <3>3, Zenon
  <2>4. Cardinality(Valid) = n - lo + 1
    BY <1>1, <2>2, <2>3, FS_Interval
  <2>5. (n < Rpm \/ grants[n - Rpm + 1] <= now - Window) <=> n - lo + 1 < Rpm
    <3>1. CASE n < Rpm
      BY <1>1, <2>2, <3>1
    <3>2. CASE n >= Rpm
      <4>1. n - Rpm + 1 \in 1..n
        BY <1>1, <3>2
      <4>2. n - Rpm + 1 \in Valid <=> grants[n - Rpm + 1] > now - Window
        BY <4>1 DEF Valid, Retained
      <4>3. n - Rpm + 1 \in Valid <=> n - Rpm + 1 >= lo
        BY <1>1, <2>2, <2>3, <4>1
      <4>4. QED
        BY <1>1, <2>2, <3>2, <4>1, <4>2, <4>3
    <3>3. QED
      BY <1>1, <3>1, <3>2
  <2>6. QED
    BY <2>4, <2>5 DEF Abstract!Room
<1>4. QED
  BY <1>2, <1>3

(* The limiter of the code, which prunes its slice only when called and    *)
(* answers from what is left, implements the limiter that looks at all     *)
(* admissions of the window: every step of one is a step of the other.     *)
THEOREM LimiterIsASlidingWindow == Spec => ImplementsSlidingWindow
<1>1. Init => Abstract!Init
  BY DEF Init, Abstract!Init
<1>2. LimiterInv /\ [Next]_vars => [Abstract!Next]_(Abstract!absVars)
  <2> SUFFICES ASSUME LimiterInv, [Next]_vars
               PROVE  [Abstract!Next]_(Abstract!absVars)
    OBVIOUS
  <2>1. TypeOK /\ Past /\ InOrder /\ Retained
    BY DEF LimiterInv
  <2>2. Abstract!InWindow(now) = Valid
    BY <2>1, ValidIsWindow DEF Abstract!InWindow, InWindow
  <2>0. Abstract!Room <=> Cardinality(Valid) < Rpm
    BY <2>1, RoomIsCount
  <2>3. CASE Tick
    <3>1. Abstract!Tick
      BY <2>3 DEF Tick, Abstract!Tick
    <3>2. QED
      BY <3>1 DEF Abstract!Next
  <2>4. CASE AllowAdmits
    <3>1. Abstract!Admit
      BY <2>0, <2>4 DEF AllowAdmits, Abstract!Admit
    <3>2. QED
      BY <3>1 DEF Abstract!Next
  <2>5. CASE AllowRefuses
    <3> DEFINE rest == grants[Oldest] + Window - now
    <3>1. /\ Oldest \in Valid
          /\ RetryAfter \in Nat \ {0}
          /\ (RetryAfter - 1) * Second <= rest
          /\ rest < RetryAfter * Second
          /\ RetryAfter <= rest + 1
      BY <2>1, <2>5, RefusalFacts
    <3>2. /\ Oldest \in 1..Len(grants)
          /\ grants[Oldest] \in Nat
          /\ grants[Oldest] <= now
          /\ now \in Nat
      BY <2>1, <3>1, SliceNumbers DEF Past, TypeOK
    <3>3. RetryAfter \in 1..(Window + 1)
      BY <3>1, <3>2, LimiterAssumption
    <3>4. \A i \in Valid : grants[Oldest] <= grants[i]
      BY <2>1, <2>5, <3>2, RefusalFacts, SliceNumbers DEF InOrder
    <3>5. /\ ~Abstract!Room
          /\ reply' = [allowed |-> FALSE, retryAfter |-> RetryAfter, at |-> now]
          /\ UNCHANGED <<now, grants>>
      BY <2>0, <2>1, <2>5, FiniteSlice, LimiterAssumption DEF AllowRefuses
    <3>6. Abstract!Refuse
      <4>1. \E first \in Valid, seconds \in 1..(Window + 1) :
              /\ \A i \in Valid : grants[first] <= grants[i]
              /\ (seconds - 1) * Second <= grants[first] + Window - now
              /\ grants[first] + Window - now < seconds * Second
              /\ reply' = [allowed |-> FALSE, retryAfter |-> seconds, at |-> now]
        BY <3>1, <3>3, <3>4, <3>5, Zenon
      <4>2. QED
        BY <2>2, <3>5, <4>1, Zenon DEF Abstract!Refuse
    <3>7. QED
      BY <3>6 DEF Abstract!Next
  <2>6. CASE UNCHANGED vars
    BY <2>6 DEF vars, Abstract!absVars
  <2>7. QED
    BY <2>3, <2>4, <2>5, <2>6 DEF Next, Allow
<1>3. QED
  BY <1>1, <1>2, LimiterInvHolds, PTL
     DEF Spec, ImplementsSlidingWindow, Abstract!Spec
-----------------------------------------------------------------------------
(* The concurrency gate.                                                   *)

(***************************************************************************)
(* The inductive invariant ties the local state of a handler to its stage: *)
(* a slot is held only inside, a limit was read by whoever loops, the      *)
(* value in the loop was below it, and a limit read since the last swap is *)
(* the one in force.                                                       *)
(***************************************************************************)
StageInv ==
  \A r \in Requests :
    /\ acquired[r] => stage[r] = "inside" /\ limit[r] # None
    /\ stage[r] \in {"load", "swap"} => limit[r] # None
    /\ stage[r] = "out" => limit[r] = None
    /\ stage[r] = "inside" /\ ~acquired[r] => limit[r] = None
    /\ stage[r] = "swap" => current[r] < limit[r]
    /\ sinceSwap[r] /\ limit[r] # None => limit[r] = maxConcurrent
    /\ sinceSwap[r] /\ stage[r] = "inside" /\ ~acquired[r] => maxConcurrent <= 0
    /\ sinceSwap[r] => stage[r] # "out"

GateInv == GateTypeOK /\ StageInv /\ SlotAccounting /\ GateHolds

LEMMA FiniteCounts ==
  ASSUME GateTypeOK
  PROVE  /\ IsFiniteSet(Counted) /\ Cardinality(Counted) \in Nat
         /\ IsFiniteSet(LetInNow) /\ Cardinality(LetInNow) \in Nat
<1>1. Counted \in SUBSET Requests /\ LetInNow \in SUBSET Requests
  BY DEF Counted, LetInNow
<1>2. QED
  BY <1>1, GateAssumption, FS_Subset, FS_CardinalityType

(* The requests the limit in force let in all hold a slot. *)
LEMMA LetInIsCounted ==
  ASSUME GateTypeOK, StageInv, maxConcurrent > 0
  PROVE  LetInNow \subseteq Counted
BY DEF LetInNow, Counted, StageInv, GateTypeOK

LEMMA GateTypeOKStep ==
  ASSUME GateTypeOK, StageInv, [GateNext]_gateVars
  PROVE  GateTypeOK'
<1> USE GateAssumption DEF GateTypeOK, Stages
<1>1. ASSUME NEW m \in Limits, Update(m)
      PROVE  GateTypeOK'
  BY <1>1 DEF Update
<1>2. ASSUME NEW r \in Requests, PassUngated(r)
      PROVE  GateTypeOK'
  BY <1>2 DEF PassUngated
<1>3. ASSUME NEW r \in Requests, ReadLimit(r)
      PROVE  GateTypeOK'
  BY <1>3 DEF ReadLimit
<1>4. ASSUME NEW r \in Requests, Reject(r)
      PROVE  GateTypeOK'
  BY <1>4 DEF Reject
<1>5. ASSUME NEW r \in Requests, Load(r)
      PROVE  GateTypeOK'
  BY <1>5 DEF Load
<1>6. ASSUME NEW r \in Requests, SwapSucceeds(r)
      PROVE  GateTypeOK'
  BY <1>6 DEF SwapSucceeds
<1>7. ASSUME NEW r \in Requests, SwapFails(r)
      PROVE  GateTypeOK'
  BY <1>7 DEF SwapFails
<1>8. ASSUME NEW r \in Requests, ReleaseConcurrency(r)
      PROVE  GateTypeOK'
  BY <1>8 DEF ReleaseConcurrency
<1>9. CASE UNCHANGED gateVars
  BY <1>9 DEF gateVars
<1>10. QED
  BY <1>1, <1>2, <1>3, <1>4, <1>5, <1>6, <1>7, <1>8, <1>9
     DEF GateNext, AcquireConcurrency

LEMMA StageInvStep ==
  ASSUME GateTypeOK, StageInv, [GateNext]_gateVars
  PROVE  StageInv'
<1> USE GateAssumption DEF GateTypeOK, Stages, StageInv
<1>1. ASSUME NEW m \in Limits, Update(m)
      PROVE  StageInv'
  BY <1>1 DEF Update
<1>2. ASSUME NEW r \in Requests, PassUngated(r)
      PROVE  StageInv'
  BY <1>2 DEF PassUngated
<1>3. ASSUME NEW r \in Requests, ReadLimit(r)
      PROVE  StageInv'
  BY <1>3 DEF ReadLimit
<1>4. ASSUME NEW r \in Requests, Reject(r)
      PROVE  StageInv'
  BY <1>4 DEF Reject
<1>5. ASSUME NEW r \in Requests, Load(r)
      PROVE  StageInv'
  BY <1>5 DEF Load
<1>6. ASSUME NEW r \in Requests, SwapSucceeds(r)
      PROVE  StageInv'
  BY <1>6 DEF SwapSucceeds
<1>7. ASSUME NEW r \in Requests, SwapFails(r)
      PROVE  StageInv'
  BY <1>7 DEF SwapFails
<1>8. ASSUME NEW r \in Requests, ReleaseConcurrency(r)
      PROVE  StageInv'
  BY <1>8 DEF ReleaseConcurrency
<1>9. CASE UNCHANGED gateVars
  BY <1>9 DEF gateVars
<1>10. QED
  BY <1>1, <1>2, <1>3, <1>4, <1>5, <1>6, <1>7, <1>8, <1>9
     DEF GateNext, AcquireConcurrency

(* Counting in adds one slot, the deferred release removes one, and no     *)
(* other step touches either side.                                         *)
LEMMA SlotAccountingStep ==
  ASSUME GateTypeOK, StageInv, SlotAccounting, [GateNext]_gateVars
  PROVE  SlotAccounting'
<1>1. CASE acquired' = acquired /\ active' = active
  BY <1>1 DEF SlotAccounting, Counted
<1>2. ASSUME NEW r \in Requests, SwapSucceeds(r)
      PROVE  SlotAccounting'
  <2>1. r \notin Counted
    BY <1>2 DEF SwapSucceeds, StageInv, Counted
  <2>2. Counted' = Counted \cup {r}
    BY <1>2 DEF SwapSucceeds, Counted, GateTypeOK
  <2>3. Cardinality(Counted') = Cardinality(Counted) + 1
    BY <2>1, <2>2, FiniteCounts, FS_AddElement
  <2>4. active' = active + 1
    BY <1>2 DEF SwapSucceeds
  <2>5. QED
    BY <2>3, <2>4 DEF SlotAccounting
<1>3. ASSUME NEW r \in Requests, ReleaseConcurrency(r), acquired[r]
      PROVE  SlotAccounting'
  <2>1. r \in Counted
    BY <1>3 DEF Counted
  <2>2. Counted' = Counted \ {r}
    BY <1>3 DEF ReleaseConcurrency, Counted, GateTypeOK
  <2>3. Cardinality(Counted') = Cardinality(Counted) - 1
    BY <2>1, <2>2, FiniteCounts, FS_RemoveElement
  <2>4. active' = active - 1
    BY <1>3 DEF ReleaseConcurrency
  <2>5. QED
    BY <2>3, <2>4 DEF SlotAccounting
<1>4. ASSUME NEW r \in Requests, ReleaseConcurrency(r), ~acquired[r]
      PROVE  SlotAccounting'
  BY <1>1, <1>4 DEF ReleaseConcurrency, GateTypeOK
<1>5. QED
  BY <1>1, <1>2, <1>3, <1>4
     DEF GateNext, AcquireConcurrency, Update, PassUngated, ReadLimit, Reject,
         Load, SwapFails, gateVars

(* Only a successful swap lets a request in under a positive limit, and it *)
(* swaps the counter from below that limit.                                *)
LEMMA GateHoldsStep ==
  ASSUME GateInv, [GateNext]_gateVars, SlotAccounting'
  PROVE  GateHolds'
<1>1. GateTypeOK /\ StageInv /\ SlotAccounting /\ GateHolds
  BY DEF GateInv
<1>2. ASSUME maxConcurrent' = maxConcurrent, LetInNow' \subseteq LetInNow
      PROVE  GateHolds'
  <2>1. Cardinality(LetInNow') <= Cardinality(LetInNow) /\ Cardinality(LetInNow') \in Nat
    BY <1>1, <1>2, FiniteCounts, FS_Subset, FS_CardinalityType
  <2>2. QED
    BY <1>1, <1>2, <2>1, FiniteCounts DEF GateHolds, GateTypeOK
<1>3. ASSUME NEW m \in Limits, Update(m)
      PROVE  GateHolds'
  <2>1. LetInNow' = {}
    BY <1>3 DEF Update, LetInNow
  <2>2. Cardinality(LetInNow') = 0
    BY <2>1, FS_EmptySet
  <2>3. maxConcurrent' \in Int
    BY <1>3, GateAssumption DEF Update
  <2>4. QED
    BY <2>2, <2>3 DEF GateHolds
<1>4. ASSUME NEW r \in Requests, PassUngated(r)
      PROVE  GateHolds'
  BY <1>1, <1>4 DEF PassUngated, GateHolds, GateTypeOK
<1>5. ASSUME NEW r \in Requests, SwapSucceeds(r)
      PROVE  GateHolds'
  <2>1. CASE ~sinceSwap[r]
    BY <1>1, <1>2, <1>5, <2>1 DEF SwapSucceeds, LetInNow, GateTypeOK
  <2>2. CASE sinceSwap[r] /\ maxConcurrent' > 0
    <3>1. limit[r] = maxConcurrent /\ current[r] < limit[r]
      BY <1>1, <1>5, <2>2 DEF SwapSucceeds, StageInv
    <3>2. active' <= maxConcurrent'
      BY <1>1, <1>5, <3>1 DEF SwapSucceeds, GateTypeOK
    <3>3. Cardinality(Counted') <= maxConcurrent'
      BY <3>2 DEF SlotAccounting
    <3>4. GateTypeOK' /\ StageInv'
      BY <1>1, GateTypeOKStep, StageInvStep
    <3>5. LetInNow' \subseteq Counted'
      BY <2>2, <3>4 DEF LetInNow, Counted, StageInv, GateTypeOK
    <3>6. /\ IsFiniteSet(Counted')
          /\ Cardinality(Counted') \in Nat
      <4>1. Counted' \in SUBSET Requests
        BY DEF Counted
      <4>2. QED
        BY <4>1, GateAssumption, FS_Subset, FS_CardinalityType
    <3>7. Cardinality(LetInNow') <= Cardinality(Counted') /\ Cardinality(LetInNow') \in Nat
      BY <3>5, <3>6, FS_Subset, FS_CardinalityType
    <3>8. maxConcurrent' \in Int
      BY <3>4 DEF GateTypeOK
    <3>9. QED
      BY <3>3, <3>6, <3>7, <3>8 DEF GateHolds
  <2>3. QED
    BY <2>1, <2>2 DEF GateHolds
<1>6. ASSUME NEW r \in Requests, ReadLimit(r) \/ Reject(r) \/ Load(r) \/ SwapFails(r)
      PROVE  GateHolds'
  BY <1>1, <1>2, <1>6 DEF ReadLimit, Reject, Load, SwapFails, LetInNow, GateTypeOK
<1>7. ASSUME NEW r \in Requests, ReleaseConcurrency(r)
      PROVE  GateHolds'
  BY <1>1, <1>2, <1>7 DEF ReleaseConcurrency, LetInNow, GateTypeOK
<1>8. CASE UNCHANGED gateVars
  BY <1>1, <1>8 DEF gateVars, GateHolds, LetInNow
<1>9. QED
  BY <1>3, <1>4, <1>5, <1>6, <1>7, <1>8 DEF GateNext, AcquireConcurrency

LEMMA GateInvHolds == GateSpec => []GateInv
<1>1. GateInit => GateInv
  <2> SUFFICES ASSUME GateInit
               PROVE  GateInv
    OBVIOUS
  <2>1. GateTypeOK /\ StageInv
    BY GateAssumption DEF GateInit, GateTypeOK, Stages, StageInv
  <2>2. Counted = {} /\ LetInNow = {}
    BY DEF GateInit, Counted, LetInNow
  <2>3. SlotAccounting /\ GateHolds
    BY <2>1, <2>2, FS_EmptySet DEF GateInit, SlotAccounting, GateHolds, GateTypeOK
  <2>4. QED
    BY <2>1, <2>3 DEF GateInv
<1>2. GateInv /\ [GateNext]_gateVars => GateInv'
  <2> SUFFICES ASSUME GateInv, [GateNext]_gateVars
               PROVE  GateInv'
    OBVIOUS
  <2>1. GateTypeOK' /\ StageInv' /\ SlotAccounting'
    BY GateTypeOKStep, StageInvStep, SlotAccountingStep DEF GateInv
  <2>2. QED
    BY <2>1, GateHoldsStep DEF GateInv
<1>3. QED
  BY <1>1, <1>2, PTL DEF GateSpec
-----------------------------------------------------------------------------
(* No slot leaks and none is given back twice, for any number of handlers, *)
(* any limits and any swaps of them.                                       *)
THEOREM SlotsAccounted == GateSpec => []SlotAccounting
<1>1. GateInv => SlotAccounting
  BY DEF GateInv
<1>2. QED
  BY <1>1, GateInvHolds, PTL

(* The gate holds for every limit: what it let in never exceeds it.        *)
THEOREM GateIsTight == GateSpec => []GateHolds
<1>1. GateInv => GateHolds
  BY DEF GateInv
<1>2. QED
  BY <1>1, GateInvHolds, PTL

(* Every state of the gate is well typed.                                  *)
THEOREM GateTypeCorrect == GateSpec => []GateTypeOK
<1>1. GateInv => GateTypeOK
  BY DEF GateInv
<1>2. QED
  BY <1>1, GateInvHolds, PTL

(* The loop of load and compare-and-swap behaves as an indivisible         *)
(* decision taken on the exact number of requests inside.                  *)
THEOREM GateIsASemaphore == GateSpec => ImplementsSemaphore
<1>1. GateInit => Semaphore!Init
  <2>1. GateInit => Counted = {}
    BY DEF GateInit, Counted
  <2>2. QED
    BY <2>1, FS_EmptySet DEF GateInit, Semaphore!Init
<1>2. GateInv /\ SlotAccounting' /\ [GateNext]_gateVars
        => [Semaphore!Next]_(Semaphore!absVars)
  <2> SUFFICES ASSUME GateInv, SlotAccounting', [GateNext]_gateVars
               PROVE  [Semaphore!Next]_(Semaphore!absVars)
    OBVIOUS
  <2> USE DEF SlotAccounting
  <2>1. GateTypeOK /\ StageInv /\ Cardinality(Counted) = active /\ Cardinality(Counted') = active'
    BY DEF GateInv
  <2>2. CASE UNCHANGED <<active, acquired, limit>>
    BY <2>1, <2>2 DEF Semaphore!absVars
  <2>3. ASSUME NEW r \in Requests, ReadLimit(r)
        PROVE  Semaphore!Arrive(r)
    BY <2>1, <2>3, GateAssumption
       DEF ReadLimit, Semaphore!Arrive, StageInv, GateTypeOK
  <2>4. ASSUME NEW r \in Requests, SwapSucceeds(r)
        PROVE  Semaphore!Enter(r)
    BY <2>1, <2>4 DEF SwapSucceeds, Semaphore!Enter, StageInv, GateTypeOK
  <2>5. ASSUME NEW r \in Requests, Reject(r)
        PROVE  Semaphore!TurnAway(r)
    BY <2>1, <2>5 DEF Reject, Semaphore!TurnAway, StageInv, GateTypeOK
  <2>6. ASSUME NEW r \in Requests, ReleaseConcurrency(r), acquired[r]
        PROVE  Semaphore!Leave(r)
    BY <2>1, <2>6 DEF ReleaseConcurrency, Semaphore!Leave
  <2>7. ASSUME NEW r \in Requests, ReleaseConcurrency(r), ~acquired[r]
        PROVE  UNCHANGED <<active, acquired, limit>>
    BY <2>1, <2>7 DEF ReleaseConcurrency, StageInv, GateTypeOK
  <2>8. QED
    BY <2>2, <2>3, <2>4, <2>5, <2>6, <2>7
       DEF GateNext, AcquireConcurrency, Update, PassUngated, Load, SwapFails,
           gateVars, Semaphore!Next
<1>3. GateInv => SlotAccounting
  BY DEF GateInv
<1>4. QED
  BY <1>1, <1>2, <1>3, GateInvHolds, PTL
     DEF GateSpec, ImplementsSemaphore, Semaphore!Spec
=============================================================================
