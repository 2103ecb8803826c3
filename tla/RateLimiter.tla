----------------------------- MODULE RateLimiter -----------------------------
(***************************************************************************)
(* The sliding-window rate limiter of src/fault.go.  Allow runs as one     *)
(* step because the whole method holds rl.mu, the reading of the clock     *)
(* included.                                                               *)
(*                                                                         *)
(* rl.requests is a slice of timestamps.  Here an entry is the number of   *)
(* the admission that appended it, its timestamp is grants[entry], and the *)
(* order of the slice is the order of the numbers; grants is the history   *)
(* of all admissions and is read only through the entries of `requests`.   *)
(***************************************************************************)
EXTENDS Integers, Sequences, FiniteSets

CONSTANTS
  Rpm,        \* rl.rpm
  Window,     \* 60 s in clock ticks
  Second,     \* clock ticks in one second
  MaxTime     \* bound: the last value of the clock

ASSUME LimiterAssumption ==
  /\ Rpm \in Nat \ {0}
  /\ Window \in Nat \ {0}
  /\ Second \in Nat \ {0}
  /\ MaxTime \in Nat

VARIABLES
  now,        \* time.Now()
  requests,   \* rl.requests, as a set of admission numbers
  grants,     \* history: the time of each admission
  reply       \* what Allow returned last, and when

vars == <<now, requests, grants, reply>>

Init ==
  /\ now = 0
  /\ requests = {}
  /\ grants = << >>
  /\ reply = [allowed |-> TRUE, retryAfter |-> 0, at |-> 0]

\* Mutant: an entry that is exactly 60 s old still counts.
ValidOnBoundary == { i \in requests : grants[i] >= now - Window }

\* The expiry loop: keep the entries with t.After(now - 60 s).
Valid == { i \in requests : grants[i] > now - Window }

\* rl.requests[0] once the expired entries are gone.
Oldest == CHOOSE i \in Valid : \A j \in Valid : i <= j

\* Mutant: whole seconds only.
RetryAfterTruncated ==
  LET seconds == (grants[Oldest] + Window - now) \div Second
  IN  IF seconds < 1 THEN 1 ELSE seconds

\* int(seconds left) + 1, and never below 1.
RetryAfter ==
  LET seconds == (grants[Oldest] + Window - now) \div Second + 1
  IN  IF seconds < 1 THEN 1 ELSE seconds

Tick ==
  /\ now < MaxTime
  /\ now' = now + 1
  /\ UNCHANGED <<requests, grants, reply>>

AllowRefuses ==
  /\ Cardinality(Valid) >= Rpm
  /\ requests' = Valid
  /\ reply' = [allowed |-> FALSE, retryAfter |-> RetryAfter, at |-> now]
  /\ UNCHANGED <<now, grants>>

\* Mutant: off by one.
AllowAdmitsOneMore ==
  /\ Cardinality(Valid) <= Rpm
  /\ grants' = Append(grants, now)
  /\ requests' = Valid \cup {Len(grants) + 1}
  /\ reply' = [allowed |-> TRUE, retryAfter |-> 0, at |-> now]
  /\ UNCHANGED now

AllowAdmits ==
  /\ Cardinality(Valid) < Rpm
  /\ grants' = Append(grants, now)
  /\ requests' = Valid \cup {Len(grants) + 1}
  /\ reply' = [allowed |-> TRUE, retryAfter |-> 0, at |-> now]
  /\ UNCHANGED now

Allow == AllowRefuses \/ AllowAdmits

Next == Tick \/ Allow

Spec == Init /\ [][Next]_vars
-----------------------------------------------------------------------------
TypeOK ==
  /\ now \in Nat
  /\ grants \in Seq(Nat)
  /\ requests \in SUBSET (1..Len(grants))
  /\ reply \in [allowed : BOOLEAN, retryAfter : Nat, at : Nat]

(***************************************************************************)
(* No window of 60 s holds more than rpm admissions, whatever the calls    *)
(* and refusals in between and however late the expired entries are        *)
(* dropped: counting back from any admission, its window holds at most rpm *)
(* of them (RateLimiter.Allow).                                            *)
(***************************************************************************)
WindowBound ==
  \A i \in 1..Len(grants) :
    Cardinality({ j \in 1..i : grants[j] > grants[i] - Window }) <= Rpm

(***************************************************************************)
(* A caller that obeys the Retry-After of its 429 is not refused again     *)
(* merely for being early: if nobody else was admitted meanwhile, the      *)
(* window has room once that many seconds have passed.                     *)
(***************************************************************************)
RetryAfterSuffices ==
  (~reply.allowed /\ now >= reply.at + reply.retryAfter * Second)
    => Cardinality(Valid) < Rpm

\* The code keeps the promise of the abstract limiter, step for step: pruning
\* lazily and answering from the pruned slice never changes an answer.
Abstract == INSTANCE SlidingWindow
ImplementsSlidingWindow == Abstract!Spec
=============================================================================
