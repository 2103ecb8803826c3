---------------------------- MODULE SlidingWindow ----------------------------
(***************************************************************************)
(* What a rate limiter promises, with no hint of how it keeps its promise: *)
(* a call is admitted exactly when fewer than Rpm calls were admitted in   *)
(* the last Window of time, and a refused caller is told the least whole   *)
(* number of seconds that is longer than the wait.  RateLimiter.tla models *)
(* the code of src/fault.go and is shown to implement this specification.  *)
(***************************************************************************)
EXTENDS Integers, Sequences

CONSTANTS
  Rpm,        \* admissions allowed in one window
  Window,     \* length of the window in clock ticks (60 s in the code)
  Second,     \* clock ticks in one second
  MaxTime     \* bound: the last value of the clock

VARIABLES
  now,        \* the clock
  grants,     \* the times of all admissions so far, oldest first
  reply       \* the answer given last: [allowed, retryAfter, at]

absVars == <<now, grants, reply>>

Replies == [allowed : BOOLEAN, retryAfter : Nat, at : Nat]

\* The admissions of the half-open window that ends at time t.
InWindow(t) == { i \in 1..Len(grants) : grants[i] > t - Window }

\* Fewer than Rpm admissions in the window: the last but Rpm-1 has left it.
Room ==
  \/ Len(grants) < Rpm
  \/ grants[Len(grants) - Rpm + 1] <= now - Window

Init ==
  /\ now = 0
  /\ grants = << >>
  /\ reply = [allowed |-> TRUE, retryAfter |-> 0, at |-> 0]

Tick ==
  /\ now < MaxTime
  /\ now' = now + 1
  /\ UNCHANGED <<grants, reply>>

Admit ==
  /\ Room
  /\ grants' = Append(grants, now)
  /\ reply' = [allowed |-> TRUE, retryAfter |-> 0, at |-> now]
  /\ UNCHANGED now

\* The caller that waits `seconds` comes back after the first admission of the
\* window has left it; one second less would not do unless the two coincide.
Refuse ==
  /\ ~Room
  /\ \E first \in InWindow(now), seconds \in 1..(Window + 1) :
       /\ \A i \in InWindow(now) : grants[first] <= grants[i]
       /\ (seconds - 1) * Second <= grants[first] + Window - now
       /\ grants[first] + Window - now < seconds * Second
       /\ reply' = [allowed |-> FALSE, retryAfter |-> seconds, at |-> now]
  /\ UNCHANGED <<now, grants>>

Next == Tick \/ Admit \/ Refuse

Spec == Init /\ [][Next]_absVars
=============================================================================
