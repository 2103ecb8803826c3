------------------------------ MODULE Semaphore ------------------------------
(***************************************************************************)
(* What max_concurrent promises: looking at the number of counted requests *)
(* and entering, or being turned away, is one indivisible decision.  The   *)
(* bound a request is judged by may be out of date when it is used, since  *)
(* the configuration can be swapped at any time; the count never is.       *)
(***************************************************************************)
EXTENDS Integers

CONSTANTS
  Requests,
  None        \* no bound has been read

VARIABLES
  count,      \* counted requests inside
  inside,     \* inside[r]: r was counted and has not left
  bound       \* bound[r]: the bound r is judged by, or None

absVars == <<count, inside, bound>>

Init ==
  /\ count = 0
  /\ inside = [r \in Requests |-> FALSE]
  /\ bound = [r \in Requests |-> None]

\* Some positive bound, whichever is in force, is read.
Arrive(r) ==
  /\ ~inside[r]
  /\ bound[r] = None
  /\ bound'[r] \in Nat \ {0}
  /\ bound' = [bound EXCEPT ![r] = bound'[r]]
  /\ UNCHANGED <<count, inside>>

Enter(r) ==
  /\ ~inside[r]
  /\ bound[r] # None
  /\ count < bound[r]
  /\ count' = count + 1
  /\ inside' = [inside EXCEPT ![r] = TRUE]
  /\ UNCHANGED bound

TurnAway(r) ==
  /\ ~inside[r]
  /\ bound[r] # None
  /\ count >= bound[r]
  /\ bound' = [bound EXCEPT ![r] = None]
  /\ UNCHANGED <<count, inside>>

Leave(r) ==
  /\ inside[r]
  /\ count' = count - 1
  /\ inside' = [inside EXCEPT ![r] = FALSE]
  /\ bound' = [bound EXCEPT ![r] = None]

Next == \E r \in Requests : Arrive(r) \/ Enter(r) \/ TurnAway(r) \/ Leave(r)

Spec == Init /\ [][Next]_absVars
=============================================================================
