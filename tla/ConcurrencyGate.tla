--------------------------- MODULE ConcurrencyGate ---------------------------
(***************************************************************************)
(* The max_concurrent gate of one provider (src/state.go): a handler reads *)
(* the configured limit under the read lock, then counts itself in with a  *)
(* load and compare-and-swap loop on an atomic counter that no lock        *)
(* protects, while admin requests swap the configuration.  A limit of 0    *)
(* lets requests through uncounted.                                        *)
(*                                                                         *)
(* A request identity r stands for one handler goroutine at a time; once   *)
(* its response is over the identity arrives again.                        *)
(***************************************************************************)
EXTENDS Integers, FiniteSets

CONSTANTS
  Requests,     \* handler goroutines
  Limits,       \* values of max_concurrent the configurations use
  None          \* no limit read

ASSUME GateAssumption ==
  /\ IsFiniteSet(Requests)
  /\ Limits \subseteq Int
  /\ None \notin Int

VARIABLES
  maxConcurrent,  \* cfg.MaxConcurrent of the provider
  active,         \* the provider's active counter (openaiActive, ...)
  stage,          \* where the handler is: Stages
  limit,          \* the limit AcquireConcurrency read
  current,        \* the value its loop loaded last
  acquired,       \* AcquireConcurrency returned (true, true)
  sinceSwap       \* history: the limit r was let in by is still configured

gateVars == <<maxConcurrent, active, stage, limit, current, acquired, sinceSwap>>

Stages == {"out", "load", "swap", "inside"}

GateInit ==
  /\ maxConcurrent \in Limits
  /\ active = 0
  /\ stage = [r \in Requests |-> "out"]
  /\ limit = [r \in Requests |-> None]
  /\ current = [r \in Requests |-> 0]
  /\ acquired = [r \in Requests |-> FALSE]
  /\ sinceSwap = [r \in Requests |-> FALSE]

\* POST /admin/config and /admin/reset put another limit in place; the counter
\* and the requests inside are left as they are.
Update(m) ==
  /\ maxConcurrent' = m
  /\ sinceSwap' = [r \in Requests |-> FALSE]
  /\ UNCHANGED <<active, stage, limit, current, acquired>>

\* AcquireConcurrency reads the limit; with none configured it lets the request
\* in without counting it.
PassUngated(r) ==
  /\ stage[r] = "out"
  /\ maxConcurrent <= 0
  /\ stage' = [stage EXCEPT ![r] = "inside"]
  /\ sinceSwap' = [sinceSwap EXCEPT ![r] = TRUE]
  /\ UNCHANGED <<maxConcurrent, active, limit, current, acquired>>

ReadLimit(r) ==
  /\ stage[r] = "out"
  /\ maxConcurrent > 0
  /\ limit' = [limit EXCEPT ![r] = maxConcurrent]
  /\ stage' = [stage EXCEPT ![r] = "load"]
  /\ sinceSwap' = [sinceSwap EXCEPT ![r] = TRUE]
  /\ UNCHANGED <<maxConcurrent, active, current, acquired>>

\* counter.Load(), and the 503 when the gate is full.
Reject(r) ==
  /\ stage[r] = "load"
  /\ active >= limit[r]
  /\ stage' = [stage EXCEPT ![r] = "out"]
  /\ limit' = [limit EXCEPT ![r] = None]
  /\ sinceSwap' = [sinceSwap EXCEPT ![r] = FALSE]
  /\ UNCHANGED <<maxConcurrent, active, current, acquired>>

\* Mutants: the limit itself is let in; the value loaded is the one to store.
LoadAtLimit(r) ==
  /\ stage[r] = "load"
  /\ active <= limit[r]
  /\ current' = [current EXCEPT ![r] = active]
  /\ stage' = [stage EXCEPT ![r] = "swap"]
  /\ UNCHANGED <<maxConcurrent, active, limit, acquired, sinceSwap>>

LoadIncremented(r) ==
  /\ stage[r] = "load"
  /\ active < limit[r]
  /\ current' = [current EXCEPT ![r] = active + 1]
  /\ stage' = [stage EXCEPT ![r] = "swap"]
  /\ UNCHANGED <<maxConcurrent, active, limit, acquired, sinceSwap>>

Load(r) ==
  /\ stage[r] = "load"
  /\ active < limit[r]
  /\ current' = [current EXCEPT ![r] = active]
  /\ stage' = [stage EXCEPT ![r] = "swap"]
  /\ UNCHANGED <<maxConcurrent, active, limit, acquired, sinceSwap>>

\* Mutant: counter.Add(1) in place of the compare-and-swap.
AddBlindly(r) ==
  /\ stage[r] = "swap"
  /\ active' = active + 1
  /\ stage' = [stage EXCEPT ![r] = "inside"]
  /\ acquired' = [acquired EXCEPT ![r] = TRUE]
  /\ UNCHANGED <<maxConcurrent, limit, current, sinceSwap>>

\* counter.CompareAndSwap(current, current+1)
SwapSucceeds(r) ==
  /\ stage[r] = "swap"
  /\ active = current[r]
  /\ active' = current[r] + 1
  /\ stage' = [stage EXCEPT ![r] = "inside"]
  /\ acquired' = [acquired EXCEPT ![r] = TRUE]
  /\ UNCHANGED <<maxConcurrent, limit, current, sinceSwap>>

SwapFails(r) ==
  /\ stage[r] = "swap"
  /\ active # current[r]
  /\ stage' = [stage EXCEPT ![r] = "load"]
  /\ UNCHANGED <<maxConcurrent, active, limit, current, acquired, sinceSwap>>

\* The handler returns (or panics): the deferred ReleaseConcurrency runs when
\* the request was counted.
ReleaseConcurrency(r) ==
  /\ stage[r] = "inside"
  /\ active' = IF acquired[r] THEN active - 1 ELSE active
  /\ acquired' = [acquired EXCEPT ![r] = FALSE]
  /\ stage' = [stage EXCEPT ![r] = "out"]
  /\ limit' = [limit EXCEPT ![r] = None]
  /\ current' = [current EXCEPT ![r] = 0]
  /\ sinceSwap' = [sinceSwap EXCEPT ![r] = FALSE]
  /\ UNCHANGED maxConcurrent

AcquireConcurrency(r) ==
  \/ PassUngated(r)
  \/ ReadLimit(r)
  \/ Reject(r)
  \/ Load(r)
  \/ SwapSucceeds(r)
  \/ SwapFails(r)

GateNext ==
  \/ \E m \in Limits : Update(m)
  \/ \E r \in Requests : AcquireConcurrency(r) \/ ReleaseConcurrency(r)

GateSpec == GateInit /\ [][GateNext]_gateVars
-----------------------------------------------------------------------------
GateTypeOK ==
  /\ maxConcurrent \in Int
  /\ active \in Int
  /\ stage \in [Requests -> Stages]
  /\ limit \in [Requests -> (Nat \ {0}) \cup {None}]
  /\ current \in [Requests -> Int]
  /\ acquired \in [Requests -> BOOLEAN]
  /\ sinceSwap \in [Requests -> BOOLEAN]

\* The requests that hold a slot, and those the current limit let in.
Counted == { r \in Requests : acquired[r] }
LetInNow == { r \in Requests : stage[r] = "inside" /\ sinceSwap[r] }

(***************************************************************************)
(* The counter is exactly the number of requests that were counted in and  *)
(* are not over: no path leaks a slot or gives one back twice, whatever    *)
(* the limit was swapped to in between (AcquireConcurrency,                *)
(* ReleaseConcurrency).  In particular it is never negative.               *)
(***************************************************************************)
SlotAccounting == active = Cardinality(Counted)

(***************************************************************************)
(* The gate does its work in spite of the unlocked counter: the requests   *)
(* let in by the limit now in force are at most that many, with others     *)
(* admitted under earlier limits, or uncounted, still inside.              *)
(***************************************************************************)
GateHolds == maxConcurrent > 0 => Cardinality(LetInNow) <= maxConcurrent

\* The loop of load and compare-and-swap decides as if it were one step.
Semaphore == INSTANCE Semaphore
  WITH count <- Cardinality(Counted), inside <- acquired, bound <- limit
ImplementsSemaphore == Semaphore!Spec

(***************************************************************************)
(* Scheduling: a goroutine in the loop is run.  Nothing is assumed of the  *)
(* requests inside, which a stalled response may hold there for ever.      *)
(***************************************************************************)
Fairness ==
  \A r \in Requests :
    WF_gateVars(Load(r) \/ Reject(r) \/ SwapSucceeds(r) \/ SwapFails(r))

GateFairSpec == GateSpec /\ Fairness

InLoop(r) == stage[r] \in {"load", "swap"}

(***************************************************************************)
(* The loop is lock-free: when every request is contending in it, with     *)
(* nobody inside to leave, some request is decided.  Failed swaps cannot   *)
(* go on for ever (AcquireConcurrency).                                    *)
(***************************************************************************)
LoopDecides ==
  (\A r \in Requests : InLoop(r)) ~> (\E r \in Requests : ~InLoop(r))
=============================================================================
