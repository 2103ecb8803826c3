-------------------------- MODULE MCConcurrencyGate --------------------------
(* Three handlers at a gate whose limit is swapped between "no limit", one *)
(* and two: full, half empty, and requests inside from before the swap.    *)
EXTENDS ConcurrencyGate
=============================================================================
