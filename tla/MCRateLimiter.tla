---------------------------- MODULE MCRateLimiter ----------------------------
(* Two admissions per window of five ticks, two ticks to the second: the   *)
(* window is not a whole number of seconds, so Retry-After has to round.   *)
EXTENDS RateLimiter
=============================================================================
