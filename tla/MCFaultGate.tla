----------------------------- MODULE MCFaultGate -----------------------------
(* Instances of FaultGate: small configurations that meet every branch of  *)
(* the gate, with one provider and at most one scenario.                   *)
EXTENDS FaultGate, TLC

Plain ==
  [rate_limit_rpm |-> 0, fail_first_n |-> 0, error_rate |-> 0, timeout_ms |-> 0,
   latency_ms |-> 0, faults |-> << >>, attempt_faults |-> << >>]

FailOne == [Plain EXCEPT !.fail_first_n = 1]
RateOne == [Plain EXCEPT !.rate_limit_rpm = 1]

RateTwo == [Plain EXCEPT !.rate_limit_rpm = 2]

\* Attempt 1 is answered with an error, attempt 2 served late.
Slow == [RateTwo EXCEPT !.latency_ms = 1, !.attempt_faults = << <<"error">> >>]

\* Behind a limiter, errors by chance; attempt 2 ends in a timeout.
Unlucky ==
  [RateOne EXCEPT !.error_rate = 50, !.timeout_ms = 1,
                  !.attempt_faults = << <<"non_json_body">> >>]

\* Without a limiter, every request ends in an error.
Failing == [Plain EXCEPT !.error_rate = 100]

\* Attempt 1 meets a typo; attempt 2 is delayed and cut.
Cuts ==
  [Plain EXCEPT !.faults = <<"stall">>,
                !.attempt_faults = << <<"delay", "eror">>, <<"delay", "disconnect">> >>]

\* Every kind of fault, rates, timeouts, latencies and clients that leave,
\* and fail_first_n, which a header asks for, across resets and swaps from a
\* limiter to one with a higher rate, the same rate or to none.
GateConfigs == {Slow, Unlucky, Failing}
GateScenario == [s \in Scenarios |-> Cuts]
GateHeaders == {NoHeader, BadHeader, [fail_first_n |-> 1, rate_limit_rpm |-> 5]}

\* Two configurations and their requests alone.
CountConfigs == {Plain, FailOne}
CountScenario == [s \in Scenarios |-> FailOne]
CountHeaders == {NoHeader, BadHeader}

\* A header that names a rate against a provider that has a limiter.
LimitConfigs == {RateOne, Plain}
LimitScenario == [s \in Scenarios |-> Plain]
BypassHeaders == {NoHeader, [rate_limit_rpm |-> 0]}
=============================================================================
