------------------------- MODULE MCScenarioRegistry -------------------------
(* Instances of ScenarioRegistry: bodies of POST /admin/scenarios that     *)
(* collide on ids, on models and on both, and some that are invalid.       *)
EXTENDS ScenarioRegistry, TLC

CONSTANTS a, b, m1, m2

Body(i, p, m) ==
  [id |-> i, provider |-> p, model |-> m, surface |-> "", rate_limit_rpm |-> 0,
   max_concurrent |-> 0, output |-> TRUE, tool_use_response |-> FALSE,
   faults_valid |-> TRUE]

Good == Body(a, "openai", m1)

\* Two ids that claim, take over, move between and give up models, and bodies
\* that are refused.
Colliding ==
  {Good, Body(a, "openai", m2), Body(a, "openai", NoModel),
   Body(b, "openai", m1), Body(b, "anthropic", m1),
   [Good EXCEPT !.surface = "messages"], [Good EXCEPT !.provider = "mistral"],
   [Good EXCEPT !.tool_use_response = TRUE], [Good EXCEPT !.faults_valid = FALSE]}
=============================================================================
