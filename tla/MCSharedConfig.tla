---------------------------- MODULE MCSharedConfig ----------------------------
(* Instances of SharedConfig: overlays that fit into the memory of the      *)
(* original, outgrow it, leave it, or are refused after they were decoded.  *)
EXTENDS SharedConfig, TLC

CONSTANT flaky

Fault(m, s) == [mode |-> m, status |-> s]
Overlay(f, v) == [faults |-> f, validate |-> v, mistyped |-> FALSE]

StartContents ==
  [p \in {flaky, Startup} |->
     [faults |-> <<Fault("error", IF p = flaky THEN 503 ELSE 500)>>, validate |-> FALSE]]

StartHome ==
  [p \in {flaky, Startup} |-> IF p = flaky THEN [faults |-> 1, validate |-> 2]
                              ELSE [faults |-> 3, validate |-> 4]]

Symmetry == Permutations(Requests)

FamilyNames == {flaky, Startup} \cup {"a", "b"}

Overlays ==
  { Overlay(<<[status |-> 429], [mode |-> "disconnect"]>>, Absent),
    [Overlay(<< >>, TRUE) EXCEPT !.mistyped = TRUE] }

\* A scenario that is its preset and no more, and a header that changes one
\* knob of one fault.
Nothing == { Overlay(Absent, Absent) }
NewStatus == { Overlay(<<[status |-> 429]>>, Absent) }
=============================================================================
