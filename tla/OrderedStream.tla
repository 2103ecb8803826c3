---------------------------- MODULE OrderedStream ----------------------------
(***************************************************************************)
(* What the client of any stream surface may rely on: the frames of the    *)
(* response reach it in order, none missing in between and none twice,     *)
(* possibly several at once, until the response is closed; after that      *)
(* nothing comes.                                                          *)
(***************************************************************************)
EXTENDS Naturals, Sequences

VARIABLES
  script,      \* the frames of the complete response
  delivered,   \* those that have reached the connection
  open         \* the response is not closed

vars == <<script, delivered, open>>

Init == delivered = << >> /\ open = TRUE

Deliver ==
  /\ open
  /\ \E n \in 1..Len(script) :
       Len(delivered) < n /\ delivered' = SubSeq(script, 1, n)
  /\ open' \in BOOLEAN
  /\ UNCHANGED script

Close ==
  /\ open
  /\ open' = FALSE
  /\ UNCHANGED <<script, delivered>>

Next == Deliver \/ Close

Spec == Init /\ [][Next]_vars
=============================================================================
