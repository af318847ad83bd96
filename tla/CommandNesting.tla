--------------------------- MODULE CommandNesting ---------------------------
(***************************************************************************)
(* What executing an app promises about its commands: they are entered     *)
(* from the app downwards, each inside the one before; one of them, the    *)
(* innermost, acts; only then are they left again, innermost first.  An    *)
(* error abandons all of them where they are.                              *)
(***************************************************************************)
EXTENDS Integers

CONSTANT Depth     \* how many commands can be nested

VARIABLES
  open,            \* how many commands are entered and not left
  acted,           \* the level of the command whose Action ran, or 0
  verdict          \* "running", "done" or "failed"

vars == <<open, acted, verdict>>

Init == open = 0 /\ acted = 0 /\ verdict = "running"

Enter ==
  /\ verdict = "running" /\ acted = 0 /\ open < Depth
  /\ open' = open + 1
  /\ UNCHANGED <<acted, verdict>>

Act ==
  /\ verdict = "running" /\ acted = 0 /\ open > 0
  /\ acted' = open
  /\ UNCHANGED <<open, verdict>>

Leave ==
  /\ verdict = "running" /\ acted # 0 /\ open > 0
  /\ open' = open - 1
  /\ verdict' = IF open' = 0 THEN "done" ELSE verdict
  /\ UNCHANGED acted

Abandon ==
  /\ verdict = "running"
  /\ open' = 0
  /\ acted' \in {acted} \cup IF acted = 0 THEN {open} ELSE {}
  /\ verdict' = "failed"

Next == Enter \/ Act \/ Leave \/ Abandon

Spec == Init /\ [][Next]_vars
=============================================================================
