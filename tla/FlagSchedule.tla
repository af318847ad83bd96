---------------------------- MODULE FlagSchedule ----------------------------
(***************************************************************************)
(* What ordering the flags of a command promises: flags are emitted one at *)
(* a time, a flag only once everything it depends upon has been emitted,   *)
(* and emission stops exactly when no further flag can be emitted.  The    *)
(* ordering is "complete" when every flag was emitted and "cyclic"         *)
(* otherwise.  Which of the ready flags is emitted is left open here;      *)
(* module FlagOrder resolves that choice.                                  *)
(***************************************************************************)
EXTENDS Integers, Sequences

CONSTANT Flag      \* the flags of one command

VARIABLES
  deps,            \* deps[f]: the flags f depends upon
  emitted,         \* the flags emitted so far, in order
  outcome          \* "running", "complete", "cyclic" or "skipped"

vars == <<deps, emitted, outcome>>

Emitted == {emitted[k] : k \in 1 .. Len(emitted)}

\* The flags which may be emitted next.
Ready == {f \in Flag \ Emitted : deps[f] \subseteq Emitted}

Init ==
  /\ deps \in [Flag -> SUBSET Flag]
  /\ emitted = <<>>
  /\ outcome = "running"

Emit ==
  /\ outcome = "running"
  /\ \E f \in Ready : emitted' = Append(emitted, f)
  /\ UNCHANGED <<deps, outcome>>

Stop ==
  /\ outcome = "running"
  /\ Ready = {}
  /\ outcome' = IF Emitted = Flag THEN "complete" ELSE "cyclic"
  /\ UNCHANGED <<deps, emitted>>

\* Nothing asks for an order, or a dependency is refused: no flag is emitted.
Skip ==
  /\ outcome = "running"
  /\ emitted = <<>>
  /\ outcome' = "skipped"
  /\ UNCHANGED <<deps, emitted>>

Next == Emit \/ Stop \/ Skip

Spec == Init /\ [][Next]_vars
=============================================================================
