---------------------------- MODULE MCLifecycle ----------------------------
(***************************************************************************)
(* Instances of Lifecycle for TLC: an app with flag g, a command with flag *)
(* h and a command with arg a, nested in each other.                       *)
(***************************************************************************)
EXTENDS Lifecycle

MCLocalFlags == <<<<"g">>, <<"h">>, <<>>>>
MCLocalArgs == <<<<"sub">>, <<"dom">>, <<"a">>>>

\* What can be given at a level, and the arg which invokes the next command.
Givable == <<{"g"}, {"g", "h"}, {"g", "h", "a"}>>

\* A command line which names n commands after the app; the last of these is
\* found, missing, or the handler for missing commands deals with it.
Line(given, n, last) ==
  [given |-> [k \in Level |->
      IF k <= n THEN given[k] \cup {MCLocalArgs[k][1]}
      ELSE IF k = n + 1 /\ last = "found" THEN given[k] ELSE {}],
   invoke |-> [k \in Level |-> IF k = n THEN last ELSE "found"]]

Given == {<<x, y, z>> : x \in SUBSET Givable[1], y \in SUBSET Givable[2],
                        z \in SUBSET Givable[3]}

Lines == {Line(given, n, last) : given \in Given, n \in 0 .. Depth - 1,
                                 last \in {"found", "skip", "missing"}}

WithOptions(lines, nonPersistent, appliesTo, required, implied) ==
  {[nonPersistent |-> np, appliesIn |-> [f \in Flag |-> IF f = "g" THEN on ELSE Level],
    required |-> req, implied |-> imp, given |-> line.given, invoke |-> line.invoke] :
     line \in lines, np \in nonPersistent, on \in appliesTo,
     req \in required, imp \in implied}

MCCase ==
  WithOptions(Lines, {{}, {"g"}, {"g", "h"}}, {Level, {1}, {2, 3}, {3}, {}},
              {{}}, {{}, {"g"}})
  \cup
  WithOptions(Lines, {{}}, {Level}, {{"g"}, {"h"}, {"a"}, {"g", "h", "a"}},
              {{}, {"h", "a"}})
=============================================================================
