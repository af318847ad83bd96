-------------------------- MODULE MCOptionValues --------------------------
(***************************************************************************)
(* An app with a sub-command; up to two occurrences of the option at each  *)
(* level.  "d" is only ever the default, so that it can be told            *)
(* from what was given.                                                    *)
(***************************************************************************)
EXTENDS OptionValues

MCWord == {"a", "b", "c", "d", "e", "f", "bad", "blank", "o"}
MCOptionalValue == <<"o">>

Default == {<<>>, <<"d">>}
Implied == {<<>>, <<"e">>, <<"e", "f">>, <<"bad", "f">>}
Occurrence == {<<>>, <<<<"a">>>>, <<<<"blank">>>>, <<<<"bad">>>>,
               <<<<"a">>, <<"b">>>>, <<<<"a">>, <<"blank">>>>}

\* Flags take one word per occurrence.
FlagCase ==
  {c \in [kind : {"scalar", "string", "list"}, default : Default,
          merge : {"no", "explicit"}, each : BOOLEAN, transform : {FALSE},
          impliedAction : BOOLEAN, implied : Implied, hook : {"c", NoWord},
          given : [Level -> Occurrence]] :
     c.kind = "scalar" => c.merge = "no"}

TransformCase ==
  {[c EXCEPT !.transform = TRUE] :
     c \in {f \in FlagCase : /\ f.implied = <<>> /\ f.hook = NoWord
                             /\ \A k \in Level : \A m \in DOMAIN f.given[k] : f.given[k][m] # <<"blank">>}}

\* Args belong to one command; each of their words is an occurrence.
ArgCase ==
  [kind : {"string"}, default : Default, merge : {"implicit"}, each : BOOLEAN,
   transform : {FALSE}, impliedAction : BOOLEAN, implied : Implied, hook : {NoWord},
   given : {[k \in Level |-> IF k = 1 THEN g ELSE <<>>] : g \in {<<>>, <<<<"a">>>>, <<<<"a">>, <<"b">>>>}}]

MCCase == FlagCase \cup TransformCase \cup ArgCase

=============================================================================
