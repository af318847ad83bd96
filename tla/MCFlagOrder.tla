---------------------------- MODULE MCFlagOrder ----------------------------
(***************************************************************************)
(* Instances of FlagOrder for TLC.                                         *)
(***************************************************************************)
EXTENDS FlagOrder

\* No name, one, the same one twice, or two different ones of which the first
\* may be a flag of an ancestor.
MCNames ==
  LET names == Flag \cup {ArgName, AncestorName, MissingName, EmptyName}
  IN  {<<>>} \cup {<<n>> : n \in names} \cup {<<f, f>> : f \in Flag}
      \cup {<<f, g>> : f, g \in Flag} \cup {<<AncestorName, f>> : f \in Flag}

MCClass == -1 .. 1
=============================================================================
