---------------------------- MODULE MCArgParser ----------------------------
(***************************************************************************)
(* Instances of ArgParser for TLC.  Flags: f must have a value, o has an   *)
(* optional one, b is boolean (takes none), n is numeric, p takes a        *)
(* name-value pair.                                                        *)
(***************************************************************************)
EXTENDS ArgParser

MCFlag == {"f", "o", "b", "n", "p"}
MCFlagCounter ==
  [f |-> Default(TRUE), o |-> Default(FALSE), b |-> Discrete(0),
   n |-> Default(TRUE), p |-> ValuePair]
MCOptional == {"o"}
MCDigit == {"7"}
MCName == MCFlag \cup {"7", "=", "?"}

Configure(lists, rtl, disallow, unknown, skip) ==
  [takers : lists, rightToLeft : rtl, disallowFlagsAfterArgs : disallow,
   parseUnknownFlagsAsArgs : unknown, skipFlagParsing : skip]
No == {FALSE}

\* Every command line of at most n of the tokens, parsed by each command.
Inputs(commands, tokens, n) ==
  [command : commands, argv : BoundedSeq(tokens, n)]

-----------------------------------------------------------------------------
(* Args mixed with flags *)

MixTokens == {Word, Dash, DashDash, Long("f"), Long("b"), LongEq("f"),
              Short(<<"b", "f">>), Long("?"), Short(<<"?", "b">>)}
MixLists == {<<Default(FALSE), VarArgs(TRUE, TRUE)>>,
             <<Discrete(2)>>,
             <<VarArgs(TRUE, FALSE), Discrete(1)>>,
             <<Matches(1), VarArgs(FALSE, FALSE)>>}
MixCommands == Configure(MixLists, No, No, BOOLEAN, No)
               \cup Configure(MixLists, No, {TRUE}, No, No)
               \cup Configure(MixLists, No, No, No, {TRUE})

(* Clusters of short flags and the values flags take *)

ShortTokens == {Word, NameEq, DashDash, Short(<<"b", "b", "f">>),
                Short(<<"f", "b">>), Short(<<"b", "=">>), Short(<<"o">>),
                Short(<<"p">>), Short(<<"b", "?">>), Short(<<"7", "7">>),
                Short(<<"?">>), Long("p"), Short(<<"f", "=", "b">>)}
ShortCommands == Configure({<<VarArgs(TRUE, TRUE)>>, <<ValuePair>>}, No, BOOLEAN,
                           BOOLEAN, No)

(* Right-to-left binding *)

RtlTokens == {Word, Long("b"), DashDash}
RtlLists == {<<Default(FALSE), Default(FALSE), Discrete(1)>>,
             <<Default(FALSE), Discrete(2)>>,
             <<Default(FALSE), Default(FALSE), Discrete(1), Discrete(2)>>,
             <<Discrete(1), Default(FALSE), Default(FALSE)>>,
             <<Discrete(2), Default(FALSE), Default(FALSE)>>}
RtlCommands == Configure(RtlLists, {TRUE}, BOOLEAN, No, No)

MCInput == Inputs(MixCommands, MixTokens, 3)
           \cup Inputs(ShortCommands, ShortTokens, 3)
           \cup Inputs(RtlCommands, RtlTokens, 5)

-----------------------------------------------------------------------------
(* Command lines which refute the documentation *)

DocInput ==
  Inputs(Configure({<<Default(FALSE), Default(FALSE)>>}, No, No, BOOLEAN, No),
         {Word, Dash, Long("b"), LongEq("?")}, 3)
=============================================================================
