---------------------------- MODULE ArgCounters ----------------------------
(***************************************************************************)
(* Tokens of the command line and the arg counters which decide how many   *)
(* of them an arg or a flag takes.  A token keeps only what the parser     *)
(* tells apart; a counter is the record of its Go fields.                  *)
(***************************************************************************)
EXTENDS Integers, Sequences

(* Tokens *)

Word     == [k |-> "word"]                       \* also the empty string
NameEq   == [k |-> "pair"]                       \* a word such as a=b
Dash     == [k |-> "dash"]                       \* -
DashDash == [k |-> "dashdash"]                   \* --
Long(f)  == [k |-> "long", name |-> f, hasValue |-> FALSE]    \* --f
LongEq(f) == [k |-> "long", name |-> f, hasValue |-> TRUE]    \* --f=v
Short(chars) == [k |-> "short", chars |-> chars] \* -abc, a sequence of letters

\* arg[0] == '-'
StartsWithDash(tok) == tok.k \in {"dash", "dashdash", "long", "short"}

\* A solitary dash is treated as if an argument.
allowFlag(tok, possibleFlag) ==
  possibleFlag /\ StartsWithDash(tok) /\ tok.k # "dash"

-----------------------------------------------------------------------------
(* Counters *)

Discrete(n) == [kind |-> "discrete", count |-> n, total |-> n]
Default(requireSeen) ==
  [kind |-> "default", seen |-> FALSE, requireSeen |-> requireSeen]
VarArgs(stopOnFlags, intersperse) ==
  [kind |-> "varargs", stopOnFlags |-> stopOnFlags, intersperse |-> intersperse]
Matches(max) == [kind |-> "matches", count |-> 0, max |-> max]
ValuePair == [kind |-> "pair", count |-> 0]

\* ArgCount: the counter for a number of args.
ArgCount(n) ==
  CASE n > 0 -> Discrete(n)
    [] n = 0 -> Default(FALSE)
    [] OTHER -> VarArgs(n \in {-2, -3}, n = -3)

\* How a counter answers: "ok", the soft error "end" which lets the next
\* counter try, or an error which stops the binding.
Answer(res, counter) == [res |-> res, counter |-> counter]

TakeDiscrete(c) ==
  IF c.count = 0 THEN Answer("end", c)
  ELSE Answer("ok", [c EXCEPT !.count = @ - 1])

TakeDefault(c) ==
  IF c.seen THEN Answer("end", c) ELSE Answer("ok", [c EXCEPT !.seen = TRUE])

TakeVarArgs(c, tok, possibleFlag) ==
  Answer(IF c.stopOnFlags /\ allowFlag(tok, possibleFlag)
         THEN IF c.intersperse THEN "cannotUseFlag" ELSE "end"
         ELSE "ok", c)

\* The function of a matchesArgsCounter is taken to accept plain words.
TakeMatches(c, tok) ==
  Answer(IF tok = Word /\ c.count < c.max THEN "ok" ELSE "end",
         [c EXCEPT !.count = @ + 1])

TakeValuePair(c, tok, possibleFlag) ==
  IF possibleFlag /\ StartsWithDash(tok) THEN Answer("end", c)
  ELSE CASE c.count = 0 ->
              Answer("ok", [c EXCEPT !.count = IF tok = NameEq THEN 2 ELSE 1])
         [] c.count = 1 -> Answer("ok", [c EXCEPT !.count = 2])
         [] c.count = 2 -> Answer("end", [c EXCEPT !.count = 3])
         [] OTHER -> Answer("tooMany", c)

Take(c, tok, possibleFlag) ==
  CASE c.kind = "discrete" -> TakeDiscrete(c)
    [] c.kind = "default"  -> TakeDefault(c)
    [] c.kind = "varargs"  -> TakeVarArgs(c, tok, possibleFlag)
    [] c.kind = "matches"  -> TakeMatches(c, tok)
    [] c.kind = "pair"     -> TakeValuePair(c, tok, possibleFlag)

\* Done() reports no error.
DoneDiscrete(c) == c.count <= 0
DoneDefault(c) == c.requireSeen => c.seen

Done(c) ==
  CASE c.kind = "discrete" -> DoneDiscrete(c)
    [] c.kind = "default"  -> DoneDefault(c)
    [] c.kind = "pair"     -> c.count # 0
    [] OTHER -> TRUE
=============================================================================
