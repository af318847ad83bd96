----------------------------- MODULE ArgParser -----------------------------
(***************************************************************************)
(* RawParse: binds the tokens of a command line to the positional args and *)
(* flags of one command.  One action is one turn of a loop of the parser;  *)
(* argv is the command line without the program name, which the callers    *)
(* always skip.  An occurrence in outputs is one call of appendOutput.     *)
(***************************************************************************)
EXTENDS ArgCounters, SequencesExt

CONSTANTS
  Flag,           \* names of the flags, also their letters
  FlagCounter,    \* FlagCounter[f]: a fresh counter of flag f
  Optional,       \* the flags which may be given without their value
  Numeric,        \* the flag which -NUM stands for, or NoFlag
  NoFlag,
  Digit,          \* letters which strconv.Atoi accepts
  Equals,         \* the letter =
  Name,           \* names of long flags and letters on a command line
  Input           \* command lines with the command which parses them

\* Counters of the args as they are created.
TakerType ==
  {Default(FALSE), VarArgs(TRUE, TRUE), VarArgs(TRUE, FALSE), VarArgs(FALSE, FALSE),
   ValuePair}
  \cup [kind : {"discrete"}, count : Nat, total : Nat]
  \cup [kind : {"matches"}, count : {0}, max : Nat]

CommandType ==
  [takers : Seq(TakerType),
   rightToLeft : BOOLEAN, disallowFlagsAfterArgs : BOOLEAN,
   parseUnknownFlagsAsArgs : BOOLEAN, skipFlagParsing : BOOLEAN]

TokenType ==
  {Word, NameEq, Dash, DashDash}
  \cup [k : {"long"}, name : Name, hasValue : BOOLEAN]
  \cup [k : {"short"}, chars : Seq(Name) \ {<<>>}]

\* Only Flag.actualArgCounter sets requireSeen, for a flag which is not optional.
ASSUME FlagAssumption ==
  /\ Optional \subseteq Flag /\ Numeric \in Flag \cup {NoFlag}
  /\ NoFlag \notin Flag /\ Flag \cap (Digit \cup {Equals}) = {}
  /\ \A f \in Optional : FlagCounter[f] # Default(TRUE)
ASSUME InputAssumption == Input \subseteq [command : CommandType, argv : Seq(TokenType)]

VARIABLES
  command,        \* configuration of the command, chosen initially
  argv,           \* the command line, chosen initially
  pc,             \* which loop of the parser runs, or how it ended
  state,          \* "flagsOrArgs", "didPushbackArg" or "argsOnly"
  args,           \* the tokens not yet popped, each with its position
  arg,            \* the token in hand
  letter,         \* the letter being handled in a cluster of short flags
  anyArgs,        \* an arg was followed by a further token
  index,          \* index of the positional arg being filled
  takers,         \* the counters of the positional args
  outputs,        \* occurrences appended so far
  separators      \* positions of -- which ended an arg or flag parsing

input == <<command, argv>>
binding == <<index, takers>>
vars == <<command, argv, pc, state, args, arg, letter, anyArgs, index, takers,
          outputs, separators>>

\* Defect: positions off by one.
TokensFromZero(line) == [i \in 1 .. Len(line) |-> [pos |-> i - 1, tok |-> line[i]]]
Tokens(line) == [i \in 1 .. Len(line) |-> [pos |-> i, tok |-> line[i]]]
NoToken == [pos |-> 0, tok |-> Word]

\* An occurrence: of an arg (name is its index, flagAt is 0) or of a flag
\* (flagAt is the position of the token which names it and letters counts the
\* letters of a cluster it uses up).
ArgOccurrence(i, t) ==
  [name |-> i, flagAt |-> 0, letters |-> 0, values |-> <<t>>]
FlagOccurrence(f, at, letters, values) ==
  [name |-> f, flagAt |-> at, letters |-> letters, values |-> values]

-----------------------------------------------------------------------------
(* argBinding and argList *)

current == IF index <= Len(takers) THEN <<takers[index]>> ELSE <<>>
CurrentDone == \A k \in DOMAIN current : Done(current[k])

\* argBinding.SetArg: counters which answer with a soft error are passed over;
\* the first other answer is the result.
SetArg(tok, possibleFlag) ==
  LET answer(j) == Take(takers[j], tok, possibleFlag)
      stops == {j \in index .. Len(takers) : answer(j).res # "end"}
      at == IF stops = {} THEN Max({index, Len(takers) + 1}) ELSE Min(stops)
  IN  [index |-> at,
       takers |-> [j \in 1 .. Len(takers) |->
                     IF j \in index .. at THEN answer(j).counter ELSE takers[j]],
       ok |-> stops # {} /\ answer(at).res = "ok"]

\* argList.take: how many of the tokens a flag takes and whether it is content.
\* A counter which stopped early was passed over and is not asked again.
OfferNext(acc, t) ==
  LET a == Take(acc.counter, t.tok, TRUE)
  IN  IF acc.stopped THEN acc
      ELSE IF a.res = "ok"
           THEN [n |-> acc.n + 1, counter |-> a.counter, stopped |-> FALSE, passed |-> FALSE]
           ELSE [n |-> acc.n, counter |-> acc.counter, stopped |-> TRUE,
                 passed |-> a.res = "end"]
NoneTaken(counter) ==
  [n |-> 0, counter |-> counter, stopped |-> FALSE, passed |-> FALSE]
TakeFrom(tokens, counter) ==
  LET after[i \in 0 .. Len(tokens)] ==
        IF i = 0 THEN NoneTaken(counter) ELSE OfferNext(after[i - 1], tokens[i])
      end == after[Len(tokens)]
  IN  [n |-> end.n, ok |-> end.passed \/ Done(end.counter)]

\* argList.pushBack, and what is left of the tokens once n of them are taken.
\* Defect: the token goes to the end of the line.
pushLast(token) == Append(args, token)
pushBack(token) == <<token>> \o args
\* Defect: values are read and not popped.
RestAll(n) == args
Rest(n) == SubSeq(args, n + 1, Len(args))

\* instanceTake: one value, which must satisfy the counter.
InstanceTake(counter) ==
  LET a == Take(counter, Word, FALSE)
  IN  IF a.res # "ok" THEN a.res ELSE IF Done(a.counter) THEN "ok" ELSE "expected"

\* Right-to-left binding: how many leading args are left empty, judging by the
\* number of arguments (the program name included) and what the args at the
\* right need, from counters which were not used yet.
\* Defect: one argument too many is counted.
ArgumentCountAbove == Len(argv) + 2
ArgumentCount == Len(argv) + 1
RequiredBy(c) == IF c.kind = "discrete" THEN c.count ELSE 1
RequiredByLast(m) ==
  LET n == Len(command.takers)
      sum[k \in 0 .. n] ==
        IF k = 0 THEN 0 ELSE sum[k - 1] + RequiredBy(command.takers[n - k + 1])
  IN  sum[m]
LeadingSkip ==
  LET n == Len(takers)
  IN  IF n = 0 THEN 0
      ELSE n - Min({m \in 1 .. n : m = n \/ ArgumentCount - RequiredByLast(m) <= 1})

-----------------------------------------------------------------------------
Init ==
  /\ \E in \in Input : command = in.command /\ argv = in.argv
  /\ pc = "start"
  /\ state = "flagsOrArgs"
  /\ args = Tokens(argv)
  /\ arg = NoToken
  /\ letter = 0
  /\ anyArgs = FALSE
  /\ index = 1
  /\ takers = command.takers
  /\ outputs = <<>>
  /\ separators = {}

Fail == pc' = "failed"

Start ==
  /\ pc = "start"
  /\ LET skip == IF command.rightToLeft THEN LeadingSkip ELSE 0
         refused == {j \in 1 .. skip : ~Done(takers[j])}
     IN  /\ index' = IF refused = {} THEN skip + 1 ELSE Min(refused)
         /\ pc' = IF refused = {} THEN "parsing" ELSE "failed"
  /\ state' = IF command.skipFlagParsing THEN "argsOnly" ELSE "flagsOrArgs"
  /\ UNCHANGED <<input, args, arg, letter, anyArgs, takers, outputs, separators>>

\* The head of the parsing loop.
NextToken ==
  /\ pc = "parsing"
  /\ args # <<>>
  /\ arg' = Head(args)
  /\ args' = Tail(args)
  /\ pc' = IF arg'.tok.k \in {"word", "pair", "dash"} \/ state # "flagsOrArgs"
           THEN "positional" ELSE "flag"
  /\ UNCHANGED <<input, state, letter, anyArgs, binding, outputs, separators>>

EndOfTokens ==
  /\ pc = "parsing"
  /\ args = <<>>
  /\ pc' = IF CurrentDone THEN "done" ELSE "failed"
  /\ UNCHANGED <<input, state, args, arg, letter, anyArgs, binding, outputs,
                 separators>>

-----------------------------------------------------------------------------
(* Positional args *)

\* Among args, -- ends the arg being filled.
Terminator ==
  /\ pc = "positional"
  /\ arg.tok = DashDash
  /\ state' = "argsOnly"
  /\ IF CurrentDone
     THEN /\ index' = index + 1
          /\ separators' = separators \cup {arg.pos}
          /\ pc' = "parsing"
     ELSE Fail /\ UNCHANGED <<index, separators>>
  /\ UNCHANGED <<input, args, arg, letter, anyArgs, takers, outputs>>

\* The binding after offering the token in hand to the positional args.
Offer == SetArg(arg.tok, state = "flagsOrArgs")

\* A token which was pushed back is accepted at most once as an arg.
AcceptedState == IF state = "didPushbackArg" THEN "flagsOrArgs" ELSE state

BindArg ==
  /\ pc = "positional"
  /\ arg.tok # DashDash
  /\ Offer.ok
  /\ index' = Offer.index
  /\ takers' = Offer.takers
  /\ outputs' = Append(outputs, ArgOccurrence(index', arg))
  /\ state' = AcceptedState
  /\ IF args = <<>>
     THEN /\ pc' = IF Done(takers'[index']) THEN "parsing" ELSE "failed"
          /\ UNCHANGED <<args, arg, anyArgs>>
     ELSE /\ arg' = Head(args)
          /\ args' = Tail(args)
          /\ anyArgs' = TRUE
          /\ UNCHANGED pc
  /\ UNCHANGED <<input, letter, separators>>

\* No arg takes the token: it may be a flag, otherwise it is an error.
RefuseArg ==
  /\ pc = "positional"
  /\ arg.tok # DashDash
  /\ ~Offer.ok
  /\ index' = Offer.index
  /\ takers' = Offer.takers
  /\ pc' = IF StartsWithDash(arg.tok) /\ state = "flagsOrArgs" THEN "flag"
           ELSE "failed"
  /\ UNCHANGED <<input, state, args, arg, letter, anyArgs, outputs, separators>>

-----------------------------------------------------------------------------
(* Flags *)

EndOfOptions ==
  /\ pc = "flag"
  /\ arg.tok = DashDash
  /\ state' = "argsOnly"
  /\ separators' = separators \cup {arg.pos}
  /\ pc' = "parsing"
  /\ UNCHANGED <<input, args, arg, letter, anyArgs, binding, outputs>>

\* arg[1] is evaluated although the token is a single dash.
LoneDash ==
  /\ pc = "flag"
  /\ arg.tok = Dash
  /\ pc' = "panic"
  /\ UNCHANGED <<input, state, args, arg, letter, anyArgs, binding, outputs,
                 separators>>

\* Defect: the pushed back token is read as a flag again.
PushedStateSame == state
PushedState == "didPushbackArg"

\* A token which names no flag is either handed to the args or an error.
Unknown(token) ==
  /\ IF command.parseUnknownFlagsAsArgs
     THEN /\ state' = PushedState
          /\ args' = pushBack(token)
          /\ pc' = "parsing"
     ELSE Fail /\ UNCHANGED <<state, args>>
  /\ UNCHANGED <<input, arg, letter, anyArgs, binding, outputs, separators>>

\* strings.Cut has split off the value: only --name is pushed back.
UnknownLong ==
  /\ pc = "flag"
  /\ arg.tok.k = "long"
  /\ arg.tok.name \notin Flag
  /\ Unknown([arg EXCEPT !.tok = [@ EXCEPT !.hasValue = FALSE]])

FlagsDisallowed == command.disallowFlagsAfterArgs /\ anyArgs

FlagAfterArg ==
  /\ pc = "flag"
  /\ \/ arg.tok.k = "long" /\ arg.tok.name \in Flag
     \/ arg.tok.k = "short"
  /\ FlagsDisallowed
  /\ Fail
  /\ UNCHANGED <<input, state, args, arg, letter, anyArgs, binding, outputs,
                 separators>>

\* args.take for flag f: its values come from the tokens which follow.
TakeValues(f, letters) ==
  LET taken == TakeFrom(args, FlagCounter[f])
      values == SubSeq(args, 1, taken.n)
  IN  /\ args' = Rest(taken.n)
      /\ IF taken.ok
         THEN /\ outputs' = Append(outputs,
                             FlagOccurrence(f, arg.pos, letters, values))
              /\ pc' = "parsing"
         ELSE Fail /\ UNCHANGED outputs

LongFlag ==
  /\ pc = "flag"
  /\ arg.tok.k = "long"
  /\ arg.tok.name \in Flag
  /\ ~FlagsDisallowed
  /\ IF arg.tok.hasValue
     THEN /\ outputs' = Append(outputs,
                          FlagOccurrence(arg.tok.name, arg.pos, 0, <<>>))
          /\ pc' = "parsing"
          /\ UNCHANGED args
     ELSE TakeValues(arg.tok.name, 0)
  /\ UNCHANGED <<input, state, arg, letter, anyArgs, binding, separators>>

ShortFlags ==
  /\ pc = "flag"
  /\ arg.tok.k = "short"
  /\ ~FlagsDisallowed
  /\ pc' = "cluster"
  /\ letter' = 1
  /\ UNCHANGED <<input, state, args, arg, anyArgs, binding, outputs, separators>>

chars == arg.tok.chars

looksNumeric ==
  /\ letter = 1 /\ chars[1] \notin Flag /\ Numeric # NoFlag
  /\ \A k \in 1 .. Len(chars) : chars[k] \in Digit

\* The flag which the letter in hand stands for.
ClusterFlag ==
  IF looksNumeric THEN Numeric
  ELSE IF chars[letter] \in Flag THEN chars[letter] ELSE NoFlag

UnknownShort ==
  /\ pc = "cluster"
  /\ letter <= Len(chars)
  /\ ClusterFlag = NoFlag
  /\ IF letter = 1 THEN Unknown(arg)
     ELSE /\ Fail
          /\ UNCHANGED <<input, state, args, arg, letter, anyArgs, binding,
                         outputs, separators>>

\* The rest of the cluster, or the whole of it for -NUM, is tried as the value
\* of the flag; a flag which takes none lets the next letter be a flag.
InlineValue ==
  /\ pc = "cluster"
  /\ letter <= Len(chars)
  /\ ClusterFlag # NoFlag
  /\ letter < Len(chars) \/ looksNumeric
  /\ LET f == ClusterFlag
         value == IF looksNumeric THEN chars ELSE SubSeq(chars, letter + 1, Len(chars))
         res == InstanceTake(FlagCounter[f])
         occurrence(n) == FlagOccurrence(f, arg.pos, n, <<>>)
     IN  CASE res = "ok" ->
               /\ outputs' = Append(outputs, occurrence(Len(chars) - letter + 1))
               /\ pc' = "parsing"
               /\ UNCHANGED letter
           [] res = "end" /\ value[1] # Equals ->
               /\ outputs' = Append(outputs, occurrence(1))
               /\ letter' = letter + 1
               /\ pc' = IF letter' > Len(chars) THEN "parsing" ELSE pc
           [] OTHER -> Fail /\ UNCHANGED <<outputs, letter>>
  /\ UNCHANGED <<input, state, args, arg, anyArgs, binding, separators>>

\* The last letter of a cluster: the value is optional or follows.
LastLetter ==
  /\ pc = "cluster"
  /\ letter = Len(chars)
  /\ ClusterFlag # NoFlag /\ ~looksNumeric
  /\ IF ClusterFlag \in Optional
     THEN /\ outputs' = Append(outputs,
                          FlagOccurrence(ClusterFlag, arg.pos, 1, <<>>))
          /\ pc' = IF Done(FlagCounter[ClusterFlag]) THEN "parsing" ELSE "failed"
          /\ UNCHANGED args
     ELSE TakeValues(ClusterFlag, 1)
  /\ UNCHANGED <<input, state, arg, letter, anyArgs, binding, separators>>

Next ==
  \/ Start \/ NextToken \/ EndOfTokens
  \/ Terminator \/ BindArg \/ RefuseArg
  \/ EndOfOptions \/ LoneDash \/ UnknownLong \/ FlagAfterArg \/ LongFlag
  \/ ShortFlags \/ UnknownShort \/ InlineValue \/ LastLetter

Spec == Init /\ [][Next]_vars

\* RawParse is a plain function call: it runs until it returns.
FairSpec == Spec /\ WF_vars(Next)

-----------------------------------------------------------------------------
TypeOK ==
  /\ [command |-> command, argv |-> argv] \in Input
  /\ pc \in {"start", "parsing", "positional", "flag", "cluster", "done",
             "failed", "panic"}
  /\ state \in {"flagsOrArgs", "didPushbackArg", "argsOnly"}
  /\ \A k \in 1 .. Len(args) : args[k].pos \in 1 .. Len(argv)
  /\ arg.pos \in 0 .. Len(argv)
  /\ letter \in Nat
  /\ anyArgs \in BOOLEAN
  /\ index \in 1 .. Len(command.takers) + Len(argv) + 1
  /\ Len(takers) = Len(command.takers)
  /\ \A k \in 1 .. Len(outputs) : outputs[k].flagAt \in 0 .. Len(argv)
  /\ separators \subseteq 1 .. Len(argv)

Ended == pc \in {"done", "failed", "panic"}

ArgOccurrences == {k \in 1 .. Len(outputs) : outputs[k].flagAt = 0}
FlagOccurrencesAt(p) == {k \in 1 .. Len(outputs) : outputs[k].flagAt = p}
\* The places in outputs which hold the token at p as a value.
ValueAt(p) ==
  {kj \in (1 .. Len(outputs)) \X DOMAIN argv :
     /\ kj[2] <= Len(outputs[kj[1]].values)
     /\ outputs[kj[1]].values[kj[2]].pos = p}
ArgsBoundTo(i) == {k \in ArgOccurrences : outputs[k].name = i}

UsedAsValue(p) ==
  /\ \E kj \in ValueAt(p) : ValueAt(p) = {kj}
  /\ FlagOccurrencesAt(p) = {} /\ p \notin separators
UsedAsSeparator(p) ==
  p \in separators /\ ValueAt(p) = {} /\ FlagOccurrencesAt(p) = {}
\* Each occurrence but the last uses one letter, and that all which are left.
UsedAsFlags(p) ==
  /\ ValueAt(p) = {} /\ p \notin separators
  /\ \E first, last \in 1 .. Len(outputs) :
       /\ first <= last /\ FlagOccurrencesAt(p) = first .. last
       /\ argv[p].k = "long" => first = last
       /\ argv[p].k = "short" =>
            /\ \A k \in first .. last - 1 : outputs[k].letters = 1
            /\ outputs[last].letters + (last - first) = Len(argv[p].chars)

\* No token of an accepted command line is lost or used twice, whatever path
\* it took (offered to an arg and refused, pushed back, taken by a flag, split
\* into a cluster): it is a value exactly once, or it names the flags of
\* successive occurrences which use up all its letters, or it is a separator.
EveryTokenUsedOnce ==
  pc = "done" => \A p \in 1 .. Len(argv) :
    UsedAsValue(p) \/ UsedAsFlags(p) \/ UsedAsSeparator(p)

\* Values bind in order, however often a token was refused and pushed back: a
\* later token never goes to an earlier arg, flags between them
\* notwithstanding; what a flag takes are the very next tokens; and a flag
\* which must have a value is not accepted without one.
ValuesBindInOrder ==
  /\ \A k, m \in ArgOccurrences : k < m =>
       /\ outputs[k].name <= outputs[m].name
       /\ outputs[k].values[1].pos < outputs[m].values[1].pos
  /\ \A k \in 1 .. Len(outputs) \ ArgOccurrences :
       LET o == outputs[k]
           tok == argv[o.flagAt]
       IN  /\ \A j \in 1 .. Len(o.values) : o.values[j].pos = o.flagAt + j
           /\ FlagCounter[o.name] = Default(TRUE) =>
                \/ o.values # <<>>
                \/ o.letters > 1 \/ (tok.k = "short" /\ o.name = Numeric)
                \/ tok.k = "long" /\ tok.hasValue

\* Right-to-left binding leaves the args at the left empty.  Where every arg
\* takes one or a fixed number of values, an arg to the right of a filled one is
\* filled as well, unless it and the args after it need fewer values than one
\* which was filled before: taking them all there used up the line.
\* A line with flags is not counted as it is bound (set.go:315).
TakesFixedCount(c) == c.kind = "default" \/ (c.kind = "discrete" /\ c.count > 0)
PlainLine == \A p \in 1 .. Len(argv) : argv[p] \in {Word, NameEq, Dash}
FixedArgs == \A k \in 1 .. Len(command.takers) : TakesFixedCount(command.takers[k])
RightmostFilledOnPlainLines ==
  pc = "done" /\ command.rightToLeft /\ PlainLine /\ FixedArgs =>
    \A i, j \in 1 .. Len(takers) :
      i < j /\ ArgsBoundTo(i) # {} /\ ArgsBoundTo(j) = {} =>
        \E f \in 1 .. i :
          /\ ArgsBoundTo(f) # {}
          /\ RequiredByLast(Len(takers) - j + 1) < RequiredBy(command.takers[f])

\* Parsing always ends.  (Tokens are pushed back, so the length of args alone
\* does not show it.)
ParsingEnds == <>Ended

-----------------------------------------------------------------------------
(* What the documentation says, which a command line refutes *)

\* RawParse: an error, if it occurs, is a ParseError.
NeverPanics == pc # "panic"
=============================================================================
