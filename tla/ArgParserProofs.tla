--------------------------- MODULE ArgParserProofs ---------------------------
(***************************************************************************)
(* Proofs about ArgParser for any command, flags and command lines.        *)
(***************************************************************************)
EXTENDS ArgParser, SequenceTheorems, WellFoundedInduction, TLAPS

Token == [pos : Nat, tok : TokenType]
Occurrence == [name : Nat \cup Flag, flagAt : Nat, letters : Nat, values : Seq(Token)]

\* There is a token in hand, popped and not used yet.
InHand == pc \in {"positional", "flag", "cluster"}
Popped == Len(argv) - Len(args)
Used == IF InHand THEN Popped - 1 ELSE Popped

\* Variables which have their types independently of where the parser is.
Types ==
  /\ command \in CommandType /\ argv \in Seq(TokenType)
  /\ [command |-> command, argv |-> argv] \in Input
  /\ pc \in {"start", "parsing", "positional", "flag", "cluster", "done",
             "failed", "panic"}
  /\ state \in {"flagsOrArgs", "didPushbackArg", "argsOnly"}
  /\ args \in Seq(Token) /\ arg \in Token
  /\ letter \in Nat /\ anyArgs \in BOOLEAN
  /\ index \in Nat \ {0}
  /\ DOMAIN takers = 1 .. Len(command.takers)
  /\ outputs \in Seq(Occurrence)

\* The token at its position is what the command line has there; a long flag
\* which is unknown may have lost its value.
FromLine(t) ==
  \/ t.tok = argv[t.pos]
  \/ /\ t.tok.k = "long" /\ t.tok.name \notin Flag
     /\ argv[t.pos].k = "long"

\* The tokens which are left are the end of the command line, and the one in
\* hand comes right before them.
Line ==
  /\ Popped \in Nat
  /\ \A k \in 1 .. Len(args) : args[k].pos = Popped + k /\ FromLine(args[k])
  /\ InHand => Popped >= 1 /\ arg.pos = Popped /\ FromLine(arg)
  /\ arg.pos <= Len(argv)
  /\ pc = "done" => args = <<>>
  /\ pc = "cluster" => arg.tok.k = "short" /\ letter \in 1 .. Len(chars)

\* Each -- which ends an arg moves the index, perhaps past the last one.
IndexBound ==
  index <= Len(command.takers) + 1 + Used /\ (pc = "start" => index = 1)

\* What was given out was used before.
Bounds ==
  /\ separators \subseteq 1 .. Used
  /\ \A k \in 1 .. Len(outputs) :
       /\ outputs[k].flagAt <= (IF pc = "cluster" THEN Popped ELSE Used)
       /\ \A j \in 1 .. Len(outputs[k].values) : outputs[k].values[j].pos \in 1 .. Used
       /\ outputs[k].flagAt = 0 =>
            Len(outputs[k].values) = 1 /\ outputs[k].name \in 1 .. index

\* The occurrences of the cluster in hand are the last ones, a letter for each.
Cluster ==
  pc = "cluster" =>
    /\ letter - 1 <= Len(outputs)
    /\ FlagOccurrencesAt(arg.pos) = Len(outputs) - letter + 2 .. Len(outputs)
    /\ \A k \in Len(outputs) - letter + 2 .. Len(outputs) : outputs[k].letters = 1

\* Every token which was used was used once, as long as the line is accepted.
Role(p) == UsedAsValue(p) \/ UsedAsFlags(p) \/ UsedAsSeparator(p)
AllUsed == pc \notin {"failed", "panic"} => \A p \in 1 .. Used : Role(p)

IInv == Types /\ Line /\ IndexBound /\ Bounds /\ Cluster /\ AllUsed /\ ValuesBindInOrder

-----------------------------------------------------------------------------
(* Numbers *)

\* The least element of a set of natural numbers: induction over numbers.
LEMMA LeastNumber ==
  ASSUME NEW S \in SUBSET Nat, S # {}
  PROVE  \E n \in S : \A m \in S : n <= m
<1> DEFINE R == OpToRel(<, Nat)
<1>1. IsWellFoundedOn(R, Nat)
  BY NatLessThanWellFounded
<1>2. \A m, n \in Nat : m < n => <<m, n>> \in R
  BY DEF OpToRel
<1> HIDE DEF R
<1>3. PICK n \in S : \A m \in S : ~(<<m, n>> \in R)
  BY <1>1, WFMin
<1>4. ASSUME NEW m \in S, m < n PROVE FALSE
  <2>1. m \in Nat /\ n \in Nat
    OBVIOUS
  <2>2. <<m, n>> \in R
    BY <2>1, <1>4, <1>2, Zenon
  <2> QED BY <2>2, <1>3
<1> QED BY <1>4

LEMMA MinFacts ==
  ASSUME NEW S \in SUBSET Nat, S # {}
  PROVE  Min(S) \in S /\ \A m \in S : Min(S) <= m
<1>1. \E n \in S : \A m \in S : n <= m
  BY LeastNumber
<1> QED BY <1>1 DEF Min

LEMMA MaxOfTwo ==
  ASSUME NEW a \in Nat, NEW b \in Nat
  PROVE  Max({a, b}) = IF a >= b THEN a ELSE b
  BY DEF Max

-----------------------------------------------------------------------------
(* What a flag takes *)

\* A default counter takes the first token, and if it must be seen it is not
\* content without.
LEMMA FirstIsTaken ==
  /\ \A tok, possibleFlag : Take(Default(TRUE), tok, possibleFlag).res = "ok"
  /\ ~Done(Default(TRUE))
<1> DEFINE c == Default(TRUE)
<1>1. c.kind = "default" /\ ~c.seen /\ c.requireSeen
  BY DEF Default
<1> HIDE DEF c
<1>2. \A tok, possibleFlag : Take(c, tok, possibleFlag) = TakeDefault(c)
  BY <1>1, Zenon DEF Take
<1>3. TakeDefault(c).res = "ok"
  BY <1>1, Zenon DEF TakeDefault, Answer
<1>4. ~Done(c)
  BY <1>1, Zenon DEF Done, DoneDefault
<1> QED BY <1>2, <1>3, <1>4 DEF c

\* One more token is taken, or none.
LEMMA OfferFacts ==
  ASSUME NEW acc, NEW t
  PROVE  OfferNext(acc, t).n \in {acc.n, acc.n + 1}
<1> DEFINE a == Take(acc.counter, t.tok, TRUE)
<1>1. CASE acc.stopped
  BY <1>1, Zenon DEF OfferNext
<1>2. CASE ~acc.stopped /\ a.res = "ok"
  <2>1. OfferNext(acc, t) = [n |-> acc.n + 1, counter |-> a.counter, stopped |-> FALSE,
                             passed |-> FALSE]
    BY <1>2, Zenon DEF OfferNext
  <2> QED BY <2>1
<1>3. CASE ~acc.stopped /\ a.res # "ok"
  <2>1. OfferNext(acc, t) = [n |-> acc.n, counter |-> acc.counter, stopped |-> TRUE,
                             passed |-> a.res = "end"]
    BY <1>3, Zenon DEF OfferNext
  <2> QED BY <2>1
<1> QED BY <1>1, <1>2, <1>3

\* How far each of the first n tokens gets, as TakeFrom defines it.
IsTrace(f, n, tokens, counter) ==
  f = [i \in 0 .. n |-> IF i = 0 THEN NoneTaken(counter)
                        ELSE OfferNext(f[i - 1], tokens[i])]

\* The function which TakeFrom defines by recursion exists.
LEMMA TakeDefined ==
  ASSUME NEW tokens, NEW counter, NEW n \in Nat
  PROVE  \E f : IsTrace(f, n, tokens, counter)
<1> DEFINE Open == {k \in Nat : ~ \E f : IsTrace(f, k, tokens, counter)}
<1>1. SUFFICES ASSUME Open # {} PROVE FALSE
  OBVIOUS
<1>2. PICK k \in Open : \A m \in Open : k <= m
  BY <1>1, LeastNumber
<1>3. CASE k = 0
  <2>1. IsTrace([i \in 0 .. 0 |-> NoneTaken(counter)], 0, tokens, counter)
    BY DEF IsTrace
  <2> QED BY <2>1, <1>3
<1>4. CASE k > 0
  <2>1. k - 1 \in Nat /\ k - 1 \notin Open
    BY <1>2, <1>4
  <2>2. PICK g : IsTrace(g, k - 1, tokens, counter)
    BY <2>1
  <2> DEFINE f == [i \in 0 .. k |-> IF i = k THEN OfferNext(g[k - 1], tokens[k]) ELSE g[i]]
  <2>3. \A i \in 0 .. k : f[i] = IF i = 0 THEN NoneTaken(counter)
                                 ELSE OfferNext(f[i - 1], tokens[i])
    BY <2>1, <2>2, <1>4 DEF IsTrace
  <2>4. IsTrace(f, k, tokens, counter)
    BY <2>3 DEF IsTrace
  <2> QED BY <2>4
<1> QED BY <1>3, <1>4

\* A flag takes no more tokens than there are, and one which must have a value
\* is content only with at least one.
LEMMA TakeFacts ==
  ASSUME NEW tokens, Len(tokens) \in Nat, NEW counter
  PROVE  LET t == TakeFrom(tokens, counter)
         IN  /\ t.n \in 0 .. Len(tokens)
             /\ counter = Default(TRUE) /\ t.ok => t.n >= 1
<1> DEFINE N == Len(tokens)
           after == CHOOSE f : IsTrace(f, N, tokens, counter)
<1>1. IsTrace(after, N, tokens, counter)
  BY TakeDefined
<1>2. /\ TakeFrom(tokens, counter).n = after[N].n
      /\ TakeFrom(tokens, counter).ok <=> after[N].passed \/ Done(after[N].counter)
  BY Zenon DEF TakeFrom, IsTrace
<1> HIDE DEF after
<1>3. /\ after[0] = NoneTaken(counter)
      /\ \A i \in 1 .. N : after[i] = OfferNext(after[i - 1], tokens[i])
  BY <1>1 DEF IsTrace
<1> DEFINE must == counter = Default(TRUE)
           Good(i) == after[i].n \in 0 .. i /\ (must /\ i > 0 => after[i].n >= 1)
<1>4. after[0].n = 0 /\ ~after[0].passed /\ after[0].counter = counter
  BY <1>3 DEF NoneTaken
<1>5. Good(0)
  BY <1>4
<1>6. must => ~(after[0].passed \/ Done(after[0].counter))
  BY <1>4, FirstIsTaken, Zenon
<1>7. ASSUME NEW i \in 1 .. N, Good(i - 1) PROVE Good(i)
  <2>1. after[i].n \in {after[i - 1].n, after[i - 1].n + 1}
    BY <1>3, OfferFacts
  <2>2. CASE i = 1 /\ must
    <3>1. /\ after[0].counter = Default(TRUE) /\ ~after[0].stopped /\ after[0].n = 0
          /\ after[1] = OfferNext(after[0], tokens[1])
      BY <2>2, <1>3 DEF NoneTaken
    <3>2. after[1] = [n |-> after[0].n + 1, stopped |-> FALSE, passed |-> FALSE,
                      counter |-> Take(after[0].counter, tokens[1].tok, TRUE).counter]
      BY <3>1, FirstIsTaken, Zenon DEF OfferNext
    <3> QED BY <3>1, <3>2, <2>2
  <2>3. CASE ~(i = 1 /\ must)
    <3> HIDE DEF must
    <3> QED BY <2>1, <2>3, <1>7
  <2> QED BY <2>2, <2>3
<1> HIDE DEF Good
<1>8. \A i \in 0 .. N : Good(i)
  <2> DEFINE Bad == {i \in 0 .. N : ~Good(i)}
  <2>1. SUFFICES ASSUME Bad # {} PROVE FALSE
    OBVIOUS
  <2>2. PICK i \in Bad : \A m \in Bad : i <= m
    <3>1. Bad \in SUBSET Nat
      OBVIOUS
    <3> HIDE DEF Bad
    <3> QED BY <3>1, <2>1, LeastNumber
  <2>3. i # 0
    BY <1>5
  <2>4. i - 1 \in 0 .. N /\ i - 1 \notin Bad
    BY <2>2, <2>3
  <2> QED BY <2>3, <2>4, <1>7
<1>9. Good(N)
  BY <1>8
<1>10. N # 0 /\ must => after[N].n >= 1
  BY <1>9 DEF Good
<1>11. must /\ TakeFrom(tokens, counter).ok => N # 0
  BY <1>2, <1>6, Zenon
<1> QED BY <1>2, <1>9, <1>10, <1>11 DEF Good

-----------------------------------------------------------------------------
(* What an arg takes *)

LEMMA TakersLength ==
  ASSUME Types
  PROVE  Len(takers) = Len(command.takers) /\ Len(takers) \in Nat
<1>1. Len(command.takers) \in Nat
  BY DEF Types, CommandType
<1> QED BY <1>1 DEF Types

\* The index does not fall, comes right behind the last arg if none takes the
\* token, and is that of an arg otherwise.
LEMMA SetArgFacts ==
  ASSUME Types, NEW tok, NEW possibleFlag
  PROVE  LET s == SetArg(tok, possibleFlag)
             N == Len(command.takers)
         IN  /\ s.index \in Nat /\ index <= s.index
             /\ s.index <= N + 1 \/ s.index = index
             /\ s.ok => s.index <= N
             /\ DOMAIN s.takers = 1 .. N
<1> DEFINE N == Len(command.takers)
           answer(j) == Take(takers[j], tok, possibleFlag)
           stops == {j \in index .. N : answer(j).res # "end"}
           at == IF stops = {} THEN Max({index, N + 1}) ELSE Min(stops)
<1>1. Len(takers) = N /\ N \in Nat /\ index \in Nat
  BY TakersLength DEF Types
<1>2. stops # {} => Min(stops) \in stops
  <2>1. stops \in SUBSET Nat
    BY <1>1
  <2> HIDE DEF stops
  <2> QED BY <2>1, MinFacts
<1>3. Max({index, N + 1}) = IF index >= N + 1 THEN index ELSE N + 1
  BY <1>1, MaxOfTwo
<1>4. /\ at \in Nat /\ index <= at /\ (at <= N + 1 \/ at = index)
      /\ stops # {} => at <= N
  <2> HIDE DEF answer
  <2> QED BY <1>1, <1>2, <1>3
<1>5. /\ SetArg(tok, possibleFlag).index = at
      /\ SetArg(tok, possibleFlag).ok => stops # {}
      /\ DOMAIN SetArg(tok, possibleFlag).takers = 1 .. N
  <2> HIDE DEF at
  <2>1. SetArg(tok, possibleFlag).index = at
    BY <1>1 DEF SetArg, at
  <2>2. SetArg(tok, possibleFlag).ok => stops # {}
    BY <1>1, Zenon DEF SetArg
  <2>3. DOMAIN SetArg(tok, possibleFlag).takers = 1 .. N
    BY <1>1, Zenon DEF SetArg
  <2> QED BY <2>1, <2>2, <2>3
<1> HIDE DEF at, stops
<1> QED BY <1>4, <1>5

-----------------------------------------------------------------------------
(* Occurrences *)

LEMMA LineTyped ==
  ASSUME Types
  PROVE  /\ argv \in Seq(TokenType) /\ Len(argv) \in Nat /\ DOMAIN argv = 1 .. Len(argv)
         /\ args \in Seq(Token) /\ Len(args) \in Nat
         /\ outputs \in Seq(Occurrence) /\ Len(outputs) \in Nat
<1> HIDE DEF TokenType, Token, Occurrence
<1> QED BY DEF Types

LEMMA ValuesTyped ==
  ASSUME NEW o \in Occurrence
  PROVE  /\ o.values \in Seq(Token) /\ Len(o.values) \in Nat
         /\ o.flagAt \in Nat /\ o.letters \in Nat
<1>1. o.values \in Seq(Token)
  BY DEF Occurrence
<1>2. Len(o.values) \in Nat
  <2> HIDE DEF Token
  <2> QED BY <1>1
<1> QED BY <1>1, <1>2 DEF Occurrence

LEMMA Appended ==
  ASSUME Types, NEW o \in Occurrence, outputs' = Append(outputs, o)
  PROVE  /\ outputs' \in Seq(Occurrence) /\ Len(outputs) \in Nat
         /\ Len(outputs') = Len(outputs) + 1 /\ outputs'[Len(outputs) + 1] = o
         /\ \A k \in 1 .. Len(outputs) : outputs'[k] = outputs[k]
<1>1. outputs \in Seq(Occurrence)
  BY DEF Types
<1> HIDE DEF Occurrence
<1> QED BY <1>1, AppendProperties

LEMMA OccurrenceTyped ==
  ASSUME Types, NEW k \in 1 .. Len(outputs)
  PROVE  /\ outputs[k] \in Occurrence /\ outputs[k].flagAt \in Nat
         /\ outputs[k].letters \in Nat
         /\ outputs[k].values \in Seq(Token) /\ Len(outputs[k].values) \in Nat
         /\ \A j \in 1 .. Len(outputs[k].values) : outputs[k].values[j].pos \in Nat
<1>1. outputs[k] \in Occurrence
  <2> HIDE DEF Occurrence
  <2> QED BY ElementOfSeq DEF Types
<1>2. outputs[k].values \in Seq(Token)
  BY <1>1 DEF Occurrence
<1>3. \A j \in 1 .. Len(outputs[k].values) : outputs[k].values[j] \in Token
  <2> HIDE DEF Token
  <2> QED BY <1>2, ElementOfSeq
<1> QED BY <1>1, <1>2, <1>3 DEF Occurrence, Token

\* Nothing was said about a token which was not used.
Fresh(p) == ValueAt(p) = {} /\ FlagOccurrencesAt(p) = {} /\ p \notin separators

LEMMA FreshFacts ==
  ASSUME Types, Line, Bounds, NEW p \in Nat, p > Used,
         pc = "cluster" => p # Popped
  PROVE  Fresh(p)
<1>1. /\ Used \in Int /\ Popped \in Nat /\ Used <= Popped
      /\ pc = "cluster" => Popped = Used + 1
  BY DEF Line, Used, InHand
<1>2. p \notin separators
  BY <1>1 DEF Bounds
<1>3. FlagOccurrencesAt(p) = {}
  BY <1>1, OccurrenceTyped DEF Bounds, FlagOccurrencesAt
<1>4. ASSUME NEW kj \in ValueAt(p) PROVE FALSE
  <2>1. /\ kj[1] \in 1 .. Len(outputs) /\ kj[2] \in DOMAIN argv
        /\ kj[2] <= Len(outputs[kj[1]].values) /\ outputs[kj[1]].values[kj[2]].pos = p
    BY DEF ValueAt
  <2>2. kj[2] \in 1 .. Len(outputs[kj[1]].values)
    BY <2>1, OccurrenceTyped DEF Types
  <2> QED BY <1>1, <2>1, <2>2 DEF Bounds
<1> QED BY <1>2, <1>3, <1>4 DEF Fresh

\* A further occurrence which is not about the token at p changes nothing.
LEMMA SameAt ==
  ASSUME Types, UNCHANGED argv, NEW p \in Nat,
         \/ outputs' = outputs
         \/ \E o \in Occurrence :
              /\ outputs' = Append(outputs, o) /\ o.flagAt # p
              /\ \A j \in 1 .. Len(o.values) : o.values[j].pos # p
  PROVE  /\ ValueAt(p)' = ValueAt(p) /\ FlagOccurrencesAt(p)' = FlagOccurrencesAt(p)
         /\ Len(outputs) \in Nat /\ Len(outputs') >= Len(outputs) /\ Len(outputs') \in Nat
         /\ \A k \in 1 .. Len(outputs) : outputs'[k] = outputs[k]
<1>1. Len(outputs) \in Nat
  BY DEF Types
<1>2. CASE outputs' = outputs
  BY <1>1, <1>2 DEF ValueAt, FlagOccurrencesAt
<1>3. ASSUME NEW o \in Occurrence, outputs' = Append(outputs, o), o.flagAt # p,
             \A j \in 1 .. Len(o.values) : o.values[j].pos # p
      PROVE  /\ ValueAt(p)' = ValueAt(p) /\ FlagOccurrencesAt(p)' = FlagOccurrencesAt(p)
             /\ Len(outputs') = Len(outputs) + 1
             /\ \A k \in 1 .. Len(outputs) : outputs'[k] = outputs[k]
  <2>1. /\ Len(outputs') = Len(outputs) + 1 /\ outputs'[Len(outputs) + 1] = o
        /\ \A k \in 1 .. Len(outputs) : outputs'[k] = outputs[k]
    BY <1>3, Appended
  <2>2. FlagOccurrencesAt(p)' = FlagOccurrencesAt(p)
    BY <1>1, <2>1, <1>3 DEF FlagOccurrencesAt
  <2>3. ASSUME NEW kj \in (1 .. Len(outputs')) \X DOMAIN argv
        PROVE  kj \in ValueAt(p)' <=> kj \in ValueAt(p)
    <3>1. kj[1] \in 1 .. Len(outputs') /\ kj[2] \in DOMAIN argv
      OBVIOUS
    <3>2. CASE kj[1] = Len(outputs) + 1
      <4>1. kj[2] \in Nat \ {0} /\ Len(o.values) \in Nat
        BY <3>1, LineTyped, ValuesTyped
      <4>2. kj \notin ValueAt(p)
        BY <3>2, <1>1 DEF ValueAt
      <4>3. ~(kj[2] <= Len(o.values) /\ o.values[kj[2]].pos = p)
        BY <4>1, <1>3
      <4> QED BY <4>2, <4>3, <3>2, <2>1 DEF ValueAt
    <3>3. CASE kj[1] \in 1 .. Len(outputs)
      <4>1. kj \in (1 .. Len(outputs)) \X DOMAIN argv
        BY <3>1, <3>3
      <4> QED BY <4>1, <3>3, <2>1 DEF ValueAt
    <3> QED BY <1>1, <3>1, <3>2, <3>3, <2>1
  <2>4. /\ ValueAt(p)' \subseteq (1 .. Len(outputs')) \X DOMAIN argv
        /\ ValueAt(p) \subseteq (1 .. Len(outputs')) \X DOMAIN argv
    BY <1>1, <2>1 DEF ValueAt
  <2>5. ValueAt(p)' = ValueAt(p)
    BY <2>3, <2>4, Zenon
  <2> QED BY <2>1, <2>2, <2>5
<1> QED BY <1>1, <1>2, <1>3

LEMMA RoleKept ==
  ASSUME Types, UNCHANGED argv, NEW p \in Nat,
         p \in separators' <=> p \in separators,
         \/ outputs' = outputs
         \/ \E o \in Occurrence :
              /\ outputs' = Append(outputs, o) /\ o.flagAt # p
              /\ \A j \in 1 .. Len(o.values) : o.values[j].pos # p,
         Role(p)
  PROVE  Role(p)'
<1>1. /\ ValueAt(p)' = ValueAt(p) /\ FlagOccurrencesAt(p)' = FlagOccurrencesAt(p)
      /\ Len(outputs) \in Nat /\ Len(outputs') >= Len(outputs) /\ Len(outputs') \in Nat
      /\ \A k \in 1 .. Len(outputs) : outputs'[k] = outputs[k]
  BY SameAt
<1>2. CASE UsedAsValue(p)
  BY <1>1, <1>2 DEF UsedAsValue, Role
<1>3. CASE UsedAsSeparator(p)
  BY <1>1, <1>3 DEF UsedAsSeparator, Role
<1>4. CASE UsedAsFlags(p)
  <2>1. PICK first, last \in 1 .. Len(outputs) :
          /\ first <= last /\ FlagOccurrencesAt(p) = first .. last
          /\ argv[p].k = "long" => first = last
          /\ argv[p].k = "short" =>
               /\ \A k \in first .. last - 1 : outputs[k].letters = 1
               /\ outputs[last].letters + (last - first) = Len(argv[p].chars)
    BY <1>4 DEF UsedAsFlags
  <2>2. \A k \in first .. last : outputs'[k] = outputs[k]
    BY <1>1, <2>1
  <2>3. first \in 1 .. Len(outputs') /\ last \in 1 .. Len(outputs')
    BY <1>1, <2>1
  <2>4. FlagOccurrencesAt(p)' = first .. last
    BY <1>1, <2>1
  <2>5. /\ (argv[p].k = "long" => first = last)'
        /\ (argv[p].k = "short" =>
              /\ \A k \in first .. last - 1 : outputs[k].letters = 1
              /\ outputs[last].letters + (last - first) = Len(argv[p].chars))'
    <3>1. last \in first .. last /\ \A k \in first .. last - 1 : k \in first .. last
      BY <2>1
    <3> QED BY <2>1, <2>2, <3>1
  <2>6. ValueAt(p)' = {} /\ p \notin separators'
    BY <1>1, <1>4 DEF UsedAsFlags
  <2>7. UsedAsFlags(p)'
    BY <2>1, <2>3, <2>4, <2>5, <2>6, Zenon DEF UsedAsFlags
  <2> QED BY <2>7 DEF Role
<1> QED BY <1>2, <1>3, <1>4 DEF Role

-----------------------------------------------------------------------------
(* Tokens which are popped and pushed back *)

\* The first n tokens which are left, and the rest of them.
LEMMA TakenFacts ==
  ASSUME Types, NEW n \in 0 .. Len(args)
  PROVE  /\ Rest(n) \in Seq(Token) /\ Len(Rest(n)) = Len(args) - n
         /\ \A k \in 1 .. Len(args) - n : Rest(n)[k] = args[n + k]
         /\ SubSeq(args, 1, n) \in Seq(Token) /\ Len(SubSeq(args, 1, n)) = n
         /\ \A k \in 1 .. n : SubSeq(args, 1, n)[k] = args[k]
<1>1. args \in Seq(Token) /\ Len(args) \in Nat
  BY LineTyped
<1> HIDE DEF Token
<1>2. /\ Rest(n) \in Seq(Token) /\ Len(Rest(n)) = Len(args) - n
      /\ \A k \in 1 .. Len(args) - n : Rest(n)[k] = args[n + k]
  <2>1. n + 1 \in 1 .. Len(args) + 1 /\ Len(args) \in n .. Len(args)
    BY <1>1
  <2> QED BY <1>1, <2>1, SubSeqProperties DEF Rest
<1>3. /\ SubSeq(args, 1, n) \in Seq(Token) /\ Len(SubSeq(args, 1, n)) = n
      /\ \A k \in 1 .. n : SubSeq(args, 1, n)[k] = args[k]
  BY <1>1, SubSeqProperties
<1> QED BY <1>2, <1>3

LEMMA NothingTaken ==
  ASSUME Types
  PROVE  SubSeq(args, 1, 0) = <<>> /\ Rest(0) = args
<1>1. args \in Seq(Token) /\ Len(args) \in Nat
  BY LineTyped
<1> HIDE DEF Token
<1>2. SubSeq(args, 1, 0) = <<>>
  BY <1>1, SubSeqEmpty
<1>3. Rest(0) = args
  BY <1>1, SubSeqFull DEF Rest
<1> QED BY <1>2, <1>3

\* A token which is pushed back is in front of those which are left.
LEMMA PushedFacts ==
  ASSUME Types, NEW t \in Token
  PROVE  /\ pushBack(t) \in Seq(Token) /\ Len(pushBack(t)) = Len(args) + 1
         /\ pushBack(t)[1] = t
         /\ \A k \in 1 .. Len(args) : pushBack(t)[k + 1] = args[k]
<1>1. args \in Seq(Token) /\ Len(args) \in Nat
  BY LineTyped
<1> HIDE DEF Token
<1>2. <<t>> \in Seq(Token) /\ Len(<<t>>) = 1 /\ <<t>>[1] = t
  OBVIOUS
<1> QED BY <1>1, <1>2, ConcatProperties DEF pushBack

LEMMA HeadFacts ==
  ASSUME Types, args # <<>>
  PROVE  /\ Head(args) \in Token /\ Head(args) = args[1] /\ Len(args) >= 1
         /\ Tail(args) \in Seq(Token) /\ Len(Tail(args)) = Len(args) - 1
         /\ \A k \in 1 .. Len(args) - 1 : Tail(args)[k] = args[k + 1]
<1>1. args \in Seq(Token) /\ Len(args) \in Nat
  BY LineTyped
<1> HIDE DEF Token
<1> QED BY <1>1, HeadTailProperties

\* After n tokens are taken the rest is the end of the line.
LEMMA LineTaken ==
  ASSUME Types, Line, UNCHANGED argv, NEW n \in 0 .. Len(args), args' = Rest(n)
  PROVE  /\ Popped' = Popped + n /\ Popped' \in Nat /\ Popped' <= Len(argv)
         /\ \A k \in 1 .. Len(args') : args'[k].pos = Popped' + k /\ FromLine(args[k])'
         /\ args' \in Seq(Token)
<1>1. /\ args' \in Seq(Token) /\ Len(args') = Len(args) - n
      /\ \A k \in 1 .. Len(args) - n : args'[k] = args[n + k]
  BY TakenFacts
<1>2. Len(argv) \in Nat /\ Len(args) \in Nat /\ Popped \in Nat
  BY LineTyped DEF Line
<1>3. Popped' = Popped + n /\ Popped' \in Nat /\ Popped' <= Len(argv)
  BY <1>1, <1>2 DEF Popped
<1>4. ASSUME NEW k \in 1 .. Len(args')
      PROVE  args'[k].pos = Popped' + k /\ FromLine(args[k])'
  <2>1. n + k \in 1 .. Len(args) /\ args'[k] = args[n + k]
    BY <1>1, <1>2
  <2>2. args[n + k].pos = Popped + (n + k) /\ FromLine(args[n + k])
    BY <2>1 DEF Line
  <2>3. FromLine(args[k])'
    BY <2>1, <2>2 DEF FromLine
  <2> QED BY <1>2, <1>3, <2>1, <2>2, <2>3
<1> QED BY <1>1, <1>3, <1>4

\* So it is with the first token in hand.
LEMMA LinePopped ==
  ASSUME Types, Line, UNCHANGED argv, args # <<>>, args' = Tail(args), arg' = Head(args)
  PROVE  /\ Popped' = Popped + 1 /\ Popped' \in Nat /\ Popped' <= Len(argv)
         /\ \A k \in 1 .. Len(args') : args'[k].pos = Popped' + k /\ FromLine(args[k])'
         /\ args' \in Seq(Token) /\ arg' \in Token /\ arg'.pos = Popped' /\ FromLine(arg)'
<1>1. /\ Head(args) \in Token /\ Head(args) = args[1] /\ Len(args) >= 1
      /\ Tail(args) \in Seq(Token) /\ Len(Tail(args)) = Len(args) - 1
      /\ \A k \in 1 .. Len(args) - 1 : Tail(args)[k] = args[k + 1]
  BY HeadFacts
<1>2. Len(argv) \in Nat /\ Len(args) \in Nat /\ Popped \in Nat
  BY LineTyped DEF Line
<1>3. Popped' = Popped + 1 /\ Popped' \in Nat /\ Popped' <= Len(argv)
  BY <1>1, <1>2 DEF Popped
<1>4. ASSUME NEW k \in 1 .. Len(args')
      PROVE  args'[k].pos = Popped' + k /\ FromLine(args[k])'
  <2>1. k + 1 \in 1 .. Len(args) /\ args'[k] = args[k + 1]
    BY <1>1, <1>2
  <2>2. args[k + 1].pos = Popped + (k + 1) /\ FromLine(args[k + 1])
    BY <2>1 DEF Line
  <2>3. FromLine(args[k])'
    BY <2>1, <2>2 DEF FromLine
  <2> QED BY <1>2, <1>3, <2>1, <2>2, <2>3
<1>5. args[1].pos = Popped + 1 /\ FromLine(args[1])
  BY <1>1, <1>2 DEF Line
<1>6. FromLine(arg)'
  BY <1>1, <1>5 DEF FromLine
<1> QED BY <1>1, <1>3, <1>4, <1>5, <1>6

\* The token in hand, or what is left of it, goes back to where it was.
LEMMA LinePushed ==
  ASSUME Types, Line, InHand, UNCHANGED argv, NEW t \in Token,
         t.pos = arg.pos, FromLine(t), args' = pushBack(t)
  PROVE  /\ Popped' = Popped - 1 /\ Popped' \in Nat
         /\ \A k \in 1 .. Len(args') : args'[k].pos = Popped' + k /\ FromLine(args[k])'
         /\ args' \in Seq(Token)
<1>1. /\ args' \in Seq(Token) /\ Len(args') = Len(args) + 1 /\ args'[1] = t
      /\ \A k \in 1 .. Len(args) : args'[k + 1] = args[k]
  BY PushedFacts
<1>2. Len(argv) \in Nat /\ Len(args) \in Nat /\ Popped \in Nat /\ Popped >= 1
  BY LineTyped DEF Line
<1>3. Popped' = Popped - 1 /\ Popped' \in Nat
  BY <1>1, <1>2 DEF Popped
<1>4. t.pos = Popped' + 1 /\ FromLine(t)'
  BY <1>2, <1>3 DEF Line, FromLine
<1>5. ASSUME NEW k \in 1 .. Len(args')
      PROVE  args'[k].pos = Popped' + k /\ FromLine(args[k])'
  <2>1. CASE k = 1
    BY <1>1, <1>4, <2>1
  <2>2. CASE k # 1
    <3>1. k - 1 \in 1 .. Len(args) /\ args'[k] = args[k - 1]
      BY <1>1, <1>2, <2>2
    <3>2. args[k - 1].pos = Popped + (k - 1) /\ FromLine(args[k - 1])
      BY <3>1 DEF Line
    <3>3. FromLine(args[k])'
      BY <3>1, <3>2 DEF FromLine
    <3> QED BY <1>2, <1>3, <3>1, <3>2, <3>3
  <2> QED BY <2>1, <2>2
<1> QED BY <1>1, <1>3, <1>5

-----------------------------------------------------------------------------
(* Steps *)

\* How far the line is used, as a number.
LEMMA UsedFacts ==
  ASSUME Line
  PROVE  /\ Used \in Nat /\ Popped \in Nat /\ Used <= Popped
         /\ InHand => Popped = Used + 1
         /\ ~InHand => Popped = Used
  BY DEF Line, Used

LEMMA UsedFactsAfter ==
  ASSUME Line'
  PROVE  /\ Used' \in Nat /\ Popped' \in Nat /\ Used' <= Popped'
         /\ InHand' => Popped' = Used' + 1
         /\ ~InHand' => Popped' = Used'
<1>1. (InHand => Popped >= 1)'
  BY DEF Line
<1>2. (Popped \in Nat)'
  BY DEF Line
<1> QED BY <1>1, <1>2 DEF Used, Popped

\* What the occurrences say does not depend on anything else.
LEMMA SameOccurrences ==
  ASSUME UNCHANGED <<argv, outputs>>
  PROVE  /\ \A p : ValueAt(p)' = ValueAt(p) /\ FlagOccurrencesAt(p)' = FlagOccurrencesAt(p)
         /\ ValuesBindInOrder <=> ValuesBindInOrder'
  BY DEF ValueAt, FlagOccurrencesAt, ValuesBindInOrder, ArgOccurrences

\* Steps which give nothing out: at most the token in hand becomes a separator.
LEMMA QuietStep ==
  ASSUME IInv, pc \notin {"failed", "panic"}, Types', Line', IndexBound',
         UNCHANGED <<argv, outputs>>, index <= index', Used <= Used',
         pc = "cluster" => letter = 1 \/ Popped <= Used',
         pc' = "cluster" => pc = "flag" /\ letter' = 1 /\ arg' = arg /\ args' = args,
         \/ separators' = separators /\ (Used' = Used \/ pc' \in {"failed", "panic"})
         \/ /\ InHand /\ pc # "cluster"
            /\ separators' = separators \cup {Popped} /\ Used' = Popped
  PROVE  IInv'
<1>1. /\ Used \in Nat /\ Popped \in Nat /\ Used <= Popped
      /\ InHand => Popped = Used + 1
      /\ ~InHand => Popped = Used
      /\ Used' \in Nat /\ Popped' \in Nat /\ Used' <= Popped'
  BY UsedFacts, UsedFactsAfter DEF IInv
<1>2. /\ Types /\ Line /\ Bounds /\ Cluster
      /\ Len(outputs) \in Nat /\ index \in Nat /\ index' \in Nat
  BY LineTyped DEF IInv, Types
<1>3. /\ \A p : ValueAt(p)' = ValueAt(p) /\ FlagOccurrencesAt(p)' = FlagOccurrencesAt(p)
      /\ ValuesBindInOrder'
  BY SameOccurrences DEF IInv
<1>4. separators' \subseteq 1 .. Used'
  <2>1. separators \subseteq 1 .. Used
    BY <1>2 DEF Bounds
  <2>2. CASE separators' = separators
    BY <2>1, <2>2, <1>1
  <2>3. CASE InHand /\ separators' = separators \cup {Popped} /\ Used' = Popped
    <3>1. Popped \in 1 .. Used' /\ 1 .. Used \subseteq 1 .. Used'
      BY <2>3, <1>1
    <3> QED BY <2>1, <2>3, <3>1
  <2> QED BY <2>2, <2>3
<1>5. ASSUME NEW k \in 1 .. Len(outputs)
      PROVE  /\ outputs[k].flagAt <= Used' /\ outputs[k].flagAt \in Nat
             /\ \A j \in 1 .. Len(outputs[k].values) : outputs[k].values[j].pos \in 1 .. Used'
             /\ outputs[k].flagAt = 0 =>
                  Len(outputs[k].values) = 1 /\ outputs[k].name \in 1 .. index'
  <2>1. /\ outputs[k].flagAt <= (IF pc = "cluster" THEN Popped ELSE Used)
        /\ \A j \in 1 .. Len(outputs[k].values) : outputs[k].values[j].pos \in 1 .. Used
        /\ outputs[k].flagAt = 0 =>
             Len(outputs[k].values) = 1 /\ outputs[k].name \in 1 .. index
    BY <1>2 DEF Bounds
  <2>2. outputs[k].flagAt \in Nat
    BY <1>2, OccurrenceTyped
  <2>3. outputs[k].flagAt <= Used'
    <3>1. CASE pc = "cluster" /\ letter = 1
      <4>1. FlagOccurrencesAt(arg.pos) = {}  /\ arg.pos = Popped /\ Popped = Used + 1
        BY <3>1, <1>1, <1>2 DEF Cluster, Line, InHand
      <4>2. outputs[k].flagAt # Popped
        BY <4>1 DEF FlagOccurrencesAt
      <4> QED BY <4>1, <4>2, <2>1, <2>2, <3>1, <1>1
    <3>2. CASE ~(pc = "cluster" /\ letter = 1)
      BY <3>2, <2>1, <2>2, <1>1
    <3> QED BY <3>1, <3>2
  <2>4. \A j \in 1 .. Len(outputs[k].values) : outputs[k].values[j].pos \in 1 .. Used'
    BY <2>1, <1>1
  <2>5. outputs[k].flagAt = 0 =>
          Len(outputs[k].values) = 1 /\ outputs[k].name \in 1 .. index'
    BY <2>1, <1>2
  <2> QED BY <2>2, <2>3, <2>4, <2>5
<1>6. Bounds'
  BY <1>1, <1>4, <1>5 DEF Bounds
<1>7. Cluster'
  <2>1. SUFFICES ASSUME pc' = "cluster" PROVE Cluster'
    BY DEF Cluster
  <2>2. pc = "flag" /\ arg.pos = Popped /\ Popped = Used + 1
    BY <2>1, <1>1, <1>2 DEF Line, InHand
  <2>3. FlagOccurrencesAt(arg.pos) = {}
    BY <2>2, <1>1, <1>2, FreshFacts DEF Fresh
  <2>4. letter' = 1 /\ FlagOccurrencesAt(arg.pos)' = {} /\ Len(outputs') \in Nat
    BY <2>1, <2>3, <1>2, <1>3
  <2> QED BY <2>4 DEF Cluster
<1>8. AllUsed'
  <2>1. SUFFICES ASSUME pc' \notin {"failed", "panic"}, NEW p \in 1 .. Used'
                 PROVE  Role(p)'
    BY DEF AllUsed
  <2>2. CASE p \in 1 .. Used
    <3>1. Role(p) /\ p \in Nat /\ (p \in separators' <=> p \in separators)
      BY <2>2, <1>1, <1>2 DEF IInv, AllUsed
    <3> QED BY <3>1, <1>2, RoleKept
  <2>3. CASE p \notin 1 .. Used
    <3>1. /\ InHand /\ pc # "cluster" /\ p = Popped /\ Popped = Used + 1
          /\ separators' = separators \cup {Popped}
      BY <2>1, <2>3, <1>1
    <3>2. Fresh(p)
      BY <3>1, <1>1, <1>2, FreshFacts
    <3> QED BY <3>1, <3>2, <1>3 DEF Fresh, Role, UsedAsSeparator
  <2> QED BY <2>2, <2>3
<1> QED BY <1>3, <1>6, <1>7, <1>8 DEF IInv


\* The occurrences of the token in hand: the last ones, a letter for each.
Before == IF pc = "cluster" THEN letter - 1 ELSE 0
LEMMA InHandFacts ==
  ASSUME Types, Line, Bounds, Cluster, pc \in {"positional", "flag", "cluster"}
  PROVE  /\ arg.pos = Popped /\ Popped \in Nat \ {0} /\ Used = Popped - 1
         /\ arg.pos \in DOMAIN argv /\ FromLine(arg)
         /\ ValueAt(arg.pos) = {} /\ arg.pos \notin separators
         /\ Before \in 0 .. Len(outputs) /\ Len(outputs) \in Nat
         /\ FlagOccurrencesAt(arg.pos) = Len(outputs) - Before + 1 .. Len(outputs)
         /\ \A k \in Len(outputs) - Before + 1 .. Len(outputs) : outputs[k].letters = 1
         /\ \A p \in Nat : p > Popped => Fresh(p)
<1>1. /\ InHand /\ arg.pos = Popped /\ Popped \in Nat \ {0} /\ Used = Popped - 1
      /\ arg.pos <= Len(argv) /\ FromLine(arg) /\ Len(outputs) \in Nat
  BY LineTyped DEF Line, InHand, Used
<1>2. arg.pos \in DOMAIN argv
  BY <1>1, LineTyped
<1>3. \A p \in Nat : p > Popped => Fresh(p)
  BY <1>1, FreshFacts
<1>4. ValueAt(arg.pos) = {} /\ arg.pos \notin separators
  <2>1. arg.pos \notin separators
    BY <1>1 DEF Bounds
  <2>2. ASSUME NEW kj \in ValueAt(arg.pos) PROVE FALSE
    <3>1. /\ kj[1] \in 1 .. Len(outputs) /\ kj[2] \in DOMAIN argv
          /\ kj[2] <= Len(outputs[kj[1]].values) /\ outputs[kj[1]].values[kj[2]].pos = Popped
      BY <1>1 DEF ValueAt
    <3>2. kj[2] \in 1 .. Len(outputs[kj[1]].values)
      BY <3>1, OccurrenceTyped, LineTyped
    <3> QED BY <1>1, <3>1, <3>2 DEF Bounds
  <2> QED BY <2>1, <2>2
<1>5. CASE pc = "cluster"
  <2>1. Before = letter - 1 /\ letter \in Nat \ {0} /\ letter - 1 <= Len(outputs)
    BY <1>5 DEF Before, Line, Cluster, Types
  <2>2. Len(outputs) - Before + 1 = Len(outputs) - letter + 2
    BY <2>1, <1>1
  <2> QED BY <2>1, <2>2, <1>1, <1>2, <1>3, <1>4, <1>5 DEF Cluster
<1>6. CASE pc # "cluster"
  <2>1. Fresh(arg.pos) /\ Before = 0
    BY <1>1, <1>6, FreshFacts DEF Before
  <2> QED BY <2>1, <1>1, <1>2, <1>3, <1>4 DEF Fresh
<1> QED BY <1>5, <1>6

\* An occurrence which is given to the flag in hand, with the n next tokens.
LEMMA FlagAppended ==
  ASSUME Types, Line, Bounds, Cluster, pc \in {"flag", "cluster"}, UNCHANGED argv,
         NEW f \in Flag, NEW l \in Nat, NEW n \in 0 .. Len(args),
         outputs' = Append(outputs, FlagOccurrence(f, arg.pos, l, SubSeq(args, 1, n)))
  PROVE  LET o == FlagOccurrence(f, arg.pos, l, SubSeq(args, 1, n))
         IN  /\ o \in Occurrence /\ o.name = f /\ o.flagAt = arg.pos /\ o.letters = l
             /\ Len(o.values) = n /\ (n = 0 <=> o.values = <<>>)
             /\ \A j \in 1 .. n : o.values[j].pos = arg.pos + j
             /\ outputs' \in Seq(Occurrence) /\ Len(outputs) \in Nat
             /\ Len(outputs') = Len(outputs) + 1 /\ outputs'[Len(outputs) + 1] = o
             /\ \A k \in 1 .. Len(outputs) : outputs'[k] = outputs[k]
<1> DEFINE o == FlagOccurrence(f, arg.pos, l, SubSeq(args, 1, n))
<1>1. /\ arg.pos = Popped /\ Popped \in Nat \ {0}
  BY InHandFacts
<1>2. /\ SubSeq(args, 1, n) \in Seq(Token) /\ Len(SubSeq(args, 1, n)) = n
      /\ \A k \in 1 .. n : SubSeq(args, 1, n)[k] = args[k]
  BY TakenFacts
<1>3. \A k \in 1 .. n : args[k].pos = Popped + k
  BY LineTyped DEF Line
<1>4. /\ o.name = f /\ o.flagAt = arg.pos /\ o.letters = l /\ o.values = SubSeq(args, 1, n)
  BY DEF FlagOccurrence
<1>5. o \in Occurrence
  BY <1>1, <1>2 DEF FlagOccurrence, Occurrence
<1>6. n = 0 <=> SubSeq(args, 1, n) = <<>>
  <2> HIDE DEF Token
  <2> QED BY <1>2, EmptySeq
<1>7. \A j \in 1 .. n : o.values[j].pos = arg.pos + j
  BY <1>1, <1>2, <1>3, <1>4
<1>8. outputs' = Append(outputs, o)
  OBVIOUS
<1> HIDE DEF o
<1>9. /\ outputs' \in Seq(Occurrence) /\ Len(outputs) \in Nat
      /\ Len(outputs') = Len(outputs) + 1 /\ outputs'[Len(outputs) + 1] = o
      /\ \A k \in 1 .. Len(outputs) : outputs'[k] = outputs[k]
  BY <1>5, <1>8, Appended
<1>10. Len(o.values) = n /\ (n = 0 <=> o.values = <<>>)
  BY <1>2, <1>4, <1>6
<1> QED BY <1>4, <1>5, <1>7, <1>9, <1>10 DEF o

\* What a further occurrence adds at each token.
LEMMA NextAt ==
  ASSUME Types, UNCHANGED argv, NEW o \in Occurrence, outputs' = Append(outputs, o),
         NEW p \in Nat
  PROVE  /\ FlagOccurrencesAt(p)' =
              FlagOccurrencesAt(p) \cup (IF o.flagAt = p THEN {Len(outputs) + 1} ELSE {})
         /\ ValueAt(p) = {} =>
              /\ ValueAt(p)' \subseteq {Len(outputs) + 1} \X DOMAIN argv
              /\ \A j \in DOMAIN argv :
                   <<Len(outputs) + 1, j>> \in ValueAt(p)' <=>
                     j \in 1 .. Len(o.values) /\ o.values[j].pos = p
<1>1. /\ Len(outputs') = Len(outputs) + 1 /\ outputs'[Len(outputs) + 1] = o
      /\ \A k \in 1 .. Len(outputs) : outputs'[k] = outputs[k]
      /\ Len(outputs) \in Nat
  BY Appended
<1>2. DOMAIN argv \subseteq Nat \ {0} /\ Len(o.values) \in Nat
  BY LineTyped, ValuesTyped
<1>3. FlagOccurrencesAt(p)' =
        FlagOccurrencesAt(p) \cup (IF o.flagAt = p THEN {Len(outputs) + 1} ELSE {})
  BY <1>1 DEF FlagOccurrencesAt
<1>4. ASSUME ValueAt(p) = {}, NEW kj \in ValueAt(p)'
      PROVE  kj \in {Len(outputs) + 1} \X DOMAIN argv
  <2>1. /\ kj \in (1 .. Len(outputs')) \X DOMAIN argv
        /\ kj[2] <= Len(outputs'[kj[1]].values) /\ outputs'[kj[1]].values[kj[2]].pos = p
    BY DEF ValueAt
  <2>2. kj[1] \notin 1 .. Len(outputs)
    <3>1. SUFFICES ASSUME kj[1] \in 1 .. Len(outputs) PROVE FALSE
      OBVIOUS
    <3>2. kj \in (1 .. Len(outputs)) \X DOMAIN argv
      BY <2>1, <3>1
    <3> QED BY <1>1, <1>4, <2>1, <3>1, <3>2 DEF ValueAt
  <2>3. kj[1] = Len(outputs) + 1 /\ kj[2] \in DOMAIN argv
    BY <1>1, <2>1, <2>2
  <2> QED BY <2>1, <2>3
<1>5. ASSUME ValueAt(p) = {}, NEW j \in DOMAIN argv
      PROVE  <<Len(outputs) + 1, j>> \in ValueAt(p)' <=>
               j \in 1 .. Len(o.values) /\ o.values[j].pos = p
  <2> DEFINE kj == <<Len(outputs) + 1, j>>
  <2>1. kj \in (1 .. Len(outputs')) \X DOMAIN argv /\ kj[1] = Len(outputs) + 1 /\ kj[2] = j
    BY <1>1
  <2>2. kj \in ValueAt(p)' <=>
          kj[2] <= Len(outputs'[kj[1]].values) /\ outputs'[kj[1]].values[kj[2]].pos = p
    <3> HIDE DEF kj
    <3> QED BY <2>1 DEF ValueAt
  <2> QED BY <1>1, <1>2, <2>1, <2>2
<1> QED BY <1>3, <1>4, <1>5

\* A token which a further occurrence has as its only value, or in one place.
LEMMA ValueGiven ==
  ASSUME Types, UNCHANGED argv, NEW o \in Occurrence, outputs' = Append(outputs, o),
         NEW p \in Nat, Fresh(p), p \notin separators', o.flagAt # p,
         NEW j \in DOMAIN argv, j \in 1 .. Len(o.values),
         \A i \in 1 .. Len(o.values) : o.values[i].pos = p <=> i = j
  PROVE  UsedAsValue(p)'
<1>1. FlagOccurrencesAt(p)' = {}
  BY NextAt DEF Fresh
<1>2. /\ ValueAt(p)' \subseteq {Len(outputs) + 1} \X DOMAIN argv
      /\ \A i \in DOMAIN argv :
           <<Len(outputs) + 1, i>> \in ValueAt(p)' <=>
             i \in 1 .. Len(o.values) /\ o.values[i].pos = p
  BY NextAt DEF Fresh
<1>3. <<Len(outputs) + 1, j>> \in ValueAt(p)'
  BY <1>2
<1>4. ASSUME NEW kj \in ValueAt(p)' PROVE kj = <<Len(outputs) + 1, j>>
  <2>1. kj \in {Len(outputs) + 1} \X DOMAIN argv
    BY <1>2
  <2>2. kj = <<Len(outputs) + 1, kj[2]>> /\ kj[2] \in DOMAIN argv
    BY <2>1
  <2>3. kj[2] \in 1 .. Len(o.values) /\ o.values[kj[2]].pos = p
    BY <1>2, <2>2
  <2> QED BY <2>2, <2>3
<1>5. ValueAt(p)' = {<<Len(outputs) + 1, j>>}
  BY <1>3, <1>4
<1> QED BY <1>1, <1>3, <1>5 DEF UsedAsValue

\* What ValuesBindInOrder says of an occurrence of a flag.
InOrder(o) ==
  /\ \A j \in 1 .. Len(o.values) : o.values[j].pos = o.flagAt + j
  /\ FlagCounter[o.name] = Default(TRUE) =>
       \/ o.values # <<>>
       \/ o.letters > 1 \/ (argv[o.flagAt].k = "short" /\ o.name = Numeric)
       \/ argv[o.flagAt].k = "long" /\ argv[o.flagAt].hasValue

LEMMA FlagInOrder ==
  ASSUME Types, UNCHANGED argv, NEW o \in Occurrence, outputs' = Append(outputs, o),
         ValuesBindInOrder, o.flagAt # 0, InOrder(o)
  PROVE  ValuesBindInOrder'
<1> DEFINE L == Len(outputs)
<1>1. /\ Len(outputs') = L + 1 /\ outputs'[L + 1] = o /\ L \in Nat
      /\ \A k \in 1 .. L : outputs'[k] = outputs[k]
  BY Appended
<1>2. ArgOccurrences' = ArgOccurrences /\ ArgOccurrences \subseteq 1 .. L
  BY <1>1 DEF ArgOccurrences
<1>3. \A k, m \in ArgOccurrences' : k < m =>
        /\ outputs'[k].name <= outputs'[m].name
        /\ outputs'[k].values[1].pos < outputs'[m].values[1].pos
  BY <1>1, <1>2 DEF ValuesBindInOrder
<1>4. \A k \in 1 .. L \ ArgOccurrences : InOrder(outputs[k])
  BY DEF ValuesBindInOrder, InOrder
<1>5. \A k \in 1 .. Len(outputs') \ ArgOccurrences' : InOrder(outputs'[k])
  BY <1>1, <1>2, <1>4
<1> QED BY <1>3, <1>5 DEF ValuesBindInOrder, InOrder

\* A flag is given its values, and the token in hand is used up.
LEMMA FlagStep ==
  ASSUME IInv, pc \in {"flag", "cluster"}, Types', Line', IndexBound',
         UNCHANGED <<argv, separators, index>>, pc' \in {"parsing", "failed"},
         NEW f \in Flag, NEW l \in Nat, NEW n \in 0 .. Len(args), args' = Rest(n),
         outputs' = Append(outputs, FlagOccurrence(f, arg.pos, l, SubSeq(args, 1, n))),
         argv[arg.pos].k = "long" => Before = 0,
         argv[arg.pos].k = "short" => l + Before = Len(argv[arg.pos].chars),
         FlagCounter[f] = Default(TRUE) =>
           \/ n > 0 \/ l > 1 \/ (argv[arg.pos].k = "short" /\ f = Numeric)
           \/ argv[arg.pos].k = "long" /\ argv[arg.pos].hasValue
  PROVE  IInv'
<1> DEFINE o == FlagOccurrence(f, arg.pos, l, SubSeq(args, 1, n))
           L == Len(outputs)
<1>1. Types /\ Line /\ Bounds /\ Cluster
  BY DEF IInv
<1>2. /\ o \in Occurrence /\ o.name = f /\ o.flagAt = arg.pos /\ o.letters = l
      /\ Len(o.values) = n /\ (n = 0 <=> o.values = <<>>)
      /\ \A j \in 1 .. n : o.values[j].pos = arg.pos + j
      /\ outputs' \in Seq(Occurrence) /\ L \in Nat
      /\ Len(outputs') = L + 1 /\ outputs'[L + 1] = o
      /\ \A k \in 1 .. L : outputs'[k] = outputs[k]
  BY <1>1, FlagAppended
<1>3. outputs' = Append(outputs, o)
  OBVIOUS
<1> HIDE DEF o
<1>4. /\ arg.pos = Popped /\ Popped \in Nat \ {0} /\ Used = Popped - 1
      /\ arg.pos \in DOMAIN argv
      /\ ValueAt(arg.pos) = {} /\ arg.pos \notin separators
      /\ Before \in 0 .. L
      /\ FlagOccurrencesAt(arg.pos) = L - Before + 1 .. L
      /\ \A k \in L - Before + 1 .. L : outputs[k].letters = 1
      /\ \A p \in Nat : p > Popped => Fresh(p)
  BY <1>1, InHandFacts
<1>5. Popped' = Popped + n /\ Popped' <= Len(argv)
  BY <1>1, LineTaken
<1>6. Used' = Popped + n /\ n \in Nat
  BY <1>1, <1>5, LineTyped DEF Used, InHand
<1>7. Bounds'
  <2>1. separators' \subseteq 1 .. Used'
    <3>1. separators \subseteq 1 .. Used /\ 1 .. Used \subseteq 1 .. Used'
      BY <1>1, <1>4, <1>6 DEF Bounds
    <3> QED BY <3>1
  <2>2. ASSUME NEW k \in 1 .. L
        PROVE  /\ outputs[k].flagAt <= Used'
               /\ \A j \in 1 .. Len(outputs[k].values) : outputs[k].values[j].pos \in 1 .. Used'
               /\ outputs[k].flagAt = 0 =>
                    Len(outputs[k].values) = 1 /\ outputs[k].name \in 1 .. index
    <3>1. /\ outputs[k].flagAt <= (IF pc = "cluster" THEN Popped ELSE Used)
          /\ \A j \in 1 .. Len(outputs[k].values) : outputs[k].values[j].pos \in 1 .. Used
          /\ outputs[k].flagAt = 0 =>
               Len(outputs[k].values) = 1 /\ outputs[k].name \in 1 .. index
      BY <1>1 DEF Bounds
    <3>2. outputs[k].flagAt \in Nat
      BY <1>1, OccurrenceTyped
    <3>3. Used <= Used' /\ Popped <= Used' /\ Used \in Nat /\ Popped \in Nat /\ Used' \in Nat
      BY <1>4, <1>6
    <3>4. outputs[k].flagAt <= Used'
      BY <3>1, <3>2, <3>3
    <3>5. 1 .. Used \subseteq 1 .. Used'
      BY <3>3
    <3> QED BY <3>1, <3>4, <3>5
  <2>3. /\ o.flagAt <= Used' /\ o.flagAt # 0
        /\ \A j \in 1 .. Len(o.values) : o.values[j].pos \in 1 .. Used'
    <3>1. Popped <= Used' /\ \A j \in 1 .. n : Popped + j \in 1 .. Used'
      BY <1>4, <1>6
    <3>2. arg.pos = Popped /\ arg.pos # 0
      BY <1>4
    <3> QED BY <1>2, <3>1, <3>2
  <2>4. pc' # "cluster"
    OBVIOUS
  <2>5. ASSUME NEW k \in 1 .. Len(outputs')
        PROVE  /\ outputs'[k].flagAt <= Used'
               /\ \A j \in 1 .. Len(outputs'[k].values) : outputs'[k].values[j].pos \in 1 .. Used'
               /\ outputs'[k].flagAt = 0 =>
                    Len(outputs'[k].values) = 1 /\ outputs'[k].name \in 1 .. index
    <3>1. CASE k \in 1 .. L
      <4>1. outputs'[k] = outputs[k]
        BY <3>1, <1>2
      <4> QED BY <4>1, <3>1, <2>2, Zenon
    <3>2. CASE k = L + 1
      <4>1. outputs'[k] = o
        BY <3>2, <1>2
      <4> QED BY <4>1, <2>3, Zenon
    <3>3. k \in 1 .. L \/ k = L + 1
      BY <1>2
    <3> QED BY <3>1, <3>2, <3>3
  <2> QED BY <2>1, <2>4, <2>5, Zenon DEF Bounds
<1>8. Cluster'
  BY DEF Cluster
<1>9. AllUsed'
  <2>1. SUFFICES ASSUME pc' = "parsing", NEW p \in 1 .. Used' PROVE Role(p)'
    BY DEF AllUsed
  <2>2. p \in Nat /\ (p \in separators' <=> p \in separators)
    BY <1>4, <1>6
  <2>3. CASE p \in 1 .. Used
    <3>1. Role(p)
      BY <2>3 DEF IInv, AllUsed
    <3>2. o.flagAt # p /\ \A j \in 1 .. Len(o.values) : o.values[j].pos # p
      BY <2>3, <1>2, <1>4
    <3> QED BY <3>1, <3>2, <2>2, <1>1, <1>2, <1>3, RoleKept
  <2>4. CASE p = Popped
    <3>1. o.flagAt = p /\ ValueAt(p) = {} /\ o \in Occurrence
      BY <1>2, <1>4, <2>4
    <3>2. /\ FlagOccurrencesAt(p)' =
               FlagOccurrencesAt(p) \cup (IF o.flagAt = p THEN {L + 1} ELSE {})
          /\ ValueAt(p) = {} =>
              /\ ValueAt(p)' \subseteq {L + 1} \X DOMAIN argv
              /\ \A j \in DOMAIN argv :
                   <<L + 1, j>> \in ValueAt(p)' <=>
                     j \in 1 .. Len(o.values) /\ o.values[j].pos = p
      BY <1>1, <1>3, <2>2, <3>1, NextAt
    <3>3. FlagOccurrencesAt(p)' = L - Before + 1 .. L + 1
      <4>1. FlagOccurrencesAt(p)' = (L - Before + 1 .. L) \cup {L + 1}
        BY <3>1, <3>2, <1>4, <2>4
      <4> QED BY <4>1, <1>2, <1>4
    <3>4. ValueAt(p)' = {}
      <4>1. /\ ValueAt(p)' \subseteq {L + 1} \X DOMAIN argv
            /\ \A j \in DOMAIN argv :
                 <<L + 1, j>> \in ValueAt(p)' =>
                   j \in 1 .. n /\ o.values[j].pos = p
        BY <3>1, <3>2, <1>2
      <4>2. \A j \in 1 .. n : o.values[j].pos # p
        BY <1>2, <1>4, <2>4
      <4>3. \A j \in DOMAIN argv : <<L + 1, j>> \notin ValueAt(p)'
        BY <4>1, <4>2
      <4>4. \A kj \in {L + 1} \X DOMAIN argv : \E j \in DOMAIN argv : kj = <<L + 1, j>>
        OBVIOUS
      <4> HIDE DEF L
      <4> QED BY <4>1, <4>3, <4>4
    <3> DEFINE first == L - Before + 1
               last == L + 1
    <3>5. /\ first \in 1 .. Len(outputs') /\ last \in 1 .. Len(outputs') /\ first <= last
          /\ last - first = Before /\ last - 1 = L
      BY <1>2, <1>4
    <3>6. \A k \in first .. last - 1 : outputs'[k].letters = 1
      BY <1>2, <1>4
    <3>7. outputs'[last].letters = l
      BY <1>2
    <3>8. /\ argv[p].k = "long" => first = last
          /\ argv[p].k = "short" => outputs'[last].letters + (last - first) = Len(argv[p].chars)
      BY <3>5, <3>7, <1>4, <2>4
    <3> HIDE DEF first, last
    <3>9. UsedAsFlags(p)'
      BY <3>3, <3>4, <3>5, <3>6, <3>8, <2>2, <2>4, <1>4 DEF UsedAsFlags, first, last
    <3> QED BY <3>9 DEF Role
  <2>5. CASE p > Popped
    <3> DEFINE j == p - Popped
    <3>1. j \in DOMAIN argv /\ j \in 1 .. Len(o.values)
      BY <2>5, <1>2, <1>4, <1>5, <1>6, <1>1, LineTyped
    <3>2. ASSUME NEW i \in 1 .. Len(o.values) PROVE (o.values[i].pos = p) <=> (i = j)
      <4>1. i \in 1 .. n /\ o.values[i].pos = arg.pos + i
        BY <1>2
      <4>2. arg.pos + i = p <=> i = p - Popped
        BY <4>1, <2>2, <1>4
      <4> QED BY <4>1, <4>2
    <3>3. Fresh(p) /\ p \notin separators' /\ o.flagAt # p
      BY <2>5, <2>2, <1>2, <1>4 DEF Fresh
    <3> HIDE DEF j
    <3>4. UsedAsValue(p)'
      BY <1>1, <1>2, <1>3, <2>2, <3>1, <3>2, <3>3, ValueGiven
    <3> QED BY <3>4 DEF Role
  <2> QED BY <2>2, <2>3, <2>4, <2>5, <1>4, <1>6
<1>10. InOrder(o)
  <2>1. \A j \in 1 .. Len(o.values) : o.values[j].pos = o.flagAt + j
    BY <1>2
  <2>2. FlagCounter[o.name] = Default(TRUE) =>
           \/ o.values # <<>>
           \/ o.letters > 1 \/ (argv[o.flagAt].k = "short" /\ o.name = Numeric)
           \/ argv[o.flagAt].k = "long" /\ argv[o.flagAt].hasValue
    <3>1. o.values = <<>> => ~(n > 0)
      BY <1>2
    <3>2. o.name = f /\ o.flagAt = arg.pos /\ o.letters = l
      BY <1>2
    <3> QED BY <3>1, <3>2, Zenon
  <2> QED BY <2>1, <2>2, Zenon DEF InOrder
<1>11. ValuesBindInOrder'
  <2>1. o.flagAt # 0 /\ ValuesBindInOrder
    BY <1>2, <1>4 DEF IInv
  <2> QED BY <2>1, <1>1, <1>2, <1>3, <1>10, FlagInOrder
<1> QED BY <1>7, <1>8, <1>9, <1>11 DEF IInv

\* A flag of a cluster takes no value: the next letter may be a flag.
LEMMA ClusterGoesOn ==
  ASSUME IInv, pc = "cluster", Types', Line', IndexBound',
         UNCHANGED <<argv, args, arg, separators, index>>,
         pc' = "cluster", letter' = letter + 1,
         NEW f \in Flag, FlagCounter[f] # Default(TRUE),
         outputs' = Append(outputs, FlagOccurrence(f, arg.pos, 1, <<>>))
  PROVE  IInv'
<1> DEFINE o == FlagOccurrence(f, arg.pos, 1, <<>>)
           L == Len(outputs)
<1>1. Types /\ Line /\ Bounds /\ Cluster
  BY DEF IInv
<1>2. /\ o \in Occurrence /\ o.name = f /\ o.flagAt = arg.pos /\ o.letters = 1
      /\ Len(o.values) = 0 /\ L \in Nat
      /\ Len(outputs') = L + 1 /\ outputs'[L + 1] = o
      /\ \A k \in 1 .. L : outputs'[k] = outputs[k]
  <2>1. SubSeq(args, 1, 0) = <<>>
    BY <1>1, NothingTaken
  <2>2. o = FlagOccurrence(f, arg.pos, 1, SubSeq(args, 1, 0)) /\ outputs' = Append(outputs, o)
    BY <2>1
  <2>3. 0 \in 0 .. Len(args) /\ 1 \in Nat
    BY <1>1, LineTyped
  <2> HIDE DEF o
  <2> QED BY <1>1, <2>2, <2>3, FlagAppended
<1>3. outputs' = Append(outputs, o)
  OBVIOUS
<1> HIDE DEF o
<1>4. /\ arg.pos = Popped /\ Popped \in Nat \ {0} /\ Used = Popped - 1
      /\ Before \in 0 .. L
      /\ FlagOccurrencesAt(arg.pos) = L - Before + 1 .. L
      /\ \A k \in L - Before + 1 .. L : outputs[k].letters = 1
  BY <1>1, InHandFacts
<1>5. Popped' = Popped /\ Used' = Used /\ Before = letter - 1 /\ letter \in Nat
  BY <1>1 DEF Popped, Used, InHand, Before, Types
<1>6. Bounds'
  <2>1. separators' \subseteq 1 .. Used'
    BY <1>1, <1>5 DEF Bounds
  <2>2. ASSUME NEW k \in 1 .. Len(outputs')
        PROVE  /\ outputs'[k].flagAt <= Popped'
               /\ \A j \in 1 .. Len(outputs'[k].values) : outputs'[k].values[j].pos \in 1 .. Used'
               /\ outputs'[k].flagAt = 0 =>
                    Len(outputs'[k].values) = 1 /\ outputs'[k].name \in 1 .. index
    <3>1. CASE k \in 1 .. L
      <4>1. outputs'[k] = outputs[k]
        BY <3>1, <1>2
      <4> QED BY <4>1, <3>1, <1>1, <1>5, Zenon DEF Bounds
    <3>2. CASE k = L + 1
      <4>1. outputs'[k] = o
        BY <3>2, <1>2
      <4>2. 1 .. Len(o.values) = {} /\ o.flagAt <= Popped' /\ o.flagAt # 0
        BY <1>2, <1>4, <1>5
      <4> QED BY <4>1, <4>2, Zenon
    <3>3. k \in 1 .. L \/ k = L + 1
      BY <1>2
    <3> QED BY <3>1, <3>2, <3>3
  <2> QED BY <2>1, <2>2, Zenon DEF Bounds
<1>7. Cluster'
  <2>1. FlagOccurrencesAt(arg.pos)' = FlagOccurrencesAt(arg.pos) \cup {L + 1}
    <3>1. arg.pos \in Nat /\ o.flagAt = arg.pos /\ o \in Occurrence
      BY <1>2, <1>4
    <3>2. FlagOccurrencesAt(arg.pos)' =
            FlagOccurrencesAt(arg.pos) \cup (IF o.flagAt = arg.pos THEN {L + 1} ELSE {})
      <4> DEFINE p == arg.pos
      <4>1. FlagOccurrencesAt(p)' =
              FlagOccurrencesAt(p) \cup (IF o.flagAt = p THEN {L + 1} ELSE {})
        BY <3>1, <1>1, <1>3, NextAt
      <4> QED BY <4>1
    <3> QED BY <3>1, <3>2
  <2>2. FlagOccurrencesAt(arg.pos)' = L - Before + 1 .. L + 1
    BY <2>1, <1>2, <1>4
  <2>3. \A k \in L - Before + 1 .. L + 1 : outputs'[k].letters = 1
    BY <1>2, <1>4
  <2>4. /\ letter' - 1 <= Len(outputs')
        /\ L - Before + 1 = Len(outputs') - letter' + 2 /\ L + 1 = Len(outputs')
    BY <1>2, <1>4, <1>5
  <2> QED BY <2>2, <2>3, <2>4 DEF Cluster
<1>8. AllUsed'
  <2>1. SUFFICES ASSUME NEW p \in 1 .. Used PROVE Role(p)'
    BY <1>5 DEF AllUsed
  <2>2. Role(p)
    BY DEF IInv, AllUsed
  <2>3. p \in Nat /\ (p \in separators' <=> p \in separators)
    OBVIOUS
  <2>4. o.flagAt # p /\ \A j \in 1 .. Len(o.values) : o.values[j].pos # p
    BY <1>2, <1>4
  <2> QED BY <2>2, <2>3, <2>4, <1>1, <1>2, <1>3, RoleKept
<1>9. InOrder(o)
  <2>1. \A j \in 1 .. Len(o.values) : o.values[j].pos = o.flagAt + j
    BY <1>2
  <2>2. FlagCounter[o.name] # Default(TRUE)
    BY <1>2
  <2> QED BY <2>1, <2>2, Zenon DEF InOrder
<1>10. ValuesBindInOrder'
  <2>1. o.flagAt # 0 /\ ValuesBindInOrder
    BY <1>2, <1>4 DEF IInv
  <2> QED BY <2>1, <1>1, <1>2, <1>3, <1>9, FlagInOrder
<1> QED BY <1>6, <1>7, <1>8, <1>10 DEF IInv

\* A positional arg is given the token in hand, which is used up.
LEMMA ArgStep ==
  ASSUME IInv, pc = "positional", Types', Line', IndexBound',
         UNCHANGED <<argv, separators>>, index <= index',
         pc' \in {"positional", "parsing", "failed"}, Used' = Popped,
         outputs' = Append(outputs, ArgOccurrence(index', arg))
  PROVE  IInv'
<1> DEFINE o == ArgOccurrence(index', arg)
           L == Len(outputs)
<1>1. Types /\ Line /\ Bounds /\ Cluster /\ ValuesBindInOrder
  BY DEF IInv
<1>2. /\ o \in Occurrence /\ o.name = index' /\ o.flagAt = 0 /\ o.values = <<arg>>
      /\ Len(o.values) = 1 /\ o.values[1] = arg
  <2>1. arg \in Token /\ index' \in Nat
    BY <1>1 DEF Types
  <2>2. <<arg>> \in Seq(Token)
    <3> HIDE DEF Token
    <3> QED BY <2>1
  <2> QED BY <2>1, <2>2 DEF ArgOccurrence, Occurrence
<1>3. outputs' = Append(outputs, o)
  OBVIOUS
<1> HIDE DEF o
<1>4. /\ L \in Nat /\ Len(outputs') = L + 1 /\ outputs'[L + 1] = o
      /\ \A k \in 1 .. L : outputs'[k] = outputs[k]
  BY <1>1, <1>2, <1>3, Appended
<1>5. /\ arg.pos = Popped /\ Popped \in Nat \ {0} /\ Used = Popped - 1
      /\ arg.pos \in DOMAIN argv /\ Before = 0
      /\ ValueAt(arg.pos) = {} /\ arg.pos \notin separators
      /\ FlagOccurrencesAt(arg.pos) = L - Before + 1 .. L
  BY <1>1, InHandFacts DEF Before
<1>6. index \in Nat \ {0} /\ index' \in Nat \ {0}
  BY <1>1 DEF Types
<1>7. ASSUME NEW k \in 1 .. L
      PROVE  /\ outputs[k].flagAt <= Used
             /\ \A j \in 1 .. Len(outputs[k].values) : outputs[k].values[j].pos \in 1 .. Used
             /\ outputs[k].flagAt = 0 =>
                  Len(outputs[k].values) = 1 /\ outputs[k].name \in 1 .. index
  BY <1>1 DEF Bounds
<1>8. Bounds'
  <2>1. separators' \subseteq 1 .. Used'
    <3>1. separators \subseteq 1 .. Used /\ 1 .. Used \subseteq 1 .. Used'
      BY <1>1, <1>5 DEF Bounds
    <3> QED BY <3>1
  <2>2. ASSUME NEW k \in 1 .. Len(outputs')
        PROVE  /\ outputs'[k].flagAt <= Used'
               /\ \A j \in 1 .. Len(outputs'[k].values) : outputs'[k].values[j].pos \in 1 .. Used'
               /\ outputs'[k].flagAt = 0 =>
                    Len(outputs'[k].values) = 1 /\ outputs'[k].name \in 1 .. index'
    <3>1. CASE k \in 1 .. L
      <4>1. outputs'[k] = outputs[k] /\ outputs[k].flagAt \in Nat
        BY <3>1, <1>1, <1>4, OccurrenceTyped
      <4>2. outputs[k].flagAt <= Used'
        BY <4>1, <3>1, <1>5, <1>7
      <4>3. \A j \in 1 .. Len(outputs[k].values) : outputs[k].values[j].pos \in 1 .. Used'
        BY <3>1, <1>5, <1>7
      <4>4. outputs[k].flagAt = 0 =>
              Len(outputs[k].values) = 1 /\ outputs[k].name \in 1 .. index'
        BY <3>1, <1>6, <1>7
      <4> QED BY <4>1, <4>2, <4>3, <4>4, Zenon
    <3>2. CASE k = L + 1
      <4>1. outputs'[k] = o
        BY <3>2, <1>4
      <4>2. o.flagAt <= Used' /\ \A j \in 1 .. Len(o.values) : o.values[j].pos \in 1 .. Used'
        BY <1>2, <1>5
      <4>3. Len(o.values) = 1 /\ o.name \in 1 .. index'
        BY <1>2, <1>6
      <4> QED BY <4>1, <4>2, <4>3, Zenon
    <3>3. k \in 1 .. L \/ k = L + 1
      BY <1>4
    <3> QED BY <3>1, <3>2, <3>3
  <2>3. pc' # "cluster"
    OBVIOUS
  <2> QED BY <2>1, <2>2, <2>3, Zenon DEF Bounds
<1>9. Cluster'
  BY DEF Cluster
<1>10. AllUsed'
  <2>1. SUFFICES ASSUME NEW p \in 1 .. Used' PROVE Role(p)'
    BY DEF AllUsed
  <2>2. p \in Nat /\ (p \in separators' <=> p \in separators)
    BY <1>5
  <2>3. CASE p \in 1 .. Used
    <3>1. Role(p)
      BY <2>3 DEF IInv, AllUsed
    <3>2. o.flagAt # p /\ \A j \in 1 .. Len(o.values) : o.values[j].pos # p
      BY <2>3, <1>2, <1>5
    <3> QED BY <3>1, <3>2, <2>2, <1>1, <1>2, <1>3, RoleKept
  <2>4. CASE p = Popped
    <3>1. 1 \in DOMAIN argv /\ 1 \in 1 .. Len(o.values)
      BY <1>1, <1>2, <1>5, LineTyped
    <3>2. ASSUME NEW i \in 1 .. Len(o.values) PROVE (o.values[i].pos = p) <=> (i = 1)
      BY <2>4, <1>2, <1>5
    <3>3. Fresh(p) /\ p \notin separators' /\ o.flagAt # p
      BY <2>4, <2>2, <1>2, <1>4, <1>5 DEF Fresh
    <3>4. UsedAsValue(p)'
      BY <1>1, <1>2, <1>3, <2>2, <3>1, <3>2, <3>3, ValueGiven
    <3> QED BY <3>4 DEF Role
  <2> QED BY <2>3, <2>4, <1>5
<1>11. ValuesBindInOrder'
  <2>1. ArgOccurrences' = ArgOccurrences \cup {L + 1} /\ ArgOccurrences \subseteq 1 .. L
    BY <1>2, <1>4 DEF ArgOccurrences
  <2>2. ASSUME NEW k \in ArgOccurrences', NEW m \in ArgOccurrences', k < m
        PROVE  /\ outputs'[k].name <= outputs'[m].name
               /\ outputs'[k].values[1].pos < outputs'[m].values[1].pos
    <3>1. m \in Nat /\ m <= L + 1
      <4>1. L \in Nat
        BY <1>4
      <4> HIDE DEF L
      <4> QED BY <2>1, <4>1
    <3>2. k \in ArgOccurrences
      <4>1. k # L + 1
        <5>1. L \in Nat
          BY <1>4
        <5> HIDE DEF L
        <5> QED BY <3>1, <2>2, <5>1
      <4> QED BY <4>1, <2>1
    <3>3. CASE m \in ArgOccurrences
      BY <2>1, <2>2, <3>2, <3>3, <1>1, <1>4 DEF ValuesBindInOrder
    <3>4. CASE m = L + 1
      <4>1. k \in 1 .. L /\ outputs[k].flagAt = 0
        BY <3>2 DEF ArgOccurrences
      <4>2. Len(outputs[k].values) = 1 /\ outputs[k].name \in 1 .. index
        BY <4>1, <1>7
      <4>3. outputs[k].values[1].pos \in 1 .. Used
        BY <4>1, <4>2, <1>7
      <4>4. outputs'[k] = outputs[k] /\ outputs'[m] = o
        BY <4>1, <3>4, <1>4
      <4>5. outputs'[k].name <= outputs'[m].name
        BY <4>2, <4>4, <1>2, <1>6
      <4>6. outputs'[k].values[1].pos < outputs'[m].values[1].pos
        BY <4>3, <4>4, <1>2, <1>5
      <4> QED BY <4>5, <4>6
    <3> QED BY <2>1, <3>3, <3>4
  <2>3. \A k \in 1 .. L \ ArgOccurrences : InOrder(outputs[k])
    BY <1>1 DEF ValuesBindInOrder, InOrder
  <2>4. \A k \in 1 .. Len(outputs') \ ArgOccurrences' : InOrder(outputs'[k])
    BY <1>4, <2>1, <2>3
  <2>5. \A k \in 1 .. Len(outputs') \ ArgOccurrences' : InOrder(outputs[k])'
    BY <2>4 DEF InOrder
  <2> QED BY <2>2, <2>5 DEF ValuesBindInOrder, InOrder
<1> QED BY <1>8, <1>9, <1>10, <1>11 DEF IInv

-----------------------------------------------------------------------------
(* Actions *)

LEMMA LineSame ==
  ASSUME Line, UNCHANGED <<argv, args, arg>>
  PROVE  /\ Popped' = Popped /\ Popped' \in Nat /\ arg'.pos <= Len(argv')
         /\ \A k \in 1 .. Len(args') : args'[k].pos = Popped' + k /\ FromLine(args[k])'
         /\ InHand => Popped' >= 1 /\ arg'.pos = Popped' /\ FromLine(arg)'
<1>1. Popped' = Popped
  BY DEF Popped
<1> QED BY <1>1, Zenon DEF Line, FromLine

LEMMA SkipFacts ==
  ASSUME Types
  PROVE  LeadingSkip \in 0 .. Len(takers)
<1> DEFINE n == Len(takers)
           S == {m \in 1 .. n : m = n \/ ArgumentCount - RequiredByLast(m) <= 1}
<1>1. n \in Nat
  BY TakersLength
<1>2. S \in SUBSET Nat /\ S \subseteq 1 .. n
  OBVIOUS
<1>3. n # 0 => n \in S
  BY <1>1
<1>4. LeadingSkip = IF n = 0 THEN 0 ELSE n - Min(S)
  BY DEF LeadingSkip
<1> HIDE DEF S, n
<1>5. n # 0 => Min(S) \in S
  BY <1>2, <1>3, MinFacts
<1>6. n # 0 => Min(S) \in 1 .. n
  BY <1>2, <1>5
<1>7. LeadingSkip \in 0 .. n
  BY <1>1, <1>4, <1>6
<1> QED BY <1>7 DEF n

LEMMA StartLeads == Start => pc' \in {"parsing", "failed"}
BY DEF Start

LEMMA EndLeads == EndOfTokens => pc' \in {"done", "failed"} /\ args' = <<>>
BY DEF EndOfTokens

LEMMA StartKeeps ==
  ASSUME IInv, Start
  PROVE  IInv'
<1>1. Types /\ Line /\ IndexBound
  BY DEF IInv
<1> DEFINE skip == IF command.rightToLeft THEN LeadingSkip ELSE 0
           refused == {j \in 1 .. skip : ~Done(takers[j])}
<1>2. Len(takers) = Len(command.takers) /\ Len(takers) \in Nat
  BY <1>1, TakersLength
<1>3. skip \in 0 .. Len(takers)
  BY <1>1, <1>2, SkipFacts
<1>4. /\ index' = IF refused = {} THEN skip + 1 ELSE Min(refused)
      /\ pc = "start" /\ pc' \in {"parsing", "failed"}
      /\ UNCHANGED <<command, argv, args, arg, letter, anyArgs, takers, outputs, separators>>
  BY DEF Start, input
<1>5. state' \in {"flagsOrArgs", "didPushbackArg", "argsOnly"}
  BY DEF Start
<1> HIDE DEF skip
<1>6. refused # {} => Min(refused) \in 1 .. skip
  <2>1. refused \in SUBSET Nat /\ refused \subseteq 1 .. skip
    OBVIOUS
  <2> HIDE DEF refused
  <2> QED BY <2>1, MinFacts
<1> HIDE DEF refused
<1>7. index' \in 1 .. Len(takers) + 1
  BY <1>2, <1>3, <1>4, <1>6
<1>8. Types'
  BY <1>1, <1>2, <1>4, <1>5, <1>7 DEF Types
<1>9. Line'
  <2>1. pc' # "done" /\ pc' # "cluster" /\ ~InHand'
    <3>1. pc' \in {"parsing", "failed"}
      BY StartLeads, Zenon
    <3> QED BY <3>1 DEF InHand
  <2> QED BY <1>1, <1>4, <2>1, LineSame, Zenon DEF Line
<1>10. Used \in Nat /\ Used' = Used /\ index = 1
  BY <1>1, <1>4, UsedFacts, Zenon DEF Used, InHand, Popped, IndexBound
<1>11. IndexBound'
  BY <1>2, <1>4, <1>7, <1>10 DEF IndexBound
<1> QED BY <1>4, <1>7, <1>8, <1>9, <1>10, <1>11, <1>2, QuietStep

LEMMA NextTokenKeeps ==
  ASSUME IInv, NextToken
  PROVE  IInv'
<1>1. Types /\ Line /\ IndexBound
  BY DEF IInv
<1>2. /\ pc = "parsing" /\ pc' \in {"positional", "flag"} /\ args # <<>>
      /\ args' = Tail(args) /\ arg' = Head(args)
      /\ UNCHANGED <<command, argv, state, letter, anyArgs, index, takers, outputs, separators>>
  BY DEF NextToken, input, binding
<1>3. /\ Popped' = Popped + 1 /\ Popped' \in Nat /\ Popped' <= Len(argv)
      /\ \A k \in 1 .. Len(args') : args'[k].pos = Popped' + k /\ FromLine(args[k])'
      /\ args' \in Seq(Token) /\ arg' \in Token /\ arg'.pos = Popped' /\ FromLine(arg)'
  BY <1>1, <1>2, LinePopped
<1>4. Types'
  BY <1>1, <1>2, <1>3 DEF Types
<1>5. Popped \in Nat
  BY <1>1 DEF Line
<1>6. Line'
  <2>1. Popped' >= 1 /\ arg'.pos <= Len(argv)
    BY <1>3, <1>5
  <2> QED BY <1>2, <1>3, <2>1, Zenon DEF Line
<1>7. Used' = Used /\ Used \in Nat
  BY <1>2, <1>3, <1>5 DEF Used, InHand
<1>8. IndexBound'
  BY <1>1, <1>2, <1>7 DEF IndexBound
<1>9. index \in Nat
  BY <1>1 DEF Types
<1> QED BY <1>2, <1>4, <1>6, <1>7, <1>8, <1>9, QuietStep

\* The parsing loop ends, with the index where it is.
LEMMA EndOfTokensKeeps ==
  ASSUME IInv, EndOfTokens
  PROVE  IInv'
<1>1. Types /\ Line /\ IndexBound
  BY DEF IInv
<1>2. /\ pc = "parsing" /\ pc' \in {"done", "failed"} /\ args = <<>>
      /\ UNCHANGED <<command, argv, state, args, arg, letter, anyArgs, index, takers,
                     outputs, separators>>
  BY DEF EndOfTokens, input, binding
<1>3. Types'
  BY <1>1, <1>2 DEF Types
<1>4. Line'
  <2>1. (pc' = "done" => args' = <<>>) /\ pc' # "cluster" /\ ~InHand'
    <3>1. pc' \in {"done", "failed"} /\ args' = <<>>
      BY EndLeads, Zenon
    <3> QED BY <3>1 DEF InHand
  <2> QED BY <1>1, <1>2, <2>1, LineSame, Zenon DEF Line
<1>5. Used' = Used /\ Used \in Nat
  BY <1>1, <1>2, UsedFacts, Zenon DEF Used, InHand, Popped
<1>6. IndexBound'
  BY <1>1, <1>2, <1>5 DEF IndexBound
<1>7. index \in Nat
  BY <1>1 DEF Types
<1> QED BY <1>2, <1>3, <1>4, <1>5, <1>6, <1>7, QuietStep

\* The index moves no faster than the line is used.
LEMMA IndexKept ==
  ASSUME Types, IndexBound, command' = command, Used \in Nat, Used' \in Nat,
         index' \in Nat, pc' # "start",
         \/ index' = index /\ Used <= Used'
         \/ index' = index + 1 /\ Used' = Used + 1
  PROVE  IndexBound'
<1> DEFINE N == Len(command.takers)
<1>1. N \in Nat /\ index \in Nat /\ index <= N + 1 + Used
  BY TakersLength DEF IndexBound, Types
<1>2. Len(command'.takers) = N
  OBVIOUS
<1> HIDE DEF N
<1>3. index' <= N + 1 + Used'
  <2>1. CASE index' = index /\ Used <= Used'
    <3> DEFINE u == Used
               v == Used'
    <3>1. u \in Nat /\ v \in Nat /\ u <= v /\ index <= N + 1 + u
      BY <1>1, <2>1
    <3> HIDE DEF u, v
    <3>2. index <= N + 1 + v
      BY <1>1, <3>1
    <3> QED BY <2>1, <3>2 DEF v
  <2>2. CASE index' = index + 1 /\ Used' = Used + 1
    BY <1>1, <2>2
  <2> QED BY <2>1, <2>2
<1> QED BY <1>2, <1>3, Zenon DEF IndexBound

LEMMA TerminatorKeeps ==
  ASSUME IInv, Terminator
  PROVE  IInv'
<1>1. Types /\ Line /\ IndexBound
  BY DEF IInv
<1>2. /\ pc = "positional" /\ InHand
      /\ UNCHANGED <<command, argv, args, arg, letter, anyArgs, takers, outputs>>
      /\ state' = "argsOnly"
      /\ \/ /\ index' = index + 1 /\ separators' = separators \cup {arg.pos}
            /\ pc' = "parsing"
         \/ pc' = "failed" /\ index' = index /\ separators' = separators
  BY DEF Terminator, Fail, input, InHand
<1>3. /\ Used \in Nat /\ Popped = Used + 1 /\ arg.pos = Popped /\ Popped' = Popped
      /\ index \in Nat \ {0}
  BY <1>1, <1>2, UsedFacts, LineSame DEF Line, Types
<1>4. Types'
  BY <1>1, <1>2, <1>3 DEF Types
<1>5. Line'
  BY <1>1, <1>2, LineSame DEF Line, InHand
<1>6. Used' = Popped
  BY <1>2, <1>3 DEF Used, InHand
<1>7. IndexBound'
  <2>1. /\ Used' = Used + 1 /\ index' \in Nat /\ (index' = index + 1 \/ index' = index)
        /\ pc' # "start" /\ command' = command
    BY <1>2, <1>3, <1>6
  <2>2. Used' \in Nat /\ Used <= Used'
    BY <1>3, <2>1
  <2> QED BY <1>1, <1>3, <2>1, <2>2, IndexKept
<1> QED BY <1>2, <1>3, <1>4, <1>5, <1>6, <1>7, QuietStep

\* The index after a token is offered to the positional args.
LEMMA OfferKeeps ==
  ASSUME IInv, pc = "positional", index' = Offer.index, takers' = Offer.takers,
         command' = command, Used \in Nat, Used' \in Nat, Used <= Used',
         pc' # "start"
  PROVE  /\ index' \in Nat \ {0} /\ index <= index' /\ IndexBound'
         /\ DOMAIN takers' = 1 .. Len(command.takers)
<1>1. Types /\ IndexBound /\ index \in Nat \ {0}
  BY DEF IInv, Types
<1>2. Len(command.takers) \in Nat
  BY <1>1, TakersLength
<1>3. /\ index' \in Nat /\ index <= index'
      /\ index' <= Len(command.takers) + 1 \/ index' = index
      /\ DOMAIN takers' = 1 .. Len(command.takers)
  BY <1>1, SetArgFacts DEF Offer
<1>4. index' <= Len(command'.takers) + 1 + Used'
  BY <1>1, <1>2, <1>3 DEF IndexBound
<1> QED BY <1>1, <1>3, <1>4 DEF IndexBound

LEMMA RefuseArgKeeps ==
  ASSUME IInv, RefuseArg
  PROVE  IInv'
<1>1. Types /\ Line
  BY DEF IInv
<1>2. /\ pc = "positional" /\ InHand /\ pc' \in {"flag", "failed"}
      /\ index' = Offer.index /\ takers' = Offer.takers
      /\ UNCHANGED <<command, argv, state, args, arg, letter, anyArgs, outputs, separators>>
  BY DEF RefuseArg, input, InHand
<1>3. Used \in Nat /\ Popped = Used + 1 /\ Popped' = Popped
  BY <1>1, <1>2, UsedFacts, LineSame
<1>4. Used' \in Nat /\ Used <= Used' /\ (pc' = "flag" => Used' = Used)
  BY <1>2, <1>3 DEF Used, InHand
<1>5. /\ index' \in Nat \ {0} /\ index <= index' /\ IndexBound'
      /\ DOMAIN takers' = 1 .. Len(command.takers)
  BY <1>2, <1>3, <1>4, OfferKeeps
<1>6. Types'
  BY <1>1, <1>2, <1>5 DEF Types
<1>7. Line'
  BY <1>1, <1>2, LineSame DEF Line, InHand
<1> QED BY <1>2, <1>4, <1>5, <1>6, <1>7, QuietStep

LEMMA BindArgKeeps ==
  ASSUME IInv, BindArg
  PROVE  IInv'
<1>1. Types /\ Line
  BY DEF IInv
<1>2. /\ pc = "positional" /\ InHand
      /\ index' = Offer.index /\ takers' = Offer.takers
      /\ outputs' = Append(outputs, ArgOccurrence(index', arg))
      /\ state' = AcceptedState
      /\ UNCHANGED <<command, argv, letter, separators>>
      /\ \/ /\ args = <<>> /\ pc' \in {"parsing", "failed"}
            /\ UNCHANGED <<args, arg, anyArgs>>
         \/ /\ args # <<>> /\ pc' = "positional" /\ anyArgs' = TRUE
            /\ args' = Tail(args) /\ arg' = Head(args)
  BY Zenon DEF BindArg, input, InHand
<1>3. Used \in Nat /\ Popped = Used + 1 /\ Popped \in Nat
  BY <1>1, <1>2, UsedFacts
<1>4. /\ Popped' \in Nat /\ Used' = Popped /\ arg'.pos <= Len(argv')
      /\ \A k \in 1 .. Len(args') : args'[k].pos = Popped' + k /\ FromLine(args[k])'
      /\ InHand' => Popped' >= 1 /\ arg'.pos = Popped' /\ FromLine(arg)'
      /\ args' \in Seq(Token) /\ arg' \in Token /\ anyArgs' \in BOOLEAN
  <2>1. CASE args = <<>>
    <3>1. UNCHANGED <<args, arg, anyArgs>> /\ ~InHand'
      BY <1>2, <2>1 DEF InHand
    <3>2. Popped' = Popped
      BY <1>2, <3>1 DEF Popped
    <3>3. Used' = Popped
      BY <3>1, <3>2 DEF Used
    <3> QED BY <1>1, <1>2, <3>1, <3>3, LineSame DEF Types
  <2>2. CASE args # <<>>
    <3>1. /\ args' = Tail(args) /\ arg' = Head(args) /\ InHand' /\ anyArgs' = TRUE
      BY <1>2, <2>2 DEF InHand
    <3>2. /\ Popped' = Popped + 1 /\ Popped' \in Nat /\ Popped' <= Len(argv)
          /\ \A k \in 1 .. Len(args') : args'[k].pos = Popped' + k /\ FromLine(args[k])'
          /\ args' \in Seq(Token) /\ arg' \in Token /\ arg'.pos = Popped' /\ FromLine(arg)'
      BY <1>1, <1>2, <2>2, <3>1, LinePopped
    <3>3. Used' = Popped /\ Popped' >= 1 /\ arg'.pos <= Len(argv')
      BY <1>2, <1>3, <3>1, <3>2 DEF Used
    <3> QED BY <3>1, <3>2, <3>3
  <2> QED BY <2>1, <2>2
<1>5. /\ index' \in Nat \ {0} /\ index <= index' /\ IndexBound'
      /\ DOMAIN takers' = 1 .. Len(command.takers)
  <2>1. Used' \in Nat /\ Used <= Used' /\ pc' # "start"
    BY <1>2, <1>3, <1>4
  <2> QED BY <1>2, <1>3, <2>1, OfferKeeps
<1>6. outputs' \in Seq(Occurrence)
  <2>1. ArgOccurrence(index', arg) \in Occurrence
    <3>1. arg \in Token
      BY <1>1 DEF Types
    <3>2. <<arg>> \in Seq(Token)
      <4> HIDE DEF Token
      <4> QED BY <3>1
    <3> QED BY <1>5, <3>2 DEF ArgOccurrence, Occurrence
  <2> QED BY <1>1, <1>2, <2>1, Appended
<1>7. Types'
  <2>1. state' \in {"flagsOrArgs", "didPushbackArg", "argsOnly"}
    BY <1>1, <1>2 DEF Types, AcceptedState
  <2> QED BY <1>1, <1>2, <1>4, <1>5, <1>6, <2>1 DEF Types
<1>8. Line'
  BY <1>2, <1>4, Zenon DEF Line
<1> QED BY <1>2, <1>4, <1>5, <1>7, <1>8, ArgStep

LEMMA EndOfOptionsKeeps ==
  ASSUME IInv, EndOfOptions
  PROVE  IInv'
<1>1. Types /\ Line /\ IndexBound
  BY DEF IInv
<1>2. /\ pc = "flag" /\ InHand /\ pc' = "parsing" /\ state' = "argsOnly"
      /\ separators' = separators \cup {arg.pos}
      /\ UNCHANGED <<command, argv, args, arg, letter, anyArgs, index, takers, outputs>>
  BY DEF EndOfOptions, input, binding, InHand
<1>3. /\ Used \in Nat /\ Popped = Used + 1 /\ arg.pos = Popped /\ Popped' = Popped
      /\ index \in Nat \ {0}
  BY <1>1, <1>2, UsedFacts, LineSame DEF Line, Types
<1>4. Types'
  BY <1>1, <1>2 DEF Types
<1>5. Line'
  BY <1>1, <1>2, LineSame DEF Line, InHand
<1>6. Used' = Popped
  BY <1>2, <1>3 DEF Used, InHand
<1>7. IndexBound'
  <2>1. Used' = Used + 1 /\ index' = index /\ pc' # "start" /\ command' = command
    BY <1>2, <1>3, <1>6
  <2>2. Used' \in Nat /\ Used <= Used'
    BY <1>3, <2>1
  <2> QED BY <1>1, <1>3, <2>1, <2>2, IndexKept
<1> QED BY <1>2, <1>3, <1>4, <1>5, <1>6, <1>7, QuietStep

\* The parser stops with an error, whatever it does with the tokens left.
LEMMA StopKeeps ==
  ASSUME IInv, pc \in {"flag", "cluster"}, pc' \in {"failed", "panic"},
         UNCHANGED <<command, argv, state, arg, letter, anyArgs, index, takers, outputs,
                     separators>>,
         args' = args \/ \E n \in 0 .. Len(args) : args' = Rest(n)
  PROVE  IInv'
<1>1. Types /\ Line /\ IndexBound
  BY DEF IInv
<1>2. InHand /\ ~InHand'
  BY DEF InHand
<1>3. /\ Used \in Nat /\ Popped = Used + 1 /\ index \in Nat \ {0}
  BY <1>1, <1>2, UsedFacts DEF Types
<1>4. PICK n \in 0 .. Len(args) : args' = Rest(n)
  BY <1>1, LineTyped, NothingTaken
<1>5. /\ Popped' = Popped + n /\ Popped' \in Nat /\ Popped' <= Len(argv)
      /\ \A k \in 1 .. Len(args') : args'[k].pos = Popped' + k /\ FromLine(args[k])'
      /\ args' \in Seq(Token)
  BY <1>1, <1>4, LineTaken
<1>6. Types'
  BY <1>1, <1>5 DEF Types
<1>7. arg'.pos <= Len(argv')
  BY <1>1 DEF Line
<1>8. Line'
  BY <1>2, <1>5, <1>7, Zenon DEF Line
<1>9. Used' = Popped' /\ Used <= Used' /\ Popped <= Used'
  BY <1>2, <1>3, <1>4, <1>5 DEF Used
<1>10. IndexBound'
  <2>1. Used' \in Nat /\ index' = index /\ pc' # "start" /\ command' = command
    BY <1>5, <1>9
  <2> QED BY <1>1, <1>3, <1>9, <2>1, IndexKept
<1> QED BY <1>3, <1>6, <1>8, <1>9, <1>10, QuietStep

\* A token which names no flag is pushed back, or the parser stops.
LEMMA UnknownKeeps ==
  ASSUME IInv, pc \in {"flag", "cluster"}, pc = "cluster" => letter = 1,
         NEW t \in Token, t.pos = arg.pos, FromLine(t), Unknown(t)
  PROVE  IInv'
<1>1. Types /\ Line /\ IndexBound
  BY DEF IInv
<1>2. /\ UNCHANGED <<command, argv, arg, letter, anyArgs, index, takers, outputs, separators>>
      /\ \/ state' = "didPushbackArg" /\ args' = pushBack(t) /\ pc' = "parsing"
         \/ pc' = "failed" /\ UNCHANGED <<state, args>>
  BY DEF Unknown, Fail, PushedState, input, binding
<1>3. CASE pc' = "failed" /\ UNCHANGED <<state, args>>
  BY <1>2, <1>3, StopKeeps
<1>4. CASE state' = "didPushbackArg" /\ args' = pushBack(t) /\ pc' = "parsing"
  <2>1. InHand /\ ~InHand'
    BY <1>4 DEF InHand
  <2>2. /\ Used \in Nat /\ Popped = Used + 1 /\ index \in Nat \ {0}
    BY <1>1, <2>1, UsedFacts DEF Types
  <2>3. /\ Popped' = Popped - 1 /\ Popped' \in Nat
        /\ \A k \in 1 .. Len(args') : args'[k].pos = Popped' + k /\ FromLine(args[k])'
        /\ args' \in Seq(Token)
    BY <1>1, <1>2, <1>4, <2>1, LinePushed
  <2>4. Types'
    BY <1>1, <1>2, <1>4, <2>3 DEF Types
  <2>5. arg'.pos <= Len(argv')
    BY <1>1, <1>2 DEF Line
  <2>6. Line'
    BY <1>4, <2>1, <2>3, <2>5, Zenon DEF Line
  <2>7. Used' = Used
    BY <2>1, <2>2, <2>3 DEF Used
  <2>8. IndexBound'
    BY <1>1, <1>2, <1>4, <2>7 DEF IndexBound
  <2> QED BY <1>2, <1>4, <2>2, <2>4, <2>6, <2>7, <2>8, QuietStep
<1> QED BY <1>2, <1>3, <1>4

LEMMA TokenKinds ==
  ASSUME NEW t \in TokenType
  PROVE  /\ t.k = "long" => t \in [k : {"long"}, name : Name, hasValue : BOOLEAN]
         /\ t.k = "short" => t.chars \in Seq(Name) /\ Len(t.chars) \in Nat \ {0}
<1>1. t.k = "long" => t \in [k : {"long"}, name : Name, hasValue : BOOLEAN]
  BY DEF TokenType, Word, NameEq, Dash, DashDash
<1>2. t.k = "short" => t.chars \in Seq(Name) \ {<<>>}
  BY DEF TokenType, Word, NameEq, Dash, DashDash
<1>3. ASSUME NEW s \in Seq(Name) \ {<<>>} PROVE Len(s) \in Nat \ {0}
  BY EmptySeq
<1> QED BY <1>1, <1>2, <1>3

LEMMA LoneDashKeeps ==
  ASSUME IInv, LoneDash
  PROVE  IInv'
  BY StopKeeps DEF LoneDash, input, binding

LEMMA FlagAfterArgKeeps ==
  ASSUME IInv, FlagAfterArg
  PROVE  IInv'
  BY StopKeeps DEF FlagAfterArg, Fail, input, binding

LEMMA UnknownLongKeeps ==
  ASSUME IInv, UnknownLong
  PROVE  IInv'
<1> DEFINE bare == [arg.tok EXCEPT !.hasValue = FALSE]
           t == [arg EXCEPT !.tok = [@ EXCEPT !.hasValue = FALSE]]
<1>1. /\ pc = "flag" /\ arg.tok.k = "long" /\ arg.tok.name \notin Flag /\ Unknown(t)
  BY DEF UnknownLong
<1>2. Types /\ Line /\ arg \in Token /\ InHand
  BY <1>1 DEF IInv, Types, InHand
<1>3. arg.tok \in [k : {"long"}, name : Name, hasValue : BOOLEAN]
  BY <1>1, <1>2, TokenKinds DEF Token
<1>4. bare \in TokenType /\ bare.k = "long" /\ bare.name = arg.tok.name
  <2>1. bare \in [k : {"long"}, name : Name, hasValue : BOOLEAN]
    BY <1>3
  <2> QED BY <1>3, <2>1 DEF TokenType
<1>5. t = [arg EXCEPT !.tok = bare]
  OBVIOUS
<1> HIDE DEF bare, t
<1>6. t \in Token /\ t.pos = arg.pos /\ t.tok = bare
  BY <1>2, <1>4, <1>5 DEF Token
<1>7. argv[arg.pos].k = "long"
  BY <1>1, <1>2 DEF Line, FromLine
<1>8. FromLine(t)
  BY <1>1, <1>4, <1>6, <1>7 DEF FromLine
<1> QED BY <1>1, <1>6, <1>8, UnknownKeeps

LEMMA UnknownShortKeeps ==
  ASSUME IInv, UnknownShort
  PROVE  IInv'
<1>1. pc = "cluster"
  BY DEF UnknownShort
<1>2. Types /\ Line /\ arg \in Token /\ InHand
  BY <1>1 DEF IInv, Types, InHand
<1>3. FromLine(arg)
  BY <1>2 DEF Line
<1>4. CASE letter = 1
  BY <1>1, <1>2, <1>3, <1>4, UnknownKeeps DEF UnknownShort
<1>5. CASE letter # 1
  BY <1>1, <1>5, StopKeeps DEF UnknownShort, Fail, input, binding
<1> QED BY <1>4, <1>5

LEMMA ShortFlagsKeeps ==
  ASSUME IInv, ShortFlags
  PROVE  IInv'
<1>1. /\ pc = "flag" /\ arg.tok.k = "short" /\ pc' = "cluster" /\ letter' = 1
      /\ UNCHANGED <<command, argv, state, args, arg, anyArgs, index, takers, outputs,
                     separators>>
  BY DEF ShortFlags, input, binding
<1>2. Types /\ Line /\ IndexBound /\ InHand /\ InHand'
  BY <1>1 DEF IInv, InHand
<1>3. Types'
  BY <1>1, <1>2 DEF Types
<1>4. 1 \in 1 .. Len(chars)
  BY <1>1, <1>2, TokenKinds DEF Types, Token, chars
<1>5. Line'
  BY <1>1, <1>2, <1>4, LineSame DEF Line, InHand, chars
<1>6. Used' = Used /\ Used \in Nat
  BY <1>1, <1>2, UsedFacts DEF Used, Popped
<1>7. IndexBound'
  BY <1>1, <1>2, <1>6 DEF IndexBound
<1>8. index \in Nat
  BY <1>2 DEF Types
<1> QED BY <1>1, <1>3, <1>5, <1>6, <1>7, <1>8, QuietStep

\* The flag in hand is given to the outputs with its values, and the parsing
\* loop goes on or stops.
LEMMA GivenKeeps ==
  ASSUME IInv, pc \in {"flag", "cluster"},
         UNCHANGED <<command, argv, state, arg, anyArgs, index, takers, separators>>,
         letter' \in Nat, pc' \in {"parsing", "failed"},
         NEW f \in Flag, NEW l \in Nat, NEW n \in 0 .. Len(args), args' = Rest(n),
         outputs' = Append(outputs, FlagOccurrence(f, arg.pos, l, SubSeq(args, 1, n))),
         argv[arg.pos].k = "long" => Before = 0,
         argv[arg.pos].k = "short" => l + Before = Len(argv[arg.pos].chars),
         FlagCounter[f] = Default(TRUE) =>
           \/ n > 0 \/ l > 1 \/ (argv[arg.pos].k = "short" /\ f = Numeric)
           \/ argv[arg.pos].k = "long" /\ argv[arg.pos].hasValue
  PROVE  IInv'
<1>1. Types /\ Line /\ IndexBound /\ Bounds /\ Cluster /\ InHand /\ ~InHand'
  BY DEF IInv, InHand
<1>2. /\ Popped' = Popped + n /\ Popped' \in Nat /\ Popped' <= Len(argv)
      /\ \A k \in 1 .. Len(args') : args'[k].pos = Popped' + k /\ FromLine(args[k])'
      /\ args' \in Seq(Token)
  BY <1>1, LineTaken
<1>3. outputs' \in Seq(Occurrence)
  BY <1>1, FlagAppended
<1>4. Types'
  BY <1>1, <1>2, <1>3 DEF Types
<1>5. arg'.pos <= Len(argv')
  BY <1>1 DEF Line
<1>6. Line'
  BY <1>1, <1>2, <1>5, Zenon DEF Line
<1>7. Used \in Nat /\ Popped = Used + 1
  BY <1>1, UsedFacts
<1>8. Used' = Popped' /\ Used <= Used'
  BY <1>1, <1>2, <1>7 DEF Used
<1>9. IndexBound'
  <2>1. index' \in Nat /\ pc' # "start" /\ Used' \in Nat
    BY <1>1, <1>2, <1>8 DEF Types
  <2> QED BY <1>1, <1>7, <1>8, <2>1, IndexKept
<1> QED BY <1>4, <1>6, <1>9, FlagStep

\* The flag takes its values from the tokens which follow.
LEMMA TakeValuesKeeps ==
  ASSUME IInv, pc \in {"flag", "cluster"},
         UNCHANGED <<command, argv, state, arg, letter, anyArgs, index, takers, separators>>,
         NEW f \in Flag, NEW l \in Nat, TakeValues(f, l),
         argv[arg.pos].k = "long" => Before = 0,
         argv[arg.pos].k = "short" => l + Before = Len(argv[arg.pos].chars)
  PROVE  IInv'
<1> DEFINE taken == TakeFrom(args, FlagCounter[f])
           n == taken.n
<1>1. Types /\ Len(args) \in Nat
  BY LineTyped DEF IInv
<1>2. n \in 0 .. Len(args) /\ (FlagCounter[f] = Default(TRUE) /\ taken.ok => n >= 1)
  BY <1>1, TakeFacts
<1>3. /\ args' = Rest(n)
      /\ \/ /\ taken.ok /\ pc' = "parsing"
            /\ outputs' = Append(outputs, FlagOccurrence(f, arg.pos, l, SubSeq(args, 1, n)))
         \/ pc' = "failed" /\ outputs' = outputs
  BY Zenon DEF TakeValues, Fail
<1> HIDE DEF n, taken
<1>4. CASE pc' = "failed" /\ outputs' = outputs
  BY <1>2, <1>3, <1>4, StopKeeps
<1>5. CASE /\ taken.ok /\ pc' = "parsing"
           /\ outputs' = Append(outputs, FlagOccurrence(f, arg.pos, l, SubSeq(args, 1, n)))
  <2>1. FlagCounter[f] = Default(TRUE) => n > 0
    BY <1>2, <1>5
  <2>2. letter' \in Nat
    BY <1>1 DEF Types
  <2> QED BY <1>2, <1>3, <1>5, <2>1, <2>2, GivenKeeps
<1> QED BY <1>3, <1>4, <1>5

\* A token in hand which was not cut is the one on the line.
LEMMA TokenInHand ==
  ASSUME IInv, pc \in {"flag", "cluster"},
         arg.tok.k = "short" \/ (arg.tok.k = "long" /\ arg.tok.name \in Flag)
  PROVE  argv[arg.pos] = arg.tok
<1>1. FromLine(arg)
  BY DEF IInv, Line, InHand
<1> QED BY <1>1 DEF FromLine

LEMMA LongFlagKeeps ==
  ASSUME IInv, LongFlag
  PROVE  IInv'
<1> DEFINE f == arg.tok.name
<1>1. /\ pc = "flag" /\ arg.tok.k = "long" /\ f \in Flag
      /\ UNCHANGED <<command, argv, state, arg, letter, anyArgs, index, takers, separators>>
  BY DEF LongFlag, input, binding
<1>2. argv[arg.pos] = arg.tok /\ Before = 0 /\ argv[arg.pos].k # "short"
  BY <1>1, TokenInHand DEF Before
<1>3. CASE arg.tok.hasValue
  <2>1. /\ outputs' = Append(outputs, FlagOccurrence(f, arg.pos, 0, <<>>))
        /\ pc' = "parsing" /\ args' = args
    BY <1>3 DEF LongFlag
  <2>2. Types /\ letter' \in Nat /\ 0 \in 0 .. Len(args)
    BY <1>1, LineTyped DEF IInv, Types
  <2>3. args' = Rest(0) /\ SubSeq(args, 1, 0) = <<>>
    BY <2>1, <2>2, NothingTaken
  <2>4. outputs' = Append(outputs, FlagOccurrence(f, arg.pos, 0, SubSeq(args, 1, 0)))
    BY <2>1, <2>3
  <2>5. argv[arg.pos].k = "long" /\ argv[arg.pos].hasValue
    BY <1>1, <1>2, <1>3
  <2> HIDE DEF f
  <2> QED BY <1>1, <1>2, <2>1, <2>2, <2>3, <2>4, <2>5, GivenKeeps
<1>4. CASE ~arg.tok.hasValue
  <2>1. TakeValues(f, 0)
    BY <1>4 DEF LongFlag
  <2> HIDE DEF f
  <2> QED BY <1>1, <1>2, <2>1, TakeValuesKeeps
<1> QED BY <1>3, <1>4

\* The flag which a letter stands for.
LEMMA LetterFacts ==
  ASSUME IInv, pc = "cluster", ClusterFlag # NoFlag
  PROVE  /\ ClusterFlag \in Flag /\ argv[arg.pos] = arg.tok /\ arg.tok.k = "short"
         /\ Before = letter - 1 /\ letter \in 1 .. Len(chars) /\ Len(chars) \in Nat
         /\ chars = argv[arg.pos].chars
         /\ looksNumeric => ClusterFlag = Numeric /\ letter = 1
<1>1. arg.tok.k = "short" /\ letter \in 1 .. Len(chars) /\ arg \in Token
  BY DEF IInv, Line, Types
<1>2. argv[arg.pos] = arg.tok
  BY <1>1, TokenInHand
<1>3. Len(chars) \in Nat
  BY <1>1, TokenKinds DEF Token, chars
<1>4. ClusterFlag \in Flag
  BY FlagAssumption DEF ClusterFlag
<1> QED BY <1>1, <1>2, <1>3, <1>4 DEF Before, chars, looksNumeric, ClusterFlag

LEMMA LastLetterKeeps ==
  ASSUME IInv, LastLetter
  PROVE  IInv'
<1> DEFINE f == ClusterFlag
<1>1. /\ pc = "cluster" /\ f # NoFlag /\ letter = Len(chars)
      /\ UNCHANGED <<command, argv, state, arg, letter, anyArgs, index, takers, separators>>
  BY DEF LastLetter, input, binding
<1>2. /\ f \in Flag /\ argv[arg.pos] = arg.tok /\ arg.tok.k = "short"
      /\ Before = letter - 1 /\ letter \in 1 .. Len(chars) /\ Len(chars) \in Nat
      /\ chars = argv[arg.pos].chars
  BY <1>1, LetterFacts
<1>3. argv[arg.pos].k = "short" /\ 1 + Before = Len(argv[arg.pos].chars)
  BY <1>1, <1>2
<1>4. CASE f \in Optional
  <2>1. /\ outputs' = Append(outputs, FlagOccurrence(f, arg.pos, 1, <<>>))
        /\ pc' \in {"parsing", "failed"} /\ args' = args
    BY <1>4 DEF LastLetter
  <2>2. Types /\ letter' \in Nat /\ 0 \in 0 .. Len(args)
    BY <1>1, LineTyped DEF IInv, Types
  <2>3. args' = Rest(0) /\ SubSeq(args, 1, 0) = <<>>
    BY <2>1, <2>2, NothingTaken
  <2>4. outputs' = Append(outputs, FlagOccurrence(f, arg.pos, 1, SubSeq(args, 1, 0)))
    BY <2>1, <2>3
  <2>5. FlagCounter[f] # Default(TRUE)
    BY <1>4, FlagAssumption
  <2> HIDE DEF f
  <2> QED BY <1>1, <1>2, <1>3, <2>1, <2>2, <2>3, <2>4, <2>5, GivenKeeps
<1>5. CASE f \notin Optional
  <2>1. TakeValues(f, 1)
    BY <1>5 DEF LastLetter
  <2> HIDE DEF f
  <2> QED BY <1>1, <1>2, <1>3, <2>1, TakeValuesKeeps
<1> QED BY <1>4, <1>5

LEMMA InlineValueKeeps ==
  ASSUME IInv, InlineValue
  PROVE  IInv'
<1> DEFINE f == ClusterFlag
           L == Len(chars)
<1>1. /\ pc = "cluster" /\ f # NoFlag /\ (letter < L \/ looksNumeric)
      /\ UNCHANGED <<command, argv, state, args, arg, anyArgs, index, takers, separators>>
  BY DEF InlineValue, input, binding
<1>2. /\ f \in Flag /\ argv[arg.pos] = arg.tok /\ arg.tok.k = "short"
      /\ Before = letter - 1 /\ letter \in 1 .. L /\ L \in Nat
      /\ chars = argv[arg.pos].chars
      /\ looksNumeric => f = Numeric /\ letter = 1
  BY <1>1, LetterFacts
<1>3. \/ /\ outputs' = Append(outputs, FlagOccurrence(f, arg.pos, L - letter + 1, <<>>))
         /\ pc' = "parsing" /\ letter' = letter
      \/ /\ InstanceTake(FlagCounter[f]) = "end"
         /\ outputs' = Append(outputs, FlagOccurrence(f, arg.pos, 1, <<>>))
         /\ letter' = letter + 1
         /\ pc' = IF letter' > L THEN "parsing" ELSE pc
      \/ pc' = "failed" /\ UNCHANGED <<outputs, letter>>
  BY Zenon DEF InlineValue, Fail
<1>4. Types /\ Line /\ letter \in Nat /\ 0 \in 0 .. Len(args)
  BY LineTyped DEF IInv, Types
<1>5. args' = Rest(0) /\ SubSeq(args, 1, 0) = <<>>
  BY <1>1, <1>4, NothingTaken
<1>6. argv[arg.pos].k = "short"
  BY <1>2
<1> HIDE DEF f
<1>7. CASE pc' = "failed" /\ UNCHANGED <<outputs, letter>>
  BY <1>1, <1>7, StopKeeps
<1>8. CASE /\ outputs' = Append(outputs, FlagOccurrence(f, arg.pos, L - letter + 1, <<>>))
           /\ pc' = "parsing" /\ letter' = letter
  <2>1. /\ L - letter + 1 \in Nat /\ L - letter + 1 + Before = Len(argv[arg.pos].chars)
        /\ L - letter + 1 > 1 \/ f = Numeric
    BY <1>1, <1>2
  <2>2. outputs' =
          Append(outputs, FlagOccurrence(f, arg.pos, L - letter + 1, SubSeq(args, 1, 0)))
    BY <1>5, <1>8
  <2> QED BY <1>1, <1>2, <1>4, <1>5, <1>6, <1>8, <2>1, <2>2, GivenKeeps
<1>9. CASE /\ InstanceTake(FlagCounter[f]) = "end"
           /\ outputs' = Append(outputs, FlagOccurrence(f, arg.pos, 1, <<>>))
           /\ letter' = letter + 1
           /\ pc' = IF letter' > L THEN "parsing" ELSE pc
  <2>1. FlagCounter[f] # Default(TRUE)
    <3>1. SUFFICES ASSUME FlagCounter[f] = Default(TRUE) PROVE FALSE
      OBVIOUS
    <3>2. Take(Default(TRUE), Word, FALSE).res = "ok"
      BY FirstIsTaken
    <3>3. InstanceTake(Default(TRUE)) \in {"ok", "expected"}
      BY <3>2, Zenon DEF InstanceTake
    <3> QED BY <1>9, <3>1, <3>3
  <2>2. CASE letter + 1 > L
    <3>1. pc' = "parsing" /\ letter' \in Nat /\ 1 + Before = Len(argv[arg.pos].chars)
      BY <1>2, <1>4, <1>9, <2>2
    <3>2. outputs' = Append(outputs, FlagOccurrence(f, arg.pos, 1, SubSeq(args, 1, 0)))
      BY <1>5, <1>9
    <3> QED BY <1>1, <1>2, <1>4, <1>5, <1>6, <2>1, <3>1, <3>2, GivenKeeps
  <2>3. CASE ~(letter + 1 > L)
    <3>1. pc' = "cluster" /\ letter' \in 1 .. L /\ letter' \in Nat
      BY <1>1, <1>2, <1>4, <1>9, <2>3
    <3>2. outputs' = Append(outputs, FlagOccurrence(f, arg.pos, 1, SubSeq(args, 1, 0)))
      BY <1>5, <1>9
    <3>3. Bounds /\ Cluster /\ IndexBound /\ InHand /\ InHand'
      BY <1>1, <3>1 DEF IInv, InHand
    <3>4. outputs' \in Seq(Occurrence)
      <4>1. 1 \in Nat
        OBVIOUS
      <4> QED BY <1>1, <1>2, <1>4, <3>2, <3>3, <4>1, FlagAppended
    <3>5. Types'
      BY <1>1, <1>4, <3>1, <3>4 DEF Types
    <3>6. Line'
      BY <1>1, <1>2, <1>4, <3>1, <3>3, LineSame DEF Line, chars
    <3>7. Used' = Used
      BY <1>1, <3>3 DEF Used, Popped
    <3>8. IndexBound'
      BY <1>1, <3>1, <3>3, <3>7 DEF IndexBound
    <3> QED BY <1>1, <1>2, <1>9, <2>1, <3>1, <3>5, <3>6, <3>8, ClusterGoesOn
  <2> QED BY <2>2, <2>3
<1> QED BY <1>3, <1>7, <1>8, <1>9

-----------------------------------------------------------------------------
(* The invariant *)

LEMMA Initially ==
  ASSUME Init
  PROVE  IInv
<1>1. PICK in \in Input : command = in.command /\ argv = in.argv
  BY DEF Init
<1>2. in \in [command : CommandType, argv : Seq(TokenType)]
  BY InputAssumption
<1>3. /\ command \in CommandType /\ argv \in Seq(TokenType)
      /\ [command |-> command, argv |-> argv] \in Input
  <2> HIDE DEF CommandType, TokenType
  <2> QED BY <1>1, <1>2
<1>4. /\ pc = "start" /\ state = "flagsOrArgs" /\ args = Tokens(argv) /\ arg = NoToken
      /\ letter = 0 /\ anyArgs = FALSE /\ index = 1 /\ takers = command.takers
      /\ outputs = <<>> /\ separators = {}
  BY DEF Init
<1>5. Len(argv) \in Nat /\ \A i \in 1 .. Len(argv) : argv[i] \in TokenType
  <2> HIDE DEF TokenType
  <2> QED BY <1>3, ElementOfSeq
<1>6. /\ args \in Seq(Token) /\ Len(args) = Len(argv)
      /\ \A k \in 1 .. Len(args) : args[k].pos = k /\ args[k].tok = argv[k]
  <2>1. args = [i \in 1 .. Len(argv) |-> [pos |-> i, tok |-> argv[i]]]
    BY <1>4 DEF Tokens
  <2>2. \A i \in 1 .. Len(argv) : [pos |-> i, tok |-> argv[i]] \in Token
    BY <1>5 DEF Token
  <2> HIDE DEF Token
  <2>3. args \in Seq(Token) /\ Len(args) = Len(argv)
    BY <1>5, <2>1, <2>2
  <2> QED BY <2>1, <2>3
<1>7. arg \in Token /\ arg.pos = 0
  BY <1>4 DEF NoToken, Token, TokenType
<1>8. DOMAIN takers = 1 .. Len(command.takers)
  BY <1>3, <1>4 DEF CommandType
<1>9. outputs \in Seq(Occurrence) /\ Len(outputs) = 0 /\ 1 .. Len(outputs) = {}
  <2> HIDE DEF Occurrence
  <2> QED BY <1>4
<1>10. Types
  <2>1. /\ pc \in {"start", "parsing", "positional", "flag", "cluster", "done",
                   "failed", "panic"}
        /\ state \in {"flagsOrArgs", "didPushbackArg", "argsOnly"}
        /\ anyArgs \in BOOLEAN
    BY <1>4, Zenon
  <2>2. letter \in Nat /\ index \in Nat \ {0}
    BY <1>4
  <2> QED BY <1>3, <1>6, <1>7, <1>8, <1>9, <2>1, <2>2, Zenon DEF Types
<1>11. Popped = 0 /\ ~InHand /\ Used = 0
  BY <1>4, <1>5, <1>6 DEF Popped, Used, InHand
<1>12. Line
  <2>1. \A k \in 1 .. Len(args) : args[k].pos = Popped + k /\ FromLine(args[k])
    BY <1>6, <1>11 DEF FromLine
  <2> QED BY <1>4, <1>5, <1>7, <1>11, <2>1 DEF Line
<1>13. IndexBound
  BY <1>4, <1>10, <1>11, TakersLength DEF IndexBound
<1>14. Bounds
  BY <1>4, <1>9 DEF Bounds
<1>15. Cluster
  BY <1>4 DEF Cluster
<1>16. AllUsed
  BY <1>11 DEF AllUsed
<1>17. ValuesBindInOrder
  BY <1>9 DEF ValuesBindInOrder, ArgOccurrences
<1> QED BY <1>10, <1>12, <1>13, <1>14, <1>15, <1>16, <1>17 DEF IInv

LEMMA StepKeeps ==
  ASSUME IInv, [Next]_vars
  PROVE  IInv'
<1>1. ASSUME UNCHANGED vars PROVE IInv'
  <2>1. Types' /\ Line' /\ IndexBound' /\ Bounds' /\ Cluster'
    <3>1. Popped' = Popped /\ (InHand' <=> InHand) /\ Used' = Used
      BY <1>1 DEF vars, Popped, InHand, Used
    <3>2. Types'
      BY <1>1 DEF vars, IInv, Types
    <3>3. Line'
      BY <1>1, <3>1 DEF vars, IInv, Line, FromLine, chars
    <3>4. IndexBound' /\ Bounds'
      BY <1>1, <3>1 DEF vars, IInv, IndexBound, Bounds
    <3>5. Cluster'
      BY <1>1, <3>1 DEF vars, IInv, Cluster, FlagOccurrencesAt
    <3> QED BY <3>2, <3>3, <3>4, <3>5
  <2>2. ValuesBindInOrder'
    BY <1>1, SameOccurrences DEF vars, IInv
  <2>3. AllUsed'
    <3>1. Used' = Used /\ UNCHANGED <<pc, argv, outputs, separators>>
      BY <1>1 DEF vars, Used, InHand, Popped
    <3>2. \A p : Role(p) => Role(p)'
      BY <3>1, SameOccurrences DEF Role, UsedAsValue, UsedAsFlags, UsedAsSeparator
    <3> QED BY <3>1, <3>2 DEF IInv, AllUsed
  <2> QED BY <2>1, <2>2, <2>3 DEF IInv
<1>2. CASE Next
  <2>1. CASE Start        BY <2>1, StartKeeps
  <2>2. CASE NextToken    BY <2>2, NextTokenKeeps
  <2>3. CASE EndOfTokens  BY <2>3, EndOfTokensKeeps
  <2>4. CASE Terminator   BY <2>4, TerminatorKeeps
  <2>5. CASE BindArg      BY <2>5, BindArgKeeps
  <2>6. CASE RefuseArg    BY <2>6, RefuseArgKeeps
  <2>7. CASE EndOfOptions BY <2>7, EndOfOptionsKeeps
  <2>8. CASE LoneDash     BY <2>8, LoneDashKeeps
  <2>9. CASE UnknownLong  BY <2>9, UnknownLongKeeps
  <2>10. CASE FlagAfterArg BY <2>10, FlagAfterArgKeeps
  <2>11. CASE LongFlag     BY <2>11, LongFlagKeeps
  <2>12. CASE ShortFlags   BY <2>12, ShortFlagsKeeps
  <2>13. CASE UnknownShort BY <2>13, UnknownShortKeeps
  <2>14. CASE InlineValue  BY <2>14, InlineValueKeeps
  <2>15. CASE LastLetter   BY <2>15, LastLetterKeeps
  <2> QED BY <1>2, <2>1, <2>2, <2>3, <2>4, <2>5, <2>6, <2>7, <2>8, <2>9, <2>10, <2>11,
             <2>12, <2>13, <2>14, <2>15 DEF Next
<1> QED BY <1>1, <1>2

\* The parser keeps the invariant: what was given out is exactly the part of
\* the line which was used.
THEOREM Invariant == Spec => []IInv
<1>1. Init => IInv
  BY Initially
<1>2. IInv /\ [Next]_vars => IInv'
  BY StepKeeps
<1> QED BY <1>1, <1>2, PTL DEF Spec

-----------------------------------------------------------------------------
(* What the runs check *)

LEMMA InvariantTypes ==
  ASSUME IInv
  PROVE  TypeOK
<1>1. Types /\ Line /\ IndexBound /\ Bounds
  BY DEF IInv
<1>2. /\ Used \in Nat /\ Popped \in Nat /\ Used <= Popped /\ Popped <= Len(argv)
      /\ Len(argv) \in Nat /\ Len(args) \in Nat
  BY <1>1, UsedFacts, LineTyped DEF Popped
<1>3. \A k \in 1 .. Len(args) : args[k].pos \in 1 .. Len(argv)
  <2>1. \A k \in 1 .. Len(args) : args[k].pos = Popped + k
    BY <1>1 DEF Line
  <2>2. Popped = Len(argv) - Len(args)
    BY DEF Popped
  <2> QED BY <1>2, <2>1, <2>2
<1>4. arg.pos \in 0 .. Len(argv)
  BY <1>1, <1>2 DEF Line, Types, Token
<1>5. Len(takers) = Len(command.takers) /\ Len(takers) \in Nat
  BY <1>1, TakersLength
<1>6. index \in 1 .. Len(command.takers) + Len(argv) + 1
  BY <1>1, <1>2, <1>5 DEF IndexBound, Types
<1>7. ASSUME NEW k \in 1 .. Len(outputs) PROVE outputs[k].flagAt \in 0 .. Len(argv)
  <2>1. outputs[k].flagAt \in Nat
    BY <1>1, OccurrenceTyped
  <2> QED BY <1>1, <1>2, <2>1 DEF Bounds
<1>8. separators \subseteq 1 .. Len(argv)
  BY <1>1, <1>2 DEF Bounds
<1> QED BY <1>1, <1>3, <1>4, <1>5, <1>6, <1>7, <1>8 DEF TypeOK, Types

\* The parser's variables keep their types: positions stay on the line, and the
\* index moves past the last arg only with the -- of the line.
THEOREM TypeCorrect == Spec => []TypeOK
<1>1. IInv => TypeOK
  BY InvariantTypes
<1> QED BY <1>1, Invariant, PTL

\* On an accepted command line of any command each token is used exactly once:
\* as a value, as the flags it names, or as a separator.
THEOREM TokensUsedOnce == Spec => []EveryTokenUsedOnce
<1>1. ASSUME IInv, pc = "done", NEW p \in 1 .. Len(argv)
      PROVE  UsedAsValue(p) \/ UsedAsFlags(p) \/ UsedAsSeparator(p)
  <2>1. args = <<>> /\ ~InHand /\ Len(argv) \in Nat
    BY <1>1, LineTyped DEF IInv, Line, InHand
  <2>2. Used = Len(argv)
    BY <2>1 DEF Used, Popped
  <2> QED BY <1>1, <2>2 DEF IInv, AllUsed, Role
<1>2. IInv => EveryTokenUsedOnce
  BY <1>1 DEF EveryTokenUsedOnce
<1> QED BY <1>2, Invariant, PTL

\* Values bind to args in the order of the line, flags take the tokens right
\* behind them, and a flag which must have a value has one.
THEOREM BoundInOrder == Spec => []ValuesBindInOrder
<1>1. IInv => ValuesBindInOrder
  BY DEF IInv
<1> QED BY <1>1, Invariant, PTL
-----------------------------------------------------------------------------
(* Right-to-left binding *)

\* How many values a counter still takes.
Left(c) == IF c.kind = "discrete" THEN c.count ELSE IF c.seen THEN 0 ELSE 1

\* Counters of one or of a fixed number of values, used or not.
Fixed(c) ==
  \/ c \in [kind : {"discrete"}, count : Nat, total : Nat]
  \/ c \in [kind : {"default"}, seen : BOOLEAN, requireSeen : {FALSE}]

\* Such a counter takes any token, until it has all it takes.
LEMMA FixedTakes ==
  ASSUME NEW c, Fixed(c), NEW tok, NEW possibleFlag
  PROVE  LET a == Take(c, tok, possibleFlag)
         IN  /\ Left(c) \in Nat
             /\ Left(c) = 0 <=> a.res = "end"
             /\ Left(c) # 0 => /\ Fixed(a.counter) /\ a.counter.kind = c.kind
                               /\ Left(a.counter) = Left(c) - 1
<1> DEFINE a == Take(c, tok, possibleFlag)
<1>1. CASE c \in [kind : {"discrete"}, count : Nat, total : Nat]
  <2>1. /\ Left(c) = c.count /\ c.count \in Nat /\ c.kind = "discrete"
        /\ a = TakeDiscrete(c)
    <3>1. c.kind = "discrete" /\ c.count \in Nat
      BY <1>1
    <3>2. a = TakeDiscrete(c)
      BY <3>1, Zenon DEF Take
    <3> QED BY <3>1, <3>2 DEF Left
  <2>2. CASE c.count = 0
    BY <2>1, <2>2 DEF TakeDiscrete, Answer
  <2>3. CASE c.count # 0
    <3> DEFINE d == [c EXCEPT !.count = @ - 1]
    <3>1. a = Answer("ok", d)
      BY <2>1, <2>3 DEF TakeDiscrete
    <3>2. d \in [kind : {"discrete"}, count : Nat, total : Nat] /\ d.count = c.count - 1
      BY <1>1, <2>3
    <3>3. a.res = "ok" /\ a.counter = d
      BY <3>1 DEF Answer
    <3> HIDE DEF d
    <3>4. Left(d) = c.count - 1 /\ d.kind = "discrete" /\ Fixed(d)
      BY <3>2 DEF Left, Fixed
    <3>5. Left(c) # 0 /\ Left(c) \in Nat /\ d.kind = c.kind /\ Left(d) = Left(c) - 1
      BY <2>1, <2>3, <3>4
    <3> HIDE DEF a
    <3>6. a.res # "end" /\ Fixed(a.counter) /\ a.counter.kind = c.kind
          /\ Left(a.counter) = Left(c) - 1
      BY <3>3, <3>4, <3>5
    <3> QED BY <3>5, <3>6, Zenon DEF a
  <2> QED BY <2>2, <2>3
<1>2. CASE c \in [kind : {"default"}, seen : BOOLEAN, requireSeen : {FALSE}]
  <2>1. c.kind = "default" /\ a = TakeDefault(c) /\ Left(c) = IF c.seen THEN 0 ELSE 1
    <3>1. c.kind = "default"
      BY <1>2
    <3>2. a = TakeDefault(c)
      BY <3>1, Zenon DEF Take
    <3> QED BY <3>1, <3>2 DEF Left
  <2>2. CASE c.seen
    <3>1. a.res = "end"
      BY <2>1, <2>2 DEF TakeDefault, Answer
    <3> QED BY <2>1, <2>2, <3>1
  <2>3. CASE ~c.seen
    <3> DEFINE d == [c EXCEPT !.seen = TRUE]
    <3>1. a = Answer("ok", d)
      BY <2>1, <2>3 DEF TakeDefault
    <3>2. d \in [kind : {"default"}, seen : BOOLEAN, requireSeen : {FALSE}] /\ d.seen
      BY <1>2
    <3>3. a.res = "ok" /\ a.counter = d
      BY <3>1 DEF Answer
    <3> HIDE DEF d
    <3>4. Left(d) = 0 /\ d.kind = "default" /\ Fixed(d)
      BY <3>2 DEF Left, Fixed
    <3>5. Left(c) = 1 /\ Left(d) = Left(c) - 1
      BY <2>1, <2>3, <3>4
    <3>6. Left(c) # 0 /\ Left(c) \in Nat
      BY <3>5
    <3> HIDE DEF a
    <3>7. a.res # "end" /\ Fixed(a.counter) /\ a.counter.kind = c.kind
          /\ Left(a.counter) = Left(c) - 1
      BY <2>1, <3>3, <3>4, <3>5
    <3> QED BY <3>6, <3>7, Zenon DEF a
  <2> QED BY <2>2, <2>3
<1> QED BY <1>1, <1>2 DEF Fixed

\* As it is created it takes what it requires, which is something.
LEMMA FixedArg ==
  ASSUME NEW c \in TakerType, TakesFixedCount(c)
  PROVE  Fixed(c) /\ Left(c) = RequiredBy(c) /\ RequiredBy(c) \in Nat \ {0}
<1>1. CASE c.kind = "default"
  <2>1. c = Default(FALSE)
    BY <1>1 DEF TakerType, Default, VarArgs, ValuePair
  <2>2. c \in [kind : {"default"}, seen : BOOLEAN, requireSeen : {FALSE}] /\ ~c.seen
    BY <2>1 DEF Default
  <2>3. Left(c) = 1 /\ RequiredBy(c) = 1
    BY <1>1, <2>2 DEF Left, RequiredBy
  <2>4. Fixed(c)
    BY <2>2 DEF Fixed
  <2> QED BY <2>3, <2>4
<1>2. CASE c.kind = "discrete" /\ c.count > 0
  <2>1. c \in [kind : {"discrete"}, count : Nat, total : Nat]
    BY <1>2 DEF TakerType, Default, VarArgs, ValuePair
  <2>2. c.count \in Nat \ {0}
    BY <1>2, <2>1
  <2> QED BY <1>2, <2>1, <2>2 DEF Fixed, Left, RequiredBy
<1> QED BY <1>1, <1>2 DEF TakesFixedCount

LEMMA ArgsTyped ==
  ASSUME Types, FixedArgs
  PROVE  \A k \in 1 .. Len(command.takers) :
           LET c == command.takers[k]
           IN  Fixed(c) /\ Left(c) = RequiredBy(c) /\ RequiredBy(c) \in Nat \ {0}
<1>1. command.takers \in Seq(TakerType)
  <2> HIDE DEF TakerType
  <2> QED BY DEF Types, CommandType
<1>2. ASSUME NEW k \in 1 .. Len(command.takers)
      PROVE  command.takers[k] \in TakerType /\ TakesFixedCount(command.takers[k])
  <2> HIDE DEF TakerType
  <2> QED BY <1>1, ElementOfSeq DEF FixedArgs
<1> QED BY <1>2, FixedArg

\* The sums of what the last args require, as RequiredByLast defines them.
IsSum(f, line, n, m) ==
  f = [k \in 0 .. m |-> IF k = 0 THEN 0 ELSE f[k - 1] + RequiredBy(line[n - k + 1])]

LEMMA SumDefined ==
  ASSUME NEW line, NEW n, NEW m \in Nat
  PROVE  \E f : IsSum(f, line, n, m)
<1> DEFINE Open == {k \in Nat : ~ \E f : IsSum(f, line, n, k)}
<1>1. SUFFICES ASSUME Open # {} PROVE FALSE
  OBVIOUS
<1>2. PICK k \in Open : \A j \in Open : k <= j
  BY <1>1, LeastNumber
<1>3. CASE k = 0
  <2>1. IsSum([i \in 0 .. 0 |-> 0], line, n, 0)
    BY DEF IsSum
  <2> QED BY <2>1, <1>3
<1>4. CASE k > 0
  <2>1. k - 1 \in Nat /\ k - 1 \notin Open
    BY <1>2, <1>4
  <2>2. PICK g : IsSum(g, line, n, k - 1)
    BY <2>1
  <2> DEFINE f == [i \in 0 .. k |-> IF i = k THEN g[k - 1] + RequiredBy(line[n - k + 1]) ELSE g[i]]
  <2>3. \A i \in 0 .. k : f[i] = IF i = 0 THEN 0 ELSE f[i - 1] + RequiredBy(line[n - i + 1])
    BY <2>1, <2>2, <1>4 DEF IsSum
  <2>4. IsSum(f, line, n, k)
    BY <2>3 DEF IsSum
  <2> QED BY <2>4
<1> QED BY <1>3, <1>4

Sums(f, line, n, m) ==
  f[0] = 0 /\ \A k \in 1 .. m : f[k] = f[k - 1] + RequiredBy(line[n - k + 1])

LEMMA SumUnfolds ==
  ASSUME NEW line, NEW n, NEW m \in Nat, NEW f, IsSum(f, line, n, m)
  PROVE  Sums(f, line, n, m)
  BY DEF IsSum, Sums

LEMMA SumSteps ==
  ASSUME Len(command.takers) \in Nat
  PROVE  LET n == Len(command.takers)
         IN  /\ RequiredByLast(0) = 0
             /\ \A m \in 1 .. n :
                  RequiredByLast(m) = RequiredByLast(m - 1) + RequiredBy(command.takers[n - m + 1])
<1> DEFINE n == Len(command.takers)
           f == CHOOSE g : IsSum(g, command.takers, n, n)
<1>1. IsSum(f, command.takers, n, n)
  BY SumDefined
<1>2. \A m : RequiredByLast(m) = f[m]
  BY Zenon DEF RequiredByLast, IsSum
<1> HIDE DEF f
<1>3. Sums(f, command.takers, n, n)
  BY <1>1, SumUnfolds
<1> QED BY <1>2, <1>3, Zenon DEF Sums

\* What more args require is no less.
LEMMA SumGrows ==
  ASSUME Types, FixedArgs
  PROVE  LET n == Len(command.takers)
         IN  /\ \A m \in 0 .. n : RequiredByLast(m) \in Nat
             /\ \A k, m \in 0 .. n : k <= m => RequiredByLast(k) <= RequiredByLast(m)
<1> DEFINE n == Len(command.takers)
           Good(m) == /\ RequiredByLast(m) \in Nat
                      /\ \A k \in 0 .. m :
                           RequiredByLast(k) \in Nat /\ RequiredByLast(k) <= RequiredByLast(m)
           Bad == {m \in 0 .. n : ~Good(m)}
<1>1. n \in Nat
  BY TakersLength
<1>2. SUFFICES Bad = {}
  OBVIOUS
<1>3. SUFFICES ASSUME Bad # {} PROVE FALSE
  OBVIOUS
<1>4. PICK m \in Bad : \A j \in Bad : m <= j
  <2>1. Bad \in SUBSET Nat
    OBVIOUS
  <2> HIDE DEF Bad
  <2> QED BY <2>1, <1>3, LeastNumber
<1>5. RequiredByLast(0) = 0
  BY <1>1, SumSteps
<1>6. m # 0
  BY <1>4, <1>5
<1>7. m \in 1 .. n /\ m - 1 \in 0 .. n /\ m - 1 \notin Bad
  BY <1>1, <1>4, <1>6
<1>8. Good(m - 1)
  BY <1>7
<1> DEFINE r == RequiredBy(command.takers[n - m + 1])
<1>9. r \in Nat
  <2>1. n - m + 1 \in 1 .. n
    BY <1>1, <1>7
  <2> QED BY <2>1, ArgsTyped
<1>10. RequiredByLast(m) = RequiredByLast(m - 1) + r
  BY <1>1, <1>7, SumSteps
<1> HIDE DEF r, Bad
<1>11. RequiredByLast(m) \in Nat /\ RequiredByLast(m - 1) <= RequiredByLast(m)
  BY <1>8, <1>9, <1>10
<1>12. ASSUME NEW k \in 0 .. m
      PROVE  RequiredByLast(k) \in Nat /\ RequiredByLast(k) <= RequiredByLast(m)
  <2>1. CASE k = m
    BY <1>11, <2>1
  <2>2. CASE k # m
    <3>1. k \in 0 .. m - 1 /\ k \in 0 .. n
      BY <1>7, <2>2
    <3>2. RequiredByLast(k) <= RequiredByLast(m - 1)
      BY <1>8, <3>1
    <3>3. RequiredByLast(k) \in Nat
      BY <1>8, <3>1
    <3> QED BY <1>8, <1>11, <3>2, <3>3
  <2> QED BY <2>1, <2>2
<1>13. Good(m)
  BY <1>11, <1>12
<1> QED BY <1>4, <1>13 DEF Bad

\* On such lines binding right to left works through the args from the first one
\* which is not left empty.  Those before the one which is being filled are
\* filled, those after it were not used, and what was used up of the line is what
\* all of them require without what they still take.
Plain == command.rightToLeft /\ PlainLine /\ FixedArgs /\ command.takers # <<>>
Bound(j) == ArgsBoundTo(j) # {}
Begun == Left(takers[index]) < RequiredBy(command.takers[index])
Untouched == takers = command.takers /\ outputs = <<>> /\ Used = 0
InProgress ==
  /\ index \in LeadingSkip + 1 .. Len(command.takers)
  /\ \A j \in index + 1 .. Len(command.takers) : takers[j] = command.takers[j]
  /\ Fixed(takers[index]) /\ Left(takers[index]) <= RequiredBy(command.takers[index])
  /\ index # LeadingSkip + 1 => Begun
  /\ \A j \in 1 .. Len(command.takers) :
       Bound(j) <=> j \in LeadingSkip + 1 .. index - 1 \/ (j = index /\ Begun)
  /\ Used + RequiredByLast(Len(command.takers) - index) + Left(takers[index])
       = RequiredByLast(Len(command.takers) - LeadingSkip)
Filling ==
  Plain => /\ pc = "start" => Untouched
           /\ pc \in {"parsing", "positional", "done"} => InProgress

\* An arg is left to be filled, and any shorter end of the args needs fewer
\* values than the line has.
LEMMA SkipLess ==
  ASSUME Types, Len(takers) # 0
  PROVE  /\ LeadingSkip \in 0 .. Len(takers) - 1
         /\ \A m \in 1 .. Len(takers) :
              m < Len(takers) - LeadingSkip => ~(ArgumentCount - RequiredByLast(m) <= 1)
<1> DEFINE n == Len(takers)
           S == {m \in 1 .. n : m = n \/ ArgumentCount - RequiredByLast(m) <= 1}
<1>1. n \in Nat \ {0}
  BY TakersLength
<1>2. S \in SUBSET Nat /\ S # {}
  BY <1>1
<1>3. LeadingSkip = n - Min(S)
  BY <1>1 DEF LeadingSkip
<1>4. Min(S) \in S /\ \A m \in S : Min(S) <= m
  <2> HIDE DEF S
  <2> QED BY <1>2, MinFacts
<1>5. Min(S) \in 1 .. n
  BY <1>4
<1>6. ASSUME NEW m \in 1 .. n, m < n - LeadingSkip
      PROVE  ~(ArgumentCount - RequiredByLast(m) <= 1)
  <2>1. m < Min(S)
    <3> HIDE DEF S
    <3> QED BY <1>1, <1>3, <1>5, <1>6
  <2>2. m \notin S
    <3> HIDE DEF S
    <3> QED BY <1>4, <1>5, <2>1
  <2> QED BY <2>2
<1>7. LeadingSkip \in 0 .. n - 1
  <2> HIDE DEF S
  <2> QED BY <1>1, <1>3, <1>5
<1> QED BY <1>6, <1>7

LEMMA FillingInitially ==
  ASSUME Init
  PROVE  Filling
<1>1. pc = "start" /\ takers = command.takers /\ outputs = <<>> /\ args = Tokens(argv)
  BY DEF Init
<1>2. Types
  BY Initially DEF IInv
<1>3. Len(argv) \in Nat
  BY <1>2, LineTyped
<1>4. Len(args) = Len(argv)
  BY <1>1, <1>3 DEF Tokens
<1>5. Used = 0
  BY <1>1, <1>3, <1>4 DEF Used, InHand, Popped
<1> QED BY <1>1, <1>5 DEF Filling, Untouched

\* What is in hand on a plain line is no flag.
LEMMA PlainInHand ==
  ASSUME IInv, PlainLine, InHand
  PROVE  arg.tok # DashDash /\ arg.tok.k \in {"word", "pair", "dash"}
<1>1. Types /\ Line
  BY DEF IInv
<1>2. arg.pos \in 1 .. Len(argv)
  BY <1>1, LineTyped DEF Line, Types, Token
<1>3. argv[arg.pos] \in {Word, NameEq, Dash}
  BY <1>2 DEF PlainLine
<1>4. argv[arg.pos].k \in {"word", "pair", "dash"}
  BY <1>3 DEF Word, NameEq, Dash
<1>5. arg.tok = argv[arg.pos]
  BY <1>1, <1>4 DEF Line, FromLine
<1> QED BY <1>4, <1>5 DEF DashDash

\* The same for the next token.
LEMMA PlainNext ==
  ASSUME IInv, PlainLine, args # <<>>
  PROVE  Head(args).tok.k \in {"word", "pair", "dash"}
<1>1. Types /\ Line /\ Len(args) \in Nat /\ Len(argv) \in Nat
  BY LineTyped DEF IInv
<1>2. Len(args) >= 1 /\ Head(args) = args[1]
  <2>1. args \in Seq(Token)
    BY <1>1 DEF Types
  <2> HIDE DEF Token
  <2> QED BY <2>1
<1>3. args[1].pos = Popped + 1 /\ FromLine(args[1]) /\ Popped + 1 \in 1 .. Len(argv)
  BY <1>1, <1>2 DEF Line, Popped
<1>4. argv[args[1].pos] \in {Word, NameEq, Dash}
  BY <1>3 DEF PlainLine
<1>5. argv[args[1].pos].k \in {"word", "pair", "dash"}
  BY <1>4 DEF Word, NameEq, Dash
<1> QED BY <1>2, <1>3, <1>5 DEF FromLine

\* There is an arg which is not skipped.
LEMMA PlainSkip ==
  ASSUME Types, Plain
  PROVE  Len(command.takers) \in Nat \ {0} /\ LeadingSkip \in 0 .. Len(command.takers) - 1
<1>1. command.takers # <<>> /\ command.takers \in Seq(TakerType)
  BY DEF Plain, Types, CommandType
<1>2. Len(command.takers) \in Nat \ {0}
  <2> HIDE DEF TakerType
  <2> QED BY <1>1
<1> QED BY <1>2, TakersLength, SkipLess

LEMMA TakersSame == Types => Len(takers) = Len(command.takers)
BY TakersLength

LEMMA TakersSameNext == Types' => (Len(takers) = Len(command.takers))'
BY TakersSame, PTL

\* What is required does not change.
LEMMA SameNeeds ==
  ASSUME UNCHANGED <<command, argv>>, Types, Types'
  PROVE  /\ LeadingSkip' = LeadingSkip /\ (Plain' <=> Plain)
         /\ \A m : RequiredByLast(m)' = RequiredByLast(m)
<1>1. \A m : RequiredByLast(m)' = RequiredByLast(m)
  BY Zenon DEF RequiredByLast
<1>2. ArgumentCount' = ArgumentCount /\ Len(takers') = Len(takers)
  BY TakersSame, TakersSameNext DEF ArgumentCount
<1>3. LeadingSkip' = LeadingSkip
  BY <1>1, <1>2, Zenon DEF LeadingSkip
<1>4. Plain' <=> Plain
  BY DEF Plain, PlainLine, FixedArgs
<1> QED BY <1>1, <1>3, <1>4

\* A step which uses nothing of the line.
LEMMA FillingSame ==
  ASSUME Types, Types', Filling, pc \in {"parsing", "positional", "done"},
         UNCHANGED <<command, argv, takers, index, outputs>>, Used' = Used, pc' # "start"
  PROVE  Filling'
<1>1. /\ LeadingSkip' = LeadingSkip /\ (Plain' <=> Plain)
      /\ \A m : RequiredByLast(m)' = RequiredByLast(m)
  BY SameNeeds
<1>2. \A j : Bound(j)' <=> Bound(j)
  BY DEF Bound, ArgsBoundTo, ArgOccurrences
<1>3. Begun' <=> Begun
  BY DEF Begun
<1>4. Plain => InProgress
  BY DEF Filling
<1>5. InProgress => InProgress'
  BY <1>1, <1>2, <1>3, Zenon DEF InProgress
<1> QED BY <1>1, <1>4, <1>5 DEF Filling

\* The leading args which the line leaves empty are skipped.
LEMMA StartFills ==
  ASSUME IInv, Filling, Start
  PROVE  Filling'
<1>1. Types /\ Types' /\ Len(takers) = Len(command.takers) /\ Len(takers) \in Nat
  BY StartKeeps, TakersLength DEF IInv
<1>2. /\ pc = "start" /\ UNCHANGED <<command, argv, args, takers, outputs>>
      /\ pc' \in {"parsing", "failed"}
      /\ pc' = "parsing" /\ command.rightToLeft => index' = LeadingSkip + 1
  BY DEF Start, input
<1>3. /\ LeadingSkip' = LeadingSkip /\ (Plain' <=> Plain)
      /\ \A m : RequiredByLast(m)' = RequiredByLast(m)
  BY <1>1, <1>2, SameNeeds
<1>4. SUFFICES ASSUME Plain, pc' = "parsing" PROVE InProgress'
  BY <1>2, <1>3 DEF Filling
<1> DEFINE n == Len(command.takers)
           first == LeadingSkip + 1
<1>5. n \in Nat \ {0}
  BY <1>1, <1>4, PlainSkip
<1>6. LeadingSkip \in 0 .. n - 1
  BY <1>1, <1>4, PlainSkip
<1>7. /\ index' = first /\ takers' = command'.takers /\ command' = command
      /\ outputs' = <<>> /\ Used' = 0
  <2>1. Untouched /\ ~InHand /\ ~InHand'
    BY <1>2, <1>4 DEF Filling, InHand
  <2> QED BY <1>2, <1>4, <2>1 DEF Untouched, Plain, Used, Popped
<1>8. /\ Fixed(command.takers[first]) /\ RequiredBy(command.takers[first]) \in Nat \ {0}
      /\ Left(command.takers[first]) = RequiredBy(command.takers[first])
  BY <1>1, <1>4, <1>6, ArgsTyped DEF Plain
<1>9. RequiredByLast(n - LeadingSkip)
        = RequiredByLast(n - first) + RequiredBy(command.takers[first])
  <2> DEFINE m == n - LeadingSkip
  <2>1. m \in 1 .. n /\ m - 1 = n - first /\ n - m + 1 = first
    BY <1>5, <1>6
  <2> HIDE DEF m
  <2>2. RequiredByLast(m) = RequiredByLast(m - 1) + RequiredBy(command.takers[n - m + 1])
    BY <2>1, <1>1, SumSteps
  <2> QED BY <2>1, <2>2 DEF m
<1>10. RequiredByLast(n - first) \in Nat
  <2>1. n - first \in 0 .. n
    BY <1>5, <1>6
  <2> QED BY <2>1, <1>1, <1>4, SumGrows DEF Plain
<1>11. ~Begun' /\ \A j : ~Bound(j)'
  <2>1. ~Begun'
    BY <1>7, <1>8 DEF Begun
  <2>2. 1 .. Len(outputs') = {}
    BY <1>7
  <2> QED BY <2>1, <2>2 DEF Bound, ArgsBoundTo, ArgOccurrences
<1> HIDE DEF first, n
<1>12. /\ index' \in LeadingSkip + 1 .. n
       /\ Fixed(takers'[index'])
       /\ Left(takers'[index']) <= RequiredBy(command.takers[index'])
       /\ LeadingSkip + 1 .. index' - 1 = {} /\ index' = LeadingSkip + 1
       /\ Used' + RequiredByLast(n - index') + Left(takers'[index'])
            = RequiredByLast(n - LeadingSkip)
  BY <1>5, <1>6, <1>7, <1>8, <1>9, <1>10 DEF first
<1> QED BY <1>3, <1>7, <1>11, <1>12, Zenon DEF InProgress, n

\* The arg which a value binds to has one more occurrence.
LEMMA BoundTo ==
  ASSUME Types, NEW i \in Nat, outputs' = Append(outputs, ArgOccurrence(i, arg))
  PROVE  \A j : Bound(j)' <=> Bound(j) \/ j = i
<1> DEFINE o == ArgOccurrence(i, arg)
<1>1. Len(outputs) \in Nat /\ outputs \in Seq(Occurrence)
  BY LineTyped
<1>2. /\ Len(outputs') = Len(outputs) + 1
      /\ \A k \in 1 .. Len(outputs) : outputs'[k] = outputs[k]
      /\ outputs'[Len(outputs) + 1] = o
  <2> HIDE DEF o, Occurrence
  <2> QED BY <1>1 DEF o
<1>3. o.flagAt = 0 /\ o.name = i
  BY DEF ArgOccurrence
<1> HIDE DEF o
<1>4. \A j : Bound(j) <=> \E k \in 1 .. Len(outputs) : outputs[k].flagAt = 0 /\ outputs[k].name = j
  BY DEF Bound, ArgsBoundTo, ArgOccurrences
<1>5. \A j : Bound(j)' <=> \E k \in 1 .. Len(outputs') :
                             outputs'[k].flagAt = 0 /\ outputs'[k].name = j
  BY DEF Bound, ArgsBoundTo, ArgOccurrences
<1>6. 1 .. Len(outputs') = 1 .. Len(outputs) \cup {Len(outputs) + 1}
  BY <1>1, <1>2
<1> QED BY <1>2, <1>3, <1>4, <1>5, <1>6

\* The arg which is being filled takes the token, or if it has all it takes the
\* one after it does.
LEMMA OfferFixed ==
  ASSUME Types, NEW tok, NEW possibleFlag, index \in 1 .. Len(command.takers),
         Fixed(takers[index]),
         \A j \in index + 1 .. Len(command.takers) :
           Fixed(takers[j]) /\ Left(takers[j]) # 0,
         SetArg(tok, possibleFlag).ok
  PROVE  LET s == SetArg(tok, possibleFlag)
         IN  /\ s.index \in {index, index + 1} /\ s.index <= Len(command.takers)
             /\ s.index = index <=> Left(takers[index]) # 0
             /\ s.takers[s.index] = Take(takers[s.index], tok, possibleFlag).counter
             /\ \A j \in s.index + 1 .. Len(command.takers) : s.takers[j] = takers[j]
<1> DEFINE N == Len(command.takers)
           answer(j) == Take(takers[j], tok, possibleFlag)
           stops == {j \in index .. N : answer(j).res # "end"}
           at == IF stops = {} THEN Max({index, N + 1}) ELSE Min(stops)
           s == SetArg(tok, possibleFlag)
<1>1. Len(takers) = N /\ N \in Nat /\ index \in Nat
  BY TakersLength DEF Types
<1>2. /\ s.index = at
      /\ s.ok => stops # {}
      /\ s.takers = [j \in 1 .. N |-> IF j \in index .. at THEN answer(j).counter ELSE takers[j]]
  <2> HIDE DEF at
  <2>1. s.index = at
    BY <1>1 DEF SetArg, at
  <2>2. s.ok => stops # {}
    BY <1>1, Zenon DEF SetArg
  <2>3. s.takers = [j \in 1 .. N |-> IF j \in index .. at THEN answer(j).counter ELSE takers[j]]
    BY <1>1 DEF SetArg, at
  <2> QED BY <2>1, <2>2, <2>3
<1>3. index \in stops <=> Left(takers[index]) # 0
  <2>1. Left(takers[index]) = 0 <=> answer(index).res = "end"
    BY FixedTakes
  <2> HIDE DEF answer
  <2> QED BY <2>1, <1>1
<1>4. \A j \in index + 1 .. N : j \in stops
  <2> TAKE j \in index + 1 .. N
  <2>1. answer(j).res # "end"
    BY FixedTakes
  <2> HIDE DEF answer
  <2> QED BY <2>1, <1>1
<1>5. at = Min(stops) /\ Min(stops) \in stops /\ \A j \in stops : Min(stops) <= j
  <2>1. stops \in SUBSET Nat /\ stops # {}
    BY <1>1, <1>2
  <2> HIDE DEF stops
  <2> QED BY <2>1, MinFacts DEF at
<1>6. \A j \in stops : j \in index .. N
  OBVIOUS
<1> HIDE DEF stops, at
<1>7. at \in index .. N /\ (index \in stops => at = index)
  BY <1>1, <1>5, <1>6
<1>8. index \notin stops => at = index + 1
  <2> SUFFICES ASSUME index \notin stops PROVE at = index + 1
    OBVIOUS
  <2>1. at \in index + 1 .. N
    BY <1>1, <1>5, <1>7
  <2>2. index + 1 \in stops
    BY <1>1, <1>4, <2>1
  <2> QED BY <1>1, <1>5, <2>1, <2>2
<1>9. s.takers[at] = answer(at).counter /\ \A j \in at + 1 .. N : s.takers[j] = takers[j]
  <2> HIDE DEF answer, s
  <2> QED BY <1>1, <1>2, <1>7
<1>10. at \in {index, index + 1} /\ at <= N /\ (at = index <=> Left(takers[index]) # 0)
  BY <1>1, <1>3, <1>7, <1>8
<1>11. s.index = at
  BY <1>2
<1> HIDE DEF s
<1> QED BY <1>9, <1>10, <1>11, Zenon DEF s, answer

\* A value binds to the arg at the index.
LEMMA BindFills ==
  ASSUME IInv, Filling, BindArg
  PROVE  Filling'
<1>1. Types /\ Types' /\ Len(takers) = Len(command.takers) /\ Len(takers) \in Nat
  BY BindArgKeeps, TakersLength DEF IInv
<1>2. /\ pc = "positional" /\ InHand /\ pc' # "start"
      /\ index' = Offer.index /\ takers' = Offer.takers /\ Offer.ok
      /\ outputs' = Append(outputs, ArgOccurrence(index', arg))
      /\ UNCHANGED <<command, argv>>
      /\ \/ args = <<>> /\ pc' \in {"parsing", "failed"} /\ args' = args
         \/ args # <<>> /\ pc' = "positional" /\ args' = Tail(args)
  BY Zenon DEF BindArg, input, InHand
<1>3. Used \in Nat /\ Used' = Used + 1
  <2>1. Used \in Nat /\ Popped = Used + 1 /\ Len(args) \in Nat /\ Len(argv) \in Nat
    BY <1>1, <1>2, UsedFacts, LineTyped DEF IInv
  <2>2. CASE args = <<>>
    <3>1. ~InHand' /\ Popped' = Popped
      BY <1>2, <2>2 DEF InHand, Popped
    <3> QED BY <2>1, <3>1 DEF Used
  <2>3. CASE args # <<>>
    <3>1. Len(args') = Len(args) - 1
      <4>1. args \in Seq(Token)
        BY <1>1 DEF Types
      <4> HIDE DEF Token
      <4> QED BY <1>2, <2>3, <4>1
    <3>2. InHand' /\ Popped' = Popped + 1
      BY <1>2, <2>1, <2>3, <3>1 DEF InHand, Popped
    <3>3. Used' = Popped' - 1
      BY <3>2 DEF Used
    <3> QED BY <2>1, <3>2, <3>3
  <2> QED BY <2>2, <2>3
<1>4. /\ LeadingSkip' = LeadingSkip /\ (Plain' <=> Plain)
      /\ \A m : RequiredByLast(m)' = RequiredByLast(m)
  BY <1>1, <1>2, SameNeeds
<1>5. SUFFICES ASSUME Plain PROVE InProgress'
  BY <1>2, <1>4 DEF Filling
<1> DEFINE n == Len(command.takers)
           first == LeadingSkip + 1
           need(j) == RequiredBy(command.takers[j])
           left == Left(takers[index])
<1>6. InProgress
  BY <1>2, <1>5 DEF Filling
<1>7. /\ \A j \in 1 .. n : /\ Fixed(command.takers[j]) /\ need(j) \in Nat \ {0}
                           /\ Left(command.takers[j]) = need(j)
      /\ LeadingSkip \in 0 .. n - 1 /\ n \in Nat
  BY <1>1, <1>5, ArgsTyped, PlainSkip DEF Plain
<1>8. /\ index \in first .. n /\ index \in 1 .. n /\ index' \in Nat
      /\ left \in Nat /\ left <= need(index)
  <2>1. index \in first .. n /\ Fixed(takers[index]) /\ left <= need(index)
    BY <1>6 DEF InProgress
  <2>2. index \in 1 .. n
    BY <1>7, <2>1
  <2>3. index' \in Nat
    BY <1>1 DEF Types
  <2> QED BY <2>1, <2>2, <2>3, FixedTakes
<1>9. /\ index' \in {index, index + 1} /\ index' <= n /\ (index' = index <=> left # 0)
      /\ takers'[index'] = Take(takers[index'], arg.tok, state = "flagsOrArgs").counter
      /\ \A j \in index' + 1 .. n : takers'[j] = takers[j]
  <2>1. Fixed(takers[index])
    BY <1>6 DEF InProgress
  <2>2. \A j \in index + 1 .. n : Fixed(takers[j]) /\ Left(takers[j]) # 0
    <3> TAKE j \in index + 1 .. n
    <3>1. takers[j] = command.takers[j] /\ j \in 1 .. n
      BY <1>6, <1>7, <1>8 DEF InProgress
    <3> QED BY <1>7, <3>1
  <2>3. SetArg(arg.tok, state = "flagsOrArgs").ok
    BY <1>2 DEF Offer
  <2>4. /\ SetArg(arg.tok, state = "flagsOrArgs").index = index'
        /\ SetArg(arg.tok, state = "flagsOrArgs").takers = takers'
    BY <1>2 DEF Offer
  <2> QED BY <1>1, <1>8, <2>1, <2>2, <2>3, <2>4, OfferFixed
<1>10. \A j : Bound(j)' <=> Bound(j) \/ j = index'
  BY <1>1, <1>2, <1>8, BoundTo
<1> DEFINE before == Left(takers[index'])
<1>11. /\ Fixed(takers[index']) /\ before \in Nat \ {0} /\ before <= need(index')
       /\ index' = index => before = left
       /\ index' = index + 1 => left = 0 /\ before = need(index')
  <2>1. CASE index' = index
    BY <1>6, <1>8, <1>9, <2>1 DEF InProgress
  <2>2. CASE index' = index + 1
    <3>1. takers[index'] = command.takers[index'] /\ index' \in 1 .. n /\ left = 0
      BY <1>6, <1>7, <1>8, <1>9, <2>2 DEF InProgress
    <3>2. index' # index
      BY <1>8, <2>2
    <3>3. need(index') \in Nat \ {0} /\ before = need(index') /\ Fixed(takers[index'])
      BY <1>7, <3>1
    <3> HIDE DEF need, before, left
    <3> QED BY <2>2, <3>1, <3>2, <3>3
  <2> QED BY <1>9, <2>1, <2>2
<1>12. Fixed(takers'[index']) /\ Left(takers'[index']) = before - 1
  BY <1>9, <1>11, FixedTakes
<1>13. Begun'
  <2> HIDE DEF need, before
  <2>1. Left(takers'[index']) < need(index')
    <3>1. need(index') \in Nat
      BY <1>7, <1>8, <1>9
    <3> QED BY <1>11, <1>12, <3>1
  <2>2. command' = command
    BY <1>2
  <2> QED BY <2>1, <2>2, Zenon DEF Begun, need
<1>14. \A j \in index' + 1 .. n : takers'[j] = command.takers[j]
  <2>1. index' \in Nat /\ index \in Nat /\ index <= index' /\ n \in Nat
    BY <1>7, <1>8, <1>9
  <2>2. index' + 1 .. n \subseteq index + 1 .. n
    <3> DEFINE next == index'
    <3>1. next \in Nat /\ index <= next
      BY <2>1
    <3> HIDE DEF n, next
    <3>2. \A j \in next + 1 .. n : j \in index + 1 .. n
      BY <2>1, <3>1
    <3> QED BY <3>2 DEF next
  <2>3. \A j \in index + 1 .. n : takers[j] = command.takers[j]
    BY <1>6 DEF InProgress
  <2> QED BY <1>9, <2>2, <2>3, Zenon
<1>15. \A j \in 1 .. n : Bound(j)' <=> j \in first .. index' - 1 \/ j = index'
  <2> TAKE j \in 1 .. n
  <2>1. Bound(j) <=> j \in first .. index - 1 \/ (j = index /\ Begun)
    BY <1>6 DEF InProgress
  <2>2. CASE index' = index
    BY <1>10, <2>1, <2>2
  <2>3. CASE index' = index + 1
    <3>1. Begun
      <4>1. left = 0 /\ need(index) \in Nat \ {0}
        BY <1>7, <1>8, <1>11, <2>3
      <4> HIDE DEF left, need
      <4>2. left < need(index)
        BY <4>1
      <4> QED BY <4>2 DEF Begun, left, need
    <3>2. Bound(j) <=> j \in first .. index
      BY <1>7, <1>8, <2>1, <3>1
    <3>3. j \in first .. index' - 1 <=> j \in first .. index
      BY <1>8, <2>3
    <3> QED BY <1>10, <3>2, <3>3
  <2> QED BY <1>9, <2>2, <2>3
<1>16. Used' + RequiredByLast(n - index') + Left(takers'[index']) = RequiredByLast(n - LeadingSkip)
  <2>1. Used + RequiredByLast(n - index) + left = RequiredByLast(n - LeadingSkip)
    BY <1>6 DEF InProgress
  <2>2. RequiredByLast(n - index) \in Nat /\ RequiredByLast(n - index') \in Nat
    <3>1. n - index \in 0 .. n /\ n - index' \in 0 .. n
      BY <1>7, <1>8, <1>9
    <3> QED BY <1>1, <1>5, <3>1, SumGrows DEF Plain
  <2>3. CASE index' = index
    <3> HIDE DEF n, left, before
    <3> QED BY <1>3, <1>8, <1>11, <1>12, <2>1, <2>2, <2>3
  <2>4. CASE index' = index + 1
    <3> DEFINE m == n - index
    <3>1. m \in 1 .. n /\ m - 1 = n - index' /\ n - m + 1 = index'
      BY <1>7, <1>8, <1>9, <2>4
    <3> HIDE DEF m
    <3>2. RequiredByLast(m) = RequiredByLast(m - 1) + need(n - m + 1)
      BY <3>1, <1>7, SumSteps
    <3>3. RequiredByLast(n - index) = RequiredByLast(n - index') + need(index')
      BY <3>1, <3>2 DEF m
    <3>4. left = 0 /\ before = need(index') /\ before \in Nat
      BY <1>11, <2>4
    <3> HIDE DEF n, left, before, need
    <3> QED BY <1>3, <1>12, <2>1, <2>2, <3>3, <3>4
  <2> QED BY <1>9, <2>3, <2>4
<1>17. /\ index' \in first .. n /\ Left(takers'[index']) <= need(index')
       /\ \A j \in 1 .. n : Bound(j)' <=> j \in first .. index' - 1 \/ (j = index' /\ Begun')
  <2>1. index' \in first .. n
    BY <1>7, <1>8, <1>9
  <2>2. Left(takers'[index']) <= need(index')
    <3>1. need(index') \in Nat
      BY <1>7, <1>8, <1>9
    <3> HIDE DEF need, before
    <3> QED BY <1>11, <1>12, <3>1
  <2> QED BY <2>1, <2>2, <1>13, <1>15
<1> QED BY <1>2, <1>4, <1>12, <1>13, <1>14, <1>16, <1>17, Zenon DEF InProgress

LEMMA NextTokenFills ==
  ASSUME IInv, Filling, NextToken
  PROVE  Filling'
<1>1. Types /\ Types' /\ Line /\ Len(args) \in Nat /\ Len(argv) \in Nat
  BY NextTokenKeeps, LineTyped DEF IInv
<1>2. /\ pc = "parsing" /\ pc' \in {"positional", "flag"} /\ args # <<>>
      /\ args' = Tail(args) /\ UNCHANGED <<command, argv, takers, index, outputs>>
  BY DEF NextToken, input, binding
<1>3. InHand' /\ ~InHand
  BY <1>2 DEF InHand
<1>4. Len(args') = Len(args) - 1
  <2>1. args \in Seq(Token)
    BY <1>1 DEF Types
  <2> HIDE DEF Token
  <2> QED BY <1>2, <2>1
<1>5. Used' = Used
  BY <1>1, <1>2, <1>3, <1>4 DEF Used, Popped
<1>6. pc' # "start"
  BY <1>2
<1> QED BY <1>1, <1>2, <1>5, <1>6, FillingSame

LEMMA EndFills ==
  ASSUME IInv, Filling, EndOfTokens
  PROVE  Filling'
<1>1. Types /\ Types'
  BY EndOfTokensKeeps DEF IInv
<1>2. /\ pc = "parsing" /\ pc' \in {"done", "failed"}
      /\ UNCHANGED <<command, argv, args, takers, index, outputs>>
  BY DEF EndOfTokens, input, binding
<1>3. ~InHand' /\ ~InHand /\ pc' # "start"
  BY <1>2 DEF InHand
<1>4. Used' = Used
  BY <1>2, <1>3 DEF Used, Popped
<1> QED BY <1>1, <1>2, <1>3, <1>4, FillingSame

\* On a plain line no other step goes on parsing.
LEMMA OthersFill ==
  ASSUME IInv, Filling,
         \/ Terminator \/ RefuseArg \/ EndOfOptions \/ LoneDash \/ UnknownLong
         \/ FlagAfterArg \/ LongFlag \/ ShortFlags \/ UnknownShort \/ InlineValue
         \/ LastLetter
  PROVE  Filling'
<1>1. UNCHANGED <<command, argv>>
  BY DEF Terminator, RefuseArg, EndOfOptions, LoneDash, UnknownLong, FlagAfterArg, LongFlag,
         ShortFlags, UnknownShort, InlineValue, LastLetter, Unknown, input
<1>2. PlainLine' <=> PlainLine
  BY <1>1 DEF PlainLine
<1>3. SUFFICES ASSUME PlainLine
               PROVE  pc' \notin {"start", "parsing", "positional", "done"}
  BY <1>2 DEF Filling, Plain
<1>4. InHand => arg.tok # DashDash /\ arg.tok.k \in {"word", "pair", "dash"}
  BY <1>3, PlainInHand
<1>5. pc = "cluster" => arg.tok.k = "short"
  BY DEF IInv, Line
<1>6. ~Terminator /\ ~EndOfOptions
  BY <1>4 DEF Terminator, EndOfOptions, InHand
<1>7. ~UnknownLong /\ ~LongFlag
  BY <1>4 DEF UnknownLong, LongFlag, InHand
<1>8. ~UnknownShort /\ ~InlineValue /\ ~LastLetter
  BY <1>4, <1>5 DEF UnknownShort, InlineValue, LastLetter, InHand
<1>9. RefuseArg => pc' \in {"flag", "failed"}
  BY DEF RefuseArg
<1>10. LoneDash => pc' = "panic"
  BY DEF LoneDash
<1>11. FlagAfterArg => pc' = "failed"
  BY DEF FlagAfterArg, Fail
<1>12. ShortFlags => pc' = "cluster"
  BY DEF ShortFlags
<1> QED BY <1>6, <1>7, <1>8, <1>9, <1>10, <1>11, <1>12

LEMMA FillingKept ==
  ASSUME IInv, Filling, [Next]_vars
  PROVE  Filling'
<1>1. CASE UNCHANGED vars
  <2>1. IInv'
    BY <1>1, StepKeeps
  <2>2. Used' = Used /\ UNCHANGED <<command, argv, pc, takers, index, outputs>>
    BY <1>1 DEF vars, Used, InHand, Popped
  <2>3. CASE pc \in {"parsing", "positional", "done"}
    BY <2>1, <2>2, <2>3, FillingSame DEF IInv
  <2>4. CASE pc \notin {"parsing", "positional", "done"}
    <3>1. Plain' <=> Plain
      BY <2>2 DEF Plain, PlainLine, FixedArgs
    <3> QED BY <2>2, <2>4, <3>1 DEF Filling, Untouched
  <2> QED BY <2>3, <2>4
<1>2. CASE Start
  BY <1>2, StartFills
<1>3. CASE NextToken
  BY <1>3, NextTokenFills
<1>4. CASE EndOfTokens
  BY <1>4, EndFills
<1>5. CASE BindArg
  BY <1>5, BindFills
<1>6. CASE \/ Terminator \/ RefuseArg \/ EndOfOptions \/ LoneDash \/ UnknownLong
           \/ FlagAfterArg \/ LongFlag \/ ShortFlags \/ UnknownShort \/ InlineValue
           \/ LastLetter
  BY <1>6, OthersFill
<1> QED BY <1>1, <1>2, <1>3, <1>4, <1>5, <1>6 DEF Next

LEMMA FillingInvariant == Spec => []Filling
<1>1. Init => Filling
  BY FillingInitially
<1>2. IInv /\ Filling /\ [Next]_vars => Filling'
  BY FillingKept
<1> QED BY <1>1, <1>2, Invariant, PTL DEF Spec

\* An arg which stays empty to the right of a filled one: the args from it on
\* need less than what the leftmost filled arg took, or else the line would
\* have begun at an arg further to the right.
LEMMA EmptyAtRight ==
  ASSUME IInv, Filling, Plain, pc = "done",
         NEW i \in 1 .. Len(takers), NEW j \in 1 .. Len(takers), i < j, Bound(i), ~Bound(j)
  PROVE  \E f \in 1 .. i :
           Bound(f) /\ RequiredByLast(Len(takers) - j + 1) < RequiredBy(command.takers[f])
<1> DEFINE n == Len(command.takers)
           first == LeadingSkip + 1
           need(k) == RequiredBy(command.takers[k])
<1>1. Types /\ Len(takers) = n /\ n \in Nat \ {0} /\ LeadingSkip \in 0 .. n - 1
  BY TakersLength, PlainSkip DEF IInv
<1>2. InProgress
  BY DEF Filling
<1>3. /\ index \in first .. n /\ index \in 1 .. n /\ Left(takers[index]) \in Nat
      /\ (index # first => Begun)
  BY <1>1, <1>2, FixedTakes DEF InProgress
<1>4. /\ Bound(i) <=> i \in first .. index - 1 \/ (i = index /\ Begun)
      /\ Bound(j) <=> j \in first .. index - 1 \/ (j = index /\ Begun)
      /\ Bound(first) <=> first \in first .. index - 1 \/ (first = index /\ Begun)
  <2>1. \A k \in 1 .. n : Bound(k) <=> k \in first .. index - 1 \/ (k = index /\ Begun)
    BY <1>2 DEF InProgress
  <2>2. first \in 1 .. n
    BY <1>1
  <2> HIDE DEF first, n
  <2> QED BY <1>1, <2>1, <2>2
<1>5. first \in 1 .. i /\ i <= index /\ j > index
  BY <1>1, <1>3, <1>4
<1>6. Bound(first)
  BY <1>1, <1>3, <1>4, <1>5
<1>7. Used = Len(argv) /\ Len(argv) \in Nat
  <2>1. args = <<>> /\ ~InHand /\ Len(argv) \in Nat
    BY LineTyped DEF IInv, Line, InHand
  <2> QED BY <2>1 DEF Used, Popped
<1> DEFINE m == n - LeadingSkip
           rest == RequiredByLast(n - j + 1)
<1>8. m \in 1 .. n /\ m - 1 \in 1 .. n /\ m - 1 < n - LeadingSkip /\ n - m + 1 = first
  BY <1>1, <1>3, <1>5
<1>9. RequiredByLast(m - 1) < Len(argv)
  <2>1. ~(ArgumentCount - RequiredByLast(m - 1) <= 1)
    <3>1. Len(takers) # 0 /\ m - 1 \in 1 .. Len(takers) /\ m - 1 < Len(takers) - LeadingSkip
      BY <1>1, <1>8
    <3> HIDE DEF m
    <3> QED BY <1>1, <3>1, SkipLess
  <2>2. RequiredByLast(m - 1) \in Nat
    BY <1>1, <1>8, SumGrows DEF Plain
  <2> HIDE DEF m
  <2> QED BY <1>7, <2>1, <2>2 DEF ArgumentCount
<1>10. RequiredByLast(m) = RequiredByLast(m - 1) + need(first)
  <2>1. RequiredByLast(m) = RequiredByLast(m - 1) + need(n - m + 1)
    BY <1>1, <1>8, SumSteps
  <2> HIDE DEF m
  <2> QED BY <2>1, <1>8
<1>11. Used + RequiredByLast(n - index) + Left(takers[index]) = RequiredByLast(m)
  BY <1>2 DEF InProgress
<1>12. rest <= RequiredByLast(n - index) /\ rest \in Nat /\ RequiredByLast(n - index) \in Nat
  <2>1. n - j + 1 \in 0 .. n /\ n - index \in 0 .. n /\ n - j + 1 <= n - index
    BY <1>1, <1>3, <1>5
  <2> QED BY <1>1, <2>1, SumGrows DEF Plain
<1>13. RequiredByLast(m - 1) \in Nat /\ need(first) \in Nat
  <2>1. first \in 1 .. n
    BY <1>1
  <2>2. RequiredByLast(m - 1) \in Nat
    BY <1>1, <1>8, SumGrows DEF Plain
  <2> QED BY <1>1, <2>1, <2>2, ArgsTyped DEF Plain
<1>14. rest < need(first)
  <2> HIDE DEF m, rest, need, first, n
  <2> QED BY <1>3, <1>7, <1>9, <1>10, <1>11, <1>12, <1>13
<1> QED BY <1>1, <1>5, <1>6, <1>14

\* Binding right to left leaves the args at the left empty, whatever the args,
\* as long as each takes one or a fixed number of values and the line has no
\* flags: an arg to the right of a filled one is empty only if it and those
\* after it need fewer values than an arg which was filled before them.
THEOREM BoundAtRight == Spec => []RightmostFilledOnPlainLines
<1>1. ASSUME IInv, Filling, pc = "done", command.rightToLeft, PlainLine, FixedArgs,
             NEW i \in 1 .. Len(takers), NEW j \in 1 .. Len(takers),
             i < j, ArgsBoundTo(i) # {}, ArgsBoundTo(j) = {}
      PROVE  \E f \in 1 .. i :
               /\ ArgsBoundTo(f) # {}
               /\ RequiredByLast(Len(takers) - j + 1) < RequiredBy(command.takers[f])
  <2>1. command.takers # <<>>
    <3>1. Len(command.takers) # 0
      <4>1. Len(takers) = Len(command.takers)
        BY <1>1, TakersLength DEF IInv
      <4> QED BY <1>1, <4>1
    <3> QED BY <3>1
  <2>2. Plain
    BY <1>1, <2>1 DEF Plain
  <2> QED BY <1>1, <2>2, EmptyAtRight DEF Bound
<1>2. IInv /\ Filling => RightmostFilledOnPlainLines
  BY <1>1 DEF RightmostFilledOnPlainLines
<1> QED BY <1>2, Invariant, FillingInvariant, PTL
=============================================================================
