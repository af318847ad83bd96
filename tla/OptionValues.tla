---------------------------- MODULE OptionValues ----------------------------
(***************************************************************************)
(* The value of one option while a chain of commands executes.  The option *)
(* is an arg of the app or a flag of the app, which its sub-commands       *)
(* inherit.  Each level parses its own arguments and applies them to the   *)
(* option's binding state; the app's Before pipelines may then set an      *)
(* implied value; and the Action of the option is triggered at every level *)
(* where it was seen, or implied if it asked for that.  With               *)
(* EachOccurrence the binding state keeps a value per occurrence and the   *)
(* Action is called for each of them.                                      *)
(* A value is the sequence of the words stored in it: a string joins them  *)
(* with spaces, a list appends them and a scalar keeps the last.           *)
(***************************************************************************)
EXTENDS Integers, Sequences

CONSTANTS
  Word,           \* what a value can be set from
  Bad,            \* the word which a scalar cannot be parsed from
  Blank,          \* the empty word, which an Optional flag is given
  OptionalValue,  \* what Blank stands for
  NoWord,         \* stands for the absence of a word
  Levels,         \* commands in the chain
  Case            \* an option with its environment and command line

Level == 1 .. Levels

\* merge is "implicit" for args which are strings, whose words are occurrences
\* of their own, and "explicit" with the Merge option.  implied are the values
\* found by FromEnv and FromFilePath and by ImplicitValue, in the order of the
\* Before pipeline of the option; hook is what another flag Implies.  given[k]
\* are the occurrences at level k; with a Transform, what the files named there
\* contain, which is not empty.
CaseType ==
  [kind : {"scalar", "string", "list"}, default : Seq(Word),
   merge : {"no", "implicit", "explicit"}, each : BOOLEAN,
   transform : BOOLEAN, impliedAction : BOOLEAN,
   implied : Seq(Word), hook : Word \cup {NoWord},
   given : [Level -> Seq(Seq(Word))]]

ASSUME WordAssumption ==
  {Bad, Blank} \subseteq Word /\ NoWord \notin Word /\ OptionalValue \in Seq(Word)
ASSUME LevelsAssumption == Levels \in Nat \ {0}
ASSUME CaseAssumption ==
  Case \subseteq CaseType /\ \A c \in Case : c.merge = "implicit" => c.kind = "string"

VARIABLES
  case,           \* chosen initially
  pc,             \* what happens at the level, or how the run ended
  level,          \* the command which executes
  n,              \* next occurrence to apply, or implied value to try
  cell,           \* memory: the value of the option, then those of clones
  count,          \* directBindingState.count
  initial,        \* multiBindingState.initial.value, as an index in cell
  all,            \* multiBindingState.all, as indices in cell
  seenImplied,    \* internalFlagSeenImplied
  ran             \* calls of the Action, with the values it can look up

vars == <<case, pc, level, n, cell, count, initial, all, seenImplied, ran>>
bindingState == <<count, initial, all>>

Value == cell[1]

-----------------------------------------------------------------------------
(* Setting a value *)

Fails(w) == case.kind = "scalar" /\ w = Bad
Failing(words) == \E m \in DOMAIN words : Fails(words[m])

optionSet(v, w) ==
  IF w = Blank THEN OptionalValue ELSE IF case.kind = "scalar" THEN <<w>> ELSE Append(v, w)

\* Stops at the first word which fails.
optionSetMany(v, words) ==
  LET set[k \in 0 .. Len(words)] ==
        IF k = 0 THEN v
        ELSE IF \E m \in 1 .. k : Fails(words[m]) THEN set[k - 1]
        ELSE optionSet(set[k - 1], words[k])
  IN  set[Len(words)]

Conventions(v, merges, first) ==
  IF ~merges /\ (case.kind = "string" \/ (case.kind = "list" /\ first)) THEN <<>> ELSE v

Merges == case.merge # "no"
optionReset(v) == Conventions(v, case.merge = "explicit", TRUE)

-----------------------------------------------------------------------------
(* Occurrences *)

Occurrences == IF case.each THEN Len(all) ELSE count
Seen == Occurrences > 0

OccurDirect(words) ==
  /\ count' = count + 1
  /\ cell' = [cell EXCEPT ![1] = optionSetMany(Conventions(@, Merges, count = 0), words)]
  /\ UNCHANGED <<initial, all>>

\* Defect: occurrences share the clone of the first.
NeedsCloneOnce == all = <<>>
\* Without merging every occurrence has a clone, else one clone is shared.
NeedsClone == all = <<>> \/ ~Merges

\* The clone takes the words; the option's own value does as well, except
\* that what a Transform provides is not passed on.
OccurMulti(words) ==
  LET own == IF NeedsClone THEN Len(cell) + 1 ELSE initial
      zeroed == IF NeedsClone THEN Append(cell, <<>>) ELSE cell
      clone == optionSetMany(Conventions(optionReset(zeroed[own]), Merges, TRUE), words)
      stored == [zeroed EXCEPT ![own] = clone]
  IN /\ initial' = own
     /\ all' = Append(all, own)
     /\ cell' = IF case.transform \/ Failing(words) THEN stored
                ELSE [stored EXCEPT ![1] = optionSetMany(@, words)]
     /\ UNCHANGED count

\* Defect: the binding state is not upgraded for EachOccurrence.
SetOccurrenceDirect(words) == OccurDirect(words)
SetOccurrence(words) == IF case.each THEN OccurMulti(words) ELSE OccurDirect(words)

Given == case.given[level]

-----------------------------------------------------------------------------
Init ==
  /\ case \in Case
  /\ pc = "parse"
  /\ level = 1
  /\ n = 1
  /\ cell = <<case.default>>
  /\ count = 0 /\ initial = 1 /\ all = <<>>
  /\ seenImplied = FALSE
  /\ ran = <<>>

\* ApplyTo, from one occurrence to the next.
ApplyTo ==
  /\ pc = "parse" /\ n \in DOMAIN Given
  /\ SetOccurrence(Given[n])
  /\ n' = n + 1
  /\ pc' = IF Failing(Given[n]) THEN "failed" ELSE pc
  /\ UNCHANGED <<case, level, seenImplied, ran>>

Parsed ==
  /\ pc = "parse" /\ n \notin DOMAIN Given
  /\ pc' = IF level = 1 THEN "before" ELSE "trigger"
  /\ n' = 1
  /\ UNCHANGED <<case, level, cell, bindingState, seenImplied, ran>>

\* Implicitly runs its action only if there are no occurrences.
Implicitly == ~Seen

\* Defect: later values are accepted as well.
SetImpliedAgain(w) ==
  /\ seenImplied' = TRUE
  /\ cell' = IF Fails(w) THEN cell ELSE [cell EXCEPT ![1] = optionSet(@, w)]
\* SetValue: refuses the second implied value.  An error is not reported, and
\* the value counts as implied regardless.
SetImplied(w) ==
  IF seenImplied THEN UNCHANGED <<seenImplied, cell>>
  ELSE /\ seenImplied' = TRUE
       /\ cell' = IF Fails(w) THEN cell ELSE [cell EXCEPT ![1] = optionSet(@, w)]

\* The Before pipeline of the option.
ImplicitValue ==
  /\ pc = "before" /\ n \in DOMAIN case.implied
  /\ IF Implicitly THEN SetImplied(case.implied[n]) ELSE UNCHANGED <<seenImplied, cell>>
  /\ n' = n + 1
  /\ UNCHANGED <<case, pc, level, bindingState, ran>>

\* The hook which Implies registered with the app runs after it.
Hook ==
  /\ pc = "before" /\ n \notin DOMAIN case.implied
  /\ IF Implicitly /\ case.hook # NoWord THEN SetImplied(case.hook)
     ELSE UNCHANGED <<seenImplied, cell>>
  /\ pc' = "trigger"
  /\ UNCHANGED <<case, level, n, bindingState, ran>>

-----------------------------------------------------------------------------
(* The Action *)

Triggered == Seen \/ (seenImplied /\ case.impliedAction)

\* The option is done at this level.
Leave ==
  IF level < Levels
  THEN pc' = "parse" /\ level' = level + 1 /\ n' = 1
  ELSE pc' = "done" /\ UNCHANGED <<level, n>>

\* What the Action finds under "" and under the name of the option.
Call(own, named) ==
  ran' = Append(ran, [level |-> level, own |-> own, named |-> named])

\* The Action returned an error, which ends the run.
UserError == pc' = "failed" /\ UNCHANGED <<level, n>>

Skip ==
  /\ pc = "trigger" /\ ~Triggered
  /\ Leave
  /\ UNCHANGED <<case, cell, bindingState, seenImplied, ran>>

Act ==
  /\ pc = "trigger" /\ Triggered /\ ~case.each
  /\ Call(Value, Value)
  /\ Leave \/ UserError
  /\ UNCHANGED <<case, cell, bindingState, seenImplied>>

\* eachOccurrenceOpt begins afresh with the occurrences at this level.
EachReset ==
  /\ pc = "trigger" /\ Triggered /\ case.each
  /\ cell' = [cell EXCEPT ![1] = optionReset(@)]
  /\ count' = 0 /\ initial' = 1 /\ all' = <<>>
  /\ pc' = "each" /\ n' = 1
  /\ UNCHANGED <<case, level, seenImplied, ran>>

\* Defect: the Action finds the value of the first occurrence.
OccurrenceValueFirst(index) == cell'[all'[1]]
OccurrenceValue(index) == cell'[all'[index]]

EachOccurrence ==
  /\ pc = "each" /\ n \in DOMAIN Given
  /\ SetOccurrence(Given[n])
  /\ Call(OccurrenceValue(n), cell'[1])
  /\ \/ n' = n + 1 /\ UNCHANGED <<pc, level>>
     \/ UserError
  /\ UNCHANGED <<case, seenImplied>>

EachDone ==
  /\ pc = "each" /\ n \notin DOMAIN Given
  /\ Leave
  /\ UNCHANGED <<case, cell, bindingState, seenImplied, ran>>

Done == pc \in {"done", "failed"} /\ UNCHANGED vars

Next ==
  \/ ApplyTo \/ Parsed \/ ImplicitValue \/ Hook
  \/ Skip \/ Act \/ EachReset \/ EachOccurrence \/ EachDone
  \/ Done

Spec == Init /\ [][Next]_vars

-----------------------------------------------------------------------------
(* What the values are to be *)

\* The elements of the sequences in seqs, in order.
Joined(seqs) ==
  LET upTo[k \in 0 .. Len(seqs)] == IF k = 0 THEN <<>> ELSE upTo[k - 1] \o seqs[k]
  IN  upTo[Len(seqs)]

\* The occurrences applied so far.
Occurred ==
  Joined([k \in 1 .. level - 1 |-> case.given[k]])
    \o (IF pc = "parse" THEN SubSeq(Given, 1, n - 1) ELSE Given)

\* The implied value which counts: the first one, unless the app was given
\* an occurrence.
ImpliedWords ==
  LET found == case.implied \o (IF case.hook = NoWord THEN <<>> ELSE <<case.hook>>)
  IN IF found = <<>> \/ case.given[1] # <<>> THEN <<>> ELSE <<Head(found)>>

\* Without occurrences the implied value replaces the initial one; with the
\* Merge option it is merged with it.
WinningUnset ==
  optionSetMany(IF ImpliedWords = <<>> \/ case.merge = "explicit" \/ case.kind = "scalar"
                THEN case.default ELSE <<>>, ImpliedWords)

\* That is replaced by the last occurrence of a string or by all of those of a
\* list; it is what everything is merged with.
Winning ==
  LET begun == IF Merges \/ case.kind = "scalar" THEN WinningUnset ELSE <<>>
  IN CASE Occurred = <<>> -> WinningUnset
       [] Occurred # <<>> /\ case.kind = "string" /\ ~Merges ->
            optionSetMany(begun, Occurred[Len(Occurred)])
       [] OTHER -> optionSetMany(begun, Joined(Occurred))

\* The code keeps the initial value although Merge was not asked for: below an
\* implied value, and below the words of an arg which merges implicitly.
KeepsDefault ==
  /\ case.kind # "scalar" /\ case.merge # "explicit" /\ case.default # <<>>
  /\ IF Occurred = <<>> THEN ImpliedWords # <<>> ELSE case.merge = "implicit"

\* The value of occurrence m at level k: if Merge was asked for it includes the
\* ones before.
OwnValue(k, m) ==
  IF case.merge = "explicit" THEN optionSetMany(<<>>, Joined(SubSeq(case.given[k], 1, m)))
  ELSE optionSetMany(<<>>, case.given[k][m])

CallsAt(k) == {i \in DOMAIN ran : ran[i].level = k}

-----------------------------------------------------------------------------
(* Properties *)

\* Variables have their types, and the binding state is the one which the
\* option asks for.
TypeOK ==
  /\ case \in Case
  /\ pc \in {"parse", "before", "trigger", "each", "done", "failed"}
  /\ level \in Level
  /\ n \in Nat \ {0}
  /\ cell \in Seq(Seq(Word)) /\ cell # <<>>
  /\ count \in Nat /\ (case.each => count = 0)
  /\ all \in Seq(2 .. Len(cell)) /\ (~case.each => all = <<>>)
  /\ initial \in DOMAIN cell
  /\ seenImplied \in BOOLEAN
  /\ ran \in Seq([level : Level, own : Seq(Word), named : Seq(Word)])

\* Without EachOccurrence, when the options of a level are triggered and at the
\* end, an option has the value which its occurrences at this and at earlier
\* levels, else its implied value, else its initial value amount to: a value
\* given explicitly beats an implied one, also when it is given to a
\* sub-command after the implied one was stored, and of several implied values
\* the first counts.  Nothing is said where KeepsDefault.
ValueIsWinning ==
  ~case.each /\ pc \in {"trigger", "done"} /\ ~KeepsDefault => Value = Winning

\* With EachOccurrence the values which the binding state keeps are those of
\* the last occurrences, each its own: none is changed by a later one.
OccurrenceValuesAreOwn ==
  case.each /\ ~Merges /\ pc \in {"parse", "before", "trigger"} =>
    LET earlier == Len(Occurred) - Len(all)
    IN \A m \in DOMAIN all : cell[all[m]] = optionSetMany(<<>>, Occurred[earlier + m])

\* The Action is called once at each level where the option was used, there or
\* above, or was implied and has ImpliedAction; with EachOccurrence once for
\* each occurrence at its level, in order and one right after the other, and it
\* finds the value of that occurrence, which with the Merge option includes the
\* occurrences before it.  Nothing is said of ImpliedOnly, where
\* EachOccurrence has no occurrence to call the Action for.
Used(k) ==
  \/ \E j \in 1 .. k : case.given[j] # <<>>
  \/ case.impliedAction /\ ImpliedWords # <<>>
CalledOnce(k) == IF Used(k) THEN \E i \in DOMAIN ran : CallsAt(k) = {i} ELSE CallsAt(k) = {}
CalledForEach(k) ==
  \E before \in 0 .. Len(ran) :
    /\ CallsAt(k) = before + 1 .. before + Len(case.given[k])
    /\ \A m \in DOMAIN case.given[k] : ran[before + m].own = OwnValue(k, m)
ImpliedOnly(k) ==
  /\ case.each /\ case.impliedAction /\ ImpliedWords # <<>>
  /\ \A j \in 1 .. k : case.given[j] = <<>>
ActionPerUse ==
  pc = "done" => \A k \in Level :
    ~ImpliedOnly(k) => IF case.each THEN CalledForEach(k) ELSE CalledOnce(k)

\* Does not hold.  The documentation of EachOccurrence says that looking up
\* the option by its name in its Action always finds the winning value, the
\* last occurrence or with Merge all of them.
NamedValueIsWinning ==
  case.each /\ pc = "done" /\ Occurred # <<>> /\ ~KeepsDefault =>
    \A m \in DOMAIN ran : ran[m].level = Levels => ran[m].named = Winning

=============================================================================
