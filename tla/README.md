# Formal models of joe-cli

joe-cli is a Go framework for command line programs. A program describes an
app as a tree of commands with flags and positional args, and attaches actions
to them; the framework initializes the tree, parses a command line against it
and runs the actions in an order it promises. These TLA+ modules model the
parts of it which decide *what happens in which order*. TLC checks them on
small instances; TLAPS proves what matters most for every instance.

## The system

| Component | State it keeps | Operations | Correct means |
|---|---|---|---|
| Argument parser (`set.go`) | tokens left, parser state, index of the current arg, occurrences so far | `RawParse`, `argList.take`, `argBinding.SetArg` | each token of an accepted line is used once and in order; parsing ends, with a result or a `ParseError` |
| Arg counters (`arg.go`, `value.go`) | number of values taken | `Take`, `Done` | a flag or arg gets the number of values it declares |
| Flag ordering (`command.go`, `context.go`) | `flagOrder` of each command | `orderFlags`, `topoSortFlags`, `localFlagsInOrder` | dependencies first, order class only breaks ties, cycles reported exactly when there is one, every flag once |
| Execution (`context.go`, `action.go`) | the chain of contexts, `didSubcommandExecute`, occurrences, data from `Recover` | `Execute`, `bubble`, `tunnel`, `triggerOptions`, `executePipelines` | Before, Action, After and hooks nest; one command acts; an error stops everything |
| Persistent flags (`set.go`, `flag.go`, `context.go`) | filter and options of each flag | `NewBinding`, `appliesIn`, `checkPersistentInFilters` | a flag is usable where it is inherited and acts only where it applies |
| Dispatch (`command.go`) | `searchingAlternateCommand` | `subcommandCore`, `tryFindCommandOrIntercept` | a command, a handler or an error, and no endless search |
| Initialization (`command.go`, `action.go`) | slices of flags, args and commands which grow meanwhile | `initializeFlagsArgs`, `initializeSubcommands`, `finalizeArgsAndFlags` | everything in the tree is initialized once, also what is added meanwhile; names are unique |
| Binding state (`set.go`, `option.go`) | occurrences and values of each option | `SetOccurrence`, `nextOccur`, `EachOccurrence` | the value is that of the last occurrence, or the merged one; `EachOccurrence` sees each occurrence by itself |
| Timings, implicit values (`action.go`) | deferred pipelines, `seenImplied`, `implicitTimingActive` | `At`, `FromEnv`, `Implicitly`, `Implies` | an implied value is set at most once and never over a given one |
| File input (`file.go`) | current file, source of files, output of the current file | `FileInput.Lines`, `NextFile`, `inplaceWriter` | every file read once, whole and in order; in-place editing loses nothing that a backup should keep; everything is closed |
| Config store (`extensions/config`) | cached store, `Once`, last error | `ensureStore`, `Invalidate` | loads at most once until invalidated, no caller sees half a load |
| Expressions (`extensions/expr`) | args of each operator, chain of evaluators | `evaluateCore`, `EvaluateParallel`, yielders | a step runs with its own words; the call covers all items and their errors |
| Everything else (usage, templates, completion, conversions, errors, other extensions) | none worth a model | formatting, reflection, I/O | |

How they interact: `App` builds the root command and initializes the tree from
its root; initialization calls back into user actions, which change the tree,
and ends by ordering the flags of each command. `Context.Execute` then
parses the args of one command (the parser asks the counters and produces
occurrences; applying them changes the binding state of flags which are shared
with all descendants), runs Before and the hooks of all ancestors, and triggers
options in the order computed before. One of the args of a command
holds the name of the sub-command: its Action executes a child context, so the
whole life of a sub-command lies inside the Action phase of its parent.

A `FileInput` calls the body of a range loop, which may call back into it
(`NextFile`, `Output`) between any two lines. An expression calls its steps
through one another by yielding. The configuration store is the one piece of state
which goroutines of a program share by design.

What is hard here: there is little concurrency (the config cache and parallel
evaluation), but long sequential protocols over shared mutable state. Tokens
are refused, pushed back and reinterpreted; options of an ancestor are read
while descendants execute; an error can be returned from any piece of user
code; slices grow and shrink while they are traversed; a file is overwritten while it is
read; a value is reset and applied again for each of its occurrences.

## Modules

| Module | Models | Extends / uses |
|---|---|---|
| `FlagSchedule` | what ordering promises: emit a ready flag, stop when none is | |
| `FlagOrder` | `orderFlags`, `topoSortFlags`, `localFlagsInOrder` | refines `FlagSchedule` |
| `FlagOrderProofs` | theorems about `FlagOrder` | `FlagOrder`, `TLAPS` |
| `ArgCounters` | tokens and the counters | |
| `ArgParser` | `RawParse` | extends `ArgCounters` |
| `ArgParserProofs` | theorems about `ArgParser` | `ArgParser`, `SequenceTheorems`, `WellFoundedInduction`, `TLAPS` |
| `CommandNesting` | what execution promises: enter, act, leave, or abandon | |
| `Lifecycle` | `Context.Execute` on a chain of commands | refines `CommandNesting` |
| `LifecycleProofs` | theorems about `Lifecycle`, and that it refines `CommandNesting` | `Lifecycle`, `SequenceTheorems`, `WellFoundedInduction`, `TLAPS` |
| `Initialization` | set-up of one command in rounds over its slices | |
| `InitializationProofs` | theorems about `Initialization` | `Initialization`, `SequenceTheorems`, `TLAPS` |
| `OptionValues` | the value of one option over occurrences, commands and implied values | |
| `OptionValuesProofs` | theorems about `OptionValues` | `OptionValues`, `SequenceTheorems`, `WellFoundedInduction`, `TLAPS` |
| `FileInput` | the loop over files, scanning, `NextFile`, in-place output | |
| `FileInputProofs` | theorems about `FileInput` | `FileInput`, `SequenceTheorems`, `TLAPS` |
| `StoreService` | what the config cache promises: one store per epoch | |
| `StoreCache` | `ensureStore`, `Invalidate`, `Config.Store`, `Config.Load` | refines `StoreService` |
| `StoreCacheProofs` | theorems about `StoreCache` | `StoreCache`, `SequenceTheorems`, `FiniteSetTheorems`, `TLAPS` |
| `Expression` | evaluation of a pipeline, serial and parallel | |
| `ExpressionProofs` | theorems about `Expression` | `Expression`, `SequenceTheorems`, `WellFoundedInduction`, `TLAPS` |
| `MC...` | instances of each for TLC | |

`Lifecycle` and `OptionValues` are two views of the same execution: the first has every command,
option and hook but no values, the second one option with its values. They agree on
when the Action of an option is triggered.

Operators whose comment begins with *Defect* are not part of a model. Each is a
plausible bug in the definition below it, and a property of the model fails
when the definition is replaced by it.

### FlagOrder

A flag is its index in `cmd.Flags`. Which names a flag depends upon, and its
order class, are chosen initially. `Resolve` is the loop which turns names into
dependencies (`deps`) or errors; `Count` sets up Kahn's algorithm (`remaining`,
`dependents`, `available`); each `Select` is one turn of its loop and emits one
flag; `Complete` and `Cyclic` are its two ends. `AppendLate` is a flag added
later, which `localFlagsInOrder` merges. The inputs include a name given twice,
the flag itself, an arg, an ancestor's flag, a name nothing has, and the empty
name.

### ArgCounters and ArgParser

A token is reduced to what the parser distinguishes: a word, a word with `=`, a
dash, two dashes, a long flag with or without value, a cluster of short flags
as the sequence of its letters. `pc` names the loop which runs: `positional` is
the inner loop over args, `flag` the processing of a flag, `cluster` the loop
over letters. An element of `outputs` is one call of `appendOutput`; it keeps
the positions of the tokens, so that properties can speak of which token went
where. The program name, which every caller skips, is left out of `argv`, but
not of the count which right-to-left binding starts from.

### Lifecycle

A chain of commands, the app at level 1. `case` fixes initially how options are
configured and what the command line gives at each level. `pc` and `level` say
what `Execute` does and for which command; descending into a sub-command
(`Invoke`) and returning from it (`Return`) move `level`. Everything user code
can observe is an event in `ran`: Before, Action and After of commands and
options, and each hook of each command for each target. `Perform` lets any of
it return an error or panic under `Recover`. A filter of `PersistentIn` is the set
of levels it matches; an option which is triggered without being seen
(`Trigger`, `ImpliedAction`) is in `implied`. The command arg is the last arg
because `ensureSubcommands` appends it. `EachOccurrence` is not distinguished:
all calls of the Action of an option at one level are one event.

### Initialization

The three lists of a command are Go slices: `arrays` are backing arrays and
`lists` says which one, and how much of it, a list is. `append` writes in place while
there is capacity and moves to a larger array otherwise; `slices.Delete` shifts the array in
place and clears its last element, which a round that is going through the old length
can still reach. `BeginRound` is the slice expression with `start`, and `batch`
the part of an array which is left of the round. `child` is the target being set up;
while there is one, user code runs and may add to or remove from any list (`AddTo`,
`RemoveFrom`, at most `MaxChanges` times). User code stands for `Uses` and for hooks alike,
so which callback makes a change is not distinguished. Flags or args in `shared` were set up by another
command before. `finalizeArgsAndFlags` and the checks of names come after the rounds and
are not part of the model.

### OptionValues

One option of the app: an arg, or a flag which the sub-command inherits. `cell` is memory:
its first element is the value of the option, the others are clones made for
occurrences; `initial` and `all` of `multiBindingState` are indices in it, so that sharing a
clone is visible. A value is the sequence of words stored in it, and
the kinds differ in what a second word does: a scalar keeps the last, a string joins, a list
appends. `ApplyTo` applies what a level was given, `ImplicitValue` and `Hook` are the
Before pipelines of the app, and `Act`, `EachReset` and `EachOccurrence` the trigger of the option's Action at
each level. Each word which an arg takes is an occurrence of its own (`set.go:388`), and of several words to be
set those before the first failing one are (`optionSetMany`). `ran` holds, for each call, the value which the Action finds under the empty name and the
one under the name of the option. Custom values with `Copy` and `Reset` are no kind of their own: without
`Merge` they are reset at each occurrence, as a string is (`value.go:897-898`).

### FileInput

A file is a sequence of bytes and the file system a function from names to files. `index` is the
source: a cached one keeps it between range loops, a walker starts again. `pc` is `yield` while the
body of the user's loop runs; it may then write, call `NextFile`, read on from a scanner, break or continue,
in any order. A scanner reads any number of bytes from the file as it is at that moment, at its own offset
(`reader.at`), hands out a beginning of what it holds as the token, and reads no more once it met the end; how
much it takes is left open, so every split function and size of buffer is covered. The
first write of a visit goes through `BackupFile`, `CopyToBackup` and `Truncate`, each of
which may fail; a write puts any number of bytes on the file, none and fewer than it should included, which is what a
failing one does. `visits` is a history of what each turn of the loop saw, wrote, and lost by truncating what was not
read. The name `-` is standard input for reading and standard output for in-place writing. `WholeFileSeen` speaks of visits which lost
nothing; what they may see beyond the original is what they wrote beyond its length.

### StoreService and StoreCache

In `StoreService` each invalidation begins an epoch, at most one store is provided for an epoch, and a
call answers with the store of an epoch which was current during it. `StoreCache` has one
step for each critical section and for each access outside of one. The read lock, the test and the unlock are
one step (nothing writes in between); `return c.store` after the unlock is two steps, since an interface
value is two words and the read races with writers. `Config.Load` evaluates its operands
`ensureStore(...)` and `lastError`; the compiler may read the second one only after the call, and
that is how it is modelled: one step after the call. Of that error only whether there is one matters, so that
this read, too, is of two words and without the lock, and may find a type without its data, is left out. A loader which asks its own Config never returns.

### Expression

Each item has a `stack` of evaluators, since a step runs inside the yield of the one
before. The args of an operator are one variable for all of its uses: `Reset`, `Load` and `Store` are the
reset and the append of a word, `Call` the evaluator. Reset empties a string but not a scalar.
The evaluators which `EvaluatorOf` accepts are told apart by how often they may yield
and whether they may fail; one which returns only an error never yields. An evaluator which gets an error from its yield passes it on; one which
is given the yielder and swallows that error, so that the call succeeds although a later step failed, is
left out, and `ResultCoversItems` is about evaluators which do not. Torn strings are left out.

## Runs

| Run | Instance | Shows |
|---|---|---|
| `flag_order` | 3 flags, order classes first/none/last, lists of up to two names, 2 late flags | dependencies first, ties, cycles exactly, late flags; ordering ends; `FlagOrder` implements `FlagSchedule` |
| `arg_parser` | lines of up to 3 tokens (5 for right-to-left) over 9 to 13 kinds of token, 5 flags with each kind of counter, 34 commands | each token used once, bound in order, right-to-left, parsing ends |
| `lifecycle` | 3 commands, 2 flags, 1 arg; every line; 38 ways to configure them | order and nesting of Before, Action, After, hooks and options; `Lifecycle` implements `CommandNesting` |
| `initialization` | 5 shapes with up to 3 flags, 2 args, 2 commands; 3 changes | set up once, in order, with all additions; set-up ends |
| `option_values` | a scalar, string or list, 2 levels, up to 4 occurrences, up to 3 implied values | the winning value, values of occurrences, calls of the Action |
| `file_input` | up to 3 entries of 12 names, files of up to 3 bytes, up to 3 bytes written per visit, 1 or 2 loops, every place of a fault | order of entries, whole files, edits, closing, the loop ends |
| `store_cache` | 2 goroutines, 2 calls each, every outcome of the loader | one load per epoch, failures reported, calls end; `StoreCache` implements `StoreService` |
| `expression` | up to 3 steps of 2 operators, up to 3 items, 1 or 2 jobs, up to 2 yields | args of a step are its own, the result covers all items, the call returns |
| `parser_panic`, `removed_flag`, `store_nil`, `each_occurrence` | as above, or a part of it | where the code departs from its documentation, see below |

Why the bounds are enough. Three flags allow every shape of dependency a step
can meet: a chain, a fork, a join, a name given twice, cycles of two and three,
a cycle with a flag hanging from it; the proofs cover every number. In the
parser, decisions depend on the token in hand, the parser state, the current
counter and whether tokens remain; three tokens reach every combination, and
five are needed to fill four args from the right. Depth 3 is the smallest with
a command which is neither the root nor the last, which is where hooks from
both directions and commands which are only passed through differ.

In `Initialization` the second of a kind is the first which a removal of its left neighbour skips, the
third the first which moves twice; three changes allow a removal hidden or outgrown by additions.
An option at two levels meets every case of given here, above, both or nowhere, and
the second and third occurrence are where a clone can be shared by mistake; the level at which a value was
implied is always the app. A file of three bytes can be read partly or completely when it is
truncated, and of a file of one byte and three written ones two are read again beyond its end. Two goroutines suffice for each pair of racing
accesses of the cache, and the second call of each finds what the first left behind. Two jobs for
three items are the smallest pool which is full while an item waits.

Fairness. `FlagOrder` assumes weak fairness of the steps of the ordering, and
not of `AppendLate`; `ArgParser` and `Initialization` assume weak fairness of `Next`. These are plain function
calls without blocking operations, so a step which is enabled is taken; in `Initialization` user code returns.
`FileInput` assumes that its own steps are taken and that the body of the loop
continues at last (`WF` of `Continue`), not that it ever breaks, writes or calls `NextFile`; `EveryRangeEnds` itself
excludes bodies which write for ever. In `StoreCache` each goroutine
is scheduled (`WF` of its steps), and taking the lock is strongly fair, because
Go's mutexes hand the lock to a waiter after a while; the loader returns unless it
asks for its own store. `Expression` assumes that some evaluation can go on whenever one can, as goroutines are scheduled and evaluators
return. `Lifecycle` and `OptionValues` call user code, which need not return; nothing is assumed of it
and only safety is stated. Most runs end in states without successors, so deadlock is not
checked; the liveness properties say that what ends is an end of the code. `OptionValues`
says itself where it ends, and deadlock is checked there.

### What the documentation says and the code does not

* `parser_panic`: a dash no arg takes makes `RawParse` index `arg[1]` of a string
  of length one (`set.go:417`) instead of returning a `ParseError`.
* `removed_flag`: a flag, arg or sub-command which removes one of its own kind while it is set up
  can make the next round slice past the end, or meet a cleared element: a panic
  (`command.go:737`, against `context.go:1417-1421`).
* `store_nil`: `ensureStore` returns nil, or a value of a type without its data, if `Invalidate` comes between its
  test and its return (`extensions/config/store.go:112-115`, against the comment at 135).
* `each_occurrence`: with `EachOccurrence` the value under the option's own name is not the winning
  one: later occurrences are appended to it, those from a Transform are missing, and a
  sub-command clears it (`set.go:133-145` and `option.go:756`, against `option.go:158-166`).

Smaller ones are no runs of their own. Each is what the model does, and the hazard at the same line in
`PROJECT.json` names the property which is stated around it.

* `ArgCount(0)` takes a token which looks like a flag directly after another arg (`arg.go:578`
  against `arg.go:247`).
* `ParseUnknownFlagsAsArgs` drops the value of `--unknown=value` (`set.go:430`).
* Flags count as args in right-to-left binding (`set.go:315`); `RightmostFilledOnPlainLines` is restricted to lines without flags.
* A flag narrowed by `PersistentIn` acts at every command on the way which the filter matches, not only at the one
  which executes (`context.go:2378`); `NarrowedFlagsRespected` asks whether the filter matches the level.
* A required flag of an ancestor which is given with a sub-command is reported missing (`context.go:2431`).
* Without `Merge`, an implied value of a string or list is added to the initial value (`context.go:1099`), which
  `option.go:122-125` says is overwritten, and a string arg, which merges implicitly (`arg.go:398`), keeps its initial
  value below what it is given. `Winning` lets an implied value overwrite; `ValueIsWinning` excludes these two cases by name (`KeepsDefault`).
* With `EachOccurrence`, `ImpliedAction` and no occurrence, the Action is not called (`option.go:764` loops over no
  occurrences), while `option.go:188-194` says that it will also be run for an implied value. `ActionPerUse` excludes
  this case by name (`ImpliedOnly`).
* With in-place editing, `Lines` does not see what its scanner had not read before the first write (`file.go:818`);
  it reads on at its byte offset in what was written, so a body which always writes more than it reads, one longer line for
  each line, reads its own output and need never end.
  For `-` the in-place writer closes standard output (`file.go:369` against the comment above it).
* `Load` always loads again, and after a failed load a successful one still answers with the old error
  (`extensions/config/config.go:311-317`, `store.go:128`).
* `EvaluateParallel` returns the first error, not all of them joined (`expr.go:903-905`), and its goroutines
  share the args of operators without a lock.
* An option which a sub-command adds to its parent is never set up.

## Proofs

`FlagOrderProofs` proves, for every number of flags, every set of name lists and
every bound on late flags: type correctness, that dependencies come
first and no flag is emitted twice, that the order class is only a tiebreak, that cycles are
reported exactly when there are some, that every flag is run once (`EveryFlagRunsOnce`), and that `FlagOrder` implements
`FlagSchedule`. The assumptions are those named in `FlagOrder`: the number of
flags and the bound are natural numbers, order classes are in `-1..1`, and names
are those the model distinguishes.

The invariants are not inductive as they stand: that a flag in `available` may
be emitted follows only from the counters being right. The strengthening `IInv`
says that, while the selection runs, `remaining[f]` is the number of dependencies
of `f` which are not emitted, `dependents` is the converse of `deps`,
and `available` is the set of flags which are not emitted and whose
count is zero. The step which carries the proof is `Select`: emitting a flag
removes exactly one element from the missing dependencies of each of its
dependents, so the counts fall by one and a flag with count one is
freed. From the exact counters, a cycle report means that each remaining flag
still misses a dependency, hence the remaining flags block each other; and an
order of all flags leaves no set which blocks itself, since its first emitted
member would have had a dependency within it. A complete order has as many flags as there were, each once, hence all;
the flags which `localFlagsInOrder` appends to it are those behind in `cmd.Flags`.

`LifecycleProofs` proves, for chains of commands of every length with any flags,
args, configurations and command lines: type correctness,
`NarrowedFlagsRespected`, and that `Lifecycle` implements `CommandNesting`. The
assumptions are those of `Lifecycle`: the app exists, options are distinct
between and within commands, flags are no args, and a command which has
sub-commands has an arg. Nesting is not inductive because nothing in `CommandNesting`
says why only one command acts. The invariant adds it: on the way down no
command has acted and exactly the commands above the current one
have `didSubcommandExecute` set; on the way up exactly one has acted, all
commands above have the mark, and so has the one which is resumed, which is what
keeps it from acting too. That only flags of the chain down to the current
command are seen until then makes the check of `checkPersistentInFilters`, which looks
at these only, sufficient for `NarrowedFlagsRespected`. The steps are
sorted by what they call: no Action (`QuietLoopStep`), an Action
(`ActionAllowed`), or an error (`FailStep`); parsing, invoking and returning
move between levels. That an option which is due is an option follows from
`WasUsed`, so none of this depends on the list of flags a command triggers.

The second half of `LifecycleProofs` goes on from there to the order of user code:
`BeforePrecedesAction` and `AfterUnwinds`, for every chain and an error from any
piece of user code. Both speak about events of the past, so the invariant `OInv` says how far each
flow has come. On the way down the Before flows of the commands above are complete
and that of this one up to the next option; nothing was left yet and nothing ran
below. On the way up some command at or below the level acted, each
command below it which ran anything was left, with its After flow complete and no panic, and
the After flow of this one has come up to the next option. A step only
appends events of its own level (`Adds`), so what is complete stays
complete. An After event is the last of its piece of user code (`LastIsCalledLast`), so the hooks
ran before it even if it returns the error.

The last theorem is `UsedOptionsActFirst`, again for every chain. First the list: `flagsInOrder` is
a recursive function like the recursion of `Context.flagsInOrder` over parents, and
`FlagsArranged` shows at the first level where it would fail that the list has the flags of the commands down
to the level, each before those it must precede; `TriggersArranged` adds the args. Then the
loop: the invariant `UInv` says that nothing acted at a level before its loop, and that within the
loop the options which acted there are those found due so far (`Acting`). When the loop ends these are all
which are due, so the command finds them complete; that no earlier Action of a level exists when a sub-command
is invoked comes from `OInv`. No option is seen once a command has acted, by `IInv`, so what was complete then stays
so. Each new Action comes from a later place of the list than those before it, and the order is that of the list.

`StoreCacheProofs` proves, for any number of goroutines, calls and invalidations and every
outcome of the loader: type correctness, `ProvidedByOneLoad`, `FailureIsReported` and that `StoreCache`
implements `StoreService`. The assumptions are `ValueAssumption` (the special values are
distinct and no numbers) and `BoundAssumption`. The properties are about what calls return; the
invariant says why: the cache holds what its epoch provides, the Once is
done exactly if the epoch was loaded, the lock is held by who is in the locked section, and what
each call has read so far was provided during the call or is overtaken. The delicate steps are
those of other goroutines between the two reads of an answer: `Invalidate` may only overtake, and
a load may only provide, so each claim survives them (`Grows`).

`ExpressionProofs` proves `ResultCoversItems`, type correctness and `ArgsAreOwnWhenCalled` for any
number of items, steps, operators, jobs and yields, from `CaseAssumption` and `YieldsAssumption`. The first
needs that items begin in order without goroutines, that an error is recorded exactly if an
evaluation failed, and that the call returns only when nothing is running and none can begin (`IInv`). The
args are shared by all uses of an operator, and evaluators call one another in the middle of each other's
lives; they are a step's own for two reasons. Without goroutines at most one evaluation runs
(`RunsAlone`), so no other item touches them; and from the reset of a step to its call nothing else
happens in its evaluation, because an evaluator can yield only once it was called (`OwnArg`). A stack has
consecutive steps (`Stacks`): that is why the step which is reset is the one which is called.

`FileInputProofs` proves, for any files, both sources and every method of scanning: type correctness,
`EntriesInOrder`, `WholeFileSeen`, `EditsAreKept` and `NothingLeftOpen`. The assumptions are
`FileAssumption`, `CaseAssumption` (a backup has another name than its file) and `BoundAssumption`; two files
may have the same backup, or one be the backup of another, and `EditsAreKept` says what holds then. The strengthening for the order
relates the source to the last visit (`IInv`): within a turn the source is where the visit began plus the
number of calls of `NextFile`, the flag `advanced` is set exactly if there was one,
and between turns it is where the next visit begins. The others need to know how far a turn has come
(`KInv`): the record of the visit is of the file in hand (`InFile`); the output goes from none to
lazy to a file, and only a write moves it (`Stage`); once it is a file, the file holds what was written
and the backup what it held before, until then the file is unchanged (`Edited`); and what the user
saw together with what the scanner holds is the file up to the offset of the reader (`Scanned`, `ReadAtOnce`): of the
original before it is truncated (`Before`), and afterwards all of the original and the bytes of the new text
from its length on (`After`).

`ArgParserProofs` proves, for lines of every length and commands with any flags and args: type
correctness, `EveryTokenUsedOnce`, `ValuesBindInOrder` and `RightmostFilledOnPlainLines`, from `FlagAssumption` (letters of flags are no
digits, and an optional flag does not insist on a value) and `InputAssumption`. The properties speak of the end, so the
invariant speaks of what was used so far: the tokens left are always the end of the line (`Line`), which is
what pushing back must keep, and every token before them has one role (`AllUsed`). A cluster is
in between: its token is used and not finished, so `Cluster` says that the last occurrences are its own,
one for each letter so far. That values belong to the positions right behind their flag
(`Bounds`, `ValuesBindInOrder`) is what makes roles exclusive: a token can be the value of one
occurrence only. How many tokens `TakeFrom` takes is a recursive function over the tokens; that
it never takes more than there are, and at least one for a flag which must have a value, is shown by looking at the
first place where it would fail (`LeastNumber`).

Right-to-left binding (`BoundAtRight`) skips args once, before the first token, and then fills from left to right, so the invariant
`Filling` says what the skipping promised and how much of it is redeemed: the tokens used, what the arg in hand still takes and
what the args behind it require add up to what the args from the first one not skipped require. `RequiredByLast(m)`, the
number of values which the last `m` args require, is a recursive function; `SkipLess` says that an arg is left to be filled
and that any shorter end of the args requires fewer values than the line has. When the line ends before some arg, what is missing
is therefore less than the first filled arg required by itself, and so is what the args from the empty one on require.

`InitializationProofs` proves, for commands of every shape and any number of changes by user code: type
correctness and `InitializedInOrder`, and two parts of it by themselves: that the rounds panic only after a
removal during the rounds, and that nothing is set up twice. The assumptions are those of `Initialization`. Types need that each kind has an array of its own, of which it uses the beginning
(`OwnArray`): an append then writes either behind the list or into a new array, and a removal moves
elements of one list only. That a removal is to blame for a panic follows because without one
no round begins past the end of its list and none meets a cleared element (`Orderly`).
Flags and args are not set up twice because they are marked; sub-commands are not marked, and there the argument is
about places: what was set up always stands before the beginning of the next round (`Behind`), also when a
removal moves it to the left, and what the round has still to come to was not set up and is going to stand
there too (`CommandRound`). Both hold in the array of the list and in the one the round began with,
which may be different after an append.

The order (`Ordered`) is stated by places, for the kinds nothing was removed from: a round sees the same
elements as the list, in the new array as in the old, and every place it has passed is set up
(`InPlace`), so what is set up next comes behind all that was. An append only makes a list longer (`Longer`),
which leaves every place where it is. That nothing is missed at the end rests on `more`: a round
which finds no more is empty, no user code runs in it, and its list stays finished until another round runs
some (`Emptied`); the flags are done when the round of args after an empty round of flags is empty,
too. What a sub-command adds to the flags and args then comes too late, and is in `late`.

`OptionValuesProofs` proves, for any words, any number of levels and every option: type correctness,
`ValueIsWinning`, `OccurrenceValuesAreOwn` and `ActionPerUse`. The assumptions are `WordAssumption`, `LevelsAssumption` and
`CaseAssumption`, which says that only strings are merged without being asked for (`arg.go:398`). The properties describe a value by joining all words and setting them
at once, while the program sets them occurrence by occurrence. Both are the same only as long as every word can be set
(`SetBoth`), since `optionSetMany` stops at a word which fails and forgets what follows; the invariant `Accepted`
says that a run which has not failed applied only such words. `Counted` and `ImpliedOnce` tie the counters and the mark of implied values
to the command line (`History`), and they say which branch of the reset was taken at the first
occurrence. From these, `Valued` says that the value is the winning one at any time and not only when options are
triggered, where the implied value counts once it was stored. It keeps the initial value as the code
does; outside of `KeepsDefault` this is `Winning` (`ValuedIsWinning`). For `EachOccurrence` what matters is which elements of memory are shared:
without merging every occurrence has a new one, so the elements in `all` are different and the last ones hold the last
occurrences (`OwnKept`); with the Merge option one clone holds what was merged so far at this level
(`Merged`). `Calls` says that the levels which were left had their calls, that no level
below has any, and that those of this level stand at the end of `ran`.

Attempts at these proofs corrected the models and the properties. Reading on of a scanner after the file
was truncated, and the types of tokens, which `Input` left open, were the first. `RightmostFilledOnPlainLines` was false where the
leftmost filled arg takes several values, which the instances then had too few tokens for; it now compares what is left out with
what was filled before, and the instances have such commands. Words of an arg were one occurrence in `OptionValues` and are now one each, as in `set.go:388`,
and the value which is promised for an occurrence of an arg is its own word.

Not proved and only model-checked is liveness (`OrderingEnds`, `ParsingEnds`, `SetupEnds`, `EveryRangeEnds`, `EveryCallEnds`,
`EvaluationReturns`), which rests on fairness and is out of the prover's reach. Every invariant of the passing
runs, and each refinement, is stated by a theorem. Recursion over numbers (the tokens an
arg takes, the order of flags, the words set so far) is a recursive function and treated by the first place
where a claim would fail, since the induction theorems of the library take an operator as
a parameter, which the provers cannot instantiate.

## Plan

1. Done: the models of the table above, and the proofs about all of them.
2. Models which are left: checks and shadowing of names (`defineFlag`), parsing of expressions, the
   release of contexts and signal handlers by `Timeout` and `HandleSignal`, value targets.

Runs stay at the sizes above: each ends within a minute or two with two workers.

## Not modelled

Most of the repository, by lines, is not state: usage text, templates, completion, conversions of values and
the wording of errors are formatting; file system adapters are I/O; bind, marshal, provider,
structure, table, color, log and template are helpers over the core by
reflection; fakes are generated. A model of these would repeat their text. `PROJECT.json` lists each part
with its reason, and every hazard found in the code with the properties which cover it.
