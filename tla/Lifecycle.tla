----------------------------- MODULE Lifecycle -----------------------------
(***************************************************************************)
(* Context.Execute on a chain of commands: the app is level 1, a command   *)
(* at level k + 1 is invoked by the last arg of the command at level k     *)
(* while that command triggers its options.  What user code runs, and in   *)
(* which order, is kept in ran: the Before, Action and After pipelines of  *)
(* commands, flags and args and the hooks of commands.  User code may      *)
(* return an error, which stops everything.                                *)
(***************************************************************************)
EXTENDS Integers, Sequences, FiniteSets

CONSTANTS
  Depth,          \* number of commands in the chain
  LocalFlags,     \* LocalFlags[k]: flags of command k, in execution order
  LocalArgs,      \* LocalArgs[k]: its args; if k < Depth the last one names
                  \* the command to invoke
  Self,           \* stands for the command itself among its options
  Case            \* configurations of the options with a command line

Level == 1 .. Depth

FlagsOf(k) == {LocalFlags[k][n] : n \in DOMAIN LocalFlags[k]}
ArgsOf(k) == {LocalArgs[k][n] : n \in DOMAIN LocalArgs[k]}
LocalOptions(k) == LocalFlags[k] \o LocalArgs[k]
Flag == UNION {FlagsOf(k) : k \in Level}
Option == Flag \cup UNION {ArgsOf(k) : k \in Level}
Target == Option \cup {Self}

\* The level of the command which defines option o.
Owner(o) == CHOOSE k \in Level : o \in FlagsOf(k) \cup ArgsOf(k)

\* Options of a command: NonPersistent and PersistentIn (the levels the filter
\* matches) of flags, Required, and those triggered although not seen (Trigger,
\* or an implied value with ImpliedAction).  The command line: the options
\* given at each level and how the args which invoke commands resolve.
CaseType ==
  [nonPersistent : SUBSET Flag, appliesIn : [Flag -> SUBSET Level],
   required : SUBSET Option, implied : SUBSET Option,
   given : [Level -> SUBSET Option],
   invoke : [Level -> {"found", "skip", "missing"}]]

ASSUME DepthAssumption == Depth \in Nat \ {0}
ASSUME OptionAssumption ==
  /\ Self \notin Option
  /\ LocalFlags \in [Level -> Seq(Flag)] /\ LocalArgs \in [Level -> Seq(Option)]
  /\ \A k \in Level : k < Depth => LocalArgs[k] # <<>>
  /\ \A j, k \in Level : FlagsOf(j) \cap ArgsOf(k) = {}
  /\ \A j, k \in Level : \A m \in DOMAIN LocalOptions(j), n \in DOMAIN LocalOptions(k) :
       LocalOptions(j)[m] = LocalOptions(k)[n] => j = k /\ m = n
ASSUME CaseAssumption == Case \subseteq CaseType

VARIABLES
  case,           \* chosen initially
  pc,             \* what Execute does at the level, or how the run ended
  level,          \* the command which executes
  i,              \* the next option of a loop over options
  seen,           \* options with an occurrence
  executed,       \* levels with didSubcommandExecute set
  panicked,       \* levels of commands with data from Recover
  ran             \* user code which was called, in order

vars == <<case, pc, level, i, seen, executed, panicked, ran>>

\* The arg of command k which invokes the next command.
CommandArg(k) == IF k < Depth THEN LocalArgs[k][Len(LocalArgs[k])] ELSE Self

\* User code: what runs for target opt of the command at a level; a hook
\* belongs to the command at level by.
Event(ev, at, opt) == [ev |-> ev, by |-> at, at |-> at, opt |-> opt]
Hook(ev, by, at, opt) == [ev |-> ev, by |-> by, at |-> at, opt |-> opt]

UserCode ==
  [ev : {"hookBefore", "before", "act", "after", "hookAfter"},
   by : Level, at : Level, opt : Target]

\* Hooks of the commands from..1 (bubble) and 1..to (tunnel) for a target.
\* Defect: the level is off by one.
BubbleFromParent(from, at, opt) ==
  [n \in 1 .. from |-> Hook("hookBefore", from - n, at, opt)]
\* Defect: the hooks of the root are left out.
BubbleBelowRoot(from, at, opt) ==
  [n \in 1 .. from - 1 |-> Hook("hookBefore", from + 1 - n, at, opt)]
Bubble(from, at, opt) ==
  [n \in 1 .. from |-> Hook("hookBefore", from + 1 - n, at, opt)]
\* Defect: the hooks of the root are left out.
TunnelBelowRoot(to, at, opt) ==
  [n \in 1 .. to - 1 |-> Hook("hookAfter", n + 1, at, opt)]
Tunnel(to, at, opt) == [n \in 1 .. to |-> Hook("hookAfter", n, at, opt)]

-----------------------------------------------------------------------------
(* Which options a command binds and triggers *)

\* The flags which NewBinding inherits: ancestors' which are persistent.
Inherited(k) == UNION {FlagsOf(j) : j \in 1 .. k - 1} \ case.nonPersistent
Bound(k) == FlagsOf(k) \cup ArgsOf(k) \cup Inherited(k)

\* Flags: those of the ancestors, the root's first, then the local ones.
flagsInOrder[k \in 0 .. Depth] ==
  IF k = 0 THEN <<>> ELSE flagsInOrder[k - 1] \o LocalFlags[k]

\* What triggerOptions loops over.
Triggers(k) == flagsInOrder[k] \o LocalArgs[k]

\* Defect: PersistentIn is not asked.
appliesInAlways(o, k) == TRUE
appliesIn(o, k) == o \in Flag => k \in case.appliesIn[o]

\* Defect: options which were implied are forgotten.
WasUsedSeenOnly(o) == o \in seen
WasUsed(o) == o \in seen \cup case.implied

\* checkPersistentInFilters
Unavailable(k) ==
  \E j \in 1 .. k : \E f \in FlagsOf(j) \cap seen : ~appliesIn(f, k)

\* checkForRequiredOption
Missing(o) == o \in case.required /\ o \notin seen

-----------------------------------------------------------------------------
Init ==
  /\ case \in Case
  /\ pc = "parse"
  /\ level = 1
  /\ i = 1
  /\ seen = {}
  /\ executed = {}
  /\ panicked = {}
  /\ ran = <<>>

\* User code is called in order until one returns an error; goOn holds of the
\* step in which none does.  What panics within Recover returns no error but
\* leaves data behind, with the command if it is the target.
Perform(events, goOn) ==
  \/ /\ ran' = ran \o events
     /\ goOn
     /\ panicked' \in {panicked} \cup
          {panicked \cup {events[n].at} : n \in {m \in DOMAIN events : events[m].opt = Self}}
  \/ /\ \E n \in DOMAIN events : ran' = ran \o SubSeq(events, 1, n)
     /\ pc' = "failed"
     /\ UNCHANGED <<level, i, panicked>>

Continue(at, n) == pc' = at /\ i' = n /\ UNCHANGED level
Fail == pc' = "failed" /\ UNCHANGED <<level, i>>

\* parse: an option which is not bound is an error, and so is a value which
\* cannot be set.
Parse ==
  /\ pc = "parse"
  /\ \/ /\ case.given[level] \subseteq Bound(level)
        /\ seen' = seen \cup case.given[level]
        /\ Continue("before", 1)
     \/ UNCHANGED seen /\ Fail
  /\ UNCHANGED <<case, executed, panicked, ran>>

\* The Before flow of the command itself: its own hooks and its pipeline.
BeforeCommand ==
  /\ pc = "before"
  /\ Perform(<<Hook("hookBefore", level, level, Self),
               Event("before", level, Self)>>,
             Continue("beforeOptions", 1))
  /\ UNCHANGED <<case, seen, executed>>

\* ... then each of its options: the pipeline, the check whether the option is
\* required, and the hooks of the command and its ancestors.
BeforeOption ==
  /\ pc = "beforeOptions"
  /\ i <= Len(LocalOptions(level))
  /\ LET o == LocalOptions(level)[i]
         before == <<Event("before", level, o)>>
     IN  IF Missing(o) THEN Perform(before, Fail)
         ELSE Perform(before \o Bubble(level, level, o),
                      Continue("beforeOptions", i + 1))
  /\ UNCHANGED <<case, seen, executed>>

\* ... and then the hooks of its ancestors, the closest first.
BeforeAncestors ==
  /\ pc = "beforeOptions"
  /\ i > Len(LocalOptions(level))
  /\ Perform(Bubble(level - 1, level, Self), Continue("trigger", 1))
  /\ UNCHANGED <<case, seen, executed>>

Triggering == pc = "trigger" /\ i <= Len(Triggers(level))
o_i == Triggers(level)[i]
Due(o, k) == appliesIn(o, k) /\ WasUsed(o)

\* triggerOption: an option which was not used or belongs to another command.
PassOver ==
  /\ Triggering
  /\ ~Due(o_i, level)
  /\ Continue("trigger", i + 1)
  /\ UNCHANGED <<case, seen, executed, panicked, ran>>

ActOption ==
  /\ Triggering
  /\ Due(o_i, level) /\ o_i # CommandArg(level)
  /\ Perform(<<Event("act", level, o_i)>>, Continue("trigger", i + 1))
  /\ UNCHANGED <<case, seen, executed>>

\* subcommandCore: the next command executes within the Action of the arg, and
\* its parent remembers that it did.
\* Defect: the parent is not told.
ExecutedForgotten == executed
Executed == executed \cup {level}

Invoke ==
  /\ Triggering
  /\ Due(o_i, level) /\ o_i = CommandArg(level)
  /\ CASE o_i \notin seen -> Continue("trigger", i + 1) /\ UNCHANGED executed
       [] o_i \in seen /\ case.invoke[level] = "missing" ->
            Fail /\ UNCHANGED executed
       [] o_i \in seen /\ case.invoke[level] = "skip" ->
            Continue("trigger", i + 1) /\ UNCHANGED executed
       [] OTHER ->
            /\ executed' = Executed
            /\ level' = level + 1 /\ pc' = "parse" /\ i' = 1
  /\ UNCHANGED <<case, seen, panicked, ran>>

\* The loop over the options ended, or a sub-command returned to it.
Triggered == pc = "self" \/ (pc = "trigger" /\ i > Len(Triggers(level)))

\* No sub-command executed: the command itself acts, unless a flag was used
\* which belongs to other commands.
ActCommand ==
  /\ Triggered
  /\ level \notin executed
  /\ IF Unavailable(level) THEN Fail /\ UNCHANGED <<panicked, ran>>
     ELSE Perform(<<Event("act", level, Self)>>, Continue("after", 1))
  /\ UNCHANGED <<case, seen, executed>>

PassThrough ==
  /\ Triggered
  /\ level \in executed
  /\ Continue("after", 1)
  /\ UNCHANGED <<case, seen, executed, panicked, ran>>

\* The hooks of the ancestors and then the After flow of the command: its own
\* hooks, its pipeline ...
AfterCommand ==
  /\ pc = "after"
  /\ Perform(Tunnel(level, level, Self) \o <<Event("after", level, Self)>>,
             Continue("afterOptions", 1))
  /\ UNCHANGED <<case, seen, executed>>

\* ... and each of its options.
AfterOption ==
  /\ pc = "afterOptions"
  /\ i <= Len(LocalOptions(level))
  /\ LET o == LocalOptions(level)[i]
     IN  Perform(Tunnel(level, level, o) \o <<Event("after", level, o)>>,
                 Continue("afterOptions", i + 1))
  /\ UNCHANGED <<case, seen, executed>>

\* failWithContextError, and then Execute returns into the loop over the
\* options of the parent, of which the arg that invoked the command is the last.
ResumeAt == "self"

Return ==
  /\ pc = "afterOptions"
  /\ i > Len(LocalOptions(level))
  /\ IF \E k \in 1 .. level : k \in panicked THEN Fail
     ELSE IF level = 1 THEN Continue("done", 1)
     ELSE level' = level - 1 /\ pc' = ResumeAt /\ i' = 1
  /\ UNCHANGED <<case, seen, executed, panicked, ran>>

Next ==
  \/ Parse \/ BeforeCommand \/ BeforeOption \/ BeforeAncestors
  \/ PassOver \/ ActOption \/ Invoke \/ ActCommand \/ PassThrough
  \/ AfterCommand \/ AfterOption \/ Return

Spec == Init /\ [][Next]_vars

-----------------------------------------------------------------------------
TypeOK ==
  /\ case \in CaseType
  /\ pc \in {"parse", "before", "beforeOptions", "trigger", "self",
             "after", "afterOptions", "done", "failed"}
  /\ level \in Level
  /\ i \in Nat \ {0}
  /\ seen \in SUBSET Option
  /\ executed \in SUBSET Level
  /\ panicked \in SUBSET Level
  /\ ran \in Seq(UserCode)

Ran == {ran[n] : n \in DOMAIN ran}
ActsAt(k) == {n \in DOMAIN ran : ran[n].ev = "act" /\ ran[n].at = k}
TargetsOf(k) == {Self} \cup FlagsOf(k) \cup ArgsOf(k)
Entered == {e.at : e \in Ran}

\* Whatever acts at a level, a command or an option of it, the Before pipeline
\* of every command down to that level ran first, of each of their options,
\* and for each of these the hooks of every command from the root to it; and
\* no option which is required is missing by then.
BeforePrecedesAction ==
  \A e \in Ran : e.ev = "act" =>
    \A k \in 1 .. e.at : \A opt \in TargetsOf(k) :
      /\ Event("before", k, opt) \in Ran
      /\ \A j \in 1 .. k : Hook("hookBefore", j, k, opt) \in Ran
      /\ ~Missing(opt)

\* A command is left only once the commands inside it were left completely:
\* the After pipeline of a command or of an option of it finds that the hooks
\* of all its ancestors ran, that some command acted, and that every command
\* entered below it ran its After pipeline and that of its options and did not
\* panic.
AfterUnwinds ==
  \A e \in Ran : e.ev = "after" =>
    /\ \A j \in 1 .. e.at : Hook("hookAfter", j, e.at, e.opt) \in Ran
    /\ \E k \in e.at .. Depth : Event("act", k, Self) \in Ran
    /\ \A k \in Entered : k > e.at =>
         /\ \A opt \in TargetsOf(k) : Event("after", k, opt) \in Ran
         /\ k \notin panicked

\* When a command acts, every option it has or inherits which was used and
\* applies to the command has acted there once, and no other option has; the
\* flags of its ancestors before its own flags, flags before args.
UsedOptionsActFirst ==
  \A k \in Level :
    /\ Event("act", k, Self) \in Ran =>
         {o \in Option : Event("act", k, o) \in Ran}
           = {o \in ArgsOf(k) \cup UNION {FlagsOf(j) : j \in 1 .. k} :
                /\ o # CommandArg(k)
                /\ o \in seen \cup case.implied
                /\ o \in Flag => k \in case.appliesIn[o]}
    /\ \A m, n \in ActsAt(k) : m < n =>
         LET x == ran[m].opt
             y == ran[n].opt
         IN  /\ x # Self /\ x # y
             /\ y \in Flag => x \in Flag /\ Owner(x) <= Owner(y)

\* A command never acts while a flag was used, at any level, which PersistentIn
\* keeps from it, and such a flag never acts at a level it is kept from.
NarrowedFlagsRespected ==
  \A e \in Ran : e.ev = "act" =>
    /\ e.opt \in Flag => e.at \in case.appliesIn[e.opt]
    /\ e.opt = Self => \A f \in seen \cap Flag : e.at \in case.appliesIn[f]

-----------------------------------------------------------------------------
(* Lifecycle implements CommandNesting *)

openBar ==
  CASE pc \in {"done", "failed"} -> 0
    [] pc = "parse" -> level - 1
    [] OTHER -> level

actedBar ==
  IF \E k \in Level : Event("act", k, Self) \in Ran
  THEN CHOOSE k \in Level : Event("act", k, Self) \in Ran ELSE 0

verdictBar == IF pc \in {"done", "failed"} THEN pc ELSE "running"

Nesting == INSTANCE CommandNesting WITH
  open <- openBar, acted <- actedBar, verdict <- verdictBar

ImplementsNesting == Nesting!Spec
=============================================================================
