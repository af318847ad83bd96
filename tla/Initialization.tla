--------------------------- MODULE Initialization ---------------------------
(***************************************************************************)
(* Set-up of one command: its own Uses, the implicit arg for sub-commands, *)
(* then its flags, args and sub-commands in rounds, because what is set up *)
(* may add and remove flags, args and sub-commands of the same command.    *)
(* The lists are Go slices: a round goes through the array which the list  *)
(* had when the round began, and a removal shifts that array in place.     *)
(***************************************************************************)
EXTENDS Integers, Sequences, FiniteSets, SequencesExt

CONSTANTS
  Initial,       \* the numbers of flags, args and sub-commands at first
  MaxChanges,    \* bound: additions and removals by user code
  Nil,           \* an element of a slice which was cleared
  Nobody         \* no child is being set up

Kind == {"flag", "arg", "command"}
\* The arg which ensureSubcommands adds has the number 0.
Target == Kind \X (0 .. MaxChanges + 3)
CommandArg == <<"arg", 0>>

ASSUME InitialAssumption == Initial \subseteq [Kind -> 0 .. 3] /\ Initial # {}
ASSUME BoundAssumption == MaxChanges \in Nat
ASSUME NilAssumption == Nil \notin Target /\ Nobody \notin Target /\ Nil # Nobody

VARIABLES
  arrays,      \* the backing arrays
  lists,       \* Command.Flags, Args and Subcommands: array and length
  start,       \* where the next round of a kind begins
  batch,       \* what is left of the round: kind, array and range
  more,        \* anyFlags, anyArgs, anySubcommands
  child, rerun,   \* the target being set up; rerun: by reinitialize
  phase,
  shared,      \* options which another command has set up before
  created,     \* how many targets of a kind there are
  changes,
  log,         \* history: the targets in the order they were set up
  cut, late    \* history: kinds removed from, and options added, too late

slices == <<arrays, lists>>
round == <<start, batch, more>>
history == <<log, cut, late>>
vars == <<slices, round, child, rerun, phase, shared, created, changes, history>>

Array(l) == arrays[l.array]
Content(k) == SubSeq(Array(lists[k]), 1, lists[k].len)
KindOf(t) == t[1]

NoBatch == [kind |-> "none", array |-> 1, from |-> 1, to |-> 0]

Init ==
  \E n \in Initial :
    LET own(k) == [i \in 1 .. n[k] |-> <<k, i>>]
    IN /\ arrays = <<own("flag"), own("arg"), own("command")>>
       /\ lists = [flag |-> [array |-> 1, len |-> n["flag"]],
                   arg |-> [array |-> 2, len |-> n["arg"]],
                   command |-> [array |-> 3, len |-> n["command"]]]
       /\ start = [k \in Kind |-> 0] /\ more = [k \in Kind |-> TRUE]
       /\ batch = NoBatch
       /\ child = Nobody /\ rerun = FALSE /\ phase = "uses"
       /\ shared \in SUBSET ({own("flag")[i] : i \in 1 .. n["flag"]}
                              \cup {own("arg")[i] : i \in 1 .. n["arg"]})
       /\ created = n /\ changes = 0
       /\ log = <<>> /\ cut = {} /\ late = {}

(***************************************************************************)
(* The slices.                                                             *)
(***************************************************************************)
\* append: in place while there is room, else in a new array.
Grown(k, t) == 
  LET l == lists[k]  room == IF l.len = 0 THEN 1 ELSE 2 * l.len
  IN Content(k) \o <<t>> \o [i \in 1 .. room - l.len - 1 |-> Nil]
AppendTo(k, t) ==
  IF lists[k].len < Len(Array(lists[k]))
  THEN /\ arrays' = [arrays EXCEPT ![lists[k].array][lists[k].len + 1] = t]
       /\ lists' = [lists EXCEPT ![k].len = @ + 1]
  ELSE /\ arrays' = Append(arrays, Grown(k, t))
       /\ lists' = [lists EXCEPT ![k] = [array |-> Len(arrays) + 1, len |-> @.len + 1]]

\* Defect: the result of slices.Delete is dropped.
KeepLength(k) == lists' = lists
Shorten(k) == lists' = [lists EXCEPT ![k].len = @ - 1]
\* slices.Delete clears the place which is left over; RemoveArg does not.
DeleteAt(k, i) ==
  LET l == lists[k]
  IN /\ arrays' = [arrays EXCEPT ![l.array] =
           [j \in DOMAIN @ |->
              IF j \in i .. l.len - 1 THEN @[j + 1]
              ELSE IF j = l.len /\ k # "arg" THEN Nil ELSE @[j]]]
     /\ Shorten(k)

(***************************************************************************)
(* User code: the Uses of the command, then Uses and hooks of its children.*)
(* A flag or arg changes the command directly, a sub-command by Parent.    *)
(***************************************************************************)
UserCode == (phase = "uses" \/ child # Nobody) /\ changes < MaxChanges

\* Context.AddFlag, AddArg, AddCommand: append a new one.
AddTo(k) ==
  LET t == <<k, created[k] + 1>>
  IN /\ UserCode
     /\ AppendTo(k, t)
     /\ created' = [created EXCEPT ![k] = @ + 1] /\ changes' = changes + 1
     /\ late' = IF phase = "command" /\ k # "command" THEN late \cup {t} ELSE late
     /\ UNCHANGED <<round, child, rerun, phase, shared, log, cut>>

\* Context.RemoveFlag, RemoveArg, RemoveCommand.
RemoveFrom(k) ==
  /\ UserCode
  /\ \E i \in 1 .. lists[k].len : DeleteAt(k, i)
  /\ changes' = changes + 1
  /\ cut' = IF phase = "uses" THEN cut ELSE cut \cup {k}
  /\ UNCHANGED <<round, child, rerun, phase, shared, created, log, late>>

\* The Uses of the command fail.
UsesFail ==
  /\ phase = "uses" /\ phase' = "failed"
  /\ UNCHANGED <<slices, round, child, rerun, shared, created, changes, history>>

\* ensureSubcommands: a command with sub-commands has an arg for them.
EnsureSubcommands ==
  /\ phase = "uses" /\ phase' = "flag"
  /\ IF lists["command"].len > 0 THEN AppendTo("arg", CommandArg) ELSE UNCHANGED slices
  /\ UNCHANGED <<round, child, rerun, shared, created, changes, history>>

(***************************************************************************)
(* initializeFlagsArgs, initializeSubcommands and initializeChildren.      *)
(***************************************************************************)
InRounds == phase \in Kind

\* Defect: a round is thought to end where its own slice does.
StartOfBatch(k) == lists[k].len - start[k]
NextStart(k) == lists[k].len

\* Defect: whether there is more is read off the list, not off the round.
MoreInList(k) == lists[k].len > 0
MoreInRound(k) == lists[k].len > start[k]

\* x[start:], start = len(x).  The slice expression panics past the end.
BeginRound ==
  /\ InRounds /\ batch = NoBatch /\ child = Nobody
  /\ IF start[phase] > lists[phase].len
     THEN phase' = "panicked" /\ UNCHANGED round
     ELSE /\ batch' = [kind |-> phase, array |-> lists[phase].array,
                       from |-> start[phase] + 1, to |-> lists[phase].len]
          /\ start' = [start EXCEPT ![phase] = NextStart(phase)]
          /\ more' = [more EXCEPT ![phase] = MoreInRound(phase)]
          /\ UNCHANGED phase
  /\ UNCHANGED <<slices, child, rerun, shared, created, changes, history>>

\* internalFlagInitialized, which commands do not have.
Initialized(t) == KindOf(t) # "command" /\ t \in shared \cup Range(log)

NextChild ==
  /\ InRounds /\ child = Nobody /\ batch # NoBatch /\ batch.from <= batch.to
  /\ LET t == arrays[batch.array][batch.from]
     IN \/ t = Nil /\ phase' = "panicked" /\ UNCHANGED <<batch, child>>
        \/ /\ t # Nil /\ Initialized(t)
           /\ batch' = [batch EXCEPT !.from = @ + 1] /\ UNCHANGED <<phase, child>>
        \/ /\ t # Nil /\ ~Initialized(t)
           /\ child' = t /\ UNCHANGED <<phase, batch>>
  /\ UNCHANGED <<slices, start, more, rerun, shared, created, changes, history>>

LeaveChild ==
  /\ child' = Nobody /\ rerun' = FALSE
  /\ batch' = [batch EXCEPT !.from = @ + 1]

\* child.initialize returns nil and the name is the same.
ChildDone ==
  /\ child # Nobody /\ ~rerun
  /\ log' = Append(log, child)
  /\ LeaveChild
  /\ UNCHANGED <<slices, start, more, phase, shared, created, changes, cut, late>>

\* The name has changed: the hooks run once more.
ChildRenamed ==
  /\ child # Nobody /\ ~rerun
  /\ log' = Append(log, child) /\ rerun' = TRUE
  /\ UNCHANGED <<slices, round, child, phase, shared, created, changes, cut, late>>

\* reinitialize returns; its error is dropped.
HooksReturn ==
  /\ child # Nobody /\ rerun
  /\ LeaveChild
  /\ UNCHANGED <<slices, start, more, phase, shared, created, changes, history>>

ChildFails ==
  /\ child # Nobody /\ ~rerun
  /\ phase' = "failed" /\ child' = Nobody
  /\ UNCHANGED <<slices, round, rerun, shared, created, changes, history>>

AnyMore == more["flag"] \/ more["arg"]

\* Flags and args take turns until neither had any; then sub-commands.
NextPhase ==
  CASE phase = "flag" -> "arg"
    [] phase = "arg" -> IF AnyMore THEN "flag" ELSE "command"
    [] phase = "command" -> IF more["command"] THEN "command" ELSE "done"

EndRound ==
  /\ child = Nobody /\ InRounds /\ batch # NoBatch /\ batch.from > batch.to
  /\ batch' = NoBatch /\ phase' = NextPhase
  /\ UNCHANGED <<slices, start, more, child, rerun, shared, created, changes, history>>

Next ==
  \/ \E k \in Kind : AddTo(k) \/ RemoveFrom(k)
  \/ UsesFail \/ EnsureSubcommands
  \/ BeginRound \/ NextChild \/ EndRound
  \/ ChildDone \/ ChildRenamed \/ HooksReturn \/ ChildFails

\* User code returns, and the loops go on for as long as they may.
Spec == Init /\ [][Next]_vars /\ WF_vars(Next)

(***************************************************************************)
(* Properties.                                                             *)
(***************************************************************************)
\* No list ever holds a cleared element, whatever is added and removed, and
\* a round stays within the array it began with.
TypeOK ==
  /\ \A k \in Kind :
       /\ lists[k].array \in DOMAIN arrays
       /\ lists[k].len \in 0 .. Len(Array(lists[k]))
       /\ Content(k) \in Seq({t \in Target : KindOf(t) = k})
  /\ \A i \in DOMAIN arrays : arrays[i] \in Seq(Target \cup {Nil})
  /\ start \in [Kind -> Nat] /\ more \in [Kind -> BOOLEAN]
  /\ batch.to <= Len(Array(batch)) /\ batch.from \in 1 .. batch.to + 1
  /\ child \in Target \cup {Nobody} /\ rerun \in BOOLEAN
  /\ phase \in Kind \cup {"uses", "done", "failed", "panicked"}
  /\ shared \subseteq Target /\ late \subseteq Target /\ cut \subseteq Kind
  /\ created \in [Kind -> Nat] /\ changes \in 0 .. MaxChanges
  /\ log \in Seq(Target)

\* The places in a list which the rounds set up: not options which another
\* command has set up before, nor those which a sub-command added.
Places(k) == {i \in 1 .. lists[k].len : Content(k)[i] \notin shared \cup late}

\* What was set up stands at such a place, and what stands at those before it
\* was set up before it.
InOrder(k) ==
  \A n \in 1 .. Len(log) : KindOf(log[n]) = k =>
    \E j \in Places(k) :
      /\ log[n] = Content(k)[j]
      /\ \A i \in Places(k) : i < j => \E m \in 1 .. n - 1 : log[m] = Content(k)[i]

Complete(k) == \A i \in Places(k) : Content(k)[i] \in Range(log)

\* Nothing is listed twice or set up twice, sub-commands (which carry no mark
\* of it) included, although rounds overlap with additions and removals.  A
\* kind from which nothing was removed during the rounds is set up in the order
\* of its list and, at the end, completely, with all that was added on the way.
\* Without a removal the loops of command.go:726-790 do not panic.
InitializedInOrder ==
  /\ IsInjective(log) /\ \A k \in Kind : IsInjective(Content(k))
  /\ \A k \in Kind \ cut : InOrder(k) /\ (phase = "done" => Complete(k))
  /\ phase = "panicked" => cut # {}

\* Set-up ends, since what was added was set up once (initializeFlagsArgs,
\* initializeSubcommands).
SetupEnds == <>(phase \in {"done", "failed", "panicked"})

\* RemoveFlag "is only valid during the initialization phase": there it may
\* be called by what is being set up.
RemovalIsValid == phase # "panicked"
=============================================================================
