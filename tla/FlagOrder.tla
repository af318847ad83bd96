----------------------------- MODULE FlagOrder -----------------------------
(***************************************************************************)
(* The order in which the flags of one command are hooked and executed:    *)
(* orderFlags resolves the names given to DependsOn, topoSortFlags runs    *)
(* Kahn's algorithm over them with OrderFirst/OrderLast and the definition *)
(* index as the tiebreak, and localFlagsInOrder merges in the flags which  *)
(* were appended after the order was computed.                             *)
(*                                                                         *)
(* Flags are their definition indexes 1..N.  A slice whose order the code  *)
(* never depends upon (available, dependents) is the set of its elements.  *)
(***************************************************************************)
EXTENDS Integers, Sequences, FiniteSets

CONSTANTS
  N,                \* number of flags when the order is computed
  MaxLate,          \* bound on flags appended afterwards
  OrderClass,       \* subset of -1..1: OrderFirst, neither, OrderLast
  DependencyList,   \* the lists of names a flag may pass to DependsOn
  ArgName,          \* a name which resolves to an arg of the command
  AncestorName,     \* ... to a persistent flag of an ancestor
  MissingName,      \* ... to nothing
  EmptyName         \* a name which is empty once dashes are trimmed

Flag == 1 .. N

ASSUME NAssumption == N \in Nat /\ MaxLate \in Nat
ASSUME ClassAssumption == OrderClass \subseteq -1 .. 1
ASSUME NameAssumption ==
  \A list \in DependencyList : \A k \in DOMAIN list :
     list[k] \in Flag \cup {ArgName, AncestorName, MissingName, EmptyName}

\* cmd.flagOrder = nil
NoOrder == <<>>

VARIABLES
  pc,               \* "resolve", "count", "select", or how the ordering ended
  dependsOn,        \* dependsOn[f]: names accumulated by DependsOn on flag f
  class,            \* class[f]: the order class of flag f
  deps,             \* deps[f]: the flags that f's names resolve to
  remaining,        \* remaining[f]: dependencies of f not yet emitted
  dependents,       \* dependents[f]: flags which wait for f
  available,        \* flags with no remaining dependency, not yet emitted
  res,              \* flags emitted so far
  flagOrder,        \* cmd.flagOrder
  late              \* number of flags appended since

inputs == <<dependsOn, class>>
counters == <<deps, remaining, dependents>>
vars == <<pc, dependsOn, class, deps, remaining, dependents, available, res,
          flagOrder, late>>

-----------------------------------------------------------------------------
(* orderFlags: resolving names *)

NamesOf(f) == {dependsOn[f][k] : k \in DOMAIN dependsOn[f]}

\* The names which become edges: those of another flag of this command.
Resolved(f) == NamesOf(f) \cap (Flag \ {f})

\* The names which are errors.  Naming an ancestor's flag is redundant only.
Refused(f) == NamesOf(f) \cap {f, ArgName, MissingName, EmptyName}

AnyOrdering == \E f \in Flag : class[f] # 0 \/ dependsOn[f] # <<>>

(* topoSortFlags *)

\* A dependency which is named more than once counts once.
\* Defect: whether there are dependencies instead of how many.
InitialRemainingAny(f) == IF deps[f] = {} THEN 0 ELSE 1
\* Defect: counting names, so that one given twice counts twice.
InitialRemainingNames(f) == Len(dependsOn[f])
InitialRemaining(f) == Cardinality(deps[f])

better(x, y) == class[x] < class[y] \/ (class[x] = class[y] /\ x < y)

\* Defect: the order class is forgotten.
IsBestByIndex(x, S) == \A y \in S \ {x} : x < y
\* Defect: a flag must be better than itself.
IsBestOfSelf(x, S) == \A y \in S : better(x, y)
IsBest(x, S) == \A y \in S \ {x} : better(x, y)

\* The flags which only waited for next.
\* Defect: a dependent is freed by its first dependency.
FreedEarly(next) == {d \in dependents[next] : remaining[d] >= 1}
Freed(next) == {d \in dependents[next] : remaining[d] = 1}

Emitted == {res[k] : k \in 1 .. Len(res)}

-----------------------------------------------------------------------------
Init ==
  /\ pc = "resolve"
  /\ dependsOn \in [Flag -> DependencyList]
  /\ class \in [Flag -> OrderClass]
  /\ deps = [f \in Flag |-> {}]
  /\ remaining = [f \in Flag |-> 0]
  /\ dependents = [f \in Flag |-> {}]
  /\ available = {}
  /\ res = <<>>
  /\ flagOrder = NoOrder
  /\ late = 0

\* The loop over the flags and what follows it in orderFlags.
Resolve ==
  /\ pc = "resolve"
  /\ deps' = [f \in Flag |-> Resolved(f)]
  /\ pc' = IF \E f \in Flag : Refused(f) # {} THEN "refused"
           ELSE IF AnyOrdering THEN "count" ELSE "unordered"
  /\ UNCHANGED <<dependsOn, class, remaining, dependents, available, res,
                 flagOrder, late>>

\* The start of topoSortFlags: counts, reverse edges and the first flags
\* which are available.
Count ==
  /\ pc = "count"
  /\ remaining' = [f \in Flag |-> InitialRemaining(f)]
  /\ dependents' = [f \in Flag |-> {g \in Flag : f \in deps[g]}]
  /\ available' = {f \in Flag : InitialRemaining(f) = 0}
  /\ pc' = "select"
  /\ UNCHANGED <<dependsOn, class, deps, res, flagOrder, late>>

\* One iteration of the selection loop.
Select ==
  /\ pc = "select"
  /\ \E next \in available :
       /\ IsBest(next, available)
       /\ res' = Append(res, next)
       /\ remaining' = [f \in Flag |->
            IF f \in dependents[next] THEN remaining[f] - 1 ELSE remaining[f]]
       /\ available' = (available \ {next}) \cup Freed(next)
  /\ UNCHANGED <<pc, dependsOn, class, deps, dependents, flagOrder, late>>

\* Every flag was emitted: the order is kept on the command.
Complete ==
  /\ pc = "select"
  /\ available = {}
  /\ Len(res) >= N
  /\ pc' = "ordered"
  /\ flagOrder' = res
  /\ UNCHANGED <<dependsOn, class, counters, available, res, late>>

\* Some flag was not: initialization of the command fails.
Cyclic ==
  /\ pc = "select"
  /\ available = {}
  /\ Len(res) < N
  /\ pc' = "cyclic"
  /\ UNCHANGED <<dependsOn, class, counters, available, res, flagOrder, late>>

\* A flag is appended to cmd.Flags after orderFlags returned.
AppendLate ==
  /\ pc \in {"ordered", "unordered"}
  /\ late < MaxLate
  /\ late' = late + 1
  /\ UNCHANGED <<pc, dependsOn, class, counters, available, res, flagOrder>>

Next == Resolve \/ Count \/ Select \/ Complete \/ Cyclic \/ AppendLate

Spec == Init /\ [][Next]_vars

\* The ordering is a loop that nothing interrupts, so it keeps taking steps;
\* nothing obliges anyone to append flags.
Fairness == WF_vars(Resolve \/ Count \/ Select \/ Complete \/ Cyclic)

FairSpec == Spec /\ Fairness

-----------------------------------------------------------------------------
(* localFlagsInOrder *)

\* cmd.Flags, in the order of definition
CmdFlags == [k \in 1 .. N + late |-> k]

\* Those of cmd.Flags which the order does not have.
NotInOrder ==
  {CmdFlags[k] : k \in DOMAIN CmdFlags} \ {flagOrder[k] : k \in DOMAIN flagOrder}

\* Flags are their own indexes: the n-th of a set has n - 1 smaller ones.
InDefinitionOrder(S) ==
  [n \in 1 .. Cardinality(S) |->
     CHOOSE f \in S : Cardinality({g \in S : g < f}) = n - 1]

\* Defect: late flags are not merged in.
localFlagsInOrderStale == IF flagOrder = NoOrder THEN CmdFlags ELSE flagOrder

localFlagsInOrder ==
  IF flagOrder = NoOrder THEN CmdFlags
  ELSE IF Len(flagOrder) = Len(CmdFlags) THEN flagOrder
  ELSE flagOrder \o InDefinitionOrder(NotInOrder)

Ended == pc \in {"refused", "unordered", "ordered", "cyclic"}

-----------------------------------------------------------------------------
TypeOK ==
  /\ pc \in {"resolve", "count", "select", "refused", "unordered", "ordered",
             "cyclic"}
  /\ dependsOn \in [Flag -> DependencyList]
  /\ class \in [Flag -> OrderClass]
  /\ deps \in [Flag -> SUBSET Flag]
  /\ remaining \in [Flag -> Nat]
  /\ dependents \in [Flag -> SUBSET Flag]
  /\ available \in SUBSET Flag
  /\ res \in Seq(Flag)
  /\ flagOrder \in Seq(Flag)
  /\ late \in 0 .. MaxLate

\* A flag never runs before a flag it depends upon, whatever OrderFirst and
\* OrderLast ask for: at every moment of the selection, what was emitted is
\* closed under dependencies and lists them in order.
OrderRespectsDeps ==
  \A q \in 1 .. Len(res) : \A d \in deps[res[q]] :
     \E p \in 1 .. q - 1 : res[p] = d

\* No flag is emitted twice, so no flag would be hooked or triggered twice.
EmittedOnce ==
  \A p, q \in 1 .. Len(res) : p # q => res[p] # res[q]

\* A set of flags none of which can come first, however the rest is ordered.
Stuck(S) == S # {} /\ \A f \in S : deps[f] \cap S # {}

\* The cycle error is never a false alarm: the flags left over when the
\* selection stops early really do block each other, and these are the flags
\* the error lists (remaining > 0).  And a real cycle is always reported rather
\* than dropped or ordered.
CycleIsExact ==
  /\ pc = "cyclic" =>
       /\ Stuck(Flag \ Emitted)
       /\ \A f \in Flag : remaining[f] > 0 <=> f \notin Emitted
  /\ pc = "ordered" => \A S \in SUBSET Flag : ~Stuck(S)

\* Dependencies are the only reason to depart from the order class and then
\* the definition order: if a flag y is emitted after x though y is better,
\* then y still waited for a flag emitted at x's place or later.
TiebreakIsOrderClass ==
  \A p, q \in 1 .. Len(res) :
    p < q /\ better(res[q], res[p]) =>
      \E r \in p .. q - 1 : res[r] \in deps[res[q]]

\* Every flag of the command is in the order used for hooks and triggers
\* exactly once, also when flags arrived after the order was computed, and
\* those come after all the others.
EveryFlagRunsOnce ==
  pc \in {"ordered", "unordered"} =>
    /\ Len(localFlagsInOrder) = N + late
    /\ \A f \in 1 .. N + late :
         \E k \in 1 .. N + late : localFlagsInOrder[k] = f
    /\ \A k \in 1 .. N + late : localFlagsInOrder[k] > N <=> k > N

\* Ordering always comes to a verdict: it neither loops nor stalls.
OrderingEnds == <>Ended

-----------------------------------------------------------------------------
(* FlagOrder implements FlagSchedule *)

outcomeBar ==
  CASE pc = "ordered" -> "complete"
    [] pc = "cyclic" -> "cyclic"
    [] pc \in {"refused", "unordered"} -> "skipped"
    [] OTHER -> "running"

Schedule == INSTANCE FlagSchedule WITH
  deps <- [f \in Flag |-> Resolved(f)],
  emitted <- res,
  outcome <- outcomeBar

ImplementsSchedule == Schedule!Spec
=============================================================================
