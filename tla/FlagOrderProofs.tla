-------------------------- MODULE FlagOrderProofs --------------------------
(***************************************************************************)
(* Proofs about FlagOrder for every number of flags, every assignment of   *)
(* order classes and every list of dependencies.                           *)
(***************************************************************************)
EXTENDS FlagOrder, FiniteSetTheorems, TLAPS

Selecting == pc \in {"select", "ordered", "cyclic"}

\* The selection loop keeps its bookkeeping exact: remaining counts the
\* dependencies which are still to be emitted, and available holds the flags
\* for which this count is zero.
Bookkeeping ==
  /\ \A f \in Flag : dependents[f] = {g \in Flag : f \in deps[g]}
  /\ \A f \in Flag : remaining[f] = Cardinality(deps[f] \ Emitted)
  /\ available = {f \in Flag \ Emitted : deps[f] \subseteq Emitted}
  /\ Cardinality(Emitted) = Len(res)

\* What was emitted at p was better than everything else available at p.
Greedy ==
  \A p \in 1 .. Len(res) : \A f \in Flag :
    (/\ \A k \in 1 .. p : res[k] # f
     /\ \A d \in deps[f] : \E k \in 1 .. p - 1 : res[k] = d)
    => better(res[p], f)

\* No set of emitted flags is stuck.
NoStuckEmitted == \A S \in SUBSET Emitted : ~Stuck(S)

IInv ==
  /\ TypeOK
  /\ pc # "resolve" => deps = [f \in Flag |-> Resolved(f)]
  /\ ~Selecting => res = <<>>
  /\ Selecting => Bookkeeping
  /\ EmittedOnce
  /\ OrderRespectsDeps
  /\ Greedy
  /\ NoStuckEmitted
  /\ pc = "ordered" => Len(res) >= N
  /\ pc = "cyclic" => available = {} /\ Len(res) < N

-----------------------------------------------------------------------------
(* Facts about the operators *)

\* Counting the dependencies of a flag: Flag is finite, so Cardinality is a
\* natural number for all its subsets and zero only for the empty one.
LEMMA FlagSubsets ==
  ASSUME NEW S \in SUBSET Flag
  PROVE  /\ IsFiniteSet(S)
         /\ Cardinality(S) \in Nat
         /\ Cardinality(S) = 0 <=> S = {}
         /\ Cardinality(S) <= N
         /\ Cardinality(S) = N => S = Flag
<1>1. IsFiniteSet(Flag) /\ Cardinality(Flag) = N
  BY FS_Interval, NAssumption DEF Flag
<1>2. IsFiniteSet(S) /\ Cardinality(S) <= N /\ (Cardinality(S) = N => S = Flag)
  BY <1>1, FS_Subset
<1>3. Cardinality(S) \in Nat /\ (Cardinality(S) = 0 <=> S = {})
  BY <1>2, FS_CardinalityType, FS_EmptySet
<1> QED BY <1>2, <1>3

\* Emitting one more flag adds exactly that flag.
LEMMA EmittedAfterAppend ==
  ASSUME res \in Seq(Flag), NEW next \in Flag, res' = Append(res, next)
  PROVE  /\ Emitted' = Emitted \cup {next}
         /\ Len(res') = Len(res) + 1
         /\ \A k \in 1 .. Len(res) : res'[k] = res[k]
         /\ res'[Len(res) + 1] = next
         /\ Emitted \in SUBSET Flag
<1>1. /\ Len(res') = Len(res) + 1
      /\ Len(res) \in Nat
      /\ \A k \in 1 .. Len(res) : res'[k] = res[k]
      /\ res'[Len(res) + 1] = next
  OBVIOUS
<1>2. Emitted' = Emitted \cup {next}
  <2>1. ASSUME NEW x \in Emitted' PROVE x \in Emitted \cup {next}
    BY <1>1, <2>1 DEF Emitted
  <2>2. ASSUME NEW x \in Emitted \cup {next} PROVE x \in Emitted'
    <3>1. CASE x \in Emitted
      <4>1. PICK k \in 1 .. Len(res) : x = res[k]
        BY <3>1 DEF Emitted
      <4>2. k \in 1 .. Len(res') /\ x = res'[k]
        BY <4>1, <1>1
      <4> QED BY <4>2 DEF Emitted
    <3>2. CASE x = next
      <4>1. Len(res) + 1 \in 1 .. Len(res') /\ x = res'[Len(res) + 1]
        BY <3>2, <1>1
      <4> QED BY <4>1 DEF Emitted
    <3> QED BY <3>1, <3>2, <2>2
  <2> QED BY <2>1, <2>2
<1> QED BY <1>1, <1>2 DEF Emitted

-----------------------------------------------------------------------------
(* The inductive invariant *)

\* The invariant holds before orderFlags resolves any name.
LEMMA InitIInv == Init => IInv
<1> SUFFICES ASSUME Init PROVE IInv
  OBVIOUS
<1> USE DEF Init
<1>1. TypeOK
  BY NAssumption DEF TypeOK, NoOrder
<1>2. EmittedOnce /\ OrderRespectsDeps /\ Greedy
  BY DEF EmittedOnce, OrderRespectsDeps, Greedy
<1>3. NoStuckEmitted
  BY DEF NoStuckEmitted, Stuck, Emitted
<1> QED BY <1>1, <1>2, <1>3 DEF IInv, Selecting

\* Resolving the names sets up deps, and nothing is selected yet.
LEMMA ResolveIInv == IInv /\ Resolve => IInv'
<1> SUFFICES ASSUME IInv, Resolve PROVE IInv'
  OBVIOUS
<1>1. res = <<>> /\ res' = <<>> /\ ~Selecting'
  BY DEF IInv, Resolve, Selecting
<1>2. TypeOK'
  BY DEF IInv, TypeOK, Resolve, Resolved
<1>3. deps' = [f \in Flag |-> Resolved(f)]'
  BY DEF Resolve, Resolved, NamesOf
<1>4. (EmittedOnce /\ OrderRespectsDeps /\ Greedy)'
  BY <1>1 DEF EmittedOnce, OrderRespectsDeps, Greedy
<1>5. NoStuckEmitted'
  BY <1>1 DEF NoStuckEmitted, Stuck, Emitted
<1>6. pc' \notin {"ordered", "cyclic"}
  BY DEF Resolve
<1> QED BY <1>1, <1>2, <1>3, <1>4, <1>5, <1>6 DEF IInv, Selecting

\* Counting establishes the books the selection keeps.
LEMMA CountIInv == IInv /\ Count => IInv'
<1> SUFFICES ASSUME IInv, Count PROVE IInv'
  OBVIOUS
<1>1. /\ res = <<>> /\ res' = res /\ Emitted = {} /\ Emitted' = {}
      /\ deps' = deps /\ deps \in [Flag -> SUBSET Flag]
  BY DEF IInv, TypeOK, Count, Selecting, Emitted
<1>2. \A f \in Flag : /\ Cardinality(deps[f]) \in Nat
                      /\ Cardinality(deps[f]) = 0 <=> deps[f] = {}
  BY <1>1, FlagSubsets
<1>3. TypeOK'
  BY <1>1, <1>2 DEF IInv, TypeOK, Count, InitialRemaining
<1>4. Bookkeeping'
  <2>1. \A f \in Flag : (deps[f] \ Emitted)' = deps[f]
    BY <1>1
  <2>2. (\A f \in Flag : remaining[f] = Cardinality(deps[f] \ Emitted))'
    BY <2>1 DEF Count, InitialRemaining
  <2>3. (\A f \in Flag : dependents[f] = {g \in Flag : f \in deps[g]})'
    BY <1>1 DEF Count
  <2>4. (available = {f \in Flag \ Emitted : deps[f] \subseteq Emitted})'
    BY <1>1, <1>2 DEF Count, InitialRemaining
  <2>5. (Cardinality(Emitted) = Len(res))'
    BY <1>1, FS_EmptySet
  <2> QED BY <2>2, <2>3, <2>4, <2>5 DEF Bookkeeping
<1>5. (EmittedOnce /\ OrderRespectsDeps /\ Greedy)'
  BY <1>1 DEF EmittedOnce, OrderRespectsDeps, Greedy
<1>6. NoStuckEmitted'
  BY <1>1 DEF NoStuckEmitted, Stuck
<1>7. deps' = [f \in Flag |-> Resolved(f)]'
  BY DEF IInv, Count, Resolved, NamesOf
<1> QED BY <1>1, <1>3, <1>4, <1>5, <1>6, <1>7 DEF IInv, Selecting, Count

\* The effect of emitting next on everything the invariant speaks about.
LEMMA SelectStep ==
  ASSUME IInv, pc = "select", NEW next \in available, IsBest(next, available),
         res' = Append(res, next),
         UNCHANGED <<deps, dependents>>,
         remaining' = [f \in Flag |->
           IF f \in dependents[next] THEN remaining[f] - 1 ELSE remaining[f]],
         available' = (available \ {next}) \cup
                        {d \in dependents[next] : remaining[d] = 1}
  PROVE  /\ next \in Flag /\ next \notin Emitted
         /\ deps[next] \subseteq Emitted
         /\ Bookkeeping'
<1> DEFINE left(f) == deps[f] \ Emitted
<1>1. /\ next \in Flag /\ next \notin Emitted /\ deps[next] \subseteq Emitted
      /\ Bookkeeping /\ res \in Seq(Flag) /\ deps \in [Flag -> SUBSET Flag]
      /\ remaining \in [Flag -> Nat]
  BY DEF IInv, TypeOK, Bookkeeping, Selecting
<1>2. /\ Emitted' = Emitted \cup {next}
      /\ Len(res') = Len(res) + 1
      /\ Emitted \in SUBSET Flag
  BY <1>1, EmittedAfterAppend
<1>3. ASSUME NEW f \in Flag, next \in deps[f]
      PROVE  /\ left(f)' = left(f) \ {next}
             /\ Cardinality(left(f)') = Cardinality(left(f)) - 1
  <2>1. left(f)' = left(f) \ {next} /\ next \in left(f)
    BY <1>1, <1>2, <1>3
  <2>2. IsFiniteSet(left(f))
    BY <1>1, FlagSubsets
  <2> QED BY <2>1, <2>2, FS_RemoveElement, Zenon
<1>4. ASSUME NEW f \in Flag, next \notin deps[f]
      PROVE  left(f)' = left(f)
  BY <1>1, <1>2, <1>4
<1>5. \A f \in Flag : (remaining[f] = Cardinality(deps[f] \ Emitted))'
  <2> SUFFICES ASSUME NEW f \in Flag
               PROVE  remaining'[f] = Cardinality(left(f)')
    OBVIOUS
  <2>1. remaining[f] = Cardinality(left(f)) /\ (f \in dependents[next] <=> next \in deps[f])
    BY <1>1 DEF Bookkeeping
  <2> QED BY <2>1, <1>3, <1>4
<1>6. (available = {f \in Flag \ Emitted : deps[f] \subseteq Emitted})'
  <2>1. ASSUME NEW f \in Flag, f \notin Emitted'
        PROVE  f \in available' <=> left(f)' = {}
    <3>1. f # next /\ f \notin Emitted
      BY <2>1, <1>2
    <3>2. f \in available <=> left(f) = {}
      BY <3>1, <1>1 DEF Bookkeeping
    <3>3. remaining[f] = Cardinality(left(f)) /\ (f \in dependents[next] <=> next \in deps[f])
      BY <1>1 DEF Bookkeeping
    <3>4. left(f) \in SUBSET Flag /\ left(f)' \in SUBSET Flag
      BY <1>1
    <3>5. CASE next \in deps[f]
      <4>1. Cardinality(left(f)') = 0 <=> left(f)' = {}
        BY <3>4, FlagSubsets
      <4>2. remaining[f] \in Nat /\ next \in left(f)
        BY <3>5, <1>1
      <4>3. Cardinality(left(f)') = remaining[f] - 1
        BY <3>5, <1>3, <3>3
      <4>4. f \notin available
        BY <4>2, <3>2
      <4> QED BY <4>1, <4>2, <4>3, <4>4, <3>1, <3>3, <3>5
    <3>6. CASE next \notin deps[f]
      BY <3>6, <3>1, <3>2, <3>3, <1>4
    <3> QED BY <3>5, <3>6
  <2>2. ASSUME NEW f \in available'
        PROVE  f \in Flag /\ f \notin Emitted'
    <3>1. CASE f \in available \ {next}
      BY <3>1, <1>1, <1>2 DEF Bookkeeping
    <3>2. CASE f \in dependents[next] /\ remaining[f] = 1
      <4>1. f \in Flag /\ next \in deps[f]
        BY <3>2, <1>1 DEF Bookkeeping
      <4>2. f # next
        BY <4>1, <1>1
      <4>3. f \notin Emitted
        <5> SUFFICES ASSUME f \in Emitted PROVE FALSE
          OBVIOUS
        <5>1. PICK q \in 1 .. Len(res) : res[q] = f
          BY DEF Emitted
        <5>2. PICK p \in 1 .. q - 1 : res[p] = next
          BY <5>1, <4>1 DEF IInv, OrderRespectsDeps
        <5>3. p \in 1 .. Len(res)
          BY <5>2, <1>1
        <5> QED BY <5>2, <5>3, <1>1 DEF Emitted
      <4> QED BY <4>1, <4>2, <4>3, <1>2
    <3> QED BY <2>2, <3>1, <3>2
  <2> QED BY <2>1, <2>2
<1>7. (Cardinality(Emitted) = Len(res))'
  <2>1. IsFiniteSet(Emitted) /\ Cardinality(Emitted) = Len(res)
    BY <1>1, <1>2, FlagSubsets DEF Bookkeeping
  <2>2. Cardinality(Emitted \cup {next}) = Cardinality(Emitted) + 1
    BY <2>1, <1>1, FS_AddElement
  <2> QED BY <2>1, <2>2, <1>2
<1>8. \A f \in Flag : (dependents[f] = {g \in Flag : f \in deps[g]})'
  BY <1>1 DEF Bookkeeping
<1> QED BY <1>1, <1>5, <1>6, <1>7, <1>8 DEF Bookkeeping

\* Emitting a flag keeps the books and each part of the invariant.
LEMMA SelectIInv == IInv /\ Select => IInv'
<1> SUFFICES ASSUME IInv, Select PROVE IInv'
  OBVIOUS
<1>1. PICK next \in available :
        /\ IsBest(next, available)
        /\ res' = Append(res, next)
        /\ remaining' = [f \in Flag |->
             IF f \in dependents[next] THEN remaining[f] - 1 ELSE remaining[f]]
        /\ available' = (available \ {next}) \cup
                          {d \in dependents[next] : remaining[d] = 1}
  BY DEF Select, Freed
<1>2. /\ pc = "select" /\ pc' = pc
      /\ UNCHANGED <<dependsOn, class, deps, dependents, flagOrder, late>>
      /\ TypeOK /\ Bookkeeping
  BY DEF Select, IInv, Selecting
<1>3. /\ next \in Flag /\ next \notin Emitted
      /\ deps[next] \subseteq Emitted
      /\ Bookkeeping'
  BY <1>1, <1>2, SelectStep
<1>4. /\ Emitted' = Emitted \cup {next}
      /\ Len(res) \in Nat /\ Len(res') = Len(res) + 1
      /\ \A k \in 1 .. Len(res) : res'[k] = res[k]
      /\ res'[Len(res) + 1] = next
      /\ Emitted \in SUBSET Flag
      /\ res' \in Seq(Flag) /\ res \in Seq(Flag)
  <2>1. res \in Seq(Flag)
    BY <1>2 DEF TypeOK
  <2> QED BY <2>1, <1>1, <1>3, EmittedAfterAppend
<1>5. TypeOK'
  <2>1. remaining' \in [Flag -> Nat]
    <3> SUFFICES ASSUME NEW f \in Flag PROVE remaining'[f] \in Nat
      BY <1>1
    <3>1. remaining'[f] = Cardinality(deps'[f] \ Emitted')
      BY <1>3 DEF Bookkeeping
    <3>2. deps'[f] \ Emitted' \in SUBSET Flag
      BY <1>2 DEF TypeOK
    <3> QED BY <3>1, <3>2, FlagSubsets
  <2>2. available' \in SUBSET Flag
    BY <1>3 DEF Bookkeeping
  <2> QED BY <2>1, <2>2, <1>2, <1>4 DEF TypeOK
<1>6. EmittedOnce'
  <2> SUFFICES ASSUME NEW p \in 1 .. Len(res'), NEW q \in 1 .. Len(res'), p < q
               PROVE  res'[p] # res'[q]
    BY <1>4 DEF EmittedOnce
  <2>1. p \in 1 .. Len(res) /\ res'[p] = res[p] /\ res[p] \in Emitted
    BY <1>4 DEF Emitted
  <2>2. CASE q \in 1 .. Len(res)
    BY <2>1, <2>2, <1>4 DEF IInv, EmittedOnce
  <2>3. CASE q = Len(res) + 1
    BY <2>1, <2>3, <1>3, <1>4
  <2> QED BY <2>2, <2>3, <1>4
<1>7. OrderRespectsDeps'
  <2> SUFFICES ASSUME NEW q \in 1 .. Len(res'), NEW d \in deps'[res'[q]]
               PROVE  \E p \in 1 .. q - 1 : res'[p] = d
    BY DEF OrderRespectsDeps
  <2>1. CASE q \in 1 .. Len(res)
    <3>1. d \in deps[res[q]]
      BY <2>1, <1>2, <1>4
    <3>2. PICK p \in 1 .. q - 1 : res[p] = d
      BY <3>1, <2>1 DEF IInv, OrderRespectsDeps
    <3> QED BY <3>2, <2>1, <1>4
  <2>2. CASE q = Len(res) + 1
    <3>1. d \in Emitted
      BY <2>2, <1>2, <1>3, <1>4
    <3>2. PICK p \in 1 .. Len(res) : res[p] = d
      BY <3>1 DEF Emitted
    <3> QED BY <3>2, <2>2, <1>4
  <2> QED BY <2>1, <2>2, <1>4
<1>8. Greedy'
  <2> SUFFICES ASSUME NEW p \in 1 .. Len(res'), NEW f \in Flag,
                      \A k \in 1 .. p : res'[k] # f,
                      \A d \in deps[f] : \E k \in 1 .. p - 1 : res'[k] = d
               PROVE  better(res'[p], f)
    BY <1>2 DEF Greedy, better
  <2>1. CASE p \in 1 .. Len(res)
    <3>1. \A k \in 1 .. p : res[k] # f
      BY <2>1, <1>4
    <3>2. \A d \in deps[f] : \E k \in 1 .. p - 1 : res[k] = d
      BY <2>1, <1>4
    <3> QED BY <3>1, <3>2, <2>1, <1>4 DEF IInv, Greedy
  <2>2. CASE p = Len(res) + 1
    <3>1. f # next
      BY <2>2, <1>4
    <3>2. f \notin Emitted
      BY <2>2, <1>4 DEF Emitted
    <3>3. deps[f] \subseteq Emitted
      <4> SUFFICES ASSUME NEW d \in deps[f] PROVE d \in Emitted
        OBVIOUS
      <4>1. PICK k \in 1 .. Len(res) : res'[k] = d
        BY <2>2, <1>4
      <4> QED BY <4>1, <1>4 DEF Emitted
    <3>4. f \in available
      BY <3>2, <3>3, <1>2 DEF Bookkeeping
    <3> QED BY <3>1, <3>4, <2>2, <1>1, <1>4 DEF IsBest
  <2> QED BY <2>1, <2>2, <1>4
<1>9. NoStuckEmitted'
  <2> SUFFICES ASSUME NEW S \in SUBSET Emitted', S # {},
                      \A f \in S : deps[f] \cap S # {}
               PROVE  FALSE
    BY <1>2 DEF NoStuckEmitted, Stuck
  <2>1. deps[next] \cap S # {} => S \cap Emitted # {}
    BY <1>3
  <2>2. S \cap Emitted # {}
    BY <2>1, <1>4
  <2>3. \A f \in S \cap Emitted : deps[f] \cap (S \cap Emitted) # {}
    <3> SUFFICES ASSUME NEW f \in S, f \in Emitted
                 PROVE  deps[f] \cap (S \cap Emitted) # {}
      OBVIOUS
    <3>1. PICK d \in deps[f] : d \in S
      OBVIOUS
    <3>2. PICK q \in 1 .. Len(res) : res[q] = f
      BY DEF Emitted
    <3>3. PICK p \in 1 .. q - 1 : res[p] = d
      BY <3>1, <3>2 DEF IInv, OrderRespectsDeps
    <3>4. p \in 1 .. Len(res)
      BY <1>4
    <3>5. d \in Emitted
      BY <3>3, <3>4 DEF Emitted
    <3> QED BY <3>1, <3>5
  <2>4. ~Stuck(S \cap Emitted)
    BY DEF IInv, NoStuckEmitted
  <2> QED BY <2>2, <2>3, <2>4 DEF Stuck
<1>10. pc' # "resolve" => (deps = [f \in Flag |-> Resolved(f)])'
  BY <1>2 DEF IInv, Resolved, NamesOf
<1> QED BY <1>2, <1>3, <1>5, <1>6, <1>7, <1>8, <1>9, <1>10 DEF IInv, Selecting

\* Neither the verdict nor a late flag disturbs what was selected.
LEMMA EndIInv == IInv /\ (Complete \/ Cyclic \/ AppendLate) => IInv'
<1> SUFFICES ASSUME IInv, Complete \/ Cyclic \/ AppendLate PROVE IInv'
  OBVIOUS
<1>1. UNCHANGED <<dependsOn, class, deps, remaining, dependents, available, res>>
  BY DEF Complete, Cyclic, AppendLate, counters
<1>2. TypeOK'
  <2>1. TypeOK
    BY DEF IInv
  <2>2. flagOrder' \in Seq(Flag)
    BY <2>1 DEF TypeOK, Complete, Cyclic, AppendLate
  <2>3. late' \in 0 .. MaxLate
    BY <2>1, NAssumption DEF TypeOK, Complete, Cyclic, AppendLate
  <2>4. pc' \in {"ordered", "unordered", "cyclic"}
    BY DEF Complete, Cyclic, AppendLate
  <2> QED BY <1>1, <2>1, <2>2, <2>3, <2>4 DEF TypeOK
<1>3. Selecting' = Selecting
  BY DEF Complete, Cyclic, AppendLate, Selecting
<1>4. (Selecting => Bookkeeping)'
  <2>1. Emitted' = Emitted
    BY <1>1 DEF Emitted
  <2>2. Bookkeeping' = Bookkeeping
    BY <1>1, <2>1 DEF Bookkeeping
  <2> QED BY <1>3, <2>2 DEF IInv
<1>5. (EmittedOnce /\ OrderRespectsDeps /\ Greedy)'
  BY <1>1 DEF IInv, EmittedOnce, OrderRespectsDeps, Greedy, better
<1>6. NoStuckEmitted'
  BY <1>1 DEF IInv, NoStuckEmitted, Stuck, Emitted
<1>7. (pc # "resolve" => deps = [f \in Flag |-> Resolved(f)])'
  BY <1>1 DEF IInv, Resolved, NamesOf, Complete, Cyclic, AppendLate
<1>8. (~Selecting => res = <<>>)'
  BY <1>1, <1>3 DEF IInv
<1>9. /\ (pc = "ordered" => Len(res) >= N)'
      /\ (pc = "cyclic" => available = {} /\ Len(res) < N)'
  BY <1>1 DEF IInv, Complete, Cyclic, AppendLate
<1> QED BY <1>2, <1>4, <1>5, <1>6, <1>7, <1>8, <1>9 DEF IInv

\* The invariant is inductive: no action of the ordering breaks it.
LEMMA NextIInv == IInv /\ [Next]_vars => IInv'
<1> SUFFICES ASSUME IInv, [Next]_vars PROVE IInv'
  OBVIOUS
<1>1. CASE Resolve
  BY <1>1, ResolveIInv
<1>2. CASE Count
  BY <1>2, CountIInv
<1>3. CASE Select
  BY <1>3, SelectIInv
<1>4. CASE Complete \/ Cyclic \/ AppendLate
  BY <1>4, EndIInv
<1>5. CASE UNCHANGED vars
  <2> USE <1>5 DEF vars
  <2>1. TypeOK' = TypeOK
    BY DEF TypeOK
  <2>2. Emitted' = Emitted
    BY DEF Emitted
  <2>3. Bookkeeping' = Bookkeeping /\ Selecting' = Selecting
    BY <2>2 DEF Bookkeeping, Selecting
  <2>4. EmittedOnce' = EmittedOnce /\ OrderRespectsDeps' = OrderRespectsDeps
    BY DEF EmittedOnce, OrderRespectsDeps
  <2>5. Greedy' = Greedy
    BY DEF Greedy, better
  <2>6. NoStuckEmitted' = NoStuckEmitted
    BY <2>2 DEF NoStuckEmitted, Stuck
  <2>7. [f \in Flag |-> Resolved(f)]' = [f \in Flag |-> Resolved(f)]
    BY DEF Resolved, NamesOf
  <2> QED BY <2>1, <2>3, <2>4, <2>5, <2>6, <2>7 DEF IInv
<1> QED BY <1>1, <1>2, <1>3, <1>4, <1>5 DEF Next

\* The inductive invariant holds of the specification.
THEOREM InductiveInvariant == Spec => []IInv
BY InitIInv, NextIInv, PTL DEF Spec

-----------------------------------------------------------------------------
(* The theorems *)

\* Every variable keeps its type; in particular remaining never goes negative
\* (topoSortFlags decrements it without a check).
THEOREM TypeCorrect == Spec => []TypeOK
<1>1. IInv => TypeOK
  BY DEF IInv
<1> QED BY <1>1, InductiveInvariant, PTL

\* Whatever is emitted comes after all it depends upon, and only once.
THEOREM DependenciesFirst == Spec => [](OrderRespectsDeps /\ EmittedOnce)
<1>1. IInv => OrderRespectsDeps /\ EmittedOnce
  BY DEF IInv
<1> QED BY <1>1, InductiveInvariant, PTL

\* The selection departs from the order class and the definition order only
\* where a dependency forces it to.
THEOREM TiebreakHolds == Spec => []TiebreakIsOrderClass
<1>1. IInv => TiebreakIsOrderClass
  <2> SUFFICES ASSUME IInv, NEW p \in 1 .. Len(res), NEW q \in 1 .. Len(res),
                      p < q, better(res[q], res[p])
               PROVE  \E r \in p .. q - 1 : res[r] \in deps[res[q]]
    BY DEF TiebreakIsOrderClass
  <2>1. /\ res \in Seq(Flag) /\ class \in [Flag -> OrderClass]
        /\ res[p] \in Flag /\ res[q] \in Flag
        /\ class[res[p]] \in Int /\ class[res[q]] \in Int
    <3>1. res \in Seq(Flag) /\ class \in [Flag -> OrderClass]
      BY DEF IInv, TypeOK
    <3>2. res[p] \in Flag /\ res[q] \in Flag
      BY <3>1
    <3>3. class[res[p]] \in -1 .. 1 /\ class[res[q]] \in -1 .. 1
      BY <3>1, <3>2, ClassAssumption
    <3> QED BY <3>1, <3>2, <3>3
  <2>2. ~better(res[p], res[q])
    <3>1. res[p] \in Int /\ res[q] \in Int
      BY <2>1 DEF Flag
    <3> QED BY <2>1, <3>1 DEF better
  <2>3. \A k \in 1 .. p : res[k] # res[q]
    BY <2>1 DEF IInv, EmittedOnce
  <2>4. PICK d \in deps[res[q]] : ~\E k \in 1 .. p - 1 : res[k] = d
    BY <2>1, <2>2, <2>3 DEF IInv, Greedy
  <2>5. PICK r \in 1 .. q - 1 : res[r] = d
    BY DEF IInv, OrderRespectsDeps
  <2>6. r \in p .. q - 1
    BY <2>4, <2>5, <2>1
  <2> QED BY <2>5, <2>6
<1> QED BY <1>1, InductiveInvariant, PTL

\* The command is refused for a cycle exactly when there is one: what is left
\* over blocks itself, and nothing which blocks itself is ever ordered.
THEOREM CyclesAreExact == Spec => []CycleIsExact
<1>1. ASSUME IInv, pc = "cyclic"
      PROVE  /\ Stuck(Flag \ Emitted)
             /\ \A f \in Flag : remaining[f] > 0 <=> f \notin Emitted
  <2>1. /\ Bookkeeping /\ available = {} /\ Len(res) < N
        /\ res \in Seq(Flag) /\ deps \in [Flag -> SUBSET Flag]
    BY <1>1 DEF IInv, TypeOK, Selecting
  <2>2. Emitted \in SUBSET Flag
    BY <2>1 DEF Emitted
  <2>3. \A f \in Flag \ Emitted : deps[f] \ Emitted # {}
    BY <2>1 DEF Bookkeeping
  <2>4. Flag \ Emitted # {}
    <3> SUFFICES ASSUME Emitted = Flag PROVE FALSE
      BY <2>2
    <3>1. Cardinality(Emitted) = N
      BY FS_Interval, NAssumption DEF Flag
    <3> QED BY <3>1, <2>1 DEF Bookkeeping
  <2>5. Stuck(Flag \ Emitted)
    BY <2>1, <2>3, <2>4 DEF Stuck
  <2>6. ASSUME NEW f \in Flag PROVE remaining[f] > 0 <=> f \notin Emitted
    <3>1. remaining[f] = Cardinality(deps[f] \ Emitted)
      BY <2>1 DEF Bookkeeping
    <3>2. /\ Cardinality(deps[f] \ Emitted) \in Nat
          /\ Cardinality(deps[f] \ Emitted) = 0 <=> deps[f] \ Emitted = {}
      BY <2>1, FlagSubsets
    <3>3. ASSUME f \in Emitted PROVE deps[f] \ Emitted = {}
      <4> SUFFICES ASSUME NEW d \in deps[f] PROVE d \in Emitted
        OBVIOUS
      <4>1. PICK q \in 1 .. Len(res) : res[q] = f
        BY <3>3 DEF Emitted
      <4>2. PICK p \in 1 .. q - 1 : res[p] = d
        BY <1>1, <4>1 DEF IInv, OrderRespectsDeps
      <4>3. p \in 1 .. Len(res)
        BY <2>1
      <4> QED BY <4>2, <4>3 DEF Emitted
    <3> QED BY <3>1, <3>2, <3>3, <2>3
  <2> QED BY <2>5, <2>6
<1>2. ASSUME IInv, pc = "ordered", NEW S \in SUBSET Flag PROVE ~Stuck(S)
  <2>1. /\ Bookkeeping /\ Len(res) >= N /\ res \in Seq(Flag)
    BY <1>2 DEF IInv, TypeOK, Selecting
  <2>2. Emitted \in SUBSET Flag
    BY <2>1 DEF Emitted
  <2>3. Cardinality(Emitted) <= N /\ (Cardinality(Emitted) = N => Emitted = Flag)
    BY <2>2, FlagSubsets
  <2>4. Emitted = Flag
    BY <2>1, <2>3, NAssumption DEF Bookkeeping
  <2> QED BY <2>4, <1>2 DEF IInv, NoStuckEmitted
<1>3. IInv => CycleIsExact
  BY <1>1, <1>2 DEF CycleIsExact
<1> QED BY <1>3, InductiveInvariant, PTL

-----------------------------------------------------------------------------
(* What runs after all *)

\* Only a complete order is kept on the command.
Kept == flagOrder = IF pc = "ordered" THEN res ELSE NoOrder

LEMMA OrderIsKept == Spec => []Kept
<1>1. Init => Kept
  BY DEF Init, Kept
<1>2. Kept /\ [Next]_vars => Kept'
  <2> SUFFICES ASSUME Kept, [Next]_vars PROVE Kept'
    OBVIOUS
  <2>1. CASE Resolve
    BY <2>1 DEF Resolve, Kept
  <2>2. CASE Count
    BY <2>2 DEF Count, Kept
  <2>3. CASE Select
    BY <2>3 DEF Select, Kept
  <2>4. CASE Complete
    BY <2>4 DEF Complete, Kept
  <2>5. CASE Cyclic
    BY <2>5 DEF Cyclic, Kept
  <2>6. CASE AppendLate
    BY <2>6 DEF AppendLate, Kept
  <2>7. CASE UNCHANGED vars
    BY <2>7 DEF vars, Kept
  <2> QED BY <2>1, <2>2, <2>3, <2>4, <2>5, <2>6, <2>7 DEF Next
<1> QED BY <1>1, <1>2, PTL DEF Spec

\* A complete order has each flag it began with.
LEMMA OrderIsWhole ==
  ASSUME IInv, pc = "ordered"
  PROVE  res \in Seq(Flag) /\ Len(res) = N /\ Emitted = Flag
<1>1. Cardinality(Emitted) = Len(res) /\ Len(res) >= N /\ res \in Seq(Flag)
  BY DEF IInv, TypeOK, Selecting, Bookkeeping
<1>2. Emitted \in SUBSET Flag
  <2>1. \A k \in 1 .. Len(res) : res[k] \in Flag
    BY <1>1
  <2> QED BY <2>1, Zenon DEF Emitted
<1>3. Cardinality(Emitted) \in Nat /\ Cardinality(Emitted) <= N
      /\ (Cardinality(Emitted) = N => Emitted = Flag)
  BY <1>2, FlagSubsets
<1>4. Len(res) = N
  BY <1>1, <1>3, NAssumption
<1> QED BY <1>1, <1>3, <1>4

\* Appended flags are put in the order in which they were appended.
LEMMA AppendedInOrder ==
  ASSUME NEW m \in Nat
  PROVE  InDefinitionOrder(N + 1 .. N + m) = [n \in 1 .. m |-> N + n]
<1> DEFINE S == N + 1 .. N + m
<1>1. Cardinality(S) = m
  BY FS_Interval, NAssumption
<1>2. ASSUME NEW f \in S PROVE Cardinality({g \in S : g < f}) = f - N - 1
  <2>1. {g \in S : g < f} = N + 1 .. f - 1
    <3>1. N \in Nat /\ f \in Nat /\ f <= N + m
      BY NAssumption
    <3>2. \A g : g \in S /\ g < f <=> g \in N + 1 .. f - 1
      BY <3>1
    <3> HIDE DEF S
    <3> QED BY <3>2, Zenon
  <2>2. N + 1 \in Int /\ f - 1 \in Int /\ f >= N + 1
    BY NAssumption
  <2>3. Cardinality(N + 1 .. f - 1) = IF N + 1 > f - 1 THEN 0 ELSE f - 1 - (N + 1) + 1
    BY <2>2, FS_Interval
  <2>4. Cardinality(N + 1 .. f - 1) = f - N - 1
    <3>1. N \in Nat /\ f \in Nat
      BY NAssumption
    <3> HIDE DEF S
    <3> QED BY <2>2, <2>3, <3>1
  <2> QED BY <2>1, <2>4
<1>3. ASSUME NEW n \in 1 .. m
      PROVE  (CHOOSE f \in S : Cardinality({g \in S : g < f}) = n - 1) = N + n
  <2>1. N + n \in S /\ \A f \in S : f - N - 1 = n - 1 <=> f = N + n
    BY NAssumption
  <2>2. \A f \in S : Cardinality({g \in S : g < f}) = n - 1 <=> f = N + n
    BY <1>2, <2>1
  <2> HIDE DEF S
  <2> QED BY <2>1, <2>2
<1> HIDE DEF S
<1>4. InDefinitionOrder(S) = [n \in 1 .. m |-> N + n]
  BY <1>1, <1>3 DEF InDefinitionOrder
<1> QED BY <1>4 DEF S

\* Hooks and triggers go through each flag exactly once, the ones which
\* arrived after the order was computed behind all others, also if there is no
\* order (localFlagsInOrder, context.go:500).
THEOREM FlagsRunOnce == Spec => []EveryFlagRunsOnce
<1>1. IInv /\ Kept => EveryFlagRunsOnce
  <2> SUFFICES ASSUME IInv, Kept, pc \in {"ordered", "unordered"}
               PROVE  /\ Len(localFlagsInOrder) = N + late
                      /\ \A f \in 1 .. N + late :
                           \E k \in 1 .. N + late : localFlagsInOrder[k] = f
                      /\ \A k \in 1 .. N + late : localFlagsInOrder[k] > N <=> k > N
    BY DEF EveryFlagRunsOnce
  <2>1. late \in Nat /\ N \in Nat
    BY NAssumption DEF IInv, TypeOK
  <2>2. Len(CmdFlags) = N + late /\ DOMAIN CmdFlags = 1 .. N + late
    BY <2>1 DEF CmdFlags
  <2>3. CASE localFlagsInOrder = CmdFlags
    BY <2>1, <2>2, <2>3 DEF CmdFlags
  <2>4. CASE pc = "ordered" /\ localFlagsInOrder # CmdFlags
    <3>1. /\ flagOrder = res /\ res \in Seq(Flag) /\ Len(res) = N /\ DOMAIN res = 1 .. N
          /\ \A k \in 1 .. N : res[k] \in 1 .. N
          /\ \A f \in 1 .. N : \E k \in 1 .. N : res[k] = f
      <4>1. res \in Seq(Flag) /\ Len(res) = N /\ Emitted = Flag
        BY <2>4, OrderIsWhole
      <4>2. DOMAIN res = 1 .. N /\ \A k \in 1 .. N : res[k] \in 1 .. N
        BY <4>1 DEF Flag
      <4>3. \A f \in 1 .. N : \E k \in 1 .. N : res[k] = f
        BY <4>1, Zenon DEF Emitted, Flag
      <4> QED BY <2>4, <4>1, <4>2, <4>3 DEF Kept
    <3>2. NotInOrder = N + 1 .. N + late
      <4>1. {flagOrder[k] : k \in DOMAIN flagOrder} = 1 .. N
        BY <3>1, Zenon
      <4>2. {CmdFlags[k] : k \in DOMAIN CmdFlags} = 1 .. N + late
        BY <2>2 DEF CmdFlags
      <4>3. NotInOrder = (1 .. N + late) \ (1 .. N)
        BY <4>1, <4>2 DEF NotInOrder
      <4>4. \A f : f \in 1 .. N + late /\ f \notin 1 .. N <=> f \in N + 1 .. N + late
        BY <2>1
      <4> QED BY <4>3, <4>4, Zenon
    <3> DEFINE behind == [n \in 1 .. late |-> N + n]
    <3>3. localFlagsInOrder = IF late = 0 THEN res ELSE res \o behind
      <4>1. localFlagsInOrder = IF Len(res) = Len(CmdFlags) THEN res
                                ELSE res \o InDefinitionOrder(NotInOrder)
        BY <2>4, <3>1, Zenon DEF localFlagsInOrder
      <4>2. Len(res) = Len(CmdFlags) <=> late = 0
        BY <2>1, <2>2, <3>1
      <4>3. InDefinitionOrder(NotInOrder) = behind
        BY <2>1, <3>2, AppendedInOrder
      <4> QED BY <4>1, <4>2, <4>3, Zenon
    <3>4. /\ behind \in Seq(Nat) /\ Len(behind) = late
          /\ \A k \in N + 1 .. N + late : behind[k - N] = k
      BY <2>1
    <3> HIDE DEF behind
    <3>5. /\ Len(localFlagsInOrder) = N + late
          /\ \A k \in 1 .. N : localFlagsInOrder[k] = res[k]
          /\ \A k \in N + 1 .. N + late : localFlagsInOrder[k] = k
      <4>1. CASE late = 0
        BY <2>1, <3>1, <3>3, <4>1
      <4>2. CASE late # 0
        <5>1. res \in Seq(Flag) /\ behind \in Seq(Nat) /\ Len(res) = N /\ Len(behind) = late
          BY <3>1, <3>4
        <5>2. /\ Len(res \o behind) = Len(res) + Len(behind)
              /\ \A k \in 1 .. Len(res) : (res \o behind)[k] = res[k]
              /\ \A k \in Len(res) + 1 .. Len(res) + Len(behind) :
                   (res \o behind)[k] = behind[k - Len(res)]
          <6>1. res \in Seq(Flag) /\ behind \in Seq(Nat)
            BY <5>1
          <6>2. PICK r \in Seq(Flag), b \in Seq(Nat) : r = res /\ b = behind
            BY <6>1, Zenon
          <6>3. /\ Len(r \o b) = Len(r) + Len(b)
                /\ \A k \in 1 .. Len(r) : (r \o b)[k] = r[k]
                /\ \A k \in Len(r) + 1 .. Len(r) + Len(b) : (r \o b)[k] = b[k - Len(r)]
            OBVIOUS
          <6> QED BY <6>2, <6>3, Zenon
        <5>3. localFlagsInOrder = res \o behind
          BY <3>3, <4>2, Zenon
        <5> QED BY <3>4, <5>1, <5>2, <5>3, Zenon
      <4> QED BY <4>1, <4>2
    <3>6. ASSUME NEW f \in 1 .. N + late
          PROVE  \E k \in 1 .. N + late : localFlagsInOrder[k] = f
      <4>1. CASE f > N
        BY <2>1, <3>5, <3>6, <4>1
      <4>2. CASE ~(f > N)
        <5>1. PICK k \in 1 .. N : res[k] = f
          BY <2>1, <3>1, <3>6, <4>2
        <5>2. k \in 1 .. N + late
          BY <2>1
        <5> QED BY <3>5, <5>1, <5>2, Zenon
      <4> QED BY <4>1, <4>2
    <3>7. ASSUME NEW k \in 1 .. N + late PROVE localFlagsInOrder[k] > N <=> k > N
      <4>1. CASE k > N
        BY <2>1, <3>5, <3>7, <4>1
      <4>2. CASE k \in 1 .. N
        <5>1. localFlagsInOrder[k] \in 1 .. N
          BY <3>1, <3>5, <4>2, Zenon
        <5> QED BY <2>1, <4>2, <5>1
      <4> QED BY <2>1, <4>1, <4>2
    <3> QED BY <3>5, <3>6, <3>7
  <2>5. pc = "unordered" => localFlagsInOrder = CmdFlags
    BY DEF Kept, localFlagsInOrder
  <2> QED BY <2>3, <2>4, <2>5
<1> QED BY <1>1, InductiveInvariant, OrderIsKept, PTL

\* Every behaviour of the ordering is a behaviour of FlagSchedule: a selection
\* emits a ready flag, and a verdict is given only when no flag is ready.
THEOREM Implementation == Spec => ImplementsSchedule
<1> DEFINE depsBar == [f \in Flag |-> Resolved(f)]
<1>1. Init => Schedule!Init
  <2> SUFFICES ASSUME Init PROVE Schedule!Init
    OBVIOUS
  <2>1. depsBar \in [Flag -> SUBSET Flag]
    BY DEF Resolved
  <2>2. res = <<>> /\ outcomeBar = "running"
    BY DEF Init, outcomeBar
  <2> QED BY <2>1, <2>2 DEF Schedule!Init
<1>2. ASSUME IInv, [Next]_vars PROVE [Schedule!Next]_Schedule!vars
  <2>1. depsBar' = depsBar
    BY <1>2 DEF Next, vars, Resolve, Count, Select, Complete, Cyclic, AppendLate,
       Resolved, NamesOf
  <2>2. CASE Resolve
    <3>1. res = <<>> /\ res' = res
      BY <2>2, <1>2 DEF IInv, Selecting, Resolve
    <3>2. outcomeBar = "running" /\ outcomeBar' \in {"running", "skipped"}
      BY <2>2 DEF Resolve, outcomeBar
    <3> QED BY <2>1, <3>1, <3>2 DEF Schedule!Next, Schedule!Skip, Schedule!vars
  <2>3. CASE Count
    <3>1. res' = res /\ outcomeBar' = outcomeBar
      BY <2>3 DEF Count, outcomeBar
    <3> QED BY <2>1, <3>1 DEF Schedule!vars
  <2>4. CASE Select
    <3>1. outcomeBar = "running" /\ outcomeBar' = outcomeBar
      BY <2>4 DEF Select, outcomeBar
    <3>2. PICK next \in available : res' = Append(res, next)
      BY <2>4 DEF Select
    <3>3. /\ next \in Flag \ Emitted /\ deps[next] \subseteq Emitted
          /\ deps = depsBar
      BY <2>4, <3>2, <1>2 DEF IInv, Bookkeeping, Selecting, Select
    <3>4. next \in Schedule!Ready
      BY <3>3 DEF Schedule!Ready, Schedule!Emitted, Emitted
    <3> QED BY <2>1, <3>1, <3>2, <3>4 DEF Schedule!Next, Schedule!Emit
  <2>5. CASE Complete \/ Cyclic
    <3>1. /\ res' = res /\ available = {} /\ Selecting /\ pc = "select"
          /\ outcomeBar = "running"
          /\ outcomeBar' = IF Len(res) >= N THEN "complete" ELSE "cyclic"
          /\ res \in Seq(Flag) /\ Bookkeeping /\ deps = depsBar
      <4>1. pc = "select" /\ available = {} /\ res' = res
        BY <2>5 DEF Complete, Cyclic
      <4>2. Selecting /\ Bookkeeping /\ TypeOK /\ deps = depsBar
        BY <4>1, <1>2 DEF IInv, Selecting
      <4>3. res \in Seq(Flag) /\ Len(res) \in Nat
        BY <4>2 DEF TypeOK
      <4>4. pc' = IF Len(res) >= N THEN "ordered" ELSE "cyclic"
        BY <2>5, <4>3, NAssumption DEF Complete, Cyclic
      <4>5. /\ outcomeBar = "running"
            /\ outcomeBar' = IF Len(res) >= N THEN "complete" ELSE "cyclic"
        BY <4>1, <4>4 DEF outcomeBar
      <4> QED BY <4>1, <4>2, <4>3, <4>5
    <3>2. Schedule!Ready = {}
      BY <3>1, Zenon DEF Schedule!Ready, Schedule!Emitted, Bookkeeping, Emitted
    <3>3. Emitted \in SUBSET Flag
      BY <3>1 DEF Emitted
    <3>4. Cardinality(Emitted) = Len(res) /\ Len(res) \in Nat
      BY <3>1 DEF Bookkeeping
    <3>5. Len(res) >= N <=> Emitted = Flag
      <4>1. Cardinality(Flag) = N
        BY FS_Interval, NAssumption DEF Flag
      <4> QED BY <3>3, <3>4, <4>1, FlagSubsets, NAssumption
    <3>6. outcomeBar' = IF Schedule!Emitted = Flag THEN "complete" ELSE "cyclic"
      BY <3>1, <3>5 DEF Schedule!Emitted, Emitted
    <3> QED BY <2>1, <3>1, <3>2, <3>6 DEF Schedule!Next, Schedule!Stop
  <2>6. CASE AppendLate \/ UNCHANGED vars
    <3>1. res' = res /\ outcomeBar' = outcomeBar
      BY <2>6 DEF AppendLate, vars, outcomeBar
    <3> QED BY <2>1, <3>1 DEF Schedule!vars
  <2> QED BY <1>2, <2>2, <2>3, <2>4, <2>5, <2>6 DEF Next
<1> QED BY <1>1, <1>2, InductiveInvariant, PTL
     DEF Spec, ImplementsSchedule, Schedule!Spec

=============================================================================
