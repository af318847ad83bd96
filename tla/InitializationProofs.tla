------------------------- MODULE InitializationProofs -----------------------
(***************************************************************************)
(* Proofs about Initialization for commands of every shape and any number  *)
(* of changes by user code.                                                *)
(***************************************************************************)
EXTENDS Initialization, SequenceTheorems, TLAPS

Element == Target \cup {Nil}
ArrayOf(k) == Array(lists[k])

\* Slices: each kind has an array of its own, of which it uses the beginning
\* and which holds nothing of another kind.
OwnArray(k) ==
  /\ lists[k].array \in 1 .. Len(arrays) /\ lists[k].len <= Len(ArrayOf(k))
  /\ \A j \in Kind : lists[j].array = lists[k].array => j = k
  /\ \A i \in 1 .. Len(ArrayOf(k)) : ArrayOf(k)[i] # Nil => KindOf(ArrayOf(k)[i]) = k
  /\ \A i \in 1 .. lists[k].len : ArrayOf(k)[i] # Nil

Slices ==
  /\ arrays \in Seq(Seq(Element)) /\ Len(arrays) >= 3
  /\ lists \in [Kind -> [array : Nat, len : Nat]]
  /\ \A k \in Kind : OwnArray(k)

\* A round stays within its array, and a child is being set up in one.
Round ==
  /\ start \in [Kind -> Nat] /\ more \in [Kind -> BOOLEAN]
  /\ batch \in [kind : Kind \cup {"none"}, array : Nat, from : Nat, to : Nat]
  /\ batch.array \in 1 .. Len(arrays) /\ batch.to <= Len(arrays[batch.array])
  /\ batch.from \in 1 .. batch.to + 1
  /\ child \in Target \cup {Nobody} /\ rerun \in BOOLEAN
  /\ child # Nobody => batch.from <= batch.to /\ InRounds

Others ==
  /\ phase \in Kind \cup {"uses", "done", "failed", "panicked"}
  /\ shared \subseteq Target /\ late \subseteq Target /\ cut \subseteq Kind
  /\ created \in [Kind -> Nat] /\ changes \in 0 .. MaxChanges
  /\ \A k \in Kind : created[k] <= 3 + changes
  /\ log \in Seq(Target)

Types == Slices /\ Round /\ Others

-----------------------------------------------------------------------------
(* The slices *)

LEMMA LenInNat == ASSUME NEW S, NEW s \in Seq(S) PROVE Len(s) \in Nat
OBVIOUS

\* What changes when one array is replaced by another of the same length.
LEMMA ArrayReplaced ==
  ASSUME NEW S, NEW all \in Seq(Seq(S)), NEW a \in 1 .. Len(all), NEW s \in Seq(S)
  PROVE  LET u == [all EXCEPT ![a] = s]
         IN /\ u \in Seq(Seq(S)) /\ Len(u) = Len(all) /\ u[a] = s
            /\ \A b \in 1 .. Len(all) : b # a => u[b] = all[b]
BY ExceptSeq

\* A sequence put together of a sequence, one element and another sequence.
LEMMA Joined ==
  ASSUME NEW S, NEW c \in Seq(S), NEW t \in S, NEW f \in Seq(S),
         NEW u, u = (c \o <<t>>) \o f
  PROVE  /\ u \in Seq(S) /\ Len(u) = Len(c) + 1 + Len(f) /\ u[Len(c) + 1] = t
         /\ \A i \in 1 .. Len(c) : u[i] = c[i]
         /\ \A i \in 1 .. Len(u) : i > Len(c) + 1 =>
              i - (Len(c) + 1) \in 1 .. Len(f) /\ u[i] = f[i - (Len(c) + 1)]
<1>1. <<t>> \in Seq(S) /\ Len(<<t>>) = 1 /\ <<t>>[1] = t
  OBVIOUS
<1>2. PICK ct : ct = c \o <<t>>
  OBVIOUS
<1>3. /\ ct \in Seq(S) /\ Len(ct) = Len(c) + 1 /\ ct[Len(c) + 1] = t
      /\ \A i \in 1 .. Len(c) : ct[i] = c[i]
  BY <1>1, <1>2, ConcatProperties
<1>4. u = ct \o f
  BY <1>2
<1>5. /\ u \in Seq(S) /\ Len(u) = Len(ct) + Len(f)
      /\ \A i \in 1 .. Len(ct) + Len(f) : u[i] = IF i <= Len(ct) THEN ct[i] ELSE f[i - Len(ct)]
  <2>1. /\ ct \o f \in Seq(S) /\ Len(ct \o f) = Len(ct) + Len(f)
        /\ \A i \in 1 .. Len(ct) + Len(f) :
             (ct \o f)[i] = IF i <= Len(ct) THEN ct[i] ELSE f[i - Len(ct)]
    <3>1. ct \in Seq(S)
      BY <1>3
    <3> QED BY <3>1, ConcatProperties, Zenon
  <2> QED BY <1>4, <2>1
<1>6. /\ Len(c) \in Nat /\ Len(f) \in Nat
  OBVIOUS
<1>7. ASSUME NEW i \in 1 .. Len(u), i > Len(c) + 1
      PROVE  i - (Len(c) + 1) \in 1 .. Len(f) /\ u[i] = f[i - (Len(c) + 1)]
  <2>1. /\ i \in 1 .. Len(ct) + Len(f) /\ ~(i <= Len(ct))
        /\ i - (Len(c) + 1) = i - Len(ct) /\ i - Len(ct) \in 1 .. Len(f)
    BY <1>3, <1>5, <1>6, <1>7
  <2>2. u[i] = f[i - Len(ct)]
    BY <1>5, <2>1
  <2> QED BY <2>1, <2>2
<1>8. u[Len(c) + 1] = t /\ \A i \in 1 .. Len(c) : u[i] = c[i]
  BY <1>3, <1>5, <1>6
<1> QED BY <1>3, <1>5, <1>7, <1>8

\* A target of a kind has a number.
LEMMA NewTarget ==
  ASSUME Types, changes < MaxChanges, NEW k \in Kind
  PROVE  <<k, created[k] + 1>> \in Target /\ KindOf(<<k, created[k] + 1>>) = k
<1>1. created[k] \in Nat /\ created[k] <= 3 + changes /\ changes \in Nat /\ MaxChanges \in Nat
  BY BoundAssumption DEF Types, Others
<1>2. created[k] + 1 \in 0 .. MaxChanges + 3
  BY <1>1
<1> QED BY <1>2 DEF Target, KindOf

\* Appending leaves what the list held and puts the target behind it, in the
\* same array or in a new one; other arrays are left alone.
LEMMA AppendFacts ==
  ASSUME Slices, NEW k \in Kind, NEW t \in Target, KindOf(t) = k, AppendTo(k, t)
  PROVE  /\ arrays' \in Seq(Seq(Element)) /\ Len(arrays') >= Len(arrays)
         /\ lists' \in [Kind -> [array : Nat, len : Nat]]
         /\ lists'[k].len = lists[k].len + 1
         /\ lists'[k].array \in 1 .. Len(arrays')
         /\ \/ lists'[k].array = lists[k].array /\ Len(arrays') = Len(arrays)
            \/ lists'[k].array = Len(arrays) + 1 /\ Len(arrays') = Len(arrays) + 1
         /\ \A j \in Kind : j # k => lists'[j] = lists[j]
         /\ \A a \in 1 .. Len(arrays) :
              a # lists'[k].array => arrays'[a] = arrays[a]
         /\ lists'[k].array = lists[k].array => Len(ArrayOf(k)') = Len(ArrayOf(k))
         /\ lists'[k].len <= Len(ArrayOf(k)')
         /\ \A i \in 1 .. lists[k].len : ArrayOf(k)'[i] = ArrayOf(k)[i]
         /\ ArrayOf(k)'[lists'[k].len] = t
         /\ \A i \in 1 .. Len(ArrayOf(k)') : i > lists'[k].len =>
              \/ lists'[k].array = Len(arrays) + 1 /\ ArrayOf(k)'[i] = Nil
              \/ lists'[k].array = lists[k].array /\ ArrayOf(k)'[i] = ArrayOf(k)[i]
<1>1. PICK a, n, A : a = lists[k].array /\ n = lists[k].len /\ A = arrays[lists[k].array]
  OBVIOUS
<1>2. /\ a \in 1 .. Len(arrays) /\ n \in Nat /\ n <= Len(A) /\ A \in Seq(Element)
      /\ Len(A) \in Nat /\ t \in Element /\ lists[k] = [array |-> a, len |-> n]
      /\ lists \in [Kind -> [array : Nat, len : Nat]]
      /\ ArrayOf(k) = A /\ Len(arrays) \in Nat
  BY <1>1 DEF Slices, OwnArray, ArrayOf, Array, Element
<1>3. CASE n < Len(A)
  <2> DEFINE u == [A EXCEPT ![n + 1] = t]
  <2>1. /\ arrays' = [arrays EXCEPT ![a] = u]
        /\ lists' = [lists EXCEPT ![k].len = @ + 1]
    BY <1>1, <1>3 DEF AppendTo, Array
  <2>2. /\ u \in Seq(Element) /\ Len(u) = Len(A) /\ u[n + 1] = t
        /\ \A i \in 1 .. Len(A) : i # n + 1 => u[i] = A[i]
    BY <1>2, <1>3, ExceptSeq
  <2> HIDE DEF u
  <2>3. /\ arrays' \in Seq(Seq(Element)) /\ Len(arrays') = Len(arrays) /\ arrays'[a] = u
        /\ \A b \in 1 .. Len(arrays) : b # a => arrays'[b] = arrays[b]
    BY <1>2, <2>1, <2>2, ArrayReplaced DEF Slices
  <2>4. /\ lists' \in [Kind -> [array : Nat, len : Nat]]
        /\ lists'[k].array = a /\ lists'[k].len = n + 1
        /\ \A j \in Kind : j # k => lists'[j] = lists[j]
    BY <1>1, <1>2, <2>1
  <2>5. ArrayOf(k)' = u
    BY <2>3, <2>4 DEF ArrayOf, Array
  <2>6. /\ n + 1 \in 1 .. Len(A) /\ \A i \in 1 .. n : i # n + 1 /\ i \in 1 .. Len(A)
        /\ \A i \in 1 .. Len(A) : i > n + 1 => i # n + 1
    BY <1>2, <1>3
  <2>7. /\ \A i \in 1 .. n : u[i] = A[i]
        /\ \A i \in 1 .. Len(u) : i > n + 1 => u[i] = A[i]
    BY <2>2, <2>6
  <2>8. /\ lists'[k].len = lists[k].len + 1 /\ lists'[k].array = lists[k].array
        /\ lists'[k].array \in 1 .. Len(arrays')
        /\ \A b \in 1 .. Len(arrays) : b # lists'[k].array => arrays'[b] = arrays[b]
    BY <1>1, <1>2, <2>3, <2>4
  <2>9. /\ Len(ArrayOf(k)') = Len(ArrayOf(k)) /\ lists'[k].len <= Len(ArrayOf(k)')
        /\ ArrayOf(k)'[lists'[k].len] = t
    BY <1>2, <2>2, <2>4, <2>5, <2>6
  <2>10. /\ \A i \in 1 .. lists[k].len : ArrayOf(k)'[i] = ArrayOf(k)[i]
         /\ \A i \in 1 .. Len(ArrayOf(k)') : i > lists'[k].len => ArrayOf(k)'[i] = ArrayOf(k)[i]
    BY <1>1, <1>2, <2>4, <2>5, <2>7
  <2>11. Len(arrays') >= Len(arrays)
    BY <1>2, <2>3
  <2> QED BY <2>3, <2>4, <2>8, <2>9, <2>10, <2>11
<1>4. CASE ~(n < Len(A))
  <2> DEFINE u == Grown(k, t)
  <2>1. /\ arrays' = Append(arrays, u)
        /\ lists' = [lists EXCEPT ![k] = [array |-> Len(arrays) + 1, len |-> @.len + 1]]
    BY <1>1, <1>4 DEF AppendTo, Array
  <2>2. /\ u \in Seq(Element) /\ Len(u) >= n + 1 /\ u[n + 1] = t
        /\ \A i \in 1 .. n : u[i] = A[i]
        /\ \A i \in 1 .. Len(u) : i > n + 1 => u[i] = Nil
    <3>1. PICK c : c = SubSeq(A, 1, n)
      OBVIOUS
    <3>2. PICK m : m = (IF n = 0 THEN 1 ELSE 2 * n) - n - 1
      OBVIOUS
    <3>3. PICK f : f = [i \in 1 .. m |-> Nil]
      OBVIOUS
    <3>4. /\ c \in Seq(Element) /\ Len(c) = n /\ \A i \in 1 .. n : c[i] = A[i]
      BY <1>2, <3>1
    <3>5. m \in Nat
      BY <1>2, <3>2
    <3>6. f \in Seq(Element) /\ Len(f) = m /\ \A i \in 1 .. m : f[i] = Nil
      <4>1. Nil \in Element
        BY DEF Element
      <4>2. f \in Seq(Element)
        BY <3>3, <3>5, <4>1, IsASeq
      <4> QED BY <3>3, <3>5, <4>2
    <3>7. u = (c \o <<t>>) \o f
      <4>1. Content(k) = c
        BY <1>1, <3>1 DEF Content, Array
      <4>2. Grown(k, t) = (c \o <<t>>) \o [i \in 1 .. m |-> Nil]
        BY <1>1, <3>2, <4>1 DEF Grown
      <4> QED BY <3>3, <4>2
    <3>8. PICK v : v = u
      OBVIOUS
    <3> HIDE DEF u
    <3>9. v = (c \o <<t>>) \o f
      BY <3>7, <3>8
    <3>10. /\ v \in Seq(Element) /\ Len(v) = Len(c) + 1 + Len(f) /\ v[Len(c) + 1] = t
           /\ \A i \in 1 .. Len(c) : v[i] = c[i]
           /\ \A i \in 1 .. Len(v) : i > Len(c) + 1 =>
                i - (Len(c) + 1) \in 1 .. Len(f) /\ v[i] = f[i - (Len(c) + 1)]
      <4>1. c \in Seq(Element) /\ f \in Seq(Element) /\ t \in Element
        BY <1>2, <3>4, <3>6
      <4> QED BY <3>9, <4>1, Joined
    <3>11. n \in Nat
      BY <1>2
    <3>12. /\ v \in Seq(Element) /\ Len(v) = n + 1 + m /\ v[n + 1] = t
           /\ \A i \in 1 .. n : v[i] = A[i]
      BY <3>4, <3>6, <3>10
    <3>13. \A i \in 1 .. Len(v) : i > n + 1 => v[i] = Nil
      BY <3>4, <3>6, <3>10
    <3> QED BY <3>5, <3>8, <3>11, <3>12, <3>13
  <2> HIDE DEF u
  <2>3. /\ arrays' \in Seq(Seq(Element)) /\ Len(arrays') = Len(arrays) + 1
        /\ arrays'[Len(arrays) + 1] = u
        /\ \A b \in 1 .. Len(arrays) : arrays'[b] = arrays[b]
    BY <2>1, <2>2, AppendProperties DEF Slices
  <2>4. /\ lists' \in [Kind -> [array : Nat, len : Nat]]
        /\ lists'[k].array = Len(arrays) + 1 /\ lists'[k].len = n + 1
        /\ \A j \in Kind : j # k => lists'[j] = lists[j]
    BY <1>1, <1>2, <2>1
  <2>5. ArrayOf(k)' = u
    BY <2>3, <2>4 DEF ArrayOf, Array
  <2>6. /\ Len(arrays) + 1 \in 1 .. Len(arrays') /\ Len(arrays') >= Len(arrays)
        /\ lists'[k].array # lists[k].array
    <3>1. /\ a \in 1 .. Len(arrays) /\ a = lists[k].array /\ Len(arrays) \in Nat
          /\ lists'[k].array = Len(arrays) + 1 /\ Len(arrays') = Len(arrays) + 1
      BY <1>1, <1>2, <2>3, <2>4
    <3> QED BY <3>1
  <2>7. /\ lists'[k].len <= Len(u) /\ u[lists'[k].len] = t
        /\ \A i \in 1 .. Len(u) : i > lists'[k].len => u[i] = Nil
        /\ \A i \in 1 .. lists[k].len : u[i] = ArrayOf(k)[i]
    <3>1. lists'[k].len = n + 1 /\ lists[k].len = n /\ ArrayOf(k) = A
      <4>1. lists'[k].len = n + 1
        BY <2>4
      <4>2. lists[k].len = n
        BY <1>1
      <4>3. ArrayOf(k) = A
        BY <1>2
      <4> QED BY <4>1, <4>2, <4>3
    <3> QED BY <2>2, <3>1
  <2> QED BY <1>1, <2>3, <2>4, <2>5, <2>6, <2>7
<1> QED BY <1>3, <1>4

\* Removing shifts what follows in the array of the list, and shortens the list.
LEMMA DeleteFacts ==
  ASSUME Slices, NEW k \in Kind, NEW i \in 1 .. lists[k].len, DeleteAt(k, i)
  PROVE  /\ arrays' \in Seq(Seq(Element)) /\ Len(arrays') = Len(arrays)
         /\ lists' \in [Kind -> [array : Nat, len : Nat]]
         /\ lists'[k].len = lists[k].len - 1 /\ lists'[k].array = lists[k].array
         /\ \A j \in Kind : j # k => lists'[j] = lists[j]
         /\ \A a \in 1 .. Len(arrays) : a # lists[k].array => arrays'[a] = arrays[a]
         /\ Len(ArrayOf(k)') = Len(ArrayOf(k))
         /\ \A j \in 1 .. Len(ArrayOf(k)) :
              ArrayOf(k)'[j] = IF j \in i .. lists[k].len - 1 THEN ArrayOf(k)[j + 1]
                               ELSE IF j = lists[k].len /\ k # "arg" THEN Nil
                               ELSE ArrayOf(k)[j]
<1>1. PICK a, n, A : a = lists[k].array /\ n = lists[k].len /\ A = arrays[lists[k].array]
  OBVIOUS
<1>2. /\ a \in 1 .. Len(arrays) /\ n \in Nat \ {0} /\ n <= Len(A) /\ A \in Seq(Element)
      /\ Len(A) \in Nat /\ lists[k] = [array |-> a, len |-> n]
      /\ ArrayOf(k) = A /\ Len(arrays) \in Nat /\ DOMAIN A = 1 .. Len(A)
  BY <1>1 DEF Slices, OwnArray, ArrayOf, Array, Element
<1>3. PICK u : u = [j \in 1 .. Len(A) |->
                      IF j \in i .. n - 1 THEN A[j + 1]
                      ELSE IF j = n /\ k # "arg" THEN Nil ELSE A[j]]
  OBVIOUS
<1>4. /\ arrays' = [arrays EXCEPT ![a] = u]
      /\ lists' = [lists EXCEPT ![k].len = @ - 1]
  BY <1>1, <1>2, <1>3 DEF DeleteAt, Shorten
<1>5. u \in Seq(Element) /\ Len(u) = Len(A)
  <2>1. \A j \in 1 .. Len(A) : (IF j \in i .. n - 1 THEN A[j + 1]
                      ELSE IF j = n /\ k # "arg" THEN Nil ELSE A[j]) \in Element
    <3>1. \A j \in 1 .. Len(A) : j \in i .. n - 1 => j + 1 \in 1 .. Len(A)
      BY <1>1, <1>2
    <3>2. \A j \in 1 .. Len(A) : A[j] \in Element
      BY <1>2
    <3>3. Nil \in Element
      BY DEF Element
    <3> QED BY <3>1, <3>2, <3>3
  <2>2. u \in Seq(Element)
    BY <1>2, <1>3, <2>1, IsASeq
  <2> QED BY <1>2, <1>3, <2>2
<1>6. /\ arrays' \in Seq(Seq(Element)) /\ Len(arrays') = Len(arrays) /\ arrays'[a] = u
      /\ \A b \in 1 .. Len(arrays) : b # a => arrays'[b] = arrays[b]
  BY <1>2, <1>4, <1>5, ArrayReplaced DEF Slices
<1>7. /\ lists' \in [Kind -> [array : Nat, len : Nat]]
      /\ lists'[k].array = a /\ lists'[k].len = n - 1
      /\ \A j \in Kind : j # k => lists'[j] = lists[j]
  BY <1>1, <1>2, <1>4 DEF Slices
<1>8. ArrayOf(k)' = u
  BY <1>6, <1>7 DEF ArrayOf, Array
<1> QED BY <1>1, <1>2, <1>3, <1>5, <1>6, <1>7, <1>8

\* The slices after an append or a removal, and where a round may be.
SlicesKept ==
  /\ Slices' /\ Len(arrays') >= Len(arrays)
  /\ \A a \in 1 .. Len(arrays) : Len(arrays'[a]) = Len(arrays[a])

\* What the slices are, in numbers.
LEMMA SlicesNumbers ==
  ASSUME Slices
  PROVE  /\ Len(arrays) \in Nat /\ Len(arrays) >= 3
         /\ \A j \in Kind : lists[j].array \in 1 .. Len(arrays) /\ lists[j].len \in Nat
         /\ \A j, m \in Kind : lists[j].array = lists[m].array => j = m
<1>1. arrays \in Seq(Seq(Element)) /\ Len(arrays) >= 3 /\ \A j \in Kind : OwnArray(j)
  BY DEF Slices
<1>2. \A j \in Kind : lists[j].len \in Nat
  BY DEF Slices
<1>3. Len(arrays) \in Nat
  BY <1>1, LenInNat
<1> QED BY <1>1, <1>2, <1>3 DEF OwnArray

LEMMA ListNumbers ==
  ASSUME Slices, NEW k \in Kind
  PROVE  /\ ArrayOf(k) \in Seq(Element) /\ Len(ArrayOf(k)) \in Nat
         /\ lists[k].len <= Len(ArrayOf(k))
<1>1. arrays \in Seq(Seq(Element)) /\ lists[k].array \in 1 .. Len(arrays)
  BY SlicesNumbers DEF Slices
<1>2. ArrayOf(k) \in Seq(Element)
  BY <1>1 DEF ArrayOf, Array
<1>3. lists[k].len <= Len(ArrayOf(k))
  BY DEF Slices, OwnArray
<1> QED BY <1>2, <1>3, LenInNat

\* An append leaves every list whole.
LEMMA AppendKeepsSlices ==
  ASSUME Slices, NEW k \in Kind, NEW t \in Target, KindOf(t) = k, AppendTo(k, t)
  PROVE  SlicesKept
<1>1. /\ arrays' \in Seq(Seq(Element)) /\ Len(arrays') >= Len(arrays)
      /\ lists' \in [Kind -> [array : Nat, len : Nat]]
      /\ lists'[k].len = lists[k].len + 1
      /\ lists'[k].array \in 1 .. Len(arrays')
      /\ lists'[k].len <= Len(ArrayOf(k)')
  BY AppendFacts
<1>2. \/ lists'[k].array = lists[k].array /\ Len(arrays') = Len(arrays)
      \/ lists'[k].array = Len(arrays) + 1
  BY AppendFacts
<1>3. /\ \A j \in Kind : j # k => lists'[j] = lists[j]
      /\ \A a \in 1 .. Len(arrays) : a # lists'[k].array => arrays'[a] = arrays[a]
  BY AppendFacts
<1>4. /\ \A i \in 1 .. lists[k].len : ArrayOf(k)'[i] = ArrayOf(k)[i]
      /\ ArrayOf(k)'[lists'[k].len] = t
      /\ lists'[k].array = lists[k].array => Len(ArrayOf(k)') = Len(ArrayOf(k))
  BY AppendFacts
<1>5. \A i \in 1 .. Len(ArrayOf(k)') : i > lists'[k].len =>
        \/ lists'[k].array = Len(arrays) + 1 /\ ArrayOf(k)'[i] = Nil
        \/ lists'[k].array = lists[k].array /\ ArrayOf(k)'[i] = ArrayOf(k)[i]
  BY AppendFacts
<1>6. /\ Len(arrays) \in Nat /\ Len(arrays) >= 3 /\ Len(arrays') \in Nat
      /\ Len(arrays') >= Len(arrays)
      /\ \A j \in Kind : lists[j].array \in 1 .. Len(arrays) /\ lists[j].len \in Nat
      /\ \A j, m \in Kind : lists[j].array = lists[m].array => j = m
  BY <1>1, SlicesNumbers, LenInNat
<1>7. /\ lists[k].len <= Len(ArrayOf(k)) /\ Len(ArrayOf(k)) \in Nat /\ Len(ArrayOf(k)') \in Nat
      /\ lists[k].len \in Nat /\ lists'[k].len = lists[k].len + 1
  <2>1. ArrayOf(k)' \in Seq(Element)
    BY <1>1 DEF ArrayOf, Array
  <2> QED BY <1>1, <1>6, <2>1, ListNumbers, LenInNat
<1>8. ASSUME NEW j \in Kind, j # k PROVE ArrayOf(j)' = ArrayOf(j) /\ lists'[j] = lists[j]
  <2>1. lists[j].array # lists'[k].array /\ lists[j].array \in 1 .. Len(arrays)
    BY <1>2, <1>6, <1>8
  <2>2. lists'[j] = lists[j]
    BY <1>3, <1>8
  <2> QED BY <1>3, <2>1, <2>2 DEF ArrayOf, Array
<1>9. \A a \in 1 .. Len(arrays) : Len(arrays'[a]) = Len(arrays[a])
  <2>1. ASSUME NEW a \in 1 .. Len(arrays), a = lists'[k].array
        PROVE  Len(arrays'[a]) = Len(arrays[a])
    <3>1. a = lists[k].array
      BY <1>2, <1>6, <2>1
    <3> QED BY <1>4, <2>1, <3>1 DEF ArrayOf, Array
  <2> QED BY <1>3, <2>1
<1>10. \A j \in Kind : OwnArray(j)'
  <2>1. ASSUME NEW m \in Kind, NEW j \in Kind, lists'[j].array = lists'[m].array PROVE j = m
    <3>1. CASE j = k \/ m = k
      BY <1>2, <1>3, <1>6, <2>1, <3>1
    <3>2. CASE j # k /\ m # k
      BY <1>3, <1>6, <2>1, <3>2
    <3> QED BY <3>1, <3>2
  <2>2. ASSUME NEW j \in Kind, j # k PROVE OwnArray(j)'
    <3>1. OwnArray(j) /\ lists'[j] = lists[j] /\ ArrayOf(j)' = ArrayOf(j)
      BY <1>8, <2>2 DEF Slices
    <3>2. lists[j].array \in 1 .. Len(arrays')
      BY <1>6
    <3> QED BY <2>1, <3>1, <3>2 DEF OwnArray
  <2>3. ASSUME NEW i \in 1 .. lists'[k].len PROVE ArrayOf(k)'[i] # Nil
    <3>1. CASE i = lists'[k].len
      BY <1>4, <3>1, NilAssumption
    <3>2. CASE i # lists'[k].len
      <4>1. i \in 1 .. lists[k].len
        BY <1>7, <2>3, <3>2
      <4>2. ArrayOf(k)[i] # Nil
        BY <4>1 DEF Slices, OwnArray
      <4> QED BY <1>4, <4>1, <4>2
    <3> QED BY <3>1, <3>2
  <2>4. ASSUME NEW i \in 1 .. Len(ArrayOf(k)'), ArrayOf(k)'[i] # Nil
        PROVE  KindOf(ArrayOf(k)'[i]) = k
    <3>1. \A n \in 1 .. Len(ArrayOf(k)) : ArrayOf(k)[n] # Nil => KindOf(ArrayOf(k)[n]) = k
      BY DEF Slices, OwnArray
    <3>2. CASE i = lists'[k].len
      BY <1>4, <3>2
    <3>3. CASE i < lists'[k].len
      <4>1. i \in 1 .. lists[k].len /\ i \in 1 .. Len(ArrayOf(k))
        BY <1>7, <3>3
      <4> QED BY <1>4, <2>4, <3>1, <4>1
    <3>4. CASE i > lists'[k].len
      <4>1. lists'[k].array = lists[k].array /\ ArrayOf(k)'[i] = ArrayOf(k)[i]
        BY <1>5, <2>4, <3>4
      <4>2. i \in 1 .. Len(ArrayOf(k))
        BY <1>4, <4>1
      <4> QED BY <2>4, <3>1, <4>1, <4>2
    <3> QED BY <1>7, <3>2, <3>3, <3>4
  <2>5. OwnArray(k)'
    <3>1. lists'[k].array \in 1 .. Len(arrays') /\ lists'[k].len <= Len(ArrayOf(k)')
      BY <1>1
    <3> QED BY <2>1, <2>3, <2>4, <3>1 DEF OwnArray
  <2> QED BY <2>2, <2>5
<1>11. /\ arrays' \in Seq(Seq(Element)) /\ lists' \in [Kind -> [array : Nat, len : Nat]]
  BY <1>1
<1>12. Len(arrays') >= 3 /\ Len(arrays') >= Len(arrays)
  BY <1>6
<1> QED BY <1>9, <1>10, <1>11, <1>12 DEF SlicesKept, Slices

\* A removal leaves every list whole, too.
LEMMA DeleteKeepsSlices ==
  ASSUME Slices, NEW k \in Kind, NEW i \in 1 .. lists[k].len, DeleteAt(k, i)
  PROVE  SlicesKept
<1>1. /\ arrays' \in Seq(Seq(Element)) /\ Len(arrays') = Len(arrays)
      /\ lists' \in [Kind -> [array : Nat, len : Nat]]
      /\ lists'[k].len = lists[k].len - 1 /\ lists'[k].array = lists[k].array
      /\ Len(ArrayOf(k)') = Len(ArrayOf(k))
  BY DeleteFacts
<1>2. /\ \A j \in Kind : j # k => lists'[j] = lists[j]
      /\ \A a \in 1 .. Len(arrays) : a # lists[k].array => arrays'[a] = arrays[a]
  BY DeleteFacts
<1>3. \A j \in 1 .. Len(ArrayOf(k)) :
        ArrayOf(k)'[j] = IF j \in i .. lists[k].len - 1 THEN ArrayOf(k)[j + 1]
                         ELSE IF j = lists[k].len /\ k # "arg" THEN Nil
                         ELSE ArrayOf(k)[j]
  BY DeleteFacts
<1>4. /\ Len(arrays) \in Nat /\ Len(arrays) >= 3
      /\ \A j \in Kind : lists[j].array \in 1 .. Len(arrays) /\ lists[j].len \in Nat
      /\ \A j, m \in Kind : lists[j].array = lists[m].array => j = m
  BY SlicesNumbers
<1>5. /\ lists[k].len \in Nat /\ lists[k].len <= Len(ArrayOf(k)) /\ Len(ArrayOf(k)) \in Nat
      /\ lists'[k].len = lists[k].len - 1
  BY <1>1, <1>4, ListNumbers
<1>6. ASSUME NEW j \in Kind, j # k PROVE ArrayOf(j)' = ArrayOf(j) /\ lists'[j] = lists[j]
  <2>1. lists[j].array # lists[k].array /\ lists[j].array \in 1 .. Len(arrays)
    BY <1>4, <1>6
  <2>2. lists'[j] = lists[j]
    BY <1>2, <1>6
  <2> QED BY <1>2, <2>1, <2>2 DEF ArrayOf, Array
<1>7. \A a \in 1 .. Len(arrays) : Len(arrays'[a]) = Len(arrays[a])
  <2>1. Len(arrays'[lists[k].array]) = Len(arrays[lists[k].array])
    BY <1>1 DEF ArrayOf, Array
  <2> QED BY <1>2, <2>1
<1>8. \A j \in Kind : OwnArray(j)'
  <2>1. ASSUME NEW m \in Kind, NEW j \in Kind, lists'[j].array = lists'[m].array PROVE j = m
    <3>1. lists'[j].array = lists[j].array /\ lists'[m].array = lists[m].array
      BY <1>1, <1>2
    <3> QED BY <1>4, <2>1, <3>1
  <2>2. ASSUME NEW j \in Kind, j # k PROVE OwnArray(j)'
    <3>1. OwnArray(j) /\ lists'[j] = lists[j] /\ ArrayOf(j)' = ArrayOf(j)
      BY <1>6, <2>2 DEF Slices
    <3> QED BY <1>1, <2>1, <3>1 DEF OwnArray
  <2>3. ASSUME NEW j \in 1 .. lists'[k].len PROVE ArrayOf(k)'[j] # Nil
    <3>1. /\ j \in 1 .. Len(ArrayOf(k)) /\ j \in 1 .. lists[k].len /\ j + 1 \in 1 .. lists[k].len
          /\ j # lists[k].len
      BY <1>5, <2>3
    <3>2. \A n \in 1 .. lists[k].len : ArrayOf(k)[n] # Nil
      BY DEF Slices, OwnArray
    <3> QED BY <1>3, <3>1, <3>2
  <2>4. ASSUME NEW j \in 1 .. Len(ArrayOf(k)'), ArrayOf(k)'[j] # Nil
        PROVE  KindOf(ArrayOf(k)'[j]) = k
    <3>1. \A n \in 1 .. Len(ArrayOf(k)) : ArrayOf(k)[n] # Nil => KindOf(ArrayOf(k)[n]) = k
      BY DEF Slices, OwnArray
    <3>2. j \in 1 .. Len(ArrayOf(k))
      BY <1>1
    <3>3. j \in i .. lists[k].len - 1 => j + 1 \in 1 .. Len(ArrayOf(k))
      BY <1>5
    <3> QED BY <1>3, <2>4, <3>1, <3>2, <3>3
  <2>5. lists'[k].array \in 1 .. Len(arrays') /\ lists'[k].len <= Len(ArrayOf(k)')
    BY <1>1, <1>4, <1>5
  <2>6. OwnArray(k)'
    BY <2>1, <2>3, <2>4, <2>5 DEF OwnArray
  <2> QED BY <2>2, <2>6
<1> QED BY <1>1, <1>4, <1>7, <1>8 DEF SlicesKept, Slices

-----------------------------------------------------------------------------
(* The types *)

\* A command begins with slices which are full.
LEMMA TypesInit == Init => Types
<1> SUFFICES ASSUME Init PROVE Types
  OBVIOUS
<1> DEFINE own(n, k) == [i \in 1 .. n[k] |-> <<k, i>>]
<1>1. PICK n \in Initial :
        /\ arrays = <<own(n, "flag"), own(n, "arg"), own(n, "command")>>
        /\ lists = [flag |-> [array |-> 1, len |-> n["flag"]],
                    arg |-> [array |-> 2, len |-> n["arg"]],
                    command |-> [array |-> 3, len |-> n["command"]]]
        /\ start = [k \in Kind |-> 0] /\ more = [k \in Kind |-> TRUE]
        /\ batch = NoBatch
        /\ child = Nobody /\ rerun = FALSE /\ phase = "uses"
        /\ shared \subseteq {own(n, "flag")[i] : i \in 1 .. n["flag"]}
                             \cup {own(n, "arg")[i] : i \in 1 .. n["arg"]}
        /\ created = n /\ changes = 0 /\ log = <<>> /\ cut = {} /\ late = {}
  BY DEF Init
<1>2. /\ \A k \in Kind : n[k] \in 0 .. 3 /\ n[k] \in Nat
      /\ n \in [Kind -> Nat] /\ MaxChanges \in Nat
  BY InitialAssumption, BoundAssumption DEF Kind
<1>3. \A k \in Kind : /\ own(n, k) \in Seq(Element) /\ Len(own(n, k)) = n[k]
                      /\ \A i \in 1 .. n[k] : own(n, k)[i] \in Target /\ KindOf(own(n, k)[i]) = k
  <2> TAKE k \in Kind
  <2>1. \A i \in 1 .. n[k] : <<k, i>> \in Target /\ KindOf(<<k, i>>) = k
    BY <1>2 DEF Target, KindOf
  <2>2. own(n, k) \in Seq(Element)
    BY <1>2, <2>1, IsASeq DEF Element
  <2> QED BY <1>2, <2>1, <2>2
<1> HIDE DEF own
<1>4. /\ arrays \in Seq(Seq(Element)) /\ Len(arrays) = 3
      /\ arrays[1] = own(n, "flag") /\ arrays[2] = own(n, "arg") /\ arrays[3] = own(n, "command")
  BY <1>1, <1>3 DEF Kind
<1>5. /\ \A k \in Kind : ArrayOf(k) = own(n, k) /\ lists[k].len = n[k] /\ lists[k].array \in 1 .. 3
      /\ \A j, k \in Kind : lists[j].array = lists[k].array => j = k
      /\ lists \in [Kind -> [array : Nat, len : Nat]]
  <2>1. /\ lists["flag"] = [array |-> 1, len |-> n["flag"]]
        /\ lists["arg"] = [array |-> 2, len |-> n["arg"]]
        /\ lists["command"] = [array |-> 3, len |-> n["command"]]
    BY <1>1
  <2>2. \A k \in Kind : ArrayOf(k) = own(n, k) /\ lists[k].len = n[k] /\ lists[k].array \in 1 .. 3
    BY <1>4, <2>1 DEF Kind, ArrayOf, Array
  <2>3. \A j, k \in Kind : lists[j].array = lists[k].array => j = k
    BY <2>1 DEF Kind
  <2>4. lists \in [Kind -> [array : Nat, len : Nat]]
    <3>1. lists = [k \in Kind |-> lists[k]]
      BY <1>1 DEF Kind
    <3>2. \A k \in Kind : lists[k] \in [array : Nat, len : Nat]
      BY <1>2, <2>1 DEF Kind
    <3> QED BY <3>1, <3>2
  <2> QED BY <2>2, <2>3, <2>4
<1>6. Slices
  <2>1. \A k \in Kind : OwnArray(k)
    <3> TAKE k \in Kind
    <3>1. /\ ArrayOf(k) = own(n, k) /\ lists[k].len = n[k] /\ Len(own(n, k)) = n[k]
          /\ lists[k].array \in 1 .. Len(arrays) /\ n[k] \in Nat
      BY <1>2, <1>3, <1>4, <1>5
    <3>2. \A i \in 1 .. n[k] : own(n, k)[i] # Nil /\ KindOf(own(n, k)[i]) = k
      BY <1>3, NilAssumption
    <3> QED BY <1>5, <3>1, <3>2 DEF OwnArray
  <2> QED BY <1>4, <1>5, <2>1 DEF Slices
<1>7. Round
  <2>1. Len(arrays[1]) \in Nat
    BY <1>3, <1>4 DEF Kind
  <2>2. /\ batch \in [kind : Kind \cup {"none"}, array : Nat, from : Nat, to : Nat]
        /\ batch.array = 1 /\ batch.from = 1 /\ batch.to = 0
    BY <1>1 DEF NoBatch
  <2>3. start \in [Kind -> Nat] /\ more \in [Kind -> BOOLEAN] /\ rerun \in BOOLEAN
    BY <1>1
  <2> QED BY <1>1, <1>4, <2>1, <2>2, <2>3 DEF Round
<1>8. Others
  <2>1. shared \subseteq Target
    BY <1>1, <1>3 DEF Kind
  <2>2. /\ created = n /\ changes = 0 /\ log = <<>> /\ cut = {} /\ late = {} /\ phase = "uses"
    BY <1>1
  <2>3. created \in [Kind -> Nat] /\ \A k \in Kind : created[k] <= 3 + changes
    BY <1>2, <2>2
  <2>4. changes \in 0 .. MaxChanges /\ log \in Seq(Target)
    BY <1>2, <2>2
  <2> QED BY <2>1, <2>2, <2>3, <2>4 DEF Others
<1> QED BY <1>6, <1>7, <1>8 DEF Types

\* What happens to the slices leaves the array of the round as long as it was.
LEMMA PlaceKept ==
  ASSUME Round, Slices, SlicesKept
  PROVE  /\ batch.array \in 1 .. Len(arrays')
         /\ Len(arrays'[batch.array]) = Len(arrays[batch.array])
<1>1. batch.array \in 1 .. Len(arrays)
  BY DEF Round
<1>2. Len(arrays) \in Nat /\ Len(arrays') \in Nat /\ Len(arrays') >= Len(arrays)
  BY DEF Slices, SlicesKept
<1>3. Len(arrays'[batch.array]) = Len(arrays[batch.array])
  BY <1>1 DEF SlicesKept
<1> QED BY <1>1, <1>2, <1>3

\* User code leaves the round where it is.
LEMMA RoundKept ==
  ASSUME Round, Slices, SlicesKept, UNCHANGED <<round, child, rerun, phase>>
  PROVE  Round'
BY PlaceKept DEF Round, InRounds, round

\* AddFlag, AddArg and AddCommand keep the types,
LEMMA AddKeepsTypes ==
  ASSUME Types, NEW k \in Kind, AddTo(k)
  PROVE  Types'
<1>1. PICK t : t = <<k, created[k] + 1>>
  OBVIOUS
<1>2. changes < MaxChanges /\ AppendTo(k, t) /\ t \in Target /\ KindOf(t) = k
  BY <1>1, NewTarget DEF AddTo, UserCode
<1>3. SlicesKept
  BY <1>2, AppendKeepsSlices DEF Types
<1>4. Round'
  BY <1>3, RoundKept DEF Types, AddTo
<1>5. Others'
  <2>1. /\ created' = [created EXCEPT ![k] = @ + 1] /\ changes' = changes + 1
        /\ late' \subseteq late \cup {t}
        /\ UNCHANGED <<phase, shared, log, cut>>
    BY <1>1 DEF AddTo
  <2>2. created' \in [Kind -> Nat] /\ \A j \in Kind : created'[j] <= 3 + changes'
    BY <2>1 DEF Types, Others
  <2> QED BY <1>2, <2>1, <2>2, BoundAssumption DEF Types, Others
<1> QED BY <1>3, <1>4, <1>5 DEF Types, SlicesKept

\* so do RemoveFlag, RemoveArg and RemoveCommand,
LEMMA RemoveKeepsTypes ==
  ASSUME Types, NEW k \in Kind, RemoveFrom(k)
  PROVE  Types'
<1>1. PICK i \in 1 .. lists[k].len : DeleteAt(k, i)
  BY DEF RemoveFrom
<1>2. SlicesKept
  BY <1>1, DeleteKeepsSlices DEF Types
<1>3. Round'
  BY <1>2, RoundKept DEF Types, RemoveFrom
<1>4. Others'
  <2>1. /\ changes' = changes + 1 /\ changes < MaxChanges /\ cut' \subseteq cut \cup {k}
        /\ UNCHANGED <<phase, shared, created, log, late>>
    BY DEF RemoveFrom, UserCode
  <2> QED BY <2>1, BoundAssumption DEF Types, Others
<1> QED BY <1>2, <1>3, <1>4 DEF Types, SlicesKept

\* and the arg for sub-commands.
LEMMA EnsureKeepsTypes ==
  ASSUME Types, EnsureSubcommands
  PROVE  Types'
<1>1. /\ phase = "uses" /\ phase' = "flag"
      /\ UNCHANGED <<round, child, rerun, shared, created, changes, history>>
  BY DEF EnsureSubcommands
<1>2. SlicesKept
  <2>1. CASE lists["command"].len > 0
    <3>1. CommandArg \in Target /\ KindOf(CommandArg) = "arg" /\ "arg" \in Kind
      BY BoundAssumption DEF CommandArg, Target, KindOf, Kind
    <3> QED BY <2>1, <3>1, AppendKeepsSlices DEF EnsureSubcommands, Types
  <2>2. CASE ~(lists["command"].len > 0)
    <3>1. UNCHANGED slices
      BY <2>2 DEF EnsureSubcommands
    <3>2. Slices' /\ arrays' = arrays
      BY <3>1 DEF Types, Slices, OwnArray, ArrayOf, Array, slices
    <3> QED BY <3>2 DEF SlicesKept, Types, Slices
  <2> QED BY <2>1, <2>2
<1>3. Round'
  <2>1. /\ batch.array \in 1 .. Len(arrays')
        /\ Len(arrays'[batch.array]) = Len(arrays[batch.array])
    BY <1>2, PlaceKept DEF Types
  <2> QED BY <1>1, <2>1 DEF Types, Round, InRounds, round, Kind
<1>4. Others'
  BY <1>1 DEF Types, Others, Kind, history
<1> QED BY <1>2, <1>3, <1>4 DEF Types, SlicesKept

\* A round goes on to the next of its array.
LEMMA RoundGoesOn ==
  ASSUME Round, Slices, arrays' = arrays, batch.from <= batch.to,
         batch' = [batch EXCEPT !.from = @ + 1]
  PROVE  /\ batch' \in [kind : Kind \cup {"none"}, array : Nat, from : Nat, to : Nat]
         /\ batch'.kind = batch.kind /\ batch'.array = batch.array
         /\ batch'.to = batch.to /\ batch'.from = batch.from + 1
         /\ batch'.from \in 1 .. batch'.to + 1
         /\ batch'.array \in 1 .. Len(arrays')
         /\ batch'.to <= Len(arrays'[batch'.array])
<1>1. /\ batch \in [kind : Kind \cup {"none"}, array : Nat, from : Nat, to : Nat]
      /\ batch.from \in 1 .. batch.to + 1 /\ batch.to \in Nat
      /\ batch.array \in 1 .. Len(arrays) /\ batch.to <= Len(arrays[batch.array])
  BY DEF Round
<1>2. /\ batch'.kind = batch.kind /\ batch'.array = batch.array
      /\ batch'.to = batch.to /\ batch'.from = batch.from + 1
      /\ batch' \in [kind : Kind \cup {"none"}, array : Nat, from : Nat, to : Nat]
  BY <1>1
<1> QED BY <1>1, <1>2

\* The other steps leave the slices alone.
LEMMA LoopsKeepTypes ==
  ASSUME Types, \/ UsesFail \/ BeginRound \/ NextChild \/ EndRound
                \/ ChildDone \/ ChildRenamed \/ HooksReturn \/ ChildFails \/ UNCHANGED vars
  PROVE  Types'
<1>1. UNCHANGED slices
  BY DEF UsesFail, BeginRound, NextChild, EndRound, ChildDone, ChildRenamed, HooksReturn,
         ChildFails, vars
<1>2. Slices' /\ arrays' = arrays /\ lists' = lists
  BY <1>1 DEF Types, Slices, OwnArray, ArrayOf, Array, slices
<1>3. /\ Len(arrays) \in Nat /\ Len(arrays) >= 3
      /\ \A a \in 1 .. Len(arrays) : arrays[a] \in Seq(Element) /\ Len(arrays[a]) \in Nat
  BY DEF Types, Slices
<1>4. CASE UsesFail
  BY <1>2, <1>4 DEF Types, UsesFail, Round, Others, round, history, InRounds, Kind
<1>5. CASE BeginRound
  <2>1. CASE start[phase] > lists[phase].len
    BY <1>2, <1>5, <2>1 DEF Types, BeginRound, Round, Others, round, history, InRounds, Kind
  <2>2. CASE ~(start[phase] > lists[phase].len)
    <3>1. /\ phase \in Kind /\ child = Nobody /\ UNCHANGED <<child, rerun, phase>>
          /\ batch' = [kind |-> phase, array |-> lists[phase].array,
                       from |-> start[phase] + 1, to |-> lists[phase].len]
          /\ start' = [start EXCEPT ![phase] = lists[phase].len]
          /\ more' = [more EXCEPT ![phase] = lists[phase].len > start[phase]]
          /\ UNCHANGED <<shared, created, changes, history>>
      BY <1>5, <2>2 DEF BeginRound, InRounds, NextStart, MoreInRound
    <3>2. /\ lists[phase].array \in 1 .. Len(arrays) /\ lists[phase].array \in Nat
          /\ lists[phase].len \in Nat
          /\ lists[phase].len <= Len(arrays[lists[phase].array])
          /\ start[phase] \in Nat /\ start[phase] <= lists[phase].len
      <4>1. /\ lists[phase].array \in 1 .. Len(arrays) /\ lists[phase].len \in Nat
            /\ Len(arrays) \in Nat
        BY <3>1, SlicesNumbers DEF Types
      <4>2. lists[phase].len <= Len(arrays[lists[phase].array])
        BY <3>1, ListNumbers DEF Types, ArrayOf, Array
      <4>3. start[phase] \in Nat
        BY <3>1 DEF Types, Round
      <4>4. start[phase] <= lists[phase].len
        BY <2>2, <4>1, <4>3
      <4>5. lists[phase].array \in Nat
        BY <4>1
      <4> QED BY <4>1, <4>2, <4>3, <4>4, <4>5
    <3>3. Round'
      BY <1>2, <3>1, <3>2 DEF Types, Round
    <3>4. Others'
      BY <3>1 DEF Types, Others, history
    <3> QED BY <1>2, <3>3, <3>4 DEF Types
  <2> QED BY <2>1, <2>2
<1>6. CASE NextChild
  <2>1. /\ phase \in Kind /\ child = Nobody /\ batch.from <= batch.to
        /\ UNCHANGED <<start, more, rerun, shared, created, changes, history>>
    BY <1>6 DEF NextChild, InRounds
  <2>2. PICK t : t = arrays[batch.array][batch.from]
    OBVIOUS
  <2>3. t \in Element
    BY <1>3, <2>1, <2>2 DEF Types, Round
  <2>4. CASE phase' = "panicked" /\ UNCHANGED <<batch, child>>
    BY <1>2, <2>1, <2>4 DEF Types, Round, Others, history, InRounds
  <2>5. CASE batch' = [batch EXCEPT !.from = @ + 1] /\ UNCHANGED <<phase, child>>
    BY <1>2, <2>1, <2>5, RoundGoesOn DEF Types, Round, Others, history
  <2>6. CASE t # Nil /\ child' = t /\ UNCHANGED <<phase, batch>>
    BY <1>2, <2>1, <2>3, <2>6 DEF Types, Round, Others, history, InRounds, Element
  <2> QED BY <1>6, <2>2, <2>4, <2>5, <2>6 DEF NextChild
<1>7. CASE EndRound
  <2>1. /\ phase \in Kind /\ child = Nobody /\ batch' = NoBatch
        /\ UNCHANGED <<start, more, child, rerun, shared, created, changes, history>>
    BY <1>7 DEF EndRound, InRounds
  <2>2. phase' \in Kind \cup {"done"}
    BY <1>7, <2>1 DEF EndRound, NextPhase, Kind
  <2>3. Round'
    BY <1>2, <1>3, <2>1 DEF Types, Round, NoBatch
  <2>4. Others'
    BY <2>1, <2>2 DEF Types, Others, history
  <2> QED BY <1>2, <2>3, <2>4 DEF Types
<1>8. CASE ChildDone
  <2>1. /\ child \in Target /\ log' = Append(log, child) /\ child' = Nobody /\ rerun' = FALSE
        /\ batch' = [batch EXCEPT !.from = @ + 1] /\ batch.from <= batch.to
        /\ UNCHANGED <<start, more, phase, shared, created, changes, cut, late>>
    BY <1>8 DEF ChildDone, LeaveChild, Types, Round
  <2>2. Round'
    BY <1>2, <2>1, RoundGoesOn DEF Types, Round
  <2>3. Others'
    BY <2>1 DEF Types, Others
  <2> QED BY <1>2, <2>2, <2>3 DEF Types
<1>9. CASE ChildRenamed
  <2>1. /\ child \in Target /\ log' = Append(log, child) /\ rerun' = TRUE
        /\ UNCHANGED <<round, child, phase, shared, created, changes, cut, late>>
    BY <1>9 DEF ChildRenamed, Types, Round
  <2>2. Round'
    BY <1>2, <2>1 DEF Types, Round, round, InRounds
  <2>3. Others'
    BY <2>1 DEF Types, Others
  <2> QED BY <1>2, <2>2, <2>3 DEF Types
<1>10. CASE HooksReturn
  <2>1. /\ child' = Nobody /\ rerun' = FALSE
        /\ batch' = [batch EXCEPT !.from = @ + 1] /\ batch.from <= batch.to
        /\ UNCHANGED <<start, more, phase, shared, created, changes, history>>
    BY <1>10 DEF HooksReturn, LeaveChild, Types, Round
  <2>2. Round'
    BY <1>2, <2>1, RoundGoesOn DEF Types, Round
  <2>3. Others'
    BY <2>1 DEF Types, Others, history
  <2> QED BY <1>2, <2>2, <2>3 DEF Types
<1>11. CASE ChildFails
  BY <1>2, <1>11 DEF ChildFails, Types, Round, Others, round, history
<1>12. CASE UNCHANGED vars
  BY <1>2, <1>12 DEF vars, Types, Round, Others, round, history, InRounds
<1> QED BY <1>4, <1>5, <1>6, <1>7, <1>8, <1>9, <1>10, <1>11, <1>12

\* The types are inductive.
LEMMA TypesStep == Types /\ [Next]_vars => Types'
<1> SUFFICES ASSUME Types, [Next]_vars PROVE Types'
  OBVIOUS
<1>1. CASE \E k \in Kind : AddTo(k)
  BY <1>1, AddKeepsTypes
<1>2. CASE \E k \in Kind : RemoveFrom(k)
  BY <1>2, RemoveKeepsTypes
<1>3. CASE EnsureSubcommands
  BY <1>3, EnsureKeepsTypes
<1> QED BY <1>1, <1>2, <1>3, LoopsKeepTypes DEF Next

\* A list whose elements are of its kind is a sequence over its kind.
LEMMA TypesImplyTypeOK == Types => TypeOK
<1> SUFFICES ASSUME Types PROVE TypeOK
  OBVIOUS
<1>1. ASSUME NEW k \in Kind
      PROVE  /\ lists[k].array \in DOMAIN arrays
             /\ lists[k].len \in 0 .. Len(Array(lists[k]))
             /\ Content(k) \in Seq({t \in Target : KindOf(t) = k})
  <2>1. /\ arrays \in Seq(Seq(Element)) /\ lists[k].array \in 1 .. Len(arrays)
        /\ lists[k].len \in Nat /\ lists[k].len <= Len(ArrayOf(k))
        /\ \A i \in 1 .. Len(ArrayOf(k)) : ArrayOf(k)[i] # Nil => KindOf(ArrayOf(k)[i]) = k
        /\ \A i \in 1 .. lists[k].len : ArrayOf(k)[i] # Nil
    BY DEF Types, Slices, OwnArray
  <2>2. PICK A, n : A = ArrayOf(k) /\ n = lists[k].len
    OBVIOUS
  <2>3. A \in Seq(Element) /\ Len(A) \in Nat
    BY <2>1, <2>2 DEF ArrayOf, Array
  <2>4. PICK c : c = SubSeq(A, 1, n)
    OBVIOUS
  <2>5. /\ c \in Seq(Element) /\ Len(c) = n /\ \A i \in 1 .. n : c[i] = A[i]
    BY <2>1, <2>2, <2>3, <2>4
  <2>6. \A i \in 1 .. n : A[i] \in Target /\ KindOf(A[i]) = k
    BY <2>1, <2>2, <2>3 DEF Element
  <2>7. c = [i \in 1 .. n |-> c[i]] /\ n \in Nat
    BY <2>1, <2>2, <2>5
  <2>8. c \in Seq({t \in Target : KindOf(t) = k})
    BY <2>5, <2>6, <2>7, IsASeq
  <2> QED BY <2>1, <2>2, <2>3, <2>4, <2>8 DEF Content, ArrayOf
<1>2. \A i \in DOMAIN arrays : arrays[i] \in Seq(Target \cup {Nil})
  BY DEF Types, Slices, Element
<1>3. /\ start \in [Kind -> Nat] /\ more \in [Kind -> BOOLEAN]
      /\ batch.to <= Len(Array(batch)) /\ batch.from \in 1 .. batch.to + 1
      /\ child \in Target \cup {Nobody} /\ rerun \in BOOLEAN
  BY DEF Types, Round, Array
<1>4. /\ phase \in Kind \cup {"uses", "done", "failed", "panicked"}
      /\ shared \subseteq Target /\ late \subseteq Target /\ cut \subseteq Kind
      /\ created \in [Kind -> Nat] /\ changes \in 0 .. MaxChanges
      /\ log \in Seq(Target)
  BY DEF Types, Others
<1> QED BY <1>1, <1>2, <1>3, <1>4 DEF TypeOK

\* The slices of a command stay whole whatever is added and removed during
\* its initialization: no list holds a cleared element or one of another
\* kind, and a round never reads past its array (command.go:700-790).
THEOREM TypeCorrect == Spec => []TypeOK
BY TypesInit, TypesStep, TypesImplyTypeOK, PTL DEF Spec

-----------------------------------------------------------------------------
(* Panics come from removals *)

\* The elements of the arrays after an append.
LEMMA AppendElements ==
  ASSUME Slices, NEW k \in Kind, NEW t \in Target, KindOf(t) = k, AppendTo(k, t)
  PROVE  /\ \A a \in 1 .. Len(arrays) : \A i \in 1 .. Len(arrays[a]) :
              \/ arrays'[a][i] = arrays[a][i]
              \/ /\ a = lists[k].array /\ a = lists'[k].array
                 /\ i = lists[k].len + 1 /\ arrays'[a][i] = t
         /\ \A a \in 1 .. Len(arrays') : a > Len(arrays) =>
              \A i \in 1 .. Len(arrays'[a]) :
                \/ arrays'[a][i] \in {t, Nil}
                \/ i \in 1 .. Len(ArrayOf(k)) /\ arrays'[a][i] = ArrayOf(k)[i]
<1>1. /\ Len(arrays') >= Len(arrays)
      /\ lists'[k].len = lists[k].len + 1
      /\ lists'[k].array \in 1 .. Len(arrays')
      /\ lists'[k].len <= Len(ArrayOf(k)')
      /\ lists'[k].array = lists[k].array => Len(ArrayOf(k)') = Len(ArrayOf(k))
  BY AppendFacts
<1>2. \/ lists'[k].array = lists[k].array /\ Len(arrays') = Len(arrays)
      \/ lists'[k].array = Len(arrays) + 1 /\ Len(arrays') = Len(arrays) + 1
  BY AppendFacts
<1>3. \A a \in 1 .. Len(arrays) : a # lists'[k].array => arrays'[a] = arrays[a]
  BY AppendFacts
<1>4. /\ \A i \in 1 .. lists[k].len : ArrayOf(k)'[i] = ArrayOf(k)[i]
      /\ ArrayOf(k)'[lists'[k].len] = t
  BY AppendFacts
<1>5. \A i \in 1 .. Len(ArrayOf(k)') : i > lists'[k].len =>
        \/ lists'[k].array = Len(arrays) + 1 /\ ArrayOf(k)'[i] = Nil
        \/ lists'[k].array = lists[k].array /\ ArrayOf(k)'[i] = ArrayOf(k)[i]
  BY AppendFacts
<1>6. /\ lists[k].len \in Nat /\ Len(arrays) \in Nat
      /\ lists[k].array \in 1 .. Len(arrays)
      /\ lists[k].len <= Len(ArrayOf(k)) /\ Len(ArrayOf(k)) \in Nat
  BY DEF Slices, OwnArray, ArrayOf, Array
<1>7. ArrayOf(k) = arrays[lists[k].array] /\ ArrayOf(k)' = arrays'[lists'[k].array]
  BY DEF ArrayOf, Array
<1>8. ASSUME NEW a \in 1 .. Len(arrays), NEW i \in 1 .. Len(arrays[a]), a = lists'[k].array
      PROVE  \/ arrays'[a][i] = arrays[a][i]
             \/ /\ a = lists[k].array /\ a = lists'[k].array
                /\ i = lists[k].len + 1 /\ arrays'[a][i] = t
  <2>1. a = lists[k].array /\ lists'[k].array = lists[k].array
    BY <1>2, <1>6, <1>8
  <2>2. ArrayOf(k) = arrays[a] /\ ArrayOf(k)' = arrays'[a] /\ Len(ArrayOf(k)') = Len(ArrayOf(k))
    BY <1>1, <1>7, <2>1
  <2>3. CASE i <= lists[k].len
    BY <1>4, <1>6, <2>2, <2>3
  <2>4. CASE i = lists[k].len + 1
    BY <1>1, <1>4, <1>8, <2>1, <2>2, <2>4
  <2>5. CASE i > lists[k].len + 1
    BY <1>1, <1>5, <1>6, <2>1, <2>2, <2>5
  <2> QED BY <1>6, <2>2, <2>3, <2>4, <2>5
<1>9. ASSUME NEW a \in 1 .. Len(arrays'), a > Len(arrays), NEW i \in 1 .. Len(arrays'[a])
      PROVE  \/ arrays'[a][i] \in {t, Nil}
             \/ i \in 1 .. Len(ArrayOf(k)) /\ arrays'[a][i] = ArrayOf(k)[i]
  <2>1. a = lists'[k].array /\ lists'[k].array = Len(arrays) + 1
    BY <1>2, <1>6, <1>9
  <2>2. ArrayOf(k)' = arrays'[a]
    BY <1>7, <2>1
  <2>3. CASE i <= lists[k].len
    BY <1>4, <1>6, <2>2, <2>3
  <2>4. CASE i = lists[k].len + 1
    BY <1>1, <1>4, <2>2, <2>4
  <2>5. CASE i > lists[k].len + 1
    BY <1>1, <1>5, <1>6, <2>1, <2>2, <2>5
  <2> QED BY <1>6, <2>3, <2>4, <2>5
<1> QED BY <1>3, <1>8, <1>9

\* Nothing is being set up during Uses.  As long as nothing was removed during
\* the rounds, none has begun past the end of its list or meets a cleared element.
Orderly ==
  /\ phase = "uses" => batch = NoBatch /\ child = Nobody /\ start = [k \in Kind |-> 0]
  /\ cut = {} =>
       /\ phase # "panicked" /\ \A k \in Kind : start[k] <= lists[k].len
       /\ \A i \in 1 .. batch.to : arrays[batch.array][i] # Nil

\* No round has begun before Uses.
LEMMA OrderlyInit == Init => Orderly
<1> SUFFICES ASSUME Init PROVE Orderly
  OBVIOUS
<1>1. /\ phase = "uses" /\ batch = NoBatch /\ child = Nobody /\ start = [k \in Kind |-> 0]
  BY DEF Init
<1>2. \A k \in Kind : lists[k].len \in Nat
  BY TypesInit DEF Types, Slices
<1> QED BY <1>1, <1>2 DEF Orderly, NoBatch

\* An append does not clear what a round has still to come to.
LEMMA OrderlyAfterAppend ==
  ASSUME Types, Orderly, NEW k \in Kind, NEW t \in Target, KindOf(t) = k, AppendTo(k, t),
         UNCHANGED <<start, batch, cut>>, phase # "panicked" => phase' # "panicked",
         phase' = "uses" => phase = "uses" /\ child' = child
  PROVE  Orderly'
<1>1. /\ \A j \in Kind : lists[j].len \in Nat /\ lists'[j].len >= lists[j].len
      /\ start \in [Kind -> Nat]
  <2>1. /\ lists'[k].len = lists[k].len + 1
        /\ \A j \in Kind : j # k => lists'[j] = lists[j]
    BY AppendFacts DEF Types
  <2>2. \A j \in Kind : lists[j].len \in Nat
    BY DEF Types, Slices
  <2> QED BY <2>1, <2>2 DEF Types, Round
<1>2. ASSUME cut = {}, NEW i \in 1 .. batch.to PROVE arrays'[batch.array][i] # Nil
  <2>1. batch.array \in 1 .. Len(arrays) /\ i \in 1 .. Len(arrays[batch.array])
    <3>1. batch.to \in Nat /\ batch.to <= Len(arrays[batch.array]) /\ batch.array \in 1 .. Len(arrays)
          /\ Len(arrays[batch.array]) \in Nat
      <4>1. batch.to \in Nat /\ batch.to <= Len(arrays[batch.array])
            /\ batch.array \in 1 .. Len(arrays)
        BY DEF Types, Round
      <4>2. arrays[batch.array] \in Seq(Element)
        BY <4>1 DEF Types, Slices
      <4> QED BY <4>1, <4>2, LenInNat
    <3> QED BY <3>1
  <2>2. arrays'[batch.array][i] \in {arrays[batch.array][i], t}
    BY <2>1, AppendElements DEF Types
  <2> QED BY <1>2, <2>2, NilAssumption DEF Orderly
<1>3. ASSUME cut = {}, NEW j \in Kind PROVE start[j] <= lists'[j].len
  <2>1. start[j] <= lists[j].len
    BY <1>3 DEF Orderly
  <2>2. start[j] \in Nat /\ lists[j].len \in Nat /\ lists'[j].len \in Nat
    BY <1>1, AppendFacts DEF Types
  <2> QED BY <1>1, <2>1, <2>2
<1>4. phase' = "uses" => batch' = NoBatch /\ child' = Nobody /\ start' = [j \in Kind |-> 0]
  BY DEF Orderly
<1>5. cut' = {} => phase' # "panicked"
  BY DEF Orderly
<1> QED BY <1>2, <1>3, <1>4, <1>5 DEF Orderly

\* Orderly is inductive; a removal during the rounds is what ends it.
LEMMA OrderlyStep ==
  ASSUME Types, Orderly, [Next]_vars
  PROVE  Orderly'
<1>1. ASSUME NEW k \in Kind, AddTo(k) PROVE Orderly'
  <2>1. PICK t : t = <<k, created[k] + 1>>
    OBVIOUS
  <2>2. AppendTo(k, t) /\ t \in Target /\ KindOf(t) = k
    BY <1>1, <2>1, NewTarget DEF AddTo, UserCode
  <2>3. UNCHANGED <<start, batch, cut, phase, child>>
    BY <1>1 DEF AddTo, round
  <2> QED BY <2>2, <2>3, OrderlyAfterAppend
<1>2. ASSUME NEW k \in Kind, RemoveFrom(k) PROVE Orderly'
  <2>1. UNCHANGED <<start, batch, phase, child>>
    BY <1>2 DEF RemoveFrom, round
  <2>2. CASE phase = "uses"
    <3>1. batch = NoBatch /\ start = [j \in Kind |-> 0]
      BY <2>2 DEF Orderly
    <3>2. \A j \in Kind : lists'[j].len \in Nat
      BY <1>2, RemoveKeepsTypes DEF Types, Slices
    <3> QED BY <2>1, <2>2, <3>1, <3>2 DEF Orderly, NoBatch
  <2>3. CASE phase # "uses"
    BY <1>2, <2>1, <2>3 DEF Orderly, RemoveFrom
  <2> QED BY <2>2, <2>3
<1>3. CASE EnsureSubcommands
  <2>1. phase = "uses" /\ phase' = "flag" /\ UNCHANGED <<start, batch, child, cut>>
    BY <1>3 DEF EnsureSubcommands, round, history
  <2>2. CASE lists["command"].len > 0
    <3>1. CommandArg \in Target /\ KindOf(CommandArg) = "arg" /\ "arg" \in Kind
      BY BoundAssumption DEF CommandArg, Target, KindOf, Kind
    <3> QED BY <1>3, <2>1, <2>2, <3>1, OrderlyAfterAppend DEF EnsureSubcommands
  <2>3. CASE ~(lists["command"].len > 0)
    BY <1>3, <2>1, <2>3 DEF EnsureSubcommands, Orderly, slices
  <2> QED BY <2>2, <2>3
<1>4. CASE BeginRound
  <2>1. /\ phase \in Kind /\ UNCHANGED <<arrays, lists, cut>>
    BY <1>4 DEF BeginRound, InRounds, slices, history
  <2>2. CASE start[phase] > lists[phase].len
    <3>1. cut # {}
      <4>1. start[phase] \in Nat /\ lists[phase].len \in Nat
        BY <2>1 DEF Types, Round, Slices
      <4> QED BY <2>1, <2>2, <4>1 DEF Orderly
    <3> QED BY <1>4, <2>1, <2>2, <3>1 DEF BeginRound, Orderly
  <2>3. CASE ~(start[phase] > lists[phase].len)
    <3>1. /\ phase' = phase
          /\ batch' = [kind |-> phase, array |-> lists[phase].array,
                       from |-> start[phase] + 1, to |-> lists[phase].len]
          /\ start' = [start EXCEPT ![phase] = lists[phase].len]
      BY <1>4, <2>3 DEF BeginRound, NextStart
    <3>2. /\ \A j \in Kind : lists[j].len \in Nat
          /\ start \in [Kind -> Nat] /\ phase # "uses" /\ phase # "panicked"
      BY <2>1 DEF Types, Slices, Round, Kind
    <3>3. \A i \in 1 .. lists[phase].len : arrays[lists[phase].array][i] # Nil
      BY <2>1 DEF Types, Slices, OwnArray, ArrayOf, Array
    <3>4. batch'.to = lists[phase].len /\ batch'.array = lists[phase].array
      BY <3>1
    <3>5. cut = {} => \A j \in Kind : start'[j] <= lists[j].len
      BY <3>1, <3>2 DEF Orderly
    <3> QED BY <2>1, <3>1, <3>2, <3>3, <3>4, <3>5 DEF Orderly
  <2> QED BY <2>2, <2>3
<1>5. CASE NextChild
  <2>1. /\ phase \in Kind /\ batch.from <= batch.to
        /\ UNCHANGED <<arrays, lists, start, cut>>
    BY <1>5 DEF NextChild, InRounds, slices, history
  <2>2. CASE arrays[batch.array][batch.from] = Nil
    <3>1. cut # {}
      <4>1. batch.from \in 1 .. batch.to
        BY <2>1 DEF Types, Round
      <4> QED BY <2>2, <4>1 DEF Orderly
    <3>2. phase' # "uses"
      BY <1>5, <2>1 DEF NextChild, Kind
    <3> QED BY <2>1, <3>1, <3>2 DEF Orderly
  <2>3. CASE arrays[batch.array][batch.from] # Nil
    <3>1. /\ phase' = phase /\ phase # "uses" /\ phase # "panicked"
          /\ batch' \in {batch, [batch EXCEPT !.from = @ + 1]}
      BY <1>5, <2>1, <2>3 DEF NextChild, Kind
    <3>2. batch'.to = batch.to /\ batch'.array = batch.array
      BY <3>1 DEF Types, Round
    <3> QED BY <2>1, <3>1, <3>2 DEF Orderly
  <2> QED BY <2>2, <2>3
<1>6. CASE EndRound
  <2>1. /\ phase \in Kind /\ phase' = NextPhase /\ batch' = NoBatch
        /\ UNCHANGED <<arrays, lists, start, cut>>
    BY <1>6 DEF EndRound, InRounds, slices, history
  <2>2. phase' # "uses" /\ phase' # "panicked"
    BY <2>1 DEF NextPhase, Kind
  <2> QED BY <2>1, <2>2 DEF Orderly, NoBatch
<1>7. CASE ChildDone \/ HooksReturn
  <2>1. /\ phase \in Kind /\ batch' = [batch EXCEPT !.from = @ + 1]
        /\ UNCHANGED <<arrays, lists, start, cut, phase>>
    BY <1>7 DEF ChildDone, HooksReturn, LeaveChild, slices, history, Types, Round, InRounds
  <2>2. batch'.to = batch.to /\ batch'.array = batch.array /\ phase # "uses" /\ phase # "panicked"
    BY <2>1 DEF Types, Round, Kind
  <2> QED BY <2>1, <2>2 DEF Orderly
<1>8. CASE ChildRenamed \/ ChildFails \/ UsesFail
  BY <1>8 DEF ChildRenamed, ChildFails, UsesFail, slices, round, history, Orderly
<1>9. CASE UNCHANGED vars
  BY <1>9 DEF vars, slices, round, history, Orderly
<1> QED BY <1>1, <1>2, <1>3, <1>4, <1>5, <1>6, <1>7, <1>8, <1>9 DEF Next

\* The rounds panic only where something was removed from a list while they
\* ran (slices.Delete under the loops of command.go:726-790).
THEOREM PanicsAfterRemovals == Spec => [](phase = "panicked" => cut # {})
<1>1. Init => Types /\ Orderly
  BY TypesInit, OrderlyInit
<1>2. (Types /\ Orderly) /\ [Next]_vars => (Types /\ Orderly)'
  BY TypesStep, OrderlyStep
<1>3. Orderly => (phase = "panicked" => cut # {})
  BY DEF Orderly
<1> QED BY <1>1, <1>2, <1>3, PTL DEF Spec

-----------------------------------------------------------------------------
(* Nothing is set up twice *)

\* What is in an array, was set up or is being set up has been created.
Known(t, n) == t[2] <= n[t[1]]
Fresh ==
  /\ \A a \in 1 .. Len(arrays) : \A i \in 1 .. Len(arrays[a]) :
       arrays[a][i] # Nil => Known(arrays[a][i], created)
  /\ \A i \in 1 .. Len(log) : Known(log[i], created)
  /\ child # Nobody => Known(child, created)

\* The array of a round holds its kind only, and is no other kind's.
OfKind ==
  /\ batch.kind \in Kind =>
       /\ \A k \in Kind : lists[k].array = batch.array => k = batch.kind
       /\ \A i \in 1 .. Len(arrays[batch.array]) :
            arrays[batch.array][i] # Nil => KindOf(arrays[batch.array][i]) = batch.kind
  /\ batch.kind \notin Kind => batch.to = 0

Cmds == ArrayOf("command")
SetUp == Range(log) \cup {child}

\* The array of the sub-commands has none twice, and is cleared behind them.
Whole ==
  /\ \A i, j \in 1 .. Len(Cmds) : Cmds[i] = Cmds[j] /\ Cmds[i] # Nil => i = j
  /\ \A i \in 1 .. Len(Cmds) : i > lists["command"].len => Cmds[i] = Nil

\* Sub-commands which were set up stand before the next round.
Behind == \A j \in 1 .. Len(Cmds) : Cmds[j] \in SetUp => j <= start["command"]

\* What a round of sub-commands has not come to was not set up, and will
\* stand before the next round.
CommandRound ==
  /\ batch.to = start["command"]
  /\ \A p, q \in 1 .. batch.to :
       arrays[batch.array][p] = arrays[batch.array][q] /\ arrays[batch.array][p] # Nil => p = q
  /\ \A p \in 1 .. batch.to : \A j \in 1 .. Len(Cmds) :
       arrays[batch.array][p] = Cmds[j] /\ Cmds[j] # Nil => j <= start["command"]
  /\ \A p \in batch.from .. batch.to :
       p > batch.from \/ child = Nobody => arrays[batch.array][p] \notin SetUp

Once ==
  /\ IsInjective(log)
  /\ child # Nobody /\ ~rerun => child \notin Range(log)

Commands ==
  /\ Whole /\ Behind /\ Once
  /\ InRounds /\ batch.kind = "command" => CommandRound

\* A new element leaves a sequence without repetitions.
LEMMA AppendStaysInjective ==
  ASSUME NEW S, NEW s \in Seq(S), NEW x \in S, IsInjective(s), x \notin Range(s)
  PROVE  IsInjective(Append(s, x))
<1>1. PICK u : u = Append(s, x)
  OBVIOUS
<1>2. /\ Len(s) \in Nat /\ DOMAIN u = 1 .. Len(s) + 1 /\ DOMAIN s = 1 .. Len(s)
      /\ \A i \in 1 .. Len(s) : u[i] = s[i]
      /\ u[Len(s) + 1] = x
  BY <1>1, AppendProperties
<1>3. \A i \in 1 .. Len(s) : s[i] # x
  BY <1>2 DEF Range
<1>4. ASSUME NEW i \in 1 .. Len(s) + 1, NEW j \in 1 .. Len(s) + 1, u[i] = u[j]
      PROVE  i = j
  <2>1. CASE i \in 1 .. Len(s) /\ j \in 1 .. Len(s)
    BY <1>2, <1>4, <2>1 DEF IsInjective
  <2>2. CASE ~(i \in 1 .. Len(s) /\ j \in 1 .. Len(s))
    BY <1>2, <1>3, <1>4, <2>2
  <2> QED BY <2>1, <2>2
<1>5. IsInjective(u)
  BY <1>2, <1>4 DEF IsInjective
<1> QED BY <1>1, <1>5

\* The elements of a sequence after an append.
LEMMA AppendRange ==
  ASSUME NEW S, NEW s \in Seq(S), NEW x \in S
  PROVE  Range(Append(s, x)) = Range(s) \cup {x}
<1>1. /\ Append(s, x) \in Seq(S) /\ Len(Append(s, x)) = Len(s) + 1 /\ Len(s) \in Nat
      /\ \A i \in 1 .. Len(s) : Append(s, x)[i] = s[i]
      /\ Append(s, x)[Len(s) + 1] = x
      /\ DOMAIN Append(s, x) = 1 .. Len(s) + 1 /\ DOMAIN s = 1 .. Len(s)
  BY AppendProperties
<1>2. ASSUME NEW y \in Range(Append(s, x)) PROVE y \in Range(s) \cup {x}
  <2>1. PICK i \in 1 .. Len(s) + 1 : y = Append(s, x)[i]
    BY <1>1 DEF Range
  <2>2. i \in 1 .. Len(s) \/ i = Len(s) + 1
    BY <1>1
  <2> QED BY <1>1, <2>1, <2>2 DEF Range
<1>3. ASSUME NEW y \in Range(s) \cup {x} PROVE y \in Range(Append(s, x))
  <2>1. CASE y = x
    <3>1. Len(s) + 1 \in 1 .. Len(s) + 1
      BY <1>1
    <3> QED BY <1>1, <2>1, <3>1 DEF Range
  <2>2. CASE y # x
    <3>1. PICK i \in 1 .. Len(s) : y = s[i]
      BY <1>1, <2>2 DEF Range
    <3>2. i \in 1 .. Len(s) + 1 /\ y = Append(s, x)[i]
      BY <1>1, <3>1
    <3> QED BY <1>1, <3>2 DEF Range
  <2> QED BY <2>1, <2>2
<1> QED BY <1>2, <1>3

\* The first of each kind have been created.
LEMMA FreshInit == Init => Fresh
<1> SUFFICES ASSUME Init PROVE Fresh
  OBVIOUS
<1> DEFINE own(n, k) == [i \in 1 .. n[k] |-> <<k, i>>]
<1>1. PICK n \in Initial :
        /\ arrays = <<own(n, "flag"), own(n, "arg"), own(n, "command")>>
        /\ created = n /\ log = <<>> /\ child = Nobody
  BY DEF Init
<1>2. /\ \A k \in Kind : n[k] \in Nat
  BY InitialAssumption DEF Kind
<1>3. ASSUME NEW k \in Kind, NEW i \in 1 .. Len(own(n, k)) PROVE Known(own(n, k)[i], created)
  <2>1. i \in 1 .. n[k] /\ own(n, k)[i] = <<k, i>>
    BY <1>2
  <2> QED BY <1>1, <1>2, <2>1 DEF Known
<1> HIDE DEF own
<1> QED BY <1>1, <1>3 DEF Fresh, Kind

\* What some array holds.
Held(x) ==
  \E b \in 1 .. Len(arrays) : \E j \in 1 .. Len(arrays[b]) : x = arrays[b][j]

\* A step leaves in the arrays what they held and what is created.
ArraysKnown ==
  \A a \in 1 .. Len(arrays') : \A i \in 1 .. Len(arrays'[a]) :
    \/ arrays'[a][i] = Nil
    \/ Known(arrays'[a][i], created')
    \/ Held(arrays'[a][i])
CreatedKept == \A k \in Kind : created'[k] >= created[k]
ChildHeld == child' \in {child, Nobody} \/ (Held(child') /\ child' # Nil)
LogKept == log' = log \/ (log' = Append(log, child) /\ child # Nobody)

\* Such a step keeps Fresh.
LEMMA FreshAfter ==
  ASSUME Types, Types', Fresh,
         ArraysKnown, CreatedKept, ChildHeld, LogKept
  PROVE  Fresh'
<1>1. ASSUME NEW t \in Target, Known(t, created) PROVE Known(t, created')
  <2>1. /\ t[1] \in Kind /\ t[2] \in Nat
        /\ created[t[1]] \in Nat /\ created'[t[1]] \in Nat /\ created'[t[1]] >= created[t[1]]
    BY BoundAssumption DEF Target, Types, Others, CreatedKept
  <2> QED BY <1>1, <2>1 DEF Known
<1>2. ASSUME NEW x, Held(x), x # Nil PROVE Known(x, created')
  <2>1. PICK b \in 1 .. Len(arrays) : \E j \in 1 .. Len(arrays[b]) : x = arrays[b][j]
    BY <1>2 DEF Held
  <2>2. PICK j \in 1 .. Len(arrays[b]) : x = arrays[b][j]
    BY <2>1
  <2>3. arrays[b] \in Seq(Element)
    BY DEF Types, Slices
  <2>4. x \in Target
    BY <1>2, <2>2, <2>3 DEF Element
  <2>5. Known(x, created)
    BY <1>2, <2>2 DEF Fresh
  <2> QED BY <1>1, <2>4, <2>5
<1>3. \A a \in 1 .. Len(arrays') : \A i \in 1 .. Len(arrays'[a]) :
        arrays'[a][i] # Nil => Known(arrays'[a][i], created')
  BY <1>2 DEF ArraysKnown
<1>4. child # Nobody => Known(child, created')
  BY <1>1 DEF Types, Round, Fresh
<1>5. \A i \in 1 .. Len(log) : Known(log[i], created')
  <2> TAKE i \in 1 .. Len(log)
  <2>1. log[i] \in Target
    BY DEF Types, Others
  <2> QED BY <1>1, <2>1 DEF Fresh
<1>6. \A i \in 1 .. Len(log') : Known(log'[i], created')
  <2>1. CASE log' = log
    BY <1>5, <2>1
  <2>2. CASE log' = Append(log, child) /\ child # Nobody
    <3>1. /\ Len(log') = Len(log) + 1 /\ Len(log) \in Nat /\ log'[Len(log) + 1] = child
          /\ \A i \in 1 .. Len(log) : log'[i] = log[i]
      <4>1. child \in Target /\ log \in Seq(Target)
        BY <2>2 DEF Types, Round, Others
      <4> QED BY <2>2, <4>1, AppendProperties
    <3>2. \A i \in 1 .. Len(log') : i \in 1 .. Len(log) \/ i = Len(log) + 1
      BY <3>1
    <3> QED BY <1>4, <1>5, <2>2, <3>1, <3>2
  <2> QED BY <2>1, <2>2 DEF LogKept
<1>7. child' # Nobody => Known(child', created')
  BY <1>2, <1>4 DEF ChildHeld
<1> QED BY <1>3, <1>6, <1>7 DEF Fresh

\* The elements of the arrays after a removal.
LEMMA DeleteElements ==
  ASSUME Slices, NEW k \in Kind, NEW i \in 1 .. lists[k].len, DeleteAt(k, i)
  PROVE  \A a \in 1 .. Len(arrays) : \A j \in 1 .. Len(arrays'[a]) :
           \/ arrays'[a][j] = Nil
           \/ \E m \in 1 .. Len(arrays[a]) : arrays'[a][j] = arrays[a][m]
<1>1. /\ lists'[k].array = lists[k].array /\ Len(ArrayOf(k)') = Len(ArrayOf(k))
      /\ \A a \in 1 .. Len(arrays) : a # lists[k].array => arrays'[a] = arrays[a]
  BY DeleteFacts
<1>2. \A j \in 1 .. Len(ArrayOf(k)) :
        ArrayOf(k)'[j] = IF j \in i .. lists[k].len - 1 THEN ArrayOf(k)[j + 1]
                         ELSE IF j = lists[k].len /\ k # "arg" THEN Nil
                         ELSE ArrayOf(k)[j]
  BY DeleteFacts
<1>3. /\ lists[k].len \in Nat /\ lists[k].len <= Len(ArrayOf(k)) /\ Len(ArrayOf(k)) \in Nat
      /\ ArrayOf(k) = arrays[lists[k].array] /\ ArrayOf(k)' = arrays'[lists[k].array]
  BY <1>1 DEF Slices, OwnArray, ArrayOf, Array
<1>4. ASSUME NEW j \in 1 .. Len(ArrayOf(k))
      PROVE  \/ ArrayOf(k)'[j] = Nil
             \/ \E m \in 1 .. Len(ArrayOf(k)) : ArrayOf(k)'[j] = ArrayOf(k)[m]
  <2>1. CASE j \in i .. lists[k].len - 1
    <3>1. j + 1 \in 1 .. Len(ArrayOf(k)) /\ ArrayOf(k)'[j] = ArrayOf(k)[j + 1]
      BY <1>2, <1>3, <2>1
    <3> QED BY <3>1
  <2>2. CASE j \notin i .. lists[k].len - 1
    BY <1>2, <2>2
  <2> QED BY <2>1, <2>2
<1>5. ASSUME NEW a \in 1 .. Len(arrays), NEW j \in 1 .. Len(arrays'[a])
      PROVE  \/ arrays'[a][j] = Nil
             \/ \E m \in 1 .. Len(arrays[a]) : arrays'[a][j] = arrays[a][m]
  <2>1. CASE a = lists[k].array
    BY <1>1, <1>3, <1>4, <2>1
  <2>2. CASE a # lists[k].array
    <3>1. arrays'[a] = arrays[a]
      BY <1>1, <2>2
    <3> QED BY <3>1
  <2> QED BY <2>1, <2>2
<1> QED BY <1>5

\* Fresh is inductive: new targets have new numbers.
LEMMA FreshStep ==
  ASSUME Types, Fresh, [Next]_vars
  PROVE  Fresh'
<1>1. Types'
  BY TypesStep
<1>2. \A k \in Kind : created[k] \in Nat
  BY DEF Types, Others
<1>3. ASSUME NEW k \in Kind, NEW t \in Target, KindOf(t) = k, AppendTo(k, t),
             Known(t, created'), CreatedKept,
             UNCHANGED <<log, child>>
      PROVE  Fresh'
  <2>1. /\ Len(arrays) \in Nat /\ lists[k].array \in 1 .. Len(arrays)
        /\ \A a \in 1 .. Len(arrays) : Len(arrays'[a]) = Len(arrays[a])
        /\ ArrayOf(k) = arrays[lists[k].array]
    BY <1>3, AppendKeepsSlices, SlicesNumbers DEF Types, SlicesKept, ArrayOf, Array
  <2>2. ASSUME NEW a \in 1 .. Len(arrays'), NEW i \in 1 .. Len(arrays'[a])
        PROVE  arrays'[a][i] \in {Nil, t} \/ Held(arrays'[a][i])
    <3>1. CASE a \in 1 .. Len(arrays)
      <4>1. i \in 1 .. Len(arrays[a])
        BY <2>1, <3>1
      <4>2. arrays'[a][i] = t \/ arrays'[a][i] = arrays[a][i]
        BY <1>3, <3>1, <4>1, AppendElements DEF Types
      <4> QED BY <3>1, <4>1, <4>2 DEF Held
    <3>2. CASE a > Len(arrays)
      <4>1. \/ arrays'[a][i] \in {t, Nil}
            \/ i \in 1 .. Len(ArrayOf(k)) /\ arrays'[a][i] = ArrayOf(k)[i]
        BY <1>3, <3>2, AppendElements DEF Types
      <4> QED BY <2>1, <4>1 DEF Held
    <3> QED BY <2>1, <3>1, <3>2
  <2>3. ArraysKnown
    BY <1>3, <2>2 DEF ArraysKnown
  <2>4. ChildHeld /\ LogKept
    BY <1>3 DEF ChildHeld, LogKept
  <2> QED BY <1>1, <1>3, <2>3, <2>4, FreshAfter
<1>4. ASSUME NEW k \in Kind, AddTo(k) PROVE Fresh'
  <2>1. PICK t : t = <<k, created[k] + 1>>
    OBVIOUS
  <2>2. /\ AppendTo(k, t) /\ t \in Target /\ KindOf(t) = k
        /\ created' = [created EXCEPT ![k] = @ + 1] /\ UNCHANGED <<log, child>>
    BY <1>4, <2>1, NewTarget DEF AddTo, UserCode
  <2>3. Known(t, created') /\ CreatedKept
    BY <1>2, <2>1, <2>2 DEF Known, Types, Others, CreatedKept
  <2> QED BY <1>3, <2>2, <2>3
<1>5. ASSUME NEW k \in Kind, RemoveFrom(k) PROVE Fresh'
  <2>1. PICK i \in 1 .. lists[k].len : DeleteAt(k, i)
    BY <1>5 DEF RemoveFrom
  <2>2. UNCHANGED <<log, child, created>>
    BY <1>5 DEF RemoveFrom
  <2>3. Len(arrays') = Len(arrays)
    BY <2>1, DeleteFacts DEF Types
  <2>4. ArraysKnown
    <3> SUFFICES ASSUME NEW a \in 1 .. Len(arrays), NEW j \in 1 .. Len(arrays'[a])
                 PROVE  arrays'[a][j] = Nil \/ Held(arrays'[a][j])
      BY <2>3 DEF ArraysKnown
    <3>1. \/ arrays'[a][j] = Nil
          \/ \E m \in 1 .. Len(arrays[a]) : arrays'[a][j] = arrays[a][m]
      BY <2>1, DeleteElements DEF Types
    <3> QED BY <3>1 DEF Held
  <2>5. CreatedKept /\ ChildHeld /\ LogKept
    BY <1>2, <2>2 DEF CreatedKept, ChildHeld, LogKept
  <2> QED BY <1>1, <2>4, <2>5, FreshAfter
<1>6. CASE EnsureSubcommands
  <2>1. UNCHANGED <<log, child, created>>
    BY <1>6 DEF EnsureSubcommands, history
  <2>2. CASE lists["command"].len > 0
    <3>1. CommandArg \in Target /\ KindOf(CommandArg) = "arg" /\ "arg" \in Kind
      BY BoundAssumption DEF CommandArg, Target, KindOf, Kind
    <3>2. Known(CommandArg, created') /\ CreatedKept
      BY <1>2, <2>1, <3>1 DEF Known, CommandArg, CreatedKept
    <3> QED BY <1>3, <1>6, <2>1, <2>2, <3>1, <3>2 DEF EnsureSubcommands
  <2>3. CASE ~(lists["command"].len > 0)
    BY <1>6, <2>1, <2>3 DEF EnsureSubcommands, Fresh, slices
  <2> QED BY <2>2, <2>3
<1>7. ASSUME UNCHANGED <<arrays, created>>, LogKept, ChildHeld
      PROVE  Fresh'
  <2>1. ArraysKnown
    BY <1>7 DEF Held, ArraysKnown
  <2>2. CreatedKept
    BY <1>2, <1>7 DEF CreatedKept
  <2> QED BY <1>1, <1>7, <2>1, <2>2, FreshAfter
<1>8. CASE NextChild
  <2>1. UNCHANGED <<arrays, created, log>>
    BY <1>8 DEF NextChild, slices, history
  <2>2. batch.array \in 1 .. Len(arrays) /\ batch.from \in 1 .. Len(arrays[batch.array])
    <3>1. /\ batch.array \in 1 .. Len(arrays) /\ batch.to <= Len(arrays[batch.array])
          /\ batch.from \in 1 .. batch.to + 1 /\ batch.from <= batch.to
          /\ Len(arrays[batch.array]) \in Nat /\ batch.to \in Nat
      BY <1>8 DEF NextChild, Types, Round, Slices
    <3> QED BY <3>1
  <2>3. \/ child' = child
        \/ child' = arrays[batch.array][batch.from] /\ child' # Nil
    BY <1>8 DEF NextChild
  <2>4. ChildHeld /\ LogKept
    BY <2>1, <2>2, <2>3 DEF Held, ChildHeld, LogKept
  <2> QED BY <1>7, <2>1, <2>4
<1>9. CASE UsesFail \/ BeginRound \/ EndRound \/ ChildDone \/ ChildRenamed \/ HooksReturn
           \/ ChildFails \/ UNCHANGED vars
  <2>1. UNCHANGED <<arrays, created>> /\ LogKept
    BY <1>9 DEF UsesFail, BeginRound, EndRound, ChildDone, ChildRenamed, HooksReturn,
                ChildFails, vars, slices, history, LogKept
  <2>2. ChildHeld
    BY <1>9 DEF UsesFail, BeginRound, EndRound, ChildDone, ChildRenamed, HooksReturn,
                ChildFails, LeaveChild, vars, ChildHeld
  <2> QED BY <1>7, <2>1, <2>2
<1> QED BY <1>4, <1>5, <1>6, <1>8, <1>9 DEF Next

\* OfKind is inductive: a list which outgrows its array leaves it to the round.
LEMMA OfKindStep ==
  ASSUME Types, OfKind, [Next]_vars
  PROVE  OfKind'
<1>1. /\ batch.array \in 1 .. Len(arrays) /\ Len(arrays) \in Nat
      /\ batch.kind \in Kind \cup {"none"}
  BY DEF Types, Round, Slices
<1>2. ASSUME NEW k \in Kind, NEW t \in Target, KindOf(t) = k, AppendTo(k, t), batch' = batch
      PROVE  OfKind'
  <2>1. \A a \in 1 .. Len(arrays) : Len(arrays'[a]) = Len(arrays[a])
    BY <1>2, AppendKeepsSlices DEF Types, SlicesKept
  <2>2. ASSUME NEW j \in Kind, batch.kind \in Kind, lists'[j].array = batch.array
        PROVE  j = batch.kind
    <3>1. lists'[j].array = lists[j].array \/ lists'[j].array = Len(arrays) + 1
      BY <1>2, AppendFacts DEF Types
    <3> QED BY <1>1, <2>2, <3>1 DEF OfKind
  <2>3. ASSUME batch.kind \in Kind, NEW i \in 1 .. Len(arrays'[batch.array]),
               arrays'[batch.array][i] # Nil
        PROVE  KindOf(arrays'[batch.array][i]) = batch.kind
    <3>1. i \in 1 .. Len(arrays[batch.array])
      BY <1>1, <2>1
    <3>2. CASE arrays'[batch.array][i] = arrays[batch.array][i]
      BY <2>3, <3>1, <3>2 DEF OfKind
    <3>3. CASE batch.array = lists[k].array /\ arrays'[batch.array][i] = t
      BY <1>2, <2>3, <3>3 DEF OfKind
    <3> QED BY <1>1, <1>2, <3>1, <3>2, <3>3, AppendElements DEF Types
  <2>4. batch.kind \notin Kind => batch.to = 0
    BY DEF OfKind
  <2> QED BY <1>2, <2>2, <2>3, <2>4 DEF OfKind
<1>3. ASSUME NEW k \in Kind, AddTo(k) PROVE OfKind'
  <2>1. PICK t : t = <<k, created[k] + 1>>
    OBVIOUS
  <2>2. AppendTo(k, t) /\ t \in Target /\ KindOf(t) = k /\ batch' = batch
    BY <1>3, <2>1, NewTarget DEF AddTo, UserCode, round
  <2> QED BY <1>2, <2>2
<1>4. ASSUME NEW k \in Kind, RemoveFrom(k) PROVE OfKind'
  <2>1. PICK i \in 1 .. lists[k].len : DeleteAt(k, i)
    BY <1>4 DEF RemoveFrom
  <2>2. batch' = batch
    BY <1>4 DEF RemoveFrom, round
  <2>3. \A j \in Kind : lists'[j].array = lists[j].array
    BY <2>1, DeleteFacts DEF Types
  <2>4. ASSUME NEW j \in 1 .. Len(arrays'[batch.array]), batch.kind \in Kind,
               arrays'[batch.array][j] # Nil
        PROVE  KindOf(arrays'[batch.array][j]) = batch.kind
    <3>1. \E m \in 1 .. Len(arrays[batch.array]) : arrays'[batch.array][j] = arrays[batch.array][m]
      BY <1>1, <2>1, <2>4, DeleteElements DEF Types
    <3> QED BY <2>4, <3>1 DEF OfKind
  <2> QED BY <2>2, <2>3, <2>4 DEF OfKind
<1>5. CASE EnsureSubcommands
  <2>1. batch' = batch
    BY <1>5 DEF EnsureSubcommands, round
  <2>2. CASE lists["command"].len > 0
    <3>1. CommandArg \in Target /\ KindOf(CommandArg) = "arg" /\ "arg" \in Kind
      BY BoundAssumption DEF CommandArg, Target, KindOf, Kind
    <3> QED BY <1>2, <1>5, <2>1, <2>2, <3>1 DEF EnsureSubcommands
  <2>3. CASE ~(lists["command"].len > 0)
    BY <1>5, <2>1, <2>3 DEF EnsureSubcommands, OfKind, slices
  <2> QED BY <2>2, <2>3
<1>6. CASE BeginRound
  <2>1. phase \in Kind /\ UNCHANGED <<arrays, lists>>
    BY <1>6 DEF BeginRound, InRounds, slices
  <2>2. CASE start[phase] > lists[phase].len
    BY <1>6, <2>1, <2>2 DEF BeginRound, round, OfKind
  <2>3. CASE ~(start[phase] > lists[phase].len)
    <3>1. batch'.kind = phase /\ batch'.array = lists[phase].array
      BY <1>6, <2>3 DEF BeginRound
    <3>2. /\ \A k \in Kind : lists[k].array = lists[phase].array => k = phase
          /\ \A i \in 1 .. Len(arrays[lists[phase].array]) :
               arrays[lists[phase].array][i] # Nil => KindOf(arrays[lists[phase].array][i]) = phase
      BY <2>1 DEF Types, Slices, OwnArray, ArrayOf, Array
    <3> QED BY <2>1, <3>1, <3>2 DEF OfKind
  <2> QED BY <2>2, <2>3
<1>7. CASE EndRound
  <2>1. batch'.kind = "none" /\ batch'.to = 0
    BY <1>7 DEF EndRound, NoBatch
  <2> QED BY <2>1 DEF OfKind, Kind
<1>8. ASSUME UNCHANGED <<arrays, lists>>, batch' \in {batch, [batch EXCEPT !.from = @ + 1]}
      PROVE  OfKind'
  <2>1. batch'.kind = batch.kind /\ batch'.array = batch.array /\ batch'.to = batch.to
    BY <1>8 DEF Types, Round
  <2> QED BY <1>8, <2>1 DEF OfKind
<1>9. CASE NextChild \/ ChildDone \/ HooksReturn \/ ChildRenamed \/ ChildFails \/ UsesFail
           \/ UNCHANGED vars
  BY <1>8, <1>9 DEF NextChild, ChildDone, HooksReturn, ChildRenamed, ChildFails, UsesFail,
                    LeaveChild, vars, slices, round
<1> QED BY <1>3, <1>4, <1>5, <1>6, <1>7, <1>9 DEF Next

\* What an array holds is not the mark of no child.
LEMMA HeldIsElement ==
  ASSUME Types
  PROVE  /\ \A a \in 1 .. Len(arrays) : \A i \in 1 .. Len(arrays[a]) :
              arrays[a][i] \in Element /\ arrays[a][i] # Nobody
         /\ Len(arrays) \in Nat /\ \A a \in 1 .. Len(arrays) : Len(arrays[a]) \in Nat
<1>1. \A a \in 1 .. Len(arrays) : arrays[a] \in Seq(Element)
  BY DEF Types, Slices
<1> QED BY <1>1, NilAssumption DEF Types, Slices, Element

\* The types, as far as they are about the array of the sub-commands.
LEMMA CmdsFacts ==
  ASSUME Types
  PROVE  /\ lists["command"].array \in 1 .. Len(arrays) /\ Cmds = arrays[lists["command"].array]
         /\ Len(Cmds) \in Nat /\ lists["command"].len \in Nat
         /\ lists["command"].len <= Len(Cmds) /\ start["command"] \in Nat
         /\ "command" \in Kind
         /\ \A j \in 1 .. Len(Cmds) : Cmds[j] # Nobody /\ Cmds[j] \in Element
         /\ \A j \in 1 .. Len(Cmds) : Cmds[j] # Nil => KindOf(Cmds[j]) = "command"
<1>1. "command" \in Kind
  BY DEF Kind
<1>2. OwnArray("command") /\ lists \in [Kind -> [array : Nat, len : Nat]]
      /\ start \in [Kind -> Nat]
  BY <1>1 DEF Types, Slices, Round
<1>3. lists["command"].array \in 1 .. Len(arrays) /\ Cmds = arrays[lists["command"].array]
  BY <1>2 DEF OwnArray, Cmds, ArrayOf, Array
<1>4. /\ Len(Cmds) \in Nat
      /\ \A j \in 1 .. Len(Cmds) : Cmds[j] # Nobody /\ Cmds[j] \in Element
  BY <1>3, HeldIsElement
<1> QED BY <1>1, <1>2, <1>3, <1>4 DEF OwnArray, Cmds

\* The types, as far as they are about the array of the round.
LEMMA BatchFacts ==
  ASSUME Types
  PROVE  /\ batch.array \in 1 .. Len(arrays) /\ batch.to \in Nat /\ batch.from \in Nat \ {0}
         /\ batch.from <= batch.to + 1
         /\ \A p \in 1 .. batch.to : /\ p \in 1 .. Len(arrays[batch.array])
                                     /\ arrays[batch.array][p] # Nobody
         /\ \A p \in batch.from .. batch.to : p \in 1 .. batch.to
<1>1. /\ batch.array \in 1 .. Len(arrays) /\ batch.to \in Nat /\ batch.from \in 1 .. batch.to + 1
      /\ batch.to <= Len(arrays[batch.array]) /\ Len(arrays[batch.array]) \in Nat
  BY HeldIsElement DEF Types, Round
<1>2. \A p \in 1 .. batch.to : p \in 1 .. Len(arrays[batch.array])
  BY <1>1
<1> QED BY <1>1, <1>2, HeldIsElement

\* Nothing is set up before Uses.
LEMMA CommandsInit == Init => Fresh /\ OfKind /\ Commands
<1> SUFFICES ASSUME Init PROVE Fresh /\ OfKind /\ Commands
  OBVIOUS
<1>1. Types /\ Fresh
  BY TypesInit, FreshInit
<1>2. batch = NoBatch /\ child = Nobody /\ log = <<>> /\ phase = "uses"
  BY DEF Init
<1>3. batch.kind = "none" /\ batch.to = 0
  BY <1>2 DEF NoBatch
<1>4. PICK n \in Initial : arrays[3] = [i \in 1 .. n["command"] |-> <<"command", i>>]
                           /\ lists["command"].array = 3 /\ lists["command"].len = n["command"]
  BY DEF Init
<1>5. n["command"] \in Nat
  BY InitialAssumption DEF Kind
<1>6. Len(Cmds) = n["command"] /\ \A i \in 1 .. n["command"] : Cmds[i] = <<"command", i>>
  BY <1>1, <1>4, <1>5, CmdsFacts
<1>7. Whole
  BY <1>4, <1>5, <1>6 DEF Whole
<1>8. SetUp = {Nobody}
  BY <1>2 DEF SetUp, Range
<1>9. Behind
  BY <1>1, <1>8, CmdsFacts DEF Behind
<1>10. Once
  BY <1>2 DEF Once, IsInjective
<1> QED BY <1>1, <1>3, <1>7, <1>9, <1>10, <1>2 DEF OfKind, Commands, Kind, InRounds

\* Steps on other lists leave the sub-commands alone.
LEMMA CommandsFrame ==
  ASSUME Types, Commands, UNCHANGED <<start, batch, child, rerun, log>>,
         Cmds' = Cmds, lists'["command"] = lists["command"],
         batch.kind = "command" => phase' = phase /\ arrays'[batch.array] = arrays[batch.array]
  PROVE  Commands'
<1>1. SetUp' = SetUp
  BY DEF SetUp
<1>2. Whole' /\ Behind' /\ Once'
  BY <1>1 DEF Commands, Whole, Behind, Once
<1>3. ASSUME InRounds', batch.kind = "command" PROVE CommandRound'
  <2>1. CommandRound
    BY <1>3 DEF Commands, InRounds
  <2> QED BY <1>1, <1>3, <2>1 DEF CommandRound
<1> QED BY <1>2, <1>3 DEF Commands

\* AddCommand: the new one is behind all others, in the array or in its copy.
LEMMA AppendCommand ==
  ASSUME Types, Commands, NEW t \in Target, KindOf(t) = "command", ~Held(t), t \notin SetUp,
         AppendTo("command", t), UNCHANGED <<start, batch, child, rerun, log, phase>>
  PROVE  Commands'
<1>1. PICK C, D, N, st : C = Cmds /\ D = Cmds' /\ N = lists["command"].len /\ st = start["command"]
  OBVIOUS
<1>2. /\ N \in Nat /\ Len(C) \in Nat /\ N <= Len(C) /\ st \in Nat /\ "command" \in Kind
      /\ \A j \in 1 .. Len(C) : C[j] # t
  <2>1. \A j \in 1 .. Len(Cmds) : Cmds[j] # t
    BY CmdsFacts DEF Held
  <2> QED BY <1>1, <2>1, CmdsFacts
<1>3. SetUp' = SetUp /\ t # Nil
  BY NilAssumption DEF SetUp
<1>4. /\ lists'["command"].len = N + 1 /\ N + 1 <= Len(D) /\ Len(D) \in Nat
      /\ \A j \in 1 .. N : D[j] = C[j]
      /\ D[N + 1] = t
      /\ \A j \in 1 .. Len(D) : j > N + 1 => D[j] = Nil
  <2>1. C = ArrayOf("command") /\ D = ArrayOf("command")'
    BY <1>1 DEF Cmds
  <2>2. /\ lists'["command"].len = N + 1 /\ N + 1 <= Len(D)
        /\ \A j \in 1 .. N : D[j] = C[j]
        /\ D[N + 1] = t
    <3>1. /\ lists'["command"].len = lists["command"].len + 1
          /\ lists'["command"].len <= Len(ArrayOf("command")')
      BY <1>2, AppendFacts DEF Types
    <3>2. \A j \in 1 .. lists["command"].len : ArrayOf("command")'[j] = ArrayOf("command")[j]
      BY <1>2, AppendFacts DEF Types
    <3>3. ArrayOf("command")'[lists'["command"].len] = t
      BY <1>2, AppendFacts DEF Types
    <3> QED BY <1>1, <2>1, <3>1, <3>2, <3>3
  <2>3. /\ \A j \in 1 .. Len(D) : j > N + 1 =>
             D[j] = Nil \/ (lists'["command"].array = lists["command"].array /\ D[j] = C[j])
        /\ lists'["command"].array = lists["command"].array => Len(D) = Len(C)
    BY <1>1, <1>2, AppendFacts DEF Types, Cmds
  <2>4. \A j \in 1 .. Len(C) : j > N => C[j] = Nil
    BY <1>1 DEF Commands, Whole
  <2>5. Len(D) \in Nat
    <3>1. SlicesKept /\ D = arrays'[lists'["command"].array]
      BY <1>1, <1>2, AppendKeepsSlices DEF Types, Cmds, ArrayOf, Array
    <3> QED BY <1>2, <3>1 DEF SlicesKept, Slices, OwnArray
  <2>6. ASSUME NEW j \in 1 .. Len(D), j > N + 1 PROVE D[j] = Nil
    BY <1>2, <2>3, <2>4, <2>5, <2>6
  <2> QED BY <2>2, <2>5, <2>6
<1>5. \A j \in 1 .. Len(D) : \/ j \in 1 .. N /\ j \in 1 .. Len(C) /\ D[j] = C[j]
                             \/ j = N + 1 /\ D[j] = t
                             \/ j > N + 1 /\ D[j] = Nil
  BY <1>2, <1>4
<1>6. /\ \A i, j \in 1 .. Len(C) : C[i] = C[j] /\ C[i] # Nil => i = j
      /\ \A j \in 1 .. Len(C) : C[j] \in SetUp => j <= st
  BY <1>1 DEF Commands, Whole, Behind
<1>7. Nil \notin SetUp
  <2>1. child # Nil /\ \A x \in Range(log) : x \in Target
    BY NilAssumption DEF Types, Round, Others, Range
  <2> QED BY <2>1, NilAssumption DEF SetUp
<1>8. Whole'
  <2>1. \A i, j \in 1 .. Len(D) : D[i] = D[j] /\ D[i] # Nil => i = j
    BY <1>2, <1>3, <1>5, <1>6
  <2>2. \A j \in 1 .. Len(D) : j > N + 1 => D[j] = Nil
    BY <1>4
  <2> QED BY <1>1, <1>4, <2>1, <2>2 DEF Whole
<1>9. Behind'
  <2>1. \A j \in 1 .. Len(D) : D[j] \in SetUp => j <= st
    BY <1>5, <1>6, <1>7
  <2> QED BY <1>1, <1>3, <2>1 DEF Behind
<1>10. Once'
  BY DEF Commands, Once
<1>11. ASSUME InRounds', batch.kind = "command" PROVE CommandRound'
  <2>1. PICK B, E : B = arrays[batch.array] /\ E = arrays'[batch.array]
    OBVIOUS
  <2>2. CommandRound
    BY <1>11 DEF Commands, InRounds
  <2>3. /\ batch.to = st /\ batch.to \in Nat
        /\ \A p, q \in 1 .. batch.to : B[p] = B[q] /\ B[p] # Nil => p = q
        /\ \A p \in 1 .. batch.to : \A j \in 1 .. Len(C) : B[p] = C[j] /\ C[j] # Nil => j <= st
    BY <1>1, <2>1, <2>2, BatchFacts DEF CommandRound
  <2>4. \A p \in 1 .. batch.to : B[p] # t /\ (E[p] = B[p] \/ (E[p] = t /\ p = N + 1))
    <3> TAKE p \in 1 .. batch.to
    <3>1. batch.array \in 1 .. Len(arrays) /\ p \in 1 .. Len(arrays[batch.array])
      BY BatchFacts
    <3>2. B[p] # t
      BY <2>1, <3>1 DEF Held
    <3> QED BY <1>1, <1>2, <2>1, <3>1, <3>2, AppendElements DEF Types
  <2>5. \A p, q \in 1 .. batch.to : E[p] = E[q] /\ E[p] # Nil => p = q
    BY <2>3, <2>4
  <2>6. ASSUME NEW p \in 1 .. batch.to, NEW j \in 1 .. Len(D), E[p] = D[j], D[j] # Nil
        PROVE  j <= st
    <3>1. CASE D[j] = t /\ j = N + 1
      <4>1. p = N + 1
        BY <2>4, <2>6, <3>1
      <4> QED BY <2>3, <3>1, <4>1
    <3>2. CASE j \in 1 .. Len(C) /\ D[j] = C[j]
      <4>1. E[p] = B[p]
        BY <1>2, <2>4, <2>6, <3>2
      <4> QED BY <2>3, <2>6, <3>2, <4>1
    <3> QED BY <1>5, <2>6, <3>1, <3>2
  <2>7. ASSUME NEW p \in batch.from .. batch.to, p > batch.from \/ child = Nobody
        PROVE  E[p] \notin SetUp
    <3>1. B[p] \notin SetUp
      BY <2>1, <2>2, <2>7 DEF CommandRound
    <3>2. p \in 1 .. batch.to
      BY BatchFacts
    <3> QED BY <2>4, <3>1, <3>2
  <2> QED BY <1>1, <1>3, <2>1, <2>3, <2>5, <2>6, <2>7 DEF CommandRound
<1> QED BY <1>8, <1>9, <1>10, <1>11 DEF Commands

\* RemoveCommand: what follows moves to the left, in the array of the round if
\* that is still the one of the list.
LEMMA DeleteCommand ==
  ASSUME Types, Commands, NEW i \in 1 .. lists["command"].len, DeleteAt("command", i),
         UNCHANGED <<start, batch, child, rerun, log, phase>>, InRounds => child # Nobody
  PROVE  Commands'
<1>1. PICK C, D, N, st : C = Cmds /\ D = Cmds' /\ N = lists["command"].len /\ st = start["command"]
  OBVIOUS
<1>2. /\ N \in Nat \ {0} /\ Len(C) \in Nat /\ N <= Len(C) /\ st \in Nat /\ "command" \in Kind
      /\ i \in 1 .. N
  BY <1>1, CmdsFacts
<1>3. SetUp' = SetUp
  BY DEF SetUp
<1>4. /\ lists'["command"].len = N - 1 /\ Len(D) = Len(C)
      /\ lists'["command"].array = lists["command"].array
      /\ \A a \in 1 .. Len(arrays) : a # lists["command"].array => arrays'[a] = arrays[a]
  BY <1>1, <1>2, DeleteFacts DEF Types, Cmds
<1>5. \A j \in 1 .. Len(C) : D[j] = IF j \in i .. N - 1 THEN C[j + 1]
                                    ELSE IF j = N THEN Nil ELSE C[j]
  <2>1. \A j \in 1 .. Len(ArrayOf("command")) :
          ArrayOf("command")'[j] = IF j \in i .. lists["command"].len - 1
                                   THEN ArrayOf("command")[j + 1]
                                   ELSE IF j = lists["command"].len /\ "command" # "arg" THEN Nil
                                   ELSE ArrayOf("command")[j]
    BY <1>1, <1>2, DeleteFacts DEF Types
  <2> QED BY <1>1, <2>1 DEF Cmds
<1>6. /\ \A m, j \in 1 .. Len(C) : C[m] = C[j] /\ C[m] # Nil => m = j
      /\ \A j \in 1 .. Len(C) : j > N => C[j] = Nil
      /\ \A j \in 1 .. Len(C) : C[j] \in SetUp => j <= st
  BY <1>1 DEF Commands, Whole, Behind
<1>7. \A j \in 1 .. Len(C) : \/ j < N /\ j \in i .. N - 1 /\ j + 1 \in 1 .. Len(C) /\ D[j] = C[j + 1]
                             \/ j >= N /\ D[j] = Nil
                             \/ j < i /\ D[j] = C[j]
  BY <1>2, <1>5, <1>6
<1>8. Nil \notin SetUp
  <2>1. child # Nil /\ \A x \in Range(log) : x \in Target
    BY NilAssumption DEF Types, Round, Others, Range
  <2> QED BY <2>1, NilAssumption DEF SetUp
<1>9. \A m, j \in 1 .. Len(C) : D[m] = D[j] /\ D[m] # Nil => m = j
  <2> SUFFICES ASSUME NEW m \in 1 .. Len(C), NEW j \in 1 .. Len(C), D[m] = D[j], D[m] # Nil
               PROVE  m = j
    OBVIOUS
  <2>1. \/ m \in i .. N - 1 /\ m + 1 \in 1 .. Len(C) /\ D[m] = C[m + 1]
        \/ m < i /\ D[m] = C[m]
    BY <1>7
  <2>2. \/ j \in i .. N - 1 /\ j + 1 \in 1 .. Len(C) /\ D[j] = C[j + 1]
        \/ j < i /\ D[j] = C[j]
    BY <1>7
  <2>3. /\ m \in Nat /\ j \in Nat /\ i \in Nat /\ N \in Nat
        /\ m \in i .. N - 1 => m >= i
        /\ j \in i .. N - 1 => j >= i
    BY <1>2
  <2>4. \A p, q \in 1 .. Len(C) : C[p] = C[q] /\ C[p] # Nil => p = q
    BY <1>6
  <2>5. CASE m < i /\ D[m] = C[m]
    BY <2>2, <2>3, <2>4, <2>5
  <2>6. CASE m \in i .. N - 1 /\ m + 1 \in 1 .. Len(C) /\ D[m] = C[m + 1]
    BY <2>2, <2>3, <2>4, <2>6
  <2> QED BY <2>1, <2>5, <2>6
<1>10. \A j \in 1 .. Len(C) : D[j] \in SetUp => j <= st
  <2> SUFFICES ASSUME NEW j \in 1 .. Len(C), D[j] \in SetUp PROVE j <= st
    OBVIOUS
  <2>1. \/ j + 1 \in 1 .. Len(C) /\ D[j] = C[j + 1]
        \/ D[j] = C[j]
    BY <1>7, <1>8
  <2> QED BY <1>2, <1>6, <2>1
<1>11. Whole'
  <2>1. \A j \in 1 .. Len(D) : j > N - 1 => D[j] = Nil
    BY <1>2, <1>4, <1>7
  <2> QED BY <1>1, <1>4, <1>9, <2>1 DEF Whole
<1>12. Behind'
  BY <1>1, <1>3, <1>4, <1>10 DEF Behind
<1>13. Once'
  BY DEF Commands, Once
<1>14. ASSUME InRounds', batch.kind = "command" PROVE CommandRound'
  <2>1. PICK B, E : B = arrays[batch.array] /\ E = arrays'[batch.array]
    OBVIOUS
  <2>2. CommandRound /\ child # Nobody
    BY <1>14 DEF Commands, InRounds
  <2>3. /\ batch.to = st /\ batch.to \in Nat /\ batch.from \in Nat
        /\ \A p, q \in 1 .. batch.to : B[p] = B[q] /\ B[p] # Nil => p = q
        /\ \A p \in 1 .. batch.to : \A j \in 1 .. Len(C) : B[p] = C[j] /\ C[j] # Nil => j <= st
        /\ \A p \in batch.from .. batch.to : p > batch.from => B[p] \notin SetUp
        /\ \A p \in batch.from .. batch.to : p \in 1 .. batch.to
    BY <1>1, <2>1, <2>2, BatchFacts DEF CommandRound
  <2>4. CASE batch.array = lists["command"].array
    <3>1. B = C /\ E = D
      BY <1>1, <1>4, <2>1, <2>4 DEF Cmds, ArrayOf, Array
    <3>2. \A p \in 1 .. batch.to : p \in 1 .. Len(C)
      BY <2>1, <3>1, BatchFacts
    <3>3. \A p, q \in 1 .. batch.to : E[p] = E[q] /\ E[p] # Nil => p = q
      BY <1>9, <3>1, <3>2
    <3>4. \A p \in 1 .. batch.to : \A j \in 1 .. Len(D) : E[p] = D[j] /\ D[j] # Nil => j <= st
      <4> SUFFICES ASSUME NEW p \in 1 .. batch.to, NEW j \in 1 .. Len(D), E[p] = D[j], D[j] # Nil
                   PROVE  j <= st
        OBVIOUS
      <4>1. p = j
        BY <1>4, <1>9, <3>1, <3>2
      <4> QED BY <2>3, <4>1
    <3>5. ASSUME NEW p \in batch.from .. batch.to, p > batch.from PROVE E[p] \notin SetUp
      <4>1. p \in 1 .. batch.to /\ p \in 1 .. Len(C)
        BY <2>3, <3>2
      <4>2. CASE p + 1 \in 1 .. Len(C) /\ D[p] = C[p + 1]
        <5>1. CASE p + 1 <= batch.to
          <6>1. p + 1 \in batch.from .. batch.to /\ p + 1 > batch.from
            BY <2>3, <3>5, <5>1
          <6> QED BY <2>3, <3>1, <4>2, <6>1
        <5>2. CASE p + 1 > batch.to
          BY <1>6, <2>3, <3>1, <4>2, <5>2
        <5> QED BY <2>3, <5>1, <5>2
      <4>3. CASE D[p] = C[p]
        BY <2>3, <3>1, <3>5, <4>3
      <4> QED BY <1>7, <1>8, <3>1, <4>1, <4>2, <4>3
    <3> QED BY <1>1, <1>3, <2>1, <2>2, <2>3, <3>3, <3>4, <3>5 DEF CommandRound
  <2>5. CASE batch.array # lists["command"].array
    <3>1. E = B
      BY <1>4, <2>1, <2>5, BatchFacts
    <3>2. \A p \in 1 .. batch.to : \A j \in 1 .. Len(D) : E[p] = D[j] /\ D[j] # Nil => j <= st
      <4> SUFFICES ASSUME NEW p \in 1 .. batch.to, NEW j \in 1 .. Len(D), E[p] = D[j], D[j] # Nil
                   PROVE  j <= st
        OBVIOUS
      <4>1. \/ j + 1 \in 1 .. Len(C) /\ D[j] = C[j + 1]
            \/ D[j] = C[j]
        BY <1>4, <1>7
      <4> QED BY <1>2, <1>4, <2>3, <3>1, <4>1
    <3> QED BY <1>1, <1>3, <2>1, <2>2, <2>3, <3>1, <3>2 DEF CommandRound
  <2> QED BY <2>4, <2>5
<1> QED BY <1>11, <1>12, <1>13, <1>14 DEF Commands

\* The rounds: nothing changes in the lists, and what was set up is at most
\* what was, and the child.
LEMMA BehindKept ==
  ASSUME Types, Behind, UNCHANGED <<arrays, lists>>, start'["command"] \in Nat,
         start'["command"] >= start["command"], SetUp' \subseteq SetUp \cup {Nobody}
  PROVE  Behind'
<1>1. Cmds' = Cmds
  BY DEF Cmds, ArrayOf, Array
<1>2. ASSUME NEW j \in 1 .. Len(Cmds), Cmds[j] \in SetUp' PROVE j <= start'["command"]
  <2>1. Cmds[j] \in SetUp
    BY <1>2, CmdsFacts
  <2>2. j <= start["command"] /\ start["command"] \in Nat
    BY <2>1, CmdsFacts DEF Behind
  <2> QED BY <2>2
<1> QED BY <1>1, <1>2 DEF Behind

\* The rounds do not touch the array of the sub-commands.
LEMMA WholeKept ==
  ASSUME Whole, UNCHANGED <<arrays, lists>>
  PROVE  Whole'
BY DEF Whole, Cmds, ArrayOf, Array

\* A round of sub-commands goes on behind its child.
LEMMA CommandRoundGoesOn ==
  ASSUME Types, Commands, UNCHANGED <<arrays, lists, start, phase>>,
         batch' = [batch EXCEPT !.from = @ + 1], batch.from <= batch.to,
         SetUp' \subseteq SetUp \cup {Nobody}
  PROVE  InRounds' /\ batch'.kind = "command" => CommandRound'
<1> SUFFICES ASSUME InRounds', batch'.kind = "command" PROVE CommandRound'
  OBVIOUS
<1>1. /\ batch'.kind = batch.kind /\ batch'.array = batch.array
      /\ batch'.to = batch.to /\ batch'.from = batch.from + 1
  BY RoundGoesOn DEF Types
<1>2. CommandRound
  BY <1>1 DEF Commands, InRounds
<1>3. ASSUME NEW p \in batch.from + 1 .. batch.to PROVE arrays[batch.array][p] \notin SetUp'
  <2>1. p \in batch.from .. batch.to /\ p > batch.from /\ p \in 1 .. batch.to
    BY BatchFacts
  <2>2. arrays[batch.array][p] \notin SetUp /\ arrays[batch.array][p] # Nobody
    BY <1>2, <2>1, BatchFacts DEF CommandRound
  <2> QED BY <2>2
<1>4. Cmds' = Cmds
  BY DEF Cmds, ArrayOf, Array
<1> QED BY <1>1, <1>2, <1>3, <1>4 DEF CommandRound

\* User code adds and removes.
LEMMA ChangesKeepCommands ==
  ASSUME Types, Orderly, Fresh, OfKind, Commands,
         (\E k \in Kind : AddTo(k) \/ RemoveFrom(k)) \/ EnsureSubcommands
  PROVE  Commands'
<1>1. ASSUME NEW k \in Kind, NEW t \in Target, KindOf(t) = k, AppendTo(k, t), k # "command",
             UNCHANGED <<start, batch, child, rerun, log>>,
             batch.kind = "command" => phase' = phase
      PROVE  Commands'
  <2>1. /\ \A j \in Kind : j # k => lists'[j] = lists[j]
        /\ \A a \in 1 .. Len(arrays) : a # lists'[k].array => arrays'[a] = arrays[a]
        /\ lists'[k].array = lists[k].array \/ lists'[k].array = Len(arrays) + 1
    BY <1>1, AppendFacts DEF Types
  <2>2. /\ lists["command"].array \in 1 .. Len(arrays) /\ batch.array \in 1 .. Len(arrays)
        /\ Len(arrays) \in Nat /\ "command" \in Kind
        /\ Cmds = arrays[lists["command"].array]
    BY CmdsFacts, BatchFacts, HeldIsElement
  <2>3. lists["command"].array # lists[k].array
    BY <1>1, <2>2 DEF Types, Slices, OwnArray
  <2>4. Cmds' = Cmds /\ lists'["command"] = lists["command"]
    BY <1>1, <2>1, <2>2, <2>3 DEF Cmds, ArrayOf, Array
  <2>5. ASSUME batch.kind = "command" PROVE arrays'[batch.array] = arrays[batch.array]
    <3>1. batch.array # lists[k].array
      BY <1>1, <2>2, <2>5 DEF OfKind
    <3> QED BY <2>1, <2>2, <3>1
  <2> QED BY <1>1, <2>4, <2>5, CommandsFrame
<1>2. ASSUME NEW k \in Kind, AddTo(k) PROVE Commands'
  <2>1. PICK t : t = <<k, created[k] + 1>>
    OBVIOUS
  <2>2. /\ AppendTo(k, t) /\ t \in Target /\ KindOf(t) = k
        /\ UNCHANGED <<start, batch, child, rerun, log, phase>>
    BY <1>2, <2>1, NewTarget DEF AddTo, UserCode, round
  <2>3. ~Known(t, created) /\ created[k] \in Nat
    BY <2>1 DEF Known, Types, Others
  <2>4. ~Held(t)
    <3>1. t # Nil
      BY <2>2, NilAssumption
    <3> QED BY <2>3, <3>1 DEF Fresh, Held
  <2>5. t \notin SetUp
    <3>1. t # child
      BY <2>2, <2>3, NilAssumption DEF Fresh
    <3>2. ASSUME t \in Range(log) PROVE FALSE
      <4>1. log \in Seq(Target)
        BY DEF Types, Others
      <4>2. PICK i \in 1 .. Len(log) : t = log[i]
        BY <3>2, <4>1 DEF Range
      <4> QED BY <2>3, <4>2 DEF Fresh
    <3> QED BY <3>1, <3>2 DEF SetUp
  <2>6. CASE k = "command"
    BY <2>2, <2>4, <2>5, <2>6, AppendCommand
  <2>7. CASE k # "command"
    BY <1>1, <2>2, <2>7
  <2> QED BY <2>6, <2>7
<1>3. ASSUME NEW k \in Kind, RemoveFrom(k) PROVE Commands'
  <2>1. PICK i \in 1 .. lists[k].len : DeleteAt(k, i)
    BY <1>3 DEF RemoveFrom
  <2>2. UNCHANGED <<start, batch, child, rerun, log, phase>>
    BY <1>3 DEF RemoveFrom, round
  <2>3. InRounds => child # Nobody
    BY <1>3 DEF RemoveFrom, UserCode, InRounds, Kind
  <2>4. CASE k = "command"
    BY <2>1, <2>2, <2>3, <2>4, DeleteCommand
  <2>5. CASE k # "command"
    <3>1. /\ \A j \in Kind : j # k => lists'[j] = lists[j]
          /\ \A a \in 1 .. Len(arrays) : a # lists[k].array => arrays'[a] = arrays[a]
      BY <2>1, DeleteFacts DEF Types
    <3>2. /\ lists["command"].array \in 1 .. Len(arrays) /\ batch.array \in 1 .. Len(arrays)
          /\ "command" \in Kind /\ Cmds = arrays[lists["command"].array]
      BY CmdsFacts, BatchFacts
    <3>3. lists["command"].array # lists[k].array
      BY <2>5, <3>2 DEF Types, Slices, OwnArray
    <3>4. Cmds' = Cmds /\ lists'["command"] = lists["command"]
      BY <2>5, <3>1, <3>2, <3>3 DEF Cmds, ArrayOf, Array
    <3>5. ASSUME batch.kind = "command" PROVE arrays'[batch.array] = arrays[batch.array]
      <4>1. batch.array # lists[k].array
        BY <2>5, <3>2, <3>5 DEF OfKind
      <4> QED BY <3>1, <3>2, <4>1
    <3> QED BY <2>2, <3>4, <3>5, CommandsFrame
  <2> QED BY <2>4, <2>5
<1>4. CASE EnsureSubcommands
  <2>1. UNCHANGED <<start, batch, child, rerun, log>> /\ batch.kind = "none"
    BY <1>4 DEF EnsureSubcommands, round, history, Orderly, NoBatch
  <2>2. CASE lists["command"].len > 0
    <3>1. CommandArg \in Target /\ KindOf(CommandArg) = "arg" /\ "arg" \in Kind
      BY BoundAssumption DEF CommandArg, Target, KindOf, Kind
    <3> QED BY <1>1, <1>4, <2>1, <2>2, <3>1 DEF EnsureSubcommands
  <2>3. CASE ~(lists["command"].len > 0)
    <3>1. UNCHANGED <<arrays, lists>>
      BY <1>4, <2>3 DEF EnsureSubcommands, slices
    <3>2. Cmds' = Cmds
      BY <3>1 DEF Cmds, ArrayOf, Array
    <3> QED BY <2>1, <3>1, <3>2, CommandsFrame
  <2> QED BY <2>2, <2>3
<1> QED BY <1>2, <1>3, <1>4

\* The rounds go on.
LEMMA RoundsKeepCommands ==
  ASSUME Types, Orderly, OfKind, Commands,
         \/ UsesFail \/ BeginRound \/ NextChild \/ EndRound
         \/ ChildDone \/ ChildRenamed \/ HooksReturn \/ ChildFails \/ UNCHANGED vars
  PROVE  Commands'
<1>1. UNCHANGED <<arrays, lists>> /\ Cmds' = Cmds
  BY DEF UsesFail, BeginRound, NextChild, EndRound, ChildDone, ChildRenamed, HooksReturn,
         ChildFails, vars, slices, Cmds, ArrayOf, Array
<1>2. Whole'
  BY <1>1, WholeKept DEF Commands
<1>3. start["command"] \in Nat /\ start["command"] >= start["command"] /\ log \in Seq(Target)
  BY CmdsFacts DEF Types, Others
<1>4. CASE BeginRound
  <2>1. /\ phase \in Kind /\ child = Nobody /\ UNCHANGED <<child, rerun, log>>
    BY <1>4 DEF BeginRound, InRounds, history
  <2>2. SetUp' = SetUp /\ Once'
    BY <2>1 DEF SetUp, Once, Commands
  <2>3. CASE start[phase] > lists[phase].len
    <3>1. start' = start /\ ~InRounds'
      BY <1>4, <2>3 DEF BeginRound, round, InRounds, Kind
    <3> QED BY <1>1, <1>2, <1>3, <2>2, <3>1, BehindKept DEF Commands
  <2>4. CASE ~(start[phase] > lists[phase].len)
    <3>1. /\ phase' = phase
          /\ batch' = [kind |-> phase, array |-> lists[phase].array,
                       from |-> start[phase] + 1, to |-> lists[phase].len]
          /\ start' = [start EXCEPT ![phase] = lists[phase].len]
      BY <1>4, <2>4 DEF BeginRound, NextStart
    <3>2. CASE phase # "command"
      <4>1. start'["command"] = start["command"] /\ batch'.kind # "command"
        BY <3>1, <3>2, CmdsFacts DEF Types, Round
      <4> QED BY <1>1, <1>2, <1>3, <2>2, <4>1, BehindKept DEF Commands
    <3>3. CASE phase = "command"
      <4>1. PICK N, st : N = lists["command"].len /\ st = start["command"]
        OBVIOUS
      <4>2. /\ start'["command"] = N /\ N \in Nat /\ st \in Nat /\ st <= N /\ N <= Len(Cmds)
            /\ Len(Cmds) \in Nat
        BY <2>4, <3>1, <3>3, <4>1, CmdsFacts DEF Types, Round
      <4>3. /\ batch'.from = st + 1 /\ batch'.to = N /\ arrays'[batch'.array] = Cmds
        BY <1>1, <3>1, <3>3, <4>1, CmdsFacts
      <4>4. Behind'
        BY <1>1, <1>3, <2>2, <4>1, <4>2, BehindKept DEF Commands
      <4>5. \A p \in 1 .. N : p \in 1 .. Len(Cmds)
        BY <4>2
      <4>6. \A p \in st + 1 .. N : Cmds[p] \notin SetUp
        <5> TAKE p \in st + 1 .. N
        <5>1. p \in 1 .. Len(Cmds) /\ ~(p <= st)
          BY <4>2
        <5> QED BY <4>1, <5>1 DEF Commands, Behind
      <4>7. \A p \in 1 .. N : \A j \in 1 .. Len(Cmds) : Cmds[p] = Cmds[j] /\ Cmds[j] # Nil => j <= N
        BY <4>2, <4>5 DEF Commands, Whole
      <4>8. \A p, q \in 1 .. N : Cmds[p] = Cmds[q] /\ Cmds[p] # Nil => p = q
        BY <4>5 DEF Commands, Whole
      <4>9. CommandRound'
        BY <1>1, <2>2, <4>2, <4>3, <4>6, <4>7, <4>8 DEF CommandRound
      <4> QED BY <1>2, <2>2, <4>4, <4>9 DEF Commands
    <3> QED BY <3>2, <3>3
  <2> QED BY <2>3, <2>4
<1>5. CASE NextChild
  <2>1. /\ phase \in Kind /\ child = Nobody /\ batch.from <= batch.to
        /\ UNCHANGED <<start, rerun, log>>
    BY <1>5 DEF NextChild, InRounds, history
  <2>2. PICK t : t = arrays[batch.array][batch.from]
    OBVIOUS
  <2>3. CASE t = Nil /\ phase' = "panicked" /\ UNCHANGED <<batch, child>>
    <3>1. SetUp' = SetUp /\ Once' /\ ~InRounds'
      BY <2>1, <2>3 DEF SetUp, Once, Commands, InRounds, Kind
    <3> QED BY <1>1, <1>2, <1>3, <2>1, <3>1, BehindKept DEF Commands
  <2>4. CASE batch' = [batch EXCEPT !.from = @ + 1] /\ UNCHANGED <<phase, child>>
    <3>1. SetUp' = SetUp /\ Once'
      BY <2>1, <2>4 DEF SetUp, Once, Commands
    <3>2. Behind'
      BY <1>1, <1>3, <2>1, <3>1, BehindKept DEF Commands
    <3>3. InRounds' /\ batch'.kind = "command" => CommandRound'
      BY <1>1, <2>1, <2>4, <3>1, CommandRoundGoesOn
    <3> QED BY <1>2, <3>1, <3>2, <3>3 DEF Commands
  <2>5. CASE t # Nil /\ ~Initialized(t) /\ child' = t /\ UNCHANGED <<phase, batch>>
    <3>1. /\ batch.from \in 1 .. batch.to /\ batch.from \in batch.from .. batch.to
          /\ batch.from \in 1 .. Len(arrays[batch.array])
      BY <2>1, BatchFacts
    <3>2. batch.kind \in Kind /\ KindOf(t) = batch.kind
      BY <2>1, <2>2, <2>5, <3>1 DEF OfKind
    <3>3. batch.kind = "command" => CommandRound
      BY <2>1 DEF Commands, InRounds
    <3>4. SetUp = Range(log) \cup {Nobody} /\ SetUp' = Range(log) \cup {t}
      BY <2>1, <2>5 DEF SetUp
    <3>5. t \notin Range(log)
      <4>1. CASE batch.kind = "command"
        BY <2>1, <2>2, <3>1, <3>3, <3>4, <4>1 DEF CommandRound
      <4>2. CASE batch.kind # "command"
        BY <2>5, <3>2, <4>2 DEF Initialized
      <4> QED BY <4>1, <4>2
    <3>6. Once'
      BY <2>1, <2>5, <3>5 DEF Once, Commands
    <3>7. ASSUME NEW j \in 1 .. Len(Cmds), Cmds[j] \in SetUp' PROVE j <= start["command"]
      <4>1. CASE Cmds[j] = t
        <5>1. batch.kind = "command"
          BY <2>5, <3>2, <4>1, CmdsFacts
        <5> QED BY <2>2, <2>5, <3>1, <3>3, <4>1, <5>1 DEF CommandRound
      <4>2. CASE Cmds[j] # t
        BY <3>4, <3>7, <4>2 DEF Commands, Behind
      <4> QED BY <4>1, <4>2
    <3>8. Behind'
      BY <1>1, <2>1, <3>7 DEF Behind
    <3>9. ASSUME batch.kind = "command" PROVE CommandRound'
      <4>1. ASSUME NEW p \in batch.from .. batch.to, p > batch.from
            PROVE  arrays[batch.array][p] \notin SetUp'
        <5>1. p \in 1 .. batch.to /\ p # batch.from
          BY <4>1, BatchFacts
        <5>2. arrays[batch.array][p] # t
          BY <2>2, <2>5, <3>1, <3>3, <3>9, <5>1 DEF CommandRound
        <5>3. arrays[batch.array][p] \notin Range(log)
          BY <3>3, <3>4, <3>9, <4>1 DEF CommandRound
        <5> QED BY <3>4, <5>2, <5>3
      <4>2. child' # Nobody
        BY <2>2, <2>5, <3>1, BatchFacts
      <4> QED BY <1>1, <2>1, <2>5, <3>3, <3>9, <4>1, <4>2 DEF CommandRound
    <3> QED BY <1>2, <2>5, <3>6, <3>8, <3>9 DEF Commands
  <2> QED BY <1>5, <2>2, <2>3, <2>4, <2>5 DEF NextChild
<1>6. CASE ChildDone
  <2>1. /\ child \in Target /\ child # Nobody /\ ~rerun /\ log' = Append(log, child)
        /\ child' = Nobody /\ batch' = [batch EXCEPT !.from = @ + 1] /\ batch.from <= batch.to
        /\ UNCHANGED <<start, phase>>
    BY <1>6 DEF ChildDone, LeaveChild, Types, Round
  <2>2. Range(log') = Range(log) \cup {child}
    BY <1>3, <2>1, AppendRange
  <2>3. Once'
    BY <1>3, <2>1, AppendStaysInjective DEF Once, Commands
  <2>4. SetUp' \subseteq SetUp \cup {Nobody}
    BY <2>1, <2>2 DEF SetUp
  <2>5. Behind'
    BY <1>1, <1>3, <2>1, <2>4, BehindKept DEF Commands
  <2> QED BY <1>1, <1>2, <2>1, <2>3, <2>4, <2>5, CommandRoundGoesOn DEF Commands
<1>7. CASE ChildRenamed
  <2>1. /\ child \in Target /\ child # Nobody /\ ~rerun /\ log' = Append(log, child)
        /\ rerun' = TRUE /\ UNCHANGED <<start, batch, child, phase>>
    BY <1>7 DEF ChildRenamed, Types, Round, round
  <2>2. SetUp' = SetUp
    BY <1>3, <2>1, AppendRange DEF SetUp
  <2>3. Once'
    BY <1>3, <2>1, AppendStaysInjective DEF Once, Commands
  <2>4. Behind'
    BY <1>1, <1>3, <2>1, <2>2, BehindKept DEF Commands
  <2>5. InRounds' /\ batch'.kind = "command" => CommandRound'
    BY <1>1, <2>1, <2>2 DEF Commands, CommandRound, InRounds
  <2> QED BY <1>2, <2>3, <2>4, <2>5 DEF Commands
<1>8. CASE HooksReturn
  <2>1. /\ child' = Nobody /\ batch' = [batch EXCEPT !.from = @ + 1] /\ batch.from <= batch.to
        /\ UNCHANGED <<start, phase, log>>
    BY <1>8 DEF HooksReturn, LeaveChild, Types, Round, history
  <2>2. SetUp' \subseteq SetUp \cup {Nobody} /\ Once'
    BY <2>1 DEF SetUp, Once, Commands
  <2>3. Behind'
    BY <1>1, <1>3, <2>1, <2>2, BehindKept DEF Commands
  <2> QED BY <1>1, <1>2, <2>1, <2>2, <2>3, CommandRoundGoesOn DEF Commands
<1>9. CASE UsesFail \/ ChildFails \/ EndRound
  <2>1. /\ child' \in {child, Nobody} /\ UNCHANGED <<start, log, rerun>>
    BY <1>9 DEF UsesFail, ChildFails, EndRound, history, round
  <2>2. ~(InRounds' /\ batch'.kind = "command")
    BY <1>9 DEF UsesFail, ChildFails, EndRound, InRounds, Kind, NoBatch
  <2>3. SetUp' \subseteq SetUp \cup {Nobody} /\ Once'
    BY <2>1 DEF SetUp, Once, Commands
  <2>4. Behind'
    BY <1>1, <1>3, <2>1, <2>3, BehindKept DEF Commands
  <2> QED BY <1>2, <2>2, <2>3, <2>4 DEF Commands
<1>10. CASE UNCHANGED vars
  <2>1. UNCHANGED <<start, batch, child, rerun, log, phase>>
    BY <1>10 DEF vars, round, history
  <2> QED BY <1>1, <2>1, CommandsFrame
<1> QED BY <1>4, <1>5, <1>6, <1>7, <1>8, <1>9, <1>10

\* Nothing is set up twice: flags and args because they are marked, and
\* sub-commands, which carry no mark, because what was set up always stands
\* before the next round (initializeSubcommands, command.go:754-790).
THEOREM SetUpOnce == Spec => []IsInjective(log)
<1>1. Init => Types /\ Orderly /\ Fresh /\ OfKind /\ Commands
  BY TypesInit, OrderlyInit, CommandsInit
<1>2. (Types /\ Orderly /\ Fresh /\ OfKind /\ Commands) /\ [Next]_vars
        => (Types /\ Orderly /\ Fresh /\ OfKind /\ Commands)'
  <2> SUFFICES ASSUME Types, Orderly, Fresh, OfKind, Commands, [Next]_vars
               PROVE  (Types /\ Orderly /\ Fresh /\ OfKind /\ Commands)'
    OBVIOUS
  <2>1. Types' /\ Orderly' /\ Fresh' /\ OfKind'
    BY TypesStep, OrderlyStep, FreshStep, OfKindStep
  <2>2. Commands'
    BY ChangesKeepCommands, RoundsKeepCommands DEF Next
  <2> QED BY <2>1, <2>2
<1>3. Commands => IsInjective(log)
  BY DEF Commands, Once
<1> QED BY <1>1, <1>2, <1>3, PTL DEF Spec

-----------------------------------------------------------------------------
(* The order of the list *)

\* Which round it is, and what cannot have happened yet.
Turns ==
  /\ batch.kind = "none" => batch = NoBatch
  /\ InRounds /\ batch.kind # "none" => batch.kind = phase
  /\ phase = "done" => batch = NoBatch
  /\ phase = "uses" => log = <<>>
  /\ phase \in {"uses", "flag", "arg"} => late = {}
  /\ \A t \in late \cup shared : KindOf(t) # "command"
  /\ child \notin shared
  /\ child # Nobody => KindOf(child) = batch.kind
  /\ rerun => child # Nobody /\ child \in Range(log)

\* A round which finds no more is empty, so no user code runs in it, and its
\* list stays finished until another round runs some.
Emptied ==
  /\ InRounds /\ batch.kind # "none" /\ ~more[phase] =>
       batch.from > batch.to /\ start[phase] = lists[phase].len
  /\ phase = "arg" /\ ~more["flag"] /\ (batch.kind = "none" \/ ~more["arg"]) =>
       start["flag"] = lists["flag"].len
  /\ phase = "done" => start["command"] = lists["command"].len

\* How many places of a list the rounds have come to, as long as nothing is
\* removed from it.
Handled(k) == IF batch.kind = k THEN batch.from - 1 ELSE start[k]

\* A round sees the beginning of the list itself, what it has passed is set up,
\* and what is behind the last round of options comes too late.
InPlace(k) ==
  /\ start[k] <= lists[k].len
  /\ batch.kind = k =>
       /\ batch.to = start[k]
       /\ \A p \in 1 .. batch.to : arrays[batch.array][p] = ArrayOf(k)[p]
       /\ child # Nobody => child = ArrayOf(k)[batch.from]
  /\ \A i \in 1 .. Handled(k) : ArrayOf(k)[i] \in Range(log) \cup shared
  /\ phase \in {"command", "done"} /\ k # "command" =>
       \A i \in 1 .. lists[k].len : i > start[k] => ArrayOf(k)[i] \in late
  /\ InOrder(k)

\* No list has an element twice, and none has the arg for sub-commands yet.
Distinct ==
  /\ \A k \in Kind : \A i, j \in 1 .. lists[k].len :
       ArrayOf(k)[i] = ArrayOf(k)[j] => i = j
  /\ phase = "uses" => \A i \in 1 .. lists["arg"].len : ArrayOf("arg")[i] # CommandArg

Ordered == Turns /\ Emptied /\ Distinct /\ \A k \in Kind \ cut : InPlace(k)

\* What a list holds is in its array.
LEMMA ContentFacts ==
  ASSUME Types, NEW k \in Kind
  PROVE  /\ lists[k].len \in Nat /\ start[k] \in Nat /\ start \in [Kind -> Nat]
         /\ lists[k].array \in 1 .. Len(arrays) /\ ArrayOf(k) = arrays[lists[k].array]
         /\ lists[k].len <= Len(ArrayOf(k)) /\ Len(ArrayOf(k)) \in Nat
         /\ DOMAIN Content(k) = 1 .. lists[k].len
         /\ \A i \in 1 .. lists[k].len : /\ Content(k)[i] = ArrayOf(k)[i]
                                         /\ ArrayOf(k)[i] \in Target
                                         /\ KindOf(ArrayOf(k)[i]) = k
<1>1. /\ lists[k].array \in 1 .. Len(arrays) /\ ArrayOf(k) = arrays[lists[k].array]
      /\ lists[k].len \in Nat /\ start[k] \in Nat /\ start \in [Kind -> Nat]
      /\ lists[k].len <= Len(ArrayOf(k))
      /\ \A i \in 1 .. Len(ArrayOf(k)) : ArrayOf(k)[i] # Nil => KindOf(ArrayOf(k)[i]) = k
      /\ \A i \in 1 .. lists[k].len : ArrayOf(k)[i] # Nil
  BY DEF Types, Slices, Round, OwnArray, ArrayOf, Array
<1>2. ArrayOf(k) \in Seq(Element) /\ Len(ArrayOf(k)) \in Nat
  BY <1>1 DEF Types, Slices
<1>3. PICK A, n : A = ArrayOf(k) /\ n = lists[k].len
  OBVIOUS
<1>4. PICK c : c = SubSeq(A, 1, n)
  OBVIOUS
<1>5. DOMAIN c = 1 .. n /\ \A i \in 1 .. n : c[i] = A[i]
  <2>1. A \in Seq(Element) /\ n \in Nat /\ n <= Len(A) /\ Len(A) \in Nat
    BY <1>1, <1>2, <1>3
  <2> QED BY <1>4, <2>1
<1>6. c = Content(k)
  BY <1>3, <1>4 DEF Content, ArrayOf
<1>7. \A i \in 1 .. n : A[i] \in Target /\ KindOf(A[i]) = k
  BY <1>1, <1>2, <1>3 DEF Element
<1> QED BY <1>1, <1>2, <1>3, <1>5, <1>6, <1>7

\* The history is a sequence, and what was set up is at some place in it.
LEMMA LogFacts ==
  ASSUME Types
  PROVE  /\ Len(log) \in Nat /\ log \in Seq(Target)
         /\ \A n \in 1 .. Len(log) : log[n] \in Range(log)
         /\ \A t \in Range(log) : \E n \in 1 .. Len(log) : log[n] = t
<1>1. log \in Seq(Target) /\ Len(log) \in Nat /\ DOMAIN log = 1 .. Len(log)
  BY DEF Types, Others
<1> QED BY <1>1 DEF Range

\* InOrder, in terms of the array of the list.
OrderedIn(k) ==
  \A n \in 1 .. Len(log) : KindOf(log[n]) = k =>
    \E j \in 1 .. lists[k].len :
      /\ log[n] = ArrayOf(k)[j] /\ ArrayOf(k)[j] \notin shared \cup late
      /\ \A i \in 1 .. lists[k].len : i < j /\ ArrayOf(k)[i] \notin shared \cup late =>
           \E m \in 1 .. n - 1 : log[m] = ArrayOf(k)[i]

LEMMA OrderIsOfArray == Types => \A k \in Kind : InOrder(k) <=> OrderedIn(k)
<1> SUFFICES ASSUME Types, NEW k \in Kind PROVE InOrder(k) <=> OrderedIn(k)
  OBVIOUS
<1>1. /\ \A i \in Places(k) : /\ i \in 1 .. lists[k].len /\ Content(k)[i] = ArrayOf(k)[i]
                              /\ ArrayOf(k)[i] \notin shared \cup late
      /\ \A i \in 1 .. lists[k].len : /\ Content(k)[i] = ArrayOf(k)[i]
                                      /\ ArrayOf(k)[i] \notin shared \cup late => i \in Places(k)
  BY ContentFacts DEF Places
<1>2. ASSUME InOrder(k) PROVE OrderedIn(k)
  <2> SUFFICES ASSUME NEW n \in 1 .. Len(log), KindOf(log[n]) = k
               PROVE  \E j \in 1 .. lists[k].len :
      /\ log[n] = ArrayOf(k)[j] /\ ArrayOf(k)[j] \notin shared \cup late
      /\ \A i \in 1 .. lists[k].len : i < j /\ ArrayOf(k)[i] \notin shared \cup late =>
           \E m \in 1 .. n - 1 : log[m] = ArrayOf(k)[i]
    BY DEF OrderedIn
  <2>1. PICK j \in Places(k) :
          /\ log[n] = Content(k)[j]
          /\ \A i \in Places(k) : i < j => \E m \in 1 .. n - 1 : log[m] = Content(k)[i]
    BY <1>2 DEF InOrder
  <2>2. ASSUME NEW i \in 1 .. lists[k].len, i < j, ArrayOf(k)[i] \notin shared \cup late
        PROVE  \E m \in 1 .. n - 1 : log[m] = ArrayOf(k)[i]
    BY <1>1, <2>1, <2>2
  <2> QED BY <1>1, <2>1, <2>2
<1>3. ASSUME OrderedIn(k) PROVE InOrder(k)
  <2> SUFFICES ASSUME NEW n \in 1 .. Len(log), KindOf(log[n]) = k
               PROVE  \E j \in Places(k) :
      /\ log[n] = Content(k)[j]
      /\ \A i \in Places(k) : i < j => \E m \in 1 .. n - 1 : log[m] = Content(k)[i]
    BY DEF InOrder
  <2>1. PICK j \in 1 .. lists[k].len :
          /\ log[n] = ArrayOf(k)[j] /\ ArrayOf(k)[j] \notin shared \cup late
          /\ \A i \in 1 .. lists[k].len : i < j /\ ArrayOf(k)[i] \notin shared \cup late =>
               \E m \in 1 .. n - 1 : log[m] = ArrayOf(k)[i]
    BY <1>3 DEF OrderedIn
  <2>2. ASSUME NEW i \in Places(k), i < j PROVE \E m \in 1 .. n - 1 : log[m] = Content(k)[i]
    BY <1>1, <2>1, <2>2
  <2> QED BY <1>1, <2>1, <2>2
<1> QED BY <1>2, <1>3

LEMMA OrderIsOfNextArray == Types' => (\A k \in Kind : InOrder(k) <=> OrderedIn(k))'
BY OrderIsOfArray, PTL

\* Before the rounds there is nothing to say.
AtFirst ==
  /\ log = <<>> /\ start = [k \in Kind |-> 0] /\ batch = NoBatch
  /\ phase \in {"uses", "flag"}

LEMMA InPlaceAtFirst == Types /\ AtFirst => \A k \in Kind : InPlace(k)
<1> SUFFICES ASSUME Types, AtFirst, NEW k \in Kind PROVE InPlace(k)
  OBVIOUS
<1>1. start[k] = 0 /\ batch.kind = "none" /\ batch.kind # k
  BY DEF AtFirst, NoBatch, Kind
<1>2. Handled(k) = 0 /\ lists[k].len \in Nat
  BY <1>1, ContentFacts DEF Handled
<1>3. InOrder(k)
  BY DEF AtFirst, InOrder
<1> QED BY <1>1, <1>2, <1>3 DEF AtFirst, InPlace

LEMMA InNextPlaceAtFirst == Types' /\ AtFirst' => (\A k \in Kind : InPlace(k))'
BY InPlaceAtFirst, PTL

\* The list of a kind goes on as it was, possibly longer.
Longer(k) ==
  /\ lists'[k].len >= lists[k].len
  /\ \A i \in 1 .. lists[k].len : ArrayOf(k)'[i] = ArrayOf(k)[i]
  /\ batch.kind = k => \A p \in 1 .. start[k] : arrays'[batch.array][p] = arrays[batch.array][p]

\* Then the place of what was set up is the same.
LEMMA OrderOfLonger ==
  ASSUME Types, Types', NEW k \in Kind, OrderedIn(k), Longer(k), UNCHANGED <<log, shared>>,
         late \subseteq late',
         \A i \in 1 .. lists[k].len : ArrayOf(k)[i] \in late' => ArrayOf(k)[i] \in late
  PROVE  OrderedIn(k)'
<1>1. lists[k].len \in Nat /\ lists'[k].len \in Nat /\ lists'[k].len >= lists[k].len
  BY ContentFacts DEF Types, Slices, Longer
<1> SUFFICES ASSUME NEW n \in 1 .. Len(log), KindOf(log[n]) = k
             PROVE  \E j \in 1 .. lists'[k].len :
      /\ log[n] = ArrayOf(k)'[j] /\ ArrayOf(k)'[j] \notin shared \cup late'
      /\ \A i \in 1 .. lists'[k].len : i < j /\ ArrayOf(k)'[i] \notin shared \cup late' =>
           \E m \in 1 .. n - 1 : log[m] = ArrayOf(k)'[i]
  BY DEF OrderedIn
<1>2. PICK j \in 1 .. lists[k].len :
        /\ log[n] = ArrayOf(k)[j] /\ ArrayOf(k)[j] \notin shared \cup late
        /\ \A i \in 1 .. lists[k].len : i < j /\ ArrayOf(k)[i] \notin shared \cup late =>
             \E m \in 1 .. n - 1 : log[m] = ArrayOf(k)[i]
  BY DEF OrderedIn
<1>3. j \in 1 .. lists'[k].len /\ ArrayOf(k)'[j] = ArrayOf(k)[j]
  BY <1>1 DEF Longer
<1>4. ASSUME NEW i \in 1 .. lists'[k].len, i < j, ArrayOf(k)'[i] \notin shared \cup late'
      PROVE  \E m \in 1 .. n - 1 : log[m] = ArrayOf(k)'[i]
  <2>1. i \in 1 .. lists[k].len
    BY <1>1, <1>4
  <2>2. ArrayOf(k)'[i] = ArrayOf(k)[i]
    BY <2>1 DEF Longer
  <2> QED BY <1>2, <1>4, <2>1, <2>2
<1> QED BY <1>2, <1>3, <1>4

\* User code which lengthens a list, or another one.
LEMMA LongerStaysInPlace ==
  ASSUME Types, Types', Turns, NEW k \in Kind, InPlace(k), Longer(k),
         UNCHANGED <<start, batch, child, log, shared, phase>>, phase # "done",
         late \subseteq late',
         \A i \in 1 .. lists[k].len : ArrayOf(k)[i] \in late' => ArrayOf(k)[i] \in late,
         phase = "command" /\ k # "command" =>
           \A i \in 1 .. lists'[k].len : i > lists[k].len => ArrayOf(k)'[i] \in late'
  PROVE  InPlace(k)'
<1>1. /\ lists[k].len \in Nat /\ lists'[k].len \in Nat /\ lists'[k].len >= lists[k].len
      /\ start[k] \in Nat /\ start[k] <= lists[k].len
      /\ \A i \in 1 .. lists[k].len : ArrayOf(k)'[i] = ArrayOf(k)[i]
  BY ContentFacts DEF Types, Slices, Longer, InPlace
<1>2. start'[k] <= lists'[k].len
  BY <1>1
<1>3. ASSUME batch.kind = k
      PROVE  /\ batch.to = start[k] /\ batch.from - 1 <= start[k] /\ batch.from \in Nat \ {0}
             /\ \A p \in 1 .. batch.to : arrays'[batch.array][p] = ArrayOf(k)'[p]
             /\ child # Nobody => child = ArrayOf(k)'[batch.from]
  <2>1. batch.to = start[k] /\ batch.from \in Nat \ {0} /\ batch.from <= batch.to + 1
    BY <1>3, BatchFacts DEF InPlace
  <2>2. ASSUME NEW p \in 1 .. batch.to PROVE arrays'[batch.array][p] = ArrayOf(k)'[p]
    <3>1. p \in 1 .. start[k] /\ p \in 1 .. lists[k].len
      BY <1>1, <2>1
    <3> QED BY <1>1, <1>3, <3>1 DEF InPlace, Longer
  <2>3. ASSUME child # Nobody PROVE child = ArrayOf(k)'[batch.from]
    <3>1. batch.from <= batch.to
      BY <2>3 DEF Types, Round
    <3>2. batch.from \in 1 .. lists[k].len
      BY <1>1, <2>1, <3>1
    <3> QED BY <1>1, <1>3, <2>3, <3>2 DEF InPlace
  <2> QED BY <1>1, <2>1, <2>2, <2>3
<1>4. Handled(k)' = Handled(k) /\ \A i \in 1 .. Handled(k) : i \in 1 .. lists[k].len
  BY <1>1, <1>3 DEF Handled
<1>5. \A i \in 1 .. Handled(k)' : ArrayOf(k)'[i] \in Range(log) \cup shared
  BY <1>1, <1>4 DEF InPlace
<1>6. ASSUME phase \in {"command", "done"}, k # "command", NEW i \in 1 .. lists'[k].len, i > start[k]
      PROVE  ArrayOf(k)'[i] \in late'
  <2>1. CASE i \in 1 .. lists[k].len
    BY <1>1, <1>6, <2>1 DEF InPlace
  <2>2. CASE i > lists[k].len
    BY <1>6, <2>2
  <2> QED BY <1>1, <2>1, <2>2
<1>7. InOrder(k)'
  <2>1. OrderedIn(k)'
    BY OrderIsOfArray, OrderOfLonger DEF InPlace
  <2> QED BY <2>1, OrderIsOfNextArray
<1> QED BY <1>2, <1>3, <1>5, <1>6, <1>7 DEF InPlace

\* Turns is inductive.
LEMMA NobodyShared == Types => Nobody \notin shared
BY NilAssumption DEF Types, Others

\* Turns is inductive.
LEMMA TurnsInit == Init => Turns
<1> SUFFICES ASSUME Init PROVE Turns
  OBVIOUS
<1>1. batch = NoBatch /\ child = Nobody /\ ~rerun /\ phase = "uses" /\ log = <<>> /\ late = {}
  BY DEF Init
<1>2. Nobody \notin shared
  BY TypesInit, NilAssumption DEF Types, Others
<1>3. \A t \in shared : KindOf(t) # "command"
  <2>1. PICK n \in Initial :
          LET own(k) == [i \in 1 .. n[k] |-> <<k, i>>]
          IN shared \in SUBSET ({own("flag")[i] : i \in 1 .. n["flag"]}
                                  \cup {own("arg")[i] : i \in 1 .. n["arg"]})
    BY DEF Init
  <2>2. \A t \in shared : (\E i \in 1 .. n["flag"] : t = <<"flag", i>>)
                          \/ (\E i \in 1 .. n["arg"] : t = <<"arg", i>>)
    BY <2>1
  <2> QED BY <2>2 DEF KindOf
<1> QED BY <1>1, <1>2, <1>3 DEF Turns, InRounds, Kind

LEMMA TurnsStep ==
  ASSUME Types, Orderly, OfKind, Turns, [Next]_vars
  PROVE  Turns'
<1>1. ASSUME NEW k \in Kind, AddTo(k) \/ RemoveFrom(k) PROVE Turns'
  <2>1. UNCHANGED <<batch, child, rerun, log, phase, shared>>
    BY <1>1 DEF AddTo, RemoveFrom, round
  <2>2. /\ phase \in {"uses", "flag", "arg"} => late' = late
        /\ \A t \in late' : t \in late \/ KindOf(t) # "command"
    BY <1>1 DEF AddTo, RemoveFrom, KindOf
  <2> QED BY <2>1, <2>2 DEF Turns, InRounds
<1>2. CASE EnsureSubcommands
  <2>1. /\ phase = "uses" /\ phase' = "flag" /\ batch = NoBatch /\ child = Nobody
        /\ UNCHANGED <<batch, child, rerun, log, shared, late>>
    BY <1>2 DEF EnsureSubcommands, round, history, Orderly
  <2> QED BY <2>1 DEF Turns, NoBatch
<1>3. CASE BeginRound
  <2>1. /\ phase \in Kind /\ child = Nobody /\ UNCHANGED <<child, rerun, log, shared, late>>
        /\ batch = NoBatch
    BY <1>3 DEF BeginRound, InRounds, history
  <2>2. \/ phase' = "panicked" /\ batch' = batch
        \/ phase' = phase /\ batch'.kind = phase
    BY <1>3 DEF BeginRound, round
  <2> QED BY <2>1, <2>2 DEF Turns, InRounds, Kind
<1>4. ASSUME UNCHANGED <<shared, late, phase>>, phase = "uses" => log' = log,
             child' \in {child, Nobody}, rerun' => child' # Nobody /\ child' \in Range(log'),
             batch' \in {batch, [batch EXCEPT !.from = @ + 1]},
             batch' # batch => batch.from <= batch.to
      PROVE  Turns'
  <2>1. child' \notin shared'
    BY <1>4, NobodyShared DEF Turns
  <2>2. CASE batch' = batch
    BY <1>4, <2>1, <2>2 DEF Turns, InRounds
  <2>3. CASE batch' # batch
    <3>1. batch'.kind = batch.kind /\ batch.kind # "none"
      BY <1>4, <2>3 DEF Turns, NoBatch, Types, Round
    <3>2. phase # "done"
      BY <3>1 DEF Turns, NoBatch
    <3> QED BY <1>4, <2>1, <3>1, <3>2 DEF Turns, InRounds
  <2> QED BY <2>2, <2>3
<1>5. CASE NextChild
  <2>1. /\ phase \in Kind /\ child = Nobody /\ batch.from <= batch.to
        /\ UNCHANGED <<log, shared, late, rerun>> /\ batch.kind # "none"
    BY <1>5 DEF NextChild, InRounds, history, Turns
  <2>2. PICK t : t = arrays[batch.array][batch.from]
    OBVIOUS
  <2>3. ~rerun'
    BY <2>1 DEF Turns
  <2>4. CASE phase' = "panicked" /\ UNCHANGED <<batch, child>>
    BY <2>1, <2>3, <2>4 DEF Turns, InRounds, Kind
  <2>5. CASE batch' = [batch EXCEPT !.from = @ + 1] /\ UNCHANGED <<phase, child>>
    BY <1>4, <2>1, <2>3, <2>5
  <2>6. CASE t # Nil /\ ~Initialized(t) /\ child' = t /\ UNCHANGED <<phase, batch>>
    <3>1. batch.from \in 1 .. batch.to /\ batch.from \in 1 .. Len(arrays[batch.array])
      BY <2>1, BatchFacts
    <3>2. KindOf(t) = batch.kind /\ batch.kind \in Kind
      BY <2>1, <2>2, <2>6, <3>1 DEF OfKind, Types, Round
    <3>3. t \notin shared
      BY <2>6 DEF Initialized, Turns
    <3> QED BY <2>1, <2>3, <2>6, <3>2, <3>3 DEF Turns, InRounds, Kind
  <2> QED BY <1>5, <2>2, <2>4, <2>5, <2>6 DEF NextChild
<1>6. CASE EndRound
  <2>1. /\ phase \in Kind /\ child' = Nobody /\ batch' = NoBatch /\ phase' = NextPhase
        /\ UNCHANGED <<log, shared, late, rerun>> /\ child = Nobody
    BY <1>6 DEF EndRound, InRounds, history
  <2>2. phase' \in {"flag", "arg"} => phase \in {"flag", "arg"}
    BY <2>1 DEF NextPhase, Kind
  <2>3. phase' # "uses" /\ ~rerun'
    BY <2>1 DEF NextPhase, Kind, Turns
  <2> QED BY <2>1, <2>2, <2>3, NobodyShared DEF Turns, NoBatch
<1>7. CASE ChildDone \/ ChildRenamed \/ HooksReturn
  <2>1. /\ child \in Target /\ phase # "uses" /\ batch.from <= batch.to
        /\ UNCHANGED <<shared, late, phase>>
        /\ batch' \in {batch, [batch EXCEPT !.from = @ + 1]}
        /\ child' \in {child, Nobody}
        /\ rerun' => child' = child /\ log' = Append(log, child)
    BY <1>7 DEF ChildDone, ChildRenamed, HooksReturn, LeaveChild, history, round, Types, Round,
                InRounds, Kind
  <2>2. rerun' => child' # Nobody /\ child' \in Range(log')
    <3>1. child \in Range(Append(log, child))
      BY <2>1, AppendRange DEF Types, Others
    <3> QED BY <2>1, <3>1, NilAssumption
  <2> QED BY <1>4, <2>1, <2>2
<1>8. CASE UsesFail \/ ChildFails
  <2>1. /\ child' \in {child, Nobody} /\ phase' = "failed" /\ rerun' = rerun
        /\ rerun => child' = child
        /\ UNCHANGED <<batch, log, shared, late>>
    BY <1>8 DEF UsesFail, ChildFails, history, round
  <2> QED BY <2>1, NobodyShared DEF Turns, InRounds, Kind
<1>9. CASE UNCHANGED vars
  BY <1>9 DEF vars, history, round, Turns, InRounds
<1> QED BY <1>1, <1>2, <1>3, <1>5, <1>6, <1>7, <1>8, <1>9 DEF Next

\* A round which is empty runs no user code.
LEMMA EmptiedInit == Init => Emptied
BY DEF Init, Emptied, InRounds, Kind

LEMMA EmptiedStep ==
  ASSUME Types, Orderly, Turns, Emptied, [Next]_vars
  PROVE  Emptied'
<1>1. ASSUME NEW k \in Kind, AddTo(k) \/ RemoveFrom(k) PROVE Emptied'
  <2>1. UNCHANGED <<batch, phase, more>> /\ (phase = "uses" \/ child # Nobody)
    BY <1>1 DEF AddTo, RemoveFrom, UserCode, round
  <2>2. CASE phase = "uses"
    BY <2>1, <2>2 DEF Emptied, InRounds, Kind
  <2>3. CASE child # Nobody
    <3>1. phase \in Kind /\ batch.from <= batch.to /\ batch.kind # "none"
      BY <2>3 DEF Types, Round, InRounds, Turns, NoBatch
    <3>2. more[phase]
      BY <3>1, BatchFacts DEF Emptied, InRounds
    <3> QED BY <2>1, <3>1, <3>2 DEF Emptied, InRounds, Kind
  <2> QED BY <2>1, <2>2, <2>3
<1>2. CASE EnsureSubcommands
  <2>1. phase' = "flag" /\ batch' = batch /\ batch = NoBatch
    BY <1>2 DEF EnsureSubcommands, round, Orderly
  <2> QED BY <2>1 DEF Emptied, NoBatch
<1>3. CASE BeginRound
  <2>1. phase \in Kind /\ UNCHANGED lists /\ batch = NoBatch
    BY <1>3 DEF BeginRound, InRounds, slices
  <2>2. CASE start[phase] > lists[phase].len
    <3>1. phase' = "panicked"
      BY <1>3, <2>2 DEF BeginRound
    <3> QED BY <3>1 DEF Emptied, InRounds, Kind
  <2>3. CASE ~(start[phase] > lists[phase].len)
    <3>1. /\ phase' = phase
          /\ batch'.from = start[phase] + 1 /\ batch'.to = lists[phase].len
          /\ start' = [start EXCEPT ![phase] = lists[phase].len]
          /\ more' = [more EXCEPT ![phase] = lists[phase].len > start[phase]]
      BY <1>3, <2>3 DEF BeginRound, NextStart, MoreInRound
    <3>2. /\ start[phase] \in Nat /\ lists[phase].len \in Nat
          /\ start \in [Kind -> Nat] /\ more \in [Kind -> BOOLEAN]
      BY <2>1 DEF Types, Slices, Round
    <3>3. ~more'[phase] => start[phase] = lists[phase].len
      <4>1. more'[phase] = (lists[phase].len > start[phase])
        BY <2>1, <3>1, <3>2, Zenon
      <4>2. ~(lists[phase].len > start[phase]) => start[phase] = lists[phase].len
        BY <2>3, <3>2
      <4> QED BY <4>1, <4>2, Zenon
    <3>4. /\ start'[phase] = lists[phase].len
          /\ \A k \in Kind : k # phase => start'[k] = start[k] /\ more'[k] = more[k]
      BY <2>1, <3>1, <3>2
    <3>5. phase = "arg" /\ ~more["flag"] => start["flag"] = lists["flag"].len
      BY <2>1 DEF Emptied, NoBatch
    <3> QED BY <2>1, <3>1, <3>2, <3>3, <3>4, <3>5 DEF Emptied, InRounds, Kind
  <2> QED BY <2>2, <2>3
<1>4. CASE NextChild
  <2>1. /\ phase \in Kind /\ UNCHANGED <<lists, start, more>>
        /\ batch.from <= batch.to /\ batch.kind # "none"
    BY <1>4 DEF NextChild, InRounds, slices, Turns, NoBatch
  <2>2. more[phase]
    BY <2>1, BatchFacts DEF Emptied, InRounds
  <2>3. \/ phase' = phase /\ batch'.kind = batch.kind
        \/ phase' = "panicked"
    BY <1>4 DEF NextChild, Types, Round
  <2> QED BY <2>1, <2>2, <2>3 DEF Emptied, InRounds, Kind
<1>5. CASE EndRound
  <2>1. /\ phase \in Kind /\ batch.kind # "none" /\ batch' = NoBatch /\ phase' = NextPhase
        /\ UNCHANGED <<lists, start, more>>
    BY <1>5 DEF EndRound, InRounds, slices, Turns
  <2>2. ~more[phase] => start[phase] = lists[phase].len
    BY <2>1 DEF Emptied, InRounds
  <2>3. /\ phase' = "arg" => phase = "flag"
        /\ phase' = "done" => phase = "command" /\ ~more["command"]
    BY <2>1 DEF NextPhase, Kind
  <2> QED BY <2>1, <2>2, <2>3 DEF Emptied, NoBatch
<1>6. CASE ChildDone \/ ChildRenamed \/ HooksReturn
  <2>1. /\ UNCHANGED <<lists, start, more, phase>> /\ child # Nobody
    BY <1>6 DEF ChildDone, ChildRenamed, HooksReturn, slices, round
  <2>2. phase \in Kind /\ batch.from <= batch.to /\ batch.kind # "none"
    BY <2>1 DEF Types, Round, InRounds, Turns, NoBatch
  <2>3. more[phase]
    BY <2>2, BatchFacts DEF Emptied, InRounds
  <2>4. batch'.kind = batch.kind
    BY <1>6 DEF ChildDone, ChildRenamed, HooksReturn, LeaveChild, round, Types, Round
  <2> QED BY <2>1, <2>2, <2>3, <2>4 DEF Emptied, InRounds, Kind
<1>7. CASE UsesFail \/ ChildFails
  <2>1. phase' = "failed"
    BY <1>7 DEF UsesFail, ChildFails
  <2> QED BY <2>1 DEF Emptied, InRounds, Kind
<1>8. CASE UNCHANGED vars
  BY <1>8 DEF vars, slices, round, Emptied, InRounds
<1> QED BY <1>1, <1>2, <1>3, <1>4, <1>5, <1>6, <1>7, <1>8 DEF Next

\* An append leaves the lists of the other kinds alone,
LEMMA AppendLeavesOthers ==
  ASSUME Types, NEW k \in Kind, NEW t \in Target, KindOf(t) = k, AppendTo(k, t),
         NEW j \in Kind, j # k
  PROVE  lists'[j] = lists[j] /\ ArrayOf(j)' = ArrayOf(j)
<1>1. /\ lists'[j] = lists[j]
      /\ \A a \in 1 .. Len(arrays) : a # lists'[k].array => arrays'[a] = arrays[a]
      /\ lists'[k].array \in {lists[k].array, Len(arrays) + 1}
  BY AppendFacts DEF Types
<1>2. lists[j].array \in 1 .. Len(arrays) /\ lists[j].array # lists[k].array /\ Len(arrays) \in Nat
  BY DEF Types, Slices, OwnArray
<1>3. lists[j].array # lists'[k].array
  BY <1>1, <1>2
<1> QED BY <1>1, <1>2, <1>3 DEF ArrayOf, Array

\* and so does a removal.
LEMMA DeleteLeavesOthers ==
  ASSUME Types, NEW k \in Kind, NEW i \in 1 .. lists[k].len, DeleteAt(k, i),
         NEW j \in Kind, j # k
  PROVE  lists'[j] = lists[j] /\ ArrayOf(j)' = ArrayOf(j)
<1>1. /\ lists'[j] = lists[j]
      /\ \A a \in 1 .. Len(arrays) : a # lists[k].array => arrays'[a] = arrays[a]
  BY DeleteFacts DEF Types
<1>2. lists[j].array \in 1 .. Len(arrays) /\ lists[j].array # lists[k].array
  BY DEF Types, Slices, OwnArray
<1> QED BY <1>1, <1>2 DEF ArrayOf, Array

\* An append makes the list longer, and its place in the array is behind the round.
LEMMA AppendLengthens ==
  ASSUME Types, OfKind, NEW k \in Kind, NEW t \in Target, KindOf(t) = k, AppendTo(k, t),
         NEW j \in Kind, InPlace(j)
  PROVE  Longer(j)
<1>1. lists[j].len \in Nat /\ lists'[j].len >= lists[j].len
      /\ \A i \in 1 .. lists[j].len : ArrayOf(j)'[i] = ArrayOf(j)[i]
  <2>1. lists[j].len \in Nat
    BY ContentFacts
  <2>2. CASE j = k
    BY <2>1, <2>2, AppendFacts DEF Types
  <2>3. CASE j # k
    BY <2>1, <2>3, AppendLeavesOthers
  <2> QED BY <2>1, <2>2, <2>3
<1>2. ASSUME batch.kind = j, NEW p \in 1 .. start[j]
      PROVE  arrays'[batch.array][p] = arrays[batch.array][p]
  <2>1. /\ p \in 1 .. Len(arrays[batch.array]) /\ batch.array \in 1 .. Len(arrays)
        /\ start[j] <= lists[j].len /\ start[j] \in Nat
    BY <1>2, BatchFacts, ContentFacts DEF InPlace
  <2>2. ASSUME batch.array = lists[k].array PROVE p # lists[k].len + 1
    <3>1. k = j
      BY <1>2, <2>2 DEF OfKind
    <3> QED BY <1>1, <2>1, <3>1
  <2> QED BY <2>1, <2>2, AppendElements DEF Types
<1> QED BY <1>1, <1>2 DEF Longer

\* A removal from another list does so too.
LEMMA DeleteLeavesLonger ==
  ASSUME Types, OfKind, NEW k \in Kind, NEW i \in 1 .. lists[k].len, DeleteAt(k, i),
         NEW j \in Kind, j # k
  PROVE  Longer(j)
<1>1. lists[j].len \in Nat /\ lists'[j] = lists[j] /\ ArrayOf(j)' = ArrayOf(j)
  BY ContentFacts, DeleteLeavesOthers
<1>2. ASSUME batch.kind = j PROVE arrays'[batch.array] = arrays[batch.array]
  <2>1. batch.array \in 1 .. Len(arrays) /\ batch.array # lists[k].array
    BY <1>2, BatchFacts DEF OfKind
  <2> QED BY <2>1, DeleteFacts DEF Types
<1> QED BY <1>1, <1>2 DEF Longer

\* Nothing is listed twice.
LEMMA DistinctInit == Init => Distinct
<1> SUFFICES ASSUME Init PROVE Distinct
  OBVIOUS
<1> DEFINE own(n, k) == [i \in 1 .. n[k] |-> <<k, i>>]
<1>1. PICK n \in Initial :
        /\ arrays = <<own(n, "flag"), own(n, "arg"), own(n, "command")>>
        /\ lists = [flag |-> [array |-> 1, len |-> n["flag"]],
                    arg |-> [array |-> 2, len |-> n["arg"]],
                    command |-> [array |-> 3, len |-> n["command"]]]
  BY DEF Init
<1>2. \A k \in Kind : n[k] \in Nat
  BY InitialAssumption DEF Kind
<1>3. \A k \in Kind : \A i \in 1 .. n[k] : own(n, k)[i] = <<k, i>>
  BY <1>2
<1> HIDE DEF own
<1>4. \A k \in Kind : lists[k].len = n[k] /\ ArrayOf(k) = own(n, k)
  BY <1>1 DEF Kind, ArrayOf, Array
<1>5. \A k \in Kind : \A i \in 1 .. lists[k].len : ArrayOf(k)[i] = <<k, i>>
  BY <1>3, <1>4
<1>6. \A i \in 1 .. lists["arg"].len : ArrayOf("arg")[i] # CommandArg
  <2> TAKE i \in 1 .. lists["arg"].len
  <2>1. ArrayOf("arg")[i] = <<"arg", i>> /\ i # 0
    BY <1>5 DEF Kind
  <2> QED BY <2>1 DEF CommandArg
<1> QED BY <1>5, <1>6 DEF Distinct

LEMMA DistinctStep ==
  ASSUME Types, Orderly, Fresh, Distinct, [Next]_vars
  PROVE  Distinct'
<1>1. ASSUME NEW k \in Kind, NEW t \in Target, KindOf(t) = k, AppendTo(k, t),
             \A i \in 1 .. lists[k].len : ArrayOf(k)[i] # t
      PROVE  \A j \in Kind : \A i, m \in 1 .. lists'[j].len :
               ArrayOf(j)'[i] = ArrayOf(j)'[m] => i = m
  <2> TAKE j \in Kind
  <2>1. CASE j # k
    BY <1>1, <2>1, AppendLeavesOthers DEF Distinct
  <2>2. CASE j = k
    <3>1. /\ lists[k].len \in Nat /\ lists'[k].len = lists[k].len + 1
          /\ \A i \in 1 .. lists[k].len : ArrayOf(k)'[i] = ArrayOf(k)[i]
          /\ ArrayOf(k)'[lists[k].len + 1] = t
      BY <1>1, ContentFacts, AppendFacts DEF Types
    <3>2. \A i \in 1 .. lists'[k].len : i \in 1 .. lists[k].len \/ i = lists[k].len + 1
      BY <3>1
    <3> QED BY <1>1, <2>2, <3>1, <3>2 DEF Distinct
  <2> QED BY <2>1, <2>2
<1>2. ASSUME NEW k \in Kind, AddTo(k) PROVE Distinct'
  <2>1. PICK t : t = <<k, created[k] + 1>>
    OBVIOUS
  <2>2. /\ AppendTo(k, t) /\ t \in Target /\ KindOf(t) = k /\ phase' = phase
        /\ created[k] \in Nat
    BY <1>2, <2>1, NewTarget DEF AddTo, UserCode, Types, Others
  <2>3. ~Known(t, created)
    BY <2>1, <2>2 DEF Known
  <2>4. \A i \in 1 .. lists[k].len : ArrayOf(k)[i] # t
    <3> TAKE i \in 1 .. lists[k].len
    <3>1. i \in 1 .. Len(ArrayOf(k)) /\ lists[k].array \in 1 .. Len(arrays)
          /\ ArrayOf(k) = arrays[lists[k].array] /\ ArrayOf(k)[i] \in Target
      BY ContentFacts
    <3> QED BY <2>3, <3>1, NilAssumption DEF Fresh
  <2>5. ASSUME phase = "uses", NEW i \in 1 .. lists'["arg"].len
        PROVE  ArrayOf("arg")'[i] # CommandArg
    <3>1. CASE k # "arg"
      BY <2>2, <2>5, <3>1, AppendLeavesOthers DEF Distinct, Kind
    <3>2. CASE k = "arg"
      <4>1. /\ lists[k].len \in Nat /\ lists'[k].len = lists[k].len + 1
            /\ \A m \in 1 .. lists[k].len : ArrayOf(k)'[m] = ArrayOf(k)[m]
            /\ ArrayOf(k)'[lists[k].len + 1] = t
        BY <2>2, ContentFacts, AppendFacts DEF Types
      <4>2. t # CommandArg
        BY <2>1, <2>2 DEF CommandArg
      <4>3. i \in 1 .. lists[k].len \/ i = lists[k].len + 1
        BY <2>5, <3>2, <4>1
      <4> QED BY <2>5, <3>2, <4>1, <4>2, <4>3 DEF Distinct
    <3> QED BY <3>1, <3>2
  <2> QED BY <1>1, <2>2, <2>4, <2>5 DEF Distinct
<1>3. ASSUME NEW k \in Kind, RemoveFrom(k) PROVE Distinct'
  <2>1. PICK d \in 1 .. lists[k].len : DeleteAt(k, d)
    BY <1>3 DEF RemoveFrom
  <2>2. phase' = phase
    BY <1>3 DEF RemoveFrom
  <2>3. /\ lists[k].len \in Nat \ {0} /\ lists'[k].len = lists[k].len - 1
        /\ \A i \in 1 .. Len(ArrayOf(k)) :
             ArrayOf(k)'[i] = IF i \in d .. lists[k].len - 1 THEN ArrayOf(k)[i + 1]
                              ELSE IF i = lists[k].len /\ k # "arg" THEN Nil
                              ELSE ArrayOf(k)[i]
        /\ lists[k].len <= Len(ArrayOf(k)) /\ Len(ArrayOf(k)) \in Nat
    BY <2>1, ContentFacts, DeleteFacts DEF Types
  <2>4. \A i \in 1 .. lists[k].len - 1 :
          ArrayOf(k)'[i] = IF i >= d THEN ArrayOf(k)[i + 1] ELSE ArrayOf(k)[i]
    <3> TAKE i \in 1 .. lists[k].len - 1
    <3>1. i \in 1 .. Len(ArrayOf(k)) /\ i # lists[k].len /\ (i >= d <=> i \in d .. lists[k].len - 1)
      BY <2>3
    <3> QED BY <2>3, <3>1
  <2>5. \A i \in 1 .. lists[k].len - 1 :
          \E m \in 1 .. lists[k].len :
            ArrayOf(k)'[i] = ArrayOf(k)[m] /\ m = IF i >= d THEN i + 1 ELSE i
    <3> TAKE i \in 1 .. lists[k].len - 1
    <3>1. i \in 1 .. lists[k].len /\ i + 1 \in 1 .. lists[k].len
      BY <2>3
    <3> QED BY <2>4, <3>1
  <2>6. ASSUME NEW j \in Kind, NEW i \in 1 .. lists'[j].len, NEW m \in 1 .. lists'[j].len,
               ArrayOf(j)'[i] = ArrayOf(j)'[m]
        PROVE  i = m
    <3>1. CASE j # k
      BY <2>1, <2>6, <3>1, DeleteLeavesOthers DEF Distinct
    <3>2. CASE j = k
      <4>1. PICK a \in 1 .. lists[k].len :
              ArrayOf(k)'[i] = ArrayOf(k)[a] /\ a = IF i >= d THEN i + 1 ELSE i
        BY <2>3, <2>5, <3>2
      <4>2. PICK b \in 1 .. lists[k].len :
              ArrayOf(k)'[m] = ArrayOf(k)[b] /\ b = IF m >= d THEN m + 1 ELSE m
        BY <2>3, <2>5, <3>2
      <4>3. a = b
        BY <2>6, <3>2, <4>1, <4>2 DEF Distinct
      <4> QED BY <2>3, <3>2, <4>1, <4>2, <4>3
    <3> QED BY <3>1, <3>2
  <2>7. ASSUME phase = "uses", NEW i \in 1 .. lists'["arg"].len
        PROVE  ArrayOf("arg")'[i] # CommandArg
    <3>1. CASE k # "arg"
      BY <2>1, <2>7, <3>1, DeleteLeavesOthers DEF Distinct, Kind
    <3>2. CASE k = "arg"
      <4>1. \E m \in 1 .. lists[k].len : ArrayOf(k)'[i] = ArrayOf(k)[m]
        BY <2>3, <2>5, <2>7, <3>2
      <4> QED BY <2>7, <3>2, <4>1 DEF Distinct
    <3> QED BY <3>1, <3>2
  <2> QED BY <2>2, <2>6, <2>7 DEF Distinct
<1>4. CASE EnsureSubcommands
  <2>1. phase = "uses" /\ phase' # "uses"
    BY <1>4 DEF EnsureSubcommands
  <2>2. CASE lists["command"].len > 0
    <3>1. CommandArg \in Target /\ KindOf(CommandArg) = "arg" /\ "arg" \in Kind
      BY BoundAssumption DEF CommandArg, Target, KindOf, Kind
    <3>2. \A i \in 1 .. lists["arg"].len : ArrayOf("arg")[i] # CommandArg
      BY <2>1 DEF Distinct
    <3> QED BY <1>1, <1>4, <2>1, <2>2, <3>1, <3>2 DEF EnsureSubcommands, Distinct
  <2>3. CASE ~(lists["command"].len > 0)
    BY <1>4, <2>1, <2>3 DEF EnsureSubcommands, slices, Distinct, ArrayOf, Array
  <2> QED BY <2>2, <2>3
<1>5. ASSUME UNCHANGED slices, phase' = "uses" => phase = "uses" PROVE Distinct'
  BY <1>5 DEF slices, Distinct, ArrayOf, Array
<1>6. CASE UsesFail \/ BeginRound \/ NextChild \/ EndRound \/ ChildDone \/ ChildRenamed
           \/ HooksReturn \/ ChildFails \/ UNCHANGED vars
  <2>1. UNCHANGED slices
    BY <1>6 DEF UsesFail, BeginRound, NextChild, EndRound, ChildDone, ChildRenamed,
                HooksReturn, ChildFails, vars
  <2>2. phase' = "uses" => phase = "uses"
    BY <1>6 DEF UsesFail, BeginRound, NextChild, EndRound, ChildDone, ChildRenamed,
                HooksReturn, ChildFails, vars, NextPhase, InRounds, Kind
  <2> QED BY <1>5, <2>1, <2>2
<1> QED BY <1>2, <1>3, <1>4, <1>6 DEF Next

\* User code adds and removes.
LEMMA ChangesKeepPlaces ==
  ASSUME Types, Types', Orderly, Fresh, OfKind, Turns, NEW k \in Kind \ cut', InPlace(k),
         (\E j \in Kind : AddTo(j) \/ RemoveFrom(j)) \/ EnsureSubcommands
  PROVE  InPlace(k)'
<1>1. ASSUME NEW j \in Kind, AddTo(j) PROVE InPlace(k)'
  <2>1. PICK t : t = <<j, created[j] + 1>>
    OBVIOUS
  <2>2. /\ AppendTo(j, t) /\ t \in Target /\ KindOf(t) = j
        /\ created[j] \in Nat /\ UNCHANGED <<start, batch, child, log, shared, phase>>
    BY <1>1, <2>1, NewTarget DEF AddTo, UserCode, round, Types, Others
  <2>3. late' = IF phase = "command" /\ j # "command" THEN late \cup {t} ELSE late
    BY <1>1, <2>1 DEF AddTo
  <2>4. ~Known(t, created)
    BY <2>1, <2>2 DEF Known
  <2>5. \A i \in 1 .. lists[k].len : ArrayOf(k)[i] # t
    <3> TAKE i \in 1 .. lists[k].len
    <3>1. i \in 1 .. Len(ArrayOf(k)) /\ lists[k].array \in 1 .. Len(arrays)
          /\ ArrayOf(k) = arrays[lists[k].array] /\ ArrayOf(k)[i] \in Target
      BY ContentFacts
    <3> QED BY <2>4, <3>1, NilAssumption DEF Fresh
  <2>6. Longer(k)
    BY <2>2, AppendLengthens
  <2>7. phase # "done"
    BY <1>1 DEF AddTo, UserCode, Types, Round, InRounds, Kind
  <2>8. ASSUME phase = "command", k # "command", NEW i \in 1 .. lists'[k].len, i > lists[k].len
        PROVE  ArrayOf(k)'[i] \in late'
    <3>1. CASE j # k
      BY <2>2, <2>8, <3>1, AppendLeavesOthers, ContentFacts
    <3>2. CASE j = k
      <4>1. /\ lists[k].len \in Nat /\ lists'[k].len = lists[k].len + 1
            /\ ArrayOf(k)'[lists[k].len + 1] = t
        BY <2>2, <3>2, ContentFacts, AppendFacts DEF Types
      <4>2. i = lists[k].len + 1
        BY <2>8, <4>1
      <4> QED BY <2>3, <2>8, <3>2, <4>1, <4>2
    <3> QED BY <3>1, <3>2
  <2> QED BY <2>2, <2>3, <2>5, <2>6, <2>7, <2>8, LongerStaysInPlace
<1>2. ASSUME NEW j \in Kind, RemoveFrom(j) PROVE InPlace(k)'
  <2>1. PICK i \in 1 .. lists[j].len : DeleteAt(j, i)
    BY <1>2 DEF RemoveFrom
  <2>2. /\ UNCHANGED <<start, batch, child, log, shared, phase, late>>
        /\ phase # "uses" => j \in cut'
    BY <1>2 DEF RemoveFrom, round
  <2>3. CASE phase = "uses"
    <3>1. AtFirst'
      BY <2>2, <2>3 DEF Turns, Orderly, AtFirst
    <3> QED BY <3>1, InNextPlaceAtFirst
  <2>4. CASE phase # "uses"
    <3>1. Longer(k) /\ lists'[k].len = lists[k].len
      BY <2>1, <2>2, <2>4, DeleteLeavesLonger, DeleteLeavesOthers
    <3>2. phase # "done"
      BY <1>2 DEF RemoveFrom, UserCode, Types, Round, InRounds, Kind
    <3>3. \A n \in 1 .. lists'[k].len : ~(n > lists[k].len)
      BY <3>1, ContentFacts
    <3> QED BY <2>2, <3>1, <3>2, <3>3, LongerStaysInPlace
  <2> QED BY <2>3, <2>4
<1>3. CASE EnsureSubcommands
  <2>1. /\ phase = "uses" /\ phase' = "flag" /\ UNCHANGED <<start, batch, log>>
    BY <1>3 DEF EnsureSubcommands, round, history
  <2>2. AtFirst'
    BY <2>1 DEF Turns, Orderly, AtFirst
  <2> QED BY <2>2, InNextPlaceAtFirst
<1> QED BY <1>1, <1>2, <1>3

\* What is set up next stands behind what was set up before.
LEMMA NextInOrder ==
  ASSUME Types, Types', Turns, NEW k \in Kind, InPlace(k), child # Nobody,
         log' = Append(log, child), UNCHANGED <<arrays, lists, shared, late>>
  PROVE  InOrder(k)'
<1>1. /\ Len(log) \in Nat /\ Len(log') = Len(log) + 1 /\ log'[Len(log) + 1] = child
      /\ \A n \in 1 .. Len(log) : log'[n] = log[n]
  <2>1. log \in Seq(Target) /\ child \in Target
    BY DEF Types, Others, Round
  <2> QED BY <2>1, AppendProperties
<1>2. lists'[k] = lists[k] /\ ArrayOf(k)' = ArrayOf(k)
  BY DEF ArrayOf, Array
<1>3. OrderedIn(k)
  BY OrderIsOfArray DEF InPlace
<1>4. ASSUME NEW n \in 1 .. Len(log), KindOf(log[n]) = k
      PROVE  \E j \in 1 .. lists[k].len :
               /\ log'[n] = ArrayOf(k)[j] /\ ArrayOf(k)[j] \notin shared \cup late
               /\ \A i \in 1 .. lists[k].len : i < j /\ ArrayOf(k)[i] \notin shared \cup late =>
                    \E m \in 1 .. n - 1 : log'[m] = ArrayOf(k)[i]
  <2>1. \A m \in 1 .. n - 1 : log'[m] = log[m]
    BY <1>1
  <2> QED BY <1>1, <1>3, <1>4, <2>1 DEF OrderedIn
<1>5. ASSUME KindOf(child) = k
      PROVE  \E j \in 1 .. lists[k].len :
               /\ child = ArrayOf(k)[j] /\ ArrayOf(k)[j] \notin shared \cup late
               /\ \A i \in 1 .. lists[k].len : i < j /\ ArrayOf(k)[i] \notin shared \cup late =>
                    \E m \in 1 .. Len(log) : log'[m] = ArrayOf(k)[i]
  <2>1. batch.kind = k /\ phase \in Kind /\ batch.from <= batch.to
    BY <1>5 DEF Turns, Types, Round, InRounds
  <2>2. /\ batch.to = start[k] /\ start[k] <= lists[k].len /\ child = ArrayOf(k)[batch.from]
        /\ \A i \in 1 .. batch.from - 1 : ArrayOf(k)[i] \in Range(log) \cup shared
    BY <2>1 DEF InPlace, Handled
  <2>3. /\ batch.from \in 1 .. lists[k].len
        /\ \A i \in 1 .. lists[k].len : i < batch.from => i \in 1 .. batch.from - 1
    BY <2>1, <2>2, BatchFacts, ContentFacts
  <2>4. child \notin shared \cup late
    <3>1. phase = k
      BY <2>1 DEF Turns, InRounds, Kind
    <3>2. child \notin late
      BY <1>5, <3>1 DEF Turns, Kind
    <3> QED BY <3>2 DEF Turns
  <2>5. ASSUME NEW i \in 1 .. lists[k].len, i < batch.from, ArrayOf(k)[i] \notin shared \cup late
        PROVE  \E m \in 1 .. Len(log) : log'[m] = ArrayOf(k)[i]
    <3>1. ArrayOf(k)[i] \in Range(log)
      BY <2>2, <2>3, <2>5
    <3> QED BY <1>1, <3>1, LogFacts
  <2> QED BY <2>2, <2>3, <2>4, <2>5
<1>6. ASSUME NEW n \in 1 .. Len(log'), KindOf(log'[n]) = k
      PROVE  \E j \in 1 .. lists[k].len :
               /\ log'[n] = ArrayOf(k)[j] /\ ArrayOf(k)[j] \notin shared \cup late
               /\ \A i \in 1 .. lists[k].len : i < j /\ ArrayOf(k)[i] \notin shared \cup late =>
                    \E m \in 1 .. n - 1 : log'[m] = ArrayOf(k)[i]
  <2>1. CASE n \in 1 .. Len(log)
    BY <1>1, <1>4, <1>6, <2>1
  <2>2. CASE n = Len(log) + 1
    <3>1. log'[n] = child /\ n - 1 = Len(log)
      BY <1>1, <2>2
    <3> QED BY <1>5, <1>6, <3>1
  <2> QED BY <1>1, <2>1, <2>2
<1>7. OrderedIn(k)'
  BY <1>2, <1>6 DEF OrderedIn
<1> QED BY <1>7, OrderIsOfNextArray

\* A child which has been set up is passed.
LEMMA ChildPassed ==
  ASSUME Types, Turns, NEW k \in Kind, InPlace(k), child \in Range(log') \cup shared,
         child' = Nobody, child # Nobody, Range(log) \subseteq Range(log'),
         batch' = [batch EXCEPT !.from = @ + 1],
         UNCHANGED <<arrays, lists, start, phase, shared, late>>, InOrder(k)'
  PROVE  InPlace(k)'
<1>1. /\ lists'[k] = lists[k] /\ ArrayOf(k)' = ArrayOf(k) /\ batch.from <= batch.to
      /\ batch'.kind = batch.kind /\ batch'.array = batch.array /\ batch'.to = batch.to
      /\ batch'.from = batch.from + 1
  BY DEF ArrayOf, Array, Types, Round
<1>2. \A i \in 1 .. Handled(k)' : ArrayOf(k)[i] \in Range(log') \cup shared
  <2>1. CASE batch.kind = k
    <3>1. /\ Handled(k)' = batch.from /\ batch.from \in Nat
          /\ child = ArrayOf(k)[batch.from]
          /\ \A i \in 1 .. batch.from - 1 : ArrayOf(k)[i] \in Range(log) \cup shared
      BY <1>1, <2>1, BatchFacts DEF Handled, InPlace
    <3>2. \A i \in 1 .. batch.from : i \in 1 .. batch.from - 1 \/ i = batch.from
      BY <3>1
    <3> QED BY <3>1, <3>2
  <2>2. CASE batch.kind # k
    BY <1>1, <2>2 DEF Handled, InPlace
  <2> QED BY <2>1, <2>2
<1> QED BY <1>1, <1>2 DEF InPlace

\* The rounds go on.
LEMMA RoundsKeepPlaces ==
  ASSUME Types, Types', Orderly, Turns, Emptied, NEW k \in Kind \ cut', InPlace(k),
         \/ UsesFail \/ BeginRound \/ NextChild \/ EndRound
         \/ ChildDone \/ ChildRenamed \/ HooksReturn \/ ChildFails \/ UNCHANGED vars
  PROVE  InPlace(k)'
<1>1. /\ UNCHANGED <<arrays, lists, shared, late>>
      /\ lists'[k] = lists[k] /\ ArrayOf(k)' = ArrayOf(k)
  BY DEF UsesFail, BeginRound, NextChild, EndRound, ChildDone, ChildRenamed, HooksReturn,
         ChildFails, vars, slices, history, ArrayOf, Array
<1>2. log' = log => InOrder(k)'
  <2> SUFFICES ASSUME log' = log PROVE InOrder(k)'
    OBVIOUS
  <2>1. OrderedIn(k)
    BY OrderIsOfArray DEF InPlace
  <2>2. OrderedIn(k)'
    BY <1>1, <2>1 DEF OrderedIn
  <2> QED BY <2>2, OrderIsOfNextArray
<1>3. CASE BeginRound
  <2>1. /\ phase \in Kind /\ batch = NoBatch /\ child = Nobody /\ child' = Nobody
        /\ log' = log
    BY <1>3 DEF BeginRound, InRounds, history
  <2>2. Handled(k) = start[k]
    BY <2>1 DEF Handled, NoBatch, Kind
  <2>3. CASE start[phase] > lists[phase].len
    <3>1. phase' = "panicked" /\ UNCHANGED <<start, batch>>
      BY <1>3, <2>3 DEF BeginRound, round
    <3>2. Handled(k)' = Handled(k)
      BY <3>1 DEF Handled
    <3> QED BY <1>1, <1>2, <2>1, <3>1, <3>2 DEF InPlace
  <2>4. CASE ~(start[phase] > lists[phase].len)
    <3>1. /\ phase' = phase
          /\ batch' = [kind |-> phase, array |-> lists[phase].array,
                       from |-> start[phase] + 1, to |-> lists[phase].len]
          /\ start' = [start EXCEPT ![phase] = lists[phase].len]
      BY <1>3, <2>4 DEF BeginRound, NextStart
    <3>2. CASE k = phase
      <4>1. /\ start'[k] = lists[k].len /\ batch'.to = lists[k].len
            /\ batch'.from = start[k] + 1 /\ ArrayOf(k) = arrays[batch'.array]
            /\ lists[k].len \in Nat /\ start[k] \in Nat
        BY <3>1, <3>2, ContentFacts
      <4>2. Handled(k)' = start[k]
        BY <3>1, <3>2, <4>1 DEF Handled
      <4>3. \A i \in 1 .. lists[k].len : ~(i > start'[k])
        BY <4>1
      <4> QED BY <1>1, <1>2, <2>1, <2>2, <4>1, <4>2, <4>3 DEF InPlace
    <3>3. CASE k # phase
      <4>1. start'[k] = start[k] /\ batch'.kind # k
        BY <2>1, <3>1, <3>3, ContentFacts
      <4>2. Handled(k)' = start[k]
        BY <4>1 DEF Handled
      <4> QED BY <1>1, <1>2, <2>1, <2>2, <3>1, <4>1, <4>2 DEF InPlace
    <3> QED BY <3>2, <3>3
  <2> QED BY <2>3, <2>4
<1>4. CASE NextChild
  <2>1. /\ phase \in Kind /\ child = Nobody /\ batch.from <= batch.to /\ log' = log
        /\ start' = start
    BY <1>4 DEF NextChild, InRounds, history
  <2>2. PICK t : t = arrays[batch.array][batch.from]
    OBVIOUS
  <2>3. batch.kind = k => t = ArrayOf(k)[batch.from]
    <3>1. batch.from \in 1 .. batch.to
      BY <2>1, BatchFacts
    <3> QED BY <2>2, <3>1 DEF InPlace
  <2>4. CASE phase' = "panicked" /\ UNCHANGED <<batch, child>>
    <3>1. Handled(k)' = Handled(k)
      BY <2>1, <2>4 DEF Handled
    <3> QED BY <1>1, <1>2, <2>1, <2>4, <3>1 DEF InPlace
  <2>5. CASE Initialized(t) /\ batch' = [batch EXCEPT !.from = @ + 1] /\ UNCHANGED <<phase, child>>
    <3>1. /\ batch'.kind = batch.kind /\ batch'.array = batch.array /\ batch'.to = batch.to
          /\ batch'.from = batch.from + 1 /\ batch.from \in Nat \ {0}
      BY <2>5, BatchFacts DEF Types, Round
    <3>2. t \in Range(log) \cup shared
      BY <2>5 DEF Initialized
    <3>3. \A i \in 1 .. Handled(k)' : ArrayOf(k)[i] \in Range(log) \cup shared
      <4>1. CASE batch.kind = k
        <5>1. \A i \in 1 .. batch.from : i \in 1 .. batch.from - 1 \/ i = batch.from
          BY <3>1
        <5>2. /\ Handled(k)' = batch.from
              /\ \A i \in 1 .. batch.from - 1 : ArrayOf(k)[i] \in Range(log) \cup shared
          BY <3>1, <4>1 DEF Handled, InPlace
        <5> QED BY <2>3, <3>2, <4>1, <5>1, <5>2
      <4>2. CASE batch.kind # k
        BY <2>1, <3>1, <4>2 DEF Handled, InPlace
      <4> QED BY <4>1, <4>2
    <3> QED BY <1>1, <1>2, <2>1, <2>5, <3>1, <3>3 DEF InPlace
  <2>6. CASE child' = t /\ UNCHANGED <<phase, batch>>
    <3>1. Handled(k)' = Handled(k)
      BY <2>1, <2>6 DEF Handled
    <3> QED BY <1>1, <1>2, <2>1, <2>3, <2>6, <3>1 DEF InPlace
  <2> QED BY <1>4, <2>2, <2>4, <2>5, <2>6 DEF NextChild
<1>5. CASE EndRound
  <2>1. /\ phase \in Kind /\ child' = Nobody /\ batch' = NoBatch /\ phase' = NextPhase
        /\ batch.from > batch.to /\ UNCHANGED <<start, log>> /\ batch.kind = phase
    BY <1>5 DEF EndRound, InRounds, history, Turns
  <2>2. Handled(k) = start[k]
    <3>1. CASE batch.kind = k
      <4>1. batch.to = start[k] /\ batch.from = batch.to + 1 /\ batch.to \in Nat
        BY <2>1, <3>1, BatchFacts DEF InPlace
      <4> QED BY <3>1, <4>1 DEF Handled
    <3>2. CASE batch.kind # k
      BY <3>2 DEF Handled
    <3> QED BY <3>1, <3>2
  <2>3. batch'.kind # k /\ Handled(k)' = start[k]
    BY <2>1 DEF Handled, NoBatch, Kind
  <2>4. ASSUME phase' \in {"command", "done"}, k # "command", NEW i \in 1 .. lists[k].len,
               i > start[k]
        PROVE  ArrayOf(k)[i] \in late
    <3>1. CASE phase = "command"
      BY <2>4, <3>1 DEF InPlace
    <3>2. CASE phase # "command"
      <4>1. phase = "arg" /\ ~more["flag"] /\ ~more["arg"]
        BY <2>1, <2>4, <3>2 DEF NextPhase, AnyMore, Kind
      <4>2. start["flag"] = lists["flag"].len /\ start["arg"] = lists["arg"].len
        BY <2>1, <4>1 DEF Emptied, InRounds, Kind
      <4>3. start[k] = lists[k].len
        BY <2>4, <4>2 DEF Kind
      <4>4. FALSE
        BY <2>4, <4>3, ContentFacts
      <4> QED BY <4>4
    <3> QED BY <3>1, <3>2
  <2> QED BY <1>1, <1>2, <2>1, <2>2, <2>3, <2>4 DEF InPlace
<1>6. CASE ChildDone
  <2>1. /\ child # Nobody /\ child \in Target /\ log' = Append(log, child) /\ child' = Nobody
        /\ batch' = [batch EXCEPT !.from = @ + 1] /\ UNCHANGED <<start, phase>>
    BY <1>6 DEF ChildDone, LeaveChild, Types, Round
  <2>2. Range(log') = Range(log) \cup {child}
    BY <2>1, AppendRange DEF Types, Others
  <2>3. InOrder(k)'
    BY <1>1, <2>1, NextInOrder
  <2> QED BY <1>1, <2>1, <2>2, <2>3, ChildPassed
<1>7. CASE ChildRenamed
  <2>1. /\ child # Nobody /\ child \in Target /\ log' = Append(log, child)
        /\ UNCHANGED <<start, phase, child, batch>>
    BY <1>7 DEF ChildRenamed, round, Types, Round
  <2>2. Range(log') = Range(log) \cup {child}
    BY <2>1, AppendRange DEF Types, Others
  <2>3. InOrder(k)'
    BY <1>1, <2>1, NextInOrder
  <2>4. Handled(k)' = Handled(k)
    BY <2>1 DEF Handled
  <2> QED BY <1>1, <2>1, <2>2, <2>3, <2>4 DEF InPlace
<1>8. CASE HooksReturn
  <2>1. /\ child # Nobody /\ child \in Range(log) /\ child' = Nobody
        /\ batch' = [batch EXCEPT !.from = @ + 1] /\ UNCHANGED <<start, phase, log>>
    BY <1>8 DEF HooksReturn, LeaveChild, history, Turns
  <2> QED BY <1>1, <1>2, <2>1, ChildPassed
<1>9. CASE UsesFail \/ ChildFails \/ UNCHANGED vars
  <2>1. /\ UNCHANGED <<start, batch, log>> /\ child' \in {child, Nobody}
        /\ phase' = phase \/ phase' = "failed"
    BY <1>9 DEF UsesFail, ChildFails, vars, round, history
  <2>2. Handled(k)' = Handled(k)
    BY <2>1 DEF Handled
  <2> QED BY <1>1, <1>2, <2>1, <2>2 DEF InPlace
<1> QED BY <1>3, <1>4, <1>5, <1>6, <1>7, <1>8, <1>9

\* The inductive invariant of the order: kinds from which something is removed
\* during the rounds leave it.
IInv == Types /\ Orderly /\ Fresh /\ OfKind /\ Commands /\ Ordered

LEMMA IInvInit == Init => IInv
<1> SUFFICES ASSUME Init PROVE IInv
  OBVIOUS
<1>1. Types /\ Orderly /\ Fresh /\ OfKind /\ Commands
  BY TypesInit, OrderlyInit, CommandsInit
<1>2. Turns /\ Emptied /\ Distinct
  BY TurnsInit, EmptiedInit, DistinctInit
<1>3. AtFirst
  BY DEF Init, AtFirst
<1>4. \A k \in Kind \ cut : InPlace(k)
  BY <1>1, <1>3, InPlaceAtFirst
<1> QED BY <1>1, <1>2, <1>4 DEF IInv, Ordered

LEMMA IInvStep == IInv /\ [Next]_vars => IInv'
<1> SUFFICES ASSUME IInv, [Next]_vars PROVE IInv'
  OBVIOUS
<1>1. Types /\ Orderly /\ Fresh /\ OfKind /\ Commands /\ Turns /\ Emptied /\ Distinct
  BY DEF IInv, Ordered
<1>2. Types' /\ Orderly' /\ Fresh' /\ OfKind'
  BY <1>1, TypesStep, OrderlyStep, FreshStep, OfKindStep
<1>3. Commands'
  BY <1>1, ChangesKeepCommands, RoundsKeepCommands DEF Next
<1>4. Turns' /\ Emptied' /\ Distinct'
  BY <1>1, TurnsStep, EmptiedStep, DistinctStep
<1>5. cut \subseteq cut'
  BY DEF Next, AddTo, RemoveFrom, UsesFail, EnsureSubcommands, BeginRound, NextChild, EndRound,
         ChildDone, ChildRenamed, HooksReturn, ChildFails, vars, history
<1>6. ASSUME NEW k \in Kind \ cut' PROVE InPlace(k)'
  <2>1. InPlace(k)
    BY <1>5 DEF IInv, Ordered
  <2> QED BY <1>1, <1>2, <2>1, ChangesKeepPlaces, RoundsKeepPlaces DEF Next
<1> QED BY <1>2, <1>3, <1>4, <1>6 DEF IInv, Ordered

LEMMA IInvImplies == IInv => InitializedInOrder
<1> SUFFICES ASSUME IInv PROVE InitializedInOrder
  OBVIOUS
<1>1. Types /\ Turns /\ Emptied /\ Distinct
  BY DEF IInv, Ordered
<1>2. IsInjective(log)
  BY DEF IInv, Commands, Once
<1>3. ASSUME NEW k \in Kind PROVE IsInjective(Content(k))
  <2>1. \A i, j \in 1 .. lists[k].len : Content(k)[i] = Content(k)[j] => i = j
    BY <1>1, ContentFacts DEF Distinct
  <2> QED BY <1>1, <2>1, ContentFacts DEF IsInjective
<1>4. ASSUME NEW k \in Kind \ cut PROVE InOrder(k)
  BY DEF IInv, Ordered, InPlace
<1>5. ASSUME NEW k \in Kind \ cut, phase = "done" PROVE Complete(k)
  <2>1. InPlace(k)
    BY DEF IInv, Ordered
  <2>2. Handled(k) = start[k] /\ start[k] \in Nat /\ lists[k].len \in Nat
    BY <1>1, <1>5, ContentFacts DEF Turns, Handled, NoBatch, Kind
  <2>3. ASSUME NEW i \in Places(k) PROVE Content(k)[i] \in Range(log)
    <3>1. /\ i \in 1 .. lists[k].len /\ Content(k)[i] = ArrayOf(k)[i]
          /\ ArrayOf(k)[i] \notin shared /\ ArrayOf(k)[i] \notin late
      BY <1>1, ContentFacts DEF Places
    <3>2. ~(i > start[k])
      <4>1. CASE k = "command"
        BY <1>1, <1>5, <2>2, <3>1, <4>1 DEF Emptied
      <4>2. CASE k # "command"
        BY <1>5, <2>1, <3>1, <4>2 DEF InPlace
      <4> QED BY <4>1, <4>2
    <3>3. i \in 1 .. Handled(k)
      BY <2>2, <3>1, <3>2
    <3> QED BY <2>1, <3>1, <3>3 DEF InPlace
  <2> QED BY <2>3 DEF Complete
<1>6. phase = "panicked" => cut # {}
  BY DEF IInv, Orderly
<1> QED BY <1>2, <1>3, <1>4, <1>5, <1>6 DEF InitializedInOrder

\* Whatever user code adds on the way, what it does not remove from is set up
\* once, in the order of the list, and completely when the loops are done
\* (initializeFlagsArgs and initializeSubcommands, command.go:726-790).
THEOREM InitializedCorrect == Spec => []InitializedInOrder
BY IInvInit, IInvStep, IInvImplies, PTL DEF Spec

=============================================================================
