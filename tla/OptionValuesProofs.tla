------------------------- MODULE OptionValuesProofs -------------------------
(***************************************************************************)
(* Proofs about OptionValues for any option, occurrences and chain of      *)
(* commands: what the value is when options are triggered, that the values *)
(* of occurrences are their own, and how often the Action is called.       *)
(***************************************************************************)
EXTENDS OptionValues, SequenceTheorems, WellFoundedInduction, TLAPS

-----------------------------------------------------------------------------
(* Sequences *)

LEMMA SubSeqGrows ==
  ASSUME NEW S, NEW t \in Seq(S), NEW k \in 1 .. Len(t)
  PROVE  /\ SubSeq(t, 1, k - 1) \in Seq(S)
         /\ SubSeq(t, 1, k) = Append(SubSeq(t, 1, k - 1), t[k])
<1> DEFINE before == SubSeq(t, 1, k - 1)
           now == SubSeq(t, 1, k)
<1>1. Len(t) \in Nat /\ k \in Nat /\ \A j \in 1 .. Len(t) : t[j] \in S
  BY LenProperties, ElementOfSeq
<1>2. (\A j \in 1 .. k : t[j] \in S) /\ (\A j \in 1 .. k - 1 : t[j] \in S)
  BY <1>1
<1>3. before \in Seq(S) /\ Len(before) = k - 1 /\ \A j \in 1 .. k - 1 : before[j] = t[j]
  BY <1>1, <1>2, SubSeqProperties
<1>4. now \in Seq(S) /\ Len(now) = k /\ \A j \in 1 .. k : now[j] = t[j]
  BY <1>1, <1>2, SubSeqProperties
<1>5. t[k] \in S
  BY <1>1
<1> DEFINE more == Append(before, t[k])
<1> HIDE DEF before, now
<1>6. more \in Seq(S) /\ Len(more) = k /\ more[k] = t[k]
      /\ \A j \in 1 .. k - 1 : more[j] = t[j]
  BY <1>1, <1>3, <1>5, AppendProperties
<1> HIDE DEF more
<1>7. \A j \in 1 .. k : now[j] = more[j]
  BY <1>1, <1>4, <1>6
<1>8. now = more
  BY <1>4, <1>6, <1>7, SeqEqual
<1> QED BY <1>3, <1>8 DEF before, now, more

LEMMA ConcatAppends ==
  ASSUME NEW S, NEW s \in Seq(S), NEW t \in Seq(S), NEW x \in S
  PROVE  s \o t \in Seq(S) /\ s \o Append(t, x) = Append(s \o t, x)
<1>1. s \o t \in Seq(S) /\ <<x>> \in Seq(S)
  BY ConcatProperties
<1>2. Append(t, x) = t \o <<x>> /\ Append(s \o t, x) = (s \o t) \o <<x>>
  BY <1>1, AppendIsConcat
<1> QED BY <1>1, <1>2, ConcatAssociative
-----------------------------------------------------------------------------
(* Numbers *)

\* The least element of a set of natural numbers: induction over numbers.
LEMMA LeastNumber ==
  ASSUME NEW S \in SUBSET Nat, S # {}
  PROVE  \E x \in S : \A m \in S : x <= m
<1> DEFINE R == OpToRel(<, Nat)
<1>1. IsWellFoundedOn(R, Nat)
  BY NatLessThanWellFounded
<1>2. \A m, x \in Nat : m < x => <<m, x>> \in R
  BY DEF OpToRel
<1> HIDE DEF R
<1>3. PICK x \in S : \A m \in S : ~(<<m, x>> \in R)
  BY <1>1, WFMin
<1>4. ASSUME NEW m \in S, m < x PROVE FALSE
  <2>1. m \in Nat /\ x \in Nat
    OBVIOUS
  <2>2. <<m, x>> \in R
    BY <2>1, <1>4, <1>2, Zenon
  <2> QED BY <2>2, <1>3
<1> QED BY <1>4

-----------------------------------------------------------------------------
(* Setting several words *)

\* The words which can be set.
Fine == {w \in Word : ~Fails(w)}

\* What is stored after each of the words, as optionSetMany defines it.
IsSetting(f, v, words, m) ==
  f = [k \in 0 .. m |-> IF k = 0 THEN v
                        ELSE IF \E j \in 1 .. k : Fails(words[j]) THEN f[k - 1]
                        ELSE optionSet(f[k - 1], words[k])]

\* The function which optionSetMany defines by recursion exists.
LEMMA SettingDefined ==
  ASSUME NEW v, NEW words, NEW m \in Nat
  PROVE  \E f : IsSetting(f, v, words, m)
<1> DEFINE Open == {k \in Nat : ~ \E f : IsSetting(f, v, words, k)}
<1>1. SUFFICES ASSUME Open # {} PROVE FALSE
  OBVIOUS
<1>2. PICK k \in Open : \A j \in Open : k <= j
  BY <1>1, LeastNumber
<1>3. CASE k = 0
  <2>1. IsSetting([i \in 0 .. 0 |-> v], v, words, 0)
    BY DEF IsSetting
  <2> QED BY <2>1, <1>3
<1>4. CASE k > 0
  <2>1. k - 1 \in Nat /\ k - 1 \notin Open
    BY <1>2, <1>4
  <2>2. PICK g : IsSetting(g, v, words, k - 1)
    BY <2>1
  <2> DEFINE last == IF \E j \in 1 .. k : Fails(words[j]) THEN g[k - 1]
                     ELSE optionSet(g[k - 1], words[k])
             f == [i \in 0 .. k |-> IF i = k THEN last ELSE g[i]]
  <2>3. \A i \in 0 .. k - 1 :
          g[i] = IF i = 0 THEN v ELSE IF \E j \in 1 .. i : Fails(words[j]) THEN g[i - 1]
                 ELSE optionSet(g[i - 1], words[i])
    BY <2>2 DEF IsSetting
  <2>4. \A i \in 0 .. k :
          f[i] = IF i = 0 THEN v ELSE IF \E j \in 1 .. i : Fails(words[j]) THEN f[i - 1]
                 ELSE optionSet(f[i - 1], words[i])
    BY <2>1, <2>3, <1>4
  <2>5. IsSetting(f, v, words, k)
    BY <2>4 DEF IsSetting
  <2> QED BY <2>5
<1> QED BY <1>3, <1>4

\* One word after the other.
LEMMA SettingUnfolds ==
  ASSUME NEW f, NEW v, NEW words, NEW m \in Nat, IsSetting(f, v, words, m)
  PROVE  /\ f[0] = v
         /\ \A k \in 1 .. m : (\A j \in 1 .. k : ~Fails(words[j])) =>
                                f[k] = optionSet(f[k - 1], words[k])
         /\ \A k \in 1 .. m : (\E j \in 1 .. k : Fails(words[j])) => f[k] = f[k - 1]
  BY DEF IsSetting

LEMMA ManyIsSetting ==
  ASSUME NEW v, NEW words, Len(words) \in Nat
  PROVE  \E f : IsSetting(f, v, words, Len(words)) /\ optionSetMany(v, words) = f[Len(words)]
<1> DEFINE f == CHOOSE g : IsSetting(g, v, words, Len(words))
<1>1. IsSetting(f, v, words, Len(words))
  BY SettingDefined
<1>2. optionSetMany(v, words) = f[Len(words)]
  BY Zenon DEF optionSetMany, IsSetting
<1> QED BY <1>1, <1>2

LEMMA SetNone ==
  ASSUME NEW v
  PROVE  optionSetMany(v, <<>>) = v
<1>1. Len(<<>>) = 0
  OBVIOUS
<1>2. PICK f : IsSetting(f, v, <<>>, 0) /\ optionSetMany(v, <<>>) = f[0]
  BY <1>1, ManyIsSetting
<1> QED BY <1>2, SettingUnfolds

\* A word which cannot be set leaves the value.
LEMMA SetOne ==
  ASSUME NEW v, NEW w \in Word
  PROVE  optionSetMany(v, <<w>>) = IF Fails(w) THEN v ELSE optionSet(v, w)
<1> DEFINE words == <<w>>
<1>1. Len(words) = 1 /\ words[1] = w
  OBVIOUS
<1> HIDE DEF words
<1>2. \E f : IsSetting(f, v, words, Len(words)) /\ optionSetMany(v, words) = f[Len(words)]
  <2>1. Len(words) \in Nat
    BY <1>1
  <2> QED BY <2>1, ManyIsSetting, Zenon
<1>3. PICK f : IsSetting(f, v, words, 1) /\ optionSetMany(v, words) = f[1]
  BY <1>1, <1>2
<1>4. 1 \in 1 .. 1 /\ \A j \in 1 .. 1 : words[j] = w
  BY <1>1
<1>5. f[0] = v
  BY <1>3, SettingUnfolds
<1>6. CASE Fails(w)
  <2>1. f[1] = f[1 - 1]
    BY <1>3, <1>4, <1>6, SettingUnfolds
  <2> QED BY <2>1, <1>3, <1>5, <1>6 DEF words
<1>7. CASE ~Fails(w)
  <2>1. f[1] = optionSet(f[1 - 1], words[1])
    BY <1>3, <1>4, <1>7, SettingUnfolds
  <2> QED BY <2>1, <1>1, <1>3, <1>5, <1>7 DEF words
<1> QED BY <1>6, <1>7

\* The last of several words.
LEMMA SetMore ==
  ASSUME NEW v, NEW words \in Seq(Fine), NEW w \in Fine
  PROVE  optionSetMany(v, Append(words, w)) = optionSet(optionSetMany(v, words), w)
<1> DEFINE L == Len(words)
           more == Append(words, w)
<1>1. L \in Nat /\ \A k \in 1 .. L : words[k] \in Fine
  BY LenProperties, ElementOfSeq
<1>2. Len(more) = L + 1 /\ more[L + 1] = w /\ \A k \in 1 .. L : more[k] = words[k]
  BY AppendProperties
<1> HIDE DEF L, more
<1>3. \A k \in 1 .. L : ~Fails(words[k])
  BY <1>1 DEF Fine
<1>4. \A k \in 1 .. L + 1 : ~Fails(more[k])
  <2>1. ASSUME NEW k \in 1 .. L + 1 PROVE ~Fails(more[k])
    <3>1. k \in 1 .. L \/ k = L + 1
      BY <1>1
    <3>2. ~Fails(w)
      BY DEF Fine
    <3> QED BY <3>1, <3>2, <1>2, <1>3
  <2> QED BY <2>1
<1>5. PICK f : IsSetting(f, v, words, L) /\ optionSetMany(v, words) = f[L]
  BY <1>1, ManyIsSetting DEF L
<1>6. PICK g : IsSetting(g, v, more, L + 1) /\ optionSetMany(v, more) = g[L + 1]
  BY <1>1, <1>2, ManyIsSetting
<1>7. f[0] = v /\ \A k \in 1 .. L : f[k] = optionSet(f[k - 1], words[k])
  BY <1>1, <1>3, <1>5, SettingUnfolds
<1>8. g[0] = v /\ \A k \in 1 .. L + 1 : g[k] = optionSet(g[k - 1], more[k])
  <2>1. L + 1 \in Nat
    BY <1>1
  <2>2. g[0] = v /\ \A k \in 1 .. L + 1 : (\A j \in 1 .. k : ~Fails(more[j])) =>
                                            g[k] = optionSet(g[k - 1], more[k])
    BY <2>1, <1>6, SettingUnfolds
  <2>3. \A k \in 1 .. L + 1 : \A j \in 1 .. k : j \in 1 .. L + 1
    BY <1>1
  <2> QED BY <2>2, <2>3, <1>4
<1>9. \A k \in 0 .. L : f[k] = g[k]
  <2> DEFINE Off == {k \in 0 .. L : f[k] # g[k]}
  <2>1. SUFFICES ASSUME Off # {} PROVE FALSE
    OBVIOUS
  <2>2. Off \in SUBSET Nat
    OBVIOUS
  <2>3. PICK k \in Off : \A j \in Off : k <= j
    BY <2>1, <2>2, LeastNumber
  <2>4. k # 0
    BY <2>3, <1>7, <1>8
  <2>5. k \in 1 .. L /\ k - 1 \in 0 .. L /\ k - 1 \notin Off /\ k \in 1 .. L + 1
    BY <2>3, <2>4, <1>1
  <2>6. f[k - 1] = g[k - 1]
    BY <2>5
  <2>7. f[k] = g[k]
    BY <2>5, <2>6, <1>2, <1>7, <1>8
  <2> QED BY <2>3, <2>7
<1>10. L + 1 \in 1 .. L + 1 /\ L \in 0 .. L /\ (L + 1) - 1 = L
  BY <1>1
<1>11. g[L + 1] = optionSet(g[L], w)
  BY <1>2, <1>8, <1>10
<1> QED BY <1>5, <1>6, <1>9, <1>10, <1>11 DEF more

\* Some words after others.
LEMMA SetBoth ==
  ASSUME NEW v, NEW s \in Seq(Fine), NEW t \in Seq(Fine)
  PROVE  optionSetMany(v, s \o t) = optionSetMany(optionSetMany(v, s), t)
<1> DEFINE Off == {k \in 0 .. Len(t) :
                     optionSetMany(v, s \o SubSeq(t, 1, k))
                       # optionSetMany(optionSetMany(v, s), SubSeq(t, 1, k))}
<1>1. Len(t) \in Nat /\ \A k \in 1 .. Len(t) : t[k] \in Fine
  BY LenProperties, ElementOfSeq
<1>2. Off = {}
  <2>1. SUFFICES ASSUME Off # {} PROVE FALSE
    OBVIOUS
  <2>2. Off \in SUBSET Nat
    BY <1>1
  <2>3. PICK k \in Off : \A j \in Off : k <= j
    BY <2>1, <2>2, LeastNumber
  <2>4. CASE k = 0
    <3>1. SubSeq(t, 1, k) = <<>>
      BY <2>4, SubSeqEmpty
    <3>2. s \o <<>> = s
      BY ConcatEmptySeq
    <3> QED BY <3>1, <3>2, <2>3, SetNone
  <2>5. CASE k # 0
    <3> DEFINE before == SubSeq(t, 1, k - 1)
    <3>1. k \in 1 .. Len(t) /\ k - 1 \in 0 .. Len(t) /\ k - 1 \notin Off
      BY <2>3, <2>5, <1>1
    <3>2. before \in Seq(Fine) /\ SubSeq(t, 1, k) = Append(before, t[k]) /\ t[k] \in Fine
      BY <3>1, <1>1, SubSeqGrows
    <3>3. optionSetMany(v, s \o before) = optionSetMany(optionSetMany(v, s), before)
      BY <3>1
    <3> HIDE DEF before
    <3>4. s \o before \in Seq(Fine) /\ s \o Append(before, t[k]) = Append(s \o before, t[k])
      BY <3>2, ConcatAppends
    <3>5. optionSetMany(v, s \o SubSeq(t, 1, k))
            = optionSet(optionSetMany(v, s \o before), t[k])
      <4>1. optionSetMany(v, Append(s \o before, t[k]))
              = optionSet(optionSetMany(v, s \o before), t[k])
        BY <3>2, <3>4, SetMore
      <4> QED BY <3>2, <3>4, <4>1, Zenon
    <3>6. optionSetMany(optionSetMany(v, s), SubSeq(t, 1, k))
            = optionSet(optionSetMany(optionSetMany(v, s), before), t[k])
      BY <3>2, SetMore
    <3> QED BY <3>3, <3>5, <3>6, <2>3
  <2> QED BY <2>4, <2>5
<1>3. SubSeq(t, 1, Len(t)) = t
  BY SubSeqFull
<1>4. Len(t) \in 0 .. Len(t)
  BY <1>1
<1>5. optionSetMany(v, s \o SubSeq(t, 1, Len(t)))
        = optionSetMany(optionSetMany(v, s), SubSeq(t, 1, Len(t)))
  BY <1>2, <1>4
<1> QED BY <1>3, <1>5, Zenon

LEMMA SetTyped ==
  ASSUME OptionalValue \in Seq(Word), NEW v \in Seq(Word), NEW words \in Seq(Word)
  PROVE  optionSetMany(v, words) \in Seq(Word)
<1> DEFINE L == Len(words)
<1>1. L \in Nat /\ \A k \in 1 .. L : words[k] \in Word
  BY LenProperties, ElementOfSeq
<1>2. PICK f : IsSetting(f, v, words, L) /\ optionSetMany(v, words) = f[L]
  BY <1>1, ManyIsSetting
<1> HIDE DEF L
<1>3. f[0] = v
  BY <1>1, <1>2, SettingUnfolds
<1>4. \A k \in 1 .. L : f[k] \in {f[k - 1], optionSet(f[k - 1], words[k])}
  BY <1>1, <1>2, SettingUnfolds
<1>5. \A k \in 0 .. L : f[k] \in Seq(Word)
  <2> DEFINE Off == {k \in 0 .. L : f[k] \notin Seq(Word)}
  <2>1. SUFFICES ASSUME Off # {} PROVE FALSE
    OBVIOUS
  <2>2. Off \in SUBSET Nat
    OBVIOUS
  <2>3. PICK k \in Off : \A j \in Off : k <= j
    BY <2>1, <2>2, LeastNumber
  <2>4. k # 0
    BY <2>3, <1>3
  <2>5. k \in 1 .. L /\ k - 1 \in 0 .. L /\ k - 1 \notin Off
    BY <2>3, <2>4, <1>1
  <2>6. f[k - 1] \in Seq(Word) /\ words[k] \in Word
    BY <2>5, <1>1
  <2>7. optionSet(f[k - 1], words[k]) \in Seq(Word)
    BY <2>6 DEF optionSet
  <2> QED BY <2>3, <2>5, <2>6, <2>7, <1>4
<1>6. L \in 0 .. L
  BY <1>1
<1> QED BY <1>2, <1>5, <1>6

-----------------------------------------------------------------------------
(* Joining occurrences *)

IsJoining(f, seqs, m) ==
  f = [k \in 0 .. m |-> IF k = 0 THEN <<>> ELSE f[k - 1] \o seqs[k]]

\* The function which Joined defines by recursion exists.
LEMMA JoiningDefined ==
  ASSUME NEW seqs, NEW m \in Nat
  PROVE  \E f : IsJoining(f, seqs, m)
<1> DEFINE Open == {k \in Nat : ~ \E f : IsJoining(f, seqs, k)}
<1>1. SUFFICES ASSUME Open # {} PROVE FALSE
  OBVIOUS
<1>2. PICK k \in Open : \A j \in Open : k <= j
  BY <1>1, LeastNumber
<1>3. CASE k = 0
  <2>1. IsJoining([i \in 0 .. 0 |-> <<>>], seqs, 0)
    BY DEF IsJoining
  <2> QED BY <2>1, <1>3
<1>4. CASE k > 0
  <2>1. k - 1 \in Nat /\ k - 1 \notin Open
    BY <1>2, <1>4
  <2>2. PICK g : IsJoining(g, seqs, k - 1)
    BY <2>1
  <2> DEFINE f == [i \in 0 .. k |-> IF i = k THEN g[k - 1] \o seqs[k] ELSE g[i]]
  <2>3. \A i \in 0 .. k - 1 : g[i] = IF i = 0 THEN <<>> ELSE g[i - 1] \o seqs[i]
    BY <2>2 DEF IsJoining
  <2>4. \A i \in 0 .. k : f[i] = IF i = 0 THEN <<>> ELSE f[i - 1] \o seqs[i]
    BY <2>1, <2>3, <1>4
  <2>5. IsJoining(f, seqs, k)
    BY <2>4 DEF IsJoining
  <2> QED BY <2>5
<1> QED BY <1>3, <1>4

LEMMA JoinedUnfolds ==
  ASSUME NEW seqs, Len(seqs) \in Nat
  PROVE  \E f : /\ Joined(seqs) = f[Len(seqs)]
                /\ f[0] = <<>>
                /\ \A k \in 1 .. Len(seqs) : f[k] = f[k - 1] \o seqs[k]
<1> DEFINE f == CHOOSE g : IsJoining(g, seqs, Len(seqs))
<1>1. IsJoining(f, seqs, Len(seqs))
  BY JoiningDefined
<1>2. Joined(seqs) = f[Len(seqs)]
  BY Zenon DEF Joined, IsJoining
<1> HIDE DEF f
<1>3. f[0] = <<>> /\ \A k \in 1 .. Len(seqs) : f[k] = f[k - 1] \o seqs[k]
  BY <1>1 DEF IsJoining
<1> QED BY <1>2, <1>3

LEMMA JoinedNone == Joined(<<>>) = <<>>
<1>1. Len(<<>>) = 0
  OBVIOUS
<1> QED BY <1>1, JoinedUnfolds

LEMMA JoinedMore ==
  ASSUME NEW S, NEW seqs \in Seq(S), NEW x \in S
  PROVE  Joined(Append(seqs, x)) = Joined(seqs) \o x
<1> DEFINE L == Len(seqs)
           more == Append(seqs, x)
<1>1. L \in Nat
  BY LenProperties
<1>2. Len(more) = L + 1 /\ more[L + 1] = x /\ \A k \in 1 .. L : more[k] = seqs[k]
  BY AppendProperties
<1>3. PICK f : /\ Joined(seqs) = f[L] /\ f[0] = <<>>
               /\ \A k \in 1 .. L : f[k] = f[k - 1] \o seqs[k]
  BY <1>1, JoinedUnfolds
<1> HIDE DEF L, more
<1>4. Len(more) \in Nat
  BY <1>1, <1>2
<1>5. \E g : /\ Joined(more) = g[Len(more)] /\ g[0] = <<>>
             /\ \A k \in 1 .. Len(more) : g[k] = g[k - 1] \o more[k]
  BY <1>4, JoinedUnfolds, Zenon
<1>6. PICK g : /\ Joined(more) = g[L + 1] /\ g[0] = <<>>
               /\ \A k \in 1 .. L + 1 : g[k] = g[k - 1] \o more[k]
  BY <1>2, <1>5
<1>7. \A k \in 0 .. L : f[k] = g[k]
  <2> DEFINE Off == {k \in 0 .. L : f[k] # g[k]}
  <2>1. SUFFICES ASSUME Off # {} PROVE FALSE
    OBVIOUS
  <2>2. Off \in SUBSET Nat
    OBVIOUS
  <2>3. PICK k \in Off : \A j \in Off : k <= j
    BY <2>1, <2>2, LeastNumber
  <2>4. k # 0
    BY <2>3, <1>3, <1>6
  <2>5. k \in 1 .. L /\ k - 1 \in 0 .. L /\ k - 1 \notin Off /\ k \in 1 .. L + 1
    BY <2>3, <2>4, <1>1
  <2>6. f[k - 1] = g[k - 1]
    BY <2>5
  <2>7. f[k] = f[k - 1] \o seqs[k] /\ g[k] = g[k - 1] \o more[k] /\ more[k] = seqs[k]
    BY <2>5, <1>2, <1>3, <1>6
  <2> QED BY <2>3, <2>6, <2>7
<1>8. L + 1 \in 1 .. L + 1 /\ L \in 0 .. L /\ (L + 1) - 1 = L
  BY <1>1
<1>9. g[L + 1] = g[L] \o x
  BY <1>2, <1>6, <1>8
<1>10. Joined(more) = Joined(seqs) \o x
  BY <1>3, <1>6, <1>7, <1>8, <1>9
<1> QED BY <1>10 DEF more

LEMMA JoinedOne ==
  ASSUME NEW S, NEW x \in Seq(S)
  PROVE  Joined(<<x>>) = x
<1>1. <<>> \in Seq(Seq(S)) /\ Append(<<>>, x) = <<x>>
  OBVIOUS
<1>2. Joined(Append(<<>>, x)) = Joined(<<>>) \o x
  BY <1>1, JoinedMore
<1>3. <<>> \o x = x
  BY ConcatEmptySeq
<1> QED BY <1>1, <1>2, <1>3, JoinedNone

LEMMA JoinedTyped ==
  ASSUME NEW S, NEW seqs \in Seq(Seq(S))
  PROVE  Joined(seqs) \in Seq(S)
<1> DEFINE L == Len(seqs)
<1>1. L \in Nat /\ \A k \in 1 .. L : seqs[k] \in Seq(S)
  BY LenProperties, ElementOfSeq
<1>2. PICK f : /\ Joined(seqs) = f[L] /\ f[0] = <<>>
               /\ \A k \in 1 .. L : f[k] = f[k - 1] \o seqs[k]
  BY <1>1, JoinedUnfolds
<1> HIDE DEF L
<1>3. \A k \in 0 .. L : f[k] \in Seq(S)
  <2> DEFINE Off == {k \in 0 .. L : f[k] \notin Seq(S)}
  <2>1. SUFFICES ASSUME Off # {} PROVE FALSE
    OBVIOUS
  <2>2. Off \in SUBSET Nat
    OBVIOUS
  <2>3. PICK k \in Off : \A j \in Off : k <= j
    BY <2>1, <2>2, LeastNumber
  <2>4. <<>> \in Seq(S)
    OBVIOUS
  <2>5. k # 0
    BY <2>3, <2>4, <1>2, Zenon
  <2>6. k \in 1 .. L /\ k - 1 \in 0 .. L /\ k - 1 \notin Off
    BY <2>3, <2>5, <1>1
  <2>7. f[k - 1] \in Seq(S) /\ seqs[k] \in Seq(S) /\ f[k] = f[k - 1] \o seqs[k]
    BY <2>6, <1>1, <1>2
  <2>8. f[k] \in Seq(S)
    BY <2>7, ConcatProperties
  <2> QED BY <2>3, <2>8
<1>4. L \in 0 .. L
  BY <1>1
<1> QED BY <1>2, <1>3, <1>4

-----------------------------------------------------------------------------
(* Types *)

\* Where the option is.
FlowOK ==
  /\ case \in Case
  /\ pc \in {"parse", "before", "trigger", "each", "done", "failed"}
  /\ level \in Level /\ n \in Nat \ {0} /\ seenImplied \in BOOLEAN
  /\ pc = "before" => level = 1
  /\ pc = "each" => case.each
  /\ pc = "done" => level = Levels

\* Memory and the binding state.
StoreOK ==
  /\ cell \in Seq(Seq(Word)) /\ cell # <<>>
  /\ count \in Nat /\ (case.each => count = 0)
  /\ all \in Seq(2 .. Len(cell)) /\ (~case.each => all = <<>>)
  /\ initial \in DOMAIN cell /\ (all # <<>> => initial > 1)

Called == [level : Level, own : Seq(Word), named : Seq(Word)]

\* How far the occurrences and the implied values are.
Progress ==
  /\ pc = "parse" => n \in 1 .. Len(Given) + 1
  /\ pc = "each" => n \in 1 .. Len(Given) + 1 /\ Len(all) = n - 1
  /\ pc = "before" => n \in 1 .. Len(case.implied) + 1

Types == FlowOK /\ StoreOK /\ ran \in Seq(Called) /\ Progress

LEMMA TypesGiveTypeOK == Types => TypeOK
<1> SUFFICES ASSUME Types PROVE TypeOK
  OBVIOUS
<1>1. FlowOK /\ StoreOK /\ ran \in Seq(Called)
  BY DEF Types
<1> QED BY <1>1, Zenon DEF FlowOK, StoreOK, Called, TypeOK

LEMMA CaseFacts ==
  ASSUME case \in Case
  PROVE  /\ case.kind \in {"scalar", "string", "list"} /\ case.default \in Seq(Word)
         /\ case.merge \in {"no", "implicit", "explicit"} /\ case.each \in BOOLEAN
         /\ case.impliedAction \in BOOLEAN
         /\ case.merge = "implicit" => case.kind = "string"
         /\ case.implied \in Seq(Word) /\ case.hook \in Word \cup {NoWord}
         /\ \A k \in Level : case.given[k] \in Seq(Seq(Word))
  BY CaseAssumption DEF CaseType

LEMMA GivenFacts ==
  ASSUME case \in Case, level \in Level
  PROVE  /\ Given \in Seq(Seq(Word)) /\ Len(Given) \in Nat /\ DOMAIN Given = 1 .. Len(Given)
         /\ \A m \in 1 .. Len(Given) : Given[m] \in Seq(Word)
<1>1. Given \in Seq(Seq(Word))
  BY CaseFacts DEF Given
<1> HIDE DEF Given
<1> QED BY <1>1, LenProperties, ElementOfSeq

\* What happens to memory when an occurrence is stored directly.
DirectFacts(words) ==
  /\ cell' \in Seq(Seq(Word)) /\ Len(cell') = Len(cell)
  /\ cell'[1] = optionSetMany(Conventions(cell[1], Merges, count = 0), words)
  /\ count' = count + 1 /\ initial' = initial /\ all' = all

LEMMA Direct ==
  ASSUME Types, NEW words \in Seq(Word), OccurDirect(words)
  PROVE  DirectFacts(words)
<1> DEFINE new == optionSetMany(Conventions(cell[1], Merges, count = 0), words)
<1>1. cell' = [cell EXCEPT ![1] = new] /\ count' = count + 1 /\ initial' = initial /\ all' = all
  BY DEF OccurDirect
<1>2. cell \in Seq(Seq(Word)) /\ 1 \in 1 .. Len(cell) /\ cell[1] \in Seq(Word)
  BY DEF Types, StoreOK
<1>3. Conventions(cell[1], Merges, count = 0) \in Seq(Word)
  BY <1>2 DEF Conventions
<1>4. new \in Seq(Word)
  BY <1>3, SetTyped, WordAssumption
<1> DEFINE old == Conventions(cell[1], Merges, count = 0)
<1> HIDE DEF new
<1>5. [cell EXCEPT ![1] = new] \in Seq(Seq(Word)) /\ Len([cell EXCEPT ![1] = new]) = Len(cell)
      /\ [cell EXCEPT ![1] = new][1] = new
  BY <1>2, <1>4, ExceptSeq
<1>6. cell' \in Seq(Seq(Word)) /\ Len(cell') = Len(cell) /\ cell'[1] = new
  BY <1>1, <1>5
<1> QED BY <1>1, <1>6, Zenon DEF DirectFacts, new

\* What happens to memory when an occurrence is stored for itself: a clone takes
\* the words, together with those before it if Merge was asked for.
OwnStart == IF case.merge = "explicit" /\ all # <<>> THEN cell[initial] ELSE <<>>
MultiFacts(words) ==
  /\ cell' \in Seq(Seq(Word)) /\ Len(cell') >= Len(cell)
  /\ initial' \in 2 .. Len(cell') /\ all' = Append(all, initial')
  /\ cell'[initial'] = optionSetMany(OwnStart, words)
  /\ ~Merges => initial' = Len(cell) + 1
  /\ all # <<>> /\ Merges => initial' = initial
  /\ \A i \in 2 .. Len(cell) : i # initial' => cell'[i] = cell[i]
  /\ count' = count

LEMMA Multi ==
  ASSUME Types, NEW words \in Seq(Word), OccurMulti(words)
  PROVE  MultiFacts(words)
<1> DEFINE own == IF NeedsClone THEN Len(cell) + 1 ELSE initial
           zeroed == IF NeedsClone THEN Append(cell, <<>>) ELSE cell
           start == Conventions(optionReset(zeroed[own]), Merges, TRUE)
           clone == optionSetMany(start, words)
           stored == [zeroed EXCEPT ![own] = clone]
           passed == optionSetMany(stored[1], words)
           both == [stored EXCEPT ![1] = passed]
<1>1. /\ initial' = own /\ all' = Append(all, own) /\ count' = count
      /\ cell' = IF case.transform \/ Failing(words) THEN stored ELSE both
  BY Zenon DEF OccurMulti
<1>2. /\ cell \in Seq(Seq(Word)) /\ Len(cell) \in Nat \ {0} /\ cell[1] \in Seq(Word)
      /\ initial \in 1 .. Len(cell) /\ (all # <<>> => initial > 1)
  BY DEF Types, StoreOK
<1>3. <<>> \in Seq(Word)
  OBVIOUS
<1>4. /\ zeroed \in Seq(Seq(Word)) /\ own \in 2 .. Len(zeroed) /\ Len(zeroed) >= Len(cell)
      /\ \A i \in 1 .. Len(cell) : zeroed[i] = cell[i]
      /\ NeedsClone => own = Len(cell) + 1 /\ zeroed[own] = <<>>
      /\ ~NeedsClone => own = initial /\ zeroed = cell
  <2>1. CASE NeedsClone
    <3> DEFINE more == Append(cell, <<>>)
    <3>1. /\ more \in Seq(Seq(Word)) /\ Len(more) = Len(cell) + 1 /\ more[Len(cell) + 1] = <<>>
          /\ \A i \in 1 .. Len(cell) : more[i] = cell[i]
      BY <1>2, <1>3, AppendProperties
    <3> HIDE DEF more
    <3>2. zeroed = more /\ own = Len(cell) + 1
      BY <2>1 DEF more
    <3> HIDE DEF zeroed, own
    <3>3. Len(cell) + 1 \in 2 .. Len(more) /\ Len(more) >= Len(cell)
      <4>1. Len(cell) \in Nat \ {0} /\ Len(more) = Len(cell) + 1
        BY <1>2, <3>1
      <4> QED BY <4>1
    <3>4. zeroed \in Seq(Seq(Word)) /\ zeroed[own] = <<>>
      BY <3>1, <3>2, Zenon
    <3>5. \A i \in 1 .. Len(cell) : zeroed[i] = cell[i]
      BY <3>1, <3>2, Zenon
    <3>6. own \in 2 .. Len(zeroed) /\ Len(zeroed) >= Len(cell)
      BY <3>2, <3>3, Zenon
    <3> QED BY <2>1, <3>2, <3>4, <3>5, <3>6
  <2>2. CASE ~NeedsClone
    <3>1. zeroed = cell /\ own = initial /\ all # <<>>
      BY <2>2 DEF NeedsClone
    <3> HIDE DEF zeroed, own
    <3> QED BY <1>2, <2>2, <3>1
  <2> QED BY <2>1, <2>2
<1> HIDE DEF zeroed, own
<1>5. zeroed[own] \in Seq(Word)
  BY <1>4
<1>6. start \in Seq(Word) /\ start = OwnStart
  <2>1. start \in Seq(Word)
    BY <1>5 DEF Conventions, optionReset
  <2>2. CASE NeedsClone
    <3>1. zeroed[own] = <<>> /\ (case.merge = "explicit" => all = <<>>)
      BY <1>4, <2>2 DEF NeedsClone, Merges
    <3> QED BY <2>1, <3>1, Zenon DEF Conventions, optionReset, OwnStart
  <2>3. CASE ~NeedsClone
    <3>1. zeroed[own] = cell[initial] /\ all # <<>> /\ Merges
      BY <1>4, <2>3 DEF NeedsClone
    <3>2. CASE case.merge = "explicit"
      BY <2>1, <3>1, <3>2, Zenon DEF Conventions, optionReset, OwnStart
    <3>3. CASE case.merge # "explicit"
      <4>1. case.kind = "string"
        BY <3>1, <3>3, CaseFacts DEF Types, FlowOK, Merges
      <4> QED BY <2>1, <3>1, <3>3, <4>1, Zenon DEF Conventions, optionReset, OwnStart
    <3> QED BY <3>2, <3>3
  <2> QED BY <2>1, <2>2, <2>3
<1> HIDE DEF start
<1>7. clone \in Seq(Word)
  BY <1>6, SetTyped, WordAssumption
<1> HIDE DEF clone
<1>8. /\ stored \in Seq(Seq(Word)) /\ Len(stored) = Len(zeroed)
      /\ \A i \in 1 .. Len(zeroed) : stored[i] = IF i = own THEN clone ELSE zeroed[i]
  <2>1. own \in 1 .. Len(zeroed) /\ zeroed \in Seq(Seq(Word))
    BY <1>4
  <2>2. stored = [zeroed EXCEPT ![own] = clone]
    BY DEF stored
  <2> HIDE DEF stored
  <2> QED BY <1>7, <2>1, <2>2, ExceptSeq
<1> HIDE DEF stored
<1>9. passed \in Seq(Word)
  <2>1. stored[1] \in Seq(Word)
    BY <1>2, <1>4, <1>8
  <2> QED BY <2>1, SetTyped, WordAssumption
<1> HIDE DEF passed
<1>10. /\ both \in Seq(Seq(Word)) /\ Len(both) = Len(stored)
       /\ \A i \in 1 .. Len(stored) : both[i] = IF i = 1 THEN passed ELSE stored[i]
  <2>1. 1 \in 1 .. Len(stored)
    BY <1>2, <1>4, <1>8
  <2> QED BY <1>8, <1>9, <2>1, ExceptSeq
<1> HIDE DEF both
<1>11. cell' = stored \/ cell' = both
  BY <1>1
<1>12. cell' \in Seq(Seq(Word)) /\ Len(cell') = Len(zeroed) /\ Len(cell') \in Nat
  BY <1>8, <1>10, <1>11
<1>13. \A i \in 2 .. Len(zeroed) : cell'[i] = IF i = own THEN clone ELSE zeroed[i]
  BY <1>8, <1>10, <1>11
<1>14. cell'[own] = clone
  BY <1>4, <1>13
<1>15. \A i \in 2 .. Len(cell) : i # own => cell'[i] = cell[i]
  <2>1. \A i \in 2 .. Len(cell) : i \in 2 .. Len(zeroed) /\ i \in 1 .. Len(cell)
    BY <1>2, <1>4, LenProperties
  <2>2. \A i \in 1 .. Len(cell) : zeroed[i] = cell[i]
    BY <1>4
  <2> QED BY <1>13, <2>1, <2>2, Zenon
<1>16. (~Merges => own = Len(cell) + 1) /\ (all # <<>> /\ Merges => own = initial)
  BY <1>4 DEF NeedsClone
<1>17. clone = optionSetMany(OwnStart, words)
  BY <1>6, Zenon DEF clone
<1>18. own \in 2 .. Len(cell') /\ Len(cell') >= Len(cell)
  BY <1>4, <1>12
<1> QED
  BY <1>1, <1>12, <1>14, <1>15, <1>16, <1>17, <1>18, Zenon DEF MultiFacts

-----------------------------------------------------------------------------
(* Types are kept *)

GivenOK == Len(Given) \in Nat

LEMMA GivenFits == FlowOK => GivenOK
  BY GivenFacts DEF FlowOK, GivenOK

LEMMA GivenNext == FlowOK' => GivenOK'
  BY GivenFits, PTL

LEMMA GivenKept == ASSUME case' = case, level' = level PROVE Given' = Given
  BY Zenon DEF Given

LEMMA LeaveFacts ==
  ASSUME FlowOK, Leave
  PROVE  /\ level' \in Level
         /\ \/ level < Levels /\ pc' = "parse" /\ level' = level + 1 /\ n' = 1
            \/ level = Levels /\ pc' = "done" /\ level' = level /\ n' = n
  BY LevelsAssumption DEF FlowOK, Leave, Level

LEMMA StoreKept ==
  ASSUME StoreOK, case' = case, cell' = cell, UNCHANGED bindingState
  PROVE  StoreOK'
<1>1. count' = count /\ initial' = initial /\ all' = all
  BY DEF bindingState
<1> QED BY <1>1, Zenon DEF StoreOK

\* What is set on the option's own value leaves the binding state as it is.
LEMMA ValueSet ==
  ASSUME StoreOK, case' = case, UNCHANGED bindingState, NEW v \in Seq(Word),
         cell' = [cell EXCEPT ![1] = v]
  PROVE  StoreOK' /\ cell'[1] = v /\ Len(cell') = Len(cell)
         /\ \A i \in 2 .. Len(cell) : cell'[i] = cell[i]
<1>1. count' = count /\ initial' = initial /\ all' = all
  BY DEF bindingState
<1>2. cell \in Seq(Seq(Word)) /\ Len(cell) \in Nat \ {0} /\ DOMAIN cell = 1 .. Len(cell)
  BY LenProperties, EmptySeq DEF StoreOK
<1>3. 1 \in 1 .. Len(cell)
  BY <1>2
<1>4. cell' \in Seq(Seq(Word)) /\ Len(cell') = Len(cell)
      /\ \A i \in 1 .. Len(cell) : cell'[i] = IF i = 1 THEN v ELSE cell[i]
  BY <1>2, <1>3, ExceptSeq
<1>5. cell' # <<>> /\ DOMAIN cell' = DOMAIN cell
  BY <1>2, <1>4, EmptySeq, LenProperties
<1>6. StoreOK'
  BY <1>1, <1>4, <1>5, Zenon DEF StoreOK
<1>7. \A i \in 2 .. Len(cell) : cell'[i] = cell[i]
  BY <1>2, <1>4
<1> QED BY <1>3, <1>4, <1>6, <1>7

LEMMA DirectStore ==
  ASSUME Types, case' = case, ~case.each, NEW words \in Seq(Word), OccurDirect(words)
  PROVE  StoreOK'
<1>1. DirectFacts(words)
  BY Direct
<1>2. cell \in Seq(Seq(Word)) /\ cell # <<>>
  BY DEF Types, StoreOK
<1>3. cell' # <<>> /\ DOMAIN cell' = DOMAIN cell
  BY <1>1, <1>2, EmptySeq, LenProperties DEF DirectFacts
<1>4. count' \in Nat
  BY <1>1 DEF DirectFacts, Types, StoreOK
<1>5. cell' \in Seq(Seq(Word)) /\ Len(cell') = Len(cell) /\ initial' = initial /\ all' = all
  BY <1>1 DEF DirectFacts
<1> QED BY <1>3, <1>4, <1>5, Zenon DEF StoreOK, Types

LEMMA MultiStore ==
  ASSUME Types, case' = case, case.each, NEW words \in Seq(Word), OccurMulti(words)
  PROVE  StoreOK' /\ Len(all') = Len(all) + 1 /\ all'[Len(all) + 1] = initial'
         /\ \A m \in 1 .. Len(all) : all'[m] = all[m]
<1>1. MultiFacts(words)
  BY Multi
<1>2. cell' \in Seq(Seq(Word)) /\ Len(cell') \in Nat /\ DOMAIN cell' = 1 .. Len(cell')
  BY <1>1, LenProperties DEF MultiFacts
<1>3. initial' \in 2 .. Len(cell') /\ all' = Append(all, initial') /\ Len(cell') >= Len(cell)
      /\ count' = count
  BY <1>1 DEF MultiFacts
<1>4. all \in Seq(2 .. Len(cell)) /\ Len(cell) \in Nat
  BY LenProperties DEF Types, StoreOK
<1>5. all \in Seq(2 .. Len(cell'))
  <2>1. 2 .. Len(cell) \subseteq 2 .. Len(cell')
    BY <1>2, <1>3, <1>4
  <2> QED BY <1>4, <2>1, SeqMonotonic
<1>6. /\ all' \in Seq(2 .. Len(cell')) /\ Len(all') = Len(all) + 1
      /\ all'[Len(all) + 1] = initial'
      /\ \A m \in 1 .. Len(all) : all'[m] = all[m]
  BY <1>3, <1>5, AppendProperties
<1>7. initial' \in DOMAIN cell' /\ initial' > 1 /\ cell' # <<>>
  BY <1>2, <1>3
<1>8. StoreOK'
  BY <1>2, <1>3, <1>6, <1>7, Zenon DEF StoreOK, Types
<1> QED BY <1>6, <1>8

LEMMA OccurrenceStore ==
  ASSUME Types, case' = case, NEW words \in Seq(Word), SetOccurrence(words)
  PROVE  StoreOK'
<1>1. CASE case.each
  BY <1>1, MultiStore DEF SetOccurrence
<1>2. CASE ~case.each
  BY <1>2, DirectStore DEF SetOccurrence
<1> QED BY <1>1, <1>2

LEMMA ImpliedStore ==
  ASSUME Types, case' = case, UNCHANGED bindingState, NEW w \in Word,
         SetImplied(w) \/ UNCHANGED <<seenImplied, cell>>
  PROVE  StoreOK' /\ seenImplied' \in BOOLEAN
<1>1. StoreOK /\ seenImplied \in BOOLEAN /\ cell \in Seq(Seq(Word)) /\ cell # <<>>
  BY DEF Types, StoreOK, FlowOK
<1>2. CASE cell' = cell /\ seenImplied' \in BOOLEAN
  BY <1>1, <1>2, StoreKept
<1>3. CASE seenImplied' = TRUE /\ cell' = [cell EXCEPT ![1] = optionSet(cell[1], w)]
  <2>1. cell[1] \in Seq(Word)
    BY <1>1
  <2>2. optionSet(cell[1], w) \in Seq(Word)
    BY <2>1, WordAssumption DEF optionSet
  <2> QED BY <1>1, <1>3, <2>2, ValueSet
<1> QED BY <1>1, <1>2, <1>3 DEF SetImplied

\* A call of the Action.
LEMMA CallTyped ==
  ASSUME ran \in Seq(Called), level \in Level, NEW own \in Seq(Word), NEW named \in Seq(Word),
         Call(own, named)
  PROVE  ran' \in Seq(Called)
<1> DEFINE r == [level |-> level, own |-> own, named |-> named]
<1>1. r \in Called
  BY DEF Called
<1>2. ran' = Append(ran, r)
  BY Zenon DEF Call
<1> HIDE DEF r
<1> QED BY <1>1, <1>2, AppendProperties

LEMMA TypesInit == Init => Types
<1> SUFFICES ASSUME Init PROVE Types
  OBVIOUS
<1>1. case \in Case /\ pc = "parse" /\ level = 1 /\ n = 1 /\ cell = <<case.default>>
      /\ count = 0 /\ initial = 1 /\ all = <<>> /\ seenImplied = FALSE /\ ran = <<>>
  BY DEF Init
<1>2. level \in Level
  BY <1>1, LevelsAssumption DEF Level
<1>3. FlowOK
  <2>1. n \in Nat \ {0}
    BY <1>1
  <2>2. seenImplied \in BOOLEAN
    BY <1>1, Zenon
  <2> QED BY <1>1, <1>2, <2>1, <2>2, Zenon DEF FlowOK
<1>4. case.default \in Seq(Word)
  BY <1>1, CaseFacts
<1>5. cell \in Seq(Seq(Word)) /\ cell # <<>> /\ 1 \in DOMAIN cell
  BY <1>1, <1>4
<1>6. StoreOK
  BY <1>1, <1>5 DEF StoreOK
<1>7. ran \in Seq(Called)
  BY <1>1
<1>8. Len(Given) \in Nat
  BY <1>3, GivenFits DEF GivenOK
<1>9. Progress
  BY <1>1, <1>8 DEF Progress
<1> QED BY <1>3, <1>6, <1>7, <1>9 DEF Types

LEMMA TypesParse ==
  ASSUME Types, ApplyTo \/ Parsed
  PROVE  Types'
<1>1. FlowOK /\ StoreOK /\ ran \in Seq(Called) /\ Progress
  BY DEF Types
<1>2. case \in Case /\ level \in Level /\ n \in Nat \ {0} /\ seenImplied \in BOOLEAN
  BY <1>1 DEF FlowOK
<1>3. /\ Given \in Seq(Seq(Word)) /\ Len(Given) \in Nat /\ DOMAIN Given = 1 .. Len(Given)
      /\ \A m \in 1 .. Len(Given) : Given[m] \in Seq(Word)
  BY <1>2, GivenFacts
<1>4. case' = case /\ level' = level /\ seenImplied' = seenImplied /\ ran' = ran
  BY DEF ApplyTo, Parsed
<1>5. Given' = Given
  BY <1>4, GivenKept
<1>6. CASE ApplyTo
  <2>1. pc = "parse" /\ n \in 1 .. Len(Given) /\ SetOccurrence(Given[n]) /\ n' = n + 1
        /\ pc' \in {"parse", "failed"}
    BY <1>3, <1>6 DEF ApplyTo
  <2>2. StoreOK'
    BY <1>3, <1>4, <2>1, OccurrenceStore
  <2>3. FlowOK'
    BY <1>2, <1>4, <2>1 DEF FlowOK
  <2>4. n' \in 1 .. Len(Given') + 1
    BY <1>3, <1>5, <2>1
  <2>5. Progress'
    BY <2>1, <2>4 DEF Progress
  <2> QED BY <1>1, <1>4, <2>2, <2>3, <2>5 DEF Types
<1>7. CASE Parsed
  <2>1. n' = 1 /\ cell' = cell /\ UNCHANGED bindingState
        /\ pc' = IF level = 1 THEN "before" ELSE "trigger"
    BY <1>7 DEF Parsed
  <2>2. StoreOK'
    BY <1>1, <1>4, <2>1, StoreKept
  <2>3. FlowOK'
    BY <1>2, <1>4, <2>1 DEF FlowOK
  <2>4. Len(case.implied) \in Nat
    BY <1>2, CaseFacts, LenProperties
  <2>5. Progress'
    BY <1>4, <2>1, <2>4 DEF Progress
  <2> QED BY <1>1, <1>4, <2>2, <2>3, <2>5 DEF Types
<1> QED BY <1>6, <1>7

LEMMA TypesBefore ==
  ASSUME Types, ImplicitValue \/ Hook
  PROVE  Types'
<1>1. FlowOK /\ StoreOK /\ ran \in Seq(Called) /\ Progress
  BY DEF Types
<1>2. case \in Case /\ level \in Level /\ n \in Nat \ {0} /\ seenImplied \in BOOLEAN
      /\ pc = "before" /\ level = 1
  BY <1>1 DEF FlowOK, ImplicitValue, Hook
<1>3. /\ case.implied \in Seq(Word) /\ Len(case.implied) \in Nat
      /\ DOMAIN case.implied = 1 .. Len(case.implied)
      /\ \A m \in 1 .. Len(case.implied) : case.implied[m] \in Word
  BY <1>2, CaseFacts, LenProperties, ElementOfSeq
<1>4. case' = case /\ level' = level /\ ran' = ran /\ UNCHANGED bindingState
  BY DEF ImplicitValue, Hook
<1>5. CASE ImplicitValue
  <2>1. n \in 1 .. Len(case.implied) /\ n' = n + 1 /\ pc' = pc
        /\ (SetImplied(case.implied[n]) \/ UNCHANGED <<seenImplied, cell>>)
    BY <1>3, <1>5 DEF ImplicitValue
  <2>2. StoreOK' /\ seenImplied' \in BOOLEAN
    BY <1>3, <1>4, <2>1, ImpliedStore
  <2>3. FlowOK'
    BY <1>2, <1>4, <2>1, <2>2 DEF FlowOK
  <2>4. n' \in 1 .. Len(case'.implied) + 1
    BY <1>3, <1>4, <2>1
  <2>5. Progress'
    BY <1>2, <2>1, <2>4 DEF Progress
  <2> QED BY <1>1, <1>4, <2>2, <2>3, <2>5 DEF Types
<1>6. CASE Hook
  <2>1. n' = n /\ pc' = "trigger"
    BY <1>6 DEF Hook
  <2>2. StoreOK' /\ seenImplied' \in BOOLEAN
    <3>1. CASE case.hook = NoWord
      <4>1. UNCHANGED <<seenImplied, cell>>
        BY <1>6, <3>1 DEF Hook
      <4> QED BY <1>1, <1>2, <1>4, <4>1, StoreKept
    <3>2. CASE case.hook # NoWord
      <4>1. case.hook \in Word
        BY <1>2, <3>2, CaseFacts
      <4>2. SetImplied(case.hook) \/ UNCHANGED <<seenImplied, cell>>
        BY <1>6 DEF Hook
      <4> QED BY <1>4, <4>1, <4>2, ImpliedStore
    <3> QED BY <3>1, <3>2
  <2>3. FlowOK'
    BY <1>2, <1>4, <2>1, <2>2 DEF FlowOK
  <2>4. Progress'
    BY <2>1 DEF Progress
  <2> QED BY <1>1, <1>4, <2>2, <2>3, <2>4 DEF Types
<1> QED BY <1>5, <1>6

\* Leaving a level, or an error of the Action, keeps where the option is right.
LEMMA LeaveFlow ==
  ASSUME FlowOK, case' = case, seenImplied' = seenImplied, Leave \/ UserError
  PROVE  FlowOK' /\ Progress'
<1>1. case \in Case /\ level \in Level /\ n \in Nat \ {0} /\ seenImplied \in BOOLEAN
  BY DEF FlowOK
<1>2. CASE UserError
  <2>1. pc' = "failed" /\ level' = level /\ n' = n
    BY <1>2 DEF UserError
  <2>2. FlowOK'
    BY <1>1, <2>1 DEF FlowOK
  <2>3. Progress'
    BY <2>1 DEF Progress
  <2> QED BY <2>2, <2>3
<1>3. CASE Leave
  <2>1. /\ level' \in Level /\ n' \in {1, n}
        /\ (pc' = "parse" /\ n' = 1) \/ (pc' = "done" /\ level' = Levels)
    BY <1>3, LeaveFacts
  <2>2. FlowOK'
    BY <1>1, <2>1 DEF FlowOK
  <2>3. Len(Given') \in Nat
    BY <2>2, GivenNext DEF GivenOK
  <2>4. 1 \in 1 .. Len(Given') + 1
    BY <2>3
  <2>5. Progress'
    BY <2>1, <2>4 DEF Progress
  <2> QED BY <2>2, <2>5
<1> QED BY <1>2, <1>3

LEMMA TypesTrigger ==
  ASSUME Types, Skip \/ Act \/ EachReset \/ EachDone
  PROVE  Types'
<1>1. FlowOK /\ StoreOK /\ ran \in Seq(Called) /\ Progress
  BY DEF Types
<1>2. case \in Case /\ level \in Level /\ n \in Nat \ {0} /\ seenImplied \in BOOLEAN
  BY <1>1 DEF FlowOK
<1>3. case' = case /\ seenImplied' = seenImplied
  BY DEF Skip, Act, EachReset, EachDone
<1>4. cell \in Seq(Seq(Word)) /\ cell # <<>> /\ cell[1] \in Seq(Word)
  BY <1>1 DEF StoreOK
<1>5. CASE Skip \/ EachDone
  <2>1. Leave /\ ran' = ran /\ cell' = cell /\ UNCHANGED bindingState
    BY <1>5 DEF Skip, EachDone
  <2>2. FlowOK' /\ Progress'
    BY <1>1, <1>3, <2>1, LeaveFlow
  <2>3. StoreOK'
    BY <1>1, <1>3, <2>1, StoreKept
  <2> QED BY <1>1, <2>1, <2>2, <2>3 DEF Types
<1>6. CASE Act
  <2>1. (Leave \/ UserError) /\ Call(Value, Value) /\ cell' = cell /\ UNCHANGED bindingState
    BY <1>6 DEF Act
  <2>2. FlowOK' /\ Progress'
    BY <1>1, <1>3, <2>1, LeaveFlow
  <2>3. StoreOK'
    BY <1>1, <1>3, <2>1, StoreKept
  <2>4. ran' \in Seq(Called)
    BY <1>1, <1>2, <1>4, <2>1, CallTyped DEF Value
  <2> QED BY <2>2, <2>3, <2>4 DEF Types
<1>7. CASE EachReset
  <2>1. /\ cell' = [cell EXCEPT ![1] = optionReset(cell[1])]
        /\ count' = 0 /\ initial' = 1 /\ all' = <<>> /\ pc' = "each" /\ n' = 1
        /\ level' = level /\ ran' = ran /\ case.each
    BY <1>7 DEF EachReset
  <2>2. FlowOK'
    BY <1>2, <1>3, <2>1 DEF FlowOK
  <2>3. Len(Given') \in Nat
    BY <2>2, GivenNext DEF GivenOK
  <2>4. Progress'
    BY <2>1, <2>3 DEF Progress
  <2>5. optionReset(cell[1]) \in Seq(Word)
    BY <1>4 DEF optionReset, Conventions
  <2> DEFINE new == optionReset(cell[1])
  <2> HIDE DEF new
  <2>6. cell' \in Seq(Seq(Word)) /\ Len(cell') = Len(cell) /\ Len(cell) \in Nat \ {0}
    <3>1. new \in Seq(Word) /\ cell' = [cell EXCEPT ![1] = new]
      BY <2>1, <2>5 DEF new
    <3>2. Len(cell) \in Nat \ {0} /\ 1 \in 1 .. Len(cell)
      BY <1>4, EmptySeq
    <3> QED BY <1>4, <3>1, <3>2, ExceptSeq
  <2>7. cell' # <<>> /\ 1 \in DOMAIN cell'
    BY <2>6, EmptySeq, LenProperties
  <2>8. <<>> \in Seq(2 .. Len(cell')) /\ 0 \in Nat
    OBVIOUS
  <2>9. StoreOK'
    BY <1>3, <2>1, <2>6, <2>7, <2>8, Zenon DEF StoreOK
  <2> QED BY <1>1, <2>1, <2>2, <2>4, <2>9 DEF Types
<1> QED BY <1>5, <1>6, <1>7

LEMMA TypesEach ==
  ASSUME Types, EachOccurrence
  PROVE  Types'
<1>1. FlowOK /\ StoreOK /\ ran \in Seq(Called) /\ Progress
  BY DEF Types
<1>2. case \in Case /\ level \in Level /\ n \in Nat \ {0} /\ seenImplied \in BOOLEAN
  BY <1>1 DEF FlowOK
<1>3. /\ Given \in Seq(Seq(Word)) /\ Len(Given) \in Nat /\ DOMAIN Given = 1 .. Len(Given)
      /\ \A m \in 1 .. Len(Given) : Given[m] \in Seq(Word)
  BY <1>2, GivenFacts
<1>4. /\ pc = "each" /\ n \in 1 .. Len(Given) /\ SetOccurrence(Given[n])
      /\ case' = case /\ seenImplied' = seenImplied /\ level' = level
      /\ Call(OccurrenceValue(n), cell'[1])
      /\ (n' = n + 1 /\ pc' = pc) \/ (n' = n /\ pc' = "failed")
  BY <1>3 DEF EachOccurrence, UserError
<1>5. case.each /\ OccurMulti(Given[n]) /\ Len(all) = n - 1
  BY <1>1, <1>4 DEF FlowOK, SetOccurrence, Progress
<1>6. StoreOK' /\ Len(all') = Len(all) + 1 /\ all'[Len(all) + 1] = initial'
  BY <1>3, <1>4, <1>5, MultiStore
<1>7. FlowOK'
  BY <1>1, <1>2, <1>4 DEF FlowOK
<1>8. Progress'
  <2>1. Given' = Given
    BY <1>4, GivenKept
  <2>2. n' = n + 1 => Len(all') = n' - 1 /\ n' \in 1 .. Len(Given') + 1
    BY <1>2, <1>3, <1>4, <1>5, <1>6, <2>1
  <2> QED BY <1>4, <2>2 DEF Progress
<1>9. cell' \in Seq(Seq(Word)) /\ initial' \in DOMAIN cell' /\ cell' # <<>>
  BY <1>6 DEF StoreOK
<1>10. OccurrenceValue(n) = cell'[initial']
  <2>1. Len(all) + 1 = n
    BY <1>2, <1>5
  <2> QED BY <1>6, <2>1 DEF OccurrenceValue
<1>11. OccurrenceValue(n) \in Seq(Word) /\ cell'[1] \in Seq(Word)
  BY <1>9, <1>10
<1>12. ran' \in Seq(Called)
  BY <1>1, <1>2, <1>4, <1>11, CallTyped
<1> QED BY <1>6, <1>7, <1>8, <1>12 DEF Types

LEMMA TypesStutter == ASSUME Types, UNCHANGED vars PROVE Types'
<1>1. FlowOK /\ StoreOK /\ ran \in Seq(Called) /\ Progress
  BY DEF Types
<1>2. case' = case /\ pc' = pc /\ level' = level /\ n' = n /\ cell' = cell /\ count' = count
      /\ initial' = initial /\ all' = all /\ seenImplied' = seenImplied /\ ran' = ran
  BY DEF vars
<1>3. FlowOK'
  BY <1>1, <1>2, Zenon DEF FlowOK
<1>4. StoreOK'
  BY <1>1, <1>2, Zenon DEF StoreOK
<1>5. Given' = Given
  BY <1>2, GivenKept
<1>6. Progress'
  BY <1>1, <1>2, <1>5, Zenon DEF Progress
<1> QED BY <1>1, <1>2, <1>3, <1>4, <1>6 DEF Types

LEMMA TypesStep == ASSUME Types, [Next]_vars PROVE Types'
  BY TypesParse, TypesBefore, TypesTrigger, TypesEach, TypesStutter DEF Next, Done

\* Variables have their types, whatever the option.
THEOREM TypeCorrect == Spec => []TypeOK
<1>1. Init => Types
  BY TypesInit
<1>2. Types /\ [Next]_vars => Types'
  BY TypesStep
<1>3. Types => TypeOK
  BY TypesGiveTypeOK
<1> QED BY <1>1, <1>2, <1>3, PTL DEF Spec

-----------------------------------------------------------------------------
(* What occurred *)

\* The occurrences at the first levels of the chain.
GivenTo(c, k) == Joined([j \in 1 .. k |-> c.given[j]])

LEMMA GivenToFacts ==
  ASSUME NEW c \in Case, NEW k \in 0 .. Levels
  PROVE  /\ GivenTo(c, k) \in Seq(Seq(Word))
         /\ k = 0 => GivenTo(c, k) = <<>>
         /\ k > 0 => GivenTo(c, k) = GivenTo(c, k - 1) \o c.given[k]
<1> DEFINE S == Seq(Seq(Word))
           line(l) == [j \in 1 .. l |-> c.given[j]]
<1>1. \A j \in Level : c.given[j] \in S
  BY CaseAssumption DEF CaseType
<1>2. k \in Nat /\ \A j \in 1 .. k : j \in Level
  BY LevelsAssumption DEF Level
<1> HIDE DEF S
<1>3. ASSUME NEW l \in 0 .. k PROVE line(l) \in Seq(S) /\ Len(line(l)) = l
  <2>1. l \in Nat /\ \A j \in 1 .. l : c.given[j] \in S
    BY <1>1, <1>2
  <2> QED BY <2>1
<1>4. GivenTo(c, k) \in Seq(Seq(Word))
  <2>1. line(k) \in Seq(S)
    BY <1>2, <1>3
  <2> DEFINE here == line(k)
  <2>2. GivenTo(c, k) = Joined(here)
    BY Zenon DEF GivenTo
  <2> HIDE DEF here
  <2>3. here \in Seq(Seq(Seq(Word)))
    BY <2>1, Zenon DEF here, S
  <2> QED BY <2>2, <2>3, JoinedTyped
<1>5. CASE k = 0
  <2>1. line(0) = <<>>
    OBVIOUS
  <2>2. GivenTo(c, 0) = Joined(line(0))
    BY Zenon DEF GivenTo
  <2> QED BY <1>4, <1>5, <2>1, <2>2, JoinedNone
<1>6. CASE k > 0
  <2>1. k - 1 \in 0 .. k /\ k \in 0 .. k /\ k \in 1 .. k
    BY <1>2, <1>6
  <2>2. line(k - 1) \in Seq(S) /\ Len(line(k - 1)) = k - 1
        /\ line(k) \in Seq(S) /\ Len(line(k)) = k /\ c.given[k] \in S
    BY <1>1, <1>2, <1>3, <2>1
  <2>3. line(k) = Append(line(k - 1), c.given[k])
    <3> DEFINE a == line(k)
               b == line(k - 1)
               x == c.given[k]
               d == Append(b, x)
    <3>1. (\A j \in 1 .. k : a[j] = c.given[j]) /\ \A j \in 1 .. k - 1 : b[j] = c.given[j]
      OBVIOUS
    <3>2. a \in Seq(S) /\ Len(a) = k /\ b \in Seq(S) /\ Len(b) = k - 1 /\ x \in S
      BY <2>2
    <3> HIDE DEF a, b
    <3>3. d \in Seq(S) /\ Len(d) = k - 1 + 1 /\ d[k - 1 + 1] = x
          /\ \A j \in 1 .. k - 1 : d[j] = b[j]
      BY <3>2, AppendProperties
    <3> HIDE DEF d
    <3>4. \A j \in 1 .. k : a[j] = d[j]
      BY <1>2, <1>6, <3>1, <3>3
    <3>5. Len(a) = Len(d)
      BY <1>2, <3>2, <3>3
    <3>6. a = d
      BY <3>2, <3>3, <3>4, <3>5, SeqEqual
    <3> QED BY <3>6 DEF a, b, d
  <2> DEFINE here == line(k)
             above == line(k - 1)
  <2>4. GivenTo(c, k) = Joined(here) /\ GivenTo(c, k - 1) = Joined(above)
    BY Zenon DEF GivenTo
  <2>5. above \in Seq(S) /\ here = Append(above, c.given[k]) /\ c.given[k] \in S
    BY <2>2, <2>3
  <2> HIDE DEF here, above
  <2>6. Joined(here) = Joined(above) \o c.given[k]
    BY <2>5, JoinedMore
  <2>7. GivenTo(c, k) = GivenTo(c, k - 1) \o c.given[k]
    BY <2>4, <2>6, Zenon
  <2> QED BY <1>4, <1>6, <2>7
<1>7. k = 0 \/ k > 0
  BY <1>2
<1> QED BY <1>5, <1>6, <1>7, Zenon

\* Something was given up to a level if it was at one of them.
LEMMA GivenToNone ==
  ASSUME NEW c \in Case, NEW k \in 0 .. Levels
  PROVE  GivenTo(c, k) = <<>> <=> \A j \in 1 .. k : c.given[j] = <<>>
<1> DEFINE Agrees(l) == GivenTo(c, l) = <<>> <=> \A j \in 1 .. l : c.given[j] = <<>>
           Off == {l \in 0 .. Levels : ~Agrees(l)}
<1>1. SUFFICES ASSUME Off # {} PROVE FALSE
  OBVIOUS
<1>2. Levels \in Nat /\ Off \in SUBSET Nat
  BY LevelsAssumption
<1> HIDE DEF Agrees
<1>3. PICK l \in Off : \A m \in Off : l <= m
  BY <1>1, <1>2, LeastNumber
<1>4. CASE l = 0
  <2>1. GivenTo(c, 0) = <<>>
    BY <1>3, <1>4, GivenToFacts
  <2>2. Agrees(0)
    BY <2>1 DEF Agrees
  <2> QED BY <1>3, <1>4, <2>2
<1>5. CASE l > 0
  <2>1. l - 1 \in 0 .. Levels /\ l - 1 \notin Off /\ l \in Level
    BY <1>2, <1>3, <1>5 DEF Level
  <2>2. Agrees(l - 1)
    BY <2>1
  <2>3. /\ GivenTo(c, l) = GivenTo(c, l - 1) \o c.given[l]
        /\ GivenTo(c, l - 1) \in Seq(Seq(Word))
    BY <1>3, <1>5, <2>1, GivenToFacts
  <2>4. c.given[l] \in Seq(Seq(Word))
    BY <2>1, CaseAssumption DEF CaseType
  <2>5. GivenTo(c, l) = <<>> <=> GivenTo(c, l - 1) = <<>> /\ c.given[l] = <<>>
    BY <2>3, <2>4, ConcatEqualIffEmpty
  <2>6. \A j : j \in 1 .. l <=> j \in 1 .. l - 1 \/ j = l
    BY <1>3, <1>5
  <2>7. Agrees(l)
    BY <2>2, <2>5, <2>6, Zenon DEF Agrees
  <2> QED BY <1>3, <2>7
<1> QED BY <1>2, <1>3, <1>4, <1>5

\* The occurrences at the level which were applied.
Here == IF pc = "parse" THEN SubSeq(Given, 1, n - 1) ELSE Given

LEMMA OccurredIs == Occurred = GivenTo(case, level - 1) \o Here
  BY Zenon DEF Occurred, GivenTo, Here

LEMMA OccurredIsNext == Occurred' = GivenTo(case', level' - 1) \o Here'
  BY Zenon DEF Occurred, GivenTo, Here

LEMMA HereTyped ==
  ASSUME FlowOK, Progress
  PROVE  /\ Here \in Seq(Seq(Word)) /\ GivenTo(case, level - 1) \in Seq(Seq(Word))
         /\ Occurred \in Seq(Seq(Word)) /\ Len(Occurred) \in Nat
         /\ pc = "parse" => Len(Here) = n - 1
<1>1. /\ Given \in Seq(Seq(Word)) /\ Len(Given) \in Nat
      /\ \A m \in 1 .. Len(Given) : Given[m] \in Seq(Word)
  BY GivenFacts DEF FlowOK
<1>2. ASSUME pc = "parse" PROVE Here \in Seq(Seq(Word)) /\ Len(Here) = n - 1
  <2>1. n \in 1 .. Len(Given) + 1
    BY <1>2 DEF Progress
  <2>2. n - 1 \in Int /\ 1 \in Int /\ \A m \in 1 .. n - 1 : Given[m] \in Seq(Word)
    BY <1>1, <2>1
  <2>3. SubSeq(Given, 1, n - 1) \in Seq(Seq(Word))
        /\ Len(SubSeq(Given, 1, n - 1)) = IF 1 <= n - 1 THEN n - 1 - 1 + 1 ELSE 0
    BY <2>2, SubSeqProperties
  <2> DEFINE part == SubSeq(Given, 1, n - 1)
  <2>4. Here = part
    BY <1>2 DEF Here
  <2> HIDE DEF part
  <2>5. part \in Seq(Seq(Word)) /\ Len(part) = n - 1
    BY <1>1, <2>1, <2>3 DEF part
  <2> QED BY <2>4, <2>5
<1>3. ASSUME pc # "parse" PROVE Here \in Seq(Seq(Word))
  BY <1>1, <1>3 DEF Here
<1>4. Here \in Seq(Seq(Word)) /\ (pc = "parse" => Len(Here) = n - 1)
  BY <1>2, <1>3
<1>5. case \in Case /\ level - 1 \in 0 .. Levels
  BY LevelsAssumption DEF FlowOK, Level
<1>6. GivenTo(case, level - 1) \in Seq(Seq(Word))
  BY <1>5, GivenToFacts
<1> DEFINE a == GivenTo(case, level - 1)
           b == Here
<1>7. Occurred = a \o b /\ a \in Seq(Seq(Word)) /\ b \in Seq(Seq(Word))
  BY <1>4, <1>6, OccurredIs
<1> HIDE DEF a, b
<1>8. Occurred \in Seq(Seq(Word)) /\ Len(Occurred) \in Nat
  BY <1>7, ConcatProperties, LenProperties
<1> QED BY <1>4, <1>6, <1>8

\* An occurrence which is applied is the last one.
LEMMA OccurredGrows ==
  ASSUME Types, ApplyTo, pc' = "parse"
  PROVE  Occurred' = Append(Occurred, Given[n])
<1>1. FlowOK /\ Progress
  BY DEF Types
<1>2. /\ Given \in Seq(Seq(Word)) /\ DOMAIN Given = 1 .. Len(Given)
      /\ \A m \in 1 .. Len(Given) : Given[m] \in Seq(Word)
  BY <1>1, GivenFacts DEF FlowOK
<1>3. case' = case /\ level' = level /\ n' = n + 1 /\ pc = "parse" /\ n \in 1 .. Len(Given)
  BY <1>2 DEF ApplyTo
<1>4. Here' = SubSeq(Given, 1, n) /\ Here = SubSeq(Given, 1, n - 1)
  <2>1. Given' = Given
    BY <1>3, GivenKept
  <2>2. n' - 1 = n
    BY <1>3
  <2> QED BY <1>3, <2>1, <2>2 DEF Here
<1>5. Here' = Append(Here, Given[n])
  BY <1>2, <1>3, <1>4, SubSeqGrows
<1> DEFINE a == GivenTo(case, level - 1)
           b == Here
           x == Given[n]
<1>6. Occurred = a \o b /\ Occurred' = a \o Append(b, x)
  BY <1>3, <1>5, OccurredIs, OccurredIsNext
<1>7. a \in Seq(Seq(Word)) /\ b \in Seq(Seq(Word)) /\ x \in Seq(Word)
  BY <1>1, <1>2, <1>3, HereTyped
<1> HIDE DEF a, b, x
<1>8. a \o Append(b, x) = Append(a \o b, x)
  BY <1>7, ConcatAppends
<1> QED BY <1>6, <1>8 DEF x

LEMMA OccurredSame ==
  ASSUME case' = case, level' = level, pc # "parse", pc' # "parse"
  PROVE  Occurred' = Occurred
<1>1. Given' = Given
  BY GivenKept
<1>2. Here' = Here
  BY <1>1, Zenon DEF Here
<1> QED BY <1>2, OccurredIs, OccurredIsNext

LEMMA OccurredParsed ==
  ASSUME Types, Parsed
  PROVE  Occurred' = Occurred /\ Here = Given
<1>1. FlowOK /\ Progress
  BY DEF Types
<1>2. Given \in Seq(Seq(Word)) /\ DOMAIN Given = 1 .. Len(Given) /\ Len(Given) \in Nat
  BY <1>1, GivenFacts DEF FlowOK
<1>3. case' = case /\ level' = level /\ pc = "parse" /\ pc' # "parse" /\ n \notin 1 .. Len(Given)
      /\ n \in 1 .. Len(Given) + 1
  BY <1>1, <1>2 DEF Parsed, Progress
<1>4. n - 1 = Len(Given)
  BY <1>2, <1>3
<1>5. Here = SubSeq(Given, 1, Len(Given))
  BY <1>3, <1>4 DEF Here
<1>6. Here = Given
  BY <1>2, <1>5, SubSeqFull
<1>7. Given' = Given
  BY <1>3, GivenKept
<1>8. Here' = Here
  BY <1>3, <1>6, <1>7, Zenon DEF Here
<1> QED BY <1>3, <1>6, <1>8, OccurredIs, OccurredIsNext

\* Going on to the next level changes nothing.
LEMMA OccurredLeaves ==
  ASSUME Types, case' = case, pc # "parse", Leave
  PROVE  Occurred' = Occurred
<1>1. FlowOK /\ Progress
  BY DEF Types
<1>2. CASE pc' = "done" /\ level' = level
  <2>1. pc' # "parse"
    BY <1>2
  <2> QED BY <1>2, <2>1, OccurredSame
<1>3. CASE pc' = "parse" /\ level' = level + 1 /\ n' = 1 /\ level < Levels
  <2>1. level \in 0 .. Levels /\ level > 0 /\ (level + 1) - 1 = level
    BY <1>1, LevelsAssumption DEF FlowOK, Level
  <2>2. GivenTo(case, level) = GivenTo(case, level - 1) \o Given
        /\ GivenTo(case, level) \in Seq(Seq(Word))
    <3>1. case \in Case
      BY <1>1 DEF FlowOK
    <3>2. /\ GivenTo(case, level) \in Seq(Seq(Word))
          /\ GivenTo(case, level) = GivenTo(case, level - 1) \o case.given[level]
      BY <2>1, <3>1, GivenToFacts
    <3> QED BY <3>2 DEF Given
  <2>3. Here' = <<>>
    <3>1. n' - 1 = 0 /\ pc' = "parse"
      BY <1>3
    <3>2. Here' = SubSeq(Given', 1, 0)
      BY <3>1, Zenon DEF Here
    <3> QED BY <3>2, SubSeqEmpty
  <2>4. Here = Given
    BY DEF Here
  <2>5. Occurred' = GivenTo(case, level) \o <<>>
    BY <1>3, <2>1, <2>3, OccurredIsNext
  <2>6. GivenTo(case, level) \o <<>> = GivenTo(case, level)
    BY <2>2, ConcatEmptySeq
  <2> QED BY <2>2, <2>4, <2>5, <2>6, OccurredIs
<1> QED BY <1>1, <1>2, <1>3, LeaveFacts

-----------------------------------------------------------------------------
(* What was accepted, counted and implied *)

\* Every word which was applied could be set.
Accepted == pc # "failed" => Occurred \in Seq(Seq(Fine))

\* The binding state counts the occurrences; with EachOccurrence it has at
\* least those at the level, and all of them as long as there is no other.
Counted ==
  /\ ~case.each /\ pc # "failed" => count = Len(Occurred)
  /\ case.each /\ pc \in {"parse", "before", "trigger"} =>
       /\ Len(Here) <= Len(all) /\ Len(all) <= Len(Occurred)
       /\ level = 1 => Len(all) = Len(Occurred)

\* An implied value is seen if there is one and the app was given nothing.
ImpliedOnce ==
  pc # "failed" =>
    IF pc = "parse" /\ level = 1 THEN ~seenImplied
    ELSE IF pc = "before" THEN seenImplied <=> case.given[1] = <<>> /\ n > 1
    ELSE seenImplied <=> ImpliedWords # <<>>

History == Types /\ Accepted /\ Counted /\ ImpliedOnce

HereLong == pc = "parse" => Len(Here) = n - 1

LEMMA HereLength == FlowOK /\ Progress => HereLong
  BY HereTyped DEF HereLong

LEMMA HereNext == FlowOK' /\ Progress' => HereLong'
  BY HereLength, PTL

LEMMA FineNext == ASSUME case' = case PROVE Fine' = Fine
  BY Zenon DEF Fine, Fails

LEMMA ImpliedNext == ASSUME case' = case PROVE ImpliedWords' = ImpliedWords
  BY Zenon DEF ImpliedWords

LEMMA ImpliedFacts ==
  ASSUME case \in Case
  PROVE  /\ case.given[1] # <<>> => ImpliedWords = <<>>
         /\ case.given[1] = <<>> /\ case.implied # <<>> => ImpliedWords = <<case.implied[1]>>
         /\ case.given[1] = <<>> /\ case.implied = <<>> /\ case.hook # NoWord =>
              ImpliedWords = <<case.hook>>
         /\ case.implied = <<>> /\ case.hook = NoWord => ImpliedWords = <<>>
<1> DEFINE hook == IF case.hook = NoWord THEN <<>> ELSE <<case.hook>>
           found == case.implied \o hook
<1>1. case.implied \in Seq(Word) /\ case.hook \in Word \cup {NoWord}
  BY CaseFacts
<1>2. hook \in Seq(Word) /\ (case.hook # NoWord => hook = <<case.hook>>)
      /\ (case.hook = NoWord => hook = <<>>)
  BY <1>1
<1>3. ImpliedWords = IF found = <<>> \/ case.given[1] # <<>> THEN <<>> ELSE <<Head(found)>>
  BY Zenon DEF ImpliedWords
<1> HIDE DEF hook
<1>4. found \in Seq(Word) /\ Len(found) = Len(case.implied) + Len(hook)
      /\ \A i \in 1 .. Len(case.implied) + Len(hook) :
           found[i] = IF i <= Len(case.implied) THEN case.implied[i]
                      ELSE hook[i - Len(case.implied)]
  BY <1>1, <1>2, ConcatProperties
<1>5. found = <<>> <=> case.implied = <<>> /\ hook = <<>>
  BY <1>1, <1>2, ConcatEqualIffEmpty
<1> HIDE DEF found
<1>6. found # <<>> => Head(found) = found[1]
  BY <1>4
<1>7. ASSUME case.implied # <<>> PROVE found # <<>> /\ found[1] = case.implied[1]
  <2>1. Len(case.implied) \in Nat \ {0} /\ Len(hook) \in Nat
    BY <1>1, <1>2, <1>7, EmptySeq, LenProperties
  <2>2. 1 \in 1 .. Len(case.implied) + Len(hook) /\ 1 <= Len(case.implied)
    BY <2>1
  <2> QED BY <1>4, <1>5, <1>7, <2>2
<1>8. ASSUME case.implied = <<>>, case.hook # NoWord
      PROVE  found # <<>> /\ found[1] = case.hook
  <2>1. Len(case.implied) = 0 /\ Len(hook) = 1 /\ hook[1] = case.hook
    BY <1>2, <1>8
  <2>2. found[1] = hook[1]
    BY <1>4, <2>1
  <2>3. hook # <<>>
    BY <1>2, <1>8
  <2> QED BY <1>5, <2>1, <2>2, <2>3
<1>9. case.implied = <<>> /\ case.hook = NoWord => found = <<>>
  BY <1>2, <1>5
<1> QED BY <1>3, <1>6, <1>7, <1>8, <1>9, Zenon

\* An option was seen if it occurred; while the app's options are parsed this
\* is what makes it implicit.
LEMMA SeenFacts ==
  ASSUME Types, Counted, pc = "before"
  PROVE  (Seen <=> case.given[1] # <<>>) /\ Occurred = case.given[1]
<1>1. FlowOK /\ StoreOK /\ Progress /\ level = 1 /\ case \in Case /\ level \in Level
      /\ case.each \in BOOLEAN
  BY CaseFacts DEF Types, FlowOK
<1>2. Occurred = Given
  <2>1. level - 1 = 0 /\ 0 \in 0 .. Levels
    BY <1>1, LevelsAssumption
  <2>2. GivenTo(case, level - 1) = <<>>
    BY <1>1, <2>1, GivenToFacts
  <2>3. Here = Given /\ Given \in Seq(Seq(Word))
    BY <1>1, GivenFacts DEF Here
  <2>4. <<>> \o Given = Given
    BY <2>3, ConcatEmptySeq
  <2> QED BY <2>2, <2>3, <2>4, OccurredIs
<1>3. Given \in Seq(Seq(Word)) /\ Given = case.given[1]
  BY <1>1, GivenFacts DEF Given
<1>4. case.given[1] # <<>> <=> Len(Occurred) > 0
  BY <1>2, <1>3, EmptySeq
<1>5. Occurrences = Len(Occurred)
  BY <1>1 DEF Counted, Occurrences
<1> QED BY <1>2, <1>3, <1>4, <1>5 DEF Seen

LEMMA HistoryInit == Init => History
<1> SUFFICES ASSUME Init PROVE History
  OBVIOUS
<1>1. Types /\ pc = "parse" /\ level = 1 /\ n = 1 /\ all = <<>> /\ count = 0
      /\ seenImplied = FALSE
  BY TypesInit DEF Init
<1>2. case \in Case /\ 0 \in 0 .. Levels
  BY <1>1, LevelsAssumption DEF Types, FlowOK
<1>3. GivenTo(case, level - 1) = <<>>
  <2>1. level - 1 = 0
    BY <1>1
  <2> QED BY <1>2, <2>1, GivenToFacts
<1>4. Here = <<>>
  BY <1>1, SubSeqEmpty DEF Here
<1>5. Occurred = <<>>
  BY <1>3, <1>4, OccurredIs
<1>6. Accepted
  BY <1>5 DEF Accepted
<1>7. Counted
  BY <1>1, <1>4, <1>5 DEF Counted
<1>8. ImpliedOnce
  BY <1>1 DEF ImpliedOnce
<1> QED BY <1>1, <1>6, <1>7, <1>8 DEF History

LEMMA HistoryApplied ==
  ASSUME History, ApplyTo
  PROVE  History'
<1>1. Types /\ FlowOK /\ StoreOK /\ Progress /\ Accepted /\ Counted /\ ImpliedOnce
  BY DEF History, Types
<1>2. Types'
  BY <1>1, TypesParse
<1>3. /\ Given \in Seq(Seq(Word)) /\ DOMAIN Given = 1 .. Len(Given)
      /\ \A m \in 1 .. Len(Given) : Given[m] \in Seq(Word)
  BY <1>1, GivenFacts DEF FlowOK
<1>4. /\ case' = case /\ level' = level /\ n' = n + 1 /\ pc = "parse" /\ n \in 1 .. Len(Given)
      /\ seenImplied' = seenImplied /\ SetOccurrence(Given[n])
      /\ pc' = IF Failing(Given[n]) THEN "failed" ELSE "parse"
  BY <1>3 DEF ApplyTo
<1> DEFINE words == Given[n]
<1>5. words \in Seq(Word)
  BY <1>3, <1>4
<1> HIDE DEF words
<1>6. ASSUME pc' # "failed"
      PROVE  words \in Seq(Fine) /\ Occurred' = Append(Occurred, words) /\ pc' = "parse"
  <2>1. ~Failing(words) /\ pc' = "parse"
    BY <1>4, <1>6 DEF words
  <2>2. Len(words) \in Nat /\ words \in [1 .. Len(words) -> Word]
        /\ \A m \in 1 .. Len(words) : words[m] \in Fine
    BY <1>5, <2>1, LenProperties, ElementOfSeq DEF Failing, Fine
  <2>3. words \in [1 .. Len(words) -> Fine]
    BY <2>2
  <2>4. words \in Seq(Fine)
    BY <2>2, <2>3, SeqDef
  <2>5. Occurred' = Append(Occurred, Given[n])
    BY <1>1, <2>1, OccurredGrows
  <2> QED BY <2>1, <2>4, <2>5 DEF words
<1>7. Accepted'
  <2>1. SUFFICES ASSUME pc' # "failed" PROVE Occurred' \in Seq(Seq(Fine))
    BY <1>4, FineNext DEF Accepted
  <2>2. Occurred \in Seq(Seq(Fine))
    BY <1>1, <1>4 DEF Accepted
  <2>3. words \in Seq(Fine) /\ Occurred' = Append(Occurred, words)
    BY <2>1, <1>6
  <2> DEFINE S == Seq(Fine)
  <2> HIDE DEF S
  <2>4. Append(Occurred, words) \in Seq(S)
    BY <2>2, <2>3, AppendProperties DEF S
  <2> QED BY <2>3, <2>4 DEF S
<1>8. ASSUME pc' # "failed" PROVE Len(Occurred') = Len(Occurred) + 1 /\ Len(Occurred) \in Nat
  <2>1. Occurred \in Seq(Seq(Word)) /\ Len(Occurred) \in Nat
    BY <1>1, HereTyped
  <2> QED BY <1>5, <1>6, <1>8, <2>1, AppendProperties
<1>9. Counted'
  <2>1. CASE ~case.each
    <3>1. OccurDirect(Given[n])
      BY <1>4, <2>1 DEF SetOccurrence
    <3>2. count' = count + 1
      BY <3>1 DEF OccurDirect
    <3>3. pc' # "failed" => count' = Len(Occurred')
      BY <1>1, <1>4, <1>8, <2>1, <3>2 DEF Counted
    <3> QED BY <1>4, <2>1, <3>3 DEF Counted
  <2>2. CASE case.each
    <3>1. OccurMulti(Given[n])
      BY <1>4, <2>2 DEF SetOccurrence
    <3>2. Len(all') = Len(all) + 1
      BY <1>1, <1>3, <1>4, <2>2, <3>1, MultiStore
    <3>3. Len(Here) = n - 1 /\ Len(all) \in Nat /\ n \in Nat
      BY <1>1, <1>4, HereTyped, LenProperties DEF FlowOK, StoreOK
    <3>4. pc' = "parse" => Len(Here') = n
      <4>1. FlowOK' /\ Progress'
        BY <1>2 DEF Types
      <4>2. pc' = "parse" => Len(Here') = n' - 1
        BY <4>1, HereNext DEF HereLong
      <4> QED BY <1>4, <3>3, <4>2
    <3>5. pc' # "failed" => /\ Len(Here') <= Len(all') /\ Len(all') <= Len(Occurred')
                            /\ level' = 1 => Len(all') = Len(Occurred')
      <4>1. Len(Here) <= Len(all) /\ Len(all) <= Len(Occurred)
            /\ (level = 1 => Len(all) = Len(Occurred))
        BY <1>1, <1>4, <2>2 DEF Counted
      <4> QED BY <4>1, <1>4, <1>6, <1>8, <3>2, <3>3, <3>4
    <3> QED BY <1>4, <2>2, <3>5 DEF Counted
  <2> QED BY <2>1, <2>2
<1>10. ImpliedOnce'
  <2>1. ImpliedWords' = ImpliedWords
    BY <1>4, ImpliedNext
  <2> QED BY <1>1, <1>4, <2>1, Zenon DEF ImpliedOnce
<1> QED BY <1>2, <1>7, <1>9, <1>10 DEF History

LEMMA HistoryParsed ==
  ASSUME History, Parsed
  PROVE  History'
<1>1. Types /\ FlowOK /\ StoreOK /\ Progress /\ Accepted /\ Counted /\ ImpliedOnce
  BY DEF History, Types
<1>2. Types'
  BY <1>1, TypesParse
<1>3. /\ case' = case /\ level' = level /\ n' = 1 /\ pc = "parse"
      /\ seenImplied' = seenImplied /\ count' = count /\ all' = all
      /\ pc' = IF level = 1 THEN "before" ELSE "trigger"
  BY DEF Parsed, bindingState
<1>4. Occurred' = Occurred /\ Here = Given
  BY <1>1, OccurredParsed
<1>5. Here' = Here
  <2>1. Given' = Given
    BY <1>3, GivenKept
  <2>2. pc' # "parse"
    BY <1>3
  <2> QED BY <1>4, <2>1, <2>2, Zenon DEF Here
<1>6. Accepted'
  BY <1>1, <1>3, <1>4, FineNext DEF Accepted
<1>7. Counted'
  BY <1>1, <1>3, <1>4, <1>5 DEF Counted
<1>8. ImpliedOnce'
  <2>1. ImpliedWords' = ImpliedWords
    BY <1>3, ImpliedNext
  <2>2. CASE level = 1
    <3>1. ~seenImplied
      BY <1>1, <1>3, <2>2, Zenon DEF ImpliedOnce
    <3>2. pc' = "before" /\ ~(n' > 1)
      BY <1>3, <2>2
    <3> QED BY <1>3, <3>1, <3>2, Zenon DEF ImpliedOnce
  <2>3. CASE level # 1
    <3>1. seenImplied <=> ImpliedWords # <<>>
      BY <1>1, <1>3, <2>3, Zenon DEF ImpliedOnce
    <3>2. pc' = "trigger"
      BY <1>3, <2>3
    <3> QED BY <1>3, <2>1, <3>1, <3>2, Zenon DEF ImpliedOnce
  <2> QED BY <2>2, <2>3
<1> QED BY <1>2, <1>6, <1>7, <1>8 DEF History

\* Where only the flow advances the occurrences stay what they are.
LEMMA HistorySame ==
  ASSUME Accepted, Counted, case' = case, level' = level, pc # "parse", pc # "failed",
         pc' # "parse", UNCHANGED bindingState, pc \in {"before", "trigger"} \/ pc' = "done"
  PROVE  Accepted' /\ Counted'
<1>1. Occurred' = Occurred /\ count' = count /\ all' = all
  BY OccurredSame DEF bindingState
<1>2. Given' = Given
  BY GivenKept
<1>3. Here' = Here
  BY <1>2, Zenon DEF Here
<1>4. Accepted'
  BY <1>1, FineNext DEF Accepted
<1>5. Counted'
  BY <1>1, <1>3 DEF Counted
<1> QED BY <1>4, <1>5

LEMMA HistoryBefore ==
  ASSUME History, ImplicitValue \/ Hook
  PROVE  History'
<1>1. Types /\ FlowOK /\ StoreOK /\ Progress /\ Accepted /\ Counted /\ ImpliedOnce
  BY DEF History, Types
<1>2. Types'
  BY <1>1, TypesBefore
<1>3. /\ case' = case /\ level' = level /\ level = 1 /\ pc = "before" /\ pc' # "parse"
      /\ pc' # "failed" /\ UNCHANGED bindingState
  BY <1>1 DEF ImplicitValue, Hook, FlowOK
<1>4. Accepted' /\ Counted'
  BY <1>1, <1>3, HistorySame
<1>5. (Implicitly <=> case.given[1] = <<>>) /\ (seenImplied <=> case.given[1] = <<>> /\ n > 1)
  <2>1. Seen <=> case.given[1] # <<>>
    BY <1>1, <1>3, SeenFacts
  <2>2. seenImplied <=> case.given[1] = <<>> /\ n > 1
    BY <1>1, <1>3, Zenon DEF ImpliedOnce
  <2> QED BY <2>1, <2>2, Zenon DEF Implicitly
<1>6. case \in Case /\ ImpliedWords' = ImpliedWords
      /\ case.implied \in Seq(Word) /\ Len(case.implied) \in Nat
      /\ DOMAIN case.implied = 1 .. Len(case.implied)
  BY <1>1, <1>3, ImpliedNext, CaseFacts, LenProperties DEF FlowOK
<1>7. CASE ImplicitValue
  <2>1. n \in 1 .. Len(case.implied) /\ n' = n + 1 /\ pc' = "before"
    BY <1>3, <1>6, <1>7 DEF ImplicitValue
  <2>2. n' > 1
    BY <1>6, <2>1
  <2>3. seenImplied' <=> case.given[1] = <<>>
    <3>1. CASE Implicitly
      <4>1. SetImplied(case.implied[n])
        BY <1>7, <3>1, Zenon DEF ImplicitValue
      <4>2. seenImplied'
        BY <4>1, Zenon DEF SetImplied
      <4> QED BY <3>1, <4>2, <1>5, Zenon
    <3>2. CASE ~Implicitly
      <4>1. seenImplied' = seenImplied
        BY <1>7, <3>2, Zenon DEF ImplicitValue
      <4> QED BY <3>2, <4>1, <1>5, Zenon
    <3> QED BY <3>1, <3>2
  <2>4. ImpliedOnce'
    BY <1>3, <2>1, <2>2, <2>3, Zenon DEF ImpliedOnce
  <2> QED BY <1>2, <1>4, <2>4 DEF History
<1>8. CASE Hook
  <2>1. pc' = "trigger" /\ n \notin 1 .. Len(case.implied) /\ n \in 1 .. Len(case.implied) + 1
    BY <1>1, <1>3, <1>6, <1>8 DEF Hook, Progress
  <2>2. n > 1 <=> case.implied # <<>>
    <3>1. n = Len(case.implied) + 1
      BY <1>6, <2>1
    <3>2. case.implied # <<>> => Len(case.implied) \in Nat \ {0}
      BY <1>6, EmptySeq
    <3>3. case.implied = <<>> => Len(case.implied) = 0
      OBVIOUS
    <3>4. Len(case.implied) = 0 <=> case.implied = <<>>
      BY <3>2, <3>3
    <3> QED BY <1>6, <3>1, <3>4
  <2>3. seenImplied' <=> case.given[1] = <<>> /\ (case.implied # <<>> \/ case.hook # NoWord)
    <3>1. CASE Implicitly /\ case.hook # NoWord
      <4>1. SetImplied(case.hook)
        BY <1>8, <3>1, Zenon DEF Hook
      <4>2. seenImplied'
        BY <4>1, Zenon DEF SetImplied
      <4> QED BY <3>1, <4>2, <1>5, Zenon
    <3>2. CASE ~(Implicitly /\ case.hook # NoWord)
      <4>1. seenImplied' = seenImplied
        BY <1>8, <3>2, Zenon DEF Hook
      <4> QED BY <3>2, <4>1, <1>5, <2>2, Zenon
    <3> QED BY <3>1, <3>2
  <2>4. ImpliedWords # <<>> <=>
          case.given[1] = <<>> /\ (case.implied # <<>> \/ case.hook # NoWord)
    <3>1. \A w : <<w>> # <<>>
      OBVIOUS
    <3> QED BY <1>6, <3>1, ImpliedFacts, Zenon
  <2>5. ImpliedOnce'
    <3>1. pc' # "before" /\ ~(pc' = "parse" /\ level' = 1)
      BY <2>1
    <3> QED BY <1>6, <2>3, <2>4, <3>1, Zenon DEF ImpliedOnce
  <2> QED BY <1>2, <1>4, <2>5 DEF History
<1> QED BY <1>7, <1>8

\* Leaving a level.
LEMMA HistoryLeft ==
  ASSUME History, case' = case, pc \in {"trigger", "each"}, Leave, UNCHANGED bindingState,
         pc = "each" => n \notin DOMAIN Given, seenImplied' = seenImplied, Types'
  PROVE  History'
<1>1. Types /\ FlowOK /\ StoreOK /\ Progress /\ Accepted /\ Counted /\ ImpliedOnce
  BY DEF History, Types
<1>2. Occurred' = Occurred /\ count' = count /\ all' = all
  BY <1>1, OccurredLeaves DEF bindingState
<1>3. Accepted'
  BY <1>1, <1>2, FineNext DEF Accepted
<1>4. /\ level' \in Level
      /\ \/ level < Levels /\ pc' = "parse" /\ level' = level + 1 /\ n' = 1
         \/ level = Levels /\ pc' = "done" /\ level' = level /\ n' = n
  BY <1>1, LeaveFacts
<1>5. pc' = "parse" => Len(Here') = 0 /\ level' # 1
  <2>1. pc' = "parse" => Len(Here') = n' - 1
    <3>1. FlowOK' /\ Progress'
      BY DEF Types
    <3> QED BY <3>1, HereNext DEF HereLong
  <2> QED BY <1>1, <1>4, <2>1 DEF FlowOK, Level
<1>6. case.each => Len(all) <= Len(Occurred) /\ Len(all) \in Nat
  <2>1. Len(all) \in Nat
    BY <1>1, LenProperties DEF StoreOK
  <2>2. pc = "each" => Len(all) = Len(Given)
    <3>1. Len(Given) \in Nat /\ DOMAIN Given = 1 .. Len(Given)
      BY <1>1, GivenFacts DEF FlowOK
    <3> QED BY <1>1, <3>1 DEF Progress
  <2>3. Len(Given) <= Len(Occurred)
    <3> DEFINE a == GivenTo(case, level - 1)
    <3>1. a \in Seq(Seq(Word)) /\ Given \in Seq(Seq(Word)) /\ Occurred = a \o Given
      BY <1>1, HereTyped, OccurredIs DEF Here
    <3> HIDE DEF a
    <3>2. Len(Occurred) = Len(a) + Len(Given) /\ Len(a) \in Nat /\ Len(Given) \in Nat
      BY <3>1, ConcatProperties, LenProperties
    <3> QED BY <3>2
  <2>4. case.each /\ pc = "trigger" => Len(all) <= Len(Occurred)
    BY <1>1 DEF Counted
  <2> QED BY <2>1, <2>2, <2>3, <2>4
<1>7. Counted'
  BY <1>1, <1>2, <1>4, <1>5, <1>6 DEF Counted
<1>8. ImpliedOnce'
  <2>1. seenImplied <=> ImpliedWords # <<>>
    BY <1>1, Zenon DEF ImpliedOnce
  <2>2. pc' # "before" /\ ~(pc' = "parse" /\ level' = 1)
    BY <1>4, <1>5
  <2> QED BY <2>1, <2>2, ImpliedNext, Zenon DEF ImpliedOnce
<1> QED BY <1>3, <1>7, <1>8 DEF History

\* An error of the Action ends everything.
LEMMA HistoryFailed ==
  ASSUME Types', pc' = "failed"
  PROVE  History'
<1>1. Accepted'
  BY DEF Accepted
<1>2. Counted'
  BY DEF Counted
<1>3. ImpliedOnce'
  BY DEF ImpliedOnce
<1> QED BY <1>1, <1>2, <1>3 DEF History

LEMMA HistoryEach ==
  ASSUME History, EachReset \/ (EachOccurrence /\ pc' = "each")
  PROVE  History'
<1>1. Types /\ FlowOK /\ StoreOK /\ Progress /\ Accepted /\ Counted /\ ImpliedOnce
  BY DEF History, Types
<1>2. Types'
  BY <1>1, TypesTrigger, TypesEach
<1>3. /\ case' = case /\ level' = level /\ seenImplied' = seenImplied /\ pc' = "each"
      /\ pc \in {"trigger", "each"}
  BY DEF EachReset, EachOccurrence, UserError
<1>4. Occurred' = Occurred
  BY <1>3, OccurredSame
<1>5. Accepted'
  BY <1>1, <1>3, <1>4, FineNext DEF Accepted
<1>6. Counted'
  <2>1. case.each
    BY <1>1, Zenon DEF EachReset, EachOccurrence, FlowOK
  <2> QED BY <1>3, <2>1 DEF Counted
<1>7. ImpliedOnce'
  <2>1. seenImplied <=> ImpliedWords # <<>>
    BY <1>1, <1>3, Zenon DEF ImpliedOnce
  <2>2. pc' # "before" /\ pc' # "parse"
    BY <1>3
  <2> QED BY <1>3, <2>1, <2>2, ImpliedNext, Zenon DEF ImpliedOnce
<1> QED BY <1>2, <1>5, <1>6, <1>7 DEF History

LEMMA HistoryStutter == ASSUME History, UNCHANGED vars PROVE History'
<1>1. Types /\ Accepted /\ Counted /\ ImpliedOnce
  BY DEF History
<1>2. Types'
  BY <1>1, TypesStutter
<1>3. case' = case /\ pc' = pc /\ level' = level /\ n' = n /\ count' = count
      /\ all' = all /\ seenImplied' = seenImplied
  BY DEF vars
<1>4. Given' = Given
  BY <1>3, GivenKept
<1>5. Here' = Here
  BY <1>3, <1>4, Zenon DEF Here
<1>6. Occurred' = Occurred
  BY <1>3, <1>5, OccurredIs, OccurredIsNext
<1>7. Accepted'
  BY <1>1, <1>3, <1>6, FineNext DEF Accepted
<1>8. Counted'
  BY <1>1, <1>3, <1>5, <1>6 DEF Counted
<1>9. ImpliedOnce'
  BY <1>1, <1>3, ImpliedNext, Zenon DEF ImpliedOnce
<1> QED BY <1>2, <1>7, <1>8, <1>9 DEF History

LEMMA HistoryStep == ASSUME History, [Next]_vars PROVE History'
<1>1. Types /\ FlowOK
  BY DEF History, Types
<1>2. Types'
  BY <1>1, TypesStep
<1>3. CASE Skip \/ (Act /\ Leave) \/ EachDone
  <2>1. case' = case /\ pc \in {"trigger", "each"} /\ Leave /\ UNCHANGED bindingState
        /\ (pc = "each" => n \notin DOMAIN Given) /\ seenImplied' = seenImplied
    BY <1>3 DEF Skip, Act, EachDone
  <2> QED BY <1>2, <2>1, HistoryLeft
<1>4. CASE (Act \/ EachOccurrence) /\ UserError
  <2>1. pc' = "failed"
    BY <1>4 DEF UserError
  <2> QED BY <1>2, <2>1, HistoryFailed
<1>5. Act => Leave \/ UserError
  BY DEF Act
<1>6. EachOccurrence => pc' = "each" \/ UserError
  BY DEF EachOccurrence
<1> QED
  BY <1>3, <1>4, <1>5, <1>6, HistoryApplied, HistoryParsed, HistoryBefore, HistoryEach,
     HistoryStutter, Zenon DEF Next, Done

-----------------------------------------------------------------------------
(* The winning value *)

\* What the occurrences in occ make of the initial value.
WonBy(occ, unset) ==
  LET begun == IF Merges \/ case.kind = "scalar" THEN unset ELSE <<>>
  IN CASE occ = <<>> -> unset
       [] occ # <<>> /\ case.kind = "string" /\ ~Merges -> optionSetMany(begun, occ[Len(occ)])
       [] OTHER -> optionSetMany(begun, Joined(occ))

\* The initial value, as long as there is no occurrence.
Unset == IF seenImplied THEN optionSetMany(case.default, ImpliedWords) ELSE case.default

\* The value is the winning one at any time.
Valued == ~case.each /\ pc # "failed" => Value = WonBy(Occurred, Unset)

LEMMA WonNone == ASSUME NEW u PROVE WonBy(<<>>, u) = u
  BY Zenon DEF WonBy

LEMMA WonGrows ==
  ASSUME case.kind \in {"scalar", "string", "list"},
         NEW u, NEW occ \in Seq(Seq(Fine)), NEW words \in Seq(Fine)
  PROVE  WonBy(Append(occ, words), u)
           = optionSetMany(Conventions(WonBy(occ, u), Merges, occ = <<>>), words)
<1> DEFINE more == Append(occ, words)
           S == Seq(Fine)
           begun == IF Merges \/ case.kind = "scalar" THEN u ELSE <<>>
<1> HIDE DEF S
<1>1. occ \in Seq(S) /\ words \in S
  BY Zenon DEF S
<1>2. /\ more # <<>> /\ Len(occ) \in Nat /\ Len(more) = Len(occ) + 1
      /\ more[Len(occ) + 1] = words
  <2>1. more # <<>> /\ Len(more) = Len(occ) + 1 /\ more[Len(occ) + 1] = words
    BY <1>1, AppendProperties
  <2>2. Len(occ) \in Nat
    BY LenProperties
  <2> QED BY <2>1, <2>2
<1>3. Joined(more) = Joined(occ) \o words
  BY <1>1, JoinedMore
<1>4. Joined(occ) \in Seq(Fine)
  BY JoinedTyped
<1>5. optionSetMany(begun, Joined(occ) \o words)
        = optionSetMany(optionSetMany(begun, Joined(occ)), words)
  BY <1>4, SetBoth
<1> HIDE DEF more
<1>6. CASE case.kind = "string" /\ ~Merges
  <2>1. begun = <<>>
    BY <1>6
  <2>2. WonBy(more, u) = optionSetMany(begun, more[Len(more)])
    BY <1>2, <1>6, Zenon DEF WonBy
  <2>3. more[Len(more)] = words
    BY <1>2
  <2>4. Conventions(WonBy(occ, u), Merges, occ = <<>>) = <<>>
    BY <1>6, Zenon DEF Conventions
  <2> QED BY <2>1, <2>2, <2>3, <2>4, Zenon DEF more
<1>7. CASE ~(case.kind = "string" /\ ~Merges)
  <2>1. WonBy(more, u) = optionSetMany(begun, Joined(more))
    BY <1>2, <1>7, Zenon DEF WonBy
  <2>2. CASE occ = <<>>
    <3>1. Joined(occ) = <<>>
      BY <2>2, JoinedNone
    <3>2. WonBy(occ, u) = u
      BY <2>2, WonNone
    <3>3. CASE Merges \/ case.kind = "scalar"
      <4>1. Conventions(u, Merges, occ = <<>>) = u
        BY <3>3, Zenon DEF Conventions
      <4>2. begun = u
        BY <3>3
      <4>3. optionSetMany(begun, Joined(occ)) = u
        BY <3>1, <4>2, SetNone
      <4> QED BY <2>1, <3>2, <4>1, <4>3, <1>3, <1>5, Zenon DEF more
    <3>4. CASE ~(Merges \/ case.kind = "scalar")
      <4>1. case.kind = "list"
        BY <1>7, <3>4
      <4>2. Conventions(u, Merges, occ = <<>>) = <<>>
        BY <2>2, <3>4, <4>1, Zenon DEF Conventions
      <4>3. begun = <<>>
        BY <3>4
      <4>4. optionSetMany(begun, Joined(occ)) = <<>>
        BY <3>1, <4>3, SetNone
      <4> QED BY <2>1, <3>2, <4>2, <4>4, <1>3, <1>5, Zenon DEF more
    <3> QED BY <3>3, <3>4
  <2>3. CASE occ # <<>>
    <3>1. WonBy(occ, u) = optionSetMany(begun, Joined(occ))
      BY <1>7, <2>3, Zenon DEF WonBy
    <3>2. Conventions(WonBy(occ, u), Merges, occ = <<>>) = WonBy(occ, u)
      BY <1>7, <2>3, Zenon DEF Conventions
    <3> QED BY <2>1, <3>1, <3>2, <1>3, <1>5, Zenon DEF more
  <2> QED BY <2>2, <2>3
<1> QED BY <1>6, <1>7

\* The same for a given kind of option, whatever the state.
SetMany(kind, v, words) ==
  LET set[k \in 0 .. Len(words)] ==
        IF k = 0 THEN v
        ELSE IF \E m \in 1 .. k : kind = "scalar" /\ words[m] = Bad THEN set[k - 1]
        ELSE IF words[k] = Blank THEN OptionalValue
        ELSE IF kind = "scalar" THEN <<words[k]>> ELSE Append(set[k - 1], words[k])
  IN  set[Len(words)]

Won(kind, merge, occ, unset) ==
  LET begun == IF merge # "no" \/ kind = "scalar" THEN unset ELSE <<>>
  IN CASE occ = <<>> -> unset
       [] occ # <<>> /\ kind = "string" /\ ~(merge # "no") ->
            SetMany(kind, begun, occ[Len(occ)])
       [] OTHER -> SetMany(kind, begun, Joined(occ))

LEMMA SetManyIs ==
  ASSUME NEW v, NEW words
  PROVE  optionSetMany(v, words) = SetMany(case.kind, v, words)
  BY Zenon DEF optionSetMany, optionSet, Fails, SetMany

LEMMA WonNext ==
  ASSUME case' = case, NEW occ, NEW u, Occurred' = occ, Unset' = u
  PROVE  WonBy(Occurred, Unset)' = WonBy(occ, u)
<1>1. WonBy(Occurred, Unset)' = Won(case'.kind, case'.merge, Occurred', Unset')
  BY Zenon DEF WonBy, Merges, Won, optionSetMany, optionSet, Fails, SetMany
<1>2. WonBy(occ, u) = Won(case.kind, case.merge, occ, u)
  BY Zenon DEF WonBy, Merges, Won, optionSetMany, optionSet, Fails, SetMany
<1> QED BY <1>1, <1>2, Zenon

LEMMA UnsetNext ==
  ASSUME case' = case
  PROVE  Unset' = IF seenImplied' THEN optionSetMany(case.default, ImpliedWords)
                  ELSE case.default
<1>1. Unset' = IF seenImplied' THEN SetMany(case'.kind, case'.default, ImpliedWords')
               ELSE case'.default
  BY Zenon DEF Unset, optionSetMany, optionSet, Fails, SetMany
<1>2. optionSetMany(case.default, ImpliedWords) = SetMany(case.kind, case.default, ImpliedWords)
  BY SetManyIs, Zenon
<1> QED BY <1>1, <1>2, ImpliedNext, Zenon

\* Nothing which the value is made of has changed.
LEMMA ValuedSame ==
  ASSUME Valued, case' = case, seenImplied' = seenImplied, cell'[1] = cell[1],
         pc # "failed", Occurred' = Occurred
  PROVE  Valued'
<1>1. Unset' = Unset
  BY UnsetNext, Zenon DEF Unset
<1>2. WonBy(Occurred, Unset)' = WonBy(Occurred, Unset)
  BY <1>1, WonNext
<1> QED BY <1>2, Zenon DEF Valued, Value

LEMMA ValuedFailed == ASSUME pc' = "failed" PROVE Valued'
  BY Zenon DEF Valued

LEMMA ValuedInit == Init => Valued
<1> SUFFICES ASSUME Init PROVE Valued
  OBVIOUS
<1>1. cell[1] = case.default /\ seenImplied = FALSE
  BY DEF Init
<1>2. Occurred = <<>>
  <2>1. Types /\ pc = "parse" /\ level = 1 /\ n = 1
    BY TypesInit DEF Init
  <2>2. case \in Case /\ level - 1 = 0 /\ 0 \in 0 .. Levels
    BY <2>1, LevelsAssumption DEF Types, FlowOK
  <2>3. GivenTo(case, level - 1) = <<>>
    BY <2>2, GivenToFacts
  <2>4. Here = <<>>
    BY <2>1, SubSeqEmpty DEF Here
  <2> QED BY <2>3, <2>4, OccurredIs
<1>3. Unset = case.default
  BY <1>1, Zenon DEF Unset
<1>4. WonBy(Occurred, Unset) = case.default
  BY <1>2, <1>3, WonNone
<1> QED BY <1>1, <1>4, Zenon DEF Valued, Value

LEMMA ValuedApplied ==
  ASSUME History, History', Valued, ApplyTo
  PROVE  Valued'
<1>1. Types /\ FlowOK /\ Progress /\ Accepted /\ Counted
  BY DEF History, Types
<1>2. /\ Given \in Seq(Seq(Word)) /\ DOMAIN Given = 1 .. Len(Given)
      /\ \A m \in 1 .. Len(Given) : Given[m] \in Seq(Word)
  BY <1>1, GivenFacts DEF FlowOK
<1>3. /\ case' = case /\ pc = "parse" /\ n \in 1 .. Len(Given) /\ pc' \in {"parse", "failed"}
      /\ seenImplied' = seenImplied /\ SetOccurrence(Given[n])
  BY <1>2 DEF ApplyTo
<1>4. SUFFICES ASSUME ~case.each, pc' = "parse" PROVE Valued'
  BY <1>3, ValuedFailed, Zenon DEF Valued
<1> DEFINE words == Given[n]
<1>5. words \in Seq(Word) /\ OccurDirect(words)
  BY <1>2, <1>3, <1>4 DEF SetOccurrence
<1>6. Occurred' = Append(Occurred, words)
  BY <1>1, <1>4, OccurredGrows
<1>7. words \in Seq(Fine)
  <2>1. ~Failing(words)
    BY <1>4, Zenon DEF ApplyTo
  <2> HIDE DEF words
  <2>2. Len(words) \in Nat /\ words \in [1 .. Len(words) -> Word]
        /\ \A m \in 1 .. Len(words) : words[m] \in Fine
    BY <1>5, <2>1, LenProperties, ElementOfSeq DEF Failing, Fine
  <2>3. words \in [1 .. Len(words) -> Fine]
    BY <2>2
  <2> QED BY <2>2, <2>3, SeqDef
<1> HIDE DEF words
<1>8. cell'[1] = optionSetMany(Conventions(cell[1], Merges, count = 0), words)
  BY <1>1, <1>5, Direct DEF DirectFacts
<1>9. cell[1] = WonBy(Occurred, Unset)
  BY <1>3, <1>4, Zenon DEF Valued, Value
<1>10. Occurred \in Seq(Seq(Fine))
  BY <1>1, <1>3 DEF Accepted
<1>11. count = 0 <=> Occurred = <<>>
  <2>1. count = Len(Occurred)
    BY <1>1, <1>3, <1>4 DEF Counted
  <2> QED BY <1>10, <2>1, EmptySeq
<1>12. case.kind \in {"scalar", "string", "list"}
  BY <1>1, CaseFacts DEF FlowOK
<1>13. WonBy(Append(Occurred, words), Unset)
         = optionSetMany(Conventions(WonBy(Occurred, Unset), Merges, Occurred = <<>>), words)
  BY <1>7, <1>10, <1>12, WonGrows
<1>14. Conventions(cell[1], Merges, count = 0)
         = Conventions(WonBy(Occurred, Unset), Merges, Occurred = <<>>)
  BY <1>9, <1>11, Zenon DEF Conventions
<1>15. Unset' = Unset
  BY <1>3, UnsetNext, Zenon DEF Unset
<1>16. WonBy(Occurred, Unset)' = WonBy(Append(Occurred, words), Unset)
  BY <1>3, <1>6, <1>15, WonNext
<1> QED BY <1>8, <1>13, <1>14, <1>16, Zenon DEF Valued, Value

\* The implied value which counts replaces the initial value.
LEMMA ValuedImplied ==
  ASSUME History, Valued, pc = "before", case' = case, Occurred' = Occurred,
         NEW w \in Word, SetImplied(w), case.given[1] = <<>>,
         ~seenImplied => ImpliedWords = <<w>>
  PROVE  Valued'
<1>1. Types /\ StoreOK /\ FlowOK /\ Counted
  BY DEF History, Types
<1>2. CASE seenImplied
  <2>1. seenImplied' = seenImplied /\ cell'[1] = cell[1]
    BY <1>2, Zenon DEF SetImplied
  <2> QED BY <2>1, ValuedSame
<1>3. CASE ~seenImplied
  <2> DEFINE new == optionSet(cell[1], w)
  <2>1. /\ seenImplied' = TRUE
        /\ cell' = IF Fails(w) THEN cell ELSE [cell EXCEPT ![1] = new]
    BY <1>3, Zenon DEF SetImplied
  <2>2. cell \in Seq(Seq(Word)) /\ cell # <<>>
    BY <1>1 DEF StoreOK
  <2> HIDE DEF new
  <2>3. cell'[1] = IF Fails(w) THEN cell[1] ELSE new
    BY <2>1, <2>2
  <2>4. cell'[1] = optionSetMany(cell[1], <<w>>)
    BY <2>3, SetOne, Zenon DEF new
  <2>5. Occurred = <<>>
    BY <1>1, SeenFacts
  <2>6. CASE case.each
    BY <2>6, Zenon DEF Valued
  <2>7. CASE ~case.each
    <3>1. cell[1] = WonBy(Occurred, Unset)
      BY <2>7, Zenon DEF Valued, Value
    <3>2. Unset = case.default
      BY <1>3, Zenon DEF Unset
    <3>3. cell[1] = case.default
      BY <2>5, <3>1, <3>2, WonNone
    <3>4. Unset' = optionSetMany(case.default, <<w>>)
      BY <1>3, <2>1, UnsetNext, Zenon
    <3>5. WonBy(Occurred, Unset)' = WonBy(<<>>, optionSetMany(case.default, <<w>>))
      BY <2>5, <3>4, WonNext
    <3>6. WonBy(<<>>, optionSetMany(case.default, <<w>>)) = optionSetMany(case.default, <<w>>)
      BY WonNone
    <3> QED BY <2>4, <3>3, <3>5, <3>6, Zenon DEF Valued, Value
  <2> QED BY <2>6, <2>7
<1> QED BY <1>2, <1>3

LEMMA ValuedBefore ==
  ASSUME History, Valued, ImplicitValue \/ Hook
  PROVE  Valued'
<1>1. Types /\ FlowOK /\ Progress /\ Counted /\ ImpliedOnce
  BY DEF History, Types
<1>2. /\ case' = case /\ level' = level /\ pc = "before" /\ pc' # "parse"
  BY DEF ImplicitValue, Hook
<1>3. Occurred' = Occurred
  BY <1>2, OccurredSame
<1>4. (Implicitly <=> case.given[1] = <<>>) /\ (seenImplied <=> case.given[1] = <<>> /\ n > 1)
  <2>1. Seen <=> case.given[1] # <<>>
    BY <1>1, <1>2, SeenFacts
  <2>2. seenImplied <=> case.given[1] = <<>> /\ n > 1
    BY <1>1, <1>2, Zenon DEF ImpliedOnce
  <2> QED BY <2>1, <2>2, Zenon DEF Implicitly
<1>5. case \in Case /\ case.implied \in Seq(Word) /\ Len(case.implied) \in Nat
      /\ DOMAIN case.implied = 1 .. Len(case.implied) /\ case.hook \in Word \cup {NoWord}
      /\ n \in Nat \ {0}
  BY <1>1, CaseFacts, LenProperties DEF FlowOK
<1>6. CASE UNCHANGED <<seenImplied, cell>>
  BY <1>2, <1>3, <1>6, ValuedSame
<1>7. CASE ImplicitValue /\ Implicitly
  <2>1. SetImplied(case.implied[n]) /\ n \in 1 .. Len(case.implied)
    BY <1>5, <1>7 DEF ImplicitValue
  <2>2. case.implied[n] \in Word
    BY <1>5, <2>1, ElementOfSeq
  <2>3. ~seenImplied => n = 1
    BY <1>4, <1>5, <1>7
  <2>4. case.implied # <<>>
    BY <2>1
  <2>5. ImpliedWords = <<case.implied[1]>>
    BY <1>4, <1>5, <1>7, <2>4, ImpliedFacts
  <2> QED BY <1>2, <1>3, <1>4, <1>7, <2>1, <2>2, <2>3, <2>5, ValuedImplied
<1>8. CASE Hook /\ Implicitly /\ case.hook # NoWord
  <2>1. SetImplied(case.hook) /\ n \notin 1 .. Len(case.implied)
    BY <1>5, <1>8 DEF Hook
  <2>2. case.hook \in Word
    BY <1>5, <1>8
  <2>3. ASSUME ~seenImplied PROVE ImpliedWords = <<case.hook>>
    <3>1. n = 1
      BY <1>4, <1>5, <1>8, <2>3
    <3>2. Len(case.implied) = 0
      BY <1>5, <2>1, <3>1
    <3>3. case.implied = <<>>
      BY <1>5, <3>2, EmptySeq
    <3> QED BY <1>4, <1>5, <1>8, <3>3, ImpliedFacts
  <2> QED BY <1>2, <1>3, <1>4, <1>8, <2>1, <2>2, <2>3, ValuedImplied
<1> QED BY <1>6, <1>7, <1>8, Zenon DEF ImplicitValue, Hook

LEMMA ValuedStep ==
  ASSUME History, History', Valued, [Next]_vars
  PROVE  Valued'
<1>1. Types /\ FlowOK
  BY DEF History, Types
<1>2. CASE Parsed
  <2>1. Occurred' = Occurred
    BY <1>1, <1>2, OccurredParsed
  <2> QED BY <1>2, <2>1, ValuedSame DEF Parsed
<1>3. CASE Skip \/ (Act /\ Leave)
  <2>1. /\ case' = case /\ pc = "trigger" /\ Leave /\ seenImplied' = seenImplied
        /\ cell'[1] = cell[1]
    BY <1>3 DEF Skip, Act
  <2>2. Occurred' = Occurred
    BY <1>1, <2>1, OccurredLeaves
  <2> QED BY <2>1, <2>2, ValuedSame
<1>4. CASE pc' = "failed"
  BY <1>4, ValuedFailed
<1>5. CASE EachReset \/ EachOccurrence \/ EachDone
  <2>1. case' = case /\ case.each
    BY <1>1, <1>5, Zenon DEF EachReset, EachOccurrence, EachDone, FlowOK
  <2> QED BY <2>1, Zenon DEF Valued
<1>6. CASE UNCHANGED vars
  <2>1. case' = case /\ pc' = pc /\ level' = level /\ n' = n /\ cell' = cell
        /\ seenImplied' = seenImplied
    BY <1>6 DEF vars
  <2>2. Given' = Given
    BY <2>1, GivenKept
  <2>3. Here' = Here
    BY <2>1, <2>2, Zenon DEF Here
  <2>4. Occurred' = Occurred
    BY <2>1, <2>3, OccurredIs, OccurredIsNext
  <2>5. CASE pc = "failed"
    BY <2>1, <2>5, ValuedFailed
  <2>6. CASE pc # "failed"
    BY <2>1, <2>4, <2>6, ValuedSame
  <2> QED BY <2>5, <2>6
<1>7. Act => Leave \/ pc' = "failed"
  BY DEF Act, UserError
<1> QED
  BY <1>2, <1>3, <1>4, <1>5, <1>6, <1>7, ValuedApplied, ValuedBefore, Zenon DEF Next, Done

LEMMA ValuedIsWinning == History /\ Valued => ValueIsWinning
<1> SUFFICES ASSUME History, Valued, ~case.each, pc \in {"trigger", "done"}, ~KeepsDefault
             PROVE  Value = Winning
  BY DEF ValueIsWinning
<1> DEFINE set == optionSetMany(case.default, ImpliedWords)
<1>1. seenImplied <=> ImpliedWords # <<>>
  BY Zenon DEF History, ImpliedOnce
<1>2. Value = WonBy(Occurred, Unset)
  BY Zenon DEF Valued
<1>3. Unset = set
  BY <1>1, SetNone, Zenon DEF Unset
<1>4. Winning = WonBy(Occurred, WinningUnset)
  BY Zenon DEF Winning, WonBy
<1>5. CASE \/ ImpliedWords = <<>> \/ case.merge = "explicit" \/ case.kind = "scalar"
           \/ case.default = <<>>
  <2>1. WinningUnset = set
    BY <1>5, Zenon DEF WinningUnset
  <2> QED BY <1>2, <1>3, <1>4, <2>1, Zenon
<1>6. CASE /\ ImpliedWords # <<>> /\ case.merge # "explicit" /\ case.kind # "scalar"
           /\ case.default # <<>>
  <2>1. Occurred # <<>> /\ case.merge # "implicit"
    BY <1>6, Zenon DEF KeepsDefault
  <2>2. ~Merges
    BY <1>6, <2>1, CaseFacts DEF History, Types, FlowOK, Merges
  <2>3. WonBy(Occurred, set) = WonBy(Occurred, WinningUnset)
    BY <1>6, <2>1, <2>2, Zenon DEF WonBy
  <2> QED BY <1>2, <1>3, <1>4, <2>3, Zenon
<1> QED BY <1>5, <1>6, Zenon

\* Without EachOccurrence, when the options of a level are triggered and at the
\* end, an option has the value which its occurrences, else its implied value,
\* else its initial value amount to, except where the code keeps the initial
\* value without being asked to merge.
THEOREM ValueWins == Spec => []ValueIsWinning
<1> DEFINE I == History /\ Valued
<1>1. Init => I
  BY HistoryInit, ValuedInit
<1>2. I /\ [Next]_vars => I'
  BY HistoryStep, ValuedStep
<1>3. I => ValueIsWinning
  BY ValuedIsWinning
<1> QED BY <1>1, <1>2, <1>3, PTL DEF Spec

-----------------------------------------------------------------------------
(* Occurrences keep their own values *)

\* The last of these occurrences have a value in the binding state.
Kept == IF pc = "each" THEN SubSeq(Given, 1, n - 1) ELSE Occurred

\* The value at the end of the list of m is the one of the last occurrence.
OwnAt(m) == SetMany(case.kind, <<>>, Kept[Len(Kept) - Len(all) + m])

OwnKept ==
  case.each /\ ~Merges /\ pc \in {"parse", "before", "trigger", "each"} =>
    /\ Len(all) <= Len(Kept)
    /\ \A m \in 1 .. Len(all) : cell[all[m]] = OwnAt(m)

LEMMA AllFacts ==
  ASSUME StoreOK
  PROVE  /\ Len(all) \in Nat /\ DOMAIN all = 1 .. Len(all)
         /\ \A m \in 1 .. Len(all) : all[m] \in 2 .. Len(cell)
<1> DEFINE S == 2 .. Len(cell)
<1>1. all \in Seq(S)
  BY DEF StoreOK
<1> HIDE DEF S
<1>2. Len(all) \in Nat /\ DOMAIN all = 1 .. Len(all) /\ \A m \in 1 .. Len(all) : all[m] \in S
  BY <1>1, LenProperties, ElementOfSeq
<1> QED BY <1>2 DEF S

LEMMA OwnSame ==
  ASSUME StoreOK, OwnKept, case' = case, all' = all, Kept' = Kept,
         pc \in {"parse", "before", "trigger", "each"},
         \A i \in 2 .. Len(cell) : cell'[i] = cell[i]
  PROVE  OwnKept'
<1>1. SUFFICES ASSUME case.each, ~Merges PROVE OwnKept'
  BY Zenon DEF OwnKept, Merges
<1>2. \A m \in 1 .. Len(all) : cell'[all[m]] = OwnAt(m)
  BY <1>1, AllFacts DEF OwnKept
<1>3. \A m : OwnAt(m)' = OwnAt(m)
  BY Zenon DEF OwnAt
<1> QED BY <1>1, <1>2, <1>3, Zenon DEF OwnKept

\* One more occurrence has a clone of its own, and the others keep theirs.
LEMMA OwnGrows ==
  ASSUME Types, OwnKept, case' = case, pc \in {"parse", "each"}, NEW words \in Seq(Word),
         Kept \in Seq(Seq(Word)), Kept' = Append(Kept, words), OccurMulti(words)
  PROVE  OwnKept'
<1>1. SUFFICES ASSUME case.each, ~Merges PROVE OwnKept'
  BY Zenon DEF OwnKept, Merges
<1>2. StoreOK
  BY DEF Types
<1>3. /\ cell'[initial'] = optionSetMany(OwnStart, words) /\ initial' = Len(cell) + 1
      /\ \A i \in 2 .. Len(cell) : i # initial' => cell'[i] = cell[i]
  BY <1>1, Multi DEF MultiFacts
<1>4. /\ Len(all') = Len(all) + 1 /\ all'[Len(all) + 1] = initial'
      /\ \A m \in 1 .. Len(all) : all'[m] = all[m]
  BY <1>1, MultiStore
<1>5. Len(cell) \in Nat
  BY <1>2, LenProperties DEF StoreOK
<1>6. /\ Len(all) \in Nat /\ \A m \in 1 .. Len(all) : all[m] \in 2 .. Len(cell)
  BY <1>2, AllFacts
<1>7. OwnStart = <<>>
  BY <1>1, Zenon DEF OwnStart, Merges
<1>8. /\ Len(Kept) \in Nat /\ Len(Kept') = Len(Kept) + 1 /\ Kept'[Len(Kept) + 1] = words
      /\ \A m \in 1 .. Len(Kept) : Kept'[m] = Kept[m]
  BY LenProperties, AppendProperties
<1>9. Len(all) <= Len(Kept) /\ \A m \in 1 .. Len(all) : cell[all[m]] = OwnAt(m)
  BY <1>1, Zenon DEF OwnKept
<1>10. \A m : OwnAt(m)' = SetMany(case.kind, <<>>, Kept'[Len(Kept') - Len(all') + m])
  BY Zenon DEF OwnAt
<1>11. ASSUME NEW m \in 1 .. Len(all)
       PROVE  cell'[all'[m]] = SetMany(case.kind, <<>>, Kept'[Len(Kept') - Len(all') + m])
  <2>1. cell'[all'[m]] = cell[all[m]]
    <3>1. all[m] \in 2 .. Len(cell) /\ all'[m] = all[m]
      BY <1>4, <1>6
    <3>2. all[m] # initial'
      BY <1>3, <1>5, <3>1
    <3> QED BY <1>3, <3>1, <3>2, Zenon
  <2>2. Len(Kept') - Len(all') + m = Len(Kept) - Len(all) + m
        /\ Len(Kept) - Len(all) + m \in 1 .. Len(Kept)
    BY <1>4, <1>6, <1>8, <1>9
  <2>3. Kept'[Len(Kept') - Len(all') + m] = Kept[Len(Kept) - Len(all) + m]
    BY <1>8, <2>2
  <2>4. cell[all[m]] = OwnAt(m)
    BY <1>9
  <2> QED BY <2>1, <2>3, <2>4, Zenon DEF OwnAt
<1>12. cell'[all'[Len(all) + 1]]
         = SetMany(case.kind, <<>>, Kept'[Len(Kept') - Len(all') + (Len(all) + 1)])
  <2>1. Len(Kept') - Len(all') + (Len(all) + 1) = Len(Kept) + 1
    BY <1>4, <1>6, <1>8
  <2>2. Kept'[Len(Kept') - Len(all') + (Len(all) + 1)] = words
    BY <1>8, <2>1
  <2>3. optionSetMany(<<>>, words) = SetMany(case.kind, <<>>, words)
    BY SetManyIs
  <2> QED BY <1>3, <1>4, <1>7, <2>2, <2>3, Zenon
<1>13. \A m \in 1 .. Len(all') : m \in 1 .. Len(all) \/ m = Len(all) + 1
  BY <1>4, <1>6
<1>14. \A m \in 1 .. Len(all') : cell'[all'[m]] = OwnAt(m)'
  BY <1>10, <1>11, <1>12, <1>13, Zenon
<1>15. Len(all') <= Len(Kept')
  BY <1>4, <1>6, <1>8, <1>9
<1> QED BY <1>14, <1>15, Zenon DEF OwnKept

LEMMA OwnInit == Init => OwnKept
<1> SUFFICES ASSUME Init PROVE OwnKept
  OBVIOUS
<1>1. Types /\ all = <<>> /\ pc = "parse"
  BY TypesInit DEF Init
<1>2. Len(all) = 0 /\ Kept = Occurred
  BY <1>1 DEF Kept
<1>3. Len(Occurred) \in Nat
  BY <1>1, HereTyped DEF Types
<1>4. Len(all) <= Len(Kept) /\ \A m \in 1 .. Len(all) : FALSE
  BY <1>2, <1>3
<1> QED BY <1>4, Zenon DEF OwnKept

LEMMA OwnApplied ==
  ASSUME Types, OwnKept, ApplyTo
  PROVE  OwnKept'
<1>1. FlowOK /\ Progress
  BY DEF Types
<1>2. /\ Given \in Seq(Seq(Word)) /\ DOMAIN Given = 1 .. Len(Given)
      /\ \A m \in 1 .. Len(Given) : Given[m] \in Seq(Word)
  BY <1>1, GivenFacts DEF FlowOK
<1>3. /\ case' = case /\ pc = "parse" /\ n \in 1 .. Len(Given) /\ pc' \in {"parse", "failed"}
      /\ SetOccurrence(Given[n])
  BY <1>2 DEF ApplyTo
<1>4. SUFFICES ASSUME case.each, pc' = "parse" PROVE OwnKept'
  BY <1>3, Zenon DEF OwnKept
<1>5. OccurMulti(Given[n]) /\ Given[n] \in Seq(Word)
  BY <1>2, <1>3, <1>4 DEF SetOccurrence
<1>6. Occurred' = Append(Occurred, Given[n]) /\ Occurred \in Seq(Seq(Word))
  BY <1>1, <1>4, OccurredGrows, HereTyped
<1>7. Kept = Occurred /\ Kept' = Occurred'
  BY <1>3, <1>4 DEF Kept
<1> QED BY <1>3, <1>5, <1>6, <1>7, OwnGrows

LEMMA OwnEach ==
  ASSUME Types, OwnKept, EachOccurrence
  PROVE  OwnKept'
<1>1. FlowOK /\ Progress
  BY DEF Types
<1>2. /\ Given \in Seq(Seq(Word)) /\ DOMAIN Given = 1 .. Len(Given)
      /\ \A m \in 1 .. Len(Given) : Given[m] \in Seq(Word)
  BY <1>1, GivenFacts DEF FlowOK
<1>3. /\ case' = case /\ level' = level /\ pc = "each" /\ n \in 1 .. Len(Given)
      /\ SetOccurrence(Given[n]) /\ case.each
      /\ (n' = n + 1 /\ pc' = "each") \/ pc' = "failed"
  <2>1. case.each
    BY <1>1, Zenon DEF EachOccurrence, FlowOK
  <2> QED BY <1>2, <2>1 DEF EachOccurrence, UserError
<1>4. SUFFICES ASSUME n' = n + 1, pc' = "each" PROVE OwnKept'
  BY <1>3, Zenon DEF OwnKept
<1>5. OccurMulti(Given[n]) /\ Given[n] \in Seq(Word)
  BY <1>2, <1>3 DEF SetOccurrence
<1>6. Kept = SubSeq(Given, 1, n - 1)
  BY <1>3 DEF Kept
<1>7. Kept' = SubSeq(Given, 1, n)
  <2>1. Given' = Given
    BY <1>3, GivenKept
  <2>2. n' - 1 = n
    BY <1>3, <1>4
  <2> QED BY <1>4, <2>1, <2>2 DEF Kept
<1>8. SubSeq(Given, 1, n - 1) \in Seq(Seq(Word))
      /\ SubSeq(Given, 1, n) = Append(SubSeq(Given, 1, n - 1), Given[n])
  BY <1>2, <1>3, SubSeqGrows
<1> QED BY <1>3, <1>5, <1>6, <1>7, <1>8, OwnGrows

LEMMA OwnDone ==
  ASSUME Types, OwnKept, EachDone
  PROVE  OwnKept'
<1>1. FlowOK /\ StoreOK /\ Progress
  BY DEF Types
<1>2. case' = case /\ pc = "each" /\ Leave /\ all' = all /\ cell' = cell /\ n \notin DOMAIN Given
  BY DEF EachDone, bindingState
<1>3. Given \in Seq(Seq(Word)) /\ DOMAIN Given = 1 .. Len(Given) /\ Len(Given) \in Nat
  BY <1>1, GivenFacts DEF FlowOK
<1>4. n - 1 = Len(Given) /\ Len(all) = Len(Given)
  BY <1>1, <1>2, <1>3 DEF Progress
<1>5. Kept = Given
  BY <1>2, <1>3, <1>4, SubSeqFull DEF Kept
<1>6. Kept' = Occurred /\ pc' \in {"parse", "done"}
  <2>1. Occurred' = Occurred /\ pc' \in {"parse", "done"}
    BY <1>1, <1>2, OccurredLeaves, LeaveFacts
  <2> QED BY <2>1 DEF Kept
<1> DEFINE a == GivenTo(case, level - 1)
           N == Len(Given)
<1>7. Occurred = a \o Given /\ a \in Seq(Seq(Word))
  BY <1>1, <1>2, HereTyped, OccurredIs DEF Here
<1> HIDE DEF a
<1>8. /\ Len(a) \in Nat /\ Len(Occurred) = Len(a) + N
      /\ \A i \in 1 .. Len(a) + N : Occurred[i] = IF i <= Len(a) THEN a[i] ELSE Given[i - Len(a)]
  BY <1>3, <1>7, ConcatProperties, LenProperties
<1>9. ASSUME NEW m \in 1 .. N PROVE Occurred[Len(Occurred) - N + m] = Given[m]
  <2>1. Len(Occurred) - N + m \in 1 .. Len(a) + N /\ ~(Len(Occurred) - N + m <= Len(a))
        /\ (Len(Occurred) - N + m) - Len(a) = m
    BY <1>3, <1>8
  <2> QED BY <1>8, <2>1
<1>10. SUFFICES ASSUME case.each, ~Merges PROVE OwnKept'
  BY <1>2, Zenon DEF OwnKept, Merges
<1>11. \A m \in 1 .. N : cell[all[m]] = SetMany(case.kind, <<>>, Given[m])
  <2>1. \A m \in 1 .. N : cell[all[m]] = OwnAt(m)
    BY <1>2, <1>4, <1>10 DEF OwnKept
  <2>2. \A m \in 1 .. N : Len(Kept) - Len(all) + m = m
    BY <1>3, <1>4, <1>5
  <2> QED BY <1>5, <2>1, <2>2 DEF OwnAt
<1>12. \A m : OwnAt(m)' = SetMany(case.kind, <<>>, Occurred[Len(Occurred) - N + m])
  BY <1>2, <1>4, <1>6, Zenon DEF OwnAt
<1>13. Len(all') <= Len(Kept') /\ Len(all') = N
  BY <1>2, <1>3, <1>4, <1>6, <1>8
<1>14. \A m \in 1 .. Len(all') : cell'[all'[m]] = OwnAt(m)'
  <2>1. ASSUME NEW m \in 1 .. N PROVE cell'[all'[m]] = OwnAt(m)'
    <3>1. cell'[all'[m]] = SetMany(case.kind, <<>>, Given[m])
      BY <1>2, <1>11
    <3>2. Occurred[Len(Occurred) - N + m] = Given[m]
      BY <1>9
    <3> QED BY <1>12, <3>1, <3>2, Zenon
  <2> QED BY <1>13, <2>1, Zenon
<1> QED BY <1>13, <1>14, Zenon DEF OwnKept

LEMMA OwnStep == ASSUME Types, OwnKept, [Next]_vars PROVE OwnKept'
<1>1. StoreOK /\ FlowOK
  BY DEF Types
<1>2. CASE Parsed \/ ImplicitValue \/ Hook \/ Skip
  <2>1. case' = case /\ all' = all /\ pc \in {"parse", "before", "trigger"} /\ pc' # "each"
    BY <1>2 DEF Parsed, ImplicitValue, Hook, Skip, Leave, bindingState
  <2>2. Occurred' = Occurred
    <3>1. CASE Parsed
      BY <3>1, OccurredParsed
    <3>2. CASE ImplicitValue \/ Hook
      BY <3>2, OccurredSame DEF ImplicitValue, Hook
    <3>3. CASE Skip
      BY <3>3, OccurredLeaves DEF Skip
    <3> QED BY <1>2, <3>1, <3>2, <3>3
  <2>3. Kept' = Kept
    BY <2>1, <2>2 DEF Kept
  <2>4. \A i \in 2 .. Len(cell) : cell'[i] = cell[i]
    <3>1. CASE cell' = cell
      BY <3>1
    <3>2. CASE \E v : cell' = [cell EXCEPT ![1] = v]
      <4>1. Len(cell) \in Nat /\ DOMAIN cell = 1 .. Len(cell)
        BY <1>1, LenProperties DEF StoreOK
      <4> QED BY <3>2, <4>1
    <3>3. cell' = cell \/ \E v : cell' = [cell EXCEPT ![1] = v]
      BY <1>2, Zenon DEF Parsed, ImplicitValue, Hook, Skip, SetImplied
    <3> QED BY <3>1, <3>2, <3>3
  <2> QED BY <1>1, <2>1, <2>3, <2>4, OwnSame
<1>3. CASE Act
  <2>1. case' = case /\ ~case.each
    BY <1>3, Zenon DEF Act
  <2> QED BY <2>1, Zenon DEF OwnKept
<1>4. CASE EachReset
  <2>1. all' = <<>> /\ pc' = "each" /\ n' = 1
    BY <1>4 DEF EachReset
  <2>2. Kept' = <<>> /\ Len(all') = 0
    <3>1. n' - 1 = 0
      BY <2>1
    <3>2. Kept' = SubSeq(Given', 1, 0)
      BY <2>1, <3>1, Zenon DEF Kept
    <3> QED BY <2>1, <3>2, SubSeqEmpty
  <2>3. Len(all') <= Len(Kept') /\ \A m \in 1 .. Len(all') : FALSE
    BY <2>2
  <2> QED BY <2>3, Zenon DEF OwnKept
<1>5. CASE UNCHANGED vars
  <2>1. case' = case /\ pc' = pc /\ level' = level /\ n' = n /\ cell' = cell /\ all' = all
    BY <1>5 DEF vars
  <2>2. Given' = Given
    BY <2>1, GivenKept
  <2>3. Here' = Here
    BY <2>1, <2>2, Zenon DEF Here
  <2>4. Occurred' = Occurred
    BY <2>1, <2>3, OccurredIs, OccurredIsNext
  <2>5. Kept' = Kept
    BY <2>1, <2>2, <2>4, Zenon DEF Kept
  <2>6. CASE pc \in {"parse", "before", "trigger", "each"}
    BY <1>1, <2>1, <2>5, <2>6, OwnSame
  <2>7. CASE ~(pc \in {"parse", "before", "trigger", "each"})
    BY <2>1, <2>7, Zenon DEF OwnKept
  <2> QED BY <2>6, <2>7
<1> QED
  BY <1>2, <1>3, <1>4, <1>5, OwnApplied, OwnEach, OwnDone, Zenon DEF Next, Done

\* With EachOccurrence the values which the binding state keeps are those of
\* the last occurrences, each its own.
THEOREM OwnValues == Spec => []OccurrenceValuesAreOwn
<1> DEFINE I == Types /\ OwnKept
<1>1. Init => I
  BY TypesInit, OwnInit
<1>2. I /\ [Next]_vars => I'
  BY TypesStep, OwnStep
<1>3. I => OccurrenceValuesAreOwn
  <2> SUFFICES ASSUME Types, OwnKept, case.each, ~Merges, pc \in {"parse", "before", "trigger"}
               PROVE  \A m \in DOMAIN all :
                        cell[all[m]] = optionSetMany(<<>>, Occurred[(Len(Occurred) - Len(all)) + m])
    BY DEF OccurrenceValuesAreOwn
  <2>1. DOMAIN all = 1 .. Len(all)
    BY AllFacts DEF Types
  <2>2. Kept = Occurred
    BY DEF Kept
  <2>3. \A m \in 1 .. Len(all) :
          cell[all[m]] = SetMany(case.kind, <<>>, Occurred[(Len(Occurred) - Len(all)) + m])
    BY <2>2, Zenon DEF OwnKept, OwnAt
  <2> QED BY <2>1, <2>3, SetManyIs, Zenon
<1> QED BY <1>1, <1>2, <1>3, PTL DEF Spec

-----------------------------------------------------------------------------
(* Calls of the Action *)

CallsIn(r, k) == {i \in DOMAIN r : r[i].level = k}

\* The properties of the calls at a level, for an option c whose implied value
\* is implied, and the calls r.
OwnOf(c, k, m) ==
  IF c.merge = "explicit" THEN SetMany(c.kind, <<>>, Joined(SubSeq(c.given[k], 1, m)))
  ELSE SetMany(c.kind, <<>>, c.given[k][m])

UsedIn(c, implied, k) ==
  \/ \E j \in 1 .. k : c.given[j] # <<>>
  \/ c.impliedAction /\ implied # <<>>

EachIn(c, r, k, m, before) ==
  /\ CallsIn(r, k) = before + 1 .. before + m
  /\ \A i \in 1 .. m : r[before + i].own = OwnOf(c, k, i)

CalledIn(c, implied, r, k) ==
  IF c.each THEN \E before \in 0 .. Len(r) : EachIn(c, r, k, Len(c.given[k]), before)
  ELSE IF UsedIn(c, implied, k) THEN \E i \in DOMAIN r : CallsIn(r, k) = {i}
  ELSE CallsIn(r, k) = {}

\* The levels which are left had their calls, the others have none yet, and
\* those of the level are on their way.
Calls ==
  pc # "failed" =>
    /\ \A k \in Level : k < level \/ (pc = "done" /\ k = level) =>
                          CalledIn(case, ImpliedWords, ran, k)
    /\ \A i \in 1 .. Len(ran) :
         /\ ran[i].level <= level
         /\ pc \in {"parse", "before", "trigger"} => ran[i].level < level
    /\ pc = "each" => \E before \in 0 .. Len(ran) :
                        Len(ran) = before + (n - 1) /\ EachIn(case, ran, level, n - 1, before)

\* The occurrences merged so far are in the clone which they share.
Merged ==
  pc = "each" /\ case.merge = "explicit" /\ n > 1 => cell[initial] = OwnOf(case, level, n - 1)

LEMMA CallsGrow ==
  ASSUME NEW r \in Seq(Called), NEW x \in Called, NEW k
  PROVE  LET more == Append(r, x)
         IN  /\ more \in Seq(Called) /\ Len(more) = Len(r) + 1 /\ more[Len(r) + 1] = x
             /\ \A i \in 1 .. Len(r) : more[i] = r[i]
             /\ x.level # k => CallsIn(more, k) = CallsIn(r, k)
             /\ x.level = k => CallsIn(more, k) = CallsIn(r, k) \cup {Len(r) + 1}
<1> DEFINE more == Append(r, x)
<1>1. /\ more \in Seq(Called) /\ Len(more) = Len(r) + 1 /\ more[Len(r) + 1] = x
      /\ \A i \in 1 .. Len(r) : more[i] = r[i]
  BY AppendProperties
<1>2. Len(r) \in Nat /\ DOMAIN r = 1 .. Len(r)
  BY LenProperties
<1> HIDE DEF more
<1>3. DOMAIN more = 1 .. Len(r) + 1
  BY <1>1, LenProperties
<1>4. /\ \A i : i \in 1 .. Len(r) + 1 <=> i \in 1 .. Len(r) \/ i = Len(r) + 1
      /\ ~(Len(r) + 1 \in 1 .. Len(r))
  BY <1>2
<1>5. x.level # k => CallsIn(more, k) = CallsIn(r, k)
  BY <1>1, <1>2, <1>3, <1>4, Zenon DEF CallsIn
<1>6. x.level = k => CallsIn(more, k) = CallsIn(r, k) \cup {Len(r) + 1}
  BY <1>1, <1>2, <1>3, <1>4, Zenon DEF CallsIn
<1> QED BY <1>1, <1>5, <1>6 DEF more

\* A call at another level changes nothing at this one.
LEMMA EachKept ==
  ASSUME NEW c, NEW r \in Seq(Called), NEW x \in Called, NEW k, x.level # k,
         NEW m \in Nat, NEW before \in Nat, EachIn(c, r, k, m, before)
  PROVE  EachIn(c, Append(r, x), k, m, before)
<1> DEFINE more == Append(r, x)
<1>1. CallsIn(more, k) = CallsIn(r, k) /\ \A i \in 1 .. Len(r) : more[i] = r[i]
  BY CallsGrow
<1> HIDE DEF more
<1>2. /\ CallsIn(r, k) = before + 1 .. before + m
      /\ \A i \in 1 .. m : r[before + i].own = OwnOf(c, k, i)
  BY DEF EachIn
<1>3. CallsIn(r, k) \subseteq 1 .. Len(r)
  BY LenProperties DEF CallsIn
<1>4. \A i \in 1 .. m : before + i \in before + 1 .. before + m
  OBVIOUS
<1>5. \A i \in 1 .. m : more[before + i] = r[before + i]
  BY <1>1, <1>2, <1>3, <1>4
<1> QED BY <1>1, <1>2, <1>5 DEF EachIn, more

LEMMA CalledKept ==
  ASSUME NEW c \in Case, NEW w, NEW r \in Seq(Called), NEW x \in Called, NEW k \in Level,
         x.level # k, CalledIn(c, w, r, k)
  PROVE  CalledIn(c, w, Append(r, x), k)
<1> DEFINE more == Append(r, x)
<1>1. CallsIn(more, k) = CallsIn(r, k) /\ Len(more) = Len(r) + 1 /\ more \in Seq(Called)
  BY CallsGrow
<1>2. Len(r) \in Nat /\ DOMAIN r = 1 .. Len(r) /\ DOMAIN more = 1 .. Len(more)
  BY <1>1, LenProperties
<1>3. CASE c.each
  <2>1. PICK before \in 0 .. Len(r) : EachIn(c, r, k, Len(c.given[k]), before)
    BY <1>3, Zenon DEF CalledIn
  <2>2. c.given[k] \in Seq(Seq(Word))
    BY CaseAssumption DEF CaseType
  <2>3. Len(c.given[k]) \in Nat /\ before \in Nat /\ before \in 0 .. Len(more)
    BY <1>1, <1>2, <2>2, LenProperties
  <2>4. EachIn(c, more, k, Len(c.given[k]), before)
    BY <2>1, <2>3, EachKept
  <2> QED BY <1>3, <2>3, <2>4, Zenon DEF CalledIn
<1>4. CASE ~c.each
  <2>1. DOMAIN r \subseteq DOMAIN more
    BY <1>1, <1>2
  <2> HIDE DEF more
  <2>2. CalledIn(c, w, more, k)
    BY <1>1, <1>4, <2>1, Zenon DEF CalledIn
  <2> QED BY <2>2 DEF more
<1> QED BY <1>3, <1>4

\* Until the level is left nothing is to be said of it.
LEMMA CallsStay ==
  ASSUME Calls, case' = case, level' = level, ran' = ran,
         pc \in {"parse", "before", "trigger"}, pc' \in {"parse", "before", "trigger", "failed"}
  PROVE  Calls'
<1>1. ImpliedWords' = ImpliedWords
  BY ImpliedNext
<1>2. /\ \A k \in Level : k < level => CalledIn(case, ImpliedWords, ran, k)
      /\ \A i \in 1 .. Len(ran) : ran[i].level <= level /\ ran[i].level < level
  BY DEF Calls
<1>3. pc' # "done" /\ pc' # "each"
  OBVIOUS
<1> QED BY <1>1, <1>2, <1>3, Zenon DEF Calls

\* A level is left when it had its calls.
LEMMA CallsLeft ==
  ASSUME FlowOK, case' = case, Leave,
         \A k \in Level : k <= level => CalledIn(case, ImpliedWords, ran', k),
         \A i \in 1 .. Len(ran') : ran'[i].level \in Level /\ ran'[i].level <= level
  PROVE  Calls'
<1>1. ImpliedWords' = ImpliedWords
  BY ImpliedNext
<1>2. level \in Nat /\ \A k \in Level : k \in Nat
  BY LevelsAssumption DEF FlowOK, Level
<1>3. CASE pc' = "parse" /\ level' = level + 1
  <2>1. \A k \in Level : k < level' => k <= level
    BY <1>2, <1>3
  <2>2. \A i \in 1 .. Len(ran') : ran'[i].level <= level' /\ ran'[i].level < level'
    BY <1>2, <1>3
  <2>3. pc' # "done" /\ pc' # "each"
    BY <1>3
  <2> QED BY <1>1, <2>1, <2>2, <2>3, Zenon DEF Calls
<1>4. CASE pc' = "done" /\ level' = level
  <2>1. \A k \in Level : k < level' \/ k = level' => k <= level
    BY <1>2, <1>4
  <2>2. pc' \notin {"parse", "before", "trigger"} /\ pc' # "each"
    BY <1>4
  <2> QED BY <1>1, <1>4, <2>1, <2>2, Zenon DEF Calls
<1> QED BY <1>3, <1>4, LeaveFacts

LEMMA CallFacts ==
  ASSUME Types, NEW own \in Seq(Word), NEW named \in Seq(Word), Call(own, named)
  PROVE  \E x \in Called : x.level = level /\ x.own = own /\ ran' = Append(ran, x)
<1> DEFINE x == [level |-> level, own |-> own, named |-> named]
<1>1. x \in Called /\ x.level = level /\ x.own = own
  BY DEF Called, Types, FlowOK
<1>2. ran' = Append(ran, x)
  BY Zenon DEF Call
<1> QED BY <1>1, <1>2

LEMMA RanFacts ==
  ASSUME Types
  PROVE  ran \in Seq(Called) /\ Len(ran) \in Nat /\ DOMAIN ran = 1 .. Len(ran)
         /\ (\A i \in 1 .. Len(ran) : ran[i].level \in Level) /\ level \in Level
<1>1. ran \in Seq(Called) /\ level \in Level
  BY DEF Types, FlowOK
<1>2. Len(ran) \in Nat /\ DOMAIN ran = 1 .. Len(ran) /\ \A i \in 1 .. Len(ran) : ran[i] \in Called
  BY <1>1, LenProperties, ElementOfSeq
<1>3. \A i \in 1 .. Len(ran) : ran[i].level \in Level
  BY <1>2 DEF Called
<1> QED BY <1>1, <1>2, <1>3

\* Before the Action is triggered it was not called at this level.
LEMMA NotCalledYet ==
  ASSUME Types, Calls, pc \in {"parse", "before", "trigger"}
  PROVE  CallsIn(ran, level) = {}
<1>1. \A i \in 1 .. Len(ran) : ran[i].level < level
  BY DEF Calls
<1>2. DOMAIN ran = 1 .. Len(ran) /\ level \in Nat
  BY RanFacts, LevelsAssumption DEF Level
<1>3. \A i \in DOMAIN ran : ran[i].level # level
  BY <1>1, <1>2
<1> QED BY <1>3, Zenon DEF CallsIn

\* When the Action is triggered: because the option was used.
LEMMA TriggeredFacts ==
  ASSUME History, pc = "trigger"
  PROVE  /\ ~case.each => (Triggered <=> UsedIn(case, ImpliedWords, level))
         /\ case.each /\ ~Triggered => Given = <<>>
<1>1. Types /\ FlowOK /\ StoreOK /\ Progress /\ Counted /\ ImpliedOnce
  BY DEF History, Types
<1>2. seenImplied <=> ImpliedWords # <<>>
  BY <1>1, Zenon DEF ImpliedOnce
<1>3. Here = Given /\ Given \in Seq(Seq(Word)) /\ Len(Given) \in Nat
  BY <1>1, GivenFacts DEF Here, FlowOK
<1>4. ASSUME ~case.each PROVE Triggered <=> UsedIn(case, ImpliedWords, level)
  <2> DEFINE a == GivenTo(case, level - 1)
  <2>1. Occurred = a \o Given /\ a \in Seq(Seq(Word)) /\ Occurred \in Seq(Seq(Word))
    BY <1>1, <1>3, OccurredIs, HereTyped
  <2>2. level - 1 \in 0 .. Levels /\ case \in Case /\ level \in Level
    BY <1>1, LevelsAssumption DEF FlowOK, Level
  <2>3. a = <<>> <=> \A j \in 1 .. level - 1 : case.given[j] = <<>>
    BY <2>2, GivenToNone
  <2> HIDE DEF a
  <2>4. Occurred = <<>> <=> a = <<>> /\ Given = <<>>
    BY <1>3, <2>1, ConcatEqualIffEmpty
  <2>5. \A j : j \in 1 .. level <=> j \in 1 .. level - 1 \/ j = level
    BY <2>2, LevelsAssumption DEF Level
  <2>6. Occurred = <<>> <=> \A j \in 1 .. level : case.given[j] = <<>>
    BY <2>3, <2>4, <2>5, Zenon DEF Given
  <2>7. Seen <=> Occurred # <<>>
    <3>1. Occurrences = Len(Occurred)
      BY <1>1, <1>4 DEF Counted, Occurrences
    <3>2. Len(Occurred) > 0 <=> Occurred # <<>>
      BY <2>1, EmptySeq
    <3> QED BY <3>1, <3>2 DEF Seen
  <2> QED BY <1>2, <2>6, <2>7, Zenon DEF Triggered, UsedIn
<1>5. ASSUME case.each, ~Triggered PROVE Given = <<>>
  <2>1. ~Seen
    BY <1>5, Zenon DEF Triggered
  <2>2. Len(all) \in Nat
    BY <1>1, AllFacts
  <2>3. Len(all) = 0
    BY <1>5, <2>1, <2>2 DEF Seen, Occurrences
  <2>4. Len(Given) <= Len(all)
    BY <1>1, <1>3, <1>5 DEF Counted
  <2>5. Len(Given) = 0
    BY <1>3, <2>3, <2>4
  <2> QED BY <1>3, <2>5, EmptySeq
<1> QED BY <1>4, <1>5

LEMMA CallsInit == Init => Calls /\ Merged
<1> SUFFICES ASSUME Init PROVE Calls /\ Merged
  OBVIOUS
<1>1. pc = "parse" /\ level = 1 /\ ran = <<>>
  BY DEF Init
<1>2. Len(ran) = 0
  BY <1>1
<1>3. \A k \in Level : ~(k < level)
  BY <1>1 DEF Level
<1>4. \A i \in 1 .. Len(ran) : FALSE
  BY <1>2
<1>5. pc # "done" /\ pc # "each"
  BY <1>1
<1> QED BY <1>3, <1>4, <1>5, Zenon DEF Calls, Merged

LEMMA CallsSkip ==
  ASSUME History, Calls, Skip
  PROVE  Calls'
<1>1. Types /\ FlowOK
  BY DEF History, Types
<1>2. pc = "trigger" /\ ~Triggered /\ Leave /\ case' = case /\ ran' = ran
  BY DEF Skip
<1>3. CallsIn(ran, level) = {}
  BY <1>1, <1>2, NotCalledYet
<1>4. CalledIn(case, ImpliedWords, ran, level)
  <2>1. CASE case.each
    <3>1. Given = <<>>
      BY <1>2, <2>1, TriggeredFacts
    <3>2. Len(case.given[level]) = 0
      BY <3>1 DEF Given
    <3>3. 0 \in 0 .. Len(ran) /\ 0 + 1 .. 0 + 0 = {} /\ \A i \in 1 .. 0 : FALSE
      BY <1>1, RanFacts
    <3>4. EachIn(case, ran, level, 0, 0)
      BY <1>3, <3>3, Zenon DEF EachIn
    <3> QED BY <2>1, <3>2, <3>3, <3>4, Zenon DEF CalledIn
  <2>2. CASE ~case.each
    <3>1. ~UsedIn(case, ImpliedWords, level)
      BY <1>2, <2>2, TriggeredFacts, Zenon
    <3> QED BY <1>3, <2>2, <3>1, Zenon DEF CalledIn
  <2> QED BY <2>1, <2>2
<1>5. \A k \in Level : k <= level => k < level \/ k = level
  BY <1>1, RanFacts, LevelsAssumption DEF Level
<1>6. \A k \in Level : k <= level => CalledIn(case, ImpliedWords, ran, k)
  BY <1>2, <1>4, <1>5 DEF Calls
<1>7. \A i \in 1 .. Len(ran) : ran[i].level \in Level /\ ran[i].level <= level
  BY <1>1, <1>2, RanFacts DEF Calls
<1> QED BY <1>1, <1>2, <1>6, <1>7, CallsLeft

LEMMA CallsAct ==
  ASSUME History, Calls, Act, Leave
  PROVE  Calls'
<1>1. Types /\ FlowOK /\ StoreOK
  BY DEF History, Types
<1>2. pc = "trigger" /\ Triggered /\ ~case.each /\ case' = case /\ Call(Value, Value)
  BY DEF Act
<1>3. cell[1] \in Seq(Word)
  BY <1>1 DEF StoreOK
<1>4. PICK x \in Called : x.level = level /\ ran' = Append(ran, x)
  BY <1>1, <1>2, <1>3, CallFacts DEF Value
<1>5. /\ ran \in Seq(Called) /\ Len(ran) \in Nat /\ DOMAIN ran = 1 .. Len(ran)
      /\ \A i \in 1 .. Len(ran) : ran[i].level \in Level
      /\ level \in Level
  BY <1>1, RanFacts
<1>6. CallsIn(ran, level) = {}
  BY <1>1, <1>2, NotCalledYet
<1>7. /\ ran' \in Seq(Called) /\ Len(ran') = Len(ran) + 1 /\ ran'[Len(ran) + 1] = x
      /\ \A i \in 1 .. Len(ran) : ran'[i] = ran[i]
      /\ CallsIn(ran', level) = CallsIn(ran, level) \cup {Len(ran) + 1}
  BY <1>4, <1>5, CallsGrow
<1>8. CalledIn(case, ImpliedWords, ran', level)
  <2>1. UsedIn(case, ImpliedWords, level)
    BY <1>2, TriggeredFacts, Zenon
  <2>2. DOMAIN ran' = 1 .. Len(ran')
    BY <1>7, LenProperties
  <2>3. Len(ran) + 1 \in DOMAIN ran'
    BY <1>5, <1>7, <2>2
  <2>4. CallsIn(ran', level) = {Len(ran) + 1}
    BY <1>6, <1>7, Zenon
  <2> QED BY <1>2, <2>1, <2>3, <2>4, Zenon DEF CalledIn
<1>9. ASSUME NEW k \in Level, k <= level PROVE CalledIn(case, ImpliedWords, ran', k)
  <2>1. CASE k = level
    BY <1>8, <2>1
  <2>2. CASE k # level
    <3>1. k < level
      BY <1>5, <1>9, <2>2, LevelsAssumption DEF Level
    <3>2. CalledIn(case, ImpliedWords, ran, k)
      BY <1>2, <3>1 DEF Calls
    <3>3. case \in Case /\ x.level # k
      BY <1>1, <1>4, <2>2 DEF FlowOK
    <3>4. CalledIn(case, ImpliedWords, Append(ran, x), k)
      BY <1>5, <3>2, <3>3, CalledKept
    <3> QED BY <1>4, <3>4, Zenon
  <2> QED BY <2>1, <2>2
<1>10. \A i \in 1 .. Len(ran') : ran'[i].level \in Level /\ ran'[i].level <= level
  <2>1. \A i \in 1 .. Len(ran') : i \in 1 .. Len(ran) \/ i = Len(ran) + 1
    BY <1>5, <1>7
  <2>2. \A i \in 1 .. Len(ran) : ran[i].level <= level
    BY <1>2 DEF Calls
  <2>3. level <= level
    BY <1>5, LevelsAssumption DEF Level
  <2> QED BY <1>4, <1>5, <1>7, <2>1, <2>2, <2>3, Zenon
<1> QED BY <1>1, <1>2, <1>9, <1>10, CallsLeft

LEMMA CallsReset ==
  ASSUME History, Calls, EachReset
  PROVE  Calls' /\ Merged'
<1>1. Types /\ FlowOK
  BY DEF History, Types
<1>2. pc = "trigger" /\ case' = case /\ ran' = ran /\ level' = level /\ pc' = "each" /\ n' = 1
  BY DEF EachReset
<1>3. CallsIn(ran, level) = {}
  BY <1>1, <1>2, NotCalledYet
<1>4. Len(ran) \in Nat
  BY <1>1, RanFacts
<1>5. /\ Len(ran) \in 0 .. Len(ran) /\ Len(ran) = Len(ran) + (n' - 1)
      /\ Len(ran) + 1 .. Len(ran) + (n' - 1) = {} /\ 1 .. n' - 1 = {}
  BY <1>2, <1>4
<1>6. EachIn(case, ran, level, n' - 1, Len(ran))
  BY <1>3, <1>5, Zenon DEF EachIn
<1>7. /\ \A k \in Level : k < level => CalledIn(case, ImpliedWords, ran, k)
      /\ \A i \in 1 .. Len(ran) : ran[i].level <= level
  BY <1>2 DEF Calls
<1>8. pc' \notin {"parse", "before", "trigger"} /\ pc' # "done"
  BY <1>2
<1>9. Calls'
  BY <1>2, <1>5, <1>6, <1>7, <1>8, ImpliedNext, Zenon DEF Calls
<1>10. ~(n' > 1)
  BY <1>2
<1> QED BY <1>9, <1>10, Zenon DEF Merged

\* The occurrences at a level which was accepted can be set.
LEMMA GivenFine ==
  ASSUME Types, Accepted, pc \notin {"parse", "failed"}
  PROVE  Given \in Seq(Seq(Fine))
<1> DEFINE a == GivenTo(case, level - 1)
<1>1. FlowOK /\ Progress
  BY DEF Types
<1>2. Occurred = a \o Given /\ a \in Seq(Seq(Word)) /\ Given \in Seq(Seq(Word))
  BY <1>1, OccurredIs, HereTyped DEF Here
<1> HIDE DEF a
<1>3. /\ Len(a) \in Nat /\ Len(Given) \in Nat /\ Len(Occurred) = Len(a) + Len(Given)
      /\ \A i \in 1 .. Len(a) + Len(Given) :
           Occurred[i] = IF i <= Len(a) THEN a[i] ELSE Given[i - Len(a)]
      /\ Given \in [1 .. Len(Given) -> Seq(Word)]
  BY <1>2, ConcatProperties, LenProperties
<1>4. Occurred \in Seq(Seq(Fine))
  BY DEF Accepted
<1>5. ASSUME NEW m \in 1 .. Len(Given) PROVE Given[m] \in Seq(Fine)
  <2>1. Len(a) + m \in 1 .. Len(Occurred) /\ ~(Len(a) + m <= Len(a)) /\ (Len(a) + m) - Len(a) = m
    BY <1>3
  <2>2. Occurred[Len(a) + m] = Given[m]
    BY <1>3, <2>1
  <2> QED BY <1>4, <2>1, <2>2, ElementOfSeq
<1> DEFINE S == Seq(Fine)
<1> HIDE DEF S
<1>6. Given \in [1 .. Len(Given) -> S]
  BY <1>3, <1>5 DEF S
<1>7. Given \in Seq(S)
  BY <1>3, <1>6, SeqDef
<1> QED BY <1>7 DEF S

\* The Action finds the value of the occurrence for which it is called.
LEMMA OwnFound ==
  ASSUME History, Merged, EachOccurrence
  PROVE  cell'[initial'] = OwnOf(case, level, n) /\ OccurrenceValue(n) = cell'[initial']
<1>1. Types /\ FlowOK /\ StoreOK /\ Progress /\ Accepted
  BY DEF History, Types
<1>2. /\ Given \in Seq(Seq(Word)) /\ DOMAIN Given = 1 .. Len(Given)
      /\ \A m \in 1 .. Len(Given) : Given[m] \in Seq(Word)
  BY <1>1, GivenFacts DEF FlowOK
<1>3. /\ case' = case /\ pc = "each" /\ n \in 1 .. Len(Given) /\ SetOccurrence(Given[n])
  BY <1>2 DEF EachOccurrence
<1>4. case.each /\ n \in Nat \ {0}
  BY <1>1, <1>3, Zenon DEF FlowOK
<1> DEFINE words == Given[n]
<1>5. OccurMulti(words) /\ words \in Seq(Word) /\ Len(all) = n - 1
  BY <1>1, <1>2, <1>3, <1>4 DEF SetOccurrence, Progress
<1> HIDE DEF words
<1>6. cell'[initial'] = optionSetMany(OwnStart, words)
  BY <1>1, <1>5, Multi DEF MultiFacts
<1>7. OccurrenceValue(n) = cell'[initial']
  <2>1. Len(all) + 1 = n
    BY <1>4, <1>5
  <2>2. all'[Len(all) + 1] = initial'
    BY <1>1, <1>3, <1>4, <1>5, MultiStore
  <2> QED BY <2>1, <2>2 DEF OccurrenceValue
<1>8. CASE case.merge # "explicit"
  <2>1. OwnStart = <<>>
    BY <1>8, Zenon DEF OwnStart
  <2>2. optionSetMany(<<>>, words) = SetMany(case.kind, <<>>, words)
    BY SetManyIs
  <2>3. OwnOf(case, level, n) = SetMany(case.kind, <<>>, words)
    BY <1>8, Zenon DEF OwnOf, Given, words
  <2> QED BY <1>6, <1>7, <2>1, <2>2, <2>3, Zenon
<1>9. CASE case.merge = "explicit"
  <2> DEFINE earlier == SubSeq(Given, 1, n - 1)
             upTo == SubSeq(Given, 1, n)
             S == Seq(Fine)
  <2>1. Given \in Seq(Seq(Fine))
    BY <1>1, <1>3, GivenFine
  <2>2. earlier \in Seq(Seq(Fine)) /\ upTo = Append(earlier, words)
    BY <1>3, <2>1, SubSeqGrows DEF words
  <2>3. words \in Seq(Fine)
    BY <1>3, <2>1, ElementOfSeq DEF words
  <2>4. OwnOf(case, level, n) = SetMany(case.kind, <<>>, Joined(upTo))
    BY <1>9, Zenon DEF OwnOf, Given
  <2>5. OwnOf(case, level, n - 1) = SetMany(case.kind, <<>>, Joined(earlier))
    BY <1>9, Zenon DEF OwnOf, Given
  <2>6. n = 1 => earlier = <<>>
    BY SubSeqEmpty
  <2> HIDE DEF earlier, upTo, S
  <2>7. Joined(upTo) = Joined(earlier) \o words /\ Joined(earlier) \in Seq(Fine)
    <3>1. earlier \in Seq(S) /\ words \in S
      BY <2>2, <2>3, Zenon DEF S
    <3>2. Joined(Append(earlier, words)) = Joined(earlier) \o words
      BY <3>1, JoinedMore
    <3>3. Joined(earlier) \in Seq(Fine)
      BY <2>2, JoinedTyped
    <3> QED BY <2>2, <3>2, <3>3, Zenon
  <2>8. OwnStart = optionSetMany(<<>>, Joined(earlier))
    <3>1. CASE n = 1
      <4>1. all = <<>>
        BY <1>1, <1>5, <3>1, EmptySeq DEF StoreOK
      <4>2. OwnStart = <<>>
        BY <4>1, Zenon DEF OwnStart
      <4>3. Joined(earlier) = <<>>
        BY <2>6, <3>1, JoinedNone
      <4> QED BY <4>2, <4>3, SetNone
    <3>2. CASE n # 1
      <4>1. n > 1 /\ Len(all) # 0
        BY <1>4, <1>5, <3>2
      <4>2. all # <<>>
        BY <4>1
      <4>3. OwnStart = cell[initial]
        BY <1>9, <4>2, Zenon DEF OwnStart
      <4>4. cell[initial] = OwnOf(case, level, n - 1)
        BY <1>3, <1>9, <4>1 DEF Merged
      <4> QED BY <2>5, <4>3, <4>4, SetManyIs, Zenon
    <3> QED BY <3>1, <3>2
  <2>9. optionSetMany(<<>>, Joined(earlier) \o words)
          = optionSetMany(optionSetMany(<<>>, Joined(earlier)), words)
    BY <2>3, <2>7, SetBoth
  <2>10. optionSetMany(<<>>, Joined(upTo)) = SetMany(case.kind, <<>>, Joined(upTo))
    BY SetManyIs
  <2> QED BY <1>6, <1>7, <2>4, <2>7, <2>8, <2>9, <2>10, Zenon
<1> QED BY <1>8, <1>9

LEMMA CallsEach ==
  ASSUME History, History', Calls, Merged, EachOccurrence, pc' = "each"
  PROVE  Calls' /\ Merged'
<1>1. Types /\ Types' /\ FlowOK /\ Progress
  BY DEF History, Types
<1>2. /\ pc = "each" /\ case' = case /\ level' = level /\ n' = n + 1 /\ n \in Nat \ {0}
      /\ Call(OccurrenceValue(n), cell'[1])
  BY <1>1 DEF EachOccurrence, UserError, FlowOK
<1>3. cell'[initial'] = OwnOf(case, level, n) /\ OccurrenceValue(n) = cell'[initial']
  BY OwnFound
<1>4. cell'[1] \in Seq(Word) /\ cell'[initial'] \in Seq(Word)
  <2>1. cell' \in Seq(Seq(Word)) /\ cell' # <<>> /\ initial' \in DOMAIN cell'
    BY <1>1 DEF Types, StoreOK
  <2> QED BY <2>1
<1>5. OccurrenceValue(n) \in Seq(Word)
  BY <1>3, <1>4, Zenon
<1>6. PICK x \in Called : /\ x.level = level /\ x.own = OccurrenceValue(n)
                          /\ ran' = Append(ran, x)
  BY <1>1, <1>2, <1>4, <1>5, CallFacts
<1>7. /\ ran \in Seq(Called) /\ Len(ran) \in Nat /\ DOMAIN ran = 1 .. Len(ran)
      /\ level \in Level
  BY <1>1, RanFacts
<1>8. /\ ran' \in Seq(Called) /\ Len(ran') = Len(ran) + 1 /\ ran'[Len(ran) + 1] = x
      /\ \A i \in 1 .. Len(ran) : ran'[i] = ran[i]
      /\ CallsIn(ran', level) = CallsIn(ran, level) \cup {Len(ran) + 1}
  BY <1>6, <1>7, CallsGrow
<1>9. PICK before \in 0 .. Len(ran) :
        Len(ran) = before + (n - 1) /\ EachIn(case, ran, level, n - 1, before)
  BY <1>2, Zenon DEF Calls
<1>10. before \in Nat /\ before + n = Len(ran) + 1
  BY <1>2, <1>7, <1>9
<1>11. EachIn(case, ran', level, n, before)
  <2>1. CallsIn(ran, level) = before + 1 .. before + (n - 1)
        /\ \A i \in 1 .. n - 1 : ran[before + i].own = OwnOf(case, level, i)
    BY <1>9 DEF EachIn
  <2>2. before + 1 .. before + n = (before + 1 .. before + (n - 1)) \cup {Len(ran) + 1}
    BY <1>2, <1>10
  <2>3. CallsIn(ran', level) = before + 1 .. before + n
    BY <1>8, <2>1, <2>2, Zenon
  <2>4. \A i \in 1 .. n - 1 : before + i \in 1 .. Len(ran)
    BY <1>2, <1>7, <1>9, <1>10
  <2>5. \A i \in 1 .. n - 1 : ran'[before + i].own = OwnOf(case, level, i)
    BY <1>8, <2>1, <2>4, Zenon
  <2>6. ran'[before + n].own = OwnOf(case, level, n)
    BY <1>3, <1>6, <1>8, <1>10, Zenon
  <2>7. \A i \in 1 .. n : i \in 1 .. n - 1 \/ i = n
    BY <1>2
  <2> QED BY <2>3, <2>5, <2>6, <2>7, Zenon DEF EachIn
<1>12. n' - 1 = n /\ Len(ran') = before + (n' - 1) /\ before \in 0 .. Len(ran')
  BY <1>2, <1>7, <1>8, <1>10
<1>13. ASSUME NEW k \in Level, k < level PROVE CalledIn(case, ImpliedWords, ran', k)
  <2>1. CalledIn(case, ImpliedWords, ran, k)
    BY <1>2, <1>13 DEF Calls
  <2>2. x.level # k /\ case \in Case
    BY <1>1, <1>6, <1>7, <1>13, LevelsAssumption DEF FlowOK, Level
  <2>3. CalledIn(case, ImpliedWords, Append(ran, x), k)
    BY <1>7, <2>1, <2>2, CalledKept
  <2> QED BY <1>6, <2>3, Zenon
<1>14. \A i \in 1 .. Len(ran') : ran'[i].level <= level
  <2>1. \A i \in 1 .. Len(ran') : i \in 1 .. Len(ran) \/ i = Len(ran) + 1
    BY <1>7, <1>8
  <2>2. \A i \in 1 .. Len(ran) : ran[i].level <= level
    BY <1>2 DEF Calls
  <2>3. level <= level
    BY <1>7, LevelsAssumption DEF Level
  <2> QED BY <1>6, <1>8, <2>1, <2>2, <2>3, Zenon
<1>15. EachIn(case, ran', level, n' - 1, before)
  BY <1>11, <1>12, Zenon
<1>16. pc' \notin {"parse", "before", "trigger"} /\ pc' # "done"
  OBVIOUS
<1>17. Calls'
  BY <1>2, <1>12, <1>13, <1>14, <1>15, <1>16, ImpliedNext, Zenon DEF Calls
<1>18. Merged'
  BY <1>2, <1>3, <1>12, Zenon DEF Merged
<1> QED BY <1>17, <1>18

LEMMA CallsEachDone ==
  ASSUME History, Calls, EachDone
  PROVE  Calls'
<1>1. Types /\ FlowOK /\ Progress
  BY DEF History, Types
<1>2. pc = "each" /\ Leave /\ case' = case /\ ran' = ran /\ n \notin DOMAIN Given
  BY DEF EachDone
<1>3. DOMAIN Given = 1 .. Len(Given) /\ Len(Given) \in Nat
  BY <1>1, GivenFacts DEF FlowOK
<1>4. n - 1 = Len(Given)
  BY <1>1, <1>2, <1>3 DEF Progress
<1>5. CalledIn(case, ImpliedWords, ran, level)
  <2>1. PICK before \in 0 .. Len(ran) : EachIn(case, ran, level, n - 1, before)
    BY <1>2, Zenon DEF Calls
  <2>2. n - 1 = Len(case.given[level]) /\ case.each
    BY <1>1, <1>2, <1>4, Zenon DEF Given, FlowOK
  <2> QED BY <2>1, <2>2, Zenon DEF CalledIn
<1>6. \A k \in Level : k <= level => k < level \/ k = level
  BY <1>1, RanFacts, LevelsAssumption DEF Level
<1>7. \A k \in Level : k <= level => CalledIn(case, ImpliedWords, ran, k)
  BY <1>2, <1>5, <1>6 DEF Calls
<1>8. \A i \in 1 .. Len(ran) : ran[i].level \in Level /\ ran[i].level <= level
  BY <1>1, <1>2, RanFacts DEF Calls
<1> QED BY <1>1, <1>2, <1>7, <1>8, CallsLeft

LEMMA CallsStep ==
  ASSUME History, History', Calls, Merged, [Next]_vars
  PROVE  Calls' /\ Merged'
<1>1. Types /\ FlowOK
  BY DEF History, Types
<1>2. CASE ApplyTo \/ Parsed \/ ImplicitValue \/ Hook
  <2>1. /\ case' = case /\ level' = level /\ ran' = ran
        /\ pc \in {"parse", "before", "trigger"} /\ pc' \in {"parse", "before", "trigger", "failed"}
    BY <1>2 DEF ApplyTo, Parsed, ImplicitValue, Hook
  <2>2. Calls'
    BY <2>1, CallsStay
  <2>3. pc' # "each"
    BY <2>1
  <2> QED BY <2>2, <2>3, Zenon DEF Merged
<1>3. CASE Skip \/ (Act /\ Leave) \/ EachDone
  <2>1. Calls'
    BY <1>3, CallsSkip, CallsAct, CallsEachDone
  <2>2. pc' # "each"
    <3>1. Leave
      BY <1>3 DEF Skip, EachDone
    <3> QED BY <1>1, <3>1, LeaveFacts
  <2> QED BY <2>1, <2>2, Zenon DEF Merged
<1>4. CASE pc' = "failed"
  <2>1. pc' # "each"
    BY <1>4
  <2> QED BY <1>4, <2>1, Zenon DEF Calls, Merged
<1>5. CASE EachReset \/ (EachOccurrence /\ pc' = "each")
  BY <1>5, CallsReset, CallsEach
<1>6. CASE UNCHANGED vars
  <2>1. case' = case /\ pc' = pc /\ level' = level /\ n' = n /\ cell' = cell
        /\ initial' = initial /\ ran' = ran
    BY <1>6 DEF vars
  <2>2. Calls'
    BY <2>1, ImpliedNext, Zenon DEF Calls
  <2>3. Merged'
    BY <2>1, Zenon DEF Merged
  <2> QED BY <2>2, <2>3
<1>7. Act => Leave \/ pc' = "failed"
  BY DEF Act, UserError
<1>8. EachOccurrence => pc' = "each" \/ pc' = "failed"
  BY DEF EachOccurrence, UserError
<1> QED
  BY <1>2, <1>3, <1>4, <1>5, <1>6, <1>7, <1>8, Zenon DEF Next, Done

LEMMA CallsGiveActionPerUse == Types /\ Calls => ActionPerUse
<1> SUFFICES ASSUME Types, Calls, pc = "done", NEW k \in Level
             PROVE  IF case.each THEN CalledForEach(k) ELSE CalledOnce(k)
  BY DEF ActionPerUse
<1>1. FlowOK /\ case \in Case
  BY DEF Types, FlowOK
<1>2. k < level \/ k = level
  BY <1>1, LevelsAssumption DEF FlowOK, Level
<1>3. CalledIn(case, ImpliedWords, ran, k)
  BY <1>2 DEF Calls
<1>4. CallsAt(k) = CallsIn(ran, k)
  BY Zenon DEF CallsAt, CallsIn
<1>5. CASE case.each
  <2>1. PICK before \in 0 .. Len(ran) : EachIn(case, ran, k, Len(case.given[k]), before)
    BY <1>3, <1>5, Zenon DEF CalledIn
  <2>2. DOMAIN case.given[k] = 1 .. Len(case.given[k])
    BY <1>1, CaseFacts, LenProperties
  <2>3. \A m : OwnValue(k, m) = OwnOf(case, k, m)
    BY SetManyIs, Zenon DEF OwnValue, OwnOf
  <2>4. CallsAt(k) = before + 1 .. before + Len(case.given[k])
    BY <1>4, <2>1, Zenon DEF EachIn
  <2>5. \A m \in DOMAIN case.given[k] : ran[before + m].own = OwnValue(k, m)
    BY <2>1, <2>2, <2>3, Zenon DEF EachIn
  <2>6. CalledForEach(k)
    BY <2>4, <2>5, Zenon DEF CalledForEach
  <2> QED BY <1>5, <2>6
<1>6. CASE ~case.each
  <2>1. UsedIn(case, ImpliedWords, k) <=> Used(k)
    BY Zenon DEF UsedIn, Used
  <2>2. CalledOnce(k)
    BY <1>3, <1>4, <1>6, <2>1, Zenon DEF CalledIn, CalledOnce
  <2> QED BY <1>6, <2>2
<1> QED BY <1>5, <1>6

\* The Action is called once at each level where the option was used, or with
\* EachOccurrence once for each occurrence, whose value it finds; nothing is
\* said of EachOccurrence where the option was only implied and has
\* ImpliedAction.
THEOREM ActsPerUse == Spec => []ActionPerUse
<1> DEFINE I == History /\ Calls /\ Merged
<1>1. Init => I
  BY HistoryInit, CallsInit
<1>2. I /\ [Next]_vars => I'
  BY HistoryStep, CallsStep
<1>3. I => ActionPerUse
  BY CallsGiveActionPerUse DEF History
<1> QED BY <1>1, <1>2, <1>3, PTL DEF Spec
=============================================================================
