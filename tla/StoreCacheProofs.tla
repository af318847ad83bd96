-------------------------- MODULE StoreCacheProofs --------------------------
(***************************************************************************)
(* Proofs about StoreCache for any number of goroutines and of calls, and  *)
(* for every loader.                                                       *)
(***************************************************************************)
EXTENDS StoreCache, SequenceTheorems, FiniteSetTheorems, TLAPS

Label == {"idle", "invalidate", "read", "type", "data", "lock", "load", "fill",
          "return", "reentered"}

\* Types; what the cache holds is what the current epoch provides.
Types ==
  /\ kept \in Seq(Nat \cup {None, Empty}) /\ Epoch \in Nat \ {0}
  /\ outcomes \in Seq(SUBSET Outcome) /\ Len(outcomes) = Epoch
  /\ store = kept[Epoch]
  /\ done \in BOOLEAN /\ lastError \in BOOLEAN
  /\ writer \in Thread \cup {None}
  /\ pc \in [Thread -> Label] /\ op \in [Thread -> {"store", "load"}]
  /\ typ \in [Thread -> BOOLEAN] /\ err \in [Thread -> BOOLEAN]
  /\ got \in [Thread -> Value \cup {None, Broken, Panic}]
  /\ calls \in [Thread -> 0 .. MaxCalls]
  /\ since \in [Thread -> 0 .. Epoch]

\* An epoch has one load, which provides its own store or leaves the empty one.
EpochOK(e) ==
  /\ kept[e] \in {None, Empty, e}
  /\ outcomes[e] = {} \/ \E o \in Outcome : outcomes[e] = {o}
  /\ kept[e] # None => outcomes[e] # {}
  /\ "store" \in outcomes[e] => kept[e] = e
  /\ "fail" \in outcomes[e] => lastError

Epochs == \A e \in 1 .. Epoch : EpochOK(e)

\* The Once has run if and only if the current epoch has its load.
Fresh == done <=> outcomes[Epoch] # {}

\* The call was overtaken by an invalidation, or its answer was provided.
Overtaken(t) == since[t] < Epoch
Provided(t) == \E e \in since[t] .. Epoch : kept[e] = got[t] /\ kept[e] # None
NotFailed(t) == \E e \in since[t] .. Epoch : kept[e] = Empty /\ "fail" \notin outcomes[e]

\* Who is in the locked section holds the lock; and why an answer is allowed,
\* from the read which decides it to the return.
ThreadOK(t) ==
  /\ writer = t <=> pc[t] \in {"load", "fill", "reentered"}
  /\ pc[t] = "load" => ~done
  /\ pc[t] = "fill" => done
  /\ pc[t] # "idle" \/ got[t] # None => since[t] >= 1
  /\ pc[t] = "type" => store # None \/ Overtaken(t)
  /\ pc[t] = "data" => (typ[t] /\ store # None) \/ Overtaken(t)
  /\ pc[t] = "return" => (got[t] = Broken /\ Overtaken(t)) \/ Provided(t)
  /\ pc[t] = "idle" /\ op[t] = "load" /\ got[t] = Empty /\ ~err[t] => NotFailed(t)

IInv == Types /\ Epochs /\ Fresh /\ \A t \in Thread : ThreadOK(t)

-----------------------------------------------------------------------------
(* How a step changes the history *)

\* Invalidate begins an epoch for which nothing is provided yet.
LEMMA NewEpoch ==
  ASSUME Types, NEW t \in Thread, Invalidate(t)
  PROVE  /\ kept' \in Seq(Nat \cup {None, Empty}) /\ outcomes' \in Seq(SUBSET Outcome)
         /\ Epoch' = Epoch + 1 /\ Len(outcomes') = Epoch + 1
         /\ kept'[Epoch + 1] = None /\ outcomes'[Epoch + 1] = {}
         /\ \A e \in 1 .. Epoch : kept'[e] = kept[e] /\ outcomes'[e] = outcomes[e]
  BY DEF Types, Epoch, Invalidate

\* A change of what the current epoch provides, or of its outcomes.
LEMMA SameEpoch ==
  ASSUME NEW S, NEW s \in Seq(S), Len(s) \in Nat \ {0}, NEW v \in S
  PROVE  LET u == [s EXCEPT ![Len(s)] = v]
         IN u \in Seq(S) /\ Len(u) = Len(s) /\ u[Len(s)] = v
            /\ \A e \in 1 .. Len(s) : e # Len(s) => u[e] = s[e]
  BY ExceptSeq

\* The cases of Load.
LEMMA LoadFacts ==
  ASSUME Types, NEW t \in Thread, Load(t)
  PROVE  \E o \in Outcome :
           /\ outcomes' \in Seq(SUBSET Outcome) /\ Len(outcomes') = Epoch
           /\ outcomes'[Epoch] = outcomes[Epoch] \cup {o}
           /\ \A e \in 1 .. Epoch : e # Epoch => outcomes'[e] = outcomes[e] /\ kept'[e] = kept[e]
           /\ kept' \in Seq(Nat \cup {None, Empty}) /\ Epoch' = Epoch
           /\ kept'[Epoch] = (IF o = "store" THEN Epoch ELSE kept[Epoch])
           /\ store' = (IF o = "store" THEN Epoch ELSE None)
           /\ lastError' = (o = "fail" \/ lastError)
           /\ writer' = (IF o = "panic" THEN None ELSE writer)
           /\ got' = (IF o = "panic" THEN [got EXCEPT ![t] = Panic] ELSE got)
           /\ pc' = [pc EXCEPT ![t] = IF o = "panic" THEN "idle" ELSE IF o = "reenter" THEN "reentered" ELSE "fill"]
<1>1. PICK o \in Outcome :
        /\ outcomes' = [outcomes EXCEPT ![Epoch] = @ \cup {o}]
        /\ store' = IF o = "store" THEN Epoch ELSE None
        /\ kept' = IF o = "store" THEN [kept EXCEPT ![Epoch] = Epoch] ELSE kept
        /\ lastError' = (o = "fail" \/ lastError)
        /\ IF o = "panic" THEN Unlock(t) ELSE writer' = writer
        /\ got' = IF o = "panic" THEN [got EXCEPT ![t] = Panic] ELSE got
        /\ Goto(t, CASE o = "panic" -> "idle" [] o = "reenter" -> "reentered" [] OTHER -> "fill")
  BY DEF Load
<1>2. /\ outcomes' \in Seq(SUBSET Outcome) /\ Len(outcomes') = Epoch
      /\ outcomes'[Epoch] = outcomes[Epoch] \cup {o}
      /\ \A e \in 1 .. Epoch : e # Epoch => outcomes'[e] = outcomes[e]
  <2>1. outcomes[Epoch] \cup {o} \in SUBSET Outcome
    BY ElementOfSeq DEF Types
  <2> QED BY <2>1, <1>1, SameEpoch DEF Types
<1>3. /\ kept' \in Seq(Nat \cup {None, Empty}) /\ Len(kept') = Len(kept)
      /\ kept'[Len(kept)] = IF o = "store" THEN Len(kept) ELSE kept[Len(kept)]
      /\ \A e \in 1 .. Len(kept) : e # Len(kept) => kept'[e] = kept[e]
  <2>1. Len(kept) \in Nat \ {0} /\ kept \in Seq(Nat \cup {None, Empty})
    BY DEF Types, Epoch
  <2>2. CASE o = "store"
    <3>1. kept' = [kept EXCEPT ![Len(kept)] = Len(kept)]
      BY <1>1, <2>2 DEF Epoch
    <3>2. Len(kept) \in Nat \cup {None, Empty}
      BY <2>1
    <3> QED BY <2>1, <2>2, <3>1, <3>2, SameEpoch
  <2>3. CASE o # "store"
    BY <1>1, <2>1, <2>3
  <2> QED BY <2>2, <2>3
<1>4. pc' = [pc EXCEPT ![t] = IF o = "panic" THEN "idle" ELSE IF o = "reenter" THEN "reentered" ELSE "fill"]
  BY <1>1, Zenon DEF Goto
<1>5. writer' = IF o = "panic" THEN None ELSE writer
  BY <1>1 DEF Unlock
<1>6. /\ Epoch' = Epoch /\ kept' \in Seq(Nat \cup {None, Empty})
      /\ kept'[Epoch] = IF o = "store" THEN Epoch ELSE kept[Epoch]
      /\ \A e \in 1 .. Epoch : e # Epoch => kept'[e] = kept[e]
  BY <1>3 DEF Epoch
<1> QED BY <1>1, <1>2, <1>4, <1>5, <1>6

\* Fill leaves the empty store if there is no other.
LEMMA FillFacts ==
  ASSUME Types, NEW t \in Thread, Fill(t)
  PROVE  /\ kept' \in Seq(Nat \cup {None, Empty}) /\ Epoch' = Epoch
         /\ kept'[Epoch] = (IF store = None THEN Empty ELSE store) /\ store' = kept'[Epoch]
         /\ \A e \in 1 .. Epoch : e # Epoch => kept'[e] = kept[e]
<1>1. Len(kept) \in Nat \ {0} /\ kept \in Seq(Nat \cup {None, Empty}) /\ store = kept[Len(kept)]
  BY DEF Types, Epoch
<1>2. kept' = (IF store = None THEN [kept EXCEPT ![Len(kept)] = Empty] ELSE kept)
      /\ store' = IF store = None THEN Empty ELSE store
  BY DEF Fill, Epoch
<1>3. /\ kept' \in Seq(Nat \cup {None, Empty}) /\ Len(kept') = Len(kept)
      /\ kept'[Len(kept)] = store'
      /\ \A e \in 1 .. Len(kept) : e # Len(kept) => kept'[e] = kept[e]
  <2>1. CASE store = None
    <3>1. Empty \in Nat \cup {None, Empty}
      OBVIOUS
    <3>2. kept' = [kept EXCEPT ![Len(kept)] = Empty] /\ store' = Empty
      BY <1>2, <2>1
    <3> QED BY <1>1, <3>1, <3>2, SameEpoch
  <2>2. CASE store # None
    BY <1>1, <1>2, <2>2
  <2> QED BY <2>1, <2>2
<1> QED BY <1>2, <1>3, Zenon DEF Epoch

-----------------------------------------------------------------------------
(* What a step leaves of the invariant *)

\* What was provided stays, with the outcome of its load; epochs are only added.
Grows ==
  /\ Epoch' >= Epoch
  /\ \A e \in 1 .. Epoch : kept[e] # None => kept'[e] = kept[e] /\ outcomes'[e] = outcomes[e]

\* The step of another thread keeps the claims of a thread, as long as it leaves
\* its variables, its lock and, while it holds the lock, the Once alone.
LEMMA Others ==
  ASSUME Types, Types', Grows, NEW u \in Thread, ThreadOK(u),
         pc'[u] = pc[u], got'[u] = got[u], op'[u] = op[u], err'[u] = err[u],
         typ'[u] = typ[u], since'[u] = since[u],
         writer' = u <=> writer = u, writer = u => done' = done
  PROVE  ThreadOK(u)'
<1>1. Epoch \in Nat /\ Epoch' \in Nat /\ Epoch' >= Epoch /\ since[u] \in 0 .. Epoch
  BY DEF Types, Grows
<1>2. store # None => store' = store \/ Epoch' > Epoch
  BY <1>1 DEF Types, Grows
<1>3. Overtaken(u) => Overtaken(u)'
  BY <1>1 DEF Overtaken
<1>4. Epoch' > Epoch => Overtaken(u)'
  BY <1>1 DEF Overtaken
<1>5. since[u] >= 1 /\ Provided(u) => Provided(u)'
  BY <1>1 DEF Provided, Grows
<1>6. since[u] >= 1 /\ NotFailed(u) => NotFailed(u)'
  <2>1. SUFFICES ASSUME since[u] >= 1, NEW e \in since[u] .. Epoch,
                        kept[e] = Empty, "fail" \notin outcomes[e]
                 PROVE  kept'[e] = Empty /\ "fail" \notin outcomes'[e] /\ e \in since'[u] .. Epoch'
    BY DEF NotFailed
  <2>2. e \in 1 .. Epoch /\ kept[e] # None
    BY <1>1, <2>1, ValueAssumption
  <2> QED BY <1>1, <2>1, <2>2 DEF Grows
<1>7. Empty # None
  BY ValueAssumption
<1> QED BY <1>2, <1>3, <1>4, <1>5, <1>6, <1>7 DEF ThreadOK

\* A step which touches neither the cache nor its history.
LEMMA Quiet ==
  ASSUME IInv, UNCHANGED <<shared, kept, outcomes>>
  PROVE  Epoch' = Epoch /\ Value' = Value /\ Epochs' /\ Fresh' /\ Grows
<1>1. /\ kept' = kept /\ outcomes' = outcomes /\ done' = done /\ lastError' = lastError
      /\ store' = store /\ Epoch' = Epoch
  BY DEF shared, Epoch
<1>2. Value' = Value
  BY <1>1 DEF Value
<1>3. Epochs'
  BY <1>1 DEF IInv, Epochs, EpochOK
<1>4. Fresh'
  BY <1>1 DEF IInv, Fresh
<1>5. Grows
  BY <1>1 DEF Grows, IInv, Types
<1> QED BY <1>1, <1>2, <1>3, <1>4, <1>5

\* The invariant follows from its parts: the types, the epochs, the thread which
\* took the step, and what the others depend on.
LEMMA Parts ==
  ASSUME IInv, Types', Epochs', Fresh', Grows, NEW t \in Thread, ThreadOK(t)',
         \A u \in Thread \ {t} :
           /\ pc'[u] = pc[u] /\ got'[u] = got[u] /\ op'[u] = op[u] /\ err'[u] = err[u]
           /\ typ'[u] = typ[u] /\ since'[u] = since[u]
           /\ (writer' = u <=> writer = u) /\ (writer = u => done' = done)
  PROVE  IInv'
<1>1. ASSUME NEW u \in Thread, u # t PROVE ThreadOK(u)'
  BY <1>1, Others DEF IInv
<1> QED BY <1>1 DEF IInv

-----------------------------------------------------------------------------
(* The actions *)

\* A call forgets the answer of the one before.
LEMMA CallStep ==
  ASSUME IInv, NEW t \in Thread, NEW method \in {"store", "load"}, Call(t, method)
  PROVE  IInv'
<1>1. UNCHANGED <<shared, kept, outcomes>> /\ Epoch' = Epoch /\ Value' = Value
      /\ Epochs' /\ Fresh' /\ Grows
  BY Quiet DEF Call
<1>2. Types'
  BY <1>1, BoundAssumption DEF IInv, Types, Call, Goto, Label, shared
<1>3. ThreadOK(t)'
  <2>1. got'[t] = None /\ since'[t] = Epoch /\ pc'[t] \in {"invalidate", "read"} /\ writer' = writer
    BY DEF Call, Goto, IInv, Types
  <2>2. pc[t] = "idle" /\ ThreadOK(t) /\ Epoch >= 1
    BY DEF Call, IInv, Types
  <2> QED BY <2>1, <2>2 DEF ThreadOK
<1>4. \A u \in Thread \ {t} :
        /\ pc'[u] = pc[u] /\ got'[u] = got[u] /\ op'[u] = op[u] /\ err'[u] = err[u]
        /\ typ'[u] = typ[u] /\ since'[u] = since[u]
  BY DEF Call, Goto, IInv, Types
<1>5. writer' = writer /\ done' = done
  BY DEF Call, shared
<1> QED BY <1>1, <1>2, <1>3, <1>4, <1>5, Parts

\* An invalidation overtakes every call in progress but its own.
LEMMA InvalidateStep == ASSUME IInv, NEW t \in Thread, Invalidate(t) PROVE IInv'
<1>1. /\ kept' \in Seq(Nat \cup {None, Empty}) /\ outcomes' \in Seq(SUBSET Outcome)
      /\ Epoch' = Epoch + 1 /\ Len(outcomes') = Epoch + 1
      /\ kept'[Epoch + 1] = None /\ outcomes'[Epoch + 1] = {}
      /\ \A e \in 1 .. Epoch : kept'[e] = kept[e] /\ outcomes'[e] = outcomes[e]
  BY NewEpoch DEF IInv
<1>2. /\ pc[t] = "invalidate" /\ writer = None /\ writer' = writer
      /\ store' = None /\ done' = FALSE /\ lastError' = lastError
      /\ since' = [since EXCEPT ![t] = Epoch + 1] /\ pc' = [pc EXCEPT ![t] = "read"]
      /\ UNCHANGED <<op, typ, got, err, calls>>
  BY DEF Invalidate, DropStore, KeepError, Goto
<1>3. Types'
  <2>1. got' \in [Thread -> Value' \cup {None, Broken, Panic}]
    BY <1>1, <1>2 DEF IInv, Types, Value
  <2>2. since' \in [Thread -> 0 .. Epoch']
    BY <1>1, <1>2 DEF IInv, Types
  <2>3. store' = kept'[Epoch'] /\ Epoch' \in Nat \ {0} /\ Len(outcomes') = Epoch'
    BY <1>1, <1>2 DEF IInv, Types
  <2>4. pc' \in [Thread -> Label]
    BY <1>2 DEF IInv, Types, Label
  <2> QED BY <1>1, <1>2, <2>1, <2>2, <2>3, <2>4 DEF IInv, Types
<1>4. Epochs'
  <2>1. ASSUME NEW e \in 1 .. Epoch' PROVE EpochOK(e)'
    <3>1. CASE e = Epoch + 1
      BY <1>1, <3>1 DEF EpochOK
    <3>2. CASE e # Epoch + 1
      <4>1. e \in 1 .. Epoch
        BY <1>1, <3>2 DEF IInv, Types
      <4>2. EpochOK(e) /\ kept'[e] = kept[e] /\ outcomes'[e] = outcomes[e]
        BY <1>1, <4>1 DEF IInv, Epochs
      <4> QED BY <1>2, <4>2 DEF EpochOK
    <3> QED BY <3>1, <3>2
  <2> QED BY <2>1 DEF Epochs
<1>5. Fresh' /\ Grows
  BY <1>1, <1>2 DEF Fresh, Grows, IInv, Types
<1>6. ThreadOK(t)'
  <2>1. since'[t] = Epoch + 1 /\ pc'[t] = "read" /\ writer' = None /\ t # None
    BY <1>2, ValueAssumption DEF IInv, Types
  <2> QED BY <2>1 DEF ThreadOK, IInv, Types
<1>7. \A u \in Thread \ {t} :
        /\ pc'[u] = pc[u] /\ got'[u] = got[u] /\ op'[u] = op[u] /\ err'[u] = err[u]
        /\ typ'[u] = typ[u] /\ since'[u] = since[u]
        /\ (writer' = u <=> writer = u) /\ (writer = u => done' = done)
  BY <1>2, ValueAssumption DEF IInv, Types
<1> QED BY <1>3, <1>4, <1>5, <1>6, <1>7, Parts

\* The test for a store decides how the call goes on.
LEMMA TestStep == ASSUME IInv, NEW t \in Thread, Test(t) PROVE IInv'
<1>1. UNCHANGED <<shared, kept, outcomes>> /\ Epoch' = Epoch /\ Value' = Value
      /\ Epochs' /\ Fresh' /\ Grows
  BY Quiet DEF Test, history
<1>2. /\ pc[t] = "read" /\ pc' = [pc EXCEPT ![t] = IF store # None THEN "type" ELSE "lock"]
      /\ UNCHANGED <<store, done, lastError, kept, outcomes, since>>
      /\ UNCHANGED <<writer, op, typ, got, err, calls>>
  BY DEF Test, Goto, shared, history
<1>3. Types'
  BY <1>1, <1>2 DEF IInv, Types, Label
<1>4. ThreadOK(t)'
  BY <1>2, <1>1 DEF ThreadOK, IInv, Types
<1> QED BY <1>1, <1>2, <1>3, <1>4, Parts DEF IInv, Types

\* The two words of an answer are read while the store of the call may go.
LEMMA ReadTypeStep == ASSUME IInv, NEW t \in Thread, ReadType(t) PROVE IInv'
<1>1. UNCHANGED <<shared, kept, outcomes>> /\ Epoch' = Epoch /\ Value' = Value
      /\ Epochs' /\ Fresh' /\ Grows
  BY Quiet DEF ReadType, history
<1>2. /\ pc[t] = "type" /\ pc' = [pc EXCEPT ![t] = "data"]
      /\ typ' = [typ EXCEPT ![t] = (store # None)]
      /\ UNCHANGED <<store, done, lastError, kept, outcomes, since>>
      /\ UNCHANGED <<writer, op, got, err, calls>>
  BY DEF ReadType, Goto, shared, history
<1>3. Types'
  BY <1>1, <1>2 DEF IInv, Types, Label
<1>4. ThreadOK(t)'
  BY <1>1, <1>2 DEF ThreadOK, IInv, Types, Overtaken
<1> QED BY <1>1, <1>2, <1>3, <1>4, Parts DEF IInv, Types

\* The data of an answer is read: of the store which is there now, or of none.
LEMMA ReadDataStep == ASSUME IInv, NEW t \in Thread, ReadData(t) PROVE IInv'
<1>1. UNCHANGED <<shared, kept, outcomes>> /\ Epoch' = Epoch /\ Value' = Value
      /\ Epochs' /\ Fresh' /\ Grows
  BY Quiet DEF ReadData, history
<1>2. /\ pc[t] = "data" /\ pc' = [pc EXCEPT ![t] = "return"]
      /\ got' = [got EXCEPT ![t] = IF typ[t] /\ store # None THEN store ELSE Broken]
      /\ UNCHANGED <<store, done, lastError, kept, outcomes, since>>
      /\ UNCHANGED <<writer, typ, op, err, calls>>
  BY DEF ReadData, Goto, shared, history
<1>3. store = kept[Epoch] /\ Epoch \in Nat \ {0} /\ EpochOK(Epoch) /\ ThreadOK(t)
      /\ since[t] \in 0 .. Epoch
  BY DEF IInv, Types, Epochs
<1>4. store \in Value \cup {None}
  BY <1>3 DEF EpochOK, Value
<1>5. Types'
  <2>1. got' \in [Thread -> Value' \cup {None, Broken, Panic}]
    BY <1>1, <1>2, <1>4 DEF IInv, Types
  <2> QED BY <1>1, <1>2, <2>1 DEF IInv, Types, Label
<1>6. ThreadOK(t)'
  <2>1. pc'[t] = "return" /\ got'[t] = (IF typ[t] /\ store # None THEN store ELSE Broken)
        /\ UNCHANGED <<since, kept, writer>> /\ Epoch' = Epoch
    BY <1>1, <1>2 DEF IInv, Types
  <2>2. CASE typ[t] /\ store # None
    <3>1. Provided(t)'
      BY <1>3, <2>1, <2>2 DEF Provided
    <3> QED BY <1>2, <1>3, <2>1, <3>1 DEF ThreadOK
  <2>3. CASE ~(typ[t] /\ store # None)
    <3>1. Overtaken(t)'
      BY <1>2, <1>3, <2>1, <2>3 DEF Overtaken, ThreadOK
    <3> QED BY <1>2, <1>3, <2>1, <2>3, <3>1 DEF ThreadOK
  <2> QED BY <2>2, <2>3
<1> QED BY <1>1, <1>2, <1>5, <1>6, Parts DEF IInv, Types

\* One goroutine is in the locked section.
LEMMA LockStep == ASSUME IInv, NEW t \in Thread, Lock(t) PROVE IInv'
<1>1. UNCHANGED <<shared, kept, outcomes>> /\ Epoch' = Epoch /\ Value' = Value
      /\ Epochs' /\ Fresh' /\ Grows
  BY Quiet DEF Lock, history
<1>2. /\ pc[t] = "lock" /\ pc' = [pc EXCEPT ![t] = IF ~done THEN "load" ELSE "fill"]
      /\ writer = None /\ writer' = t
      /\ UNCHANGED <<store, done, lastError, kept, outcomes, since>>
      /\ UNCHANGED <<op, typ, got, err, calls>>
  BY DEF Lock, Loads, Goto, shared, history
<1>3. Types'
  BY <1>1, <1>2 DEF IInv, Types, Label
<1>4. ThreadOK(t) /\ pc'[t] = (IF ~done THEN "load" ELSE "fill")
  BY <1>2 DEF IInv, Types
<1>5. ThreadOK(t)'
  BY <1>2, <1>4 DEF ThreadOK
<1>6. \A u \in Thread \ {t} :
        pc'[u] = pc[u] /\ (writer' = u <=> writer = u) /\ (writer = u => done' = done)
  BY <1>2, ValueAssumption DEF IInv, Types
<1> QED BY <1>1, <1>2, <1>3, <1>5, <1>6, Parts

\* The one load of an epoch.
LEMMA LoadStep == ASSUME IInv, NEW t \in Thread, Load(t) PROVE IInv'
<1>1. PICK o \in Outcome :
        /\ outcomes' \in Seq(SUBSET Outcome) /\ Len(outcomes') = Epoch
        /\ outcomes'[Epoch] = outcomes[Epoch] \cup {o}
        /\ \A e \in 1 .. Epoch : e # Epoch => outcomes'[e] = outcomes[e] /\ kept'[e] = kept[e]
        /\ kept' \in Seq(Nat \cup {None, Empty}) /\ Epoch' = Epoch
        /\ kept'[Epoch] = (IF o = "store" THEN Epoch ELSE kept[Epoch])
        /\ store' = (IF o = "store" THEN Epoch ELSE None)
        /\ lastError' = (o = "fail" \/ lastError)
        /\ writer' = (IF o = "panic" THEN None ELSE writer)
        /\ got' = (IF o = "panic" THEN [got EXCEPT ![t] = Panic] ELSE got)
        /\ pc' = [pc EXCEPT ![t] = IF o = "panic" THEN "idle" ELSE IF o = "reenter" THEN "reentered" ELSE "fill"]
  BY LoadFacts DEF IInv
<1>2. pc[t] = "load" /\ done' = TRUE /\ UNCHANGED <<op, typ, err, calls, since>>
  BY DEF Load
<1>3. ThreadOK(t) /\ Types /\ Epoch \in Nat \ {0} /\ EpochOK(Epoch)
  BY DEF IInv, Types, Epochs
<1>4. writer = t /\ ~done /\ since[t] >= 1
  BY <1>2, <1>3 DEF ThreadOK
<1>5. outcomes[Epoch] = {} /\ kept[Epoch] = None
  BY <1>3, <1>4 DEF IInv, Fresh, EpochOK
<1>6. Types'
  <2>1. got' \in [Thread -> Value' \cup {None, Broken, Panic}]
    BY <1>1, <1>3 DEF Types, Value
  <2>2. pc' \in [Thread -> Label]
    BY <1>1, <1>3 DEF Types, Label
  <2>3. store' = kept'[Epoch'] /\ lastError' \in BOOLEAN /\ writer' \in Thread \cup {None}
    BY <1>1, <1>3, <1>5 DEF Types
  <2>4. since' \in [Thread -> 0 .. Epoch']
    BY <1>1, <1>2, <1>3 DEF Types
  <2> QED BY <1>1, <1>2, <1>3, <2>1, <2>2, <2>3, <2>4 DEF Types
<1>7. Epochs'
  <2>1. ASSUME NEW e \in 1 .. Epoch PROVE EpochOK(e)'
    <3>1. CASE e = Epoch
      BY <1>1, <1>5, <3>1 DEF EpochOK
    <3>2. CASE e # Epoch
      <4>1. EpochOK(e) /\ kept'[e] = kept[e] /\ outcomes'[e] = outcomes[e]
        BY <1>1, <3>2 DEF IInv, Epochs
      <4> QED BY <1>1, <4>1 DEF EpochOK
    <3> QED BY <3>1, <3>2
  <2> QED BY <1>1, <2>1 DEF Epochs
<1>8. Fresh' /\ Grows
  <2>1. outcomes'[Epoch'] = {o} /\ done'
    BY <1>1, <1>2, <1>5
  <2>2. Fresh'
    BY <2>1 DEF Fresh
  <2>3. Grows
    BY <1>1, <1>3, <1>5 DEF Grows
  <2> QED BY <2>2, <2>3
<1>9. ThreadOK(t)'
  <2>1. since'[t] = since[t] /\ op'[t] = op[t] /\ err'[t] = err[t] /\ t # None
    BY <1>2, ValueAssumption
  <2>2. pc'[t] = (IF o = "panic" THEN "idle" ELSE IF o = "reenter" THEN "reentered" ELSE "fill")
        /\ (o = "panic" => got'[t] = Panic)
    BY <1>1, <1>3 DEF Types
  <2>3. Panic # Empty
    BY ValueAssumption
  <2> QED BY <1>1, <1>2, <1>4, <2>1, <2>2, <2>3 DEF ThreadOK
<1>10. \A u \in Thread \ {t} :
        /\ pc'[u] = pc[u] /\ got'[u] = got[u] /\ (writer' = u <=> writer = u)
        /\ (writer = u => done' = done)
  BY <1>1, <1>3, <1>4, ValueAssumption DEF Types
<1>11. op' = op /\ typ' = typ /\ err' = err /\ since' = since
  BY <1>2
<1> QED BY <1>6, <1>7, <1>8, <1>9, <1>10, <1>11, Parts

\* An epoch whose load did not return a store gets the empty one.
LEMMA FillStep == ASSUME IInv, NEW t \in Thread, Fill(t) PROVE IInv'
<1>1. /\ kept' \in Seq(Nat \cup {None, Empty}) /\ Epoch' = Epoch
      /\ kept'[Epoch] = (IF store = None THEN Empty ELSE store) /\ store' = kept'[Epoch]
      /\ \A e \in 1 .. Epoch : e # Epoch => kept'[e] = kept[e]
  BY FillFacts DEF IInv
<1>2. /\ pc[t] = "fill" /\ pc' = [pc EXCEPT ![t] = "return"]
      /\ got' = [got EXCEPT ![t] = store'] /\ writer' = None
      /\ done' = done /\ lastError' = lastError /\ outcomes' = outcomes /\ since' = since
      /\ op' = op /\ typ' = typ /\ err' = err /\ calls' = calls
  BY DEF Fill, Goto
<1>3. ThreadOK(t) /\ Types /\ Epoch \in Nat \ {0} /\ EpochOK(Epoch) /\ store = kept[Epoch]
  BY DEF IInv, Types, Epochs
<1>4. writer = t /\ done /\ since[t] \in 1 .. Epoch
  BY <1>2, <1>3 DEF ThreadOK, Types
<1>5. outcomes[Epoch] # {} /\ store' # None /\ store' \in {Empty, Epoch}
  BY <1>1, <1>3, <1>4, ValueAssumption DEF IInv, Fresh, EpochOK
<1>6. Types'
  <2>1. got' \in [Thread -> Value' \cup {None, Broken, Panic}]
    BY <1>1, <1>2, <1>3, <1>5 DEF Types, Value
  <2>2. pc' \in [Thread -> Label]
    BY <1>2, <1>3 DEF Types, Label
  <2> QED BY <1>1, <1>2, <1>3, <2>1, <2>2 DEF Types
<1>7. EpochOK(Epoch)'
  BY <1>1, <1>2, <1>3, <1>5, ValueAssumption DEF EpochOK
<1>8. Epochs'
  <2>1. ASSUME NEW e \in 1 .. Epoch, e # Epoch PROVE EpochOK(e)'
    <3>1. EpochOK(e) /\ kept'[e] = kept[e]
      BY <1>1, <2>1 DEF IInv, Epochs
    <3> QED BY <1>2, <3>1 DEF EpochOK
  <2> QED BY <1>1, <1>7, <2>1 DEF Epochs
<1>9. Fresh' /\ Grows
  BY <1>1, <1>2, <1>3 DEF IInv, Fresh, Grows
<1>10. ThreadOK(t)'
  <2>1. pc'[t] = "return" /\ got'[t] = store' /\ since'[t] = since[t] /\ t # None
    BY <1>2, <1>3, ValueAssumption DEF Types
  <2>2. Provided(t)'
    <3>1. since'[t] = since[t] /\ Epoch' = Epoch /\ kept'[Epoch] = got'[t] /\ got'[t] # None
      BY <1>1, <1>2, <1>5, <2>1
    <3>2. Epoch \in since[t] .. Epoch
      BY <1>3, <1>4
    <3> QED BY <3>1, <3>2 DEF Provided
  <2> QED BY <1>2, <1>4, <2>1, <2>2 DEF ThreadOK
<1>11. \A u \in Thread \ {t} :
        /\ pc'[u] = pc[u] /\ got'[u] = got[u] /\ (writer' = u <=> writer = u)
        /\ (writer = u => done' = done)
  BY <1>2, <1>3, <1>4, ValueAssumption DEF Types
<1> QED BY <1>2, <1>6, <1>8, <1>9, <1>10, <1>11, Parts

\* An empty store without an error comes from a load which did not fail: a
\* failure of that load would still be the last error.
LEMMA ReturnStep == ASSUME IInv, NEW t \in Thread, Return(t) PROVE IInv'
<1>1. UNCHANGED <<shared, kept, outcomes>> /\ Epoch' = Epoch /\ Value' = Value
      /\ Epochs' /\ Fresh' /\ Grows
  BY Quiet DEF Return, history
<1>2. /\ pc[t] = "return" /\ pc' = [pc EXCEPT ![t] = "idle"]
      /\ err' = (IF op[t] = "load" THEN [err EXCEPT ![t] = lastError] ELSE err)
      /\ store' = store /\ done' = done /\ lastError' = lastError
      /\ kept' = kept /\ outcomes' = outcomes /\ since' = since
      /\ writer' = writer /\ op' = op /\ typ' = typ /\ got' = got /\ calls' = calls
  BY DEF Return, Goto, shared, history
<1>3. ThreadOK(t) /\ Types /\ Epoch \in Nat \ {0} /\ since[t] \in 0 .. Epoch
  BY DEF IInv, Types
<1>4. Types'
  <2>1. err' \in [Thread -> BOOLEAN]
    BY <1>2, <1>3 DEF Types
  <2>2. pc' \in [Thread -> Label]
    BY <1>2, <1>3 DEF Types, Label
  <2> QED BY <1>1, <1>2, <1>3, <2>1, <2>2 DEF Types
<1>5. ASSUME op[t] = "load", got[t] = Empty, ~err'[t] PROVE NotFailed(t)
  <2>1. ~lastError
    BY <1>2, <1>3, <1>5 DEF Types
  <2>2. PICK e \in since[t] .. Epoch : kept[e] = Empty
    BY <1>2, <1>3, <1>5, ValueAssumption DEF ThreadOK, Provided
  <2>3. e \in 1 .. Epoch
    BY <1>2, <1>3, <2>2 DEF ThreadOK
  <2>4. "fail" \notin outcomes[e]
    BY <2>1, <2>3 DEF IInv, Epochs, EpochOK
  <2> QED BY <2>2, <2>4 DEF NotFailed
<1>6. ThreadOK(t)'
  <2>1. pc'[t] = "idle"
    BY <1>2, <1>3 DEF Types
  <2>2. NotFailed(t) => NotFailed(t)'
    BY <1>1, <1>2 DEF NotFailed
  <2> QED BY <1>2, <1>3, <1>5, <2>1, <2>2 DEF ThreadOK
<1>7. \A u \in Thread \ {t} : pc'[u] = pc[u] /\ err'[u] = err[u]
  BY <1>2, <1>3 DEF Types
<1> QED BY <1>1, <1>2, <1>4, <1>6, <1>7, Parts

-----------------------------------------------------------------------------
(* The theorems *)

\* Nothing was asked for and nothing loaded.
LEMMA Initially == ASSUME Init PROVE IInv
<1>1. Epoch = 1 /\ kept[1] = None /\ outcomes[1] = {}
  BY DEF Init, Epoch
<1>2. Types
  <2>1. kept \in Seq(Nat \cup {None, Empty}) /\ outcomes \in Seq(SUBSET Outcome) /\ Len(outcomes) = 1
    BY DEF Init
  <2>2. pc \in [Thread -> Label] /\ got \in [Thread -> Value \cup {None, Broken, Panic}]
        /\ calls \in [Thread -> 0 .. MaxCalls] /\ since \in [Thread -> 0 .. Epoch]
    BY <1>1, BoundAssumption DEF Init, Label
  <2>3. op \in [Thread -> {"store", "load"}] /\ typ \in [Thread -> BOOLEAN]
        /\ err \in [Thread -> BOOLEAN]
    BY DEF Init
  <2>4. store = None /\ done \in BOOLEAN /\ lastError \in BOOLEAN /\ writer \in Thread \cup {None}
    BY DEF Init
  <2> QED BY <1>1, <2>1, <2>2, <2>3, <2>4 DEF Types
<1>3. Epochs /\ Fresh
  BY <1>1 DEF Init, Epochs, EpochOK, Fresh
<1>4. ASSUME NEW t \in Thread PROVE ThreadOK(t)
  BY <1>4, ValueAssumption DEF Init, ThreadOK
<1> QED BY <1>2, <1>3, <1>4 DEF IInv

\* A step of any goroutine preserves the invariant.
LEMMA StepPreserves == ASSUME IInv, [Next]_vars PROVE IInv'
<1>1. CASE Next
  <2>1. PICK t \in Thread : Step(t) \/ \E method \in {"store", "load"} : Call(t, method)
    BY <1>1 DEF Next
  <2> QED BY <2>1, CallStep, InvalidateStep, TestStep, ReadTypeStep, ReadDataStep, LockStep,
             LoadStep, FillStep, ReturnStep DEF Step
<1>2. CASE UNCHANGED vars
  <2>1. UNCHANGED <<store, done, lastError, writer, pc, op, typ, got, err, calls, kept, since, outcomes>>
    BY <1>2 DEF vars, shared, history
  <2>2. Epoch' = Epoch /\ Value' = Value
    BY <2>1 DEF Epoch, Value
  <2>3. Types' /\ Epochs' /\ Fresh'
    BY <2>1, <2>2 DEF IInv, Types, Epochs, EpochOK, Fresh
  <2>4. ASSUME NEW t \in Thread PROVE ThreadOK(t)'
    <3>1. ThreadOK(t)
      BY DEF IInv
    <3> QED BY <2>1, <2>2, <3>1 DEF ThreadOK, Overtaken, Provided, NotFailed
  <2> QED BY <2>3, <2>4 DEF IInv
<1> QED BY <1>1, <1>2

\* The cache holds what its epoch provides, an epoch has one load, and every
\* answer was provided during its call or overtaken.
THEOREM Invariant == Spec => []IInv
<1> QED BY Initially, StepPreserves, PTL DEF Spec

\* The cache, the lock and every call are well formed, for any number of
\* goroutines and of epochs.
THEOREM TypeCorrect == Spec => []TypeOK
<1>1. ASSUME IInv PROVE TypeOK
  <2>1. \A e \in 1 .. Epoch : kept[e] \in Value \cup {None}
    BY <1>1 DEF IInv, Epochs, EpochOK, Value
  <2>2. kept \in Seq(Value \cup {None})
    <3>1. kept \in [1 .. Epoch -> Value \cup {None}] /\ Epoch \in Nat
      BY <1>1, <2>1 DEF IInv, Types, Epoch
    <3> QED BY <3>1
  <2>3. store \in {None, Empty, Epoch}
    BY <1>1 DEF IInv, Types, Epochs, EpochOK
  <2>4. \A t \in Thread : writer = t <=> pc[t] \in {"load", "fill", "reentered"}
    BY <1>1 DEF IInv, ThreadOK
  <2> QED BY <1>1, <2>2, <2>3, <2>4 DEF IInv, Types, TypeOK, Label
<1> QED BY <1>1, Invariant, PTL

\* However the calls of any number of goroutines interleave, what an epoch
\* provides comes from one run of the loader.
THEOREM OneLoadPerEpoch == Spec => []ProvidedByOneLoad
<1>1. ASSUME IInv PROVE ProvidedByOneLoad
  <2>1. ASSUME NEW e \in 1 .. Epoch PROVE EpochOK(e)
    BY <1>1 DEF IInv, Epochs
  <2>2. ASSUME NEW e \in 1 .. Epoch PROVE Cardinality(outcomes[e]) <= 1
    <3>1. CASE outcomes[e] = {}
      BY <3>1, FS_EmptySet
    <3>2. CASE \E o \in Outcome : outcomes[e] = {o}
      BY <3>2, FS_Singleton
    <3> QED BY <2>1, <3>1, <3>2 DEF EpochOK
  <2> QED BY <2>1, <2>2 DEF ProvidedByOneLoad, EpochOK
<1> QED BY <1>1, Invariant, PTL

\* Load answers with the empty store and no error only if some load of its time
\* did not fail.
THEOREM FailuresAreReported == Spec => []FailureIsReported
<1>1. IInv => FailureIsReported
  BY DEF IInv, ThreadOK, NotFailed, FailureIsReported
<1> QED BY <1>1, Invariant, PTL

-----------------------------------------------------------------------------
(* The cache implements the service *)

ServiceStep == [Service!Next]_(Service!vars)

\* A step inside a call does not show.
LEMMA Inside ==
  ASSUME NEW t \in Thread, pc[t] # "idle", pc'[t] # "idle", since'[t] = since[t],
         \A u \in Thread \ {t} : pc'[u] = pc[u] /\ got'[u] = got[u] /\ since'[u] = since[u]
  PROVE  answered' = answered /\ awaiting' = awaiting
  BY DEF answered, awaiting

\* The step which ends a call shows its answer.
LEMMA Leaves ==
  ASSUME NEW t \in Thread, pc[t] # "idle", pc'[t] = "idle",
         \A u \in Thread \ {t} : pc'[u] = pc[u] /\ got'[u] = got[u] /\ since'[u] = since[u]
  PROVE  /\ awaiting[t] = since[t]
         /\ answered' = [answered EXCEPT ![t] = got'[t]]
         /\ awaiting' = [awaiting EXCEPT ![t] = 0]
  BY DEF answered, awaiting

\* A step which neither provides a store nor shows is a stutter of the service.
LEMMA Hidden ==
  ASSUME kept' = kept, answered' = answered, awaiting' = awaiting
  PROVE  ServiceStep
  BY DEF ServiceStep, Service!vars

\* The cache may answer with nothing else than the service.
LEMMA AnswerStep ==
  ASSUME NEW t \in Thread, pc[t] # "idle", pc'[t] = "idle", since[t] >= 1, kept' = kept,
         \A u \in Thread \ {t} : pc'[u] = pc[u] /\ got'[u] = got[u] /\ since'[u] = since[u],
         \/ \E e \in since[t] .. Epoch : kept[e] = got'[t] /\ kept[e] # None
         \/ since[t] < Epoch /\ got'[t] = Broken
         \/ got'[t] = Panic,
         since[t] \in Nat
  PROVE  ServiceStep
<1>1. /\ awaiting[t] = since[t] /\ awaiting[t] # 0
      /\ answered' = [answered EXCEPT ![t] = got'[t]]
      /\ awaiting' = [awaiting EXCEPT ![t] = 0]
  BY Leaves
<1>2. \/ \E e \in awaiting[t] .. Epoch :
           kept[e] # None /\ answered' = [answered EXCEPT ![t] = kept[e]]
      \/ awaiting[t] < Epoch /\ answered' = [answered EXCEPT ![t] = Broken]
      \/ answered' = [answered EXCEPT ![t] = Panic]
  BY <1>1
<1>3. Service!Answer(t)
  BY <1>1, <1>2 DEF Service!Answer, Service!Epoch, Epoch
<1> QED BY <1>3 DEF ServiceStep, Service!Next

\* A call begins, or asks for a new store.
LEMMA BeginsStep ==
  ASSUME Types, NEW t \in Thread, ThreadOK(t), NEW method \in {"store", "load"},
         Call(t, method) \/ Invalidate(t)
  PROVE  ServiceStep
<1>1. CASE Call(t, method)
  <2>1. pc[t] = "idle" /\ pc' = [pc EXCEPT ![t] = IF method = "load" THEN "invalidate" ELSE "read"]
        /\ got' = [got EXCEPT ![t] = None] /\ since' = [since EXCEPT ![t] = Epoch] /\ kept' = kept
    BY <1>1 DEF Call, Goto
  <2>2. awaiting[t] = 0 /\ answered' = [answered EXCEPT ![t] = None]
        /\ awaiting' = [awaiting EXCEPT ![t] = Epoch]
    BY <2>1 DEF answered, awaiting, Types
  <2>3. Service!Call(t)
    BY <2>1, <2>2 DEF Service!Call, Service!Epoch, Epoch
  <2> QED BY <2>3 DEF ServiceStep, Service!Next
<1>2. CASE Invalidate(t)
  <2>1. pc[t] = "invalidate" /\ pc' = [pc EXCEPT ![t] = "read"] /\ got' = got
        /\ since' = [since EXCEPT ![t] = Epoch + 1] /\ kept' = Append(kept, None)
    BY <1>2 DEF Invalidate, Goto
  <2>2. awaiting[t] # 0
    BY <2>1 DEF awaiting, ThreadOK, Types
  <2>3. answered' = answered /\ awaiting' = [awaiting EXCEPT ![t] = Epoch + 1]
    BY <2>1 DEF answered, awaiting, Types
  <2>4. Service!Renew(t)
    BY <2>1, <2>2, <2>3 DEF Service!Renew, Service!Epoch, Epoch
  <2> QED BY <2>4 DEF ServiceStep, Service!Next
<1> QED BY <1>1, <1>2

\* Testing, reading and taking the lock do not show.
LEMMA LooksStep ==
  ASSUME Types, NEW t \in Thread, Test(t) \/ ReadType(t) \/ ReadData(t) \/ Lock(t)
  PROVE  ServiceStep
<1>1. kept' = kept /\ since' = since /\ pc[t] # "idle" /\ pc'[t] # "idle"
  BY DEF Test, ReadType, ReadData, Lock, Goto, history, Types
<1>2. \A u \in Thread \ {t} : pc'[u] = pc[u] /\ got'[u] = got[u]
  BY DEF Test, ReadType, ReadData, Lock, Goto, Types
<1> QED BY <1>1, <1>2, Inside, Hidden

\* A load which returns a store provides it, one which panics ends its call, and
\* any other does not show.
LEMMA LoadShows == ASSUME IInv, NEW t \in Thread, Load(t) PROVE ServiceStep
<1>1. PICK o \in Outcome :
        /\ kept' = IF o = "store" THEN [kept EXCEPT ![Epoch] = Epoch] ELSE kept
        /\ got' = IF o = "panic" THEN [got EXCEPT ![t] = Panic] ELSE got
        /\ pc' = [pc EXCEPT ![t] = CASE o = "panic" -> "idle" [] o = "reenter" -> "reentered"
                                     [] OTHER -> "fill"]
  BY DEF Load, Goto
<1>2. pc[t] = "load" /\ since' = since
  BY DEF Load
<1>3. ThreadOK(t) /\ Types /\ EpochOK(Epoch) /\ since[t] \in Nat
  BY DEF IInv, Types, Epochs
<1>4. ~done /\ since[t] >= 1
  BY <1>2, <1>3 DEF ThreadOK
<1>5. kept[Epoch] = None
  BY <1>3, <1>4 DEF IInv, Fresh, EpochOK
<1>6. \A u \in Thread \ {t} : pc'[u] = pc[u] /\ got'[u] = got[u] /\ since'[u] = since[u]
  BY <1>1, <1>2, <1>3 DEF Types
<1>7. CASE o = "panic"
  <2>1. pc'[t] = "idle" /\ got'[t] = Panic /\ kept' = kept
    BY <1>1, <1>3, <1>7 DEF Types
  <2> QED BY <1>2, <1>3, <1>4, <1>6, <2>1, AnswerStep
<1>8. CASE o # "panic"
  <2>1. pc'[t] # "idle"
    BY <1>1, <1>3, <1>8 DEF Types
  <2>2. answered' = answered /\ awaiting' = awaiting
    BY <1>2, <1>6, <2>1, Inside
  <2>3. CASE o = "store"
    <3>1. Service!Provide(Epoch)
      BY <1>1, <1>5, <2>2, <2>3 DEF Service!Provide, Service!Epoch, Epoch
    <3> QED BY <3>1 DEF ServiceStep, Service!Next, Service!Epoch, Epoch
  <2>4. CASE o # "store"
    BY <1>1, <2>2, <2>4, Hidden
  <2> QED BY <2>3, <2>4
<1> QED BY <1>7, <1>8

\* Filling provides the empty store, if there was none.
LEMMA FillShows == ASSUME Types, NEW t \in Thread, Fill(t) PROVE ServiceStep
<1>1. /\ kept' = (IF store = None THEN [kept EXCEPT ![Epoch] = Empty] ELSE kept)
      /\ got' = [got EXCEPT ![t] = store'] /\ since' = since
      /\ pc[t] = "fill" /\ pc' = [pc EXCEPT ![t] = "return"]
  BY DEF Fill, Goto
<1>2. answered' = answered /\ awaiting' = awaiting
  <2>1. pc'[t] # "idle" /\ \A u \in Thread \ {t} : pc'[u] = pc[u] /\ got'[u] = got[u]
    BY <1>1 DEF Types
  <2> QED BY <1>1, <2>1, Inside
<1>3. CASE store = None
  <2>1. kept[Epoch] = None
    BY <1>3 DEF Types
  <2>2. Service!Provide(Empty)
    BY <1>1, <1>2, <1>3, <2>1 DEF Service!Provide, Service!Epoch, Epoch
  <2> QED BY <2>2 DEF ServiceStep, Service!Next
<1>4. CASE store # None
  BY <1>1, <1>2, <1>4, Hidden
<1> QED BY <1>3, <1>4

\* A call returns what its time provided, or was overtaken.
LEMMA ReturnShows == ASSUME Types, NEW t \in Thread, ThreadOK(t), Return(t) PROVE ServiceStep
<1>1. /\ pc[t] = "return" /\ pc' = [pc EXCEPT ![t] = "idle"]
      /\ kept' = kept /\ got' = got /\ since' = since
  BY DEF Return, Goto, history
<1>2. since[t] >= 1 /\ since[t] \in Nat /\ pc'[t] = "idle"
  BY <1>1 DEF ThreadOK, Types
<1>3. \/ \E e \in since[t] .. Epoch : kept[e] = got'[t] /\ kept[e] # None
      \/ since[t] < Epoch /\ got'[t] = Broken
  BY <1>1 DEF ThreadOK, Provided, Overtaken
<1>4. \A u \in Thread \ {t} : pc'[u] = pc[u]
  BY <1>1 DEF Types
<1> QED BY <1>1, <1>2, <1>3, <1>4, AnswerStep

\* However many goroutines use one Config, their calls answer as the service
\* allows: with a store of their own time, or overtaken by an invalidation.
THEOREM Implementation == Spec => ImplementsService
<1>1. Init => Service!Init
  BY DEF Init, Service!Init, answered, awaiting
<1>2. IInv /\ [Next]_vars => ServiceStep
  <2>1. SUFFICES ASSUME IInv, [Next]_vars PROVE ServiceStep
    OBVIOUS
  <2>2. CASE Next
    <3>1. PICK t \in Thread : Step(t) \/ \E method \in {"store", "load"} : Call(t, method)
      BY <2>2 DEF Next
    <3>2. Types /\ ThreadOK(t)
      BY <2>1 DEF IInv
    <3> QED BY <2>1, <3>1, <3>2, BeginsStep, LooksStep, LoadShows, FillShows, ReturnShows DEF Step
  <2>3. CASE UNCHANGED vars
    <3>1. kept' = kept /\ answered' = answered /\ awaiting' = awaiting
      BY <2>3 DEF vars, history, answered, awaiting
    <3> QED BY <3>1, Hidden
  <2> QED BY <2>1, <2>2, <2>3
<1>3. IInv /\ [Next]_vars => [Service!Next]_(Service!vars)
  BY <1>2 DEF ServiceStep
<1> QED BY <1>1, <1>3, Invariant, PTL DEF Spec, ImplementsService, Service!Spec

=============================================================================
