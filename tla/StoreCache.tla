----------------------------- MODULE StoreCache ----------------------------
(***************************************************************************)
(* The cache behind Config.Store and Config.Load: an RWMutex, a store, a   *)
(* Once which Invalidate replaces, and the last error.  Two places read    *)
(* without the lock what others write: ensureStore returns c.store after   *)
(* RUnlock, and Load reads lastError.  A value of an interface type is two *)
(* words, which such a read fetches one after the other.                   *)
(***************************************************************************)
EXTENDS Integers, Sequences, FiniteSets

CONSTANTS
  Thread,         \* goroutines which use one Config
  None,           \* nil
  Empty,          \* the empty store
  Broken,         \* nil, or an interface value without its data
  Panic,          \* the panic of a loader
  Outcome,        \* what the loader may do
  MaxCalls        \* bound: calls of each goroutine

ASSUME OutcomeAssumption ==
  Outcome \subseteq {"store", "nothing", "fail", "panic", "reenter"} /\ Outcome # {}
ASSUME ValueAssumption ==
  /\ {None, Empty, Broken, Panic} \cap Nat = {} /\ None \notin Thread
  /\ None \notin {Empty, Broken, Panic} /\ Empty \notin {Broken, Panic} /\ Broken # Panic
ASSUME BoundAssumption == MaxCalls \in Nat

VARIABLES
  store, done, lastError,   \* fields of storeCache; done: the Once has run
  writer,         \* holder of the lock for writing, or None
  pc, op,         \* op: the method called
  typ,            \* the first word of a read without the lock
  got, err,       \* result of the call
  calls,
  kept, since,    \* history: stores by epoch, first epoch of a call
  outcomes        \* history: outcomes of the loader by epoch

shared == <<store, done, lastError>>
history == <<kept, since, outcomes>>
vars == <<shared, writer, pc, op, typ, got, err, calls, history>>

Epoch == Len(kept)

Init ==
  /\ store = None /\ done = FALSE /\ lastError = FALSE /\ writer = None
  /\ pc = [t \in Thread |-> "idle"] /\ op = [t \in Thread |-> "store"]
  /\ typ = [t \in Thread |-> FALSE]
  /\ got = [t \in Thread |-> None] /\ err = [t \in Thread |-> FALSE]
  /\ calls = [t \in Thread |-> 0]
  /\ kept = <<None>> /\ since = [t \in Thread |-> 0] /\ outcomes = <<{}>>

Goto(t, label) == pc' = [pc EXCEPT ![t] = label]

\* Config.Store asks for the store; Config.Load invalidates first.
Call(t, method) ==
  /\ pc[t] = "idle" /\ calls[t] < MaxCalls
  /\ calls' = [calls EXCEPT ![t] = @ + 1]
  /\ op' = [op EXCEPT ![t] = method]
  /\ got' = [got EXCEPT ![t] = None] /\ err' = [err EXCEPT ![t] = FALSE]
  /\ since' = [since EXCEPT ![t] = Epoch]
  /\ Goto(t, IF method = "load" THEN "invalidate" ELSE "read")
  /\ UNCHANGED <<shared, writer, typ, kept, outcomes>>

\* Defect: Invalidate clears the error of earlier loads as well.
ForgetError == lastError' = FALSE
\* Invalidate leaves lastError alone.
KeepError == lastError' = lastError

\* Defect: only the Once is replaced.
KeepStore == store' = store
DropStore == store' = None

\* Invalidate: Lock, two assignments, Unlock.
Invalidate(t) ==
  /\ pc[t] = "invalidate" /\ writer = None
  /\ DropStore /\ done' = FALSE /\ KeepError
  /\ kept' = Append(kept, None) /\ outcomes' = Append(outcomes, {})
  /\ since' = [since EXCEPT ![t] = Epoch + 1]
  /\ Goto(t, "read")
  /\ UNCHANGED <<writer, op, typ, got, err, calls>>

\* RLock, the test for a store, RUnlock.  Nothing can change in between.
Test(t) ==
  /\ pc[t] = "read" /\ writer = None
  /\ Goto(t, IF store # None THEN "type" ELSE "lock")
  /\ UNCHANGED <<shared, writer, op, typ, got, err, calls, history>>

\* return c.store, after RUnlock.
ReadType(t) ==
  /\ pc[t] = "type"
  /\ typ' = [typ EXCEPT ![t] = (store # None)]
  /\ Goto(t, "data")
  /\ UNCHANGED <<shared, writer, op, got, err, calls, history>>

ReadData(t) ==
  /\ pc[t] = "data"
  /\ got' = [got EXCEPT ![t] = IF typ[t] /\ store # None THEN store ELSE Broken]
  /\ Goto(t, "return")
  /\ UNCHANGED <<shared, writer, op, typ, err, calls, history>>

\* Defect: whoever waited for the lock loads, whether or not it was done.
LoadsAgain == TRUE
Loads == ~done

Lock(t) ==
  /\ pc[t] = "lock" /\ writer = None
  /\ writer' = t
  /\ Goto(t, IF Loads THEN "load" ELSE "fill")
  /\ UNCHANGED <<shared, op, typ, got, err, calls, history>>

\* Defect: the lock is not released when the loader panics.
HoldOnPanic(t) == writer' = writer
\* The deferred Unlock.
Unlock(t) == writer' = None

\* once.Do: the loader runs with the lock held.  A loader which asks the Config
\* for its store waits for the lock which its own caller holds.
Load(t) ==
  /\ pc[t] = "load"
  /\ \E o \in Outcome :
       /\ outcomes' = [outcomes EXCEPT ![Epoch] = @ \cup {o}]
       /\ done' = TRUE
       /\ store' = IF o = "store" THEN Epoch ELSE None
       /\ kept' = IF o = "store" THEN [kept EXCEPT ![Epoch] = Epoch] ELSE kept
       /\ lastError' = (o = "fail" \/ lastError)
       /\ IF o = "panic" THEN Unlock(t) ELSE writer' = writer
       /\ got' = IF o = "panic" THEN [got EXCEPT ![t] = Panic] ELSE got
       /\ Goto(t, CASE o = "panic" -> "idle" [] o = "reenter" -> "reentered" [] OTHER -> "fill")
  /\ UNCHANGED <<op, typ, err, calls, since>>

\* Without a store use the empty one; unlock and return.
Fill(t) ==
  /\ pc[t] = "fill"
  /\ store' = IF store = None THEN Empty ELSE store
  /\ kept' = IF store = None THEN [kept EXCEPT ![Epoch] = Empty] ELSE kept
  /\ got' = [got EXCEPT ![t] = store']
  /\ writer' = None
  /\ Goto(t, "return")
  /\ UNCHANGED <<done, lastError, op, typ, err, calls, since, outcomes>>

\* The caller gets the store; Load adds the error, read without the lock.
Return(t) ==
  /\ pc[t] = "return"
  /\ err' = IF op[t] = "load" THEN [err EXCEPT ![t] = lastError] ELSE err
  /\ Goto(t, "idle")
  /\ UNCHANGED <<shared, writer, op, typ, got, calls, history>>

Step(t) == Invalidate(t) \/ Test(t) \/ ReadType(t) \/ ReadData(t) \/ Lock(t) \/ Load(t)
           \/ Fill(t) \/ Return(t)
Next == \E t \in Thread : Step(t) \/ \E method \in {"store", "load"} : Call(t, method)

\* Goroutines which can run do, and the lock is free of starvation.
Fairness == \A t \in Thread : WF_vars(Step(t)) /\ SF_vars(Invalidate(t) \/ Test(t) \/ Lock(t))
Spec == Init /\ [][Next]_vars /\ Fairness

-----------------------------------------------------------------------------
Value == {Empty} \cup 1 .. Epoch

\* Types; a store belongs to the current epoch, and the lock to its holder.
TypeOK ==
  /\ store \in {None, Empty, Epoch}
  /\ done \in BOOLEAN /\ lastError \in BOOLEAN
  /\ writer \in Thread \cup {None}
  /\ \A t \in Thread : writer = t <=> pc[t] \in {"load", "fill", "reentered"}
  /\ pc \in [Thread -> {"idle", "invalidate", "read", "type", "data", "lock", "load",
                        "fill", "return", "reentered"}]
  /\ op \in [Thread -> {"store", "load"}] /\ typ \in [Thread -> BOOLEAN]
  /\ got \in [Thread -> Value \cup {None, Broken, Panic}] /\ err \in [Thread -> BOOLEAN]
  /\ calls \in [Thread -> 0 .. MaxCalls]
  /\ kept \in Seq(Value \cup {None}) /\ since \in [Thread -> 0 .. Epoch]
  /\ outcomes \in Seq(SUBSET Outcome) /\ Len(outcomes) = Epoch

\* The answer of a call shows when it has returned, its first epoch until then.
answered == [t \in Thread |-> IF pc[t] = "idle" THEN got[t] ELSE None]
awaiting == [t \in Thread |-> IF pc[t] = "idle" THEN 0 ELSE since[t]]
Service == INSTANCE StoreService WITH answer <- answered, since <- awaiting

\* Every call answers with a store of an epoch which was current during the call
\* (after a Load: its own or a later one) or was overtaken by an invalidation.
ImplementsService == Service!Spec

\* What an epoch provides comes from exactly one run of the loader, also if that
\* failed or panicked, and a store it returned is not hidden by the empty one.
ProvidedByOneLoad ==
  \A e \in 1 .. Epoch :
    /\ Cardinality(outcomes[e]) <= 1 /\ (kept[e] # None => outcomes[e] # {})
    /\ "store" \in outcomes[e] => kept[e] = e

\* Load does not answer with the empty store of a failed load without an error,
\* whoever else loads or invalidates meanwhile.
FailureIsReported ==
  \A t \in Thread :
    pc[t] = "idle" /\ op[t] = "load" /\ got[t] = Empty /\ ~err[t] =>
      \E e \in since[t] .. Epoch : kept[e] = Empty /\ "fail" \notin outcomes[e]

Reentered == \E t \in Thread : pc[t] = "reentered"

\* Every call ends, unless a loader asks the Config which is calling it.
EveryCallEnds == \A t \in Thread : pc[t] # "idle" ~> (pc[t] = "idle" \/ Reentered)

-----------------------------------------------------------------------------
\* "If store creation failed, use the empty store": a call always gets a store.
StoreIsNeverNil == \A t \in Thread : got[t] # Broken
=============================================================================
