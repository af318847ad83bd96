---------------------------- MODULE StoreService ---------------------------
(***************************************************************************)
(* What the configuration cache promises.  Each invalidation begins an     *)
(* epoch, for which at most one store is provided.  A call answers with    *)
(* the store of an epoch which was current at some time during the call;   *)
(* a call which only asks for the store may answer without one if an       *)
(* invalidation overtook it.                                               *)
(***************************************************************************)
EXTENDS Integers, Sequences

CONSTANTS
  Thread,         \* goroutines which use one Config
  None,           \* no answer
  Empty,          \* the empty store
  Broken,         \* nil, or an interface value without its data
  Panic           \* the panic of a loader

VARIABLES
  kept,           \* kept[e]: what epoch e provides, or None
  since,          \* first epoch a call in progress may answer from, 0: no call
  answer          \* what the latest call of the thread answered

vars == <<kept, since, answer>>

Epoch == Len(kept)

Init ==
  /\ kept = <<None>>
  /\ since = [t \in Thread |-> 0]
  /\ answer = [t \in Thread |-> None]

Call(t) ==
  /\ since[t] = 0
  /\ since' = [since EXCEPT ![t] = Epoch] /\ answer' = [answer EXCEPT ![t] = None]
  /\ kept' = kept

\* The call asks for a new store.
Renew(t) ==
  /\ since[t] # 0
  /\ kept' = Append(kept, None)
  /\ since' = [since EXCEPT ![t] = Epoch + 1]
  /\ answer' = answer

Provide(v) ==
  /\ kept[Epoch] = None /\ kept' = [kept EXCEPT ![Epoch] = v]
  /\ UNCHANGED <<since, answer>>

Answer(t) ==
  /\ since[t] # 0
  /\ \/ \E e \in since[t] .. Epoch : kept[e] # None /\ answer' = [answer EXCEPT ![t] = kept[e]]
     \/ since[t] < Epoch /\ answer' = [answer EXCEPT ![t] = Broken]
     \/ answer' = [answer EXCEPT ![t] = Panic]
  /\ since' = [since EXCEPT ![t] = 0]
  /\ kept' = kept

Next ==
  \/ \E t \in Thread : Call(t) \/ Renew(t) \/ Answer(t)
  \/ \E v \in {Empty, Epoch} : Provide(v)

Spec == Init /\ [][Next]_vars
=============================================================================
