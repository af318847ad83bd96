---------------------------- MODULE MCStoreCache ---------------------------
(* Instances of StoreCache for TLC. *)
EXTENDS StoreCache
AnyOutcome == {"store", "nothing", "fail", "panic", "reenter"}
=============================================================================
