----------------------------- MODULE MCStoreCache -----------------------------
(***************************************************************************)
(* StoreCache for TLC: three threads are enough for one that fills, one    *)
(* that writes and one that reads what the first left; the threads are     *)
(* interchangeable.                                                        *)
(***************************************************************************)
EXTENDS StoreCache, TLC

CONSTANTS t1, t2, t3

ThreadSymmetry == Permutations({t1, t2, t3})
=============================================================================
