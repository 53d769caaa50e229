--------------------------- MODULE StoreCacheProofs ---------------------------
(***************************************************************************)
(* The two promises of the store's cache, for any number of threads and    *)
(* jobs.                                                                   *)
(***************************************************************************)
EXTENDS StoreCache, TLAPS

(* The lock is held by the one thread that is accepting levels under it.   *)
LockHeld ==
  /\ \A t \in lock : /\ job[t] = "accept"
                     /\ pc[t] \in {"lookup", "compute", "store", "apply"}
  /\ \A t \in Threads :
       job[t] = "accept" /\ pc[t] \in {"lookup", "compute", "store", "apply"}
         => lock = {t}
  /\ \A t \in Threads : pc[t] \in {"lock", "apply"} => job[t] = "accept"

(* While a thread computes a clean view, no other is in the middle of a    *)
(* write: the bump or the commit that began it would have spoilt the view. *)
FillsUndisturbed ==
  \A t \in Threads :
    pc[t] \in {"compute", "store"} /\ clean[t] =>
      /\ Quiet(t)
      /\ pc[t] = "store" => view[t] = Database

(* A current clean entry excludes the writers that have bumped and not     *)
(* committed: their bump emptied the cache and began a new generation.     *)
CurrentEntryExcludesWriters ==
  cache.clean /\ cache.gen = generation =>
    /\ \A t \in Threads : Writing(t) => pc[t] = "after"
    /\ (\A t \in Threads : pc[t] # "after") => cache.value = Database

IInv ==
  /\ TypeOK
  /\ generation > 0
  /\ LockHeld
  /\ FillsUndisturbed
  /\ CurrentEntryExcludesWriters
  /\ AcceptOnCurrentData

LEMMA StoreInit == Init => IInv
<1> SUFFICES ASSUME Init PROVE IInv
  OBVIOUS
<1>1. TypeOK /\ generation > 0
  <2>1. Empty \in Databases
    BY DEF Empty, Databases
  <2>2. cache \in [gen : Nat, value : Databases, clean : BOOLEAN]
    BY <2>1 DEF Init, NoEntry
  <2>3. view \in [Threads -> Databases]
    BY <2>1 DEF Init
  <2>4. pc \in [Threads -> Steps] /\ job \in [Threads -> Jobs]
    BY DEF Init, Steps, Jobs
  <2>5. placed \in BOOLEAN /\ clean \in [Threads -> BOOLEAN]
    BY DEF Init
  <2>6. generation \in Nat /\ committed \in Nat /\ begun \in Nat
        /\ lock \in SUBSET Threads /\ generation > 0
        /\ cache.gen <= generation
    BY DEF Init, NoEntry
  <2> QED
    BY <2>2, <2>3, <2>4, <2>5, <2>6 DEF TypeOK
<1>2. LockHeld /\ FillsUndisturbed /\ AcceptOnCurrentData
  BY DEF Init, LockHeld, FillsUndisturbed, AcceptOnCurrentData
<1>3. CurrentEntryExcludesWriters
  BY DEF Init, CurrentEntryExcludesWriters, NoEntry
<1> QED
  BY <1>1, <1>2, <1>3 DEF IInv

LEMMA StoreNext == IInv /\ [Next]_vars => IInv'
<1> SUFFICES ASSUME IInv, [Next]_vars PROVE IInv'
  OBVIOUS
<1> USE DEF IInv, Goto, Writing, Quiet, Steps, Jobs, NoEntry,
  TypeOK, Databases, Database, Empty
<1>1. ASSUME NEW t \in Threads, Begin(t) PROVE IInv'
  <2>1. TypeOK' /\ (generation > 0)'
    BY <1>1 DEF Begin, FirstStep
  <2>2. LockHeld'
    BY <1>1 DEF Begin, FirstStep, LockHeld
  <2>3. FillsUndisturbed'
    BY <1>1 DEF Begin, FirstStep, FillsUndisturbed
  <2>4. CurrentEntryExcludesWriters'
    BY <1>1 DEF Begin, FirstStep, CurrentEntryExcludesWriters
  <2>5. AcceptOnCurrentData'
    BY <1>1 DEF Begin, FirstStep, AcceptOnCurrentData
  <2> QED
    BY <2>1, <2>2, <2>3, <2>4, <2>5
<1>2. ASSUME NEW t \in Threads, BumpFirst(t) PROVE IInv'
  <2>1. TypeOK' /\ (generation > 0)'
    BY <1>2 DEF BumpFirst, Bump, Spoil
  <2>2. LockHeld'
    BY <1>2 DEF BumpFirst, Bump, Spoil, LockHeld
  <2>3. FillsUndisturbed'
    BY <1>2 DEF BumpFirst, Bump, Spoil, FillsUndisturbed
  <2>4. CurrentEntryExcludesWriters'
    BY <1>2 DEF BumpFirst, Bump, Spoil, CurrentEntryExcludesWriters
  <2>5. AcceptOnCurrentData'
    BY <1>2 DEF BumpFirst, Bump, Spoil, AcceptOnCurrentData
  <2> QED
    BY <2>1, <2>2, <2>3, <2>4, <2>5
<1>3. ASSUME NEW t \in Threads, Refuse(t) PROVE IInv'
  <2>1. TypeOK' /\ (generation > 0)'
    BY <1>3 DEF Refuse
  <2>2. LockHeld'
    BY <1>3 DEF Refuse, LockHeld
  <2>3. FillsUndisturbed'
    BY <1>3 DEF Refuse, FillsUndisturbed
  <2>4. CurrentEntryExcludesWriters'
    BY <1>3 DEF Refuse, CurrentEntryExcludesWriters
  <2>5. AcceptOnCurrentData'
    BY <1>3 DEF Refuse, AcceptOnCurrentData
  <2> QED
    BY <2>1, <2>2, <2>3, <2>4, <2>5
<1>4. ASSUME NEW t \in Threads, Commit(t) PROVE IInv'
  <2>1. TypeOK' /\ (generation > 0)'
    BY <1>4 DEF Commit, AfterCommit, LockFree, Spoil, LockHeld
  <2>2. LockHeld'
    BY <1>4 DEF Commit, AfterCommit, LockFree, Spoil, LockHeld
  <2>3. FillsUndisturbed'
    <3>1. pc' = [pc EXCEPT ![t] = AfterCommit(t)]
      BY <1>4 DEF Commit
    <3>2. AfterCommit(t) \notin {"compute", "store"}
      BY DEF AfterCommit
    <3>3. \A u \in Threads : pc'[u] \in {"compute", "store"} => pc[u] = pc'[u]
      BY <3>1, <3>2
    <3>4. \A u \in Threads : clean'[u] => pc[u] \notin {"compute", "store"}
      BY <1>4 DEF Commit, Spoil
    <3> QED
      BY <3>3, <3>4 DEF FillsUndisturbed
  <2>4. CurrentEntryExcludesWriters'
    BY <1>4 DEF Commit, AfterCommit, LockFree, Spoil,
                CurrentEntryExcludesWriters, LockHeld
  <2>5. AcceptOnCurrentData'
    <3>1. \A u \in Threads : job[u] = "accept" /\ pc[u] = "apply" => u = t
      BY <1>4 DEF Commit, LockFree, LockHeld
    <3>2. \A u \in Threads : job'[u] = "accept" => pc'[u] # "apply"
      BY <1>4, <3>1 DEF Commit, AfterCommit
    <3> QED
      BY <3>2 DEF AcceptOnCurrentData
  <2> QED
    BY <2>1, <2>2, <2>3, <2>4, <2>5
<1>5. ASSUME NEW t \in Threads, BumpAfter(t) PROVE IInv'
  <2>1. TypeOK' /\ (generation > 0)'
    BY <1>5 DEF BumpAfter, Bump
  <2>2. LockHeld'
    BY <1>5 DEF BumpAfter, Bump, LockHeld
  <2>3. FillsUndisturbed'
    BY <1>5 DEF BumpAfter, Bump, FillsUndisturbed
  <2>4. CurrentEntryExcludesWriters'
    BY <1>5 DEF BumpAfter, Bump, CurrentEntryExcludesWriters
  <2>5. AcceptOnCurrentData'
    BY <1>5 DEF BumpAfter, Bump, AcceptOnCurrentData
  <2> QED
    BY <2>1, <2>2, <2>3, <2>4, <2>5
<1>6. ASSUME NEW t \in Threads, TakeLock(t) PROVE IInv'
  <2>1. TypeOK' /\ (generation > 0)'
    BY <1>6 DEF TakeLock, LockFree, LockHeld
  <2>2. LockHeld'
    <3>1. pc' = [pc EXCEPT ![t] = "lookup"] /\ lock' = {t} /\ job' = job
      BY <1>6 DEF TakeLock
    <3>2. job[t] = "accept" /\ lock \subseteq {t} /\ pc[t] = "lock"
      BY <1>6 DEF TakeLock, LockFree, LockHeld
    <3>3. \A u \in Threads :
            job[u] = "accept" /\ pc[u] \in {"lookup", "compute", "store", "apply"}
              => u = t
      BY <3>2 DEF LockHeld
    <3> QED
      BY <3>1, <3>2, <3>3 DEF LockHeld
  <2>3. FillsUndisturbed'
    BY <1>6 DEF TakeLock, LockFree, FillsUndisturbed, LockHeld
  <2>4. CurrentEntryExcludesWriters'
    BY <1>6 DEF TakeLock, LockFree, CurrentEntryExcludesWriters, LockHeld
  <2>5. AcceptOnCurrentData'
    BY <1>6 DEF TakeLock, LockFree, AcceptOnCurrentData, LockHeld
  <2> QED
    BY <2>1, <2>2, <2>3, <2>4, <2>5
<1>7. ASSUME NEW t \in Threads, Lookup(t) PROVE IInv'
  <2>1. TypeOK' /\ (generation > 0)'
    BY ZenonT(40), <1>7 DEF Lookup, Answered, LockHeld
  <2>2. LockHeld'
    BY <1>7 DEF Lookup, Answered, LockHeld
  <2>3. FillsUndisturbed'
    BY <1>7 DEF Lookup, Answered, FillsUndisturbed, LockHeld
  <2>4. CurrentEntryExcludesWriters'
    BY <1>7 DEF Lookup, Answered, CurrentEntryExcludesWriters, LockHeld,
                FillsUndisturbed
  <2>5. AcceptOnCurrentData'
    BY <1>7 DEF Lookup, Answered, AcceptOnCurrentData, LockHeld,
                FillsUndisturbed, CurrentEntryExcludesWriters
  <2> QED
    BY <2>1, <2>2, <2>3, <2>4, <2>5
<1>8. ASSUME NEW t \in Threads, Compute(t) PROVE IInv'
  <2>1. TypeOK' /\ (generation > 0)'
    BY <1>8 DEF Compute
  <2>2. LockHeld'
    BY <1>8 DEF Compute, LockHeld
  <2>3. FillsUndisturbed'
    BY <1>8 DEF Compute, FillsUndisturbed
  <2>4. CurrentEntryExcludesWriters'
    BY <1>8 DEF Compute, CurrentEntryExcludesWriters
  <2>5. AcceptOnCurrentData'
    BY <1>8 DEF Compute, AcceptOnCurrentData
  <2> QED
    BY <2>1, <2>2, <2>3, <2>4, <2>5
<1>9. ASSUME NEW t \in Threads, Store(t) PROVE IInv'
  <2>1. TypeOK' /\ (generation > 0)'
    BY <1>9 DEF Store, Answered, LockHeld
  <2>2. LockHeld'
    BY <1>9 DEF Store, Answered, LockHeld
  <2>3. FillsUndisturbed'
    BY <1>9 DEF Store, Answered, FillsUndisturbed, LockHeld
  <2>4. CurrentEntryExcludesWriters'
    BY ZenonT(40), <1>9 DEF Store, Answered, CurrentEntryExcludesWriters, LockHeld,
                FillsUndisturbed
  <2>5. AcceptOnCurrentData'
    BY <1>9 DEF Store, Answered, AcceptOnCurrentData, LockHeld,
                FillsUndisturbed
  <2> QED
    BY <2>1, <2>2, <2>3, <2>4, <2>5
<1>10. ASSUME NEW t \in Threads, Apply(t) PROVE IInv'
  <2>1. TypeOK' /\ (generation > 0)'
    BY <1>10 DEF Apply, Spoil, LockHeld
  <2>2. LockHeld'
    BY <1>10 DEF Apply, Spoil, LockHeld
  <2>3. FillsUndisturbed'
    BY <1>10 DEF Apply, Spoil, FillsUndisturbed, LockHeld
  <2>4. CurrentEntryExcludesWriters'
    BY <1>10 DEF Apply, Spoil, CurrentEntryExcludesWriters, LockHeld
  <2>5. AcceptOnCurrentData'
    <3>1. \A u \in Threads : pc[u] = "apply" => u = t
      BY <1>10 DEF Apply, LockHeld
    <3>2. \A u \in Threads : pc'[u] # "apply"
      BY <1>10, <3>1 DEF Apply
    <3> QED
      BY <3>2 DEF AcceptOnCurrentData
  <2> QED
    BY <2>1, <2>2, <2>3, <2>4, <2>5
<1>11. CASE UNCHANGED vars
  BY <1>11 DEF vars, LockHeld, FillsUndisturbed, CurrentEntryExcludesWriters,
               AcceptOnCurrentData
<1> QED
  BY <1>1, <1>2, <1>3, <1>4, <1>5, <1>6, <1>7, <1>8, <1>9, <1>10, <1>11
  DEF Next, ThreadNext

THEOREM StoreInvariance == Spec => []IInv
BY StoreInit, StoreNext, PTL DEF Spec

(* Every variable keeps its type: a thread is always at one of its places, *)
(* and the generations are numbers that only writers raise.                *)
THEOREM StoreTypes == Spec => []TypeOK
<1>1. IInv => TypeOK
  BY DEF IInv
<1> QED
  BY <1>1, StoreInvariance, PTL

(* An entry computed while nobody wrote is current while it can be found.  *)
THEOREM CleanEntries == Spec => []CleanEntryCurrent
<1>1. IInv => CleanEntryCurrent
  BY DEF IInv, CurrentEntryExcludesWriters, CleanEntryCurrent
<1> QED
  BY <1>1, StoreInvariance, PTL

(* Levels are accepted on the data they were suggested from.               *)
THEOREM AcceptIsAtomic == Spec => []AcceptOnCurrentData
<1>1. IInv => AcceptOnCurrentData
  BY DEF IInv
<1> QED
  BY <1>1, StoreInvariance, PTL
=============================================================================
