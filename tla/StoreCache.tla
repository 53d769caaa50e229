------------------------------ MODULE StoreCache ------------------------------
(***************************************************************************)
(* The computed views of ot_scout/store.py: every view (assets, zones,     *)
(* dashboard, ...) is cached together with the generation it belongs to,   *)
(* and every write starts by moving the generation on (_bump).  Request    *)
(* threads and the parser thread share one Store; transactions are         *)
(* serialised by Store.lock, the cache is not.                             *)
(*                                                                         *)
(* The database is the number of transactions committed and, for one asset *)
(* that has a suggested Purdue level, whether the assessor has set another.*)
(* A view is the database it was computed from, and one view stands for    *)
(* all of them.                                                            *)
(***************************************************************************)
EXTENDS Naturals

CONSTANTS
  Threads,   \* threads that use the store
  MaxJobs    \* bound: jobs begun in all

ASSUME StoreAssumption == MaxJobs \in Nat

VARIABLES
  generation, cache,   \* Store.generation, Store._cache
  committed,           \* transactions committed
  placed,              \* the asset has a level the assessor set
  lock,                \* {the thread that holds Store.lock}, or {}
  pc, job,             \* where each thread is, and what it was asked
  view,                \* the view the thread got last
  clean,               \* history: no write was under way since the lookup
  begun                \* jobs begun

vars == <<generation, cache, committed, placed, lock, pc, job, view, clean,
          begun>>

(***************************************************************************)
(* record  begin/end_session, record_many, save_finding...: bump, write    *)
(* edit    update_asset, merge_assets, add_documented_asset: bump, write,  *)
(*         then answer with the asset as the view has it                   *)
(* meta    meta_set: write, bump                                           *)
(* accept  accept_suggested_levels: bump, then under the lock read the     *)
(*         view and write what it suggests, bump                           *)
(* view    a request that only reads                                       *)
(***************************************************************************)
Jobs  == {"record", "edit", "meta", "accept", "view"}
Steps == {"idle", "bump", "commit", "after", "lock", "lookup", "compute",
          "store", "apply"}

Database == [at |-> committed, placed |-> placed]

Empty   == [at |-> 0, placed |-> FALSE]
NoEntry == [gen |-> 0, value |-> Empty, clean |-> FALSE]

Init ==
  /\ generation = 1 /\ cache = NoEntry
  /\ committed = 0 /\ placed = FALSE /\ lock = {}
  /\ pc = [t \in Threads |-> "idle"]
  /\ job = [t \in Threads |-> "view"]
  /\ view = [t \in Threads |-> Empty]
  /\ clean = [t \in Threads |-> FALSE]
  /\ begun = 0

Goto(t, step) == pc' = [pc EXCEPT ![t] = step]

(***************************************************************************)
(* A write is under way from its first bump or commit to its last.         *)
(***************************************************************************)
Writing(t) ==
  \/ pc[t] = "commit" /\ job[t] # "meta"
  \/ pc[t] = "after"
  \/ /\ job[t] = "accept"
     /\ pc[t] \in {"lock", "lookup", "compute", "store", "apply"}

Quiet(t) == \A u \in Threads \ {t} : ~Writing(u)

(* A write that starts or commits spoils the views computed at that moment.*)
Spoil ==
  clean' = [u \in Threads |-> clean[u] /\ pc[u] \notin {"compute", "store"}]

BumpForgets == UNCHANGED <<generation, cache>>

BumpWraps == generation' = (generation + 1) % 2 /\ UNCHANGED cache

(* _bump: a new generation and an empty cache, in one bytecode sequence    *)
(* that calls nothing.                                                     *)
Bump == generation' = generation + 1 /\ cache' = NoEntry

LockIgnored(t) == pc[t] = pc[t]

(* "with self.lock": free, or held by the thread itself (an RLock).        *)
LockFree(t) == lock \subseteq {t}

-----------------------------------------------------------------------------
FirstStep(j) ==
  CASE j = "view" -> "lookup"
    [] j = "meta" -> "commit"
    [] OTHER -> "bump"

Begin(t) ==
  /\ pc[t] = "idle"
  /\ begun < MaxJobs
  /\ begun' = begun + 1
  /\ \E j \in Jobs : job' = [job EXCEPT ![t] = j] /\ Goto(t, FirstStep(j))
  /\ UNCHANGED <<generation, cache, committed, placed, lock, view, clean>>

BumpFirst(t) ==
  /\ pc[t] = "bump"
  /\ Bump
  /\ Goto(t, IF job[t] = "accept" THEN "lock" ELSE "commit")
  /\ Spoil
  /\ UNCHANGED <<committed, placed, lock, job, view, begun>>

(* Validation or the database refuses: the bump stays, nothing is written. *)
Refuse(t) ==
  /\ pc[t] = "commit" /\ job[t] \in {"record", "edit"}
  /\ Goto(t, "idle")
  /\ UNCHANGED <<generation, cache, committed, placed, lock, job,
                 view, clean, begun>>

AfterCommit(t) ==
  CASE job[t] = "edit" -> "lookup"
    [] job[t] = "meta" -> "after"
    [] OTHER -> "idle"

(* One transaction under the lock: taken, committed and released.  An edit *)
(* may set the level, or take it away.                                     *)
Commit(t) ==
  /\ pc[t] = "commit"
  /\ LockFree(t)
  /\ committed' = committed + 1
  /\ \/ UNCHANGED placed
     \/ job[t] = "edit" /\ placed' \in BOOLEAN
  /\ Goto(t, AfterCommit(t))
  /\ Spoil
  /\ UNCHANGED <<generation, cache, lock, job, view, begun>>

(* meta_set and accept_suggested_levels bump when they have written.       *)
BumpAfter(t) ==
  /\ pc[t] = "after"
  /\ Bump
  /\ Goto(t, "idle")
  /\ UNCHANGED <<committed, placed, lock, job, view, clean, begun>>

TakeLock(t) ==
  /\ pc[t] = "lock"
  /\ LockFree(t)
  /\ lock' = {t}
  /\ Goto(t, "lookup")
  /\ UNCHANGED <<generation, cache, committed, placed, job,
                 view, clean, begun>>

Answered(t) == IF job[t] = "accept" THEN "apply" ELSE "idle"

(* _cached: an entry of the current generation is the answer.              *)
Lookup(t) ==
  /\ pc[t] = "lookup"
  /\ \/ /\ cache.gen = generation
        /\ view' = [view EXCEPT ![t] = cache.value]
        /\ clean' = [clean EXCEPT ![t] = cache.clean /\ Quiet(t)]
        /\ Goto(t, Answered(t))
     \/ /\ cache.gen # generation
        /\ clean' = [clean EXCEPT ![t] = Quiet(t)]
        /\ Goto(t, "compute")
        /\ UNCHANGED view
  /\ UNCHANGED <<generation, cache, committed, placed, lock, job, begun>>

(* Otherwise it is computed from what is committed...                      *)
Compute(t) ==
  /\ pc[t] = "compute"
  /\ view' = [view EXCEPT ![t] = Database]
  /\ Goto(t, "store")
  /\ UNCHANGED <<generation, cache, committed, placed, lock, job,
                 clean, begun>>

(* ... and kept under the generation of this later moment.                 *)
Store(t) ==
  /\ pc[t] = "store"
  /\ cache' = [gen |-> generation, value |-> view[t],
                clean |-> clean[t] /\ job[t] # "accept"]
  /\ Goto(t, Answered(t))
  /\ UNCHANGED <<generation, committed, placed, lock, job,
                 view, clean, begun>>

(* accept_suggested_levels writes the suggested level unless the view has  *)
(* one of the assessor's, which overwrite does not replace, and unlocks.   *)
Apply(t) ==
  /\ pc[t] = "apply"
  /\ committed' = committed + 1
  /\ placed' = (placed /\ view[t].placed)
  /\ lock' = {}
  /\ Goto(t, "after")
  /\ Spoil
  /\ UNCHANGED <<generation, cache, job, view, begun>>

ThreadNext(t) ==
  \/ BumpFirst(t) \/ Refuse(t) \/ Commit(t) \/ BumpAfter(t)
  \/ TakeLock(t) \/ Lookup(t) \/ Compute(t) \/ Store(t) \/ Apply(t)

Next == \E t \in Threads : Begin(t) \/ ThreadNext(t)

Spec == Init /\ [][Next]_vars

-----------------------------------------------------------------------------
(* Properties                                                              *)

Databases == [at : Nat, placed : BOOLEAN]

TypeOK ==
  /\ generation \in Nat /\ committed \in Nat /\ begun \in Nat
  /\ placed \in BOOLEAN
  /\ cache \in [gen : Nat, value : Databases, clean : BOOLEAN]
  /\ cache.gen <= generation
  /\ lock \in SUBSET Threads
  /\ pc \in [Threads -> Steps] /\ job \in [Threads -> Jobs]
  /\ view \in [Threads -> Databases] /\ clean \in [Threads -> BOOLEAN]

(***************************************************************************)
(* What the generations do buy: an entry computed while no write was under *)
(* way is current for as long as it can be found, apart from the moment    *)
(* between the commit and the bump of the writers that bump afterwards.    *)
(***************************************************************************)
CleanEntryCurrent ==
  /\ cache.clean
  /\ cache.gen = generation
  /\ \A t \in Threads : pc[t] # "after"
  => cache.value = Database

(***************************************************************************)
(* Levels are accepted on current data: the lock is held from before the   *)
(* view is read until the levels are written, so a view no other write ran *)
(* into still describes the database when it is acted on.                  *)
(***************************************************************************)
AcceptOnCurrentData ==
  \A t \in Threads :
    job[t] = "accept" /\ pc[t] = "apply" /\ clean[t] => view[t] = Database

-----------------------------------------------------------------------------
(***************************************************************************)
(* "Levels you set yourself are never changed." (static/index.html:309, to *)
(* the assessor about to accept the suggestions).                          *)
(***************************************************************************)
LevelsYouSetAreKept ==
  [][\A t \in Threads : Apply(t) => placed' = placed]_vars
=============================================================================
