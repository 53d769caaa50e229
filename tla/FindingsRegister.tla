-------------------------- MODULE FindingsRegister --------------------------
(***************************************************************************)
(* The findings register of ot_scout/store.py: rows that the assessor      *)
(* writes and rows that are imported from the drafts of the analysis       *)
(* (save_finding, _next_ref, delete_finding, import_draft_findings), with  *)
(* the references and links of each.                                       *)
(*                                                                         *)
(* A draft is [dk, title, prefix, links]: its key, its title, the prefix   *)
(* its kind gives the reference, and what it cites. Importing collects the *)
(* drafts before it takes Store.lock, matches them in one transaction and  *)
(* adds the missing ones in one transaction each.                          *)
(***************************************************************************)
EXTENDS Naturals, Sequences, FiniteSets

CONSTANTS
  Importers,    \* threads that answer /api/findings/import-drafts
  OwnTitles,    \* titles the assessor writes: own ones, or those of a draft
  OwnPrefixes,  \* prefixes of the kinds of the assessor's own: "OBS", "FND" or "POS"
  OwnRefs,      \* references the assessor types
  MaxId         \* bound on the rows

ASSUME RegisterAssumption ==
  /\ "free" \notin Importers
  /\ MaxId \in Nat \ {0}
  /\ \A r \in OwnRefs : r.number \in Nat

VARIABLES
  rows,     \* findings and finding_links, by id
  job,      \* what each importer is doing
  lock      \* the importer that holds Store.lock, or "free"

registerVars == <<rows, job, lock>>

Ref(prefix, n) == [prefix |-> prefix, number |-> n, odd |-> FALSE]

Ids == DOMAIN rows
Idle == [pc |-> "idle", drafts |-> <<>>, known |-> {}]

RegisterTypeOK ==
  /\ Ids \subseteq 1..MaxId
  /\ \A i \in Ids : rows[i].ref.number \in Nat /\ rows[i].typed \in BOOLEAN
  /\ \A j \in Importers : job[j].pc \in {"idle", "collected", "adding", "added", "failed"}
  /\ lock \in Importers \cup {"free"}
  /\ \A j \in Importers : job[j].pc = "adding" <=> lock = j

\* At first the register is empty, or of a version without draft keys.
RegisterInit(old) ==
  /\ rows \in {<<>>} \cup {<<r>> : r \in old}
  /\ job = [j \in Importers |-> Idle]
  /\ lock = "free"

LockIgnored == TRUE
LockFree == lock = "free"

----------------------------------------------------------------------------
(* References and rows.                                                    *)

\* The references of this prefix that end in digits.
Numbered(prefix) == {i \in Ids : rows[i].ref.prefix = prefix}

\* "OBS-A-1": it ends in digits, and what int() is given is "A".
NextRefRaises(prefix) == \E i \in Numbered(prefix) : rows[i].ref.odd

NextNumberByCount(prefix) == Cardinality(Numbered(prefix)) + 1
NextNumber(prefix) ==
  LET largest == CHOOSE i \in Numbered(prefix) :
                   \A k \in Numbered(prefix) : rows[k].ref.number <= rows[i].ref.number
  IN IF Numbered(prefix) = {} THEN 1 ELSE rows[largest].ref.number + 1
next_ref(prefix) == Ref(prefix, NextNumber(prefix))

\* No AUTOINCREMENT: the next id is one more than the largest.
NewId == IF Ids = {} THEN 1 ELSE 1 + (CHOOSE i \in Ids : \A k \in Ids : k <= i)

Row(ref, d) == [ref |-> ref, typed |-> FALSE, title |-> d.title, dk |-> d.dk,
                links |-> d.links]

WithRow(i, r) == [k \in Ids \cup {i} |-> IF k = i THEN r ELSE rows[k]]

----------------------------------------------------------------------------
(* The assessor.                                                           *)

\* save_finding without an id; a blank reference is filled in.
NewFinding(title, prefix, links) ==
  /\ LockFree
  /\ NewId <= MaxId
  /\ ~NextRefRaises(prefix)
  /\ rows' = WithRow(NewId, Row(next_ref(prefix),
                                [dk |-> "", title |-> title, links |-> links]))
  /\ UNCHANGED <<job, lock>>

\* save_finding with an id: the form sends reference, title and links.
EditFinding(i, ref, title, links) ==
  /\ LockFree
  /\ i \in Ids
  /\ rows' = WithRow(i, [ref |-> ref, typed |-> rows[i].typed \/ ref # rows[i].ref,
                         title |-> title, dk |-> rows[i].dk, links |-> links])
  /\ UNCHANGED <<job, lock>>

delete_finding(i) ==
  /\ LockFree
  /\ i \in Ids
  /\ rows' = [k \in Ids \ {i} |-> rows[k]]
  /\ UNCHANGED <<job, lock>>

link_finding(i, l) ==
  /\ LockFree
  /\ i \in Ids /\ l \notin rows[i].links
  /\ rows' = [rows EXCEPT ![i].links = @ \cup {l}]
  /\ UNCHANGED <<job, lock>>

unlink_finding(i, l) ==
  /\ LockFree
  /\ i \in Ids /\ l \in rows[i].links
  /\ rows' = [rows EXCEPT ![i].links = @ \ {l}]
  /\ UNCHANGED <<job, lock>>

----------------------------------------------------------------------------
(* Importing drafts.                                                       *)

\* The drafts are computed from the state of this moment, without the lock.
Collect(j, drafts) ==
  /\ job[j].pc \in {"idle", "added", "failed"}
  /\ job' = [job EXCEPT ![j] = [pc |-> "collected", drafts |-> drafts, known |-> {}]]
  /\ UNCHANGED <<rows, lock>>

\* The row a draft is matched with: by its key, or by its title in a register
\* that has none yet; of several the last.
Last(ids) == {i \in ids : \A k \in ids : k <= i}
ByKey(d) == {i \in Ids : rows[i].dk = d.dk}
ByTitleOfAny(d) == {i \in Ids : rows[i].title = d.title}
ByTitle(d) == {i \in Ids : rows[i].title = d.title /\ rows[i].dk = ""}
MatchedRow(d) == IF ByKey(d) # {} THEN Last(ByKey(d)) ELSE Last(ByTitle(d))

\* The matched row takes the key, and the links if it has none.
Backfilled(r, d) == [r EXCEPT !.dk = d.dk,
                              !.links = IF @ = {} THEN d.links ELSE @]

Match(j) ==
  LET drafts == job[j].drafts
      hits(i) == {n \in DOMAIN drafts : i \in MatchedRow(drafts[n])}
  IN /\ job[j].pc = "collected" /\ LockFree
     /\ lock' = j
     /\ rows' = [i \in Ids |-> IF hits(i) = {} THEN rows[i]
                               ELSE Backfilled(rows[i], drafts[CHOOSE n \in hits(i) : \A m \in hits(i) : m <= n])]
     /\ job' = [job EXCEPT ![j].pc = "adding",
                           ![j].known = {rows[i].dk : i \in Ids}
                             \cup {d.dk : d \in {drafts[n] : n \in UNION {hits(i) : i \in Ids}}}]

\* The drafts still to be added.
Missing(j) == {n \in DOMAIN job[j].drafts : job[j].drafts[n].dk \notin job[j].known}
First(s) == CHOOSE n \in s : \A m \in s : n <= m

AddNext(j) ==
  LET d == job[j].drafts[First(Missing(j))]
  IN /\ job[j].pc = "adding" /\ Missing(j) # {}
     /\ NewId <= MaxId
     /\ ~NextRefRaises(d.prefix)
     /\ rows' = WithRow(NewId, Row(next_ref(d.prefix), d))
     /\ job' = [job EXCEPT ![j].known = @ \cup {d.dk}]
     /\ UNCHANGED lock

Finish(j) ==
  /\ job[j].pc = "adding" /\ Missing(j) = {}
  /\ job' = [job EXCEPT ![j] = [@ EXCEPT !.pc = "added", !.known = {}]]
  /\ lock' = "free"
  /\ UNCHANGED rows

\* The database is busy, or there is no next reference: what was added stays, and
\* the lock is released.
ImportFails(j) ==
  /\ \/ job[j].pc = "collected" /\ LockFree
     \/ job[j].pc = "adding" /\ Missing(j) # {}
  /\ job' = [job EXCEPT ![j] = [Idle EXCEPT !.pc = "failed"]]
  /\ lock' = "free"
  /\ UNCHANGED rows

ImportNext(j) == Match(j) \/ AddNext(j) \/ Finish(j) \/ ImportFails(j)
=============================================================================
