--------------------------- MODULE AssessmentProofs ---------------------------
(***************************************************************************)
(* The register of findings, the levels of the assessor and the drafts     *)
(* that follow from the zones, for any assets and evidence, any number of  *)
(* importers and any findings of the assessor.                             *)
(***************************************************************************)
EXTENDS Assessment, FiniteSetTheorems, WellFoundedInduction, TLAPS

(***************************************************************************)
(* Facts about the operators.                                              *)
(***************************************************************************)

(* Drafts have a key each, and the key is the title they are matched by.   *)
DraftsOK(f) ==
  /\ DOMAIN f \subseteq Nat
  /\ \A n \in DOMAIN f : f[n].dk # "" /\ f[n].title = f[n].dk
  /\ \A m, n \in DOMAIN f : f[m].dk = f[n].dk => m = n

LEMMA KeysDiffer ==
  /\ DOMAIN DraftKeys = 1..16
  /\ \A n \in 1..16 : DraftKeys[n] # ""
  /\ \A m, n \in 1..16 : DraftKeys[m] = DraftKeys[n] => m = n
<1>1. DOMAIN DraftKeys = 1..16
  BY DEF DraftKeys
<1>a. \A n \in 1..16 : n = 1 \/ n = 2 \/ n = 3 \/ n = 4 \/ n = 5 \/ n = 6 \/ n = 7 \/ n = 8
                       \/ n = 9 \/ n = 10 \/ n = 11 \/ n = 12 \/ n = 13 \/ n = 14 \/ n = 15
                       \/ n = 16
  OBVIOUS
<1>b. /\ DraftKeys[1] = "visibility" /\ DraftKeys[2] = "legs" /\ DraftKeys[3] = "context"
      /\ DraftKeys[4] = "external" /\ DraftKeys[5] = "subnets" /\ DraftKeys[6] = "unexpected-external"
      /\ DraftKeys[7] = "dmz-bypass" /\ DraftKeys[8] = "unexpected-other" /\ DraftKeys[9] = "unreviewed"
      /\ DraftKeys[10] = "unassigned" /\ DraftKeys[11] = "eol" /\ DraftKeys[12] = "backup"
      /\ DraftKeys[13] = "cleartext" /\ DraftKeys[14] = "opcua" /\ DraftKeys[15] = "industrial"
      /\ DraftKeys[16] = "retained"
  BY DEF DraftKeys
<1>2. \A n \in 1..16 : DraftKeys[n] # ""
  BY <1>a, <1>b
<1>3. ASSUME NEW m \in 1..16, NEW n \in 1..16, DraftKeys[m] = DraftKeys[n]
      PROVE  m = n
  BY <1>3, <1>a, <1>b, SMTT(60)
<1> QED
  BY <1>1, <1>2, <1>3

LEMMA DraftsAreOK == DraftsOK(Drafts)
<1> DEFINE D == {m \in DOMAIN DraftKeys : Drafted(relationships, DraftKeys[m])}
<1>1. D \subseteq 1..16
  <2>1. D \subseteq DOMAIN DraftKeys
    BY Zenon
  <2> QED
    BY <2>1, KeysDiffer, Zenon
<1>2. Drafts = [n \in D |-> Draft(relationships, DraftKeys[n])]
  BY DEF Drafts
<1>3. \A n \in D : Drafts[n].dk = DraftKeys[n] /\ Drafts[n].title = DraftKeys[n]
  BY <1>2 DEF Draft
<1>4. DOMAIN Drafts = D
  BY <1>2
<1> HIDE DEF D
<1>5. \A n \in DOMAIN Drafts : /\ n \in Nat
                               /\ Drafts[n].dk # "" /\ Drafts[n].title = Drafts[n].dk
  <2>1. \A n \in 1..16 : n \in Nat
    OBVIOUS
  <2>2. ASSUME NEW n \in D
        PROVE  n \in Nat /\ Drafts[n].dk # "" /\ Drafts[n].title = Drafts[n].dk
    <3>1. n \in 1..16 /\ DraftKeys[n] # ""
      BY <1>1, KeysDiffer
    <3> QED
      BY <3>1, <1>3, <2>1
  <2> QED
    BY <1>4, <2>2
<1>6. ASSUME NEW m \in DOMAIN Drafts, NEW n \in DOMAIN Drafts, Drafts[m].dk = Drafts[n].dk
      PROVE  m = n
  BY ZenonT(40), <1>1, <1>3, <1>4, <1>6, KeysDiffer
<1> QED
  BY <1>5, <1>6 DEF DraftsOK

(* A bounded set of numbers that is not empty has a largest.               *)
LEMMA Largest ==
  ASSUME NEW S \in SUBSET Nat, S # {}, NEW b \in Nat, \A n \in S : n <= b
  PROVE  \E m \in S : \A n \in S : n <= m
<1> DEFINE T == {d \in Nat : b - d \in S}
<1>1. PICK x : x \in S
  OBVIOUS
<1>2. b - x \in T
  <2>1. b - x \in Nat /\ b - (b - x) = x
    <3>1. x \in Nat /\ x <= b
      BY <1>1
    <3> QED
      BY <3>1
  <2> QED
    BY <1>1, <2>1
<1>3. \E d \in T : \A e \in T : ~(<<e, d>> \in OpToRel(<, Nat))
  <2>1. T \subseteq Nat /\ T # {}
    BY <1>2
  <2> HIDE DEF T
  <2> QED
    BY <2>1, NatLessThanWellFounded, WFMin, Zenon
<1>4. PICK d \in T : \A e \in T : ~(<<e, d>> \in OpToRel(<, Nat))
  BY <1>3
<1>5. \A e \in T : ~(e < d)
  BY <1>4, Zenon DEF OpToRel
<1>6. b - d \in S
  OBVIOUS
<1>7. ASSUME NEW n \in S PROVE n <= b - d
  <2>1. b - n \in T
    <3>0. n \in Nat /\ n <= b
      OBVIOUS
    <3>1. b - n \in Nat /\ b - (b - n) = n
      BY <3>0
    <3> QED
      BY <3>1
  <2>2. ~(b - n < d)
    BY <1>5, <2>1
  <2> QED
    BY <2>2
<1> QED
  BY <1>6, <1>7

(* The same from below.                                                    *)
LEMMA Least ==
  ASSUME NEW S \in SUBSET Nat, S # {}
  PROVE  \E m \in S : \A n \in S : m <= n
<1>1. PICK m \in S : \A n \in S : ~(<<n, m>> \in OpToRel(<, Nat))
  BY NatLessThanWellFounded, WFMin, Zenon
<1>2. \A n \in S : ~(n < m)
  BY <1>1, Zenon DEF OpToRel
<1>3. \A n \in S : m <= n
  BY <1>2
<1> QED
  BY <1>3

----------------------------------------------------------------------------
(***************************************************************************)
(* The register.                                                           *)
(***************************************************************************)

RowOK(r) ==
  /\ r = [ref |-> r.ref, typed |-> r.typed, title |-> r.title, dk |-> r.dk, links |-> r.links]
  /\ r.ref.number \in Nat /\ r.typed \in BOOLEAN

(* The rows are finitely many, and so there is a next id and a next number. *)
RowsOK ==
  /\ Ids \subseteq 1..MaxId
  /\ rows = [i \in Ids |-> rows[i]]
  /\ \A i \in Ids : RowOK(rows[i])
  /\ \E b \in Nat : \A i \in Ids : rows[i].ref.number <= b

JobOK(j) ==
  /\ j = [pc |-> j.pc, drafts |-> j.drafts, known |-> j.known]
  /\ j.pc \in {"idle", "collected", "adding", "added", "failed"}
  /\ DraftsOK(j.drafts)

JobsOK ==
  /\ job = [j \in Importers |-> job[j]]
  /\ \A j \in Importers : JobOK(job[j])
  /\ lock \in Importers \cup {"free"}
  /\ \A j \in Importers : job[j].pc = "adding" <=> lock = j

(* What an importer knows while it adds is what the register holds: nobody *)
(* else writes to it.                                                      *)
Known(j) ==
  /\ \A i \in Ids : rows[i].dk # "" => rows[i].dk \in job[j].known
  /\ \A x \in job[j].known : x # "" => \E i \in Ids : rows[i].dk = x
KnownOK == \A j \in Importers : job[j].pc = "adding" => Known(j)

RegisterInv == RowsOK /\ JobsOK /\ KnownOK /\ NoDraftTwice /\ GeneratedRefsDistinct

LEMMA NewIdIsNew ==
  ASSUME RowsOK
  PROVE  NewId \in Nat \ {0} /\ NewId \notin Ids
<1>1. CASE Ids = {}
  BY <1>1 DEF NewId
<1>2. CASE Ids # {}
  <2> DEFINE m == CHOOSE i \in Ids : \A k \in Ids : k <= i
  <2>1. Ids \in SUBSET Nat /\ MaxId \in Nat /\ \A k \in Ids : k <= MaxId
    BY RegisterAssumption DEF RowsOK
  <2>2. \E i \in Ids : \A k \in Ids : k <= i
    BY <1>2, <2>1, Largest
  <2>3. m \in Ids /\ \A k \in Ids : k <= m
    BY <2>2
  <2>4. NewId = 1 + m
    BY <1>2 DEF NewId
  <2> HIDE DEF m
  <2>5. m \in Nat
    BY <2>1, <2>3
  <2> QED
    BY <2>3, <2>4, <2>5
<1> QED
  BY <1>1, <1>2

LEMMA NextNumberIsNew ==
  ASSUME RowsOK, NEW prefix
  PROVE  /\ NextNumber(prefix) \in Nat
         /\ \A i \in Numbered(prefix) : rows[i].ref.number < NextNumber(prefix)
<1> DEFINE L == {rows[i].ref.number : i \in Numbered(prefix)}
           m == CHOOSE i \in Numbered(prefix) :
                  \A k \in Numbered(prefix) : rows[k].ref.number <= rows[i].ref.number
<1>0. Numbered(prefix) \subseteq Ids
  BY DEF Numbered
<1>1. CASE Numbered(prefix) = {}
  BY <1>1 DEF NextNumber
<1>2. CASE Numbered(prefix) # {}
  <2>1. L \in SUBSET Nat /\ L # {}
    BY <1>0, <1>2 DEF RowsOK, RowOK
  <2>2. PICK b \in Nat : \A i \in Ids : rows[i].ref.number <= b
    BY DEF RowsOK
  <2>3. \A n \in L : n <= b
    BY <1>0, <2>2
  <2>4. \E x \in L : \A n \in L : n <= x
    <3> HIDE DEF L
    <3> QED
      BY <2>1, <2>3, Largest
  <2>5. \E i \in Numbered(prefix) :
          \A k \in Numbered(prefix) : rows[k].ref.number <= rows[i].ref.number
    BY <2>4
  <2>6. /\ m \in Numbered(prefix)
        /\ \A k \in Numbered(prefix) : rows[k].ref.number <= rows[m].ref.number
    BY <2>5
  <2>7. NextNumber(prefix) = rows[m].ref.number + 1
    BY <1>2 DEF NextNumber
  <2> HIDE DEF m
  <2>8. \A k \in Numbered(prefix) : rows[k].ref.number \in Nat
    BY <1>0 DEF RowsOK, RowOK
  <2> QED
    BY <2>6, <2>7, <2>8
<1> QED
  BY <1>1, <1>2

(* A row that is added, by the assessor or by an import.                   *)
LEMMA RowAdded ==
  ASSUME RowsOK, GeneratedRefsDistinct, NEW prefix, NEW d, NewId <= MaxId,
         rows' = WithRow(NewId, Row(next_ref(prefix), d))
  PROVE  /\ RowsOK' /\ GeneratedRefsDistinct'
         /\ NewId \notin Ids
         /\ Ids' = Ids \cup {NewId}
         /\ \A i \in Ids : rows'[i] = rows[i]
         /\ rows'[NewId].dk = d.dk
<1> DEFINE n == NewId
           r == Row(next_ref(prefix), d)
           N == NextNumber(prefix)
<1>1. n \in Nat \ {0} /\ n \notin Ids /\ n <= MaxId
  BY NewIdIsNew
<1>2. N \in Nat /\ \A i \in Numbered(prefix) : rows[i].ref.number < N
  BY NextNumberIsNew
<1>3. r = [ref |-> [prefix |-> prefix, number |-> N, odd |-> FALSE], typed |-> FALSE,
           title |-> d.title, dk |-> d.dk, links |-> d.links]
  BY DEF Row, next_ref, Ref
<1>4. rows' = [k \in Ids \cup {n} |-> IF k = n THEN r ELSE rows[k]]
  BY DEF WithRow
<1> HIDE DEF n, r, N
<1>5. /\ Ids' = Ids \cup {n}
      /\ rows'[n] = r
      /\ \A i \in Ids : rows'[i] = rows[i]
  <2>1. Ids' = Ids \cup {n}
    BY <1>4 DEF Ids
  <2>2. \A i \in Ids : i # n
    BY <1>1
  <2> QED
    BY <1>4, <2>1, <2>2
<1>6. RowOK(r)
  BY <1>2, <1>3 DEF RowOK
<1>7. RowsOK'
  <2>1. Ids' \subseteq 1..MaxId
    <3>1. n \in 1..MaxId
      BY <1>1, RegisterAssumption
    <3> QED
      BY <1>5, <3>1 DEF RowsOK
  <2>2. rows' = [i \in Ids' |-> rows'[i]]
    BY <1>4, <1>5
  <2>3. \A i \in Ids' : RowOK(rows'[i])
    BY <1>5, <1>6 DEF RowsOK
  <2>4. PICK b \in Nat : \A i \in Ids : rows[i].ref.number <= b
    BY DEF RowsOK
  <2>5. \A i \in Ids' : rows'[i].ref.number <= b + N
    <3>1. rows'[n].ref.number = N
      BY <1>3, <1>5
    <3>2. \A i \in Ids : rows'[i].ref.number \in Nat /\ rows'[i].ref.number <= b
      BY <1>5, <2>4 DEF RowsOK, RowOK
    <3> QED
      BY <1>2, <1>5, <2>4, <3>1, <3>2
  <2>6. \E c \in Nat : \A i \in Ids' : rows'[i].ref.number <= c
    BY <1>2, <2>4, <2>5
  <2> QED
    BY <2>1, <2>2, <2>3, <2>6 DEF RowsOK, RowOK
<1>8. GeneratedRefsDistinct'
  <2>1. \A i \in Ids : rows'[i].ref # rows'[n].ref
    <3> SUFFICES ASSUME NEW i \in Ids, rows[i].ref = rows'[n].ref
                 PROVE  FALSE
      BY <1>5
    <3>1. rows[i].ref.prefix = prefix /\ rows[i].ref.number = N
      BY <1>3, <1>5
    <3>2. i \in Numbered(prefix)
      BY <3>1 DEF Numbered
    <3> QED
      BY <1>2, <3>1, <3>2
  <2>2. ASSUME NEW i \in Ids', NEW k \in Ids', ~rows'[i].typed, ~rows'[k].typed,
               rows'[i].ref = rows'[k].ref
        PROVE  i = k
    <3>1. i = n <=> k = n
      BY <1>5, <2>1, <2>2
    <3>2. CASE i # n
      <4>1. i \in Ids /\ k \in Ids
        BY <1>5, <3>1, <3>2
      <4> QED
        BY <1>5, <2>2, <4>1 DEF GeneratedRefsDistinct
    <3> QED
      BY <3>1, <3>2
  <2> QED
    BY <2>2 DEF GeneratedRefsDistinct
<1> QED
  BY <1>1, <1>3, <1>5, <1>7, <1>8 DEF n

(* The assessor's steps find the lock free: no importer is adding.         *)
LEMMA NobodyAdds ==
  ASSUME JobsOK, LockFree
  PROVE  \A j \in Importers : job[j].pc # "adding"
BY RegisterAssumption DEF JobsOK, LockFree

LEMMA NewFindingKeeps ==
  ASSUME RegisterInv, NEW t, NEW p, NewFinding(t, p, {})
  PROVE  RegisterInv'
<1> USE DEF RegisterInv
<1> DEFINE d == [dk |-> "", title |-> t, links |-> {}]
<1>1. /\ NewId <= MaxId
      /\ rows' = WithRow(NewId, Row(next_ref(p), d))
      /\ UNCHANGED <<job, lock>> /\ LockFree
  BY DEF NewFinding
<1>2. d.dk = ""
  OBVIOUS
<1> HIDE DEF d
<1>3. /\ RowsOK' /\ GeneratedRefsDistinct'
      /\ NewId \notin Ids
      /\ Ids' = Ids \cup {NewId}
      /\ \A i \in Ids : rows'[i] = rows[i]
      /\ rows'[NewId].dk = ""
  BY <1>1, <1>2, RowAdded
<1>4. JobsOK' /\ KnownOK'
  BY <1>1, NobodyAdds DEF JobsOK, KnownOK
<1>5. ASSUME NEW i \in Ids', NEW k \in Ids', rows'[i].dk # "", rows'[i].dk = rows'[k].dk
      PROVE  i = k
  <2>1. i \in Ids /\ k \in Ids
    BY <1>3, <1>5
  <2>2. rows[i].dk # "" /\ rows[k].dk = rows[i].dk
    BY <1>3, <1>5, <2>1
  <2> QED
    BY <2>1, <2>2 DEF NoDraftTwice
<1>6. NoDraftTwice'
  BY <1>5 DEF NoDraftTwice
<1> QED
  BY <1>3, <1>4, <1>6

(* What the assessor changes in a row: its reference, title and links.     *)
LEMMA RowChanged ==
  ASSUME RowsOK, JobsOK, KnownOK, NoDraftTwice, GeneratedRefsDistinct,
         NEW i \in Ids, NEW r, RowOK(r), r.dk = rows[i].dk,
         ~r.typed => r.ref = rows[i].ref /\ ~rows[i].typed,
         rows' = [rows EXCEPT ![i] = r], LockFree, UNCHANGED <<job, lock>>
  PROVE  RegisterInv'
<1>1. /\ Ids' = Ids /\ rows'[i] = r
      /\ \A k \in Ids : k # i => rows'[k] = rows[k]
      /\ rows' = [k \in Ids |-> rows'[k]]
  BY DEF RowsOK, Ids
<1>2. RowsOK'
  <2>1. \A k \in Ids : RowOK(rows'[k])
    BY <1>1 DEF RowsOK
  <2>2. PICK b \in Nat : \A k \in Ids : rows[k].ref.number <= b
    BY DEF RowsOK
  <2>3. r.ref.number \in Nat
    BY DEF RowOK
  <2>4. \A k \in Ids : rows'[k].ref.number <= b + r.ref.number
    <3>1. \A k \in Ids : rows[k].ref.number \in Nat
      BY DEF RowsOK, RowOK
    <3> QED
      BY <1>1, <2>2, <2>3, <3>1
  <2>5. \E c \in Nat : \A k \in Ids' : rows'[k].ref.number <= c
    BY <1>1, <2>2, <2>3, <2>4
  <2> QED
    BY <1>1, <2>1, <2>5 DEF RowsOK, RowOK
<1>3. JobsOK' /\ KnownOK'
  BY NobodyAdds DEF JobsOK, KnownOK
<1>4. \A k \in Ids : rows'[k].dk = rows[k].dk
  BY <1>1
<1>5. NoDraftTwice'
  <2>1. ASSUME NEW k \in Ids', NEW m \in Ids', rows'[k].dk # "", rows'[k].dk = rows'[m].dk
        PROVE  k = m
    <3>1. k \in Ids /\ m \in Ids /\ rows[k].dk # "" /\ rows[k].dk = rows[m].dk
      BY <1>1, <1>4, <2>1
    <3> QED
      BY <3>1 DEF NoDraftTwice
  <2> QED
    BY <2>1 DEF NoDraftTwice
<1>6. \A k \in Ids : ~rows'[k].typed => ~rows[k].typed /\ rows'[k].ref = rows[k].ref
  BY <1>1
<1>7. GeneratedRefsDistinct'
  BY <1>1, <1>6 DEF GeneratedRefsDistinct
<1> QED
  BY <1>2, <1>3, <1>5, <1>7 DEF RegisterInv

LEMMA EditFindingKeeps ==
  ASSUME RegisterInv, NEW i \in Ids, NEW t, NEW ref \in OwnRefs \cup {rows[i].ref},
         EditFinding(i, ref, t, rows[i].links)
  PROVE  RegisterInv'
<1> DEFINE o == rows[i]
           ty == o.typed \/ ref # o.ref
           r == [ref |-> ref, typed |-> ty, title |-> t, dk |-> o.dk,
                 links |-> o.links]
<1>1. RowOK(o)
  BY DEF RegisterInv, RowsOK
<1>2. ref.number \in Nat
  BY <1>1, RegisterAssumption DEF RowOK
<1>3. o.typed \in BOOLEAN
  BY <1>1 DEF RowOK
<1>4. RowOK(r) /\ r.dk = o.dk
  BY <1>2 DEF RowOK
<1>5. ~r.typed => r.ref = o.ref /\ ~o.typed
  OBVIOUS
<1>6. rows' = [rows EXCEPT ![i] = r]
  <2>1. rows' = WithRow(i, r)
    BY DEF EditFinding
  <2>2. rows = [k \in Ids |-> rows[k]] /\ Ids \cup {i} = Ids
    BY DEF RegisterInv, RowsOK
  <2> HIDE DEF r
  <2> QED
    BY <2>1, <2>2 DEF WithRow
<1> HIDE DEF r
<1> QED
  BY <1>4, <1>5, <1>6, RowChanged DEF EditFinding, RegisterInv

LEMMA LinkingKeeps ==
  ASSUME RegisterInv, NEW i \in Ids, NEW l, link_finding(i, l) \/ unlink_finding(i, l)
  PROVE  RegisterInv'
<1> DEFINE o == rows[i]
<1>1. RowOK(o)
  BY DEF RegisterInv, RowsOK
<1>2. ASSUME NEW links, rows' = [rows EXCEPT ![i].links = links], LockFree,
             UNCHANGED <<job, lock>>
      PROVE  RegisterInv'
  <2> DEFINE r == [ref |-> o.ref, typed |-> o.typed, title |-> o.title, dk |-> o.dk,
                   links |-> links]
  <2>1. RowOK(r) /\ r.dk = o.dk /\ (~r.typed => r.ref = o.ref /\ ~o.typed)
    BY <1>1 DEF RowOK
  <2>2. rows' = [rows EXCEPT ![i] = r]
    <3>1. [o EXCEPT !.links = links] = r
      BY <1>1 DEF RowOK
    <3>2. rows' = [rows EXCEPT ![i] = [o EXCEPT !.links = links]]
      BY <1>2
    <3> QED
      BY <3>1, <3>2
  <2> HIDE DEF r
  <2> QED
    BY <1>2, <2>1, <2>2, RowChanged DEF RegisterInv
<1>3. CASE link_finding(i, l)
  BY <1>2, <1>3 DEF link_finding
<1>4. CASE unlink_finding(i, l)
  BY <1>2, <1>4 DEF unlink_finding
<1> QED
  BY <1>3, <1>4

LEMMA DeleteFindingKeeps ==
  ASSUME RegisterInv, NEW i \in Ids, delete_finding(i)
  PROVE  RegisterInv'
<1> USE DEF RegisterInv
<1>1. rows' = [k \in Ids \ {i} |-> rows[k]] /\ UNCHANGED <<job, lock>> /\ LockFree
  BY DEF delete_finding
<1>2. Ids' = Ids \ {i} /\ \A k \in Ids' : rows'[k] = rows[k]
  BY <1>1 DEF Ids
<1>3. RowsOK'
  <2>1. rows' = [k \in Ids' |-> rows'[k]]
    BY <1>1, <1>2
  <2> QED
    BY <1>2, <2>1 DEF RowsOK, RowOK
<1>4. JobsOK' /\ KnownOK'
  BY <1>1, NobodyAdds DEF JobsOK, KnownOK
<1>5. NoDraftTwice'
  <2>1. ASSUME NEW k \in Ids', NEW m \in Ids', rows'[k].dk # "", rows'[k].dk = rows'[m].dk
        PROVE  k = m
    BY <1>2, <2>1 DEF NoDraftTwice
  <2> QED
    BY <2>1 DEF NoDraftTwice
<1>6. GeneratedRefsDistinct'
  <2>1. ASSUME NEW k \in Ids', NEW m \in Ids', ~rows'[k].typed, ~rows'[m].typed,
               rows'[k].ref = rows'[m].ref
        PROVE  k = m
    BY <1>2, <2>1 DEF GeneratedRefsDistinct
  <2> QED
    BY <2>1 DEF GeneratedRefsDistinct
<1> QED
  BY <1>3, <1>4, <1>5, <1>6

LEMMA RowsUntouched ==
  ASSUME RowsOK, NoDraftTwice, GeneratedRefsDistinct, UNCHANGED rows
  PROVE  RowsOK' /\ NoDraftTwice' /\ GeneratedRefsDistinct'
<1>1. RowsOK'
  BY DEF RowsOK, Ids, RowOK
<1>2. NoDraftTwice'
  BY Zenon DEF NoDraftTwice, Ids
<1>3. GeneratedRefsDistinct'
  BY Zenon DEF GeneratedRefsDistinct, Ids
<1> QED
  BY <1>1, <1>2, <1>3

(* An importer's own step, the others' jobs being left alone.              *)
LEMMA JobChanged ==
  ASSUME JobsOK, NEW j \in Importers, NEW x, JobOK(x), job' = [job EXCEPT ![j] = x],
         lock' \in Importers \cup {"free"},
         \A k \in Importers \ {j} : lock' = k <=> lock = k,
         x.pc = "adding" <=> lock' = j
  PROVE  /\ JobsOK'
         /\ job'[j] = x
         /\ \A k \in Importers \ {j} : job'[k] = job[k]
<1>1. /\ job'[j] = x
      /\ \A k \in Importers \ {j} : job'[k] = job[k]
      /\ job' = [k \in Importers |-> job'[k]]
  BY DEF JobsOK
<1>2. \A k \in Importers : JobOK(job'[k])
  BY <1>1 DEF JobsOK
<1>3. \A k \in Importers : job'[k].pc = "adding" <=> lock' = k
  BY <1>1 DEF JobsOK
<1> QED
  BY <1>1, <1>2, <1>3 DEF JobsOK, JobOK, DraftsOK

LEMMA CollectKeeps ==
  ASSUME RegisterInv, NEW j \in Importers, Collect(j, Drafts)
  PROVE  RegisterInv'
<1> DEFINE D == Drafts
           x == [pc |-> "collected", drafts |-> D, known |-> {}]
<1>1. DraftsOK(D)
  BY DraftsAreOK
<1>2. /\ job' = [job EXCEPT ![j] = x] /\ UNCHANGED <<rows, lock>>
      /\ job[j].pc # "adding"
  BY DEF Collect
<1> HIDE DEF D
<1>3. JobOK(x) /\ x.pc = "collected"
  BY <1>1 DEF JobOK
<1> HIDE DEF x
<1>4. /\ JobsOK' /\ job'[j] = x
      /\ \A k \in Importers \ {j} : job'[k] = job[k]
  BY <1>2, <1>3, JobChanged DEF RegisterInv, JobsOK
<1>5. KnownOK'
  <2>1. ASSUME NEW k \in Importers, job'[k].pc = "adding"
        PROVE  Known(k)'
    <3>1. k # j /\ job'[k] = job[k]
      BY <1>3, <1>4, <2>1
    <3> QED
      BY <1>2, <2>1, <3>1 DEF RegisterInv, KnownOK, Known, Ids
  <2> QED
    BY <2>1 DEF KnownOK
<1>6. RowsOK' /\ NoDraftTwice' /\ GeneratedRefsDistinct'
  BY <1>2, RowsUntouched DEF RegisterInv
<1> QED
  BY <1>4, <1>5, <1>6 DEF RegisterInv

LEMMA FinishKeeps ==
  ASSUME RegisterInv, NEW j \in Importers, Finish(j) \/ ImportFails(j)
  PROVE  RegisterInv'
<1> DEFINE x == IF Finish(j) THEN [job[j] EXCEPT !.pc = "added", !.known = {}]
                ELSE [Idle EXCEPT !.pc = "failed"]
<1>1. lock' = "free" /\ rows' = rows
  BY DEF Finish, ImportFails
<1>2. lock = j \/ lock = "free"
  BY DEF Finish, ImportFails, RegisterInv, JobsOK, LockFree
<1>3. job' = [job EXCEPT ![j] = x]
  BY DEF Finish, ImportFails
<1>4. JobOK(x) /\ x.pc # "adding"
  <2>1. JobOK(job[j])
    BY DEF RegisterInv, JobsOK
  <2>2. CASE Finish(j)
    <3>1. x = [pc |-> "added", drafts |-> job[j].drafts, known |-> {}]
      BY <2>1, <2>2 DEF JobOK
    <3> HIDE DEF x
    <3> QED
      BY <2>1, <3>1 DEF JobOK
  <2>3. CASE ~Finish(j)
    <3>1. x = [pc |-> "failed", drafts |-> <<>>, known |-> {}]
      BY <2>3 DEF Idle
    <3>2. DraftsOK(<<>>)
      BY DEF DraftsOK
    <3> HIDE DEF x
    <3> QED
      BY <3>1, <3>2 DEF JobOK
  <2> QED
    BY <2>2, <2>3
<1> HIDE DEF x
<1>5. /\ JobsOK' /\ job'[j] = x
      /\ \A k \in Importers \ {j} : job'[k] = job[k]
  <2>1. \A k \in Importers \ {j} : lock' = k <=> lock = k
    BY <1>1, <1>2, RegisterAssumption
  <2>2. x.pc = "adding" <=> lock' = j
    BY <1>1, <1>4, RegisterAssumption
  <2> QED
    BY <1>1, <1>3, <1>4, <2>1, <2>2, JobChanged DEF RegisterInv
<1>6. KnownOK'
  BY <1>1, <1>5, RegisterAssumption DEF KnownOK, JobsOK
<1>7. RowsOK' /\ NoDraftTwice' /\ GeneratedRefsDistinct'
  BY <1>1, RowsUntouched DEF RegisterInv
<1> QED
  BY <1>5, <1>6, <1>7 DEF RegisterInv

LEMMA AddNextKeeps ==
  ASSUME RegisterInv, NEW j \in Importers, AddNext(j)
  PROVE  RegisterInv'
<1> DEFINE M == Missing(j)
           n == First(M)
           d == job[j].drafts[n]
           known == job[j].known \cup {d.dk}
           x == [pc |-> "adding", drafts |-> job[j].drafts, known |-> known]
<1>1. JobOK(job[j]) /\ job[j].pc = "adding" /\ lock = j
  BY DEF AddNext, RegisterInv, JobsOK
<1>2. n \in DOMAIN job[j].drafts /\ d.dk \notin job[j].known /\ d.dk # ""
  <2>1. M \subseteq DOMAIN job[j].drafts /\ M \in SUBSET Nat /\ M # {}
    BY <1>1 DEF AddNext, Missing, JobOK, DraftsOK
  <2>2. \E m \in M : \A k \in M : m <= k
    <3> HIDE DEF M
    <3> QED
      BY <2>1, Least
  <2>3. n \in M
    BY <2>2 DEF First
  <2>4. n \in DOMAIN job[j].drafts /\ d.dk \notin job[j].known
    <3> HIDE DEF n
    <3> QED
      BY <2>3 DEF Missing
  <2> HIDE DEF n
  <2> QED
    BY <1>1, <2>4 DEF JobOK, DraftsOK
<1>3. /\ NewId <= MaxId
      /\ rows' = WithRow(NewId, Row(next_ref(d.prefix), d))
      /\ job' = [job EXCEPT ![j].known = @ \cup {d.dk}]
      /\ UNCHANGED lock
  BY DEF AddNext
<1> HIDE DEF n, d
<1>4. job' = [job EXCEPT ![j] = x]
  <2>1. [job[j] EXCEPT !.known = known] = x
    BY SMTT(40), <1>1 DEF JobOK
  <2>2. job' = [job EXCEPT ![j] = [job[j] EXCEPT !.known = known]]
    BY <1>3
  <2> QED
    BY <2>1, <2>2
<1>5. JobOK(x) /\ x.pc = "adding" /\ x.known = known
  BY <1>1 DEF JobOK
<1> HIDE DEF x
<1>6. /\ JobsOK' /\ job'[j] = x
      /\ \A k \in Importers \ {j} : job'[k] = job[k]
  BY <1>1, <1>3, <1>4, <1>5, JobChanged DEF RegisterInv, JobsOK
<1>7. /\ RowsOK' /\ GeneratedRefsDistinct'
      /\ NewId \notin Ids
      /\ Ids' = Ids \cup {NewId}
      /\ \A i \in Ids : rows'[i] = rows[i]
      /\ rows'[NewId].dk = d.dk
  BY <1>3, RowAdded DEF RegisterInv
<1>8. Known(j)
  BY <1>1 DEF RegisterInv, KnownOK
<1>9. KnownOK'
  <2>1. \A k \in Importers : job'[k].pc = "adding" => k = j
    BY <1>1, <1>3, <1>6 DEF JobsOK
  <2>2. \A i \in Ids' : rows'[i].dk # "" => rows'[i].dk \in known
    BY <1>7, <1>8 DEF Known
  <2>3. \A y \in known : y # "" => \E i \in Ids' : rows'[i].dk = y
    <3>1. ASSUME NEW y \in known, y # ""
          PROVE  \E i \in Ids' : rows'[i].dk = y
      <4>1. CASE y = d.dk
        BY <1>7, <4>1
      <4>2. CASE y \in job[j].known
        <5>1. PICK i \in Ids : rows[i].dk = y
          BY <1>8, <3>1, <4>2 DEF Known
        <5> QED
          BY <1>7, <5>1
      <4> QED
        BY <4>1, <4>2
    <3> QED
      BY <3>1
  <2>4. Known(j)'
    BY <1>5, <1>6, <2>2, <2>3 DEF Known
  <2> QED
    BY <2>1, <2>4 DEF KnownOK
<1>10. NoDraftTwice'
  <2>1. \A i \in Ids : rows[i].dk # d.dk
    BY <1>2, <1>8 DEF Known
  <2>2. ASSUME NEW i \in Ids', NEW k \in Ids', rows'[i].dk # "", rows'[i].dk = rows'[k].dk
        PROVE  i = k
    <3>1. CASE i \in Ids /\ k \in Ids
      <4>1. rows[i].dk # "" /\ rows[i].dk = rows[k].dk
        BY <1>7, <2>2, <3>1
      <4> QED
        BY <3>1, <4>1 DEF RegisterInv, NoDraftTwice
    <3>2. CASE ~(i \in Ids /\ k \in Ids)
      BY <1>7, <2>1, <2>2, <3>2
    <3> QED
      BY <3>1, <3>2
  <2> QED
    BY <2>2 DEF NoDraftTwice
<1> QED
  BY <1>6, <1>7, <1>9, <1>10 DEF RegisterInv

(* The row that a draft is matched with is the one that has its key, or if *)
(* none has, one without a key that has its title; there is at most one.   *)
LEMMA MatchedRowIsOne ==
  ASSUME RowsOK, NEW d, NEW i \in MatchedRow(d)
  PROVE  /\ i \in Ids
         /\ \/ rows[i].dk = d.dk
            \/ /\ rows[i].dk = "" /\ rows[i].title = d.title
               /\ \A k \in Ids : rows[k].dk # d.dk
         /\ \A k \in MatchedRow(d) : k = i
<1>0. \A k, m \in Ids : k <= m /\ m <= k => k = m
  <2>1. \A k \in Ids : k \in Nat
    BY DEF RowsOK
  <2> QED
    BY <2>1
<1>1. CASE ByKey(d) # {}
  <2>1. MatchedRow(d) = Last(ByKey(d))
    BY <1>1 DEF MatchedRow
  <2>2. \A k \in Last(ByKey(d)) : k \in Ids /\ rows[k].dk = d.dk
    BY DEF Last, ByKey
  <2>3. \A k, m \in Last(ByKey(d)) : k <= m
    BY DEF Last
  <2>5. i \in Last(ByKey(d))
    BY <2>1
  <2>6. ASSUME NEW k \in MatchedRow(d) PROVE k = i
    <3>1. k \in Ids /\ i \in Ids /\ k <= i /\ i <= k
      BY <2>1, <2>2, <2>3, <2>5
    <3> QED
      BY <1>0, <3>1
  <2> QED
    BY <2>2, <2>5, <2>6
<1>2. CASE ByKey(d) = {}
  <2>1. MatchedRow(d) = Last(ByTitle(d))
    BY <1>2 DEF MatchedRow
  <2>2. \A k \in Last(ByTitle(d)) : /\ k \in Ids
                                    /\ rows[k].dk = "" /\ rows[k].title = d.title
    BY DEF Last, ByTitle
  <2>3. \A k, m \in Last(ByTitle(d)) : k <= m
    BY DEF Last
  <2>4. \A k \in Ids : rows[k].dk # d.dk
    BY <1>2 DEF ByKey
  <2>5. i \in Last(ByTitle(d))
    BY <2>1
  <2>6. ASSUME NEW k \in MatchedRow(d) PROVE k = i
    <3>1. k \in Ids /\ i \in Ids /\ k <= i /\ i <= k
      BY <2>1, <2>2, <2>3, <2>5
    <3> QED
      BY <1>0, <3>1
  <2> QED
    BY <2>2, <2>4, <2>5, <2>6
<1> QED
  BY <1>1, <1>2

LEMMA MatchKeeps ==
  ASSUME RegisterInv, NEW j \in Importers, Match(j)
  PROVE  RegisterInv'
<1> DEFINE drafts == job[j].drafts
           hits(i) == {n \in DOMAIN drafts : i \in MatchedRow(drafts[n])}
           hit(i) == CHOOSE n \in hits(i) : \A m \in hits(i) : m <= n
           known == {rows[i].dk : i \in Ids}
                    \cup {d.dk : d \in {drafts[n] : n \in UNION {hits(i) : i \in Ids}}}
           x == [pc |-> "adding", drafts |-> drafts, known |-> known]
<1> USE DEF RegisterInv
<1>1. /\ lock = "free" /\ lock' = j
      /\ job[j].pc = "collected"
      /\ rows' = [i \in Ids |-> IF hits(i) = {} THEN rows[i]
                                ELSE Backfilled(rows[i], drafts[hit(i)])]
      /\ job' = [job EXCEPT ![j].pc = "adding", ![j].known = known]
  BY DEF Match, LockFree
<1>2. JobOK(job[j])
  BY DEF JobsOK
<1>3. DraftsOK(drafts)
  BY <1>2 DEF JobOK
<1>4. x = [[job[j] EXCEPT !.pc = "adding"] EXCEPT !.known = known]
  <2> DEFINE p == [pc |-> "adding", drafts |-> drafts, known |-> job[j].known]
  <2>1. [job[j] EXCEPT !.pc = "adding"] = p
    BY <1>2 DEF JobOK
  <2>2. ASSUME NEW k PROVE [p EXCEPT !.known = k] = [pc |-> "adding", drafts |-> drafts, known |-> k]
    OBVIOUS
  <2> HIDE DEF p
  <2> QED
    BY <2>1, <2>2, Zenon
<1>5. job' = [job EXCEPT ![j] = x]
  <2>1. job' = [job EXCEPT ![j] = [[job[j] EXCEPT !.pc = "adding"] EXCEPT !.known = known]]
    <3> HIDE DEF known
    <3> QED
      BY <1>1
  <2> QED
    BY <1>4, <2>1, Zenon
<1>6. JobOK(x) /\ x.pc = "adding" /\ x.known = known /\ x.drafts = drafts
  <2> HIDE DEF known
  <2> QED
    BY <1>3 DEF JobOK
<1> HIDE DEF x
<1>7. /\ JobsOK' /\ job'[j] = x
      /\ \A k \in Importers \ {j} : job'[k] = job[k]
  BY <1>1, <1>5, <1>6, RegisterAssumption, JobChanged

\* What the hits are.
<1>8. ASSUME NEW i, NEW n \in hits(i)
      PROVE  /\ n \in DOMAIN drafts /\ n \in Nat /\ drafts[n].dk # ""
             /\ i \in Ids
             /\ \/ rows[i].dk = drafts[n].dk
                \/ /\ rows[i].dk = "" /\ rows[i].title = drafts[n].dk
                   /\ \A k \in Ids : rows[k].dk # drafts[n].dk
  <2>1. n \in DOMAIN drafts /\ i \in MatchedRow(drafts[n])
    OBVIOUS
  <2>2. n \in Nat /\ drafts[n].dk # "" /\ drafts[n].title = drafts[n].dk
    BY <1>3, <2>1 DEF DraftsOK
  <2> HIDE DEF hits, drafts
  <2> QED
    BY <2>1, <2>2, MatchedRowIsOne
<1>8a. ASSUME NEW i, NEW k, NEW n \in hits(i), n \in hits(k)
       PROVE  i = k
  <2>1. i \in MatchedRow(drafts[n]) /\ k \in MatchedRow(drafts[n])
    BY <1>8a
  <2> HIDE DEF hits, drafts
  <2> QED
    BY <2>1, MatchedRowIsOne
<1>9. ASSUME NEW i, NEW n \in hits(i), NEW m \in hits(i)
      PROVE  m = n
  <2> HIDE DEF hits, drafts
  <2>1. i \in Ids /\ drafts[m].dk # "" /\ drafts[n].dk # ""
    BY <1>8
  <2>2. rows[i].dk = drafts[n].dk \/ (rows[i].dk = "" /\ rows[i].title = drafts[n].dk)
    BY <1>8
  <2>3. rows[i].dk = drafts[m].dk \/ (rows[i].dk = "" /\ rows[i].title = drafts[m].dk)
    BY <1>8
  <2>4. drafts[m].dk = drafts[n].dk
    BY <2>1, <2>2, <2>3
  <2>5. m \in DOMAIN drafts /\ n \in DOMAIN drafts
    BY <1>8
  <2> QED
    BY <1>3, <2>4, <2>5 DEF DraftsOK
<1>10. ASSUME NEW i, NEW n \in hits(i)
       PROVE  hit(i) = n
  <2>1. \A m \in hits(i) : m <= n
    <3> HIDE DEF hits
    <3>1. ASSUME NEW m \in hits(i) PROVE m = n
      BY <1>9
    <3>2. n \in Nat
      BY <1>8
    <3> QED
      BY <3>1, <3>2
  <2>2. hit(i) \in hits(i)
    <3> HIDE DEF hits
    <3> QED
      BY <2>1
  <2> HIDE DEF hits, hit
  <2> QED
    BY <1>9, <2>2
<1> HIDE DEF hits, hit, drafts

\* What the rows are.
<1>11. Ids' = Ids
  BY <1>1 DEF Ids
<1>12. ASSUME NEW i \in Ids
       PROVE  /\ RowOK(rows'[i])
              /\ rows'[i].ref = rows[i].ref /\ rows'[i].typed = rows[i].typed
              /\ hits(i) = {} => rows'[i].dk = rows[i].dk
              /\ \A n \in hits(i) : rows'[i].dk = drafts[n].dk
  <2>0. RowOK(rows[i])
    BY DEF RowsOK
  <2>1. CASE hits(i) = {}
    <3>1. rows'[i] = rows[i]
      BY <1>1, <2>1
    <3> QED
      BY <2>0, <2>1, <3>1
  <2>2. CASE hits(i) # {}
    <3>1. rows'[i] = Backfilled(rows[i], drafts[hit(i)])
      BY <1>1, <2>2
    <3>2. PICK links : rows'[i] = [[rows[i] EXCEPT !.dk = drafts[hit(i)].dk]
                                             EXCEPT !.links = links]
      BY <3>1, Zenon DEF Backfilled
    <3>3. rows'[i] = [ref |-> rows[i].ref, typed |-> rows[i].typed, title |-> rows[i].title,
                      dk |-> drafts[hit(i)].dk, links |-> links]
      BY <2>0, <3>2 DEF RowOK
    <3>4. \A n \in hits(i) : hit(i) = n
      BY <1>10
    <3> QED
      BY <2>0, <2>2, <3>3, <3>4 DEF RowOK
  <2> QED
    BY <2>1, <2>2
<1>13. RowsOK'
  <2>1. rows' = [i \in Ids' |-> rows'[i]]
    BY <1>1, <1>11
  <2>2. \E b \in Nat : \A i \in Ids' : rows'[i].ref.number <= b
    BY <1>11, <1>12 DEF RowsOK
  <2>3. \A i \in Ids' : RowOK(rows'[i])
    BY <1>11, <1>12
  <2> QED
    BY <1>11, <2>1, <2>2, <2>3 DEF RowsOK, RowOK
<1>14. GeneratedRefsDistinct'
  <2>1. ASSUME NEW i \in Ids', NEW k \in Ids', ~rows'[i].typed, ~rows'[k].typed,
               rows'[i].ref = rows'[k].ref
        PROVE  i = k
    BY <1>11, <1>12, <2>1 DEF GeneratedRefsDistinct
  <2> QED
    BY <2>1 DEF GeneratedRefsDistinct
<1>15. NoDraftTwice'
  <2>1. ASSUME NEW i \in Ids', NEW k \in Ids', rows'[i].dk # "", rows'[i].dk = rows'[k].dk
        PROVE  i = k
    <3>0. i \in Ids /\ k \in Ids
      BY <1>11
    <3>1. CASE hits(i) = {} /\ hits(k) = {}
      <4>1. rows[i].dk # "" /\ rows[i].dk = rows[k].dk
        BY <1>12, <2>1, <3>0, <3>1
      <4> QED
        BY <3>0, <4>1 DEF NoDraftTwice
    <3>2. ASSUME NEW a \in Ids, NEW b \in Ids, NEW n \in hits(a), hits(b) = {},
                 rows'[a].dk = rows'[b].dk
          PROVE  a = b
      <4>1. rows[b].dk = drafts[n].dk
        BY <1>12, <3>2
      <4>2. drafts[n].dk # ""
        BY <1>8
      <4>3. \/ rows[a].dk = drafts[n].dk
            \/ \A c \in Ids : rows[c].dk # drafts[n].dk
        BY <1>8
      <4>4. rows[a].dk = drafts[n].dk
        BY <4>1, <4>3
      <4> QED
        BY <4>1, <4>2, <4>4 DEF NoDraftTwice
    <3>3. CASE hits(i) # {} /\ hits(k) # {}
      <4>1. PICK n \in hits(i), m \in hits(k) : TRUE
        BY <3>3
      <4>2. drafts[n].dk = drafts[m].dk
        BY <1>12, <2>1, <3>0, <4>1
      <4>3. n = m
        BY <1>3, <1>8, <4>2 DEF DraftsOK
      <4> QED
        BY <1>8a, <4>1, <4>3
    <3> QED
      BY <2>1, <3>0, <3>1, <3>2, <3>3
  <2> QED
    BY <2>1 DEF NoDraftTwice
<1>16. KnownOK'
  <2>1. \A k \in Importers : job'[k].pc = "adding" => k = j
    BY <1>1, <1>7 DEF JobsOK
  <2>2. ASSUME NEW i \in Ids PROVE rows'[i].dk \in known
    <3>1. CASE hits(i) = {}
      BY <1>12, <3>1
    <3>2. CASE hits(i) # {}
      <4>1. PICK n \in hits(i) : rows'[i].dk = drafts[n].dk
        BY <1>12, <3>2
      <4>2. n \in UNION {hits(k) : k \in Ids}
        BY Zenon
      <4> QED
        BY <4>1, <4>2
    <3> QED
      BY <3>1, <3>2
  <2>3. ASSUME NEW y \in known, y # "" PROVE \E i \in Ids : rows'[i].dk = y
    <3>1. CASE y \in {rows[i].dk : i \in Ids}
      <4>1. PICK i \in Ids : rows[i].dk = y
        BY <3>1
      <4>2. \A n \in hits(i) : drafts[n].dk = y
        BY <1>8, <2>3, <4>1
      <4> QED
        BY <1>12, <4>1, <4>2
    <3>2. ASSUME NEW i \in Ids, NEW n \in hits(i), y = drafts[n].dk
          PROVE  \E k \in Ids : rows'[k].dk = y
      BY <1>12, <3>2
    <3>3. \/ y \in {rows[i].dk : i \in Ids}
          \/ \E i \in Ids : \E n \in hits(i) : y = drafts[n].dk
      OBVIOUS
    <3> QED
      BY <3>1, <3>2, <3>3
  <2> HIDE DEF known
  <2>4. Known(j)'
    BY <1>6, <1>7, <1>11, <2>2, <2>3 DEF Known
  <2> QED
    BY <2>1, <2>4 DEF KnownOK
<1> QED
  BY <1>7, <1>13, <1>14, <1>15, <1>16

----------------------------------------------------------------------------
(***************************************************************************)
(* Zones and levels.                                                       *)
(***************************************************************************)

LEMMA PurdueIs ==
  Purdue = {"Level 0", "Level 1", "Level 2", "Level 3", "Industrial DMZ", "Level 4", "Level 5"}
<1>1. /\ DOMAIN PURDUE_LEVELS = 1..7
      /\ PURDUE_LEVELS[1] = "Level 0" /\ PURDUE_LEVELS[2] = "Level 1"
      /\ PURDUE_LEVELS[3] = "Level 2" /\ PURDUE_LEVELS[4] = "Level 3"
      /\ PURDUE_LEVELS[5] = "Industrial DMZ" /\ PURDUE_LEVELS[6] = "Level 4"
      /\ PURDUE_LEVELS[7] = "Level 5"
  BY DEF PURDUE_LEVELS
<1>2. \A i \in 1..7 : i = 1 \/ i = 2 \/ i = 3 \/ i = 4 \/ i = 5 \/ i = 6 \/ i = 7
  OBVIOUS
<1>3. 1 \in 1..7 /\ 2 \in 1..7 /\ 3 \in 1..7 /\ 4 \in 1..7 /\ 5 \in 1..7 /\ 6 \in 1..7 /\ 7 \in 1..7
  OBVIOUS
<1>4. Purdue = {PURDUE_LEVELS[i] : i \in 1..7}
  BY <1>1 DEF Purdue
<1> HIDE DEF PURDUE_LEVELS
<1>5. ASSUME NEW l \in Purdue
      PROVE  l \in {"Level 0", "Level 1", "Level 2", "Level 3", "Industrial DMZ", "Level 4", "Level 5"}
  <2>1. PICK i \in 1..7 : l = PURDUE_LEVELS[i]
    BY <1>4
  <2> QED
    BY <1>1, <1>2, <2>1
<1>6. {"Level 0", "Level 1", "Level 2", "Level 3", "Industrial DMZ", "Level 4", "Level 5"} \subseteq Purdue
  BY <1>1, <1>3, <1>4
<1> QED
  BY <1>5, <1>6

LEMMA SuggestedIsALevel ==
  ASSUME NEW e
  PROVE  suggest_level(e).level \in Purdue \cup {""}
<1>0. \A l, c : At(l, c).level = l
  BY DEF At
<1>1. \A c : At("Level 1", c).level \in Purdue /\ At("Level 2", c).level \in Purdue
  BY <1>0, PurdueIs
<1>2. \A c : /\ At("Level 3", c).level \in Purdue /\ At("Industrial DMZ", c).level \in Purdue
             /\ At("Level 4", c).level \in Purdue
  BY <1>0, PurdueIs
<1>3. NoLevel.level = ""
  BY DEF NoLevel
<1> QED
  BY ZenonT(40), <1>1, <1>2, <1>3 DEF suggest_level

(* What is shown as infrastructure has no suggestion: the type that is     *)
(* shown is one of the two that the suggestion looks at.                   *)
LEMMA InfrastructureHasNoSuggestion ==
  ASSUME NEW e, is_infra(e)
  PROVE  suggest_level(e).level = ""
<1>1. display_words(e) \subseteq TypeWords(e)
  BY DEF display_words, TypeWords
<1>2. SpansLevels(e)
  BY <1>1 DEF is_infra, SpansLevels
<1>3. suggest_level(e) = NoLevel
  BY <1>2, Zenon DEF suggest_level
<1>4. NoLevel.level = ""
  BY DEF NoLevel
<1> QED
  BY <1>3, <1>4, Zenon

(* A level the assessor entered is not marked as suggested; the second     *)
(* conjunct keeps accepting with overwrite away from it.                   *)
EnteredInv ==
  /\ entered = [a \in Assets |-> entered[a]]
  /\ \A a \in Alive : entered[a] # "" => level[a] = entered[a] /\ source[a] # "Suggested"

ZoneInv == ZoneTypeOK /\ EnteredInv

LEMMA LevelNextKeeps ==
  ASSUME ZoneInv, LevelNext
  PROVE  ZoneInv'
<1> USE DEF ZoneInv
<1>1. ASSUME NEW a \in Assets, NEW l \in EditedLevels, NEW from \in {"Assessor", "Suggested"},
             EditLevel(a, l, from),
             entered' = [entered EXCEPT ![a] = IF from = "Assessor" THEN l ELSE ""]
      PROVE  ZoneInv'
  <2>1. l \in Purdue \cup {""}
    BY AssessmentAssumption
  <2>2. ZoneTypeOK'
    BY <1>1, <2>1 DEF EditLevel, EditedSource, ZoneTypeOK
  <2>3. Alive' = Alive
    BY <1>1 DEF EditLevel, Alive
  <2>4. EnteredInv'
    BY <1>1, <2>3 DEF EditLevel, EditedSource, ZoneTypeOK, EnteredInv, Alive
  <2> QED
    BY <2>2, <2>4
<1>2. ASSUME NEW a \in Assets, NEW l \in EditedLevels, DocumentLevel(a, l),
             entered' = [entered EXCEPT ![a] = l]
      PROVE  ZoneInv'
  <2>1. l \in Purdue
    BY <1>2, AssessmentAssumption DEF DocumentLevel
  <2>2. evidence' \in [Assets -> Evidences]
    BY <1>2, ZonesAssumption DEF DocumentLevel, ZoneTypeOK
  <2>3. ZoneTypeOK'
    BY <1>2, <2>1, <2>2 DEF DocumentLevel, ZoneTypeOK
  <2>4. Alive' = Alive
    BY <1>2 DEF DocumentLevel, Alive
  <2>5. EnteredInv'
    BY <1>2, <2>4 DEF DocumentLevel, ZoneTypeOK, EnteredInv, Alive
  <2> QED
    BY <2>3, <2>5
<1> QED
  BY <1>1, <1>2 DEF LevelNext

LEMMA AcceptLevelsKeeps ==
  ASSUME ZoneInv, NEW c, NEW overwrite, AcceptLevels(c, overwrite), entered' = entered
  PROVE  ZoneInv'
<1> USE DEF ZoneInv
<1> DEFINE accepted == {a \in Physical : /\ Suggestion(a).level # ""
                                         /\ Suggestion(a).confidence >= c
                                         /\ Overwritable(a, overwrite)}
<1>1. /\ level' = [a \in Assets |-> IF a \in accepted THEN Suggestion(a).level ELSE level[a]]
      /\ source' = [a \in Assets |-> IF a \in accepted THEN "Suggested" ELSE source[a]]
      /\ UNCHANGED <<owner, evidence, seen, decision>>
  BY DEF AcceptLevels
<1>2. \A a \in accepted : Suggestion(a).level \in Purdue
  <2>1. ASSUME NEW a \in accepted PROVE Suggestion(a).level \in Purdue
    <3>1. a \in Assets /\ Suggestion(a).level # ""
      BY DEF Physical, Alive
    <3>2. evidence[a] \in Evidences
      BY <3>1 DEF ZoneTypeOK
    <3>3. Suggestion(a) = suggest_level(evidence[a])
      BY <3>2 DEF Suggestion, SuggestionOf
    <3> QED
      BY <3>1, <3>3, SuggestedIsALevel
  <2> QED
    BY <2>1
<1>3. \A a \in accepted : a \in Alive /\ entered[a] = ""
  <2>1. ASSUME NEW a \in accepted, entered[a] # "" PROVE FALSE
    <3>1. a \in Alive /\ Overwritable(a, overwrite)
      BY DEF Physical
    <3>2. level[a] # "" /\ source[a] # "Suggested"
      BY <2>1, <3>1 DEF EnteredInv
    <3> QED
      BY <3>1, <3>2 DEF Overwritable, ShownSource
  <2>2. \A a \in accepted : a \in Alive
    BY DEF Physical
  <2> QED
    BY <2>1, <2>2
<1> HIDE DEF accepted
<1>4. ZoneTypeOK'
  <2>1. level' \in [Assets -> Purdue \cup {""}]
    BY <1>1, <1>2 DEF ZoneTypeOK
  <2>2. source' \in [Assets -> {"", "Suggested", "Assessor"}]
    BY <1>1 DEF ZoneTypeOK
  <2>3. "" \notin Purdue
    BY PurdueIs
  <2>4. \A a \in Assets : level'[a] = "" => source'[a] = ""
    BY ZenonT(40), <1>1, <1>2, <2>3 DEF ZoneTypeOK
  <2> QED
    BY <1>1, <2>1, <2>2, <2>4 DEF ZoneTypeOK
<1>5. Alive' = Alive
  BY <1>1 DEF Alive
<1>6. EnteredInv'
  BY <1>1, <1>3, <1>5 DEF EnteredInv, Alive
<1> QED
  BY <1>4, <1>6

LEMMA MergeKeeps ==
  ASSUME ZoneInv, NEW p \in Assets, NEW s \in Assets, MergeAssets(p, s),
         entered' = MergedEntered(p, s)
  PROVE  ZoneInv'
<1> USE DEF ZoneInv
<1>1. /\ owner[p] = p /\ owner[s] = s /\ p # s
      /\ owner' = [a \in Assets |-> IF owner[a] = s THEN p ELSE owner[a]]
      /\ level' = [level EXCEPT ![p] = IF @ = "" THEN level[s] ELSE @]
      /\ evidence' \in [Assets -> Evidences]
      /\ UNCHANGED <<source, seen, decision>>
  <2>1. /\ p \in Alive /\ s \in Alive /\ p # s
        /\ owner' = MergedOwner(p, s)
        /\ level' = [level EXCEPT ![p] = IF @ = "" THEN level[s] ELSE @]
        /\ UNCHANGED <<source, seen, decision>>
    BY DEF MergeAssets, MergedLevel
  <2>2. \E e \in Evidences : evidence' = [evidence EXCEPT ![p] = e]
    BY Zenon DEF MergeAssets
  <2>3. evidence' \in [Assets -> Evidences]
    BY <2>2 DEF ZoneTypeOK
  <2> QED
    BY <2>1, <2>3 DEF MergedOwner, Alive
<1>2. \A a \in Assets : owner'[owner'[a]] = owner'[a]
  BY <1>1 DEF ZoneTypeOK
<1>3. owner' \in [Assets -> Assets]
  BY <1>1 DEF ZoneTypeOK
<1>4. ZoneTypeOK'
  <2>1. level' \in [Assets -> Purdue \cup {""}]
    BY <1>1 DEF ZoneTypeOK
  <2>2. \A a \in Assets : level'[a] = "" => source'[a] = ""
    BY <1>1 DEF ZoneTypeOK
  <2> QED
    BY <1>1, <1>2, <1>3, <2>1, <2>2 DEF ZoneTypeOK
<1>5. Alive' \subseteq Alive
  BY <1>1 DEF Alive
<1>6. \A a \in Assets : level[a] # "" => level'[a] = level[a]
  BY <1>1 DEF ZoneTypeOK
<1>7. EnteredInv'
  <2>1. /\ entered' = [a \in Assets |-> entered'[a]]
        /\ entered'[s] = ""
        /\ entered'[p] = IF level[p] = "" THEN entered[s] ELSE entered[p]
        /\ \A a \in Assets \ {p, s} : entered'[a] = entered[a]
    BY <1>1 DEF MergedEntered, EnteredInv
  <2>2. ASSUME NEW a \in Alive', entered'[a] # ""
        PROVE  level'[a] = entered'[a] /\ source'[a] # "Suggested"
    <3>1. a \in Alive /\ a # s
      BY <1>5, <2>1, <2>2
    <3>2. CASE a = p /\ level[p] = ""
      <4>1. level'[p] = level[s] /\ entered'[p] = entered[s] /\ source'[p] = ""
        BY <1>1, <2>1, <3>2 DEF ZoneTypeOK
      <4>2. s \in Alive
        BY <1>1 DEF Alive
      <4> QED
        BY <2>2, <3>2, <4>1, <4>2 DEF EnteredInv
    <3>3. CASE a = p /\ level[p] # ""
      BY <1>1, <1>6, <2>1, <2>2, <3>1, <3>3 DEF EnteredInv
    <3>4. CASE a # p
      <4>1. entered'[a] = entered[a] /\ level'[a] = level[a] /\ source'[a] = source[a]
        BY <1>1, <2>1, <3>1, <3>4 DEF Alive, ZoneTypeOK
      <4> QED
        BY <2>2, <3>1, <4>1 DEF EnteredInv
    <3> QED
      BY <3>2, <3>3, <3>4
  <2> QED
    BY <2>1, <2>2 DEF EnteredInv
<1> QED
  BY <1>4, <1>7

LEMMA ZoneNextKeeps ==
  ASSUME ZoneInv, ZoneNext, entered' = entered
  PROVE  ZoneInv'
<1> USE DEF ZoneInv
<1>0. ASSUME UNCHANGED <<owner, level, source>>, evidence' \in [Assets -> Evidences],
             seen' \subseteq Flows, decision' \in [Keys -> Decisions]
      PROVE  ZoneInv'
  BY <1>0 DEF ZoneTypeOK, EnteredInv, Alive
<1>1. ASSUME NEW a \in Assets, NEW e \in Evidences, Learn(a, e) PROVE ZoneInv'
  BY <1>0, <1>1 DEF Learn, ZoneTypeOK
<1>2. ASSUME NEW f \in Flows, Observe(f) PROVE ZoneInv'
  BY <1>0, <1>2 DEF Observe, ZoneTypeOK
<1>3. ASSUME NEW a \in Assets, NEW t \in EditedTypes, EditType(a, t) PROVE ZoneInv'
  <2>1. evidence' \in [Assets -> Evidences]
    BY <1>3, AssessmentAssumption DEF EditType, ZoneTypeOK
  <2> QED
    BY <1>0, <1>3, <2>1 DEF EditType, ZoneTypeOK
<1>4. ASSUME NEW k, NEW d \in Decisions, save_conduit(k, d) PROVE ZoneInv'
  BY <1>0, <1>4 DEF save_conduit, ZoneTypeOK
<1> QED
  BY <1>1, <1>2, <1>3, <1>4, AcceptLevelsKeeps DEF ZoneNext

----------------------------------------------------------------------------
(***************************************************************************)
(* The theorems.                                                           *)
(***************************************************************************)

(* The inductive invariant.                                                *)
AssessmentInv == RegisterInv /\ ZoneInv /\ ops \in 0..MaxOps

LEMMA AssessmentStarts == Init => AssessmentInv
<1> SUFFICES ASSUME Init PROVE AssessmentInv
  OBVIOUS
<1>1. ZoneInv
  BY ZonesAssumption DEF Init, ZoneInit, ZoneInv, ZoneTypeOK, EnteredInv, Alive
<1>2. JobsOK /\ \A j \in Importers : job[j].pc # "adding"
  <2>1. DraftsOK(<<>>)
    BY DEF DraftsOK
  <2>2. JobOK(Idle)
    BY <2>1 DEF JobOK, Idle
  <2>3. \A j \in Importers : job[j] = Idle /\ Idle.pc = "idle"
    BY DEF Init, RegisterInit, Idle
  <2>4. job = [j \in Importers |-> job[j]]
    BY DEF Init, RegisterInit
  <2>5. lock = "free" /\ lock \notin Importers
    BY RegisterAssumption DEF Init, RegisterInit
  <2> QED
    BY <2>2, <2>3, <2>4, <2>5 DEF JobsOK
<1>a. ops \in 0..MaxOps
  <2>1. MaxOps \in Nat /\ ops = 0
    BY AssessmentAssumption DEF Init
  <2> QED
    BY <2>1
<1>b. KnownOK
  BY <1>2 DEF KnownOK
<1>3. CASE rows = <<>>
  <2>1. Ids = {} /\ rows = [i \in Ids |-> rows[i]]
    BY <1>3 DEF Ids
  <2>2. RowsOK
    <3>1. \E b \in Nat : \A i \in Ids : rows[i].ref.number <= b
      BY <2>1
    <3> QED
      BY <2>1, <3>1 DEF RowsOK
  <2>3. NoDraftTwice /\ GeneratedRefsDistinct
    BY <2>1 DEF NoDraftTwice, GeneratedRefsDistinct
  <2> QED
    BY <1>1, <1>2, <1>a, <1>b, <2>2, <2>3 DEF AssessmentInv, RegisterInv
<1>4. ASSUME NEW r \in OldRows, rows = <<r>> PROVE AssessmentInv
  <2>1. Ids = {1} /\ rows = [i \in Ids |-> rows[i]] /\ rows[1] = r
    BY <1>4 DEF Ids
  <2>2. RowOK(r) /\ r.dk = ""
    <3>1. /\ r = [ref |-> r.ref, typed |-> r.typed, title |-> r.title, dk |-> "",
                  links |-> r.links]
          /\ r.ref.number \in Nat /\ r.typed \in BOOLEAN
      BY Zenon, AssessmentAssumption
    <3>2. r.dk = ""
      <4> DEFINE q == [ref |-> r.ref, typed |-> r.typed, title |-> r.title, dk |-> "",
                       links |-> r.links]
      <4>1. q.dk = ""
        OBVIOUS
      <4>2. r = q
        BY <3>1
      <4> HIDE DEF q
      <4> QED
        BY <4>1, <4>2
    <3> QED
      BY <3>1, <3>2 DEF RowOK
  <2>3. RowsOK
    <3>1. \E b \in Nat : \A i \in Ids : rows[i].ref.number <= b
      <4>0. \A n \in Nat : n <= n
        OBVIOUS
      <4>1. r.ref.number \in Nat /\ r.ref.number <= r.ref.number
        <5>1. r.ref.number \in Nat
          BY <2>2, Zenon DEF RowOK
        <5> QED
          BY <4>0, <5>1, Zenon
      <4>2. \A i \in Ids : rows[i] = r
        BY <2>1
      <4> QED
        BY <4>1, <4>2
    <3>2. Ids \subseteq 1..MaxId
      BY <2>1, RegisterAssumption
    <3> QED
      BY <2>1, <2>2, <3>1, <3>2 DEF RowsOK
  <2>4. NoDraftTwice /\ GeneratedRefsDistinct
    BY <2>1 DEF NoDraftTwice, GeneratedRefsDistinct
  <2> QED
    BY <1>1, <1>2, <1>a, <1>b, <2>3, <2>4 DEF AssessmentInv, RegisterInv
<1> QED
  BY <1>3, <1>4 DEF Init, RegisterInit

LEMMA RegisterUntouched ==
  ASSUME RegisterInv, UNCHANGED registerVars
  PROVE  RegisterInv'
<1>1. RowsOK' /\ NoDraftTwice' /\ GeneratedRefsDistinct'
  BY RowsUntouched DEF RegisterInv, registerVars
<1>2. JobsOK'
  BY DEF RegisterInv, registerVars, JobsOK, JobOK, DraftsOK
<1>3. KnownOK'
  BY DEF RegisterInv, registerVars, KnownOK, Known, Ids
<1> QED
  BY <1>1, <1>2, <1>3 DEF RegisterInv

LEMMA ZonesUntouched ==
  ASSUME ZoneInv, UNCHANGED <<zoneVars, entered>>
  PROVE  ZoneInv'
BY DEF ZoneInv, ZoneTypeOK, EnteredInv, Alive, zoneVars

LEMMA RegisterNextKeeps ==
  ASSUME RegisterInv, RegisterNext
  PROVE  RegisterInv'
BY NewFindingKeeps, EditFindingKeeps, DeleteFindingKeeps, LinkingKeeps DEF RegisterNext

LEMMA ImportNextKeeps ==
  ASSUME RegisterInv, NEW j \in Importers, ImportNext(j)
  PROVE  RegisterInv'
BY MatchKeeps, AddNextKeeps, FinishKeeps DEF ImportNext

LEMMA AssessmentSteps == AssessmentInv /\ [Next]_vars => AssessmentInv'
<1> SUFFICES ASSUME AssessmentInv, [Next]_vars PROVE AssessmentInv'
  OBVIOUS
<1> USE DEF AssessmentInv
<1>1. ASSUME ops < MaxOps, ops' = ops + 1 PROVE ops' \in 0..MaxOps
  <2>1. MaxOps \in Nat
    BY AssessmentAssumption
  <2> QED
    BY <1>1, <2>1
<1>2. CASE LevelNext /\ UNCHANGED registerVars /\ ops < MaxOps /\ ops' = ops + 1
  BY <1>1, <1>2, LevelNextKeeps, RegisterUntouched
<1>7. CASE MergeNext /\ UNCHANGED registerVars /\ ops < MaxOps /\ ops' = ops + 1
  BY <1>1, <1>7, MergeKeeps, RegisterUntouched DEF MergeNext
<1>3. CASE ZoneNext /\ UNCHANGED <<registerVars, entered>> /\ ops < MaxOps /\ ops' = ops + 1
  BY <1>1, <1>3, ZoneNextKeeps, RegisterUntouched
<1>4. CASE /\ RegisterNext \/ \E j \in Importers : Collect(j, Drafts)
           /\ UNCHANGED <<zoneVars, entered>> /\ ops < MaxOps /\ ops' = ops + 1
  BY <1>1, <1>4, RegisterNextKeeps, CollectKeeps, ZonesUntouched
<1>5. CASE UNCHANGED <<zoneVars, entered, ops>> /\ \E j \in Importers : ImportNext(j)
  BY <1>5, ImportNextKeeps, ZonesUntouched
<1>6. CASE UNCHANGED vars
  BY <1>6, RegisterUntouched, ZonesUntouched DEF vars
<1> QED
  BY <1>2, <1>3, <1>4, <1>5, <1>6, <1>7 DEF Next

THEOREM AssessmentInvariance == Spec => []AssessmentInv
BY AssessmentStarts, AssessmentSteps, PTL DEF Spec

(* Every variable keeps its type.                                          *)
THEOREM AssessmentTypes == Spec => []TypeOK
<1>1. AssessmentInv => TypeOK
  BY DEF AssessmentInv, RegisterInv, ZoneInv, RowsOK, RowOK, JobsOK, JobOK, TypeOK,
         RegisterTypeOK
<1> QED
  BY <1>1, AssessmentInvariance, PTL

(* However many imports overlap, a draft is in the register at most once.  *)
THEOREM DraftsAreImportedOnce == Spec => []NoDraftTwice
<1>1. AssessmentInv => NoDraftTwice
  BY DEF AssessmentInv, RegisterInv
<1> QED
  BY <1>1, AssessmentInvariance, PTL

(* No reference is given out twice, whatever was deleted in between.       *)
THEOREM ReferencesAreDistinct == Spec => []GeneratedRefsDistinct
<1>1. AssessmentInv => GeneratedRefsDistinct
  BY DEF AssessmentInv, RegisterInv
<1> QED
  BY <1>1, AssessmentInvariance, PTL

(***************************************************************************)
(* What one step does to the levels that were entered.                     *)
(***************************************************************************)
LevelKept(a, b) ==
  \/ level'[b] = entered[a] /\ ShownSource(b)' = "Assessor"
  \/ b = a /\ entered'[a] # entered[a]
  \/ b # a /\ level[b] # ""

(* A level that was entered and is still on its row is the assessor's.     *)
LEMMA EnteredIsShown ==
  ASSUME ZoneInv', NEW b \in Assets, owner'[b] = b, entered'[b] # ""
  PROVE  level'[b] = entered'[b] /\ ShownSource(b)' = "Assessor"
<1>1. b \in Alive'
  BY DEF Alive
<1>2. level'[b] = entered'[b] /\ source'[b] # "Suggested"
  BY <1>1 DEF ZoneInv, EnteredInv
<1>3. source'[b] \in {"", "Suggested", "Assessor"}
  BY DEF ZoneInv, ZoneTypeOK
<1> QED
  BY <1>2, <1>3 DEF ShownSource

(* Only a merge moves addresses from one asset to another.                 *)
LEMMA OwnersStay ==
  ASSUME [Next]_vars, ~MergeNext
  PROVE  owner' = owner
<1>1. CASE LevelNext
  BY <1>1 DEF LevelNext, EditLevel, DocumentLevel
<1>2. CASE ZoneNext
  BY <1>2 DEF ZoneNext, Learn, Observe, EditType, AcceptLevels, save_conduit
<1>3. CASE UNCHANGED zoneVars
  BY <1>3 DEF zoneVars
<1>4. LevelNext \/ ZoneNext \/ UNCHANGED zoneVars
  BY Zenon DEF Next, vars
<1> QED
  BY <1>1, <1>2, <1>3, <1>4

LEMMA StepKeepsLevels ==
  ASSUME AssessmentInv, AssessmentInv', [Next]_vars,
         NEW a \in Alive, NEW b \in Assets, entered[a] # "", b = owner'[a]
  PROVE  LevelKept(a, b)
<1> USE DEF AssessmentInv
<1>1. a \in Assets /\ owner[a] = a
  BY DEF Alive
<1>2. CASE owner' = owner
  <2>1. b = a
    BY <1>1, <1>2
  <2>2. CASE entered'[a] = entered[a]
    BY <1>2, <2>1, <2>2, EnteredIsShown, <1>1 DEF LevelKept
  <2>3. CASE entered'[a] # entered[a]
    BY <2>1, <2>3 DEF LevelKept
  <2> QED
    BY <2>2, <2>3
<1>3. CASE MergeNext
  <2>1. PICK p \in Assets, s \in Assets : MergeAssets(p, s) /\ entered' = MergedEntered(p, s)
    BY <1>3 DEF MergeNext
  <2>2. /\ owner[p] = p /\ owner[s] = s /\ p # s
        /\ owner' = [x \in Assets |-> IF owner[x] = s THEN p ELSE owner[x]]
    BY <2>1 DEF MergeAssets, MergedOwner, Alive
  <2>3. entered = [x \in Assets |-> entered[x]]
    BY DEF ZoneInv, EnteredInv
  <2>4. CASE a = s
    <3>1. b = p /\ b # a /\ owner'[b] = b
      BY <1>1, <2>2, <2>4
    <3>2. CASE level[p] = ""
      <4>1. entered'[b] = entered[a]
        BY <2>1, <2>2, <2>3, <2>4, <3>1, <3>2 DEF MergedEntered
      <4> QED
        BY <3>1, <4>1, EnteredIsShown DEF LevelKept
    <3>3. CASE level[p] # ""
      BY <3>1, <3>3 DEF LevelKept
    <3> QED
      BY <3>2, <3>3
  <2>5. CASE a # s
    <3>1. b = a /\ owner'[b] = b
      BY <1>1, <2>2, <2>5
    <3>2. CASE entered'[a] = entered[a]
      BY <3>1, <3>2, EnteredIsShown DEF LevelKept
    <3>3. CASE entered'[a] # entered[a]
      BY <3>1, <3>3 DEF LevelKept
    <3> QED
      BY <3>2, <3>3
  <2> QED
    BY <2>4, <2>5
<1>4. CASE ~MergeNext
  <2>1. owner' = owner
    BY <1>4, OwnersStay
  <2> QED
    BY <1>2, <2>1
<1> QED
  BY <1>3, <1>4

(* A level the assessor entered stays until it is edited or merged into an *)
(* asset that has one: merging carries it along, and what has no source is *)
(* shown as the assessor's, which accepting suggestions passes over        *)
(* (store.py, merge_assets and accept_suggested_levels).                   *)
THEOREM EnteredLevelsStay == Spec => AssessorLevelsKept
<1>1. AssessmentInv /\ AssessmentInv' /\ [Next]_vars =>
        \A a \in Alive : \A b \in Assets :
          entered[a] # "" /\ b = owner'[a] =>
            \/ level'[b] = entered[a] /\ ShownSource(b)' = "Assessor"
            \/ b = a /\ entered'[a] # entered[a]
            \/ b # a /\ level[b] # ""
  BY StepKeepsLevels DEF LevelKept
<1> QED
  BY <1>1, AssessmentInvariance, PTL DEF Spec, AssessorLevelsKept

(* An import that succeeds leaves all of its drafts in the register.       *)
THEOREM ImportsAreComplete == Spec => ImportComplete
<1> DEFINE complete == \A j \in Importers : job'[j].pc = "added" /\ job[j].pc # "added" =>
              \A n \in DOMAIN job[j].drafts : \E i \in Ids' : rows'[i].dk = job[j].drafts[n].dk
<1>1. ASSUME AssessmentInv, [Next]_vars PROVE complete
  <2> SUFFICES ASSUME NEW j \in Importers, job'[j].pc = "added", job[j].pc # "added",
                      NEW n \in DOMAIN job[j].drafts
               PROVE  \E i \in Ids' : rows'[i].dk = job[j].drafts[n].dk
    OBVIOUS
  <2> USE DEF AssessmentInv, RegisterInv
  <2>1. Finish(j)
    <3>1. job' # job
      OBVIOUS
    <3>2. PICK k \in Importers : Collect(k, Drafts) \/ ImportNext(k)
      BY <1>1, <3>1 DEF Next, vars, registerVars, RegisterNext, NewFinding, EditFinding,
                        delete_finding, link_finding, unlink_finding
    <3>3. job = [m \in Importers |-> job[m]] /\ JobOK(job[k])
      BY <1>1 DEF JobsOK
    <3>4. \A x : job' = [job EXCEPT ![k] = x] => /\ job'[k] = x
                                                 /\ j # k => job'[j] = job[j]
      BY <3>3
    <3>5. \A x : job' = [job EXCEPT ![k] = x] => j = k /\ x.pc = "added"
      BY <3>4
    <3>6. ~Collect(k, Drafts)
      <4>1. SUFFICES ASSUME Collect(k, Drafts) PROVE FALSE
        OBVIOUS
      <4> DEFINE x == [pc |-> "collected", drafts |-> Drafts, known |-> {}]
      <4>2. job' = [job EXCEPT ![k] = x]
        BY <4>1 DEF Collect
      <4>3. x.pc = "collected"
        OBVIOUS
      <4> HIDE DEF x
      <4> QED
        BY <3>5, <4>2, <4>3
    <3>7. ~Match(k)
      <4>1. SUFFICES ASSUME Match(k) PROVE FALSE
        OBVIOUS
      <4>2. PICK y : job' = [job EXCEPT ![k].pc = "adding", ![k].known = y]
        BY <4>1, Zenon DEF Match
      <4> QED
        BY <3>3, <4>2 DEF JobOK
    <3>8. ~AddNext(k)
      <4>1. SUFFICES ASSUME AddNext(k) PROVE FALSE
        OBVIOUS
      <4>2. PICK y : job' = [job EXCEPT ![k].known = y]
        BY <4>1, Zenon DEF AddNext
      <4>3. job[k].pc = "adding"
        BY <4>1 DEF AddNext
      <4> QED
        BY <3>3, <4>2, <4>3 DEF JobOK
    <3>9. ~ImportFails(k)
      <4>1. SUFFICES ASSUME ImportFails(k) PROVE FALSE
        OBVIOUS
      <4> DEFINE x == [Idle EXCEPT !.pc = "failed"]
      <4>2. job' = [job EXCEPT ![k] = x]
        BY <4>1 DEF ImportFails
      <4>3. x.pc = "failed"
        BY DEF Idle
      <4> HIDE DEF x
      <4> QED
        BY <3>5, <4>2, <4>3
    <3>10. Finish(k)
      BY <3>2, <3>6, <3>7, <3>8, <3>9 DEF ImportNext
    <3>11. j = k
      BY <3>3, <3>10 DEF Finish
    <3> QED
      BY <3>10, <3>11
  <2>2. job[j].drafts[n].dk \in job[j].known
    BY <2>1 DEF Finish, Missing
  <2>3. job[j].drafts[n].dk # ""
    BY <1>1 DEF JobsOK, JobOK, DraftsOK
  <2>4. Known(j)
    BY <1>1, <2>1 DEF Finish, KnownOK
  <2> QED
    BY <2>1, <2>2, <2>3, <2>4 DEF Known, Finish, Ids
<1> QED
  BY <1>1, AssessmentInvariance, PTL DEF Spec, ImportComplete

(* The numbers of the zone summary add up.                                 *)
THEOREM LevelsAddUp == Spec => []LevelAccounting
<1>1. ASSUME ZoneTypeOK PROVE LevelAccounting
  <2>1. /\ IsFiniteSet(Physical) /\ IsFiniteSet(Assigned) /\ IsFiniteSet(Pending)
        /\ IsFiniteSet(NoSuggestion) /\ IsFiniteSet(InfrastructureAssets)
    <3>1. IsFiniteSet(Physical)
      <4>1. Physical \subseteq Assets
        BY DEF Physical, Alive
      <4> QED
        BY <4>1, FS_Subset, AssessmentAssumption
    <3>2. /\ Assigned \subseteq Physical /\ Pending \subseteq Physical
          /\ NoSuggestion \subseteq Physical /\ InfrastructureAssets \subseteq Physical
      BY DEF Assigned, Pending, NoSuggestion, InfrastructureAssets
    <3> QED
      BY <3>1, <3>2, FS_Subset
  <2>2. Pending \cap InfrastructureAssets = {}
    <3> SUFFICES ASSUME NEW a \in Pending, a \in InfrastructureAssets PROVE FALSE
      OBVIOUS
    <3>1. a \in Assets /\ evidence[a] \in Evidences
      BY <1>1 DEF Pending, Physical, Alive, ZoneTypeOK
    <3>2. is_infra(evidence[a])
      BY <3>1 DEF InfrastructureAssets, Infrastructure, InfraOf
    <3>3. Suggestion(a).level # ""
      BY DEF Pending
    <3>4. Suggestion(a) = suggest_level(evidence[a])
      BY <3>1 DEF Suggestion, SuggestionOf
    <3> QED
      BY <3>2, <3>3, <3>4, InfrastructureHasNoSuggestion
  <2>3. /\ Physical = ((Assigned \cup Pending) \cup NoSuggestion) \cup InfrastructureAssets
        /\ Assigned \cap Pending = {}
        /\ (Assigned \cup Pending) \cap NoSuggestion = {}
        /\ ((Assigned \cup Pending) \cup NoSuggestion) \cap InfrastructureAssets = {}
    BY <2>2 DEF Assigned, Pending, NoSuggestion, InfrastructureAssets, Infrastructure
  <2>4. ASSUME NEW S, NEW T, IsFiniteSet(S), IsFiniteSet(T), S \cap T = {}
        PROVE  /\ IsFiniteSet(S \cup T)
               /\ Cardinality(S \cup T) = Cardinality(S) + Cardinality(T)
    <3>1. Cardinality(S \cap T) = 0
      BY <2>4, FS_EmptySet
    <3>2. Cardinality(S) \in Nat /\ Cardinality(T) \in Nat
      BY <2>4, FS_CardinalityType
    <3>3. /\ IsFiniteSet(S \cup T)
          /\ Cardinality(S \cup T) = Cardinality(S) + Cardinality(T) - Cardinality(S \cap T)
      BY <2>4, FS_Union, Zenon
    <3> QED
      BY <3>1, <3>2, <3>3
  <2>5. /\ IsFiniteSet(Assigned \cup Pending)
        /\ Cardinality(Assigned \cup Pending) = Cardinality(Assigned) + Cardinality(Pending)
    BY <2>1, <2>3, <2>4
  <2>6. /\ IsFiniteSet((Assigned \cup Pending) \cup NoSuggestion)
        /\ Cardinality((Assigned \cup Pending) \cup NoSuggestion)
           = Cardinality(Assigned \cup Pending) + Cardinality(NoSuggestion)
    BY <2>1, <2>3, <2>4, <2>5
  <2>7. Cardinality(Physical) = Cardinality((Assigned \cup Pending) \cup NoSuggestion)
                                + Cardinality(InfrastructureAssets)
    BY <2>1, <2>3, <2>4, <2>6
  <2> QED
    BY <2>5, <2>6, <2>7 DEF LevelAccounting
<1>2. AssessmentInv => LevelAccounting
  BY <1>1 DEF AssessmentInv, ZoneInv
<1> QED
  BY <1>2, AssessmentInvariance, PTL
----------------------------------------------------------------------------
(***************************************************************************)
(* Relationships and drafts.                                               *)
(***************************************************************************)

(* The names a level is shown by.                                          *)
LEMMA LevelNames ==
  /\ Purdue \subseteq AllLevels
  /\ {"External", "Network infrastructure", "Unassigned", "Unmapped local"} \subseteq AllLevels
<1>1. /\ DOMAIN Unplaced = 1..4
      /\ Unplaced[1] = "External" /\ Unplaced[2] = "Network infrastructure"
      /\ Unplaced[3] = "Unassigned" /\ Unplaced[4] = "Unmapped local"
  BY DEF Unplaced
<1>2. 1 \in 1..4 /\ 2 \in 1..4 /\ 3 \in 1..4 /\ 4 \in 1..4
  OBVIOUS
<1> QED
  BY <1>1, <1>2 DEF AllLevels

(* Which boundary two levels have between them does not depend on who      *)
(* sent and who received.                                                  *)
LEMMA CrossingIsSymmetric ==
  ASSUME NEW a \in AllLevels, NEW b \in AllLevels
  PROVE  CrossingOf[<<a, b>>] = CrossingOf[<<b, a>>]
<1>1. /\ CrossingOf[<<a, b>>] = crossing_kind(a, b)
      /\ CrossingOf[<<b, a>>] = crossing_kind(b, a)
  BY DEF CrossingOf
<1>2. CASE a = b
  BY <1>2
<1>3. CASE a # b
  <2>1. ASSUME NEW l \in {a, b} PROVE Other(l, a, b) = Other(l, b, a)
    BY <1>3, <2>1 DEF Other
  <2>2. level_rank(a) \in Int /\ level_rank(b) \in Int
    <3> SUFFICES ASSUME NEW l PROVE level_rank(l) \in Int
      OBVIOUS
    <3>1. CASE l \in Purdue
      <4>1. \E i \in DOMAIN PURDUE_LEVELS : PURDUE_LEVELS[i] = l
        BY <3>1 DEF Purdue
      <4>2. DOMAIN PURDUE_LEVELS = 1..7
        BY DEF PURDUE_LEVELS
      <4>3. (CHOOSE i \in DOMAIN PURDUE_LEVELS : PURDUE_LEVELS[i] = l) \in 1..7
        BY <4>1, <4>2
      <4> QED
        <5> DEFINE i == CHOOSE j \in DOMAIN PURDUE_LEVELS : PURDUE_LEVELS[j] = l
        <5>1. i \in 1..7 /\ level_rank(l) = i - 1
          BY <3>1, <4>3 DEF level_rank
        <5> HIDE DEF i
        <5> QED
          BY <5>1
    <3>2. CASE l \notin Purdue
      BY <3>2 DEF level_rank
    <3> QED
      BY <3>1, <3>2
  <2>3. Lower(a, b) = Lower(b, a) /\ Upper(a, b) = Upper(b, a)
    BY <2>2 DEF Lower, Upper
  <2>4. {a, b} = {b, a}
    OBVIOUS
  <2>5. crossing_kind(a, b) = crossing_kind(b, a)
    BY <1>3, <2>1, <2>3, <2>4 DEF crossing_kind
  <2> QED
    BY <1>1, <2>5
<1> QED
  BY <1>2, <1>3

(* Every endpoint is shown at one of them.                                 *)
LEMMA EndpointLevels ==
  ASSUME ZoneTypeOK, NEW k \in Endpoints
  PROVE  endpoint_level(k) \in AllLevels
BY LevelNames DEF endpoint_level, ZoneTypeOK, Endpoints

(* What a relationship says of its ends.                                   *)
Between(r, a, b) ==
  /\ r.ends = {a, b}
  /\ r.crossing = CrossingOf[<<endpoint_level(a), endpoint_level(b)>>]
  /\ r.decision = decision[{a, b}]

(* The relationship of the flows that share their ends and point with one. *)
RelationshipOf(g, flows) ==
  [ends     |-> {endpoint(g.src), endpoint(g.dst)},
   point    |-> g.point,
   pair     |-> PairOf[<<endpoint_level(endpoint(g.src)), endpoint_level(endpoint(g.dst))>>],
   crossing |-> CrossingOf[<<endpoint_level(endpoint(g.src)),
                             endpoint_level(endpoint(g.dst))>>],
   decision |-> decision[{endpoint(g.src), endpoint(g.dst)}],
   packets  |-> Total(flows)]

(* Every relationship is between two endpoints.                            *)
LEMMA RelationshipBetween ==
  ASSUME ZoneTypeOK, NEW r \in relationships
  PROVE  \E a, b \in Endpoints : Between(r, a, b)
<1>1. \A k \in Endpoints : endpoint(k) \in Endpoints
  BY DEF endpoint, ZoneTypeOK, Endpoints
<1>2. \A g \in seen : g.src \in Endpoints /\ g.dst \in Endpoints
  <2>1. Flows \subseteq [src : Endpoints, dst : Endpoints, point : STRING, packets : Nat \ {0}]
    BY ZonesAssumption, Zenon
  <2>2. seen \subseteq Flows
    BY DEF ZoneTypeOK
  <2> QED
    BY <2>1, <2>2
<1>3. PICK g \in seen :
        /\ r.ends = {endpoint(g.src), endpoint(g.dst)}
        /\ r.crossing = CrossingOf[<<endpoint_level(endpoint(g.src)),
                                     endpoint_level(endpoint(g.dst))>>]
        /\ r.decision = decision[{endpoint(g.src), endpoint(g.dst)}]
  <2>1. PICK g \in seen : \E flows : r = RelationshipOf(g, flows)
    BY Zenon DEF relationships, RelationshipOf
  <2>2. PICK flows : r = RelationshipOf(g, flows)
    BY <2>1
  <2> QED
    BY <2>2 DEF RelationshipOf
<1> QED
  BY <1>1, <1>2, <1>3 DEF Between

(* Relationships of the same two endpoints cross the same boundary and     *)
(* have the same decision, whichever point saw them in which direction.    *)
LEMMA SameEndsSameCrossing ==
  ASSUME ZoneTypeOK, NEW r \in relationships, NEW q \in relationships, r.ends = q.ends
  PROVE  r.crossing = q.crossing /\ r.decision = q.decision
<1>1. PICK a, b \in Endpoints : Between(r, a, b)
  BY RelationshipBetween
<1>2. PICK c, d \in Endpoints : Between(q, c, d)
  BY RelationshipBetween
<1>3. {a, b} = {c, d}
  BY <1>1, <1>2 DEF Between
<1>4. (a = c /\ b = d) \/ (a = d /\ b = c)
  BY <1>3
<1>5. CrossingOf[<<endpoint_level(a), endpoint_level(b)>>]
        = CrossingOf[<<endpoint_level(c), endpoint_level(d)>>]
  BY <1>4, EndpointLevels, CrossingIsSymmetric
<1> QED
  BY <1>1, <1>2, <1>3, <1>5 DEF Between

(* A set of relationships cites the relationships that are in it.          *)
LEMMA CitesItsOwn ==
  ASSUME NEW rels, NEW k
  PROVE  <<"relationship", k>> \in Links(rels) <=> \E q \in rels : q.ends = k
<1>1. ASSUME NEW q \in rels, q.ends = k PROVE <<"relationship", k>> \in Links(rels)
  BY <1>1 DEF Links
<1>2. ASSUME <<"relationship", k>> \in Links(rels) PROVE \E q \in rels : q.ends = k
  <2>1. PICK q \in rels :
          \/ <<"relationship", k>> = <<"relationship", q.ends>>
          \/ <<"relationship", k>> = <<"pair", q.pair>>
          \/ \E x \in q.ends \cap Assets : <<"relationship", k>> = <<"asset", x>>
    BY <1>2 DEF Links
  <2> QED
    BY <2>1
<1> QED
  BY <1>1, <1>2

(* The drafts that follow from decisions cite their relationships, and no  *)
(* other draft cites any.                                                  *)
LEMMA WhatDraftsCite ==
  ASSUME NEW rels
  PROVE  /\ DraftLinks(rels, DraftKeys[6]) = Links(external_unexpected(rels))
         /\ DraftLinks(rels, DraftKeys[7]) = Links(bypass_rels(rels))
         /\ DraftLinks(rels, DraftKeys[8]) = Links(other_unexpected(rels))
         /\ \A n \in 1..16 \ {6, 7, 8} : DraftLinks(rels, DraftKeys[n]) = {}
<1>1. /\ DraftKeys[6] = "unexpected-external" /\ DraftKeys[7] = "dmz-bypass"
      /\ DraftKeys[8] = "unexpected-other"
  BY DEF DraftKeys
<1>2. \A n \in 1..16 \ {6, 7, 8} :
        DraftKeys[n] \notin {"unexpected-external", "dmz-bypass", "unexpected-other"}
  <2> SUFFICES ASSUME NEW n \in 1..16 \ {6, 7, 8}
               PROVE  /\ DraftKeys[n] # DraftKeys[6] /\ DraftKeys[n] # DraftKeys[7]
                      /\ DraftKeys[n] # DraftKeys[8]
    BY <1>1
  <2>1. n \in 1..16 /\ 6 \in 1..16 /\ 7 \in 1..16 /\ 8 \in 1..16
    OBVIOUS
  <2> QED
    BY <2>1, KeysDiffer
<1> QED
  BY <1>1, <1>2 DEF DraftLinks

(* Those drafts are due when they have a relationship to cite.             *)
LEMMA WhenDraftsAreDue ==
  ASSUME NEW rels
  PROVE  /\ Drafted(rels, DraftKeys[6]) <=> external_unexpected(rels) # {}
         /\ Drafted(rels, DraftKeys[7]) <=> bypass_rels(rels) # {}
         /\ Drafted(rels, DraftKeys[8]) <=> other_unexpected(rels) # {}
<1>1. /\ DraftKeys[6] = "unexpected-external" /\ DraftKeys[7] = "dmz-bypass"
      /\ DraftKeys[8] = "unexpected-other"
  BY DEF DraftKeys
<1> QED
  BY <1>1 DEF Drafted

(* An unexpected relationship is cited by the draft of its boundary only.  *)
LEMMA CitedOnce ==
  ASSUME ZoneTypeOK, NEW r \in unexpected_rels(relationships)
  PROVE  \E m \in 6..8 : \A n \in 1..16 :
           /\ <<"relationship", r.ends>> \in DraftLinks(relationships, DraftKeys[n]) <=> n = m
           /\ n = m => Drafted(relationships, DraftKeys[n])
<1> DEFINE rels == relationships
           cites(n) == <<"relationship", r.ends>> \in DraftLinks(rels, DraftKeys[n])
<1>1. r \in rels /\ r.decision = "Unexpected"
  BY DEF unexpected_rels
<1>2. \A q \in rels : q.ends = r.ends => q.crossing = r.crossing /\ q.decision = r.decision
  BY <1>1, SameEndsSameCrossing
<1> HIDE DEF rels
<1>3. /\ r \in external_unexpected(rels) <=> r.crossing \in ToExternal
      /\ r \in bypass_rels(rels) <=> r.crossing = "bypasses DMZ"
      /\ r \in other_unexpected(rels)
           <=> r.crossing \notin ToExternal /\ r.crossing # "bypasses DMZ"
  BY <1>1 DEF external_unexpected, bypass_rels, crossing_rels, other_unexpected,
              unexpected_rels, ToExternal
<1>4. /\ cites(6) <=> r \in external_unexpected(rels)
      /\ cites(7) <=> r \in bypass_rels(rels)
      /\ cites(8) <=> r \in other_unexpected(rels)
  <2>1. ASSUME NEW q \in rels, q.ends = r.ends
        PROVE  /\ q \in external_unexpected(rels) <=> r \in external_unexpected(rels)
               /\ q \in bypass_rels(rels) <=> r \in bypass_rels(rels)
               /\ q \in other_unexpected(rels) <=> r \in other_unexpected(rels)
    BY <1>1, <1>2, <2>1 DEF external_unexpected, bypass_rels, crossing_rels,
                            other_unexpected, unexpected_rels
  <2>2. /\ external_unexpected(rels) \subseteq rels
        /\ bypass_rels(rels) \subseteq rels
        /\ other_unexpected(rels) \subseteq rels
    BY DEF external_unexpected, bypass_rels, crossing_rels, other_unexpected,
           unexpected_rels
  <2> QED
    BY <2>1, <2>2, WhatDraftsCite, CitesItsOwn
<1>5. \A n \in 1..16 \ {6, 7, 8} : ~cites(n)
  BY WhatDraftsCite
<1>6. "bypasses DMZ" \notin ToExternal
  BY DEF ToExternal
<1>7. /\ cites(6) => Drafted(rels, DraftKeys[6])
      /\ cites(7) => Drafted(rels, DraftKeys[7])
      /\ cites(8) => Drafted(rels, DraftKeys[8])
  BY <1>4, WhenDraftsAreDue
<1>8. PICK m \in 6..8 :
        /\ cites(m)
        /\ \A n \in 6..8 : cites(n) => n = m
        /\ Drafted(rels, DraftKeys[m])
  <2> HIDE DEF cites
  <2>1. \A n \in 6..8 : n = 6 \/ n = 7 \/ n = 8
    OBVIOUS
  <2>2. CASE r.crossing \in ToExternal
    <3>1. cites(6) /\ ~cites(7) /\ ~cites(8)
      BY <1>3, <1>4, <1>6, <2>2
    <3> QED
      BY <1>7, <2>1, <3>1
  <2>3. CASE r.crossing = "bypasses DMZ"
    <3>1. ~cites(6) /\ cites(7) /\ ~cites(8)
      BY <1>3, <1>4, <1>6, <2>3
    <3> QED
      BY <1>7, <2>1, <3>1
  <2>4. CASE r.crossing \notin ToExternal /\ r.crossing # "bypasses DMZ"
    <3>1. ~cites(6) /\ ~cites(7) /\ cites(8)
      BY <1>3, <1>4, <1>6, <2>4
    <3> QED
      BY <1>7, <2>1, <3>1
  <2> QED
    BY <2>2, <2>3, <2>4
<1>9. ASSUME NEW n \in 1..16 PROVE /\ cites(n) <=> n = m
                                   /\ n = m => Drafted(rels, DraftKeys[n])
  <2>1. n \in 6..8 \/ n \in 1..16 \ {6, 7, 8}
    OBVIOUS
  <2> HIDE DEF cites
  <2>2. CASE n \in 6..8
    BY <1>8, <2>2
  <2>3. CASE n \in 1..16 \ {6, 7, 8}
    BY <1>5, <1>8, <2>3
  <2> QED
    BY <2>1, <2>2, <2>3
<1> QED
  BY <1>9 DEF rels

(***************************************************************************)
(* Whatever boundary its levels make it cross, an Unexpected relationship  *)
(* is cited by exactly one draft: its crossing is that of all the          *)
(* relationships of its ends, and the three drafts divide the crossings    *)
(* between them (analysis.py).                                             *)
(***************************************************************************)
THEOREM UnexpectedIsCitedOnce == Spec => []UnexpectedIsDrafted
<1>1. ASSUME ZoneTypeOK PROVE UnexpectedIsDrafted
  <2> SUFFICES ASSUME NEW r \in unexpected_rels(relationships)
               PROVE  Cardinality({n \in DOMAIN Drafts :
                        <<"relationship", r.ends>> \in Drafts[n].links}) = 1
    BY DEF UnexpectedIsDrafted
  <2> DEFINE citing == {n \in DOMAIN Drafts :
                          <<"relationship", r.ends>> \in Drafts[n].links}
  <2>1. PICK m \in 6..8 : \A n \in 1..16 :
          /\ <<"relationship", r.ends>> \in DraftLinks(relationships, DraftKeys[n]) <=> n = m
          /\ n = m => Drafted(relationships, DraftKeys[n])
    BY <1>1, CitedOnce
  <2>2. m \in 1..16
    OBVIOUS
  <2>3. /\ \A n \in DOMAIN Drafts : n \in 1..16
        /\ \A n \in 1..16 : n \in DOMAIN Drafts <=> Drafted(relationships, DraftKeys[n])
    BY KeysDiffer DEF Drafts
  <2>4. \A n \in DOMAIN Drafts : Drafts[n].links = DraftLinks(relationships, DraftKeys[n])
    BY DEF Drafts, Draft
  <2>5. citing = {m}
    BY <2>1, <2>2, <2>3, <2>4
  <2> HIDE DEF citing
  <2>6. Cardinality(citing) = 1
    BY <2>5, FS_Singleton
  <2> QED
    BY <2>6 DEF citing
<1>2. AssessmentInv => UnexpectedIsDrafted
  BY <1>1 DEF AssessmentInv, ZoneInv
<1> QED
  BY <1>2, AssessmentInvariance, PTL

(***************************************************************************)
(* The table of the zone pairs and their diagram.                          *)
(***************************************************************************)

(* A place behind all that lead, and some of those that tie.               *)
LEMMA PlaceAmongTies ==
  ASSUME NEW S, IsFiniteSet(S), NEW before \in SUBSET S, NEW lead \in SUBSET S,
         NEW tied \in SUBSET S, NEW p \in tied,
         lead \subseteq before, before \subseteq lead \cup (tied \ {p})
  PROVE  Cardinality(before) + 1
           \in (Cardinality(lead) + 1)..(Cardinality(lead) + Cardinality(tied))
<1>1. IsFiniteSet(before) /\ IsFiniteSet(lead) /\ IsFiniteSet(tied)
  BY FS_Subset
<1>2. /\ IsFiniteSet(tied \ {p}) /\ Cardinality(tied \ {p}) = Cardinality(tied) - 1
  BY <1>1, FS_RemoveElement
<1>3. /\ Cardinality(before) \in Nat /\ Cardinality(lead) \in Nat
      /\ Cardinality(tied) \in Nat
  BY <1>1, FS_CardinalityType
<1>4. Cardinality(lead) <= Cardinality(before)
  BY <1>1, FS_Subset
<1>5. /\ IsFiniteSet(lead \cup (tied \ {p}))
      /\ Cardinality(lead \cup (tied \ {p})) <= Cardinality(lead) + Cardinality(tied \ {p})
  <2>1. /\ IsFiniteSet(lead \cup (tied \ {p})) /\ IsFiniteSet(lead \cap (tied \ {p}))
        /\ Cardinality(lead \cup (tied \ {p}))
           = Cardinality(lead) + Cardinality(tied \ {p}) - Cardinality(lead \cap (tied \ {p}))
    <3>1. IsFiniteSet(lead \cap (tied \ {p}))
      BY <1>1, FS_Intersection
    <3> QED
      BY <1>1, <1>2, <3>1, FS_Union, Zenon
  <2>2. Cardinality(lead \cap (tied \ {p})) \in Nat /\ Cardinality(tied \ {p}) \in Nat
    BY <1>2, <2>1, FS_CardinalityType
  <2> QED
    BY <1>3, <2>1, <2>2
<1>6. Cardinality(before) <= Cardinality(lead \cup (tied \ {p}))
  BY <1>5, FS_Subset
<1>7. Cardinality(lead \cup (tied \ {p})) \in Nat
  BY <1>5, FS_CardinalityType
<1> QED
  BY <1>2, <1>3, <1>4, <1>5, <1>6, <1>7

(* There are finitely many pairs of levels.                                *)
LEMMA PairsAreFew ==
  ASSUME ZoneTypeOK
  PROVE  IsFiniteSet(ZonePairs(relationships))
<1>0. ASSUME NEW n \in Nat, NEW f, DOMAIN f = 1..n
      PROVE  IsFiniteSet({f[i] : i \in 1..n})
  <2> DEFINE g == [i \in 1..n |-> f[i]]
             T == {f[i] : i \in 1..n}
  <2>1. g \in Surjection(1..n, T)
    BY DEF Surjection
  <2>2. IsFiniteSet(1..n)
    BY FS_Interval
  <2> HIDE DEF g
  <2> QED
    BY <2>1, <2>2, FS_Surjection
<1>1. IsFiniteSet(AllLevels)
  <2>1. DOMAIN PURDUE_LEVELS = 1..7 /\ DOMAIN Unplaced = 1..4
    BY DEF PURDUE_LEVELS, Unplaced
  <2>2. IsFiniteSet(Purdue)
    BY <1>0, <2>1 DEF Purdue
  <2>3. IsFiniteSet({Unplaced[i] : i \in DOMAIN Unplaced})
    BY <1>0, <2>1
  <2> QED
    BY <2>2, <2>3, FS_Union DEF AllLevels
<1>2. IsFiniteSet(AllLevels \X AllLevels)
  BY <1>1, FS_Product
<1>3. ZonePairs(relationships) \subseteq AllLevels \X AllLevels
  <2>1. \A k \in Endpoints : endpoint(k) \in Endpoints
    BY DEF endpoint, ZoneTypeOK, Endpoints
  <2>2. \A g \in seen : g.src \in Endpoints /\ g.dst \in Endpoints
    <3>1. Flows \subseteq [src : Endpoints, dst : Endpoints, point : STRING, packets : Nat \ {0}]
      BY ZonesAssumption, Zenon
    <3>2. seen \subseteq Flows
      BY DEF ZoneTypeOK
    <3> QED
      BY <3>1, <3>2
  <2>3. \A a \in AllLevels, b \in AllLevels : PairOf[<<a, b>>] \in AllLevels \X AllLevels
    BY DEF PairOf, pair_key
  <2>4. ASSUME NEW r \in relationships PROVE r.pair \in AllLevels \X AllLevels
    <3>1. PICK g \in seen : \E flows : r = RelationshipOf(g, flows)
      BY Zenon DEF relationships, RelationshipOf
    <3>2. r.pair = PairOf[<<endpoint_level(endpoint(g.src)), endpoint_level(endpoint(g.dst))>>]
      BY <3>1 DEF RelationshipOf
    <3>3. /\ endpoint_level(endpoint(g.src)) \in AllLevels
          /\ endpoint_level(endpoint(g.dst)) \in AllLevels
      BY <2>1, <2>2, EndpointLevels
    <3> QED
      BY <2>3, <3>2, <3>3
  <2> QED
    BY <2>4 DEF ZonePairs
<1> QED
  BY <1>2, <1>3, FS_Subset

(* While every crossing has a line, both its number and its row are among  *)
(* the rows of the crossings with as many packets: what comes before it in *)
(* either list are the crossings with more, and some of those it ties with *)
(* (_zone_summary, purdue_svg).                                            *)
THEOREM DiagramIsTheTable == Spec => []DiagramMatchesTable
<1>1. ASSUME ZoneTypeOK PROVE DiagramMatchesTable
  <2> DEFINE rels == relationships
             crossings == {q \in ZonePairs(rels) : PairCrosses(q)}
             leading(p) == {q \in crossings \ {p} : PairPackets(rels, q) > PairPackets(rels, p)}
             tied(p) == {q \in crossings : PairPackets(rels, q) = PairPackets(rels, p)}
  <2> SUFFICES ASSUME crossings \subseteq DrawnPairs(rels), NEW p \in crossings
               PROVE  /\ TableRow(rels, p) \in (Cardinality(leading(p)) + 1)
                             ..(Cardinality(leading(p)) + Cardinality(tied(p)))
                      /\ DiagramNumber(rels, p) \in (Cardinality(leading(p)) + 1)
                             ..(Cardinality(leading(p)) + Cardinality(tied(p)))
    BY Zenon DEF DiagramMatchesTable
  <2> DEFINE above == {q \in ZonePairs(rels) \ {p} : TableBefore(rels, q, p)}
             lower == {q \in DrawnPairs(rels) \ {p} : DiagramBefore(rels, q, p)}
             lead == leading(p)
             ties == tied(p)
  <2>1. TableRow(rels, p) = Cardinality(above) + 1
    BY DEF TableRow
  <2>2. DiagramNumber(rels, p) = Cardinality(lower) + 1
    BY DEF DiagramNumber
  <2>3. IsFiniteSet(crossings)
    BY <1>1, PairsAreFew, FS_Subset
  <2>4. p \in ties /\ lead \in SUBSET crossings /\ ties \in SUBSET crossings
    OBVIOUS
  <2>5. DrawnPairs(rels) \subseteq ZonePairs(rels)
    BY DEF DrawnPairs
  <2>6. ASSUME NEW q \in ZonePairs(rels) \ {p}
        PROVE  /\ Leads(rels, q, p) <=> q \in lead
               /\ Ties(rels, q, p) <=> q \in ties \ {p}
    BY DEF Leads, Ties, PairCrosses
  <2>7. above \in SUBSET crossings /\ lead \subseteq above /\ above \subseteq lead \cup (ties \ {p})
    BY <2>4, <2>6 DEF TableBefore
  <2>8. lower \in SUBSET crossings /\ lead \subseteq lower /\ lower \subseteq lead \cup (ties \ {p})
    BY <2>4, <2>5, <2>6 DEF DiagramBefore
  <2> HIDE DEF crossings, above, lower, lead, ties
  <2>9. /\ Cardinality(above) + 1 \in (Cardinality(lead) + 1)..(Cardinality(lead) + Cardinality(ties))
        /\ Cardinality(lower) + 1 \in (Cardinality(lead) + 1)..(Cardinality(lead) + Cardinality(ties))
    BY <2>3, <2>4, <2>7, <2>8, PlaceAmongTies
  <2> QED
    BY <2>1, <2>2, <2>9 DEF lead, ties
<1>2. AssessmentInv => DiagramMatchesTable
  BY <1>1 DEF AssessmentInv, ZoneInv
<1> QED
  BY <1>2, AssessmentInvariance, PTL
=============================================================================
