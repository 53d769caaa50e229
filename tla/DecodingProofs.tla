---------------------------- MODULE DecodingProofs ----------------------------
(***************************************************************************)
(* The table of pending CIP requests, for any number of parsers, any size  *)
(* of the table and any conversations.                                     *)
(***************************************************************************)
EXTENDS Decoding, FiniteSetTheorems, SequenceTheorems, TLAPS

(* The parsers that are past the test of the size and will add an entry.   *)
Storing == {p \in Parsers : parser[p].pc = "store"}

KeysOf(p) == {Key(k) : k \in Reads[p]}
Keys == (UNION {KeysOf(p) : p \in Parsers}) \cup {<<>>}
Entries == [key : Keys, target : Targets]
PcValues == {"idle", "check", "iter", "next", "del", "store", "raised"}

(* What a parser holds: a key of a conversation it reads, while it is busy *)
(* with a request that can be followed.                                    *)
ParserStates(p) ==
  {s \in [pc : PcValues, key : Keys, target : Targets \cup {NoTarget},
          size : Nat, victim : Keys, alone : BOOLEAN] :
     /\ s.pc = "idle" => s = Idle
     /\ s.pc # "idle" => s.key \in KeysOf(p) /\ s.target \in Targets}

CipTypeOK ==
  /\ pending \in Seq(Entries)
  /\ parser = [p \in Parsers |-> parser[p]]
  /\ \A p \in Parsers : parser[p] \in ParserStates(p)
  /\ outstanding = [p \in Parsers |-> [k \in Reads[p] |-> outstanding[p][k]]]

OneEntry(table) == \A i, j \in DOMAIN table : table[i].key = table[j].key => i = j

(* A parser has made room, or found it, for the entry it is about to add.  *)
RoomForStoring ==
  Len(pending) + Cardinality(Storing) <= PendingMax + Cardinality(Parsers) - 1

(* What a parser that is evicting found is still so if no other parser has *)
(* changed the table.                                                      *)
Found(s, table) ==
  s.alone =>
    /\ s.pc \in {"iter", "next"} => Len(table) >= PendingMax
    /\ s.pc = "next" => s.size = Len(table)
    /\ s.pc = "del" => \E i \in DOMAIN table : table[i].key = s.victim
    /\ s.pc # "raised"
AloneMeansUnchanged == \A p \in Parsers : Found(parser[p], pending)

(* The request that is outstanding in a conversation only p reads is the   *)
(* one it is about to remember, or the one under its key.                  *)
Exclusive(p, k) == \A q \in Parsers \ {p} : k \notin Reads[q]
Remembered(p, k) ==
  IF parser[p].pc # "idle" /\ parser[p].key = Key(k)
  THEN parser[p].target = outstanding[p][k]
  ELSE \A i \in DOMAIN pending :
         pending[i].key = Key(k) => pending[i].target = outstanding[p][k]
RemembersAll(p) ==
  \A k \in Reads[p] :
    outstanding[p][k] \in Targets /\ Exclusive(p, k) => Remembered(p, k)

CipInv ==
  /\ CipTypeOK
  /\ OneEntry(pending)
  /\ RoomForStoring
  /\ AloneMeansUnchanged
  /\ \A p \in Parsers : RemembersAll(p)

(***************************************************************************)
(* Lemmas about the table.                                                 *)
(***************************************************************************)

(* Two conversations have two keys: a key has the context in it.           *)
LEMMA KeyTells ==
  ASSUME NEW p \in Parsers, NEW q \in Parsers, NEW k \in Reads[p], NEW l \in Reads[q],
         Key(k) = Key(l)
  PROVE  k = l
<1>1. k \in [client : STRING, server : STRING, context : Nat]
      /\ l \in [client : STRING, server : STRING, context : Nat]
  BY CipAssumption
<1>2. k.client = l.client /\ k.server = l.server /\ k.context = l.context
  BY DEF Key
<1> QED
  BY <1>1, <1>2

(* A table without its entry i.                                            *)
LEMMA WithoutOne ==
  ASSUME NEW T, pending \in Seq(T), NEW i \in DOMAIN pending
  PROVE  /\ Without(i) \in Seq(T)
         /\ Len(Without(i)) = Len(pending) - 1
         /\ \A j \in DOMAIN Without(i) :
              Without(i)[j] = IF j < i THEN pending[j] ELSE pending[j + 1]
<1> DEFINE s1 == SubSeq(pending, 1, i - 1)
           s2 == SubSeq(pending, i + 1, Len(pending))
<1>1. i \in Int /\ Len(pending) \in Nat /\ i \in 1..Len(pending)
      /\ \A j \in 1..Len(pending) : pending[j] \in T
  BY LenProperties, ElementOfSeq
<1>2. /\ s1 \in Seq(T) /\ Len(s1) = i - 1
      /\ \A j \in 1..(i - 1) : s1[j] = pending[j]
  <2>1. \A j \in 1..(i - 1) : pending[j] \in T
    BY <1>1
  <2>2. /\ s1 \in Seq(T) /\ Len(s1) = IF 1 <= i - 1 THEN (i - 1) - 1 + 1 ELSE 0
        /\ \A j \in 1..((i - 1) - 1 + 1) : s1[j] = pending[1 + j - 1]
    BY <1>1, <2>1, SubSeqProperties
  <2> HIDE DEF s1
  <2> QED
    BY <1>1, <2>2
<1>3. /\ s2 \in Seq(T) /\ Len(s2) = Len(pending) - i
      /\ \A j \in 1..(Len(pending) - i) : s2[j] = pending[i + j]
  <2>1. \A j \in (i + 1)..Len(pending) : pending[j] \in T
    BY <1>1
  <2>2. /\ s2 \in Seq(T)
        /\ Len(s2) = IF i + 1 <= Len(pending) THEN Len(pending) - (i + 1) + 1 ELSE 0
        /\ \A j \in 1..(Len(pending) - (i + 1) + 1) : s2[j] = pending[(i + 1) + j - 1]
    BY <1>1, <2>1, SubSeqProperties
  <2> HIDE DEF s2
  <2> QED
    BY <1>1, <2>2
<1>4. Without(i) = s1 \o s2
  BY DEF Without
<1> HIDE DEF s1, s2
<1>5. /\ s1 \o s2 \in Seq(T) /\ Len(s1 \o s2) = Len(s1) + Len(s2)
      /\ \A j \in 1..(Len(s1) + Len(s2)) :
           (s1 \o s2)[j] = IF j <= Len(s1) THEN s1[j] ELSE s2[j - Len(s1)]
  BY <1>2, <1>3, ConcatProperties
<1>6. DOMAIN Without(i) = 1..(Len(pending) - 1)
  BY SMTT(40), <1>1, <1>2, <1>3, <1>4, <1>5, LenProperties
<1>7. ASSUME NEW j \in DOMAIN Without(i)
      PROVE  Without(i)[j] = IF j < i THEN pending[j] ELSE pending[j + 1]
  <2>1. j \in 1..(Len(pending) - 1)
    BY <1>6
  <2>2. CASE j < i
    BY SMTT(40), <1>1, <1>2, <1>3, <1>4, <1>5, <2>1, <2>2
  <2>3. CASE ~(j < i)
    <3>1. j - (i - 1) \in 1..(Len(pending) - i) /\ i + (j - (i - 1)) = j + 1
      BY <1>1, <2>1, <2>3
    <3>2. j \in 1..(Len(s1) + Len(s2)) /\ ~(j <= Len(s1)) /\ Len(s1) = i - 1
      BY <1>1, <1>2, <1>3, <2>1, <2>3
    <3>3. (s1 \o s2)[j] = s2[j - (i - 1)]
      BY <1>5, <3>2
    <3>4. s2[j - (i - 1)] = pending[i + (j - (i - 1))]
      BY <1>3, <3>1
    <3> QED
      BY <1>4, <2>3, <3>1, <3>3, <3>4
  <2> QED
    BY <2>2, <2>3
<1>8. Without(i) \in Seq(T)
  BY <1>4, <1>5
<1>9. Len(s1) + Len(s2) = Len(pending) - 1
  BY <1>1, <1>2, <1>3
<1>10. Len(Without(i)) = Len(pending) - 1
  BY <1>4, <1>5, <1>9
<1> QED
  BY <1>7, <1>8, <1>10

(* It is a table still, of entries that were there.                        *)
Old(table) == \A i \in DOMAIN table : \E j \in DOMAIN pending : table[i] = pending[j]

LEMMA WithoutIsTable ==
  ASSUME pending \in Seq(Entries), OneEntry(pending), NEW i \in DOMAIN pending
  PROVE  /\ Without(i) \in Seq(Entries) /\ Len(Without(i)) = Len(pending) - 1
         /\ OneEntry(Without(i)) /\ Old(Without(i))
<1> DEFINE w == Without(i)
           from(j) == IF j < i THEN j ELSE j + 1
<1>1. /\ w \in Seq(Entries) /\ Len(w) = Len(pending) - 1
      /\ \A j \in DOMAIN w : w[j] = IF j < i THEN pending[j] ELSE pending[j + 1]
  BY WithoutOne
<1> HIDE DEF w
<1>2. DOMAIN w = 1..(Len(pending) - 1) /\ DOMAIN pending = 1..Len(pending)
      /\ Len(pending) \in Nat
  BY <1>1, LenProperties
<1>3. \A j \in DOMAIN w : /\ from(j) \in DOMAIN pending /\ w[j] = pending[from(j)]
                          /\ j \in Int
  BY <1>1, <1>2
<1>4. Old(w)
  BY <1>3 DEF Old
<1>5. OneEntry(w)
  <2> SUFFICES ASSUME NEW j \in DOMAIN w, NEW k \in DOMAIN w, w[j].key = w[k].key
               PROVE  j = k
    BY DEF OneEntry
  <2>1. from(j) = from(k)
    BY <1>3 DEF OneEntry
  <2> QED
    BY <1>2, <1>3, <2>1
<1> QED
  BY <1>1, <1>4, <1>5 DEF w

(* The table with the entry of a parser in it: in the place of its key, or *)
(* at the end.                                                             *)
EntryOf(p) == [key |-> parser[p].key, target |-> parser[p].target]
Stored(p) ==
  LET at == At(parser[p].key)
  IN IF at = {} THEN Append(pending, EntryOf(p))
     ELSE [i \in DOMAIN pending |-> IF i \in at THEN EntryOf(p) ELSE pending[i]]

LEMMA StoredIsTable ==
  ASSUME pending \in Seq(Entries), OneEntry(pending), NEW p \in Parsers,
         EntryOf(p) \in Entries
  PROVE  /\ Stored(p) \in Seq(Entries) /\ Len(Stored(p)) <= Len(pending) + 1
         /\ Len(Stored(p)) \in Nat /\ OneEntry(Stored(p))
         /\ \A i \in DOMAIN Stored(p) :
              IF Stored(p)[i].key = parser[p].key THEN Stored(p)[i] = EntryOf(p)
              ELSE \E j \in DOMAIN pending : Stored(p)[i] = pending[j]
<1> DEFINE e == EntryOf(p)
           at == At(parser[p].key)
           t == Stored(p)
<1>1. /\ Len(pending) \in Nat /\ DOMAIN pending = 1..Len(pending)
      /\ \A i \in DOMAIN pending : pending[i] \in Entries
  BY LenProperties, ElementOfSeq
<1>2. e.key = parser[p].key /\ e \in Entries
  BY DEF EntryOf
<1>3. at = {i \in DOMAIN pending : pending[i].key = e.key}
  BY <1>2 DEF At
<1> HIDE DEF e, at
<1>4. CASE at = {}
  <2>1. t = Append(pending, e)
    BY <1>4 DEF Stored, e, at
  <2> HIDE DEF t
  <2>2. /\ t \in Seq(Entries) /\ Len(t) = Len(pending) + 1
        /\ \A i \in 1..Len(pending) : t[i] = pending[i]
        /\ t[Len(pending) + 1] = e
    BY <1>2, <2>1, AppendProperties
  <2>3. DOMAIN t = 1..(Len(pending) + 1)
    BY <2>2, LenProperties
  <2>4. \A i \in 1..Len(pending) : t[i].key # e.key
    BY <1>1, <1>3, <1>4, <2>2
  <2>5. OneEntry(t)
    BY <1>1, <2>2, <2>3, <2>4 DEF OneEntry
  <2>6. \A i \in DOMAIN t : IF t[i].key = e.key THEN t[i] = e
                            ELSE \E j \in DOMAIN pending : t[i] = pending[j]
    BY <1>1, <2>2, <2>3, <2>4
  <2> QED
    BY <1>1, <1>2, <2>2, <2>5, <2>6 DEF t, e
<1>5. CASE at # {}
  <2>1. t = [i \in DOMAIN pending |-> IF i \in at THEN e ELSE pending[i]]
    BY <1>5 DEF Stored, e, at
  <2> HIDE DEF t
  <2>2. t \in [1..Len(pending) -> Entries]
    BY <1>1, <1>2, <2>1
  <2>3. t \in Seq(Entries) /\ Len(t) = Len(pending) /\ DOMAIN t = 1..Len(pending)
    BY <1>1, <2>2, IsASeq, LenProperties
  <2>4. \A i \in DOMAIN t : t[i].key = pending[i].key
    BY <1>1, <1>3, <2>1, <2>3
  <2>5. OneEntry(t)
    BY <1>1, <2>3, <2>4 DEF OneEntry
  <2>6. \A i \in DOMAIN t : IF t[i].key = e.key THEN t[i] = e
                            ELSE \E j \in DOMAIN pending : t[i] = pending[j]
    BY <1>1, <1>3, <2>1, <2>3, <2>4
  <2> QED
    BY <1>1, <1>2, <2>3, <2>5, <2>6 DEF t, e
<1> QED
  BY <1>4, <1>5

(***************************************************************************)
(* What one step of a parser leaves as it was.                             *)
(***************************************************************************)

(* The other parsers hold what they held, and know that they were disturbed. *)
LEMMA OthersHold ==
  ASSUME CipTypeOK, NEW p \in Parsers, NEW next, NEW table, Step(p, next, table),
         NEW q \in Parsers, q # p
  PROVE  /\ parser'[q] \in ParserStates(q)
         /\ \A x \in {"pc", "key", "target", "size", "victim"} : parser'[q][x] = parser[q][x]
         /\ parser'[q].alone => parser[q].alone
         /\ parser'[q].alone /\ parser[q].pc \in {"iter", "next", "del"} => table = pending
<1>1. parser[q] \in ParserStates(q)
  BY DEF CipTypeOK
<1>2. CASE parser[q].pc \in {"iter", "next", "del"} /\ table # pending
  <2>1. parser'[q] = [parser[q] EXCEPT !.alone = FALSE]
    BY <1>2 DEF Step
  <2> QED
    BY <1>1, <1>2, <2>1 DEF ParserStates
<1>3. CASE ~(parser[q].pc \in {"iter", "next", "del"} /\ table # pending)
  <2>1. parser'[q] = parser[q]
    BY <1>3 DEF Step
  <2> QED
    BY <1>1, <1>3, <2>1
<1> QED
  BY <1>2, <1>3

(* A step of parser p that leaves a good table and a good parser p leaves  *)
(* everything but the memory of the requests in order.                     *)
NewStoring(p, next) == (Storing \ {p}) \cup (IF next.pc = "store" THEN {p} ELSE {})

LEMMA StepKeeps ==
  ASSUME CipInv, NEW p \in Parsers, NEW next, NEW table, Step(p, next, table),
         next \in ParserStates(p), table \in Seq(Entries), OneEntry(table),
         Len(table) + Cardinality(NewStoring(p, next))
           <= PendingMax + Cardinality(Parsers) - 1,
         Found(next, table),
         outstanding' = [q \in Parsers |-> [k \in Reads[q] |-> outstanding'[q][k]]]
  PROVE  CipTypeOK' /\ OneEntry(pending)' /\ RoomForStoring' /\ AloneMeansUnchanged'
<1> USE DEF CipInv
<1>1. pending' = table /\ parser'[p] = next
  BY DEF Step
<1>2. \A q \in Parsers \ {p} :
        /\ parser'[q] \in ParserStates(q)
        /\ \A x \in {"pc", "key", "target", "size", "victim"} : parser'[q][x] = parser[q][x]
        /\ parser'[q].alone => parser[q].alone
        /\ parser'[q].alone /\ parser[q].pc \in {"iter", "next", "del"} => table = pending
  BY OthersHold
<1>3. CipTypeOK'
  <2>1. parser' = [q \in Parsers |-> parser'[q]]
    BY DEF Step
  <2>2. \A q \in Parsers : parser'[q] \in ParserStates(q)
    BY <1>1, <1>2
  <2> QED
    BY <1>1, <2>1, <2>2 DEF CipTypeOK, ParserStates
<1>4. RoomForStoring'
  <2>1. Storing' = NewStoring(p, next)
    <3>1. \A q \in Parsers \ {p} : parser'[q].pc = parser[q].pc
      BY <1>2
    <3> QED
      BY <1>1, <3>1 DEF Storing, NewStoring
  <2> QED
    BY <1>1, <2>1 DEF RoomForStoring
<1>5. ASSUME NEW q \in Parsers PROVE Found(parser'[q], table)
  <2>1. CASE q = p
    BY <1>1, <2>1
  <2>2. CASE q # p
    <3>1. /\ parser'[q].pc = parser[q].pc /\ parser'[q].size = parser[q].size
          /\ parser'[q].victim = parser[q].victim
          /\ parser'[q].alone => parser[q].alone
          /\ parser'[q].alone /\ parser[q].pc \in {"iter", "next", "del"} => table = pending
      BY <1>2, <2>2
    <3>2. Found(parser[q], pending)
      BY DEF AloneMeansUnchanged
    <3> QED
      BY <3>1, <3>2 DEF Found
  <2> QED
    BY <2>1, <2>2
<1> QED
  BY <1>1, <1>3, <1>4, <1>5 DEF AloneMeansUnchanged

(* How many parsers are about to add an entry, after a step of p.          *)
LEMMA StoringCount ==
  ASSUME NEW p \in Parsers, NEW next
  PROVE  /\ Cardinality(Parsers) \in Nat /\ Cardinality(Storing) \in Nat
         /\ Cardinality(NewStoring(p, next)) \in Nat
         /\ Cardinality(NewStoring(p, next)) <= Cardinality(Parsers)
         /\ next.pc # "store" => Cardinality(NewStoring(p, next)) <= Cardinality(Storing)
         /\ next.pc # "store" /\ parser[p].pc = "store" =>
              Cardinality(NewStoring(p, next)) = Cardinality(Storing) - 1
         /\ Cardinality(NewStoring(p, next)) <= Cardinality(Storing) + 1
<1> DEFINE new == NewStoring(p, next)
           rest == Storing \ {p}
<1>1. IsFiniteSet(Parsers) /\ Cardinality(Parsers) \in Nat
  BY CipAssumption, FS_CardinalityType
<1>2. Storing \in SUBSET Parsers /\ new \in SUBSET Parsers
  BY DEF Storing, NewStoring
<1>3. /\ IsFiniteSet(Storing) /\ Cardinality(Storing) \in Nat
      /\ IsFiniteSet(new) /\ Cardinality(new) \in Nat
      /\ Cardinality(new) <= Cardinality(Parsers)
  BY <1>1, <1>2, FS_Subset, FS_CardinalityType
<1>4. /\ IsFiniteSet(rest)
      /\ Cardinality(rest) = IF p \in Storing THEN Cardinality(Storing) - 1
                             ELSE Cardinality(Storing)
  BY <1>3, FS_RemoveElement
<1>5. Cardinality(rest \cup {p}) = IF p \in rest THEN Cardinality(rest)
                                  ELSE Cardinality(rest) + 1
  BY <1>4, FS_AddElement
<1>6. p \in Storing <=> parser[p].pc = "store"
  BY DEF Storing
<1>7. CASE next.pc = "store"
  <2>1. new = rest \cup {p} /\ p \notin rest
    BY <1>7 DEF NewStoring
  <2> QED
    BY <1>1, <1>3, <1>4, <1>5, <1>7, <2>1
<1>8. CASE next.pc # "store"
  <2>1. new = rest
    BY <1>8 DEF NewStoring
  <2> QED
    BY <1>1, <1>3, <1>4, <1>6, <1>8, <2>1
<1> QED
  BY <1>7, <1>8

(* There is room where no parser more is about to add an entry.            *)
LEMMA RoomStays ==
  ASSUME CipInv, NEW p \in Parsers, NEW next, next.pc # "store",
         NEW n \in Nat, n <= Len(pending)
  PROVE  n + Cardinality(NewStoring(p, next)) <= PendingMax + Cardinality(Parsers) - 1
<1>1. /\ Cardinality(Parsers) \in Nat /\ Cardinality(Storing) \in Nat
      /\ Cardinality(NewStoring(p, next)) \in Nat
      /\ Cardinality(NewStoring(p, next)) <= Cardinality(Storing)
  BY StoringCount
<1>2. Len(pending) \in Nat /\ PendingMax \in Nat
      /\ Len(pending) + Cardinality(Storing) <= PendingMax + Cardinality(Parsers) - 1
  BY CipAssumption, LenProperties DEF CipInv, CipTypeOK, RoomForStoring
<1> QED
  BY <1>1, <1>2

(* What the other parsers' conversations are remembered by is not touched: *)
(* a new entry has a key of a conversation that p reads.                   *)
LEMMA OthersRemember ==
  ASSUME CipInv, NEW p \in Parsers, NEW next, NEW table, Step(p, next, table),
         \A i \in DOMAIN table :
           \/ \E j \in DOMAIN pending : table[i] = pending[j]
           \/ table[i].key \in KeysOf(p),
         NEW q \in Parsers, q # p, outstanding'[q] = outstanding[q]
  PROVE  RemembersAll(q)'
<1> SUFFICES ASSUME NEW k \in Reads[q], outstanding[q][k] \in Targets, Exclusive(q, k)
             PROVE  Remembered(q, k)'
  BY DEF RemembersAll, Exclusive
<1>1. Remembered(q, k)
  BY DEF CipInv, RemembersAll
<1>2. parser'[q].pc = parser[q].pc /\ parser'[q].key = parser[q].key
      /\ parser'[q].target = parser[q].target
  BY OthersHold DEF CipInv
<1>3. pending' = table
  BY DEF Step
<1>4. Key(k) \notin KeysOf(p)
  <2> SUFFICES ASSUME NEW l \in Reads[p], Key(k) = Key(l) PROVE FALSE
    BY DEF KeysOf
  <2>1. k = l
    BY KeyTells
  <2> QED
    BY <2>1 DEF Exclusive
<1>5. \A i \in DOMAIN table : table[i].key = Key(k) =>
        \E j \in DOMAIN pending : table[i] = pending[j]
  BY <1>4
<1> QED
  BY <1>1, <1>2, <1>3, <1>5 DEF Remembered

(* The same for the other conversations of p itself, if the table has only *)
(* entries that were there and p goes on with the same request, or with    *)
(* none that has this key.                                                 *)
LEMMA SameRemembered ==
  ASSUME CipInv, NEW p \in Parsers, NEW next, NEW table, Step(p, next, table),
         Old(table), NEW k \in Reads[p], outstanding'[p][k] = outstanding[p][k],
         outstanding[p][k] \in Targets, Exclusive(p, k),
         \/ /\ parser[p].pc # "idle" /\ next.pc # "idle"
            /\ next.key = parser[p].key /\ next.target = parser[p].target
         \/ /\ ~(parser[p].pc # "idle" /\ parser[p].key = Key(k))
            /\ next.pc # "idle" /\ next.key = Key(k) => next.target = outstanding[p][k]
  PROVE  Remembered(p, k)'
<1>1. Remembered(p, k)
  BY DEF CipInv, RemembersAll
<1>2. pending' = table /\ parser'[p] = next
  BY DEF Step
<1> QED
  BY <1>1, <1>2 DEF Remembered, Old

(* Frames that are not followed, or not seen, only make requests unknown.  *)
LEMMA NothingAsked ==
  ASSUME CipInv, UNCHANGED <<pending, parser>>,
         outstanding' = [q \in Parsers |-> [k \in Reads[q] |-> outstanding'[q][k]]],
         \A q \in Parsers : \A k \in Reads[q] :
           outstanding'[q][k] \in Targets => outstanding'[q][k] = outstanding[q][k]
  PROVE  CipInv'
<1>1. CipTypeOK' /\ OneEntry(pending)' /\ RoomForStoring' /\ AloneMeansUnchanged'
  BY DEF CipInv, CipTypeOK, ParserStates, OneEntry, RoomForStoring, Storing,
         AloneMeansUnchanged, Found
<1>2. ASSUME NEW p \in Parsers PROVE RemembersAll(p)'
  BY DEF CipInv, RemembersAll, Remembered, Exclusive
<1> QED
  BY <1>1, <1>2 DEF CipInv

(***************************************************************************)
(* The steps.                                                              *)
(***************************************************************************)

LEMMA CipStart == CipInit => CipInv
<1> SUFFICES ASSUME CipInit PROVE CipInv
  OBVIOUS
<1> USE DEF CipInit
<1>1. Idle \in [pc : PcValues, key : Keys, target : Targets \cup {NoTarget},
                size : Nat, victim : Keys, alone : BOOLEAN]
  BY DEF Idle, PcValues, Keys
<1>2. CipTypeOK
  <2>1. \A p \in Parsers : parser[p] \in ParserStates(p)
    BY <1>1 DEF ParserStates, Idle
  <2>2. pending \in Seq(Entries)
    BY EmptySeq
  <2>3. parser = [p \in Parsers |-> parser[p]]
    OBVIOUS
  <2>4. outstanding = [p \in Parsers |-> [k \in Reads[p] |-> outstanding[p][k]]]
    OBVIOUS
  <2> QED
    BY <2>1, <2>2, <2>3, <2>4 DEF CipTypeOK
<1>3. OneEntry(pending)
  BY DEF OneEntry
<1>4. RoomForStoring
  <2>1. Storing = {}
    BY DEF Storing, Idle
  <2>2. Cardinality(Storing) = 0 /\ Cardinality(Parsers) \in Nat /\ Cardinality(Parsers) # 0
    BY <2>1, CipAssumption, FS_EmptySet, FS_CardinalityType
  <2> QED
    BY <2>2, CipAssumption DEF RoomForStoring
<1>5. AloneMeansUnchanged
  BY DEF AloneMeansUnchanged, Found, Idle
<1>6. ASSUME NEW p \in Parsers PROVE RemembersAll(p)
  BY DEF RemembersAll, Remembered, Idle
<1> QED
  BY <1>2, <1>3, <1>4, <1>5, <1>6 DEF CipInv

LEMMA RequestStep ==
  ASSUME CipInv, NEW p \in Parsers, NEW k \in Reads[p], Request(p, k)
  PROVE  CipInv'
<1> PICK t \in Targets, wraps \in Wraps :
      LET found == request_target(t, wraps)
      IN IF found = NoTarget
         THEN /\ outstanding' = [outstanding EXCEPT ![p][k] = Unseen]
              /\ UNCHANGED <<pending, parser>>
         ELSE /\ outstanding' = [outstanding EXCEPT ![p][k] = found]
              /\ Step(p, [Idle EXCEPT !.pc = "check", !.key = Key(k), !.target = found],
                      pending)
  BY DEF Request
<1> DEFINE found == request_target(t, wraps)
           next == [Idle EXCEPT !.pc = "check", !.key = Key(k), !.target = found]
<1>1. parser[p] = Idle /\ CipTypeOK
  BY DEF Request, CipInv
<1>2. Unseen \notin Targets /\ NoTarget \notin Targets
  BY CipAssumption
<1>3. CASE found = NoTarget
  <2>1. outstanding' = [outstanding EXCEPT ![p][k] = Unseen] /\ UNCHANGED <<pending, parser>>
    BY <1>3
  <2>2. outstanding' = [q \in Parsers |-> [l \in Reads[q] |-> outstanding'[q][l]]]
    BY <1>1, <2>1 DEF CipTypeOK
  <2>3. \A q \in Parsers : \A l \in Reads[q] :
          outstanding'[q][l] \in Targets => outstanding'[q][l] = outstanding[q][l]
    BY <1>1, <1>2, <2>1 DEF CipTypeOK
  <2> QED
    BY <2>1, <2>2, <2>3, NothingAsked
<1>4. CASE found # NoTarget
  <2>1. outstanding' = [outstanding EXCEPT ![p][k] = found] /\ Step(p, next, pending)
    BY <1>4
  <2>2. found \in Targets
    BY <1>4 DEF request_target
  <2> HIDE DEF found
  <2>3. next = [Idle EXCEPT !.pc = "check", !.key = Key(k), !.target = found]
    OBVIOUS
  <2>4. next \in ParserStates(p) /\ next.pc = "check" /\ next.key = Key(k)
        /\ next.target = found /\ Found(next, pending)
    <3>1. Idle \in [pc : PcValues, key : Keys, target : Targets \cup {NoTarget},
                    size : Nat, victim : Keys, alone : BOOLEAN]
      BY DEF Idle, PcValues, Keys
    <3>2. Key(k) \in KeysOf(p) /\ Key(k) \in Keys
      BY DEF KeysOf, Keys
    <3> QED
      BY <2>2, <3>1, <3>2 DEF ParserStates, Found, PcValues
  <2> HIDE DEF next
  <2>5. pending \in Seq(Entries) /\ OneEntry(pending) /\ Len(pending) \in Nat /\ Old(pending)
    BY LenProperties DEF CipInv, CipTypeOK, Old
  <2>6. Len(pending) + Cardinality(NewStoring(p, next))
          <= PendingMax + Cardinality(Parsers) - 1
    BY <2>4, <2>5, RoomStays
  <2>7. outstanding' = [q \in Parsers |-> [l \in Reads[q] |-> outstanding'[q][l]]]
    BY <1>1, <2>1 DEF CipTypeOK
  <2>8. CipTypeOK' /\ OneEntry(pending)' /\ RoomForStoring' /\ AloneMeansUnchanged'
    BY <2>1, <2>4, <2>5, <2>6, <2>7, StepKeeps
  <2>9. ASSUME NEW q \in Parsers, q # p PROVE RemembersAll(q)'
    <3>1. outstanding'[q] = outstanding[q]
      BY <1>1, <2>1, <2>9 DEF CipTypeOK
    <3> QED
      BY <2>1, <2>9, <3>1, OthersRemember
  <2>10. RemembersAll(p)'
    <3> SUFFICES ASSUME NEW l \in Reads[p], outstanding'[p][l] \in Targets, Exclusive(p, l)
                 PROVE  Remembered(p, l)'
      BY DEF RemembersAll, Exclusive
    <3>1. CASE l = k
      <4>1. outstanding'[p][l] = found /\ parser'[p] = next
        BY <1>1, <2>1, <3>1 DEF CipTypeOK, Step
      <4> QED
        BY <2>4, <3>1, <4>1 DEF Remembered
    <3>2. CASE l # k
      <4>1. outstanding'[p][l] = outstanding[p][l]
        BY <1>1, <2>1, <3>2 DEF CipTypeOK
      <4>2. next.key # Key(l)
        BY <2>4, <3>2, KeyTells
      <4>3. parser[p].pc = "idle"
        BY <1>1 DEF Idle
      <4> QED
        BY <2>1, <2>5, <4>1, <4>2, <4>3, SameRemembered
    <3> QED
      BY <3>1, <3>2
  <2> QED
    BY <2>8, <2>9, <2>10 DEF CipInv
<1> QED
  BY <1>3, <1>4

(* A step of p with the request it has, on a table of entries that were    *)
(* there: the test of the size and the three operations of the eviction.   *)
LEMMA EvictionStep ==
  ASSUME CipInv, NEW p \in Parsers, NEW next, NEW table, Step(p, next, table),
         UNCHANGED outstanding, parser[p].pc # "idle",
         next \in ParserStates(p), next.pc # "idle",
         next.key = parser[p].key, next.target = parser[p].target,
         table \in Seq(Entries), OneEntry(table), Old(table),
         Len(table) + Cardinality(NewStoring(p, next))
           <= PendingMax + Cardinality(Parsers) - 1,
         Found(next, table)
  PROVE  CipInv'
<1>1. outstanding' = [q \in Parsers |-> [l \in Reads[q] |-> outstanding'[q][l]]]
  BY DEF CipInv, CipTypeOK
<1>2. CipTypeOK' /\ OneEntry(pending)' /\ RoomForStoring' /\ AloneMeansUnchanged'
  BY <1>1, StepKeeps
<1>3. ASSUME NEW q \in Parsers, q # p PROVE RemembersAll(q)'
  BY <1>3, OthersRemember DEF Old
<1>4. RemembersAll(p)'
  <2> SUFFICES ASSUME NEW k \in Reads[p], outstanding'[p][k] \in Targets, Exclusive(p, k)
               PROVE  Remembered(p, k)'
    BY DEF RemembersAll, Exclusive
  <2> QED
    BY SameRemembered
<1> QED
  BY <1>2, <1>3, <1>4 DEF CipInv

LEMMA CheckStep ==
  ASSUME CipInv, NEW p \in Parsers, Check(p)
  PROVE  CipInv'
<1> DEFINE next == [parser[p] EXCEPT !.pc = IF Full THEN "iter" ELSE "store"]
<1>1. parser[p] \in ParserStates(p) /\ parser[p].pc = "check" /\ Step(p, next, pending)
      /\ UNCHANGED outstanding
  BY DEF Check, CipInv, CipTypeOK
<1>2. pending \in Seq(Entries) /\ OneEntry(pending) /\ Old(pending) /\ Len(pending) \in Nat
  BY LenProperties DEF CipInv, CipTypeOK, Old
<1>3. /\ next \in ParserStates(p) /\ next.pc = (IF Full THEN "iter" ELSE "store")
      /\ next.key = parser[p].key /\ next.target = parser[p].target
  BY <1>1 DEF ParserStates, PcValues
<1> HIDE DEF next
<1>4. Found(next, pending)
  BY <1>3 DEF Found, Full
<1>5. Len(pending) + Cardinality(NewStoring(p, next)) <= PendingMax + Cardinality(Parsers) - 1
  <2>1. CASE Full
    BY <1>2, <1>3, <2>1, RoomStays
  <2>2. CASE ~Full
    <3>1. Len(pending) <= PendingMax - 1 /\ PendingMax \in Nat
      BY <1>2, <2>2, CipAssumption DEF Full
    <3>2. /\ Cardinality(Parsers) \in Nat /\ Cardinality(NewStoring(p, next)) \in Nat
          /\ Cardinality(NewStoring(p, next)) <= Cardinality(Parsers)
      BY StoringCount
    <3> QED
      BY <1>2, <3>1, <3>2
  <2> QED
    BY <2>1, <2>2
<1> QED
  BY <1>1, <1>2, <1>3, <1>4, <1>5, EvictionStep

LEMMA IterateStep ==
  ASSUME CipInv, NEW p \in Parsers, Iterate(p)
  PROVE  CipInv'
<1> DEFINE next == [parser[p] EXCEPT !.pc = "next", !.size = Len(pending)]
<1>1. parser[p] \in ParserStates(p) /\ parser[p].pc = "iter" /\ Step(p, next, pending)
      /\ UNCHANGED outstanding /\ Found(parser[p], pending)
  BY DEF Iterate, CipInv, CipTypeOK, AloneMeansUnchanged
<1>2. pending \in Seq(Entries) /\ OneEntry(pending) /\ Old(pending) /\ Len(pending) \in Nat
  BY LenProperties DEF CipInv, CipTypeOK, Old
<1>3. /\ next \in ParserStates(p) /\ next.pc = "next" /\ next.size = Len(pending)
      /\ next.key = parser[p].key /\ next.target = parser[p].target
      /\ next.alone = parser[p].alone
  BY <1>1, <1>2 DEF ParserStates, PcValues
<1> HIDE DEF next
<1>4. Found(next, pending)
  BY <1>1, <1>3 DEF Found
<1>5. Len(pending) + Cardinality(NewStoring(p, next)) <= PendingMax + Cardinality(Parsers) - 1
  BY <1>2, <1>3, RoomStays
<1> QED
  BY <1>1, <1>2, <1>3, <1>4, <1>5, EvictionStep

LEMMA NextKeyStep ==
  ASSUME CipInv, NEW p \in Parsers, NextKey(p)
  PROVE  CipInv'
<1> DEFINE raises == Len(pending) # parser[p].size \/ pending = <<>>
           next == IF raises THEN [parser[p] EXCEPT !.pc = "raised", !.size = 0]
                   ELSE [parser[p] EXCEPT !.pc = "del", !.size = 0, !.victim = Victim(p)]
<1>1. parser[p] \in ParserStates(p) /\ parser[p].pc = "next" /\ Step(p, next, pending)
      /\ UNCHANGED outstanding /\ Found(parser[p], pending)
  BY DEF NextKey, CipInv, CipTypeOK, AloneMeansUnchanged
<1>2. pending \in Seq(Entries) /\ OneEntry(pending) /\ Old(pending) /\ Len(pending) \in Nat
      /\ DOMAIN pending = 1..Len(pending)
  BY LenProperties DEF CipInv, CipTypeOK, Old
<1>3. parser[p].alone => ~raises
  <2>1. parser[p].alone => Len(pending) >= PendingMax /\ parser[p].size = Len(pending)
    BY <1>1 DEF Found
  <2>2. parser[p].alone => Len(pending) # 0
    BY <1>2, <2>1, CipAssumption
  <2>3. Len(pending) # 0 => pending # <<>>
    BY EmptySeq
  <2> QED
    BY <2>1, <2>2, <2>3
<1>4. ~raises => /\ 1 \in DOMAIN pending /\ pending[1].key = Victim(p)
                 /\ Victim(p) \in Keys
  <2> SUFFICES ASSUME ~raises PROVE /\ 1 \in DOMAIN pending /\ pending[1].key = Victim(p)
                                    /\ Victim(p) \in Keys
    OBVIOUS
  <2>1. Len(pending) # 0
    BY <1>2, EmptySeq
  <2>2. 1 \in DOMAIN pending /\ Head(pending) = pending[1] /\ pending[1] \in Entries
    BY <1>2, <2>1, ElementOfSeq
  <2> QED
    BY <2>2 DEF Victim, Entries
<1>5. /\ next \in ParserStates(p) /\ next.pc = (IF raises THEN "raised" ELSE "del")
      /\ next.key = parser[p].key /\ next.target = parser[p].target
      /\ next.alone = parser[p].alone
      /\ ~raises => next.victim = Victim(p)
  BY <1>1, <1>4 DEF ParserStates, PcValues
<1> HIDE DEF next, raises
<1>6. Found(next, pending)
  <2>1. CASE raises
    BY <1>3, <1>5, <2>1 DEF Found
  <2>2. CASE ~raises
    <3>1. next.pc = "del" /\ \E i \in DOMAIN pending : pending[i].key = next.victim
      BY <1>4, <1>5, <2>2
    <3> QED
      BY <3>1 DEF Found
  <2> QED
    BY <2>1, <2>2
<1>7. Len(pending) + Cardinality(NewStoring(p, next)) <= PendingMax + Cardinality(Parsers) - 1
  BY <1>2, <1>5, RoomStays
<1> QED
  BY <1>1, <1>2, <1>5, <1>6, <1>7, EvictionStep

LEMMA DeleteStep ==
  ASSUME CipInv, NEW p \in Parsers, Delete(p)
  PROVE  CipInv'
<1> DEFINE raised == [parser[p] EXCEPT !.pc = "raised", !.victim = <<>>]
           next == [parser[p] EXCEPT !.pc = "store", !.victim = <<>>, !.alone = TRUE]
<1>1. parser[p] \in ParserStates(p) /\ parser[p].pc = "del"
      /\ UNCHANGED outstanding /\ Found(parser[p], pending)
  BY DEF Delete, CipInv, CipTypeOK, AloneMeansUnchanged
<1>2. pending \in Seq(Entries) /\ OneEntry(pending) /\ Old(pending) /\ Len(pending) \in Nat
  BY LenProperties DEF CipInv, CipTypeOK, Old
<1>3. /\ raised \in ParserStates(p) /\ raised.pc = "raised" /\ raised.alone = parser[p].alone
      /\ raised.key = parser[p].key /\ raised.target = parser[p].target
      /\ next \in ParserStates(p) /\ next.pc = "store"
      /\ next.key = parser[p].key /\ next.target = parser[p].target
  BY <1>1 DEF ParserStates, PcValues, Keys
<1>4. CASE At(parser[p].victim) = {} /\ Step(p, raised, pending)
  <2> HIDE DEF raised
  <2>1. Found(raised, pending)
    BY <1>1, <1>3, <1>4 DEF Found, At
  <2>2. Len(pending) + Cardinality(NewStoring(p, raised))
          <= PendingMax + Cardinality(Parsers) - 1
    BY <1>2, <1>3, RoomStays
  <2> QED
    BY <1>1, <1>2, <1>3, <1>4, <2>1, <2>2, EvictionStep
<1>5. ASSUME NEW i \in At(parser[p].victim), Step(p, next, Without(i)) PROVE CipInv'
  <2> HIDE DEF next
  <2>1. /\ Without(i) \in Seq(Entries) /\ Len(Without(i)) = Len(pending) - 1
        /\ OneEntry(Without(i)) /\ Old(Without(i)) /\ Len(Without(i)) \in Nat
    BY <1>2, WithoutIsTable, LenProperties DEF At
  <2>2. Found(next, Without(i))
    BY <1>3 DEF Found
  <2>3. Len(Without(i)) + Cardinality(NewStoring(p, next))
          <= PendingMax + Cardinality(Parsers) - 1
    <3>1. /\ Cardinality(Parsers) \in Nat /\ Cardinality(Storing) \in Nat
          /\ Cardinality(NewStoring(p, next)) \in Nat
          /\ Cardinality(NewStoring(p, next)) <= Cardinality(Storing) + 1
      BY StoringCount
    <3>2. Len(pending) + Cardinality(Storing) <= PendingMax + Cardinality(Parsers) - 1
          /\ PendingMax \in Nat
      BY CipAssumption DEF CipInv, RoomForStoring
    <3> QED
      BY <1>2, <2>1, <3>1, <3>2
  <2> QED
    BY <1>1, <1>3, <1>5, <2>1, <2>2, <2>3, EvictionStep
<1> QED
  BY <1>4, <1>5 DEF Delete

LEMMA StoreStep ==
  ASSUME CipInv, NEW p \in Parsers, Store(p)
  PROVE  CipInv'
<1>1. parser[p] \in ParserStates(p) /\ parser[p].pc = "store"
      /\ UNCHANGED outstanding /\ Step(p, Idle, Stored(p))
  BY DEF Store, Stored, EntryOf, CipInv, CipTypeOK
<1>2. pending \in Seq(Entries) /\ OneEntry(pending) /\ Len(pending) \in Nat
  BY LenProperties DEF CipInv, CipTypeOK
<1>3. EntryOf(p) \in Entries /\ parser[p].key \in KeysOf(p)
      /\ EntryOf(p).target = parser[p].target
  BY <1>1 DEF EntryOf, Entries, ParserStates
<1> DEFINE table == Stored(p)
<1>4. /\ table \in Seq(Entries) /\ Len(table) <= Len(pending) + 1
      /\ Len(table) \in Nat /\ OneEntry(table)
      /\ \A i \in DOMAIN table :
           IF table[i].key = parser[p].key THEN table[i] = EntryOf(p)
           ELSE \E j \in DOMAIN pending : table[i] = pending[j]
  BY <1>2, <1>3, StoredIsTable
<1> HIDE DEF table
<1>5. Idle.pc = "idle" /\ Idle \in ParserStates(p) /\ Found(Idle, table)
  BY DEF Idle, PcValues, Keys, ParserStates, Found
<1>6. Len(table) + Cardinality(NewStoring(p, Idle)) <= PendingMax + Cardinality(Parsers) - 1
  <2>1. /\ Cardinality(Parsers) \in Nat /\ Cardinality(Storing) \in Nat
        /\ Cardinality(NewStoring(p, Idle)) = Cardinality(Storing) - 1
    BY <1>1, <1>5, StoringCount
  <2>2. Len(pending) + Cardinality(Storing) <= PendingMax + Cardinality(Parsers) - 1
        /\ PendingMax \in Nat
    BY CipAssumption DEF CipInv, RoomForStoring
  <2> QED
    BY <1>2, <1>4, <2>1, <2>2
<1>7. outstanding' = [q \in Parsers |-> [l \in Reads[q] |-> outstanding'[q][l]]]
  BY <1>1 DEF CipInv, CipTypeOK
<1>8. Step(p, Idle, table) /\ parser'[p] = Idle /\ pending' = table
  BY <1>1 DEF Step, table
<1>9. CipTypeOK' /\ OneEntry(pending)' /\ RoomForStoring' /\ AloneMeansUnchanged'
  BY <1>4, <1>5, <1>6, <1>7, <1>8, StepKeeps
<1>10. ASSUME NEW q \in Parsers, q # p PROVE RemembersAll(q)'
  BY <1>1, <1>3, <1>4, <1>8, <1>10, OthersRemember
<1>11. RemembersAll(p)'
  <2> SUFFICES ASSUME NEW k \in Reads[p], outstanding[p][k] \in Targets, Exclusive(p, k)
               PROVE  Remembered(p, k)'
    BY <1>1 DEF RemembersAll, Exclusive
  <2>1. Remembered(p, k)
    BY DEF CipInv, RemembersAll
  <2>2. CASE parser[p].key = Key(k)
    <3>1. parser[p].target = outstanding[p][k]
      BY <1>1, <2>1, <2>2 DEF Remembered
    <3>2. \A i \in DOMAIN table : table[i].key = Key(k) => table[i].target = outstanding[p][k]
      BY <1>3, <1>4, <2>2, <3>1
    <3> QED
      BY <1>1, <1>5, <1>8, <3>2 DEF Remembered
  <2>3. CASE parser[p].key # Key(k)
    <3>1. \A i \in DOMAIN pending : pending[i].key = Key(k)
                                    => pending[i].target = outstanding[p][k]
      BY <2>1, <2>3 DEF Remembered
    <3>2. \A i \in DOMAIN table : table[i].key = Key(k) => table[i].target = outstanding[p][k]
      BY <1>4, <2>3, <3>1
    <3> QED
      BY <1>1, <1>5, <1>8, <3>2 DEF Remembered
  <2> QED
    BY <2>2, <2>3
<1> QED
  BY <1>9, <1>10, <1>11 DEF CipInv

(* Parser p becomes idle, and forgets or answers one conversation of its   *)
(* own; the table has only entries that were there.                        *)
LEMMA IdleStep ==
  ASSUME CipInv, NEW p \in Parsers, NEW table, Step(p, Idle, table),
         table \in Seq(Entries), OneEntry(table), Old(table),
         Len(table) <= Len(pending),
         outstanding' = [q \in Parsers |-> [l \in Reads[q] |-> outstanding'[q][l]]],
         \A q \in Parsers \ {p} : outstanding'[q] = outstanding[q],
         \A k \in Reads[p] : outstanding'[p][k] \in Targets =>
           /\ outstanding'[p][k] = outstanding[p][k]
           /\ ~(parser[p].pc # "idle" /\ parser[p].key = Key(k))
  PROVE  CipInv'
<1>1. Idle.pc = "idle" /\ Idle \in ParserStates(p) /\ Found(Idle, table)
  BY DEF Idle, PcValues, Keys, ParserStates, Found
<1>2. Len(table) \in Nat
  BY LenProperties
<1>3. Len(table) + Cardinality(NewStoring(p, Idle)) <= PendingMax + Cardinality(Parsers) - 1
  BY <1>1, <1>2, RoomStays
<1>4. CipTypeOK' /\ OneEntry(pending)' /\ RoomForStoring' /\ AloneMeansUnchanged'
  BY <1>1, <1>3, StepKeeps
<1>5. ASSUME NEW q \in Parsers, q # p PROVE RemembersAll(q)'
  BY <1>5, OthersRemember DEF Old
<1>6. RemembersAll(p)'
  <2> SUFFICES ASSUME NEW k \in Reads[p], outstanding'[p][k] \in Targets, Exclusive(p, k)
               PROVE  Remembered(p, k)'
    BY DEF RemembersAll, Exclusive
  <2> QED
    BY <1>1, SameRemembered
<1> QED
  BY <1>4, <1>5, <1>6 DEF CipInv

LEMMA RaisedStep ==
  ASSUME CipInv, NEW p \in Parsers, Raised(p)
  PROVE  CipInv'
<1>1. CipTypeOK /\ Step(p, Idle, pending)
  BY DEF Raised, CipInv
<1>2. pending \in Seq(Entries) /\ OneEntry(pending) /\ Old(pending) /\ Len(pending) \in Nat
  BY LenProperties DEF CipInv, CipTypeOK, Old
<1>3. outstanding' = [outstanding EXCEPT ![p] =
        [k \in Reads[p] |-> IF Key(k) = parser[p].key /\ outstanding[p][k] # NoRequest
                            THEN Unseen ELSE outstanding[p][k]]]
  BY DEF Raised
<1>4. /\ outstanding' = [q \in Parsers |-> [l \in Reads[q] |-> outstanding'[q][l]]]
      /\ \A q \in Parsers \ {p} : outstanding'[q] = outstanding[q]
  BY <1>1, <1>3 DEF CipTypeOK
<1>5. \A k \in Reads[p] :
        outstanding'[p][k] = IF Key(k) = parser[p].key /\ outstanding[p][k] # NoRequest
                             THEN Unseen ELSE outstanding[p][k]
  BY <1>1, <1>3 DEF CipTypeOK
<1>6. Unseen \notin Targets /\ NoRequest \notin Targets
  BY CipAssumption
<1>7. \A k \in Reads[p] : outstanding'[p][k] \in Targets =>
        /\ outstanding'[p][k] = outstanding[p][k]
        /\ ~(parser[p].pc # "idle" /\ parser[p].key = Key(k))
  BY <1>5, <1>6
<1> QED
  BY <1>1, <1>2, <1>4, <1>7, IdleStep

LEMMA ReplyStep ==
  ASSUME CipInv, NEW p \in Parsers, NEW k \in Reads[p], Reply(p, k)
  PROVE  CipInv'
<1>1. parser[p].pc = "idle" /\ CipTypeOK
  BY DEF Reply, CipInv, Idle
<1>2. pending \in Seq(Entries) /\ OneEntry(pending) /\ Old(pending) /\ Len(pending) \in Nat
  BY LenProperties DEF CipInv, CipTypeOK, Old
<1>3. outstanding' = [outstanding EXCEPT ![p][k] = NoRequest] /\ NoRequest \notin Targets
  BY CipAssumption DEF Reply
<1>4. /\ outstanding' = [q \in Parsers |-> [l \in Reads[q] |-> outstanding'[q][l]]]
      /\ \A q \in Parsers \ {p} : outstanding'[q] = outstanding[q]
      /\ \A l \in Reads[p] : outstanding'[p][l] \in Targets =>
           /\ outstanding'[p][l] = outstanding[p][l]
           /\ ~(parser[p].pc # "idle" /\ parser[p].key = Key(l))
  BY <1>1, <1>3 DEF CipTypeOK
<1>5. CASE Step(p, Idle, pending)
  BY <1>2, <1>4, <1>5, IdleStep
<1>6. ASSUME NEW i \in At(Key(k)), Step(p, Idle, Without(i)) PROVE CipInv'
  <2>1. /\ Without(i) \in Seq(Entries) /\ Len(Without(i)) <= Len(pending)
        /\ OneEntry(Without(i)) /\ Old(Without(i))
    BY <1>2, WithoutIsTable DEF At
  <2> QED
    BY <1>4, <1>6, <2>1, IdleStep
<1> QED
  BY <1>5, <1>6 DEF Reply

LEMMA UnseenSteps ==
  ASSUME CipInv, NEW p \in Parsers,
         \/ NextSession(p)
         \/ \E k \in Reads[p] : RequestMissed(p, k) \/ ReplyMissed(p, k)
  PROVE  CipInv'
<1>1. CipTypeOK /\ Unseen \notin Targets /\ NoRequest \notin Targets
  BY CipAssumption DEF CipInv
<1>2. CASE NextSession(p)
  <2>1. /\ UNCHANGED <<pending, parser>>
        /\ outstanding' = [q \in Parsers |-> [l \in Reads[q] |-> outstanding'[q][l]]]
        /\ \A q \in Parsers : \A l \in Reads[q] :
             outstanding'[q][l] \in Targets => outstanding'[q][l] = outstanding[q][l]
    BY <1>1, <1>2 DEF NextSession, CipTypeOK
  <2> QED
    BY <2>1, NothingAsked
<1>3. ASSUME NEW k \in Reads[p], RequestMissed(p, k) \/ ReplyMissed(p, k) PROVE CipInv'
  <2>1. /\ UNCHANGED <<pending, parser>>
        /\ outstanding' = [q \in Parsers |-> [l \in Reads[q] |-> outstanding'[q][l]]]
        /\ \A q \in Parsers : \A l \in Reads[q] :
             outstanding'[q][l] \in Targets => outstanding'[q][l] = outstanding[q][l]
    BY SMTT(40), <1>1, <1>3 DEF RequestMissed, ReplyMissed, CipTypeOK
  <2> QED
    BY <2>1, NothingAsked
<1> QED
  BY <1>2, <1>3

LEMMA CipStep == CipInv /\ [Next]_vars => CipInv'
<1> SUFFICES ASSUME CipInv, [Next]_vars PROVE CipInv'
  OBVIOUS
<1>1. CASE UNCHANGED cipVars
  <2>1. UNCHANGED <<pending, parser, outstanding>>
    BY <1>1 DEF cipVars
  <2>2. outstanding' = [q \in Parsers |-> [l \in Reads[q] |-> outstanding'[q][l]]]
    BY <2>1 DEF CipInv, CipTypeOK
  <2>3. \A q \in Parsers : \A k \in Reads[q] : outstanding'[q][k] = outstanding[q][k]
    BY <2>1
  <2> QED
    BY <2>1, <2>2, <2>3, NothingAsked
<1>2. ASSUME NEW p \in Parsers,
             \/ Check(p) \/ Iterate(p) \/ NextKey(p) \/ Delete(p) \/ Store(p) \/ Raised(p)
             \/ NextSession(p)
             \/ \E k \in Reads[p] : \/ Request(p, k) \/ Reply(p, k)
                                    \/ RequestMissed(p, k) \/ ReplyMissed(p, k)
      PROVE  CipInv'
  <2>1. CASE Check(p) \/ Iterate(p) \/ NextKey(p) \/ Delete(p) \/ Store(p) \/ Raised(p)
    BY <2>1, CheckStep, IterateStep, NextKeyStep, DeleteStep, StoreStep, RaisedStep
  <2>2. ASSUME NEW k \in Reads[p], Request(p, k) \/ Reply(p, k) PROVE CipInv'
    BY <2>2, RequestStep, ReplyStep
  <2>3. CASE \/ NextSession(p)
             \/ \E k \in Reads[p] : RequestMissed(p, k) \/ ReplyMissed(p, k)
    BY <2>3, UnseenSteps
  <2> QED
    BY <1>2, <2>1, <2>2, <2>3
<1>3. CASE CipNext
  BY <1>2, <1>3 DEF CipNext
<1> QED
  BY <1>1, <1>3 DEF Next, Decode, Recorded, vars, cipVars

THEOREM CipInvariance == Spec => []CipInv
<1>1. Init => CipInv
  BY CipStart DEF Init
<1> QED
  BY <1>1, CipStep, PTL DEF Spec

(***************************************************************************)
(* The properties.                                                         *)
(***************************************************************************)

(* However many parsers run into each other, the table has one entry for a *)
(* key and at most one per further parser over its limit: between the test *)
(* of the size and the store of cip.py _remember there is no lock.         *)
THEOREM TableIsBounded == Spec => []PendingBounded
<1>1. CipInv => PendingBounded
  <2> SUFFICES ASSUME CipInv PROVE PendingBounded
    OBVIOUS
  <2>1. Cardinality(Parsers) \in Nat /\ Cardinality(Storing) \in Nat
    <3>1. PICK p : p \in Parsers
      BY CipAssumption
    <3> QED
      BY <3>1, StoringCount
  <2>2. Len(pending) \in Nat /\ PendingMax \in Nat
    BY CipAssumption, LenProperties DEF CipInv, CipTypeOK
  <2> QED
    BY <2>1, <2>2 DEF CipInv, OneEntry, RoomForStoring, PendingBounded
<1> QED
  BY <1>1, CipInvariance, PTL

(* _remember raises only where another parser has changed the table since  *)
(* this one looked at its size.                                            *)
THEOREM RaisesAreShared == Spec => []RaisesOnlyWhenShared
<1>1. CipInv => RaisesOnlyWhenShared
  BY DEF CipInv, AloneMeansUnchanged, Found, RaisesOnlyWhenShared
<1> QED
  BY <1>1, CipInvariance, PTL

(* A reply is decoded as the answer to its own request or not at all, where *)
(* the request was remembered and nobody else reads the conversation.      *)
THEOREM RepliesArePaired == Spec => PairedWithItsRequest
<1>1. CipInv => \A p \in Parsers : \A k \in Reads[p] :
        /\ Reply(p, k) /\ outstanding[p][k] \in Targets
        /\ \A q \in Parsers \ {p} : k \notin Reads[q]
        => PairedWith(k) \subseteq {outstanding[p][k]}
  <2> SUFFICES ASSUME CipInv, NEW p \in Parsers, NEW k \in Reads[p],
                      Reply(p, k), outstanding[p][k] \in Targets, Exclusive(p, k)
               PROVE  PairedWith(k) \subseteq {outstanding[p][k]}
    BY DEF Exclusive
  <2>1. Remembered(p, k) /\ parser[p].pc = "idle"
    BY DEF CipInv, RemembersAll, Reply, Idle
  <2> QED
    BY <2>1 DEF Remembered, PairedWith, At
<1> QED
  BY <1>1, CipInvariance, PTL DEF PairedWithItsRequest
=============================================================================
