------------------------ MODULE CaptureControlProofs ------------------------
(***************************************************************************)
(* What the requests of the page may rely on, for any number of request    *)
(* threads, captures, sessions, files and launches: captures apart, a stop *)
(* that is not forgotten, current vendors, imports that are their own file,*)
(* and requests of this launch's own page only.                            *)
(***************************************************************************)
EXTENDS CaptureControl, FiniteSetTheorems, TLAPS

-----------------------------------------------------------------------------
Kinds == {"none", "start", "import", "update"}
Places == {"idle", "checked", "reset", "begun", "importing",
           "downloading", "loading", "loaded"}
FilesOrNone == Files \cup {<<>>}
Requests == [pc : Places, kind : Kinds, session : Nat, file : FilesOrNone, pos : Nat]

Starting(t) == req[t].pc \in {"checked", "reset", "begun"}
Importing(t) == req[t].pc = "importing"
Updating(t) == req[t].pc \in {"downloading", "loading", "loaded"}

(* A request is of the kind that its place belongs to, and only an import  *)
(* has a session of its own.                                               *)
Consistent(r) ==
  /\ r.kind = "none" <=> r.pc = "idle"
  /\ r.kind = "start" <=> r.pc \in {"checked", "reset", "begun"}
  /\ r.kind = "import" <=> r.pc = "importing"
  /\ r.kind = "update" <=> r.pc \in {"downloading", "loading", "loaded"}
  /\ r.kind # "import" => r.session = 0

RequestsOK ==
  /\ req \in [Threads -> Requests]
  /\ \A t \in Threads : Consistent(req[t])

Tables == {"first", "empty", "second"}

Sessions == [kind : {"live", "pcap"}, open : BOOLEAN, by : SUBSET Recorders,
             file : FilesOrNone, frames : Seq(Nat)]

Types ==
  /\ reader \in [1..MaxReaders -> {"none", "reading", "draining", "gone"}]
  /\ thread \in 0..MaxReaders /\ (thread # 0 => reader[thread] # "none")
  /\ stop_event \in BOOLEAN
  /\ sessions \in Seq(Sessions)
  /\ session_id \in 0..Len(sessions)
  /\ prefixes \in Tables
  /\ vendor \in [Macs -> Tables \cup {"absent"}]
  /\ held \in [Recorders -> [mac : Macs, found : Tables] \cup {NotHeld}]
  /\ refreshed \in BOOLEAN
  /\ overlapped \subseteq {"start", "update"}

(* session_id is a live session while a capture needs it.                  *)
LiveOK ==
  /\ session_id # 0 => sessions[session_id].kind = "live"
  /\ Live # {} => session_id # 0
  /\ \A t \in Threads : req[t].pc = "begun" => session_id # 0

(* An import has an open session to itself.                                *)
ImportsOK ==
  \A t \in Threads : Importing(t) =>
    /\ req[t].session \in 1..Len(sessions)
    /\ sessions[req[t].session].kind = "pcap"
    /\ sessions[req[t].session].open
    /\ \A u \in Threads \ {t} : req[u].session # req[t].session

(* Without overlapping starts, a thread past its test of running is the    *)
(* only one, and every reader is gone; the last reader is the only one     *)
(* whose frames the newest live session has, and that has none before it.  *)
StartsApart ==
  "start" \notin overlapped =>
    /\ \A t, u \in Threads : Starting(t) /\ Starting(u) => t = u
    /\ \A t \in Threads : Starting(t) => Live = {}
    /\ Live \subseteq {thread}
    /\ session_id # 0 => sessions[session_id].by \subseteq {thread}
    /\ \A t \in Threads : req[t].pc = "begun" => sessions[session_id].by = {}
    /\ \A n \in 1..Len(sessions) : sessions[n].kind = "live" =>
         \A a, b \in sessions[n].by : a = b

(* Only what records holds a vendor that it looked up.                     *)
HoldersRecord ==
  \A w \in Recorders : held[w] # NotHeld =>
    w \in Live \/ (w \in Threads /\ Importing(w))

(* Without overlapping requests nothing records while the table is         *)
(* updated, so what was looked up is what the table says.                  *)
UpdatesApart ==
  overlapped = {} =>
    /\ \A t \in Threads : Updating(t) =>
         Live = {} /\ \A u \in Threads \ {t} : ~Busy(u)
    /\ \A t \in Threads : req[t].pc = "loading" => ~refreshed
    /\ \A w \in Recorders : held[w] # NotHeld => held[w].found = prefixes
    /\ VendorsCurrent

ControlInv == /\ RequestsOK /\ Types /\ LiveOK /\ ImportsOK
              /\ StartsApart /\ HoldersRecord /\ UpdatesApart

-----------------------------------------------------------------------------
(* The ascending list of a set of numbers: there is one, and only one.     *)

LEMMA LeastNumber ==
  ASSUME NEW S \in SUBSET Nat, S # {}
  PROVE  \E m \in S : \A n \in S : m <= n
<1>1. PICK m \in S : \A n \in S : ~(<<n, m>> \in OpToRel(<, Nat))
  BY NatLessThanWellFounded, WFMin, Zenon
<1>2. \A n \in S : ~(n < m)
  BY <1>1, Zenon DEF OpToRel
<1> QED
  BY <1>2

LEMMA LargestNumber ==
  ASSUME NEW S \in SUBSET Nat, S # {}, NEW b \in Nat, \A n \in S : n <= b
  PROVE  \E m \in S : \A n \in S : n <= m
<1> DEFINE D == {d \in Nat : b - d \in S}
<1>1. PICK x \in S : TRUE
  OBVIOUS
<1>2. x \in Nat /\ x <= b
  OBVIOUS
<1>3. b - x \in Nat /\ b - (b - x) = x
  BY <1>2
<1>4. D \in SUBSET Nat /\ D # {}
  BY <1>1, <1>3
<1>5. PICK d \in D : \A e \in D : d <= e
  <2> HIDE DEF D
  <2> QED
    BY <1>4, LeastNumber
<1>6. ASSUME NEW n \in S PROVE n <= b - d
  <2>1. n \in Nat /\ n <= b
    OBVIOUS
  <2>2. b - n \in Nat /\ b - (b - n) = n
    BY <2>1
  <2>3. d <= b - n
    BY <1>5, <2>2
  <2> QED
    BY <2>1, <2>3
<1> QED
  BY <1>5, <1>6

LEMMA AscendingIsOnto ==
  ASSUME NEW S \in SUBSET Nat, IsFiniteSet(S),
         NEW s \in [1..Cardinality(S) -> S], Ascending(s)
  PROVE  \A x \in S : \E i \in 1..Cardinality(S) : s[i] = x
<1>1. Cardinality(S) \in Nat
  BY FS_CardinalityType
<1>2. \A i, j \in 1..Cardinality(S) : s[i] = s[j] => i = j
  <2> SUFFICES ASSUME NEW i \in 1..Cardinality(S), NEW j \in 1..Cardinality(S), i # j
               PROVE  s[i] # s[j]
    OBVIOUS
  <2>1. i < j \/ j < i
    BY <1>1
  <2>2. s[i] < s[j] \/ s[j] < s[i]
    BY <2>1 DEF Ascending
  <2>3. s[i] \in Nat /\ s[j] \in Nat
    OBVIOUS
  <2> QED
    BY <2>2, <2>3
<1>3. s \in Injection(1..Cardinality(S), S)
  BY <1>2 DEF Injection, IsInjective
<1>4. Cardinality(1..Cardinality(S)) = Cardinality(S)
  BY <1>1, FS_Interval
<1>5. s \in Surjection(1..Cardinality(S), S)
  BY <1>3, <1>4, FS_Injection
<1> QED
  BY <1>5 DEF Surjection

LEMMA AscendingIsOne ==
  ASSUME NEW S \in SUBSET Nat, IsFiniteSet(S),
         NEW s \in [1..Cardinality(S) -> S], Ascending(s),
         NEW t \in [1..Cardinality(S) -> S], Ascending(t)
  PROVE  s = t
<1> DEFINE D == {i \in 1..Cardinality(S) : s[i] # t[i]}
<1>1. Cardinality(S) \in Nat
  BY FS_CardinalityType
<1> SUFFICES ASSUME D # {} PROVE FALSE
  <2> SUFFICES ASSUME D = {} PROVE s = t
    OBVIOUS
  <2>1. \A i \in 1..Cardinality(S) : s[i] = t[i]
    OBVIOUS
  <2>2. s = [i \in 1..Cardinality(S) |-> s[i]] /\ t = [i \in 1..Cardinality(S) |-> t[i]]
    OBVIOUS
  <2> HIDE DEF D
  <2> QED
    BY <2>1, <2>2, Zenon
<1>2. PICK i \in D : \A j \in D : i <= j
  <2>1. D \in SUBSET Nat
    BY <1>1
  <2> HIDE DEF D
  <2> QED
    BY <2>1, LeastNumber
<1>3. i \in 1..Cardinality(S) /\ s[i] # t[i]
  OBVIOUS
<1>4. \A j \in 1..Cardinality(S) : j < i => s[j] = t[j]
  BY <1>1, <1>2
<1> HIDE DEF D
<1>5. s[i] \in Nat /\ t[i] \in Nat
  BY <1>3
<1>6. CASE s[i] < t[i]
  <2>1. PICK j \in 1..Cardinality(S) : t[j] = s[i]
    BY <1>3, AscendingIsOnto
  <2>2. CASE j < i
    <3>1. s[j] < s[i]
      BY <2>2, <1>3 DEF Ascending
    <3> QED
      BY <3>1, <2>1, <2>2, <1>4, <1>5
  <2>3. CASE i < j
    <3>1. t[i] < t[j]
      BY <2>3, <1>3 DEF Ascending
    <3> QED
      BY <3>1, <2>1, <1>5, <1>6
  <2> QED
    BY <2>1, <2>2, <2>3, <1>1, <1>3
<1>7. CASE t[i] < s[i]
  <2>1. PICK j \in 1..Cardinality(S) : s[j] = t[i]
    BY <1>3, AscendingIsOnto
  <2>2. CASE j < i
    <3>1. t[j] < t[i]
      BY <2>2, <1>3 DEF Ascending
    <3> QED
      BY <3>1, <2>1, <2>2, <1>4, <1>5
  <2>3. CASE i < j
    <3>1. s[i] < s[j]
      BY <2>3, <1>3 DEF Ascending
    <3> QED
      BY <3>1, <2>1, <1>5, <1>7
  <2> QED
    BY <2>1, <2>2, <2>3, <1>1, <1>3
<1> QED
  BY <1>3, <1>5, <1>6, <1>7

LEMMA AscendingExists ==
  ASSUME NEW b \in Nat, NEW S \in SUBSET (0..b)
  PROVE  IsFiniteSet(S) /\ \E s \in [1..Cardinality(S) -> S] : Ascending(s)
<1> DEFINE Listed(U) == \E s \in [1..Cardinality(U) -> U] : Ascending(s)
           D == {n \in Nat : \E U \in SUBSET (0..b) : Cardinality(U) = n /\ ~Listed(U)}
<1>1. ASSUME NEW U \in SUBSET (0..b) PROVE IsFiniteSet(U) /\ Cardinality(U) \in Nat
  <2>1. IsFiniteSet(0..b)
    BY FS_Interval
  <2>2. IsFiniteSet(U)
    BY <2>1, FS_Subset
  <2> QED
    BY <2>2, FS_CardinalityType
<1> SUFFICES ASSUME ~Listed(S) PROVE FALSE
  BY <1>1
<1>2. PICK n \in D : \A m \in D : n <= m
  <2>1. D \in SUBSET Nat /\ D # {}
    BY <1>1
  <2> HIDE DEF D
  <2> QED
    BY <2>1, LeastNumber
<1>3. PICK U \in SUBSET (0..b) : Cardinality(U) = n /\ ~Listed(U)
  OBVIOUS
<1>4. U # {}
  <2> SUFFICES ASSUME U = {} PROVE FALSE
    OBVIOUS
  <2>1. Cardinality(U) = 0
    BY FS_EmptySet
  <2>2. 1..0 = {}
    OBVIOUS
  <2> DEFINE e == [i \in {} |-> i]
  <2>3. e \in [1..Cardinality(U) -> U] /\ Ascending(e)
    BY <2>1, <2>2 DEF Ascending
  <2> QED
    BY <2>3, <1>3
<1>5. PICK x \in U : \A y \in U : y <= x
  <2>1. U \in SUBSET Nat /\ \A y \in U : y <= b
    OBVIOUS
  <2> QED
    BY <2>1, <1>4, LargestNumber
<1>6. Cardinality(U \ {x}) = n - 1 /\ n \in Nat /\ n - 1 \in Nat
  <2>1. Cardinality(U \ {x}) = n - 1
    BY <1>1, <1>3, <1>5, FS_RemoveElement
  <2>2. Cardinality(U \ {x}) \in Nat
    BY <1>1
  <2> QED
    BY <2>1, <2>2
<1>7. PICK s \in [1..(n - 1) -> U \ {x}] : Ascending(s)
  <2>1. Listed(U \ {x})
    <3> SUFFICES ASSUME ~Listed(U \ {x}) PROVE FALSE
      OBVIOUS
    <3>1. n - 1 \in D
      BY <1>6
    <3>2. n <= n - 1
      BY <1>2, <3>1
    <3> QED
      BY <3>2, <1>6
  <2> QED
    BY <2>1, <1>6
<1> DEFINE t == [i \in 1..n |-> IF i < n THEN s[i] ELSE x]
<1>8. ASSUME NEW i \in 1..n, i < n
      PROVE  s[i] \in U /\ s[i] < x /\ i \in 1..(n - 1)
  <2>1. i \in 1..(n - 1)
    BY <1>6, <1>8
  <2>2. s[i] \in U /\ s[i] # x
    BY <2>1, <1>7
  <2>3. s[i] \in Nat /\ x \in Nat /\ s[i] <= x
    <3>1. \A y \in U : y \in Nat
      OBVIOUS
    <3> QED
      BY <3>1, <2>2, <1>5
  <2> QED
    BY <2>1, <2>2, <2>3
<1>9. t \in [1..n -> U]
  BY <1>8
<1>10. Ascending(t)
  <2> SUFFICES ASSUME NEW i \in 1..n, NEW j \in 1..n, i < j PROVE t[i] < t[j]
    BY DEF Ascending
  <2>1. i < n /\ t[i] = s[i]
    BY <1>6
  <2>2. CASE j < n
    <3>1. t[j] = s[j] /\ i \in 1..(n - 1) /\ j \in 1..(n - 1)
      BY <2>1, <2>2, <1>8
    <3> QED
      BY <3>1, <2>1, <1>7 DEF Ascending
  <2>3. CASE j = n
    BY <2>1, <2>3, <1>8
  <2> QED
    BY <2>2, <2>3, <1>6
<1> QED
  BY <1>3, <1>9, <1>10

(* What ObservedIn lists, and that nothing else lists it.                  *)
LEMMA ObservedList ==
  ASSUME NEW f, NEW a \in Nat, NEW b \in Nat
  PROVE  /\ IsFiniteSet(Observations(f, a, b))
         /\ ObservedIn(f, a, b) \in [1..Cardinality(Observations(f, a, b)) -> Observations(f, a, b)]
         /\ Ascending(ObservedIn(f, a, b))
         /\ ObservedIn(f, a, b) \in Seq(Nat)
         /\ Len(ObservedIn(f, a, b)) = Cardinality(Observations(f, a, b))
<1> DEFINE S == Observations(f, a, b)
           s == ObservedIn(f, a, b)
<1>1. S \in SUBSET (0..b)
  BY DEF Observations
<1>2. IsFiniteSet(S) /\ Cardinality(S) \in Nat
  BY <1>1, AscendingExists, FS_CardinalityType
<1>3. s = CHOOSE x \in [1..Cardinality(S) -> S] : Ascending(x)
  BY DEF ObservedIn
<1> HIDE DEF S, s
<1>4. \E x \in [1..Cardinality(S) -> S] : Ascending(x)
  BY <1>1, AscendingExists
<1>5. s \in [1..Cardinality(S) -> S] /\ Ascending(s)
  BY <1>3, <1>4
<1>6. s \in Seq(Nat) /\ Len(s) = Cardinality(S)
  <2>0. S \subseteq Nat
    BY <1>1
  <2>1. s \in [1..Cardinality(S) -> Nat]
    BY <2>0, <1>5
  <2> QED
    BY <2>1, <1>2
<1> QED
  BY <1>2, <1>5, <1>6 DEF S, s

-----------------------------------------------------------------------------
(* What a step does to the request of its thread.                          *)

Record(p, k, s, f, n) == [pc |-> p, kind |-> k, session |-> s, file |-> f, pos |-> n]

LEMMA Changed ==
  ASSUME RequestsOK, NEW t \in Threads, NEW r \in Requests, Consistent(r),
         req' = [req EXCEPT ![t] = r]
  PROVE  RequestsOK' /\ req'[t] = r /\ \A u \in Threads \ {t} : req'[u] = req[u]
<1>1. req' \in [Threads -> Requests]
  BY DEF RequestsOK
<1>2. req'[t] = r /\ \A u \in Threads \ {t} : req'[u] = req[u]
  BY DEF RequestsOK
<1>3. ASSUME NEW u \in Threads PROVE Consistent(req'[u])
  <2>1. CASE u = t
    BY <1>2, <2>1
  <2>2. CASE u # t
    BY <1>2, <2>2 DEF RequestsOK
  <2> QED
    BY <2>1, <2>2
<1> QED
  BY <1>1, <1>2, <1>3 DEF RequestsOK, Consistent

LEMMA Gone ==
  ASSUME RequestsOK, NEW t \in Threads, NEW p \in Places, Goto(t, p),
         Consistent(Record(p, req[t].kind, req[t].session, req[t].file, req[t].pos))
  PROVE  /\ RequestsOK'
         /\ req'[t] = Record(p, req[t].kind, req[t].session, req[t].file, req[t].pos)
         /\ \A u \in Threads \ {t} : req'[u] = req[u]
<1> DEFINE r == Record(p, req[t].kind, req[t].session, req[t].file, req[t].pos)
<1>1. req[t] \in Requests
  BY DEF RequestsOK
<1>2. r \in Requests
  BY <1>1 DEF Requests, Record
<1>3. [req[t] EXCEPT !.pc = p] = r
  BY <1>1 DEF Requests, Record
<1>4. req' = [req EXCEPT ![t] = r]
  BY <1>3 DEF Goto, RequestsOK
<1> QED
  BY <1>2, <1>4, Changed

LEMMA Answered ==
  ASSUME RequestsOK, NEW t \in Threads, Answer(t)
  PROVE  /\ RequestsOK'
         /\ req'[t] = Idle
         /\ \A u \in Threads \ {t} : req'[u] = req[u]
<1>1. Idle \in Requests
  BY DEF Idle, At, Requests, Places, Kinds, FilesOrNone
<1>2. Consistent(Idle)
  BY DEF Idle, At, Consistent
<1>3. req' = [req EXCEPT ![t] = Idle]
  BY DEF Answer
<1> QED
  BY <1>1, <1>2, <1>3, Changed

LEMMA Taken ==
  ASSUME RequestsOK, NEW t \in Threads, NEW p \in Places, NEW k \in Kinds,
         Consistent(At(p, k)), req' = [req EXCEPT ![t] = At(p, k)]
  PROVE  /\ RequestsOK'
         /\ req'[t] = At(p, k)
         /\ \A u \in Threads \ {t} : req'[u] = req[u]
<1>1. At(p, k) \in Requests
  BY DEF At, Requests, FilesOrNone
<1> QED
  BY <1>1, Changed

(* An overlap stays on record. A kind of request that is not recorded as   *)
(* overlapping met nothing that it could overlap with.                     *)
LEMMA Overlapping ==
  ASSUME NEW k \in {"start", "import", "update"}, overlapped' = Overlaps(k),
         RequestsOK, Types
  PROVE  /\ overlapped \subseteq overlapped' /\ overlapped' \subseteq {"start", "update"}
         /\ k = "start" /\ "start" \notin overlapped' =>
              \A u \in Threads : ~Starting(u)
         /\ overlapped' = {} => \A u \in Threads : ~Updating(u)
         /\ k = "update" /\ overlapped' = {} => \A u \in Threads : ~Busy(u)
<1> DEFINE others == {req[u].kind : u \in {v \in Threads : Busy(v)}}
<1>1. overlapped' = overlapped \cup (IF k = "start" THEN {"start"} \cap others ELSE {})
                      \cup (IF k = "update" /\ others # {} THEN {"update"}
                            ELSE {"update"} \cap others)
  BY DEF Overlaps
<1>2. \A u \in Threads : Starting(u) => "start" \in others
  BY DEF RequestsOK, Consistent, Starting, Busy
<1>3. \A u \in Threads : Updating(u) => "update" \in others
  BY DEF RequestsOK, Consistent, Updating, Busy
<1>4. \A u \in Threads : Busy(u) => others # {}
  OBVIOUS
<1>5. overlapped \subseteq {"start", "update"}
  BY DEF Types
<1> HIDE DEF others
<1> QED
  BY <1>1, <1>2, <1>3, <1>4, <1>5

-----------------------------------------------------------------------------
(* What a step does to a session.                                          *)
LEMMA Rewritten ==
  ASSUME Types, NEW i \in 1..Len(sessions), NEW s \in Sessions,
         sessions' = [sessions EXCEPT ![i] = s]
  PROVE  /\ sessions' \in Seq(Sessions) /\ Len(sessions') = Len(sessions)
         /\ sessions'[i] = s
         /\ \A n \in 1..Len(sessions) : n # i => sessions'[n] = sessions[n]
BY DEF Types

LEMMA SessionOpened ==
  ASSUME Types, NEW k \in {"live", "pcap"}, NEW b \in SUBSET Recorders,
         NEW f \in FilesOrNone, sessions' = Opened(k, b, f)
  PROVE  /\ sessions' \in Seq(Sessions) /\ Len(sessions') = Len(sessions) + 1
         /\ sessions'[Len(sessions) + 1].kind = k
         /\ sessions'[Len(sessions) + 1].open
         /\ sessions'[Len(sessions) + 1].by = b
         /\ sessions'[Len(sessions) + 1].file = f
         /\ sessions'[Len(sessions) + 1].frames = <<>>
         /\ \A n \in 1..Len(sessions) : sessions'[n] = sessions[n]
<1> DEFINE s == [kind |-> k, open |-> TRUE, by |-> b, file |-> f, frames |-> <<>>]
<1>1. s \in Sessions
  <2>1. <<>> \in Seq(Nat)
    OBVIOUS
  <2> QED
    BY <2>1 DEF Sessions
<1>2. sessions' = Append(sessions, s)
  BY DEF Opened
<1> HIDE DEF s
<1>3. sessions \in Seq(Sessions)
  BY DEF Types
<1>4. /\ sessions' \in Seq(Sessions) /\ Len(sessions') = Len(sessions) + 1
      /\ sessions'[Len(sessions) + 1] = s
      /\ \A n \in 1..Len(sessions) : sessions'[n] = sessions[n]
  BY <1>1, <1>2, <1>3
<1>5. s.kind = k /\ s.open /\ s.by = b /\ s.file = f /\ s.frames = <<>>
  BY DEF s
<1> QED
  BY <1>4, <1>5

(* A running capture is a live reader, and is not if the last one is gone. *)
LEMMA NotRunning ==
  ASSUME Types, ~running, Live \subseteq {thread}
  PROVE  Live = {}
BY DEF Types, running, Live

-----------------------------------------------------------------------------
(* Starting and stopping.                                                  *)

LEMMA StartCheckStep ==
  ASSUME ControlInv, NEW t \in Threads, StartCheck(t)
  PROVE  ControlInv'
<1>0. RequestsOK /\ Types
  BY DEF ControlInv
<1>1. /\ RequestsOK' /\ req'[t] = At("checked", "start")
      /\ \A u \in Threads \ {t} : req'[u] = req[u]
  <2>1. Consistent(At("checked", "start"))
    BY DEF Consistent, At
  <2> QED
    BY <1>0, <2>1, Taken DEF StartCheck, Places, Kinds
<1>2. /\ overlapped \subseteq overlapped' /\ overlapped' \subseteq {"start", "update"}
      /\ "start" \notin overlapped' => \A u \in Threads : ~Starting(u)
      /\ overlapped' = {} => \A u \in Threads : ~Updating(u)
  BY <1>0, Overlapping DEF StartCheck
<1>3. ~running /\ UNCHANGED <<reader, thread, stop_event, session_id, sessions,
                             prefixes, vendor, refreshed, held>>
  BY DEF StartCheck, captureVars, vendorVars
<1>4. Live' = Live
  BY <1>3 DEF Live
<1>5. Types'
  BY <1>0, <1>2, <1>3 DEF Types
<1>6. req[t].pc = "idle" /\ req'[t].pc = "checked" /\ req'[t].session = 0
  BY <1>1 DEF StartCheck, Admitted, Busy, At
<1>7. LiveOK'
  BY <1>1, <1>3, <1>4, <1>6 DEF ControlInv, LiveOK
<1>8. ImportsOK'
  BY <1>1, <1>3, <1>6 DEF ControlInv, ImportsOK, Importing
<1>9. StartsApart'
  <2> SUFFICES ASSUME "start" \notin overlapped' PROVE StartsApart'
    BY DEF StartsApart
  <2>1. Live \subseteq {thread} /\ Live = {}
    BY <1>0, <1>2, <1>3, NotRunning DEF ControlInv, StartsApart
  <2>2. \A u \in Threads : Starting(u)' => u = t
    BY <1>1, <1>2 DEF Starting
  <2> QED
    BY <2>1, <2>2, <1>1, <1>2, <1>3, <1>4, <1>6 DEF ControlInv, StartsApart
<1>10. HoldersRecord'
  BY <1>1, <1>3, <1>4, <1>6 DEF ControlInv, HoldersRecord, Importing
<1>11. UpdatesApart'
  <2> SUFFICES ASSUME overlapped' = {} PROVE UpdatesApart'
    BY DEF UpdatesApart
  <2>1. \A u \in Threads : ~Updating(u)'
    BY <1>1, <1>2, <1>6 DEF Updating
  <2>2. \A u \in Threads : req'[u].pc # "loading"
    BY <2>1 DEF Updating
  <2> QED
    BY <2>1, <2>2, <1>2, <1>3 DEF ControlInv, UpdatesApart, VendorsCurrent
<1> QED
  BY <1>1, <1>5, <1>7, <1>8, <1>9, <1>10, <1>11 DEF ControlInv
LEMMA StartResetStep ==
  ASSUME ControlInv, NEW t \in Threads, StartReset(t)
  PROVE  ControlInv'
<1>0. RequestsOK /\ Types
  BY DEF ControlInv
<1>1. /\ RequestsOK' /\ req'[t].pc = "reset" /\ req'[t].session = 0
      /\ \A u \in Threads \ {t} : req'[u] = req[u]
  <2>1. Consistent(req[t]) /\ req[t].pc = "checked"
    BY <1>0 DEF RequestsOK, StartReset
  <2>2. Consistent(Record("reset", req[t].kind, req[t].session, req[t].file, req[t].pos))
    BY <2>1 DEF Consistent, Record
  <2>3. "reset" \in Places /\ Goto(t, "reset")
    BY DEF Places, StartReset
  <2> QED
    BY <1>0, <2>1, <2>2, <2>3, Gone DEF Record, Consistent
<1>2. UNCHANGED <<reader, thread, session_id, sessions, prefixes, vendor, refreshed,
                 held, overlapped>> /\ stop_event' = FALSE /\ req[t].pc = "checked"
  BY DEF StartReset, vendorVars
<1>3. Live' = Live
  BY <1>2 DEF Live
<1>4. Types'
  BY <1>0, <1>2 DEF Types
<1>5. LiveOK'
  BY <1>1, <1>2, <1>3 DEF ControlInv, LiveOK
<1>6. ImportsOK'
  BY <1>1, <1>2 DEF ControlInv, ImportsOK, Importing
<1>7. StartsApart'
  <2>1. \A u \in Threads : Starting(u)' <=> Starting(u)
    BY <1>1, <1>2 DEF Starting
  <2>2. \A u \in Threads : req'[u].pc = "begun" => req[u].pc = "begun"
    BY <1>1
  <2> QED
    BY <2>1, <2>2, <1>2, <1>3 DEF ControlInv, StartsApart
<1>8. HoldersRecord'
  BY <1>1, <1>2, <1>3 DEF ControlInv, HoldersRecord, Importing
<1>9. UpdatesApart'
  <2>1. \A u \in Threads : /\ Updating(u)' <=> Updating(u)
                           /\ req'[u].pc = "loading" <=> req[u].pc = "loading"
                           /\ Busy(u)' <=> Busy(u)
    BY <1>1, <1>2 DEF Updating, Busy
  <2> QED
    BY <2>1, <1>2, <1>3 DEF ControlInv, UpdatesApart, VendorsCurrent
<1> QED
  BY <1>1, <1>4, <1>5, <1>6, <1>7, <1>8, <1>9 DEF ControlInv

LEMMA StartSessionStep ==
  ASSUME ControlInv, NEW t \in Threads, StartSession(t)
  PROVE  ControlInv'
<1>0. RequestsOK /\ Types
  BY DEF ControlInv
<1>1. /\ RequestsOK' /\ req'[t].pc = "begun" /\ req'[t].session = 0
      /\ \A u \in Threads \ {t} : req'[u] = req[u]
  <2>1. Consistent(req[t]) /\ req[t].pc = "reset"
    BY <1>0 DEF RequestsOK, StartSession
  <2>2. Consistent(Record("begun", req[t].kind, req[t].session, req[t].file, req[t].pos))
    BY <2>1 DEF Consistent, Record
  <2>3. "begun" \in Places /\ Goto(t, "begun")
    BY DEF Places, StartSession
  <2> QED
    BY <1>0, <2>1, <2>2, <2>3, Gone DEF Record, Consistent
<1>2. /\ UNCHANGED <<reader, thread, stop_event, prefixes, vendor, refreshed, held, overlapped>>
      /\ session_id' = Len(sessions) + 1 /\ req[t].pc = "reset"
  BY DEF StartSession, vendorVars
<1>3. /\ sessions' \in Seq(Sessions) /\ Len(sessions') = Len(sessions) + 1
      /\ sessions'[Len(sessions) + 1].kind = "live"
      /\ sessions'[Len(sessions) + 1].by = {}
      /\ \A n \in 1..Len(sessions) : sessions'[n] = sessions[n]
  <2>1. /\ {} \in SUBSET Recorders /\ <<>> \in FilesOrNone
        /\ sessions' = Opened("live", {}, <<>>)
    BY DEF StartSession, FilesOrNone
  <2> QED
    BY <1>0, <2>1, SessionOpened
<1>4. Live' = Live
  BY <1>2 DEF Live
<1>5. Len(sessions) \in Nat
  BY <1>0 DEF Types
<1>6. Types'
  BY <1>0, <1>2, <1>3, <1>5 DEF Types
<1>7. LiveOK'
  BY <1>2, <1>3, <1>5 DEF LiveOK
<1>8. ImportsOK'
  <2> SUFFICES ASSUME NEW u \in Threads, Importing(u)'
               PROVE  /\ req'[u].session \in 1..Len(sessions')
                      /\ sessions'[req'[u].session].kind = "pcap"
                      /\ sessions'[req'[u].session].open
                      /\ \A v \in Threads \ {u} : req'[v].session # req'[u].session
    BY DEF ImportsOK
  <2>1. u # t /\ Importing(u) /\ req'[u] = req[u]
    BY <1>1 DEF Importing
  <2>2. /\ req[u].session \in 1..Len(sessions)
        /\ sessions[req[u].session].kind = "pcap"
        /\ sessions[req[u].session].open
        /\ \A v \in Threads \ {u} : req[v].session # req[u].session
    BY <2>1 DEF ControlInv, ImportsOK
  <2>3. req[u].session # 0
    BY <2>2, <1>5
  <2> QED
    BY <2>1, <2>2, <2>3, <1>1, <1>3, <1>5
<1>9. StartsApart'
  <2> SUFFICES ASSUME "start" \notin overlapped' PROVE StartsApart'
    BY DEF StartsApart
  <2>1. \A u \in Threads : Starting(u)' <=> Starting(u)
    BY <1>1, <1>2 DEF Starting
  <2>2. \A n \in 1..Len(sessions') : sessions'[n].kind = "live" =>
          \A a, b \in sessions'[n].by : a = b
    BY <1>2, <1>3, <1>5 DEF ControlInv, StartsApart
  <2> QED
    BY <2>1, <2>2, <1>2, <1>3, <1>4 DEF ControlInv, StartsApart
<1>10. HoldersRecord'
  BY <1>1, <1>2, <1>4 DEF ControlInv, HoldersRecord, Importing
<1>11. UpdatesApart'
  <2>1. \A u \in Threads : /\ Updating(u)' <=> Updating(u)
                           /\ req'[u].pc = "loading" <=> req[u].pc = "loading"
                           /\ Busy(u)' <=> Busy(u)
    BY <1>1, <1>2 DEF Updating, Busy
  <2> QED
    BY <2>1, <1>2, <1>4 DEF ControlInv, UpdatesApart, VendorsCurrent
<1> QED
  BY <1>1, <1>6, <1>7, <1>8, <1>9, <1>10, <1>11 DEF ControlInv

LEMMA StartFailsStep ==
  ASSUME ControlInv, NEW t \in Threads, StartFails(t)
  PROVE  ControlInv'
<1>0. RequestsOK /\ Types
  BY DEF ControlInv
<1>1. /\ RequestsOK' /\ req'[t].pc = "idle" /\ req'[t].session = 0
      /\ \A u \in Threads \ {t} : req'[u] = req[u]
  BY <1>0, Answered DEF StartFails, Idle, At
<1>2. UNCHANGED <<reader, thread, stop_event, session_id, sessions, prefixes, vendor,
                 refreshed, held, overlapped>> /\ Starting(t)
  BY DEF StartFails, captureVars, vendorVars, Starting
<1>3. Live' = Live
  BY <1>2 DEF Live
<1>4. Types'
  BY <1>0, <1>2 DEF Types
<1>5. LiveOK'
  BY <1>1, <1>2, <1>3 DEF ControlInv, LiveOK
<1>6. ImportsOK'
  <2>1. req[t].session = 0
    BY <1>0, <1>2 DEF RequestsOK, Consistent, Starting
  <2> QED
    BY <2>1, <1>1, <1>2 DEF ControlInv, ImportsOK, Importing
<1>7. StartsApart'
  BY <1>1, <1>2, <1>3 DEF ControlInv, StartsApart, Starting
<1>8. HoldersRecord'
  BY <1>1, <1>2, <1>3 DEF ControlInv, HoldersRecord, Importing, Starting
<1>9. UpdatesApart'
  <2>1. \A u \in Threads : /\ Updating(u)' => Updating(u)
                           /\ req'[u].pc = "loading" => req[u].pc = "loading"
                           /\ Busy(u)' => Busy(u)
    BY <1>1, <1>2 DEF Updating, Busy
  <2> QED
    BY <2>1, <1>2, <1>3 DEF ControlInv, UpdatesApart, VendorsCurrent
<1> QED
  BY <1>1, <1>4, <1>5, <1>6, <1>7, <1>8, <1>9 DEF ControlInv

(* The number of the next capture.                                         *)
LEMMA NextReaderType == NextReader \in Nat \ {0}
<1> DEFINE started == {c \in 1..MaxReaders : reader[c] # "none"}
<1>1. IsFiniteSet(started)
  <2>1. IsFiniteSet(1..MaxReaders)
    BY ControlAssumption, FS_Interval DEF ControlAssumption
  <2> QED
    BY <2>1, FS_Subset
<1>2. Cardinality(started) \in Nat
  BY <1>1, FS_CardinalityType
<1> HIDE DEF started
<1>3. Cardinality(started) + 1 \in Nat \ {0}
  BY <1>2
<1> QED
  BY <1>3 DEF NextReader, started

LEMMA StartSpawnStep ==
  ASSUME ControlInv, NEW t \in Threads, StartSpawn(t)
  PROVE  ControlInv'
<1>0. RequestsOK /\ Types
  BY DEF ControlInv
<1>1. /\ RequestsOK' /\ req'[t].pc = "idle" /\ req'[t].session = 0
      /\ \A u \in Threads \ {t} : req'[u] = req[u]
  BY <1>0, Answered DEF StartSpawn, Idle, At
<1>2. UNCHANGED <<stop_event, session_id, sessions, prefixes, vendor,
                 refreshed, held, overlapped>> /\ Starting(t) /\ req[t].pc = "begun"
  BY DEF StartSpawn, vendorVars, Starting
<1>3. PICK c \in 1..MaxReaders : c = NextReader
  BY NextReaderType DEF StartSpawn
<1>4. reader' = [reader EXCEPT ![c] = "reading"] /\ thread' = c
  BY <1>3 DEF StartSpawn
<1>5. Live' = Live \cup {c}
  BY <1>0, <1>4 DEF Live, Types
<1>6. Types'
  BY <1>0, <1>2, <1>4 DEF Types
<1>7. session_id # 0
  BY <1>2 DEF ControlInv, LiveOK
<1>8. LiveOK'
  BY <1>1, <1>2, <1>7 DEF ControlInv, LiveOK
<1>9. ImportsOK'
  <2>1. req[t].session = 0
    BY <1>0, <1>2 DEF RequestsOK, Consistent, Starting
  <2> QED
    BY <2>1, <1>1, <1>2 DEF ControlInv, ImportsOK, Importing
<1>10. StartsApart'
  <2> SUFFICES ASSUME "start" \notin overlapped PROVE StartsApart'
    BY <1>2 DEF StartsApart
  <2>1. Live = {} /\ sessions[session_id].by = {}
    BY <1>2 DEF ControlInv, StartsApart
  <2>2. \A u \in Threads : ~Starting(u)'
    BY <1>1, <1>2 DEF ControlInv, StartsApart, Starting
  <2> QED
    BY <2>1, <2>2, <1>2, <1>4, <1>5 DEF ControlInv, StartsApart, Starting
<1>11. HoldersRecord'
  BY <1>1, <1>2, <1>5 DEF ControlInv, HoldersRecord, Importing, Starting
<1>12. UpdatesApart'
  <2> SUFFICES ASSUME overlapped = {} PROVE UpdatesApart'
    BY <1>2 DEF UpdatesApart
  <2>1. \A u \in Threads : ~Updating(u)
    BY <1>2 DEF ControlInv, UpdatesApart, Updating, Busy
  <2>2. \A u \in Threads : ~Updating(u)' /\ req'[u].pc # "loading"
    BY <2>1, <1>1 DEF Updating
  <2> QED
    BY <2>2, <1>2 DEF ControlInv, UpdatesApart, VendorsCurrent
<1> QED
  BY <1>1, <1>6, <1>8, <1>9, <1>10, <1>11, <1>12 DEF ControlInv

LEMMA StopStep ==
  ASSUME ControlInv, NEW t \in Threads, Stop(t)
  PROVE  ControlInv'
<1>1. UNCHANGED <<req, reader, thread, session_id, sessions, prefixes, vendor,
                 refreshed, held, overlapped>> /\ stop_event' = TRUE
  BY DEF Stop, vendorVars
<1>2. Live' = Live
  BY <1>1 DEF Live
<1>3. RequestsOK'
  BY <1>1 DEF ControlInv, RequestsOK, Consistent
<1>4. Types'
  BY <1>1 DEF ControlInv, Types
<1>5. LiveOK'
  BY <1>1, <1>2 DEF ControlInv, LiveOK
<1>6. ImportsOK'
  BY <1>1 DEF ControlInv, ImportsOK, Importing
<1>7. StartsApart'
  BY <1>1, <1>2 DEF ControlInv, StartsApart, Starting
<1>8. HoldersRecord'
  BY <1>1, <1>2 DEF ControlInv, HoldersRecord, Importing
<1>9. UpdatesApart'
  BY <1>1, <1>2 DEF ControlInv, UpdatesApart, Updating, Busy, VendorsCurrent
<1> QED
  BY <1>3, <1>4, <1>5, <1>6, <1>7, <1>8, <1>9 DEF ControlInv

LEMMA ReaderStopsStep ==
  ASSUME ControlInv, NEW c \in 1..MaxReaders, ReaderStops(c)
  PROVE  ControlInv'
<1>1. /\ UNCHANGED <<req, thread, stop_event, session_id, sessions, prefixes, vendor,
                    refreshed, held, overlapped>>
      /\ reader[c] = "reading" /\ reader' = [reader EXCEPT ![c] = "draining"]
  BY DEF ReaderStops, vendorVars
<1>2. Live' = Live
  BY <1>1 DEF Live, ControlInv, Types
<1>3. RequestsOK'
  BY <1>1 DEF ControlInv, RequestsOK, Consistent
<1>4. Types'
  BY <1>1 DEF ControlInv, Types
<1>5. LiveOK'
  BY <1>1, <1>2 DEF ControlInv, LiveOK
<1>6. ImportsOK'
  BY <1>1 DEF ControlInv, ImportsOK, Importing
<1>7. StartsApart'
  BY <1>1, <1>2 DEF ControlInv, StartsApart, Starting
<1>8. HoldersRecord'
  BY <1>1, <1>2 DEF ControlInv, HoldersRecord, Importing
<1>9. UpdatesApart'
  BY <1>1, <1>2 DEF ControlInv, UpdatesApart, Updating, Busy, VendorsCurrent
<1> QED
  BY <1>3, <1>4, <1>5, <1>6, <1>7, <1>8, <1>9 DEF ControlInv

LEMMA ReaderEndsStep ==
  ASSUME ControlInv, NEW c \in 1..MaxReaders, ReaderEnds(c)
  PROVE  ControlInv'
<1>1. /\ UNCHANGED <<req, thread, stop_event, session_id, prefixes, vendor,
                    refreshed, held, overlapped>>
      /\ reader[c] = "draining" /\ held[c] = NotHeld
      /\ reader' = [reader EXCEPT ![c] = "gone"]
  BY DEF ReaderEnds, vendorVars
<1>2. Live' = Live \ {c} /\ c \in Live
  BY <1>1 DEF Live, ControlInv, Types
<1>3. session_id \in 1..Len(sessions) /\ sessions[session_id].kind = "live"
  BY <1>2 DEF ControlInv, Types, LiveOK
<1>4. /\ sessions' \in Seq(Sessions) /\ Len(sessions') = Len(sessions)
      /\ \A n \in 1..Len(sessions) : /\ sessions'[n].kind = sessions[n].kind
                                     /\ sessions'[n].by = sessions[n].by
                                     /\ n # session_id => sessions'[n] = sessions[n]
  <2> DEFINE s == [sessions[session_id] EXCEPT !.open = FALSE]
  <2>1. sessions[session_id] \in Sessions
    BY <1>3 DEF ControlInv, Types
  <2>2. /\ s \in Sessions /\ s.kind = sessions[session_id].kind
        /\ s.by = sessions[session_id].by
    BY <2>1 DEF Sessions
  <2>3. sessions' = [sessions EXCEPT ![session_id] = s]
    BY DEF ReaderEnds, LiveSession
  <2> HIDE DEF s
  <2>4. /\ sessions' \in Seq(Sessions) /\ Len(sessions') = Len(sessions)
        /\ sessions'[session_id] = s
        /\ \A n \in 1..Len(sessions) : n # session_id => sessions'[n] = sessions[n]
    BY <1>3, <2>2, <2>3, Rewritten DEF ControlInv
  <2> QED
    BY <2>2, <2>4
<1>5. RequestsOK'
  BY <1>1 DEF ControlInv, RequestsOK, Consistent
<1>6. Types'
  BY <1>1, <1>4 DEF ControlInv, Types
<1>7. LiveOK'
  BY <1>1, <1>2, <1>3, <1>4 DEF ControlInv, LiveOK
<1>8. ImportsOK'
  <2>1. ASSUME NEW u \in Threads, Importing(u)
        PROVE  req[u].session # session_id /\ req[u].session \in 1..Len(sessions)
    BY <2>1, <1>3 DEF ControlInv, ImportsOK
  <2> QED
    BY <2>1, <1>1, <1>4 DEF ControlInv, ImportsOK, Importing
<1>9. StartsApart'
  <2>1. \A n \in 1..Len(sessions') : /\ sessions'[n].kind = sessions[n].kind
                                     /\ sessions'[n].by = sessions[n].by
    BY <1>4
  <2> QED
    BY <1>1, <1>2, <1>3, <1>4, <2>1 DEF ControlInv, StartsApart, Starting
<1>10. HoldersRecord'
  BY <1>1, <1>2 DEF ControlInv, HoldersRecord, Importing
<1>11. UpdatesApart'
  BY <1>1, <1>2 DEF ControlInv, UpdatesApart, Updating, Busy, VendorsCurrent
<1> QED
  BY <1>5, <1>6, <1>7, <1>8, <1>9, <1>10, <1>11 DEF ControlInv

-----------------------------------------------------------------------------
(* Recording.                                                              *)

LEMMA LookUpStep ==
  ASSUME ControlInv, NEW w \in Recorders, LookUp(w)
  PROVE  ControlInv'
<1>1. /\ UNCHANGED <<req, reader, thread, stop_event, session_id, sessions, prefixes,
                    vendor, refreshed, overlapped>>
      /\ w \in Live \/ (w \in Threads /\ Importing(w))
  BY DEF LookUp, captureVars, vendorVars, Importing
<1>2. PICK m \in Macs : held' = [held EXCEPT ![w] = [mac |-> m, found |-> prefixes]]
  BY DEF LookUp
<1>3. Live' = Live
  BY <1>1 DEF Live
<1>4. \A v \in Recorders : v # w => held'[v] = held[v]
  BY <1>2 DEF ControlInv, Types
<1>5. held'[w].found = prefixes
  BY <1>2 DEF ControlInv, Types
<1>6. RequestsOK'
  BY <1>1 DEF ControlInv, RequestsOK, Consistent
<1>7. Types'
  <2>1. [mac |-> m, found |-> prefixes] \in [mac : Macs, found : Tables]
    BY DEF ControlInv, Types
  <2>2. held' \in [Recorders -> [mac : Macs, found : Tables] \cup {NotHeld}]
    BY <2>1, <1>2 DEF ControlInv, Types
  <2> QED
    BY <2>2, <1>1 DEF ControlInv, Types
<1>8. LiveOK'
  BY <1>1, <1>3 DEF ControlInv, LiveOK
<1>9. ImportsOK'
  BY <1>1 DEF ControlInv, ImportsOK, Importing
<1>10. StartsApart'
  BY <1>1, <1>3 DEF ControlInv, StartsApart, Starting
<1>11. HoldersRecord'
  BY <1>1, <1>3, <1>4 DEF ControlInv, HoldersRecord, Importing
<1>12. UpdatesApart'
  BY <1>1, <1>3, <1>4, <1>5 DEF ControlInv, UpdatesApart, Updating, Busy, VendorsCurrent
<1> QED
  BY <1>6, <1>7, <1>8, <1>9, <1>10, <1>11, <1>12 DEF ControlInv

(* Recording adds the recorder to the session of the manager, if anything. *)
LEMMA RowWritten ==
  ASSUME ControlInv, NEW w \in Recorders, WriteRow(w)
  PROVE  /\ sessions' \in Seq(Sessions) /\ Len(sessions') = Len(sessions)
         /\ \A n \in 1..Len(sessions) :
              /\ sessions'[n].kind = sessions[n].kind
              /\ sessions'[n].open = sessions[n].open
              /\ sessions'[n].file = sessions[n].file
              /\ sessions'[n].frames = sessions[n].frames
              /\ sessions'[n].by = IF n = session_id /\ w \in Live
                                   THEN sessions[n].by \cup {w} ELSE sessions[n].by
<1>1. CASE w \notin Live
  <2>1. sessions' = sessions
    BY <1>1 DEF WriteRow
  <2> QED
    BY <1>1, <2>1 DEF ControlInv, Types
<1>2. CASE w \in Live
  <2>1. session_id \in 1..Len(sessions) /\ sessions[session_id] \in Sessions
    BY <1>2 DEF ControlInv, LiveOK, Types
  <2> DEFINE s == [sessions[session_id] EXCEPT !.by = @ \cup {w}]
  <2>2. /\ s \in Sessions /\ s.kind = sessions[session_id].kind
        /\ s.open = sessions[session_id].open /\ s.file = sessions[session_id].file
        /\ s.frames = sessions[session_id].frames
        /\ s.by = sessions[session_id].by \cup {w}
    BY <2>1 DEF Sessions
  <2>3. sessions' = [sessions EXCEPT ![session_id] = s]
    BY <1>2 DEF WriteRow, LiveSession
  <2> HIDE DEF s
  <2>4. /\ sessions' \in Seq(Sessions) /\ Len(sessions') = Len(sessions)
        /\ sessions'[session_id] = s
        /\ \A n \in 1..Len(sessions) : n # session_id => sessions'[n] = sessions[n]
    BY <2>1, <2>2, <2>3, Rewritten DEF ControlInv
  <2> QED
    BY <1>2, <2>2, <2>4
<1> QED
  BY <1>1, <1>2

LEMMA WriteRowStep ==
  ASSUME ControlInv, NEW w \in Recorders, WriteRow(w)
  PROVE  ControlInv'
<1>1. /\ UNCHANGED <<req, reader, thread, stop_event, session_id, prefixes,
                    refreshed, overlapped>>
      /\ held[w] # NotHeld /\ held' = [held EXCEPT ![w] = NotHeld]
  BY DEF WriteRow, captureVars
<1>2. Live' = Live
  BY <1>1 DEF Live
<1>3. held[w].mac \in Macs /\ held[w].found \in Tables
  BY <1>1 DEF ControlInv, Types
<1>4. /\ vendor' \in [Macs -> Tables \cup {"absent"}]
      /\ \A m \in Macs : vendor'[m] \in {vendor[m], held[w].found}
  <2> DEFINE m == held[w].mac
             v == IF vendor[m] \in {"absent", "empty"} THEN held[w].found ELSE vendor[m]
  <2>1. vendor' = [vendor EXCEPT ![m] = v]
    BY DEF WriteRow
  <2>2. v \in Tables \cup {"absent"} /\ v \in {vendor[m], held[w].found}
    BY <1>3 DEF ControlInv, Types
  <2> HIDE DEF v
  <2> QED
    BY <2>1, <2>2, <1>3 DEF ControlInv, Types
<1>5. /\ sessions' \in Seq(Sessions) /\ Len(sessions') = Len(sessions)
      /\ \A n \in 1..Len(sessions) :
           /\ sessions'[n].kind = sessions[n].kind
           /\ sessions'[n].open = sessions[n].open
           /\ sessions'[n].by = IF n = session_id /\ w \in Live
                                THEN sessions[n].by \cup {w} ELSE sessions[n].by
  BY RowWritten
<1>6. \A v \in Recorders : held'[v] # NotHeld => held'[v] = held[v]
  BY <1>1 DEF ControlInv, Types
<1>7. RequestsOK'
  BY <1>1 DEF ControlInv, RequestsOK, Consistent
<1>8. Types'
  BY <1>1, <1>4, <1>5 DEF ControlInv, Types
<1>9. LiveOK'
  <2>1. session_id # 0 => session_id \in 1..Len(sessions)
    BY DEF ControlInv, Types
  <2> QED
    BY <2>1, <1>1, <1>2, <1>5 DEF ControlInv, LiveOK
<1>10. ImportsOK'
  BY <1>1, <1>5 DEF ControlInv, ImportsOK, Importing
<1>11. StartsApart'
  <2> SUFFICES ASSUME "start" \notin overlapped PROVE StartsApart'
    BY <1>1 DEF StartsApart
  <2>1. w \in Live => w = thread
    BY DEF ControlInv, StartsApart
  <2>2. session_id # 0 => session_id \in 1..Len(sessions)
    BY DEF ControlInv, Types
  <2>3. session_id # 0 => sessions'[session_id].by \subseteq {thread}
    BY <2>1, <2>2, <1>5 DEF ControlInv, StartsApart
  <2>4. ASSUME NEW t \in Threads, req[t].pc = "begun"
        PROVE  sessions'[session_id].by = {}
    <3>1. w \notin Live /\ session_id # 0 /\ sessions[session_id].by = {}
      BY <2>4 DEF ControlInv, StartsApart, Starting, LiveOK
    <3> QED
      BY <3>1, <2>2, <1>5
  <2>5. ASSUME NEW n \in 1..Len(sessions), sessions[n].kind = "live"
        PROVE  \A a, b \in sessions'[n].by : a = b
    <3>1. CASE n = session_id
      <4>1. n # 0
        BY DEF ControlInv, Types
      <4> QED
        BY <3>1, <4>1, <2>3
    <3>2. CASE n # session_id
      <4>1. \A a, b \in sessions[n].by : a = b
        BY <2>5 DEF ControlInv, StartsApart
      <4>2. sessions'[n].by = sessions[n].by
        BY <3>2, <1>5
      <4> QED
        BY <4>1, <4>2
    <3> QED
      BY <3>1, <3>2
  <2> QED
    BY <2>3, <2>4, <2>5, <1>1, <1>2, <1>5 DEF ControlInv, StartsApart, Starting
<1>12. HoldersRecord'
  BY <1>1, <1>2, <1>6 DEF ControlInv, HoldersRecord, Importing
<1>13. UpdatesApart'
  <2> SUFFICES ASSUME overlapped = {} PROVE UpdatesApart'
    BY <1>1 DEF UpdatesApart
  <2>1. held[w].found = prefixes
    BY <1>1 DEF ControlInv, UpdatesApart
  <2>2. VendorsCurrent'
    BY <2>1, <1>1, <1>4 DEF ControlInv, UpdatesApart, VendorsCurrent
  <2> QED
    BY <2>2, <1>1, <1>2, <1>6 DEF ControlInv, UpdatesApart, Updating, Busy
<1> QED
  BY <1>7, <1>8, <1>9, <1>10, <1>11, <1>12, <1>13 DEF ControlInv

-----------------------------------------------------------------------------
(* Importing.                                                              *)

(* An import is in its file, which is a sequence.                          *)
LEMMA ImportedFile ==
  ASSUME RequestsOK, NEW t \in Threads
  PROVE  /\ req[t].file \in FilesOrNone
         /\ req[t].file \in Seq({"obs", "none", "bad", "cut"})
         /\ Len(req[t].file) \in Nat /\ req[t].pos \in Nat /\ req[t].pos + 1 \in Nat
<1>1. req[t].file \in FilesOrNone /\ req[t].pos \in Nat
  BY DEF RequestsOK, Requests
<1>2. req[t].file \in Seq({"obs", "none", "bad", "cut"})
  <2>1. <<>> \in Seq({"obs", "none", "bad", "cut"})
    OBVIOUS
  <2>2. \A f \in Files : f \in Seq({"obs", "none", "bad", "cut"})
    BY ControlAssumption DEF ControlAssumption
  <2>3. req[t].file \in Files \/ req[t].file = <<>>
    BY <1>1 DEF FilesOrNone
  <2> QED
    BY <2>1, <2>2, <2>3
<1> QED
  BY <1>1, <1>2

LEMMA ImportBeginStep ==
  ASSUME ControlInv, NEW t \in Threads, ImportBegin(t)
  PROVE  ControlInv'
<1>0. RequestsOK /\ Types
  BY DEF ControlInv
<1>1. /\ UNCHANGED <<reader, thread, stop_event, session_id, prefixes, vendor,
                    refreshed, held>>
      /\ ~running /\ req[t].pc = "idle" /\ overlapped' = Overlaps("import")
  BY DEF ImportBegin, Admitted, Busy, captureVars, vendorVars
<1>2. PICK f \in Files :
        /\ sessions' = Opened("pcap", {t}, f)
        /\ req' = [req EXCEPT ![t] = [pc |-> "importing", kind |-> "import",
                                     session |-> Len(sessions) + 1, file |-> f, pos |-> 0]]
  BY DEF ImportBegin
<1>3. Len(sessions) \in Nat /\ Len(sessions) + 1 \in Nat /\ Len(sessions) + 1 # 0
  BY <1>0 DEF Types
<1>4. /\ RequestsOK' /\ req'[t].pc = "importing" /\ req'[t].session = Len(sessions) + 1
      /\ \A u \in Threads \ {t} : req'[u] = req[u]
  <2> DEFINE r == [pc |-> "importing", kind |-> "import",
                   session |-> Len(sessions) + 1, file |-> f, pos |-> 0]
  <2>1. r \in Requests
    BY <1>3 DEF Requests, Places, Kinds, FilesOrNone
  <2>2. Consistent(r) /\ r.pc = "importing" /\ r.session = Len(sessions) + 1
    BY DEF Consistent
  <2>3. req' = [req EXCEPT ![t] = r]
    BY <1>2
  <2> HIDE DEF r
  <2> QED
    BY <1>0, <2>1, <2>2, <2>3, Changed
<1>5. /\ sessions' \in Seq(Sessions) /\ Len(sessions') = Len(sessions) + 1
      /\ sessions'[Len(sessions) + 1].kind = "pcap"
      /\ sessions'[Len(sessions) + 1].open
      /\ \A n \in 1..Len(sessions) : sessions'[n] = sessions[n]
  <2>1. {t} \in SUBSET Recorders /\ f \in FilesOrNone
    BY DEF Recorders, FilesOrNone
  <2> QED
    BY <1>0, <1>2, <2>1, SessionOpened
<1>6. /\ overlapped \subseteq overlapped' /\ overlapped' \subseteq {"start", "update"}
      /\ overlapped' = {} => \A u \in Threads : ~Updating(u)
  BY <1>0, <1>1, Overlapping
<1>7. Live' = Live
  BY <1>1 DEF Live
<1>8. session_id # 0 => session_id \in 1..Len(sessions)
  BY <1>0 DEF Types
<1>9. Types'
  BY <1>0, <1>1, <1>3, <1>5, <1>6 DEF Types
<1>10. LiveOK'
  BY <1>1, <1>4, <1>5, <1>7, <1>8 DEF ControlInv, LiveOK
<1>11. ImportsOK'
  <2> SUFFICES ASSUME NEW u \in Threads, Importing(u)'
               PROVE  /\ req'[u].session \in 1..Len(sessions')
                      /\ sessions'[req'[u].session].kind = "pcap"
                      /\ sessions'[req'[u].session].open
                      /\ \A v \in Threads \ {u} : req'[v].session # req'[u].session
    BY DEF ImportsOK
  <2>1. CASE u = t
    <3>1. ASSUME NEW v \in Threads \ {t} PROVE req'[v].session # Len(sessions) + 1
      <4>1. CASE Importing(v)
        BY <4>1, <1>3, <1>4 DEF ControlInv, ImportsOK
      <4>2. CASE ~Importing(v)
        <5>1. req[v].session = 0
          BY <4>2, <1>0 DEF RequestsOK, Consistent, Importing
        <5> QED
          BY <5>1, <1>3, <1>4
      <4> QED
        BY <4>1, <4>2
    <3> QED
      BY <2>1, <3>1, <1>3, <1>4, <1>5
  <2>2. CASE u # t
    <3>1. Importing(u) /\ req'[u] = req[u]
      BY <2>2, <1>4 DEF Importing
    <3>2. /\ req[u].session \in 1..Len(sessions)
          /\ sessions[req[u].session].kind = "pcap"
          /\ sessions[req[u].session].open
          /\ \A v \in Threads \ {u} : req[v].session # req[u].session
      BY <3>1 DEF ControlInv, ImportsOK
    <3>3. Len(sessions) + 1 # req[u].session
      BY <3>2, <1>3
    <3> QED
      BY <3>1, <3>2, <3>3, <1>3, <1>4, <1>5
  <2> QED
    BY <2>1, <2>2
<1>12. StartsApart'
  <2> SUFFICES ASSUME "start" \notin overlapped' PROVE StartsApart'
    BY DEF StartsApart
  <2>1. \A u \in Threads : /\ Starting(u)' => Starting(u)
                           /\ req'[u].pc = "begun" => req[u].pc = "begun"
    BY <1>4 DEF Starting
  <2>2. \A n \in 1..Len(sessions') : sessions'[n].kind = "live" => n \in 1..Len(sessions)
    BY <1>3, <1>5
  <2>3. \A u \in Threads : req[u].pc = "begun" => session_id # 0
    BY DEF ControlInv, LiveOK
  <2> QED
    BY <2>1, <2>2, <2>3, <1>1, <1>5, <1>6, <1>7, <1>8 DEF ControlInv, StartsApart
<1>13. HoldersRecord'
  BY <1>1, <1>4, <1>7 DEF ControlInv, HoldersRecord, Importing
<1>14. UpdatesApart'
  <2> SUFFICES ASSUME overlapped' = {} PROVE UpdatesApart'
    BY DEF UpdatesApart
  <2>1. \A u \in Threads : ~Updating(u)'
    BY <1>4, <1>6 DEF Updating
  <2>2. \A u \in Threads : req'[u].pc # "loading"
    BY <2>1 DEF Updating
  <2> QED
    BY <2>1, <2>2, <1>1, <1>6 DEF ControlInv, UpdatesApart, VendorsCurrent
<1> QED
  BY <1>4, <1>9, <1>10, <1>11, <1>12, <1>13, <1>14 DEF ControlInv

(* An import that writes or ends changes its own session only, which no    *)
(* capture has.                                                            *)
LEMMA OwnSessionChanged ==
  ASSUME ControlInv, NEW t \in Threads, Importing(t),
         NEW s \in Sessions, s.kind = "pcap", s.by = sessions[req[t].session].by,
         sessions' = [sessions EXCEPT ![req[t].session] = s],
         UNCHANGED <<captureVars, vendorVars, held, overlapped>>,
         RequestsOK', \A u \in Threads \ {t} : req'[u] = req[u],
         \/ /\ req'[t].pc = "importing" /\ s.open
            /\ req'[t].session = req[t].session
         \/ req'[t].pc = "idle" /\ held[t] = NotHeld /\ req'[t].session = 0
  PROVE  ControlInv'
<1> DEFINE i == req[t].session
<1>1. /\ i \in 1..Len(sessions) /\ sessions[i].kind = "pcap" /\ i # 0
      /\ \A u \in Threads \ {t} : req[u].session # i
  <2>1. /\ i \in 1..Len(sessions) /\ sessions[i].kind = "pcap"
        /\ \A u \in Threads \ {t} : req[u].session # i
    BY DEF ControlInv, ImportsOK
  <2> QED
    BY <2>1
<1>2. /\ sessions' \in Seq(Sessions) /\ Len(sessions') = Len(sessions)
      /\ sessions'[i] = s
      /\ \A n \in 1..Len(sessions) : n # i => sessions'[n] = sessions[n]
  BY <1>1, Rewritten DEF ControlInv
<1>3. \A n \in 1..Len(sessions) : /\ sessions'[n].kind = sessions[n].kind
                                  /\ sessions'[n].by = sessions[n].by
  BY <1>1, <1>2
<1>4. UNCHANGED <<reader, thread, stop_event, session_id, prefixes, vendor, refreshed,
                 held, overlapped>>
  BY DEF captureVars, vendorVars
<1>5. Live' = Live
  BY <1>4 DEF Live
<1>6. session_id # 0 => session_id \in 1..Len(sessions)
  BY DEF ControlInv, Types
<1>7. \A u \in Threads : /\ Starting(u)' => Starting(u)
                         /\ Updating(u)' => Updating(u)
                         /\ Busy(u)' => Busy(u)
                         /\ req'[u].pc = "begun" => req[u].pc = "begun"
                         /\ req'[u].pc = "loading" => req[u].pc = "loading"
  BY DEF Starting, Updating, Busy, Importing
<1>8. Types'
  BY <1>2, <1>4 DEF ControlInv, Types
<1>9. LiveOK'
  BY <1>3, <1>4, <1>5, <1>6, <1>7 DEF ControlInv, LiveOK
<1>10. ImportsOK'
  <2> SUFFICES ASSUME NEW u \in Threads, Importing(u)'
               PROVE  /\ req'[u].session \in 1..Len(sessions')
                      /\ sessions'[req'[u].session].kind = "pcap"
                      /\ sessions'[req'[u].session].open
                      /\ \A v \in Threads \ {u} : req'[v].session # req'[u].session
    BY DEF ImportsOK
  <2>1. CASE u = t
    <3>1. req'[t].pc = "importing"
      BY <2>1 DEF Importing
    <3>2. req'[t].session = i /\ s.open
      BY <3>1
    <3> QED
      BY <3>2, <2>1, <1>1, <1>2
  <2>2. CASE u # t
    <3>1. Importing(u) /\ req'[u] = req[u]
      BY <2>2 DEF Importing
    <3>2. /\ req[u].session \in 1..Len(sessions) /\ req[u].session # 0
          /\ sessions[req[u].session].kind = "pcap"
          /\ sessions[req[u].session].open
          /\ \A v \in Threads \ {u} : req[v].session # req[u].session
      <4>1. /\ req[u].session \in 1..Len(sessions)
            /\ sessions[req[u].session].kind = "pcap"
            /\ sessions[req[u].session].open
            /\ \A v \in Threads \ {u} : req[v].session # req[u].session
        BY <3>1 DEF ControlInv, ImportsOK
      <4> QED
        BY <4>1
    <3>3. req'[t].session # req[u].session
      BY <2>2, <3>2, <1>1
    <3> QED
      BY <2>2, <3>1, <3>2, <3>3, <1>1, <1>2
  <2> QED
    BY <2>1, <2>2
<1>11. StartsApart'
  <2>1. \A u \in Threads : req[u].pc = "begun" => session_id # 0
    BY DEF ControlInv, LiveOK
  <2> QED
    BY <2>1, <1>2, <1>3, <1>4, <1>5, <1>6, <1>7 DEF ControlInv, StartsApart
<1>12. HoldersRecord'
  <2>1. ASSUME NEW w \in Recorders, held[w] # NotHeld
        PROVE  w \in Live \/ (w \in Threads /\ Importing(w)')
    BY <2>1 DEF ControlInv, HoldersRecord, Importing
  <2> QED
    BY <2>1, <1>4, <1>5 DEF HoldersRecord
<1>13. UpdatesApart'
  BY <1>4, <1>5, <1>7 DEF ControlInv, UpdatesApart, VendorsCurrent
<1> QED
  BY <1>8, <1>9, <1>10, <1>11, <1>12, <1>13 DEF ControlInv

(* The session of an import, and its type with more frames or none.        *)
LEMMA ImportSessionType ==
  ASSUME ControlInv, NEW t \in Threads, Importing(t)
  PROVE  /\ req[t].session \in 1..Len(sessions)
         /\ sessions[req[t].session] \in Sessions
         /\ sessions[req[t].session].kind = "pcap"
         /\ sessions[req[t].session].open
BY DEF ControlInv, ImportsOK, Types

LEMMA MoreFrames ==
  ASSUME NEW s \in Sessions, NEW f, NEW a \in Nat, NEW b \in Nat
  PROVE  s.frames \o ObservedIn(f, a, b) \in Seq(Nat)
<1>1. s.frames \in Seq(Nat) /\ ObservedIn(f, a, b) \in Seq(Nat)
  BY ObservedList DEF Sessions
<1> QED
  BY <1>1

LEMMA ImportBatchStep ==
  ASSUME ControlInv, NEW t \in Threads, ImportBatch(t)
  PROVE  ControlInv'
<1> DEFINE f == req[t].file
           from == req[t].pos + 1
           i == req[t].session
<1>0. RequestsOK /\ Types
  BY DEF ControlInv
<1>1. /\ Importing(t) /\ UNCHANGED <<captureVars, vendorVars, held, overlapped>>
  BY DEF ImportBatch, Importing
<1>2. PICK n \in from..Len(f) :
        /\ sessions' = [sessions EXCEPT ![ImportSession(t)].frames = @ \o ObservedIn(f, from, n)]
        /\ req' = [req EXCEPT ![t].pos = n]
  BY DEF ImportBatch
<1>3. n \in Nat /\ from \in Nat
  BY <1>0, ImportedFile
<1>4. /\ RequestsOK' /\ req'[t].pc = "importing" /\ req'[t].session = i
      /\ \A u \in Threads \ {t} : req'[u] = req[u]
  <2> DEFINE r == [req[t] EXCEPT !.pos = n]
  <2>1. req[t] \in Requests /\ Consistent(req[t])
    BY <1>0 DEF RequestsOK
  <2>2. r \in Requests /\ r.pc = req[t].pc /\ r.kind = req[t].kind /\ r.session = i
    BY <2>1, <1>3 DEF Requests
  <2>3. Consistent(r)
    BY <2>1, <2>2 DEF Consistent
  <2>4. req' = [req EXCEPT ![t] = r]
    BY <1>2
  <2> HIDE DEF r
  <2> QED
    BY <1>0, <1>1, <2>2, <2>3, <2>4, Changed DEF Importing
<1> DEFINE s == [sessions[i] EXCEPT !.frames = @ \o ObservedIn(f, from, n)]
<1>5. /\ s \in Sessions /\ s.kind = "pcap" /\ s.open /\ s.by = sessions[i].by
  <2>1. sessions[i].frames \o ObservedIn(f, from, n) \in Seq(Nat)
    BY <1>1, <1>3, ImportSessionType, MoreFrames
  <2> QED
    BY <2>1, <1>1, ImportSessionType DEF Sessions
<1>6. sessions' = [sessions EXCEPT ![i] = s]
  BY <1>2 DEF ImportSession
<1> HIDE DEF s
<1> QED
  BY <1>1, <1>4, <1>5, <1>6, OwnSessionChanged

LEMMA ImportEndsStep ==
  ASSUME ControlInv, NEW t \in Threads, ImportEnds(t)
  PROVE  ControlInv'
<1> DEFINE f == req[t].file
           from == req[t].pos + 1
           i == req[t].session
<1>0. RequestsOK /\ Types
  BY DEF ControlInv
<1>1. /\ Importing(t) /\ UNCHANGED <<captureVars, vendorVars, held, overlapped>>
      /\ held[t] = NotHeld /\ Answer(t)
  BY DEF ImportEnds, Importing
<1>2. Len(f) \in Nat /\ from \in Nat
  BY <1>0, ImportedFile
<1>4. /\ RequestsOK' /\ req'[t].pc = "idle" /\ req'[t].session = 0
      /\ \A u \in Threads \ {t} : req'[u] = req[u]
  BY <1>0, <1>1, Answered DEF Idle, At
<1> DEFINE x == ObservedIn(f, from, Len(f))
           s == [sessions[i] EXCEPT !.frames = @ \o x, !.open = FALSE]
<1>5. /\ s \in Sessions /\ s.kind = "pcap" /\ s.by = sessions[i].by
  <2>1. sessions[i].frames \o x \in Seq(Nat)
    BY <1>1, <1>2, ImportSessionType, MoreFrames
  <2> QED
    BY <2>1, <1>1, ImportSessionType DEF Sessions
<1>6. sessions' = [sessions EXCEPT ![i] = s]
  BY <1>1, ImportSessionType DEF ImportEnds, ImportSession
<1> HIDE DEF s
<1> QED
  BY <1>1, <1>4, <1>5, <1>6, OwnSessionChanged

LEMMA ImportFailsStep ==
  ASSUME ControlInv, NEW t \in Threads, ImportFails(t)
  PROVE  ControlInv'
<1> DEFINE i == req[t].session
<1>0. RequestsOK /\ Types
  BY DEF ControlInv
<1>1. /\ Importing(t) /\ UNCHANGED <<captureVars, vendorVars, held, overlapped>>
      /\ held[t] = NotHeld /\ Answer(t)
  BY DEF ImportFails, Importing
<1>4. /\ RequestsOK' /\ req'[t].pc = "idle" /\ req'[t].session = 0
      /\ \A u \in Threads \ {t} : req'[u] = req[u]
  BY <1>0, <1>1, Answered DEF Idle, At
<1> DEFINE s == [sessions[i] EXCEPT !.open = FALSE]
<1>5. /\ s \in Sessions /\ s.kind = "pcap" /\ s.by = sessions[i].by
  BY <1>1, ImportSessionType DEF Sessions
<1>6. sessions' = [sessions EXCEPT ![i] = s]
  BY DEF ImportFails, ImportSession
<1> HIDE DEF s
<1> QED
  BY <1>1, <1>4, <1>5, <1>6, OwnSessionChanged

-----------------------------------------------------------------------------
(* Updating the vendor table leaves captures and imports alone.            *)
LEMMA CapturesLeftAlone ==
  ASSUME ControlInv, NEW t \in Threads, ~Importing(t),
         UNCHANGED <<captureVars, sessions, held>>,
         prefixes' \in Tables, vendor' \in [Macs -> Tables \cup {"absent"}],
         refreshed' \in BOOLEAN,
         overlapped \subseteq overlapped', overlapped' \subseteq {"start", "update"},
         RequestsOK', \A u \in Threads \ {t} : req'[u] = req[u],
         req'[t].session = 0, req'[t].pc \in {"idle", "downloading", "loading", "loaded"}
  PROVE  Types' /\ LiveOK' /\ ImportsOK' /\ StartsApart' /\ HoldersRecord' /\ Live' = Live
<1>1. UNCHANGED <<reader, thread, stop_event, session_id, sessions, held>>
  BY DEF captureVars
<1>2. Live' = Live
  BY <1>1 DEF Live
<1>3. \A u \in Threads : /\ Starting(u)' => Starting(u)
                         /\ Importing(u)' <=> Importing(u)
                         /\ req'[u].pc = "begun" => req[u].pc = "begun"
  BY DEF Starting, Importing
<1>4. Types'
  BY <1>1 DEF ControlInv, Types
<1>5. LiveOK'
  BY <1>1, <1>2, <1>3 DEF ControlInv, LiveOK
<1>6. ImportsOK'
  <2>1. req[t].session = 0
    BY DEF ControlInv, RequestsOK, Consistent, Importing
  <2> QED
    BY <2>1, <1>1, <1>3 DEF ControlInv, ImportsOK, Importing
<1>7. StartsApart'
  BY <1>1, <1>2, <1>3 DEF ControlInv, StartsApart
<1>8. HoldersRecord'
  BY <1>1, <1>2, <1>3 DEF ControlInv, HoldersRecord
<1> QED
  BY <1>2, <1>4, <1>5, <1>6, <1>7, <1>8

LEMMA UpdateCheckStep ==
  ASSUME ControlInv, NEW t \in Threads, UpdateCheck(t)
  PROVE  ControlInv'
<1>0. RequestsOK /\ Types
  BY DEF ControlInv
<1>1. /\ UNCHANGED <<captureVars, sessions, held, prefixes, vendor, refreshed>>
      /\ ~running /\ ~Importing(t) /\ overlapped' = Overlaps("update")
  BY DEF UpdateCheck, Admitted, Busy, Importing, CaptureInTheWay, vendorVars
<1>2. /\ RequestsOK' /\ req'[t].pc = "downloading" /\ req'[t].session = 0
      /\ \A u \in Threads \ {t} : req'[u] = req[u]
  <2>1. Consistent(At("downloading", "update"))
    BY DEF Consistent, At
  <2> QED
    <3>1. /\ RequestsOK' /\ req'[t] = At("downloading", "update")
          /\ \A u \in Threads \ {t} : req'[u] = req[u]
      BY <1>0, <2>1, Taken DEF UpdateCheck, Places, Kinds
    <3> QED
      BY <3>1 DEF At
<1>3. /\ overlapped \subseteq overlapped' /\ overlapped' \subseteq {"start", "update"}
      /\ overlapped' = {} => \A u \in Threads : ~Busy(u)
  BY <1>0, <1>1, Overlapping
<1>4. Types' /\ LiveOK' /\ ImportsOK' /\ StartsApart' /\ HoldersRecord' /\ Live' = Live
  <2>1. /\ prefixes' \in Tables /\ vendor' \in [Macs -> Tables \cup {"absent"}]
        /\ refreshed' \in BOOLEAN
    BY <1>0, <1>1 DEF Types
  <2> QED
    BY <2>1, <1>1, <1>2, <1>3, CapturesLeftAlone
<1>5. UpdatesApart'
  <2> SUFFICES ASSUME overlapped' = {} PROVE UpdatesApart'
    BY DEF UpdatesApart
  <2>1. overlapped = {} /\ \A u \in Threads : ~Busy(u)
    BY <1>3
  <2>2. Live = {}
    <3>1. Live \subseteq {thread}
      BY <2>1 DEF ControlInv, StartsApart
    <3> QED
      BY <3>1, <1>0, <1>1, NotRunning
  <2>3. \A u \in Threads \ {t} : ~Busy(u)' /\ ~Updating(u)'
    BY <1>2, <2>1 DEF Busy, Updating
  <2>4. \A u \in Threads : req'[u].pc # "loading"
    BY <1>2, <2>3 DEF Updating
  <2> QED
    BY <1>1, <1>4, <2>1, <2>2, <2>3, <2>4 DEF ControlInv, UpdatesApart, VendorsCurrent
<1> QED
  BY <1>2, <1>4, <1>5 DEF ControlInv

(* An update in progress is alone, unless requests overlap.                *)
LEMMA UpdateAlone ==
  ASSUME ControlInv, NEW t \in Threads, Updating(t), overlapped = {}
  PROVE  /\ Live = {} /\ \A u \in Threads \ {t} : ~Busy(u)
         /\ \A w \in Recorders : held[w] = NotHeld
<1>1. Live = {} /\ \A u \in Threads \ {t} : ~Busy(u)
  BY DEF ControlInv, UpdatesApart
<1>2. \A u \in Threads : ~Importing(u)
  BY <1>1 DEF Busy, Importing, Updating
<1> QED
  BY <1>1, <1>2 DEF ControlInv, HoldersRecord

LEMMA UpdateFailsStep ==
  ASSUME ControlInv, NEW t \in Threads, UpdateFails(t)
  PROVE  ControlInv'
<1>0. RequestsOK /\ Types
  BY DEF ControlInv
<1>1. /\ UNCHANGED <<captureVars, sessions, held, prefixes, vendor, refreshed, overlapped>>
      /\ ~Importing(t) /\ Updating(t) /\ Answer(t)
  BY DEF UpdateFails, Importing, Updating, vendorVars
<1>2. /\ RequestsOK' /\ req'[t].pc = "idle" /\ req'[t].session = 0
      /\ \A u \in Threads \ {t} : req'[u] = req[u]
  BY <1>0, <1>1, Answered DEF Idle, At
<1>3. Types' /\ LiveOK' /\ ImportsOK' /\ StartsApart' /\ HoldersRecord' /\ Live' = Live
  <2>1. /\ prefixes' \in Tables /\ vendor' \in [Macs -> Tables \cup {"absent"}]
        /\ refreshed' \in BOOLEAN /\ overlapped' \subseteq {"start", "update"}
    BY <1>0, <1>1 DEF Types
  <2> QED
    BY <2>1, <1>1, <1>2, CapturesLeftAlone
<1>4. UpdatesApart'
  <2>1. \A u \in Threads : /\ Updating(u)' => Updating(u)
                           /\ Busy(u)' => Busy(u)
                           /\ req'[u].pc = "loading" => req[u].pc = "loading"
    BY <1>1, <1>2 DEF Updating, Busy
  <2> QED
    BY <2>1, <1>1, <1>3 DEF ControlInv, UpdatesApart, VendorsCurrent
<1> QED
  BY <1>2, <1>3, <1>4 DEF ControlInv

LEMMA UpdateClearsStep ==
  ASSUME ControlInv, NEW t \in Threads, UpdateClears(t)
  PROVE  ControlInv'
<1>0. RequestsOK /\ Types
  BY DEF ControlInv
<1>1. /\ UNCHANGED <<captureVars, sessions, held, vendor, overlapped>>
      /\ ~Importing(t) /\ Updating(t) /\ req[t].pc = "downloading"
      /\ prefixes' = "empty" /\ refreshed' = FALSE
  BY DEF UpdateClears, Importing, Updating
<1>2. /\ RequestsOK' /\ req'[t].pc = "loading" /\ req'[t].session = 0
      /\ \A u \in Threads \ {t} : req'[u] = req[u]
  <2>1. Consistent(req[t])
    BY <1>0 DEF RequestsOK
  <2>2. Consistent(Record("loading", req[t].kind, req[t].session, req[t].file, req[t].pos))
    BY <2>1, <1>1 DEF Consistent, Record
  <2>3. "loading" \in Places /\ Goto(t, "loading")
    BY DEF Places, UpdateClears
  <2> QED
    BY <1>0, <1>1, <2>1, <2>2, <2>3, Gone DEF Record, Consistent
<1>3. Types' /\ LiveOK' /\ ImportsOK' /\ StartsApart' /\ HoldersRecord' /\ Live' = Live
  <2>1. /\ prefixes' \in Tables /\ vendor' \in [Macs -> Tables \cup {"absent"}]
        /\ refreshed' \in BOOLEAN /\ overlapped' \subseteq {"start", "update"}
    BY <1>0, <1>1 DEF Types, Tables
  <2> QED
    BY <2>1, <1>1, <1>2, CapturesLeftAlone
<1>4. UpdatesApart'
  <2> SUFFICES ASSUME overlapped = {} PROVE UpdatesApart'
    BY <1>1 DEF UpdatesApart
  <2>1. /\ Live = {} /\ \A u \in Threads \ {t} : ~Busy(u)
        /\ \A w \in Recorders : held[w] = NotHeld
    BY <1>1, UpdateAlone
  <2>2. \A u \in Threads \ {t} : ~Busy(u)' /\ ~Updating(u)'
    BY <1>2, <2>1 DEF Busy, Updating
  <2> QED
    BY <1>1, <1>3, <2>1, <2>2 DEF UpdatesApart, VendorsCurrent
<1> QED
  BY <1>2, <1>3, <1>4 DEF ControlInv

LEMMA UpdateLoadsStep ==
  ASSUME ControlInv, NEW t \in Threads, UpdateLoads(t)
  PROVE  ControlInv'
<1>0. RequestsOK /\ Types
  BY DEF ControlInv
<1>1. /\ UNCHANGED <<captureVars, sessions, held, vendor, refreshed, overlapped>>
      /\ ~Importing(t) /\ Updating(t) /\ req[t].pc = "loading"
      /\ prefixes' = "second"
  BY DEF UpdateLoads, Importing, Updating
<1>2. /\ RequestsOK' /\ req'[t].pc = "loaded" /\ req'[t].session = 0
      /\ \A u \in Threads \ {t} : req'[u] = req[u]
  <2>1. Consistent(req[t])
    BY <1>0 DEF RequestsOK
  <2>2. Consistent(Record("loaded", req[t].kind, req[t].session, req[t].file, req[t].pos))
    BY <2>1, <1>1 DEF Consistent, Record
  <2>3. "loaded" \in Places /\ Goto(t, "loaded")
    BY DEF Places, UpdateLoads
  <2> QED
    BY <1>0, <1>1, <2>1, <2>2, <2>3, Gone DEF Record, Consistent
<1>3. Types' /\ LiveOK' /\ ImportsOK' /\ StartsApart' /\ HoldersRecord' /\ Live' = Live
  <2>1. /\ prefixes' \in Tables /\ vendor' \in [Macs -> Tables \cup {"absent"}]
        /\ refreshed' \in BOOLEAN /\ overlapped' \subseteq {"start", "update"}
    BY <1>0, <1>1 DEF Types, Tables
  <2> QED
    BY <2>1, <1>1, <1>2, CapturesLeftAlone
<1>4. UpdatesApart'
  <2> SUFFICES ASSUME overlapped = {} PROVE UpdatesApart'
    BY <1>1 DEF UpdatesApart
  <2>1. /\ Live = {} /\ \A u \in Threads \ {t} : ~Busy(u)
        /\ \A w \in Recorders : held[w] = NotHeld
    BY <1>1, UpdateAlone
  <2>2. \A u \in Threads \ {t} : ~Busy(u)' /\ ~Updating(u)'
    BY <1>2, <2>1 DEF Busy, Updating
  <2>3. ~refreshed
    BY <1>1 DEF ControlInv, UpdatesApart
  <2>4. \A u \in Threads : req'[u].pc # "loading"
    BY <1>2, <2>2 DEF Updating
  <2> QED
    BY <1>1, <1>3, <2>1, <2>2, <2>3, <2>4 DEF UpdatesApart, VendorsCurrent
<1> QED
  BY <1>2, <1>3, <1>4 DEF ControlInv

LEMMA UpdateRowsStep ==
  ASSUME ControlInv, NEW t \in Threads, UpdateRows(t)
  PROVE  ControlInv'
<1>0. RequestsOK /\ Types
  BY DEF ControlInv
<1>1. /\ UNCHANGED <<captureVars, sessions, held, prefixes, overlapped>>
      /\ ~Importing(t) /\ Updating(t) /\ Answer(t) /\ refreshed' = TRUE
      /\ vendor' = [m \in Macs |-> IF vendor[m] = "absent" THEN "absent" ELSE prefixes]
  BY DEF UpdateRows, Importing, Updating
<1>2. /\ RequestsOK' /\ req'[t].pc = "idle" /\ req'[t].session = 0
      /\ \A u \in Threads \ {t} : req'[u] = req[u]
  BY <1>0, <1>1, Answered DEF Idle, At
<1>3. Types' /\ LiveOK' /\ ImportsOK' /\ StartsApart' /\ HoldersRecord' /\ Live' = Live
  <2>1. /\ prefixes' \in Tables /\ vendor' \in [Macs -> Tables \cup {"absent"}]
        /\ refreshed' \in BOOLEAN /\ overlapped' \subseteq {"start", "update"}
    BY <1>0, <1>1 DEF Types
  <2> QED
    BY <2>1, <1>1, <1>2, CapturesLeftAlone
<1>4. UpdatesApart'
  <2> SUFFICES ASSUME overlapped = {} PROVE UpdatesApart'
    BY <1>1 DEF UpdatesApart
  <2>1. /\ Live = {} /\ \A u \in Threads \ {t} : ~Busy(u)
        /\ \A w \in Recorders : held[w] = NotHeld
    BY <1>1, UpdateAlone
  <2>2. \A u \in Threads : ~Busy(u)' /\ ~Updating(u)'
    BY <1>2, <2>1 DEF Busy, Updating
  <2>3. \A u \in Threads : req'[u].pc # "loading"
    BY <2>2 DEF Updating
  <2>4. VendorsCurrent'
    BY <1>1 DEF VendorsCurrent
  <2> QED
    BY <1>1, <1>3, <2>1, <2>2, <2>3, <2>4 DEF UpdatesApart
<1> QED
  BY <1>2, <1>3, <1>4 DEF ControlInv

-----------------------------------------------------------------------------
(* The process is started again, with nothing in progress.                 *)
LEMMA RelaunchStep ==
  ASSUME ControlInv, Relaunch
  PROVE  ControlInv' /\ Live' = {}
<1>0. RequestsOK /\ Types
  BY DEF ControlInv
<1>1. /\ thread' = 0 /\ stop_event' = FALSE /\ session_id' = 0 /\ refreshed' = FALSE
      /\ prefixes' \in Tables
      /\ UNCHANGED <<sessions, vendor, overlapped>>
      /\ req' = [t \in Threads |-> Idle]
      /\ held' = [w \in Recorders |-> NotHeld]
      /\ reader' = [c \in 1..MaxReaders |-> IF reader[c] = "none" THEN "none" ELSE "gone"]
  BY DEF Relaunch, Tables
<1>2. RequestsOK' /\ \A t \in Threads : req'[t] = Idle /\ req'[t].pc = "idle"
  <2>1. Idle \in Requests /\ Consistent(Idle) /\ Idle.pc = "idle"
    BY DEF Idle, At, Requests, Places, Kinds, FilesOrNone, Consistent
  <2> QED
    BY <2>1, <1>1 DEF RequestsOK, Consistent
<1>3. Live' = {}
  BY <1>1 DEF Live
<1>4. Types'
  <2>1. reader' \in [1..MaxReaders -> {"none", "reading", "draining", "gone"}]
    BY <1>1
  <2>2. held' \in [Recorders -> [mac : Macs, found : Tables] \cup {NotHeld}]
    BY <1>1
  <2>3. session_id' \in 0..Len(sessions') /\ thread' \in 0..MaxReaders
    BY <1>0, <1>1, ControlAssumption DEF Types, ControlAssumption
  <2> QED
    BY <2>1, <2>2, <2>3, <1>0, <1>1 DEF Types
<1>5. LiveOK'
  BY <1>1, <1>2, <1>3 DEF LiveOK
<1>6. ImportsOK'
  BY <1>2 DEF ImportsOK, Importing
<1>7. StartsApart'
  BY <1>1, <1>2, <1>3 DEF ControlInv, StartsApart, Starting
<1>8. HoldersRecord'
  BY <1>1 DEF HoldersRecord
<1>9. UpdatesApart'
  BY <1>1, <1>2 DEF UpdatesApart, Updating, VendorsCurrent
<1> QED
  BY <1>2, <1>3, <1>4, <1>5, <1>6, <1>7, <1>8, <1>9 DEF ControlInv

LEMMA ControlStart == Init => ControlInv
<1> SUFFICES ASSUME Init PROVE ControlInv
  OBVIOUS
<1>1. RequestsOK /\ \A t \in Threads : req[t].pc = "idle"
  <2>1. Idle \in Requests /\ Consistent(Idle) /\ Idle.pc = "idle"
    BY DEF Idle, At, Requests, Places, Kinds, FilesOrNone, Consistent
  <2> QED
    BY <2>1 DEF Init, ControlInit, RequestsOK
<1>2. Live = {} /\ thread = 0 /\ session_id = 0 /\ sessions = <<>> /\ refreshed = FALSE
  BY DEF Init, ControlInit, Live
<1>3. \A w \in Recorders : held[w] = NotHeld
  BY DEF Init, ControlInit
<1>4. Types
  <2>1. held \in [Recorders -> [mac : Macs, found : Tables] \cup {NotHeld}]
    BY DEF Init, ControlInit
  <2>2. sessions \in Seq(Sessions) /\ session_id \in 0..Len(sessions)
    BY <1>2
  <2>3. thread \in 0..MaxReaders
    BY <1>2, ControlAssumption DEF ControlAssumption
  <2> QED
    BY <2>1, <2>2, <2>3, <1>2 DEF Init, ControlInit, Types, Tables
<1>5. LiveOK
  BY <1>1, <1>2 DEF LiveOK
<1>6. ImportsOK
  BY <1>1 DEF ImportsOK, Importing
<1>7. StartsApart
  <2>1. 1..Len(sessions) = {}
    BY <1>2
  <2> QED
    BY <2>1, <1>1, <1>2 DEF StartsApart, Starting
<1>8. HoldersRecord
  BY <1>3 DEF HoldersRecord
<1>9. UpdatesApart
  BY <1>1, <1>2, <1>3 DEF UpdatesApart, Updating, VendorsCurrent
<1> QED
  BY <1>1, <1>4, <1>5, <1>6, <1>7, <1>8, <1>9 DEF ControlInv

LEMMA ControlUnchanged ==
  ASSUME ControlInv, UNCHANGED controlVars
  PROVE  ControlInv'
<1>1. UNCHANGED <<req, reader, thread, stop_event, session_id, sessions, prefixes, vendor,
                 refreshed, held, overlapped>>
  BY DEF controlVars, captureVars, vendorVars
<1>2. Live' = Live
  BY <1>1 DEF Live
<1>3. RequestsOK'
  BY <1>1 DEF ControlInv, RequestsOK, Consistent
<1>4. Types'
  BY <1>1 DEF ControlInv, Types
<1>5. LiveOK'
  BY <1>1, <1>2 DEF ControlInv, LiveOK
<1>6. ImportsOK'
  BY <1>1 DEF ControlInv, ImportsOK, Importing
<1>7. StartsApart'
  BY <1>1, <1>2 DEF ControlInv, StartsApart, Starting
<1>8. HoldersRecord'
  BY <1>1, <1>2 DEF ControlInv, HoldersRecord, Importing
<1>9. UpdatesApart'
  BY <1>1, <1>2 DEF ControlInv, UpdatesApart, Updating, Busy, VendorsCurrent
<1> QED
  BY <1>3, <1>4, <1>5, <1>6, <1>7, <1>8, <1>9 DEF ControlInv

LEMMA ControlNextStep == ControlInv /\ [Next]_vars => ControlInv'
<1> SUFFICES ASSUME ControlInv, [Next]_vars PROVE ControlInv'
  OBVIOUS
<1>1. ASSUME NEW t \in Threads,
             \/ StartCheck(t) \/ StartReset(t) \/ StartSession(t)
             \/ StartFails(t) \/ StartSpawn(t) \/ Stop(t)
      PROVE  ControlInv'
  BY <1>1, StartCheckStep, StartResetStep, StartSessionStep, StartFailsStep,
     StartSpawnStep, StopStep
<1>2. ASSUME NEW t \in Threads,
             ImportBegin(t) \/ ImportBatch(t) \/ ImportEnds(t) \/ ImportFails(t)
      PROVE  ControlInv'
  BY <1>2, ImportBeginStep, ImportBatchStep, ImportEndsStep, ImportFailsStep
<1>3. ASSUME NEW t \in Threads,
             \/ UpdateCheck(t) \/ UpdateFails(t) \/ UpdateClears(t)
             \/ UpdateLoads(t) \/ UpdateRows(t)
      PROVE  ControlInv'
  BY <1>3, UpdateCheckStep, UpdateFailsStep, UpdateClearsStep, UpdateLoadsStep,
     UpdateRowsStep
<1>4. ASSUME NEW c \in 1..MaxReaders, ReaderStops(c) \/ ReaderEnds(c)
      PROVE  ControlInv'
  BY <1>4, ReaderStopsStep, ReaderEndsStep
<1>5. ASSUME NEW w \in Recorders, LookUp(w) \/ WriteRow(w)
      PROVE  ControlInv'
  BY <1>5, LookUpStep, WriteRowStep
<1>6. CASE ControlNext
  BY <1>6, <1>1, <1>2, <1>3, <1>4, <1>5 DEF ControlNext
<1>7. CASE UNCHANGED controlVars
  BY <1>7, ControlUnchanged
<1>8. CASE Relaunch
  BY <1>8, RelaunchStep
<1> QED
  BY <1>6, <1>7, <1>8 DEF Next, vars

(* The invariant of everything that the requests start.                     *)
THEOREM ControlInvariance == Spec => []ControlInv
BY ControlStart, ControlNextStep, PTL DEF Spec

-----------------------------------------------------------------------------
(* The guard: whose requests are answered.                                 *)

GuardTypes == launch \in 1..MaxLaunches /\ jar \in 0..launch /\ tab \in 0..launch

LEMMA GuardStart == Init => GuardTypes
BY GuardAssumption DEF Init, GuardInit, GuardTypes, GuardAssumption

LEMMA GuardStep == GuardTypes /\ [Next]_vars => GuardTypes'
<1> SUFFICES ASSUME GuardTypes, [Next]_vars PROVE GuardTypes'
  OBVIOUS
<1>0. MaxLaunches \in Nat
  BY GuardAssumption DEF GuardAssumption
<1>1. CASE UNCHANGED guardVars
  BY <1>1 DEF guardVars, GuardTypes
<1>2. CASE Reload
  BY <1>0, <1>2 DEF Reload, GuardTypes
<1>3. ASSUME NEW n \in 1..launch, OpenUrl(n) PROVE GuardTypes'
  BY <1>0, <1>3 DEF OpenUrl, GuardTypes
<1>4. CASE Relaunch
  BY <1>0, <1>4 DEF Relaunch, Relaunched, GuardTypes
<1> QED
  BY <1>1, <1>2, <1>3, <1>4 DEF Next, vars

(* The browser's cookie and page are of a launch there has been.            *)
THEOREM GuardInvariance == Spec => []GuardTypes
BY GuardStart, GuardStep, PTL DEF Spec

(* Every variable keeps its type, and an import has an open session to     *)
(* itself: for any number of threads, captures, sessions and launches.     *)
THEOREM ControlTypes == Spec => []TypeOK
<1>1. ControlInv /\ GuardTypes => TypeOK
  <2> SUFFICES ASSUME ControlInv, GuardTypes PROVE TypeOK
    OBVIOUS
  <2>1. \A t \in Threads : req[t].pc = "idle" <=> req[t].kind = "none"
    BY DEF ControlInv, RequestsOK, Consistent
  <2>2. ASSUME NEW t \in Threads, req[t].kind = "import"
        PROVE  /\ sessions[req[t].session].open
               /\ \A u \in Threads \ {t} : req[u].session # req[t].session
    <3>1. Importing(t)
      BY <2>2 DEF ControlInv, RequestsOK, Consistent, Importing
    <3> QED
      BY <3>1 DEF ControlInv, ImportsOK
  <2>3. Live # {} => session_id # 0
    BY DEF ControlInv, LiveOK
  <2> QED
    BY <2>1, <2>2, <2>3 DEF ControlInv, Types, Tables, GuardTypes, TypeOK
<1> QED
  BY <1>1, ControlInvariance, GuardInvariance, PTL

(* Unless two starts overlap, there is one reader at most, it is the one   *)
(* that stop looks at, and no live session has the frames of two.          *)
THEOREM OneCapture == Spec => []CapturesApart
<1>1. ControlInv => CapturesApart
  <2> SUFFICES ASSUME ControlInv, "start" \notin overlapped,
                      NEW n \in DOMAIN sessions, sessions[n].kind = "live"
               PROVE  Live \subseteq {thread} /\ Cardinality(sessions[n].by) <= 1
    BY DEF CapturesApart, ControlInv, StartsApart
  <2>1. Live \subseteq {thread}
    BY DEF ControlInv, StartsApart
  <2>2. n \in 1..Len(sessions)
    BY DEF ControlInv, Types
  <2>3. \A a, b \in sessions[n].by : a = b
    BY <2>2 DEF ControlInv, StartsApart
  <2>4. Cardinality(sessions[n].by) <= 1
    <3>1. CASE sessions[n].by = {}
      BY <3>1, FS_EmptySet
    <3>2. CASE sessions[n].by # {}
      <4>1. PICK a \in sessions[n].by : sessions[n].by = {a}
        BY <2>3, <3>2
      <4> QED
        BY <4>1, FS_Singleton
    <3> QED
      BY <3>1, <3>2
  <2> QED
    BY <2>1, <2>4
<1> QED
  BY <1>1, ControlInvariance, PTL

(* A stop stays in force until its capture has ended, unless two starts    *)
(* overlap.                                                                *)
THEOREM StopsLast == Spec => StopNotForgotten
<1>1. ControlInv /\ [Next]_vars
        => ["start" \notin overlapped' /\ stop_event /\ ~stop_event' => Live' = {}]_vars
  <2> SUFFICES ASSUME ControlInv, [Next]_vars,
                      "start" \notin overlapped', stop_event, ~stop_event'
               PROVE  Live' = {}
    OBVIOUS
  <2>1. CASE Relaunch
    BY <2>1, RelaunchStep
  <2>2. ASSUME NEW t \in Threads, StartReset(t) PROVE Live' = {}
    <3>1. Starting(t) /\ UNCHANGED <<reader, overlapped>>
      BY <2>2 DEF StartReset, Starting
    <3>2. Live = {}
      BY <3>1 DEF ControlInv, StartsApart
    <3> QED
      BY <3>1, <3>2 DEF Live
  <2>3. ASSUME NEW t \in Threads, Stop(t) PROVE FALSE
    BY <2>3 DEF Stop
  <2>4. ASSUME ~Relaunch, \A t \in Threads : ~StartReset(t) /\ ~Stop(t)
        PROVE  UNCHANGED stop_event
    <3>1. CASE UNCHANGED controlVars
      BY <3>1 DEF controlVars, captureVars
    <3>2. ASSUME NEW t \in Threads,
                 StartCheck(t) \/ StartSession(t) \/ StartFails(t) \/ StartSpawn(t)
          PROVE  UNCHANGED stop_event
      BY <3>2 DEF StartCheck, StartSession, StartFails, StartSpawn, captureVars
    <3>3. ASSUME NEW t \in Threads,
                 ImportBegin(t) \/ ImportBatch(t) \/ ImportEnds(t) \/ ImportFails(t)
          PROVE  UNCHANGED stop_event
      BY <3>3 DEF ImportBegin, ImportBatch, ImportEnds, ImportFails, captureVars
    <3>4. ASSUME NEW t \in Threads,
                 \/ UpdateCheck(t) \/ UpdateFails(t) \/ UpdateClears(t)
                 \/ UpdateLoads(t) \/ UpdateRows(t)
          PROVE  UNCHANGED stop_event
      BY <3>4 DEF UpdateCheck, UpdateFails, UpdateClears, UpdateLoads, UpdateRows, captureVars
    <3>5. ASSUME NEW c \in 1..MaxReaders, ReaderStops(c) \/ ReaderEnds(c)
          PROVE  UNCHANGED stop_event
      BY <3>5 DEF ReaderStops, ReaderEnds
    <3>6. ASSUME NEW w \in Recorders, LookUp(w) \/ WriteRow(w)
          PROVE  UNCHANGED stop_event
      BY <3>6 DEF LookUp, WriteRow, captureVars
    <3>7. CASE ControlNext
      BY <3>7, <2>4, <3>2, <3>3, <3>4, <3>5, <3>6 DEF ControlNext
    <3> QED
      BY <3>1, <3>7, <2>4 DEF Next, vars
  <2> QED
    BY <2>1, <2>2, <2>3, <2>4
<1> QED
  BY <1>1, ControlInvariance, PTL DEF Spec, StopNotForgotten

(* After an update the vendors are those of the table, and stay so, unless *)
(* requests have run into it.                                              *)
THEOREM VendorsOfTheTable == Spec => []VendorsCurrent
<1>1. ControlInv => VendorsCurrent
  BY DEF ControlInv, UpdatesApart, VendorsCurrent
<1> QED
  BY <1>1, ControlInvariance, PTL

LEMMA RequestFields ==
  ASSUME NEW b, NEW m, NEW h, NEW o, NEW x, NEW c
  PROVE  LET r == Request(b, m, h, o, x, c)
         IN /\ r.by = b /\ r.method = m /\ r.host = h /\ r.origin = o
            /\ r.header = x /\ r.cookie = c
BY DEF Request

LEMMA PrintedNames ==
  ASSUME NEW n \in Allowed, n # "null"
  PROVE  host_header_ok(AsPrinted(n)) /\ origin_ok(n)
<1>1. host_header_ok(AsPrinted(n))
  BY DEF AsPrinted, Typed, host_header_ok, bare_host
<1> QED
  BY <1>1 DEF origin_ok

LEMMA WhoWrites ==
  ASSUME GuardTypes, NEW who
  PROVE  WritesBy(who) =
           {r \in PageRequests(jar, tab) \cup ToolRequests(launch) \cup OtherPageRequests(jar) :
              r.method = "POST" /\ Permitted(r, launch) /\ r.by = who}
<1>1. launch \in 1..MaxLaunches /\ jar \in 0..MaxLaunches /\ tab \in 0..MaxLaunches
  BY GuardAssumption DEF GuardTypes, GuardAssumption
<1> DEFINE S(l, j, t) == {r \in PageRequests(j, t) \cup ToolRequests(l) \cup OtherPageRequests(j) :
                            r.method = "POST" /\ Permitted(r, l)}
<1>2. Writes = [l \in 1..MaxLaunches |-> [j \in 0..MaxLaunches |-> [t \in 0..MaxLaunches |-> S(l, j, t)]]]
  BY DEF Writes
<1> HIDE DEF S
<1>3. Writes[launch][jar][tab] = S(launch, jar, tab)
  BY <1>1, <1>2
<1>4. WritesBy(who) = {r \in S(launch, jar, tab) : r.by = who}
  BY <1>3 DEF WritesBy
<1> QED
  BY <1>4 DEF S

(* A request that changes something is answered for this launch's page and *)
(* for a program that knows its token, whatever the names and addresses.   *)
THEOREM OwnPageOnly == Spec => []OnlyOwnPage
<1>1. GuardTypes => OnlyOwnPage
  <2> SUFFICES ASSUME GuardTypes PROVE OnlyOwnPage
    OBVIOUS
  <2>0. launch \in Nat \ {0} /\ tab \in Nat
    BY GuardAssumption DEF GuardTypes, GuardAssumption
  <2>1. ASSUME NEW r \in PageRequests(jar, tab)
        PROVE  r.by = "page" /\ r.header = tab
    BY RequestFields DEF PageRequests
  <2>2. ASSUME NEW r \in ToolRequests(launch)
        PROVE  r.by = "tool"
    BY RequestFields DEF ToolRequests
  <2>3. ASSUME NEW r \in OtherPageRequests(jar)
        PROVE  r.by = "stranger" /\ r.header = 0
    BY RequestFields DEF OtherPageRequests
  <2>4. ASSUME NEW r, r.method = "POST", Permitted(r, launch)
        PROVE  r.header # 0 /\ r.header = launch
    BY <2>4 DEF Permitted, PostToken, token_ok
  <2>5. WritesBy("stranger") = {}
    <3> SUFFICES ASSUME NEW r \in WritesBy("stranger") PROVE FALSE
      OBVIOUS
    <3>1. /\ r \in PageRequests(jar, tab) \cup ToolRequests(launch) \cup OtherPageRequests(jar)
          /\ r.method = "POST" /\ Permitted(r, launch) /\ r.by = "stranger"
      BY WhoWrites
    <3> QED
      BY <3>1, <2>1, <2>2, <2>3, <2>4
  <2>6. \A r \in WritesBy("tool") : r.header = launch
    <3>1. \A r \in WritesBy("tool") : r.method = "POST" /\ Permitted(r, launch)
      BY WhoWrites
    <3> QED
      BY <3>1, <2>4
  <2>7. ASSUME WritesBy("page") # {} PROVE tab = launch
    <3>1. PICK r : r \in WritesBy("page")
      BY <2>7
    <3>2. /\ r \in PageRequests(jar, tab) \cup ToolRequests(launch) \cup OtherPageRequests(jar)
          /\ r.method = "POST" /\ Permitted(r, launch) /\ r.by = "page"
      BY <3>1, WhoWrites
    <3> QED
      BY <3>2, <2>1, <2>2, <2>3, <2>4
  <2>8. ASSUME tab = launch PROVE WritesBy("page") # {}
    <3> DEFINE r == Request("page", "POST", AsPrinted("localhost"), "localhost", tab, jar)
    <3>1. "localhost" \in Allowed
      BY DEF Allowed, Loopback
    <3>2. /\ r.by = "page" /\ r.method = "POST" /\ r.host = AsPrinted("localhost")
          /\ r.origin = "localhost" /\ r.header = tab
      BY RequestFields
    <3>3. r \in PageRequests(jar, tab)
      BY <3>1 DEF PageRequests, Methods
    <3> HIDE DEF r
    <3>4. host_header_ok(r.host) /\ origin_ok(r.origin)
      BY <3>1, <3>2, PrintedNames
    <3>5. PostToken(r, launch)
      BY <2>0, <2>8, <3>2 DEF PostToken, token_ok
    <3>6. Permitted(r, launch)
      BY <3>2, <3>4, <3>5 DEF Permitted
    <3>7. r \in WritesBy("page")
      BY <3>2, <3>3, <3>6, WhoWrites
    <3> QED
      BY <3>7
  <2> QED
    BY <2>5, <2>6, <2>7, <2>8 DEF OnlyOwnPage
<1> QED
  BY <1>1, GuardInvariance, PTL

-----------------------------------------------------------------------------
(* What an import has written is what its file has, up to a frame.         *)

LEMMA NothingObserved ==
  ASSUME NEW f, NEW a \in Nat, NEW b \in Nat, b < a
  PROVE  ObservedIn(f, a, b) = <<>>
<1>1. Observations(f, a, b) = {}
  BY DEF Observations
<1>2. ObservedIn(f, a, b) \in Seq(Nat) /\ Len(ObservedIn(f, a, b)) = 0
  <2>1. /\ ObservedIn(f, a, b) \in Seq(Nat)
        /\ Len(ObservedIn(f, a, b)) = Cardinality(Observations(f, a, b))
    BY ObservedList
  <2> QED
    BY <2>1, <1>1, FS_EmptySet
<1> QED
  BY <1>2

LEMMA ObservedFurther ==
  ASSUME NEW f, NEW p \in Nat, NEW n \in Nat, p <= n
  PROVE  ObservedIn(f, 1, p) \o ObservedIn(f, p + 1, n) = ObservedIn(f, 1, n)
<1> DEFINE S == Observations(f, 1, p)
           T == Observations(f, p + 1, n)
           U == Observations(f, 1, n)
           s == ObservedIn(f, 1, p)
           t == ObservedIn(f, p + 1, n)
           u == ObservedIn(f, 1, n)
           w == s \o t
<1>1. U = S \cup T /\ S \cap T = {} /\ S \in SUBSET Nat /\ T \in SUBSET Nat
  BY DEF Observations
<1>2. \A x \in S, y \in T : x < y
  BY DEF Observations
<1>3. /\ IsFiniteSet(S) /\ Cardinality(S) \in Nat /\ s \in [1..Cardinality(S) -> S]
      /\ Ascending(s) /\ s \in Seq(Nat) /\ Len(s) = Cardinality(S)
  BY ObservedList, FS_CardinalityType
<1>4. /\ IsFiniteSet(T) /\ Cardinality(T) \in Nat /\ t \in [1..Cardinality(T) -> T]
      /\ Ascending(t) /\ t \in Seq(Nat) /\ Len(t) = Cardinality(T)
  <2>1. p + 1 \in Nat
    OBVIOUS
  <2> QED
    BY <2>1, ObservedList, FS_CardinalityType
<1>5. /\ IsFiniteSet(U) /\ u \in [1..Cardinality(U) -> U] /\ Ascending(u)
  BY ObservedList
<1> HIDE DEF S, T, U, s, t, u
<1>6. Cardinality(U) = Cardinality(S) + Cardinality(T)
  <2>1. Cardinality(S \cap T) = 0
    BY <1>1, FS_EmptySet
  <2>2. Cardinality(S \cup T) = Cardinality(S) + Cardinality(T) - Cardinality(S \cap T)
    BY <1>3, <1>4, FS_Union
  <2> QED
    BY <2>1, <2>2, <1>1, <1>3, <1>4
<1>7. w \in Seq(Nat) /\ Len(w) = Cardinality(U)
  <2>1. s \in Seq(Nat) /\ t \in Seq(Nat)
    BY <1>3, <1>4
  <2>2. w \in Seq(Nat) /\ Len(w) = Len(s) + Len(t)
    BY <2>1
  <2> QED
    BY <2>2, <1>3, <1>4, <1>6
<1>71. /\ s \in Seq(Nat) /\ t \in Seq(Nat)
       /\ Len(s) = Cardinality(S) /\ Len(t) = Cardinality(T)
  BY <1>3, <1>4
<1>72. /\ \A i \in 1..Len(s) : w[i] = s[i]
       /\ \A i \in 1..Len(t) : w[i + Len(s)] = t[i]
  BY <1>71
<1>8. ASSUME NEW i \in 1..Cardinality(U)
      PROVE  IF i <= Cardinality(S) THEN i \in 1..Cardinality(S) /\ w[i] = s[i] /\ w[i] \in S
             ELSE /\ i - Cardinality(S) \in 1..Cardinality(T)
                  /\ w[i] = t[i - Cardinality(S)] /\ w[i] \in T
  <2>1. CASE i <= Cardinality(S)
    <3>1. i \in 1..Cardinality(S)
      BY <2>1, <1>3
    <3>2. w[i] = s[i]
      BY <3>1, <1>71, <1>72
    <3> QED
      BY <2>1, <3>1, <3>2, <1>3
  <2>2. CASE ~(i <= Cardinality(S))
    <3>1. i - Cardinality(S) \in 1..Cardinality(T)
      BY <2>2, <1>3, <1>4, <1>6
    <3>2. w[i] = t[i - Cardinality(S)]
      <4>1. (i - Cardinality(S)) + Len(s) = i
        BY <1>3
      <4>2. w[(i - Cardinality(S)) + Len(s)] = t[i - Cardinality(S)]
        BY <3>1, <1>71, <1>72
      <4> QED
        BY <4>1, <4>2
    <3> QED
      BY <2>2, <3>1, <3>2, <1>4
  <2> QED
    BY <2>1, <2>2
<1>9. w \in [1..Cardinality(U) -> U]
  <2>1. \A i \in 1..Cardinality(U) : w[i] \in U
    BY <1>1, <1>8
  <2> HIDE DEF w
  <2>2. w \in [1..Cardinality(U) -> Nat]
    BY <1>7
  <2> QED
    BY <2>1, <2>2
<1>10. Ascending(w)
  <2> SUFFICES ASSUME NEW i \in 1..Cardinality(U), NEW j \in 1..Cardinality(U), i < j
               PROVE  w[i] < w[j]
    BY <1>9 DEF Ascending
  <2> HIDE DEF w
  <2>1. CASE j <= Cardinality(S)
    <3>1. i <= Cardinality(S)
      BY <2>1, <1>3
    <3>2. /\ i \in 1..Cardinality(S) /\ j \in 1..Cardinality(S)
          /\ w[i] = s[i] /\ w[j] = s[j]
      BY <2>1, <3>1, <1>8
    <3> QED
      BY <3>2, <1>3 DEF Ascending
  <2>2. CASE ~(i <= Cardinality(S))
    <3>1. ~(j <= Cardinality(S))
      BY <2>2, <1>3
    <3>2. /\ i - Cardinality(S) \in 1..Cardinality(T) /\ w[i] = t[i - Cardinality(S)]
          /\ j - Cardinality(S) \in 1..Cardinality(T) /\ w[j] = t[j - Cardinality(S)]
      BY <2>2, <3>1, <1>8
    <3>3. i - Cardinality(S) < j - Cardinality(S)
      BY <1>3
    <3> QED
      BY <3>2, <3>3, <1>4 DEF Ascending
  <2>3. CASE i <= Cardinality(S) /\ ~(j <= Cardinality(S))
    BY <2>3, <1>2, <1>8
  <2> QED
    BY <2>1, <2>2, <2>3
<1>11. U \in SUBSET Nat
  BY <1>1
<1>12. w = u
  <2> HIDE DEF w
  <2> QED
    BY <1>5, <1>9, <1>10, <1>11, AscendingIsOne
<1> QED
  BY <1>12 DEF s, t, u

(* A whole batch more leaves whole batches.                                *)
LEMMA OneBatchMore ==
  ASSUME NEW B \in Nat \ {0}, NEW k \in Nat, k % B = 0
  PROVE  (k + B) % B = 0
<1> DEFINE q == k \div B
           p == (k + B) \div B
           r == (k + B) % B
           d == q + 1 - p
<1>1. q \in Nat /\ k = B * q
  <2>1. k = B * q + (k % B) /\ q \in Nat
    OBVIOUS
  <2>2. B * q \in Nat
    BY <2>1
  <2> HIDE DEF q
  <2> QED
    BY <2>1, <2>2
<1>2. p \in Nat /\ k + B = B * p + r /\ r \in 0..(B - 1)
  <2>1. k + B \in Nat
    OBVIOUS
  <2>2. PICK m \in Nat : m = k + B
    BY <2>1
  <2>3. m \div B \in Nat /\ m = B * (m \div B) + (m % B) /\ m % B \in 0..(B - 1)
    OBVIOUS
  <2> QED
    BY <2>2, <2>3
<1> HIDE DEF q, p, r
<1>3. d \in Int /\ B * q + B - B * p = B * d
  BY <1>1, <1>2
<1>4. r = B * d /\ r \in Nat /\ r < B
  <2>1. B * p \in Nat /\ B * q \in Nat
    BY <1>1, <1>2
  <2> QED
    BY <2>1, <1>1, <1>2, <1>3
<1> HIDE DEF d
<1>5. ~(d >= 1)
  <2> SUFFICES ASSUME d >= 1 PROVE FALSE
    OBVIOUS
  <2>1. B * d >= B
    BY <1>3
  <2> QED
    BY <2>1, <1>4
<1>6. ~(d <= -1)
  <2> SUFFICES ASSUME d <= -1 PROVE FALSE
    OBVIOUS
  <2>1. B * d <= -B
    BY <1>3
  <2> QED
    BY <2>1, <1>4
<1>7. d = 0
  BY <1>3, <1>5, <1>6
<1> QED
  BY <1>4, <1>7 DEF r

Imported(s, k) ==
  /\ s.frames = ObservedIn(s.file, 1, k)
  /\ Len(s.frames) % BatchSize = 0 \/ k = Len(s.file)

Prefix(s) == \E k \in 0..Len(s.file) : Imported(s, k)

(* What an import in progress has written so far: what its file has up to  *)
(* where it is, in whole batches.                                          *)
Progress(s, r) ==
  /\ s.file = r.file /\ r.pos <= Len(s.file)
  /\ s.frames = ObservedIn(s.file, 1, r.pos)
  /\ Len(s.frames) % BatchSize = 0

ImportInv ==
  /\ \A n \in 1..Len(sessions) : Prefix(sessions[n])
  /\ \A t \in Threads : Importing(t) => Progress(sessions[req[t].session], req[t])

(* A session without frames has none of its file yet.                      *)
LEMMA Fresh ==
  ASSUME NEW s, s.file \in Seq({"obs", "none", "bad", "cut"}), s.frames = <<>>
  PROVE  Prefix(s) /\ Imported(s, 0) /\ Len(s.frames) % BatchSize = 0
<1>1. ObservedIn(s.file, 1, 0) = <<>>
  BY NothingObserved
<1>2. Len(s.frames) % BatchSize = 0
  <2>1. 0 % BatchSize = 0
    BY ControlAssumption DEF ControlAssumption
  <2> QED
    BY <2>1
<1>3. 0 \in 0..Len(s.file)
  OBVIOUS
<1> QED
  BY <1>1, <1>2, <1>3 DEF Prefix, Imported

(* Steps that write no imported frames.                                    *)
LEMMA NoImportWritten ==
  ASSUME ControlInv, ImportInv, Len(sessions') = Len(sessions),
         \A n \in 1..Len(sessions) : /\ sessions'[n].file = sessions[n].file
                                     /\ sessions'[n].frames = sessions[n].frames,
         \A u \in Threads : Importing(u)' => Importing(u) /\ req'[u] = req[u]
  PROVE  ImportInv'
<1>1. ASSUME NEW n \in 1..Len(sessions') PROVE Prefix(sessions'[n])
  BY DEF ImportInv, Prefix, Imported
<1>2. ASSUME NEW t \in Threads, Importing(t)'
      PROVE  Progress(sessions'[req'[t].session], req'[t])
  <2>1. Importing(t) /\ req'[t] = req[t] /\ Progress(sessions[req[t].session], req[t])
    BY <1>2 DEF ImportInv
  <2>2. req[t].session \in 1..Len(sessions)
    BY <2>1, ImportSessionType
  <2> QED
    BY <2>1, <2>2 DEF Progress
<1> QED
  BY <1>1, <1>2 DEF ImportInv, Progress, Prefix, Imported

(* Steps that open a session.                                              *)
LEMMA SessionAdded ==
  ASSUME ControlInv, ImportInv, Len(sessions') = Len(sessions) + 1,
         \A n \in 1..Len(sessions) : sessions'[n] = sessions[n],
         sessions'[Len(sessions) + 1].frames = <<>>,
         sessions'[Len(sessions) + 1].file \in Seq({"obs", "none", "bad", "cut"}),
         \A u \in Threads : Importing(u)' =>
           \/ Importing(u) /\ req'[u] = req[u]
           \/ /\ req'[u].session = Len(sessions) + 1 /\ req'[u].pos = 0
              /\ req'[u].file = sessions'[Len(sessions) + 1].file
  PROVE  ImportInv'
<1>0. Len(sessions) \in Nat
  BY DEF ControlInv, Types
<1> DEFINE new == sessions'[Len(sessions) + 1]
<1>1. Prefix(new) /\ Imported(new, 0) /\ Len(new.frames) % BatchSize = 0
  BY Fresh
<1>2. ASSUME NEW n \in 1..Len(sessions') PROVE Prefix(sessions'[n])
  <2>1. CASE n = Len(sessions) + 1
    BY <2>1, <1>1
  <2>2. CASE n # Len(sessions) + 1
    <3>1. n \in 1..Len(sessions)
      BY <2>2, <1>0
    <3> QED
      BY <3>1 DEF ImportInv
  <2> QED
    BY <2>1, <2>2
<1>3. ASSUME NEW t \in Threads, Importing(t)'
      PROVE  Progress(sessions'[req'[t].session], req'[t])
  <2>1. CASE Importing(t) /\ req'[t] = req[t]
    <3>1. req[t].session \in 1..Len(sessions) /\ Progress(sessions[req[t].session], req[t])
      BY <2>1, ImportSessionType DEF ImportInv
    <3> QED
      BY <2>1, <3>1
  <2>2. CASE /\ req'[t].session = Len(sessions) + 1 /\ req'[t].pos = 0
             /\ req'[t].file = new.file
    <3>1. 0 <= Len(new.file)
      OBVIOUS
    <3> QED
      BY <2>2, <3>1, <1>1 DEF Progress, Imported
  <2> QED
    BY <1>3, <2>1, <2>2
<1> QED
  BY <1>2, <1>3 DEF ImportInv, Progress, Prefix, Imported

(* What an import writes follows on what it has written.                   *)
LEMMA WrittenFurther ==
  ASSUME ControlInv, ImportInv, NEW t \in Threads, Importing(t), NEW n \in Nat,
         req[t].pos <= n
  PROVE  LET s == sessions[req[t].session]
             x == ObservedIn(req[t].file, req[t].pos + 1, n)
         IN /\ s.file = req[t].file
            /\ s.frames \o x = ObservedIn(s.file, 1, n)
            /\ s.frames \in Seq(Nat) /\ x \in Seq(Nat) /\ Len(s.frames) % BatchSize = 0
<1> DEFINE s == sessions[req[t].session]
           x == ObservedIn(req[t].file, req[t].pos + 1, n)
<1>1. Progress(s, req[t])
  BY DEF ImportInv
<1>2. req[t].pos \in Nat /\ req[t].pos + 1 \in Nat
  BY ImportedFile DEF ControlInv
<1>3. s \in Sessions
  BY ImportSessionType
<1>4. s.frames \in Seq(Nat)
  BY <1>3 DEF Sessions
<1>5. x \in Seq(Nat)
  BY <1>2, ObservedList
<1>6. ObservedIn(req[t].file, 1, req[t].pos) \o x = ObservedIn(req[t].file, 1, n)
  BY <1>2, ObservedFurther
<1> HIDE DEF x, s
<1>7. s.file = req[t].file /\ s.frames = ObservedIn(req[t].file, 1, req[t].pos)
      /\ Len(s.frames) % BatchSize = 0
  BY <1>1 DEF Progress
<1> QED
  BY <1>4, <1>5, <1>6, <1>7 DEF x, s

(* An import that writes or ends leaves the other sessions as they are.    *)
LEMMA OneSessionWritten ==
  ASSUME ControlInv, ImportInv, NEW t \in Threads, Importing(t),
         NEW s \in Sessions, Prefix(s),
         sessions' = [sessions EXCEPT ![req[t].session] = s],
         \A u \in Threads \ {t} : req'[u] = req[u],
         Importing(t)' => req'[t].session = req[t].session /\ Progress(s, req'[t])
  PROVE  ImportInv'
<1>1. /\ req[t].session \in 1..Len(sessions)
      /\ \A u \in Threads \ {t} : req[u].session # req[t].session
  BY DEF ControlInv, ImportsOK
<1>2. /\ Len(sessions') = Len(sessions) /\ sessions'[req[t].session] = s
      /\ \A n \in 1..Len(sessions) : n # req[t].session => sessions'[n] = sessions[n]
  BY <1>1, Rewritten DEF ControlInv
<1>3. ASSUME NEW n \in 1..Len(sessions') PROVE Prefix(sessions'[n])
  BY <1>2 DEF ImportInv
<1>4. ASSUME NEW u \in Threads, Importing(u)'
      PROVE  Progress(sessions'[req'[u].session], req'[u])
  <2>1. CASE u = t
    BY <2>1, <1>2, <1>4
  <2>2. CASE u # t
    <3>1. Importing(u) /\ req'[u] = req[u]
      BY <2>2, <1>4 DEF Importing
    <3>2. Progress(sessions[req[u].session], req[u]) /\ req[u].session \in 1..Len(sessions)
      BY <3>1, ImportSessionType DEF ImportInv
    <3> QED
      BY <2>2, <3>1, <3>2, <1>1, <1>2
  <2> QED
    BY <2>1, <2>2
<1> QED
  BY <1>3, <1>4 DEF ImportInv, Progress, Prefix, Imported

LEMMA BatchWritten ==
  ASSUME ControlInv, ImportInv, NEW t \in Threads, ImportBatch(t)
  PROVE  ImportInv'
<1> DEFINE f == req[t].file
           from == req[t].pos + 1
           i == req[t].session
<1>0. RequestsOK
  BY DEF ControlInv
<1>1. Importing(t)
  BY DEF ImportBatch, Importing
<1>2. PICK n \in from..Len(f) :
        /\ BatchAt(t, n)
        /\ sessions' = [sessions EXCEPT ![ImportSession(t)].frames = @ \o ObservedIn(f, from, n)]
        /\ req' = [req EXCEPT ![t].pos = n]
  BY DEF ImportBatch
<1>3. n \in Nat /\ req[t].pos <= n /\ n <= Len(f) /\ Len(f) \in Nat
  BY <1>0, ImportedFile
<1> DEFINE x == ObservedIn(f, from, n)
           old == sessions[i]
           s == [old EXCEPT !.frames = @ \o x]
<1>4. /\ old.file = f /\ old.frames \o x = ObservedIn(f, 1, n)
      /\ old.frames \in Seq(Nat) /\ x \in Seq(Nat) /\ Len(old.frames) % BatchSize = 0
  BY <1>1, <1>3, WrittenFurther
<1>5. Len(x) = BatchSize
  BY <1>2 DEF BatchAt
<1>6. sessions' = [sessions EXCEPT ![i] = s]
  BY <1>2 DEF ImportSession
<1>7. /\ req'[t].session = i /\ req'[t].pos = n /\ req'[t].file = f
      /\ \A u \in Threads \ {t} : req'[u] = req[u]
  BY <1>0, <1>2 DEF RequestsOK, Requests
<1>8. old \in Sessions
  BY <1>1, ImportSessionType
<1> HIDE DEF x, old
<1>9. old.frames \o x \in Seq(Nat) /\ Len(old.frames \o x) = Len(old.frames) + BatchSize
  <2>1. old.frames \in Seq(Nat) /\ x \in Seq(Nat)
    BY <1>4
  <2>2. old.frames \o x \in Seq(Nat) /\ Len(old.frames \o x) = Len(old.frames) + Len(x)
    BY <2>1
  <2> QED
    BY <2>2, <1>5
<1>10. s \in Sessions /\ s.file = f /\ s.frames = old.frames \o x
  BY <1>4, <1>8, <1>9 DEF Sessions
<1>11. Len(s.frames) % BatchSize = 0
  <2>1. Len(old.frames) \in Nat /\ BatchSize \in Nat \ {0}
    BY <1>4, ControlAssumption DEF ControlAssumption
  <2>2. (Len(old.frames) + BatchSize) % BatchSize = 0
    BY <2>1, <1>4, OneBatchMore
  <2> QED
    BY <2>2, <1>9, <1>10
<1> HIDE DEF s
<1>12. Progress(s, req'[t])
  BY <1>3, <1>4, <1>7, <1>10, <1>11 DEF Progress
<1>13. Prefix(s)
  <2>1. n \in 0..Len(s.file)
    BY <1>3, <1>10
  <2> QED
    BY <2>1, <1>4, <1>10, <1>11 DEF Prefix, Imported
<1> QED
  BY <1>1, <1>6, <1>7, <1>10, <1>12, <1>13, OneSessionWritten

LEMMA RestWritten ==
  ASSUME ControlInv, ImportInv, NEW t \in Threads, ImportEnds(t)
  PROVE  ImportInv'
<1> DEFINE f == req[t].file
           from == req[t].pos + 1
           i == req[t].session
<1>0. RequestsOK
  BY DEF ControlInv
<1>1. Importing(t) /\ Answer(t)
  BY DEF ImportEnds, Importing
<1>2. Len(f) \in Nat /\ req[t].pos <= Len(f)
  <2>1. Progress(sessions[i], req[t])
    BY <1>1 DEF ImportInv
  <2> QED
    BY <1>0, <2>1, ImportedFile DEF Progress
<1> DEFINE x == ObservedIn(f, from, Len(f))
           old == sessions[i]
           s == [old EXCEPT !.frames = @ \o x, !.open = FALSE]
<1>3. /\ old.file = f /\ old.frames \o x = ObservedIn(f, 1, Len(f))
      /\ old.frames \in Seq(Nat) /\ x \in Seq(Nat)
  BY <1>1, <1>2, WrittenFurther
<1>4. sessions' = [sessions EXCEPT ![i] = s]
  BY <1>1, ImportSessionType DEF ImportEnds, ImportSession
<1>5. req'[t].pc = "idle" /\ \A u \in Threads \ {t} : req'[u] = req[u]
  BY <1>0, <1>1, Answered DEF Idle, At
<1>6. old \in Sessions
  BY <1>1, ImportSessionType
<1>7. s \in Sessions /\ s.file = f /\ s.frames = old.frames \o x
  <2> HIDE DEF x, old
  <2> DEFINE both == old.frames \o x
  <2>0. old.frames \in Seq(Nat) /\ x \in Seq(Nat) /\ old.file = f
    BY <1>3
  <2>1. both \in Seq(Nat) /\ old.file = f
    BY <2>0
  <2>2. s = [old EXCEPT !.frames = both, !.open = FALSE]
    OBVIOUS
  <2> HIDE DEF both, s
  <2>3. s = [kind |-> old.kind, open |-> FALSE, by |-> old.by, file |-> old.file,
             frames |-> both]
    <3>1. old = [kind |-> old.kind, open |-> old.open, by |-> old.by, file |-> old.file,
                 frames |-> old.frames]
      BY <1>6 DEF Sessions
    <3> DEFINE mid == [old EXCEPT !.frames = both]
    <3>2. mid = [kind |-> old.kind, open |-> old.open, by |-> old.by, file |-> old.file,
                 frames |-> both]
      BY <3>1
    <3>3. s = [mid EXCEPT !.open = FALSE]
      BY <2>2
    <3> HIDE DEF mid
    <3> QED
      BY <3>2, <3>3
  <2>4. s.file = old.file /\ s.frames = both
    BY <2>3
  <2>5. s \in Sessions
    BY <1>6, <2>1, <2>3 DEF Sessions
  <2> QED
    BY <2>1, <2>4, <2>5 DEF both
<1> HIDE DEF s
<1>8. Prefix(s)
  <2>1. Len(f) \in 0..Len(s.file)
    BY <1>2, <1>7
  <2> QED
    BY <2>1, <1>3, <1>7 DEF Prefix, Imported
<1> QED
  BY <1>1, <1>4, <1>5, <1>7, <1>8, OneSessionWritten DEF Importing

(* A failed import writes nothing more.                                    *)
LEMMA NothingWritten ==
  ASSUME ControlInv, ImportInv, NEW t \in Threads, ImportFails(t)
  PROVE  ImportInv'
<1> DEFINE s == [sessions[req[t].session] EXCEPT !.open = FALSE]
<1>1. Importing(t) /\ Answer(t) /\ RequestsOK
  BY DEF ImportFails, Importing, ControlInv
<1>2. req'[t].pc = "idle" /\ \A u \in Threads \ {t} : req'[u] = req[u]
  BY <1>1, Answered DEF Idle, At
<1>3. sessions' = [sessions EXCEPT ![req[t].session] = s]
  BY DEF ImportFails, ImportSession
<1>4. /\ sessions[req[t].session] \in Sessions /\ Prefix(sessions[req[t].session])
  BY <1>1, ImportSessionType DEF ImportInv
<1>5. /\ s \in Sessions /\ s.file = sessions[req[t].session].file
      /\ s.frames = sessions[req[t].session].frames
  BY <1>4 DEF Sessions
<1> HIDE DEF s
<1>6. Prefix(s)
  BY <1>4, <1>5 DEF Prefix, Imported
<1> QED
  BY <1>1, <1>2, <1>3, <1>5, <1>6, OneSessionWritten DEF Importing

LEMMA ImportStarted ==
  ASSUME ControlInv, ImportInv, NEW t \in Threads, ImportBegin(t)
  PROVE  ImportInv'
<1>1. PICK f \in Files :
        /\ sessions' = Opened("pcap", {t}, f)
        /\ req' = [req EXCEPT ![t] = [pc |-> "importing", kind |-> "import",
                                     session |-> Len(sessions) + 1, file |-> f, pos |-> 0]]
  BY DEF ImportBegin
<1>2. /\ req'[t].session = Len(sessions) + 1 /\ req'[t].file = f /\ req'[t].pos = 0
      /\ \A u \in Threads \ {t} : req'[u] = req[u]
  BY <1>1 DEF ControlInv, RequestsOK
<1>3. /\ Len(sessions') = Len(sessions) + 1
      /\ sessions'[Len(sessions) + 1].frames = <<>>
      /\ sessions'[Len(sessions) + 1].file = f
      /\ \A n \in 1..Len(sessions) : sessions'[n] = sessions[n]
  <2>1. {t} \in SUBSET Recorders /\ f \in FilesOrNone
    BY DEF Recorders, FilesOrNone
  <2> QED
    BY <1>1, <2>1, SessionOpened DEF ControlInv
<1>4. f \in Seq({"obs", "none", "bad", "cut"})
  BY ControlAssumption DEF ControlAssumption
<1>5. ASSUME NEW u \in Threads, Importing(u)'
      PROVE  \/ Importing(u) /\ req'[u] = req[u]
             \/ /\ req'[u].session = Len(sessions) + 1 /\ req'[u].pos = 0
                /\ req'[u].file = sessions'[Len(sessions) + 1].file
  BY <1>2, <1>3, <1>5 DEF Importing
<1> QED
  BY <1>3, <1>4, <1>5, SessionAdded

LEMMA LiveSessionStarted ==
  ASSUME ControlInv, ImportInv, NEW t \in Threads, StartSession(t)
  PROVE  ImportInv'
<1>1. /\ req'[t].pc # "importing" /\ \A u \in Threads \ {t} : req'[u] = req[u]
  BY DEF StartSession, Goto, ControlInv, RequestsOK, Requests
<1>2. /\ Len(sessions') = Len(sessions) + 1
      /\ sessions'[Len(sessions) + 1].frames = <<>>
      /\ sessions'[Len(sessions) + 1].file = <<>>
      /\ \A n \in 1..Len(sessions) : sessions'[n] = sessions[n]
  <2>1. /\ {} \in SUBSET Recorders /\ <<>> \in FilesOrNone
        /\ sessions' = Opened("live", {}, <<>>)
    BY DEF StartSession, FilesOrNone
  <2> QED
    BY <2>1, SessionOpened DEF ControlInv
<1>3. <<>> \in Seq({"obs", "none", "bad", "cut"})
  OBVIOUS
<1>4. \A u \in Threads : Importing(u)' => Importing(u) /\ req'[u] = req[u]
  BY <1>1 DEF Importing
<1> QED
  BY <1>2, <1>3, <1>4, SessionAdded

(* All other steps leave what is imported alone.                           *)
LEMMA OtherSteps ==
  ASSUME ControlInv, ImportInv, UNCHANGED sessions,
         \A u \in Threads : Importing(u)' => Importing(u) /\ req'[u] = req[u]
  PROVE  ImportInv'
BY NoImportWritten

LEMMA ImportNext == ControlInv /\ ImportInv /\ [Next]_vars => ImportInv'
<1> SUFFICES ASSUME ControlInv, ImportInv, [Next]_vars PROVE ImportInv'
  OBVIOUS
<1>0. RequestsOK
  BY DEF ControlInv
<1>1. ASSUME NEW t \in Threads,
             StartCheck(t) \/ StartReset(t) \/ StartFails(t) \/ StartSpawn(t) \/ Stop(t)
      PROVE  ImportInv'
  <2>1. UNCHANGED sessions
    BY <1>1 DEF StartCheck, StartReset, StartFails, StartSpawn, Stop
  <2>2. \A u \in Threads : Importing(u)' => Importing(u) /\ req'[u] = req[u]
    BY <1>0, <1>1 DEF StartCheck, StartReset, StartFails, StartSpawn, Stop,
       Goto, Answer, Idle, At, Importing, RequestsOK, Requests
  <2> QED
    BY <2>1, <2>2, OtherSteps
<1>2. ASSUME NEW t \in Threads, StartSession(t) PROVE ImportInv'
  BY <1>2, LiveSessionStarted
<1>3. ASSUME NEW t \in Threads,
             ImportBegin(t) \/ ImportBatch(t) \/ ImportEnds(t) \/ ImportFails(t)
      PROVE  ImportInv'
  BY <1>3, ImportStarted, BatchWritten, RestWritten, NothingWritten
<1>4. ASSUME NEW t \in Threads,
             \/ UpdateCheck(t) \/ UpdateFails(t) \/ UpdateClears(t)
             \/ UpdateLoads(t) \/ UpdateRows(t)
      PROVE  ImportInv'
  <2>1. UNCHANGED sessions
    BY <1>4 DEF UpdateCheck, UpdateFails, UpdateClears, UpdateLoads, UpdateRows
  <2>2. \A u \in Threads : Importing(u)' => Importing(u) /\ req'[u] = req[u]
    BY <1>0, <1>4 DEF UpdateCheck, UpdateFails, UpdateClears, UpdateLoads, UpdateRows,
       Goto, Answer, Idle, At, Importing, RequestsOK, Requests
  <2> QED
    BY <2>1, <2>2, OtherSteps
<1>5. ASSUME NEW c \in 1..MaxReaders, ReaderStops(c) PROVE ImportInv'
  BY <1>5, OtherSteps DEF ReaderStops, Importing
<1>6. ASSUME NEW c \in 1..MaxReaders, ReaderEnds(c) PROVE ImportInv'
  <2>1. session_id \in 1..Len(sessions)
    <3>1. c \in Live
      BY <1>6 DEF ReaderEnds, Live
    <3> QED
      BY <3>1 DEF ControlInv, LiveOK, Types
  <2> DEFINE s == [sessions[session_id] EXCEPT !.open = FALSE]
  <2>2. sessions[session_id] \in Sessions
    BY <2>1 DEF ControlInv, Types
  <2>3. /\ s \in Sessions /\ s.file = sessions[session_id].file
        /\ s.frames = sessions[session_id].frames
    BY <2>2 DEF Sessions
  <2>4. sessions' = [sessions EXCEPT ![session_id] = s] /\ req' = req
    BY <1>6 DEF ReaderEnds, LiveSession
  <2> HIDE DEF s
  <2>5. /\ Len(sessions') = Len(sessions) /\ sessions'[session_id] = s
        /\ \A n \in 1..Len(sessions) : n # session_id => sessions'[n] = sessions[n]
    BY <2>1, <2>3, <2>4, Rewritten DEF ControlInv
  <2> QED
    BY <2>3, <2>4, <2>5, NoImportWritten DEF Importing
<1>7. ASSUME NEW w \in Recorders, LookUp(w) PROVE ImportInv'
  BY <1>7, OtherSteps DEF LookUp, Importing
<1>8. ASSUME NEW w \in Recorders, WriteRow(w) PROVE ImportInv'
  <2>1. req' = req
    BY <1>8 DEF WriteRow
  <2> QED
    BY <1>8, <2>1, RowWritten, NoImportWritten DEF Importing
<1>9. CASE ControlNext
  BY <1>9, <1>1, <1>2, <1>3, <1>4, <1>5, <1>6, <1>7, <1>8 DEF ControlNext
<1>10. CASE UNCHANGED controlVars
  BY <1>10, OtherSteps DEF controlVars, Importing
<1>11. CASE Relaunch
  <2>1. UNCHANGED sessions /\ \A u \in Threads : req'[u].pc = "idle"
    BY <1>11 DEF Relaunch, Idle, At
  <2> QED
    BY <2>1, OtherSteps DEF Importing
<1> QED
  BY <1>9, <1>10, <1>11 DEF Next, vars

(* An imported session holds the observations of its own file, in order    *)
(* and in whole batches, whatever runs besides it.                         *)
THEOREM ImportsTheirOwnFile == Spec => []ImportIsPrefix
<1>1. Init => ImportInv
  <2> SUFFICES ASSUME Init PROVE ImportInv
    OBVIOUS
  <2>1. sessions = <<>> /\ \A t \in Threads : req[t].pc = "idle"
    BY DEF Init, ControlInit, Idle, At
  <2> QED
    BY <2>1 DEF ImportInv, Importing
<1>2. ControlInv /\ ImportInv => ImportIsPrefix
  <2> SUFFICES ASSUME ControlInv, ImportInv PROVE ImportIsPrefix
    OBVIOUS
  <2>1. DOMAIN sessions = 1..Len(sessions)
    BY DEF ControlInv, Types
  <2> QED
    BY <2>1 DEF ImportInv, Prefix, Imported, ImportIsPrefix
<1> QED
  BY <1>1, <1>2, ImportNext, ControlInvariance, PTL DEF Spec
=============================================================================
